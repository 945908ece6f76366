------------------------ MODULE ExpirySweep_proofs ------------------------
(***************************************************************************)
(* The wake-up that is pending is never slept through, for any number of   *)
(* items and uploads and any sweep interval.                               *)
(***************************************************************************)
EXTENDS ExpirySweep, TLAPS

USE DEF Times

\* Time left never grows, and keeps its order: what Tick does to two instants.
LEMMA LessOrder ==
  ASSUME NEW s \in Nat, NEW t \in Nat, s <= t
  PROVE  Less(s) \in Nat /\ Less(s) <= s /\ Less(s) <= Less(t)
BY DEF Less

\* Marks that stand for no instant do not change as time passes.
LEMMA LessMarks ==
  /\ Less(NoWake) = NoWake
  /\ Less(NoItem) = NoItem
  /\ Less(Forever) = Forever
BY ExpirySweepAssumption DEF Less

LEMMA LessTimes ==
  ASSUME NEW n \in Nat, NEW t \in 0..n
  PROVE  Less(t) \in 0..n
BY DEF Less

LEMMA DelayType ==
  ASSUME TypeOK
  PROVE  Delay \in 0..SweepInterval
BY ExpirySweepAssumption DEF TypeOK, Delay

\* The steps of the service change its record field by field.
LEMMA CleanupType ==
  ASSUME TypeOK, Cleanup
  PROVE  /\ svc' \in Service
         /\ svc'.pc \in {"load", "save", "arm"}
         /\ svc'.signalled = svc.signalled
<1>1. svc \in Service
  BY DEF TypeOK
<1>2. CASE Query
  <2>1. PICK pc \in {"arm", "load"}, ids \in SUBSET Items :
          svc' = [svc EXCEPT !.pc = pc, !.batch = ids]
    BY <1>2 DEF Query
  <2>. QED
    BY <1>1, <2>1 DEF Service, SvcPcs
<1>3. CASE Load
  <2>1. PICK pc \in {"arm", "save"}, ids \in SUBSET Items :
          svc' = [svc EXCEPT !.pc = pc, !.batch = ids]
    BY <1>1, <1>3 DEF Load, Service
  <2>. QED
    BY <1>1, <2>1 DEF Service, SvcPcs
<1>4. CASE RemoveBatch \/ CleanupFails
  BY <1>1, <1>4 DEF RemoveBatch, CleanupFails, Service, SvcPcs
<1>. QED
  BY <1>2, <1>3, <1>4 DEF Cleanup

\* What Register writes, by the permit it found.
LEMMA RegisterTakes ==
  ASSUME TypeOK, Register
  PROVE  /\ svc' \in Service
         /\ svc'.timer = svc.timer
         /\ permit = 1 => svc'.signalled
<1>2. ASSUME permit = 1 PROVE (permit = 1) = TRUE
  BY <1>2
<1>3. ASSUME permit # 1 PROVE (permit = 1) = FALSE
  BY <1>3
<1>4. CASE permit = 1
  <2>1. svc' = [svc EXCEPT !.pc = "wait", !.signalled = TRUE]
    BY <1>2, <1>4, Zenon DEF Register
  <2>. QED
    BY <2>1 DEF TypeOK, Service, SvcPcs
<1>5. CASE permit # 1
  <2>1. svc' = [svc EXCEPT !.pc = "wait", !.signalled = FALSE]
    BY <1>3, <1>5, Zenon DEF Register
  <2>. QED
    BY <1>5, <2>1 DEF TypeOK, Service, SvcPcs
<1>. QED
  BY <1>4, <1>5

LEMMA WaitType ==
  ASSUME TypeOK, Wait
  PROVE  svc' \in Service
<1>1. svc \in Service
  BY DEF TypeOK
<1>2. CASE Arm
  BY <1>1, <1>2, DelayType DEF Arm, Service, SvcPcs
<1>3. CASE Register
  BY <1>3, RegisterTakes
<1>4. CASE Wake \/ ClearRequest
  BY <1>1, <1>4 DEF Wake, ClearRequest, Service, SvcPcs
<1>5. CASE CancelWait
  <2>1. 0 \in 0..SweepInterval
    BY ExpirySweepAssumption
  <2>2. svc' = [pc |-> "clear", batch |-> svc.batch, timer |-> 0, signalled |-> FALSE]
    BY <1>1, <1>5 DEF CancelWait, Service
  <2>. QED
    BY <1>1, <2>1, <2>2 DEF Service, SvcPcs
<1>. QED
  BY <1>2, <1>3, <1>4, <1>5 DEF Wait

LEMMA TypeInit == Init => TypeOK
BY ExpirySweepAssumption DEF Init, TypeOK, Started, Service, SvcPcs

LEMMA TypeStep == TypeOK /\ [Next]_vars => TypeOK'
<1> SUFFICES ASSUME TypeOK, [Next]_vars PROVE TypeOK'
  OBVIOUS
<1> USE ExpirySweepAssumption
<1>1. ASSUME NEW r \in Requests, NEW i \in Items, NEW t \in Times \cup {Forever},
             Share(r, i, t)
      PROVE  TypeOK'
  BY <1>1 DEF Share, TypeOK, Upload
<1>2. ASSUME NEW r \in Requests, RequestWakeAt(r) PROVE TypeOK'
  <2>1. req[r] \in Upload
    BY <1>2 DEF RequestWakeAt, TypeOK, Idle
  <2>2. pending' \in Times \cup {NoWake}
    BY <1>2, <2>1 DEF RequestWakeAt, TypeOK, Upload
  <2>3. req' \in [Requests -> Upload \cup {Idle}]
    BY <1>2, <2>1 DEF RequestWakeAt, TypeOK, Upload
  <2>. QED
    BY <1>2, <2>2, <2>3 DEF RequestWakeAt, TypeOK
<1>3. ASSUME NEW r \in Requests, Release(r) PROVE TypeOK'
  <2>1. svc' \in Service
    BY <1>3 DEF Release, TypeOK, Service
  <2>2. permit' \in {0, 1}
    BY <1>3 DEF Release, TypeOK, Capped
  <2>. QED
    BY <1>3, <2>1, <2>2 DEF Release, TypeOK
<1>4. ASSUME NEW i \in Items, Delete(i) PROVE TypeOK'
  BY <1>4 DEF Delete, TypeOK
<1>5. CASE Cleanup
  <2>1. svc' \in Service
    BY <1>5, CleanupType
  <2>2. ttl' \in [Items -> Times \cup {Forever, NoItem}]
    BY <1>5 DEF Cleanup, Query, Load, RemoveBatch, CleanupFails, TypeOK
  <2>. QED
    BY <1>5, <2>1, <2>2 DEF Cleanup, Query, Load, RemoveBatch, CleanupFails, TypeOK
<1>6. CASE Wait
  <2>1. svc' \in Service
    BY <1>6, WaitType
  <2>. QED
    BY <1>6, <2>1 DEF Wait, Arm, Register, Wake, CancelWait, ClearRequest, TypeOK
<1>7. CASE Restart
  BY <1>7 DEF Restart, TypeOK, Started, Service, SvcPcs
<1>8. CASE Tick
  <2>1. \A i \in Items : Less(ttl[i]) \in Times \cup {Forever, NoItem}
    BY LessMarks, LessTimes DEF TypeOK
  <2>2. ttl' \in [Items -> Times \cup {Forever, NoItem}]
    BY <1>8, <2>1 DEF Tick
  <2>3. pending' \in Times \cup {NoWake}
    BY <1>8, LessMarks, LessTimes DEF Tick, TypeOK
  <2>4. Less(svc.timer) \in 0..SweepInterval
    BY LessTimes DEF TypeOK, Service
  <2>5. svc' \in Service
    BY <1>8, <2>4 DEF Tick, TypeOK, Service
  <2>6. ASSUME NEW r \in Requests, req[r] # Idle
        PROVE  [req[r] EXCEPT !.expiry = Less(req[r].expiry)] \in Upload
    <3>1. req[r] \in Upload
      BY <2>6 DEF TypeOK
    <3>2. Less(req[r].expiry) \in Times
      BY <3>1, LessTimes DEF Upload
    <3>. QED
      BY <3>1, <3>2 DEF Upload
  <2>7. req' \in [Requests -> Upload \cup {Idle}]
    BY <1>8, <2>6 DEF Tick
  <2>. QED
    BY <1>8, <2>2, <2>3, <2>5, <2>7 DEF Tick, TypeOK
<1>9. CASE UNCHANGED vars
  BY <1>9 DEF vars, TypeOK
<1>. QED
  BY <1>1, <1>2, <1>3, <1>4, <1>5, <1>6, <1>7, <1>8, <1>9 DEF Next

\* The variables of the service, the wake signal and the uploads keep their types.
THEOREM TypeCorrect == Spec => []TypeOK
BY TypeInit, TypeStep, PTL DEF Spec

-----------------------------------------------------------------------------
\* The semaphore is waited for only while the service sleeps.
HeardAwake == svc.signalled => svc.pc \in {"wait", "cancel"}

LEMMA HeardInit == Init => HeardAwake
BY DEF Init, HeardAwake, Started

LEMMA HeardStep == TypeOK /\ HeardAwake /\ [Next]_vars => HeardAwake'
<1> SUFFICES ASSUME TypeOK, HeardAwake, [Next]_vars PROVE HeardAwake'
  OBVIOUS
<1>1. ASSUME NEW r \in Requests, Release(r) PROVE HeardAwake'
  BY <1>1 DEF Release, Listening, HeardAwake, TypeOK, Service
<1>2. CASE Cleanup
  <2>1. svc.pc \in {"query", "load", "save"}
    BY <1>2 DEF Cleanup, Query, Load, RemoveBatch, CleanupFails
  <2>. QED
    BY <1>2, <2>1, CleanupType DEF HeardAwake
<1>3. CASE Register
  BY <1>3 DEF Register, HeardAwake, TypeOK, Service
<1>4. CASE Arm \/ Wake \/ CancelWait \/ ClearRequest
  BY <1>4 DEF Arm, Wake, CancelWait, ClearRequest, HeardAwake, TypeOK, Service
<1>5. CASE Restart
  BY <1>5 DEF Restart, Started, HeardAwake
<1>6. CASE Tick
  BY <1>6 DEF Tick, HeardAwake, TypeOK, Service
<1>7. CASE UNCHANGED svc
  BY <1>7 DEF HeardAwake
<1>. QED
  BY <1>1, <1>2, <1>3, <1>4, <1>5, <1>6, <1>7
  DEF Next, Wait, Share, RequestWakeAt, Delete, vars

LEMMA WakeInit == Init => NoLostWake
BY DEF Init, NoLostWake, Started

\* No step lets the service sleep past a pending request: the delay was computed
\* from it, or the semaphore was released for it.
LEMMA WakeStep == TypeOK /\ HeardAwake /\ NoLostWake /\ [Next]_vars => NoLostWake'
<1> SUFFICES ASSUME TypeOK, HeardAwake, NoLostWake, [Next]_vars PROVE NoLostWake'
  OBVIOUS
<1> USE ExpirySweepAssumption
<1>1. ASSUME NEW r \in Requests, NEW i \in Items, NEW t \in Times \cup {Forever},
             Share(r, i, t)
      PROVE  NoLostWake'
  <2>1. ASSUME NEW q \in Requests, req[q].pc = "release" PROVE req'[q].pc = "release"
    BY <1>1, <2>1 DEF Share, TypeOK, Idle
  <2>2. Releasing => Releasing'
    BY <2>1 DEF Releasing
  <2>. QED
    BY <1>1, <2>2 DEF Share, NoLostWake
<1>2. ASSUME NEW r \in Requests, RequestWakeAt(r) PROVE NoLostWake'
  <2>1. CASE Covered(req[r].expiry)
    <3>1. ASSUME NEW q \in Requests, req[q].pc = "release" PROVE req'[q].pc = "release"
      BY <1>2, <2>1, <3>1 DEF RequestWakeAt, TypeOK
    <3>2. Releasing => Releasing'
      BY <3>1 DEF Releasing
    <3>. QED
      BY <1>2, <2>1, <3>2 DEF RequestWakeAt, NoLostWake
  <2>2. CASE ~Covered(req[r].expiry)
    <3>1. req[r] \in Upload
      BY <1>2 DEF RequestWakeAt, TypeOK, Idle
    <3>2. req'[r].pc = "release"
      BY <1>2, <2>2, <3>1 DEF RequestWakeAt, TypeOK, Upload
    <3>. QED
      BY <3>2 DEF Releasing, NoLostWake
  <2>. QED
    BY <2>1, <2>2
<1>3. ASSUME NEW r \in Requests, Release(r) PROVE NoLostWake'
  <2>1. CASE Listening
    BY <1>3, <2>1 DEF Release, NoLostWake, Listening, TypeOK, Service
  <2>2. CASE ~Listening
    BY <1>3, <2>2 DEF Release, NoLostWake, Capped
  <2>. QED
    BY <2>1, <2>2
<1>4. ASSUME NEW i \in Items, Delete(i) PROVE NoLostWake'
  BY <1>4 DEF Delete, NoLostWake, Releasing
<1>5. CASE Cleanup
  BY <1>5, CleanupType DEF NoLostWake
<1>6. CASE Wait
  <2>1. CASE Arm
    <3>1. pending # NoWake => Delay <= pending
      BY DEF Delay, TypeOK
    <3>. QED
      BY <2>1, <3>1 DEF Arm, NoLostWake, TypeOK, Service
  <2>2. CASE Register
    <3>1. pending' = pending /\ req' = req /\ svc.pc = "register"
      BY <2>2 DEF Register
    <3>2. svc'.timer = svc.timer /\ (permit = 1 => svc'.signalled)
      BY <2>2, RegisterTakes
    <3>3. ~svc.signalled
      BY <3>1 DEF HeardAwake
    <3>. QED
      BY <3>1, <3>2, <3>3 DEF NoLostWake, Releasing
  <2>3. CASE Wake \/ CancelWait \/ ClearRequest
    BY <2>3 DEF Wake, CancelWait, ClearRequest, NoLostWake, TypeOK, Service
  <2>. QED
    BY <1>6, <2>1, <2>2, <2>3 DEF Wait
<1>7. CASE Restart
  BY <1>7 DEF Restart, NoLostWake
<1>8. CASE Tick
  <2>1. SUFFICES ASSUME svc'.pc \in {"register", "wait"}, pending' # NoWake
                 PROVE  \/ svc'.timer <= pending'
                        \/ svc'.signalled \/ permit' = 1
                        \/ Releasing'
    BY DEF NoLostWake
  <2>2. svc.pc = svc'.pc /\ svc.signalled = svc'.signalled /\ svc'.timer = Less(svc.timer)
    BY <1>8 DEF Tick, TypeOK, Service
  <2>3. pending # NoWake /\ pending' = Less(pending)
    BY <1>8, <2>1, LessMarks DEF Tick
  <2>4. ASSUME NEW r \in Requests PROVE req'[r].pc = req[r].pc
    BY <1>8 DEF Tick, TypeOK, Upload
  <2>5. Releasing => Releasing'
    BY <2>4 DEF Releasing
  <2>6. svc.timer <= pending => svc'.timer <= pending'
    BY <2>2, <2>3, LessOrder DEF TypeOK, Service
  <2>. QED
    BY <1>8, <2>1, <2>2, <2>3, <2>5, <2>6 DEF Tick, NoLostWake
<1>9. CASE UNCHANGED vars
  BY <1>9 DEF vars, NoLostWake, Releasing
<1>. QED
  BY <1>1, <1>2, <1>3, <1>4, <1>5, <1>6, <1>7, <1>8, <1>9 DEF Next

\* The service never sleeps past a pending wake-up, whatever the order in which
\* RequestWakeAt and WaitAsync take and leave the gate.
THEOREM WakesAreKept == Spec => []NoLostWake
BY TypeInit, TypeStep, HeardInit, HeardStep, WakeInit, WakeStep, PTL DEF Spec
=============================================================================
