---------------------------- MODULE ExpirySweep ----------------------------
(***************************************************************************)
(* Items with a time to live: ExpiredItemsCleanupService, which removes    *)
(* the expired ones, ExpiredItemsWakeSignal, which it sleeps on, and the   *)
(* uploads that wake it (the ends of UpsertItem and of a transfer).        *)
(*                                                                         *)
(* Time is relative: every instant the code stores is kept as the time     *)
(* left until it, and 0 once it has passed, so that no clock needs a       *)
(* bound.  Task.Delay may be late, hence Tick never waits for anybody.     *)
(***************************************************************************)
EXTENDS Integers

CONSTANTS
  Items,          \* item ids
  Requests,       \* slots for the uploads in flight
  MaxTtl,         \* longest time to live
  SweepInterval,  \* SweepInterval, one hour
  Ops,            \* what clients do: "add", "renew", "delete"
  Faults,         \* what may go wrong: "db", "crash"
  NoItem, Forever, NoWake

ASSUME ExpirySweepAssumption ==
  /\ MaxTtl \in Nat
  /\ SweepInterval \in Nat \ {0}
  /\ Ops \subseteq {"add", "renew", "delete"}
  /\ Faults \subseteq {"db", "crash"}
  /\ NoItem \notin Nat \cup {Forever}
  /\ Forever \notin Nat
  /\ NoWake \notin Nat

VARIABLES
  ttl,      \* ttl[i]: time until item i expires, Forever, or NoItem
  pending,  \* nextRequestedWakeUtc
  permit,   \* the count of the semaphore signal, 0 or 1
  svc,      \* the cleanup service
  req       \* req[r]: an upload between its commit and its response

vars == <<ttl, pending, permit, svc, req>>

Times == 0..MaxTtl

(***************************************************************************)
(* The service goes round query, load, save (CleanupAsync), arm, register, *)
(* wait, cancel, clear (WaitAsync).  batch is the set of ids it is about   *)
(* to remove, timer the rest of Task.Delay, and signalled tells whether    *)
(* the wait on the semaphore has completed.                                *)
(***************************************************************************)
SvcPcs == {"query", "load", "save", "arm", "register", "wait", "cancel", "clear"}
Service == [pc : SvcPcs, batch : SUBSET Items, timer : 0..SweepInterval,
            signalled : BOOLEAN]
Started == [pc |-> "query", batch |-> {}, timer |-> 0, signalled |-> FALSE]

Upload == [pc : {"request", "release"}, expiry : Times]
Idle == [pc |-> "idle"]

-----------------------------------------------------------------------------
(***************************************************************************)
(* Uploads and deletions.                                                  *)
(***************************************************************************)

\* The commit of an upload, new or over an existing item. Its TTL counts from
\* SharedAt, which was taken before the commit.
Share(r, i, t) ==
  /\ req[r] = Idle
  /\ IF ttl[i] = NoItem THEN "add" \in Ops ELSE "renew" \in Ops
  /\ ttl' = [ttl EXCEPT ![i] = t]
  /\ req' = IF t = Forever THEN req
            ELSE [req EXCEPT ![r] = [pc |-> "request", expiry |-> t]]
  /\ UNCHANGED <<pending, permit, svc>>

\* A sooner wake-up is already pending.
Covered(expiry) == pending # NoWake /\ pending <= expiry

\* RequestWakeAt, inside the gate.
RequestWakeAt(r) ==
  /\ req[r].pc = "request"
  /\ IF Covered(req[r].expiry)
       THEN /\ req' = [req EXCEPT ![r] = Idle]
            /\ UNCHANGED pending
       ELSE /\ req' = [req EXCEPT ![r].pc = "release"]
            /\ pending' = req[r].expiry
  /\ UNCHANGED <<ttl, permit, svc>>

\* A wait on the semaphore is there to take the permit until it is cancelled,
\* even if WhenAny has returned by then.
Listening == svc.pc \in {"wait", "cancel"} /\ ~svc.signalled

\* Mutant: a semaphore without a maximum.
Uncapped == permit + 1

\* SemaphoreSlim(0, 1): a release too many throws SemaphoreFullException.
Capped == 1

\* signal.Release, outside of the gate.
Release(r) ==
  /\ req[r].pc = "release"
  /\ IF Listening
       THEN svc' = [svc EXCEPT !.signalled = TRUE] /\ UNCHANGED permit
       ELSE permit' = Capped /\ UNCHANGED svc
  /\ req' = [req EXCEPT ![r] = Idle]
  /\ UNCHANGED <<ttl, pending>>

\* A client deletes an item, or moves it away.
Delete(i) ==
  /\ "delete" \in Ops
  /\ ttl[i] # NoItem
  /\ ttl' = [ttl EXCEPT ![i] = NoItem]
  /\ UNCHANGED <<pending, permit, svc, req>>

-----------------------------------------------------------------------------
(***************************************************************************)
(* CleanupAsync.                                                           *)
(***************************************************************************)

\* SpaceItemExpiry.IsExpired.
Expired(i) == ttl[i] = 0

\* The first query collects the ids of the expired items.
Query ==
  /\ svc.pc = "query"
  /\ LET ids == {i \in Items : Expired(i)}
     IN svc' = [svc EXCEPT !.pc = IF ids = {} THEN "arm" ELSE "load", !.batch = ids]
  /\ UNCHANGED <<ttl, pending, permit, req>>

\* The second loads the rows that still have these ids.
Load ==
  /\ svc.pc = "load"
  /\ LET rows == {i \in svc.batch : ttl[i] # NoItem}
     IN svc' = [svc EXCEPT !.pc = IF rows = {} THEN "arm" ELSE "save", !.batch = rows]
  /\ UNCHANGED <<ttl, pending, permit, req>>

\* SaveChanges deletes the whole batch, or nothing when a row is gone
\* (DbUpdateConcurrencyException, logged by ExecuteAsync).
RemoveBatch ==
  /\ svc.pc = "save"
  /\ \A i \in svc.batch : ttl[i] # NoItem
  /\ ttl' = [i \in Items |-> IF i \in svc.batch THEN NoItem ELSE ttl[i]]
  /\ svc' = [svc EXCEPT !.pc = "arm", !.batch = {}]
  /\ UNCHANGED <<pending, permit, req>>

CleanupFails ==
  /\ \/ svc.pc = "save" /\ \E i \in svc.batch : ttl[i] = NoItem
     \/ svc.pc \in {"query", "load", "save"} /\ "db" \in Faults
  /\ svc' = [svc EXCEPT !.pc = "arm", !.batch = {}]
  /\ UNCHANGED <<ttl, pending, permit, req>>

-----------------------------------------------------------------------------
(***************************************************************************)
(* WaitAsync.                                                              *)
(***************************************************************************)

\* Mutant: the pending request is not looked at.
DefaultDelay == SweepInterval

\* The first lock block.
Delay == IF pending # NoWake /\ pending < SweepInterval THEN pending ELSE SweepInterval

Arm ==
  /\ svc.pc = "arm"
  /\ svc' = [svc EXCEPT !.pc = "register", !.timer = Delay]
  /\ UNCHANGED <<ttl, pending, permit, req>>

\* signal.WaitAsync completes at once if there is a permit.
Register ==
  /\ svc.pc = "register"
  /\ svc' = [svc EXCEPT !.pc = "wait", !.signalled = (permit = 1)]
  /\ permit' = 0
  /\ UNCHANGED <<ttl, pending, req>>

\* Mutant: only the semaphore is waited for.
SignalArrived == svc.signalled

\* Task.WhenAny returns.
Awoken == svc.timer = 0 \/ svc.signalled

Wake ==
  /\ svc.pc = "wait"
  /\ Awoken
  /\ svc' = [svc EXCEPT !.pc = "cancel"]
  /\ UNCHANGED <<ttl, pending, permit, req>>

CancelWait ==
  /\ svc.pc = "cancel"
  /\ svc' = [svc EXCEPT !.pc = "clear", !.signalled = FALSE, !.timer = 0]
  /\ UNCHANGED <<ttl, pending, permit, req>>

\* The request the service has woken for, or overslept.
Served == pending = 0

\* The last lock block.
ClearRequest ==
  /\ svc.pc = "clear"
  /\ pending' = IF Served THEN NoWake ELSE pending
  /\ svc' = [svc EXCEPT !.pc = "query"]
  /\ UNCHANGED <<ttl, permit, req>>

-----------------------------------------------------------------------------
\* The server stops and starts again; only the rows survive.
Restart ==
  /\ "crash" \in Faults
  /\ pending' = NoWake
  /\ permit' = 0
  /\ svc' = Started
  /\ req' = [r \in Requests |-> Idle]
  /\ UNCHANGED ttl

Less(t) == IF t \in Nat \ {0} THEN t - 1 ELSE t

\* A unit of time passes.
Tick ==
  /\ ttl' = [i \in Items |-> Less(ttl[i])]
  /\ pending' = Less(pending)
  /\ svc' = [svc EXCEPT !.timer = Less(svc.timer)]
  /\ req' = [r \in Requests |->
       IF req[r] = Idle THEN Idle ELSE [req[r] EXCEPT !.expiry = Less(req[r].expiry)]]
  /\ UNCHANGED permit

Init ==
  /\ ttl = [i \in Items |-> NoItem]
  /\ pending = NoWake
  /\ permit = 0
  /\ svc = Started
  /\ req = [r \in Requests |-> Idle]

Cleanup == Query \/ Load \/ RemoveBatch \/ CleanupFails
Wait    == Arm \/ Register \/ Wake \/ CancelWait \/ ClearRequest

Next ==
  \/ \E r \in Requests, i \in Items, t \in Times \cup {Forever} : Share(r, i, t)
  \/ \E r \in Requests : RequestWakeAt(r) \/ Release(r)
  \/ \E i \in Items : Delete(i)
  \/ Cleanup
  \/ Wait
  \/ Restart
  \/ Tick

Spec == Init /\ [][Next]_vars

\* The host runs the service, and time passes.
FairSpec == Spec /\ WF_vars(Cleanup \/ Wait) /\ WF_vars(Tick)

-----------------------------------------------------------------------------
TypeOK ==
  /\ ttl \in [Items -> Times \cup {Forever, NoItem}]
  /\ pending \in Times \cup {NoWake}
  /\ permit \in {0, 1}
  /\ svc \in Service
  /\ req \in [Requests -> Upload \cup {Idle}]

Releasing == \E r \in Requests : req[r].pc = "release"

\* The service never sleeps past the wake-up that is pending: its delay ends by
\* then, or the semaphore has been or is about to be released (RequestWakeAt
\* against WaitAsync, which lock the gate in turn but not together).
NoLostWake ==
  svc.pc \in {"register", "wait"} /\ pending # NoWake =>
    \/ svc.timer <= pending
    \/ svc.signalled \/ permit = 1
    \/ Releasing

\* Any of these can spoil every single batch, again and again.
Disturbance == CleanupFails \/ Restart \/ \E i \in Items : Delete(i)

\* Once no batch is disturbed any more, an expired item does not stay: it is
\* removed, or shared again (ExecuteAsync, however the sweeps before ended).
ExpiredRemoved ==
  <>[][~Disturbance]_vars => \A i \in Items : Expired(i) ~> ~Expired(i)
=============================================================================
