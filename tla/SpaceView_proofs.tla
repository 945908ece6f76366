-------------------------- MODULE SpaceView_proofs --------------------------
(***************************************************************************)
(* Theorems about SpaceView, for any number of items, of loads that run at *)
(* once and of faults.                                                     *)
(***************************************************************************)
EXTENDS SpaceView, TLAPS

Lists == SUBSET Items

-----------------------------------------------------------------------------
(***************************************************************************)
(* Tasks.                                                                  *)
(***************************************************************************)
\* What a task knows, by how far it has come.
LEMMA Shapes ==
  ASSUME NEW t \in Tasks
  PROVE  /\ t = Idle <=> t.pc = "idle"
         /\ t = Failed <=> t.pc = "failed"
         /\ t.pc \in {"idle", "failed", "prepare", "cache", "journal", "delta", "items",
                      "listed", "ack", "stop", "start"}
         /\ t.pc = "cache" => t.list \in Lists \cup {None}
         /\ t.pc = "delta" => t.added \in Lists /\ t.upto \in Lists
         /\ t.pc = "items" => t.upto \in Lists \cup {None}
         /\ t.pc = "ack" => t.upto \in Lists
         /\ t.pc = "listed" => t.list \in Lists /\ t.upto \in Lists \cup {None}
BY DEF Tasks, Idle, Failed, Lists

\* The tasks the actions make.
LEMMA Kinds ==
  ASSUME NEW list \in Lists \cup {None}, NEW upto \in Lists \cup {None}
  PROVE  /\ Idle \in Tasks /\ Failed \in Tasks
         /\ [pc |-> "prepare"] \in Tasks /\ [pc |-> "journal"] \in Tasks
         /\ [pc |-> "stop"] \in Tasks /\ [pc |-> "start"] \in Tasks
         /\ [pc |-> "cache", list |-> list] \in Tasks
         /\ [pc |-> "items", upto |-> upto] \in Tasks
BY DEF Tasks, Lists

LEMMA MoreKinds ==
  ASSUME NEW list \in Lists, NEW upto \in Lists, NEW maybe \in Lists \cup {None}
  PROVE  /\ [pc |-> "delta", added |-> list, upto |-> upto] \in Tasks
         /\ [pc |-> "ack", upto |-> upto] \in Tasks
         /\ [pc |-> "listed", list |-> list, upto |-> maybe] \in Tasks
BY DEF Tasks, Lists

LEMMA NamedKinds ==
  ASSUME TypeOK
  PROVE  Idle \in Tasks /\ Failed \in Tasks /\ Cached \in Tasks /\ Full \in Tasks
         /\ \A k \in Runs : Synced(k) \in Tasks
<1>1. None \in Lists \cup {None} /\ cache \in Lists \cup {None}
  BY DEF TypeOK, Lists
<1>2. Idle \in Tasks /\ Failed \in Tasks /\ Cached \in Tasks /\ Full \in Tasks
      /\ [pc |-> "stop"] \in Tasks
  BY <1>1, Kinds DEF Cached, Full
<1>. QED
  BY <1>2 DEF Synced

LEMMA Continued ==
  ASSUME TypeOK, NEW k \in Runs, NEW t \in Tasks, Continue(k, t)
  PROVE  /\ task' \in [Runs -> Tasks] /\ task'[k] = t
         /\ \A r \in Runs : r # k => task'[r] = task[r]
BY DEF TypeOK, Continue

-----------------------------------------------------------------------------
(***************************************************************************)
(* Types.                                                                  *)
(***************************************************************************)
LEMMA TypeInit == Init => TypeOK
<1> SUFFICES ASSUME Init PROVE TypeOK
  OBVIOUS
<1> USE SpaceViewAssumption
<1>1. /\ 0 \in 0..MaxFaults /\ 0 \in 0..MaxActs /\ 0 \in 0..MaxToggles
      /\ state \in [Items -> {"new", "live", "gone"}]
  BY DEF Init
<1>2. task \in [Runs -> Tasks]
  <2>1. PICK k \in Loads : task = [r \in Runs |-> IF r = k THEN [pc |-> "prepare"] ELSE Idle]
    BY DEF Init
  <2>2. None \in Lists \cup {None}
    OBVIOUS
  <2>. QED
    BY <2>1, <2>2, Kinds
<1>. QED
  BY <1>1, <1>2 DEF Init, TypeOK

\* What an action may do to the timers, the list and the bounds.
LEMMA ScheduleTypes ==
  ASSUME TypeOK, NEW p, NEW q, NEW r \in BOOLEAN, Schedule(p, q, r)
  PROVE  requested' \in BOOLEAN /\ timer' \in BOOLEAN
<1>1. CASE p /\ q
  <2>1. requested' = TRUE /\ timer' = (timer \/ ~r)
    BY <1>1 DEF Schedule
  <2>2. (timer \/ ~r) \in BOOLEAN
    OBVIOUS
  <2>. QED
    BY <2>1, <2>2
<1>2. CASE ~(p /\ q)
  BY <1>2 DEF Schedule, TypeOK
<1>. QED
  BY <1>1, <1>2

LEMMA FinishTypes ==
  ASSUME TypeOK, NEW k, Finish(k)
  PROVE  requested' \in BOOLEAN /\ timer' \in BOOLEAN
<1>1. FALSE \in BOOLEAN
  OBVIOUS
<1>. QED
  BY <1>1, ScheduleTypes DEF Finish, TypeOK

LEMMA FaultTypes ==
  ASSUME TypeOK, NEW f, Fault(f)
  PROVE  faults' \in 0..MaxFaults
BY SpaceViewAssumption DEF Fault, TypeOK

LEMMA ActTypes ==
  ASSUME TypeOK, NEW op, Act(op)
  PROVE  acts' \in 0..MaxActs
BY SpaceViewAssumption DEF Act, TypeOK

LEMMA BroadcastTypes ==
  ASSUME TypeOK, NEW what \in {"added", "deleted"}, NEW i \in Items, Broadcast(what, i)
  PROVE  inbox' \subseteq {"added", "deleted"} \X Items
BY DEF Broadcast, TypeOK

LEMMA VerificationType ==
  ASSUME TypeOK, RunJournalVerification PROVE TypeOK'
<1>1. "verify" \in Runs
  BY DEF Runs
<1>2. task' \in [Runs -> Tasks]
  BY <1>1, NamedKinds DEF RunJournalVerification, TypeOK
<1>3. requested' \in BOOLEAN /\ timer' \in BOOLEAN
  BY DEF RunJournalVerification, TypeOK
<1>. QED
  BY <1>2, <1>3 DEF RunJournalVerification, TypeOK, world, stored, view

LEMMA KeepType ==
  ASSUME TypeOK, NEW k \in Runs, NEW list \in Lists, NEW upto \in Lists,
         CacheAndAcknowledge(k, list, upto)
  PROVE  cache' \in Lists \cup {None} /\ faults' \in 0..MaxFaults /\ task' \in [Runs -> Tasks]
<1>1. [pc |-> "ack", upto |-> upto] \in Tasks /\ Full \in Tasks
  <2>1. None \in Lists \cup {None}
    OBVIOUS
  <2>. QED
    BY <2>1, Kinds, MoreKinds DEF Full
<1>2. CASE cache' = list /\ Continue(k, [pc |-> "ack", upto |-> upto]) /\ UNCHANGED faults
  BY <1>1, <1>2, Continued DEF TypeOK
<1>3. CASE Fault("fail") /\ Continue(k, Full) /\ UNCHANGED cache
  BY <1>1, <1>3, Continued, FaultTypes DEF TypeOK, Lists
<1>. QED
  BY <1>2, <1>3 DEF CacheAndAcknowledge

LEMMA SyncType ==
  ASSUME TypeOK, NEW k \in Runs, Sync(k) PROVE TypeOK'
<1> USE DEF Lists
<1>1. task[k] \in Tasks
  BY DEF TypeOK
<1>2. CASE ReadCache(k)
  <2>1. task[k].list \in Lists \cup {None}
    BY <1>1, <1>2, Shapes DEF ReadCache
  <2>2. [pc |-> "journal"] \in Tasks
    BY <2>1, Kinds
  <2>3. task' \in [Runs -> Tasks]
    BY <1>2, <2>2, Continued DEF ReadCache
  <2>. QED
    BY <1>2, <2>1, <2>3 DEF ReadCache, TypeOK, world, stored
<1>3. CASE ServeJournal(k)
  <2> DEFINE known == IF acked = None THEN {} ELSE acked
  <2>1. known \in Lists /\ Shared \in Lists /\ Live \ known \in Lists
    BY DEF TypeOK, Shared, Live
  <2>2. /\ [pc |-> "delta", added |-> Live \ known, upto |-> Shared] \in Tasks
        /\ [pc |-> "items", upto |-> Shared] \in Tasks
    BY <2>1, Kinds, MoreKinds
  <2>3. task' \in [Runs -> Tasks]
    BY <1>3, <2>2, Continued DEF ServeJournal
  <2>4. acked' = known
    BY <1>3 DEF ServeJournal
  <2>. QED
    BY <1>3, <2>1, <2>3, <2>4 DEF ServeJournal, TypeOK, stored, view
<1>4. CASE ApplyJournalDelta(k)
  <2>1. task[k].added \in Lists /\ task[k].upto \in Lists
    BY <1>1, <1>4, Shapes DEF ApplyJournalDelta
  <2>2. shown' \in Lists
    BY <1>4, <2>1 DEF ApplyJournalDelta, TypeOK
  <2>3. cache' \in Lists \cup {None} /\ faults' \in 0..MaxFaults /\ task' \in [Runs -> Tasks]
    BY <1>4, <2>1, <2>2, KeepType DEF ApplyJournalDelta
  <2>. QED
    BY <1>4, <2>2, <2>3 DEF ApplyJournalDelta, TypeOK, world
<1>5. CASE ServeItems(k)
  <2>1. task[k].upto \in Lists \cup {None} /\ Live \in Lists
    BY <1>1, <1>5, Shapes DEF ServeItems, Live
  <2>2. [pc |-> "listed", list |-> Live, upto |-> task[k].upto] \in Tasks
    BY <2>1, MoreKinds
  <2>3. task' \in [Runs -> Tasks]
    BY <1>5, <2>2, Continued DEF ServeItems
  <2>. QED
    BY <1>5, <2>3 DEF ServeItems, TypeOK, world, stored, view
<1>6. CASE SetItems(k)
  <2>1. task[k].list \in Lists /\ task[k].upto \in Lists \cup {None} /\ shown' = task[k].list
    BY <1>1, <1>6, Shapes DEF SetItems
  <2>2. /\ cache' \in Lists \cup {None} /\ faults' \in 0..MaxFaults /\ task' \in [Runs -> Tasks]
        /\ requested' \in BOOLEAN /\ timer' \in BOOLEAN
    <3>1. CASE task[k].upto = None
      <4>1. Continue(k, Synced(k)) /\ Finish(k) /\ UNCHANGED <<faults, cache>>
        BY <1>6, <3>1 DEF SetItems
      <4>2. task' \in [Runs -> Tasks]
        BY <4>1, NamedKinds, Continued
      <4>. QED
        BY <4>1, <4>2, FinishTypes DEF TypeOK
    <3>2. CASE task[k].upto # None
      <4>1. CacheAndAcknowledge(k, shown', task[k].upto) /\ UNCHANGED <<requested, timer>>
        BY <1>6, <3>2 DEF SetItems
      <4>2. cache' \in Lists \cup {None} /\ faults' \in 0..MaxFaults /\ task' \in [Runs -> Tasks]
        BY <2>1, <3>2, <4>1, KeepType
      <4>. QED
        BY <4>1, <4>2 DEF TypeOK
    <3>. QED
      BY <3>1, <3>2
  <2>. QED
    BY <1>6, <2>1, <2>2 DEF SetItems, TypeOK, world
<1>7. CASE UpdateJournalCheckpoint(k)
  <2>1. task[k].upto \in Lists
    BY <1>1, <1>7, Shapes DEF UpdateJournalCheckpoint
  <2>2. task' \in [Runs -> Tasks] /\ requested' \in BOOLEAN /\ timer' \in BOOLEAN
    BY <1>7, NamedKinds, Continued, FinishTypes DEF UpdateJournalCheckpoint
  <2>3. acked' \in Lists \cup {None}
    BY <1>7, <2>1 DEF UpdateJournalCheckpoint, TypeOK
  <2>. QED
    BY <1>7, <2>2, <2>3 DEF UpdateJournalCheckpoint, TypeOK, stored, view
<1>8. CASE RequestFails(k)
  <2>1. PICK kind \in {"network", "auth"} :
          /\ Fault(IF kind = "auth" THEN "auth" ELSE "fail")
          /\ IF kind # "auth" /\ ~(task[k].pc = "items" /\ task[k].upto = None)
               THEN Continue(k, Full) /\ UNCHANGED <<error, requested, timer>>
               ELSE /\ error' = IF k \in Loads THEN kind ELSE error
                    /\ Continue(k, Failed) /\ Finish(k)
    BY <1>8 DEF RequestFails
  <2>2. task' \in [Runs -> Tasks] /\ faults' \in 0..MaxFaults
    BY <2>1, NamedKinds, Continued, FaultTypes
  <2>3. requested' \in BOOLEAN /\ timer' \in BOOLEAN
    BY <2>1, FinishTypes DEF TypeOK
  <2>4. error' \in {"none", "network", "auth"}
    BY <2>1 DEF TypeOK
  <2>. QED
    BY <1>8, <2>2, <2>3, <2>4 DEF RequestFails, TypeOK, world, stored
<1>. QED
  BY <1>2, <1>3, <1>4, <1>5, <1>6, <1>7, <1>8 DEF Sync

LEMMA ConnectionType ==
  ASSUME TypeOK, NEW k \in Runs,
         \/ Prepared(k) \/ StopSignalR(k) \/ StartSignalR(k)
         \/ ConnectionLost \/ Reconnected \/ Closed
         \/ HandleVisibilityChange \/ HandleOffline \/ HandleOnline
  PROVE  TypeOK'
<1>1. TRUE \in BOOLEAN /\ FALSE \in BOOLEAN /\ (~Rests("verify")) \in BOOLEAN
  OBVIOUS
<1>2. /\ [pc |-> "stop"] \in Tasks /\ [pc |-> "start"] \in Tasks
      /\ Idle \in Tasks /\ Cached \in Tasks /\ Full \in Tasks
  <2>1. None \in Lists \cup {None}
    OBVIOUS
  <2>. QED
    BY <2>1, NamedKinds, Kinds
<1>3. ASSUME ScheduleNow PROVE requested' \in BOOLEAN /\ timer' \in BOOLEAN
  BY <1>1, <1>3, ScheduleTypes DEF ScheduleNow, TypeOK
<1>4. CASE Prepared(k)
  <2>1. task' \in [Runs -> Tasks]
    BY <1>2, <1>4, Continued DEF Prepared
  <2>. QED
    BY <1>4, <2>1 DEF Prepared, TypeOK, world, stored
<1>5. CASE StopSignalR(k)
  <2>1. task' \in [Runs -> Tasks]
    BY <1>2, <1>5, Continued DEF StopSignalR
  <2>. QED
    BY <1>5, <2>1 DEF StopSignalR, TypeOK, stored
<1>6. CASE StartSignalR(k)
  <2>1. task' \in [Runs -> Tasks]
    BY <1>2, <1>6, Continued DEF StartSignalR
  <2>2. /\ requested' \in BOOLEAN /\ timer' \in BOOLEAN /\ faults' \in 0..MaxFaults
        /\ hub' \in {"connected", "disconnected"}
    <3>1. CASE hub' = "connected" /\ ScheduleNow /\ UNCHANGED faults
      BY <1>3, <3>1 DEF TypeOK
    <3>2. CASE Fault("drop") /\ hub' = "disconnected" /\ UNCHANGED <<requested, timer>>
      BY <3>2, FaultTypes DEF TypeOK
    <3>. QED
      BY <1>6, <3>1, <3>2 DEF StartSignalR
  <2>. QED
    BY <1>6, <2>1, <2>2 DEF StartSignalR, TypeOK, world, stored
<1>7. CASE ConnectionLost
  BY <1>7, FaultTypes DEF ConnectionLost, TypeOK, stored, running
<1>8. CASE Reconnected
  BY <1>3, <1>8 DEF Reconnected, TypeOK, world, stored
<1>9. CASE Closed
  BY <1>9 DEF Closed, TypeOK, world, stored, running
<1>10. CASE HandleVisibilityChange
  <2>1. task' \in [Runs -> Tasks]
    BY <1>2, <1>10, Continued DEF HandleVisibilityChange, Runs
  <2>. QED
    BY <1>3, <1>10, <2>1 DEF HandleVisibilityChange, TypeOK, world, stored, view
<1>11. CASE HandleOffline
  BY <1>11, FaultTypes DEF HandleOffline, TypeOK, world, stored, running
<1>12. CASE HandleOnline
  <2>1. requested' \in BOOLEAN /\ timer' \in BOOLEAN
    BY <1>1, <1>12, ScheduleTypes DEF HandleOnline
  <2>. QED
    BY <1>12, <2>1 DEF HandleOnline, TypeOK, world, stored
<1>. QED
  BY <1>4, <1>5, <1>6, <1>7, <1>8, <1>9, <1>10, <1>11, <1>12

LEMMA EventType ==
  ASSUME TypeOK, NEW i \in Items,
         \/ HandleItemAdded(i) \/ HandleItemDeleted(i)
         \/ ConfirmDelete(i) \/ (i \in deleting /\ DeleteAnswered(i))
         \/ Publish(i) \/ Withdraw(i)
  PROVE  TypeOK'
<1>1. (~Rests("verify")) \in BOOLEAN
  OBVIOUS
<1>2. ASSUME ScheduleNow PROVE requested' \in BOOLEAN /\ timer' \in BOOLEAN
  BY <1>1, <1>2, ScheduleTypes DEF ScheduleNow, TypeOK
<1>3. Touched \in Nat
  BY DEF Touched, TypeOK
<1>4. CASE HandleItemAdded(i)
  <2>1. requested' \in BOOLEAN /\ timer' \in BOOLEAN /\ touches' \in Nat
    <3>1. CASE i \in shown
      BY <1>4, <3>1 DEF HandleItemAdded, TypeOK
    <3>2. CASE i \notin shown
      BY <1>2, <1>3, <1>4, <3>2 DEF HandleItemAdded
    <3>. QED
      BY <3>1, <3>2
  <2>. QED
    BY <1>4, <2>1 DEF HandleItemAdded, TypeOK, stored
<1>5. CASE HandleItemDeleted(i)
  <2>1. requested' \in BOOLEAN /\ timer' \in BOOLEAN /\ touches' \in Nat
    BY <1>2, <1>3, <1>5 DEF HandleItemDeleted
  <2>. QED
    BY <1>5, <2>1 DEF HandleItemDeleted, TypeOK, stored
<1>7. CASE ConfirmDelete(i)
  BY <1>7, ActTypes DEF ConfirmDelete, TypeOK, world, stored
<1>8. CASE i \in deleting /\ DeleteAnswered(i)
  <2> DEFINE Remove == state' = [state EXCEPT ![i] = "gone"] /\ Broadcast("deleted", i)
  <2>1. ASSUME Remove PROVE /\ state' \in [Items -> {"new", "live", "gone"}]
                            /\ inbox' \subseteq {"added", "deleted"} \X Items
    BY <2>1, BroadcastTypes DEF TypeOK
  <2>2. /\ state' \in [Items -> {"new", "live", "gone"}]
        /\ inbox' \subseteq {"added", "deleted"} \X Items
        /\ faults' \in 0..MaxFaults /\ shown' \subseteq Items
        /\ error' \in {"none", "network", "auth"}
    <3>1. CASE i \in Live /\ Remove /\ UNCHANGED <<faults, shown, error>>
      BY <2>1, <3>1 DEF TypeOK
    <3>2. CASE i \notin Live /\ error' = "auth" /\ UNCHANGED <<faults, state, inbox, shown>>
      BY <3>2 DEF TypeOK
    <3>3. CASE /\ Fault("lost")
               /\ (i \in Live /\ Remove) \/ UNCHANGED <<state, inbox>>
               /\ shown' = shown \cup {i}
               /\ UNCHANGED error
      BY <2>1, <3>3, FaultTypes DEF TypeOK
    <3>. QED
      BY <1>8, <3>1, <3>2, <3>3 DEF DeleteAnswered
  <2>. QED
    BY <1>8, <2>2 DEF DeleteAnswered, TypeOK, stored
<1>9. CASE Publish(i)
  <2>1. inbox' \subseteq {"added", "deleted"} \X Items
    BY <1>9, BroadcastTypes DEF Publish
  <2>. QED
    BY <1>9, <2>1 DEF Publish, TypeOK, stored, view, running
<1>10. CASE Withdraw(i)
  <2>1. inbox' \subseteq {"added", "deleted"} \X Items
    BY <1>10, BroadcastTypes DEF Withdraw
  <2>. QED
    BY <1>10, <2>1 DEF Withdraw, TypeOK, stored, view, running
<1>. QED
  BY <1>4, <1>5, <1>7, <1>8, <1>9, <1>10

LEMMA UserType ==
  ASSUME TypeOK, NEW k \in Loads,
         ToggleJournalSync(k) \/ Retry(k) \/ ReloadPage(k)
  PROVE  TypeOK'
<1>1. /\ [pc |-> "prepare"] \in Tasks /\ Idle \in Tasks /\ Cached \in Tasks /\ Full \in Tasks
      /\ k \in Runs /\ "refresh" \in Runs
  <2>1. None \in Lists \cup {None}
    OBVIOUS
  <2>. QED
    BY <2>1, NamedKinds, Kinds DEF Runs
<1>2. ASSUME LoadData(k) PROVE task' \in [Runs -> Tasks] /\ error' = "none"
  BY <1>1, <1>2, Continued DEF LoadData
<1>3. CASE ToggleJournalSync(k)
  <2>1. acts' \in 0..MaxActs /\ toggles' \in 0..MaxToggles
    BY <1>3, ActTypes, SpaceViewAssumption DEF ToggleJournalSync, TypeOK
  <2>2. (~journalOn) \in BOOLEAN
    OBVIOUS
  <2>3. enabled' \in BOOLEAN /\ journalOn' \in BOOLEAN
    BY <1>3, <2>2 DEF ToggleJournalSync
  <2>4. cache' \in Lists \cup {None}
    BY <1>3 DEF ToggleJournalSync, TypeOK, Lists
  <2>. QED
    BY <1>2, <1>3, <2>1, <2>3, <2>4 DEF ToggleJournalSync, TypeOK, world, Lists
<1>4. CASE Retry(k)
  BY <1>2, <1>4 DEF Retry, TypeOK, world, stored
<1>5. CASE ReloadPage(k)
  <2>1. faults' \in 0..MaxFaults
    BY <1>5, FaultTypes DEF ReloadPage
  <2>2. task' \in [Runs -> Tasks]
    BY <1>1, <1>5 DEF ReloadPage, Fresh
  <2>. QED
    BY <1>5, <2>1, <2>2 DEF ReloadPage, Fresh, TypeOK, stored
<1>. QED
  BY <1>3, <1>4, <1>5

LEMMA TypeNext ==
  ASSUME TypeOK, [Next]_vars PROVE TypeOK'
<1>1. CASE Work
  <2>1. \A k \in Runs : Sync(k) \/ Prepared(k) \/ StopSignalR(k) \/ StartSignalR(k) => TypeOK'
    BY SyncType, ConnectionType
  <2>2. \A i \in Items : HandleItemAdded(i) \/ HandleItemDeleted(i) => TypeOK'
    BY EventType
  <2>3. \A i \in deleting : DeleteAnswered(i) => TypeOK'
    <3>1. \A i \in deleting : i \in Items
      BY DEF TypeOK
    <3>. QED
      BY <3>1, EventType
  <2>4. UpdateJournalCacheAfterChange => TypeOK'
    BY DEF UpdateJournalCacheAfterChange, CurrentItems, TypeOK, world, view
  <2>. QED
    BY <1>1, <2>1, <2>2, <2>3, <2>4, VerificationType DEF Work
<1>2. CASE User
  <2>1. \A i \in Items : ConfirmDelete(i) => TypeOK'
    BY EventType
  <2>2. \A k \in Loads : ToggleJournalSync(k) \/ Retry(k) \/ ReloadPage(k) => TypeOK'
    BY UserType
  <2>3. HandleVisibilityChange => TypeOK'
    <3>1. "wake" \in Runs
      BY DEF Runs
    <3>. QED
      BY <3>1, ConnectionType
  <2>. QED
    BY <1>2, <2>1, <2>2, <2>3 DEF User
<1>3. CASE \E i \in Items : Publish(i) \/ Withdraw(i)
  BY <1>3, EventType
<1>4. CASE ConnectionLost \/ Reconnected \/ Closed \/ HandleOffline \/ HandleOnline
  <2>1. "wake" \in Runs
    BY DEF Runs
  <2>. QED
    BY <1>4, <2>1, ConnectionType
<1>5. CASE RefreshItemsAfterReconnect
  <2>1. "refresh" \in Runs /\ task' \in [Runs -> Tasks]
    BY <1>5, NamedKinds, Continued DEF RefreshItemsAfterReconnect, Runs
  <2>. QED
    BY <1>5, <2>1, ActTypes DEF RefreshItemsAfterReconnect, TypeOK, world, stored, view
<1>6. CASE UNCHANGED vars
  BY <1>6 DEF TypeOK, vars, world, stored, view, running
<1>. QED
  BY <1>1, <1>2, <1>3, <1>4, <1>5, <1>6 DEF Next

\* What is stored, shown and under way keeps its type; in particular, a task that
\* acknowledges has a checkpoint to acknowledge.
THEOREM TypeCorrect == Spec => []TypeOK
<1>1. TypeOK /\ [Next]_vars => TypeOK'
  BY TypeNext
<1>. QED
  BY <1>1, TypeInit, PTL DEF Spec

-----------------------------------------------------------------------------
(***************************************************************************)
(* What has been acknowledged is held.                                     *)
(***************************************************************************)
\* A verification waits for a load, the user for both, no answer to a deletion is
\* lost, and large space mode is turned on or off once: the code promises less
\* without (see the README).
Steady ==
  /\ Overlaps \cap {"verify", "user"} = {}
  /\ "lost" \notin Faults
  /\ MaxToggles \in {0, 1}

Held == IF cache = None THEN {} ELSE cache
Known == IF acked = None THEN {} ELSE acked
Due == IF enabled THEN (Known \cap Live) \ deleting ELSE {}

Resting(t) == t.pc \in {"idle", "failed", "stop", "start"}

\* The list is loaded by one task at a time.
One == \A j, k \in Runs : ~Resting(task[j]) /\ ~Resting(task[k]) => j = k

\* A task that goes by the journal.
ByJournal(t) ==
  \/ t.pc \in {"cache", "journal", "delta", "ack"}
  \/ t.pc \in {"items", "listed"} /\ t.upto # None

\* The page goes by the setting that is stored, from the moment it has read it.
Setting ==
  /\ \A k \in Runs : task[k].pc = "prepare" => k \in Loads
  /\ (\A k \in Runs : task[k].pc # "prepare") => journalOn = enabled
  /\ \A k \in Runs : ByJournal(task[k]) => enabled
  /\ ~enabled /\ toggles = 0 => acked = None

\* Nothing is known of an item before it is shared.
PastTask(t) ==
  /\ t.pc = "cache" => t.list = None \/ t.list \subseteq Shared
  /\ t.pc = "delta" => t.added \subseteq Shared /\ t.upto \subseteq Shared
  /\ t.pc = "items" => t.upto = None \/ t.upto \subseteq Shared
  /\ t.pc = "listed" => t.list \subseteq Shared /\ (t.upto = None \/ t.upto \subseteq Shared)
  /\ t.pc = "ack" => t.upto \subseteq Shared

Past ==
  /\ Known \subseteq Shared /\ shown \subseteq Shared /\ Held \subseteq Shared
  /\ \A i \in Items : /\ <<"added", i>> \in inbox => i \in Shared
                      /\ <<"deleted", i>> \in inbox => state[i] = "gone"
  /\ \A k \in Runs : PastTask(task[k])

\* The page has just been opened and has shown nothing yet.
FreshLoad ==
  /\ touches = 0 /\ hub = "disconnected" /\ inbox = {}
  /\ \E k \in Loads : /\ task[k].pc \in {"prepare", "cache"}
                      /\ \A r \in Runs : r # k => task[r].pc \in {"idle", "failed"}

\* What a task is about to show, to keep and to acknowledge holds what is due.
DueTask(t) ==
  /\ t.pc = "cache" => Due \subseteq (IF t.list = None THEN {} ELSE t.list)
  /\ t.pc = "delta" => (t.upto \cap Live) \ deleting \subseteq shown \cup t.added
  /\ t.pc = "listed" => Due \subseteq t.list /\ (t.upto = None \/ t.upto \cap Live \subseteq t.list)
  /\ t.pc = "ack" => (t.upto \cap Live) \ deleting \subseteq shown \cap Held

Covered ==
  /\ Due \subseteq Held
  /\ FreshLoad \/ Due \subseteq shown
  /\ \A k \in Runs : DueTask(task[k])

DueInv == TypeOK /\ One /\ Setting /\ Past /\ Covered

LEMMA LoadingIs ==
  ASSUME TypeOK, NEW k \in Runs
  PROVE  Loading(k) <=> ~Resting(task[k])
<1>1. task[k] \in Tasks
  BY DEF TypeOK
<1>. QED
  BY <1>1, Shapes DEF Loading, Resting, Rests

LEMMA RestsIs ==
  ASSUME TypeOK, NEW k \in Runs
  PROVE  Rests(k) <=> task[k].pc \in {"idle", "failed"}
<1>1. task[k] \in Tasks
  BY DEF TypeOK
<1>. QED
  BY <1>1, Shapes DEF Rests

LEMMA DueInit == Init => DueInv
<1> SUFFICES ASSUME Init PROVE DueInv
  OBVIOUS
<1>1. PICK k \in Loads : task = [r \in Runs |-> IF r = k THEN [pc |-> "prepare"] ELSE Idle]
  BY DEF Init
<1>2. k \in Runs
  BY DEF Runs
<1>3. task[k].pc = "prepare" /\ \A r \in Runs : r # k => task[r].pc = "idle"
  BY <1>1, <1>2 DEF Idle
<1>4. Due = {} /\ Known = {} /\ Held = {}
  BY DEF Init, Due, Known, Held
<1>5. One
  BY <1>3 DEF One, Resting
<1>6. Setting
  BY <1>2, <1>3 DEF Setting, ByJournal, Init
<1>7. Past
  BY <1>3, <1>4 DEF Past, PastTask, Init
<1>8. Covered
  BY <1>3, <1>4 DEF Covered, DueTask
<1>. QED
  BY <1>5, <1>6, <1>7, <1>8, TypeInit DEF DueInv

\* A step of the task that loads, or of one that begins when none does.
LEMMA Single ==
  ASSUME TypeOK, One, NEW k \in Runs, NEW t \in Tasks, Continue(k, t),
         ~Resting(task[k]) \/ \A r \in Runs : Resting(task[r])
  PROVE  /\ One' /\ task'[k] = t
         /\ \A r \in Runs : r # k => task'[r] = task[r] /\ Resting(task[r])
<1>1. task'[k] = t /\ \A r \in Runs : r # k => task'[r] = task[r]
  BY Continued
<1>2. \A r \in Runs : r # k => Resting(task[r])
  BY DEF One
<1>. QED
  BY <1>1, <1>2 DEF One

\* What is to be shown of such a step.
LEMMA SingleInv ==
  ASSUME NEW k \in Runs, One',
         \A r \in Runs : r # k => task'[r] = task[r] /\ Resting(task[r]),
         PastTask(task[k])', DueTask(task[k])'
  PROVE  \A r \in Runs : PastTask(task[r])' /\ DueTask(task[r])'
<1> TAKE r \in Runs
<1>1. CASE r = k
  BY <1>1
<1>2. CASE r # k
  <2>1. task'[r].pc \in {"idle", "failed", "stop", "start"}
    BY <1>2 DEF Resting
  <2>. QED
    BY <2>1 DEF PastTask, DueTask
<1>. QED
  BY <1>1, <1>2

\* A step that leaves the tasks alone and makes nothing due.
LEMMA Aside ==
  ASSUME DueInv, TypeOK', UNCHANGED <<task, enabled, acked, toggles, journalOn>>,
         Shared \subseteq Shared', Shared \cap Live' \subseteq Live,
         Shared \cap (Live' \ deleting') \subseteq Live \ deleting,
         shown \cap (Live' \ deleting') \subseteq shown',
         Due' \subseteq Held',
         \A k \in Runs : task[k].pc = "ack" => Held \cap (Live' \ deleting') \subseteq Held'
                                               \/ shown \cap (Live' \ deleting') \subseteq Held',
         FreshLoad => FreshLoad',
         shown' \subseteq Shared', Held' \subseteq Shared',
         \A i \in Items : /\ <<"added", i>> \in inbox' => i \in Shared'
                          /\ <<"deleted", i>> \in inbox' => state'[i] = "gone"
  PROVE  DueInv'
<1>1. One' /\ Setting'
  BY DEF DueInv, One, Setting
<1>2. Known' = Known /\ Known \subseteq Shared
  BY DEF Known, DueInv, Past
<1>3. Due' \subseteq Due
  BY <1>2 DEF Due
<1>4. ASSUME NEW k \in Runs PROVE PastTask(task[k])' /\ DueTask(task[k])'
  <2>1. task'[k] = task[k] /\ PastTask(task[k]) /\ DueTask(task[k])
    BY DEF DueInv, Past, Covered
  <2>2. PastTask(task[k])'
    BY <2>1 DEF PastTask
  <2>3. task[k].pc = "cache" => Due' \subseteq (IF task[k].list = None THEN {} ELSE task[k].list)
    BY <1>3, <2>1 DEF DueTask
  <2>4. task[k].pc = "delta" =>
          (task[k].upto \cap Live') \ deleting' \subseteq shown' \cup task[k].added
    BY <2>1 DEF DueTask, PastTask
  <2>5. task[k].pc = "listed" =>
          /\ Due' \subseteq task[k].list
          /\ task[k].upto = None \/ task[k].upto \cap Live' \subseteq task[k].list
    BY <1>3, <2>1 DEF DueTask, PastTask
  <2>6. task[k].pc = "ack" => (task[k].upto \cap Live') \ deleting' \subseteq shown' \cap Held'
    BY <2>1 DEF DueTask, PastTask
  <2>. QED
    BY <2>1, <2>2, <2>3, <2>4, <2>5, <2>6 DEF DueTask
<1>5. Past'
  BY <1>2, <1>4 DEF Past
<1>6. FreshLoad' \/ Due' \subseteq shown'
  <2>1. CASE Due \subseteq shown
    <3>1. Due' \subseteq Live' \ deleting'
      BY DEF Due
    <3>. QED
      BY <1>3, <2>1, <3>1
  <2>. QED
    BY <2>1 DEF DueInv, Covered
<1>. QED
  BY <1>1, <1>4, <1>5, <1>6 DEF DueInv, Covered

LEMMA VerificationDue ==
  ASSUME DueInv, Steady, TypeOK', RunJournalVerification PROVE DueInv'
<1> USE DEF DueInv
<1>1. "verify" \in Runs /\ \A r \in Runs : Resting(task[r])
  <2>1. \A r \in Runs : ~Loading(r)
    BY DEF RunJournalVerification, May, Steady
  <2>. QED
    BY <2>1, LoadingIs DEF Runs
<1>2. UNCHANGED <<enabled, acked, toggles, journalOn, state, cache, shown, inbox, deleting, touches, hub>>
  BY DEF RunJournalVerification, world, stored, view
<1>3. /\ Known' = Known /\ Held' = Held /\ Due' = Due /\ Shared' = Shared /\ Live' = Live
  BY <1>2 DEF Known, Held, Due, Shared, Live
<1>4. CASE task' = task
  <2>1. FreshLoad => FreshLoad'
    BY <1>2, <1>4 DEF FreshLoad
  <2>. QED
    BY <1>2, <1>3, <1>4, <2>1, Aside DEF Past, Covered
<1>5. CASE task' # task
  <2> DEFINE t == IF journalOn THEN Cached ELSE Idle
  <2>1. Continue("verify", t) /\ t \in Tasks
    BY <1>5, NamedKinds DEF RunJournalVerification, Continue
  <2>2. /\ One' /\ task'["verify"] = t
        /\ \A r \in Runs : r # "verify" => task'[r] = task[r] /\ Resting(task[r])
    BY <1>1, <2>1, Single
  <2>3. journalOn = enabled
    BY <1>1 DEF Setting, Resting
  <2>4. Due \subseteq shown
    BY <1>1 DEF Covered, FreshLoad, Resting, Runs
  <2>5. PastTask(task["verify"])' /\ DueTask(task["verify"])'
    BY <1>2, <1>3, <2>2 DEF Cached, Idle, PastTask, DueTask, Past, Covered, Held
  <2>6. \A r \in Runs : PastTask(task[r])' /\ DueTask(task[r])'
    BY <1>1, <2>2, <2>5, SingleInv
  <2>7. Setting'
    BY <1>2, <2>2, <2>3 DEF Setting, ByJournal, Cached, Idle, Resting
  <2>8. Past'
    BY <1>2, <1>3, <2>6 DEF Past
  <2>9. Covered'
    BY <1>2, <1>3, <2>4, <2>6 DEF Covered
  <2>. QED
    BY <2>2, <2>7, <2>8, <2>9
<1>. QED
  BY <1>4, <1>5

LEMMA ReadDue ==
  ASSUME DueInv, TypeOK', NEW k \in Runs, ReadCache(k) PROVE DueInv'
<1> USE DEF DueInv
<1> DEFINE t == [pc |-> "journal"]
<1>1. t \in Tasks
  BY Kinds, NamedKinds DEF TypeOK, Lists
<1>2. /\ One' /\ task'[k] = t
      /\ \A r \in Runs : r # k => task'[r] = task[r] /\ Resting(task[r])
  BY <1>1, Single DEF ReadCache, Resting
<1>3. UNCHANGED <<enabled, acked, toggles, journalOn, state, cache, inbox, deleting, touches, hub>>
  BY DEF ReadCache, world, stored
<1>4. /\ Known' = Known /\ Held' = Held /\ Due' = Due /\ Shared' = Shared /\ Live' = Live
  BY <1>3 DEF Known, Held, Due, Shared, Live
<1>5. Due \subseteq shown' /\ shown' \subseteq Shared
  BY DEF ReadCache, Covered, DueTask, Past, PastTask
<1>6. \A r \in Runs : PastTask(task[r])' /\ DueTask(task[r])'
  <2>1. PastTask(task[k])' /\ DueTask(task[k])'
    BY <1>2 DEF PastTask, DueTask
  <2>. QED
    BY <1>2, <2>1, SingleInv
<1>7. Setting'
  BY <1>2, <1>3 DEF Setting, ByJournal, Resting, ReadCache
<1>8. Past'
  BY <1>3, <1>4, <1>5, <1>6 DEF Past
<1>9. Covered'
  BY <1>3, <1>4, <1>5, <1>6 DEF Covered
<1>. QED
  BY <1>2, <1>7, <1>8, <1>9

\* While a list is asked for, the page is not fresh.
LEMMA NotFresh ==
  ASSUME DueInv, NEW k \in Runs, ~Resting(task[k]), task[k].pc \notin {"prepare", "cache"}
  PROVE  Due \subseteq shown /\ \A r \in Runs : task[r].pc # "prepare"
<1>1. ~FreshLoad
  BY DEF DueInv, One, FreshLoad, Resting, Runs
<1>. QED
  BY <1>1 DEF DueInv, Covered, One, Resting

LEMMA ServeJournalDue ==
  ASSUME DueInv, TypeOK', NEW k \in Runs, ServeJournal(k) PROVE DueInv'
<1> USE DEF DueInv
<1>1. ~Resting(task[k]) /\ task[k].pc = "journal" /\ enabled
  BY DEF ServeJournal, Resting, Setting, ByJournal
<1>2. Due \subseteq shown /\ \A r \in Runs : task[r].pc # "prepare"
  BY <1>1, NotFresh
<1>3. acked' = Known /\ UNCHANGED <<enabled, toggles, journalOn, state, cache, shown, inbox, deleting, touches, hub>>
  BY DEF ServeJournal, stored, view, Known
<1>4. Known \in Lists /\ Shared \in Lists /\ Live \in Lists /\ Live \ Known \in Lists
      /\ Live \subseteq Shared
  BY DEF TypeOK, Known, Lists, Shared, Live
<1>5. Known # None
  BY <1>4, SpaceViewAssumption DEF Lists
<1>6. /\ Known' = Known /\ Held' = Held /\ Due' = Due /\ Shared' = Shared /\ Live' = Live
  BY <1>3, <1>5 DEF Known, Held, Due, Shared, Live
<1> DEFINE d == [pc |-> "delta", added |-> Live \ Known, upto |-> Shared]
           p == [pc |-> "items", upto |-> Shared]
<1>7. d \in Tasks /\ p \in Tasks
  BY <1>4, Kinds, MoreKinds
<1>8. PICK t \in {d, p} : Continue(k, t)
  BY DEF ServeJournal, Known
<1>9. /\ One' /\ task'[k] = t
      /\ \A r \in Runs : r # k => task'[r] = task[r] /\ Resting(task[r])
  BY <1>1, <1>7, <1>8, Single
<1>10. PastTask(t)'
  BY <1>4, <1>6 DEF PastTask
<1>11. DueTask(t)'
  <2>1. (Shared \cap Live) \ deleting \subseteq shown \cup (Live \ Known)
    BY <1>1, <1>2 DEF Due
  <2>2. CASE t = d
    BY <1>3, <1>6, <2>1, <2>2 DEF DueTask
  <2>3. CASE t = p
    BY <2>3 DEF DueTask
  <2>. QED
    BY <1>8, <2>2, <2>3
<1>12. \A r \in Runs : PastTask(task[r])' /\ DueTask(task[r])'
  <2>1. PastTask(task[k])' /\ DueTask(task[k])'
    BY <1>9, <1>10, <1>11
  <2>. QED
    BY <1>9, <2>1, SingleInv
<1>13. Setting'
  <2>1. t.pc # "prepare"
    BY <1>8
  <2>2. \A r \in Runs : task'[r].pc # "prepare"
    BY <1>2, <1>9, <2>1
  <2>. QED
    BY <1>1, <1>2, <1>3, <2>2 DEF Setting
<1>14. Past'
  BY <1>3, <1>6, <1>12 DEF Past
<1>15. Covered'
  BY <1>2, <1>3, <1>6, <1>12 DEF Covered
<1>. QED
  BY <1>9, <1>13, <1>14, <1>15

LEMMA KeepDue ==
  ASSUME DueInv, TypeOK', NEW k \in Runs, NEW list \in Lists, NEW upto \in Lists,
         task[k].pc \in {"delta", "listed"}, enabled,
         shown' = list, Due \subseteq list, list \subseteq Shared, upto \subseteq Shared,
         (upto \cap Live) \ deleting \subseteq list,
         CacheAndAcknowledge(k, list, upto),
         UNCHANGED <<enabled, acked, toggles, journalOn, state, inbox, deleting>>
  PROVE  DueInv'
<1> USE DEF DueInv
<1>1. ~Resting(task[k])
  BY DEF Resting
<1>2. \A r \in Runs : task[r].pc # "prepare"
  BY <1>1, NotFresh
<1>3. cache' = list \/ cache' = cache
  BY DEF CacheAndAcknowledge
<1>4. /\ Known' = Known /\ Due' = Due /\ Shared' = Shared /\ Live' = Live
      /\ cache' = list => Held' = list
  <2>1. list # None
    BY SpaceViewAssumption DEF Lists
  <2>. QED
    BY <2>1 DEF Known, Held, Due, Shared, Live
<1>5. Due' \subseteq Held' /\ Held' \subseteq Shared'
  <2>1. cache' = cache => Held' = Held
    BY DEF Held
  <2>. QED
    BY <1>3, <1>4, <2>1 DEF Past, Covered
<1> DEFINE a == [pc |-> "ack", upto |-> upto]
<1>6. a \in Tasks /\ Full \in Tasks
  BY MoreKinds, NamedKinds
<1>7. PICK t \in {a, Full} : Continue(k, t) /\ (t = a => cache' = list)
  BY DEF CacheAndAcknowledge, Full
<1>8. /\ One' /\ task'[k] = t
      /\ \A r \in Runs : r # k => task'[r] = task[r] /\ Resting(task[r])
  BY <1>1, <1>6, <1>7, Single
<1>9. PastTask(task[k])' /\ DueTask(task[k])'
  <2>1. CASE t = a
    BY <1>4, <1>7, <1>8, <2>1 DEF PastTask, DueTask
  <2>2. CASE t = Full
    BY <1>8, <2>2 DEF PastTask, DueTask, Full
  <2>. QED
    BY <1>7, <2>1, <2>2
<1>10. \A r \in Runs : PastTask(task[r])' /\ DueTask(task[r])'
  BY <1>8, <1>9, SingleInv
<1>11. Setting'
  <2>1. t.pc # "prepare"
    BY <1>7 DEF Full
  <2>2. \A r \in Runs : task'[r].pc # "prepare"
    BY <1>2, <1>8, <2>1
  <2>. QED
    BY <1>2, <2>2 DEF Setting
<1>12. Past'
  BY <1>4, <1>5, <1>10 DEF Past
<1>13. Covered'
  BY <1>4, <1>5, <1>10 DEF Covered
<1>. QED
  BY <1>8, <1>11, <1>12, <1>13

LEMMA ApplyDue ==
  ASSUME DueInv, TypeOK', NEW k \in Runs, ApplyJournalDelta(k) PROVE DueInv'
<1> DEFINE t == task[k]
<1>1. t.pc = "delta" /\ t \in Tasks /\ shown' = shown \cup t.added
  BY DEF ApplyJournalDelta, DueInv, TypeOK
<1>2. t.added \in Lists /\ t.upto \in Lists /\ enabled
  BY <1>1, Shapes DEF DueInv, Setting, ByJournal
<1>3. PastTask(t) /\ DueTask(t) /\ shown \subseteq Shared /\ shown \in Lists
  BY DEF DueInv, Past, Covered, TypeOK, Lists
<1>4. Due \subseteq shown
  BY <1>1, NotFresh DEF Resting
<1>5. /\ shown' \in Lists /\ Due \subseteq shown' /\ shown' \subseteq Shared
      /\ t.upto \subseteq Shared /\ (t.upto \cap Live) \ deleting \subseteq shown'
  BY <1>1, <1>2, <1>3, <1>4 DEF PastTask, DueTask, Lists
<1>6. /\ CacheAndAcknowledge(k, shown', t.upto)
      /\ UNCHANGED <<enabled, acked, toggles, journalOn, state, inbox, deleting>>
  BY DEF ApplyJournalDelta, world
<1>. QED
  BY <1>1, <1>2, <1>5, <1>6, KeepDue

LEMMA ServeItemsDue ==
  ASSUME DueInv, TypeOK', NEW k \in Runs, ServeItems(k) PROVE DueInv'
<1> USE DEF DueInv
<1> DEFINE t == [pc |-> "listed", list |-> Live, upto |-> task[k].upto]
<1>1. ~Resting(task[k]) /\ task[k].pc = "items" /\ task[k] \in Tasks /\ PastTask(task[k])
  BY DEF ServeItems, Resting, TypeOK, Past
<1>2. Due \subseteq shown /\ \A r \in Runs : task[r].pc # "prepare"
  BY <1>1, NotFresh
<1>3. task[k].upto \in Lists \cup {None} /\ Live \in Lists /\ Live \subseteq Shared
  BY <1>1, Shapes DEF Live, Shared, Lists
<1>4. t \in Tasks
  BY <1>3, MoreKinds DEF Lists
<1>5. /\ One' /\ task'[k] = t
      /\ \A r \in Runs : r # k => task'[r] = task[r] /\ Resting(task[r])
  BY <1>1, <1>4, Single DEF ServeItems
<1>6. UNCHANGED <<enabled, acked, toggles, journalOn, state, cache, shown, inbox, deleting, touches, hub>>
  BY DEF ServeItems, world, stored, view
<1>7. /\ Known' = Known /\ Held' = Held /\ Due' = Due /\ Shared' = Shared /\ Live' = Live
  BY <1>6 DEF Known, Held, Due, Shared, Live
<1>8. PastTask(task[k])'
  BY <1>1, <1>3, <1>5, <1>7 DEF PastTask
<1>9. DueTask(task[k])'
  BY <1>5, <1>7 DEF DueTask, Due
<1>10. \A r \in Runs : PastTask(task[r])' /\ DueTask(task[r])'
  BY <1>5, <1>8, <1>9, SingleInv
<1>11. Setting'
  <2>1. \A r \in Runs : task'[r].pc # "prepare"
    BY <1>2, <1>5
  <2>2. ByJournal(task[k])' => ByJournal(task[k])
    BY <1>1, <1>5 DEF ByJournal
  <2>3. \A r \in Runs : r # k => ~ByJournal(task[r])'
    BY <1>5 DEF ByJournal, Resting
  <2>. QED
    BY <1>2, <1>6, <2>1, <2>2, <2>3 DEF Setting
<1>12. Past'
  BY <1>6, <1>7, <1>10 DEF Past
<1>13. Covered'
  BY <1>2, <1>6, <1>7, <1>10 DEF Covered
<1>. QED
  BY <1>5, <1>11, <1>12, <1>13

\* A step of the task that loads after which it loads no more, or begins again.
LEMMA StopsLoading ==
  ASSUME DueInv, TypeOK', NEW k \in Runs, ~Resting(task[k]), task[k].pc \notin {"prepare", "cache"},
         NEW t \in Tasks, Resting(t) \/ t = Full, Continue(k, t),
         UNCHANGED <<enabled, toggles, journalOn, state, inbox, deleting, cache>>,
         acked' = acked \/ enabled,
         Known' \subseteq Shared, shown' \subseteq Shared,
         Due' \subseteq shown', Due' \subseteq Held
  PROVE  DueInv'
<1> USE DEF DueInv
<1>1. \A r \in Runs : task[r].pc # "prepare"
  BY NotFresh
<1>2. /\ One' /\ task'[k] = t
      /\ \A r \in Runs : r # k => task'[r] = task[r] /\ Resting(task[r])
  BY Single
<1>3. Shared' = Shared /\ Held' = Held
  BY DEF Shared, Held
<1>4. PastTask(task[k])' /\ DueTask(task[k])'
  BY <1>2 DEF PastTask, DueTask, Resting, Full
<1>5. \A r \in Runs : PastTask(task[r])' /\ DueTask(task[r])'
  BY <1>2, <1>4, SingleInv
<1>6. \A r \in Runs : task'[r].pc # "prepare" /\ ~ByJournal(task[r])'
  BY <1>2 DEF Resting, ByJournal, Full
<1>7. Setting'
  BY <1>1, <1>2, <1>6 DEF Setting, Resting
<1>8. Past'
  BY <1>3, <1>5 DEF Past
<1>9. Covered'
  BY <1>3, <1>5 DEF Covered
<1>. QED
  BY <1>2, <1>7, <1>8, <1>9

LEMMA SetDue ==
  ASSUME DueInv, TypeOK', NEW k \in Runs, SetItems(k) PROVE DueInv'
<1> DEFINE t == task[k]
<1>1. t.pc = "listed" /\ t \in Tasks /\ shown' = t.list /\ PastTask(t) /\ DueTask(t)
  BY DEF SetItems, DueInv, TypeOK, Past, Covered
<1>2. t.list \in Lists /\ t.upto \in Lists \cup {None}
  BY <1>1, Shapes
<1>3. Due \subseteq t.list /\ t.list \subseteq Shared
  BY <1>1 DEF PastTask, DueTask
<1>4. UNCHANGED <<enabled, acked, toggles, journalOn, state, inbox, deleting>>
  BY DEF SetItems, world
<1>5. CASE t.upto = None
  <2>1. Continue(k, Synced(k)) /\ UNCHANGED cache
    BY <1>5 DEF SetItems
  <2>2. Synced(k) \in Tasks /\ Resting(Synced(k))
    <3>1. Resting([pc |-> "stop"]) /\ Resting(Idle)
      BY DEF Resting, Idle
    <3>. QED
      BY <3>1, NamedKinds DEF Synced, DueInv
  <2>3. Known' = Known /\ Due' = Due /\ Known \subseteq Shared /\ Due \subseteq Held
    BY <1>4 DEF Known, Due, Live, DueInv, Past, Covered
  <2>. QED
    BY <1>1, <1>3, <1>4, <2>1, <2>2, <2>3, StopsLoading DEF Resting
<1>6. CASE t.upto # None
  <2>1. CacheAndAcknowledge(k, shown', t.upto)
    BY <1>6 DEF SetItems
  <2>2. t.upto \subseteq Shared /\ t.upto \cap Live \subseteq t.list /\ enabled
    BY <1>1, <1>6 DEF PastTask, DueTask, DueInv, Setting, ByJournal
  <2>. QED
    BY <1>1, <1>2, <1>3, <1>4, <1>6, <2>1, <2>2, KeepDue
<1>. QED
  BY <1>5, <1>6

LEMMA AcknowledgeDue ==
  ASSUME DueInv, TypeOK', NEW k \in Runs, UpdateJournalCheckpoint(k)
  PROVE  DueInv' /\ Due' \ Due \subseteq Held
<1> DEFINE t == task[k]
<1>1. t.pc = "ack" /\ t \in Tasks /\ PastTask(t) /\ DueTask(t) /\ enabled
  BY DEF UpdateJournalCheckpoint, DueInv, TypeOK, Past, Covered, Setting, ByJournal
<1>2. t.upto \in Lists /\ t.upto \subseteq Shared /\ (t.upto \cap Live) \ deleting \subseteq shown \cap Held
  BY <1>1, Shapes DEF PastTask, DueTask
<1>3. /\ UNCHANGED <<enabled, toggles, journalOn, state, inbox, deleting, cache, shown>>
      /\ Continue(k, Synced(k))
  BY DEF UpdateJournalCheckpoint, stored, view
<1>4. Known' = Known \cup t.upto
  <2>1. acked \in Lists \cup {None}
    BY DEF DueInv, TypeOK, Lists
  <2>2. CASE acked = None
    <3>1. acked' = t.upto /\ t.upto # None
      BY <1>2, <2>2, SpaceViewAssumption DEF UpdateJournalCheckpoint, Lists
    <3>. QED
      BY <2>2, <3>1 DEF Known
  <2>3. CASE acked # None
    <3>1. acked' = acked \cup t.upto /\ acked' \in Lists
      BY <1>2, <2>1, <2>3 DEF UpdateJournalCheckpoint, Lists
    <3>2. acked' # None
      BY <3>1, SpaceViewAssumption DEF Lists
    <3>. QED
      BY <2>3, <3>1, <3>2 DEF Known
  <2>. QED
    BY <2>2, <2>3
<1>5. Due' = Due \cup ((t.upto \cap Live) \ deleting)
  BY <1>1, <1>3, <1>4 DEF Due, Live
<1>6. Due \subseteq shown /\ Due \subseteq Held
  BY <1>1, NotFresh DEF Resting, DueInv, Covered
<1>7. Known' \subseteq Shared /\ shown' \subseteq Shared /\ Due' \subseteq shown' /\ Due' \subseteq Held
  BY <1>2, <1>3, <1>4, <1>5, <1>6 DEF DueInv, Past
<1>8. Synced(k) \in Tasks /\ Resting(Synced(k))
  <2>1. Resting([pc |-> "stop"]) /\ Resting(Idle)
    BY DEF Resting, Idle
  <2>. QED
    BY <2>1, NamedKinds DEF Synced, DueInv
<1>9. DueInv'
  BY <1>1, <1>3, <1>7, <1>8, StopsLoading DEF Resting
<1>. QED
  BY <1>7, <1>9

LEMMA FailsDue ==
  ASSUME DueInv, TypeOK', NEW k \in Runs, RequestFails(k) PROVE DueInv'
<1>1. ~Resting(task[k]) /\ task[k].pc \notin {"prepare", "cache"}
  BY DEF RequestFails, Resting
<1>2. UNCHANGED <<enabled, acked, toggles, journalOn, state, inbox, deleting, cache, shown>>
  BY DEF RequestFails, world, stored
<1>3. Known' = Known /\ Due' = Due
  BY <1>2 DEF Known, Due, Live
<1>4. PICK t \in {Full, Failed} : Continue(k, t)
  BY DEF RequestFails
<1>5. t \in Tasks /\ (Resting(t) \/ t = Full)
  <2>1. Resting(Failed)
    BY DEF Resting, Failed
  <2>. QED
    BY <1>4, <2>1, NamedKinds DEF DueInv
<1>6. Known' \subseteq Shared /\ shown' \subseteq Shared /\ Due' \subseteq shown' /\ Due' \subseteq Held
  BY <1>1, <1>2, <1>3, NotFresh DEF DueInv, Past, Covered
<1>. QED
  BY <1>1, <1>2, <1>4, <1>5, <1>6, StopsLoading

LEMMA PreparedDue ==
  ASSUME DueInv, TypeOK', NEW k \in Runs, Prepared(k) PROVE DueInv'
<1> USE DEF DueInv
<1> DEFINE t == IF enabled THEN Cached ELSE Full
<1>1. task[k].pc = "prepare" /\ ~Resting(task[k]) /\ k \in Loads /\ Continue(k, t) /\ t \in Tasks
  BY NamedKinds DEF Prepared, Resting, Setting
<1>2. UNCHANGED <<enabled, acked, toggles, state, cache, shown, inbox, deleting, touches, hub>>
      /\ journalOn' = enabled
  BY DEF Prepared, world, stored
<1>3. /\ Known' = Known /\ Held' = Held /\ Due' = Due /\ Shared' = Shared /\ Live' = Live
  BY <1>2 DEF Known, Held, Due, Shared, Live
<1>4. /\ One' /\ task'[k] = t
      /\ \A r \in Runs : r # k => task'[r] = task[r] /\ Resting(task[r])
  BY <1>1, Single
<1>5. PastTask(task[k])' /\ DueTask(task[k])'
  BY <1>2, <1>3, <1>4 DEF Cached, Full, PastTask, DueTask, Past, Covered, Held
<1>6. \A r \in Runs : PastTask(task[r])' /\ DueTask(task[r])'
  BY <1>4, <1>5, SingleInv
<1>7. Setting'
  BY <1>2, <1>4 DEF Setting, ByJournal, Cached, Full, Resting
<1>8. Past'
  BY <1>2, <1>3, <1>6 DEF Past
<1>9. FreshLoad' \/ Due' \subseteq shown'
  <2>1. CASE Due \subseteq shown
    BY <1>2, <1>3, <2>1
  <2>2. CASE FreshLoad /\ enabled
    <3>1. task'[k].pc = "cache"
      BY <1>4, <2>2 DEF Cached
    <3>2. \A r \in Runs : r # k => task'[r].pc \in {"idle", "failed"}
      BY <1>1, <1>4, <2>2 DEF FreshLoad, Resting, Runs
    <3>. QED
      BY <1>1, <1>2, <1>4, <2>2, <3>1, <3>2 DEF FreshLoad, Resting
  <2>3. CASE ~enabled
    BY <1>2, <2>3 DEF Due
  <2>. QED
    BY <2>1, <2>2, <2>3 DEF Covered
<1>10. Covered'
  BY <1>3, <1>6, <1>9 DEF Covered
<1>. QED
  BY <1>4, <1>7, <1>8, <1>10

\* A step between tasks that load nothing.
LEMMA Between ==
  ASSUME DueInv, TypeOK', NEW k \in Runs, Resting(task[k]),
         NEW t \in Tasks, Resting(t), Continue(k, t),
         UNCHANGED <<enabled, toggles, journalOn, state, acked, deleting, cache, shown>>,
         inbox' \subseteq inbox, FreshLoad => FreshLoad'
  PROVE  DueInv'
<1> USE DEF DueInv
<1>1. task'[k] = t /\ \A r \in Runs : r # k => task'[r] = task[r]
  BY Continued
<1>2. /\ Known' = Known /\ Held' = Held /\ Due' = Due /\ Shared' = Shared /\ Live' = Live
  BY DEF Known, Held, Due, Shared, Live
<1>3. One'
  BY <1>1 DEF One, Resting
<1>4. ASSUME NEW r \in Runs PROVE PastTask(task[r])' /\ DueTask(task[r])'
  <2>1. CASE r = k
    BY <1>1, <2>1 DEF PastTask, DueTask, Resting
  <2>2. CASE r # k
    BY <1>1, <1>2, <2>2 DEF PastTask, DueTask, Past, Covered
  <2>. QED
    BY <2>1, <2>2
<1>5. Setting'
  <2>1. \A r \in Runs : task'[r].pc = "prepare" <=> task[r].pc = "prepare"
    BY <1>1 DEF Resting
  <2>2. \A r \in Runs : ByJournal(task[r])' => ByJournal(task[r])
    BY <1>1 DEF Resting, ByJournal
  <2>. QED
    BY <2>1, <2>2 DEF Setting
<1>6. Past'
  BY <1>2, <1>4 DEF Past
<1>7. Covered'
  BY <1>2, <1>4 DEF Covered
<1>. QED
  BY <1>3, <1>5, <1>6, <1>7

LEMMA StopDue ==
  ASSUME DueInv, TypeOK', NEW k \in Runs, StopSignalR(k) PROVE DueInv'
<1> DEFINE t == [pc |-> "start"]
<1>1. t \in Tasks /\ Resting(t) /\ Resting(task[k])
  <2>1. None \in Lists \cup {None}
    OBVIOUS
  <2>. QED
    BY <2>1, Kinds DEF StopSignalR, Resting
<1>2. Continue(k, t) /\ inbox' = {} /\ hub' = "disconnected"
      /\ UNCHANGED <<enabled, toggles, journalOn, state, acked, deleting, cache, shown, touches>>
  BY DEF StopSignalR, stored
<1>3. ~FreshLoad
  BY DEF StopSignalR, FreshLoad
<1>. QED
  BY <1>1, <1>2, <1>3, Between

LEMMA StartDue ==
  ASSUME DueInv, TypeOK', NEW k \in Runs, StartSignalR(k) PROVE DueInv'
<1>1. Idle \in Tasks /\ Resting(Idle) /\ Resting(task[k])
  BY NamedKinds DEF StartSignalR, Resting, Idle, DueInv
<1>2. Continue(k, Idle) /\ inbox' \subseteq inbox
      /\ UNCHANGED <<enabled, toggles, journalOn, state, acked, deleting, cache, shown>>
  BY DEF StartSignalR, stored, world
<1>3. ~FreshLoad
  BY DEF StartSignalR, FreshLoad
<1>. QED
  BY <1>1, <1>2, <1>3, Between

\* Of the connection and the browser, and of the errors shown.
LEMMA ConnectionDue ==
  ASSUME DueInv, TypeOK', ConnectionLost \/ Reconnected \/ Closed \/ HandleOffline \/ HandleOnline
  PROVE  DueInv'
<1>1. /\ UNCHANGED <<task, enabled, acked, toggles, journalOn, state, cache, shown, deleting, touches>>
      /\ inbox' \subseteq inbox
  BY DEF ConnectionLost, Reconnected, Closed, HandleOffline, HandleOnline, world, stored, running
<1>2. /\ Held' = Held /\ Due' = Due /\ Shared' = Shared /\ Live' = Live
  BY <1>1 DEF Held, Due, Known, Shared, Live
<1>3. FreshLoad => FreshLoad'
  BY DEF FreshLoad, ConnectionLost, Reconnected, Closed, HandleOffline, HandleOnline, world,
         stored, running
<1>4. /\ Due \subseteq Held /\ shown \subseteq Shared /\ Held \subseteq Shared
      /\ \A i \in Items : /\ <<"added", i>> \in inbox' => i \in Shared'
                          /\ <<"deleted", i>> \in inbox' => state'[i] = "gone"
  BY <1>1, <1>2 DEF DueInv, Past, Covered
<1>. QED
  BY <1>1, <1>2, <1>3, <1>4, Aside

LEMMA WakeDue ==
  ASSUME DueInv, TypeOK', HandleVisibilityChange PROVE DueInv'
<1> DEFINE t == [pc |-> "stop"]
<1>1. t \in Tasks /\ Resting(t) /\ "wake" \in Runs
  <2>1. None \in Lists \cup {None}
    OBVIOUS
  <2>. QED
    BY <2>1, Kinds DEF Resting, Runs
<1>2. Resting(task["wake"])
  BY <1>1, RestsIs DEF HandleVisibilityChange, Quiet, Resting, DueInv
<1>3. /\ Continue("wake", t)
      /\ UNCHANGED <<enabled, toggles, journalOn, state, acked, deleting, cache, shown, inbox>>
  BY DEF HandleVisibilityChange, world, stored, view
<1>4. ~FreshLoad
  BY RestsIs DEF HandleVisibilityChange, Quiet, FreshLoad, Runs, DueInv
<1>. QED
  BY <1>1, <1>2, <1>3, <1>4, Between

LEMMA AddedDue ==
  ASSUME DueInv, TypeOK', NEW i \in Items, HandleItemAdded(i) PROVE DueInv'
<1>1. /\ UNCHANGED <<task, enabled, acked, toggles, journalOn, state, cache, deleting>>
      /\ inbox' \subseteq inbox /\ shown' = shown \cup {i} /\ i \in Shared
  BY DEF HandleItemAdded, stored, DueInv, Past
<1>2. /\ Held' = Held /\ Due' = Due /\ Shared' = Shared /\ Live' = Live
  BY <1>1 DEF Held, Due, Known, Shared, Live
<1>3. ~FreshLoad
  BY DEF FreshLoad, HandleItemAdded
<1>4. /\ Due \subseteq Held /\ shown' \subseteq Shared /\ Held \subseteq Shared
      /\ \A j \in Items : /\ <<"added", j>> \in inbox' => j \in Shared'
                          /\ <<"deleted", j>> \in inbox' => state'[j] = "gone"
  BY <1>1, <1>2 DEF DueInv, Past, Covered
<1>. QED
  BY <1>1, <1>2, <1>3, <1>4, Aside

LEMMA DeletedDue ==
  ASSUME DueInv, TypeOK', NEW i \in Items, HandleItemDeleted(i) PROVE DueInv'
<1>1. /\ UNCHANGED <<task, enabled, acked, toggles, journalOn, state, cache, deleting>>
      /\ inbox' \subseteq inbox /\ shown' = shown \ {i} /\ i \notin Live
  BY DEF HandleItemDeleted, stored, DueInv, Past, Live
<1>2. /\ Held' = Held /\ Due' = Due /\ Shared' = Shared /\ Live' = Live
  BY <1>1 DEF Held, Due, Known, Shared, Live
<1>3. ~FreshLoad
  BY DEF FreshLoad, HandleItemDeleted
<1>4. /\ Due \subseteq Held /\ shown' \subseteq Shared /\ Held \subseteq Shared
      /\ \A j \in Items : /\ <<"added", j>> \in inbox' => j \in Shared'
                          /\ <<"deleted", j>> \in inbox' => state'[j] = "gone"
  BY <1>1, <1>2 DEF DueInv, Past, Covered
<1>. QED
  BY <1>1, <1>2, <1>3, <1>4, Aside

LEMMA TouchDue ==
  ASSUME DueInv, TypeOK', UpdateJournalCacheAfterChange PROVE DueInv'
<1>1. /\ UNCHANGED <<task, enabled, acked, toggles, journalOn, state, inbox, shown, deleting>>
      /\ cache' = shown
  BY DEF UpdateJournalCacheAfterChange, CurrentItems, world, view
<1>2. Held' = shown
  <2>1. shown \in Lists
    BY DEF DueInv, TypeOK, Lists
  <2>. QED
    BY <1>1, <2>1, SpaceViewAssumption DEF Held, Lists
<1>3. Due' = Due /\ Shared' = Shared /\ Live' = Live
  BY <1>1 DEF Due, Known, Shared, Live
<1>4. ~FreshLoad
  BY DEF FreshLoad, UpdateJournalCacheAfterChange, DueInv, TypeOK
<1>5. /\ Due \subseteq shown /\ shown \subseteq Shared
      /\ \A j \in Items : /\ <<"added", j>> \in inbox' => j \in Shared'
                          /\ <<"deleted", j>> \in inbox' => state'[j] = "gone"
  BY <1>1, <1>3, <1>4 DEF DueInv, Past, Covered
<1>. QED
  BY <1>1, <1>2, <1>3, <1>4, <1>5, Aside

LEMMA ConfirmDue ==
  ASSUME DueInv, TypeOK', NEW i \in Items, ConfirmDelete(i) PROVE DueInv'
<1>1. /\ UNCHANGED <<task, enabled, acked, toggles, journalOn, state, cache, inbox, hub, touches>>
      /\ shown' = shown \ {i} /\ deleting' = deleting \cup {i}
  BY DEF ConfirmDelete, stored, world
<1>2. /\ Held' = Held /\ Due' = Due \ {i} /\ Shared' = Shared /\ Live' = Live
  BY <1>1 DEF Held, Due, Known, Shared, Live
<1>3. FreshLoad => FreshLoad'
  BY <1>1 DEF FreshLoad
<1>4. /\ Due' \subseteq Held /\ shown' \subseteq Shared /\ Held \subseteq Shared
      /\ \A j \in Items : /\ <<"added", j>> \in inbox' => j \in Shared'
                          /\ <<"deleted", j>> \in inbox' => state'[j] = "gone"
  BY <1>1, <1>2 DEF DueInv, Past, Covered
<1>. QED
  BY <1>1, <1>2, <1>3, <1>4, Aside

\* An item is deleted, by whomever, or shared.
LEMMA SharedDue ==
  ASSUME DueInv, TypeOK', NEW i \in Items, NEW what \in {"added", "deleted"},
         UNCHANGED <<task, enabled, acked, toggles, journalOn, cache, shown, hub, touches>>,
         \/ what = "added" /\ state[i] = "new" /\ state' = [state EXCEPT ![i] = "live"]
            /\ deleting' = deleting
         \/ what = "deleted" /\ state[i] = "live" /\ state' = [state EXCEPT ![i] = "gone"]
            /\ deleting' \in {deleting, deleting \ {i}},
         Broadcast(what, i)
  PROVE  DueInv' /\ Due' \subseteq Due
<1>1. /\ state' = [state EXCEPT ![i] = state'[i]] /\ state \in [Items -> {"new", "live", "gone"}]
      /\ what = "added" => state'[i] = "live"
      /\ what = "deleted" => state'[i] = "gone"
  BY DEF DueInv, TypeOK
<1>2. /\ Shared' = Shared \cup {i} /\ Held' = Held /\ Known' = Known
      /\ what = "added" => Live' = Live \cup {i} /\ i \notin Shared /\ deleting' = deleting
      /\ what = "deleted" => Live' = Live \ {i} /\ deleting \subseteq deleting' \cup {i}
  BY <1>1 DEF Shared, Live, Held, Known
<1>3. Due' \subseteq Due
  BY <1>2 DEF Due, DueInv, Past
<1>4. FreshLoad => FreshLoad'
  BY DEF FreshLoad, Broadcast
<1>5. \A j \in Items : /\ <<"added", j>> \in inbox' => j \in Shared'
                       /\ <<"deleted", j>> \in inbox' => state'[j] = "gone"
  <2> TAKE j \in Items
  <2>1. CASE j = i
    BY <1>1, <1>2, <2>1 DEF Broadcast, DueInv, Past
  <2>2. CASE j # i
    <3>1. state'[j] = state[j] /\ (<<"added", j>> \in inbox' => <<"added", j>> \in inbox)
          /\ (<<"deleted", j>> \in inbox' => <<"deleted", j>> \in inbox)
      BY <1>1, <2>2 DEF Broadcast
    <3>. QED
      BY <1>2, <3>1 DEF DueInv, Past
  <2>. QED
    BY <2>1, <2>2
<1>6. Shared \cap Live' \subseteq Live /\ Shared \cap (Live' \ deleting') \subseteq Live \ deleting
  BY <1>2
<1>7. Due' \subseteq Held' /\ shown' \subseteq Shared' /\ Held' \subseteq Shared'
  BY <1>2, <1>3 DEF DueInv, Past, Covered
<1>. QED
  BY <1>2, <1>3, <1>4, <1>5, <1>6, <1>7, Aside

LEMMA AnsweredDue ==
  ASSUME DueInv, Steady, TypeOK', NEW i \in Items, i \in deleting, DeleteAnswered(i)
  PROVE  DueInv' /\ Due' \subseteq Due
<1>1. UNCHANGED <<task, enabled, acked, toggles, journalOn, cache, hub, touches>>
      /\ deleting' = deleting \ {i} /\ ~Fault("lost")
  BY DEF DeleteAnswered, stored, Fault, Steady
<1>2. CASE /\ i \in Live /\ state' = [state EXCEPT ![i] = "gone"] /\ Broadcast("deleted", i)
           /\ shown' = shown
  <2>1. state[i] = "live"
    BY <1>2 DEF Live
  <2>. QED
    BY <1>1, <1>2, <2>1, SharedDue
<1>3. CASE i \notin Live /\ UNCHANGED <<state, inbox, shown>>
  <2>1. /\ Held' = Held /\ Known' = Known /\ Shared' = Shared /\ Live' = Live
        /\ Live' \ deleting' = Live \ deleting
    BY <1>1, <1>3 DEF Held, Known, Shared, Live
  <2>2. Due' = Due
    BY <1>1, <2>1 DEF Due
  <2>3. FreshLoad => FreshLoad'
    BY <1>1, <1>3 DEF FreshLoad
  <2>4. /\ Due \subseteq Held /\ shown \subseteq Shared /\ Held \subseteq Shared
        /\ \A j \in Items : /\ <<"added", j>> \in inbox' => j \in Shared'
                            /\ <<"deleted", j>> \in inbox' => state'[j] = "gone"
    BY <1>3, <2>1 DEF DueInv, Past, Covered
  <2>. QED
    BY <1>1, <1>3, <2>1, <2>2, <2>3, <2>4, Aside
<1>. QED
  BY <1>1, <1>2, <1>3 DEF DeleteAnswered

\* A load or a refresh begins, or the page is opened, and all else rests.
LEMMA BeginsDue ==
  ASSUME DueInv, TypeOK', NEW k \in Runs,
         \A r \in Runs : r # k => Resting(task'[r]),
         \/ task'[k].pc = "prepare" /\ k \in Loads
         \/ task'[k] = Full /\ ~enabled'
         \/ task'[k].pc = "cache" /\ task'[k].list = cache' /\ enabled',
         task'[k].pc # "prepare" => journalOn' = enabled',
         UNCHANGED <<state, acked, deleting>>,
         inbox' \subseteq inbox,
         ~enabled' /\ toggles' = 0 => acked = None,
         Due' \subseteq Held', FreshLoad' \/ Due' \subseteq shown', Held' \subseteq Held,
         shown' \subseteq shown
  PROVE  DueInv'
<1> USE DEF DueInv
<1>1. /\ Known' = Known /\ Shared' = Shared /\ Live' = Live
  BY DEF Known, Shared, Live
<1>2. One'
  BY DEF One
<1>3. PastTask(task[k])' /\ DueTask(task[k])'
  BY <1>1 DEF PastTask, DueTask, Full, Past, Held
<1>4. \A r \in Runs : PastTask(task[r])' /\ DueTask(task[r])'
  <2> TAKE r \in Runs
  <2>1. CASE r = k
    BY <1>3, <2>1
  <2>2. CASE r # k
    <3>1. task'[r].pc \in {"idle", "failed", "stop", "start"}
      BY <2>2 DEF Resting
    <3>. QED
      BY <3>1 DEF PastTask, DueTask
  <2>. QED
    BY <2>1, <2>2
<1>5. Setting'
  <2>1. \A r \in Runs : task'[r].pc = "prepare" => r = k /\ r \in Loads
    BY DEF Resting, Full
  <2>2. ASSUME NEW r \in Runs, ByJournal(task[r])' PROVE enabled'
    <3>1. r = k
      BY <2>2 DEF ByJournal, Resting
    <3>. QED
      BY <2>2, <3>1 DEF ByJournal, Full
  <2>3. (\A r \in Runs : task'[r].pc # "prepare") => journalOn' = enabled'
    OBVIOUS
  <2>. QED
    BY <2>1, <2>2, <2>3 DEF Setting
<1>6. Past'
  BY <1>1, <1>4 DEF Past
<1>7. Covered'
  BY <1>4 DEF Covered
<1>. QED
  BY <1>2, <1>5, <1>6, <1>7

LEMMA BeganLoad ==
  ASSUME TypeOK, NEW k \in Loads, LoadData(k), \A r \in Runs : Resting(task[r])
  PROVE  /\ k \in Runs /\ task'[k].pc = "prepare"
         /\ \A r \in Runs : r # k => Resting(task'[r])
<1>1. k \in Runs /\ [pc |-> "prepare"] \in Tasks
  <2>1. None \in Lists \cup {None}
    OBVIOUS
  <2>. QED
    BY <2>1, Kinds DEF Runs
<1>. QED
  BY <1>1, Continued DEF LoadData

\* What the user does waits for the loads.
LEMMA UserWaits ==
  ASSUME DueInv, Steady, May("user")
  PROVE  /\ \A r \in Runs : Resting(task[r])
         /\ journalOn = enabled /\ Due \subseteq shown
<1>1. \A r \in Runs : Resting(task[r])
  <2>1. \A r \in Runs : ~Loading(r)
    BY DEF May, Steady
  <2>. QED
    BY <2>1, LoadingIs DEF DueInv
<1>. QED
  BY <1>1 DEF DueInv, Setting, Covered, FreshLoad, Resting, Runs

LEMMA ToggleDue ==
  ASSUME DueInv, Steady, TypeOK', NEW k \in Loads, ToggleJournalSync(k)
  PROVE  DueInv' /\ Due' = {}
<1>1. /\ \A r \in Runs : Resting(task[r])
      /\ journalOn = enabled /\ Due \subseteq shown
  BY UserWaits DEF ToggleJournalSync
<1>2. /\ k \in Runs /\ task'[k].pc = "prepare"
      /\ \A r \in Runs : r # k => Resting(task'[r])
  BY <1>1, BeganLoad DEF ToggleJournalSync, DueInv
<1>3. /\ UNCHANGED <<state, acked, inbox, deleting, shown>>
      /\ enabled' = ~enabled /\ journalOn' = ~enabled
      /\ cache' = IF journalOn' THEN cache ELSE None
  BY <1>1 DEF ToggleJournalSync, world
<1>4. toggles = 0 /\ toggles' = 1
  <2>1. toggles \in Nat /\ toggles < MaxToggles /\ MaxToggles \in {0, 1}
    BY SpaceViewAssumption DEF DueInv, TypeOK, ToggleJournalSync, Steady
  <2>. QED
    BY <2>1 DEF ToggleJournalSync
<1>5. ~enabled => acked = None
  BY <1>4 DEF DueInv, Setting
<1>6. Due' = {}
  BY <1>3, <1>5 DEF Due, Known
<1>7. Held' \subseteq Held
  BY <1>3 DEF Held
<1>. QED
  BY <1>2, <1>3, <1>4, <1>6, <1>7, BeginsDue

LEMMA RetryDue ==
  ASSUME DueInv, Steady, TypeOK', NEW k \in Loads, Retry(k) PROVE DueInv'
<1>1. /\ \A r \in Runs : Resting(task[r])
      /\ journalOn = enabled /\ Due \subseteq shown
  BY UserWaits DEF Retry
<1>2. /\ k \in Runs /\ task'[k].pc = "prepare"
      /\ \A r \in Runs : r # k => Resting(task'[r])
  BY <1>1, BeganLoad DEF Retry, DueInv
<1>3. UNCHANGED <<state, acked, inbox, deleting, shown, enabled, journalOn, cache, toggles>>
  BY DEF Retry, world, stored
<1>4. Held' = Held /\ Due' = Due /\ Due \subseteq Held
  BY <1>3 DEF Held, Due, Known, Live, DueInv, Covered
<1>5. ~enabled /\ toggles = 0 => acked = None
  BY DEF DueInv, Setting
<1>. QED
  BY <1>1, <1>2, <1>3, <1>4, <1>5, BeginsDue

LEMMA RefreshDue ==
  ASSUME DueInv, Steady, TypeOK', RefreshItemsAfterReconnect PROVE DueInv'
<1>1. /\ \A r \in Runs : Resting(task[r])
      /\ journalOn = enabled /\ Due \subseteq shown
  BY UserWaits DEF RefreshItemsAfterReconnect
<1>2. "refresh" \in Runs
  BY DEF Runs
<1>3. /\ task'["refresh"] = IF enabled THEN Cached ELSE Full
      /\ \A r \in Runs : r # "refresh" => Resting(task'[r])
  BY <1>1, <1>2, NamedKinds, Continued DEF RefreshItemsAfterReconnect, DueInv
<1>4. UNCHANGED <<state, acked, inbox, deleting, shown, enabled, journalOn, cache, toggles>>
  BY DEF RefreshItemsAfterReconnect, world, stored, view
<1>5. Held' = Held /\ Due' = Due /\ Due \subseteq Held
  BY <1>4 DEF Held, Due, Known, Live, DueInv, Covered
<1>6. ~enabled /\ toggles = 0 => acked = None
  BY DEF DueInv, Setting
<1>7. \/ task'["refresh"] = Full /\ ~enabled'
      \/ task'["refresh"].pc = "cache" /\ task'["refresh"].list = cache' /\ enabled'
  BY <1>3, <1>4 DEF Cached
<1>. QED
  BY <1>1, <1>2, <1>3, <1>4, <1>5, <1>6, <1>7, BeginsDue

LEMMA ReloadDue ==
  ASSUME DueInv, TypeOK', NEW k \in Loads, ReloadPage(k) PROVE DueInv'
<1>1. /\ k \in Runs /\ task'[k].pc = "prepare"
      /\ \A r \in Runs : r # k => task'[r].pc = "idle"
  BY DEF ReloadPage, Fresh, Runs, Idle
<1>2. /\ UNCHANGED <<state, acked, deleting, enabled, cache, toggles>>
      /\ inbox' = {} /\ shown' = {}
  BY DEF ReloadPage, Fresh, stored
<1>3. FreshLoad'
  BY <1>1 DEF ReloadPage, Fresh, FreshLoad
<1>4. Held' = Held /\ Due' = Due /\ Due \subseteq Held
  BY <1>2 DEF Held, Due, Known, Live, DueInv, Covered
<1>5. ~enabled /\ toggles = 0 => acked = None
  BY DEF DueInv, Setting
<1>6. \A r \in Runs : r # k => Resting(task'[r])
  BY <1>1 DEF Resting
<1>. QED
  BY <1>1, <1>2, <1>3, <1>4, <1>5, <1>6, BeginsDue

\* Only an acknowledgement makes anything due.
LEMMA DueNext ==
  ASSUME DueInv, Steady, [Next]_vars
  PROVE  DueInv' /\ Due' \ Due \subseteq Held
<1> USE DEF DueInv
<1>1. TypeOK'
  BY TypeNext
<1>2. ASSUME UNCHANGED <<enabled, acked, state, deleting>> PROVE Due' = Due
  BY <1>2 DEF Due, Known, Live
<1>3. CASE Work
  <2>1. CASE RunJournalVerification
    BY <1>1, <1>2, <2>1, VerificationDue DEF RunJournalVerification, world, stored
  <2>2. ASSUME NEW k \in Runs, Sync(k) PROVE DueInv' /\ Due' \ Due \subseteq Held
    <3>1. CASE ReadCache(k)
      BY <1>1, <1>2, <3>1, ReadDue DEF ReadCache, world, stored
    <3>2. CASE ServeJournal(k)
      <4>1. Due' \subseteq Due
        <5>1. acked' = Known /\ UNCHANGED <<enabled, state, deleting>>
          BY <3>2 DEF ServeJournal, stored, Known
        <5>. QED
          BY <5>1 DEF Due, Known, Live
      <4>. QED
        BY <1>1, <3>2, <4>1, ServeJournalDue
    <3>3. CASE ApplyJournalDelta(k)
      BY <1>1, <1>2, <3>3, ApplyDue DEF ApplyJournalDelta, world
    <3>4. CASE ServeItems(k)
      BY <1>1, <1>2, <3>4, ServeItemsDue DEF ServeItems, world, stored
    <3>5. CASE SetItems(k)
      BY <1>1, <1>2, <3>5, SetDue DEF SetItems, world
    <3>6. CASE UpdateJournalCheckpoint(k)
      BY <1>1, <3>6, AcknowledgeDue
    <3>7. CASE RequestFails(k)
      BY <1>1, <1>2, <3>7, FailsDue DEF RequestFails, world, stored
    <3>. QED
      BY <2>2, <3>1, <3>2, <3>3, <3>4, <3>5, <3>6, <3>7 DEF Sync
  <2>3. ASSUME NEW k \in Runs, Prepared(k) \/ StopSignalR(k) \/ StartSignalR(k)
        PROVE  DueInv' /\ Due' \ Due \subseteq Held
    <3>1. UNCHANGED <<enabled, acked, state, deleting>>
      BY <2>3 DEF Prepared, StopSignalR, StartSignalR, world, stored
    <3>2. DueInv'
      BY <1>1, <2>3, PreparedDue, StopDue, StartDue
    <3>. QED
      BY <1>2, <3>1, <3>2
  <2>4. ASSUME NEW i \in Items, HandleItemAdded(i) \/ HandleItemDeleted(i)
        PROVE  DueInv' /\ Due' \ Due \subseteq Held
    BY <1>1, <1>2, <2>4, AddedDue, DeletedDue DEF HandleItemAdded, HandleItemDeleted, stored
  <2>5. CASE UpdateJournalCacheAfterChange
    BY <1>1, <1>2, <2>5, TouchDue DEF UpdateJournalCacheAfterChange, world
  <2>6. ASSUME NEW i \in deleting, DeleteAnswered(i) PROVE DueInv' /\ Due' \ Due \subseteq Held
    <3>1. i \in Items
      BY DEF TypeOK
    <3>. QED
      BY <1>1, <2>6, <3>1, AnsweredDue
  <2>. QED
    BY <1>3, <2>1, <2>2, <2>3, <2>4, <2>5, <2>6 DEF Work
<1>4. CASE User
  <2>1. ASSUME NEW i \in Items, ConfirmDelete(i) PROVE DueInv' /\ Due' \ Due \subseteq Held
    <3>1. Due' \subseteq Due
      BY <2>1 DEF ConfirmDelete, world, stored, Due, Known, Live
    <3>. QED
      BY <1>1, <2>1, <3>1, ConfirmDue
  <2>2. ASSUME NEW k \in Loads, ToggleJournalSync(k) PROVE DueInv' /\ Due' \ Due \subseteq Held
    BY <1>1, <2>2, ToggleDue
  <2>3. ASSUME NEW k \in Loads, Retry(k) PROVE DueInv' /\ Due' \ Due \subseteq Held
    BY <1>1, <1>2, <2>3, RetryDue DEF Retry, world, stored
  <2>4. ASSUME NEW k \in Loads, ReloadPage(k) PROVE DueInv' /\ Due' \ Due \subseteq Held
    <3>1. UNCHANGED <<enabled, acked, state, deleting>>
      BY <2>4 DEF ReloadPage, Fresh, stored
    <3>. QED
      BY <1>1, <1>2, <2>4, <3>1, ReloadDue
  <2>5. CASE HandleVisibilityChange
    BY <1>1, <1>2, <2>5, WakeDue DEF HandleVisibilityChange, world, stored
  <2>. QED
    BY <1>4, <2>1, <2>2, <2>3, <2>4, <2>5 DEF User
<1>5. ASSUME NEW i \in Items, Publish(i) \/ Withdraw(i) PROVE DueInv' /\ Due' \ Due \subseteq Held
  <2>1. UNCHANGED <<task, enabled, acked, toggles, journalOn, cache, shown, hub, touches, deleting>>
    BY <1>5 DEF Publish, Withdraw, stored, view, running
  <2>2. CASE Publish(i)
    BY <1>1, <2>1, <2>2, SharedDue DEF Publish
  <2>3. CASE Withdraw(i)
    BY <1>1, <2>1, <2>3, SharedDue DEF Withdraw
  <2>. QED
    BY <1>5, <2>2, <2>3
<1>6. CASE ConnectionLost \/ Reconnected \/ Closed \/ HandleOffline \/ HandleOnline
  <2>1. UNCHANGED <<enabled, acked, state, deleting>>
    BY <1>6 DEF ConnectionLost, Reconnected, Closed, HandleOffline, HandleOnline, world, stored,
                running
  <2>. QED
    BY <1>1, <1>2, <1>6, <2>1, ConnectionDue
<1>7. CASE RefreshItemsAfterReconnect
  BY <1>1, <1>2, <1>7, RefreshDue DEF RefreshItemsAfterReconnect, world, stored
<1>8. CASE UNCHANGED vars
  <2>1. /\ UNCHANGED <<task, enabled, acked, toggles, journalOn, cache, shown, hub, touches, deleting>>
        /\ UNCHANGED <<state, inbox>>
    BY <1>8 DEF vars, world, stored, view, running
  <2>2. /\ Held' = Held /\ Known' = Known /\ Due' = Due /\ Shared' = Shared /\ Live' = Live
        /\ FreshLoad' = FreshLoad
    BY <2>1 DEF Held, Known, Due, Shared, Live, FreshLoad
  <2>3. /\ Due \subseteq Held /\ shown \subseteq Shared /\ Held \subseteq Shared
        /\ \A j \in Items : /\ <<"added", j>> \in inbox' => j \in Shared'
                            /\ <<"deleted", j>> \in inbox' => state'[j] = "gone"
    BY <2>1, <2>2 DEF Past, Covered
  <2>. QED
    BY <1>1, <2>1, <2>2, <2>3, Aside
<1>. QED
  BY <1>3, <1>4, <1>5, <1>6, <1>7, <1>8 DEF Next

\* The page keeps, over reloads, whatever the journal will not tell it again; it
\* has it in its cache before it acknowledges it, whichever of its loads,
\* verifications and refreshes do so, and whatever fails in between.
THEOREM KeepsWhatIsAcknowledged ==
  ASSUME Steady
  PROVE  Spec => FollowsJournal
<1> DEFINE due == IF enabled /\ acked # None THEN (acked \cap Live) \ deleting ELSE {}
           held == IF cache = None THEN {} ELSE cache
<1>1. due = Due /\ held = Held
  BY DEF Due, Known, Held
<1>2. DueInv => due \subseteq held /\ held \in SUBSET Items
  BY <1>1 DEF DueInv, Covered, TypeOK, Held
<1>3. Init => DueInv /\ F!Init
  <2> SUFFICES ASSUME Init PROVE DueInv /\ F!Init
    OBVIOUS
  <2>1. due = {} /\ held = {}
    BY DEF Init
  <2>. QED
    BY <2>1, DueInit DEF F!Init
<1>4. DueInv /\ [Next]_vars => DueInv' /\ [F!Step]_<<due, held>>
  <2> SUFFICES ASSUME DueInv, [Next]_vars PROVE DueInv' /\ F!Step
    OBVIOUS
  <2>1. DueInv' /\ Due' \ Due \subseteq Held
    BY DueNext
  <2>2. due' = Due' /\ held' = Held'
    BY DEF Due, Known, Held
  <2>3. Due' \subseteq Held' /\ Held' \in SUBSET Items
    BY <2>1 DEF DueInv, Covered, TypeOK, Held
  <2>. QED
    BY <1>1, <2>1, <2>2, <2>3 DEF F!Step
<1>. QED
  BY <1>3, <1>4, PTL DEF Spec, FollowsJournal, F!Spec

-----------------------------------------------------------------------------
(***************************************************************************)
(* Nothing is missing.                                                     *)
(***************************************************************************)
\* A verification has been asked for and will be made.
Promised == requested /\ (timer \/ ~Rests("verify"))

\* The page is connected, nothing has failed and nothing has been promised: what it
\* does not show yet it must still be told, or be about to show.
Alone ==
  /\ journalOn /\ online /\ hub = "connected" /\ error = "none" /\ ~Promised
  /\ \A k \in Runs : task[k].pc # "failed"
  /\ \A k \in Loads \cup {"wake"} : Rests(k)

Added(i) == <<"added", i>> \in inbox

Finds(t, i) ==
  /\ t.pc = "delta" => i \in shown \cup t.added \/ Added(i)
  /\ t.pc = "listed" => i \in t.list \/ (Added(i) /\ i \notin shown)
  /\ t.pc = "ack" => i \in shown \/ Added(i)

Found ==
  \A i \in Live \ deleting :
    /\ (\A k \in Runs : Resting(task[k])) => i \in shown \/ Added(i)
    /\ \A k \in Runs : Finds(task[k], i)

\* Who loads the list, and who connects.
Places ==
  /\ Resting(task["wake"])
  /\ \A k \in Runs : task[k].pc \in {"stop", "start"} => k \in Loads \cup {"wake"}

FoundInv == DueInv /\ Places /\ (Alone => Found)

LEMMA FoundInit == Init => FoundInv
<1> SUFFICES ASSUME Init PROVE FoundInv
  OBVIOUS
<1>1. DueInv
  BY DueInit
<1>2. hub = "disconnected" /\ Places
  <2>1. PICK k \in Loads : task = [r \in Runs |-> IF r = k THEN [pc |-> "prepare"] ELSE Idle]
    BY DEF Init
  <2>2. "wake" \in Runs /\ "wake" # k
    BY SpaceViewAssumption DEF Runs
  <2>. QED
    BY <2>1, <2>2 DEF Init, Resting, Idle, Places
<1>. QED
  BY <1>1, <1>2 DEF FoundInv, Alone

LEMMA ScheduleNowTypes ==
  ASSUME journalOn, online, ScheduleNow, TypeOK
  PROVE  requested' /\ (timer' \/ ~Rests("verify"))
<1>1. requested' = TRUE /\ timer' = (timer \/ ~(~Rests("verify")))
  BY DEF ScheduleNow, Schedule
<1>. QED
  BY <1>1

\* How a task goes on, and what becomes of what was promised.
LEMMA SyncGoesOn ==
  ASSUME TypeOK, NEW k \in Runs, Sync(k)
  PROVE  /\ ~Resting(task[k]) /\ task[k].pc # "prepare"
         /\ UNCHANGED <<journalOn, online, hub, inbox, state, deleting>>
         /\ \E t \in Tasks :
              /\ Continue(k, t)
              /\ \/ ~Resting(t) /\ UNCHANGED <<requested, timer>>
                 \/ t \in {Synced(k), Failed} /\ Finish(k)
         /\ k \in Loads \/ error' = error
<1> DEFINE On(t) == \/ ~Resting(t) /\ UNCHANGED <<requested, timer>>
                    \/ t \in {Synced(k), Failed} /\ Finish(k)
           Goal == /\ ~Resting(task[k]) /\ task[k].pc # "prepare"
                   /\ UNCHANGED <<journalOn, online, hub, inbox, state, deleting>>
                   /\ \E t \in Tasks : Continue(k, t) /\ On(t)
                   /\ k \in Loads \/ error' = error
<1>1. task[k] \in Tasks /\ task[k].pc \in {"idle", "failed", "prepare", "cache", "journal", "delta",
                      "items", "listed", "ack", "stop", "start"}
  BY Shapes DEF TypeOK
<1>2. /\ Synced(k) \in Tasks /\ Failed \in Tasks /\ Full \in Tasks /\ ~Resting(Full)
      /\ [pc |-> "journal"] \in Tasks /\ ~Resting([pc |-> "journal"])
  <2>1. None \in Lists \cup {None}
    OBVIOUS
  <2>. QED
    BY <2>1, NamedKinds, Kinds DEF Resting, Full
<1>3. \A upto \in Lists : /\ [pc |-> "ack", upto |-> upto] \in Tasks
                          /\ ~Resting([pc |-> "ack", upto |-> upto])
  BY MoreKinds DEF Resting
<1>4. ASSUME NEW list, NEW upto \in Lists, CacheAndAcknowledge(k, list, upto)
      PROVE  \E t \in Tasks : Continue(k, t) /\ ~Resting(t)
  BY <1>2, <1>3, <1>4 DEF CacheAndAcknowledge
<1>5. CASE ReadCache(k)
  <2>1. Continue(k, [pc |-> "journal"]) /\ On([pc |-> "journal"])
    BY <1>2, <1>5 DEF ReadCache
  <2>. QED
    BY <1>2, <1>5, <2>1 DEF ReadCache, world, stored, Resting
<1>6. CASE ServeJournal(k)
  <2> DEFINE known == IF acked = None THEN {} ELSE acked
             d == [pc |-> "delta", added |-> Live \ known, upto |-> Shared]
             p == [pc |-> "items", upto |-> Shared]
  <2>1. d \in Tasks /\ p \in Tasks
    BY Kinds, MoreKinds DEF Lists, Live, Shared
  <2>2. ~Resting(d) /\ ~Resting(p)
    BY DEF Resting
  <2>3. Continue(k, d) \/ Continue(k, p)
    BY <1>6 DEF ServeJournal
  <2>4. \E t \in Tasks : Continue(k, t) /\ On(t)
    BY <1>6, <2>1, <2>2, <2>3 DEF ServeJournal
  <2>. QED
    BY <1>6, <2>4 DEF ServeJournal, stored, view, Resting
<1>7. CASE ApplyJournalDelta(k)
  <2>1. task[k].upto \in Lists
    BY <1>1, <1>7, Shapes DEF ApplyJournalDelta
  <2>2. \E t \in Tasks : Continue(k, t) /\ On(t)
    BY <1>4, <1>7, <2>1 DEF ApplyJournalDelta
  <2>. QED
    BY <1>7, <2>2 DEF ApplyJournalDelta, world, Resting
<1>8. CASE ServeItems(k)
  <2> DEFINE t == [pc |-> "listed", list |-> Live, upto |-> task[k].upto]
  <2>1. task[k].upto \in Lists \cup {None} /\ Live \in Lists
    BY <1>1, <1>8, Shapes DEF ServeItems, Live, Lists
  <2>2. t \in Tasks /\ ~Resting(t)
    BY <2>1, MoreKinds DEF Resting, Lists
  <2>3. Continue(k, t) /\ On(t)
    BY <1>8, <2>2 DEF ServeItems
  <2>. QED
    BY <1>8, <2>2, <2>3 DEF ServeItems, world, stored, view, Resting
<1>9. CASE SetItems(k)
  <2>1. task[k].upto \in Lists \cup {None}
    BY <1>1, <1>9, Shapes DEF SetItems
  <2>2. \E t \in Tasks : Continue(k, t) /\ On(t)
    <3>1. CASE task[k].upto = None
      BY <1>2, <1>9, <3>1 DEF SetItems
    <3>2. CASE task[k].upto # None
      BY <1>4, <1>9, <2>1, <3>2 DEF SetItems
    <3>. QED
      BY <3>1, <3>2
  <2>. QED
    BY <1>9, <2>2 DEF SetItems, world, Resting
<1>10. CASE UpdateJournalCheckpoint(k)
  <2>1. \E t \in Tasks : Continue(k, t) /\ On(t)
    BY <1>2, <1>10 DEF UpdateJournalCheckpoint
  <2>. QED
    BY <1>10, <2>1 DEF UpdateJournalCheckpoint, stored, view, Resting
<1>11. CASE RequestFails(k)
  <2>1. \E t \in Tasks : Continue(k, t) /\ On(t)
    BY <1>2, <1>11 DEF RequestFails
  <2>. QED
    BY <1>11, <2>1 DEF RequestFails, world, stored, Resting
<1>. QED
  BY <1>5, <1>6, <1>7, <1>8, <1>9, <1>10, <1>11 DEF Sync

\* A page that is alone after a step of a task was so before.
LEMMA SyncAlone ==
  ASSUME FoundInv, NEW k \in Runs, Sync(k), Alone'
  PROVE  Alone /\ k \notin Loads \cup {"wake"}
<1> USE DEF FoundInv, DueInv
<1>1. /\ ~Resting(task[k]) /\ task[k].pc # "prepare"
      /\ UNCHANGED <<journalOn, online, hub, inbox, state, deleting>>
      /\ k \in Loads \/ error' = error
  BY SyncGoesOn
<1>2. PICK t \in Tasks :
        /\ Continue(k, t)
        /\ \/ ~Resting(t) /\ UNCHANGED <<requested, timer>>
           \/ t \in {Synced(k), Failed} /\ Finish(k)
  BY SyncGoesOn
<1>3. task' \in [Runs -> Tasks] /\ task'[k] = t /\ \A r \in Runs : r # k => task'[r] = task[r]
  BY <1>2, Continued
<1>4. t # Failed /\ (k \in Loads => t = Idle)
  <2>1. t.pc # "failed"
    BY <1>3 DEF Alone
  <2>2. k \in Loads => Rests(k)'
    BY DEF Alone
  <2>. QED
    BY <1>3, <2>1, <2>2 DEF Failed, Rests
<1>5. k \notin Loads
  <2>1. SUFFICES ASSUME k \in Loads PROVE FALSE
    OBVIOUS
  <2>2. t = Idle /\ t = Synced(k)
    BY <1>2, <1>4, <2>1 DEF Resting, Idle
  <2>. QED
    BY <2>1, <2>2 DEF Synced, Idle
<1>6. k # "wake"
  BY <1>1 DEF Places
<1>7. \A r \in Runs : task[r].pc # "failed"
  BY <1>1, <1>3 DEF Alone, Resting
<1>8. \A r \in Loads \cup {"wake"} : Rests(r)
  <2> TAKE r \in Loads \cup {"wake"}
  <2>1. r # k /\ r \in Runs /\ Rests(r)'
    BY <1>5, <1>6 DEF Alone, Runs
  <2>. QED
    BY <1>3, <2>1 DEF Rests
<1>9. ~Promised
  <2> SUFFICES ASSUME requested, timer \/ ~Rests("verify") PROVE FALSE
    BY DEF Promised
  <2>1. ~Promised' /\ journalOn /\ online
    BY <1>1 DEF Alone
  <2>2. "verify" \in Runs
    BY DEF Runs
  <2>3. CASE ~Resting(t) /\ UNCHANGED <<requested, timer>>
    <3>1. ~Rests("verify") => ~Rests("verify")'
      <4>1. t # Idle /\ t # Failed
        BY <2>3 DEF Resting, Idle, Failed
      <4>2. CASE k = "verify"
        BY <1>3, <4>1, <4>2 DEF Rests
      <4>3. CASE k # "verify"
        BY <1>3, <2>2, <4>3 DEF Rests
      <4>. QED
        BY <4>2, <4>3
    <3>. QED
      BY <2>1, <2>3, <3>1 DEF Promised
  <2>4. CASE t = Synced(k) /\ Finish(k) /\ k = "verify"
    <3>1. requested' = TRUE /\ timer' = (timer \/ ~FALSE)
      BY <2>1, <2>4 DEF Finish, Schedule
    <3>. QED
      BY <2>1, <3>1 DEF Promised
  <2>5. CASE t = Synced(k) /\ Finish(k) /\ k # "verify"
    <3>1. UNCHANGED <<requested, timer>> /\ (Rests("verify")' <=> Rests("verify"))
      BY <1>3, <2>2, <2>5 DEF Finish, Rests
    <3>. QED
      BY <2>1, <3>1 DEF Promised
  <2>. QED
    BY <1>2, <1>4, <2>3, <2>4, <2>5
<1>10. journalOn /\ online /\ hub = "connected" /\ error = "none"
  BY <1>1, <1>5 DEF Alone
<1>. QED
  BY <1>5, <1>6, <1>7, <1>8, <1>9, <1>10 DEF Alone

\* What is to be shown of a step of the task that loads.
LEMMA SingleFound ==
  ASSUME NEW k \in Runs, \A r \in Runs : r # k => Resting(task'[r]),
         \A i \in Live' \ deleting' : /\ Resting(task'[k]) => i \in shown' \/ Added(i)'
                                      /\ Finds(task[k], i)'
  PROVE  Found'
<1>1. ASSUME NEW i \in Live' \ deleting', NEW r \in Runs PROVE Finds(task[r], i)'
  <2>1. CASE r = k
    BY <2>1
  <2>2. CASE r # k
    <3>1. task'[r].pc \in {"idle", "failed", "stop", "start"}
      BY <2>2 DEF Resting
    <3>. QED
      BY <3>1 DEF Finds
  <2>. QED
    BY <2>1, <2>2
<1>2. ASSUME NEW i \in Live' \ deleting', \A r \in Runs : Resting(task'[r])
      PROVE  i \in shown' \/ Added(i)'
  BY <1>2
<1>. QED
  BY <1>1, <1>2 DEF Found

LEMMA SyncFound ==
  ASSUME FoundInv, TypeOK', NEW k \in Runs, Sync(k), Alone' PROVE Found'
<1> USE DEF FoundInv, DueInv
<1> DEFINE u == task[k]
<1>1. Alone /\ k \notin Loads \cup {"wake"} /\ Found
  BY SyncAlone
<1>2. /\ ~Resting(u) /\ u.pc # "prepare" /\ u \in Tasks
      /\ UNCHANGED <<inbox, state, deleting>>
  BY SyncGoesOn DEF TypeOK
<1>3. PICK t \in Tasks : Continue(k, t)
  BY SyncGoesOn
<1>4. task'[k] = t /\ \A r \in Runs : r # k => Resting(task'[r])
  BY <1>2, <1>3, Single
<1>5. t.pc # "failed" /\ Synced(k) = Idle
  BY <1>1, <1>4 DEF Alone, Synced
<1>6. Live' = Live /\ \A i \in Items : Added(i)' <=> Added(i)
  BY <1>2 DEF Live, Added
<1>7. ASSUME NEW i \in Live \ deleting
      PROVE  /\ Resting(t) => i \in shown' \/ Added(i)
             /\ t.pc = "delta" => i \in shown' \cup t.added \/ Added(i)
             /\ t.pc = "listed" => i \in t.list \/ (Added(i) /\ i \notin shown')
             /\ t.pc = "ack" => i \in shown' \/ Added(i)
  <2>1. Finds(u, i)
    BY <1>1 DEF Found
  <2>2. \A list, upto : CacheAndAcknowledge(k, list, upto) => t.pc \in {"ack", "items"}
    <3> TAKE list, upto
    <3>1. ASSUME NEW w, Continue(k, w) PROVE task'[k] = w
      BY <3>1 DEF Continue, TypeOK
    <3>. QED
      BY <1>4, <3>1 DEF CacheAndAcknowledge, Full
  <2>3. ASSUME NEW w, Continue(k, w) PROVE t = w
    BY <1>4, <2>3 DEF Continue, TypeOK
  <2>4. CASE ReadCache(k)
    <3>1. t.pc = "journal"
      BY <2>3, <2>4 DEF ReadCache
    <3>. QED
      BY <3>1 DEF Resting
  <2>5. CASE ServeJournal(k)
    <3>1. /\ u.pc = "journal" /\ enabled /\ shown' = shown
          /\ \/ t = [pc |-> "delta", added |-> Live \ Known, upto |-> Shared]
             \/ t = [pc |-> "items", upto |-> Shared]
      BY <2>3, <2>5 DEF ServeJournal, Known, Setting, ByJournal, view
    <3>2. Due \subseteq shown
      BY <1>2, <3>1, NotFresh
    <3>3. i \in Known => i \in shown
      BY <3>1, <3>2 DEF Due
    <3>. QED
      BY <3>1, <3>3 DEF Resting
  <2>6. CASE ApplyJournalDelta(k)
    <3>1. u.pc = "delta" /\ shown' = shown \cup u.added /\ t.pc \in {"ack", "items"}
      BY <2>2, <2>6 DEF ApplyJournalDelta
    <3>. QED
      BY <2>1, <3>1 DEF Finds, Resting
  <2>7. CASE ServeItems(k)
    <3>1. t = [pc |-> "listed", list |-> Live, upto |-> u.upto]
      BY <2>3, <2>7 DEF ServeItems
    <3>. QED
      BY <3>1 DEF Resting
  <2>8. CASE SetItems(k)
    <3>1. u.pc = "listed" /\ shown' = u.list /\ t.pc \in {"ack", "items", "idle"}
      BY <1>5, <2>2, <2>3, <2>8 DEF SetItems, Idle
    <3>. QED
      BY <2>1, <3>1 DEF Finds, Resting
  <2>9. CASE UpdateJournalCheckpoint(k)
    <3>1. u.pc = "ack" /\ shown' = shown /\ t.pc = "idle"
      BY <1>5, <2>3, <2>9 DEF UpdateJournalCheckpoint, Idle, view
    <3>. QED
      BY <2>1, <3>1 DEF Finds, Resting
  <2>10. CASE RequestFails(k)
    <3>1. t.pc = "items"
      BY <1>5, <2>3, <2>10 DEF RequestFails, Full, Failed
    <3>. QED
      BY <3>1 DEF Resting
  <2>. QED
    BY <2>4, <2>5, <2>6, <2>7, <2>8, <2>9, <2>10 DEF Sync
<1>8. \A i \in Live' \ deleting' : /\ Resting(task'[k]) => i \in shown' \/ Added(i)'
                                   /\ Finds(task[k], i)'
  <2> TAKE i \in Live' \ deleting'
  <2>1. i \in Live \ deleting /\ (Added(i)' <=> Added(i))
    BY <1>2, <1>6 DEF Live
  <2>. QED
    BY <1>4, <1>7, <2>1 DEF Finds
<1>. QED
  BY <1>4, <1>8, SingleFound

\* The verification that was promised begins.
LEMMA VerificationFound ==
  ASSUME FoundInv, Steady, TypeOK', RunJournalVerification, Alone' PROVE Found'
<1> USE DEF FoundInv, DueInv
<1>1. "verify" \in Runs /\ \A r \in Runs : Resting(task[r])
  <2>1. \A r \in Runs : ~Loading(r)
    BY DEF RunJournalVerification, May, Steady
  <2>. QED
    BY <2>1, LoadingIs DEF Runs
<1>2. UNCHANGED <<journalOn, online, hub, error, inbox, state, deleting, shown>>
  BY DEF RunJournalVerification, world, stored, view
<1>3. journalOn
  BY <1>2 DEF Alone
<1>4. CASE requested /\ Rests("verify")
  <2>1. Continue("verify", Cached) /\ Cached \in Tasks
    BY <1>3, <1>4, NamedKinds DEF RunJournalVerification, Continue
  <2>2. task'["verify"] = Cached /\ \A r \in Runs : r # "verify" => task'[r] = task[r]
    BY <1>1, <2>1, Continued
  <2>3. \A i \in Live' \ deleting' : /\ Resting(task'["verify"]) => i \in shown' \/ Added(i)'
                                     /\ Finds(task["verify"], i)'
    BY <2>2 DEF Cached, Resting, Finds
  <2>. QED
    BY <1>1, <2>2, <2>3, SingleFound
<1>5. CASE ~(requested /\ Rests("verify"))
  <2>1. UNCHANGED <<requested, task>>
    BY <1>5 DEF RunJournalVerification
  <2>2. ~requested
    <3>1. ~Promised' /\ (Rests("verify")' <=> Rests("verify"))
      BY <2>1 DEF Alone, Rests
    <3>. QED
      BY <1>5, <2>1, <3>1 DEF Promised
  <2>3. Alone
    <3>1. ~Promised
      BY <2>2 DEF Promised
    <3>. QED
      BY <1>2, <2>1, <3>1 DEF Alone, Rests
  <2>. QED
    BY <1>2, <2>1, <2>3 DEF Found, Finds, Live, Added
<1>. QED
  BY <1>4, <1>5

\* A step that leaves the tasks alone: what it adds it tells the page of.
LEMMA AsideFound ==
  ASSUME Found, task' = task,
         \A i \in Live' \ deleting' :
           \/ /\ i \in Live \ deleting /\ (i \in shown' <=> i \in shown)
              /\ Added(i) => Added(i)' \/ i \in shown
           \/ Added(i)' /\ i \notin shown'
  PROVE  Found'
<1>1. ASSUME NEW i \in Live' \ deleting', NEW k \in Runs PROVE Finds(task[k], i)'
  <2>1. CASE i \in Live \ deleting
    <3>1. Finds(task[k], i)
      BY <2>1 DEF Found
    <3>. QED
      BY <3>1 DEF Finds
  <2>2. CASE i \notin Live \ deleting
    BY <2>2 DEF Finds
  <2>. QED
    BY <2>1, <2>2
<1>2. ASSUME NEW i \in Live' \ deleting', \A k \in Runs : Resting(task[k])
      PROVE  i \in shown' \/ Added(i)'
  BY <1>2 DEF Found
<1>. QED
  BY <1>1, <1>2 DEF Found

\* Whoever connects again asks for a verification.
LEMMA ConnectionFound ==
  ASSUME FoundInv, TypeOK', NEW k \in Runs,
         \/ Prepared(k) \/ StopSignalR(k) \/ StartSignalR(k)
         \/ ConnectionLost \/ Reconnected \/ Closed
         \/ HandleVisibilityChange \/ HandleOffline \/ HandleOnline
  PROVE  ~Alone'
<1> USE DEF FoundInv, DueInv
<1> SUFFICES ASSUME Alone' PROVE FALSE
  OBVIOUS
<1>1. "wake" \in Runs /\ "verify" \in Runs /\ Cached \in Tasks /\ Full \in Tasks
  BY NamedKinds DEF Runs
<1>2. ASSUME Rests("verify")' => Rests("verify"), requested', timer' \/ ~Rests("verify") PROVE FALSE
  BY <1>2 DEF Alone, Promised
<1>3. CASE Prepared(k)
  <2>1. k \in Loads
    BY <1>3 DEF Prepared, Setting
  <2>2. task'[k] \in {Cached, Full}
    BY <1>1, <1>3, Continued DEF Prepared
  <2>. QED
    BY <2>1, <2>2 DEF Alone, Rests, Cached, Full, Idle, Failed
<1>4. CASE StopSignalR(k)
  BY <1>4 DEF StopSignalR, Alone
<1>5. CASE StartSignalR(k)
  <2>1. k # "verify" /\ Idle \in Tasks
    BY <1>5, SpaceViewAssumption, NamedKinds DEF StartSignalR, Places
  <2>2. task'["verify"] = task["verify"]
    BY <1>1, <1>5, <2>1, Continued DEF StartSignalR
  <2>3. ScheduleNow /\ journalOn /\ online
    BY <1>5 DEF StartSignalR, Alone
  <2>. QED
    BY <1>2, <2>2, <2>3, ScheduleNowTypes DEF Rests
<1>6. CASE ConnectionLost \/ Closed \/ HandleOffline
  BY <1>6 DEF ConnectionLost, Closed, HandleOffline, Alone
<1>7. CASE Reconnected
  <2>1. ScheduleNow /\ journalOn /\ online /\ task' = task
    BY <1>7 DEF Reconnected, Alone
  <2>. QED
    BY <1>2, <2>1, ScheduleNowTypes DEF Rests
<1>8. CASE HandleVisibilityChange
  <2>1. task'["wake"].pc = "stop"
    BY <1>1, <1>8 DEF HandleVisibilityChange, Continue, TypeOK
  <2>. QED
    BY <2>1 DEF Alone, Rests, Idle, Failed
<1>9. CASE HandleOnline
  <2>1. Schedule(journalOn, TRUE, ~Rests("verify")) /\ journalOn /\ task' = task
    BY <1>9 DEF HandleOnline, Alone
  <2>2. requested' = TRUE /\ timer' = (timer \/ ~(~Rests("verify")))
    BY <2>1 DEF Schedule
  <2>3. timer' \/ ~Rests("verify")
    BY <2>2
  <2>. QED
    BY <1>2, <2>1, <2>2, <2>3 DEF Rests
<1>. QED
  BY <1>3, <1>4, <1>5, <1>6, <1>7, <1>8, <1>9

\* The page is told of an item it shows, or asks for a verification.
LEMMA EventFound ==
  ASSUME FoundInv, TypeOK', Alone', NEW i \in Items,
         HandleItemAdded(i) \/ HandleItemDeleted(i)
  PROVE  Found'
<1> USE DEF FoundInv, DueInv
<1>1. UNCHANGED <<journalOn, online, hub, error, task, state, deleting>>
  BY DEF HandleItemAdded, HandleItemDeleted
<1>2. ~ScheduleNow
  <2>1. (Rests("verify")' <=> Rests("verify")) /\ ~Promised' /\ journalOn /\ online
    BY <1>1 DEF Rests, Alone
  <2>. QED
    BY <2>1, ScheduleNowTypes DEF Promised
<1>3. HandleItemAdded(i) /\ i \in shown /\ UNCHANGED <<requested, timer>>
  BY <1>2 DEF HandleItemAdded, HandleItemDeleted
<1>4. shown' = shown /\ inbox' = inbox \ {<<"added", i>>}
  BY <1>3 DEF HandleItemAdded
<1>5. Alone
  BY <1>1, <1>3 DEF Alone, Promised, Rests
<1>6. Live' = Live
  BY <1>1 DEF Live
<1>7. \A j \in Items : Added(j) => Added(j)' \/ j \in shown
  BY <1>3, <1>4 DEF Added
<1>8. \A j \in Live : j \in Items
  BY DEF Live
<1>. QED
  BY <1>1, <1>4, <1>5, <1>6, <1>7, <1>8, AsideFound

\* What members do, and what the page does to its cache, leaves it alone.
LEMMA ItemsFound ==
  ASSUME FoundInv, Steady, TypeOK', Alone', NEW i \in Items,
         \/ UpdateJournalCacheAfterChange \/ ConfirmDelete(i)
         \/ (i \in deleting /\ DeleteAnswered(i))
         \/ Publish(i) \/ Withdraw(i)
  PROVE  Found'
<1> USE DEF FoundInv, DueInv
<1>1. UNCHANGED <<journalOn, online, hub, task, requested, timer>>
  BY DEF UpdateJournalCacheAfterChange, ConfirmDelete, DeleteAnswered, Publish, Withdraw,
         world, stored, view, running
<1>2. error = "none" \/ error' = error
  BY DEF UpdateJournalCacheAfterChange, ConfirmDelete, DeleteAnswered, Publish, Withdraw,
         world, stored, view, running, Alone
<1>3. Alone
  BY <1>1, <1>2 DEF Alone, Promised, Rests
<1>4. hub = "connected" /\ \A j \in Live : j \in Items
  BY <1>3 DEF Alone, Live
<1>5. CASE UpdateJournalCacheAfterChange
  <2>1. UNCHANGED <<state, inbox, shown, deleting>>
    BY <1>5 DEF UpdateJournalCacheAfterChange, world, view
  <2>2. Live' = Live /\ \A j \in Items : Added(j)' <=> Added(j)
    BY <2>1 DEF Live, Added
  <2>. QED
    BY <1>1, <1>3, <1>4, <2>1, <2>2, AsideFound
<1>6. CASE ConfirmDelete(i)
  <2>1. UNCHANGED <<state, inbox>> /\ shown' = shown \ {i} /\ deleting' = deleting \cup {i}
    BY <1>6 DEF ConfirmDelete, world
  <2>2. Live' = Live /\ \A j \in Items : Added(j)' <=> Added(j)
    BY <2>1 DEF Live, Added
  <2>. QED
    BY <1>1, <1>3, <1>4, <2>1, <2>2, AsideFound
<1>7. ASSUME state[i] = "live", state' = [state EXCEPT ![i] = "gone"], Broadcast("deleted", i),
             shown' = shown, deleting \subseteq deleting' \cup {i}
      PROVE  Found'
  <2>1. Live' = Live \ {i}
    BY <1>7 DEF Live, TypeOK
  <2>2. \A j \in Items : Added(j) => Added(j)'
    BY <1>7 DEF Added, Broadcast
  <2>3. Live' \ deleting' \subseteq Live \ deleting
    BY <1>7, <2>1
  <2>4. \A j \in Live' \ deleting' :
          /\ j \in Live \ deleting /\ (j \in shown' <=> j \in shown)
          /\ Added(j) => Added(j)' \/ j \in shown
    BY <1>4, <1>7, <2>1, <2>2, <2>3
  <2>. QED
    BY <1>1, <1>3, <2>4, AsideFound
<1>8. CASE i \in deleting /\ DeleteAnswered(i)
  <2>1. ~Fault("lost") /\ error' # "auth" /\ deleting' = deleting \ {i}
    BY <1>8 DEF DeleteAnswered, Fault, Steady, Alone
  <2>2. i \in Live /\ state' = [state EXCEPT ![i] = "gone"] /\ Broadcast("deleted", i) /\ shown' = shown
    BY <1>8, <2>1 DEF DeleteAnswered
  <2>. QED
    BY <1>7, <2>1, <2>2 DEF Live
<1>9. CASE Publish(i)
  <2>1. /\ state[i] = "new" /\ state' = [state EXCEPT ![i] = "live"] /\ Broadcast("added", i)
        /\ UNCHANGED <<shown, deleting>>
    BY <1>9 DEF Publish, view, running
  <2>2. Live' = Live \cup {i} /\ i \notin shown
    BY <2>1 DEF Live, TypeOK, Past, Shared
  <2>3. Added(i)' /\ \A j \in Items : Added(j) => Added(j)'
    BY <1>4, <2>1 DEF Added, Broadcast
  <2>4. \A j \in Live' \ deleting' :
          \/ /\ j \in Live \ deleting /\ (j \in shown' <=> j \in shown)
             /\ Added(j) => Added(j)' \/ j \in shown
          \/ Added(j)' /\ j \notin shown'
    BY <1>4, <2>1, <2>2, <2>3
  <2>. QED
    BY <1>1, <1>3, <2>4, AsideFound
<1>10. CASE Withdraw(i)
  <2>1. /\ state[i] = "live" /\ state' = [state EXCEPT ![i] = "gone"] /\ Broadcast("deleted", i)
        /\ UNCHANGED <<shown, deleting>>
    BY <1>10 DEF Withdraw, view, running
  <2>. QED
    BY <1>7, <2>1
<1>. QED
  BY <1>5, <1>6, <1>8, <1>9, <1>10

LEMMA RefreshFound ==
  ASSUME FoundInv, Steady, TypeOK', RefreshItemsAfterReconnect PROVE Found'
<1> USE DEF FoundInv, DueInv
<1>1. "refresh" \in Runs /\ \A r \in Runs : Resting(task[r])
  BY UserWaits DEF RefreshItemsAfterReconnect, Runs
<1>2. PICK t \in {Cached, Full} : Continue("refresh", t)
  BY DEF RefreshItemsAfterReconnect
<1>3. task'["refresh"] = t /\ \A r \in Runs : r # "refresh" => task'[r] = task[r]
  BY <1>1, <1>2, NamedKinds, Continued
<1>4. \A i \in Live' \ deleting' : /\ Resting(task'["refresh"]) => i \in shown' \/ Added(i)'
                                   /\ Finds(task["refresh"], i)'
  BY <1>2, <1>3 DEF Cached, Full, Resting, Finds
<1>. QED
  BY <1>1, <1>3, <1>4, SingleFound

LEMMA LoadAlone ==
  ASSUME TypeOK, NEW k \in Loads, ToggleJournalSync(k) \/ Retry(k) \/ ReloadPage(k)
  PROVE  /\ task'[k].pc = "prepare" /\ ~Alone'
         /\ \A r \in Runs : r # k => task'[r] \in {task[r], Idle}
<1>1. k \in Runs /\ [pc |-> "prepare"] \in Tasks
  <2>1. None \in Lists \cup {None}
    OBVIOUS
  <2>. QED
    BY <2>1, Kinds DEF Runs
<1>2. /\ task'[k].pc = "prepare"
      /\ \A r \in Runs : r # k => task'[r] \in {task[r], Idle}
  <2>1. CASE LoadData(k)
    BY <1>1, <2>1, Continued DEF LoadData
  <2>2. CASE ReloadPage(k)
    BY <1>1, <2>2 DEF ReloadPage, Fresh
  <2>. QED
    BY <2>1, <2>2 DEF ToggleJournalSync, Retry
<1>. QED
  BY <1>2 DEF Alone, Rests, Idle, Failed

LEMMA PlacesKept ==
  ASSUME Places, NEW k \in Runs,
         \A r \in Runs : r # k => task'[r] \in {task[r], Idle},
         k = "wake" => Resting(task'[k]),
         task'[k].pc \in {"stop", "start"} => k \in Loads \cup {"wake"}
  PROVE  Places'
<1>1. "wake" \in Runs /\ Resting(Idle) /\ Idle.pc = "idle"
  BY DEF Runs, Resting, Idle
<1>. QED
  BY <1>1 DEF Places

LEMMA PlacesNext ==
  ASSUME FoundInv, [Next]_vars PROVE Places'
<1> USE DEF FoundInv, DueInv
<1>1. /\ Idle \in Tasks /\ Cached \in Tasks /\ Full \in Tasks
      /\ [pc |-> "stop"] \in Tasks /\ [pc |-> "start"] \in Tasks
  <2>1. None \in Lists \cup {None}
    OBVIOUS
  <2>. QED
    BY <2>1, NamedKinds, Kinds
<1>2. {"verify", "refresh", "wake"} \subseteq Runs
  BY DEF Runs
<1>3. ASSUME task' = task PROVE Places'
  BY <1>3 DEF Places
<1>4. ASSUME NEW k \in Runs, Sync(k) PROVE Places'
  <2>1. PICK t \in Tasks : Continue(k, t) /\ (~Resting(t) \/ t \in {Synced(k), Failed})
    BY <1>4, SyncGoesOn
  <2>2. task'[k] = t /\ \A r \in Runs : r # k => task'[r] = task[r]
    BY <2>1, Continued
  <2>3. k # "wake"
    BY <1>4, SyncGoesOn DEF Places
  <2>4. t.pc \in {"stop", "start"} => k \in Loads
    BY <2>1 DEF Resting, Synced, Idle, Failed
  <2>. QED
    BY <2>2, <2>3, <2>4, PlacesKept
<1>5. ASSUME NEW k \in Runs, Prepared(k) \/ StopSignalR(k) \/ StartSignalR(k) PROVE Places'
  <2>1. CASE Prepared(k)
    <3>1. PICK t \in {Cached, Full} : Continue(k, t)
      BY <2>1 DEF Prepared
    <3>2. task'[k] = t /\ \A r \in Runs : r # k => task'[r] = task[r]
      BY <1>1, <3>1, Continued
    <3>3. k # "wake" /\ t.pc \notin {"stop", "start"}
      BY <2>1, <3>1 DEF Prepared, Places, Resting, Cached, Full
    <3>. QED
      BY <3>2, <3>3, PlacesKept
  <2>2. CASE StopSignalR(k) \/ StartSignalR(k)
    <3>1. PICK t \in {[pc |-> "start"], Idle} : Continue(k, t)
      BY <2>2 DEF StopSignalR, StartSignalR
    <3>2. task'[k] = t /\ \A r \in Runs : r # k => task'[r] = task[r]
      BY <1>1, <3>1, Continued
    <3>3. k \in Loads \cup {"wake"} /\ Resting(t)
      BY <2>2, <3>1 DEF StopSignalR, StartSignalR, Places, Resting, Idle
    <3>. QED
      BY <3>2, <3>3, PlacesKept
  <2>. QED
    BY <1>5, <2>1, <2>2
<1>6. CASE RunJournalVerification
  <2>1. \A r \in Runs : r # "verify" => task'[r] = task[r]
    BY <1>6 DEF RunJournalVerification, TypeOK
  <2>2. task'["verify"] \in {Cached, Idle} \/ task' = task
    BY <1>2, <1>6 DEF RunJournalVerification, TypeOK
  <2>. QED
    BY <1>2, <1>3, <2>1, <2>2, PlacesKept DEF Cached, Idle
<1>7. CASE HandleVisibilityChange
  <2>1. task'["wake"] = [pc |-> "stop"] /\ \A r \in Runs : r # "wake" => task'[r] = task[r]
    BY <1>1, <1>2, <1>7, Continued DEF HandleVisibilityChange
  <2>. QED
    BY <1>2, <2>1, PlacesKept DEF Resting
<1>8. CASE RefreshItemsAfterReconnect
  <2>1. PICK t \in {Cached, Full} : Continue("refresh", t)
    BY <1>8 DEF RefreshItemsAfterReconnect
  <2>2. task'["refresh"] = t /\ \A r \in Runs : r # "refresh" => task'[r] = task[r]
    BY <1>1, <1>2, <2>1, Continued
  <2>. QED
    BY <1>2, <2>1, <2>2, PlacesKept DEF Cached, Full
<1>9. ASSUME NEW k \in Loads, ToggleJournalSync(k) \/ Retry(k) \/ ReloadPage(k) PROVE Places'
  <2>1. k \in Runs /\ k # "wake"
    BY SpaceViewAssumption DEF Runs
  <2>. QED
    BY <1>9, <2>1, LoadAlone, PlacesKept
<1>10. ASSUME NEW i \in Items, HandleItemAdded(i) \/ HandleItemDeleted(i) \/ DeleteAnswered(i)
                               \/ ConfirmDelete(i) \/ Publish(i) \/ Withdraw(i)
       PROVE  Places'
  <2>1. task' = task
    BY <1>10 DEF HandleItemAdded, HandleItemDeleted, DeleteAnswered, ConfirmDelete, Publish, Withdraw,
              running
  <2>. QED
    BY <1>3, <2>1
<1>11. CASE UpdateJournalCacheAfterChange
  <2>1. task' = task
    BY <1>11 DEF UpdateJournalCacheAfterChange
  <2>. QED
    BY <1>3, <2>1
<1>12. CASE ConnectionLost \/ Reconnected \/ Closed \/ HandleOffline \/ HandleOnline \/ UNCHANGED vars
  <2>1. task' = task
    BY <1>12 DEF ConnectionLost, Reconnected, Closed, HandleOffline, HandleOnline, vars, running
  <2>. QED
    BY <1>3, <2>1
<1>13. \A i \in deleting : i \in Items
  BY DEF TypeOK
<1>14. CASE Work
  BY <1>4, <1>5, <1>6, <1>10, <1>11, <1>13, <1>14 DEF Work
<1>15. CASE User
  BY <1>7, <1>9, <1>10, <1>15 DEF User
<1>. QED
  BY <1>8, <1>10, <1>12, <1>14, <1>15 DEF Next

LEMMA FoundNext ==
  ASSUME FoundInv, Steady, [Next]_vars PROVE FoundInv'
<1>1. DueInv' /\ TypeOK' /\ Places'
  BY DueNext, PlacesNext DEF FoundInv, DueInv
<1> SUFFICES ASSUME Alone' PROVE Found'
  BY <1>1 DEF FoundInv
<1>2. CASE Work
  <2>1. \A i \in deleting : i \in Items
    BY DEF FoundInv, DueInv, TypeOK
  <2>2. \A i \in Items : HandleItemAdded(i) \/ HandleItemDeleted(i) => Found'
    BY <1>1, EventFound
  <2>3. \A i \in deleting : DeleteAnswered(i) => Found'
    BY <1>1, <2>1, ItemsFound
  <2>4. \A k \in Runs : Sync(k) => Found'
    BY <1>1, SyncFound
  <2>5. \A k \in Runs : ~(Prepared(k) \/ StopSignalR(k) \/ StartSignalR(k))
    BY <1>1, ConnectionFound
  <2>6. CASE UpdateJournalCacheAfterChange
    <3>1. UNCHANGED <<journalOn, online, hub, error, task, requested, timer, state, inbox, shown, deleting>>
      BY <2>6 DEF UpdateJournalCacheAfterChange, world, view
    <3>2. Alone
      BY <3>1 DEF Alone, Promised, Rests
    <3>. QED
      BY <3>1, <3>2 DEF FoundInv, Found, Finds, Live, Added
  <2>. QED
    BY <1>1, <1>2, <2>2, <2>3, <2>4, <2>5, <2>6, VerificationFound DEF Work
<1>3. CASE User
  <2>1. \A i \in Items : ConfirmDelete(i) => Found'
    BY <1>1, ItemsFound
  <2>2. \A k \in Loads : ~(ToggleJournalSync(k) \/ Retry(k) \/ ReloadPage(k))
    BY LoadAlone DEF FoundInv, DueInv
  <2>3. "wake" \in Runs
    BY DEF Runs
  <2>. QED
    BY <1>1, <1>3, <2>1, <2>2, <2>3, ConnectionFound DEF User
<1>4. CASE \E i \in Items : Publish(i) \/ Withdraw(i)
  BY <1>1, <1>4, ItemsFound
<1>5. CASE ConnectionLost \/ Reconnected \/ Closed \/ HandleOffline \/ HandleOnline
  <2>1. "wake" \in Runs
    BY DEF Runs
  <2>. QED
    BY <1>1, <1>5, <2>1, ConnectionFound
<1>6. CASE RefreshItemsAfterReconnect
  BY <1>1, <1>6, RefreshFound
<1>7. CASE UNCHANGED vars
  <2>1. UNCHANGED <<journalOn, online, hub, error, task, requested, timer, state, inbox, shown, deleting>>
    BY <1>7 DEF vars, world, stored, view, running
  <2>2. Alone
    BY <2>1 DEF Alone, Promised, Rests
  <2>. QED
    BY <2>1, <2>2 DEF FoundInv, Found, Finds, Live, Added
<1>. QED
  BY <1>2, <1>3, <1>4, <1>5, <1>6, <1>7 DEF Next

\* Once a connected page in large space mode is done with all it was asked for, and
\* nothing has failed, it shows every item of the space: also those of which the
\* hub told while the list was loaded, and those of which it could not tell.
THEOREM NothingIsMissing ==
  ASSUME Steady
  PROVE  Spec => []NothingMissing
<1>1. FoundInv => NothingMissing
  <2> SUFFICES ASSUME FoundInv,
                      Quiet /\ ~timer /\ inbox = {} /\ deleting = {}
                      /\ journalOn /\ online /\ error = "none" /\ hub = "connected",
                      \A k \in Runs : task[k] # Failed,
                      NEW i \in Live
               PROVE  i \in shown
    BY DEF NothingMissing
  <2>1. \A k \in Runs : Rests(k) /\ Resting(task[k]) /\ task[k].pc # "failed"
    BY DEF Quiet, Rests, Resting, Idle, Failed
  <2>2. Loads \cup {"wake"} \subseteq Runs /\ "verify" \in Runs
    BY DEF Runs
  <2>3. Alone
    BY <2>1, <2>2 DEF Alone, Promised
  <2>4. ~Added(i)
    BY DEF Added
  <2>. QED
    BY <2>1, <2>3, <2>4 DEF FoundInv, Found
<1>2. FoundInv /\ [Next]_vars => FoundInv'
  BY FoundNext
<1>. QED
  BY <1>1, <1>2, FoundInit, PTL DEF Spec
=============================================================================
