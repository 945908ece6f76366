----------------------------- MODULE SpaceView -----------------------------
(***************************************************************************)
(* The list of <space-view>: loads, the cached list and the journal of     *)
(* large space mode, the events of the hub, the verifications that follow  *)
(* them, and deletions, in one space.                                      *)
(*                                                                         *)
(* The code reads this.items anew after every await: a task keeps only     *)
(* what a request brought back.  IndexedDB serves requests in the order    *)
(* they are made: a write counts from then, and a read brings back what    *)
(* was there then.                                                         *)
(*                                                                         *)
(* A checkpoint is the set of the items shared by then; an item is shared  *)
(* once.  Deletions in a response of the journal have no effect here (see  *)
(* JournalSync), and uploads are ComposeQueue's.                           *)
(***************************************************************************)
EXTENDS Naturals, FiniteSets

CONSTANTS
  Items,
  Early,       \* the items that are there from the start
  Loads,       \* loadData calls that may run at once
  Overlaps,    \* what may come while the list is loaded: "verify", "reload", "user"
  Ops,         \* "delete", "toggle", "refresh"
  Faults,      \* "drop", "fail", "auth", "prune", "offline", "reload", "lost"
  MaxFaults,   \* bound on how many of them happen
  MaxActs,     \* bound on what the user does of Ops
  MaxToggles,  \* bound on toggling large space mode
  None

ASSUME SpaceViewAssumption ==
  /\ Early \subseteq Items
  /\ Overlaps \subseteq {"verify", "reload", "user"}
  /\ Ops \subseteq {"delete", "toggle", "refresh"}
  /\ Faults \subseteq {"drop", "fail", "auth", "prune", "offline", "reload", "lost"}
  /\ {MaxFaults, MaxActs, MaxToggles} \subseteq Nat
  /\ Loads \cap {"verify", "refresh", "wake"} = {}
  /\ None \notin Items /\ \A S \in SUBSET Items : S # None

VARIABLES
  faults,     \* how many so far
  acts,       \* what the user has done so far
  state,      \* state[i]: "new", "live" or "gone"
  acked,      \* the checkpoint the server has of this member, or None
  inbox,      \* broadcasts on their way, in no order
  enabled,    \* journal-sync-settings of the browser
  cache,      \* the items of the journal-cache entry, or None
  toggles,
  shown,      \* this.items
  journalOn,  \* this.journalSyncEnabled
  error,      \* connectionErrorType; any failure but "auth" counts as "network"
  online,     \* this.isOnline
  hub,        \* the SignalR client: its connectionState
  task,       \* the asynchronous calls under way
  requested,  \* journalVerificationRequested
  timer,      \* journalVerifyTimer is set
  touches,    \* calls of updateJournalCacheAfterChange that found an entry
  deleting    \* deletions the user confirmed

world == <<state, acked, inbox>>
stored == <<enabled, cache, toggles>>
view == <<shown, journalOn, error, online, hub>>
running == <<task, requested, timer, touches, deleting>>
vars == <<faults, acts, world, stored, view, running>>

Runs == Loads \cup {"verify", "refresh", "wake"}

Live == {i \in Items : state[i] = "live"}
Shared == {i \in Items : state[i] # "new"}

Idle == [pc |-> "idle"]
Failed == [pc |-> "failed"]
Rests(k) == task[k] \in {Idle, Failed}
IsLoading == \E k \in Loads : ~Rests(k)
Quiet == touches = 0 /\ \A k \in Runs : Rests(k)

\* Bound: what may have to wait until no list is loaded, by whichever task.
Loading(k) == ~Rests(k) /\ task[k].pc \notin {"stop", "start"}
May(act) == act \in Overlaps \/ \A k \in Runs : ~Loading(k)

Fault(f) == f \in Faults /\ faults < MaxFaults /\ faults' = faults + 1

Act(op) == op \in Ops /\ acts < MaxActs /\ acts' = acts + 1

\* The server tells whoever is connected.
Broadcast(what, i) ==
  inbox' = IF hub = "connected" THEN inbox \cup {<<what, i>>} ELSE inbox

\* loadDataWithJournalSync, loadDataWithFullFetch: what they ask for first.
Cached == [pc |-> "cache", list |-> cache]
Full == [pc |-> "items", upto |-> None]

-----------------------------------------------------------------------------
(***************************************************************************)
(* scheduleJournalVerification and what becomes of it.                     *)
(***************************************************************************)
Schedule(isOn, isOnline, inFlight) ==
  IF isOn /\ isOnline
    THEN requested' = TRUE /\ timer' = (timer \/ ~inFlight)
    ELSE UNCHANGED <<requested, timer>>

\* Mutant: nothing is verified.
NoSchedule == UNCHANGED <<requested, timer>>

ScheduleNow == Schedule(journalOn, online, ~Rests("verify"))

\* The timer fires; a verification that still runs keeps the request.
RunJournalVerification ==
  /\ timer /\ timer' = FALSE
  /\ May("verify")
  /\ IF requested /\ Rests("verify")
       THEN /\ requested' = FALSE
            /\ task' = [task EXCEPT !["verify"] =
                 IF journalOn THEN Cached ELSE Idle]
       ELSE UNCHANGED <<requested, task>>
  /\ UNCHANGED <<acts, faults, world, stored, view, touches, deleting>>

\* Mutant: a request that came while the verification ran is left lying.
ForgetRequest(k) == UNCHANGED <<requested, timer>>

\* The finally of runJournalVerification.
Finish(k) ==
  IF k = "verify" /\ requested
    THEN Schedule(journalOn, online, FALSE)
    ELSE UNCHANGED <<requested, timer>>

-----------------------------------------------------------------------------
(***************************************************************************)
(* loadDataWithJournalSync and loadDataWithFullFetch, of whichever task.   *)
(***************************************************************************)
Continue(k, t) == task' = [task EXCEPT ![k] = t]

ReadCache(k) ==
  /\ task[k].pc = "cache"
  /\ shown' = IF task[k].list = None THEN shown ELSE task[k].list
  /\ Continue(k, [pc |-> "journal"])
  /\ UNCHANGED <<acts, faults, world, stored, journalOn, error, online, hub, requested, timer,
                 touches, deleting>>

\* The response of GET /journal: what was shared after the checkpoint, or, when
\* tombstones have been pruned, the order to load everything.
ServeJournal(k) ==
  /\ task[k].pc = "journal"
  /\ LET known == IF acked = None THEN {} ELSE acked
     IN /\ acked' = known
        /\ \/ Continue(k, [pc |-> "delta", added |-> Live \ known, upto |-> Shared])
           \/ /\ "prune" \in Faults
              /\ \E i \in Items : state[i] = "gone" /\ i \notin known
              /\ Continue(k, [pc |-> "items", upto |-> Shared])
  /\ UNCHANGED <<acts, faults, state, inbox, stored, view, requested, timer, touches, deleting>>

\* Mutant: the checkpoint is acknowledged and the list not kept.
AcknowledgeOnly(k, list, upto) ==
  /\ Continue(k, [pc |-> "ack", upto |-> upto])
  /\ UNCHANGED <<cache, faults>>

\* setJournalCache, then updateJournalCheckpoint; or the write fails, and that leads
\* to a full fetch.
CacheAndAcknowledge(k, list, upto) ==
  \/ /\ cache' = list
     /\ Continue(k, [pc |-> "ack", upto |-> upto])
     /\ UNCHANGED faults
  \/ /\ Fault("fail")
     /\ Continue(k, Full)
     /\ UNCHANGED cache

ApplyJournalDelta(k) ==
  /\ task[k].pc = "delta"
  /\ shown' = shown \cup task[k].added
  /\ CacheAndAcknowledge(k, shown', task[k].upto)
  /\ UNCHANGED <<acts, world, enabled, toggles, journalOn, error, online, hub, requested, timer,
                 touches, deleting>>

ServeItems(k) ==
  /\ task[k].pc = "items"
  /\ Continue(k, [pc |-> "listed", list |-> Live, upto |-> task[k].upto])
  /\ UNCHANGED <<acts, faults, world, stored, view, requested, timer, touches, deleting>>

\* What follows a load that succeeded.
Synced(k) == IF k \in Loads THEN [pc |-> "stop"] ELSE Idle

\* The list replaces this.items, whatever has happened to it meanwhile.
SetItems(k) ==
  /\ task[k].pc = "listed"
  /\ shown' = task[k].list
  /\ IF task[k].upto = None
       THEN Continue(k, Synced(k)) /\ Finish(k) /\ UNCHANGED <<faults, cache>>
       ELSE /\ CacheAndAcknowledge(k, shown', task[k].upto)
            /\ UNCHANGED <<requested, timer>>
  /\ UNCHANGED <<acts, world, enabled, toggles, journalOn, error, online, hub, touches,
                 deleting>>

\* updateJournalCheckpoint: the later of the two stays.
UpdateJournalCheckpoint(k) ==
  /\ task[k].pc = "ack"
  /\ acked' = IF acked = None THEN task[k].upto ELSE acked \cup task[k].upto
  /\ Continue(k, Synced(k)) /\ Finish(k)
  /\ UNCHANGED <<acts, faults, state, inbox, stored, view, touches, deleting>>

\* A request fails.  In the journal's part that leads to a full fetch, unless the
\* server refuses the token.
RequestFails(k) ==
  /\ task[k].pc \in {"journal", "items", "ack"}
  /\ \E kind \in {"network", "auth"} :
       /\ Fault(IF kind = "auth" THEN "auth" ELSE "fail")
       /\ IF kind # "auth" /\ ~(task[k].pc = "items" /\ task[k].upto = None)
            THEN /\ Continue(k, Full)
                 /\ UNCHANGED <<error, requested, timer>>
            ELSE /\ error' = IF k \in Loads THEN kind ELSE error
                 /\ Continue(k, Failed) /\ Finish(k)
  /\ UNCHANGED <<acts, world, stored, shown, journalOn, online, hub, touches, deleting>>

Sync(k) ==
  \/ ReadCache(k) \/ ServeJournal(k) \/ ApplyJournalDelta(k)
  \/ ServeItems(k) \/ SetItems(k) \/ UpdateJournalCheckpoint(k)
  \/ RequestFails(k)

-----------------------------------------------------------------------------
(***************************************************************************)
(* loadData and startSignalR.                                              *)
(***************************************************************************)
\* As far as loadJournalSyncSetting; the tokens are in memory.
LoadData(k) ==
  /\ k \in Loads /\ Rests(k)
  /\ error' = "none"
  /\ Continue(k, [pc |-> "prepare"])

Prepared(k) ==
  /\ task[k].pc = "prepare"
  /\ journalOn' = enabled
  /\ Continue(k, IF journalOn' THEN Cached ELSE Full)
  /\ UNCHANGED <<acts, faults, world, stored, shown, error, online, hub, requested, timer,
                 touches, deleting>>

StopSignalR(k) ==
  /\ task[k].pc = "stop"
  /\ hub' = "disconnected"
  /\ inbox' = {}
  /\ Continue(k, [pc |-> "start"])
  /\ UNCHANGED <<acts, faults, state, acked, stored, shown, journalOn, error, online, requested,
                 timer, touches, deleting>>

StartSignalR(k) ==
  /\ task[k].pc = "start"
  /\ Continue(k, Idle)
  /\ \/ /\ hub' = "connected"
        /\ ScheduleNow
        /\ UNCHANGED faults
     \/ /\ Fault("drop")
        /\ hub' = "disconnected"
        /\ UNCHANGED <<requested, timer>>
  /\ UNCHANGED <<acts, world, stored, shown, journalOn, error, online, touches, deleting>>

\* The connection breaks, messages are lost with it; it comes back or is given up.
ConnectionLost ==
  /\ Fault("drop") /\ hub = "connected"
  /\ hub' = "reconnecting"
  /\ inbox' = {}
  /\ UNCHANGED <<acts, state, acked, stored, shown, journalOn, error, online, running>>

Reconnected ==
  /\ hub = "reconnecting"
  /\ hub' = "connected"
  /\ ScheduleNow
  /\ UNCHANGED <<acts, faults, world, stored, shown, journalOn, error, online, task, touches,
                 deleting>>

Closed ==
  /\ hub = "reconnecting"
  /\ hub' = "disconnected"
  /\ UNCHANGED <<acts, faults, world, stored, shown, journalOn, error, online, running>>

\* The page becomes visible. Two calls of startSignalR are taken not to overlap.
HandleVisibilityChange ==
  /\ hub = "disconnected" /\ Quiet
  /\ Continue("wake", [pc |-> "stop"])
  /\ ScheduleNow
  /\ UNCHANGED <<acts, faults, world, stored, view, touches, deleting>>

HandleOffline ==
  /\ Fault("offline") /\ online
  /\ online' = FALSE
  /\ UNCHANGED <<acts, world, stored, shown, journalOn, error, hub, running>>

HandleOnline ==
  /\ ~online
  /\ online' = TRUE
  /\ Schedule(journalOn, TRUE, ~Rests("verify"))
  /\ UNCHANGED <<acts, faults, world, stored, shown, journalOn, error, hub, task, touches,
                 deleting>>

-----------------------------------------------------------------------------
(***************************************************************************)
(* Events of the hub, and the cache entry they update.                     *)
(***************************************************************************)
Touched == IF journalOn /\ cache # None THEN touches + 1 ELSE touches

HandleItemAdded(i) ==
  /\ <<"added", i>> \in inbox
  /\ inbox' = inbox \ {<<"added", i>>}
  /\ shown' = shown \cup {i}
  /\ IF i \in shown
       THEN UNCHANGED <<touches, requested, timer>>
       ELSE /\ touches' = Touched
            /\ ScheduleNow
  /\ UNCHANGED <<acts, faults, state, acked, stored, journalOn, error, online, hub, task,
                 deleting>>

HandleItemDeleted(i) ==
  /\ <<"deleted", i>> \in inbox
  /\ inbox' = inbox \ {<<"deleted", i>>}
  /\ shown' = shown \ {i}
  /\ touches' = Touched
  /\ ScheduleNow
  /\ UNCHANGED <<acts, faults, state, acked, stored, journalOn, error, online, hub, task,
                 deleting>>

\* Mutant: the list in another.
NestedItems == {shown}

CurrentItems == shown

UpdateJournalCacheAfterChange ==
  /\ touches > 0
  /\ touches' = touches - 1
  /\ cache' = CurrentItems
  /\ UNCHANGED <<acts, faults, world, enabled, toggles, view, task, requested, timer, deleting>>

-----------------------------------------------------------------------------
(***************************************************************************)
(* The user, and the other members.                                        *)
(***************************************************************************)
\* The list and the settings are on the page.
Usable == ~IsLoading /\ error # "auth"

ConfirmDelete(i) ==
  /\ Act("delete") /\ Usable /\ i \in shown
  /\ shown' = shown \ {i}
  /\ deleting' = deleting \cup {i}
  /\ UNCHANGED <<faults, world, stored, journalOn, error, online, hub, task, requested, timer,
                 touches>>

\* The item is deleted; or, already gone, it counts as a refused token; or the
\* request or the answer is lost and the item is put back.
DeleteAnswered(i) ==
  /\ deleting' = deleting \ {i}
  /\ LET Remove == state' = [state EXCEPT ![i] = "gone"] /\ Broadcast("deleted", i)
     IN \/ i \in Live /\ Remove /\ UNCHANGED <<faults, shown, error>>
        \/ i \notin Live /\ error' = "auth" /\ UNCHANGED <<faults, state, inbox, shown>>
        \/ /\ Fault("lost")
           /\ (i \in Live /\ Remove) \/ UNCHANGED <<state, inbox>>
           /\ shown' = shown \cup {i}
           /\ UNCHANGED error
  /\ UNCHANGED <<acts, acked, stored, journalOn, online, hub, task, requested, timer, touches>>

\* toggleJournalSync, its writes taken together, then loadData.
ToggleJournalSync(k) ==
  /\ Act("toggle") /\ toggles < MaxToggles
  /\ Usable /\ May("user")
  /\ toggles' = toggles + 1
  /\ enabled' = ~journalOn
  /\ journalOn' = ~journalOn
  /\ cache' = IF journalOn' THEN cache ELSE None
  /\ LoadData(k)
  /\ UNCHANGED <<faults, world, shown, online, hub, requested, timer, touches, deleting>>

\* The buttons Retry and Reconnect.
Retry(k) ==
  /\ error # "none" /\ ~IsLoading /\ May("user")
  /\ LoadData(k)
  /\ UNCHANGED <<acts, faults, world, stored, shown, journalOn, online, hub, requested, timer,
                 touches, deleting>>

\* The queue has uploaded something: refreshItemsAfterReconnect.
RefreshItemsAfterReconnect ==
  /\ Act("refresh") /\ Rests("refresh") /\ May("user")
  /\ Continue("refresh", IF journalOn THEN Cached ELSE Full)
  /\ UNCHANGED <<faults, world, stored, view, requested, timer, touches, deleting>>

\* The page is loaded again, once no deletion is under way: only what is stored is
\* left.
Fresh(k) ==
  /\ shown' = {} /\ journalOn' = FALSE /\ error' = "none"
  /\ hub' = "disconnected"
  /\ task' = [r \in Runs |-> IF r = k THEN [pc |-> "prepare"] ELSE Idle]
  /\ requested' = FALSE /\ timer' = FALSE
  /\ touches' = 0 /\ deleting' = {}

ReloadPage(k) ==
  /\ Fault("reload") /\ May("reload")
  /\ k \in Loads /\ deleting = {}
  /\ inbox' = {}
  /\ UNCHANGED <<acts, state, acked, stored, online>>
  /\ Fresh(k)

Publish(i) ==
  /\ state[i] = "new"
  /\ state' = [state EXCEPT ![i] = "live"]
  /\ Broadcast("added", i)
  /\ UNCHANGED <<acts, faults, acked, stored, view, running>>

Withdraw(i) ==
  /\ state[i] = "live"
  /\ state' = [state EXCEPT ![i] = "gone"]
  /\ Broadcast("deleted", i)
  /\ UNCHANGED <<acts, faults, acked, stored, view, running>>

-----------------------------------------------------------------------------
\* Large space mode may be on already, with nothing loaded yet.
Init ==
  /\ faults = 0 /\ acts = 0
  /\ state = [i \in Items |-> IF i \in Early THEN "live" ELSE "new"]
  /\ acked = None
  /\ inbox = {}
  /\ enabled \in BOOLEAN
  /\ cache = None
  /\ toggles = 0
  /\ shown = {} /\ journalOn = FALSE /\ error = "none" /\ online = TRUE
  /\ hub = "disconnected"
  /\ \E k \in Loads :
       task = [r \in Runs |-> IF r = k THEN [pc |-> "prepare"] ELSE Idle]
  /\ requested = FALSE /\ timer = FALSE
  /\ touches = 0 /\ deleting = {}

\* What goes on by itself.
Work ==
  \/ RunJournalVerification
  \/ \E k \in Runs : Sync(k) \/ Prepared(k) \/ StopSignalR(k) \/ StartSignalR(k)
  \/ \E i \in Items : HandleItemAdded(i) \/ HandleItemDeleted(i)
  \/ UpdateJournalCacheAfterChange
  \/ \E i \in deleting : DeleteAnswered(i)

User ==
  \/ \E i \in Items : ConfirmDelete(i)
  \/ \E k \in Loads :
       ToggleJournalSync(k) \/ Retry(k) \/ ReloadPage(k)
  \/ HandleVisibilityChange

Next ==
  \/ Work \/ User
  \/ \E i \in Items : Publish(i) \/ Withdraw(i)
  \/ ConnectionLost \/ Reconnected \/ Closed \/ HandleOffline \/ HandleOnline
  \/ RefreshItemsAfterReconnect

Spec == Init /\ [][Next]_vars

\* Timers fire, and calls come to an end, well or not.
FairSpec ==
  /\ Spec
  /\ WF_vars(RunJournalVerification)
  /\ \A k \in Runs : WF_vars(Sync(k) \/ Prepared(k) \/ StopSignalR(k) \/ StartSignalR(k))

-----------------------------------------------------------------------------
Tasks ==
  {Idle, Failed} \cup [pc : {"prepare", "journal", "stop", "start"}]
  \cup [pc : {"cache"}, list : (SUBSET Items) \cup {None}]
  \cup [pc : {"delta"}, added : SUBSET Items, upto : SUBSET Items]
  \cup [pc : {"items"}, upto : (SUBSET Items) \cup {None}]
  \cup [pc : {"ack"}, upto : SUBSET Items]
  \cup [pc : {"listed"}, list : SUBSET Items, upto : (SUBSET Items) \cup {None}]

TypeOK ==
  /\ faults \in 0..MaxFaults /\ acts \in 0..MaxActs /\ toggles \in 0..MaxToggles
  /\ state \in [Items -> {"new", "live", "gone"}]
  /\ {acked, cache} \subseteq (SUBSET Items) \cup {None}
  /\ inbox \subseteq {"added", "deleted"} \X Items
  /\ shown \subseteq Items
  /\ {enabled, journalOn, online, requested, timer} \subseteq BOOLEAN
  /\ error \in {"none", "network", "auth"}
  /\ hub \in {"connected", "reconnecting", "disconnected"}
  /\ task \in [Runs -> Tasks]
  /\ touches \in Nat /\ deleting \subseteq Items

\* Once the page is connected, in large space mode, and all it has to do is done, it
\* shows every item of its space: what the hub did not deliver, while a load ran or
\* the connection was lost, a verification has found.
NothingMissing ==
  /\ Quiet /\ ~timer /\ inbox = {} /\ deleting = {}
  /\ journalOn /\ online /\ error = "none"
  /\ hub = "connected"
  /\ \A k \in Runs : task[k] # Failed
  => Live \subseteq shown

\* A verification asked for is made, also one asked for while another ran.
VerificationRuns == requested ~> (~requested \/ ~journalOn \/ ~online)

\* A restart finds what it will not be told again: the list is in the cache before
\* its checkpoint is acknowledged, and stays there (applyJournalDelta,
\* updateJournalCacheAfterChange). What the user has just deleted is not due.
F == INSTANCE Follower WITH
  due <- IF enabled /\ acked # None THEN (acked \cap Live) \ deleting ELSE {},
  held <- IF cache = None THEN {} ELSE cache

FollowsJournal == F!Spec
=============================================================================
