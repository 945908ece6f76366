---------------------------- MODULE JournalSync ----------------------------
(***************************************************************************)
(* Devices that follow the journal: the command-line client in passive     *)
(* mode (SyncService) keeps a folder of files, the web client in large     *)
(* space mode (space-view.ts) a cached list of items.  Each asks for the   *)
(* journal, applies the response and acknowledges its checkpoint, one      *)
(* poll after the other.                                                   *)
(*                                                                         *)
(* A copy is named by the SharedAt of the row it was taken from.  File     *)
(* names are taken to tell items apart, and nothing is uploaded from here. *)
(***************************************************************************)
EXTENDS Journal

CONSTANT Kinds  \* the clients members use: "cli", "web"

ASSUME KindsAssumption == Kinds \subseteq {"cli", "web"}

VARIABLES
  kind,     \* kind[m]: the client of member m, the same all along
  copies,   \* copies[m][i]: SharedAt of the copy the device has, or Never
  claimed,  \* claimed[m]: keys of _downloadedItems
  sync      \* sync[m]: how far the device is with the response it holds

device == <<kind, copies, claimed, sync>>
vars == <<server, device>>

Cli == {m \in Members : kind[m] = "cli"}
Web == {m \in Members : kind[m] = "web"}

NoSync == [pc |-> "none"]
Applied == [pc |-> "ack"]

Ids(added) == {a[1] : a \in added}

-----------------------------------------------------------------------------
\* A poll starts once the one before has ended, with or without its checkpoint.
Poll(m) ==
  /\ sync[m] = NoSync
  /\ GetJournal(m)
  /\ UNCHANGED device

\* ApplyRemoteChanges: the deletions first, by name or by the claim.
ApplyDeletions(m) ==
  /\ m \in Cli /\ sync[m] = NoSync
  /\ get[m].pc = "reply" /\ ~get[m].full
  /\ copies' = [copies EXCEPT ![m] =
       [i \in Items |-> IF i \in get[m].deleted THEN Never ELSE @[i]]]
  /\ claimed' = [claimed EXCEPT ![m] = @ \ get[m].deleted]
  /\ sync' = [sync EXCEPT ![m] =
       [pc |-> "download", todo |-> Ids(get[m].added), failed |-> FALSE]]
  /\ UNCHANGED <<server, kind>>

\* PerformFullSync as far as CleanupAdditionalLocalFiles: it lists the items and
\* deletes the files of all others.
Reconcile(m) ==
  /\ m \in Cli /\ sync[m] = NoSync
  /\ get[m].pc = "reply" /\ get[m].full
  /\ LET listed == {i \in Items : items[i] # Never}
     IN /\ copies' = [copies EXCEPT ![m] = [i \in Items |-> IF i \in listed THEN @[i] ELSE Never]]
        /\ claimed' = [claimed EXCEPT ![m] = @ \cap listed]
        /\ sync' = [sync EXCEPT ![m] = [pc |-> "download", todo |-> listed, failed |-> FALSE]]
  /\ UNCHANGED <<server, kind>>

\* DownloadAndSaveFile of an item claimed before: taken as done.
SkipClaimed(m, i) ==
  /\ sync[m].pc = "download" /\ i \in sync[m].todo
  /\ i \in claimed[m]
  /\ sync' = [sync EXCEPT ![m].todo = @ \ {i}]
  /\ UNCHANGED <<server, kind, copies, claimed>>

\* The file the server has by now.
Download(m, i) ==
  /\ sync[m].pc = "download" /\ i \in sync[m].todo
  /\ i \notin claimed[m] /\ items[i] # Never
  /\ copies' = [copies EXCEPT ![m][i] = items[i]]
  /\ claimed' = [claimed EXCEPT ![m] = @ \cup {i}]
  /\ sync' = [sync EXCEPT ![m].todo = @ \ {i}]
  /\ UNCHANGED <<server, kind>>

\* Mutant: a download that fails counts as done.
AnyOutcome(failed) == FALSE

Outcome(failed) == failed

\* It is gone, or the download breaks off: the claim is given back. A full sync
\* stops there, the others go on.
DownloadFails(m, i) ==
  /\ sync[m].pc = "download" /\ i \in sync[m].todo
  /\ i \notin claimed[m]
  /\ items[i] = Never \/ "net" \in Faults
  /\ sync' = [sync EXCEPT ![m].failed = Outcome(TRUE),
                          ![m].todo = IF get[m].full THEN {} ELSE @ \ {i}]
  /\ UNCHANGED <<server, kind, copies, claimed>>

\* All of it applied.
Complete(m) ==
  /\ sync[m].pc = "download" /\ sync[m].todo = {} /\ ~sync[m].failed
  /\ sync' = [sync EXCEPT ![m] = Applied]
  /\ UNCHANGED <<server, kind, copies, claimed>>

\* Some of it not: the checkpoint is not acknowledged.
GiveUp(m) ==
  /\ sync[m].pc = "download" /\ sync[m].todo = {} /\ sync[m].failed
  /\ sync' = [sync EXCEPT ![m] = NoSync]
  /\ Forget(m)
  /\ UNCHANGED <<kind, copies, claimed>>

-----------------------------------------------------------------------------
\* applyJournalDelta. The elements of journal.deleted are objects with an id and
\* a content; taken for ids, as the interface declares them, they are the key of
\* nothing in the map.
ApplyDelta(m) ==
  /\ m \in Web /\ sync[m] = NoSync
  /\ get[m].pc = "reply" /\ ~get[m].full
  /\ LET keys == get[m].added
     IN copies' = [copies EXCEPT ![m] =
          [i \in Items |-> IF i \in Ids(keys) THEN (CHOOSE a \in keys : a[1] = i)[2] ELSE @[i]]]
  /\ sync' = [sync EXCEPT ![m] = Applied]
  /\ UNCHANGED <<server, kind, claimed>>

\* loadDataWithJournalSync when a full sync is required.
Reload(m) ==
  /\ m \in Web /\ sync[m] = NoSync
  /\ get[m].pc = "reply" /\ get[m].full
  /\ copies' = [copies EXCEPT ![m] = items]
  /\ sync' = [sync EXCEPT ![m] = Applied]
  /\ UNCHANGED <<server, kind, claimed>>

-----------------------------------------------------------------------------
Acknowledge(m) ==
  /\ sync[m] = Applied
  /\ UpdateCheckpoint(m)
  /\ sync' = [sync EXCEPT ![m] = NoSync]
  /\ UNCHANGED <<kind, copies, claimed>>

\* The request for the journal or for the checkpoint is lost.
PollFails(m) ==
  /\ "net" \in Faults
  /\ sync[m] = Applied \/ sync[m] = NoSync
  /\ Forget(m)
  /\ sync' = [sync EXCEPT ![m] = NoSync]
  /\ UNCHANGED <<kind, copies, claimed>>

\* The device is started again: the files stay, the claims do not.
RestartDevice(m) ==
  /\ "restart" \in Faults
  /\ claimed' = [claimed EXCEPT ![m] = {}]
  /\ sync' = [sync EXCEPT ![m] = NoSync]
  /\ get' = [get EXCEPT ![m] = NoGet]
  /\ UNCHANGED <<clock, items, tombs, pruned, lastSync, job, kind, copies>>

Apply(m) ==
  \/ ApplyDeletions(m) \/ Reconcile(m)
  \/ \E i \in Items : SkipClaimed(m, i) \/ Download(m, i) \/ DownloadFails(m, i)
  \/ Complete(m) \/ GiveUp(m)
  \/ ApplyDelta(m) \/ Reload(m)

SyncInit ==
  /\ Init
  /\ kind \in [Members -> Kinds]
  /\ copies = [m \in Members |-> [i \in Items |-> Never]]
  /\ claimed = [m \in Members |-> {}]
  /\ sync = [m \in Members |-> NoSync]

\* No client here resets a checkpoint, though a member's token allows it. Bound: not
\* that of a member who keeps files, whose deletions would be missed from then on.
Background ==
  \/ \E h \in Handlers : Write(h)
  \/ \E m \in Web : ResetCheckpoint(m)
  \/ Tick

SyncNext ==
  \/ Background /\ UNCHANGED device
  \/ \E m \in Members :
       Poll(m) \/ Apply(m) \/ Acknowledge(m) \/ PollFails(m) \/ RestartDevice(m)

SyncSpec == SyncInit /\ [][SyncNext]_vars

-----------------------------------------------------------------------------
\* A row the journal will not report to m again.
Reported(m, i) == lastSync[m] # Never /\ items[i] # Never /\ items[i] < lastSync[m]

\* Whatever the journal will not report again the device holds, and held before it
\* acknowledged it (AcknowledgeCheckpointAsync, only after every download; the last
\* step of applyJournalDelta).
F == INSTANCE Follower WITH
  Items <- Members \X Items,
  due <- {x \in Members \X Items : Reported(x[1], x[2])},
  held <- {x \in Members \X Items : copies[x[1]][x[2]] # Never}

FollowsJournal == F!Spec

\* The web client's list has these rows as they are now, not as they once were
\* (applyJournalDelta).
UpdatesArrive == \A m \in Web, i \in Items : Reported(m, i) => copies[m][i] = items[i]

\* Member m's device has still to be told that i is gone, by a tombstone of its
\* window or by being sent to a full sync; or it has no copy of it.
Told(m, i) ==
  lastSync[m] # Never /\ copies[m][i] # Never /\ items[i] = Never =>
    \/ tombs[i] # Never /\ lastSync[m] <= tombs[i]
    \/ pruned # Never /\ lastSync[m] <= pruned

\* A deleted file does not stay in the folder of the command-line client
\* (ApplyRemoteChangesAsync, DeleteItem's tombstones and their pruning).
DeletionsArrive == \A m \in Cli, i \in Items : Told(m, i)

\* Nor in the list of the web client (applyJournalDelta).
WebDeletionsArrive == \A m \in Web, i \in Items : Told(m, i)
=============================================================================
