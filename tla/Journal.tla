------------------------------ MODULE Journal ------------------------------
(***************************************************************************)
(* The journal of one space: the rows of files with the time they were     *)
(* shared at, the tombstones that deletions leave while some member reads  *)
(* the journal, their pruning, and GET /journal with its checkpoints       *)
(* (JournalEndpoints, DeleteItem and the commit of UpsertItem).            *)
(*                                                                         *)
(* SharedAt and DeletedAt are taken before the commit that publishes them, *)
(* and the checkpoint before the queries it speaks for.  An upload of a    *)
(* file holds the write lock of the database meanwhile (BEGIN IMMEDIATE);  *)
(* everybody reads, and nobody else writes, until it commits.              *)
(***************************************************************************)
EXTENDS Integers, FiniteSets, FiniteSetsExt

CONSTANTS
  Items,       \* item ids
  Members,     \* members of the space, one device each
  Enrolled,    \* those with a LastSyncAt from the start
  Handlers,    \* requests of other clients that may be under way at once
  MaxClock,    \* bound on the clock
  MaxEntries,  \* JournalOptions.MaxEntriesPerSpace
  Ops,         \* what other clients do: "add", "update", "delete", "reset"
  Faults,      \* "overlap", "late", "db", "net", "restart"
  Never        \* null, where the code stores a time

ASSUME JournalAssumption ==
  /\ Enrolled \subseteq Members
  /\ MaxClock \in Nat \ {0}
  /\ MaxEntries \in Nat
  /\ Ops \subseteq {"add", "update", "delete", "reset"}
  /\ Faults \subseteq {"overlap", "late", "db", "net", "restart"}
  /\ Never \notin Nat

VARIABLES
  clock,     \* UtcNow of the server
  items,     \* items[i]: SharedAt of the row, or Never if there is none
  tombs,     \* tombs[i]: DeletedAt of the DeletedItem, or Never
  pruned,    \* Space.JournalPrunedBefore
  lastSync,  \* lastSync[m]: SpaceMember.LastSyncAt
  job,       \* job[h]: an upload or a deletion under way
  get        \* get[m]: the journal request of member m, up to its response

server == <<clock, items, tombs, pruned, lastSync, job, get>>

Times == 1..MaxClock
MinValue == 0    \* DateTime.MinValue, the LastSyncAt of a member just enrolled
OrNever(S) == S \cup {Never}

NoJob == [pc |-> "none"]
Upload == [pc : {"commit"}, item : Items, at : Times]
Deletion == [pc : {"remove"}, item : Items, at : Times, marks : BOOLEAN, known : BOOLEAN]
Count == [pc : {"excess"}]
Pruning == [pc : {"prune"}, drop : SUBSET Items, upto : Times]

NoGet == [pc |-> "none"]
Asked == [pc : {"member"}, pruned : OrNever(Times)]
Query == [pc : {"items", "tombs"}, since : Times \cup {MinValue}, checkpoint : Times,
          added : SUBSET (Items \X Times)]
Response == [pc : {"reply"}, full : BOOLEAN, since : Times \cup {MinValue}, checkpoint : Times,
             added : SUBSET (Items \X Times), deleted : SUBSET Items]

Latest(s, t) == IF s # Never /\ s >= t THEN s ELSE t

-----------------------------------------------------------------------------
(***************************************************************************)
(* Requests of other clients.                                              *)
(***************************************************************************)
Stamped == \E h \in Handlers : job[h].pc \in {"commit", "remove"}

\* An upload holds the write lock from before it takes SharedAt to its commit.
WriteLocked == \E h \in Handlers : job[h].pc = "commit"

\* Requests may overlap, or are served one by one.
MayStart ==
  \/ "overlap" \in Faults
  \/ /\ \A h \in Handlers : job[h] = NoJob
     /\ \A m \in Members : get[m].pc \in {"none", "reply"}

\* UpsertItem as far as SharedAt.
StartUpload(h, i) ==
  /\ MayStart /\ ~WriteLocked
  /\ job[h] = NoJob
  /\ IF items[i] = Never THEN "add" \in Ops ELSE "update" \in Ops
  /\ job' = [job EXCEPT ![h] = [pc |-> "commit", item |-> i, at |-> clock]]
  /\ UNCHANGED <<clock, items, tombs, pruned, lastSync, get>>

CommitUpload(h) ==
  /\ job[h].pc = "commit"
  /\ items' = [items EXCEPT ![job[h].item] = job[h].at]
  /\ job' = [job EXCEPT ![h] = NoJob]
  /\ UNCHANGED <<clock, tombs, pruned, lastSync, get>>

UploadFails(h) ==
  /\ job[h].pc = "commit" /\ "db" \in Faults
  /\ job' = [job EXCEPT ![h] = NoJob]
  /\ UNCHANGED <<clock, items, tombs, pruned, lastSync, get>>

\* A member that has asked for the journal and not reset its checkpoint.
HasJournalSubscribers == \E m \in Members : lastSync[m] # Never

\* DeleteItem as far as DeletedAt: it has loaded the row, looked for subscribers
\* and for an older tombstone of the item.
StartDelete(h, i) ==
  /\ MayStart
  /\ job[h] = NoJob
  /\ "delete" \in Ops /\ items[i] # Never
  /\ job' = [job EXCEPT ![h] =
       [pc |-> "remove", item |-> i, at |-> clock,
        marks |-> HasJournalSubscribers, known |-> tombs[i] # Never]]
  /\ UNCHANGED <<clock, items, tombs, pruned, lastSync, get>>

\* What SaveChanges of a deletion counts on: the row is still there, and so is
\* the tombstone it updates, or still not there the one it inserts.
AsLoaded(d) ==
  /\ items[d.item] # Never
  /\ d.marks => (d.known <=> tombs[d.item] # Never)

Remove(h) ==
  /\ job[h].pc = "remove" /\ ~WriteLocked
  /\ AsLoaded(job[h])
  /\ items' = [items EXCEPT ![job[h].item] = Never]
  /\ tombs' = IF job[h].marks THEN [tombs EXCEPT ![job[h].item] = job[h].at] ELSE tombs
  /\ job' = [job EXCEPT ![h] = IF job[h].marks THEN [pc |-> "excess"] ELSE NoJob]
  /\ UNCHANGED <<clock, pruned, lastSync, get>>

RemoveFails(h) ==
  /\ job[h].pc = "remove" /\ ~WriteLocked
  /\ ~AsLoaded(job[h]) \/ "db" \in Faults
  /\ job' = [job EXCEPT ![h] = NoJob]
  /\ UNCHANGED <<clock, items, tombs, pruned, lastSync, get>>

-----------------------------------------------------------------------------
(***************************************************************************)
(* PruneDeletedItems, the end of a deletion.                               *)
(***************************************************************************)
Marked == {i \in Items : tombs[i] # Never}

\* The n oldest tombstones, in any of the orders DeletedAt leaves open.
OldestEntries(n) ==
  {S \in kSubset(n, Marked) : \A i \in S, j \in Marked \ S : tombs[i] <= tombs[j]}

\* The entries of S the watermark is taken from.
Newest(S) == {i \in S : \A j \in S : tombs[j] <= tombs[i]}

CountExcess(h) ==
  /\ job[h].pc = "excess"
  /\ LET excess == Cardinality(Marked) - MaxEntries
     IN \/ /\ excess <= 0
           /\ job' = [job EXCEPT ![h] = NoJob]
        \/ /\ excess > 0
           /\ \E S \in OldestEntries(excess) : \E i \in Newest(S) :
                job' = [job EXCEPT ![h] = [pc |-> "prune", drop |-> S, upto |-> tombs[i]]]
  /\ UNCHANGED <<clock, items, tombs, pruned, lastSync, get>>

Prune(h) ==
  /\ job[h].pc = "prune" /\ ~WriteLocked
  /\ job[h].drop \subseteq Marked
  /\ tombs' = [i \in Items |-> IF i \in job[h].drop THEN Never ELSE tombs[i]]
  /\ pruned' = job[h].upto
  /\ job' = [job EXCEPT ![h] = NoJob]
  /\ UNCHANGED <<clock, items, lastSync, get>>

\* Another deletion has removed the same entries first.
PruneFails(h) ==
  /\ job[h].pc = "prune" /\ ~WriteLocked
  /\ ~(job[h].drop \subseteq Marked) \/ "db" \in Faults
  /\ job' = [job EXCEPT ![h] = NoJob]
  /\ UNCHANGED <<clock, items, tombs, pruned, lastSync, get>>

-----------------------------------------------------------------------------
(***************************************************************************)
(* GetJournal, query by query.                                             *)
(***************************************************************************)
GetSpace(m) ==
  /\ MayStart
  /\ get[m] = NoGet
  /\ get' = [get EXCEPT ![m] = [pc |-> "member", pruned |-> pruned]]
  /\ UNCHANGED <<clock, items, tombs, pruned, lastSync, job>>

\* Mutant: a checkpoint at the watermark itself is taken as covered.
PrunedAfter(since, watermark) == watermark # Never /\ since < watermark

FullSyncRequired(since, watermark) == watermark # Never /\ since <= watermark

\* Mutant: nobody is enrolled.
Unenrolled(m) == lastSync[m]

\* The checkpoint of the member, or the one it gets when it first asks.
SinceUtc(m) == IF lastSync[m] = Never THEN MinValue ELSE lastSync[m]

\* Loads the member, enrolls it if need be and takes the checkpoint.
GetMember(m) ==
  /\ get[m].pc = "member"
  /\ lastSync[m] = Never => ~WriteLocked
  /\ LET since == SinceUtc(m)
     IN /\ lastSync' = [lastSync EXCEPT ![m] = since]
        /\ get' = [get EXCEPT ![m] =
             IF FullSyncRequired(since, get[m].pruned)
               THEN [pc |-> "reply", full |-> TRUE, since |-> since, checkpoint |-> clock,
                     added |-> {}, deleted |-> {}]
               ELSE [pc |-> "items", since |-> since, checkpoint |-> clock, added |-> {}]]
  /\ UNCHANGED <<clock, items, tombs, pruned, job>>

\* Mutant: what happened at the very checkpoint is left out.
After(t, since) == t # Never /\ t > since

NotBefore(t, since) == t # Never /\ t >= since

GetItems(m) ==
  /\ get[m].pc = "items"
  /\ get' = [get EXCEPT ![m].pc = "tombs",
       ![m].added = {<<i, items[i]>> : i \in {j \in Items : NotBefore(items[j], get[m].since)}}]
  /\ UNCHANGED <<clock, items, tombs, pruned, lastSync, job>>

GetTombs(m) ==
  /\ get[m].pc = "tombs"
  /\ get' = [get EXCEPT ![m] =
       [pc |-> "reply", full |-> FALSE, since |-> get[m].since,
        checkpoint |-> get[m].checkpoint, added |-> get[m].added,
        deleted |-> {i \in Items : NotBefore(tombs[i], get[m].since)}]]
  /\ UNCHANGED <<clock, items, tombs, pruned, lastSync, job>>

GetJournal(m) == GetSpace(m) \/ GetMember(m) \/ GetItems(m) \/ GetTombs(m)

\* UpdateCheckpoint, with the checkpoint of the response.
UpdateCheckpoint(m) ==
  /\ get[m].pc = "reply" /\ ~WriteLocked
  /\ lastSync' = [lastSync EXCEPT ![m] = Latest(lastSync[m], get[m].checkpoint)]
  /\ get' = [get EXCEPT ![m] = NoGet]
  /\ UNCHANGED <<clock, items, tombs, pruned, job>>

\* The device does not acknowledge the response.
Forget(m) ==
  /\ get[m] # NoGet
  /\ get' = [get EXCEPT ![m] = NoGet]
  /\ UNCHANGED <<clock, items, tombs, pruned, lastSync, job>>

ResetCheckpoint(m) ==
  /\ "reset" \in Ops /\ MayStart /\ ~WriteLocked
  /\ lastSync[m] # Never
  /\ lastSync' = [lastSync EXCEPT ![m] = Never]
  /\ UNCHANGED <<clock, items, tombs, pruned, job, get>>

-----------------------------------------------------------------------------
\* Unless commits may be late, no time passes between a stamp and its commit.
Tick ==
  /\ clock < MaxClock
  /\ "late" \in Faults \/ ~Stamped
  /\ clock' = clock + 1
  /\ UNCHANGED <<items, tombs, pruned, lastSync, job, get>>

Init ==
  /\ clock = 1
  /\ items = [i \in Items |-> Never]
  /\ tombs = [i \in Items |-> Never]
  /\ pruned = Never
  /\ lastSync = [m \in Members |-> IF m \in Enrolled THEN MinValue ELSE Never]
  /\ job = [h \in Handlers |-> NoJob]
  /\ get = [m \in Members |-> NoGet]

Write(h) ==
  \/ \E i \in Items : StartUpload(h, i) \/ StartDelete(h, i)
  \/ CommitUpload(h) \/ UploadFails(h)
  \/ Remove(h) \/ RemoveFails(h)
  \/ CountExcess(h) \/ Prune(h) \/ PruneFails(h)

\* The server's own steps; what a device does with a response is left to it.
Serve ==
  \/ \E h \in Handlers : Write(h)
  \/ \E m \in Members : GetJournal(m) \/ ResetCheckpoint(m)
  \/ Tick

Next == Serve \/ \E m \in Members : UpdateCheckpoint(m) \/ Forget(m)

Spec == Init /\ [][Next]_server

-----------------------------------------------------------------------------
TypeOK ==
  /\ clock \in Times
  /\ items \in [Items -> OrNever(Times)]
  /\ tombs \in [Items -> OrNever(Times)]
  /\ pruned \in OrNever(Times)
  /\ lastSync \in [Members -> OrNever(Times \cup {MinValue})]
  /\ job \in [Handlers -> {NoJob} \cup Upload \cup Deletion \cup Count \cup Pruning]
  /\ get \in [Members -> {NoGet} \cup Asked \cup Query \cup Response]

\* A response that asks for no full sync has every row and every tombstone stamped
\* in its window, from the member's checkpoint up to the one it hands out: once
\* that is acknowledged nobody will look for them again (GetJournal).
WindowCovered ==
  \A m \in Members : get[m].pc = "reply" /\ ~get[m].full =>
    LET InWindow(t) == t # Never /\ t >= get[m].since /\ t < get[m].checkpoint
    IN \A i \in Items :
         /\ InWindow(items[i]) => <<i, items[i]>> \in get[m].added
         /\ InWindow(tombs[i]) => i \in get[m].deleted
=============================================================================
