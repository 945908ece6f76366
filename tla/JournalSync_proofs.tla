------------------------- MODULE JournalSync_proofs -------------------------
(***************************************************************************)
(* Theorems about the journal and the devices that follow it, for any      *)
(* number of members, items and requests and any limit on the tombstones.  *)
(*                                                                         *)
(* First the journal by itself: a response covers its window, as long as   *)
(* no commit is later than the stamp it publishes.  Then the devices: what *)
(* is shared reaches them on the same condition, and deletions as long as  *)
(* requests are served one by one.                                         *)
(***************************************************************************)
EXTENDS JournalSync, TLAPS

USE DEF Times, OrNever, MinValue

LEMMA TypeInit == Init => TypeOK
BY JournalAssumption DEF Init, TypeOK

\* The jobs and requests are records of several shapes, told apart by pc.
LEMMA JobShapes ==
  ASSUME TypeOK, NEW h \in Handlers
  PROVE  /\ job[h].pc = "commit" => job[h] \in Upload
         /\ job[h].pc = "remove" => job[h] \in Deletion
         /\ job[h].pc = "prune" => job[h] \in Pruning
BY DEF TypeOK, NoJob, Upload, Deletion, Count, Pruning

LEMMA GetShapes ==
  ASSUME TypeOK, NEW m \in Members
  PROVE  /\ get[m].pc = "member" => get[m] \in Asked
         /\ get[m].pc \in {"items", "tombs"} => get[m] \in Query
         /\ get[m].pc = "reply" => get[m] \in Response
BY DEF TypeOK, NoGet, Asked, Query, Response

LEMMA WriteType ==
  ASSUME TypeOK, NEW h \in Handlers, Write(h)
  PROVE  TypeOK'
<1> USE JournalAssumption
<1>1. ASSUME NEW i \in Items, StartUpload(h, i) PROVE TypeOK'
  <2>1. [pc |-> "commit", item |-> i, at |-> clock] \in Upload
    BY DEF TypeOK, Upload
  <2>. QED
    BY <1>1, <2>1 DEF StartUpload, TypeOK
<1>2. ASSUME NEW i \in Items, StartDelete(h, i) PROVE TypeOK'
  <2>1. HasJournalSubscribers \in BOOLEAN /\ (tombs[i] # Never) \in BOOLEAN
    BY DEF HasJournalSubscribers
  <2>2. [pc |-> "remove", item |-> i, at |-> clock,
         marks |-> HasJournalSubscribers, known |-> tombs[i] # Never] \in Deletion
    BY <2>1, Zenon DEF TypeOK, Deletion
  <2>. QED
    BY <1>2, <2>2 DEF StartDelete, TypeOK
<1>3. CASE CommitUpload(h)
  BY <1>3, JobShapes DEF CommitUpload, TypeOK, Upload
<1>4. CASE UploadFails(h) \/ RemoveFails(h) \/ PruneFails(h)
  BY <1>4 DEF UploadFails, RemoveFails, PruneFails, TypeOK
<1>5. CASE Remove(h)
  <2>1. job[h] \in Deletion
    BY <1>5, JobShapes DEF Remove
  <2>2. items' \in [Items -> OrNever(Times)] /\ tombs' \in [Items -> OrNever(Times)]
    BY <1>5, <2>1 DEF Remove, TypeOK, Deletion
  <2>3. job' \in [Handlers -> {NoJob} \cup Upload \cup Deletion \cup Count \cup Pruning]
    BY <1>5 DEF Remove, TypeOK, Count
  <2>. QED
    BY <1>5, <2>2, <2>3 DEF Remove, TypeOK
<1>6. CASE CountExcess(h)
  <2>1. CASE job' = [job EXCEPT ![h] = NoJob]
    BY <1>6, <2>1 DEF CountExcess, TypeOK
  <2>2. CASE job' # [job EXCEPT ![h] = NoJob]
    <3>1. PICK n \in {Cardinality(Marked) - MaxEntries} :
            \E S \in OldestEntries(n) : \E i \in Newest(S) :
              job' = [job EXCEPT ![h] = [pc |-> "prune", drop |-> S, upto |-> tombs[i]]]
      BY <1>6, <2>2 DEF CountExcess
    <3>2. PICK S \in OldestEntries(n) : \E i \in Newest(S) :
            job' = [job EXCEPT ![h] = [pc |-> "prune", drop |-> S, upto |-> tombs[i]]]
      BY <3>1
    <3>3. S \subseteq Marked
      BY <3>2 DEF OldestEntries, kSubset
    <3>4. PICK i \in Newest(S) :
            job' = [job EXCEPT ![h] = [pc |-> "prune", drop |-> S, upto |-> tombs[i]]]
      BY <3>2
    <3>5. tombs[i] \in Times
      BY <3>3, <3>4 DEF Newest, Marked, TypeOK
    <3>6. [pc |-> "prune", drop |-> S, upto |-> tombs[i]] \in Pruning
      BY <3>3, <3>5 DEF Marked, Pruning
    <3>. QED
      BY <1>6, <3>4, <3>6 DEF CountExcess, TypeOK
  <2>. QED
    BY <2>1, <2>2
<1>7. CASE Prune(h)
  <2>1. job[h].upto \in Times
    BY <1>7, JobShapes DEF Prune, Pruning
  <2>. QED
    BY <1>7, <2>1 DEF Prune, TypeOK
<1>. QED
  BY <1>1, <1>2, <1>3, <1>4, <1>5, <1>6, <1>7 DEF Write

LEMMA GetType ==
  ASSUME TypeOK, NEW m \in Members, GetJournal(m)
  PROVE  TypeOK'
<1> USE JournalAssumption
<1>1. CASE GetSpace(m)
  BY <1>1 DEF GetSpace, TypeOK, Asked
<1>2. CASE GetMember(m)
  <2>1. SinceUtc(m) \in Times \cup {MinValue}
    BY DEF SinceUtc, TypeOK
  <2>2. get' \in [Members -> {NoGet} \cup Asked \cup Query \cup Response]
    BY <1>2, <2>1 DEF GetMember, TypeOK, Query, Response
  <2>. QED
    BY <1>2, <2>1, <2>2 DEF GetMember, TypeOK
<1>3. CASE GetItems(m)
  <2>1. get[m] \in Query
    BY <1>3, GetShapes DEF GetItems
  <2>2. {<<i, items[i]>> : i \in {j \in Items : NotBefore(items[j], get[m].since)}}
          \in SUBSET (Items \X Times)
    BY DEF TypeOK, NotBefore
  <2>3. get'[m] \in Query
    BY <1>3, <2>1, <2>2 DEF GetItems, TypeOK, Query
  <2>. QED
    BY <1>3, <2>3 DEF GetItems, TypeOK
<1>4. CASE GetTombs(m)
  <2>1. get[m] \in Query
    BY <1>4, GetShapes DEF GetTombs
  <2>2. get'[m] \in Response
    BY <1>4, <2>1 DEF GetTombs, TypeOK, Query, Response
  <2>. QED
    BY <1>4, <2>2 DEF GetTombs, TypeOK
<1>. QED
  BY <1>1, <1>2, <1>3, <1>4 DEF GetJournal

LEMMA TypeStep == TypeOK /\ [Next]_server => TypeOK'
<1> SUFFICES ASSUME TypeOK, [Next]_server PROVE TypeOK'
  OBVIOUS
<1> USE JournalAssumption
<1>1. ASSUME NEW m \in Members, UpdateCheckpoint(m) PROVE TypeOK'
  <2>1. Latest(lastSync[m], get[m].checkpoint) \in OrNever(Times \cup {MinValue})
    BY <1>1, GetShapes DEF UpdateCheckpoint, Latest, TypeOK, Response
  <2>. QED
    BY <1>1, <2>1 DEF UpdateCheckpoint, TypeOK
<1>2. ASSUME NEW m \in Members, Forget(m) \/ ResetCheckpoint(m) PROVE TypeOK'
  BY <1>2 DEF Forget, ResetCheckpoint, TypeOK
<1>3. CASE Tick
  BY <1>3 DEF Tick, TypeOK
<1>4. CASE UNCHANGED server
  BY <1>4 DEF server, TypeOK
<1>. QED
  BY <1>1, <1>2, <1>3, <1>4, WriteType, GetType DEF Next, Serve

\* The tables, the checkpoints and the requests under way keep their types.
THEOREM TypeCorrect == Spec => []TypeOK
BY TypeInit, TypeStep, PTL DEF Spec

-----------------------------------------------------------------------------
(***************************************************************************)
(* WindowCovered is not inductive: it speaks of responses only.  WindowInv *)
(* says what holds on the way to one: stamps not committed yet are of      *)
(* now, no checkpoint is ahead of now, and the queries made so far have    *)
(* found all that is in the window.                                        *)
(***************************************************************************)
NotLate == "late" \notin Faults

StampsOfNow == \A h \in Handlers : job[h].pc \in {"commit", "remove"} => job[h].at = clock

CheckpointsPast ==
  \A m \in Members : get[m].pc \in {"items", "tombs", "reply"} => get[m].checkpoint <= clock

InWindow(m, t) == t # Never /\ t >= get[m].since /\ t < get[m].checkpoint

Partial(m) == get[m].pc = "reply" /\ ~get[m].full

ItemsFound(m) == \A i \in Items : InWindow(m, items[i]) => <<i, items[i]>> \in get[m].added
TombsFound(m) == \A i \in Items : InWindow(m, tombs[i]) => i \in get[m].deleted

QueriesComplete ==
  \A m \in Members :
    /\ get[m].pc = "tombs" \/ Partial(m) => ItemsFound(m)
    /\ Partial(m) => TombsFound(m)

WindowInv == TypeOK /\ StampsOfNow /\ CheckpointsPast /\ QueriesComplete

LEMMA WindowEnough == WindowInv => WindowCovered
BY DEF WindowInv, QueriesComplete, WindowCovered, ItemsFound, TombsFound, InWindow, Partial

LEMMA WindowInit == Init => WindowInv
BY TypeInit
DEF Init, WindowInv, StampsOfNow, CheckpointsPast, QueriesComplete, NoJob, NoGet, Partial

\* What a write publishes, if it publishes anything, is stamped with the present.
LEMMA WritesNow ==
  ASSUME WindowInv, NEW h \in Handlers, Write(h)
  PROVE  /\ get' = get /\ clock' = clock
         /\ \A i \in Items : items'[i] \in {items[i], Never, clock}
         /\ \A i \in Items : tombs'[i] \in {tombs[i], Never, clock}
<1>1. CASE \E i \in Items : StartUpload(h, i) \/ StartDelete(h, i)
  BY <1>1 DEF StartUpload, StartDelete
<1>2. CASE CommitUpload(h)
  <2>1. job[h] \in Upload /\ job[h].at = clock
    BY <1>2, JobShapes DEF CommitUpload, WindowInv, StampsOfNow
  <2>. QED
    BY <1>2, <2>1 DEF CommitUpload, WindowInv, TypeOK, Upload
<1>3. CASE UploadFails(h) \/ RemoveFails(h) \/ CountExcess(h) \/ PruneFails(h)
  BY <1>3 DEF UploadFails, RemoveFails, CountExcess, PruneFails
<1>4. CASE Remove(h)
  <2>1. job[h] \in Deletion /\ job[h].at = clock
    BY <1>4, JobShapes DEF Remove, WindowInv, StampsOfNow
  <2>. QED
    BY <1>4, <2>1 DEF Remove, WindowInv, TypeOK, Deletion
<1>5. CASE Prune(h)
  BY <1>5 DEF Prune
<1>. QED
  BY <1>1, <1>2, <1>3, <1>4, <1>5 DEF Write

\* So a window that ends at a checkpoint of the past stays covered.
LEMMA WriteKeepsQueries ==
  ASSUME WindowInv, NEW h \in Handlers, Write(h)
  PROVE  QueriesComplete'
<1>1. ASSUME NEW m \in Members, get[m].pc \in {"tombs", "reply"}
      PROVE  get[m].checkpoint \in Nat /\ clock \in Nat /\ get[m].checkpoint <= clock
  BY <1>1, GetShapes DEF WindowInv, CheckpointsPast, TypeOK, Query, Response
<1>2. ASSUME NEW m \in Members, get[m].pc \in {"tombs", "reply"}, ItemsFound(m)
      PROVE  ItemsFound(m)'
  BY <1>1, <1>2, WritesNow DEF ItemsFound, InWindow
<1>3. ASSUME NEW m \in Members, get[m].pc \in {"tombs", "reply"}, TombsFound(m)
      PROVE  TombsFound(m)'
  BY <1>1, <1>3, WritesNow DEF TombsFound, InWindow
<1>4. ASSUME NEW m \in Members PROVE Partial(m)' <=> Partial(m)
  BY WritesNow DEF Partial
<1>. QED
  BY <1>2, <1>3, <1>4, WritesNow DEF WindowInv, QueriesComplete, Partial

LEMMA WriteKeepsStamps ==
  ASSUME WindowInv, NEW h \in Handlers, Write(h)
  PROVE  StampsOfNow'
<1>1. \A g \in Handlers \ {h} : job'[g] = job[g]
  BY DEF Write, StartUpload, StartDelete, CommitUpload, UploadFails, Remove, RemoveFails,
         CountExcess, Prune, PruneFails, WindowInv, TypeOK
<1>2. job'[h].pc \in {"commit", "remove"} => job'[h].at = clock
  BY DEF Write, StartUpload, StartDelete, CommitUpload, UploadFails, Remove, RemoveFails,
         CountExcess, Prune, PruneFails, WindowInv, TypeOK, NoJob
<1>. QED
  BY <1>1, <1>2, WritesNow DEF WindowInv, StampsOfNow

\* GetJournal collects what is in the window at the moment of each query.
LEMMA GetKeepsWindow ==
  ASSUME WindowInv, NEW m \in Members, GetJournal(m)
  PROVE  CheckpointsPast' /\ QueriesComplete'
<1>1. clock' = clock /\ items' = items /\ tombs' = tombs
  BY DEF GetJournal, GetSpace, GetMember, GetItems, GetTombs
<1>2. \A n \in Members \ {m} : get'[n] = get[n]
  BY DEF GetJournal, GetSpace, GetMember, GetItems, GetTombs, WindowInv, TypeOK
<1>3. /\ get'[m].pc \in {"items", "tombs", "reply"} => get'[m].checkpoint <= clock
      /\ get'[m].pc = "tombs" \/ Partial(m)' => ItemsFound(m)'
      /\ Partial(m)' => TombsFound(m)'
  <2>1. CASE GetSpace(m)
    BY <2>1 DEF GetSpace, WindowInv, TypeOK, Partial
  <2>2. CASE GetMember(m)
    BY <2>2, JournalAssumption DEF GetMember, WindowInv, TypeOK, Partial
  <2>3. CASE GetItems(m)
    <3>1. get[m] \in Query
      BY <2>3, GetShapes DEF GetItems, WindowInv
    <3>2. get'[m] = [get[m] EXCEPT !.pc = "tombs",
            !.added = {<<i, items[i]>> : i \in {j \in Items : NotBefore(items[j], get[m].since)}}]
      BY <2>3, <3>1 DEF GetItems, WindowInv, TypeOK, Query
    <3>3. ItemsFound(m)'
      BY <1>1, <3>1, <3>2 DEF ItemsFound, InWindow, NotBefore, Query
    <3>4. get'[m].pc = "tombs" /\ get'[m].checkpoint = get[m].checkpoint
      BY <3>1, <3>2 DEF Query
    <3>5. get[m].checkpoint <= clock
      BY <2>3 DEF GetItems, WindowInv, CheckpointsPast
    <3>. QED
      BY <3>3, <3>4, <3>5 DEF Partial
  <2>4. CASE GetTombs(m)
    <3>1. get[m] \in Query
      BY <2>4, GetShapes DEF GetTombs, WindowInv
    <3>2. get'[m] = [pc |-> "reply", full |-> FALSE, since |-> get[m].since,
                     checkpoint |-> get[m].checkpoint, added |-> get[m].added,
                     deleted |-> {i \in Items : NotBefore(tombs[i], get[m].since)}]
      BY <2>4, <3>1 DEF GetTombs, WindowInv, TypeOK
    <3>3. TombsFound(m)'
      BY <1>1, <3>1, <3>2 DEF TombsFound, InWindow, NotBefore
    <3>4. ItemsFound(m)'
      BY <1>1, <2>4, <3>1, <3>2
      DEF GetTombs, WindowInv, QueriesComplete, ItemsFound, InWindow
    <3>. QED
      BY <2>4, <3>1, <3>2, <3>3, <3>4 DEF GetTombs, WindowInv, CheckpointsPast
  <2>. QED
    BY <2>1, <2>2, <2>3, <2>4 DEF GetJournal
<1>4. CheckpointsPast'
  BY <1>1, <1>2, <1>3 DEF WindowInv, CheckpointsPast
<1>5. ASSUME NEW n \in Members \ {m}
      PROVE  /\ get'[n].pc = "tombs" \/ Partial(n)' => ItemsFound(n)'
             /\ Partial(n)' => TombsFound(n)'
  BY <1>1, <1>2 DEF WindowInv, QueriesComplete, Partial, ItemsFound, TombsFound, InWindow
<1>. QED
  BY <1>3, <1>4, <1>5 DEF QueriesComplete

LEMMA WindowStep == NotLate /\ WindowInv /\ [Next]_server => WindowInv'
<1> SUFFICES ASSUME NotLate, WindowInv, [Next]_server PROVE WindowInv'
  OBVIOUS
<1>1. TypeOK'
  BY TypeStep DEF WindowInv
<1>2. ASSUME NEW h \in Handlers, Write(h) PROVE WindowInv'
  BY <1>1, <1>2, WritesNow, WriteKeepsQueries, WriteKeepsStamps
  DEF WindowInv, CheckpointsPast
<1>3. ASSUME NEW m \in Members, GetJournal(m) PROVE WindowInv'
  <2>1. job' = job /\ clock' = clock
    BY <1>3 DEF GetJournal, GetSpace, GetMember, GetItems, GetTombs
  <2>2. StampsOfNow'
    BY <2>1 DEF WindowInv, StampsOfNow
  <2>. QED
    BY <1>1, <1>3, <2>2, GetKeepsWindow DEF WindowInv
<1>4. ASSUME NEW m \in Members,
             UpdateCheckpoint(m) \/ Forget(m) \/ ResetCheckpoint(m)
      PROVE  WindowInv'
  <2>1. clock' = clock /\ items' = items /\ tombs' = tombs /\ job' = job
    BY <1>4 DEF UpdateCheckpoint, Forget, ResetCheckpoint
  <2>2. \A n \in Members : get'[n] = get[n] \/ get'[n].pc = "none"
    BY <1>4 DEF UpdateCheckpoint, Forget, ResetCheckpoint, WindowInv, TypeOK, NoGet
  <2>3. StampsOfNow' /\ CheckpointsPast'
    BY <2>1, <2>2 DEF WindowInv, StampsOfNow, CheckpointsPast
  <2>4. QueriesComplete'
    BY <2>1, <2>2
    DEF WindowInv, QueriesComplete, Partial, ItemsFound, TombsFound, InWindow
  <2>. QED
    BY <1>1, <2>3, <2>4 DEF WindowInv
<1>5. CASE Tick
  <2>1. StampsOfNow'
    BY <1>5 DEF Tick, NotLate, Stamped, StampsOfNow
  <2>2. ASSUME NEW m \in Members, get[m].pc \in {"items", "tombs", "reply"}
        PROVE  get[m].checkpoint <= clock + 1
    BY <2>2, GetShapes DEF WindowInv, CheckpointsPast, TypeOK, Query, Response
  <2>3. CheckpointsPast'
    BY <1>5, <2>2 DEF Tick, CheckpointsPast
  <2>4. QueriesComplete'
    BY <1>5
    DEF Tick, WindowInv, QueriesComplete, Partial, ItemsFound, TombsFound, InWindow
  <2>. QED
    BY <1>1, <2>1, <2>3, <2>4 DEF WindowInv
<1>6. CASE UNCHANGED server
  BY <1>1, <1>6
  DEF server, WindowInv, StampsOfNow, CheckpointsPast, QueriesComplete, Partial,
      ItemsFound, TombsFound, InWindow
<1>. QED
  BY <1>2, <1>3, <1>4, <1>5, <1>6 DEF Next, Serve

\* A response without a full sync covers its window, if no commit is late. Deletions
\* and enrollments may overlap with it, and entries may be pruned.
THEOREM JournalCoversItsWindow ==
  ASSUME NotLate
  PROVE  Spec => []WindowCovered
<1>1. WindowInv /\ [Next]_server => WindowInv'
  BY WindowStep, NotLate
<1>. QED
  BY <1>1, WindowInit, WindowEnough, PTL DEF Spec

-----------------------------------------------------------------------------
(***************************************************************************)
(* The devices.                                                            *)
(***************************************************************************)
Downloading == [pc : {"download"}, todo : SUBSET Items, failed : BOOLEAN]

DeviceTypes ==
  /\ kind \in [Members -> Kinds]
  /\ copies \in [Members -> [Items -> OrNever(Times)]]
  /\ claimed \in [Members -> SUBSET Items]
  /\ sync \in [Members -> {NoSync, Applied} \cup Downloading]

\* Nothing is stamped ahead of now, and a row was shared after it was last deleted.
StampsPast ==
  /\ \A i \in Items : tombs[i] # Never => tombs[i] <= clock
  /\ \A m \in Members : lastSync[m] # Never => lastSync[m] <= clock
  /\ \A i \in Items : items[i] # Never /\ tombs[i] # Never => tombs[i] <= items[i]

\* A request for the journal that has read its member.
Open(m) == get[m].pc \in {"items", "tombs", "reply"}

\* The device has the row; the web client has it as it is now.
Has(m, i) == copies[m][i] # Never /\ (m \in Web => copies[m][i] = items[i])

Before(i, t) == items[i] # Never /\ items[i] < t

\* What happened before the window the device has: its checkpoint is where the
\* window starts, unless it was reset.
WindowStart(m) ==
  Open(m) => /\ get[m].since <= clock
             /\ lastSync[m] \in {Never, get[m].since}
             /\ \A i \in Items : Before(i, get[m].since) => Has(m, i)

\* A response speaks of rows and deletions of its window only, and once of each.
Answers(m) ==
  /\ get[m].pc = "tombs" \/ Partial(m) =>
       /\ \A a \in get[m].added : ~Before(a[1], get[m].since)
       /\ \A a, b \in get[m].added : a[1] = b[1] => a = b
  /\ Partial(m) => \A i \in get[m].deleted : ~Before(i, get[m].since)

\* Once a response is applied, or all of it but what is to be downloaded, the
\* device has every row shared before its checkpoint.
Progress(m) ==
  /\ sync[m] # NoSync => get[m].pc = "reply"
  /\ sync[m].pc = "download" => m \notin Web
  /\ sync[m].pc = "download" /\ ~sync[m].failed =>
       \A i \in Items : Before(i, get[m].checkpoint) => Has(m, i) \/ i \in sync[m].todo
  /\ sync[m] = Applied => \A i \in Items : Before(i, get[m].checkpoint) => Has(m, i)

ClaimsHeld(m) == m \notin Web => \A i \in claimed[m] : copies[m][i] # Never

Followed(m) == \A i \in Items : Reported(m, i) => Has(m, i)

Following(m) == WindowStart(m) /\ Answers(m) /\ Progress(m) /\ ClaimsHeld(m) /\ Followed(m)

FollowInv == WindowInv /\ DeviceTypes /\ StampsPast /\ \A m \in Members : Following(m)

-----------------------------------------------------------------------------
(***************************************************************************)
(* The server's side: nothing is stamped with less than the present.       *)
(***************************************************************************)
LEMMA OpenTimes ==
  ASSUME WindowInv, NEW m \in Members, Open(m)
  PROVE  get[m].since \in Nat /\ get[m].checkpoint \in Nat /\ get[m].checkpoint <= clock
<1>1. get[m] \in Query \cup Response
  BY GetShapes DEF WindowInv, Open
<1>2. get[m].since \in Nat /\ get[m].checkpoint \in Nat
  BY <1>1 DEF Query, Response, Times, MinValue
<1>. QED
  BY <1>2 DEF WindowInv, CheckpointsPast, Open

LEMMA ClockTimes == TypeOK => clock \in Nat /\ Never \notin Nat
BY JournalAssumption DEF TypeOK, Times

LEMMA StampTypes ==
  ASSUME TypeOK
  PROVE  /\ \A i \in Items : items[i] # Never => items[i] \in Nat /\ items[i] >= 1
         /\ \A i \in Items : tombs[i] # Never => tombs[i] \in Nat
         /\ \A m \in Members : lastSync[m] # Never => lastSync[m] \in Nat
BY JournalAssumption DEF TypeOK, Times, OrNever, MinValue

\* A window that ends in the past sees rows go, never come.
LEMMA RowsOnlyGo ==
  ASSUME FollowInv, NEW i \in Items, items'[i] \in {items[i], Never, clock},
         NEW t \in Nat, t <= clock, Before(i, t)'
  PROVE  Before(i, t) /\ items'[i] = items[i]
BY ClockTimes DEF FollowInv, WindowInv, Before

LEMMA ServerFollows ==
  ASSUME FollowInv, UNCHANGED <<get, device>>, clock' \in Nat, clock <= clock',
         \A i \in Items : items'[i] \in {items[i], Never, clock},
         \A m \in Members : lastSync'[m] \in {lastSync[m], Never},
         NEW m \in Members
  PROVE  Following(m)'
<1>1. TypeOK /\ WindowInv /\ Following(m) /\ clock \in Nat
  BY ClockTimes DEF FollowInv, WindowInv
<1>2. /\ get'[m] = get[m] /\ copies'[m] = copies[m] /\ claimed'[m] = claimed[m]
      /\ sync'[m] = sync[m] /\ (m \in Web)' = (m \in Web)
  BY DEF device, Web
<1>3. Open(m) => get[m].since \in Nat /\ get[m].since <= clock
                 /\ get[m].checkpoint \in Nat /\ get[m].checkpoint <= clock
  BY <1>1, OpenTimes DEF Following, WindowStart
<1>4. ASSUME NEW t \in Nat, t <= clock, NEW i \in Items, Before(i, t)'
      PROVE  Before(i, t) /\ (Has(m, i) => Has(m, i)')
  BY <1>2, <1>4, RowsOnlyGo DEF Has
<1>5. WindowStart(m)'
  BY <1>1, <1>2, <1>3, <1>4 DEF Following, WindowStart, Open
<1>6. Answers(m)'
  <2>1. ASSUME get[m].pc = "tombs" \/ Partial(m)
        PROVE  /\ \A a \in get[m].added : ~Before(a[1], get[m].since)'
               /\ \A a, b \in get[m].added : a[1] = b[1] => a = b
    <3>1. get[m] \in Query \cup Response
      BY <1>1, <2>1, GetShapes DEF Partial
    <3>2. get[m].added \subseteq Items \X Times
      BY <3>1 DEF Query, Response
    <3>3. Open(m)
      BY <2>1 DEF Open, Partial
    <3>. QED
      BY <1>1, <1>2, <1>3, <1>4, <2>1, <3>2, <3>3 DEF Following, Answers
  <2>2. ASSUME Partial(m)
        PROVE  \A i \in get[m].deleted : ~Before(i, get[m].since)'
    <3>1. get[m] \in Response
      BY <1>1, <2>2, GetShapes DEF Partial
    <3>2. get[m].deleted \subseteq Items /\ Open(m)
      BY <2>2, <3>1 DEF Response, Open, Partial
    <3>. QED
      BY <1>1, <1>2, <1>3, <1>4, <2>2, <3>2 DEF Following, Answers
  <2>. QED
    BY <1>2, <2>1, <2>2 DEF Answers, Partial
<1>7. Progress(m)'
  <2>1. sync[m].pc = "download" \/ sync[m] = Applied => Open(m)
    BY <1>1 DEF Following, Progress, Open, NoSync, Applied
  <2>2. ASSUME Open(m), NEW i \in Items, Before(i, get[m].checkpoint)'
        PROVE  Before(i, get[m].checkpoint) /\ (Has(m, i) => Has(m, i)')
    BY <1>3, <1>4, <2>2
  <2>. QED
    BY <1>1, <1>2, <2>1, <2>2 DEF Following, Progress
<1>8. ClaimsHeld(m)'
  BY <1>1, <1>2 DEF Following, ClaimsHeld
<1>9. Followed(m)'
  <2>1. ASSUME NEW i \in Items, Reported(m, i)' PROVE Has(m, i)'
    <3>1. lastSync'[m] = lastSync[m] /\ lastSync[m] # Never
      BY <2>1 DEF Reported
    <3>2. lastSync[m] \in Nat /\ lastSync[m] <= clock
      BY <1>1, <3>1, StampTypes DEF FollowInv, StampsPast
    <3>3. Before(i, lastSync[m])'
      BY <2>1, <3>1 DEF Reported, Before
    <3>. QED
      BY <1>1, <1>4, <3>1, <3>2, <3>3 DEF Following, Followed, Reported, Before
  <2>. QED
    BY <2>1 DEF Followed
<1>. QED
  BY <1>5, <1>6, <1>7, <1>8, <1>9 DEF Following

\* A commit is of now, so no row is older than the tombstone of the one before.
LEMMA WriteStamps ==
  ASSUME FollowInv, NEW h \in Handlers, Write(h)
  PROVE  StampsPast'
<1>1. TypeOK /\ WindowInv /\ clock \in Nat /\ Never \notin Nat
  BY ClockTimes DEF FollowInv, WindowInv
<1>2. /\ clock' = clock /\ lastSync' = lastSync
      /\ \A i \in Items : tombs'[i] \in {tombs[i], Never, clock}
  BY <1>1, WritesNow
  DEF Write, StartUpload, StartDelete, CommitUpload, UploadFails, Remove, RemoveFails, CountExcess,
      Prune, PruneFails
<1>3. \A i \in Items : items'[i] # Never /\ tombs'[i] # Never => tombs'[i] <= items'[i]
  <2>1. CASE UNCHANGED <<items, tombs>>
    BY <2>1 DEF FollowInv, StampsPast
  <2>2. CASE CommitUpload(h)
    <3>1. job[h] \in Upload /\ job[h].at = clock
      BY <1>1, <2>2, JobShapes DEF CommitUpload, WindowInv, StampsOfNow
    <3>2. tombs' = tombs /\ \A i \in Items : items'[i] \in {items[i], clock}
      BY <1>1, <2>2, <3>1 DEF CommitUpload, TypeOK
    <3>. QED
      BY <1>1, <3>2 DEF FollowInv, StampsPast
  <2>3. CASE Remove(h)
    <3>1. job[h] \in Deletion
      BY <1>1, <2>3, JobShapes DEF Remove
    <3>2. \A i \in Items : \/ items'[i] = Never
                           \/ items'[i] = items[i] /\ tombs'[i] = tombs[i]
      BY <1>1, <2>3, <3>1 DEF Remove, TypeOK, Deletion
    <3>. QED
      BY <3>2 DEF FollowInv, StampsPast
  <2>4. CASE Prune(h)
    <3>1. items' = items /\ \A i \in Items : tombs'[i] \in {tombs[i], Never}
      BY <2>4 DEF Prune
    <3>. QED
      BY <3>1 DEF FollowInv, StampsPast
  <2>. QED
    BY <2>1, <2>2, <2>3, <2>4
    DEF Write, StartUpload, StartDelete, UploadFails, RemoveFails, CountExcess, PruneFails
<1>. QED
  BY <1>1, <1>2, <1>3 DEF FollowInv, StampsPast

LEMMA BackgroundStep ==
  ASSUME FollowInv, Background, UNCHANGED device
  PROVE  StampsPast' /\ \A m \in Members : Following(m)'
<1>1. TypeOK /\ WindowInv /\ clock \in Nat /\ Never \notin Nat
  BY ClockTimes DEF FollowInv, WindowInv
<1>2. ASSUME NEW h \in Handlers, Write(h) PROVE StampsPast' /\ \A m \in Members : Following(m)'
  <2>1. lastSync' = lastSync
    BY <1>2
    DEF Write, StartUpload, StartDelete, CommitUpload, UploadFails, Remove, RemoveFails, CountExcess,
        Prune, PruneFails
  <2>. QED
    BY <1>1, <1>2, <2>1, WritesNow, WriteStamps, ServerFollows
<1>3. ASSUME NEW m \in Web, ResetCheckpoint(m)
      PROVE  StampsPast' /\ \A n \in Members : Following(n)'
  <2>1. /\ UNCHANGED <<clock, items, tombs, get>>
        /\ \A n \in Members : lastSync'[n] \in {lastSync[n], Never}
    BY <1>1, <1>3 DEF ResetCheckpoint, TypeOK, Web
  <2>. QED
    BY <1>1, <2>1, ServerFollows DEF FollowInv, StampsPast
<1>4. CASE Tick
  <2>1. /\ UNCHANGED <<items, tombs, get, lastSync>>
        /\ clock' = clock + 1
    BY <1>4 DEF Tick
  <2>2. StampsPast'
    BY <1>1, <2>1, StampTypes DEF FollowInv, StampsPast
  <2>3. clock' \in Nat /\ clock <= clock'
    BY <1>1, <2>1
  <2>. QED
    BY <2>1, <2>2, <2>3, ServerFollows
<1>. QED
  BY <1>2, <1>3, <1>4 DEF Background

-----------------------------------------------------------------------------
(***************************************************************************)
(* The devices' side: a step of one leaves the rows and the other devices  *)
(* alone.                                                                  *)
(***************************************************************************)
LEMMA OthersFollow ==
  ASSUME FollowInv, UNCHANGED <<clock, items, kind>>, NEW n \in Members,
         get'[n] = get[n], lastSync'[n] = lastSync[n], copies'[n] = copies[n],
         claimed'[n] = claimed[n], sync'[n] = sync[n]
  PROVE  Following(n)'
<1>1. Following(n)
  BY DEF FollowInv
<1>2. \A i \in Items : Has(n, i)' <=> Has(n, i)
  BY DEF Has, Web
<1>3. \A i, t : Before(i, t)' <=> Before(i, t)
  BY DEF Before
<1>. QED
  BY <1>1, <1>2, <1>3
  DEF Following, WindowStart, Open, Answers, Partial, Progress, Web, ClaimsHeld, Followed, Reported

LEMMA PollFollows ==
  ASSUME FollowInv, NEW m \in Members, Poll(m)
  PROVE  Following(m)' /\ StampsPast'
<1> USE DEF Following
<1>1. /\ TypeOK /\ WindowInv /\ Following(m) /\ clock \in Nat /\ Never \notin Nat
      /\ sync[m] = NoSync
      /\ lastSync[m] # Never => lastSync[m] \in Nat /\ lastSync[m] <= clock
  BY ClockTimes, StampTypes DEF FollowInv, WindowInv, StampsPast, Poll
<1>2. /\ UNCHANGED <<clock, items, tombs, kind, copies, claimed, sync>>
      /\ \A i \in Items : Has(m, i)' <=> Has(m, i)
      /\ \A i, t : Before(i, t)' <=> Before(i, t)
  BY DEF Poll, GetJournal, GetSpace, GetMember, GetItems, GetTombs, device, Has, Web, Before
<1>3. ClaimsHeld(m)'
  BY <1>1, <1>2 DEF ClaimsHeld, Web
<1>4. Progress(m)'
  BY <1>1, <1>2 DEF Progress, NoSync, Applied
<1>5. CASE ~GetMember(m)
  <2>1. lastSync' = lastSync
    BY <1>5 DEF Poll, GetJournal, GetSpace, GetItems, GetTombs
  <2>2. Followed(m)' /\ StampsPast'
    BY <1>1, <1>2, <2>1 DEF FollowInv, Followed, Reported, StampsPast
  <2>3. CASE GetSpace(m)
    <3>1. get'[m].pc = "member"
      BY <1>1, <2>3 DEF GetSpace, TypeOK
    <3>. QED
      BY <1>3, <1>4, <2>2, <3>1 DEF WindowStart, Open, Answers, Partial
  <2>4. CASE GetItems(m)
    <3>1. get[m] \in Query
      BY <1>1, <2>4, GetShapes DEF GetItems
    <3>2. get'[m] = [get[m] EXCEPT !.pc = "tombs",
            !.added = {<<i, items[i]>> : i \in {j \in Items : NotBefore(items[j], get[m].since)}}]
      BY <1>1, <2>4, <3>1 DEF GetItems, TypeOK, Query
    <3>3. /\ get'[m].pc = "tombs" /\ get'[m].since = get[m].since /\ get[m].since \in Nat
          /\ get'[m].added = {<<i, items[i]>> : i \in {j \in Items : NotBefore(items[j], get[m].since)}}
      BY <3>1, <3>2 DEF Query, Times, MinValue
    <3>4. WindowStart(m)'
      BY <1>1, <1>2, <2>1, <2>4, <3>3 DEF GetItems, WindowStart, Open
    <3>5. \A a \in get'[m].added : a[1] \in Items /\ a = <<a[1], items[a[1]]>>
                                    /\ items[a[1]] >= get[m].since
      BY <3>3 DEF NotBefore
    <3>6. \A a \in get'[m].added : ~Before(a[1], get[m].since)
      BY <1>1, <3>3, <3>5, StampTypes DEF Before
    <3>7. Answers(m)'
      BY <1>2, <3>3, <3>5, <3>6 DEF Answers, Partial
    <3>. QED
      BY <1>3, <1>4, <2>2, <3>4, <3>7
  <2>5. CASE GetTombs(m)
    <3>1. get[m] \in Query
      BY <1>1, <2>5, GetShapes DEF GetTombs
    <3>2. get'[m] = [pc |-> "reply", full |-> FALSE, since |-> get[m].since,
                     checkpoint |-> get[m].checkpoint, added |-> get[m].added,
                     deleted |-> {i \in Items : NotBefore(tombs[i], get[m].since)}]
      BY <1>1, <2>5, <3>1 DEF GetTombs, TypeOK
    <3>3. get[m].since \in Nat
      BY <3>1 DEF Query, Times, MinValue
    <3>4. WindowStart(m)'
      BY <1>1, <1>2, <2>1, <2>5, <3>2 DEF GetTombs, WindowStart, Open
    <3>5. \A i \in Items : NotBefore(tombs[i], get[m].since) => ~Before(i, get[m].since)
      BY <1>1, <3>3, StampTypes DEF FollowInv, StampsPast, NotBefore, Before
    <3>6. Answers(m)'
      BY <1>1, <1>2, <2>5, <3>2, <3>5 DEF GetTombs, Answers, Partial
    <3>. QED
      BY <1>3, <1>4, <2>2, <3>4, <3>6
  <2>. QED
    BY <1>5, <2>3, <2>4, <2>5 DEF Poll, GetJournal
<1>6. CASE GetMember(m)
  <2>1. PICK since : since = SinceUtc(m)
    OBVIOUS
  <2>2. /\ since \in Nat /\ since <= clock
        /\ \A i \in Items : Before(i, since) => Reported(m, i)
    BY <1>1, <2>1, StampTypes DEF SinceUtc, MinValue, Before, Reported
  <2>3. /\ lastSync' = [lastSync EXCEPT ![m] = since]
        /\ get'[m].pc \in {"reply", "items"} /\ get'[m].since = since /\ ~Partial(m)'
    BY <1>1, <1>6, <2>1 DEF GetMember, TypeOK, Partial
  <2>4. /\ lastSync'[m] = since
        /\ \A i \in Items : Reported(m, i)' <=> Before(i, since)
        /\ \A n \in Members : lastSync'[n] = lastSync[n] \/ lastSync'[n] = since
    BY <1>1, <1>2, <2>2, <2>3 DEF TypeOK, Reported, Before
  <2>5. Followed(m)' /\ WindowStart(m)'
    BY <1>1, <1>2, <2>2, <2>3, <2>4 DEF Followed, WindowStart
  <2>6. Answers(m)'
    BY <2>3 DEF Answers
  <2>7. StampsPast'
    BY <1>1, <1>2, <2>2, <2>4 DEF FollowInv, StampsPast
  <2>. QED
    BY <1>3, <1>4, <2>5, <2>6, <2>7
<1>. QED
  BY <1>5, <1>6

\* Applying a response, whatever it is, spares the rows of before its window.
LEMMA ApplyFollows ==
  ASSUME FollowInv, NEW m \in Members, UNCHANGED <<server, kind>>, get[m].pc = "reply",
         \A i \in Items : Before(i, get[m].since) /\ Has(m, i) => Has(m, i)',
         Progress(m)', ClaimsHeld(m)'
  PROVE  Following(m)'
<1> USE DEF server, Following
<1>1. Following(m) /\ Open(m)
  BY DEF FollowInv, Open
<1>2. \A i, t : Before(i, t)' <=> Before(i, t)
  BY DEF Before
<1>3. WindowStart(m)' /\ Answers(m)'
  BY <1>1, <1>2 DEF WindowStart, Open, Answers, Partial
<1>4. \A i \in Items : Reported(m, i) => Before(i, get[m].since)
  BY <1>1 DEF WindowStart, Reported, Before
<1>5. Followed(m)'
  BY <1>1, <1>4 DEF Followed, Reported, WindowStart
<1>. QED
  BY <1>3, <1>5

LEMMA ReplyTypes ==
  ASSUME TypeOK, NEW m \in Members, get[m].pc = "reply"
  PROVE  /\ get[m].added \subseteq Items \X Times /\ get[m].deleted \subseteq Items
         /\ \A a \in get[m].added : a[1] \in Items /\ a[2] \in Times /\ a = <<a[1], a[2]>>
         /\ Ids(get[m].added) \subseteq Items
<1>1. get[m] \in Response
  BY GetShapes
<1>2. get[m].added \subseteq Items \X Times /\ get[m].deleted \subseteq Items
  BY <1>1 DEF Response
<1>. QED
  BY <1>2 DEF Ids

\* The rows of a window are among those the response adds.
LEMMA WindowAdded ==
  ASSUME FollowInv, NEW m \in Members, Partial(m), NEW i \in Items,
         Before(i, get[m].checkpoint)
  PROVE  Before(i, get[m].since) \/ <<i, items[i]>> \in get[m].added
<1>1. TypeOK /\ Open(m) /\ ItemsFound(m)
  BY DEF FollowInv, WindowInv, QueriesComplete, Partial, Open
<1>2. get[m].since \in Nat /\ items[i] \in Nat
  BY <1>1, OpenTimes, StampTypes DEF FollowInv, Before
<1>. QED
  BY <1>1, <1>2 DEF ItemsFound, InWindow, Before

LEMMA DeletionsFollow ==
  ASSUME FollowInv, NEW m \in Members, ApplyDeletions(m)
  PROVE  Following(m)'
<1>1. /\ TypeOK /\ DeviceTypes /\ Following(m) /\ m \notin Web /\ Partial(m)
      /\ get[m].pc = "reply" /\ UNCHANGED <<server, kind>>
  BY DEF FollowInv, WindowInv, ApplyDeletions, Cli, Web, Partial
<1>2. UNCHANGED <<get, items>> /\ (m \in Web)' = (m \in Web)
  BY <1>1 DEF server, Web
<1>3. /\ \A i \in Items : copies'[m][i] = IF i \in get[m].deleted THEN Never ELSE copies[m][i]
      /\ claimed'[m] = claimed[m] \ get[m].deleted
      /\ sync'[m] = [pc |-> "download", todo |-> Ids(get[m].added), failed |-> FALSE]
  BY <1>1 DEF ApplyDeletions, DeviceTypes
<1>4. ClaimsHeld(m)'
  BY <1>1, <1>3 DEF Following, ClaimsHeld, DeviceTypes
<1>5. \A i \in Items : Before(i, get[m].since) /\ Has(m, i) => Has(m, i)'
  BY <1>1, <1>2, <1>3 DEF Following, Answers, Has
<1>6. Progress(m)'
  <2>1. ASSUME NEW i \in Items, Before(i, get[m].checkpoint)
        PROVE  Has(m, i)' \/ i \in Ids(get[m].added)
    <3>1. Before(i, get[m].since) \/ <<i, items[i]>> \in get[m].added
      BY <1>1, <2>1, WindowAdded
    <3>2. Before(i, get[m].since) => Has(m, i)'
      BY <1>1, <1>5 DEF Following, WindowStart, Open
    <3>3. <<i, items[i]>> \in get[m].added => i \in Ids(get[m].added)
      BY DEF Ids
    <3>. QED
      BY <3>1, <3>2, <3>3
  <2>2. \A i, t : Before(i, t)' <=> Before(i, t)
    BY <1>2 DEF Before
  <2>. QED
    BY <1>1, <1>2, <1>3, <2>1, <2>2 DEF Progress, Applied
<1>. QED
  BY <1>1, <1>4, <1>5, <1>6, ApplyFollows

LEMMA ReconcileFollows ==
  ASSUME FollowInv, NEW m \in Members, Reconcile(m)
  PROVE  Following(m)'
<1> DEFINE listed == {i \in Items : items[i] # Never}
<1>1. /\ TypeOK /\ DeviceTypes /\ Following(m) /\ m \notin Web
      /\ get[m].pc = "reply" /\ UNCHANGED <<server, kind>>
  BY DEF FollowInv, WindowInv, Reconcile, Cli, Web
<1>2. UNCHANGED <<get, items>> /\ (m \in Web)' = (m \in Web)
  BY <1>1 DEF server, Web
<1>3. /\ \A i \in Items : copies'[m][i] = IF i \in listed THEN copies[m][i] ELSE Never
      /\ claimed'[m] = claimed[m] \cap listed
      /\ sync'[m] = [pc |-> "download", todo |-> listed, failed |-> FALSE]
  BY <1>1 DEF Reconcile, DeviceTypes
<1>4. ClaimsHeld(m)'
  BY <1>1, <1>3 DEF Following, ClaimsHeld, DeviceTypes
<1>5. \A i \in Items : Before(i, get[m].since) /\ Has(m, i) => Has(m, i)'
  BY <1>1, <1>2, <1>3 DEF Before, Has
<1>6. Progress(m)'
  BY <1>1, <1>2, <1>3 DEF Progress, Applied, Before
<1>. QED
  BY <1>1, <1>4, <1>5, <1>6, ApplyFollows

\* One download, or the decision that none is needed.
LEMMA DownloadsFollow ==
  ASSUME FollowInv, NEW m \in Members, NEW j \in Items,
         SkipClaimed(m, j) \/ Download(m, j) \/ DownloadFails(m, j)
  PROVE  Following(m)'
<1>1. /\ TypeOK /\ DeviceTypes /\ Following(m) /\ sync[m].pc = "download"
      /\ UNCHANGED <<server, kind>>
  BY DEF FollowInv, WindowInv, SkipClaimed, Download, DownloadFails
<1>2. sync[m] \in Downloading /\ sync[m].todo \subseteq Items
  BY <1>1 DEF DeviceTypes, Downloading, NoSync, Applied
<1>3. m \notin Web /\ get[m].pc = "reply"
  BY <1>1 DEF Following, Progress, NoSync
<1>4. UNCHANGED <<get, items>> /\ (m \in Web)' = (m \in Web)
  BY <1>1 DEF server, Web
<1>5. \A i, t : Before(i, t)' <=> Before(i, t)
  BY <1>4 DEF Before
<1>6. CASE SkipClaimed(m, j)
  <2>1. /\ copies' = copies /\ claimed' = claimed /\ j \in claimed[m]
        /\ sync'[m] = [sync[m] EXCEPT !.todo = sync[m].todo \ {j}]
    BY <1>1, <1>6 DEF SkipClaimed, DeviceTypes
  <2>2. \A i \in Items : Has(m, i)' <=> Has(m, i)
    BY <1>4, <2>1 DEF Has
  <2>3. ClaimsHeld(m)' /\ Has(m, j)
    BY <1>1, <1>3, <2>1 DEF Following, ClaimsHeld, Has
  <2>4. Progress(m)'
    BY <1>1, <1>2, <1>3, <1>4, <1>5, <2>1, <2>2, <2>3 DEF Following, Progress, Downloading, Applied
  <2>. QED
    BY <1>1, <1>3, <2>2, <2>3, <2>4, ApplyFollows
<1>7. CASE Download(m, j)
  <2>1. /\ \A i \in Items : copies'[m][i] = IF i = j THEN items[j] ELSE copies[m][i]
        /\ claimed'[m] = claimed[m] \cup {j} /\ items[j] # Never
        /\ sync'[m] = [sync[m] EXCEPT !.todo = sync[m].todo \ {j}]
    BY <1>1, <1>7 DEF Download, DeviceTypes
  <2>2. Has(m, j)' /\ \A i \in Items : Has(m, i) => Has(m, i)'
    BY <1>3, <1>4, <2>1 DEF Has
  <2>3. ClaimsHeld(m)'
    BY <1>1, <1>3, <2>1 DEF Following, ClaimsHeld, DeviceTypes
  <2>4. Progress(m)'
    BY <1>1, <1>2, <1>3, <1>4, <1>5, <2>1, <2>2 DEF Following, Progress, Downloading, Applied
  <2>. QED
    BY <1>1, <1>3, <2>2, <2>3, <2>4, ApplyFollows
<1>8. CASE DownloadFails(m, j)
  <2>1. copies' = copies /\ claimed' = claimed
    BY <1>8 DEF DownloadFails
  <2>2. sync'[m].pc = "download" /\ sync'[m].failed
    BY <1>1, <1>2, <1>8 DEF DownloadFails, DeviceTypes, Downloading, Outcome
  <2>3. \A i \in Items : Has(m, i)' <=> Has(m, i)
    BY <1>4, <2>1 DEF Has
  <2>4. ClaimsHeld(m)'
    BY <1>1, <1>3, <2>1 DEF Following, ClaimsHeld
  <2>5. Progress(m)'
    BY <1>3, <1>4, <2>2 DEF Progress, Applied
  <2>. QED
    BY <1>1, <1>3, <2>3, <2>4, <2>5, ApplyFollows
<1>. QED
  BY <1>6, <1>7, <1>8

LEMMA CompleteFollows ==
  ASSUME FollowInv, NEW m \in Members, Complete(m)
  PROVE  Following(m)'
<1>1. /\ DeviceTypes /\ Following(m) /\ sync[m].pc = "download" /\ sync[m].todo = {}
      /\ ~sync[m].failed /\ UNCHANGED <<server, kind, copies, claimed>>
  BY DEF FollowInv, Complete
<1>2. UNCHANGED <<get, items>> /\ (m \in Web)' = (m \in Web) /\ sync'[m] = Applied
  BY <1>1 DEF server, Web, Complete, DeviceTypes
<1>3. get[m].pc = "reply" /\ m \notin Web
  BY <1>1 DEF Following, Progress, NoSync
<1>4. ClaimsHeld(m)' /\ \A i \in Items : Has(m, i)' <=> Has(m, i)
  BY <1>1, <1>2 DEF Following, ClaimsHeld, Has
<1>5. Progress(m)'
  BY <1>1, <1>2, <1>3, <1>4 DEF Following, Progress, Applied, Before
<1>. QED
  BY <1>1, <1>3, <1>4, <1>5, ApplyFollows

\* The web client takes what a response adds, each row once, or all there is.
LEMMA WebFollows ==
  ASSUME FollowInv, NEW m \in Members, ApplyDelta(m) \/ Reload(m)
  PROVE  Following(m)'
<1>1. /\ TypeOK /\ DeviceTypes /\ Following(m) /\ m \in Web
      /\ get[m].pc = "reply" /\ UNCHANGED <<server, kind, claimed>>
  BY DEF FollowInv, WindowInv, ApplyDelta, Reload
<1>2. UNCHANGED <<get, items>> /\ (m \in Web)' = (m \in Web) /\ sync'[m] = Applied
  BY <1>1 DEF server, Web, ApplyDelta, Reload, DeviceTypes
<1>3. \A i, t : Before(i, t)' <=> Before(i, t)
  BY <1>2 DEF Before
<1>4. \A i \in Items : Before(i, get[m].checkpoint) => Has(m, i)'
  <2>1. CASE ApplyDelta(m)
    <3>1. \A i \in Items : copies'[m][i] =
            IF i \in Ids(get[m].added) THEN (CHOOSE a \in get[m].added : a[1] = i)[2]
            ELSE copies[m][i]
      BY <1>1, <2>1 DEF ApplyDelta, DeviceTypes
    <3>2. Partial(m)
      BY <2>1 DEF ApplyDelta, Partial
    <3>3. ASSUME NEW i \in Items, <<i, items[i]>> \in get[m].added PROVE copies'[m][i] = items[i]
      <4>1. PICK a \in get[m].added : a[1] = i /\ a = (CHOOSE b \in get[m].added : b[1] = i)
        BY <3>3
      <4>2. a = <<i, items[i]>>
        BY <1>1, <3>2, <3>3, <4>1 DEF Following, Answers
      <4>3. i \in Ids(get[m].added)
        BY <4>1 DEF Ids
      <4>. QED
        BY <3>1, <4>1, <4>2, <4>3
    <3>4. ASSUME NEW i \in Items, Before(i, get[m].checkpoint) PROVE Has(m, i)'
      <4>1. CASE <<i, items[i]>> \in get[m].added
        <5>1. copies'[m][i] = items[i] /\ items[i] # Never
          BY <3>3, <3>4, <4>1 DEF Before
        <5>. QED
          BY <1>2, <5>1 DEF Has
      <4>2. CASE Before(i, get[m].since)
        <5>1. \A a \in get[m].added : a[1] # i
          BY <1>1, <3>2, <4>2 DEF Following, Answers
        <5>2. copies'[m][i] = copies[m][i] /\ Has(m, i)
          BY <1>1, <3>1, <4>2, <5>1 DEF Following, WindowStart, Open, Ids
        <5>. QED
          BY <1>2, <5>2 DEF Has
      <4>. QED
        BY <3>2, <3>4, <4>1, <4>2, WindowAdded
    <3>. QED
      BY <3>4
  <2>2. CASE Reload(m)
    <3>1. copies'[m] = items
      BY <1>1, <2>2 DEF Reload, DeviceTypes
    <3>. QED
      BY <1>2, <3>1 DEF Has, Before
  <2>. QED
    BY <1>1, <2>1, <2>2
<1>5. \A i \in Items : Before(i, get[m].since) /\ Has(m, i) => Has(m, i)'
  <2>1. CASE ApplyDelta(m)
    <3>1. \A i \in Items : copies'[m][i] =
            IF i \in Ids(get[m].added) THEN (CHOOSE a \in get[m].added : a[1] = i)[2]
            ELSE copies[m][i]
      BY <1>1, <2>1 DEF ApplyDelta, DeviceTypes
    <3>2. \A i \in Items : Before(i, get[m].since) => i \notin Ids(get[m].added)
      BY <1>1, <2>1 DEF ApplyDelta, Following, Answers, Partial, Ids
    <3>. QED
      BY <1>2, <3>1, <3>2 DEF Has
  <2>2. CASE Reload(m)
    <3>1. copies'[m] = items
      BY <1>1, <2>2 DEF Reload, DeviceTypes
    <3>. QED
      BY <1>2, <3>1 DEF Has, Before
  <2>. QED
    BY <1>1, <2>1, <2>2
<1>6. ClaimsHeld(m)' /\ Progress(m)'
  BY <1>1, <1>2, <1>3, <1>4 DEF ClaimsHeld, Progress, NoSync, Applied
<1>. QED
  BY <1>1, <1>5, <1>6, ApplyFollows

\* A poll that has ended, acknowledged or not: nothing is under way.
LEMMA EndFollows ==
  ASSUME FollowInv, NEW m \in Members, UNCHANGED <<clock, items, kind, copies>>,
         get'[m] = NoGet, sync'[m] = NoSync, claimed'[m] \subseteq claimed[m], Followed(m)'
  PROVE  Following(m)'
<1>1. ~Open(m)' /\ ~Partial(m)' /\ get'[m].pc # "tombs"
  BY DEF Open, Partial, NoGet
<1>2. WindowStart(m)' /\ Answers(m)'
  BY <1>1 DEF WindowStart, Answers
<1>3. Progress(m)' /\ ClaimsHeld(m)'
  BY DEF FollowInv, Following, Progress, ClaimsHeld, Web, NoSync, Applied
<1>. QED
  BY <1>2, <1>3 DEF Following

LEMMA DropFollows ==
  ASSUME FollowInv, NEW m \in Members, GiveUp(m) \/ PollFails(m) \/ RestartDevice(m)
  PROVE  Following(m)'
<1>1. /\ UNCHANGED <<clock, items, lastSync, kind, copies>>
      /\ get'[m] = NoGet /\ sync'[m] = NoSync /\ claimed'[m] \subseteq claimed[m]
  BY DEF GiveUp, PollFails, RestartDevice, Forget, FollowInv, WindowInv, TypeOK, DeviceTypes
<1>2. Followed(m)'
  BY <1>1 DEF FollowInv, Following, Followed, Reported, Has, Web
<1>. QED
  BY <1>1, <1>2, EndFollows

\* What is acknowledged has been applied.
LEMMA AcknowledgeFollows ==
  ASSUME FollowInv, NEW m \in Members, Acknowledge(m)
  PROVE  Following(m)' /\ StampsPast'
<1>1. /\ TypeOK /\ WindowInv /\ DeviceTypes /\ Following(m) /\ sync[m] = Applied
      /\ get[m].pc = "reply" /\ UNCHANGED <<clock, items, tombs, kind, copies, claimed>>
      /\ clock \in Nat /\ Never \notin Nat /\ Open(m)
  BY ClockTimes DEF FollowInv, WindowInv, Acknowledge, UpdateCheckpoint, Open
<1>2. get[m].checkpoint \in Nat /\ get[m].checkpoint <= clock
  BY <1>1, OpenTimes
<1>3. lastSync'[m] \in {lastSync[m], get[m].checkpoint}
  BY <1>1 DEF Acknowledge, UpdateCheckpoint, Latest, TypeOK
<1>4. /\ get'[m] = NoGet /\ sync'[m] = NoSync
      /\ \A n \in Members \ {m} : lastSync'[n] = lastSync[n]
  BY <1>1 DEF Acknowledge, UpdateCheckpoint, TypeOK, DeviceTypes
<1>5. \A i \in Items : (Has(m, i)' <=> Has(m, i)) /\ \A t : Before(i, t)' <=> Before(i, t)
  BY <1>1 DEF Has, Web, Before
<1>6. Followed(m)'
  <2>1. ASSUME NEW i \in Items, Reported(m, i)' PROVE Has(m, i)'
    <3>1. Reported(m, i) \/ Before(i, get[m].checkpoint)
      BY <1>1, <1>3, <2>1 DEF Reported, Before
    <3>. QED
      BY <1>1, <1>5, <3>1 DEF Following, Followed, Progress
  <2>. QED
    BY <2>1 DEF Followed
<1>7. StampsPast'
  BY <1>1, <1>2, <1>3, <1>4 DEF FollowInv, StampsPast
<1>8. claimed'[m] \subseteq claimed[m]
  BY <1>1
<1>. QED
  BY <1>1, <1>4, <1>6, <1>7, <1>8, EndFollows

-----------------------------------------------------------------------------
(***************************************************************************)
(* Every step together.                                                    *)
(***************************************************************************)
Act(m) == Poll(m) \/ Apply(m) \/ Acknowledge(m) \/ PollFails(m) \/ RestartDevice(m)

LEMMA ActFrame ==
  ASSUME TypeOK, DeviceTypes, NEW m \in Members, Act(m)
  PROVE  /\ UNCHANGED <<clock, items, tombs, pruned, kind, job>>
         /\ \A n \in Members \ {m} :
              /\ get'[n] = get[n] /\ lastSync'[n] = lastSync[n]
              /\ copies'[n] = copies[n] /\ claimed'[n] = claimed[n] /\ sync'[n] = sync[n]
<1>1. CASE Poll(m)
  BY <1>1 DEF Poll, GetJournal, GetSpace, GetMember, GetItems, GetTombs, device, TypeOK, DeviceTypes
<1>2. CASE ApplyDeletions(m) \/ Reconcile(m) \/ Complete(m) \/ ApplyDelta(m) \/ Reload(m)
  BY <1>2 DEF ApplyDeletions, Reconcile, Complete, ApplyDelta, Reload, server, DeviceTypes
<1>3. ASSUME NEW i \in Items, SkipClaimed(m, i) \/ Download(m, i) \/ DownloadFails(m, i)
      PROVE  /\ UNCHANGED <<server, kind>>
             /\ \A n \in Members \ {m} :
                  copies'[n] = copies[n] /\ claimed'[n] = claimed[n] /\ sync'[n] = sync[n]
  BY <1>3 DEF SkipClaimed, Download, DownloadFails, DeviceTypes
<1>4. CASE GiveUp(m) \/ PollFails(m) \/ RestartDevice(m)
  BY <1>4 DEF GiveUp, PollFails, RestartDevice, Forget, TypeOK, DeviceTypes
<1>5. CASE Acknowledge(m)
  BY <1>5 DEF Acknowledge, UpdateCheckpoint, TypeOK, DeviceTypes
<1>. QED
  BY <1>1, <1>2, <1>3, <1>4, <1>5 DEF Act, Apply, server

LEMMA ActFollows ==
  ASSUME FollowInv, NEW m \in Members, Act(m)
  PROVE  StampsPast' /\ \A n \in Members : Following(n)'
<1>1. TypeOK /\ DeviceTypes
  BY DEF FollowInv, WindowInv
<1>2. \A n \in Members \ {m} : Following(n)'
  BY <1>1, ActFrame, OthersFollow
<1>3. CASE Poll(m) \/ Acknowledge(m)
  BY <1>2, <1>3, PollFollows, AcknowledgeFollows
<1>4. CASE Apply(m) \/ PollFails(m) \/ RestartDevice(m)
  <2>1. Following(m)'
    BY <1>4, DeletionsFollow, ReconcileFollows, DownloadsFollow, CompleteFollows, WebFollows, DropFollows
    DEF Apply
  <2>2. UNCHANGED <<clock, items, tombs, lastSync>>
    BY <1>4
    DEF Apply, ApplyDeletions, Reconcile, SkipClaimed, Download, DownloadFails, Complete, GiveUp,
        ApplyDelta, Reload, PollFails, RestartDevice, Forget, server
  <2>3. StampsPast'
    BY <2>2 DEF FollowInv, StampsPast
  <2>. QED
    BY <1>2, <2>1, <2>3
<1>. QED
  BY <1>3, <1>4 DEF Act

LEMMA ActTypes ==
  ASSUME TypeOK, DeviceTypes, NEW m \in Members, Act(m)
  PROVE  DeviceTypes'
<1> USE DEF DeviceTypes
<1>1. CASE Poll(m) \/ PollFails(m) \/ RestartDevice(m) \/ Acknowledge(m) \/ GiveUp(m) \/ Complete(m)
  BY <1>1 DEF Poll, PollFails, RestartDevice, Acknowledge, GiveUp, Complete, device
<1>2. CASE ApplyDeletions(m)
  <2>1. get[m].pc = "reply" /\ kind' = kind
    BY <1>2 DEF ApplyDeletions
  <2>2. [pc |-> "download", todo |-> Ids(get[m].added), failed |-> FALSE] \in Downloading
    BY <2>1, ReplyTypes DEF Downloading
  <2>. QED
    BY <1>2, <2>1, <2>2 DEF ApplyDeletions, OrNever
<1>3. CASE Reconcile(m)
  <2>1. [pc |-> "download", todo |-> {i \in Items : items[i] # Never}, failed |-> FALSE]
          \in Downloading
    BY DEF Downloading
  <2>. QED
    BY <1>3, <2>1 DEF Reconcile, OrNever
<1>4. ASSUME NEW i \in Items, SkipClaimed(m, i) \/ Download(m, i) \/ DownloadFails(m, i)
      PROVE  DeviceTypes'
  <2>1. sync[m].pc = "download" /\ kind' = kind
    BY <1>4 DEF SkipClaimed, Download, DownloadFails
  <2>2. sync[m] \in Downloading
    BY <2>1 DEF NoSync, Applied
  <2>3. sync' \in [Members -> {NoSync, Applied} \cup Downloading]
    <3>1. PICK d \in Downloading : sync' = [sync EXCEPT ![m] = d]
      BY <1>4, <2>2 DEF SkipClaimed, Download, DownloadFails, Downloading, Outcome
    <3>. QED
      BY <3>1
  <2>4. copies' \in [Members -> [Items -> OrNever(Times)]] /\ claimed' \in [Members -> SUBSET Items]
    <3>1. CASE SkipClaimed(m, i) \/ DownloadFails(m, i)
      BY <3>1 DEF SkipClaimed, DownloadFails
    <3>2. CASE Download(m, i)
      <4>1. items[i] \in OrNever(Times)
        BY DEF TypeOK
      <4>. QED
        BY <3>2, <4>1 DEF Download
    <3>. QED
      BY <1>4, <3>1, <3>2
  <2>. QED
    BY <2>1, <2>3, <2>4
<1>5. CASE ApplyDelta(m)
  <2>1. get[m].pc = "reply" /\ kind' = kind /\ claimed' = claimed
    BY <1>5 DEF ApplyDelta
  <2>2. ASSUME NEW i \in Ids(get[m].added)
        PROVE  (CHOOSE a \in get[m].added : a[1] = i)[2] \in Times
    BY <2>1, ReplyTypes DEF Ids
  <2>. QED
    BY <1>5, <2>1, <2>2 DEF ApplyDelta, OrNever
<1>6. CASE Reload(m)
  BY <1>6 DEF Reload, TypeOK
<1>. QED
  BY <1>1, <1>2, <1>3, <1>4, <1>5, <1>6 DEF Act, Apply

\* To the server the devices are members that ask, acknowledge and forget.
LEMMA SyncIsNext == TypeOK /\ DeviceTypes /\ [SyncNext]_vars => [Next]_server
<1> SUFFICES ASSUME TypeOK, DeviceTypes, [SyncNext]_vars PROVE [Next]_server
  OBVIOUS
<1>1. CASE Background
  BY <1>1 DEF Background, Next, Serve, Web
<1>2. ASSUME NEW m \in Members, Poll(m) PROVE Next
  BY <1>2 DEF Poll, Next, Serve
<1>3. ASSUME NEW m \in Members, Apply(m) PROVE [Next]_server
  BY <1>3
  DEF Apply, ApplyDeletions, Reconcile, SkipClaimed, Download, DownloadFails, Complete, GiveUp,
      ApplyDelta, Reload, Next
<1>4. ASSUME NEW m \in Members, Acknowledge(m) \/ PollFails(m) PROVE Next
  BY <1>4 DEF Acknowledge, PollFails, Next
<1>5. ASSUME NEW m \in Members, RestartDevice(m) PROVE [Next]_server
  <2>1. CASE get[m] = NoGet
    <3>1. get' = get
      BY <1>5, <2>1 DEF RestartDevice, TypeOK
    <3>. QED
      BY <1>5, <3>1 DEF RestartDevice, server
  <2>2. CASE get[m] # NoGet
    BY <1>5, <2>2 DEF RestartDevice, Forget, Next
  <2>. QED
    BY <2>1, <2>2
<1>6. CASE UNCHANGED vars
  BY <1>6 DEF vars
<1>. QED
  BY <1>1, <1>2, <1>3, <1>4, <1>5, <1>6 DEF SyncNext

LEMMA FollowInit == SyncInit => FollowInv
<1> SUFFICES ASSUME SyncInit PROVE FollowInv
  OBVIOUS
<1>1. WindowInv
  BY WindowInit DEF SyncInit
<1>2. DeviceTypes
  BY DEF SyncInit, DeviceTypes, OrNever
<1>3. StampsPast
  BY JournalAssumption DEF SyncInit, Init, StampsPast, MinValue
<1>4. \A m \in Members : Following(m)
  BY DEF SyncInit, Init, Following, WindowStart, Open, Answers, Partial, Progress, ClaimsHeld,
         Followed, Reported, NoGet, NoSync, Applied
<1>. QED
  BY <1>1, <1>2, <1>3, <1>4 DEF FollowInv

LEMMA FollowStep == NotLate /\ FollowInv /\ [SyncNext]_vars => FollowInv'
<1> SUFFICES ASSUME NotLate, FollowInv, [SyncNext]_vars PROVE FollowInv'
  OBVIOUS
<1>1. TypeOK /\ DeviceTypes
  BY DEF FollowInv, WindowInv
<1>2. WindowInv'
  BY <1>1, SyncIsNext, WindowStep DEF FollowInv
<1>3. CASE Background /\ UNCHANGED device
  <2>1. DeviceTypes'
    BY <1>1, <1>3 DEF device, DeviceTypes
  <2>. QED
    BY <1>2, <1>3, <2>1, BackgroundStep DEF FollowInv
<1>4. ASSUME NEW m \in Members, Act(m) PROVE FollowInv'
  BY <1>1, <1>2, <1>4, ActTypes, ActFollows DEF FollowInv
<1>5. CASE UNCHANGED vars
  <2>1. DeviceTypes' /\ StampsPast'
    BY <1>5 DEF vars, server, device, FollowInv, DeviceTypes, StampsPast
  <2>2. \A m \in Members : Following(m)'
    BY <1>5, OthersFollow DEF vars, server, device
  <2>. QED
    BY <1>2, <2>1, <2>2 DEF FollowInv
<1>. QED
  BY <1>3, <1>4, <1>5 DEF SyncNext, Act

LEMMA FollowAlways ==
  ASSUME NotLate
  PROVE  SyncSpec => []FollowInv
<1>1. FollowInv /\ [SyncNext]_vars => FollowInv'
  BY FollowStep, NotLate
<1>. QED
  BY <1>1, FollowInit, PTL DEF SyncSpec

-----------------------------------------------------------------------------
(***************************************************************************)
(* The devices implement Follower.                                         *)
(***************************************************************************)
\* What becomes due in a step was held before it.
LEMMA DueWasHeld ==
  ASSUME FollowInv, [SyncNext]_vars, NEW m \in Members, NEW i \in Items,
         Reported(m, i)', ~Reported(m, i)
  PROVE  copies[m][i] # Never
<1>1. TypeOK /\ WindowInv /\ DeviceTypes /\ Following(m)
  BY DEF FollowInv, WindowInv
<1>2. CASE lastSync'[m] = lastSync[m]
  <2>1. PICK t \in Nat : t = lastSync[m] /\ t <= clock /\ Before(i, t)' /\ ~Before(i, t)
    BY <1>1, <1>2, StampTypes DEF Reported, Before, FollowInv, StampsPast
  <2>2. items'[i] \notin {items[i], Never, clock}
    BY <2>1, RowsOnlyGo
  <2>3. items' # items
    BY <2>2
  <2>4. \A n \in Members : ~Act(n)
    BY <1>1, <2>3, ActFrame
  <2>5. PICK h \in Handlers : Write(h)
    BY <2>3, <2>4 DEF SyncNext, Act, Background, ResetCheckpoint, Tick, vars, server
  <2>. QED
    BY <1>1, <2>2, <2>5, WritesNow
<1>3. CASE lastSync'[m] # lastSync[m]
  <2>1. CASE Background \/ UNCHANGED vars
    <3>1. lastSync'[m] \in {lastSync[m], Never}
      BY <1>1, <2>1
      DEF Background, Write, StartUpload, StartDelete, CommitUpload, UploadFails, Remove, RemoveFails,
          CountExcess, Prune, PruneFails, ResetCheckpoint, Tick, vars, server, TypeOK
    <3>. QED
      BY <1>3, <3>1 DEF Reported
  <2>2. ASSUME NEW n \in Members, Act(n) PROVE copies[m][i] # Never
    <3>1. n = m /\ items' = items
      BY <1>1, <1>3, <2>2, ActFrame
    <3>2. GetMember(m) \/ Acknowledge(m)
      BY <1>3, <2>2, <3>1
      DEF Act, Poll, GetJournal, GetSpace, GetItems, GetTombs, Apply, ApplyDeletions, Reconcile,
          SkipClaimed, Download, DownloadFails, Complete, GiveUp, ApplyDelta, Reload, PollFails,
          RestartDevice, Forget, server
    <3>3. CASE GetMember(m)
      <4>1. lastSync[m] = Never /\ lastSync'[m] = 0
        BY <1>1, <1>3, <3>3 DEF GetMember, SinceUtc, MinValue, TypeOK
      <4>2. items[i] >= 1 /\ items[i] \in Nat /\ items[i] < 0
        BY <1>1, <3>1, <4>1, StampTypes DEF Reported
      <4>. QED
        BY <4>2
    <3>4. CASE Acknowledge(m)
      <4>1. lastSync'[m] \in {lastSync[m], get[m].checkpoint} /\ sync[m] = Applied
        BY <1>1, <3>4 DEF Acknowledge, UpdateCheckpoint, Latest, TypeOK
      <4>2. Before(i, get[m].checkpoint)
        BY <1>3, <3>1, <4>1 DEF Reported, Before
      <4>. QED
        BY <1>1, <4>1, <4>2 DEF Following, Progress, Has
    <3>. QED
      BY <3>2, <3>3, <3>4
  <2>. QED
    BY <2>1, <2>2 DEF SyncNext, Act
<1>. QED
  BY <1>2, <1>3

\* Whatever overlaps, is lost, or is started again: a device acknowledges what it
\* has, and keeps what it has acknowledged.
THEOREM DevicesFollow ==
  ASSUME NotLate
  PROVE  SyncSpec => FollowsJournal
<1>1. SyncInit => F!Init
  <2>1. SyncInit => {x \in Members \X Items : Reported(x[1], x[2])} = {}
    BY JournalAssumption DEF SyncInit, Init, Reported
  <2>. QED
    BY <2>1 DEF F!Init
<1>2. FollowInv /\ FollowInv' /\ [SyncNext]_vars
        => [F!Step]_<<{x \in Members \X Items : Reported(x[1], x[2])},
                      {x \in Members \X Items : copies[x[1]][x[2]] # Never}>>
  <2> SUFFICES ASSUME FollowInv, FollowInv', [SyncNext]_vars PROVE F!Step
    OBVIOUS
  <2>1. \A m \in Members, i \in Items : Reported(m, i)' => copies'[m][i] # Never
    BY DEF FollowInv, Following, Followed, Has
  <2>2. \A m \in Members, i \in Items :
          Reported(m, i)' /\ ~Reported(m, i) => copies[m][i] # Never
    BY DueWasHeld
  <2>. QED
    BY <2>1, <2>2 DEF F!Step
<1>. QED
  BY <1>1, <1>2, FollowAlways, NotLate, PTL DEF SyncSpec, FollowsJournal, F!Spec

\* The web client's list has what the journal will not report again as it is now,
\* however often it was shared again.
THEOREM WebIsCurrent ==
  ASSUME NotLate
  PROVE  SyncSpec => []UpdatesArrive
<1>1. FollowInv => UpdatesArrive
  BY DEF FollowInv, Following, Followed, Has, UpdatesArrive, Web
<1>. QED
  BY <1>1, FollowAlways, NotLate, PTL

-----------------------------------------------------------------------------
(***************************************************************************)
(* Requests served one by one: no deletion is missed, however late the     *)
(* commit after its stamp.                                                 *)
(***************************************************************************)
Serial == "overlap" \notin Faults

OneByOne ==
  /\ \A h, k \in Handlers : job[h] # NoJob /\ job[k] # NoJob => h = k
  /\ \A h \in Handlers, m \in Members : job[h] # NoJob => get[m].pc \in {"none", "reply"}

\* The tombstones that are left are newer than those pruned.
Watermark ==
  /\ \A i \in Items : tombs[i] # Never =>
       tombs[i] <= clock /\ (pruned # Never => pruned <= tombs[i])
  /\ pruned # Never => pruned <= clock

\* A deletion under way is later than what the devices have asked for, and leaves
\* no tombstone only if none of them ever asked.
Deleting(h) == job[h].pc = "remove" =>
  /\ job[h].at <= clock
  /\ pruned # Never => pruned <= job[h].at
  /\ \A i \in Items : tombs[i] # Never => tombs[i] <= job[h].at
  /\ \A m \in Cli :
       /\ lastSync[m] # Never => job[h].marks /\ lastSync[m] <= job[h].at
       /\ get[m].pc = "reply" => get[m].checkpoint <= job[h].at

\* A pruning under way has the oldest tombstones, as they are.
Dropping(h) == job[h].pc = "prune" =>
  /\ job[h].upto <= clock
  /\ pruned # Never => pruned <= job[h].upto
  /\ \A i \in Items : tombs[i] # Never =>
       IF i \in job[h].drop THEN tombs[i] <= job[h].upto ELSE job[h].upto <= tombs[i]

\* Who asks from t on is told that i is gone, by a tombstone or by a full sync.
TellsFrom(t, i) ==
  \/ tombs[i] # Never /\ t <= tombs[i]
  \/ pruned # Never /\ t <= pruned

Stale(m, i) == copies[m][i] # Never /\ items[i] = Never

Fresh(m) == lastSync[m] = Never =>
  /\ sync[m] = NoSync /\ get[m].pc \in {"none", "member"}
  /\ \A i \in Items : copies[m][i] = Never

\* No pruning comes between the queries of a request.
Asking(m) ==
  /\ get[m].pc = "member" => get[m].pruned = pruned
  /\ Open(m) => get[m].checkpoint <= clock
  /\ get[m].pc \in {"items", "tombs"} =>
       get[m].since = lastSync[m] /\ (pruned # Never => pruned < get[m].since)

\* What a response does not speak of is told from its checkpoint on.
Hearing(m) ==
  /\ sync[m] # NoSync => get[m].pc = "reply"
  /\ Partial(m) /\ sync[m] = NoSync => \A i \in Items :
       Stale(m, i) => i \in get[m].deleted \/ TellsFrom(get[m].checkpoint, i)
  /\ sync[m] # NoSync => \A i \in Items : Stale(m, i) => TellsFrom(get[m].checkpoint, i)

Informed(m) ==
  /\ lastSync[m] # Never => lastSync[m] <= clock
  /\ Fresh(m) /\ Asking(m) /\ Hearing(m)
  /\ \A i \in Items : Told(m, i)

DeletionInv ==
  /\ TypeOK /\ DeviceTypes /\ OneByOne /\ Watermark
  /\ \A h \in Handlers : Deleting(h) /\ Dropping(h)
  /\ \A m \in Cli : Informed(m)

\* The stamps this part compares are numbers.
LEMMA DeletionTypes ==
  ASSUME TypeOK, NEW m \in Members
  PROVE  /\ clock \in Nat /\ Never \notin Nat
         /\ pruned # Never => pruned \in Nat
         /\ lastSync[m] # Never => lastSync[m] \in Nat
         /\ get[m].pc = "reply" => get[m].checkpoint \in Nat
BY ClockTimes, StampTypes, GetShapes DEF TypeOK, Response, Times, OrNever

\* While a write is under way no other is, and no request is in the middle.
LEMMA WriteAlone ==
  ASSUME Serial, TypeOK, OneByOne, NEW h \in Handlers, Write(h)
  PROVE  /\ OneByOne' /\ get' = get /\ lastSync' = lastSync /\ clock' = clock
         /\ \A k \in Handlers \ {h} : job'[k] = NoJob
         /\ \A m \in Members : get[m].pc \in {"none", "reply"}
<1>1. get' = get /\ lastSync' = lastSync /\ clock' = clock
  BY DEF Write, StartUpload, StartDelete, CommitUpload, UploadFails, Remove, RemoveFails, CountExcess,
         Prune, PruneFails
<1>2. MayStart \/ job[h] # NoJob
  BY DEF Write, StartUpload, StartDelete, CommitUpload, UploadFails, Remove, RemoveFails, CountExcess,
         Prune, PruneFails, NoJob
<1>3. /\ \A k \in Handlers \ {h} : job[k] = NoJob
      /\ \A m \in Members : get[m].pc \in {"none", "reply"}
  BY <1>2 DEF MayStart, Serial, OneByOne
<1>4. \A k \in Handlers \ {h} : job'[k] = job[k]
  BY DEF Write, StartUpload, StartDelete, CommitUpload, UploadFails, Remove, RemoveFails, CountExcess,
         Prune, PruneFails, TypeOK
<1>. QED
  BY <1>1, <1>3, <1>4 DEF OneByOne

\* Whatever has been told still is, and what goes is told from here on: then the
\* devices stay informed by a step of the server.
LEMMA ServerInforms ==
  ASSUME DeletionInv, NEW m \in Cli, UNCHANGED <<get, device>>, lastSync'[m] = lastSync[m],
         clock' \in Nat, clock <= clock',
         pruned' = pruned \/ get[m].pc \in {"none", "reply"},
         \A i \in Items, t \in Nat : TellsFrom(t, i) => TellsFrom(t, i)',
         \A i \in Items, t \in Nat :
           /\ items[i] # Never /\ items'[i] = Never
           /\ lastSync[m] # Never /\ (t = lastSync[m] \/ (get[m].pc = "reply" /\ t = get[m].checkpoint))
           => TellsFrom(t, i)'
  PROVE  Informed(m)'
<1>1. /\ m \in Members /\ TypeOK /\ Informed(m) /\ clock \in Nat
      /\ get'[m] = get[m] /\ copies'[m] = copies[m] /\ sync'[m] = sync[m]
      /\ Open(m)' = Open(m) /\ Partial(m)' = Partial(m)
  BY ClockTimes DEF Cli, DeletionInv, device, Open, Partial
<1>2. Fresh(m)'
  BY <1>1 DEF Informed, Fresh
<1>3. Asking(m)'
  <2>1. Open(m) => get[m].checkpoint <= clock'
    <3>1. Open(m) => get[m].checkpoint \in Nat /\ get[m].checkpoint <= clock
      BY <1>1, GetShapes DEF Informed, Asking, Open, Query, Response, Times
    <3>. QED
      BY <1>1, <3>1
  <2>. QED
    BY <1>1, <2>1 DEF Informed, Asking
<1>4. ASSUME NEW i \in Items, NEW t \in Nat, Stale(m, i)', ~Stale(m, i), lastSync[m] # Never,
             t = lastSync[m] \/ (get[m].pc = "reply" /\ t = get[m].checkpoint)
      PROVE  TellsFrom(t, i)'
  BY <1>1, <1>4 DEF Stale
<1>5. Hearing(m)'
  <2>1. CASE get[m].pc = "reply"
    <3>1. PICK t \in Nat : t = get[m].checkpoint /\ lastSync[m] # Never
      BY <1>1, <2>1, DeletionTypes DEF Informed, Fresh
    <3>2. get'[m].checkpoint = t
      BY <1>1, <3>1
    <3>3. \A i \in Items : Stale(m, i)' /\ ~Stale(m, i) => TellsFrom(t, i)'
      BY <1>4, <2>1, <3>1
    <3>4. \A i \in Items : TellsFrom(t, i) => TellsFrom(t, i)'
      BY <3>1
    <3>. QED
      BY <1>1, <2>1, <3>1, <3>2, <3>3, <3>4 DEF Informed, Hearing
  <2>2. CASE get[m].pc # "reply"
    BY <1>1, <2>2 DEF Informed, Hearing, Partial
  <2>. QED
    BY <2>1, <2>2
<1>6. ASSUME NEW i \in Items PROVE Told(m, i)'
  <2>1. CASE lastSync[m] # Never
    <3>1. PICK t \in Nat : t = lastSync[m]
      BY <1>1, <2>1, DeletionTypes
    <3>2. Stale(m, i)' /\ ~Stale(m, i) => TellsFrom(t, i)'
      BY <1>4, <2>1, <3>1
    <3>3. TellsFrom(t, i) => TellsFrom(t, i)'
      BY <3>1
    <3>4. Stale(m, i) => TellsFrom(t, i)
      BY <1>1, <2>1, <3>1 DEF Informed, Told, Stale, TellsFrom
    <3>. QED
      BY <3>1, <3>2, <3>3, <3>4 DEF Told, Stale, TellsFrom
  <2>2. CASE lastSync[m] = Never
    BY <2>2 DEF Told
  <2>. QED
    BY <2>1, <2>2
<1>7. lastSync'[m] # Never => lastSync'[m] <= clock'
  BY <1>1, DeletionTypes DEF Informed
<1>. QED
  BY <1>2, <1>3, <1>5, <1>6, <1>7 DEF Informed

\* What a deletion has loaded, and what a pruning has counted, of the present.
LEMMA StartInforms ==
  ASSUME DeletionInv, NEW h \in Handlers, NEW i \in Items, StartDelete(h, i), UNCHANGED device
  PROVE  Deleting(h)'
<1>1. /\ TypeOK /\ Watermark /\ UNCHANGED <<clock, tombs, pruned, lastSync, get>>
      /\ job'[h] = [pc |-> "remove", item |-> i, at |-> clock,
                    marks |-> HasJournalSubscribers, known |-> tombs[i] # Never]
  BY DEF DeletionInv, StartDelete, TypeOK
<1>2. job'[h].at = clock /\ (job'[h].marks <=> HasJournalSubscribers)
  BY <1>1
<1>3. \A m \in Cli :
        /\ lastSync[m] # Never => HasJournalSubscribers /\ lastSync[m] <= clock
        /\ get[m].pc = "reply" => get[m].checkpoint <= clock
  BY DEF DeletionInv, Informed, Asking, Open, Cli, HasJournalSubscribers
<1>4. clock \in Nat /\ clock <= clock /\ Cli' = Cli
  BY <1>1, ClockTimes DEF Cli, device
<1>. QED
  BY <1>1, <1>2, <1>3, <1>4 DEF Deleting, Watermark

LEMMA CountInforms ==
  ASSUME DeletionInv, NEW h \in Handlers, CountExcess(h)
  PROVE  Dropping(h)' /\ Deleting(h)'
<1>1. TypeOK /\ Watermark /\ UNCHANGED <<clock, tombs, pruned>>
  BY DEF DeletionInv, CountExcess
<1>2. CASE job' = [job EXCEPT ![h] = NoJob]
  BY <1>1, <1>2 DEF TypeOK, NoJob, Dropping, Deleting
<1>3. ASSUME NEW S \in OldestEntries(Cardinality(Marked) - MaxEntries), NEW j \in Newest(S),
             job' = [job EXCEPT ![h] = [pc |-> "prune", drop |-> S, upto |-> tombs[j]]]
      PROVE  Dropping(h)' /\ Deleting(h)'
  <2>1. job'[h].pc = "prune" /\ job'[h].drop = S /\ job'[h].upto = tombs[j]
    BY <1>1, <1>3 DEF TypeOK
  <2>2. S \subseteq Marked /\ j \in S /\ \A i \in S : tombs[i] <= tombs[j]
    BY <1>3 DEF OldestEntries, kSubset, Newest
  <2>3. \A i \in Marked \ S : tombs[j] <= tombs[i]
    BY <1>3, <2>2 DEF OldestEntries
  <2>. QED
    BY <1>1, <2>1, <2>2, <2>3 DEF Dropping, Deleting, Marked, Watermark
<1>. QED
  BY <1>2, <1>3 DEF CountExcess

LEMMA RemoveInforms ==
  ASSUME Serial, DeletionInv, NEW h \in Handlers, Remove(h), UNCHANGED device
  PROVE  Watermark' /\ \A m \in Cli : Informed(m)'
<1>1. /\ TypeOK /\ Watermark /\ Deleting(h) /\ UNCHANGED <<clock, pruned, lastSync, get>>
      /\ clock \in Nat /\ Never \notin Nat
  BY ClockTimes DEF DeletionInv, Remove
<1>2. PICK at \in Nat : at = job[h].at
  BY <1>1, JobShapes DEF Remove, Deletion, Times
<1>3. /\ \A i \in Items : items'[i] = Never /\ items[i] # Never => i = job[h].item
      /\ job[h].item \in Items /\ job[h].marks \in BOOLEAN
      /\ job[h].marks => tombs'[job[h].item] = at
      /\ \A i \in Items : tombs'[i] = tombs[i] \/ (job[h].marks /\ tombs'[i] = at)
  BY <1>1, <1>2, JobShapes DEF Remove, Deletion, TypeOK
<1>4. /\ at <= clock
      /\ pruned # Never => pruned <= at
      /\ \A i \in Items : tombs[i] # Never => tombs[i] \in Nat /\ tombs[i] <= at
      /\ \A m \in Cli :
           /\ lastSync[m] # Never => job[h].marks /\ lastSync[m] <= at
           /\ get[m].pc = "reply" => get[m].checkpoint <= at
  BY <1>1, <1>2, StampTypes DEF Deleting, Remove
<1>5. Watermark'
  BY <1>1, <1>2, <1>3, <1>4 DEF Watermark
<1>6. \A i \in Items, t \in Nat : TellsFrom(t, i) => TellsFrom(t, i)'
  BY <1>1, <1>2, <1>3, <1>4 DEF TellsFrom
<1>7. ASSUME NEW m \in Cli, NEW i \in Items, NEW t \in Nat,
             items[i] # Never, items'[i] = Never, lastSync[m] # Never,
             t = lastSync[m] \/ (get[m].pc = "reply" /\ t = get[m].checkpoint)
      PROVE  TellsFrom(t, i)'
  <2>1. tombs'[i] = at /\ t <= at
    BY <1>3, <1>4, <1>7
  <2>. QED
    BY <1>1, <2>1 DEF TellsFrom
<1>. QED
  BY <1>1, <1>5, <1>6, <1>7, ServerInforms

\* Prune: what it drops is told by the watermark it leaves.
LEMMA PruneInforms ==
  ASSUME Serial, DeletionInv, NEW h \in Handlers, Prune(h), UNCHANGED device
  PROVE  Watermark' /\ \A m \in Cli : Informed(m)'
<1>1. /\ TypeOK /\ OneByOne /\ Watermark /\ Dropping(h)
      /\ UNCHANGED <<clock, items, lastSync, get>> /\ clock \in Nat /\ Never \notin Nat
  BY ClockTimes DEF DeletionInv, Prune
<1>2. PICK upto \in Nat : upto = job[h].upto
  BY <1>1, JobShapes DEF Prune, Pruning, Times
<1>3. /\ pruned' = upto
      /\ \A i \in Items : tombs'[i] = IF i \in job[h].drop THEN Never ELSE tombs[i]
  BY <1>2 DEF Prune
<1>4. /\ upto <= clock
      /\ pruned # Never => pruned \in Nat /\ pruned <= upto
      /\ \A i \in Items : tombs[i] # Never => tombs[i] \in Nat
      /\ \A i \in Items : tombs[i] # Never =>
           IF i \in job[h].drop THEN tombs[i] <= upto ELSE upto <= tombs[i]
  BY <1>1, <1>2, StampTypes DEF Dropping, Prune, TypeOK, Times, OrNever
<1>5. Watermark'
  BY <1>1, <1>2, <1>3, <1>4 DEF Watermark
<1>6. \A i \in Items, t \in Nat : TellsFrom(t, i) => TellsFrom(t, i)'
  BY <1>1, <1>2, <1>3, <1>4 DEF TellsFrom
<1>7. \A m \in Cli : m \in Members /\ get[m].pc \in {"none", "reply"}
  BY <1>1 DEF OneByOne, Prune, NoJob, Cli
<1>. QED
  BY <1>1, <1>5, <1>6, <1>7, ServerInforms

LEMMA WriteInforms ==
  ASSUME Serial, DeletionInv, NEW h \in Handlers, Write(h), UNCHANGED device
  PROVE  DeletionInv'
<1>1. TypeOK /\ DeviceTypes /\ OneByOne /\ Watermark /\ clock \in Nat
  BY ClockTimes DEF DeletionInv
<1>2. /\ OneByOne' /\ UNCHANGED <<get, lastSync, clock>>
      /\ \A k \in Handlers \ {h} : job'[k] = NoJob
      /\ \A m \in Members : get[m].pc \in {"none", "reply"}
  BY <1>1, WriteAlone
<1>3. TypeOK' /\ DeviceTypes' /\ Cli' = Cli
  BY <1>1, WriteType DEF DeviceTypes, device, Cli
<1>4. \A k \in Handlers \ {h} : Deleting(k)' /\ Dropping(k)'
  BY <1>2 DEF Deleting, Dropping, NoJob
<1>5. ASSUME \E i \in Items : StartDelete(h, i) PROVE Deleting(h)' /\ Dropping(h)'
  <2>1. job'[h].pc = "remove"
    BY <1>1, <1>5 DEF StartDelete, TypeOK
  <2>. QED
    BY <1>5, <2>1, StartInforms DEF Dropping
<1>6. ASSUME ~(\E i \in Items : StartDelete(h, i)), ~CountExcess(h)
      PROVE  Deleting(h)' /\ Dropping(h)'
  <2>1. job'[h].pc \notin {"remove", "prune"}
    BY <1>1, <1>6
    DEF Write, StartUpload, CommitUpload, UploadFails, Remove, RemoveFails, Prune, PruneFails, TypeOK,
        NoJob
  <2>. QED
    BY <2>1 DEF Deleting, Dropping
<1>7. Deleting(h)' /\ Dropping(h)'
  BY <1>5, <1>6, CountInforms
<1>8. Watermark' /\ \A m \in Cli : Informed(m)'
  <2>1. CASE Remove(h) \/ Prune(h)
    BY <2>1, RemoveInforms, PruneInforms
  <2>2. CASE ~Remove(h) /\ ~Prune(h)
    <3>1. UNCHANGED <<tombs, pruned>>
      BY <2>2
      DEF Write, StartUpload, StartDelete, CommitUpload, UploadFails, RemoveFails, CountExcess,
          PruneFails
    <3>2. items' = items \/ CommitUpload(h)
      BY <2>2
      DEF Write, StartUpload, StartDelete, UploadFails, RemoveFails, CountExcess, PruneFails
    <3>3. ASSUME CommitUpload(h) PROVE \A i \in Items : items'[i] # Never \/ items'[i] = items[i]
      <4>1. job[h].at # Never
        BY <1>1, <3>3, JobShapes, JournalAssumption DEF CommitUpload, Upload, Times
      <4>. QED
        BY <1>1, <3>3, <4>1 DEF CommitUpload, TypeOK
    <3>4. \A i \in Items : items'[i] = Never => items[i] = Never
      BY <3>2, <3>3
    <3>5. Watermark'
      BY <1>1, <1>2, <3>1 DEF Watermark
    <3>6. \A i \in Items, t \in Nat : TellsFrom(t, i) => TellsFrom(t, i)'
      BY <3>1 DEF TellsFrom
    <3>. QED
      BY <1>1, <1>2, <3>1, <3>4, <3>5, <3>6, ServerInforms
  <2>. QED
    BY <2>1, <2>2
<1>. QED
  BY <1>2, <1>3, <1>4, <1>7, <1>8 DEF DeletionInv

LEMMA BackgroundInforms ==
  ASSUME Serial, DeletionInv, Background, UNCHANGED device
  PROVE  DeletionInv'
<1>1. /\ TypeOK /\ DeviceTypes /\ OneByOne /\ Watermark /\ clock \in Nat
      /\ Cli' = Cli /\ DeviceTypes'
  BY ClockTimes DEF DeletionInv, device, Cli, DeviceTypes
<1>4. TypeOK'
  BY <1>1, SyncIsNext, TypeStep DEF SyncNext
<1>2. ASSUME NEW n \in Web, ResetCheckpoint(n) PROVE DeletionInv'
  <2>1. /\ UNCHANGED <<clock, items, tombs, pruned, job, get>>
        /\ \A m \in Cli : lastSync'[m] = lastSync[m]
    BY <1>1, <1>2 DEF ResetCheckpoint, TypeOK, Cli, Web
  <2>3. OneByOne' /\ Watermark'
    BY <1>1, <2>1 DEF OneByOne, Watermark
  <2>4. \A h \in Handlers : Deleting(h)' /\ Dropping(h)'
    BY <1>1, <2>1 DEF DeletionInv, Deleting, Dropping
  <2>5. \A i \in Items, t \in Nat : TellsFrom(t, i) => TellsFrom(t, i)'
    BY <2>1 DEF TellsFrom
  <2>6. \A m \in Cli : Informed(m)'
    BY <1>1, <2>1, <2>5, ServerInforms
  <2>. QED
    BY <1>1, <1>4, <2>3, <2>4, <2>6 DEF DeletionInv
<1>3. CASE Tick
  <2>1. UNCHANGED <<items, tombs, pruned, lastSync, job, get>> /\ clock' = clock + 1
    BY <1>3 DEF Tick
  <2>3. OneByOne'
    BY <1>1, <2>1 DEF OneByOne
  <2>4. Watermark'
    <3>1. pruned # Never => pruned \in Nat
      BY <1>1 DEF TypeOK, Times, OrNever
    <3>. QED
      BY <1>1, <2>1, <3>1, StampTypes DEF Watermark
  <2>5. ASSUME NEW h \in Handlers PROVE Deleting(h)' /\ Dropping(h)'
    <3>1. job[h].pc = "remove" => job[h].at \in Nat
      BY <1>1, JobShapes DEF Deletion, Times
    <3>2. job[h].pc = "prune" => job[h].upto \in Nat
      BY <1>1, JobShapes DEF Pruning, Times
    <3>3. Deleting(h) /\ Dropping(h)
      BY DEF DeletionInv
    <3>. QED
      BY <1>1, <2>1, <3>1, <3>2, <3>3 DEF Deleting, Dropping
  <2>6. \A i \in Items, t \in Nat : TellsFrom(t, i) => TellsFrom(t, i)'
    BY <2>1 DEF TellsFrom
  <2>7. \A m \in Cli : Informed(m)'
    BY <1>1, <2>1, <2>6, ServerInforms
  <2>. QED
    BY <1>1, <1>4, <2>3, <2>4, <2>5, <2>7 DEF DeletionInv
<1>. QED
  BY <1>2, <1>3, WriteInforms DEF Background

-----------------------------------------------------------------------------
(***************************************************************************)
(* Now the steps of the devices.                                           *)
(***************************************************************************)
LEMMA OthersInformed ==
  ASSUME NEW m \in Members, Informed(m), UNCHANGED <<clock, items, tombs, pruned>>,
         get'[m] = get[m], lastSync'[m] = lastSync[m], copies'[m] = copies[m],
         sync'[m] = sync[m]
  PROVE  Informed(m)'
<1>1. \A i \in Items : (Stale(m, i)' <=> Stale(m, i)) /\ (Told(m, i)' <=> Told(m, i))
  BY DEF Stale, Told
<1>2. \A i, t : TellsFrom(t, i)' <=> TellsFrom(t, i)
  BY DEF TellsFrom
<1>. QED
  BY <1>1, <1>2 DEF Informed, Fresh, Asking, Hearing, Open, Partial

\* A poll that has ended, acknowledged or not.
LEMMA EndInforms ==
  ASSUME NEW m \in Members, UNCHANGED <<clock, items, tombs, pruned>>,
         copies'[m] = copies[m], get'[m] = NoGet, sync'[m] = NoSync,
         lastSync'[m] # Never => lastSync'[m] <= clock,
         lastSync'[m] = Never => \A i \in Items : copies[m][i] = Never,
         \A i \in Items : Told(m, i)'
  PROVE  Informed(m)'
BY DEF Informed, Fresh, Asking, Hearing, Open, Partial, NoGet, NoSync

\* A response of which a part is applied.
LEMMA PartInforms ==
  ASSUME DeletionInv, NEW m \in Cli, UNCHANGED <<clock, items, tombs, pruned, get, lastSync>>,
         get[m].pc = "reply", sync'[m] # NoSync,
         \A i \in Items : Stale(m, i)' => TellsFrom(get[m].checkpoint, i) /\ Stale(m, i)
  PROVE  Informed(m)'
<1>1. Informed(m) /\ lastSync[m] # Never
  BY DEF DeletionInv, Informed, Fresh
<1>2. \A i, t : TellsFrom(t, i)' <=> TellsFrom(t, i)
  BY DEF TellsFrom
<1>3. \A i \in Items : Told(m, i)'
  BY <1>1 DEF Informed, Told, Stale
<1>. QED
  BY <1>1, <1>2, <1>3 DEF Informed, Fresh, Asking, Hearing, Open, Partial

LEMMA PollInforms ==
  ASSUME DeletionInv, NEW m \in Cli, Poll(m)
  PROVE  Informed(m)'
<1>1. /\ m \in Members /\ TypeOK /\ Informed(m) /\ sync[m] = NoSync
      /\ UNCHANGED <<clock, items, tombs, pruned, kind, copies, claimed, sync>>
      /\ clock \in Nat /\ Never \notin Nat
  BY ClockTimes DEF DeletionInv, Poll, GetJournal, GetSpace, GetMember, GetItems, GetTombs, device, Cli
<1>2. \A i \in Items : (Stale(m, i)' <=> Stale(m, i))
  BY <1>1 DEF Stale
<1>3. \A i, t : TellsFrom(t, i)' <=> TellsFrom(t, i)
  BY <1>1 DEF TellsFrom
<1>4. CASE GetSpace(m)
  <2>1. lastSync' = lastSync /\ get'[m] = [pc |-> "member", pruned |-> pruned]
    BY <1>1, <1>4 DEF GetSpace, TypeOK
  <2>. QED
    BY <1>1, <1>2, <2>1 DEF Informed, Fresh, Asking, Hearing, Open, Partial, Told, Stale
<1>5. CASE GetMember(m)
  <2>1. PICK since : since = SinceUtc(m)
    OBVIOUS
  <2>2. /\ since \in Nat /\ since <= clock
        /\ lastSync[m] # Never => since = lastSync[m]
    BY <1>1, <2>1, DeletionTypes DEF SinceUtc, MinValue, Informed
  <2>3. lastSync'[m] = since /\ get[m].pc = "member" /\ get[m].pruned = pruned
    BY <1>1, <1>5, <2>1 DEF GetMember, TypeOK, Informed, Asking
  <2>4. \A i \in Items : Told(m, i)'
    BY <1>1, <2>2, <2>3 DEF Told, Informed, Fresh
  <2>5. CASE FullSyncRequired(since, pruned)
    <3>1. get'[m] = [pc |-> "reply", full |-> TRUE, since |-> since, checkpoint |-> clock,
                     added |-> {}, deleted |-> {}]
      BY <1>1, <1>5, <2>1, <2>3, <2>5 DEF GetMember, TypeOK
    <3>. QED
      BY <1>1, <2>2, <2>3, <2>4, <3>1 DEF Informed, Fresh, Asking, Hearing, Open, Partial
  <2>6. CASE ~FullSyncRequired(since, pruned)
    <3>1. get'[m] = [pc |-> "items", since |-> since, checkpoint |-> clock, added |-> {}]
      BY <1>1, <1>5, <2>1, <2>3, <2>6 DEF GetMember, TypeOK
    <3>2. pruned # Never => pruned < since
      BY <1>1, <2>2, <2>6, DeletionTypes DEF FullSyncRequired
    <3>. QED
      BY <1>1, <2>2, <2>3, <2>4, <3>1, <3>2 DEF Informed, Fresh, Asking, Hearing, Open, Partial
  <2>. QED
    BY <2>5, <2>6
<1>6. CASE GetItems(m)
  <2>1. get[m] \in Query /\ lastSync' = lastSync
    BY <1>1, <1>6, GetShapes DEF GetItems
  <2>2. PICK a : get'[m] = [get[m] EXCEPT !.pc = "tombs", !.added = a]
    BY <1>1, <1>6, <2>1 DEF GetItems, TypeOK, Query
  <2>3. get'[m].pc = "tombs" /\ get'[m].since = get[m].since /\ get'[m].checkpoint = get[m].checkpoint
    BY <2>1, <2>2 DEF Query
  <2>. QED
    BY <1>1, <1>2, <1>6, <2>1, <2>3
    DEF GetItems, Informed, Fresh, Asking, Hearing, Open, Partial, Told, Stale
<1>7. CASE GetTombs(m)
  <2>1. /\ lastSync' = lastSync /\ get[m].pc = "tombs"
        /\ get'[m] = [pc |-> "reply", full |-> FALSE, since |-> get[m].since,
                      checkpoint |-> get[m].checkpoint, added |-> get[m].added,
                      deleted |-> {i \in Items : NotBefore(tombs[i], get[m].since)}]
    BY <1>1, <1>7 DEF GetTombs, TypeOK
  <2>2. PICK since \in Nat : since = get[m].since /\ since = lastSync[m]
    BY <1>1, <2>1, DeletionTypes DEF Informed, Fresh, Asking
  <2>3. ASSUME NEW i \in Items, Stale(m, i) PROVE NotBefore(tombs[i], since)
    <3>1. \/ tombs[i] # Never /\ since <= tombs[i]
          \/ pruned # Never /\ since <= pruned
      BY <1>1, <2>2, <2>3 DEF Informed, Told, Stale
    <3>2. pruned # Never => pruned \in Nat /\ pruned < since
      BY <1>1, <2>1, <2>2, DeletionTypes DEF Informed, Asking
    <3>3. tombs[i] # Never => tombs[i] \in Nat
      BY <1>1, StampTypes
    <3>. QED
      BY <2>2, <3>1, <3>2, <3>3 DEF NotBefore
  <2>4. \A i \in Items : Told(m, i)'
    BY <1>1, <2>1 DEF Informed, Told
  <2>5. Hearing(m)'
    BY <1>1, <1>2, <2>1, <2>2, <2>3 DEF Hearing, Partial
  <2>6. Fresh(m)' /\ Asking(m)' /\ (lastSync'[m] # Never => lastSync'[m] <= clock')
    BY <1>1, <2>1, <2>2 DEF Informed, Fresh, Asking, Open
  <2>. QED
    BY <2>4, <2>5, <2>6 DEF Informed
<1>. QED
  BY <1>4, <1>5, <1>6, <1>7 DEF Poll, GetJournal

LEMMA ApplyInforms ==
  ASSUME DeletionInv, NEW m \in Cli, Apply(m)
  PROVE  Informed(m)'
<1>1. /\ m \in Members /\ m \notin Web /\ TypeOK /\ DeviceTypes /\ Informed(m)
      /\ sync[m] # NoSync => get[m].pc = "reply"
      /\ get[m].pc = "reply" => lastSync[m] # Never
  BY DEF DeletionInv, Cli, Web, Informed, Hearing, Fresh
<1>2. CASE ApplyDeletions(m)
  <2>1. /\ UNCHANGED server /\ get[m].pc = "reply" /\ Partial(m) /\ sync[m] = NoSync
        /\ sync'[m] # NoSync
        /\ \A i \in Items : copies'[m][i] = IF i \in get[m].deleted THEN Never ELSE copies[m][i]
    BY <1>1, <1>2 DEF ApplyDeletions, DeviceTypes, Partial, NoSync
  <2>2. \A i \in Items : Stale(m, i)' => TellsFrom(get[m].checkpoint, i) /\ Stale(m, i)
    BY <1>1, <2>1 DEF Informed, Hearing, Stale, server
  <2>. QED
    BY <2>1, <2>2, PartInforms DEF server
<1>3. CASE Reconcile(m)
  <2>1. /\ UNCHANGED server /\ get[m].pc = "reply" /\ sync'[m] # NoSync
        /\ \A i \in Items : copies'[m][i] = IF items[i] # Never THEN copies[m][i] ELSE Never
    BY <1>1, <1>3 DEF Reconcile, DeviceTypes, NoSync
  <2>2. \A i \in Items : ~Stale(m, i)'
    BY <2>1 DEF Stale, server
  <2>. QED
    BY <2>1, <2>2, PartInforms DEF server
<1>4. ASSUME NEW j \in Items, SkipClaimed(m, j) \/ Download(m, j) \/ DownloadFails(m, j)
      PROVE  Informed(m)'
  <2>1. /\ UNCHANGED server /\ sync[m].pc = "download"
        /\ \A i \in Items : copies'[m][i] = copies[m][i] \/ items[i] # Never
    <3>1. UNCHANGED server /\ sync[m].pc = "download"
      BY <1>4 DEF SkipClaimed, Download, DownloadFails
    <3>2. CASE Download(m, j)
      <4>1. items[j] # Never /\ \A i \in Items : i # j => copies'[m][i] = copies[m][i]
        BY <1>1, <3>2 DEF Download, DeviceTypes
      <4>. QED
        BY <3>1, <4>1
    <3>3. CASE ~Download(m, j)
      BY <1>4, <3>1, <3>3 DEF SkipClaimed, DownloadFails
    <3>. QED
      BY <3>2, <3>3
  <2>2. sync'[m].pc = "download" /\ sync[m] # NoSync /\ sync'[m] # NoSync
    <3>1. sync[m] \in Downloading
      BY <1>1, <2>1 DEF DeviceTypes, NoSync, Applied
    <3>2. PICK d \in Downloading : sync' = [sync EXCEPT ![m] = d]
      BY <1>1, <1>4, <3>1 DEF SkipClaimed, Download, DownloadFails, Downloading, Outcome
    <3>. QED
      BY <1>1, <2>1, <3>2 DEF DeviceTypes, Downloading, NoSync
  <2>3. \A i \in Items : Stale(m, i)' => TellsFrom(get[m].checkpoint, i) /\ Stale(m, i)
    BY <1>1, <2>1, <2>2 DEF Informed, Hearing, Stale, server
  <2>. QED
    BY <1>1, <2>1, <2>2, <2>3, PartInforms DEF server
<1>5. CASE Complete(m)
  <2>1. /\ UNCHANGED server /\ sync[m].pc = "download" /\ sync'[m] = Applied /\ copies' = copies
    BY <1>1, <1>5 DEF Complete, DeviceTypes
  <2>2. sync[m] # NoSync /\ sync'[m] # NoSync
    BY <2>1 DEF NoSync, Applied
  <2>3. \A i \in Items : Stale(m, i)' => TellsFrom(get[m].checkpoint, i) /\ Stale(m, i)
    BY <1>1, <2>1, <2>2 DEF Informed, Hearing, Stale, server
  <2>. QED
    BY <1>1, <2>1, <2>2, <2>3, PartInforms DEF server
<1>6. CASE GiveUp(m)
  <2>1. /\ UNCHANGED <<clock, items, tombs, pruned, lastSync, copies>>
        /\ get'[m] = NoGet /\ sync'[m] = NoSync
    BY <1>1, <1>6 DEF GiveUp, Forget, TypeOK, DeviceTypes
  <2>2. \A i \in Items : Told(m, i)'
    BY <1>1, <2>1 DEF Informed, Told
  <2>. QED
    BY <1>1, <2>1, <2>2, EndInforms DEF Informed, Fresh
<1>. QED
  BY <1>1, <1>2, <1>3, <1>4, <1>5, <1>6 DEF Apply, ApplyDelta, Reload

\* What is acknowledged says what was not applied.
LEMMA EndingInforms ==
  ASSUME DeletionInv, NEW m \in Cli, Acknowledge(m) \/ PollFails(m) \/ RestartDevice(m)
  PROVE  Informed(m)'
<1>1. /\ m \in Members /\ TypeOK /\ DeviceTypes /\ Informed(m)
      /\ UNCHANGED <<clock, items, tombs, pruned, copies>>
      /\ get'[m] = NoGet /\ sync'[m] = NoSync
  BY DEF DeletionInv, Cli, Acknowledge, UpdateCheckpoint, PollFails, RestartDevice, Forget, TypeOK,
         DeviceTypes
<1>2. CASE lastSync'[m] = lastSync[m]
  <2>1. \A i \in Items : Told(m, i)'
    BY <1>1, <1>2 DEF Informed, Told
  <2>. QED
    BY <1>1, <1>2, <2>1, EndInforms DEF Informed, Fresh
<1>3. CASE lastSync'[m] # lastSync[m]
  <2>1. Acknowledge(m)
    BY <1>3 DEF PollFails, RestartDevice, Forget
  <2>2. /\ sync[m] = Applied /\ get[m].pc = "reply" /\ sync[m] # NoSync
        /\ lastSync'[m] = Latest(lastSync[m], get[m].checkpoint)
    BY <1>1, <2>1 DEF Acknowledge, UpdateCheckpoint, TypeOK, Applied, NoSync
  <2>3. PICK t \in Nat : t = get[m].checkpoint /\ t <= clock /\ t # Never
    BY <1>1, <2>2, DeletionTypes DEF Informed, Asking, Open
  <2>4. lastSync'[m] = t
    BY <1>3, <2>2, <2>3 DEF Latest
  <2>5. \A i \in Items : Stale(m, i) => TellsFrom(t, i)
    BY <1>1, <2>2, <2>3 DEF Informed, Hearing
  <2>6. \A i \in Items : Told(m, i)'
    BY <1>1, <2>4, <2>5 DEF Told, Stale, TellsFrom
  <2>. QED
    BY <1>1, <2>3, <2>4, <2>6, EndInforms
<1>. QED
  BY <1>2, <1>3

LEMMA ActInforms ==
  ASSUME Serial, DeletionInv, NEW n \in Members, Act(n)
  PROVE  DeletionInv'
<1>1. TypeOK /\ DeviceTypes /\ OneByOne /\ TypeOK' /\ DeviceTypes'
  BY SyncIsNext, TypeStep, ActTypes DEF DeletionInv, SyncNext, Act
<1>2. /\ UNCHANGED <<clock, items, tombs, pruned, kind, job>>
      /\ \A m \in Members \ {n} :
           /\ get'[m] = get[m] /\ lastSync'[m] = lastSync[m]
           /\ copies'[m] = copies[m] /\ claimed'[m] = claimed[m] /\ sync'[m] = sync[m]
      /\ Cli' = Cli
  BY <1>1, ActFrame DEF Cli
<1>3. \A m \in Cli : Informed(m)'
  <2>1. \A m \in Cli \ {n} : Informed(m)'
    BY <1>2, OthersInformed DEF DeletionInv, Cli
  <2>2. n \in Cli => Informed(n)'
    BY PollInforms, ApplyInforms, EndingInforms DEF Act
  <2>. QED
    BY <2>1, <2>2
<1>4. Watermark'
  BY <1>2 DEF DeletionInv, Watermark
<1>5. ASSUME NEW h \in Handlers, job[h] # NoJob
      PROVE  get'[n] \in {get[n], NoGet}
  <2>1. ~MayStart /\ get[n].pc \in {"none", "reply"}
    BY <1>1, <1>5 DEF MayStart, Serial, OneByOne
  <2>2. ~Poll(n)
    BY <2>1 DEF Poll, GetJournal, GetSpace, GetMember, GetItems, GetTombs
  <2>. QED
    BY <1>1, <2>2
    DEF Act, Apply, ApplyDeletions, Reconcile, SkipClaimed, Download, DownloadFails, Complete, GiveUp,
        ApplyDelta, Reload, Acknowledge, UpdateCheckpoint, PollFails, RestartDevice, Forget, server,
        TypeOK
<1>6. OneByOne'
  BY <1>1, <1>2, <1>5 DEF OneByOne, NoGet
<1>7. \A h \in Handlers : Dropping(h)'
  BY <1>2 DEF DeletionInv, Dropping
<1>8. ASSUME NEW h \in Handlers, job[h].pc = "remove", NEW m \in Cli
      PROVE  /\ lastSync'[m] # Never => job[h].marks /\ lastSync'[m] <= job[h].at
             /\ get'[m].pc = "reply" => get'[m].checkpoint <= job[h].at
  <2>1. /\ lastSync[m] # Never => job[h].marks /\ lastSync[m] <= job[h].at
        /\ get[m].pc = "reply" => get[m].checkpoint <= job[h].at /\ lastSync[m] # Never
        /\ m \in Members /\ job[h] # NoJob
    BY <1>8 DEF DeletionInv, Deleting, Informed, Fresh, Cli, NoJob
  <2>2. CASE m # n
    BY <1>2, <2>1, <2>2
  <2>3. CASE m = n
    <3>1. get'[n] \in {get[n], NoGet}
      BY <1>5, <2>1
    <3>2. \/ lastSync'[n] = lastSync[n]
          \/ get[n].pc = "reply" /\ lastSync'[n] = get[n].checkpoint
      <4>1. ~GetMember(n)
        BY <1>1, <2>1, <2>3 DEF GetMember, OneByOne
      <4>. QED
        BY <1>1, <4>1
        DEF Act, Poll, GetJournal, GetSpace, GetItems, GetTombs, Apply, ApplyDeletions, Reconcile,
            SkipClaimed, Download, DownloadFails, Complete, GiveUp, ApplyDelta, Reload, Acknowledge,
            UpdateCheckpoint, Latest, PollFails, RestartDevice, Forget, server, TypeOK
    <3>. QED
      BY <2>1, <2>3, <3>1, <3>2 DEF NoGet
  <2>. QED
    BY <2>2, <2>3
<1>9. \A h \in Handlers : Deleting(h)'
  BY <1>2, <1>8 DEF DeletionInv, Deleting
<1>. QED
  BY <1>1, <1>2, <1>3, <1>4, <1>6, <1>7, <1>9 DEF DeletionInv

LEMMA DeletionInit == SyncInit => DeletionInv
<1> SUFFICES ASSUME SyncInit PROVE DeletionInv
  OBVIOUS
<1>1. TypeOK /\ DeviceTypes
  BY FollowInit DEF FollowInv, WindowInv
<1>2. OneByOne /\ Watermark /\ \A h \in Handlers : Deleting(h) /\ Dropping(h)
  BY DEF SyncInit, Init, OneByOne, Watermark, Deleting, Dropping, NoJob
<1>3. \A m \in Cli : Informed(m)
  BY JournalAssumption
  DEF SyncInit, Init, Cli, Informed, Fresh, Asking, Hearing, Open, Partial, Told, NoGet, NoSync,
      MinValue
<1>. QED
  BY <1>1, <1>2, <1>3 DEF DeletionInv

LEMMA DeletionStep == Serial /\ DeletionInv /\ [SyncNext]_vars => DeletionInv'
<1> SUFFICES ASSUME Serial, DeletionInv, [SyncNext]_vars PROVE DeletionInv'
  OBVIOUS
<1>1. CASE UNCHANGED vars
  <2>1. TypeOK' /\ DeviceTypes'
    BY <1>1, TypeStep DEF vars, server, device, DeletionInv, DeviceTypes
  <2>2. OneByOne' /\ Watermark' /\ Cli' = Cli
    BY <1>1 DEF vars, server, device, DeletionInv, OneByOne, Watermark, Cli
  <2>3. \A h \in Handlers : Deleting(h)' /\ Dropping(h)'
    BY <1>1 DEF vars, server, device, DeletionInv, Deleting, Dropping, Cli
  <2>4. \A m \in Cli : Informed(m)'
    BY <1>1, OthersInformed DEF vars, server, device, DeletionInv, Cli
  <2>. QED
    BY <2>1, <2>2, <2>3, <2>4 DEF DeletionInv
<1>. QED
  BY <1>1, BackgroundInforms, ActInforms DEF SyncNext, Act

\* Served one by one, with resets of others, prunings, failures and restarts and
\* commits as late as they like: a file that is deleted does not stay behind.
THEOREM DeletionsReachDevices ==
  ASSUME Serial
  PROVE  SyncSpec => []DeletionsArrive
<1>1. DeletionInv /\ [SyncNext]_vars => DeletionInv'
  BY DeletionStep, Serial
<1>2. DeletionInv => DeletionsArrive
  BY DEF DeletionInv, Informed, DeletionsArrive
<1>. QED
  BY <1>1, <1>2, DeletionInit, PTL DEF SyncSpec
=============================================================================
