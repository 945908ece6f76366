------------------------- MODULE ViewedFiles_proofs -------------------------
(***************************************************************************)
(* Theorems about WebShell and ViewedFiles: the page with its tokens, for  *)
(* any number of spaces, however often they are joined, left and switched  *)
(* and however many writes of the tokens fail; and the files in it, of any *)
(* number and size, whatever is fetched, shown, kept and turned on or off. *)
(***************************************************************************)
EXTENDS ViewedFiles, FiniteSetTheorems, TLAPS

USE DEF history

-----------------------------------------------------------------------------
(***************************************************************************)
(* The page alone.                                                         *)
(***************************************************************************)
\* How the page's parts hang together: nothing is shown before the tokens are read,
\* and what waits for a write has read them.
Ordered ==
  /\ boot # None => listed = {} /\ view # "space" /\ ~leave.here
  /\ listed # {} => cache # None
  /\ join.pc \in {"storing", "stored"} => cache # None /\ boot = None
  /\ leave.pc # "idle" => cache # None
  /\ join.pc # "idle" => join.space \in Spaces

\* A write is for who waits for it, and each waits for one.
Queued ==
  /\ \A i \in 1..Len(writes) :
       /\ writes[i].by = "join" => join.pc = "storing"
       /\ writes[i].by = "leave" => leave.pc = "storing"
  /\ \A i, j \in 1..Len(writes) : writes[i].by = writes[j].by => i = j

Inv == ShellTypeOK /\ Ordered /\ Queued

Snapshots == [tokens : SUBSET Spaces, by : {"join", "leave"}]

-----------------------------------------------------------------------------
LEMMA InvInit == ShellInit => Inv
<1> SUFFICES ASSUME ShellInit PROVE Inv
  OBVIOUS
<1> USE WebShellAssumption
<1>1. Idle \in Tasks
  BY DEF Idle, Tasks
<1>2. writes \in Seq(Snapshots)
  BY DEF ShellInit, Snapshots
<1>3. ShellTypeOK
  <2>1. acts \in 0..MaxActs /\ faults \in 0..MaxFaults
    BY DEF ShellInit
  <2>2. {stored, legacy, listed, kept, cleared} \subseteq SUBSET Spaces
    BY DEF ShellInit
  <2>3. boot \in {"home", "join", None} \cup Spaces /\ view \in {"home", "join"}
    BY DEF ShellInit
  <2>4. {last, current, token} \subseteq Spaces \cup {None} /\ cache \in (SUBSET Spaces) \cup {None}
    BY DEF ShellInit
  <2>5. {join, leave} \subseteq Tasks
    BY <1>1 DEF ShellInit
  <2>6. writes \in Seq([tokens : SUBSET Spaces, by : {"join", "leave"}])
    BY <1>2 DEF Snapshots
  <2>7. view \in {"home", "join", "admin", "space"} /\ (view = "space" => FALSE)
    BY <2>3
  <2>. QED
    BY <2>1, <2>2, <2>3, <2>4, <2>5, <2>6, <2>7 DEF ShellTypeOK
<1>4. Ordered /\ Queued
  BY DEF ShellInit, Ordered, Queued, Idle
<1>. QED
  BY <1>3, <1>4 DEF Inv

\* Tasks stay tasks.
LEMMA TaskTypes ==
  ASSUME NEW t \in Tasks, NEW s \in Spaces
  PROVE  /\ [t EXCEPT !.space = s] \in Tasks /\ [t EXCEPT !.space = s].pc = t.pc
         /\ [t EXCEPT !.pc = "storing"] \in Tasks
BY DEF Tasks

LEMMA TaskBegun ==
  ASSUME NEW s \in Spaces
  PROVE  /\ Task(s) \in Tasks /\ Task(s).pc = "begun"
         /\ Task(s).space = s /\ Task(s).asked = s
BY DEF Task, Tasks

LEMMA LeftTypes ==
  ASSUME NEW t \in Tasks, NEW its, NEW v
  PROVE  /\ Left(t, its, v) \in Tasks /\ Left(t, its, v).pc = t.pc
         /\ Left(t, its, v).space = t.space /\ Left(t, its, v).asked = t.asked
         /\ Left(t, its, v).here => t.here
BY DEF Left, Tasks

\* Actions that leave the tokens and the tasks' progress alone.
LEMMA QueuedKept ==
  ASSUME Queued, writes' = writes, join'.pc = join.pc, leave'.pc = leave.pc
  PROVE  Queued'
BY DEF Queued

-----------------------------------------------------------------------------
(***************************************************************************)
(* The actions, one by one.                                                *)
(***************************************************************************)
\* What reading the tokens leaves of the two stores.
LEMMA EnsureTypes ==
  ASSUME Inv, NEW c \in (SUBSET Spaces) \cup {None}, NEW l \in SUBSET Spaces,
         EnsureTokenCache(c, l)
  PROVE  /\ stored' \in SUBSET Spaces /\ faults' \in 0..MaxFaults
         /\ cache # None => c = cache
<1> USE WebShellAssumption
<1>1. faults' \in 0..MaxFaults
  BY DEF EnsureTokenCache, Fault, Inv, ShellTypeOK
<1>. QED
  BY <1>1 DEF EnsureTokenCache, Inv, ShellTypeOK

LEMMA PersistInv ==
  ASSUME Inv, PersistTokens
  PROVE  Inv'
<1> USE WebShellAssumption
<1> DEFINE first == writes[1]
<1>1. /\ writes \in Seq(Snapshots) /\ writes # <<>>
      /\ Len(writes) \in Nat /\ Len(writes) >= 1 /\ first \in Snapshots
  <2>1. writes \in Seq(Snapshots) /\ writes # <<>>
    BY DEF Inv, ShellTypeOK, PersistTokens, Snapshots
  <2>2. Len(writes) \in Nat /\ Len(writes) # 0
    BY <2>1
  <2>3. 1 \in 1..Len(writes)
    BY <2>2
  <2>. QED
    BY <2>1, <2>2, <2>3
<1>2. /\ writes' \in Seq(Snapshots) /\ Len(writes') = Len(writes) - 1
      /\ \A i \in 1..Len(writes') : writes'[i] = writes[i + 1]
  BY <1>1 DEF PersistTokens
<1>3. /\ stored' \in SUBSET Spaces /\ legacy' \in SUBSET Spaces /\ faults' \in 0..MaxFaults
  BY <1>1 DEF PersistTokens, FallBack, Fault, Inv, ShellTypeOK, Snapshots
<1>4. join' \in Tasks /\ leave' \in Tasks
  BY DEF PersistTokens, Written, Inv, ShellTypeOK, Tasks
<1>5. ShellTypeOK'
  <2>1. kept' \in SUBSET Spaces /\ cleared' = {}
    <3>1. 1 \in 1..Len(writes)
      BY <1>1
    <3>2. first.by = "join" => join.space \in Spaces
      BY <3>1 DEF Inv, Queued, Ordered
    <3>. QED
      BY <3>2 DEF PersistTokens, JoinedForGood, Inv, ShellTypeOK
  <2>. QED
    BY <1>2, <1>3, <1>4, <2>1 DEF PersistTokens, Inv, ShellTypeOK, Snapshots
<1>6. /\ join'.pc = IF first.by = "join" THEN "stored" ELSE join.pc
      /\ leave'.pc = IF first.by = "leave" THEN "stored" ELSE leave.pc
      /\ join'.space = join.space /\ leave'.here = leave.here
  BY DEF PersistTokens, Written, Inv, ShellTypeOK, Tasks
<1>7. /\ first.by = "join" => join.pc = "storing"
      /\ first.by = "leave" => leave.pc = "storing"
  BY <1>1 DEF Inv, Queued
<1>8. Ordered'
  BY <1>6, <1>7 DEF PersistTokens, Inv, Ordered
<1>9. ASSUME NEW i \in 1..Len(writes') PROVE writes'[i].by # first.by
  <2>1. i + 1 \in 1..Len(writes) /\ 1 \in 1..Len(writes) /\ i + 1 # 1
    BY <1>1, <1>2
  <2>. QED
    BY <1>2, <2>1 DEF Inv, Queued
<1>10. Queued'
  <2>1. ASSUME NEW i \in 1..Len(writes')
        PROVE  /\ i + 1 \in 1..Len(writes) /\ writes'[i] = writes[i + 1]
               /\ writes'[i].by = "join" => join'.pc = "storing"
               /\ writes'[i].by = "leave" => leave'.pc = "storing"
    <3>1. i + 1 \in 1..Len(writes) /\ writes'[i] = writes[i + 1]
      BY <1>1, <1>2
    <3>. QED
      BY <1>6, <1>9, <3>1 DEF Inv, Queued
  <2>2. ASSUME NEW i \in 1..Len(writes'), NEW j \in 1..Len(writes'),
               writes'[i].by = writes'[j].by
        PROVE  i = j
    <3>1. i + 1 = j + 1
      BY <2>1, <2>2 DEF Inv, Queued
    <3>. QED
      BY <3>1
  <2>. QED
    BY <2>1, <2>2 DEF Queued
<1>. QED
  BY <1>5, <1>8, <1>10 DEF Inv

LEMMA LoadInv ==
  ASSUME Inv, LoadSpacesFromStorage
  PROVE  Inv'
<1> USE WebShellAssumption
<1>1. PICK c \in (SUBSET Spaces) \cup {None}, l \in SUBSET Spaces :
        /\ EnsureTokenCache(c, l) /\ cache' = c /\ legacy' = l
        /\ listed' = IF c = None THEN {} ELSE c
  BY DEF LoadSpacesFromStorage
<1>2. stored' \in SUBSET Spaces /\ faults' \in 0..MaxFaults /\ (cache # None => cache' = cache)
  BY <1>1, EnsureTypes
<1>3. listed' \in SUBSET Spaces /\ cache' \in (SUBSET Spaces) \cup {None}
      /\ (listed' # {} => cache' # None)
  BY <1>1
<1>4. /\ UNCHANGED <<writes, kept, cleared, acts>> /\ boot' = None /\ boot # None
  BY DEF LoadSpacesFromStorage, Ready
<1>5. \/ UNCHANGED <<view, current, token, join, leave>> /\ last' = None
      \/ UNCHANGED <<view, current, token, join, leave>> /\ last' = last
      \/ \E s \in listed' : SelectSpace(s)
  BY DEF LoadSpacesFromStorage
<1>6. CASE \E s \in listed' : SelectSpace(s)
  <2>1. PICK s \in Spaces : s \in listed' /\ SelectSpace(s)
    BY <1>3, <1>6
  <2>2. leave' = leave /\ join' = Left(join, "join", "space")
    BY <1>4, <2>1 DEF SelectSpace, Inv, Ordered
  <2>3. join' \in Tasks /\ join'.pc = join.pc /\ join'.space = join.space
    BY <2>2, LeftTypes DEF Inv, ShellTypeOK
  <2>4. ShellTypeOK'
    BY <1>1, <1>2, <1>3, <1>4, <2>1, <2>2, <2>3 DEF SelectSpace, Inv, ShellTypeOK
  <2>5. Ordered' /\ Queued'
    BY <1>2, <1>3, <1>4, <2>2, <2>3, QueuedKept DEF Inv, Ordered
  <2>. QED
    BY <2>4, <2>5 DEF Inv
<1>7. CASE UNCHANGED <<view, current, token, join, leave>> /\ last' \in {None, last}
  <2>1. ShellTypeOK'
    BY <1>1, <1>2, <1>3, <1>4, <1>7 DEF Inv, ShellTypeOK, Ordered
  <2>2. Ordered' /\ Queued'
    BY <1>2, <1>3, <1>4, <1>7, QueuedKept DEF Inv, Ordered
  <2>. QED
    BY <2>1, <2>2 DEF Inv
<1>. QED
  BY <1>5, <1>6, <1>7

LEMMA ViewsInv ==
  ASSUME Inv, \/ \E s \in Spaces : Navigate(s)
              \/ \E v \in {"join", "admin"} : ShowView(v)
              \/ ResolveToken
  PROVE  Inv'
<1> USE WebShellAssumption
<1>1. join \in Tasks /\ leave \in Tasks
  BY DEF Inv, ShellTypeOK
<1>2. ASSUME NEW s \in Spaces, Navigate(s) PROVE Inv'
  <2>1. listed # {} /\ boot = None /\ cache # None
    BY <1>2 DEF Navigate, Inv, Ordered
  <2>2. join' = Left(join, "join", "space") /\ leave' \in {leave, [leave EXCEPT !.space = s]}
    BY <1>2 DEF Navigate, SelectSpace
  <2>3. /\ join' \in Tasks /\ join'.pc = join.pc /\ join'.space = join.space
        /\ leave' \in Tasks /\ leave'.pc = leave.pc
    <3>1. join' \in Tasks /\ join'.pc = join.pc /\ join'.space = join.space
      BY <1>1, <2>2, LeftTypes
    <3>2. leave' \in Tasks /\ leave'.pc = leave.pc
      BY <1>1, <2>2, TaskTypes
    <3>. QED
      BY <3>1, <3>2
  <2>4. ShellTypeOK'
    BY <1>2, <2>1, <2>3 DEF Navigate, SelectSpace, Act, Inv, ShellTypeOK
  <2>5. Ordered' /\ Queued'
    BY <1>2, <2>1, <2>3, QueuedKept DEF Navigate, Inv, Ordered
  <2>. QED
    BY <2>4, <2>5 DEF Inv
<1>3. ASSUME NEW v \in {"join", "admin"}, Show(v),
             UNCHANGED <<boot, cache, writes, current, listed>>
      PROVE  /\ {join', leave'} \subseteq Tasks /\ view' = v /\ Ordered' /\ Queued'
  <2>1. /\ join' \in Tasks /\ join'.pc = join.pc /\ join'.space = join.space
        /\ leave' \in Tasks /\ leave'.pc = leave.pc /\ (leave'.here => leave.here)
    BY <1>1, <1>3, LeftTypes DEF Show
  <2>. QED
    BY <1>3, <2>1, QueuedKept DEF Show, Inv, Ordered
<1>4. ASSUME NEW v \in {"join", "admin"}, ShowView(v) PROVE Inv'
  <2>1. {join', leave'} \subseteq Tasks /\ view' = v /\ Ordered' /\ Queued'
    BY <1>3, <1>4 DEF ShowView
  <2>. QED
    BY <1>4, <2>1 DEF ShowView, Act, storage, Inv, ShellTypeOK
<1>5. CASE ResolveToken
  <2>1. CASE current \in cache
    <3>1. ShellTypeOK'
      BY <1>5, <2>1 DEF ResolveToken, storage, Inv, ShellTypeOK
    <3>2. Ordered' /\ Queued'
      BY <1>5, <2>1, QueuedKept DEF ResolveToken, Inv, Ordered
    <3>. QED
      BY <3>1, <3>2 DEF Inv
  <2>2. CASE current \notin cache
    <3>1. {join', leave'} \subseteq Tasks /\ view' = "join" /\ Ordered' /\ Queued'
      BY <1>3, <1>5, <2>2 DEF ResolveToken
    <3>. QED
      BY <1>5, <2>2, <3>1 DEF ResolveToken, storage, Inv, ShellTypeOK
  <2>. QED
    BY <2>1, <2>2
<1>. QED
  BY <1>2, <1>4, <1>5

LEMMA OpenInv ==
  ASSUME Inv, Opens
  PROVE  Inv'
<1> USE WebShellAssumption
<1>1. PICK to \in {"home", "join"} \cup Spaces : OpenPage(to)
  BY DEF Opens
<1>2. Idle \in Tasks /\ Idle.pc = "idle" /\ ~Idle.here
  BY DEF Idle, Tasks
<1>3. ShellTypeOK'
  BY <1>1, <1>2 DEF OpenPage, Act, Inv, ShellTypeOK, storage
<1>4. Ordered' /\ Queued'
  BY <1>1, <1>2 DEF OpenPage, Ordered, Queued
<1>. QED
  BY <1>3, <1>4 DEF Inv

\* A write is queued for a task that waited for none.
LEMMA QueuedMore ==
  ASSUME Inv, NEW tokens \in SUBSET Spaces, NEW by \in {"join", "leave"},
         writes' = Append(writes, [tokens |-> tokens, by |-> by]),
         by = "join" => join.pc = "begun" /\ join'.pc = "storing" /\ leave'.pc = leave.pc,
         by = "leave" => leave.pc = "begun" /\ leave'.pc = "storing" /\ join'.pc = join.pc
  PROVE  Queued' /\ writes' \in Seq(Snapshots)
<1> DEFINE new == [tokens |-> tokens, by |-> by]
<1>1. writes \in Seq(Snapshots) /\ new \in Snapshots /\ new.by = by
  BY DEF Inv, ShellTypeOK, Snapshots
<1>2. /\ writes' \in Seq(Snapshots) /\ Len(writes') = Len(writes) + 1 /\ Len(writes) \in Nat
      /\ writes'[Len(writes) + 1] = new
      /\ \A i \in 1..Len(writes) : writes'[i] = writes[i]
  BY <1>1
<1>3. \A i \in 1..Len(writes') : i \in 1..Len(writes) \/ i = Len(writes) + 1
  BY <1>2
<1>4. ASSUME NEW i \in 1..Len(writes)
      PROVE  /\ writes'[i].by # by
             /\ writes'[i].by = "join" => join'.pc = "storing"
             /\ writes'[i].by = "leave" => leave'.pc = "storing"
  <2>1. /\ writes'[i] = writes[i]
        /\ writes[i].by = "join" => join.pc = "storing"
        /\ writes[i].by = "leave" => leave.pc = "storing"
    BY <1>2 DEF Inv, Queued
  <2>. QED
    BY <2>1
<1>5. \A i, j \in 1..Len(writes) : writes'[i].by = writes'[j].by => i = j
  BY <1>2 DEF Inv, Queued
<1>6. \A i \in 1..Len(writes') :
        /\ writes'[i].by = "join" => join'.pc = "storing"
        /\ writes'[i].by = "leave" => leave'.pc = "storing"
  BY <1>1, <1>2, <1>3, <1>4
<1>7. \A i, j \in 1..Len(writes') : writes'[i].by = writes'[j].by => i = j
  BY <1>1, <1>2, <1>3, <1>4, <1>5
<1>. QED
  BY <1>2, <1>6, <1>7 DEF Queued

LEMMA JoinInv ==
  ASSUME Inv, Exchanged \/ Joined \/ \E s \in Spaces : HandleJoin(s)
  PROVE  Inv'
<1> USE WebShellAssumption
<1>0. join \in Tasks /\ Idle \in Tasks /\ Idle.pc = "idle"
  BY DEF Inv, ShellTypeOK, Idle, Tasks
<1>1. ASSUME NEW s \in Spaces, HandleJoin(s) PROVE Inv'
  <2>1. join' = Task(s) /\ join.pc = "idle"
    BY <1>0, <1>1 DEF HandleJoin
  <2>2. join' \in Tasks /\ join'.pc = "begun" /\ join'.space = s
    BY <2>1, TaskBegun
  <2>3. ShellTypeOK'
    BY <1>1, <2>2 DEF HandleJoin, Act, storage, Inv, ShellTypeOK
  <2>4. Ordered'
    BY <1>1, <2>2 DEF HandleJoin, storage, Inv, Ordered
  <2>5. Queued'
    BY <1>1, <2>1 DEF HandleJoin, Inv, Queued
  <2>. QED
    BY <2>3, <2>4, <2>5 DEF Inv
<1>2. CASE Joined
  <2>1. join.space \in Spaces /\ cache # None /\ join' = Idle
    BY <1>2 DEF Joined, Inv, Ordered
  <2>2. ShellTypeOK'
    BY <1>0, <1>2, <2>1 DEF Joined, Inv, ShellTypeOK
  <2>3. Ordered'
    BY <1>0, <1>2, <2>1 DEF Joined, Inv, Ordered
  <2>4. Queued'
    BY <1>0, <1>2 DEF Joined, Inv, Queued
  <2>. QED
    BY <2>2, <2>3, <2>4 DEF Inv
<1>3. CASE Exchanged /\ join' = Idle
  <2>1. \/ UNCHANGED <<stored, legacy, cache, writes, history>> /\ faults' \in 0..MaxFaults
        \/ \E c \in (SUBSET Spaces) \cup {None}, l \in SUBSET Spaces :
             /\ EnsureTokenCache(c, l) /\ cache' = c /\ legacy' = l
             /\ UNCHANGED <<writes, history>>
    <3>1. [join EXCEPT !.pc = "storing"] # Idle
      BY <1>0 DEF Idle, Tasks
    <3>2. ASSUME Fault("lost") PROVE faults' \in 0..MaxFaults
      BY <3>2 DEF Fault, Inv, ShellTypeOK
    <3>. QED
      BY <1>3, <3>1, <3>2, Zenon DEF Exchanged
  <2>2. /\ stored' \in SUBSET Spaces /\ legacy' \in SUBSET Spaces /\ faults' \in 0..MaxFaults
        /\ cache' \in (SUBSET Spaces) \cup {None} /\ (cache # None => cache' = cache)
        /\ UNCHANGED <<writes, history>>
    BY <2>1, EnsureTypes DEF Inv, ShellTypeOK
  <2>3. UNCHANGED <<acts, last, boot, view, current, listed, token, leave>> /\ join.pc = "begun"
    BY <1>3 DEF Exchanged
  <2>4. ShellTypeOK'
    BY <1>0, <1>3, <2>2, <2>3 DEF Inv, ShellTypeOK
  <2>5. Ordered'
    BY <1>0, <1>3, <2>2, <2>3 DEF Inv, Ordered
  <2>6. Queued'
    BY <1>0, <1>3, <2>2, <2>3 DEF Inv, Queued
  <2>. QED
    BY <2>4, <2>5, <2>6 DEF Inv
<1>4. CASE Exchanged /\ join' # Idle
  <2>1. PICK c \in (SUBSET Spaces) \cup {None}, l \in SUBSET Spaces :
          /\ EnsureTokenCache(c, l) /\ c # None
          /\ SetTokens(c \cup {join.space}, "join", l \ stored')
          /\ join' = [join EXCEPT !.pc = "storing"]
    BY <1>4 DEF Exchanged
  <2>2. stored' \in SUBSET Spaces /\ faults' \in 0..MaxFaults
    BY <2>1, EnsureTypes
  <2>3. join.pc = "begun" /\ join.space \in Spaces /\ boot = None
    BY <1>4 DEF Exchanged, Ready, Inv, Ordered
  <2>4. join' \in Tasks /\ join'.pc = "storing" /\ join'.space = join.space
    BY <1>0, <2>1 DEF Tasks
  <2>5. c \cup {join.space} \in SUBSET Spaces /\ c \cup {join.space} # None
    BY <2>1, <2>3
  <2>6. UNCHANGED <<acts, last, boot, view, current, listed, token, leave, kept>>
    BY <1>4 DEF Exchanged
  <2>7. /\ cache' = c \cup {join.space} /\ legacy' = {} /\ cleared' = cleared \cup (l \ stored')
        /\ writes' = Append(writes, [tokens |-> c \cup {join.space}, by |-> "join"])
    BY <2>1 DEF SetTokens
  <2>8. Queued' /\ writes' \in Seq(Snapshots)
    BY <2>3, <2>4, <2>5, <2>6, <2>7, QueuedMore
  <2>9. ShellTypeOK'
    BY <2>1, <2>2, <2>3, <2>4, <2>5, <2>6, <2>7, <2>8 DEF Inv, ShellTypeOK, Snapshots
  <2>10. Ordered'
    BY <2>3, <2>4, <2>5, <2>6, <2>7 DEF Inv, Ordered
  <2>. QED
    BY <2>8, <2>9, <2>10 DEF Inv
<1>. QED
  BY <1>1, <1>2, <1>3, <1>4

LEMMA LeaveInv ==
  ASSUME Inv, RemoveSpace \/ Stopped \/ Removed
  PROVE  Inv'
<1> USE WebShellAssumption
<1>0. leave \in Tasks /\ Idle \in Tasks /\ Idle.pc = "idle" /\ ~Idle.here
  BY DEF Inv, ShellTypeOK, Idle, Tasks
<1>1. CASE RemoveSpace
  <2>1. current \in Spaces /\ cache # None /\ boot = None /\ leave.pc = "idle"
    BY <1>0, <1>1 DEF RemoveSpace, Inv, ShellTypeOK, Ordered
  <2>2. leave' \in Tasks /\ leave'.pc = "begun"
    BY <1>1, <2>1, TaskBegun DEF RemoveSpace
  <2>3. ShellTypeOK'
    BY <1>1, <2>2 DEF RemoveSpace, Act, storage, Inv, ShellTypeOK
  <2>4. Ordered'
    BY <1>1, <2>1, <2>2 DEF RemoveSpace, storage, Inv, Ordered
  <2>5. Queued'
    BY <1>1, <2>1 DEF RemoveSpace, Inv, Queued
  <2>. QED
    BY <2>3, <2>4, <2>5 DEF Inv
<1>2. CASE Stopped
  <2>1. leave.pc = "begun" /\ cache # None
    BY <1>2 DEF Stopped, Inv, Ordered
  <2>2. leave' \in Tasks /\ leave'.pc = "storing" /\ leave'.here = leave.here
    BY <1>0, <1>2 DEF Stopped, Tasks
  <2>3. cache \ {leave.space} \in SUBSET Spaces /\ cache \ {leave.space} # None
    BY <2>1 DEF Inv, ShellTypeOK
  <2>4. /\ cache' = cache \ {leave.space} /\ legacy' = {}
        /\ writes' = Append(writes, [tokens |-> cache \ {leave.space}, by |-> "leave"])
        /\ UNCHANGED <<acts, faults, stored, last, boot, view, current, listed, token, join>>
        /\ kept' = kept \ {leave.asked} /\ cleared' = cleared \cup (legacy \ stored)
    BY <1>2 DEF Stopped, SetTokens
  <2>5. Queued' /\ writes' \in Seq(Snapshots)
    BY <2>1, <2>2, <2>3, <2>4, QueuedMore
  <2>6. ShellTypeOK'
    BY <2>2, <2>3, <2>4, <2>5 DEF Inv, ShellTypeOK, Snapshots
  <2>7. Ordered'
    BY <2>2, <2>3, <2>4 DEF Inv, Ordered
  <2>. QED
    BY <2>5, <2>6, <2>7 DEF Inv
<1>3. CASE Removed
  <2>1. leave.pc = "stored" /\ cache # None /\ leave' = Idle
    BY <1>3 DEF Removed, Inv, Ordered
  <2>2. ShellTypeOK'
    BY <1>0, <1>3, <2>1 DEF Removed, storage, Inv, ShellTypeOK
  <2>3. Ordered'
    BY <1>0, <1>3, <2>1 DEF Removed, Inv, Ordered
  <2>4. Queued'
    BY <1>3, <2>1 DEF Removed, Inv, Queued
  <2>. QED
    BY <2>2, <2>3, <2>4 DEF Inv
<1>. QED
  BY <1>1, <1>2, <1>3

LEMMA InvStep == Inv /\ [ShellWork \/ ShellUser \/ Opens]_shellVars => Inv'
<1> SUFFICES ASSUME Inv, [ShellWork \/ ShellUser \/ Opens]_shellVars PROVE Inv'
  OBVIOUS
<1>1. CASE ShellWork
  BY <1>1, PersistInv, LoadInv, ViewsInv, JoinInv, LeaveInv DEF ShellWork
<1>2. CASE ShellUser
  BY <1>2, ViewsInv, JoinInv, LeaveInv DEF ShellUser
<1>3. CASE Opens
  BY <1>3, OpenInv
<1>4. CASE UNCHANGED shellVars
  BY <1>4 DEF shellVars, storage, shell, Inv, ShellTypeOK, Ordered, Queued
<1>. QED
  BY <1>1, <1>2, <1>3, <1>4

\* The page's variables, its stores and the writes it still has to make keep their
\* types: a view of a space always has its space and the tokens.
THEOREM TypeCorrect == ShellSpec => []ShellTypeOK
<1>1. ShellSpec => []Inv
  BY InvInit, InvStep, PTL DEF ShellSpec
<1>2. Inv => ShellTypeOK
  BY DEF Inv
<1>. QED
  BY <1>1, <1>2, PTL

-----------------------------------------------------------------------------
(***************************************************************************)
(* Tokens are kept while reads succeed, no space is chosen while another   *)
(* is being left, and the page is not closed while it alone has a token    *)
(* that was stored.  Every write that is queued has all that is kept, and  *)
(* what a join that is written by then will add to it; with no cache no    *)
(* write is queued, and with none queued nothing is in the page alone.     *)
(***************************************************************************)
Reliable == "read" \notin ShellFaults /\ {"leave", "close"} \cap Overlaps = {}

JoinsBy(i) == \E j \in 1..i : writes[j].by = "join"

Covers ==
  \A i \in 1..Len(writes) :
    /\ kept \subseteq writes[i].tokens
    /\ JoinsBy(i) => {join.space} \cap cache \subseteq writes[i].tokens

CacheWritten ==
  /\ writes # <<>> => cache # None
  /\ writes = <<>> => cleared = {}

LeavesItsOwn ==
  /\ leave.pc = "begun" => leave.space = leave.asked
  /\ leave.pc # "idle" => boot = None

Kept == TokensKept /\ Covers /\ CacheWritten /\ LeavesItsOwn

LEMMA KeptInit == ShellInit => Kept
BY DEF ShellInit, Kept, TokensKept, Covers, CacheWritten, LeavesItsOwn, Idle

\* What is read is all there is.
LEMMA EnsureKeeps ==
  ASSUME Inv, Kept, Reliable, NEW c \in (SUBSET Spaces) \cup {None}, NEW l \in SUBSET Spaces,
         EnsureTokenCache(c, l)
  PROVE  /\ c # None => kept \subseteq c
         /\ c = None => cache = None
         /\ kept \subseteq stored' \cup l \cup cleared
<1> USE WebShellAssumption
<1>1. CASE cache # None
  BY <1>1 DEF EnsureTokenCache, Kept, TokensKept
<1>2. CASE cache = None
  <2>1. writes = <<>> /\ kept \subseteq stored \cup legacy
    BY <1>2 DEF Kept, TokensKept, CacheWritten
  <2>2. ~Fault("read")
    BY DEF Fault, Reliable
  <2>. QED
    BY <1>2, <2>1, <2>2 DEF EnsureTokenCache
<1>. QED
  BY <1>1, <1>2

\* Only a join that waits for its write is ahead of one.
LEMMA NoJoins ==
  ASSUME Inv, join.pc # "storing", NEW i \in 1..Len(writes)
  PROVE  ~JoinsBy(i)
<1>1. Len(writes) \in Nat
  BY DEF Inv, ShellTypeOK
<1>2. \A j \in 1..i : j \in 1..Len(writes)
  BY <1>1
<1>. QED
  BY <1>2 DEF Inv, Queued, JoinsBy

\* A snapshot is queued last.
LEMMA Appended ==
  ASSUME Inv, Covers, NEW tokens \in SUBSET Spaces, NEW by \in {"join", "leave"},
         writes' = Append(writes, [tokens |-> tokens, by |-> by]),
         cache' = tokens, kept' \subseteq kept, kept' \subseteq tokens,
         join'.space = join.space,
         tokens \subseteq cache \/ join.pc # "storing"
  PROVE  Covers' /\ writes' # <<>>
<1> DEFINE n == Len(writes)
<1>1. writes \in Seq(Snapshots) /\ [tokens |-> tokens, by |-> by] \in Snapshots
  BY DEF Inv, ShellTypeOK, Snapshots
<1>2. /\ Len(writes') = n + 1 /\ n \in Nat /\ writes' # <<>>
      /\ writes'[n + 1].tokens = tokens
      /\ \A i \in 1..n : writes'[i] = writes[i]
  BY <1>1
<1>3. ASSUME NEW i \in 1..n
      PROVE  /\ kept' \subseteq writes'[i].tokens
             /\ JoinsBy(i)' => {join'.space} \cap cache' \subseteq writes'[i].tokens
  <2>1. writes'[i] = writes[i] /\ \A j \in 1..i : writes'[j] = writes[j]
    BY <1>2
  <2>2. JoinsBy(i)' => JoinsBy(i)
    BY <2>1 DEF JoinsBy
  <2>3. CASE tokens \subseteq cache
    BY <2>1, <2>2, <2>3 DEF Covers
  <2>4. CASE join.pc # "storing"
    BY <2>1, <2>2, <2>4, NoJoins DEF Covers
  <2>. QED
    BY <2>3, <2>4
<1>4. \A i \in 1..Len(writes') : i \in 1..n \/ i = n + 1
  BY <1>2
<1>5. /\ kept' \subseteq writes'[n + 1].tokens
      /\ {join'.space} \cap cache' \subseteq writes'[n + 1].tokens
  BY <1>2
<1>. QED
  BY <1>2, <1>3, <1>4, <1>5 DEF Covers

\* The first write: what it stores, or leaves in local storage, has all that is kept.
LEMMA FirstKept ==
  ASSUME Inv, Kept, PersistTokens
  PROVE  TokensKept' /\ Covers'
<1>1. /\ writes \in Seq(Snapshots) /\ writes # <<>> /\ writes' = Tail(writes)
      /\ cache' = cache /\ kept' = kept \cup JoinedForGood /\ cleared' = {}
      /\ writes[1].tokens \subseteq stored' \cup legacy'
  BY DEF PersistTokens, FallBack, Inv, ShellTypeOK, Snapshots
<1>2. /\ Len(writes) \in Nat /\ 1 \in 1..Len(writes)
      /\ Len(writes') = Len(writes) - 1
      /\ \A i \in 1..Len(writes') : i + 1 \in 1..Len(writes) /\ writes'[i] = writes[i + 1]
  BY <1>1
<1>3. join'.space = join.space
  BY DEF PersistTokens, Written, Inv, ShellTypeOK, Tasks
<1>4. ASSUME NEW i \in 1..Len(writes) PROVE kept' \subseteq writes[i].tokens
  <2>1. writes[1].by = "join" => JoinsBy(i)
    BY <1>2 DEF JoinsBy
  <2>. QED
    BY <1>1, <2>1 DEF JoinedForGood, Kept, Covers
<1>5. TokensKept'
  BY <1>1, <1>2, <1>4 DEF Kept, TokensKept, JoinedForGood
<1>6. ASSUME NEW i \in 1..Len(writes'), JoinsBy(i)' PROVE JoinsBy(i + 1)
  <2>1. PICK j \in 1..i : writes'[j].by = "join"
    BY <1>6 DEF JoinsBy
  <2>2. j \in 1..Len(writes') /\ j + 1 \in 1..(i + 1)
    BY <1>2
  <2>. QED
    BY <1>2, <2>1, <2>2 DEF JoinsBy
<1>7. Covers'
  BY <1>1, <1>2, <1>3, <1>4, <1>6 DEF Kept, Covers
<1>. QED
  BY <1>5, <1>7

LEMMA KeptStep ==
  ASSUME Inv, Kept, Reliable, [ShellWork \/ ShellUser \/ Opens]_shellVars
  PROVE  Kept'
<1> USE WebShellAssumption
<1>0. join \in Tasks /\ leave \in Tasks /\ Idle.pc = "idle"
  BY DEF Inv, ShellTypeOK, Idle
<1>1. CASE PersistTokens
  <2>1. writes # <<>> /\ UNCHANGED <<cache, boot>> /\ cleared' = {} /\ cache # None
    BY <1>1 DEF PersistTokens, Kept, CacheWritten
  <2>2. LeavesItsOwn'
    <3>1. /\ leave'.space = leave.space /\ leave'.asked = leave.asked
          /\ leave'.pc = IF writes[1].by = "leave" THEN "stored" ELSE leave.pc
      BY <1>0, <1>1 DEF PersistTokens, Written, Tasks
    <3>2. 1 \in 1..Len(writes)
      BY <2>1 DEF Inv, ShellTypeOK
    <3>3. writes[1].by = "leave" => leave.pc = "storing"
      BY <3>2 DEF Inv, Queued
    <3>. QED
      BY <2>1, <3>1, <3>3 DEF Kept, LeavesItsOwn
  <2>. QED
    BY <1>1, <2>1, <2>2, FirstKept DEF Kept, CacheWritten
<1>2. ASSUME UNCHANGED <<writes, kept>>, cache' = cache \/ writes = <<>>,
             join'.space = join.space \/ join.pc # "storing"
      PROVE  Covers'
  <2>1. \A i \in 1..Len(writes) : JoinsBy(i)' <=> JoinsBy(i)
    BY <1>2 DEF JoinsBy
  <2>2. CASE join.pc # "storing"
    BY <1>2, <2>1, <2>2, NoJoins DEF Kept, Covers
  <2>3. CASE writes = <<>>
    BY <1>2, <2>3 DEF Covers
  <2>4. CASE cache' = cache /\ join'.space = join.space
    BY <1>2, <2>1, <2>4 DEF Kept, Covers
  <2>. QED
    BY <1>2, <2>2, <2>3, <2>4
<1>3. ASSUME UNCHANGED <<stored, legacy, cache, writes, history, boot>>,
             join'.space = join.space \/ join.pc # "storing",
             LeavesItsOwn'
      PROVE  Kept'
  BY <1>2, <1>3 DEF Kept, TokensKept, CacheWritten
<1>4. CASE LoadSpacesFromStorage
  <2>1. PICK c \in (SUBSET Spaces) \cup {None}, l \in SUBSET Spaces :
          EnsureTokenCache(c, l) /\ cache' = c /\ legacy' = l
    BY <1>4 DEF LoadSpacesFromStorage
  <2>2. UNCHANGED <<writes, kept, cleared>>
    BY <1>4 DEF LoadSpacesFromStorage
  <2>3. cache # None => cache' = cache
    BY <2>1, EnsureTypes
  <2>4. TokensKept' /\ CacheWritten'
    BY <2>1, <2>2, <2>3, EnsureKeeps DEF Kept, TokensKept, CacheWritten
  <2>5. leave' = leave /\ boot' = None /\ join'.space = join.space
    <3>1. join' = join \/ join' = Left(join, "join", "space")
      BY <1>4 DEF LoadSpacesFromStorage, SelectSpace
    <3>2. leave' = leave /\ boot' = None
      BY <1>4 DEF LoadSpacesFromStorage, SelectSpace, Ready, Inv, Ordered
    <3>. QED
      BY <1>0, <3>1, <3>2, LeftTypes
  <2>6. cache' = cache \/ writes = <<>>
    BY <2>3 DEF Kept, CacheWritten
  <2>. QED
    BY <1>2, <2>2, <2>4, <2>5, <2>6 DEF Kept, LeavesItsOwn
<1>5. CASE ResolveToken \/ \E v \in {"join", "admin"} : ShowView(v)
  <2>1. /\ leave' = leave \/ \E v : leave' = Left(leave, "space", v)
        /\ join' = join \/ \E v : join' = Left(join, "join", v)
    BY <1>5 DEF ResolveToken, ShowView, Show
  <2>2. leave'.pc = leave.pc /\ leave'.space = leave.space /\ leave'.asked = leave.asked
        /\ join'.space = join.space
    BY <1>0, <2>1, LeftTypes
  <2>3. UNCHANGED <<stored, legacy, cache, writes, history, boot>>
    BY <1>5 DEF ResolveToken, ShowView, storage
  <2>. QED
    BY <1>3, <2>2, <2>3 DEF Kept, LeavesItsOwn
<1>6. CASE \E s \in Spaces : Navigate(s)
  <2>1. leave' = leave /\ join' = Left(join, "join", "space")
    BY <1>6 DEF Navigate, SelectSpace, Reliable
  <2>2. UNCHANGED <<stored, legacy, cache, writes, history, boot>>
    BY <1>6 DEF Navigate
  <2>. QED
    BY <1>0, <1>3, <2>1, <2>2, LeftTypes DEF Kept, LeavesItsOwn
<1>7. CASE Exchanged
  <2>1. LeavesItsOwn' /\ join.pc = "begun" /\ kept' = kept
    BY <1>7 DEF Exchanged, Kept, LeavesItsOwn
  <2>2. CASE UNCHANGED <<stored, legacy, cache, writes, history>>
    BY <1>3, <1>7, <2>1, <2>2 DEF Exchanged
  <2>3. CASE ~UNCHANGED <<stored, legacy, cache, writes, history>>
    <3>1. PICK c \in (SUBSET Spaces) \cup {None}, l \in SUBSET Spaces :
            /\ EnsureTokenCache(c, l)
            /\ IF c = None
                 THEN cache' = c /\ legacy' = l /\ UNCHANGED <<writes, cleared>>
                 ELSE /\ SetTokens(c \cup {join.space}, "join", l \ stored')
                      /\ join' = [join EXCEPT !.pc = "storing"]
      BY <1>7, <2>1, <2>3 DEF Exchanged
    <3>2. kept \subseteq stored' \cup l \cup cleared
      BY <3>1, EnsureKeeps
    <3>3. CASE c = None
      <4>1. cache = None /\ cache' = None
        BY <3>1, <3>3, EnsureKeeps
      <4>2. Covers'
        BY <1>2, <2>1, <3>1, <3>3, <4>1
      <4>. QED
        BY <2>1, <3>1, <3>2, <3>3, <4>1, <4>2 DEF Kept, TokensKept, CacheWritten
    <3>4. CASE c # None
      <4>1. kept \subseteq c \cup {join.space}
        BY <3>1, <3>4, EnsureKeeps
      <4>2. c \cup {join.space} \in SUBSET Spaces
        BY <1>7, <3>4 DEF Exchanged, Inv, Ordered
      <4>3. /\ cache' = c \cup {join.space} /\ legacy' = {} /\ cleared' = cleared \cup (l \ stored')
            /\ writes' = Append(writes, [tokens |-> c \cup {join.space}, by |-> "join"])
            /\ join'.space = join.space
        BY <1>0, <3>1, <3>4 DEF SetTokens, Tasks
      <4>4. Covers' /\ writes' # <<>>
        BY <2>1, <4>1, <4>2, <4>3, Appended DEF Kept
      <4>5. TokensKept'
        BY <2>1, <3>2, <4>1, <4>3 DEF TokensKept
      <4>6. CacheWritten'
        BY <4>2, <4>3, <4>4 DEF CacheWritten
      <4>. QED
        BY <2>1, <4>4, <4>5, <4>6 DEF Kept
    <3>. QED
      BY <3>3, <3>4
  <2>. QED
    BY <2>2, <2>3
<1>8. CASE Joined \/ \E s \in Spaces : HandleJoin(s)
  <2>1. join.pc # "storing"
    BY <1>0, <1>8 DEF Joined, HandleJoin
  <2>. QED
    BY <1>3, <1>8, <2>1 DEF Joined, HandleJoin, storage, Kept, LeavesItsOwn
<1>9. CASE RemoveSpace
  <2>1. current \in Spaces /\ boot = None
    BY <1>9 DEF RemoveSpace, Inv, ShellTypeOK, Ordered
  <2>2. leave'.space = leave'.asked
    BY <1>9, <2>1, TaskBegun DEF RemoveSpace
  <2>. QED
    BY <1>3, <1>9, <2>1, <2>2 DEF RemoveSpace, storage, LeavesItsOwn
<1>10. CASE Stopped
  <2>1. leave.pc = "begun" /\ leave.space = leave.asked /\ boot = None /\ cache # None
    BY <1>10 DEF Stopped, Kept, LeavesItsOwn, Inv, Ordered
  <2>2. cache \ {leave.space} \in SUBSET Spaces /\ kept \subseteq cache
    BY <2>1 DEF Inv, ShellTypeOK, Kept, TokensKept
  <2>3. /\ cache' = cache \ {leave.space} /\ legacy' = {} /\ cleared' = cleared \cup (legacy \ stored)
        /\ writes' = Append(writes, [tokens |-> cache \ {leave.space}, by |-> "leave"])
        /\ kept' = kept \ {leave.asked} /\ UNCHANGED <<stored, boot, join>>
    BY <1>10 DEF Stopped, SetTokens
  <2>4. Covers' /\ writes' # <<>>
    BY <2>1, <2>2, <2>3, Appended DEF Kept
  <2>5. TokensKept'
    BY <2>1, <2>2, <2>3 DEF Kept, TokensKept
  <2>6. CacheWritten'
    BY <2>2, <2>3, <2>4 DEF CacheWritten
  <2>7. leave'.pc = "storing"
    BY <1>0, <1>10 DEF Stopped, Tasks
  <2>. QED
    BY <2>1, <2>3, <2>4, <2>5, <2>6, <2>7 DEF Kept, LeavesItsOwn
<1>11. CASE Removed
  BY <1>0, <1>3, <1>11 DEF Removed, storage, LeavesItsOwn
<1>12. CASE Opens
  <2>1. PICK to \in {"home", "join"} \cup Spaces : OpenPage(to)
    BY <1>12 DEF Opens
  <2>2. kept \cap cleared = {}
    BY <2>1 DEF OpenPage, Reliable
  <2>. QED
    BY <1>0, <2>1, <2>2 DEF OpenPage, storage, Kept, TokensKept, Covers, CacheWritten, LeavesItsOwn
<1>13. CASE UNCHANGED shellVars
  <2>1. UNCHANGED <<stored, legacy, cache, writes, history, boot, join, leave>>
    BY <1>13 DEF shellVars, storage, shell
  <2>. QED
    BY <1>3, <2>1 DEF Kept, LeavesItsOwn
<1>. QED
  BY <1>1, <1>4, <1>5, <1>6, <1>7, <1>8, <1>9, <1>10, <1>11, <1>12, <1>13
     DEF ShellWork, ShellUser

\* Whatever writes to IndexedDB fail, a space whose joining has been stored, and that
\* has not been left, has its token in one of the two stores, or had it in local storage
\* alone and is in a write that is queued; and the page's cache has it.  So the page finds
\* it when it is opened anew, unless it was closed before that very write (the bound of
\* OpenPage).
THEOREM TokensSafe == ASSUME Reliable PROVE ShellSpec => []TokensKept
<1>1. Inv /\ Kept /\ [ShellWork \/ ShellUser \/ Opens]_shellVars => Kept'
  BY KeptStep
<1>2. ShellSpec => [](Inv /\ Kept)
  BY <1>1, InvInit, InvStep, KeptInit, PTL DEF ShellSpec
<1>3. Kept => TokensKept
  BY DEF Kept
<1>. QED
  BY <1>2, <1>3, PTL

-----------------------------------------------------------------------------
(***************************************************************************)
(* The page with its files.                                                *)
(***************************************************************************)
Keys == Spaces \X Files
Rows == {s \in Seq(Keys) : IsInjective(s)}

-----------------------------------------------------------------------------
(***************************************************************************)
(* The rows of viewed-files.                                               *)
(***************************************************************************)
LEMMA WithoutRows ==
  ASSUME NEW keys \in Rows, NEW deleted, NEW rest \in Without(keys, deleted)
  PROVE  rest \in Rows /\ ToSet(rest) \subseteq ToSet(keys) \ deleted
<1> DEFINE left == {i \in DOMAIN keys : keys[i] \notin deleted}
           n == Cardinality(left)
<1>1. PICK at \in [1..n -> left] :
        /\ rest = [j \in 1..n |-> keys[at[j]]]
        /\ \A i, j \in 1..n : i < j => at[i] < at[j]
  BY DEF Without
<1>2. keys \in Seq(Keys) /\ IsInjective(keys) /\ DOMAIN keys = 1..Len(keys) /\ Len(keys) \in Nat
  BY DEF Rows
<1>3. n \in Nat
  <2>1. IsFiniteSet(1..Len(keys))
    BY <1>2, FS_Interval
  <2>2. IsFiniteSet(left)
    BY <1>2, <2>1, FS_Subset
  <2>. QED
    BY <2>2, FS_CardinalityType
<1>4. \A j \in 1..n : at[j] \in left /\ rest[j] = keys[at[j]]
  BY <1>1
<1>5. \A j \in 1..n : rest[j] \in Keys /\ rest[j] \in ToSet(keys) /\ rest[j] \notin deleted
  <2>. TAKE j \in 1..n
  <2>1. at[j] \in DOMAIN keys /\ keys[at[j]] \notin deleted
    BY <1>4
  <2>2. keys[at[j]] \in Keys
    BY <1>2, <2>1
  <2>. QED
    BY <1>4, <2>1, <2>2 DEF ToSet
<1>6. rest \in Seq(Keys) /\ DOMAIN rest = 1..n
  BY <1>1, <1>3, <1>5
<1>7. \A i, j \in 1..n : rest[i] = rest[j] => i = j
  <2>. SUFFICES ASSUME NEW i \in 1..n, NEW j \in 1..n, rest[i] = rest[j], i # j PROVE FALSE
    OBVIOUS
  <2>1. at[i] \in DOMAIN keys /\ at[j] \in DOMAIN keys /\ keys[at[i]] = keys[at[j]]
    BY <1>4
  <2>2. at[i] = at[j] /\ at[i] \in Nat
    BY <1>2, <2>1 DEF IsInjective
  <2>3. i < j \/ j < i
    BY <1>3
  <2>. QED
    BY <1>1, <2>2, <2>3
<1>. QED
  BY <1>5, <1>6, <1>7 DEF Rows, IsInjective, ToSet

LEMMA AccessedRows ==
  ASSUME NEW keys \in Rows, NEW k \in Keys, NEW rest \in Accessed(keys, k)
  PROVE  rest \in Rows /\ ToSet(rest) \subseteq ToSet(keys) \cup {k}
<1>1. PICK left \in Without(keys, {k}) : rest = Append(left, k)
  BY DEF Accessed
<1>2. left \in Seq(Keys) /\ IsInjective(left) /\ ToSet(left) \subseteq ToSet(keys) \ {k}
  BY WithoutRows DEF Rows
<1>3. /\ rest \in Seq(Keys) /\ Len(rest) = Len(left) + 1 /\ Len(left) \in Nat
      /\ DOMAIN rest = 1..(Len(left) + 1) /\ DOMAIN left = 1..Len(left)
      /\ rest[Len(left) + 1] = k /\ \A i \in 1..Len(left) : rest[i] = left[i]
  BY <1>1, <1>2
<1>4. \A i \in DOMAIN rest : i \in DOMAIN left \/ i = Len(left) + 1
  BY <1>3
<1>5. \A i \in DOMAIN left : rest[i] = left[i] /\ left[i] \in ToSet(keys) /\ left[i] # k
  BY <1>2, <1>3 DEF ToSet
<1>6. IsInjective(rest)
  BY <1>2, <1>3, <1>4, <1>5 DEF IsInjective
<1>7. ToSet(rest) \subseteq ToSet(keys) \cup {k}
  BY <1>3, <1>4, <1>5 DEF ToSet
<1>. QED
  BY <1>3, <1>6, <1>7 DEF Rows

LEMMA PruneRows ==
  ASSUME NEW keys \in Rows, NEW rest \in Prune(keys)
  PROVE  rest \in Rows /\ ToSet(rest) \subseteq ToSet(keys)
<1>1. PICK n \in 0..Len(keys) : rest = SubSeq(keys, n + 1, Len(keys))
  BY DEF Prune
<1>2. keys \in Seq(Keys) /\ IsInjective(keys) /\ DOMAIN keys = 1..Len(keys) /\ Len(keys) \in Nat
  BY DEF Rows
<1>3. /\ rest \in Seq(Keys) /\ DOMAIN rest = 1..(Len(keys) - n)
      /\ \A i \in DOMAIN rest : rest[i] = keys[i + n] /\ i + n \in DOMAIN keys
  BY <1>1, <1>2
<1>4. IsInjective(rest)
  <2>. SUFFICES ASSUME NEW i \in DOMAIN rest, NEW j \in DOMAIN rest, rest[i] = rest[j]
                PROVE  i = j
    BY DEF IsInjective
  <2>1. i + n = j + n
    BY <1>2, <1>3 DEF IsInjective
  <2>. QED
    BY <1>2, <1>3, <2>1
<1>5. ToSet(rest) \subseteq ToSet(keys)
  BY <1>3 DEF ToSet
<1>. QED
  BY <1>3, <1>4, <1>5 DEF Rows

-----------------------------------------------------------------------------
(***************************************************************************)
(* What the page around does to the element, and the element to the page.  *)
(***************************************************************************)
\* An element on the page has a space, and so have its tasks.
OnPage ==
  /\ \A t \in fetches : t.left = None => view = "space"
  /\ toggle # NoToggle /\ toggle.left = None => view = "space"

Elements == Inv /\ TypeOK /\ OnPage

Fetches == [nr : 1..MaxActs, file : Files, use : {"view", "download"}, from : Spaces,
            left : Contexts, pc : {"missed", "sent", "kept", "got", "text"}]

Previews == [file : Files \cup {None}, nr : 0..MaxActs, loading : BOOLEAN,
             shows : Files \cup {None}]

Toggles == [pc : {"idle", "set", "clear"}, to : BOOLEAN, left : Contexts]

\* The element's own part of the types.
ElementTypes ==
  /\ large \subseteq Spaces /\ gone \subseteq Files /\ on \in BOOLEAN
  /\ viewed \in Rows
  /\ preview \in Previews
  /\ fetches \subseteq Fetches
  /\ toggle \in Toggles

LEMMA TypesOfElements == TypeOK <=> ShellTypeOK /\ ElementTypes
BY DEF TypeOK, ElementTypes, Rows, Keys, Previews, Fetches, Toggles

\* A step of the element's own leaves the page alone, but for the bounds it uses.
LEMMA PageAlone ==
  ASSUME Inv, UNCHANGED <<storage, shell, history>>,
         acts' = acts \/ Act, faults' = faults \/ \E f \in FileFaults : FileFault(f)
  PROVE  /\ Inv' /\ acts' \in 0..MaxActs
         /\ acts' = acts \/ (acts' = acts + 1 /\ acts' \in 1..MaxActs)
         /\ Kept => Kept'
<1> USE WebShellAssumption
<1>1. acts \in 0..MaxActs /\ faults \in 0..MaxFaults
  BY DEF Inv, ShellTypeOK
<1>2. acts' \in 0..MaxActs /\ (acts' = acts \/ (acts' = acts + 1 /\ acts' \in 1..MaxActs))
  BY <1>1 DEF Act
<1>3. faults' \in 0..MaxFaults
  BY <1>1 DEF FileFault
<1>4. Inv'
  BY <1>2, <1>3 DEF storage, shell, Inv, ShellTypeOK, Ordered, Queued
<1>. QED
  BY <1>2, <1>4 DEF storage, shell, Kept, TokensKept, Covers, JoinsBy, CacheWritten, LeavesItsOwn

\* The steps of the element's own are of that kind.
LEMMA PageAloneSteps ==
  ASSUME Inv, FileWork \/ FileUser
  PROVE  /\ UNCHANGED <<storage, shell, history>>
         /\ acts' = acts \/ Act
         /\ faults' = faults \/ \E f \in FileFaults : FileFault(f)
<1>1. ASSUME NEW t \in fetches,
             DownloadFile(t) \/ Downloaded(t) \/ PruneCachedFiles(t)
               \/ Delivered(t) \/ TextRead(t) \/ FetchFails(t)
      PROVE  /\ UNCHANGED <<storage, shell, history, acts>>
             /\ faults' = faults \/ \E f \in FileFaults : FileFault(f)
  BY <1>1 DEF DownloadFile, Downloaded, PruneCachedFiles, Delivered, TextRead, FetchFails,
              shellVars, FileFault
<1>2. ASSUME SettingWritten \/ ClearCachedFilesForSpace
      PROVE  /\ UNCHANGED <<storage, shell, history, acts>>
             /\ faults' = faults \/ \E f \in FileFaults : FileFault(f)
  BY <1>2 DEF SettingWritten, ClearCachedFilesForSpace, shellVars, FileFault
<1>3. ASSUME FileUser
      PROVE  UNCHANGED <<storage, shell, history, faults>> /\ Act
  BY <1>3 DEF FileUser, HandleDownload, HandleFilePreviewClick, DeleteFile, CloseFilePreview,
              ToggleJournalSync
<1>. QED
  BY <1>1, <1>2, <1>3 DEF FileWork

\* The space of a task's element.
LEMMA NowTypes ==
  ASSUME Elements, NEW task, task.left \in Contexts, task.left = None => view = "space"
  PROVE  Now(task) \in [space : Spaces, on : BOOLEAN]
<1>1. view = "space" => current \in Spaces
  BY DEF Elements, Inv, ShellTypeOK
<1>. QED
  BY <1>1 DEF Now, Contexts, Elements, TypeOK

\* A fetch goes on, begins or ends.
LEMMA StepTypes ==
  ASSUME Elements, NEW t \in fetches, NEW pc \in {"missed", "sent", "kept", "got", "text"},
         fetches' \in {fetches, fetches \ {t}, (fetches \ {t}) \cup {[t EXCEPT !.pc = pc]}},
         view' = view
  PROVE  fetches' \subseteq Fetches /\ \A u \in fetches' : u.left = None => view' = "space"
<1>1. t \in Fetches /\ fetches \subseteq Fetches
  BY TypesOfElements DEF Elements, ElementTypes
<1>2. [t EXCEPT !.pc = pc] \in Fetches /\ [t EXCEPT !.pc = pc].left = t.left
  BY <1>1 DEF Fetches
<1>. QED
  BY <1>1, <1>2 DEF Elements, OnPage

LEMMA FetchTypes ==
  ASSUME Elements, NEW f \in Files, NEW use \in {"view", "download"},
         Shown(f), Fetch(f, use), acts' \in 1..MaxActs, view' = view
  PROVE  /\ viewed' \in Rows /\ ToSet(viewed') \subseteq ToSet(viewed)
         /\ fetches' \subseteq Fetches
         /\ \A u \in fetches' : u.left = None => view' = "space"
<1>1. current \in Spaces /\ view = "space"
  BY DEF Shown, Loaded, Elements, Inv, ShellTypeOK
<1>2. viewed \in Rows /\ fetches \subseteq Fetches
  BY TypesOfElements DEF Elements, ElementTypes
<1>3. Key(current, f) \in Keys
  BY <1>1 DEF Key, Keys
<1>4. CASE Contains(viewed, Key(current, f)) /\ viewed' \in Accessed(viewed, Key(current, f))
  <2>1. Key(current, f) \in ToSet(viewed)
    BY <1>2, <1>4 DEF Contains, ToSet, Rows
  <2>2. viewed' \in Rows /\ ToSet(viewed') \subseteq ToSet(viewed)
    BY <1>2, <1>3, <1>4, <2>1, AccessedRows
  <2>. QED
    BY <1>1, <1>2, <2>2 DEF Fetch, Fetches, Contexts, Elements, OnPage
<1>5. CASE viewed' = viewed
  BY <1>1, <1>2, <1>5 DEF Fetch, Fetches, Contexts, Elements, OnPage
<1>. QED
  BY <1>4, <1>5 DEF Fetch

LEMMA NoPreviewTypes == NoPreview \in Previews /\ NoToggle \in Toggles
BY WebShellAssumption DEF NoPreview, NoToggle, Previews, Toggles, Contexts

LEMMA SettingReadTypes == ASSUME on \in BOOLEAN, SettingRead PROVE on' \in BOOLEAN
<1>1. CASE toggle.left = None
  <2>1. on' = (current \in large)
    BY <1>1, Zenon DEF SettingRead
  <2>. QED
    BY <2>1
<1>2. CASE toggle.left # None
  BY <1>2 DEF SettingRead
<1>. QED
  BY <1>1, <1>2

LEMMA FetchWorkElements ==
  ASSUME Elements, NEW t \in fetches,
         DownloadFile(t) \/ Downloaded(t) \/ PruneCachedFiles(t)
           \/ Delivered(t) \/ TextRead(t) \/ FetchFails(t),
         Inv'
  PROVE  Elements'
<1> USE WebShellAssumption, ViewedFilesAssumption
<1>1. /\ large \subseteq Spaces /\ gone \subseteq Files /\ on \in BOOLEAN
      /\ viewed \in Rows /\ preview \in Previews /\ fetches \subseteq Fetches /\ toggle \in Toggles
  BY TypesOfElements DEF Elements, ElementTypes
<1>2. t \in Fetches /\ t.file \in Files /\ t.left \in Contexts
  BY <1>1 DEF Fetches
<1>3. Now(t) \in [space : Spaces, on : BOOLEAN]
  BY <1>2, NowTypes DEF Elements, OnPage
<1>4. UNCHANGED <<large, gone, on, toggle, view>>
  BY DEF DownloadFile, Downloaded, PruneCachedFiles, Delivered, TextRead, FetchFails,
         kept_on_disk, shellVars, shell
<1>5. ASSUME viewed' \in Rows, preview' \in Previews, fetches' \subseteq Fetches,
             \A u \in fetches' : u.left = None => view' = "space"
      PROVE  Elements'
  <2>1. ElementTypes'
    BY <1>1, <1>4, <1>5 DEF ElementTypes
  <2>2. TypeOK'
    BY <2>1, TypesOfElements DEF Inv, TypeOK, ElementTypes, Rows, Keys, Previews, Fetches, Toggles
  <2>3. OnPage'
    BY <1>4, <1>5 DEF Elements, OnPage
  <2>. QED
    BY <2>2, <2>3 DEF Elements
<1>6. ASSUME NEW pc \in {"missed", "sent", "kept", "got", "text"}, Step(t, pc) \/ End(t)
      PROVE  fetches' \subseteq Fetches /\ \A u \in fetches' : u.left = None => view' = "space"
  BY <1>4, <1>6, StepTypes DEF Step, End
<1>7. CASE DownloadFile(t)
  <2>1. [t EXCEPT !.pc = "sent", !.from = Now(t).space] \in Fetches
    BY <1>2, <1>3 DEF Fetches
  <2>2. [t EXCEPT !.pc = "sent", !.from = Now(t).space].left = t.left
    BY <1>2 DEF Fetches
  <2>3. fetches' \subseteq Fetches /\ \A u \in fetches' : u.left = None => view' = "space"
    BY <1>1, <1>4, <1>7, <2>1, <2>2 DEF DownloadFile, Elements, OnPage
  <2>. QED
    BY <1>1, <1>5, <1>7, <2>3 DEF DownloadFile, kept_on_disk
<1>8. CASE Downloaded(t)
  <2>1. Key(Now(t).space, t.file) \in Keys
    BY <1>2, <1>3 DEF Key, Keys
  <2>2. viewed' \in Rows
    BY <1>1, <1>8, <2>1, AccessedRows DEF Downloaded
  <2>3. Step(t, "kept") \/ Step(t, "got")
    BY <1>8 DEF Downloaded
  <2>. QED
    BY <1>1, <1>5, <1>6, <1>8, <2>2, <2>3 DEF Downloaded
<1>9. CASE PruneCachedFiles(t)
  <2>1. viewed' \in Rows
    BY <1>1, <1>9, PruneRows DEF PruneCachedFiles
  <2>. QED
    BY <1>1, <1>5, <1>6, <1>9, <2>1 DEF PruneCachedFiles
<1>10. CASE Delivered(t)
  <2>1. preview' \in Previews /\ viewed' = viewed
    BY <1>1, <1>2, <1>10 DEF Delivered, Previews, kept_on_disk
  <2>2. Step(t, "text") \/ End(t)
    BY <1>10 DEF Delivered
  <2>. QED
    BY <1>1, <1>5, <1>6, <2>1, <2>2
<1>11. CASE TextRead(t)
  <2>1. preview' \in Previews /\ viewed' = viewed
    BY <1>1, <1>2, <1>11 DEF TextRead, Previews, kept_on_disk
  <2>. QED
    BY <1>1, <1>5, <1>6, <1>11, <2>1 DEF TextRead
<1>12. CASE FetchFails(t)
  <2>1. preview' \in Previews /\ viewed' = viewed
    BY <1>1, <1>12, NoPreviewTypes DEF FetchFails, Previews, kept_on_disk
  <2>. QED
    BY <1>1, <1>5, <1>6, <1>12, <2>1 DEF FetchFails
<1>. QED
  BY <1>7, <1>8, <1>9, <1>10, <1>11, <1>12

LEMMA UserElements ==
  ASSUME Elements, FileUser \/ SettingWritten \/ ClearCachedFilesForSpace, Inv',
         acts' = acts \/ acts' \in 1..MaxActs
  PROVE  Elements'
<1> USE WebShellAssumption, ViewedFilesAssumption
<1>1. /\ large \subseteq Spaces /\ gone \subseteq Files /\ on \in BOOLEAN
      /\ viewed \in Rows /\ preview \in Previews /\ fetches \subseteq Fetches /\ toggle \in Toggles
  BY TypesOfElements DEF Elements, ElementTypes
<1>2. view' = view
  BY DEF FileUser, HandleDownload, HandleFilePreviewClick, DeleteFile, CloseFilePreview,
         ToggleJournalSync, SettingWritten, ClearCachedFilesForSpace, shellVars, shell
<1>3. view = "space" => current \in Spaces
  BY DEF Elements, Inv, ShellTypeOK
<1>4. ASSUME ElementTypes', OnPage' PROVE Elements'
  BY <1>4, TypesOfElements
     DEF Elements, Inv, TypeOK, ElementTypes, Rows, Keys, Previews, Fetches, Toggles
<1>5. ASSUME Act PROVE acts' \in 1..MaxActs
  BY <1>5 DEF Act, Elements, Inv, ShellTypeOK
<1>6. ASSUME NEW f \in Files, HandleDownload(f) PROVE Elements'
  <2>1. /\ viewed' \in Rows /\ fetches' \subseteq Fetches
        /\ \A u \in fetches' : u.left = None => view' = "space"
    BY <1>2, <1>5, <1>6, FetchTypes DEF HandleDownload
  <2>2. ElementTypes'
    BY <1>1, <1>6, <2>1 DEF HandleDownload, ElementTypes
  <2>3. OnPage'
    BY <1>2, <1>6, <2>1 DEF HandleDownload, Elements, OnPage
  <2>. QED
    BY <1>4, <2>2, <2>3
<1>7. ASSUME NEW f \in Files, HandleFilePreviewClick(f) PROVE Elements'
  <2>1. acts' \in 1..MaxActs /\ Shown(f)
    BY <1>5, <1>7 DEF HandleFilePreviewClick
  <2>2. /\ viewed' \in Rows /\ fetches' \subseteq Fetches
        /\ \A u \in fetches' : u.left = None => view' = "space"
    <3>1. CASE Fetch(f, "view")
      BY <1>2, <2>1, <3>1, FetchTypes
    <3>2. CASE UNCHANGED <<viewed, fetches>>
      BY <1>1, <1>2, <3>2 DEF Elements, OnPage
    <3>. QED
      BY <1>7, <3>1, <3>2 DEF HandleFilePreviewClick
  <2>3. preview' \in Previews
    BY <1>7, <2>1 DEF HandleFilePreviewClick, Previews
  <2>4. ElementTypes'
    BY <1>1, <1>7, <2>2, <2>3 DEF HandleFilePreviewClick, ElementTypes
  <2>5. OnPage'
    BY <1>2, <1>7, <2>2 DEF HandleFilePreviewClick, Elements, OnPage
  <2>. QED
    BY <1>4, <2>4, <2>5
<1>8. ASSUME NEW f \in Files, DeleteFile(f) PROVE Elements'
  <2>1. viewed' \in Rows
    BY <1>1, <1>8, WithoutRows DEF DeleteFile
  <2>. QED
    BY <1>1, <1>2, <1>4, <1>8, <2>1 DEF DeleteFile, element, ElementTypes, Elements, OnPage
<1>9. CASE CloseFilePreview
  BY <1>1, <1>2, <1>4, <1>9, NoPreviewTypes
     DEF CloseFilePreview, kept_on_disk, ElementTypes, Elements, OnPage
<1>10. CASE ToggleJournalSync
  <2>1. current \in Spaces /\ view = "space"
    BY <1>3, <1>10 DEF ToggleJournalSync, Loaded
  <2>2. toggle' \in Toggles /\ large' \subseteq Spaces
    BY <1>1, <1>10, <2>1 DEF ToggleJournalSync, Toggles, Contexts
  <2>. QED
    BY <1>1, <1>2, <1>4, <1>10, <2>1, <2>2 DEF ToggleJournalSync, ElementTypes, Elements, OnPage
<1>11. CASE SettingWritten
  <2>1. toggle' \in Toggles /\ (toggle' = NoToggle \/ (toggle # NoToggle /\ (toggle'.left = None => toggle.left = None)))
    <3>1. CASE toggle.to
      BY <1>11, <3>1, NoPreviewTypes DEF SettingWritten
    <3>2. CASE ~toggle.to
      <4>1. toggle # NoToggle
        BY <1>11 DEF SettingWritten, NoToggle
      <4>2. CASE toggle.left = None
        BY <1>1, <1>11, <3>2, <4>1, <4>2 DEF SettingWritten, Toggles, Contexts
      <4>3. CASE toggle.left # None
        <5>1. [toggle.left EXCEPT !.on = FALSE] \in [space : Spaces, on : BOOLEAN]
          BY <1>1, <4>3 DEF Toggles, Contexts
        <5>2. toggle' = [toggle EXCEPT !.pc = "clear", !.left = [toggle.left EXCEPT !.on = FALSE]]
          BY <1>11, <3>2, <4>3 DEF SettingWritten
        <5>. QED
          BY <1>1, <4>1, <4>3, <5>1, <5>2 DEF Toggles, Contexts
      <4>. QED
        BY <4>2, <4>3
    <3>. QED
      BY <3>1, <3>2
  <2>2. on' \in BOOLEAN
    <3>1. CASE toggle.to
      BY <1>1, <1>11, <3>1, SettingReadTypes DEF SettingWritten
    <3>2. CASE ~toggle.to
      <4>1. on' = (on /\ toggle.left # None)
        BY <1>11, <3>2 DEF SettingWritten
      <4>. QED
        BY <4>1, Zenon
    <3>. QED
      BY <3>1, <3>2
  <2>3. UNCHANGED <<large, viewed, gone, preview, fetches>>
    BY <1>11 DEF SettingWritten, kept_on_disk
  <2>. QED
    BY <1>1, <1>2, <1>4, <2>1, <2>2, <2>3 DEF ElementTypes, Elements, OnPage
<1>12. CASE ClearCachedFilesForSpace
  <2>1. viewed' \in Rows
    BY <1>1, <1>12, WithoutRows DEF ClearCachedFilesForSpace
  <2>2. on' \in BOOLEAN /\ toggle' = NoToggle
    BY <1>1, <1>12, SettingReadTypes DEF ClearCachedFilesForSpace
  <2>3. UNCHANGED <<large, gone, preview, fetches>>
    BY <1>12 DEF ClearCachedFilesForSpace
  <2>. QED
    BY <1>1, <1>2, <1>4, <2>1, <2>2, <2>3, NoPreviewTypes DEF ElementTypes, Elements, OnPage
<1>. QED
  BY <1>6, <1>7, <1>8, <1>9, <1>10, <1>11, <1>12 DEF FileUser

\* An element leaves the page, and its tasks know where it was.
LEMMA LeavingTypes ==
  ASSUME Elements, NEW task, task.left \in Contexts, task.left = None => view = "space"
  PROVE  /\ Leaving(task) = IF task.left = None
                              THEN [task EXCEPT !.left = [space |-> current, on |-> on]]
                              ELSE task
         /\ [space |-> current, on |-> on] # None \/ task.left # None
         /\ task.left = None => [space |-> current, on |-> on] \in Contexts
<1>1. Now(task) \in [space : Spaces, on : BOOLEAN]
  BY NowTypes
<1>2. task.left = None => Now(task) = [space |-> current, on |-> on]
  BY DEF Now
<1>. QED
  BY <1>1, <1>2, ViewedFilesAssumption DEF Leaving, Contexts

LEMMA LeftFetch ==
  ASSUME Elements, NEW t \in fetches
  PROVE  /\ Leaving(t) \in Fetches /\ Leaving(t).left # None
         /\ Leaving(t).nr = t.nr /\ Leaving(t).file = t.file
         /\ Leaving(t).use = t.use /\ Leaving(t).pc = t.pc
         /\ t.left # None => Leaving(t).left = t.left
         /\ t.left = None => Leaving(t).left = [space |-> current, on |-> on]
<1>1. t \in Fetches /\ t.left \in Contexts /\ (t.left = None => view = "space")
  BY TypesOfElements DEF Elements, ElementTypes, Fetches, OnPage
<1>2. CASE t.left = None
  <2>1. /\ Leaving(t) = [t EXCEPT !.left = [space |-> current, on |-> on]]
        /\ [space |-> current, on |-> on] # None
        /\ [space |-> current, on |-> on] \in Contexts
    BY <1>1, <1>2, LeavingTypes
  <2>. QED
    BY <1>1, <1>2, <2>1 DEF Fetches
<1>3. CASE t.left # None
  BY <1>1, <1>3 DEF Leaving
<1>. QED
  BY <1>2, <1>3

LEMMA FollowElements ==
  ASSUME Elements, Follow, Inv'
  PROVE  Elements'
<1> USE WebShellAssumption, ViewedFilesAssumption
<1> DEFINE leaves == view = "space" /\ view' # "space"
<1>1. /\ large \subseteq Spaces /\ gone \subseteq Files /\ on \in BOOLEAN
      /\ viewed \in Rows /\ preview \in Previews /\ fetches \subseteq Fetches /\ toggle \in Toggles
  BY TypesOfElements DEF Elements, ElementTypes
<1>2. /\ fetches' = IF leaves THEN {Leaving(t) : t \in fetches} ELSE fetches
      /\ toggle' = IF leaves /\ toggle # NoToggle THEN Leaving(toggle) ELSE toggle
      /\ preview' = IF leaves THEN NoPreview ELSE preview
      /\ UNCHANGED <<large, viewed, gone>>
  BY DEF Follow, kept_on_disk
<1>3. fetches' \subseteq Fetches /\ \A t \in fetches' : t.left = None => view' = "space"
  <2>1. CASE leaves
    BY <1>2, <2>1, LeftFetch
  <2>2. CASE ~leaves
    BY <1>1, <1>2, <2>2 DEF Elements, OnPage
  <2>. QED
    BY <2>1, <2>2
<1>4. toggle' \in Toggles /\ (toggle' # NoToggle /\ toggle'.left = None => view' = "space")
  <2>1. CASE leaves /\ toggle # NoToggle
    <3>1. toggle.left \in Contexts /\ (toggle.left = None => view = "space")
      BY <1>1, <2>1 DEF Toggles
    <3>2. CASE toggle.left = None
      <4>1. /\ toggle' = [toggle EXCEPT !.left = [space |-> current, on |-> on]]
            /\ [space |-> current, on |-> on] # None
            /\ [space |-> current, on |-> on] \in Contexts
        BY <1>2, <2>1, <3>1, <3>2, LeavingTypes
      <4>. QED
        BY <1>1, <4>1 DEF Toggles
    <3>3. CASE toggle.left # None
      BY <1>1, <1>2, <2>1, <3>3 DEF Leaving
    <3>. QED
      BY <3>2, <3>3
  <2>2. CASE ~leaves
    BY <1>1, <1>2, <2>2 DEF Elements, OnPage
  <2>3. CASE toggle = NoToggle
    BY <1>1, <1>2, <2>3
  <2>. QED
    BY <2>1, <2>2, <2>3
<1>5. on' \in BOOLEAN
  <2>1. CASE leaves
    BY <2>1 DEF Follow
  <2>2. CASE ~leaves /\ token' # token /\ token' # None
    <3>1. on' = (token' \in large)
      BY <2>2, Zenon DEF Follow
    <3>. QED
      BY <3>1
  <2>3. CASE ~leaves /\ ~(token' # token /\ token' # None)
    BY <1>1, <2>3 DEF Follow
  <2>. QED
    BY <2>1, <2>2, <2>3
<1>6. preview' \in Previews
  BY <1>1, <1>2, NoPreviewTypes
<1>7. ElementTypes' /\ OnPage'
  BY <1>1, <1>2, <1>3, <1>4, <1>5, <1>6 DEF ElementTypes, OnPage
<1>. QED
  BY <1>7, TypesOfElements
     DEF Elements, Inv, TypeOK, ElementTypes, Rows, Keys, Previews, Fetches, Toggles

LEMMA ClosedElements ==
  ASSUME Elements, Closed, Inv'
  PROVE  Elements'
<1>1. ElementTypes
  BY TypesOfElements DEF Elements
<1>2. ElementTypes' /\ OnPage'
  BY <1>1, NoPreviewTypes DEF Closed, kept_on_disk, ElementTypes, OnPage
<1>. QED
  BY <1>2, TypesOfElements
     DEF Elements, Inv, TypeOK, ElementTypes, Rows, Keys, Previews, Fetches, Toggles

LEMMA ElementsInit == Init => Elements
<1> SUFFICES ASSUME Init PROVE Elements
  OBVIOUS
<1>1. Inv
  BY InvInit DEF Init
<1>2. viewed \in Rows
  <2>1. CASE viewed = <<>>
    BY <2>1 DEF Rows, IsInjective
  <2>2. CASE viewed # <<>>
    <3>1. PICK f \in Files : viewed = <<Key(Home[f], f)>>
      BY <2>2 DEF Init
    <3>2. Key(Home[f], f) \in Keys
      BY ViewedFilesAssumption DEF Key, Keys
    <3>. QED
      BY <3>1, <3>2 DEF Rows, IsInjective
  <2>. QED
    BY <2>1, <2>2
<1>3. ElementTypes /\ OnPage
  BY <1>2, NoPreviewTypes DEF Init, ElementTypes, OnPage
<1>. QED
  BY <1>1, <1>3, TypesOfElements DEF Elements, Inv

\* A step of the composition is one of the page's, or leaves the page alone.
LEMMA PageSteps ==
  ASSUME Inv, [Next]_vars
  PROVE  /\ Inv' /\ (acts' = acts \/ (acts' = acts + 1 /\ acts' \in 1..MaxActs))
         /\ Kept /\ Reliable => Kept'
<1>1. CASE FileWork \/ FileUser
  BY <1>1, PageAlone, PageAloneSteps
<1>2. CASE ShellWork \/ ShellUser \/ Opens
  <2>1. acts' = acts \/ Act
    BY <1>2 DEF ShellWork, ShellUser, Opens, LoadSpacesFromStorage, ResolveToken, PersistTokens,
                Exchanged, Joined, Stopped, Removed, Navigate, ShowView, HandleJoin,
                RemoveSpace, OpenPage
  <2>2. acts' = acts \/ (acts' = acts + 1 /\ acts' \in 1..MaxActs)
    BY <2>1, WebShellAssumption DEF Act, Inv, ShellTypeOK
  <2>. QED
    BY <1>2, <2>2, InvStep, KeptStep
<1>3. CASE UNCHANGED vars
  <2>1. UNCHANGED shellVars /\ acts' = acts
    BY <1>3 DEF vars, shellVars
  <2>. QED
    BY <2>1, InvStep, KeptStep
<1>. QED
  BY <1>1, <1>2, <1>3 DEF Next

LEMMA ElementsStep == Elements /\ [Next]_vars => Elements'
<1> SUFFICES ASSUME Elements, [Next]_vars PROVE Elements'
  OBVIOUS
<1>1. Inv' /\ (acts' = acts \/ acts' \in 1..MaxActs)
  BY PageSteps DEF Elements
<1>2. CASE FileWork \/ FileUser
  BY <1>1, <1>2, FetchWorkElements, UserElements DEF FileWork
<1>3. CASE Follow
  BY <1>1, <1>3, FollowElements
<1>4. CASE Closed
  BY <1>1, <1>4, ClosedElements
<1>5. CASE UNCHANGED vars
  BY <1>1, <1>5, TypesOfElements
     DEF vars, fileVars, element, kept_on_disk, shellVars, shell, Elements, Inv, TypeOK, OnPage
<1>. QED
  BY <1>2, <1>3, <1>4, <1>5 DEF Next

\* The element, its files on the device and those on their way keep their types, and a
\* file is kept once, however the element is given other spaces or leaves the page.
THEOREM FilesTypeCorrect == Spec => []TypeOK
<1>1. Spec => []Elements
  BY ElementsInit, ElementsStep, PTL DEF Spec
<1>2. Elements => TypeOK
  BY DEF Elements
<1>. QED
  BY <1>1, <1>2, PTL

\* Files and large space mode around it take no token away: the composed system keeps
\* every space whose joining has been stored and that has not been left, where it keeps
\* TokensSafe.
THEOREM TokensSafeWithFiles == ASSUME Reliable PROVE Spec => []TokensKept
<1>1. Inv /\ Kept /\ [Next]_vars => (Inv /\ Kept)'
  BY PageSteps
<1>2. Init => Inv /\ Kept
  BY InvInit, KeptInit DEF Init
<1>3. Spec => [](Inv /\ Kept)
  BY <1>1, <1>2, PTL DEF Spec
<1>4. Kept => TokensKept
  BY DEF Kept
<1>. QED
  BY <1>3, <1>4, PTL

-----------------------------------------------------------------------------
(***************************************************************************)
(* A preview shows its own file, where no file is opened while a text is   *)
(* being read.  A fetch with the preview's number is of its file, and a    *)
(* text that is being read is of the preview, if there still is one.       *)
(***************************************************************************)
TextsAlone == "text" \notin Overlaps

Opened == preview.file # None

FetchOfPreview(t) ==
  /\ t.nr <= acts
  /\ t.use = "view" /\ t.nr = preview.nr => t.file = preview.file
  /\ t.pc = "text" => t.use = "view" /\ (Opened => t.nr = preview.nr)

OwnFile ==
  /\ preview.nr <= acts /\ (~Opened => preview.nr = 0)
  /\ \A t \in fetches : FetchOfPreview(t)
  /\ PreviewOfItem

LEMMA OwnFileFetches ==
  ASSUME Elements, OwnFile, acts' = acts, NEW t \in fetches,
         DownloadFile(t) \/ Downloaded(t) \/ PruneCachedFiles(t)
           \/ Delivered(t) \/ TextRead(t) \/ FetchFails(t)
  PROVE  OwnFile'
<1>1. /\ preview \in Previews /\ fetches \subseteq Fetches /\ t \in Fetches
      /\ acts \in 0..MaxActs /\ MaxActs \in Nat
  BY TypesOfElements, WebShellAssumption DEF Elements, ElementTypes, Inv, ShellTypeOK
<1>2. t.nr \in 1..MaxActs /\ t.nr # 0 /\ t.file \in Files /\ preview.nr \in 0..MaxActs
  BY <1>1 DEF Fetches, Previews
<1>3. FetchOfPreview(t)
  BY DEF OwnFile
\* The fetch goes on, and the preview stays.
<1>4. ASSUME NEW u \in Fetches, fetches' = (fetches \ {t}) \cup {u},
             u.nr = t.nr, u.use = t.use, u.file = t.file,
             u.pc = "text" => u.use = "view" /\ t.nr = preview.nr,
             preview' = preview
      PROVE  OwnFile'
  BY <1>3, <1>4 DEF OwnFile, FetchOfPreview, Opened, PreviewOfItem
<1>5. ASSUME NEW pc \in {"kept", "got", "text"}, Step(t, pc), preview' = preview,
             pc = "text" => t.use = "view" /\ t.nr = preview.nr
      PROVE  OwnFile'
  <2>1. /\ [t EXCEPT !.pc = pc] \in Fetches /\ [t EXCEPT !.pc = pc].nr = t.nr
        /\ [t EXCEPT !.pc = pc].use = t.use /\ [t EXCEPT !.pc = pc].file = t.file
        /\ [t EXCEPT !.pc = pc].pc = pc
    BY <1>1, <1>5 DEF Fetches
  <2>. QED
    BY <1>4, <1>5, <2>1 DEF Step
\* The fetch is over, and the preview stays that of its file, or is closed.
<1>6. ASSUME End(t),
             \/ preview' = NoPreview
             \/ /\ preview'.file = preview.file /\ preview'.nr = preview.nr
                /\ preview'.shows \in {preview.shows, t.file}
                /\ preview'.shows = t.file /\ Opened => t.file = preview.file
      PROVE  OwnFile'
  <2>1. CASE preview' = NoPreview
    <3>1. preview'.file = None /\ preview'.nr = 0
      BY <2>1 DEF NoPreview
    <3>2. \A u \in fetches' : u \in fetches /\ u \in Fetches /\ u.nr # 0
      BY <1>1, <1>6 DEF End, Fetches
    <3>. QED
      BY <1>1, <3>1, <3>2 DEF OwnFile, FetchOfPreview, Opened, PreviewOfItem
  <2>2. CASE preview' # NoPreview
    BY <1>6, <2>2 DEF End, OwnFile, FetchOfPreview, Opened, PreviewOfItem
  <2>. QED
    BY <2>1, <2>2
<1>7. CASE DownloadFile(t)
  <2>1. /\ [t EXCEPT !.pc = "sent", !.from = Now(t).space].nr = t.nr
        /\ [t EXCEPT !.pc = "sent", !.from = Now(t).space].use = t.use
        /\ [t EXCEPT !.pc = "sent", !.from = Now(t).space].file = t.file
        /\ [t EXCEPT !.pc = "sent", !.from = Now(t).space].pc = "sent"
    BY <1>1 DEF Fetches
  <2>2. [t EXCEPT !.pc = "sent", !.from = Now(t).space] \in Fetches
    <3>1. Now(t).space \in Spaces
      BY <1>1, NowTypes DEF Elements, OnPage, Fetches
    <3>. QED
      BY <1>1, <3>1 DEF Fetches
  <2>. QED
    BY <1>4, <1>7, <2>1, <2>2 DEF DownloadFile
<1>8. CASE Downloaded(t) \/ PruneCachedFiles(t)
  BY <1>5, <1>8 DEF Downloaded, PruneCachedFiles
<1>9. CASE Delivered(t)
  <2>1. CASE t.use = "view" /\ CurrentRequest(t)
    <3>1. t.nr = preview.nr /\ t.file = preview.file /\ Opened
      BY <1>2, <1>3, <2>1 DEF CurrentRequest, FetchOfPreview, OwnFile
    <3>2. CASE t.file \in TextFiles
      BY <1>5, <1>9, <2>1, <3>1, <3>2 DEF Delivered
    <3>3. CASE t.file \notin TextFiles
      <4>1. preview' = [preview EXCEPT !.shows = t.file, !.loading = FALSE] /\ End(t)
        BY <1>9, <2>1, <3>3 DEF Delivered
      <4>. QED
        BY <1>1, <1>6, <3>1, <4>1 DEF Previews
    <3>. QED
      BY <3>2, <3>3
  <2>2. CASE ~(t.use = "view" /\ CurrentRequest(t))
    <3>1. End(t) /\ preview' = preview
      BY <1>9, <2>2 DEF Delivered
    <3>2. preview'.shows = t.file /\ Opened => t.file = preview.file
      BY <1>2, <3>1, ViewedFilesAssumption DEF OwnFile, PreviewOfItem, Opened
    <3>. QED
      BY <1>6, <3>1, <3>2
  <2>. QED
    BY <2>1, <2>2
<1>10. CASE TextRead(t)
  <2>1. /\ preview'.file = preview.file /\ preview'.nr = preview.nr
        /\ preview'.shows = t.file /\ End(t)
    BY <1>1, <1>10 DEF TextRead, Previews
  <2>2. Opened => t.file = preview.file
    BY <1>3, <1>10 DEF TextRead, FetchOfPreview
  <2>. QED
    BY <1>6, <2>1, <2>2
<1>11. CASE FetchFails(t)
  <2>1. \/ preview' = NoPreview
        \/ /\ preview'.file = preview.file /\ preview'.nr = preview.nr
           /\ preview'.shows = preview.shows
    BY <1>1, <1>11 DEF FetchFails, Previews
  <2>2. preview.shows = t.file /\ Opened => t.file = preview.file
    BY <1>2, ViewedFilesAssumption DEF OwnFile, PreviewOfItem, Opened
  <2>. QED
    BY <1>6, <1>11, <2>1, <2>2 DEF FetchFails
<1>. QED
  BY <1>7, <1>8, <1>9, <1>10, <1>11

LEMMA OwnFileStep ==
  ASSUME TextsAlone, Elements, OwnFile, [Next]_vars
  PROVE  OwnFile'
<1>1. /\ preview \in Previews /\ fetches \subseteq Fetches
      /\ acts \in 0..MaxActs /\ MaxActs \in Nat /\ preview.nr \in 0..MaxActs
      /\ acts' = acts \/ (acts' = acts + 1 /\ acts' \in 1..MaxActs)
  BY TypesOfElements, PageSteps, WebShellAssumption
     DEF Elements, ElementTypes, Inv, ShellTypeOK, Previews
<1>2. \A t \in fetches : t.nr \in 1..MaxActs /\ t.nr # 0 /\ FetchOfPreview(t)
  BY <1>1 DEF Fetches, OwnFile
\* Fetches that are under way already, and the preview stays or is closed.
<1>3. ASSUME \A u \in fetches' : \E t \in fetches :
               u.nr = t.nr /\ u.file = t.file /\ u.use = t.use /\ u.pc = t.pc,
             preview' = preview \/ preview' = NoPreview
      PROVE  OwnFile'
  <2>1. ASSUME NEW u \in fetches' PROVE FetchOfPreview(u)'
    <3>1. PICK t \in fetches : u.nr = t.nr /\ u.file = t.file /\ u.use = t.use /\ u.pc = t.pc
      BY <1>3
    <3>2. t.nr \in 1..MaxActs /\ FetchOfPreview(t)
      BY <1>2
    <3>3. CASE preview' = preview
      BY <1>1, <3>1, <3>2, <3>3 DEF FetchOfPreview, Opened
    <3>4. CASE preview' = NoPreview
      BY <1>1, <3>1, <3>2, <3>4 DEF FetchOfPreview, Opened, NoPreview
    <3>. QED
      BY <1>3, <3>3, <3>4
  <2>2. preview'.nr <= acts' /\ (~Opened' => preview'.nr = 0) /\ PreviewOfItem'
    <3>1. CASE preview' = preview
      BY <1>1, <3>1 DEF OwnFile, Opened, PreviewOfItem
    <3>2. CASE preview' = NoPreview
      BY <1>1, <3>2 DEF OwnFile, Opened, PreviewOfItem, NoPreview
    <3>. QED
      BY <1>3, <3>1, <3>2
  <2>. QED
    BY <2>1, <2>2 DEF OwnFile
<1>4. ASSUME NEW t \in fetches,
             DownloadFile(t) \/ Downloaded(t) \/ PruneCachedFiles(t)
               \/ Delivered(t) \/ TextRead(t) \/ FetchFails(t)
      PROVE  OwnFile'
  <2>1. acts' = acts
    BY <1>4 DEF DownloadFile, Downloaded, PruneCachedFiles, Delivered, TextRead, FetchFails,
                shellVars
  <2>. QED
    BY <1>4, <2>1, OwnFileFetches
<1>5. CASE SettingWritten \/ ClearCachedFilesForSpace \/ CloseFilePreview \/ ToggleJournalSync
             \/ \E f \in Files : DeleteFile(f)
  BY <1>3, <1>5 DEF SettingWritten, ClearCachedFilesForSpace, CloseFilePreview,
                    ToggleJournalSync, DeleteFile, element
\* A new fetch has a new number.
<1>6. ASSUME NEW f \in Files, NEW use \in {"view", "download"}, Fetch(f, use), acts' = acts + 1
      PROVE  \A u \in fetches' :
               \/ u \in fetches
               \/ u.nr = acts' /\ u.file = f /\ u.use = use /\ u.pc # "text"
  BY <1>6 DEF Fetch
<1>7. ASSUME NEW f \in Files, HandleDownload(f) PROVE OwnFile'
  <2>1. acts' = acts + 1 /\ preview' = preview /\ Fetch(f, "download")
    BY <1>7 DEF HandleDownload, Act
  <2>2. ASSUME NEW u \in fetches' PROVE FetchOfPreview(u)'
    <3>1. CASE u \in fetches
      <4>1. u.nr \in 1..MaxActs /\ FetchOfPreview(u)
        BY <1>2, <3>1
      <4>. QED
        BY <1>1, <2>1, <4>1 DEF FetchOfPreview, Opened
    <3>2. CASE u \notin fetches
      <4>1. u.nr = acts' /\ u.use = "download" /\ u.pc # "text"
        BY <1>6, <2>1, <3>2
      <4>. QED
        BY <1>1, <2>1, <4>1 DEF FetchOfPreview
    <3>. QED
      BY <3>1, <3>2
  <2>. QED
    BY <1>1, <2>1, <2>2 DEF OwnFile, Opened, PreviewOfItem
<1>8. ASSUME NEW f \in Files, HandleFilePreviewClick(f) PROVE OwnFile'
  <2>1. /\ acts' = acts + 1 /\ \A t \in fetches : t.pc # "text"
        /\ preview'.file = f /\ preview'.nr = acts' /\ preview'.shows = None
        /\ Fetch(f, "view") \/ fetches' = fetches
    BY <1>8 DEF HandleFilePreviewClick, Act, TextsAlone
  <2>2. ASSUME NEW u \in fetches' PROVE FetchOfPreview(u)'
    <3>1. CASE u \in fetches
      <4>1. u.nr \in 1..MaxActs /\ u.nr <= acts /\ u.pc # "text"
        BY <1>2, <2>1, <3>1 DEF FetchOfPreview
      <4>. QED
        BY <1>1, <2>1, <4>1 DEF FetchOfPreview
    <3>2. CASE u \notin fetches
      <4>1. u.nr = acts' /\ u.file = f /\ u.pc # "text"
        BY <1>6, <2>1, <3>2
      <4>. QED
        BY <1>1, <2>1, <4>1 DEF FetchOfPreview
    <3>. QED
      BY <3>1, <3>2
  <2>3. Opened' /\ preview'.nr <= acts' /\ PreviewOfItem'
    BY <1>1, <2>1, ViewedFilesAssumption DEF Opened, PreviewOfItem
  <2>. QED
    BY <2>2, <2>3 DEF OwnFile
<1>9. CASE Follow
  <2>1. preview' = preview \/ preview' = NoPreview
    BY <1>9 DEF Follow
  <2>2. CASE fetches' = fetches
    BY <1>3, <2>1, <2>2
  <2>3. CASE fetches' = {Leaving(t) : t \in fetches}
    BY <1>3, <2>1, <2>3, LeftFetch
  <2>. QED
    BY <1>9, <2>2, <2>3 DEF Follow
<1>10. CASE Closed
  BY <1>3, <1>10 DEF Closed
<1>11. CASE UNCHANGED vars
  BY <1>3, <1>11 DEF vars, fileVars, element
<1>. QED
  BY <1>4, <1>5, <1>7, <1>8, <1>9, <1>10, <1>11 DEF Next, FileWork, FileUser

\* The preview never shows another file than the one it was opened for, however many
\* have been opened before and are still on their way, slow or failing, and whether the
\* page has gone to another space or view meanwhile.
THEOREM PreviewsShowTheirFile == ASSUME TextsAlone PROVE Spec => []PreviewOfItem
<1>1. Elements /\ OwnFile /\ [Next]_vars => OwnFile'
  BY OwnFileStep
<1>2. Init => OwnFile
  BY WebShellAssumption DEF Init, ShellInit, OwnFile, Opened, NoPreview, PreviewOfItem
<1>3. Spec => [](Elements /\ OwnFile)
  BY <1>1, <1>2, ElementsInit, ElementsStep, PTL DEF Spec
<1>4. OwnFile => PreviewOfItem
  BY DEF OwnFile
<1>. QED
  BY <1>3, <1>4, PTL

-----------------------------------------------------------------------------
(***************************************************************************)
(* Files are kept in large space mode only, where a space is not left      *)
(* while its mode changes, no file comes for an element between the two    *)
(* spaces, and the clearing succeeds.  An element that shows its space     *)
(* knows its mode, or is changing it; one that has left knows what it was. *)
(***************************************************************************)
ModesAlone == {"toggle", "turn"} \cap Overlaps = {} /\ "clear" \notin FileFaults

\* A task of the page's is on the page only while its view is.
TasksHere == (join.here => view = "join") /\ (leave.here => view = "space")

Pending(t) == t.pc \in {"missed", "sent"}

\* Large space mode is being turned off, or on.
Clearing == toggle # NoToggle /\ ~toggle.to

Toggling ==
  /\ view # "space" => ~on /\ toggle = NoToggle
  /\ toggle # NoToggle =>
       /\ Loaded /\ toggle.left = None /\ toggle.pc \in {"set", "clear"}
       /\ \A t \in fetches : t.left = None
       /\ toggle.to => toggle.pc = "set" /\ current \in large
       /\ ~toggle.to => current \notin large
       /\ toggle.pc = "clear" => ~on

KnowsItsMode ==
  /\ Loaded => (on => current \in large \/ Clearing)
  /\ \A t \in fetches : Pending(t) /\ t.left # None => (t.left.on => t.left.space \in large)

KeptOrCleared == \A k \in ToSet(viewed) : k[1] \in large \/ (Clearing /\ k[1] = current)

ModeInv == TasksHere /\ Toggling /\ KnowsItsMode /\ KeptOrCleared

\* How the page moves around its element: a token is resolved where it is missing, and
\* only there, and a space shown anew has none yet.
LEMMA PageMoves ==
  ASSUME Inv, TasksHere, ShellWork \/ ShellUser
  PROVE  /\ TasksHere'
         /\ token' # token /\ token' # None =>
              /\ token = None /\ token' = current /\ current' = current
              /\ view = "space" /\ view' = "space"
         /\ view # "space" /\ view' = "space" => token' = None
         /\ view = "space" /\ view' = "space" /\ token # None /\ current' = current
              => token' = token
         /\ view = "space" /\ view' = "space" /\ current' # current => token' = None
<1> USE WebShellAssumption
<1>1. /\ join \in Tasks /\ leave \in Tasks /\ Idle.here = FALSE /\ Idle \in Tasks
      /\ token \in Spaces \cup {None} /\ current \in Spaces \cup {None}
  BY DEF Inv, ShellTypeOK, Idle, Tasks
<1>2. ASSUME NEW s, SelectSpace(s),
             \/ leave' = leave
             \/ leave.here /\ leave' = [leave EXCEPT !.space = s]
      PROVE  /\ TasksHere' /\ view' = "space" /\ current' = s
             /\ token' = IF view = "space" /\ s = current THEN token ELSE None
  <2>1. join'.here = (join.here /\ (view # "join" \/ "space" = "join"))
    BY <1>1, <1>2 DEF SelectSpace, Left, Tasks
  <2>2. leave'.here = leave.here
    BY <1>1, <1>2 DEF Tasks
  <2>. QED
    BY <1>2, <2>1, <2>2 DEF SelectSpace, TasksHere
<1>3. ASSUME NEW v \in {"join", "admin"}, Show(v) PROVE TasksHere' /\ view' = v
  <2>1. /\ join'.here = (join.here /\ (view # "join" \/ v = "join"))
        /\ leave'.here = (leave.here /\ (view # "space" \/ v = "space"))
    BY <1>1, <1>3 DEF Show, Left, Tasks
  <2>. QED
    BY <1>3, <2>1 DEF Show, TasksHere
<1>4. ASSUME UNCHANGED <<view, current, token>>,
             join'.here => join.here \/ view = "join",
             leave'.here => leave.here \/ view = "space"
      PROVE  /\ TasksHere' /\ token' = token /\ view' = view /\ current' = current
  BY <1>4 DEF TasksHere
<1>5. CASE LoadSpacesFromStorage
  <2>1. CASE \E s : SelectSpace(s)
    BY <1>2, <2>1 DEF SelectSpace
  <2>2. CASE UNCHANGED <<view, current, token, join, leave>>
    BY <1>4, <2>2
  <2>. QED
    BY <1>5, <2>1, <2>2 DEF LoadSpacesFromStorage
<1>6. CASE ResolveToken
  BY <1>3, <1>6 DEF ResolveToken, TasksHere
<1>7. CASE PersistTokens
  <2>1. join'.here = join.here /\ leave'.here = leave.here
    BY <1>1, <1>7 DEF PersistTokens, Written, Tasks
  <2>. QED
    BY <1>4, <1>7, <2>1 DEF PersistTokens
<1>8. CASE Exchanged
  <2>1. join' = Idle \/ join' = [join EXCEPT !.pc = "storing"]
    BY <1>8 DEF Exchanged
  <2>2. join'.here => join.here
    BY <1>1, <2>1 DEF Tasks
  <2>. QED
    BY <1>4, <1>8, <2>2 DEF Exchanged
<1>9. CASE Joined
  BY <1>1, <1>4, <1>9 DEF Joined, TasksHere
<1>10. CASE Stopped
  <2>1. leave'.here = leave.here
    BY <1>1, <1>10 DEF Stopped, Tasks
  <2>. QED
    BY <1>4, <1>10, <2>1 DEF Stopped
<1>11. CASE Removed
  BY <1>1, <1>11 DEF Removed, TasksHere
<1>12. ASSUME NEW s \in Spaces, Navigate(s)
       PROVE  /\ TasksHere' /\ view' = "space" /\ current' = s
              /\ token' = IF view = "space" /\ s = current THEN token ELSE None
  BY <1>2, <1>12 DEF Navigate, SelectSpace
<1>13. ASSUME NEW v \in {"join", "admin"}, ShowView(v)
       PROVE  TasksHere' /\ view' = v /\ token' = token
  BY <1>3, <1>13 DEF ShowView
<1>14. ASSUME NEW s \in Spaces, HandleJoin(s)
       PROVE  /\ TasksHere' /\ token' = token /\ view' = view /\ current' = current
  BY <1>4, <1>14 DEF HandleJoin
<1>15. ASSUME RemoveSpace
       PROVE  /\ TasksHere' /\ token' = token /\ view' = view /\ current' = current
  BY <1>4, <1>15 DEF RemoveSpace
<1>16. CASE ShellWork
  BY <1>5, <1>6, <1>7, <1>8, <1>9, <1>10, <1>11, <1>16 DEF ShellWork
<1>17. CASE ShellUser
  <2>1. CASE \E s \in Spaces : Navigate(s)
    BY <1>12, <2>1
  <2>2. CASE \E v \in {"join", "admin"} : ShowView(v)
    BY <1>13, <2>2
  <2>. QED
    BY <1>14, <1>15, <1>17, <2>1, <2>2 DEF ShellUser
<1>. QED
  BY <1>16, <1>17

\* Fetches go on, end, or begin for a space that is shown, and what is kept for them is
\* of a space that may have it.
LEMMA ModeKept ==
  ASSUME ModeInv, UNCHANGED <<large, on, toggle, view, current, token>>, TasksHere',
         \A u \in fetches' :
           \/ Loaded /\ u.left = None
           \/ \E t \in fetches : u.left = t.left /\ (Pending(u) => Pending(t)),
         \A k \in ToSet(viewed') :
           k \in ToSet(viewed) \/ k[1] \in large \/ (Clearing /\ k[1] = current)
  PROVE  ModeInv'
<1>1. Loaded' <=> Loaded
  BY DEF Loaded
<1>2. Clearing' <=> Clearing
  BY DEF Clearing
<1>3. Toggling'
  BY <1>1 DEF ModeInv, Toggling
<1>4. \A u \in fetches' : Pending(u) /\ u.left # None => (u.left.on => u.left.space \in large)
  <2>. SUFFICES ASSUME NEW u \in fetches', Pending(u), u.left # None, u.left.on
                PROVE  u.left.space \in large
    OBVIOUS
  <2>1. PICK t \in fetches : u.left = t.left /\ Pending(t)
    OBVIOUS
  <2>. QED
    BY <2>1 DEF ModeInv, KnowsItsMode
<1>5. KnowsItsMode'
  BY <1>1, <1>2, <1>4 DEF ModeInv, KnowsItsMode
<1>6. KeptOrCleared'
  BY <1>2 DEF ModeInv, KeptOrCleared
<1>. QED
  BY <1>3, <1>5, <1>6 DEF ModeInv

LEMMA ModeFetches ==
  ASSUME ModesAlone, Elements, ModeInv, NEW t \in fetches,
         DownloadFile(t) \/ Downloaded(t) \/ PruneCachedFiles(t)
           \/ Delivered(t) \/ TextRead(t) \/ FetchFails(t)
  PROVE  ModeInv'
<1>1. /\ t \in Fetches /\ viewed \in Rows /\ t.left \in Contexts /\ t.file \in Files
      /\ Now(t) \in [space : Spaces, on : BOOLEAN]
  <2>1. t \in Fetches /\ viewed \in Rows /\ (t.left = None => view = "space")
    BY TypesOfElements DEF Elements, ElementTypes, OnPage
  <2>2. t.left \in Contexts /\ t.file \in Files
    BY <2>1 DEF Fetches
  <2>. QED
    BY <2>1, <2>2, NowTypes
<1>2. UNCHANGED <<large, on, toggle, view, current, token>> /\ TasksHere'
  BY DEF DownloadFile, Downloaded, PruneCachedFiles, Delivered, TextRead, FetchFails,
         kept_on_disk, shellVars, shell, ModeInv, TasksHere
<1>3. ASSUME NEW pc, Step(t, pc), Pending(t) \/ pc \notin {"missed", "sent"}
      PROVE  \A u \in fetches' : \E v \in fetches : u.left = v.left /\ (Pending(u) => Pending(v))
  <2>1. /\ [t EXCEPT !.pc = pc].left = t.left /\ [t EXCEPT !.pc = pc].pc = pc
        /\ fetches' = (fetches \ {t}) \cup {[t EXCEPT !.pc = pc]}
    BY <1>1, <1>3 DEF Fetches, Step
  <2>. QED
    BY <1>3, <2>1 DEF Pending
<1>4. ASSUME End(t)
      PROVE  \A u \in fetches' : \E v \in fetches : u.left = v.left /\ (Pending(u) => Pending(v))
  BY <1>4 DEF End
<1>5. CASE DownloadFile(t)
  <2>1. /\ [t EXCEPT !.pc = "sent", !.from = Now(t).space].left = t.left
        /\ Pending(t) /\ viewed' = viewed
    BY <1>1, <1>5 DEF DownloadFile, Fetches, Pending, kept_on_disk
  <2>2. \A u \in fetches' : \E v \in fetches : u.left = v.left /\ (Pending(u) => Pending(v))
    BY <1>5, <2>1 DEF DownloadFile
  <2>. QED
    BY <1>2, <2>1, <2>2, ModeKept
<1>6. CASE Downloaded(t)
  <2>1. Pending(t) /\ (Step(t, "kept") \/ Step(t, "got"))
    BY <1>6 DEF Downloaded, Pending
  <2>2. \A u \in fetches' : \E v \in fetches : u.left = v.left /\ (Pending(u) => Pending(v))
    BY <1>3, <2>1
  <2>3. CASE viewed' = viewed
    BY <1>2, <2>2, <2>3, ModeKept
  <2>4. CASE Now(t).on /\ viewed' \in Accessed(viewed, Key(Now(t).space, t.file))
    <3>1. Now(t).space \in large \/ (Clearing /\ Now(t).space = current)
      <4>1. CASE t.left = None
        <5>1. Loaded /\ on /\ Now(t).space = current
          BY <1>6, <2>4, <4>1 DEF Downloaded, Turning, ModesAlone, Now
        <5>. QED
          BY <5>1 DEF ModeInv, KnowsItsMode
      <4>2. CASE t.left # None
        BY <2>1, <2>4, <4>2 DEF Now, ModeInv, KnowsItsMode
      <4>. QED
        BY <4>1, <4>2
    <3>2. Key(Now(t).space, t.file) \in Keys /\ Key(Now(t).space, t.file)[1] = Now(t).space
      BY <1>1 DEF Key, Keys
    <3>3. \A k \in ToSet(viewed') : k \in ToSet(viewed) \/ k[1] = Now(t).space
      BY <1>1, <2>4, <3>2, AccessedRows
    <3>. QED
      BY <1>2, <2>2, <3>1, <3>3, ModeKept
  <2>. QED
    BY <1>6, <2>3, <2>4 DEF Downloaded
<1>7. CASE PruneCachedFiles(t)
  <2>1. ToSet(viewed') \subseteq ToSet(viewed)
    BY <1>1, <1>7, PruneRows DEF PruneCachedFiles
  <2>2. Step(t, "got")
    BY <1>7 DEF PruneCachedFiles
  <2>. QED
    BY <1>2, <1>3, <2>1, <2>2, ModeKept
<1>8. CASE Delivered(t) \/ TextRead(t) \/ FetchFails(t)
  <2>1. viewed' = viewed /\ (Step(t, "text") \/ End(t))
    BY <1>8 DEF Delivered, TextRead, FetchFails, kept_on_disk
  <2>2. \A u \in fetches' : \E v \in fetches : u.left = v.left /\ (Pending(u) => Pending(v))
    BY <1>3, <1>4, <2>1
  <2>. QED
    BY <1>2, <2>1, <2>2, ModeKept
<1>. QED
  BY <1>5, <1>6, <1>7, <1>8

LEMMA ModeUser ==
  ASSUME ModesAlone, Elements, ModeInv, acts' = acts \/ acts' \in 1..MaxActs,
         FileUser \/ SettingWritten \/ ClearCachedFilesForSpace
  PROVE  ModeInv'
<1> USE WebShellAssumption
<1>1. /\ viewed \in Rows /\ view' = view /\ current' = current /\ token' = token /\ TasksHere'
      /\ Loaded' <=> Loaded
  BY TypesOfElements
     DEF Elements, ElementTypes, FileUser, HandleDownload, HandleFilePreviewClick, DeleteFile,
         CloseFilePreview, ToggleJournalSync, SettingWritten, ClearCachedFilesForSpace,
         shellVars, shell, ModeInv, TasksHere, Loaded
<1>2. ASSUME NEW f \in Files, NEW use \in {"view", "download"}, Fetch(f, use), Shown(f),
             acts' \in 1..MaxActs, UNCHANGED <<large, on, toggle>>
      PROVE  ModeInv'
  <2>1. ToSet(viewed') \subseteq ToSet(viewed)
    BY <1>1, <1>2, FetchTypes
  <2>2. \A u \in fetches' : u \in fetches \/ u.left = None
    BY <1>2 DEF Fetch
  <2>. QED
    BY <1>1, <1>2, <2>1, <2>2, ModeKept DEF Shown
<1>3. ASSUME Act PROVE acts' \in 1..MaxActs
  BY <1>3 DEF Act, Elements, Inv, ShellTypeOK
<1>4. ASSUME NEW f \in Files, HandleDownload(f) \/ HandleFilePreviewClick(f) PROVE ModeInv'
  <2>1. UNCHANGED <<large, on, toggle>> /\ Shown(f) /\ acts' \in 1..MaxActs
    BY <1>3, <1>4 DEF HandleDownload, HandleFilePreviewClick
  <2>2. Fetch(f, "download") \/ Fetch(f, "view") \/ UNCHANGED <<viewed, fetches>>
    BY <1>4 DEF HandleDownload, HandleFilePreviewClick
  <2>3. CASE UNCHANGED <<viewed, fetches>>
    BY <1>1, <2>1, <2>3, ModeKept
  <2>. QED
    BY <1>2, <2>1, <2>2, <2>3
<1>5. ASSUME NEW f \in Files, DeleteFile(f) PROVE ModeInv'
  <2>1. ToSet(viewed') \subseteq ToSet(viewed)
    BY <1>1, <1>5, WithoutRows DEF DeleteFile
  <2>. QED
    BY <1>1, <1>5, <2>1, ModeKept DEF DeleteFile, element
<1>6. CASE CloseFilePreview
  BY <1>1, <1>6, ModeKept DEF CloseFilePreview, kept_on_disk
<1>7. CASE ToggleJournalSync
  <2>1. /\ Loaded /\ toggle = NoToggle /\ \A t \in fetches : t.left = None
        /\ large' = IF on THEN large \ {current} ELSE large \cup {current}
        /\ toggle' = [pc |-> "set", to |-> ~on, left |-> None]
        /\ UNCHANGED <<viewed, on, fetches>>
    BY <1>7 DEF ToggleJournalSync, ModesAlone
  <2>2. /\ toggle' # NoToggle /\ toggle'.pc = "set" /\ toggle'.left = None
        /\ toggle'.to <=> ~on
    BY <2>1 DEF NoToggle
  <2>3. Toggling'
    BY <1>1, <2>1, <2>2 DEF ModeInv, Toggling, Loaded
  <2>4. Clearing' <=> on
    BY <2>2 DEF Clearing
  <2>5. KnowsItsMode' /\ KeptOrCleared'
    BY <1>1, <2>1, <2>4 DEF ModeInv, KnowsItsMode, KeptOrCleared, Clearing
  <2>. QED
    BY <1>1, <2>3, <2>5 DEF ModeInv
<1>8. ASSUME toggle.pc \in {"set", "clear"}
      PROVE  /\ toggle # NoToggle /\ Loaded /\ toggle.left = None
             /\ view = "space" /\ \A t \in fetches : t.left = None
             /\ toggle.to => current \in large
             /\ ~toggle.to => current \notin large
  BY <1>8 DEF NoToggle, ModeInv, Toggling
<1>9. CASE SettingWritten
  <2>1. toggle.pc = "set" /\ UNCHANGED <<large, viewed, fetches>>
    BY <1>9 DEF SettingWritten, kept_on_disk
  <2>2. CASE toggle.to
    <3>1. toggle' = NoToggle /\ on' = (current \in large)
      BY <1>8, <1>9, <2>1, <2>2, Zenon DEF SettingWritten, SettingRead
    <3>2. ~Clearing /\ ~Clearing'
      BY <2>2, <3>1 DEF Clearing
    <3>3. Toggling' /\ KnowsItsMode' /\ KeptOrCleared'
      BY <1>1, <1>8, <2>1, <3>1, <3>2 DEF ModeInv, Toggling, KnowsItsMode, KeptOrCleared
    <3>. QED
      BY <1>1, <3>3 DEF ModeInv
  <2>3. CASE ~toggle.to
    <3>0. toggle \in Toggles
      BY TypesOfElements DEF Elements, ElementTypes
    <3>1. /\ toggle' = [toggle EXCEPT !.pc = "clear", !.left = None]
          /\ ~on'
      BY <1>8, <1>9, <2>1, <2>3 DEF SettingWritten
    <3>2. /\ toggle'.pc = "clear" /\ toggle'.left = None /\ ~toggle'.to /\ toggle' # NoToggle
      BY <2>3, <3>0, <3>1 DEF Toggles, NoToggle
    <3>3. Clearing /\ Clearing'
      BY <1>8, <2>1, <2>3, <3>2 DEF Clearing
    <3>4. Toggling' /\ KnowsItsMode' /\ KeptOrCleared'
      BY <1>1, <1>8, <2>1, <2>3, <3>1, <3>2, <3>3
         DEF ModeInv, Toggling, KnowsItsMode, KeptOrCleared
    <3>. QED
      BY <1>1, <3>4 DEF ModeInv
  <2>. QED
    BY <2>2, <2>3
<1>10. CASE ClearCachedFilesForSpace
  <2>1. /\ toggle.pc = "clear" /\ UNCHANGED <<large, fetches>> /\ toggle' = NoToggle
        /\ viewed' \in Without(viewed, OfSpace(current)) /\ SettingRead
    BY <1>8, <1>10 DEF ClearCachedFilesForSpace, FileFault, ModesAlone, Now
  <2>2. ~toggle.to
    BY <1>8, <2>1 DEF ModeInv, Toggling
  <2>3. on' = (current \in large)
    BY <1>8, <2>1, Zenon DEF SettingRead
  <2>4. ASSUME NEW k \in ToSet(viewed') PROVE k \in ToSet(viewed) /\ k[1] # current
    <3>1. k \in ToSet(viewed) /\ k \notin OfSpace(current) /\ viewed' \in Rows
      BY <1>1, <2>1, WithoutRows
    <3>2. k \in Spaces \X Files
      BY <3>1 DEF Rows, Keys, ToSet
    <3>3. k = <<k[1], k[2]>> /\ k[2] \in Files
      BY <3>2
    <3>. QED
      BY <3>1, <3>3 DEF OfSpace, Key
  <2>5. ~Clearing' /\ KeptOrCleared'
    BY <2>1, <2>4 DEF Clearing, ModeInv, KeptOrCleared
  <2>6. Toggling' /\ KnowsItsMode'
    BY <1>1, <1>8, <2>1, <2>3 DEF ModeInv, Toggling, KnowsItsMode
  <2>. QED
    BY <1>1, <2>5, <2>6 DEF ModeInv
<1>. QED
  BY <1>4, <1>5, <1>6, <1>7, <1>9, <1>10 DEF FileUser

LEMMA ModeFollow ==
  ASSUME ModesAlone, Elements, Inv', ModeInv, ShellWork \/ ShellUser, Follow
  PROVE  ModeInv'
<1> USE WebShellAssumption
<1>1. /\ TasksHere'
      /\ token' # token /\ token' # None =>
           /\ token = None /\ token' = current /\ current' = current
           /\ view = "space" /\ view' = "space"
      /\ view # "space" /\ view' = "space" => token' = None
      /\ view = "space" /\ view' = "space" /\ token # None /\ current' = current
           => token' = token
      /\ view = "space" /\ view' = "space" /\ current' # current => token' = None
  BY PageMoves DEF Elements, ModeInv
<1>2. UNCHANGED <<large, viewed>>
  BY DEF Follow, kept_on_disk
<1>3. /\ toggle = NoToggle \/ (view' = view /\ current' = current)
      /\ view' = view \/ \A t \in fetches : Pending(t) /\ t.left = None => Loaded
  BY DEF Follow, MayTurn, ModesAlone, Turning, Pending
<1>4. view' = "space" => current' # None
  BY DEF Inv, ShellTypeOK
<1>5. CASE view = "space" /\ view' # "space"
  <2>1. /\ toggle = NoToggle /\ toggle' = NoToggle /\ ~on'
        /\ fetches' = {Leaving(t) : t \in fetches}
    BY <1>3, <1>5 DEF Follow
  <2>2. ~Clearing /\ ~Clearing' /\ ~Loaded'
    BY <1>5, <2>1 DEF Clearing, Loaded
  <2>3. ASSUME NEW u \in fetches', Pending(u), u.left.on
        PROVE  u.left # None /\ u.left.space \in large
    <3>1. PICK t \in fetches : u = Leaving(t)
      BY <2>1
    <3>2. u.left # None /\ u.pc = t.pc
      BY <3>1, LeftFetch
    <3>3. CASE t.left = None
      <4>1. u.left = [space |-> current, on |-> on]
        BY <3>1, <3>3, LeftFetch
      <4>2. on /\ Loaded /\ u.left.space = current
        BY <1>3, <1>5, <2>3, <3>2, <3>3, <4>1 DEF Pending
      <4>. QED
        BY <2>2, <3>2, <4>2 DEF ModeInv, KnowsItsMode
    <3>4. CASE t.left # None
      <4>1. u.left = t.left
        BY <3>1, <3>4, LeftFetch
      <4>. QED
        BY <2>3, <3>2, <3>4, <4>1 DEF ModeInv, KnowsItsMode, Pending
    <3>. QED
      BY <3>3, <3>4
  <2>4. \A u \in fetches' : u.left # None
    BY <2>1, LeftFetch
  <2>5. Toggling' /\ KnowsItsMode' /\ KeptOrCleared'
    BY <1>2, <2>1, <2>2, <2>3, <2>4
       DEF Toggling, KnowsItsMode, ModeInv, KeptOrCleared
  <2>. QED
    BY <1>1, <2>5 DEF ModeInv
<1>6. ASSUME ~(view = "space" /\ view' # "space")
      PROVE  /\ fetches' = fetches /\ toggle' = toggle
             /\ Clearing' <=> Clearing
             /\ KeptOrCleared /\ (Clearing => current' = current) => KeptOrCleared'
  BY <1>2, <1>6 DEF Follow, Clearing, KeptOrCleared
<1>7. CASE view # "space"
  <2>1. /\ ~on /\ ~on' /\ toggle = NoToggle /\ ~Clearing
    BY <1>1, <1>7 DEF ModeInv, Toggling, Follow, Clearing
  <2>. QED
    BY <1>1, <1>2, <1>6, <1>7, <2>1 DEF ModeInv, Toggling, KnowsItsMode
<1>8. CASE view = "space" /\ view' = "space" /\ toggle # NoToggle
  <2>1. Loaded /\ current' = current /\ current # None
    BY <1>3, <1>4, <1>8 DEF ModeInv, Toggling
  <2>2. token' = token
    BY <1>1, <1>8, <2>1 DEF Loaded
  <2>3. on' = on
    BY <1>8, <2>2 DEF Follow
  <2>. QED
    BY <1>1, <1>2, <1>6, <1>8, <2>1, <2>2, <2>3, ModeKept
<1>9. CASE view = "space" /\ view' = "space" /\ toggle = NoToggle /\ current' = current
  <2>1. CASE token' = token
    <3>1. on' = on
      BY <1>9, <2>1 DEF Follow
    <3>. QED
      BY <1>1, <1>2, <1>6, <1>9, <2>1, <3>1, ModeKept
  <2>2. CASE token' # token
    <3>1. token' # None /\ token' = current
      BY <1>1, <1>9, <2>2
    <3>2. on' = (token' \in large)
      BY <1>9, <2>2, <3>1, Zenon DEF Follow
    <3>3. ~Clearing
      BY <1>9 DEF Clearing
    <3>. QED
      BY <1>1, <1>2, <1>6, <1>9, <3>1, <3>2, <3>3 DEF ModeInv, Toggling, KnowsItsMode
  <2>. QED
    BY <2>1, <2>2
<1>10. CASE view = "space" /\ view' = "space" /\ toggle = NoToggle /\ current' # current
  <2>1. token' = None /\ ~Loaded' /\ ~Clearing
    BY <1>1, <1>4, <1>10 DEF Loaded, Clearing
  <2>. QED
    BY <1>1, <1>2, <1>6, <1>10, <2>1 DEF ModeInv, Toggling, KnowsItsMode
<1>. QED
  BY <1>5, <1>7, <1>8, <1>9, <1>10

LEMMA ModeClosed ==
  ASSUME ModesAlone, ModeInv, Opens, Closed
  PROVE  ModeInv'
<1>1. /\ toggle = NoToggle /\ toggle' = NoToggle /\ fetches' = {} /\ ~on'
      /\ UNCHANGED <<large, viewed>>
  BY DEF Closed, ModesAlone, kept_on_disk
<1>2. /\ ~join'.here /\ ~leave'.here /\ view' # "space"
  BY DEF Opens, OpenPage, Idle
<1>. QED
  BY <1>1, <1>2
     DEF ModeInv, TasksHere, Toggling, KnowsItsMode, KeptOrCleared, Clearing, Loaded

LEMMA ModeStep ==
  ASSUME ModesAlone, Elements, ModeInv, [Next]_vars
  PROVE  ModeInv'
<1>1. Inv' /\ (acts' = acts \/ acts' \in 1..MaxActs)
  BY PageSteps DEF Elements
<1>2. CASE FileWork \/ FileUser
  BY <1>1, <1>2, ModeFetches, ModeUser DEF FileWork
<1>3. CASE (ShellWork \/ ShellUser) /\ Follow
  BY <1>1, <1>3, ModeFollow
<1>4. CASE Opens /\ Closed
  BY <1>4, ModeClosed
<1>5. CASE UNCHANGED vars
  <2>1. /\ UNCHANGED <<large, on, toggle, view, current, token, join, leave, fetches, viewed>>
    BY <1>5 DEF vars, fileVars, element, kept_on_disk, shellVars, shell
  <2>. QED
    BY <2>1, ModeKept DEF ModeInv, TasksHere
<1>. QED
  BY <1>2, <1>3, <1>4, <1>5 DEF Next

\* Turned off, large space mode leaves no file of its space on the device, whichever were
\* being fetched, kept or pruned at that moment and whatever space the element is given
\* while they are on their way, provided the clearing succeeds, the space is not left
\* before it has, and no file comes for an element that has yet to read the setting of
\* the space it was given (nor is one with a file on its way taken off the page then).
THEOREM FilesStayInLargeSpaces == ASSUME ModesAlone PROVE Spec => []NothingKeptOutside
<1>1. Elements /\ ModeInv /\ [Next]_vars => ModeInv'
  BY ModeStep
<1>2. Init => ModeInv
  <2> SUFFICES ASSUME Init PROVE ModeInv
    OBVIOUS
  <2>1. view # "space" /\ ~join.here /\ ~leave.here
    BY DEF Init, ShellInit, Idle
  <2>2. KeptOrCleared
    <3>1. CASE viewed = <<>>
      BY <3>1 DEF KeptOrCleared, ToSet
    <3>2. CASE viewed # <<>>
      <4>1. PICK f \in Files : Home[f] \in large /\ viewed = <<Key(Home[f], f)>>
        BY <3>2 DEF Init
      <4>. QED
        BY <4>1 DEF KeptOrCleared, ToSet, Key
    <3>. QED
      BY <3>1, <3>2
  <2>. QED
    BY <2>1, <2>2 DEF Init, ModeInv, TasksHere, Toggling, KnowsItsMode, Loaded
<1>3. Spec => [](Elements /\ ModeInv)
  BY <1>1, <1>2, ElementsInit, ElementsStep, PTL DEF Spec
<1>4. ModeInv => NothingKeptOutside
  BY DEF ModeInv, KeptOrCleared, Clearing, NothingKeptOutside
<1>. QED
  BY <1>3, <1>4, PTL
=============================================================================
