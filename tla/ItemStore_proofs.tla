-------------------------- MODULE ItemStore_proofs --------------------------
(***************************************************************************)
(* Proofs about ItemStore, for any number of spaces, items and requests.   *)
(***************************************************************************)
EXTENDS ItemStore, FiniteSetTheorems, TLAPS

(***************************************************************************)
(* The parts of the inductive invariants.                                  *)
(***************************************************************************)

\* What a handler's record says, by the operation it carries out.
Shape(q) ==
  /\ q.op \notin Transfers => q.toSpace = q.space /\ q.toId = q.item
  /\ q.op \notin Upserts => q.seen \in Row /\ q.kind = q.seen.kind /\ q.size = q.seen.size
  /\ q.pc = "load" => q.op = "text"
  /\ q.op = "file" => q.kind = "file"
  /\ q.op = "delete" => q.pc \in {"save", "clean"}
  /\ q.pc \in {"lock", "begin", "blob"} => Guarded(q)
  /\ q.pc = "reread" => q.op = "move"

HandlerShape == \A r \in Requests : req[r] # Idle => Shape(req[r])

TypeInv == TypeOK /\ HandlerShape

\* The situations the quota theorem is about: no text is converted to a file,
\* and no file is empty.
NoConversion  == TextThreshold >= MaxSize
FilesNotEmpty == 0 \notin FileSizes

\* Then a row takes storage exactly when it is a file's, in the table and in
\* what a handler has seen of it or means to store.
SizesAgree ==
  /\ \A i \in Items : rows[i] # NoRow => (rows[i].kind = "text" <=> rows[i].size = 0)
  /\ \A r \in Requests : req[r] # Idle =>
       /\ req[r].kind = "text" <=> req[r].size = 0
       /\ req[r].seen # NoRow => (req[r].seen.kind = "text" <=> req[r].seen.size = 0)
       /\ req[r].op = "text" => req[r].kind = "text"

\* The quota check of a handler stays true until it commits.
Reserved ==
  \A r \in Requests : HoldsTx(req[r]) =>
    /\ req[r].op = "file" => req[r].seen = Lookup(req[r].space, req[r].item)
    /\ Projected(req[r]) <= Quota[req[r].toSpace]

QuotaInv == SizesAgree /\ Reserved /\ QuotaRespected

(***************************************************************************)
(* Types.                                                                  *)
(***************************************************************************)

\* A slot that is not idle runs a handler.
LEMMA BusyIsHandler ==
  ASSUME TypeOK, NEW r \in Requests, req[r].pc \in Pcs
  PROVE  req[r] \in Handler /\ req[r] # Idle
BY DEF TypeOK, Idle, Pcs

LEMMA LookupType ==
  ASSUME TypeOK, NEW s, NEW i \in Items
  PROVE  Lookup(s, i) \in Row \cup {NoRow}
BY DEF TypeOK, Lookup

LEMMA NewRowType ==
  ASSUME NEW q \in Handler, q.op \in Transfers => q.seen \in Row
  PROVE  NewRow(q) \in Row
BY DEF NewRow, Handler, Row

LEMMA UpdatedRowsType ==
  ASSUME TypeOK, NEW q \in Handler, q.seen # NoRow, rows[q.toId] # NoRow
  PROVE  UpdatedRows(q) \subseteq Row
BY DEF UpdatedRows, NewRow, Handler, Row, TypeOK, Transfers

(***************************************************************************)
(* Counting the units of a table of rows.                                  *)
(***************************************************************************)
Tables == [Items -> Row \cup {NoRow}]

Claim(row, s) == IF row # NoRow /\ row.space = s THEN row.size ELSE 0

\* A table has finitely many units.
LEMMA UnitsFinite ==
  ASSUME NEW table \in Tables, NEW s
  PROVE  IsFiniteSet(UnitsOf(table, s)) /\ Cardinality(UnitsOf(table, s)) \in Nat
<1>1. IsFiniteSet(1..MaxSize)
  BY FS_Interval, ItemStoreAssumption
<1>2. IsFiniteSet(Items \X (1..MaxSize))
  BY <1>1, FS_Product, ItemStoreAssumption
<1>3. UnitsOf(table, s) \in SUBSET (Items \X (1..MaxSize))
  BY DEF UnitsOf
<1>. QED  BY <1>2, <1>3, FS_Subset, FS_CardinalityType

\* The units of one id are as many as its size.
LEMMA PiecesCount ==
  ASSUME NEW i, NEW n \in Nat
  PROVE  /\ IsFiniteSet({i} \X (1..n))
         /\ Cardinality({i} \X (1..n)) = n
<1>1. IsFiniteSet(1..n) /\ Cardinality(1..n) = n
  BY FS_Interval
<1>2. IsFiniteSet({i}) /\ Cardinality({i}) = 1
  BY FS_Singleton
<1>. QED  BY <1>1, <1>2, FS_Product

\* Storing a row under one id, and removing others at will, adds at most the
\* difference of the new row's claim and the old one's.
LEMMA StoreBound ==
  ASSUME NEW old \in Tables, NEW table \in Tables, NEW i \in Items, NEW s \in Spaces,
         \A j \in Items \ {i} : table[j] \in {old[j], NoRow}
  PROVE  Cardinality(UnitsOf(table, s)) <=
           Cardinality(UnitsOf(old, s)) - Claim(old[i], s) + Claim(table[i], s)
<1> DEFINE Old  == {i} \X (1..Claim(old[i], s))
           New  == {i} \X (1..Claim(table[i], s))
           Rest == UnitsOf(old, s) \ Old
<1>1. Claim(old[i], s) \in 0..MaxSize /\ Claim(table[i], s) \in 0..MaxSize
  BY ItemStoreAssumption DEF Claim, Tables, Row, Sizes
<1>2. /\ IsFiniteSet(Old) /\ Cardinality(Old) = Claim(old[i], s)
      /\ IsFiniteSet(New) /\ Cardinality(New) = Claim(table[i], s)
  <2>1. Claim(old[i], s) \in Nat /\ Claim(table[i], s) \in Nat
    BY <1>1, ItemStoreAssumption
  <2>. QED  BY <2>1, PiecesCount
<1>3. Old \subseteq UnitsOf(old, s)
  BY <1>1, ItemStoreAssumption DEF UnitsOf, Claim, Tables, Row, Sizes
<1>4. UnitsOf(table, s) \subseteq Rest \cup New
  <2> SUFFICES ASSUME NEW u \in UnitsOf(table, s)
               PROVE  u \in Rest \cup New
    OBVIOUS
  <2>1. u \in Items \X (1..MaxSize) /\ table[u[1]] # NoRow /\ table[u[1]].space = s /\ u[2] <= table[u[1]].size
    BY DEF UnitsOf
  <2>2. CASE u[1] = i
    <3>1. u[2] \in 1..Claim(table[i], s)
      BY <2>1, <2>2, ItemStoreAssumption DEF Claim
    <3>. QED  BY <2>1, <2>2, <3>1
  <2>3. CASE u[1] # i
    <3>1. table[u[1]] = old[u[1]]
      BY <2>1, <2>3
    <3>. QED  BY <2>1, <2>3, <3>1 DEF UnitsOf
  <2>. QED  BY <2>2, <2>3
<1>5. /\ IsFiniteSet(UnitsOf(old, s)) /\ Cardinality(UnitsOf(old, s)) \in Nat
      /\ Cardinality(UnitsOf(table, s)) \in Nat
  BY UnitsFinite
<1>6. IsFiniteSet(Rest) /\ Cardinality(Rest) = Cardinality(UnitsOf(old, s)) - Claim(old[i], s)
  <2>1. UnitsOf(old, s) \cap Old = Old
    BY <1>3
  <2>2. /\ IsFiniteSet(UnitsOf(old, s) \ Old)
        /\ Cardinality(UnitsOf(old, s) \ Old)
             = Cardinality(UnitsOf(old, s)) - Cardinality(UnitsOf(old, s) \cap Old)
    <3> HIDE DEF Old
    <3>. QED  BY <1>5, FS_Difference
  <2>. QED  BY <1>2, <2>1, <2>2
<1>7. /\ IsFiniteSet(Rest \cup New)
      /\ Cardinality(Rest \cup New) <= Cardinality(Rest) + Claim(table[i], s)
  <2>1. IsFiniteSet(Rest \cap New) /\ Cardinality(Rest \cap New) \in Nat
    BY <1>6, FS_Subset, FS_CardinalityType
  <2>2. /\ IsFiniteSet(Rest \cup New)
        /\ Cardinality(Rest \cup New) = Cardinality(Rest) + Cardinality(New) - Cardinality(Rest \cap New)
    BY <1>2, <1>6, FS_Union
  <2>. QED  BY <1>1, <1>2, <1>5, <1>6, <2>1, <2>2
<1>8. Cardinality(UnitsOf(table, s)) <= Cardinality(Rest \cup New)
  BY <1>4, <1>7, FS_Subset
<1>9. Cardinality(Rest \cup New) \in Nat
  BY <1>7, FS_CardinalityType
<1>. QED  BY <1>1, <1>5, <1>6, <1>7, <1>8, <1>9
(***************************************************************************)
(* Type correctness.                                                       *)
(***************************************************************************)
LEMMA TypeInit == Init => TypeInv
BY ItemStoreAssumption DEF Init, TypeInv, TypeOK, HandlerShape

\* A step that changes one slot keeps the types of all.
LEMMA SlotUpdate ==
  ASSUME TypeInv, NEW r \in Requests, NEW q \in Handler \cup {Idle},
         req' = [req EXCEPT ![r] = q], q # Idle => Shape(q)
  PROVE  req' \in [Requests -> Handler \cup {Idle}] /\ HandlerShape'
BY DEF TypeInv, TypeOK, HandlerShape

LEMMA LeaveType ==
  ASSUME TypeInv, NEW r \in Requests, Leave(r)
  PROVE  /\ req' \in [Requests -> Handler \cup {Idle}] /\ HandlerShape'
         /\ writer' \in Requests \cup {NoRequest}
         /\ quotaLock' \in [Spaces -> Requests \cup {NoRequest}]
BY SlotUpdate DEF Leave, Released, TypeInv, TypeOK

LEMMA StartType ==
  ASSUME TypeInv, NEW r \in Requests, Start(r)
  PROVE  TypeInv'
<1>1. ASSUME NEW s \in Spaces, NEW i \in Items, NEW op \in {"text", "file"}, NEW n \in Sizes,
             StartUpsert(r, s, i, op, n)
      PROVE  TypeInv'
  <2> DEFINE q == [pc |-> IF op = "text" THEN "load" ELSE "lock", op |-> op,
                   space |-> s, item |-> i, toSpace |-> s, toId |-> i,
                   kind |-> IF op = "text" /\ n <= TextThreshold THEN "text" ELSE "file",
                   size |-> n, seen |-> NoRow, reread |-> FALSE]
  <2>1. q \in Handler
    BY <1>1 DEF StartUpsert, Handler, Pcs, Upserts
  <2>2. Shape(q)
    BY DEF Shape, Upserts, Transfers, Guarded
  <2>3. req' = [req EXCEPT ![r] = q] /\ UNCHANGED <<rows, blobs, quotaLock, writer>>
    BY <1>1 DEF StartUpsert
  <2> HIDE DEF q
  <2>. QED  BY <2>1, <2>2, <2>3, SlotUpdate DEF TypeInv, TypeOK
<1>2. ASSUME NEW s \in Spaces, NEW i \in Items, StartDelete(r, s, i)
      PROVE  TypeInv'
  <2> DEFINE q == [pc |-> "save", op |-> "delete", space |-> s, item |-> i,
                   toSpace |-> s, toId |-> i, kind |-> rows[i].kind,
                   size |-> rows[i].size, seen |-> rows[i], reread |-> FALSE]
  <2>1. rows[i] \in Row
    BY <1>2 DEF StartDelete, Lookup, TypeInv, TypeOK
  <2>2. q \in Handler
    BY <1>2, <2>1 DEF StartDelete, Handler, Pcs, Row
  <2>3. Shape(q)
    BY <2>1 DEF Shape, Upserts, Transfers, Guarded
  <2>4. req' = [req EXCEPT ![r] = q] /\ UNCHANGED <<rows, blobs, quotaLock, writer>>
    BY <1>2 DEF StartDelete
  <2> HIDE DEF q
  <2>. QED  BY <2>2, <2>3, <2>4, SlotUpdate DEF TypeInv, TypeOK
<1>3. ASSUME NEW s \in Spaces, NEW i \in Items, NEW d \in Spaces, NEW j \in Items,
             NEW op \in Transfers, StartTransfer(r, s, i, d, j, op)
      PROVE  TypeInv'
  <2> DEFINE q == [pc |-> IF rows[i].kind = "file" THEN "lock"
                          ELSE IF op = "move" THEN "reread" ELSE "save",
                   op |-> op, space |-> s, item |-> i, toSpace |-> d, toId |-> j,
                   kind |-> rows[i].kind, size |-> rows[i].size, seen |-> rows[i],
                   reread |-> FALSE]
  <2>1. rows[i] \in Row
    BY <1>3 DEF StartTransfer, Lookup, TypeInv, TypeOK
  <2>2. q \in Handler
    BY <1>3, <2>1 DEF StartTransfer, Handler, Pcs, Row
  <2>3. Shape(q)
    BY <2>1 DEF Shape, Upserts, Transfers, Guarded
  <2>4. req' = [req EXCEPT ![r] = q] /\ UNCHANGED <<rows, blobs, quotaLock, writer>>
    BY <1>3 DEF StartTransfer
  <2> HIDE DEF q
  <2>. QED  BY <2>2, <2>3, <2>4, SlotUpdate DEF TypeInv, TypeOK
<1>4. TextSizes \subseteq Sizes /\ FileSizes \subseteq Sizes
  BY ItemStoreAssumption DEF TextSizes, Sizes
<1>. QED  BY <1>1, <1>2, <1>3, <1>4 DEF Start

\* What SaveChanges writes are rows.
LEMMA WriteRowsType ==
  ASSUME TypeInv, NEW q \in Handler, Shape(q), ~Conflict(q), WriteRows(q)
  PROVE  rows' \in [Items -> Row \cup {NoRow}]
<1>1. q.item \in Items /\ q.toId \in Items /\ rows \in [Items -> Row \cup {NoRow}]
  BY DEF Handler, TypeInv, TypeOK
<1>2. NewRow(q) \in Row
  BY NewRowType DEF Shape, Transfers, Upserts
<1>3. q.op \in Upserts /\ q.seen # NoRow => UpdatedRows(q) \subseteq Row
  BY UpdatedRowsType DEF Conflict, TypeInv
<1>. QED  BY <1>1, <1>2, <1>3 DEF WriteRows

LEMMA StepType ==
  ASSUME TypeInv, NEW r \in Requests, Step(r)
  PROVE  TypeInv'
<1> USE DEF TypeInv
<1> DEFINE q == req[r]
<1>0. q.pc \in Pcs => q \in Handler /\ q # Idle /\ Shape(q)
  BY BusyIsHandler DEF HandlerShape
<1>1. ASSUME LoadExisting(r)  PROVE TypeInv'
  <2> DEFINE next == [q EXCEPT !.pc = IF q.kind = "file" THEN "lock" ELSE "save",
                               !.seen = Lookup(q.space, q.item)]
  <2>1. q.pc = "load" /\ req' = [req EXCEPT ![r] = next]
    BY <1>1 DEF LoadExisting
  <2>2. q \in Handler /\ Shape(q)
    BY <1>0, <2>1 DEF Pcs
  <2>3. Lookup(q.space, q.item) \in Row \cup {NoRow}
    BY <2>2, LookupType DEF Handler
  <2>4. next \in Handler
    BY <2>2, <2>3 DEF Handler, Pcs
  <2>5. Shape(next)
    BY <2>1, <2>2 DEF Shape, Guarded, Upserts, Transfers, Handler
  <2> HIDE DEF next
  <2>. QED  BY <1>1, <2>1, <2>4, <2>5, SlotUpdate DEF LoadExisting, TypeOK
<1>2. ASSUME AcquireQuotaLock(r)  PROVE TypeInv'
  <2> DEFINE next == [q EXCEPT !.pc = "begin"]
  <2>1. q.pc = "lock" /\ req' = [req EXCEPT ![r] = next]
    BY <1>2 DEF AcquireQuotaLock
  <2>2. q \in Handler /\ Shape(q)
    BY <1>0, <2>1 DEF Pcs
  <2>3. next \in Handler /\ Shape(next)
    BY <2>1, <2>2 DEF Handler, Pcs, Shape, Guarded
  <2> HIDE DEF next
  <2>. QED  BY <1>2, <2>1, <2>2, <2>3, SlotUpdate DEF AcquireQuotaLock, TypeOK, Handler
<1>3. ASSUME CheckQuota(r)  PROVE TypeInv'
  <2> DEFINE next == [q EXCEPT !.pc = "blob", !.seen = SeenInTx(q)]
  <2>1. q.pc = "begin" /\ req' = [req EXCEPT ![r] = next]
    BY <1>3 DEF CheckQuota
  <2>2. q \in Handler /\ Shape(q)
    BY <1>0, <2>1 DEF Pcs
  <2>3. SeenInTx(q) \in Row \cup {NoRow}
    BY <2>2, LookupType DEF Handler, SeenInTx
  <2>4. next \in Handler
    BY <2>2, <2>3 DEF Handler, Pcs
  <2>5. Shape(next)
    BY <2>1, <2>2 DEF Shape, Guarded, Handler, SeenInTx, Upserts
  <2> HIDE DEF next
  <2>. QED  BY <1>3, <2>1, <2>4, <2>5, SlotUpdate DEF CheckQuota, TypeOK
<1>4. ASSUME RejectOverQuota(r)  PROVE TypeInv'
  BY <1>4, LeaveType DEF RejectOverQuota, TypeOK
<1>5. ASSUME SaveBlob(r)  PROVE TypeInv'
  <2> DEFINE next == [q EXCEPT !.pc = IF q.op = "move" THEN "reread" ELSE "save"]
  <2>1. q.pc = "blob" /\ req' = [req EXCEPT ![r] = next]
    BY <1>5 DEF SaveBlob
  <2>2. q \in Handler /\ Shape(q)
    BY <1>0, <2>1 DEF Pcs
  <2>3. next \in Handler /\ Shape(next)
    BY <2>1, <2>2 DEF Handler, Pcs, Shape, Guarded
  <2>4. Payload(q) \in Sizes
    BY <1>5, <2>2 DEF SaveBlob, Payload, Handler, TypeOK
  <2> HIDE DEF next
  <2>. QED  BY <1>5, <2>1, <2>3, <2>4, SlotUpdate DEF SaveBlob, Stored, TypeOK
<1>6. ASSUME SaveBlobFails(r)  PROVE TypeInv'
  BY <1>6, LeaveType DEF SaveBlobFails, Stored, TypeOK
<1>7. ASSUME RereadSource(r)  PROVE TypeInv'
  <2> DEFINE next == [q EXCEPT !.pc = "save", !.reread = Lookup(q.space, q.item) # NoRow]
  <2>1. q.pc = "reread" /\ req' = [req EXCEPT ![r] = next]
    BY <1>7 DEF RereadSource
  <2>2. q \in Handler /\ Shape(q)
    BY <1>0, <2>1 DEF Pcs
  <2>3. next \in Handler /\ Shape(next)
    BY <2>1, <2>2 DEF Handler, Pcs, Shape, Guarded
  <2> HIDE DEF next
  <2>. QED  BY <1>7, <2>1, <2>3, SlotUpdate DEF RereadSource, TypeOK
<1>8. ASSUME SaveChanges(r)  PROVE TypeInv'
  <2>1. q \in Handler /\ Shape(q) /\ q.pc = "save"
    BY <1>0, <1>8 DEF SaveChanges, Pcs
  <2>2. rows' \in [Items -> Row \cup {NoRow}]
    BY <1>8, <2>1, WriteRowsType DEF SaveChanges
  <2>3. CASE HasStaleBlob(q)
    <3> DEFINE next == [q EXCEPT !.pc = "clean"]
    <3>1. req' = [req EXCEPT ![r] = next] /\ writer' = NoRequest /\ UNCHANGED <<blobs, quotaLock>>
      BY <1>8, <2>3 DEF SaveChanges
    <3>2. next \in Handler /\ Shape(next)
      BY <2>1 DEF Handler, Pcs, Shape, Guarded
    <3> HIDE DEF next
    <3>. QED  BY <2>2, <3>1, <3>2, SlotUpdate DEF TypeOK
  <2>4. CASE ~HasStaleBlob(q)
    BY <1>8, <2>2, <2>4, LeaveType DEF SaveChanges, TypeOK
  <2>. QED  BY <2>3, <2>4
<1>9. ASSUME SaveChangesFails(r)  PROVE TypeInv'
  BY <1>9, LeaveType DEF SaveChangesFails, Compensated, Stored, TypeOK
<1>10. ASSUME DeleteStaleBlob(r)  PROVE TypeInv'
  BY <1>10, LeaveType DEF DeleteStaleBlob, TypeOK
<1>. QED
  BY <1>1, <1>2, <1>3, <1>4, <1>5, <1>6, <1>7, <1>8, <1>9, <1>10 DEF Step

LEMMA TypeStep == TypeInv /\ [Next]_vars => TypeInv'
<1> SUFFICES ASSUME TypeInv, [Next]_vars  PROVE TypeInv'
  OBVIOUS
<1>1. ASSUME NEW r \in Requests, Start(r) \/ Step(r)  PROVE TypeInv'
  BY <1>1, StartType, StepType
<1>2. ASSUME NEW r \in Requests, Abort(r)  PROVE TypeInv'
  BY <1>2, LeaveType DEF Abort, TypeInv, TypeOK
<1>3. CASE Crash
  <2>1. blobs' \in [Spaces \X Items -> Sizes \cup {NoBlob}]
    BY <1>3 DEF Crash, Stored, TypeInv, TypeOK
  <2>. QED  BY <1>3, <2>1 DEF Crash, TypeInv, TypeOK, HandlerShape
<1>4. ASSUME NEW i \in Items, Sweep(i)  PROVE TypeInv'
  BY <1>4 DEF Sweep, TypeInv, TypeOK, HandlerShape
<1>5. CASE UNCHANGED vars
  BY <1>5 DEF vars, TypeInv, TypeOK, HandlerShape
<1>. QED  BY <1>1, <1>2, <1>3, <1>4, <1>5 DEF Next

\* The state always has the types of the declarations, whatever fails and
\* however the handlers of ItemEndpoints.cs interleave.
THEOREM TypeCorrect == Spec => []TypeOK
<1>1. Spec => []TypeInv
  BY TypeInit, TypeStep, PTL DEF Spec
<1>2. TypeInv => TypeOK
  BY DEF TypeInv
<1>. QED  BY <1>1, <1>2, PTL
(***************************************************************************)
(* The semaphores and the write lock.                                      *)
(***************************************************************************)
LockInv == TypeInv /\ LockDiscipline

LEMMA LeaveLocks ==
  ASSUME LockInv, NEW r \in Requests, Leave(r)
  PROVE  LockDiscipline'
BY ItemStoreAssumption
   DEF LockInv, TypeInv, TypeOK, Leave, Released, LockDiscipline, HoldsLock, HoldsTx, Idle

LEMMA LockStep == LockInv /\ [Next]_vars => LockDiscipline'
<1> SUFFICES ASSUME LockInv, [Next]_vars  PROVE LockDiscipline'
  OBVIOUS
<1> USE ItemStoreAssumption DEF LockInv
<1>0. ASSUME NEW r \in Requests, req[r].pc \in Pcs
      PROVE  req[r] \in Handler /\ req[r] # Idle /\ Shape(req[r])
  BY <1>0, BusyIsHandler DEF HandlerShape, TypeInv
<1>1. ASSUME NEW r \in Requests, Start(r)  PROVE LockDiscipline'
  <2>1. req[r] = Idle /\ UNCHANGED <<quotaLock, writer>>
    BY <1>1 DEF Start, StartUpsert, StartDelete, StartTransfer
  <2>2. \A p \in Requests \ {r} : req'[p] = req[p]
    BY <1>1 DEF Start, StartUpsert, StartDelete, StartTransfer, TypeInv, TypeOK
  <2>3. ~HoldsLock(req'[r]) /\ ~HoldsTx(req'[r])
    BY <1>1 DEF Start, StartUpsert, StartDelete, StartTransfer, TypeInv, TypeOK,
                HoldsLock, HoldsTx, Guarded, Lookup, Row
  <2>4. ~HoldsLock(req[r]) /\ ~HoldsTx(req[r])
    BY <2>1 DEF HoldsLock, HoldsTx, Idle
  <2>. QED  BY <2>1, <2>2, <2>3, <2>4 DEF LockDiscipline
<1>2. ASSUME NEW r \in Requests, Step(r)  PROVE LockDiscipline'
  <2>1. CASE LoadExisting(r)
    BY <1>0, <2>1 DEF LoadExisting, LockDiscipline, HoldsLock, HoldsTx, Guarded,
                      Handler, Pcs, TypeInv, TypeOK
  <2>2. CASE AcquireQuotaLock(r)
    BY <1>0, <2>2 DEF AcquireQuotaLock, LockDiscipline, HoldsLock, HoldsTx, Guarded,
                      Shape, Handler, Pcs, TypeInv, TypeOK
  <2>3. CASE CheckQuota(r)
    BY <1>0, <2>3 DEF CheckQuota, LockDiscipline, HoldsLock, HoldsTx, Guarded,
                      Shape, Handler, Pcs, TypeInv, TypeOK
  <2>4. CASE RejectOverQuota(r)
    BY <2>4, LeaveLocks DEF RejectOverQuota
  <2>5. CASE SaveBlob(r)
    BY <1>0, <2>5 DEF SaveBlob, LockDiscipline, HoldsLock, HoldsTx, Guarded,
                      Handler, Pcs, TypeInv, TypeOK
  <2>6. CASE SaveBlobFails(r)
    BY <2>6, LeaveLocks DEF SaveBlobFails
  <2>7. CASE RereadSource(r)
    BY <1>0, <2>7 DEF RereadSource, LockDiscipline, HoldsLock, HoldsTx, Guarded,
                      Handler, Pcs, TypeInv, TypeOK
  <2>8. CASE SaveChanges(r)
    <3>1. CASE HasStaleBlob(req[r])
      <4>1. /\ req[r].pc = "save" /\ writer \in {NoRequest, r}
            /\ req' = [req EXCEPT ![r].pc = "clean"]
            /\ writer' = NoRequest /\ UNCHANGED quotaLock
        BY <2>8, <3>1 DEF SaveChanges
      <4>2. req[r] \in Handler
        BY <1>0, <4>1 DEF Pcs
      <4>. QED
        BY <4>1, <4>2 DEF LockDiscipline, HoldsLock, HoldsTx, Guarded, Handler, TypeInv, TypeOK
    <3>2. CASE ~HasStaleBlob(req[r])
      BY <2>8, <3>2, LeaveLocks DEF SaveChanges
    <3>. QED  BY <3>1, <3>2
  <2>9. CASE SaveChangesFails(r)
    BY <2>9, LeaveLocks DEF SaveChangesFails
  <2>10. CASE DeleteStaleBlob(r)
    BY <2>10, LeaveLocks DEF DeleteStaleBlob
  <2>. QED
    BY <1>2, <2>1, <2>2, <2>3, <2>4, <2>5, <2>6, <2>7, <2>8, <2>9, <2>10 DEF Step
<1>3. ASSUME NEW r \in Requests, Abort(r)  PROVE LockDiscipline'
  BY <1>3, LeaveLocks DEF Abort
<1>4. CASE Crash
  BY <1>4 DEF Crash, LockDiscipline, HoldsLock, HoldsTx, Idle
<1>5. ASSUME NEW i \in Items, Sweep(i)  PROVE LockDiscipline'
  BY <1>5 DEF Sweep, LockDiscipline
<1>6. CASE UNCHANGED vars
  BY <1>6 DEF vars, LockDiscipline
<1>. QED  BY <1>1, <1>2, <1>3, <1>4, <1>5, <1>6 DEF Next

LEMMA LockInit == Init => LockDiscipline
BY ItemStoreAssumption DEF Init, LockDiscipline, HoldsLock, HoldsTx, Idle

\* No handler leaks a semaphore or the write lock, and file writes to one space
\* exclude each other, for any number of handlers, failing in any way.
THEOREM LocksHeldByTheirHandlers == Spec => []LockDiscipline
<1>1. Init => LockInv
  BY TypeInit, LockInit DEF LockInv
<1>2. LockInv /\ [Next]_vars => LockInv'
  BY TypeStep, LockStep DEF LockInv
<1>3. LockInv => LockDiscipline
  BY DEF LockInv
<1>. QED  BY <1>1, <1>2, <1>3, PTL DEF Spec
(***************************************************************************)
(* The quota.                                                              *)
(***************************************************************************)
Full == LockInv /\ QuotaInv

AgreeRow(row) == row.kind = "text" <=> row.size = 0

\* The rows a handler writes take storage exactly when they are files.
LEMMA WriteAgrees ==
  ASSUME Full, NEW r \in Requests, SaveChanges(r)
  PROVE  \A i \in Items : rows'[i] # NoRow => AgreeRow(rows'[i])
<1> DEFINE q == req[r]
<1>1. q.pc = "save" /\ WriteRows(q) /\ ~Conflict(q)
  BY DEF SaveChanges
<1>2. q \in Handler /\ q # Idle
  BY <1>1, BusyIsHandler DEF Full, LockInv, TypeInv, Pcs
<1>3. /\ rows \in [Items -> Row \cup {NoRow}] /\ q.toId \in Items /\ q.item \in Items
      /\ \A i \in Items : rows[i] # NoRow => AgreeRow(rows[i])
  BY <1>2 DEF Full, LockInv, TypeInv, TypeOK, QuotaInv, SizesAgree, AgreeRow, Handler
<1>4. AgreeRow(NewRow(q))
  BY <1>2 DEF Full, QuotaInv, SizesAgree, AgreeRow, NewRow
<1>5. ASSUME q.op \in Upserts, q.seen # NoRow, NEW u \in UpdatedRows(q)
      PROVE  AgreeRow(u)
  <2>1. AgreeRow(q.seen) /\ (q.kind = "text" <=> q.size = 0) /\ q.seen \in Row
    BY <1>2, <1>5 DEF Full, QuotaInv, SizesAgree, AgreeRow, Handler
  <2>2. rows[q.toId] # NoRow /\ AgreeRow(rows[q.toId]) /\ rows[q.toId] \in Row
    BY <1>1, <1>3, <1>5 DEF Conflict
  <2>3. /\ u.kind = IF q.seen.kind # q.kind THEN q.kind ELSE rows[q.toId].kind
        /\ u.size = IF q.seen.size # q.size THEN q.size ELSE rows[q.toId].size
    BY <1>5 DEF UpdatedRows, NewRow
  <2>4. CASE q.op = "text"
    <3>1. q.kind = "text" /\ q.size = 0
      BY <1>2, <2>1, <2>4 DEF Full, QuotaInv, SizesAgree
    <3>. QED  BY <2>1, <2>2, <2>3, <3>1 DEF AgreeRow, Row, Sizes
  <2>5. CASE q.op = "file"
    <3>1. q.kind = "file" /\ HoldsTx(q)
      BY <1>1, <1>2, <2>5 DEF Full, LockInv, TypeInv, HandlerShape, Shape, HoldsTx, Guarded
    <3>2. q.seen = rows[q.toId]
      BY <1>2, <1>5, <2>5, <3>1
         DEF Full, LockInv, TypeInv, HandlerShape, Shape, Transfers, QuotaInv, Reserved, Lookup
    <3>. QED  BY <2>1, <2>3, <3>1, <3>2 DEF AgreeRow, Row, Sizes
  <2>. QED  BY <1>5, <2>4, <2>5 DEF Upserts
<1>. QED  BY <1>1, <1>3, <1>4, <1>5 DEF WriteRows
\* What a row claims of a space is what the query for it by space and id finds.
LEMMA ClaimIsSize ==
  ASSUME NEW s, NEW i
  PROVE  Claim(rows[i], s) = SizeOf(Lookup(s, i))
BY DEF Claim, SizeOf, Lookup

LEMMA WriteBound ==
  ASSUME Full, NEW r \in Requests, SaveChanges(r)
  PROVE  QuotaRespected'
<1> DEFINE q == req[r]
<1> USE DEF Full, LockInv, TypeInv
<1>1. q.pc = "save" /\ WriteRows(q) /\ ~Conflict(q)
  BY DEF SaveChanges
<1>2. q \in Handler /\ q # Idle /\ Shape(q)
  BY <1>1, BusyIsHandler DEF Pcs, HandlerShape
<1>3. /\ rows \in Tables /\ rows' \in Tables
      /\ q.toId \in Items /\ q.item \in Items /\ q.toSpace \in Spaces
  BY <1>1, <1>2, WriteRowsType DEF TypeOK, Handler, Tables
<1>4. \A s \in Spaces : Quota[s] \in Nat /\ Usage(s) <= Quota[s] /\ Usage(s) \in Nat
  BY <1>3, UnitsFinite, ItemStoreAssumption DEF QuotaInv, QuotaRespected, Usage
<1> SUFFICES ASSUME NEW s \in Spaces
             PROVE  Cardinality(UnitsOf(rows', s)) <= Quota[s]
  BY DEF QuotaRespected, Usage, UnitsOf
<1>5. /\ \A i \in Items : Claim(rows[i], s) \in Nat /\ Claim(rows'[i], s) \in Nat
      /\ Cardinality(UnitsOf(rows', s)) \in Nat
  BY <1>3, UnitsFinite, ItemStoreAssumption DEF Claim, Tables, Row, Sizes
<1>6. ASSUME NEW i \in Items, \A j \in Items \ {i} : rows'[j] \in {rows[j], NoRow}
      PROVE  Cardinality(UnitsOf(rows', s)) <= Usage(s) - Claim(rows[i], s) + Claim(rows'[i], s)
  BY <1>3, <1>6, StoreBound DEF Usage
<1>7. CASE q.op = "delete"
  <2>1. rows' = [rows EXCEPT ![q.item] = NoRow]
    BY <1>1, <1>7 DEF WriteRows, Upserts, Transfers
  <2>2. \A j \in Items \ {q.item} : rows'[j] \in {rows[j], NoRow}
    BY <2>1, <1>3 DEF Tables
  <2>3. Claim(rows'[q.item], s) = 0
    BY <2>1, <1>3 DEF Claim, Tables
  <2>. QED  BY <1>3, <1>4, <1>5, <1>6, <2>2, <2>3
<1>8. CASE q.op # "delete"
  <2>1. \A j \in Items \ {q.toId} : rows'[j] \in {rows[j], NoRow}
    BY <1>1, <1>3, <1>8 DEF WriteRows, Tables
  <2>2. ASSUME Claim(rows'[q.toId], s) <= Claim(rows[q.toId], s)
        PROVE  Cardinality(UnitsOf(rows', s)) <= Quota[s]
    BY <1>3, <1>4, <1>5, <1>6, <2>1, <2>2
  <2>3. CASE q.op = "text"
    <3>1. q.size = 0
      BY <1>2, <2>3 DEF QuotaInv, SizesAgree
    <3>2. CASE q.seen = NoRow
      <4>1. rows'[q.toId] = NewRow(q)
        BY <1>1, <1>3, <2>3, <3>2 DEF WriteRows, Tables, Upserts, Transfers
      <4>2. Claim(rows'[q.toId], s) = 0
        BY <3>1, <4>1 DEF Claim, NewRow
      <4>. QED  BY <1>3, <1>5, <2>2, <4>2
    <3>3. CASE q.seen # NoRow
      <4>1. PICK u \in UpdatedRows(q) : rows'[q.toId] = u
        BY <1>1, <1>3, <2>3, <3>3 DEF WriteRows, Tables, Upserts, Transfers
      <4>2. rows[q.toId] # NoRow /\ rows[q.toId] \in Row
        BY <1>1, <1>3, <2>3, <3>3 DEF Conflict, Upserts, Tables
      <4>3. u.space = rows[q.toId].space /\ (u.size = 0 \/ u.size = rows[q.toId].size)
        BY <3>1, <4>1 DEF UpdatedRows, NewRow
      <4>4. Claim(rows'[q.toId], s) <= Claim(rows[q.toId], s)
        BY <1>3, <1>5, <4>1, <4>2, <4>3 DEF Claim, Row, Sizes
      <4>. QED  BY <2>2, <4>4
    <3>. QED  BY <3>2, <3>3
  <2>4. CASE q.op = "file"
    <3>1. HoldsTx(q)
      BY <1>1, <1>2, <2>4 DEF Shape, HoldsTx, Guarded
    <3>2. q.seen = Lookup(q.toSpace, q.toId)
      BY <1>2, <2>4, <3>1 DEF QuotaInv, Reserved, Shape, Transfers
    <3>3. Usage(q.toSpace) - Claim(rows[q.toId], q.toSpace) + q.size <= Quota[q.toSpace]
      BY <1>2, <2>4, <3>1, <3>2, ClaimIsSize
         DEF QuotaInv, Reserved, Projected, SeenInTx, Upserts, Shape, Transfers
    <3>4. rows'[q.toId] # NoRow /\ rows'[q.toId].space = q.toSpace /\ rows'[q.toId].size = q.size
      <4>1. CASE q.seen = NoRow
        <5>1. rows'[q.toId] = NewRow(q)
          BY <1>1, <1>3, <2>4, <4>1 DEF WriteRows, Tables, Upserts, Transfers
        <5>2. NewRow(q) \in Row
          BY <1>2, <2>4, NewRowType DEF Transfers
        <5>. QED  BY <5>1, <5>2, ItemStoreAssumption DEF NewRow
      <4>2. CASE q.seen # NoRow
        <5>1. PICK u \in UpdatedRows(q) : rows'[q.toId] = u
          BY <1>1, <1>3, <2>4, <4>2 DEF WriteRows, Tables, Upserts, Transfers
        <5>2. rows[q.toId] = q.seen /\ q.seen.space = q.toSpace
          BY <3>2, <4>2 DEF Lookup
        <5>3. UpdatedRows(q) \subseteq Row
          BY <1>2, <4>2, <5>2, UpdatedRowsType
        <5>4. u.space = q.toSpace /\ u.size = q.size
          BY <5>1, <5>2 DEF UpdatedRows, NewRow
        <5>. QED  BY <5>1, <5>3, <5>4, ItemStoreAssumption
      <4>. QED  BY <4>1, <4>2
    <3>5. CASE s = q.toSpace
      <4>1. Claim(rows'[q.toId], s) = q.size
        BY <3>4, <3>5 DEF Claim
      <4>. QED  BY <1>3, <1>4, <1>5, <1>6, <2>1, <3>3, <3>5, <4>1
    <3>6. CASE s # q.toSpace
      <4>1. Claim(rows'[q.toId], s) = 0
        BY <3>4, <3>6 DEF Claim
      <4>. QED  BY <1>3, <1>5, <2>2, <4>1
    <3>. QED  BY <3>5, <3>6
  <2>5. CASE q.op \in Transfers
    <3>1. rows'[q.toId] = NewRow(q) \/ rows'[q.toId] = NoRow
      BY <1>1, <1>3, <2>5 DEF WriteRows, Tables, Upserts, Transfers
    <3>2. CASE HoldsTx(q) /\ s = q.toSpace
      <4>1. Usage(s) + q.size <= Quota[s]
        BY <1>2, <1>4, <2>5, <3>2, ItemStoreAssumption
           DEF QuotaInv, Reserved, Projected, Upserts, Transfers, Handler, Sizes
      <4>2. Claim(rows'[q.toId], s) <= q.size
        BY <1>2, <3>1, ItemStoreAssumption DEF Claim, NewRow, Handler, Sizes
      <4>3. q.size \in Nat
        BY <1>2, ItemStoreAssumption DEF Handler, Sizes
      <4>. QED  BY <1>3, <1>4, <1>5, <1>6, <2>1, <4>1, <4>2, <4>3
    <3>3. CASE ~HoldsTx(q) \/ s # q.toSpace
      <4>1. q.size = 0 \/ s # q.toSpace
        BY <1>1, <1>2, <2>5, <3>3
           DEF HoldsTx, Guarded, Transfers, QuotaInv, SizesAgree, Handler
      <4>2. Claim(rows'[q.toId], s) = 0
        BY <3>1, <4>1 DEF Claim, NewRow
      <4>. QED  BY <1>3, <1>5, <2>2, <4>2
    <3>. QED  BY <3>2, <3>3
  <2>. QED
    BY <1>2, <1>8, <2>3, <2>4, <2>5 DEF Handler, Upserts
<1>. QED  BY <1>7, <1>8
\* While the rows stay, a reservation can be read off the rows of before.
LEMMA ReservedByRows ==
  ASSUME UNCHANGED rows,
         \A p \in Requests : HoldsTx(req'[p]) =>
           /\ req'[p].op = "file" => req'[p].seen = Lookup(req'[p].space, req'[p].item)
           /\ Projected(req'[p]) <= Quota[req'[p].toSpace]
  PROVE  Reserved'
<1>1. \A s : UnitsOf(rows', s) = UnitsOf(rows, s)
  OBVIOUS
<1>. QED
  BY <1>1 DEF Reserved, HoldsTx, Guarded, Lookup, Projected, SeenInTx, SizeOf, Usage

\* A reservation stands while the rows stay and its handler's data stays.
LEMMA ReservedKept ==
  ASSUME Reserved, UNCHANGED rows,
         \A p \in Requests : HoldsTx(req'[p]) =>
           /\ HoldsTx(req[p])
           /\ req'[p].op = req[p].op /\ req'[p].seen = req[p].seen /\ req'[p].size = req[p].size
           /\ req'[p].space = req[p].space /\ req'[p].item = req[p].item
           /\ req'[p].toSpace = req[p].toSpace
  PROVE  Reserved'
<1>1. \A s : UnitsOf(rows', s) = UnitsOf(rows, s)
  OBVIOUS
<1>. QED
  BY <1>1 DEF Reserved, HoldsTx, Guarded, Lookup, Projected, SeenInTx, SizeOf, Usage

LEMMA StartQuota ==
  ASSUME Full, NoConversion, FilesNotEmpty, NEW r \in Requests, Start(r)
  PROVE  SizesAgree' /\ Reserved'
<1> USE DEF Full, LockInv, TypeInv, QuotaInv
<1>1. /\ req[r] = Idle /\ UNCHANGED <<rows, blobs, quotaLock, writer>>
      /\ \A p \in Requests \ {r} : req'[p] = req[p]
  BY DEF Start, StartUpsert, StartDelete, StartTransfer, TypeOK
<1>2. TextSizes = {0} /\ \A n \in FileSizes : n # 0
  BY ItemStoreAssumption DEF NoConversion, FilesNotEmpty, TextSizes, Sizes
<1>3. /\ req'[r].kind = "text" <=> req'[r].size = 0
      /\ req'[r].seen # NoRow => (req'[r].seen.kind = "text" <=> req'[r].seen.size = 0)
      /\ req'[r].op = "text" => req'[r].kind = "text"
      /\ ~HoldsTx(req'[r])
  <2>1. ASSUME NEW s \in Spaces, NEW i \in Items, NEW op \in Upserts, NEW n \in Sizes,
               StartUpsert(r, s, i, op, n), op = "text" => n = 0, op = "file" => n # 0
        PROVE  <1>3!:
    <3>1. req'[r] = [pc |-> IF op = "text" THEN "load" ELSE "lock", op |-> op,
        space |-> s, item |-> i, toSpace |-> s, toId |-> i,
        kind |-> IF op = "text" /\ n <= TextThreshold THEN "text" ELSE "file",
        size |-> n, seen |-> NoRow, reread |-> FALSE]
      BY <2>1 DEF StartUpsert, TypeOK
    <3>. QED  BY <2>1, <3>1, ItemStoreAssumption DEF HoldsTx, Upserts
  <2>2. ASSUME NEW s \in Spaces, NEW i \in Items, StartDelete(r, s, i)
        PROVE  <1>3!:
    BY <2>2 DEF StartDelete, Lookup, SizesAgree, HoldsTx, Guarded, TypeOK
  <2>3. ASSUME NEW s \in Spaces, NEW i \in Items, NEW d \in Spaces, NEW j \in Items,
               NEW op \in Transfers, StartTransfer(r, s, i, d, j, op)
        PROVE  <1>3!:
    BY <2>3 DEF StartTransfer, Lookup, SizesAgree, HoldsTx, Guarded, Transfers, TypeOK, Row
  <2>. QED  BY <1>2, <2>1, <2>2, <2>3, ItemStoreAssumption DEF Start, Upserts, Sizes
<1>4. SizesAgree'
  BY <1>1, <1>3 DEF SizesAgree
<1>5. Reserved'
  BY <1>1, <1>3, ReservedKept
<1>. QED  BY <1>4, <1>5
LEMMA LeaveQuota ==
  ASSUME Full, NEW r \in Requests, Leave(r), UNCHANGED rows
  PROVE  SizesAgree' /\ Reserved' /\ QuotaRespected'
<1>1. req'[r] = Idle /\ \A p \in Requests \ {r} : req'[p] = req[p]
  BY DEF Full, LockInv, TypeInv, TypeOK, Leave
<1>2. ~HoldsTx(req'[r])
  BY <1>1 DEF HoldsTx, Idle
<1>3. Reserved'
  BY <1>1, <1>2, ReservedKept DEF Full, QuotaInv
<1>4. SizesAgree' /\ QuotaRespected'
  BY <1>1 DEF Full, QuotaInv, SizesAgree, QuotaRespected, Usage
<1>. QED  BY <1>3, <1>4

\* No reservation is left while nobody holds the write lock.
LEMMA NoneReserved ==
  ASSUME Full, [Next]_vars, writer' = NoRequest
  PROVE  Reserved'
<1>1. LockDiscipline'
  BY LockStep DEF Full
<1>. QED  BY <1>1, ItemStoreAssumption DEF LockDiscipline, Reserved, HoldsTx, Guarded

LEMMA StepQuota ==
  ASSUME Full, NEW r \in Requests, Step(r)
  PROVE  SizesAgree' /\ Reserved' /\ QuotaRespected'
<1> USE DEF Full, LockInv, TypeInv, QuotaInv
<1> DEFINE q == req[r]
<1>0. q.pc \in Pcs => q \in Handler /\ q # Idle /\ Shape(q)
  BY BusyIsHandler DEF HandlerShape
<1>1. ASSUME UNCHANGED rows  PROVE QuotaRespected'
  BY <1>1 DEF QuotaRespected, Usage
<1>2. CASE LoadExisting(r)
  <2>1. q \in Handler /\ q # Idle /\ UNCHANGED rows
    BY <1>0, <1>2 DEF LoadExisting, Pcs
  <2>2. SizesAgree'
    BY <1>2, <2>1 DEF LoadExisting, SizesAgree, Lookup, TypeOK, Handler
  <2>3. Reserved'
    BY <1>2, <2>1, ReservedKept DEF LoadExisting, HoldsTx, Guarded, TypeOK, Handler
  <2>. QED  BY <1>1, <2>1, <2>2, <2>3
<1>3. CASE AcquireQuotaLock(r)
  <2>1. q \in Handler /\ q # Idle /\ UNCHANGED rows
    BY <1>0, <1>3 DEF AcquireQuotaLock, Pcs
  <2>2. SizesAgree'
    BY <1>3, <2>1 DEF AcquireQuotaLock, SizesAgree, TypeOK, Handler
  <2>3. Reserved'
    BY <1>3, <2>1, ReservedKept DEF AcquireQuotaLock, HoldsTx, TypeOK, Handler
  <2>. QED  BY <1>1, <2>1, <2>2, <2>3
<1>4. CASE CheckQuota(r)
  <2> DEFINE next == [q EXCEPT !.pc = "blob", !.seen = SeenInTx(q)]
  <2>1. /\ q \in Handler /\ q # Idle /\ Shape(q) /\ UNCHANGED rows
        /\ req' = [req EXCEPT ![r] = next]
        /\ Projected(q) <= Quota[q.toSpace]
    BY <1>0, <1>4 DEF CheckQuota, Pcs
  <2>2. /\ req'[r] = next /\ \A p \in Requests \ {r} : req'[p] = req[p]
        /\ next.op = q.op /\ next.space = q.space /\ next.item = q.item
        /\ next.toSpace = q.toSpace /\ next.size = q.size /\ next.kind = q.kind
        /\ next.seen = SeenInTx(q)
    BY <2>1 DEF TypeOK, Handler
  <2>3. SizesAgree'
    BY <2>1, <2>2 DEF SizesAgree, Lookup, SeenInTx, Handler
  <2>4. SeenInTx(next) = SeenInTx(q)
    BY <2>2 DEF SeenInTx
  <2>5. /\ next.op = "file" => next.seen = Lookup(next.space, next.item)
        /\ Projected(next) <= Quota[next.toSpace]
    BY <2>1, <2>2, <2>4 DEF SeenInTx, Projected
  <2>6. Reserved'
    <3> HIDE DEF next
    <3>1. ASSUME NEW p \in Requests, HoldsTx(req'[p])
          PROVE  /\ req'[p].op = "file" => req'[p].seen = Lookup(req'[p].space, req'[p].item)
                 /\ Projected(req'[p]) <= Quota[req'[p].toSpace]
      <4>1. CASE p = r
        BY <2>2, <2>5, <4>1
      <4>2. CASE p # r
        <5>1. req'[p] = req[p]
          BY <2>2, <4>2
        <5>. QED  BY <3>1, <5>1 DEF Reserved
      <4>. QED  BY <4>1, <4>2
    <3>. QED  BY <2>1, <3>1, ReservedByRows
  <2>. QED  BY <1>1, <2>1, <2>3, <2>6
<1>5. CASE RejectOverQuota(r)
  BY <1>5, LeaveQuota DEF RejectOverQuota
<1>6. CASE SaveBlob(r)
  <2>1. q \in Handler /\ q # Idle /\ UNCHANGED rows
    BY <1>0, <1>6 DEF SaveBlob, Pcs
  <2>2. SizesAgree'
    BY <1>6, <2>1 DEF SaveBlob, SizesAgree, TypeOK, Handler
  <2>3. Reserved'
    BY <1>6, <2>1, ReservedKept DEF SaveBlob, HoldsTx, Guarded, TypeOK, Handler
  <2>. QED  BY <1>1, <2>1, <2>2, <2>3
<1>7. CASE SaveBlobFails(r)
  BY <1>7, LeaveQuota DEF SaveBlobFails
<1>8. CASE RereadSource(r)
  <2>1. q \in Handler /\ q # Idle /\ UNCHANGED rows
    BY <1>0, <1>8 DEF RereadSource, Pcs
  <2>2. SizesAgree'
    BY <1>8, <2>1 DEF RereadSource, SizesAgree, TypeOK, Handler
  <2>3. Reserved'
    BY <1>8, <2>1, ReservedKept DEF RereadSource, HoldsTx, Guarded, TypeOK, Handler
  <2>. QED  BY <1>1, <2>1, <2>2, <2>3
<1>9. CASE SaveChanges(r)
  <2>1. q \in Handler /\ q # Idle
    BY <1>0, <1>9 DEF SaveChanges, Pcs
  <2>2. writer' = NoRequest
    BY <1>9 DEF SaveChanges, Leave
  <2>3. Reserved'
    BY <1>9, <2>2, NoneReserved DEF Next, Step
  <2>4. SizesAgree'
    <3>1. \A p \in Requests : req'[p] # Idle =>
            /\ req[p] # Idle
            /\ req'[p].op = req[p].op /\ req'[p].kind = req[p].kind
            /\ req'[p].size = req[p].size /\ req'[p].seen = req[p].seen
      <4>1. \/ req' = [req EXCEPT ![r].pc = "clean"]
            \/ req' = [req EXCEPT ![r] = Idle]
        BY <1>9 DEF SaveChanges, Leave
      <4>. QED  BY <2>1, <4>1 DEF TypeOK, Handler
    <3>2. \A i \in Items : rows'[i] # NoRow => AgreeRow(rows'[i])
      BY <1>9, WriteAgrees
    <3>. QED  BY <3>1, <3>2 DEF SizesAgree, AgreeRow
  <2>5. QuotaRespected'
    BY <1>9, WriteBound
  <2>. QED  BY <2>3, <2>4, <2>5
<1>10. CASE SaveChangesFails(r)
  BY <1>10, LeaveQuota DEF SaveChangesFails
<1>11. CASE DeleteStaleBlob(r)
  BY <1>11, LeaveQuota DEF DeleteStaleBlob
<1>. QED
  BY <1>2, <1>3, <1>4, <1>5, <1>6, <1>7, <1>8, <1>9, <1>10, <1>11 DEF Step

LEMMA SweepQuota ==
  ASSUME Full, NEW i \in Items, Sweep(i)
  PROVE  SizesAgree' /\ Reserved' /\ QuotaRespected'
<1> USE DEF Full, LockInv, TypeInv, QuotaInv
<1>1. /\ rows' = [rows EXCEPT ![i] = NoRow] /\ UNCHANGED req
      /\ rows \in Tables /\ rows' \in Tables /\ writer' = NoRequest
  BY DEF Sweep, TypeOK, Tables
<1>2. Reserved'
  BY <1>1, NoneReserved DEF Next
<1>3. SizesAgree'
  BY <1>1 DEF SizesAgree, Tables
<1>4. ASSUME NEW s \in Spaces
      PROVE  Cardinality(UnitsOf(rows', s)) <= Quota[s]
  <2>1. \A j \in Items \ {i} : rows'[j] \in {rows[j], NoRow}
    BY <1>1 DEF Tables
  <2>2. Claim(rows'[i], s) = 0 /\ Claim(rows[i], s) \in Nat
    BY <1>1, ItemStoreAssumption DEF Claim, Tables, Row, Sizes
  <2>3. Cardinality(UnitsOf(rows', s)) <= Cardinality(UnitsOf(rows, s)) - Claim(rows[i], s) + Claim(rows'[i], s)
    BY <1>1, <2>1, StoreBound
  <2>4. /\ Cardinality(UnitsOf(rows', s)) \in Nat /\ Cardinality(UnitsOf(rows, s)) \in Nat
        /\ Quota[s] \in Nat /\ Cardinality(UnitsOf(rows, s)) <= Quota[s]
    BY <1>1, UnitsFinite, ItemStoreAssumption DEF QuotaRespected, Usage
  <2>. QED  BY <2>2, <2>3, <2>4
<1>5. QuotaRespected'
  BY <1>4 DEF QuotaRespected, Usage, UnitsOf
<1>. QED  BY <1>2, <1>3, <1>5

LEMMA QuotaStep ==
  ASSUME NoConversion, FilesNotEmpty, Full, [Next]_vars
  PROVE  QuotaInv'
<1> USE DEF Full, QuotaInv
<1>1. ASSUME NEW r \in Requests, Start(r)  PROVE QuotaInv'
  <2>1. UNCHANGED rows
    BY <1>1 DEF Start, StartUpsert, StartDelete, StartTransfer
  <2>. QED  BY <1>1, <2>1, StartQuota DEF QuotaRespected, Usage
<1>2. ASSUME NEW r \in Requests, Step(r)  PROVE QuotaInv'
  BY <1>2, StepQuota
<1>3. ASSUME NEW r \in Requests, Abort(r)  PROVE QuotaInv'
  BY <1>3, LeaveQuota DEF Abort
<1>4. CASE Crash
  <2>1. UNCHANGED rows /\ writer' = NoRequest /\ \A p \in Requests : req'[p] = Idle
    BY <1>4 DEF Crash
  <2>2. Reserved'
    BY <2>1, NoneReserved
  <2>. QED  BY <2>1, <2>2 DEF SizesAgree, QuotaRespected, Usage
<1>5. ASSUME NEW i \in Items, Sweep(i)  PROVE QuotaInv'
  BY <1>5, SweepQuota
<1>6. CASE UNCHANGED vars
  <2>1. Reserved'
    BY <1>6, ReservedKept DEF vars
  <2>. QED  BY <1>6, <2>1 DEF vars, SizesAgree, QuotaRespected, Usage
<1>. QED  BY <1>1, <1>2, <1>3, <1>4, <1>5, <1>6 DEF Next

LEMMA QuotaInit == Init => QuotaInv
<1> SUFFICES ASSUME Init  PROVE QuotaInv
  OBVIOUS
<1>1. SizesAgree /\ Reserved
  BY DEF Init, SizesAgree, Reserved, HoldsTx, Idle
<1>2. ASSUME NEW s \in Spaces  PROVE Usage(s) <= Quota[s]
  <2>1. UnitsOf(rows, s) = {}
    BY DEF Init, UnitsOf
  <2>. QED  BY <2>1, FS_EmptySet, ItemStoreAssumption DEF Usage
<1>. QED  BY <1>1, <1>2 DEF QuotaInv, QuotaRespected

\* As long as texts stay inline and files are not empty, concurrent uploads,
\* deletions and transfers never take a space over its quota, whatever fails:
\* the check of one handler holds until its commit, since the semaphore and the
\* transaction keep every other writer out (ItemEndpoints.cs).
THEOREM QuotaSafe ==
  ASSUME NoConversion, FilesNotEmpty
  PROVE  Spec => []QuotaRespected
<1>1. Init => Full
  BY TypeInit, LockInit, QuotaInit DEF Full, LockInv
<1>2. Full /\ [Next]_vars => Full'
  BY TypeStep, LockStep, QuotaStep DEF Full, LockInv
<1>3. Full => QuotaRespected
  BY DEF Full, QuotaInv
<1>. QED  BY <1>1, <1>2, <1>3, PTL DEF Spec

(***************************************************************************)
(* Whole rows.                                                             *)
(***************************************************************************)
\* The server has one request at a time to deal with.
OneRequest == \A r1, r2 \in Requests : r1 = r2

Whole(row) == IF row.kind = "file" THEN row.content = "name" ELSE row.content = "body" /\ row.size = 0

\* What a handler has seen, and what it means to store.
SeenWhole ==
  \A r \in Requests : req[r] # Idle =>
    /\ req[r].seen # NoRow => Whole(req[r].seen)
    /\ req[r].kind = "text" => req[r].size = 0

\* The row an upsert is about to update, when there are texts to mix up with
\* files, is the one it has seen.
Steady ==
  "text" \in Ops =>
    \A r \in Requests :
      req[r] # Idle /\ req[r].op \in Upserts /\ req[r].pc # "clean" /\ req[r].seen # NoRow =>
        rows[req[r].toId] \in {req[r].seen, NoRow}

\* Without texts there are only files.
NoTexts ==
  "text" \notin Ops =>
    /\ \A i \in Items : rows[i] # NoRow => rows[i].kind = "file"
    /\ \A r \in Requests : req[r] # Idle =>
         req[r].kind = "file" /\ (req[r].seen # NoRow => req[r].seen.kind = "file")

WholeInv == RowIsWhole /\ SeenWhole /\ Steady /\ NoTexts

\* What the operator calls a whole row, row by row.
LEMMA WholeRows ==
  ASSUME TypeOK
  PROVE  RowIsWhole <=> \A i \in Items : rows[i] # NoRow => Whole(rows[i])
BY DEF RowIsWhole, IsFile, Whole

\* Steps that change no row.
LEMMA SameRowsWhole ==
  ASSUME TypeInv, WholeInv, NEW r \in Requests, NEW q \in Handler \cup {Idle},
         rows' = rows, req' = [req EXCEPT ![r] = q],
         q # Idle =>
           /\ req[r] # Idle /\ q.op = req[r].op /\ q.kind = req[r].kind /\ q.size = req[r].size
           /\ q.toId = req[r].toId
           /\ \/ q.seen = req[r].seen /\ req[r].pc # "clean"
              \/ q.seen = Lookup(req[r].space, req[r].toId)
  PROVE  WholeInv'
<1>1. \A p \in Requests : req'[p] = IF p = r THEN q ELSE req[p]
  BY DEF TypeInv, TypeOK
<1>2. q # Idle => req[r].toId \in Items
  BY DEF TypeInv, TypeOK, Handler
<1>3. q # Idle /\ q.seen # NoRow =>
        (q.seen = req[r].seen /\ req[r].pc # "clean") \/ q.seen = rows[q.toId]
  BY DEF Lookup
<1>4. SeenWhole'
  BY <1>1, <1>2, <1>3, WholeRows DEF WholeInv, SeenWhole, TypeInv
<1>5. Steady'
  BY <1>1, <1>3 DEF WholeInv, Steady
<1>6. NoTexts'
  BY <1>1, <1>2, <1>3 DEF WholeInv, NoTexts
<1>. QED
  BY <1>4, <1>5, <1>6 DEF WholeInv, RowIsWhole, IsFile

LEMMA LeaveWhole ==
  ASSUME TypeInv, WholeInv, NEW r \in Requests, Leave(r), rows' = rows
  PROVE  WholeInv'
BY SameRowsWhole DEF Leave

LEMMA StartWhole ==
  ASSUME TypeInv, WholeInv, NEW r \in Requests, Start(r)
  PROVE  WholeInv'
<1>1. \A i \in Items : rows[i] # NoRow => rows[i] \in Row /\ Whole(rows[i])
  BY WholeRows DEF WholeInv, TypeInv, TypeOK
<1> DEFINE Sound(q) ==
      /\ q.kind \in {"text", "file"}
      /\ q.kind = "text" => q.size = 0
      /\ q.kind = "text" =>
           "text" \in Ops \/ \E i \in Items : rows[i] # NoRow /\ rows[i].kind = "text"
      /\ q.op \in Upserts => q.seen = NoRow
      /\ q.seen # NoRow => Whole(q.seen) /\ \E i \in Items : rows[i] = q.seen
<1>2. rows' = rows /\ (\A p \in Requests \ {r} : req'[p] = req[p]) /\ Sound(req'[r])
  <2>1. PICK s \in Spaces, i \in Items :
          \/ \E n \in TextSizes : StartUpsert(r, s, i, "text", n)
          \/ \E n \in FileSizes : StartUpsert(r, s, i, "file", n)
          \/ StartDelete(r, s, i)
          \/ \E d \in Spaces, j \in Items, op \in Transfers : StartTransfer(r, s, i, d, j, op)
    BY DEF Start
  <2>2. ASSUME NEW op \in Upserts, NEW n \in Sizes, StartUpsert(r, s, i, op, n),
               op = "text" => n \in TextSizes
        PROVE  rows' = rows /\ (\A p \in Requests \ {r} : req'[p] = req[p]) /\ Sound(req'[r])
    BY <2>2, ItemStoreAssumption DEF StartUpsert, TextSizes, Sizes, Upserts, TypeInv, TypeOK
  <2>3. CASE StartDelete(r, s, i)
    BY <1>1, <2>3 DEF StartDelete, Lookup, Row, Whole, Upserts, TypeInv, TypeOK
  <2>4. ASSUME NEW d \in Spaces, NEW j \in Items, NEW op \in Transfers, StartTransfer(r, s, i, d, j, op)
        PROVE  rows' = rows /\ (\A p \in Requests \ {r} : req'[p] = req[p]) /\ Sound(req'[r])
    BY <1>1, <2>4 DEF StartTransfer, Lookup, Row, Whole, Upserts, Transfers, TypeInv, TypeOK
  <2>5. TextSizes \subseteq Sizes /\ FileSizes \subseteq Sizes
    BY ItemStoreAssumption DEF TextSizes, Sizes
  <2>. QED
    BY <2>1, <2>2, <2>3, <2>4, <2>5 DEF Upserts
<1>3. RowIsWhole' /\ SeenWhole'
  BY <1>2 DEF WholeInv, RowIsWhole, IsFile, SeenWhole
<1>4. Steady'
  BY <1>2 DEF WholeInv, Steady
<1>5. NoTexts'
  BY <1>2 DEF WholeInv, NoTexts
<1>. QED
  BY <1>3, <1>4, <1>5 DEF WholeInv

\* A slot that goes on with its handler runs one.
LEMMA StepBusy ==
  ASSUME TypeInv, NEW r \in Requests, Step(r)
  PROVE  req[r] \in Handler /\ req[r] # Idle /\ Shape(req[r])
<1>1. req[r].pc \in Pcs
  BY DEF Step, LoadExisting, AcquireQuotaLock, CheckQuota, RejectOverQuota, SaveBlob, SaveBlobFails,
         RereadSource, SaveChanges, SaveChangesFails, DeleteStaleBlob, Pcs
<1>. QED
  BY <1>1, BusyIsHandler DEF TypeInv, HandlerShape

LEMMA SaveWhole ==
  ASSUME OneRequest \/ "text" \notin Ops, TypeInv, WholeInv, NEW r \in Requests, SaveChanges(r)
  PROVE  WholeInv'
<1> DEFINE q == req[r]
<1>1. q \in Handler /\ q # Idle /\ Shape(q) /\ ~Conflict(q) /\ WriteRows(q)
  BY BusyIsHandler DEF SaveChanges, Pcs, TypeInv, HandlerShape
<1>2. /\ rows \in [Items -> Row \cup {NoRow}] /\ q.toId \in Items /\ q.item \in Items
      /\ \A i \in Items : rows[i] # NoRow => Whole(rows[i])
  BY <1>1, WholeRows DEF WholeInv, TypeInv, TypeOK, Handler
<1> DEFINE Good(row) == Whole(row) /\ ("text" \notin Ops => row.kind = "file")
<1>3. Good(NewRow(q))
  <2>1. /\ q.kind = "text" => q.size = 0
        /\ "text" \notin Ops => q.kind = "file"
        /\ q.kind \in {"text", "file"}
    BY <1>1 DEF WholeInv, SeenWhole, NoTexts, Handler
  <2>2. CASE q.op \in Transfers
    <3>1. q.seen \in Row /\ Whole(q.seen) /\ q.kind = q.seen.kind /\ q.size = q.seen.size
      BY <1>1, <2>2, ItemStoreAssumption DEF WholeInv, SeenWhole, Shape, Upserts, Transfers
    <3>. QED
      BY <2>1, <2>2, <3>1 DEF NewRow, Whole
  <2>3. CASE q.op \notin Transfers
    BY <2>1, <2>3 DEF NewRow, Whole
  <2>. QED
    BY <2>2, <2>3
<1>4. ASSUME q.op \in Upserts, q.seen # NoRow, NEW u \in UpdatedRows(q) PROVE Good(u)
  <2> DEFINE now == rows[q.toId]
             new == NewRow(q)
  <2>1. /\ now \in Row /\ Whole(now) /\ q.seen \in Row /\ Whole(q.seen)
        /\ "text" \in Ops => now = q.seen
        /\ "text" \notin Ops => now.kind = "file" /\ q.seen.kind = "file" /\ q.kind = "file"
    BY <1>1, <1>2, <1>4 DEF SaveChanges, Conflict, WholeInv, SeenWhole, Steady, NoTexts, Handler
  <2>2. /\ u.kind = IF q.seen.kind # new.kind THEN new.kind ELSE now.kind
        /\ u.size = IF q.seen.size # new.size THEN new.size ELSE now.size
        /\ \/ u.content = new.content
           \/ u.content = IF q.seen.content # new.content THEN new.content ELSE now.content
    BY <1>4 DEF UpdatedRows
  <2>3. CASE "text" \in Ops
    <3>1. u.kind = new.kind /\ u.size = new.size /\ u.content = new.content
      BY <2>1, <2>2, <2>3
    <3>. QED
      BY <1>3, <2>3, <3>1 DEF Whole
  <2>4. CASE "text" \notin Ops
    <3>1. new.kind = "file" /\ new.content = "name"
      BY <1>3, <2>4 DEF Whole
    <3>. QED
      BY <2>1, <2>2, <2>4, <3>1 DEF Whole
  <2>. QED
    BY <2>3, <2>4
<1>5. \A i \in Items : rows'[i] # NoRow => Good(rows'[i])
  <2>1. \A i \in Items : rows[i] # NoRow => Good(rows[i])
    BY <1>2 DEF WholeInv, NoTexts
  <2> HIDE DEF Good
  <2>. QED
    BY <1>1, <1>2, <1>3, <1>4, <2>1 DEF WriteRows
<1>6. /\ \A p \in Requests \ {r} : req'[p] = req[p]
      /\ req'[r] = Idle \/ (req'[r] = [q EXCEPT !.pc = "clean"])
  BY DEF SaveChanges, Leave, TypeInv, TypeOK
<1>7. \A p \in Requests : req'[p] # Idle =>
        /\ req[p] # Idle /\ req'[p].seen = req[p].seen
        /\ req'[p].kind = req[p].kind /\ req'[p].size = req[p].size
  BY <1>1, <1>6 DEF Handler
<1>8. SeenWhole'
  BY <1>7 DEF WholeInv, SeenWhole
<1>9. Steady'
  <2>1. CASE OneRequest
    <3>1. \A p \in Requests : req'[p] # Idle => req'[p].pc = "clean"
      BY <1>1, <1>6, <2>1 DEF OneRequest, Handler
    <3>. QED
      BY <3>1 DEF Steady
  <2>. QED
    BY <2>1 DEF Steady
<1>10. NoTexts'
  BY <1>5, <1>7 DEF WholeInv, NoTexts
<1>11. RowIsWhole'
  BY <1>5 DEF RowIsWhole, IsFile, Whole
<1>. QED
  BY <1>8, <1>9, <1>10, <1>11 DEF WholeInv

LEMMA StepWhole ==
  ASSUME OneRequest \/ "text" \notin Ops, TypeInv, WholeInv, NEW r \in Requests, Step(r)
  PROVE  WholeInv'
<1> DEFINE q == req[r]
<1>1. q \in Handler /\ q # Idle /\ Shape(q)
  BY StepBusy
<1>2. CASE LoadExisting(r)
  <2>1. PICK next : next = [q EXCEPT !.pc = IF q.kind = "file" THEN "lock" ELSE "save",
                                     !.seen = Lookup(q.space, q.item)]
    OBVIOUS
  <2>2. /\ q.toId = q.item /\ rows' = rows /\ req' = [req EXCEPT ![r] = next]
    BY <1>1, <1>2, <2>1 DEF LoadExisting, Shape, Transfers
  <2>3. next \in Handler
    BY <1>1, <2>1, LookupType DEF Handler, Pcs, TypeInv
  <2>. QED
    BY <1>1, <2>1, <2>2, <2>3, SameRowsWhole DEF Handler
<1>3. CASE CheckQuota(r)
  <2>1. PICK next : next = [q EXCEPT !.pc = "blob", !.seen = SeenInTx(q)]
    OBVIOUS
  <2>2. /\ q.pc = "begin" /\ rows' = rows /\ req' = [req EXCEPT ![r] = next]
        /\ q.op = "file" => q.toId = q.item
    BY <1>1, <1>3, <2>1 DEF CheckQuota, Shape, Transfers
  <2>3. next \in Handler
    BY <1>1, <2>1, LookupType DEF Handler, Pcs, SeenInTx, TypeInv
  <2>. QED
    BY <1>1, <2>1, <2>2, <2>3, SameRowsWhole DEF Handler, SeenInTx
<1>4. CASE AcquireQuotaLock(r) \/ SaveBlob(r) \/ RereadSource(r)
  <2>1. PICK pc \in Pcs, reread \in BOOLEAN :
          req' = [req EXCEPT ![r] = [q EXCEPT !.pc = pc, !.reread = reread]]
    <3>1. q.reread \in BOOLEAN /\ \A pc \in Pcs : [q EXCEPT !.pc = pc, !.reread = q.reread] = [q EXCEPT !.pc = pc]
      BY <1>1 DEF Handler
    <3>2. CASE AcquireQuotaLock(r)
      BY <3>1, <3>2 DEF AcquireQuotaLock, Pcs
    <3>3. CASE SaveBlob(r)
      BY <3>1, <3>3 DEF SaveBlob, Pcs
    <3>4. CASE RereadSource(r)
      BY <3>4 DEF RereadSource, Pcs
    <3>. QED
      BY <1>4, <3>2, <3>3, <3>4
  <2>2. PICK next : next = [q EXCEPT !.pc = pc, !.reread = reread]
    OBVIOUS
  <2>3. next \in Handler /\ q.pc # "clean" /\ rows' = rows
    BY <1>1, <1>4, <2>2 DEF AcquireQuotaLock, SaveBlob, RereadSource, Handler
  <2>. QED
    BY <1>1, <2>1, <2>2, <2>3, SameRowsWhole DEF Handler
<1>5. CASE RejectOverQuota(r) \/ SaveBlobFails(r) \/ SaveChangesFails(r) \/ DeleteStaleBlob(r)
  BY <1>5, LeaveWhole DEF RejectOverQuota, SaveBlobFails, SaveChangesFails, DeleteStaleBlob
<1>. QED
  BY <1>2, <1>3, <1>4, <1>5, SaveWhole DEF Step

LEMMA WholeStep ==
  ASSUME OneRequest \/ "text" \notin Ops, TypeInv, WholeInv, [Next]_vars
  PROVE  WholeInv'
<1>1. ASSUME NEW r \in Requests, Start(r) \/ Step(r) \/ Abort(r) PROVE WholeInv'
  BY <1>1, StartWhole, StepWhole, LeaveWhole DEF Abort
<1>2. CASE Crash
  BY <1>2 DEF Crash, WholeInv, RowIsWhole, IsFile, SeenWhole, Steady, NoTexts
<1>3. ASSUME NEW i \in Items, Sweep(i) PROVE WholeInv'
  <2>1. req' = req /\ \A j \in Items : rows'[j] \in {rows[j], NoRow}
    BY <1>3 DEF Sweep, TypeInv, TypeOK
  <2>2. \A r \in Requests : req[r] # Idle => req[r].toId \in Items
    BY DEF TypeInv, TypeOK, Handler
  <2>3. RowIsWhole' /\ SeenWhole' /\ NoTexts'
    BY <2>1 DEF WholeInv, RowIsWhole, IsFile, SeenWhole, NoTexts
  <2>4. Steady'
    BY <2>1, <2>2 DEF WholeInv, Steady
  <2>. QED
    BY <2>3, <2>4 DEF WholeInv
<1>4. CASE UNCHANGED vars
  BY <1>4 DEF vars, WholeInv, RowIsWhole, IsFile, SeenWhole, Steady, NoTexts
<1>. QED
  BY <1>1, <1>2, <1>3, <1>4 DEF Next

\* A text row takes no storage and holds text, a file row holds a file name, as
\* long as requests come one by one or none of them writes a text: an upsert then
\* never puts the columns it changes into a row of the other kind, whatever fails
\* and whatever the sweep deletes meanwhile (UpsertItem).
THEOREM RowsStayWhole ==
  ASSUME OneRequest \/ "text" \notin Ops
  PROVE  Spec => []RowIsWhole
<1>1. Init => TypeInv /\ WholeInv
  BY TypeInit DEF Init, WholeInv, RowIsWhole, IsFile, SeenWhole, Steady, NoTexts
<1>2. TypeInv /\ WholeInv /\ [Next]_vars => (TypeInv /\ WholeInv)'
  BY TypeStep, WholeStep
<1>3. WholeInv => RowIsWhole
  BY DEF WholeInv
<1>. QED
  BY <1>1, <1>2, <1>3, PTL DEF Spec

(***************************************************************************)
(* One request at a time, and no sweep.                                    *)
(***************************************************************************)
\* The rows handler q acts on, or is about to replace, are those it has seen.
CurrentOf(q) ==
  /\ q.op \in Transfers \cup {"delete"} => rows[q.item] = q.seen /\ q.seen.space = q.space
  /\ q.op \in Transfers => rows[q.toId] = NoRow
  /\ q.op = "move" /\ q.pc = "save" => q.reread
  /\ (q.op = "text" /\ q.pc # "load") \/ (q.op = "file" /\ q.pc \in {"blob", "save"})
       => q.seen = Lookup(q.space, q.item)

Current == \A r \in Requests : req[r] # Idle /\ req[r].pc # "clean" => CurrentOf(req[r])

\* The only writers are the handlers.
Undisturbed == OneRequest /\ "sweep" \notin Ops

LEMMA StartCurrent ==
  ASSUME OneRequest, TypeInv, NEW r \in Requests, Start(r)
  PROVE  Current'
<1>1. PICK s \in Spaces, i \in Items :
        \/ \E n \in TextSizes : StartUpsert(r, s, i, "text", n)
        \/ \E n \in FileSizes : StartUpsert(r, s, i, "file", n)
        \/ StartDelete(r, s, i)
        \/ \E d \in Spaces, j \in Items, op \in Transfers : StartTransfer(r, s, i, d, j, op)
  BY DEF Start
<1> DEFINE Started(q) ==
             /\ q.op \in Transfers \cup {"delete"} => rows[q.item] = q.seen /\ q.seen.space = q.space
             /\ q.op \in Transfers => rows[q.toId] = NoRow
             /\ q.op = "move" => q.pc # "save"
             /\ q.op = "text" => q.pc = "load"
             /\ q.op = "file" => q.pc = "lock"
<1>2. rows' = rows /\ Started(req'[r])
  <2>1. ASSUME NEW op \in Upserts, NEW n, StartUpsert(r, s, i, op, n)
        PROVE  rows' = rows /\ Started(req'[r])
    BY <2>1 DEF StartUpsert, Upserts, Transfers, TypeInv, TypeOK
  <2>2. CASE StartDelete(r, s, i)
    BY <2>2 DEF StartDelete, Lookup, Transfers, TypeInv, TypeOK
  <2>3. ASSUME NEW d \in Spaces, NEW j \in Items, NEW op \in Transfers, StartTransfer(r, s, i, d, j, op)
        PROVE  rows' = rows /\ Started(req'[r])
    BY <2>3 DEF StartTransfer, Lookup, Fresh, Transfers, TypeInv, TypeOK
  <2>. QED
    BY <1>1, <2>1, <2>2, <2>3 DEF Upserts
<1>3. CurrentOf(req[r])'
  BY <1>2 DEF CurrentOf
<1>. QED
  BY <1>3 DEF Current, OneRequest

\* A step of the handler that leaves it in the slot without saving yet.
LEMMA StepCurrent ==
  ASSUME OneRequest, TypeInv, Current, NEW r \in Requests, Step(r)
  PROVE  Current'
<1> DEFINE q == req[r]
<1>1. q \in Handler /\ q # Idle /\ Shape(q)
  BY StepBusy
<1>2. req'[r] = Idle \/ req'[r].pc = "clean" \/ CurrentOf(req[r])'
  <2>1. CASE LoadExisting(r)
    <3>1. /\ q.op = "text" /\ rows' = rows
          /\ req'[r] = [q EXCEPT !.pc = IF q.kind = "file" THEN "lock" ELSE "save",
                                 !.seen = Lookup(q.space, q.item)]
      BY <1>1, <2>1 DEF LoadExisting, Shape, TypeInv, TypeOK
    <3>. QED
      BY <1>1, <3>1 DEF CurrentOf, Transfers, Lookup, Handler
  <2>2. CASE CheckQuota(r)
    <3>1. /\ q.pc = "begin" /\ rows' = rows /\ CurrentOf(q)
          /\ req'[r] = [q EXCEPT !.pc = "blob", !.seen = SeenInTx(q)]
      BY <1>1, <2>2 DEF CheckQuota, Current, TypeInv, TypeOK
    <3>. QED
      BY <1>1, <3>1 DEF CurrentOf, SeenInTx, Transfers, Lookup, Handler
  <2>3. CASE AcquireQuotaLock(r)
    <3>1. /\ q.pc = "lock" /\ rows' = rows /\ CurrentOf(q)
          /\ req'[r] = [q EXCEPT !.pc = "begin"]
      BY <1>1, <2>3 DEF AcquireQuotaLock, Current, TypeInv, TypeOK
    <3>. QED
      BY <1>1, <3>1 DEF CurrentOf, Lookup, Handler
  <2>4. CASE SaveBlob(r)
    <3>1. /\ q.pc = "blob" /\ rows' = rows /\ CurrentOf(q)
          /\ req'[r] = [q EXCEPT !.pc = IF q.op = "move" THEN "reread" ELSE "save"]
      BY <1>1, <2>4 DEF SaveBlob, Current, TypeInv, TypeOK
    <3>. QED
      BY <1>1, <3>1 DEF CurrentOf, Lookup, Handler
  <2>5. CASE RereadSource(r)
    <3>1. /\ q.op = "move" /\ rows' = rows /\ CurrentOf(q) /\ q.seen \in Row
          /\ req'[r] = [q EXCEPT !.pc = "save", !.reread = Lookup(q.space, q.item) # NoRow]
      BY <1>1, <2>5 DEF RereadSource, Current, Shape, Upserts, TypeInv, TypeOK
    <3>2. Lookup(q.space, q.item) # NoRow
      BY <3>1, ItemStoreAssumption DEF CurrentOf, Lookup, Transfers
    <3>. QED
      BY <1>1, <3>1, <3>2 DEF CurrentOf, Lookup, Handler
  <2>6. CASE SaveChanges(r)
    BY <1>1, <2>6 DEF SaveChanges, Leave, Handler, TypeInv, TypeOK
  <2>7. CASE RejectOverQuota(r) \/ SaveBlobFails(r) \/ SaveChangesFails(r) \/ DeleteStaleBlob(r)
    BY <2>7 DEF RejectOverQuota, SaveBlobFails, SaveChangesFails, DeleteStaleBlob, Leave, TypeInv, TypeOK
  <2>. QED
    BY <2>1, <2>2, <2>3, <2>4, <2>5, <2>6, <2>7 DEF Step
<1>. QED
  BY <1>2 DEF Current, OneRequest

LEMMA CurrentStep ==
  ASSUME Undisturbed, TypeInv, Current, [Next]_vars
  PROVE  Current'
<1>1. ASSUME NEW r \in Requests, Start(r) \/ Step(r) PROVE Current'
  BY <1>1, StartCurrent, StepCurrent DEF Undisturbed
<1>2. ASSUME NEW r \in Requests, Abort(r) PROVE Current'
  BY <1>2 DEF Abort, Leave, Current, Undisturbed, OneRequest, TypeInv, TypeOK
<1>3. CASE Crash
  BY <1>3 DEF Crash, Current
<1>4. CASE UNCHANGED vars
  BY <1>4 DEF vars, Current, CurrentOf, Lookup
<1>. QED
  BY <1>1, <1>2, <1>3, <1>4 DEF Next, Sweep, Undisturbed

\* A move takes away the very row it copied, in the step that inserts the copy,
\* when nothing else writes the table meanwhile; whatever fails, and after a
\* restart (TransferItemSameServer).
THEOREM MovesAreWhole ==
  ASSUME Undisturbed
  PROVE  Spec => MoveIsOneUnit
<1>1. Init => TypeInv /\ Current
  BY TypeInit DEF Init, Current
<1>2. TypeInv /\ Current /\ [Next]_vars => (TypeInv /\ Current)'
  BY TypeStep, CurrentStep
<1>3. ASSUME TypeInv, Current, [Next]_vars, NEW r \in Requests, req[r].pc = "save", req[r].op = "move",
             rows'[req[r].toId] # rows[req[r].toId]
      PROVE  rows[req[r].item] = req[r].seen /\ rows'[req[r].item] = NoRow
  <2>1. PICK p \in Requests : SaveChanges(p)
    <3>1. ASSUME NEW p \in Requests, Start(p) \/ Step(p) \/ Abort(p), rows' # rows PROVE SaveChanges(p)
      <4>1. ~Start(p) /\ ~Abort(p)
        BY <3>1 DEF Start, StartUpsert, StartDelete, StartTransfer, Abort
      <4>. QED
        BY <3>1, <4>1
           DEF Step, LoadExisting, AcquireQuotaLock, CheckQuota, RejectOverQuota, SaveBlob,
               SaveBlobFails, RereadSource, SaveChangesFails, DeleteStaleBlob
    <3>2. rows' # rows
      BY <1>3
    <3>3. ~Crash /\ ~UNCHANGED vars /\ \A i \in Items : ~Sweep(i)
      BY <3>2 DEF Crash, Sweep, Undisturbed, vars
    <3>. QED
      BY <1>3, <3>1, <3>2, <3>3 DEF Next
  <2>2. p = r
    BY DEF Undisturbed, OneRequest
  <2>3. req[r] \in Handler /\ Shape(req[r]) /\ CurrentOf(req[r]) /\ WriteRows(req[r])
    BY <1>3, <2>1, <2>2, BusyIsHandler DEF SaveChanges, Current, TypeInv, HandlerShape, Pcs
  <2>4. rows[req[r].item] = req[r].seen /\ req[r].reread
    BY <1>3, <2>3 DEF CurrentOf, Transfers
  <2>5. rows' = [rows EXCEPT ![req[r].toId] = NewRow(req[r]), ![req[r].item] = NoRow]
    BY <1>3, <2>3, <2>4 DEF WriteRows, Upserts, Transfers
  <2>. QED
    BY <1>3, <2>3, <2>4, <2>5 DEF Handler, TypeInv, TypeOK
<1>4. TypeInv /\ Current /\ [Next]_vars =>
        [\A r \in Requests :
           req[r].pc = "save" /\ req[r].op = "move" /\ rows'[req[r].toId] # rows[req[r].toId]
             => rows[req[r].item] = req[r].seen /\ rows'[req[r].item] = NoRow]_vars
  BY <1>3
<1>. QED
  BY <1>1, <1>2, <1>4, PTL DEF Spec, MoveIsOneUnit

(***************************************************************************)
(* The blobs, one request at a time and nothing failing.                   *)
(***************************************************************************)
\* The blob the table calls for.
Expected(s, i) == IF IsFile(i) /\ rows[i].space = s THEN rows[i].size ELSE NoBlob

\* The blob handler q has written ahead of its row, and the one it is to delete
\* now that its row is gone.
Ahead(q, s, i)  == q.pc \in {"reread", "save"} /\ Guarded(q) /\ s = q.toSpace /\ i = q.toId
Behind(q, s, i) == q.pc = "clean" /\ s = q.space /\ i = q.item

\* But for these two, the blobs are those of the table.
TidyAt(q) ==
  \A s \in Spaces, i \in Items :
    IF Behind(q, s, i) THEN Expected(s, i) = NoBlob
    ELSE blobs[<<s, i>>] = IF Ahead(q, s, i) THEN q.size ELSE Expected(s, i)

Tidy == StorageMatches /\ \A r \in Requests : TidyAt(req[r])

CalmInv == TypeInv /\ Current /\ Tidy

\* What SaveAsync copies is what the row is to say.
LEMMA PayloadIsSize ==
  ASSUME CalmInv, NEW r \in Requests, req[r].pc = "blob"
  PROVE  Payload(req[r]) = req[r].size /\ req[r].size \in Sizes /\ req[r].size # NoBlob
<1> DEFINE q == req[r]
<1>1. q \in Handler /\ q # Idle /\ Shape(q) /\ CurrentOf(q) /\ TidyAt(q)
  BY BusyIsHandler DEF CalmInv, Tidy, Current, TypeInv, HandlerShape, Pcs
<1>2. q.size \in Sizes /\ q.size # NoBlob
  BY <1>1, ItemStoreAssumption DEF Handler
<1>3. ASSUME q.op \in Transfers PROVE blobs[<<q.space, q.item>>] = q.size
  <2>1. /\ rows[q.item] = q.seen /\ q.seen.space = q.space /\ q.seen \in Row
        /\ q.seen.kind = "file" /\ q.seen.size = q.size
    BY <1>1, <1>3 DEF CurrentOf, Shape, Guarded, Transfers, Upserts
  <2>2. Expected(q.space, q.item) = q.size
    BY <2>1, ItemStoreAssumption DEF Expected, IsFile
  <2>. QED
    BY <1>1, <2>2 DEF TidyAt, Ahead, Behind, Handler
<1>. QED
  BY <1>2, <1>3 DEF Payload

\* Steps that change neither the rows nor the blobs.
LEMMA SameTidy ==
  ASSUME CalmInv, NEW r \in Requests, UNCHANGED <<rows, blobs>>,
         req[r].pc # "clean", req'[r].pc # "clean",
         \A s \in Spaces, i \in Items :
           /\ Ahead(req[r], s, i) <=> Ahead(req[r], s, i)'
           /\ Ahead(req[r], s, i) => req'[r].size = req[r].size
  PROVE  TidyAt(req[r])'
BY DEF CalmInv, Tidy, TidyAt, Expected, IsFile, Behind

LEMMA StartTidy ==
  ASSUME CalmInv, NEW r \in Requests, Start(r)
  PROVE  TidyAt(req[r])'
<1>1. PICK s \in Spaces, i \in Items :
        \/ \E n \in TextSizes : StartUpsert(r, s, i, "text", n)
        \/ \E n \in FileSizes : StartUpsert(r, s, i, "file", n)
        \/ StartDelete(r, s, i)
        \/ \E d \in Spaces, j \in Items, op \in Transfers : StartTransfer(r, s, i, d, j, op)
  BY DEF Start
<1> DEFINE Started(q) == q.pc # "clean" /\ (q.pc \in {"reread", "save"} => ~Guarded(q))
<1>2. req[r] = Idle /\ UNCHANGED <<rows, blobs>> /\ Started(req'[r])
  <2>1. ASSUME NEW op \in Upserts, NEW n, StartUpsert(r, s, i, op, n)
        PROVE  req[r] = Idle /\ UNCHANGED <<rows, blobs>> /\ Started(req'[r])
    BY <2>1 DEF StartUpsert, Upserts, CalmInv, TypeInv, TypeOK
  <2>2. CASE StartDelete(r, s, i)
    BY <2>2 DEF StartDelete, Guarded, CalmInv, TypeInv, TypeOK
  <2>3. ASSUME NEW d \in Spaces, NEW j \in Items, NEW op \in Transfers, StartTransfer(r, s, i, d, j, op)
        PROVE  req[r] = Idle /\ UNCHANGED <<rows, blobs>> /\ Started(req'[r])
    BY <2>3 DEF StartTransfer, Guarded, Transfers, CalmInv, TypeInv, TypeOK
  <2>. QED
    BY <1>1, <2>1, <2>2, <2>3 DEF Upserts
<1>3. req[r].pc = "idle"
  BY <1>2 DEF Idle
<1>. QED
  BY <1>2, <1>3, SameTidy DEF Ahead

\* SaveChanges makes the table say what the blobs are.
LEMMA SaveTidy ==
  ASSUME CalmInv, NEW r \in Requests, SaveChanges(r)
  PROVE  TidyAt(req[r])'
<1> DEFINE q == req[r]
<1>1. /\ q \in Handler /\ q # Idle /\ Shape(q) /\ CurrentOf(q) /\ TidyAt(q)
      /\ q.pc = "save" /\ ~Conflict(q) /\ WriteRows(q) /\ blobs' = blobs
  BY BusyIsHandler DEF SaveChanges, CalmInv, Tidy, Current, TypeInv, HandlerShape, Pcs
<1>2. /\ req'[r] = IF HasStaleBlob(q) THEN [q EXCEPT !.pc = "clean"] ELSE Idle
      /\ rows \in [Items -> Row \cup {NoRow}]
      /\ q.toId \in Items /\ q.item \in Items /\ q.space \in Spaces /\ q.toSpace \in Spaces
      /\ q.kind \in {"text", "file"} /\ q.op \in Upserts \cup Transfers \cup {"delete"}
  BY <1>1 DEF SaveChanges, Leave, CalmInv, TypeInv, TypeOK, Handler
<1>3. \A s \in Spaces, i \in Items :
        blobs[<<s, i>>] = IF Guarded(q) /\ s = q.toSpace /\ i = q.toId THEN q.size ELSE Expected(s, i)
  BY <1>1 DEF TidyAt, Ahead, Behind
<1>4. ASSUME \A s \in Spaces, i \in Items :
               IF HasStaleBlob(q) /\ s = q.space /\ i = q.item THEN Expected(s, i)' = NoBlob
               ELSE blobs[<<s, i>>] = Expected(s, i)'
      PROVE  TidyAt(req[r])'
  <2>1. /\ req'[r].pc = IF HasStaleBlob(q) THEN "clean" ELSE "idle"
        /\ HasStaleBlob(q) => req'[r].space = q.space /\ req'[r].item = q.item
    BY <1>1, <1>2 DEF Idle, Handler
  <2>. QED
    BY <1>1, <1>4, <2>1 DEF TidyAt, Ahead, Behind
<1>5. CASE q.op = "delete"
  <2>1. /\ rows' = [rows EXCEPT ![q.item] = NoRow] /\ rows[q.item] = q.seen /\ q.seen.space = q.space
        /\ HasStaleBlob(q) <=> q.seen.kind = "file"
    BY <1>1, <1>5 DEF WriteRows, CurrentOf, HasStaleBlob, Upserts, Transfers
  <2>. QED
    BY <1>2, <1>3, <1>4, <1>5, <2>1 DEF Expected, IsFile, Guarded
<1>6. CASE q.op \in Upserts
  <2>1. q.toId = q.item /\ q.toSpace = q.space /\ q.seen = Lookup(q.space, q.item)
    BY <1>1, <1>6 DEF Shape, CurrentOf, Upserts, Transfers
  <2>2. PICK u \in Row : /\ rows' = [rows EXCEPT ![q.toId] = u]
                         /\ u.space = q.space /\ u.kind = q.kind /\ u.size = q.size
    <3>1. CASE q.seen = NoRow
      <4>1. rows' = [rows EXCEPT ![q.toId] = NewRow(q)]
        BY <1>1, <1>6, <3>1 DEF WriteRows, Upserts, Transfers
      <4>2. NewRow(q) \in Row
        BY <1>1, <1>6, NewRowType DEF Upserts, Transfers
      <4>. QED
        BY <2>1, <4>1, <4>2 DEF NewRow
    <3>2. CASE q.seen # NoRow
      <4>1. PICK u \in UpdatedRows(q) : rows' = [rows EXCEPT ![q.toId] = u]
        BY <1>1, <1>6, <3>2 DEF WriteRows, Upserts, Transfers
      <4>2. rows[q.toId] = q.seen /\ q.seen.space = q.space
        BY <2>1, <3>2 DEF Lookup
      <4>3. u \in Row
        BY <1>1, <3>2, <4>2, UpdatedRowsType DEF CalmInv, TypeInv
      <4>4. u.space = q.space /\ u.kind = q.kind /\ u.size = q.size
        BY <4>2 DEF UpdatedRows, NewRow
      <4>. QED
        BY <4>1, <4>3, <4>4
    <3>. QED
      BY <3>1, <3>2
  <2>3. rows[q.item] = NoRow \/ (rows[q.item] = q.seen /\ q.seen # NoRow /\ q.seen.space = q.space)
    BY <1>1, <1>6, <2>1 DEF Conflict, Lookup
  <2>4. /\ Guarded(q) <=> q.kind = "file"
        /\ HasStaleBlob(q) <=> q.kind = "text" /\ q.seen # NoRow /\ q.seen.kind = "file"
    BY <1>1, <1>6 DEF Guarded, HasStaleBlob, Shape, Upserts
  <2>. QED
    BY <1>2, <1>3, <1>4, <2>1, <2>2, <2>3, <2>4, ItemStoreAssumption DEF Expected, IsFile
<1>7. CASE q.op \in Transfers
  <2>1. /\ rows[q.item] = q.seen /\ q.seen.space = q.space /\ rows[q.toId] = NoRow
        /\ q.seen \in Row /\ q.seen.kind = q.kind /\ q.seen # NoRow
    BY <1>1, <1>7, ItemStoreAssumption DEF CurrentOf, Shape, Upserts, Transfers
  <2>2. NewRow(q) \in Row /\ NewRow(q).space = q.toSpace /\ NewRow(q).kind = q.kind /\ NewRow(q).size = q.size
    BY <1>1, <2>1, NewRowType DEF NewRow
  <2>3. /\ Guarded(q) <=> q.kind = "file"
        /\ HasStaleBlob(q) <=> q.op = "move" /\ q.kind = "file"
    BY <1>7 DEF Guarded, HasStaleBlob, Transfers
  <2>4. \/ q.op = "copy" /\ rows' = [rows EXCEPT ![q.toId] = NewRow(q)]
        \/ q.op = "move" /\ rows' = [rows EXCEPT ![q.toId] = NewRow(q), ![q.item] = NoRow]
    BY <1>1, <1>7 DEF WriteRows, CurrentOf, Upserts, Transfers
  <2> HIDE DEF q
  <2>5. \A i \in Items :
          rows'[i] = IF i = q.toId THEN NewRow(q)
                     ELSE IF q.op = "move" /\ i = q.item THEN NoRow ELSE rows[i]
    BY <1>2, <2>1, <2>4
  <2>6. \A s \in Spaces, i \in Items :
          Expected(s, i)' = IF i = q.toId THEN (IF q.kind = "file" /\ s = q.toSpace THEN q.size ELSE NoBlob)
                            ELSE IF q.op = "move" /\ i = q.item THEN NoBlob ELSE Expected(s, i)
    BY <2>2, <2>5, ItemStoreAssumption DEF Expected, IsFile
  <2>7. \A s \in Spaces : /\ Expected(s, q.toId) = NoBlob
                          /\ s # q.space \/ q.kind = "text" => Expected(s, q.item) = NoBlob
    BY <2>1 DEF Expected, IsFile
  <2>. QED
    BY <1>2, <1>3, <1>4, <2>1, <2>3, <2>6, <2>7
<1>. QED
  BY <1>2, <1>5, <1>6, <1>7

\* A slot gone idle, with the blobs the table calls for.
LEMMA IdleTidy ==
  ASSUME NEW r \in Requests, req'[r] = Idle, rows' = rows,
         \A s \in Spaces, i \in Items : blobs'[<<s, i>>] = Expected(s, i)
  PROVE  TidyAt(req[r])'
<1>1. \A s \in Spaces, i \in Items : Expected(s, i)' = Expected(s, i)
  BY DEF Expected, IsFile
<1>2. \A s \in Spaces, i \in Items : ~Ahead(req[r], s, i)' /\ ~Behind(req[r], s, i)'
  BY DEF Ahead, Behind, Idle
<1>. QED
  BY <1>1, <1>2 DEF TidyAt

\* The failure of a save takes the blob back.
LEMMA FailTidy ==
  ASSUME CalmInv, Faults = {}, NEW r \in Requests, SaveChangesFails(r)
  PROVE  TidyAt(req[r])'
<1> DEFINE q == req[r]
<1>1. /\ q \in Handler /\ q # Idle /\ Shape(q) /\ CurrentOf(q) /\ TidyAt(q)
      /\ q.pc = "save" /\ Conflict(q) /\ blobs' = Compensated(q) /\ rows' = rows
  BY BusyIsHandler DEF SaveChangesFails, CalmInv, Tidy, Current, TypeInv, HandlerShape, Pcs
<1>2. /\ req'[r] = Idle /\ blobs \in [Spaces \X Items -> Sizes \cup {NoBlob}]
      /\ q.toId \in Items /\ q.toSpace \in Spaces
  BY <1>1 DEF SaveChangesFails, Leave, CalmInv, TypeInv, TypeOK, Handler
\* A row of the id, in another space.
<1>3. /\ q.op \in Upserts /\ q.seen = NoRow /\ q.toId = q.item /\ q.toSpace = q.space
      /\ rows[q.toId] # NoRow /\ rows[q.toId].space # q.toSpace
  <2>1. q.op \in {"delete", "move"} => rows[q.item] # NoRow
    BY <1>1, ItemStoreAssumption DEF CurrentOf, Shape, Upserts, Transfers
  <2>2. q.op \in Upserts
    BY <1>1, <2>1 DEF Conflict
  <2>3. q.seen = Lookup(q.space, q.item) /\ q.toId = q.item /\ q.toSpace = q.space
    BY <1>1, <2>2 DEF CurrentOf, Shape, Upserts, Transfers
  <2>4. q.seen = NoRow /\ rows[q.toId] # NoRow
    BY <1>1, <2>2, <2>3 DEF Conflict, Lookup, Upserts, Transfers
  <2>. QED
    BY <2>2, <2>3, <2>4 DEF Lookup
<1>4. \A s \in Spaces, i \in Items :
        blobs'[<<s, i>>] = IF q.kind = "file" /\ s = q.toSpace /\ i = q.toId THEN NoBlob ELSE blobs[<<s, i>>]
  BY <1>1, <1>2, <1>3 DEF Compensated, Stored, Upserts, Transfers
<1>5. Guarded(q) <=> q.kind = "file"
  BY <1>3 DEF Guarded, Upserts
<1>6. \A s \in Spaces, i \in Items : blobs'[<<s, i>>] = Expected(s, i)
  <2>1. \A s \in Spaces, i \in Items :
          blobs[<<s, i>>] = IF Guarded(q) /\ s = q.toSpace /\ i = q.toId THEN q.size ELSE Expected(s, i)
    BY <1>1 DEF TidyAt, Ahead, Behind
  <2>2. Expected(q.toSpace, q.toId) = NoBlob
    BY <1>3 DEF Expected
  <2>. SUFFICES ASSUME NEW s \in Spaces, NEW i \in Items PROVE blobs'[<<s, i>>] = Expected(s, i)
    OBVIOUS
  <2>3. CASE q.kind = "file" /\ s = q.toSpace /\ i = q.toId
    BY <1>4, <2>2, <2>3
  <2>4. CASE ~(q.kind = "file" /\ s = q.toSpace /\ i = q.toId)
    BY <1>4, <1>5, <2>1, <2>4
  <2>. QED
    BY <2>3, <2>4
<1>. QED
  BY <1>1, <1>2, <1>6, IdleTidy

LEMMA StepTidy ==
  ASSUME CalmInv, Faults = {}, NEW r \in Requests, Step(r)
  PROVE  TidyAt(req[r])'
<1> DEFINE q == req[r]
<1>1. q \in Handler /\ q # Idle /\ Shape(q) /\ TidyAt(q)
  BY StepBusy DEF CalmInv, Tidy
<1>2. CASE LoadExisting(r) \/ AcquireQuotaLock(r) \/ CheckQuota(r) \/ RejectOverQuota(r)
  <2>1. /\ q.pc \in {"load", "lock", "begin"} /\ UNCHANGED <<rows, blobs>>
        /\ req'[r].pc \in {"lock", "begin", "blob", "idle"} \/ (req'[r].pc = "save" /\ ~Guarded(req'[r]))
    BY <1>1, <1>2 DEF LoadExisting, AcquireQuotaLock, CheckQuota, RejectOverQuota, Leave, Idle,
                      Guarded, Handler, CalmInv, TypeInv, TypeOK
  <2>. QED
    BY <2>1, SameTidy DEF Ahead
<1>3. CASE RereadSource(r)
  <2>1. /\ q.pc = "reread" /\ UNCHANGED <<rows, blobs>>
        /\ req'[r] = [q EXCEPT !.pc = "save", !.reread = Lookup(q.space, q.item) # NoRow]
    BY <1>3 DEF RereadSource, CalmInv, TypeInv, TypeOK
  <2>2. /\ req'[r].pc = "save" /\ req'[r].op = q.op /\ req'[r].kind = q.kind /\ req'[r].size = q.size
        /\ req'[r].toSpace = q.toSpace /\ req'[r].toId = q.toId
    BY <1>1, <2>1 DEF Handler
  <2>. QED
    BY <2>1, <2>2, SameTidy DEF Ahead, Guarded
<1>4. CASE SaveBlob(r)
  <2>1. /\ q.pc = "blob" /\ rows' = rows /\ blobs' = Stored(q, q.size)
        /\ req'[r] = [q EXCEPT !.pc = IF q.op = "move" THEN "reread" ELSE "save"]
    BY <1>4, PayloadIsSize DEF SaveBlob, CalmInv, TypeInv, TypeOK
  <2>2. /\ req'[r].pc \in {"reread", "save"} /\ req'[r].op = q.op /\ req'[r].kind = q.kind
        /\ req'[r].size = q.size /\ req'[r].toSpace = q.toSpace /\ req'[r].toId = q.toId
    BY <1>1, <2>1 DEF Handler
  <2>3. Guarded(q)
    BY <1>1, <2>1 DEF Shape
  <2>4. \A s \in Spaces, i \in Items :
          blobs'[<<s, i>>] = IF s = q.toSpace /\ i = q.toId THEN q.size ELSE blobs[<<s, i>>]
    BY <1>1, <2>1 DEF Stored, Handler, CalmInv, TypeInv, TypeOK
  <2>5. \A s \in Spaces, i \in Items : blobs[<<s, i>>] = Expected(s, i) /\ Expected(s, i)' = Expected(s, i)
    BY <1>1, <2>1 DEF TidyAt, Ahead, Behind, Expected, IsFile
  <2>6. \A s \in Spaces, i \in Items : /\ Ahead(req[r], s, i)' <=> s = q.toSpace /\ i = q.toId
                                       /\ ~Behind(req[r], s, i)'
    BY <2>2, <2>3 DEF Ahead, Behind, Guarded
  <2>7. ASSUME NEW s \in Spaces, NEW i \in Items
        PROVE  blobs'[<<s, i>>] = IF Ahead(req[r], s, i)' THEN req'[r].size ELSE Expected(s, i)'
    <3>1. CASE s = q.toSpace /\ i = q.toId
      BY <2>2, <2>4, <2>6, <3>1
    <3>2. CASE ~(s = q.toSpace /\ i = q.toId)
      BY <2>4, <2>5, <2>6, <3>2
    <3>. QED
      BY <3>1, <3>2
  <2>. QED
    BY <2>6, <2>7 DEF TidyAt
<1>5. CASE SaveBlobFails(r)
  BY <1>5, PayloadIsSize DEF SaveBlobFails
<1>6. CASE DeleteStaleBlob(r)
  <2>1. /\ q.pc = "clean" /\ rows' = rows /\ req'[r].pc = "idle"
        /\ blobs' = [blobs EXCEPT ![<<q.space, q.item>>] = NoBlob]
    BY <1>6 DEF DeleteStaleBlob, Leave, Idle, CalmInv, TypeInv, TypeOK
  <2>2. \A s \in Spaces, i \in Items :
          blobs'[<<s, i>>] = IF s = q.space /\ i = q.item THEN NoBlob ELSE blobs[<<s, i>>]
    BY <1>1, <2>1 DEF Handler, CalmInv, TypeInv, TypeOK
  <2>3. \A s \in Spaces, i \in Items :
          IF s = q.space /\ i = q.item THEN Expected(s, i) = NoBlob ELSE blobs[<<s, i>>] = Expected(s, i)
    BY <1>1, <2>1 DEF TidyAt, Ahead, Behind
  <2>4. \A s \in Spaces, i \in Items : blobs'[<<s, i>>] = Expected(s, i)
    BY <2>2, <2>3
  <2>5. req'[r] = Idle
    BY <1>6 DEF DeleteStaleBlob, Leave, CalmInv, TypeInv, TypeOK
  <2>. QED
    BY <2>1, <2>4, <2>5, IdleTidy
<1>. QED
  BY <1>2, <1>3, <1>4, <1>5, <1>6, SaveTidy, FailTidy DEF Step

LEMMA TidyStep ==
  ASSUME Undisturbed, Faults = {}, CalmInv, [Next]_vars
  PROVE  Tidy'
<1>1. ASSUME NEW r \in Requests, TidyAt(req[r])' PROVE Tidy'
  <2>1. \A p \in Requests : TidyAt(req[p])'
    BY <1>1 DEF Undisturbed, OneRequest
  <2>2. StorageMatches'
    <3>1. CASE req'[r] = Idle
      <4>1. \A s \in Spaces, i \in Items : ~Ahead(req[r], s, i)' /\ ~Behind(req[r], s, i)'
        BY <3>1 DEF Ahead, Behind, Idle
      <4>2. \A s \in Spaces, i \in Items : blobs'[<<s, i>>] = Expected(s, i)'
        BY <1>1, <4>1 DEF TidyAt
      <4>. QED
        BY <4>2 DEF StorageMatches, Expected
    <3>. QED
      BY <3>1 DEF StorageMatches
  <2>. QED
    BY <2>1, <2>2 DEF Tidy
<1>2. ASSUME NEW r \in Requests, Start(r) \/ Step(r) PROVE Tidy'
  BY <1>1, <1>2, StartTidy, StepTidy
<1>3. CASE UNCHANGED vars
  BY <1>3 DEF vars, CalmInv, Tidy, StorageMatches, TidyAt, Ahead, Behind, Expected, IsFile, Guarded
<1>4. /\ \A r \in Requests : ~Abort(r)
      /\ ~Crash
      /\ \A i \in Items : ~Sweep(i)
  BY DEF Abort, Crash, Sweep, Undisturbed
<1>. QED
  BY <1>2, <1>3, <1>4 DEF Next

LEMMA CalmInit == Init => CalmInv
<1>1. Init => Current /\ Tidy
  BY DEF Init, Current, Tidy, StorageMatches, TidyAt, Ahead, Behind, Expected, IsFile, Idle
<1>. QED
  BY <1>1, TypeInit DEF CalmInv

(***************************************************************************)
(* Files and copies under way together, with crashes.                      *)
(***************************************************************************)
FilesOnly == Ops \subseteq {"file", "copy", "sweep"}
WritesReliable == Faults \cap {"io", "cancel"} = {}

OnlyFiles ==
  /\ \A i \in Items : rows[i] # NoRow => rows[i].kind = "file"
  /\ \A r \in Requests : req[r] # Idle =>
       /\ req[r].op \in {"file", "copy"} /\ req[r].kind = "file"
       /\ req[r].pc \in {"lock", "begin", "blob", "save"}

\* The id of a copy is nobody else's.
CopiesNew ==
  \A r \in Requests : req[r] # Idle /\ req[r].op = "copy" =>
    /\ rows[req[r].toId] = NoRow
    /\ \A p \in Requests \ {r} : req[p] # Idle => req[p].toId # req[r].toId

\* In its transaction a handler knows the row it replaces, and by the time it
\* saves its blob is written.
KnowsRow(q) == HoldsTx(q) /\ q.op = "file" => q.seen = Lookup(q.space, q.item)
HasBlob(q)  == q.pc = "save" => blobs[<<q.toSpace, q.toId>>] # NoBlob
InTransaction == \A r \in Requests : req[r] # Idle => KnowsRow(req[r]) /\ HasBlob(req[r])

FilesInv == LockInv /\ FileHasBlob /\ OnlyFiles /\ CopiesNew /\ InTransaction

LEMMA FileRows ==
  ASSUME OnlyFiles
  PROVE  FileHasBlob <=> \A i \in Items : rows[i] # NoRow => blobs[<<rows[i].space, i>>] # NoBlob
BY DEF OnlyFiles, FileHasBlob, IsFile

\* Two handlers are not both in their transactions.
LEMMA OneInTransaction ==
  ASSUME FilesInv, NEW r \in Requests, NEW p \in Requests, HoldsTx(req[r]), HoldsTx(req[p])
  PROVE  r = p
BY DEF FilesInv, LockInv, LockDiscipline

LEMMA FilesBusy ==
  ASSUME FilesInv, NEW r \in Requests, req[r] # Idle
  PROVE  /\ req[r] \in Handler /\ Shape(req[r]) /\ Guarded(req[r])
         /\ req[r].op \in {"file", "copy"} /\ req[r].kind = "file"
         /\ req[r].pc \in {"lock", "begin", "blob", "save"}
         /\ HoldsTx(req[r]) <=> req[r].pc \in {"blob", "save"}
BY DEF FilesInv, LockInv, TypeInv, TypeOK, HandlerShape, OnlyFiles, Guarded, HoldsTx

\* Steps of a handler that change no row.
LEMMA SlotFiles ==
  ASSUME FilesInv, NEW r \in Requests, NEW q \in Handler \cup {Idle},
         req' = [req EXCEPT ![r] = q], rows' = rows,
         q # Idle =>
           /\ req[r] # Idle /\ q.op = req[r].op /\ q.kind = req[r].kind /\ q.toId = req[r].toId
           /\ q.pc \in {"lock", "begin", "blob", "save"}
           /\ KnowsRow(q)
           /\ q.pc = "save" => blobs'[<<q.toSpace, q.toId>>] # NoBlob,
         \A p \in Requests \ {r} : req[p] # Idle /\ req[p].pc = "save" =>
           blobs'[<<req[p].toSpace, req[p].toId>>] # NoBlob
  PROVE  OnlyFiles' /\ CopiesNew' /\ InTransaction'
<1>1. \A p \in Requests : req'[p] = IF p = r THEN q ELSE req[p]
  BY DEF FilesInv, LockInv, TypeInv, TypeOK
<1>2. OnlyFiles'
  BY <1>1 DEF FilesInv, OnlyFiles
<1>3. CopiesNew'
  BY <1>1 DEF FilesInv, CopiesNew
<1>4. InTransaction'
  BY <1>1 DEF FilesInv, InTransaction, KnowsRow, HasBlob, Lookup
<1>. QED
  BY <1>2, <1>3, <1>4

LEMMA LeaveFiles ==
  ASSUME FilesInv, NEW r \in Requests, Leave(r), UNCHANGED <<rows, blobs>>
  PROVE  FileHasBlob' /\ OnlyFiles' /\ CopiesNew' /\ InTransaction'
<1>1. FileHasBlob'
  BY DEF FilesInv, FileHasBlob, IsFile
<1>2. req' = [req EXCEPT ![r] = Idle]
  BY DEF Leave
<1>3. \A p \in Requests \ {r} : req[p] # Idle /\ req[p].pc = "save" =>
        blobs'[<<req[p].toSpace, req[p].toId>>] # NoBlob
  BY DEF FilesInv, InTransaction, HasBlob
<1>. QED
  BY <1>1, <1>2, <1>3, SlotFiles

LEMMA StartFiles ==
  ASSUME FilesOnly, FilesInv, NEW r \in Requests, Start(r)
  PROVE  FileHasBlob' /\ OnlyFiles' /\ CopiesNew' /\ InTransaction'
<1>1. PICK s \in Spaces, i \in Items :
        \/ \E n \in TextSizes : StartUpsert(r, s, i, "text", n)
        \/ \E n \in FileSizes : StartUpsert(r, s, i, "file", n)
        \/ StartDelete(r, s, i)
        \/ \E d \in Spaces, j \in Items, op \in Transfers : StartTransfer(r, s, i, d, j, op)
  BY DEF Start
<1>2. UNCHANGED <<rows, blobs>> /\ \A p \in Requests \ {r} : req'[p] = req[p]
  BY <1>1 DEF StartUpsert, StartDelete, StartTransfer, FilesInv, LockInv, TypeInv, TypeOK
<1> DEFINE Joins(q) ==
      /\ q.op \in {"file", "copy"} /\ q.kind = "file" /\ q.pc = "lock"
      /\ \A p \in Requests \ {r} : req[p] # Idle /\ req[p].op = "copy" => req[p].toId # q.toId
      /\ q.op = "copy" =>
           rows[q.toId] = NoRow /\ \A p \in Requests \ {r} : req[p] # Idle => req[p].toId # q.toId
<1>3. Joins(req'[r])
  <2>1. ASSUME NEW n \in FileSizes, StartUpsert(r, s, i, "file", n) PROVE Joins(req'[r])
    BY <2>1 DEF StartUpsert, Known, Transfers, FilesInv, LockInv, TypeInv, TypeOK
  <2>2. ASSUME NEW d \in Spaces, NEW j \in Items, StartTransfer(r, s, i, d, j, "copy")
        PROVE  Joins(req'[r])
    BY <2>2 DEF StartTransfer, Fresh, Lookup, FilesInv, OnlyFiles, LockInv, TypeInv, TypeOK
  <2>3. ~StartDelete(r, s, i) /\ \A n \in TextSizes : ~StartUpsert(r, s, i, "text", n)
    BY DEF FilesOnly, StartDelete, StartUpsert
  <2>4. \A d \in Spaces, j \in Items, op \in Transfers : StartTransfer(r, s, i, d, j, op) => op = "copy"
    BY DEF FilesOnly, StartTransfer, Transfers
  <2>. QED
    BY <1>1, <2>1, <2>2, <2>3, <2>4
<1>4. FileHasBlob'
  BY <1>2 DEF FilesInv, FileHasBlob, IsFile
<1>5. OnlyFiles'
  BY <1>2, <1>3 DEF FilesInv, OnlyFiles
<1>6. CopiesNew'
  BY <1>2, <1>3 DEF FilesInv, CopiesNew
<1>7. InTransaction'
  <2>1. KnowsRow(req[r])' /\ HasBlob(req[r])'
    BY <1>3 DEF KnowsRow, HasBlob, HoldsTx
  <2>2. \A p \in Requests \ {r} : req[p] # Idle => KnowsRow(req[p])' /\ HasBlob(req[p])'
    BY <1>2 DEF FilesInv, InTransaction, KnowsRow, HasBlob, Lookup
  <2>. QED
    BY <1>2, <2>1, <2>2 DEF InTransaction
<1>. QED
  BY <1>4, <1>5, <1>6, <1>7

LEMMA SaveFiles ==
  ASSUME FilesInv, NEW r \in Requests, SaveChanges(r)
  PROVE  FileHasBlob' /\ OnlyFiles' /\ CopiesNew' /\ InTransaction'
<1> DEFINE q == req[r]
<1>1. /\ q # Idle /\ q.pc = "save" /\ ~Conflict(q) /\ WriteRows(q) /\ blobs' = blobs
      /\ q \in Handler /\ Shape(q) /\ q.op \in {"file", "copy"} /\ q.kind = "file" /\ HoldsTx(q)
      /\ KnowsRow(q) /\ HasBlob(q)
  <2>1. q # Idle
    BY DEF SaveChanges, Idle
  <2>. QED
    BY <2>1, FilesBusy DEF SaveChanges, FilesInv, InTransaction
<1>2. /\ ~HasStaleBlob(q) /\ req' = [req EXCEPT ![r] = Idle]
      /\ rows \in [Items -> Row \cup {NoRow}] /\ q.toId \in Items
  BY <1>1 DEF HasStaleBlob, SaveChanges, Leave, Handler, FilesInv, LockInv, TypeInv, TypeOK
<1>3. \A p \in Requests : req'[p] = IF p = r THEN Idle ELSE req[p]
  BY <1>2 DEF FilesInv, LockInv, TypeInv, TypeOK
<1>4. PICK u \in Row : rows' = [rows EXCEPT ![q.toId] = u] /\ u.space = q.toSpace /\ u.kind = "file"
  <2>1. q.op = "copy" => NewRow(q) \in Row
    BY <1>1, NewRowType, ItemStoreAssumption DEF Shape, Upserts
  <2>2. q.op = "file" => NewRow(q) \in Row
    BY <1>1, NewRowType DEF Transfers
  <2>3. NewRow(q).space = q.toSpace /\ NewRow(q).kind = "file"
    BY <1>1 DEF NewRow
  <2>4. CASE q.op = "copy" \/ q.seen = NoRow
    <3>1. rows' = [rows EXCEPT ![q.toId] = NewRow(q)]
      BY <1>1, <2>4, ItemStoreAssumption DEF WriteRows, Shape, Upserts, Transfers
    <3>. QED
      BY <1>1, <2>1, <2>2, <2>3, <3>1
  <2>5. CASE q.op = "file" /\ q.seen # NoRow
    <3>1. PICK u \in UpdatedRows(q) : rows' = [rows EXCEPT ![q.toId] = u]
      BY <1>1, <2>5 DEF WriteRows, Upserts, Transfers
    <3>2. rows[q.toId] = q.seen /\ q.seen.space = q.toSpace
      BY <1>1, <2>5 DEF KnowsRow, Lookup, Shape, Transfers
    <3>3. u \in Row
      BY <1>1, <2>5, <3>2, UpdatedRowsType DEF FilesInv, LockInv, TypeInv
    <3>4. u.space = q.toSpace /\ u.kind = "file"
      BY <1>1, <3>2 DEF UpdatedRows, NewRow
    <3>. QED
      BY <3>1, <3>3, <3>4
  <2>. QED
    BY <1>1, <2>4, <2>5
<1>5. \A i \in Items : rows'[i] = IF i = q.toId THEN u ELSE rows[i]
  BY <1>2, <1>4
<1>6. OnlyFiles'
  BY <1>3, <1>4, <1>5 DEF FilesInv, OnlyFiles
<1>7. FileHasBlob'
  BY <1>1, <1>4, <1>5 DEF FilesInv, FileHasBlob, IsFile, HasBlob
<1>8. CopiesNew'
  BY <1>1, <1>3, <1>5, FilesBusy DEF FilesInv, CopiesNew, Handler
<1>9. InTransaction'
  <2>1. ASSUME NEW p \in Requests \ {r}, req[p] # Idle PROVE ~HoldsTx(req[p])
    BY <1>1, <2>1, OneInTransaction
  <2>. QED
    BY <1>1, <1>3, <2>1 DEF FilesInv, InTransaction, KnowsRow, HasBlob
<1>. QED
  BY <1>6, <1>7, <1>8, <1>9

\* A blob is taken away only from an id without a row.
LEMMA DropFiles ==
  ASSUME FilesInv, NEW r \in Requests, Leave(r), rows' = rows, HoldsTx(req[r]), req[r] # Idle,
         \/ blobs' = blobs
         \/ blobs' = Stored(req[r], NoBlob) /\ Lookup(req[r].toSpace, req[r].toId) = NoRow
  PROVE  FileHasBlob' /\ OnlyFiles' /\ CopiesNew' /\ InTransaction'
<1> DEFINE q == req[r]
<1>1. /\ q \in Handler /\ req' = [req EXCEPT ![r] = Idle]
      /\ blobs \in [Spaces \X Items -> Sizes \cup {NoBlob}]
  BY FilesBusy DEF Leave, FilesInv, LockInv, TypeInv, TypeOK
<1>2. \A s \in Spaces, i \in Items :
        blobs'[<<s, i>>] = blobs[<<s, i>>] \/ (s = q.toSpace /\ i = q.toId /\ Lookup(s, i) = NoRow)
  BY <1>1 DEF Stored, Handler
<1>3. FileHasBlob'
  <2>1. \A i \in Items : rows[i] # NoRow => rows[i].space \in Spaces
    BY DEF FilesInv, LockInv, TypeInv, TypeOK, Row
  <2>. QED
    BY <1>2, <2>1 DEF FilesInv, FileHasBlob, IsFile, Lookup
<1>4. ASSUME NEW p \in Requests \ {r}, req[p] # Idle, req[p].pc = "save" PROVE FALSE
  BY <1>4, FilesBusy, OneInTransaction
<1>. QED
  BY <1>1, <1>3, <1>4, SlotFiles

LEMMA StepFiles ==
  ASSUME WritesReliable, FilesInv, NEW r \in Requests, Step(r)
  PROVE  FileHasBlob' /\ OnlyFiles' /\ CopiesNew' /\ InTransaction'
<1> DEFINE q == req[r]
<1>1. q # Idle
  BY DEF Idle, Step, LoadExisting, AcquireQuotaLock, CheckQuota, RejectOverQuota, SaveBlob, SaveBlobFails,
         RereadSource, SaveChanges, SaveChangesFails, DeleteStaleBlob
<1>2. /\ q \in Handler /\ Shape(q) /\ Guarded(q) /\ q.op \in {"file", "copy"} /\ q.kind = "file"
      /\ q.pc \in {"lock", "begin", "blob", "save"} /\ (HoldsTx(q) <=> q.pc \in {"blob", "save"})
  BY <1>1, FilesBusy
<1>3. ASSUME NEW p \in Requests \ {r}, req[p] # Idle, req[p].pc = "save"
      PROVE  blobs[<<req[p].toSpace, req[p].toId>>] # NoBlob
  BY <1>3 DEF FilesInv, InTransaction, HasBlob
<1>4. UNCHANGED <<rows, blobs>> => FileHasBlob'
  BY DEF FilesInv, FileHasBlob, IsFile
<1>5. CASE AcquireQuotaLock(r)
  <2>1. PICK next : next = [q EXCEPT !.pc = "begin"]
    OBVIOUS
  <2>2. req' = [req EXCEPT ![r] = next] /\ UNCHANGED <<rows, blobs>>
    BY <1>5, <2>1 DEF AcquireQuotaLock
  <2>3. next \in Handler /\ next.pc = "begin" /\ ~HoldsTx(next)
    BY <1>2, <2>1 DEF Handler, Pcs, HoldsTx
  <2>. QED
    BY <1>1, <1>2, <1>3, <1>4, <2>1, <2>2, <2>3, SlotFiles DEF Handler, KnowsRow
<1>6. CASE CheckQuota(r)
  <2>1. PICK next : next = [q EXCEPT !.pc = "blob", !.seen = SeenInTx(q)]
    OBVIOUS
  <2>2. req' = [req EXCEPT ![r] = next] /\ UNCHANGED <<rows, blobs>>
    BY <1>6, <2>1 DEF CheckQuota
  <2>3. SeenInTx(q) \in Row \cup {NoRow}
    BY <1>2, LookupType DEF SeenInTx, Handler, FilesInv, LockInv, TypeInv
  <2>4. next \in Handler /\ next.pc = "blob" /\ KnowsRow(next)
    BY <1>2, <2>1, <2>3 DEF Handler, Pcs, KnowsRow, SeenInTx
  <2>. QED
    BY <1>1, <1>2, <1>3, <1>4, <2>1, <2>2, <2>4, SlotFiles DEF Handler
<1>7. CASE SaveBlob(r)
  <2>1. PICK next : next = [q EXCEPT !.pc = IF q.op = "move" THEN "reread" ELSE "save"]
    OBVIOUS
  <2>2. /\ req' = [req EXCEPT ![r] = next] /\ rows' = rows /\ q.pc = "blob"
        /\ blobs' = Stored(q, Payload(q)) /\ Payload(q) # NoBlob
    BY <1>7, <2>1 DEF SaveBlob
  <2>3. next \in Handler /\ next.pc = "save" /\ KnowsRow(next)
    <3>1. next \in Handler /\ next.pc = "save"
      BY <1>2, <2>1 DEF Handler, Pcs
    <3>2. KnowsRow(q)
      BY <1>1 DEF FilesInv, InTransaction
    <3>. QED
      BY <1>2, <2>1, <2>2, <3>1, <3>2 DEF Handler, KnowsRow
  <2>4. \A s \in Spaces, i \in Items : blobs[<<s, i>>] # NoBlob => blobs'[<<s, i>>] # NoBlob
    BY <2>2 DEF Stored, FilesInv, LockInv, TypeInv, TypeOK
  <2>5. blobs'[<<next.toSpace, next.toId>>] # NoBlob
    BY <1>2, <2>1, <2>2 DEF Stored, Handler, FilesInv, LockInv, TypeInv, TypeOK
  <2>6. FileHasBlob'
    <3>1. \A i \in Items : rows[i] # NoRow => rows[i].space \in Spaces
      BY DEF FilesInv, LockInv, TypeInv, TypeOK, Row
    <3>. QED
      BY <2>2, <2>4, <3>1 DEF FilesInv, FileHasBlob, IsFile
  <2>7. ASSUME NEW p \in Requests \ {r}, req[p] # Idle, req[p].pc = "save" PROVE FALSE
    BY <1>2, <2>2, <2>7, FilesBusy, OneInTransaction
  <2>. QED
    BY <1>1, <1>2, <2>1, <2>2, <2>3, <2>5, <2>6, <2>7, SlotFiles DEF Handler
<1>8. CASE SaveBlobFails(r)
  <2>1. q.pc = "blob" /\ Payload(q) = NoBlob /\ blobs' = Stored(q, NoBlob) /\ Leave(r) /\ rows' = rows
    BY <1>8 DEF SaveBlobFails, WritesReliable
  <2>2. q.op = "copy"
    BY <1>2, <2>1, ItemStoreAssumption DEF Payload, Handler, Transfers
  <2>3. Lookup(q.toSpace, q.toId) = NoRow
    BY <1>1, <2>2 DEF FilesInv, CopiesNew, Lookup
  <2>. QED
    BY <1>1, <1>2, <2>1, <2>3, DropFiles
<1>9. CASE SaveChangesFails(r)
  <2>1. q.pc = "save" /\ blobs' = Compensated(q) /\ Leave(r) /\ rows' = rows
    BY <1>2, <1>9 DEF SaveChangesFails
  <2>2. q.op = "copy" => Lookup(q.toSpace, q.toId) = NoRow
    BY <1>1 DEF FilesInv, CopiesNew, Lookup
  <2>3. q.op = "file" /\ q.seen = NoRow => Lookup(q.toSpace, q.toId) = NoRow
    BY <1>1, <1>2, <2>1 DEF FilesInv, InTransaction, KnowsRow, Shape, Transfers
  <2>4. blobs' = blobs \/ (blobs' = Stored(q, NoBlob) /\ Lookup(q.toSpace, q.toId) = NoRow)
    BY <1>2, <2>1, <2>2, <2>3 DEF Compensated, Upserts, Transfers
  <2>. QED
    BY <1>1, <1>2, <2>1, <2>4, DropFiles
<1>10. CASE RejectOverQuota(r)
  BY <1>10, LeaveFiles DEF RejectOverQuota
<1>11. ~LoadExisting(r) /\ ~RereadSource(r) /\ ~DeleteStaleBlob(r)
  BY <1>2 DEF LoadExisting, RereadSource, DeleteStaleBlob
<1>. QED
  BY <1>5, <1>6, <1>7, <1>8, <1>9, <1>10, <1>11, SaveFiles DEF Step

LEMMA FilesStep ==
  ASSUME FilesOnly, WritesReliable, FilesInv, [Next]_vars
  PROVE  FilesInv'
<1>1. LockInv'
  BY TypeStep, LockStep DEF FilesInv, LockInv
<1>2. ASSUME NEW r \in Requests, Start(r) \/ Step(r) PROVE FilesInv'
  BY <1>1, <1>2, StartFiles, StepFiles DEF FilesInv
<1>3. ASSUME NEW r \in Requests, Abort(r) PROVE FilesInv'
  BY <1>1, <1>3, LeaveFiles DEF Abort, FilesInv
<1>4. CASE Crash
  <2>1. rows' = rows /\ \A r \in Requests : req'[r] = Idle
    BY <1>4 DEF Crash
  <2>2. \A s \in Spaces, i \in Items : blobs[<<s, i>>] # NoBlob => blobs'[<<s, i>>] # NoBlob
    BY <1>4, ItemStoreAssumption DEF Crash, Stored, FilesInv, LockInv, TypeInv, TypeOK
  <2>3. FileHasBlob'
    <3>1. \A i \in Items : rows[i] # NoRow => rows[i].space \in Spaces
      BY DEF FilesInv, LockInv, TypeInv, TypeOK, Row
    <3>. QED
      BY <2>1, <2>2, <3>1 DEF FilesInv, FileHasBlob, IsFile
  <2>. QED
    BY <1>1, <2>1, <2>3 DEF FilesInv, OnlyFiles, CopiesNew, InTransaction
<1>5. ASSUME NEW i \in Items, Sweep(i) PROVE FilesInv'
  <2>1. /\ UNCHANGED <<req, blobs>> /\ writer = NoRequest
        /\ \A j \in Items : rows'[j] \in {rows[j], NoRow}
    BY <1>5 DEF Sweep, FilesInv, LockInv, TypeInv, TypeOK
  <2>2. \A r \in Requests : ~HoldsTx(req[r])
    BY <2>1, ItemStoreAssumption DEF FilesInv, LockInv, LockDiscipline
  <2>3. FileHasBlob' /\ OnlyFiles'
    BY <2>1 DEF FilesInv, FileHasBlob, IsFile, OnlyFiles
  <2>4. CopiesNew'
    BY <2>1, FilesBusy DEF FilesInv, CopiesNew, Handler
  <2>5. InTransaction'
    BY <2>1, <2>2 DEF FilesInv, InTransaction, KnowsRow, HasBlob
  <2>. QED
    BY <1>1, <2>3, <2>4, <2>5 DEF FilesInv
<1>6. CASE UNCHANGED vars
  <2>1. UNCHANGED <<rows, blobs, req>>
    BY <1>6 DEF vars
  <2>2. \A r \in Requests : req[r] # Idle => KnowsRow(req[r])' /\ HasBlob(req[r])'
    BY <2>1 DEF FilesInv, InTransaction, KnowsRow, HasBlob, Lookup
  <2>. QED
    BY <1>1, <2>1, <2>2 DEF FilesInv, FileHasBlob, IsFile, OnlyFiles, CopiesNew, InTransaction
<1>. QED
  BY <1>2, <1>3, <1>4, <1>5, <1>6 DEF Next

\* While no request runs into another and nothing fails, what is said of the blobs
\* between requests holds within one as well.
LEMMA CalmFiles == CalmInv => FileHasBlob
<1> SUFFICES ASSUME CalmInv, NEW i \in Items, IsFile(i)
             PROVE  blobs[<<rows[i].space, i>>] # NoBlob
  BY DEF FileHasBlob
<1>1. rows[i] \in Row /\ rows[i].space \in Spaces /\ rows[i].size # NoBlob
  BY ItemStoreAssumption DEF IsFile, CalmInv, TypeInv, TypeOK, Row
<1>2. Expected(rows[i].space, i) # NoBlob
  BY <1>1 DEF Expected
<1>3. ASSUME NEW r \in Requests, req[r] # Idle PROVE blobs[<<rows[i].space, i>>] # NoBlob
  <2>1. req[r].size # NoBlob
    BY <1>3, ItemStoreAssumption DEF CalmInv, TypeInv, TypeOK, Handler
  <2>. QED
    BY <1>1, <1>2, <2>1 DEF CalmInv, Tidy, TidyAt
<1>4. CASE \A r \in Requests : req[r] = Idle
  BY <1>1, <1>4 DEF CalmInv, Tidy, StorageMatches
<1>. QED
  BY <1>3, <1>4

\* A row that says it is a file has a blob to download in every state. Either no
\* request runs into another and nothing fails, or the requests, as many as there
\* are at once, upload files and copy items, the sweep deletes rows, the database
\* fails and the server crashes, but no write of a blob breaks off half-way: blobs
\* are written before their row is committed, and the transaction keeps every
\* other writer off the row until then (UpsertItem, TransferItemSameServer).
THEOREM FilesHaveBlobs ==
  ASSUME \/ FilesOnly /\ WritesReliable
         \/ Undisturbed /\ Faults = {}
  PROVE  Spec => []FileHasBlob
<1>1. CASE FilesOnly /\ WritesReliable
  <2>1. Init => FilesInv
    BY TypeInit, LockInit
       DEF Init, FilesInv, LockInv, FileHasBlob, IsFile, OnlyFiles, CopiesNew, InTransaction
  <2>2. FilesInv /\ [Next]_vars => FilesInv'
    BY <1>1, FilesStep
  <2>3. FilesInv => FileHasBlob
    BY DEF FilesInv
  <2>. QED
    BY <2>1, <2>2, <2>3, PTL DEF Spec
<1>2. CASE Undisturbed /\ Faults = {}
  <2>1. CalmInv /\ [Next]_vars => CalmInv'
    BY <1>2, TypeStep, CurrentStep, TidyStep DEF CalmInv
  <2>. QED
    BY CalmInit, <2>1, CalmFiles, PTL DEF Spec
<1>. QED
  BY <1>1, <1>2

(***************************************************************************)
(* What a save that fails leaves behind.                                   *)
(***************************************************************************)
\* No request stores a text, and the tokens given to the compensating calls are
\* not cancelled.
NoTextsSent == "text" \notin Ops
CompensationRuns == "cancel" \notin Faults

\* A file upsert in its transaction knows the row it replaces.
RowKnown == \A r \in Requests : req[r] # Idle => req[r].op # "text" /\ KnowsRow(req[r])

CleanInv == LockInv /\ WholeInv /\ RowKnown

\* Nobody else writes the table while a handler is in its transaction.
LEMMA OthersKeepRows ==
  ASSUME LockInv, NEW r \in Requests, HoldsTx(req[r]), NEW p \in Requests \ {r}, SaveChanges(p)
  PROVE  FALSE
<1>1. writer = r
  BY DEF LockInv, LockDiscipline
<1>. QED
  BY <1>1, ItemStoreAssumption DEF SaveChanges

LEMMA StartKnown ==
  ASSUME NoTextsSent, TypeInv, RowKnown, NEW r \in Requests, Start(r)
  PROVE  RowKnown'
<1>1. PICK s \in Spaces, i \in Items :
        \/ \E n \in FileSizes : StartUpsert(r, s, i, "file", n)
        \/ StartDelete(r, s, i)
        \/ \E d \in Spaces, j \in Items, op \in Transfers : StartTransfer(r, s, i, d, j, op)
  BY DEF Start, StartUpsert, NoTextsSent
<1>2. rows' = rows /\ \A p \in Requests \ {r} : req'[p] = req[p]
  BY <1>1 DEF StartUpsert, StartDelete, StartTransfer, TypeInv, TypeOK
<1>3. req'[r].op # "text" /\ (req'[r].op = "file" => req'[r].pc = "lock")
  BY <1>1 DEF StartUpsert, StartDelete, StartTransfer, Transfers, TypeInv, TypeOK
<1>. QED
  BY <1>2, <1>3 DEF RowKnown, KnowsRow, HoldsTx, Lookup

\* Steps of a handler that change no row.
LEMMA SlotKnown ==
  ASSUME TypeInv, RowKnown, NEW r \in Requests, NEW q, rows' = rows, req' = [req EXCEPT ![r] = q],
         q # Idle => q.op # "text" /\ KnowsRow(q)
  PROVE  RowKnown'
BY DEF RowKnown, KnowsRow, Lookup, TypeInv, TypeOK

LEMMA StepKnown ==
  ASSUME CleanInv, NEW r \in Requests, Step(r)
  PROVE  RowKnown'
<1> DEFINE q == req[r]
<1>1. q \in Handler /\ q # Idle /\ Shape(q) /\ q.op # "text" /\ KnowsRow(q) /\ TypeInv /\ RowKnown
  BY StepBusy DEF CleanInv, LockInv, RowKnown
<1>2. ~LoadExisting(r)
  BY <1>1 DEF LoadExisting, Shape
<1>3. CASE AcquireQuotaLock(r)
  <2>1. PICK next : next = [q EXCEPT !.pc = "begin"]
    OBVIOUS
  <2>2. next.op = q.op /\ KnowsRow(next)
    BY <1>1, <2>1 DEF Handler, KnowsRow, HoldsTx
  <2>. QED
    BY <1>1, <1>3, <2>1, <2>2, SlotKnown DEF AcquireQuotaLock
<1>4. CASE CheckQuota(r)
  <2>1. PICK next : next = [q EXCEPT !.pc = "blob", !.seen = SeenInTx(q)]
    OBVIOUS
  <2>2. next.op = q.op /\ KnowsRow(next)
    BY <1>1, <2>1 DEF Handler, KnowsRow, SeenInTx
  <2>. QED
    BY <1>1, <1>4, <2>1, <2>2, SlotKnown DEF CheckQuota
<1>5. CASE SaveBlob(r)
  <2>1. PICK next : next = [q EXCEPT !.pc = IF q.op = "move" THEN "reread" ELSE "save"]
    OBVIOUS
  <2>2. next.op = q.op /\ KnowsRow(next)
    BY <1>1, <1>5, <2>1 DEF Handler, KnowsRow, HoldsTx, Guarded, SaveBlob
  <2>. QED
    BY <1>1, <1>5, <2>1, <2>2, SlotKnown DEF SaveBlob
<1>6. CASE RereadSource(r)
  <2>1. PICK next : next = [q EXCEPT !.pc = "save", !.reread = Lookup(q.space, q.item) # NoRow]
    OBVIOUS
  <2>2. next.op = "move"
    BY <1>1, <1>6, <2>1 DEF Handler, Shape, RereadSource
  <2>3. rows' = rows /\ req' = [req EXCEPT ![r] = next]
    BY <1>1, <1>6, <2>1 DEF RereadSource, TypeInv, TypeOK
  <2>. QED
    BY <1>1, <2>2, <2>3, SlotKnown DEF KnowsRow
<1>7. CASE SaveChanges(r)
  <2>1. ASSUME NEW p \in Requests \ {r}, req[p] # Idle PROVE ~HoldsTx(req[p])
    BY <1>7, OthersKeepRows DEF CleanInv
  <2>2. \A p \in Requests \ {r} : req'[p] = req[p]
    BY <1>1, <1>7 DEF SaveChanges, Leave, TypeInv, TypeOK
  <2>3. req'[r] = Idle \/ (req'[r].pc = "clean" /\ req'[r].op = q.op)
    BY <1>1, <1>7 DEF SaveChanges, Leave, Handler, TypeInv, TypeOK
  <2>. QED
    BY <1>1, <2>1, <2>2, <2>3 DEF RowKnown, KnowsRow, HoldsTx
<1>8. CASE RejectOverQuota(r) \/ SaveBlobFails(r) \/ SaveChangesFails(r) \/ DeleteStaleBlob(r)
  <2>1. rows' = rows /\ req' = [req EXCEPT ![r] = Idle]
    BY <1>8 DEF RejectOverQuota, SaveBlobFails, SaveChangesFails, DeleteStaleBlob, Leave
  <2>. QED
    BY <1>1, <2>1, SlotKnown
<1>. QED
  BY <1>2, <1>3, <1>4, <1>5, <1>6, <1>7, <1>8 DEF Step

LEMMA CleanStep ==
  ASSUME NoTextsSent, CleanInv, [Next]_vars
  PROVE  CleanInv'
<1>1. LockInv' /\ WholeInv'
  BY TypeStep, LockStep, WholeStep DEF CleanInv, LockInv, NoTextsSent
<1>. SUFFICES RowKnown'
  BY <1>1 DEF CleanInv
<1>2. ASSUME NEW r \in Requests, Start(r) \/ Step(r) \/ Abort(r) PROVE RowKnown'
  <2>1. CASE Abort(r)
    <3>1. rows' = rows /\ req' = [req EXCEPT ![r] = Idle]
      BY <2>1 DEF Abort, Leave
    <3>. QED
      BY <3>1, SlotKnown DEF CleanInv, LockInv
  <2>. QED
    BY <1>2, <2>1, StartKnown, StepKnown DEF CleanInv, LockInv
<1>3. CASE Crash
  <2>1. \A r \in Requests : req'[r] = Idle
    BY <1>3 DEF Crash
  <2>. QED
    BY <2>1 DEF RowKnown
<1>4. ASSUME NEW i \in Items, Sweep(i) PROVE RowKnown'
  <2>1. ASSUME NEW r \in Requests PROVE ~HoldsTx(req[r])
    BY <1>4, ItemStoreAssumption DEF Sweep, CleanInv, LockInv, LockDiscipline
  <2>. QED
    BY <1>4, <2>1 DEF CleanInv, RowKnown, KnowsRow, Sweep
<1>5. CASE UNCHANGED vars
  <2>1. rows' = rows /\ req' = req
    BY <1>5 DEF vars
  <2>2. \A r \in Requests : req[r] # Idle => req[r].op # "text" /\ KnowsRow(req[r])'
    BY <2>1 DEF CleanInv, RowKnown, KnowsRow, Lookup
  <2>. QED
    BY <2>1, <2>2 DEF RowKnown
<1>. QED
  BY <1>2, <1>3, <1>4, <1>5 DEF Next

\* A handler that stores its row has it in the table as it leaves.
LEMMA SavedRowIsThere ==
  ASSUME NoTextsSent, CleanInv, NEW r \in Requests, SaveChanges(r), Guarded(req[r]), req'[r] = Idle
  PROVE  LET row == rows'[req[r].toId]
         IN  row # NoRow /\ row.kind = "file" /\ row.space = req[r].toSpace
<1> DEFINE q == req[r]
<1>1. /\ q \in Handler /\ q # Idle /\ Shape(q) /\ q.op # "text" /\ KnowsRow(q) /\ HoldsTx(q)
      /\ q.kind = "file" /\ q.op # "delete" /\ ~Conflict(q) /\ WriteRows(q)
      /\ rows \in [Items -> Row \cup {NoRow}] /\ q.toId \in Items
  BY BusyIsHandler
     DEF SaveChanges, CleanInv, LockInv, RowKnown, Pcs, TypeInv, TypeOK, HandlerShape, HoldsTx, Guarded,
         Handler
<1>2. q.op \in {"file", "copy"}
  <2>1. ~HasStaleBlob(q)
    <3>1. HasStaleBlob(q) => req'[r] = [q EXCEPT !.pc = "clean"]
      BY <1>1 DEF SaveChanges, CleanInv, LockInv, TypeInv, TypeOK
    <3>2. [q EXCEPT !.pc = "clean"] # Idle
      BY <1>1 DEF Handler, Idle
    <3>. QED
      BY <3>1, <3>2
  <2>. QED
    BY <1>1, <2>1 DEF HasStaleBlob, Handler, Upserts, Transfers
<1>3. NewRow(q) # NoRow /\ NewRow(q).kind = "file" /\ NewRow(q).space = q.toSpace
  <2>1. q.op \in Transfers => q.seen \in Row
    BY <1>1 DEF Shape, Upserts, Transfers
  <2>2. NewRow(q) \in Row
    BY <1>1, <2>1, NewRowType
  <2>. QED
    BY <1>1, <2>2, ItemStoreAssumption DEF NewRow
<1>4. CASE q.op = "copy" \/ q.seen = NoRow
  <2>1. rows' = [rows EXCEPT ![q.toId] = NewRow(q)]
    BY <1>1, <1>2, <1>4, ItemStoreAssumption DEF WriteRows, Shape, Upserts, Transfers
  <2>. QED
    BY <1>1, <1>3, <2>1
<1>5. CASE q.op = "file" /\ q.seen # NoRow
  <2>1. PICK u \in UpdatedRows(q) : rows' = [rows EXCEPT ![q.toId] = u]
    BY <1>1, <1>5 DEF WriteRows, Upserts, Transfers
  <2>2. rows[q.toId] = q.seen /\ q.seen.space = q.toSpace
    BY <1>1, <1>5 DEF KnowsRow, Lookup, Shape, Transfers
  <2>3. u \in Row
    BY <1>1, <1>5, <2>2, UpdatedRowsType DEF CleanInv, LockInv, TypeInv
  <2>4. u.space = q.toSpace /\ u.kind = "file"
    BY <1>3, <2>1, <2>2 DEF UpdatedRows
  <2>. QED
    BY <1>1, <2>1, <2>3, <2>4, ItemStoreAssumption
<1>. QED
  BY <1>2, <1>4, <1>5

\* One that fails deletes the file it has written, unless a row has it.
LEMMA FailedRowIsThere ==
  ASSUME NoTextsSent, CleanInv, NEW r \in Requests, SaveChangesFails(r), Guarded(req[r])
  PROVE  LET q == req[r]
             row == rows'[q.toId]
         IN  \/ blobs'[<<q.toSpace, q.toId>>] = NoBlob
             \/ row # NoRow /\ row.kind = "file" /\ row.space = q.toSpace
<1> DEFINE q == req[r]
<1>1. /\ q \in Handler /\ q # Idle /\ Shape(q) /\ q.op # "text" /\ KnowsRow(q) /\ HoldsTx(q)
      /\ q.kind = "file" /\ q.op # "delete" /\ rows' = rows /\ blobs' = Compensated(q)
      /\ blobs \in [Spaces \X Items -> Sizes \cup {NoBlob}]
  BY BusyIsHandler
     DEF SaveChangesFails, CleanInv, LockInv, RowKnown, Pcs, TypeInv, TypeOK, HandlerShape, HoldsTx,
         Guarded
<1>2. CASE q.op \in Transfers \/ q.seen = NoRow
  <2>1. blobs' = Stored(q, NoBlob)
    BY <1>1, <1>2 DEF Compensated, Handler
  <2>. QED
    BY <1>1, <2>1 DEF Stored, Handler
<1>3. CASE q.op = "file" /\ q.seen # NoRow
  <2>1. rows[q.toId] = q.seen /\ q.seen.space = q.toSpace
    BY <1>1, <1>3 DEF KnowsRow, Lookup, Shape, Transfers
  <2>2. q.seen.kind = "file"
    BY <1>1, <1>3 DEF CleanInv, WholeInv, NoTexts, NoTextsSent
  <2>. QED
    BY <1>1, <1>3, <2>1, <2>2
<1>. QED
  BY <1>1, <1>2, <1>3 DEF Handler, Upserts

\* However many requests upload, copy, move and delete files at once, with the
\* sweep, failures of files and of the database, and restarts between them: a save
\* that fails takes the file it has written with it unless a row has that file
\* (the catch blocks of UpsertItem and TransferItemSameServer).  It is the write
\* lock, held from the check on, that makes what the handler has seen of the row
\* good enough to decide by.
THEOREM FailedSavesCleanUp ==
  ASSUME NoTextsSent, CompensationRuns
  PROVE  Spec => FailuresCleanUp
<1>1. Init => CleanInv
  BY TypeInit, LockInit
     DEF Init, CleanInv, LockInv, WholeInv, RowIsWhole, IsFile, SeenWhole, Steady, NoTexts, RowKnown
<1>2. CleanInv /\ [Next]_vars => CleanInv'
  BY CleanStep
<1>3. ASSUME CleanInv, [Next]_vars, NEW r \in Requests,
             req[r].pc \in {"reread", "save"}, Guarded(req[r]), req'[r] = Idle, ~Crash
      PROVE  LET q == req[r]
                 row == rows'[q.toId]
             IN  \/ blobs'[<<q.toSpace, q.toId>>] = NoBlob
                 \/ row # NoRow /\ row.kind = "file" /\ row.space = q.toSpace
  <2>1. req[r] # Idle /\ TypeInv
    BY <1>3 DEF Idle, CleanInv, LockInv
  <2>2. SaveChanges(r) \/ SaveChangesFails(r)
    <3>1. ASSUME NEW p \in Requests, Start(p) \/ Step(p) \/ Abort(p), p # r PROVE req'[r] = req[r]
      BY <2>1, <3>1
         DEF Start, StartUpsert, StartDelete, StartTransfer, Step, LoadExisting, AcquireQuotaLock,
             CheckQuota, RejectOverQuota, SaveBlob, SaveBlobFails, RereadSource, SaveChanges,
             SaveChangesFails, DeleteStaleBlob, Abort, Leave, TypeInv, TypeOK
    <3>2. ~Start(r)
      BY <2>1 DEF Start, StartUpsert, StartDelete, StartTransfer
    <3>3. ~Abort(r)
      BY <1>3 DEF Abort, CompensationRuns
    <3>4. RereadSource(r) => req'[r] # Idle
      <4>1. req[r] \in Handler
        BY <2>1 DEF TypeInv, TypeOK
      <4>2. PICK next : next = [req[r] EXCEPT !.pc = "save", !.reread = Lookup(req[r].space, req[r].item) # NoRow]
        OBVIOUS
      <4>3. next.pc = "save" /\ next # Idle
        BY <4>1, <4>2 DEF Handler, Idle
      <4>4. RereadSource(r) => req'[r] = next
        BY <2>1, <4>2 DEF RereadSource, TypeInv, TypeOK
      <4>. QED
        BY <4>3, <4>4
    <3>5. Step(r) => SaveChanges(r) \/ SaveChangesFails(r)
      BY <1>3, <3>4
         DEF Step, LoadExisting, AcquireQuotaLock, CheckQuota, RejectOverQuota, SaveBlob, SaveBlobFails,
             DeleteStaleBlob
    <3>6. ~UNCHANGED vars /\ \A i \in Items : ~Sweep(i)
      BY <1>3, <2>1 DEF vars, Sweep
    <3>. QED
      BY <1>3, <2>1, <3>1, <3>2, <3>3, <3>5, <3>6 DEF Next
  <2>. QED
    BY <1>3, <2>2, SavedRowIsThere, FailedRowIsThere
<1>4. CleanInv /\ [Next]_vars =>
        [\A r \in Requests :
           LET q == req[r]
               row == rows'[q.toId]
           IN /\ q.pc \in {"reread", "save"} /\ Guarded(q)
              /\ req'[r] = Idle /\ ~Crash
              => \/ blobs'[<<q.toSpace, q.toId>>] = NoBlob
                 \/ row # NoRow /\ row.kind = "file" /\ row.space = q.toSpace]_vars
  BY <1>3
<1>. QED
  BY <1>1, <1>2, <1>4, PTL DEF Spec, FailuresCleanUp
=============================================================================
