----------------------------- MODULE ItemStore -----------------------------
(***************************************************************************)
(* The item write path of one SharedSpaces server: the SpaceItems table,   *)
(* the blob directory, the per-space quota semaphores and the requests     *)
(* that write them (ItemEndpoints.cs, LocalFileStorage.cs).                *)
(*                                                                         *)
(* A request handler is a sequence of awaits; each action below is one of  *)
(* the stretches between two awaits after which another handler may have   *)
(* changed what this one reads next.  A handler that runs inside a         *)
(* Serializable SQLite transaction (BEGIN IMMEDIATE) is the only writer of *)
(* the table until it commits: that is the variable writer.  Blob files    *)
(* are outside of every transaction.                                       *)
(***************************************************************************)
EXTENDS Integers, FiniteSets

CONSTANTS
  Spaces,         \* space ids
  Items,          \* item ids (GUIDs); every id of the table is one of these
  Requests,       \* slots for the requests in flight
  MaxSize,        \* largest payload, in units of storage
  FileSizes,      \* sizes of the files clients upload
  TextThreshold,  \* largest text kept inline (DefaultMaxTextToFileThresholdBytes)
  Quota,          \* MaxUploadSize, or the server default, of each space
  Ops,            \* the operations clients send
  Faults,         \* what may go wrong: "io", "db", "cancel", "crash"
  NoRow, NoBlob, NoRequest

Sizes == 0..MaxSize

\* The stored payload of a text upsert: 0 when the text stays inline, its
\* size when it is long enough to be converted to a file.
TextSizes == {0} \cup {n \in Sizes : n > TextThreshold}

\* A row of SpaceItems. content is what the Content column holds: the text
\* itself ("body") or a file name ("name").
Row == [space : Spaces, kind : {"text", "file"},
        content : {"body", "name"}, size : Sizes]

Upserts   == {"text", "file"}
Transfers == {"copy", "move"}

ASSUME ItemStoreAssumption ==
  /\ IsFiniteSet(Items)
  /\ MaxSize \in Nat
  /\ FileSizes \subseteq Sizes
  /\ TextThreshold \in Nat
  /\ Quota \in [Spaces -> Nat]
  /\ Ops \subseteq Upserts \cup Transfers \cup {"delete", "sweep"}
  /\ Faults \subseteq {"io", "db", "cancel", "crash"}
  /\ NoRow \notin Row
  /\ NoBlob \notin Sizes
  /\ NoRequest \notin Requests

VARIABLES
  rows,       \* rows[i]: the SpaceItems row with primary key i, or NoRow
  blobs,      \* blobs[s, i]: size of the file <BasePath>/s/i.bin, or NoBlob
  quotaLock,  \* quotaLock[s]: the request holding SpaceQuotaLocks[s]
  writer,     \* the request holding SQLite's write lock over a transaction
  req         \* req[r]: the handler running in slot r

vars == <<rows, blobs, quotaLock, writer, req>>

-----------------------------------------------------------------------------
(***************************************************************************)
(* Handlers.  A handler acts on item `item` of space `space`; it writes    *)
(* its row and blob under the id `toId` of the space `toSpace`, the same   *)
(* two for an upsert and the destination's for a transfer.  seen is the    *)
(* row entity it loaded; reread tells whether a move found its source      *)
(* again when it re-read it.                                               *)
(***************************************************************************)
Pcs == {"load", "lock", "begin", "blob", "reread", "save", "clean"}

Handler == [pc : Pcs, op : Upserts \cup Transfers \cup {"delete"},
            space : Spaces, item : Items, toSpace : Spaces, toId : Items,
            kind : {"text", "file"}, size : Sizes, seen : Row \cup {NoRow}, reread : BOOLEAN]

Idle == [pc |-> "idle"]

\* File writes (and texts converted to files) take the space's semaphore and
\* a Serializable transaction; inline texts and deletes take neither.
Guarded(q) == q.op # "delete" /\ q.kind = "file"

HoldsLock(q) == q.pc \in {"begin", "blob", "reread", "save", "clean"} /\ Guarded(q)
HoldsTx(q)   == q.pc \in {"blob", "reread", "save"} /\ Guarded(q)

\* The row a query by space and id finds.
Lookup(s, i) == IF rows[i] # NoRow /\ rows[i].space = s THEN rows[i] ELSE NoRow

SizeOf(row) == IF row = NoRow THEN 0 ELSE row.size

\* SUM(FileSize) over a space is the number of storage units its rows claim.
UnitsOf(table, s) ==
  {u \in Items \X (1..MaxSize) :
     /\ table[u[1]] # NoRow
     /\ table[u[1]].space = s
     /\ u[2] <= table[u[1]].size}

Usage(s) == Cardinality(UnitsOf(rows, s))

\* An id no row, blob or handler has: what Guid.NewGuid returns.
Fresh(i) ==
  /\ rows[i] = NoRow
  /\ \A s \in Spaces : blobs[<<s, i>>] = NoBlob
  /\ \A r \in Requests : req[r] # Idle => i \notin {req[r].item, req[r].toId}

\* No client knows the id of a transfer's destination before it is committed.
Known(i) ==
  \A r \in Requests : req[r] # Idle /\ req[r].op \in Transfers => i # req[r].toId

-----------------------------------------------------------------------------
(***************************************************************************)
(* Starting a handler, up to its first await that matters.                 *)
(***************************************************************************)
StartUpsert(r, s, i, op, n) ==
  /\ req[r] = Idle
  /\ op \in Ops
  /\ Known(i)
  /\ req' = [req EXCEPT ![r] =
       [pc |-> IF op = "text" THEN "load" ELSE "lock", op |-> op,
        space |-> s, item |-> i, toSpace |-> s, toId |-> i,
        kind |-> IF op = "text" /\ n <= TextThreshold THEN "text" ELSE "file",
        size |-> n, seen |-> NoRow, reread |-> FALSE]]
  /\ UNCHANGED <<rows, blobs, quotaLock, writer>>

\* DeleteItem loads the row first: no row, no effect (404).
StartDelete(r, s, i) ==
  /\ req[r] = Idle
  /\ "delete" \in Ops
  /\ Lookup(s, i) # NoRow
  /\ req' = [req EXCEPT ![r] =
       [pc |-> "save", op |-> "delete", space |-> s, item |-> i,
        toSpace |-> s, toId |-> i, kind |-> rows[i].kind,
        size |-> rows[i].size, seen |-> rows[i], reread |-> FALSE]]
  /\ UNCHANGED <<rows, blobs, quotaLock, writer>>

\* TransferItemSameServer loads the source without tracking it; what it will
\* insert is decided by this read. Same-space transfers are refused.
StartTransfer(r, s, i, d, j, op) ==
  /\ req[r] = Idle
  /\ op \in Ops
  /\ Lookup(s, i) # NoRow
  /\ d # s
  /\ Fresh(j)
  /\ req' = [req EXCEPT ![r] =
       [pc |-> IF rows[i].kind = "file" THEN "lock"
               ELSE IF op = "move" THEN "reread" ELSE "save",
        op |-> op, space |-> s, item |-> i, toSpace |-> d, toId |-> j,
        kind |-> rows[i].kind, size |-> rows[i].size, seen |-> rows[i],
        reread |-> FALSE]]
  /\ UNCHANGED <<rows, blobs, quotaLock, writer>>

\* A text upsert loads the existing row before any lock or transaction.
LoadExisting(r) ==
  /\ req[r].pc = "load"
  /\ req' = [req EXCEPT ![r].pc = IF req[r].kind = "file" THEN "lock" ELSE "save",
                        ![r].seen = Lookup(req[r].space, req[r].item)]
  /\ UNCHANGED <<rows, blobs, quotaLock, writer>>

AcquireQuotaLock(r) ==
  /\ req[r].pc = "lock"
  /\ quotaLock[req[r].toSpace] = NoRequest
  /\ quotaLock' = [quotaLock EXCEPT ![req[r].toSpace] = r]
  /\ req' = [req EXCEPT ![r].pc = "begin"]
  /\ UNCHANGED <<rows, blobs, writer>>

\* The entity a handler holds once inside its transaction: a file upsert loads
\* it there, the other handlers keep the one they loaded before.
SeenInTx(q) == IF q.op = "file" THEN Lookup(q.space, q.item) ELSE q.seen

\* Mutant: the payload is not counted.
ProjectedBefore(q) ==
  Usage(q.toSpace) - (IF q.op \in Upserts THEN SizeOf(SeenInTx(q)) ELSE 0)

\* What the space would hold with this payload: an upsert does not count the
\* item it replaces, a transfer adds a new one.
Projected(q) ==
  Usage(q.toSpace) - (IF q.op \in Upserts THEN SizeOf(SeenInTx(q)) ELSE 0) + q.size

\* BEGIN IMMEDIATE and the reads behind the quota check. Nobody else writes
\* the table from here on, so the reads and the check are one step.
CheckQuota(r) ==
  /\ req[r].pc = "begin"
  /\ writer = NoRequest
  /\ Projected(req[r]) <= Quota[req[r].toSpace]
  /\ writer' = r
  /\ req' = [req EXCEPT ![r].pc = "blob", ![r].seen = SeenInTx(req[r])]
  /\ UNCHANGED <<rows, blobs, quotaLock>>

-----------------------------------------------------------------------------
(***************************************************************************)
(* Leaving a handler.  The finally block disposes the transaction, rolling *)
(* back what was not committed, and releases the semaphore.                *)
(***************************************************************************)
\* Mutant: a finally block that disposes only the transaction.
ReleasedNever(r) == quotaLock

Released(r) == [s \in Spaces |-> IF quotaLock[s] = r THEN NoRequest ELSE quotaLock[s]]

Leave(r) ==
  /\ req' = [req EXCEPT ![r] = Idle]
  /\ writer' = IF writer = r THEN NoRequest ELSE writer
  /\ quotaLock' = Released(r)

\* 413 Payload Too Large.
RejectOverQuota(r) ==
  /\ req[r].pc = "begin"
  /\ writer = NoRequest
  /\ Projected(req[r]) > Quota[req[r].toSpace]
  /\ Leave(r)
  /\ UNCHANGED <<rows, blobs>>

\* What SaveAsync copies: the request body, or the source's blob.
Payload(q) == IF q.op \in Transfers THEN blobs[<<q.space, q.item>>] ELSE q.size

\* The blobs once handler q's file holds n.
Stored(q, n) == [blobs EXCEPT ![<<q.toSpace, q.toId>>] = n]

SaveBlob(r) ==
  /\ req[r].pc = "blob"
  /\ Payload(req[r]) # NoBlob
  /\ blobs' = Stored(req[r], Payload(req[r]))
  /\ req' = [req EXCEPT ![r].pc = IF req[r].op = "move" THEN "reread" ELSE "save"]
  /\ UNCHANGED <<rows, quotaLock, writer>>

\* An I/O error, a sharing violation with a reader, a cancelled copy or a source
\* without a blob: SaveAsync (or the transfer's catch block) deletes the file it
\* was writing, which for an overwrite is the item's only copy.
SaveBlobFails(r) ==
  /\ req[r].pc = "blob"
  /\ {"io", "cancel"} \cap Faults # {} \/ Payload(req[r]) = NoBlob
  /\ blobs' = Stored(req[r], NoBlob)
  /\ Leave(r)
  /\ UNCHANGED rows

\* Mutant: the second read uses the destination's space id.
RereadAtDestination(r) ==
  /\ req[r].pc = "reread"
  /\ req' = [req EXCEPT ![r].pc = "save",
                        ![r].reread = Lookup(req[r].toSpace, req[r].item) # NoRow]
  /\ UNCHANGED <<rows, blobs, quotaLock, writer>>

\* A move re-reads its source, tracked this time, to remove it.
RereadSource(r) ==
  /\ req[r].pc = "reread"
  /\ req' = [req EXCEPT ![r].pc = "save",
                        ![r].reread = Lookup(req[r].space, req[r].item) # NoRow]
  /\ UNCHANGED <<rows, blobs, quotaLock, writer>>

-----------------------------------------------------------------------------
(***************************************************************************)
(* SaveChanges and Commit.                                                 *)
(***************************************************************************)

\* Mutants: FileSize added up over re-uploads; every row given a file name.
AccumulatedRow(q) ==
  [space |-> q.toSpace, kind |-> q.kind, size |-> q.size + SizeOf(q.seen),
   content |-> IF q.kind = "file" THEN "name" ELSE "body"]
NamedRow(q) ==
  [space |-> q.toSpace, kind |-> q.kind, size |-> q.size, content |-> "name"]

\* The row a handler means to store.
NewRow(q) ==
  [space |-> q.toSpace, kind |-> q.kind, size |-> q.size,
   content |-> IF q.op \in Transfers THEN q.seen.content
               ELSE IF q.kind = "file" THEN "name" ELSE "body"]

\* EF Core's UPDATE sets only the columns that differ from the entity loaded;
\* the others keep what the table holds by then. Two contents of one kind may
\* be equal or not.
UpdatedRows(q) ==
  LET new == NewRow(q)
      now == rows[q.toId]
      column(old, value, current) == IF old # value THEN value ELSE current
  IN {[space   |-> now.space,
       kind    |-> column(q.seen.kind, new.kind, now.kind),
       size    |-> column(q.seen.size, new.size, now.size),
       content |-> c] : c \in {new.content, column(q.seen.content, new.content, now.content)}}

\* The statements fail: INSERT of a key the table has, UPDATE or DELETE of a
\* row that is gone (DbUpdateConcurrencyException).
Conflict(q) ==
  \/ q.op \in Upserts /\ q.seen = NoRow /\ rows[q.toId] # NoRow
  \/ q.op \in Upserts /\ q.seen # NoRow /\ rows[q.toId] = NoRow
  \/ q.op = "delete" /\ rows[q.item] = NoRow
  \/ q.op = "move" /\ q.reread /\ rows[q.item] = NoRow

\* The statements of handler q.
WriteRows(q) ==
  \/ /\ q.op = "delete"
     /\ rows' = [rows EXCEPT ![q.item] = NoRow]
  \/ /\ q.op \in Upserts /\ q.seen = NoRow
     /\ rows' = [rows EXCEPT ![q.toId] = NewRow(q)]
  \/ /\ q.op \in Upserts /\ q.seen # NoRow
     /\ \E u \in UpdatedRows(q) : rows' = [rows EXCEPT ![q.toId] = u]
  \/ /\ q.op \in Transfers /\ ~q.reread
     /\ rows' = [rows EXCEPT ![q.toId] = NewRow(q)]
  \/ /\ q.op = "move" /\ q.reread
     /\ rows' = [rows EXCEPT ![q.toId] = NewRow(q), ![q.item] = NoRow]

\* Mutant: the blobs of moved and of replaced files are forgotten.
StaleOnDelete(q) == q.op = "delete" /\ q.seen.kind = "file"

\* Whether the handler still has a blob to delete once it has committed: that
\* of a deleted or moved file, or of a file replaced by an inline text.
HasStaleBlob(q) ==
  \/ q.op = "delete" /\ q.seen.kind = "file"
  \/ q.op = "move" /\ q.kind = "file"
  \/ q.op = "text" /\ q.kind = "text" /\ q.seen # NoRow /\ q.seen.kind = "file"

\* Only one connection writes at a time: a handler without a transaction of
\* its own waits for the one that has it.
SaveChanges(r) ==
  LET q == req[r]
  IN /\ q.pc = "save"
     /\ writer \in {NoRequest, r}
     /\ ~Conflict(q)
     /\ WriteRows(q)
     /\ IF HasStaleBlob(q)
          THEN /\ req' = [req EXCEPT ![r].pc = "clean"]
               /\ writer' = NoRequest
               /\ UNCHANGED quotaLock
          ELSE Leave(r)
     /\ UNCHANGED blobs

\* Mutants: a transferred copy is left behind; an overwritten file is deleted as well.
CompensatedUpsert(q) ==
  IF q.op \in Upserts /\ q.kind = "file" /\ q.seen = NoRow THEN Stored(q, NoBlob) ELSE blobs
CompensatedAlways(q) ==
  IF q.op # "delete" /\ q.kind = "file" THEN Stored(q, NoBlob) ELSE blobs

\* The blobs after the compensation of a failed save: a file just inserted is
\* deleted again, one that replaced another file is not.
Compensated(q) ==
  IF \/ q.op \in Upserts /\ q.kind = "file" /\ q.seen = NoRow
     \/ q.op \in Transfers /\ q.kind = "file"
  THEN Stored(q, NoBlob)
  ELSE blobs

SaveChangesFails(r) ==
  /\ \/ req[r].pc \in {"reread", "save"} /\ "db" \in Faults
     \/ req[r].pc = "save" /\ writer \in {NoRequest, r} /\ Conflict(req[r])
  /\ blobs' = Compensated(req[r])
  /\ Leave(r)
  /\ UNCHANGED rows

\* The best-effort deletion of a blob after the commit.
DeleteStaleBlob(r) ==
  /\ req[r].pc = "clean"
  /\ blobs' = [blobs EXCEPT ![<<req[r].space, req[r].item>>] = NoBlob]
  /\ Leave(r)
  /\ UNCHANGED rows

-----------------------------------------------------------------------------
(***************************************************************************)
(* What happens to handlers, and to rows behind their back.                *)
(***************************************************************************)

\* The client goes away: rollback and the compensating deletions are given the
\* same cancelled token, so they do nothing, but the finally block still runs.
\* A query, or a step after the commit, that fails has no more effect than that.
Abort(r) ==
  /\ \/ req[r] # Idle /\ "cancel" \in Faults
     \/ req[r].pc \in {"load", "begin", "clean"} /\ "db" \in Faults
     \/ req[r].pc = "clean" /\ "io" \in Faults
  /\ Leave(r)
  /\ UNCHANGED <<rows, blobs>>

\* The server stops and starts again: semaphores are in memory, SQLite rolls
\* back, and the file being written, if any, is left as far as it got.
Crash ==
  /\ "crash" \in Faults
  /\ \E r \in Requests : req[r] # Idle
  /\ \/ UNCHANGED blobs
     \/ \E r \in Requests : \E n \in Sizes :
          /\ req[r].pc = "blob"
          /\ Payload(req[r]) # NoBlob /\ n <= Payload(req[r])
          /\ blobs' = Stored(req[r], n)
  /\ req' = [r \in Requests |-> Idle]
  /\ writer' = NoRequest
  /\ quotaLock' = [s \in Spaces |-> NoRequest]
  /\ UNCHANGED rows

\* ExpiredItemsCleanupService removes the row of an item whose TTL is over. It
\* does not touch the blob.
Sweep(i) ==
  /\ "sweep" \in Ops
  /\ rows[i] # NoRow
  /\ writer = NoRequest
  /\ rows' = [rows EXCEPT ![i] = NoRow]
  /\ UNCHANGED <<blobs, quotaLock, writer, req>>

-----------------------------------------------------------------------------
Init ==
  /\ rows = [i \in Items |-> NoRow]
  /\ blobs = [b \in Spaces \X Items |-> NoBlob]
  /\ quotaLock = [s \in Spaces |-> NoRequest]
  /\ writer = NoRequest
  /\ req = [r \in Requests |-> Idle]

\* What a handler does once it is started.
Step(r) ==
  \/ LoadExisting(r)
  \/ AcquireQuotaLock(r)
  \/ CheckQuota(r)
  \/ RejectOverQuota(r)
  \/ SaveBlob(r)
  \/ SaveBlobFails(r)
  \/ RereadSource(r)
  \/ SaveChanges(r)
  \/ SaveChangesFails(r)
  \/ DeleteStaleBlob(r)

Start(r) ==
  \E s \in Spaces, i \in Items :
    \/ \E n \in TextSizes : StartUpsert(r, s, i, "text", n)
    \/ \E n \in FileSizes : StartUpsert(r, s, i, "file", n)
    \/ StartDelete(r, s, i)
    \/ \E d \in Spaces, j \in Items, op \in Transfers : StartTransfer(r, s, i, d, j, op)

Next ==
  \/ \E r \in Requests : Start(r) \/ Step(r) \/ Abort(r)
  \/ Crash
  \/ \E i \in Items : Sweep(i)

Spec == Init /\ [][Next]_vars

\* The runtime runs every handler that can go on. A semaphore serves its
\* waiters in turn, and SQLite's busy handler retries until it gets its lock.
Fairness ==
  \A r \in Requests :
    /\ WF_vars(Step(r))
    /\ SF_vars(AcquireQuotaLock(r))
    /\ SF_vars(CheckQuota(r) \/ RejectOverQuota(r))
    /\ SF_vars(SaveChanges(r) \/ SaveChangesFails(r))

FairSpec == Spec /\ Fairness

-----------------------------------------------------------------------------
TypeOK ==
  /\ rows \in [Items -> Row \cup {NoRow}]
  /\ blobs \in [Spaces \X Items -> Sizes \cup {NoBlob}]
  /\ quotaLock \in [Spaces -> Requests \cup {NoRequest}]
  /\ writer \in Requests \cup {NoRequest}
  /\ req \in [Requests -> Handler \cup {Idle}]

\* A semaphore or the write lock is held by a handler exactly while that
\* handler is between taking it and its finally block: none is ever leaked and
\* two file writes of one space never overlap (AcquireQuotaLockAsync, finally).
LockDiscipline ==
  /\ \A r \in Requests, s \in Spaces :
       quotaLock[s] = r <=> HoldsLock(req[r]) /\ req[r].toSpace = s
  /\ \A r \in Requests : writer = r <=> HoldsTx(req[r])

\* The FileSize columns of a space's rows never add up to more than its quota,
\* whatever the interleaving of the checks and the writes (UpsertItem,
\* TransferItemSameServer: 413 when the projected usage is over the quota).
QuotaRespected == \A s \in Spaces : Usage(s) <= Quota[s]

IsFile(i) == rows[i] # NoRow /\ rows[i].kind = "file"

\* A row that says it is a file has a blob to download: blobs are written
\* before the row is committed and deleted after it is gone.
FileHasBlob == \A i \in Items : IsFile(i) => blobs[<<rows[i].space, i>>] # NoBlob

\* A save that fails, whatever other requests and the sweep have done since its file was
\* written, takes the file with it unless a row has it (the catch blocks of UpsertItem and
\* TransferItemSameServer).  With no texts and no client that goes away (see the
\* README), only a stop of the server may leave one behind.
FailuresCleanUp ==
  [][\A r \in Requests :
       LET q == req[r]
           row == rows'[q.toId]
       IN /\ q.pc \in {"reread", "save"} /\ Guarded(q)
          /\ req'[r] = Idle /\ ~Crash
          => \/ blobs'[<<q.toSpace, q.toId>>] = NoBlob
             \/ row # NoRow /\ row.kind = "file" /\ row.space = q.toSpace]_vars

\* Text rows take no storage and hold text; file rows hold a file name, which
\* is what DownloadFile and the journal use it as.
RowIsWhole ==
  \A i \in Items :
    /\ IsFile(i) => rows[i].content = "name"
    /\ rows[i] # NoRow /\ ~IsFile(i) => rows[i].content = "body" /\ rows[i].size = 0

\* With nothing in flight the blobs are those of the file rows, size by size:
\* no orphan, no file without a blob, no size the quota counts wrongly.
StorageMatches ==
  (\A r \in Requests : req[r] = Idle) =>
    \A s \in Spaces, i \in Items :
      blobs[<<s, i>>] = IF IsFile(i) /\ rows[i].space = s THEN rows[i].size ELSE NoBlob

\* A move that inserts its destination takes away, in that same step, the row
\* it copied and no other version of it.
MoveIsOneUnit ==
  [][\A r \in Requests :
       req[r].pc = "save" /\ req[r].op = "move" /\ rows'[req[r].toId] # rows[req[r].toId]
         => rows[req[r].item] = req[r].seen /\ rows'[req[r].item] = NoRow]_vars

\* Every request gets its response: no lock is held for ever and no two
\* handlers wait for each other.
RequestsComplete == \A r \in Requests : req[r] # Idle ~> req[r] = Idle
=============================================================================
