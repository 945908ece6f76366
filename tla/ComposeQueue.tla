---------------------------- MODULE ComposeQueue ----------------------------
(***************************************************************************)
(* The web client's way of sharing things into a space: other apps drop    *)
(* shares into an inbox in IndexedDB, the user types texts and picks       *)
(* files, and a press of Share uploads it all or leaves it in a queue that *)
(* the page and the service worker both drain, under the page being closed *)
(* at any time and answers that are lost                                   *)
(* (features/space-view/space-view.ts, lib/offline-sync.ts,                *)
(* lib/idb-storage.ts and sw.ts of the client).                            *)
(***************************************************************************)
EXTENDS Naturals, FiniteSets

CONSTANTS
  Typed,      \* texts typed in the compose box
  Picked,     \* files picked or dropped
  SharedText, \* texts other apps share through the share target
  SharedFile, \* files other apps share
  Legacy,     \* items an earlier version left in its own queue
  Mixes,      \* bound: the sets of things handed over in one behaviour
  MaxTries,   \* bound: ids drawn for one thing
  MaxCloses,  \* bound: how often the page is closed
  Nothing,    \* an empty box
  NoId        \* no upload under way

Things == Typed \cup Picked \cup SharedText \cup SharedFile \cup Legacy

\* The k-th id crypto.randomUUID gave a thing: a row and its item.
Ids == Things \X (1..MaxTries)
Thing(id) == id[1]

\* The two drains of the queue: the page's and the service worker's.
Syncers == {"foreground", "background"}

\* A queue row as a drain reads it: its store and its id.
Entries == {"compose", "legacy"} \X Ids

ASSUME ComposeQueueAssumption ==
  /\ MaxTries \in Nat \ {0} /\ MaxCloses \in Nat
  /\ NoId \notin Ids \cup Entries
  /\ Typed \cap (SharedText \cup SharedFile) = {}

VARIABLES
  inbox,   \* the pending-shares store
  rows,    \* the compose-items store: "draft" or "pending"
  legacy,  \* the offline-queue store of version 5
  page,    \* the open page's memory
  share,   \* handleComposeShare under way
  sync,    \* the drains under way
  tag,     \* whether the browser is to fire the background sync (again)
  server,  \* the item ids the server has
  used,    \* how many ids each thing has been given
  removed, \* things the user removed or the server refused for good
  asked,   \* history: things a press of Share has taken up
  torn,    \* history: shares still in the inbox when the page closed, or
           \* IndexedDB failed, after they were given an id
  mix,     \* bound: the things of this behaviour
  closes   \* bound: how often the page was closed

stores == <<inbox, rows, legacy>>
history == <<removed, asked, torn, mix, closes>>
vars == <<stores, page, share, sync, tag, server, used, history>>

NewId(t) == <<t, used[t] + 1>>

\* Bound: an id is left for every thing in S.
Spare(S) == \A t \in S : used[t] < MaxTries
Drawn(S) == [t \in Things |-> IF t \in S THEN used[t] + 1 ELSE used[t]]

\* Pending shares that no entry of the page's queue stands for.
Promoted(list) == {Thing(id) : id \in {i \in Ids : list[i] # "none"}}
Visible == inbox \ Promoted(page.list)

Drafts == {id \in Ids : page.list[id] \in {"held", "draft"}}

\* Mutant: every row of the store.
AnyRow == {id \in Ids : rows[id] # "none"}

PendingRows == {id \in Ids : rows[id] = "pending"}

\* The list after a refresh from the store: entries keep their File, and a
\* picked file whose row is not there yet is carried over.
Refreshed(list, store) ==
  [id \in Ids |-> IF list[id] = "held" /\ store[id] # "pending" THEN "held" ELSE store[id]]

Empty == [id \in Ids |-> "none"]
ClosedPage == [open |-> FALSE, box |-> Nothing, list |-> Empty, saving |-> {}]
NoShare == [pc |-> "idle", todo |-> {}, id |-> NoId]
NoSync == [on |-> FALSE, todo |-> {}, entry |-> NoId]

\* The page waits for the answer to a PUT.
Sent == {"textSent", "sent", "draftSent"}

Busy == share.pc # "idle"

-----------------------------------------------------------------------------
(***************************************************************************)
(* Things arrive.  Every write of a draft to IndexedDB may fail, which the *)
(* page catches and goes on.                                               *)
(***************************************************************************)
Fresh(t) == t \in mix /\ used[t] = 0 /\ t \notin inbox \cup removed /\ page.box # t

\* The service worker answers the share target.
ReceiveShare(t) ==
  /\ t \in SharedText \cup SharedFile
  /\ Fresh(t)
  /\ inbox' = inbox \cup {t}
  /\ UNCHANGED <<rows, legacy, page, share, sync, tag, server, used, history>>

TypeText(t) ==
  /\ page.open /\ ~Busy
  /\ t \in Typed
  /\ Fresh(t)
  /\ page.box = Nothing
  /\ page' = [page EXCEPT !.box = t]
  /\ UNCHANGED <<stores, share, sync, tag, server, used, history>>

\* The entry is in the list at once; its file is still to be read and stored.
PickFile(t) ==
  /\ page.open /\ ~Busy
  /\ t \in Picked
  /\ Fresh(t)
  /\ page' = [page EXCEPT !.list[NewId(t)] = "held", !.saving = @ \cup {NewId(t)}]
  /\ used' = Drawn({t})
  /\ UNCHANGED <<stores, share, sync, tag, server, history>>

\* persistDraftEntry once the file is read: an entry removed meanwhile is not
\* stored.
StoredAsDraft(id) ==
  IF page.list[id] = "none" THEN rows ELSE [rows EXCEPT ![id] = "draft"]

PersistDraft(id) ==
  /\ id \in page.saving
  /\ rows' \in {StoredAsDraft(id), rows}
  /\ page' = [page EXCEPT !.saving = @ \ {id}]
  /\ UNCHANGED <<inbox, legacy, share, sync, tag, server, used, history>>

\* What the page's own drain still has to do.
Uploading == {e[2] : e \in sync["foreground"].todo \cup ({sync["foreground"].entry} \ {NoId})}

\* The user removes an entry; those the page is uploading are locked, those the
\* service worker is uploading are not.
RemoveEntry(id) ==
  /\ page.open /\ ~Busy
  /\ page.list[id] # "none"
  /\ id \notin Uploading
  /\ page' = [page EXCEPT !.list[id] = "none"]
  /\ rows' = [rows EXCEPT ![id] = "none"]
  /\ removed' = removed \cup {Thing(id)}
  /\ UNCHANGED <<inbox, legacy, share, sync, tag, server, used, asked, torn, mix, closes>>

DismissShare(t) ==
  /\ page.open /\ ~Busy
  /\ t \in Visible
  /\ inbox' = inbox \ {t}
  /\ removed' = removed \cup {t}
  /\ UNCHANGED <<rows, legacy, page, share, sync, tag, server, used, asked, torn, mix, closes>>

-----------------------------------------------------------------------------
(***************************************************************************)
(* The page opens and closes.  Closing loses its memory; a request it      *)
(* waited for may still reach the server.                                  *)
(***************************************************************************)
\* Mutant: a row copied without a status.
MigratedAsIs == [id \in Ids |-> IF id \in legacy /\ rows[id] = "none" THEN "queued" ELSE rows[id]]

\* migrateOfflineQueueIfNeeded: one transaction over both stores.
Migrated == [id \in Ids |-> IF id \in legacy /\ rows[id] = "none" THEN "pending" ELSE rows[id]]

OpenPage ==
  /\ ~page.open
  /\ rows' = Migrated
  /\ legacy' = {}
  /\ page' = [ClosedPage EXCEPT !.open = TRUE, !.list = Refreshed(Empty, Migrated)]
  /\ UNCHANGED <<inbox, share, sync, tag, server, used, history>>

InFlight ==
  (IF share.pc \in Sent THEN {share.id} ELSE {})
  \cup (IF sync["foreground"].entry # NoId THEN {sync["foreground"].entry[2]} ELSE {})

ClosePage ==
  /\ page.open
  /\ closes < MaxCloses
  /\ page' = ClosedPage
  /\ share' = NoShare
  /\ sync' = [sync EXCEPT !["foreground"] = NoSync]
  /\ \E S \in SUBSET InFlight : server' = server \cup S
  /\ torn' = torn \cup {t \in inbox : used[t] > 0}
  /\ closes' = closes + 1
  /\ UNCHANGED <<stores, tag, used, removed, asked, mix>>

\* handleOnline.
ComeOnline ==
  /\ page.open
  /\ tag' = TRUE
  /\ UNCHANGED <<stores, page, share, sync, server, used, history>>

\* handleBackgroundSyncComplete: a message of the service worker.
RefreshList ==
  /\ page.open
  /\ page' = [page EXCEPT !.list = Refreshed(@, rows)]
  /\ UNCHANGED <<stores, share, sync, tag, server, used, history>>

-----------------------------------------------------------------------------
(***************************************************************************)
(* A press of Share: the typed text, the texts from other apps, then the   *)
(* files from other apps become drafts, then every draft is uploaded.      *)
(* A network error leaves open whether the server stored the item; being   *)
(* offline is the case in which it did not.                                *)
(***************************************************************************)
\* Where the press of Share is, what it still has to do and what it waits for.
ShareAt(pc, todo, id) == share' = [pc |-> pc, todo |-> todo, id |-> id]

PressShare ==
  /\ page.open /\ ~Busy
  /\ page.box # Nothing \/ Visible # {} \/ Drafts # {}
  /\ ShareAt(IF page.box # Nothing THEN "text" ELSE "texts", {}, NoId)
  /\ UNCHANGED <<stores, page, sync, tag, server, used, history>>

\* handleTextSubmit.
SendText ==
  /\ share.pc = "text"
  /\ Spare({page.box})
  /\ asked' = asked \cup {page.box}
  /\ used' = Drawn({page.box})
  /\ ShareAt("textSent", {}, NewId(page.box))
  /\ UNCHANGED <<stores, page, sync, tag, server, removed, torn, mix, closes>>

\* The server stored what the page waits to hear of.
StoreSent == server' = server \cup {share.id}

\* The answer was lost: the server may have stored the item or not.
PerhapsSent == StoreSent \/ server' = server

TextShared ==
  /\ share.pc = "textSent"
  /\ StoreSent
  /\ page' = [page EXCEPT !.box = Nothing]
  /\ ShareAt("texts", {}, NoId)
  /\ UNCHANGED <<stores, sync, tag, used, history>>

\* requestBackgroundSync: without the browser's support, or when the page is
\* closed before it gets there, nothing is registered.
Registered == tag' \in {tag, TRUE}

\* queueForOffline, then the refresh that follows it.
Enqueued(id) == [rows EXCEPT ![id] = "pending"]
ListAfterEnqueue(id) == Refreshed(page.list, Enqueued(id))

\* A network error: the text is queued under a new id.
QueueText ==
  /\ share.pc = "textSent"
  /\ PerhapsSent
  /\ Registered
  /\ Spare({page.box})
  /\ LET id == NewId(page.box) IN
       /\ rows' = Enqueued(id)
       /\ page' = [page EXCEPT !.box = Nothing, !.list = ListAfterEnqueue(id)]
  /\ used' = Drawn({page.box})
  /\ ShareAt("texts", {}, NoId)
  /\ UNCHANGED <<inbox, legacy, sync, history>>

\* uploadPendingTextShares takes up the texts in view.
TakeTexts ==
  /\ share.pc = "texts"
  /\ ShareAt("next", Visible \cap SharedText, NoId)
  /\ UNCHANGED <<stores, page, sync, tag, server, used, history>>

SendShare(t) ==
  /\ share.pc = "next"
  /\ t \in share.todo
  /\ Spare({t})
  /\ asked' = asked \cup {t}
  /\ used' = Drawn({t})
  /\ ShareAt("sent", share.todo \ {t}, NewId(t))
  /\ UNCHANGED <<stores, page, sync, tag, server, removed, torn, mix, closes>>

ShareStored ==
  /\ share.pc = "sent"
  /\ StoreSent
  /\ inbox' = inbox \ {Thing(share.id)}
  /\ ShareAt("next", share.todo, NoId)
  /\ UNCHANGED <<rows, legacy, page, sync, tag, used, history>>

\* Mutant: queued as a typed text is, under a new id.
NewQueueId == NewId(Thing(share.id))

\* The id a share is queued under: the one it was sent under.
QueueId == share.id

QueueShare ==
  /\ share.pc = "sent"
  /\ PerhapsSent
  /\ Registered
  /\ rows' = Enqueued(QueueId)
  /\ page' = [page EXCEPT !.list = ListAfterEnqueue(QueueId)]
  /\ ShareAt("drop", share.todo, share.id)
  /\ UNCHANGED <<inbox, legacy, sync, used, history>>

\* The row cannot be stored: the page stops, and what it sent may have arrived.
QueueFails ==
  /\ share.pc \in {"textSent", "sent"}
  /\ PerhapsSent
  /\ share' = NoShare
  /\ torn' = torn \cup {Thing(share.id)}
  /\ UNCHANGED <<stores, page, sync, tag, used, removed, asked, mix, closes>>

\* Once it is queued the share leaves the inbox.
DropShare ==
  /\ share.pc = "drop"
  /\ inbox' = inbox \ {Thing(share.id)}
  /\ ShareAt("next", share.todo, NoId)
  /\ UNCHANGED <<rows, legacy, page, sync, tag, server, used, history>>

\* claimFileShares: an entry for every file in view, then each is stored.
ClaimFiles ==
  /\ share.pc = "next"
  /\ share.todo = {}
  /\ LET files == Visible \cap SharedFile
         new == {NewId(t) : t \in files} IN
       /\ Spare(files)
       /\ page' = [page EXCEPT !.list = [id \in Ids |-> IF id \in new THEN "held" ELSE @[id]]]
       /\ used' = Drawn(files)
       /\ ShareAt("claim", new, NoId)
  /\ UNCHANGED <<stores, sync, tag, server, history>>

\* A claimed file gets a row.
PersistClaim(id) ==
  /\ share.pc = "claim"
  /\ id \in share.todo
  /\ rows' = StoredAsDraft(id)
  /\ ShareAt("claim", share.todo \ {id}, NoId)
  /\ UNCHANGED <<inbox, legacy, page, sync, tag, server, used, history>>

\* The draft is in memory only; its share stays as a backup.
ClaimUnstored(id) ==
  /\ share.pc = "claim"
  /\ id \in share.todo
  /\ torn' = torn \cup {Thing(id)}
  /\ ShareAt("claim", share.todo \ {id}, NoId)
  /\ UNCHANGED <<stores, page, sync, tag, server, used, removed, asked, mix, closes>>

\* Mutant: every share claimed.
AllClaimed == {Thing(id) : id \in {i \in Ids : page.list[i] = "held"}}

\* The shares whose drafts were stored leave the inbox.
Claimed == {Thing(id) : id \in {i \in Ids : page.list[i] = "held" /\ rows[i] # "none"}}

\* uploadComposeQueue takes up every draft.
TakeDrafts ==
  /\ share.pc = "claim"
  /\ share.todo = {}
  /\ inbox' = inbox \ Claimed
  /\ asked' = asked \cup {Thing(id) : id \in Drafts}
  /\ ShareAt("drafts", Drafts, NoId)
  /\ UNCHANGED <<rows, legacy, page, sync, tag, server, used, removed, torn, mix, closes>>

\* resolveDraftFile: the File in memory, or the stored row's bytes.
Readable(id) == page.list[id] = "held" \/ rows[id] # "none"

SendDraft(id) ==
  /\ share.pc = "drafts"
  /\ id \in share.todo
  /\ Readable(id)
  /\ ShareAt("draftSent", share.todo \ {id}, id)
  /\ UNCHANGED <<stores, page, sync, tag, server, used, history>>

\* removeComposeEntry with removePendingShare.
DraftStored ==
  /\ share.pc = "draftSent"
  /\ StoreSent
  /\ page' = [page EXCEPT !.list[share.id] = "none"]
  /\ rows' = [rows EXCEPT ![share.id] = "none"]
  /\ inbox' = inbox \ {Thing(share.id)}
  /\ ShareAt("drafts", share.todo, NoId)
  /\ UNCHANGED <<legacy, sync, tag, used, history>>

\* flipDraftToPending, after a network error.
FlipDraft ==
  /\ share.pc = "draftSent"
  /\ PerhapsSent
  /\ Registered
  /\ rows' \in {Enqueued(share.id), rows}
  /\ page' = [page EXCEPT !.list[share.id] = "pending"]
  /\ ShareAt("drafts", share.todo, NoId)
  /\ UNCHANGED <<inbox, legacy, sync, used, history>>

\* The server answers a status without storing anything, and the page stops:
\* the rest of the batch waits for another press.
StopShare ==
  /\ share.pc \in Sent
  /\ share' = NoShare
  /\ UNCHANGED <<stores, page, sync, tag, server, used, history>>

StopUnreadable ==
  /\ share.pc = "drafts"
  /\ \E id \in share.todo : ~Readable(id)
  /\ share' = NoShare
  /\ UNCHANGED <<stores, page, sync, tag, server, used, history>>

EndShare ==
  /\ share.pc = "drafts"
  /\ share.todo = {}
  /\ share' = NoShare
  /\ UNCHANGED <<stores, page, sync, tag, server, used, history>>

-----------------------------------------------------------------------------
(***************************************************************************)
(* The two drains: processOfflineQueue in the page and                     *)
(* syncOfflineQueueInBackground in the service worker.  Each reads the     *)
(* queue once, then uploads and removes one row after the other.           *)
(***************************************************************************)
InQueue == {<<"compose", id>> : id \in PendingRows}
InLegacy == {<<"legacy", id>> : id \in legacy}

\* An online event without background sync, a message, or the end of a press.
StartForeground ==
  /\ page.open
  /\ ~sync["foreground"].on
  /\ InQueue # {}
  /\ sync' = [sync EXCEPT !["foreground"] = [NoSync EXCEPT !.on = TRUE, !.todo = InQueue]]
  /\ UNCHANGED <<stores, page, share, tag, server, used, history>>

\* The service worker also takes what an earlier version queued.
StartBackground ==
  /\ tag
  /\ ~sync["background"].on
  /\ tag' = FALSE
  /\ sync' = [sync EXCEPT !["background"] =
                [NoSync EXCEPT !.on = TRUE, !.todo = InQueue \cup InLegacy]]
  /\ UNCHANGED <<stores, page, share, server, used, history>>

Upload(s, e) ==
  /\ sync[s].entry = NoId
  /\ e \in sync[s].todo
  /\ sync' = [sync EXCEPT ![s].entry = e, ![s].todo = @ \ {e}]
  /\ UNCHANGED <<stores, page, share, tag, server, used, history>>

\* removeSyncEntry: from the store the entry was read from. Mutant: from the
\* old one.
DequeueOld(e) == rows' = rows /\ legacy' = legacy \ {e[2]}

Dequeue(e) ==
  /\ rows' = IF e[1] = "compose" THEN [rows EXCEPT ![e[2]] = "none"] ELSE rows
  /\ legacy' = IF e[1] = "legacy" THEN legacy \ {e[2]} ELSE legacy

Uploaded(s, id) ==
  /\ sync[s].entry # NoId
  /\ sync[s].entry[2] = id
  /\ server' = server \cup {id}
  /\ Dequeue(sync[s].entry)
  /\ sync' = [sync EXCEPT ![s].entry = NoId]
  /\ UNCHANGED <<inbox, page, share, tag, used, history>>

\* A 4xx the server will keep answering (isPermanentSyncFailure).
Refused(s) ==
  /\ sync[s].entry # NoId
  /\ Dequeue(sync[s].entry)
  /\ removed' = removed \cup {Thing(sync[s].entry[2])}
  /\ sync' = [sync EXCEPT ![s].entry = NoId]
  /\ UNCHANGED <<inbox, page, share, tag, server, used, asked, torn, mix, closes>>

\* A network error, a 5xx, or a 4xx that may pass: the row stays. A sync event
\* that leaves such a row fails, and the browser fires it again.
Unanswered(s) ==
  /\ sync[s].entry # NoId
  /\ server' \in {server, server \cup {sync[s].entry[2]}}
  /\ sync' = [sync EXCEPT ![s].entry = NoId]
  /\ tag' = (tag \/ s = "background")
  /\ UNCHANGED <<stores, page, share, used, history>>

Drained(s) == sync[s].on /\ sync[s].todo = {} /\ sync[s].entry = NoId

EndForeground ==
  /\ Drained("foreground")
  /\ sync' = [sync EXCEPT !["foreground"] = NoSync]
  /\ page' = [page EXCEPT !.list = Refreshed(@, rows)]
  /\ UNCHANGED <<stores, share, tag, server, used, history>>

EndBackground ==
  /\ Drained("background")
  /\ sync' = [sync EXCEPT !["background"] = NoSync]
  /\ UNCHANGED <<stores, page, share, tag, server, used, history>>

-----------------------------------------------------------------------------
Init ==
  /\ inbox = {}
  /\ rows = Empty
  /\ mix \in Mixes
  /\ legacy = (mix \cap Legacy) \X {1}
  /\ page = ClosedPage
  /\ share = NoShare
  /\ sync = [s \in Syncers |-> NoSync]
  /\ tag = TRUE
  /\ server = {}
  /\ used = [t \in Things |-> IF t \in Legacy THEN 1 ELSE 0]
  /\ removed = {} /\ asked = Legacy /\ torn = {} /\ closes = 0

Arrivals == \E t \in Things : ReceiveShare(t) \/ TypeText(t) \/ PickFile(t) \/ DismissShare(t)
EntrySteps == \E id \in Ids : PersistDraft(id) \/ RemoveEntry(id)
PageSteps == OpenPage \/ ClosePage \/ ComeOnline \/ RefreshList
ShareSteps ==
  \/ PressShare \/ SendText \/ TextShared \/ QueueText \/ TakeTexts
  \/ \E t \in Things : SendShare(t)
  \/ ShareStored \/ QueueShare \/ QueueFails \/ DropShare \/ ClaimFiles \/ TakeDrafts
  \/ \E id \in Ids : PersistClaim(id) \/ ClaimUnstored(id) \/ SendDraft(id)
  \/ DraftStored \/ FlipDraft \/ StopShare \/ StopUnreadable \/ EndShare
SyncSteps ==
  \/ StartForeground \/ StartBackground \/ EndForeground \/ EndBackground
  \/ \E s \in Syncers : Refused(s) \/ Unanswered(s)
                        \/ \E e \in Entries : Upload(s, e)
                        \/ \E id \in Ids : Uploaded(s, id)

Next == Arrivals \/ EntrySteps \/ PageSteps \/ ShareSteps \/ SyncSteps

Spec == Init /\ [][Next]_vars

\* The user opens the app again, the device comes online again, the browser
\* fires the sync events it owes, the service worker runs to its end, and a
\* network that is asked again and again lets an upload through.
Fairness ==
  /\ WF_vars(OpenPage) /\ WF_vars(ComeOnline)
  /\ WF_vars(StartBackground) /\ WF_vars(EndBackground)
  /\ WF_vars(\E e \in Entries : Upload("background", e))
  /\ SF_vars(\E id \in Ids : Uploaded("background", id))

FairSpec == Spec /\ Fairness

-----------------------------------------------------------------------------
(***************************************************************************)
(* Properties.                                                             *)
(***************************************************************************)
\* Every store, list and drain holds what its declaration says, and nobody
\* waits for an answer without an id.
TypeOK ==
  /\ inbox \subseteq SharedText \cup SharedFile
  /\ rows \in [Ids -> {"none", "draft", "pending"}]
  /\ legacy \subseteq Ids
  /\ page \in [open : BOOLEAN, box : Typed \cup {Nothing},
               list : [Ids -> {"none", "held", "draft", "pending"}],
               saving : SUBSET Ids]
  /\ share.todo \subseteq Ids \cup Things
  /\ share.pc \in Sent \cup {"drop"} <=> share.id # NoId
  /\ share.id \in Ids \cup {NoId}
  /\ \A s \in Syncers :
       /\ sync[s].todo \subseteq Entries
       /\ sync[s].entry \in Entries \cup {NoId}
  /\ tag \in BOOLEAN
  /\ server \subseteq Ids
  /\ used \in [Things -> 0..MaxTries]
  /\ closes \in 0..MaxCloses

Durable(t) ==
  \/ t \in inbox
  \/ \E id \in Ids : Thing(id) = t /\ (rows[id] # "none" \/ id \in legacy)

OnServer(t) == \E id \in server : Thing(id) = t

\* What IndexedDB holds stays there until the server has it, the user removes
\* it or the server refuses it, across the moves from the inbox and the old
\* queue to drafts and pending rows, two drains and closes of the page.
NothingLost ==
  [][\A t \in Things : Durable(t) => \/ Durable(t)' \/ OnServer(t)' \/ t \in removed']_vars

\* A drain uploads nothing the user has not pressed Share for: drafts and the
\* inbox are never uploaded in the background (header of sw.ts).
OnlyAsked == \A id \in server : Thing(id) \in asked

\* A share from another app becomes at most one item, however often it is
\* tried and whoever uploads it, unless the page was closed, or a write of its row
\* failed, between giving it an id and clearing it from the inbox. (A typed text is
\* not so lucky: it is queued under a new id.)
SharedOnce ==
  \A t \in (SharedText \cup SharedFile) \ torn :
    Cardinality({id \in server : Thing(id) = t}) <= 1

\* What is queued for upload is uploaded, refused or removed: the service worker
\* empties the queue in the end, whatever the page does meanwhile.
QueueDrains == []<>(PendingRows = {} /\ legacy = {})
=============================================================================
