------------------------ MODULE ComposeQueue_proofs ------------------------
(***************************************************************************)
(* Theorems about ComposeQueue, for any texts and files, however often     *)
(* they are tried and the page is closed.                                  *)
(***************************************************************************)
EXTENDS ComposeQueue, FiniteSetTheorems, TLAPS

Pages ==
  [open : BOOLEAN, box : Typed \cup {Nothing},
   list : [Ids -> {"none", "held", "draft", "pending"}], saving : SUBSET Ids]

Syncs == [on : BOOLEAN, todo : SUBSET Entries, entry : Entries \cup {NoId}]

Stored ==
  /\ inbox \subseteq SharedText \cup SharedFile
  /\ rows \in [Ids -> {"none", "draft", "pending"}]
  /\ legacy \subseteq Ids
  /\ page \in Pages
  /\ sync \in [Syncers -> Syncs]
  /\ tag \in BOOLEAN
  /\ server \subseteq Ids
  /\ used \in [Things -> 0..MaxTries]
  /\ closes \in 0..MaxCloses

\* A press of Share is made on the open page, with what its step needs.
Pressed ==
  /\ Busy => page.open
  /\ share.id \in Ids \cup {NoId}
  /\ share.pc \in Sent \cup {"drop"} <=> share.id # NoId
  /\ share.pc \in {"text", "textSent"} => page.box \in Typed
  /\ share.pc = "textSent" => Thing(share.id) = page.box
  /\ CASE share.pc \in {"next", "sent", "drop"} -> share.todo \subseteq Things
       [] share.pc \in {"claim", "drafts", "draftSent"} -> share.todo \subseteq Ids
       [] OTHER -> share.todo = {}

\* Whatever is on its way to the server was asked for.
Asked ==
  /\ \A id \in Ids : rows[id] = "pending" \/ id \in legacy \cup server => Thing(id) \in asked
  /\ \A s \in Syncers : \A e \in Entries :
       e \in sync[s].todo \/ e = sync[s].entry => Thing(e[2]) \in asked
  /\ share.id # NoId => Thing(share.id) \in asked
  /\ share.pc \in {"drafts", "draftSent"} => \A id \in share.todo : Thing(id) \in asked

\* A share about to leave the inbox has a row, or has had one.
Backed ==
  share.pc = "drop" =>
    rows[share.id] # "none" \/ share.id \in server \/ Thing(share.id) \in removed

Inv == Stored /\ Pressed /\ Asked /\ Backed

-----------------------------------------------------------------------------
LEMMA IdsOfThings == \A id \in Ids : Thing(id) \in Things
BY DEF Ids, Thing

LEMMA NoIdIsNone == NoId \notin Ids /\ NoId \notin Entries
BY ComposeQueueAssumption

LEMMA EntryIds == \A e \in Entries : e[1] \in {"compose", "legacy"} /\ e[2] \in Ids
BY DEF Entries

LEMMA NewIds ==
  ASSUME Stored, NEW t \in Things, used[t] < MaxTries
  PROVE  NewId(t) \in Ids /\ Thing(NewId(t)) = t
<1>1. used[t] \in 0..MaxTries
  BY DEF Stored
<1>2. used[t] + 1 \in 1..MaxTries
  BY <1>1, ComposeQueueAssumption
<1>. QED
  BY <1>2 DEF NewId, Ids, Thing

LEMMA DrawnTypes ==
  ASSUME Stored, NEW S \in SUBSET Things, Spare(S)
  PROVE  Drawn(S) \in [Things -> 0..MaxTries]
BY ComposeQueueAssumption DEF Stored, Spare, Drawn

LEMMA ShareKinds ==
  /\ Typed \subseteq Things /\ Picked \subseteq Things
  /\ SharedText \subseteq Things /\ SharedFile \subseteq Things
BY DEF Things

LEMMA InitInv == Init => Inv
<1> SUFFICES ASSUME Init PROVE Inv
  OBVIOUS
<1>1. legacy \subseteq Ids /\ \A id \in legacy : Thing(id) \in Legacy
  BY ComposeQueueAssumption DEF Init, Ids, Things, Thing
<1>2. used \in [Things -> 0..MaxTries]
  BY ComposeQueueAssumption DEF Init
<1>3. Stored
  BY <1>1, <1>2, ComposeQueueAssumption
     DEF Init, Stored, Empty, ClosedPage, Pages, NoSync, Syncs
<1>4. Pressed /\ Backed
  BY DEF Init, Pressed, Backed, NoShare, Busy, Sent
<1>5. Asked
  BY <1>1, NoIdIsNone DEF Init, Asked, Empty, NoSync, NoShare
<1>. QED
  BY <1>3, <1>4, <1>5 DEF Inv

\* Lists and rows as they are changed.
LEMMA ListTypes ==
  ASSUME NEW list \in [Ids -> {"none", "held", "draft", "pending"}],
         NEW store \in [Ids -> {"none", "draft", "pending"}]
  PROVE  Refreshed(list, store) \in [Ids -> {"none", "held", "draft", "pending"}]
BY DEF Refreshed

LEMMA PageTypes ==
  ASSUME NEW p \in Pages
  PROVE  /\ \A list \in [Ids -> {"none", "held", "draft", "pending"}] :
              /\ [p EXCEPT !.list = list] \in Pages
              /\ [p EXCEPT !.list = list].open = p.open
              /\ [p EXCEPT !.list = list].box = p.box
         /\ \A id \in Ids, x \in {"none", "held", "draft", "pending"} :
              /\ [p EXCEPT !.list[id] = x] \in Pages
              /\ [p EXCEPT !.list[id] = x].open = p.open
              /\ [p EXCEPT !.list[id] = x].box = p.box
         /\ \A b \in Typed \cup {Nothing} :
              [p EXCEPT !.box = b] \in Pages /\ [p EXCEPT !.box = b].open = p.open
<1>1. \A list \in [Ids -> {"none", "held", "draft", "pending"}] :
        /\ [p EXCEPT !.list = list] \in Pages
        /\ [p EXCEPT !.list = list].open = p.open
        /\ [p EXCEPT !.list = list].box = p.box
  BY DEF Pages
<1>2. ASSUME NEW id \in Ids, NEW x \in {"none", "held", "draft", "pending"}
      PROVE  /\ [p EXCEPT !.list[id] = x] \in Pages
             /\ [p EXCEPT !.list[id] = x].open = p.open
             /\ [p EXCEPT !.list[id] = x].box = p.box
  BY DEF Pages
<1>3. \A b \in Typed \cup {Nothing} :
        [p EXCEPT !.box = b] \in Pages /\ [p EXCEPT !.box = b].open = p.open
  BY DEF Pages
<1>. QED
  BY <1>1, <1>2, <1>3

LEMMA RowTypes ==
  ASSUME Stored, NEW id \in Ids, NEW x \in {"none", "draft", "pending"}
  PROVE  /\ [rows EXCEPT ![id] = x] \in [Ids -> {"none", "draft", "pending"}]
         /\ [rows EXCEPT ![id] = x][id] = x
         /\ \A i \in Ids : i # id => [rows EXCEPT ![id] = x][i] = rows[i]
BY DEF Stored

-----------------------------------------------------------------------------
(***************************************************************************)
(* What the user and other apps do, and the page.                          *)
(***************************************************************************)
LEMMA ArrivalsInv ==
  ASSUME Inv, Arrivals
  PROVE  Inv'
<1> USE DEF Inv
<1>1. PICK t \in Things : ReceiveShare(t) \/ TypeText(t) \/ PickFile(t) \/ DismissShare(t)
  BY DEF Arrivals
<1>2. CASE ReceiveShare(t)
  <2>1. Stored'
    BY <1>2 DEF ReceiveShare, Stored, history
  <2>2. Pressed' /\ Asked' /\ Backed'
    BY <1>2 DEF ReceiveShare, history, Pressed, Busy, Asked, Backed
  <2>. QED
    BY <2>1, <2>2
<1>3. CASE TypeText(t)
  <2>1. page' \in Pages /\ page'.open = page.open
    BY <1>3, PageTypes DEF TypeText, Stored
  <2>2. Stored'
    BY <1>3, <2>1 DEF TypeText, Stored, stores, history
  <2>3. Pressed' /\ Asked' /\ Backed'
    BY <1>3, <2>1 DEF TypeText, stores, history, Pressed, Busy, Sent, Asked, Backed
  <2>. QED
    BY <2>2, <2>3
<1>4. CASE PickFile(t)
  <2>1. used[t] < MaxTries
    BY <1>4, ComposeQueueAssumption DEF PickFile, Fresh
  <2>2. NewId(t) \in Ids
    BY <2>1, NewIds
  <2>3. page' \in Pages /\ page'.open = page.open /\ page'.box = page.box
    BY <1>4, <2>2 DEF PickFile, Stored, Pages
  <2>4. used' \in [Things -> 0..MaxTries]
    BY <1>4, <2>1, DrawnTypes DEF PickFile, Spare
  <2>5. Stored'
    BY <1>4, <2>3, <2>4 DEF PickFile, Stored, stores, history
  <2>6. Pressed' /\ Asked' /\ Backed'
    BY <1>4, <2>3 DEF PickFile, stores, history, Pressed, Busy, Sent, Asked, Backed
  <2>. QED
    BY <2>5, <2>6
<1>5. CASE DismissShare(t)
  <2>1. Stored'
    BY <1>5 DEF DismissShare, Stored
  <2>2. Pressed' /\ Asked' /\ Backed'
    BY <1>5 DEF DismissShare, Pressed, Busy, Asked, Backed
  <2>. QED
    BY <2>1, <2>2
<1>. QED
  BY <1>1, <1>2, <1>3, <1>4, <1>5

LEMMA DraftRows ==
  ASSUME Stored, NEW id \in Ids, rows' \in {StoredAsDraft(id), rows}
  PROVE  /\ rows' \in [Ids -> {"none", "draft", "pending"}]
         /\ \A i \in Ids : rows[i] # "none" => rows'[i] # "none"
         /\ \A i \in Ids : rows'[i] = "pending" => rows[i] = "pending"
BY RowTypes DEF Stored, StoredAsDraft

LEMMA EntryInv ==
  ASSUME Inv, EntrySteps
  PROVE  Inv'
<1> USE DEF Inv
<1>1. PICK id \in Ids : PersistDraft(id) \/ RemoveEntry(id)
  BY DEF EntrySteps
<1>2. CASE PersistDraft(id)
  <2>1. /\ rows' \in [Ids -> {"none", "draft", "pending"}]
        /\ \A i \in Ids : rows[i] # "none" => rows'[i] # "none"
        /\ \A i \in Ids : rows'[i] = "pending" => rows[i] = "pending"
    BY <1>2, DraftRows DEF PersistDraft
  <2>2. page' \in Pages /\ page'.open = page.open /\ page'.box = page.box
    BY <1>2 DEF PersistDraft, Stored, Pages
  <2>3. Stored'
    BY <1>2, <2>1, <2>2 DEF PersistDraft, Stored, history
  <2>4. Pressed' /\ Asked' /\ Backed'
    BY <1>2, <2>1, <2>2 DEF PersistDraft, history, Pressed, Busy, Asked, Backed, Sent
  <2>. QED
    BY <2>3, <2>4
<1>3. CASE RemoveEntry(id)
  <2>1. page' \in Pages /\ page'.open = page.open
    BY <1>3, PageTypes DEF RemoveEntry, Stored
  <2>2. /\ rows' \in [Ids -> {"none", "draft", "pending"}]
        /\ \A i \in Ids : rows'[i] = "pending" => rows[i] = "pending"
    BY <1>3, RowTypes DEF RemoveEntry
  <2>3. Stored'
    BY <1>3, <2>1, <2>2 DEF RemoveEntry, Stored
  <2>4. Pressed' /\ Asked' /\ Backed'
    BY <1>3, <2>1, <2>2 DEF RemoveEntry, Pressed, Busy, Sent, Asked, Backed
  <2>. QED
    BY <2>3, <2>4
<1>. QED
  BY <1>1, <1>2, <1>3

LEMMA PageInv ==
  ASSUME Inv, PageSteps
  PROVE  Inv'
<1> USE DEF Inv
<1>1. CASE OpenPage
  <2>1. /\ Migrated \in [Ids -> {"none", "draft", "pending"}]
        /\ \A i \in Ids : Migrated[i] = "pending" => rows[i] = "pending" \/ i \in legacy
    BY DEF Migrated, Stored
  <2>2. Refreshed(Empty, Migrated) \in [Ids -> {"none", "held", "draft", "pending"}]
    BY <2>1, ListTypes DEF Empty
  <2>3. page' \in Pages
    <3>1. [ClosedPage EXCEPT !.open = TRUE] \in Pages
      BY DEF ClosedPage, Pages, Empty
    <3>2. page' = [[ClosedPage EXCEPT !.open = TRUE] EXCEPT !.list = Refreshed(Empty, Migrated)]
      BY <1>1 DEF OpenPage, ClosedPage
    <3>. QED
      BY <2>2, <3>1, <3>2, PageTypes
  <2>4. Stored'
    BY <1>1, <2>1, <2>3 DEF OpenPage, Stored, history
  <2>5. share.pc = "idle"
    BY <1>1 DEF OpenPage, Pressed, Busy
  <2>6. Pressed' /\ Asked' /\ Backed'
    BY <1>1, <2>1, <2>5 DEF OpenPage, history, Pressed, Busy, Sent, Asked, Backed
  <2>. QED
    BY <2>4, <2>6
<1>2. CASE ClosePage
  <2>1. ClosedPage \in Pages /\ NoSync \in Syncs /\ NoSync.todo = {} /\ NoSync.entry = NoId
    BY DEF ClosedPage, Pages, Empty, NoSync, Syncs
  <2>2. \A id \in InFlight : id \in Ids /\ Thing(id) \in asked
    BY EntryIds DEF InFlight, Stored, Syncs, Syncers, Pressed, Asked
  <2>3. /\ server' \subseteq Ids /\ closes' \in 0..MaxCloses
        /\ \A id \in server' : Thing(id) \in asked
    BY <1>2, <2>2, ComposeQueueAssumption DEF ClosePage, Stored, Asked
  <2>4. /\ sync' \in [Syncers -> Syncs]
        /\ \A s \in Syncers : sync'[s] = sync[s] \/ sync'[s] = NoSync
    BY <1>2, <2>1 DEF ClosePage, Stored
  <2>5. Stored'
    BY <1>2, <2>1, <2>3, <2>4 DEF ClosePage, Stored, stores
  <2>6. Pressed' /\ Backed'
    BY <1>2 DEF ClosePage, NoShare, Pressed, Busy, Sent, Backed
  <2>7. Asked'
    BY <1>2, <2>1, <2>3, <2>4, NoIdIsNone DEF ClosePage, NoShare, stores, Asked
  <2>. QED
    BY <2>5, <2>6, <2>7
<1>3. CASE ComeOnline
  BY <1>3 DEF ComeOnline, stores, history, Stored, Pressed, Busy, Sent, Asked, Backed
<1>4. CASE RefreshList
  <2>1. page' \in Pages /\ page'.open = page.open /\ page'.box = page.box
    <3>1. page.list \in [Ids -> {"none", "held", "draft", "pending"}]
      BY DEF Stored, Pages
    <3>2. Refreshed(page.list, rows) \in [Ids -> {"none", "held", "draft", "pending"}]
      BY <3>1, ListTypes DEF Stored
    <3>3. page' = [page EXCEPT !.list = Refreshed(page.list, rows)]
      BY <1>4 DEF RefreshList
    <3>. QED
      BY <3>2, <3>3, PageTypes DEF Stored
  <2>. QED
    BY <1>4, <2>1 DEF RefreshList, stores, history, Stored, Pressed, Busy, Sent, Asked, Backed
<1>. QED
  BY <1>1, <1>2, <1>3, <1>4 DEF PageSteps

-----------------------------------------------------------------------------
(***************************************************************************)
(* A press of Share.                                                       *)
(***************************************************************************)
\* What a step of it leaves: of the stores, of the page, and of itself.
LEMMA ShareInv ==
  ASSUME Inv, page.open, NEW pc, NEW todo, NEW id, ShareAt(pc, todo, id),
         inbox' \subseteq inbox, rows' \in [Ids -> {"none", "draft", "pending"}],
         \A i \in Ids : rows'[i] = "pending" => rows[i] = "pending" \/ Thing(i) \in asked,
         page' \in Pages, page'.open, tag' \in BOOLEAN, used' \in [Things -> 0..MaxTries],
         server' = server \/ (share.id # NoId /\ server' = server \cup {share.id}),
         asked \subseteq asked', UNCHANGED <<legacy, sync, removed, closes>>,
         pc \in {"text", "textSent"} => page'.box \in Typed,
         pc = "textSent" => Thing(id) = page'.box,
         pc \in Sent \cup {"drop"} <=> id # NoId,
         id # NoId => id \in Ids /\ Thing(id) \in asked',
         pc = "drop" => rows'[id] # "none",
         CASE pc \in {"next", "sent", "drop"} -> todo \subseteq Things
           [] pc \in {"claim", "drafts", "draftSent"} -> todo \subseteq Ids
           [] OTHER -> todo = {},
         pc \in {"drafts", "draftSent"} => \A i \in todo : Thing(i) \in asked'
  PROVE  Inv'
<1> USE DEF Inv
<1>1. share' = [pc |-> pc, todo |-> todo, id |-> id]
  BY DEF ShareAt
<1>2. Stored'
  BY DEF Stored, Pressed
<1>3. Pressed' /\ Backed'
  BY <1>1 DEF Pressed, Busy, Backed
<1>4. Asked'
  <2>1. \A i \in Ids :
          rows'[i] = "pending" \/ i \in legacy' \cup server' => Thing(i) \in asked'
    BY DEF Asked, Pressed
  <2>. QED
    BY <1>1, <2>1 DEF Asked
<1>. QED
  BY <1>2, <1>3, <1>4

\* Steps that only move on.
LEMMA MovesInv ==
  ASSUME Inv, \/ PressShare \/ TakeTexts \/ StopShare \/ StopUnreadable \/ EndShare
              \/ \E id \in Ids : SendDraft(id)
  PROVE  Inv'
<1> USE NoIdIsNone DEF Inv, Sent
<1>0. NoShare = [pc |-> "idle", todo |-> {}, id |-> NoId]
  BY DEF NoShare
<1>1. /\ page.open /\ UNCHANGED <<inbox, rows, legacy, page, sync, tag, server, used, removed, asked, closes>>
  BY DEF PressShare, TakeTexts, StopShare, StopUnreadable, EndShare, SendDraft, Pressed, Busy,
         stores, history
<1>2. /\ rows' \in [Ids -> {"none", "draft", "pending"}] /\ page' \in Pages
      /\ tag' \in BOOLEAN /\ used' \in [Things -> 0..MaxTries]
  BY <1>1 DEF Stored
<1>3. CASE PressShare
  <2>1. page.box # Nothing => page.box \in Typed
    BY DEF Stored, Pages
  <2>. QED
    BY <1>1, <1>2, <1>3, <2>1, ShareInv DEF PressShare
<1>4. CASE TakeTexts
  <2>1. Visible \cap SharedText \subseteq Things
    BY ShareKinds
  <2>. QED
    BY <1>1, <1>2, <1>4, <2>1, ShareInv DEF TakeTexts
<1>5. CASE StopShare \/ StopUnreadable \/ EndShare
  <2>1. ShareAt("idle", {}, NoId)
    BY <1>0, <1>5 DEF StopShare, StopUnreadable, EndShare, ShareAt
  <2>. QED
    BY <1>1, <1>2, <2>1, ShareInv
<1>6. ASSUME NEW id \in Ids, SendDraft(id) PROVE Inv'
  <2>1. /\ share.pc = "drafts" /\ id \in share.todo /\ share.todo \subseteq Ids
        /\ \A i \in share.todo : Thing(i) \in asked
    BY <1>6 DEF SendDraft, Pressed, Asked
  <2>2. ShareAt("draftSent", share.todo \ {id}, id)
    BY <1>6 DEF SendDraft
  <2>. QED
    BY <1>1, <1>2, <2>1, <2>2, ShareInv
<1>. QED
  BY <1>3, <1>4, <1>5, <1>6

LEMMA SendsInv ==
  ASSUME Inv, SendText \/ \E t \in Things : SendShare(t)
  PROVE  Inv'
<1> USE NoIdIsNone DEF Inv, Sent
<1>1. /\ page.open /\ UNCHANGED <<inbox, rows, legacy, page, sync, tag, server, removed, closes>>
  BY DEF SendText, SendShare, Pressed, Busy, stores
<1>2. /\ rows' \in [Ids -> {"none", "draft", "pending"}] /\ page' \in Pages
      /\ tag' \in BOOLEAN
  BY <1>1 DEF Stored
<1>3. CASE SendText
  <2>1. page.box \in Typed /\ page.box \in Things /\ Spare({page.box})
    BY <1>3, ShareKinds DEF SendText, Pressed
  <2>2. NewId(page.box) \in Ids /\ Thing(NewId(page.box)) = page.box
    BY <2>1, NewIds DEF Spare
  <2>3. used' \in [Things -> 0..MaxTries]
    BY <1>3, <2>1, DrawnTypes DEF SendText
  <2>4. ShareAt("textSent", {}, NewId(page.box)) /\ asked' = asked \cup {page.box}
    BY <1>3 DEF SendText
  <2>. QED
    BY <1>1, <1>2, <2>1, <2>2, <2>3, <2>4, ShareInv
<1>4. ASSUME NEW t \in Things, SendShare(t) PROVE Inv'
  <2>1. share.todo \subseteq Things /\ Spare({t})
    BY <1>4 DEF SendShare, Pressed
  <2>2. NewId(t) \in Ids /\ Thing(NewId(t)) = t
    BY <2>1, NewIds DEF Spare
  <2>3. used' \in [Things -> 0..MaxTries]
    BY <1>4, <2>1, DrawnTypes DEF SendShare
  <2>4. ShareAt("sent", share.todo \ {t}, NewId(t)) /\ asked' = asked \cup {t}
    BY <1>4 DEF SendShare
  <2>. QED
    BY <1>1, <1>2, <2>1, <2>2, <2>3, <2>4, ShareInv
<1>. QED
  BY <1>3, <1>4

LEMMA EnqueuedRows ==
  ASSUME Stored, NEW id \in Ids
  PROVE  /\ Enqueued(id) \in [Ids -> {"none", "draft", "pending"}]
         /\ Enqueued(id)[id] = "pending"
         /\ \A i \in Ids : i # id => Enqueued(id)[i] = rows[i]
BY RowTypes DEF Enqueued

\* The list after something was queued.
LEMMA EnqueuedPage ==
  ASSUME Stored, NEW id \in Ids, NEW p \in Pages
  PROVE  LET q == [p EXCEPT !.list = ListAfterEnqueue(id)]
         IN  q \in Pages /\ q.open = p.open /\ q.box = p.box
<1>1. page.list \in [Ids -> {"none", "held", "draft", "pending"}]
  BY DEF Stored, Pages
<1>2. ListAfterEnqueue(id) \in [Ids -> {"none", "held", "draft", "pending"}]
  BY <1>1, EnqueuedRows, ListTypes DEF ListAfterEnqueue
<1>. QED
  BY <1>2, PageTypes

\* The answer to a PUT of the page, or none.
LEMMA AnswersInv ==
  ASSUME Inv, TextShared \/ ShareStored \/ DraftStored \/ QueueFails
  PROVE  Inv'
<1> USE NoIdIsNone DEF Inv, Sent
<1>0. NoShare = [pc |-> "idle", todo |-> {}, id |-> NoId]
  BY DEF NoShare
<1>1. /\ page.open /\ share.id # NoId /\ share.id \in Ids
      /\ UNCHANGED <<legacy, sync, tag, used, removed, asked, closes>>
      /\ server' = server \/ server' = server \cup {share.id}
  BY DEF TextShared, ShareStored, DraftStored, QueueFails, StoreSent, PerhapsSent, Pressed, Busy,
         stores, history
<1>2. /\ rows \in [Ids -> {"none", "draft", "pending"}] /\ page \in Pages
      /\ tag' \in BOOLEAN /\ used' \in [Things -> 0..MaxTries]
  BY <1>1 DEF Stored
<1>3. CASE TextShared
  <2>1. page' \in Pages /\ page'.open
    BY <1>1, <1>2, <1>3, PageTypes DEF TextShared
  <2>. QED
    BY <1>1, <1>2, <1>3, <2>1, ShareInv DEF TextShared, stores
<1>4. CASE ShareStored
  <2>1. share.todo \subseteq Things
    BY <1>4 DEF ShareStored, Pressed
  <2>. QED
    BY <1>1, <1>2, <1>4, <2>1, ShareInv DEF ShareStored
<1>5. CASE DraftStored
  <2>1. share.todo \subseteq Ids /\ \A i \in share.todo : Thing(i) \in asked
    BY <1>5 DEF DraftStored, Pressed, Asked
  <2>2. page' \in Pages /\ page'.open
    BY <1>1, <1>2, <1>5, PageTypes DEF DraftStored
  <2>3. /\ rows' \in [Ids -> {"none", "draft", "pending"}]
        /\ \A i \in Ids : rows'[i] = "pending" => rows[i] = "pending"
    BY <1>1, <1>5, RowTypes DEF DraftStored
  <2>. QED
    BY <1>1, <1>2, <1>5, <2>1, <2>2, <2>3, ShareInv DEF DraftStored
<1>6. CASE QueueFails
  <2>1. ShareAt("idle", {}, NoId)
    BY <1>0, <1>6 DEF QueueFails, ShareAt
  <2>. QED
    BY <1>1, <1>2, <1>6, <2>1, ShareInv DEF QueueFails, stores
<1>. QED
  BY <1>3, <1>4, <1>5, <1>6

\* No answer: what was sent is queued.
LEMMA QueuesInv ==
  ASSUME Inv, QueueText \/ QueueShare \/ FlipDraft
  PROVE  Inv'
<1> USE NoIdIsNone DEF Inv, Sent
<1>1. /\ page.open /\ share.id # NoId /\ share.id \in Ids /\ Thing(share.id) \in asked
      /\ UNCHANGED <<inbox, legacy, sync, removed, asked, closes>>
      /\ server' = server \/ server' = server \cup {share.id}
  BY DEF QueueText, QueueShare, FlipDraft, StoreSent, PerhapsSent, Pressed, Busy, history, Asked
<1>2. /\ rows \in [Ids -> {"none", "draft", "pending"}] /\ page \in Pages
      /\ tag' \in BOOLEAN /\ used \in [Things -> 0..MaxTries]
  BY DEF Stored, QueueText, QueueShare, FlipDraft, Registered
<1>3. CASE QueueText
  <2>1. page.box \in Typed /\ page.box \in Things /\ Spare({page.box}) /\ page.box \in asked
    BY <1>1, <1>3, ShareKinds DEF QueueText, Pressed
  <2>2. NewId(page.box) \in Ids /\ Thing(NewId(page.box)) = page.box
    BY <2>1, NewIds DEF Spare
  <2>3. used' \in [Things -> 0..MaxTries]
    BY <1>3, <2>1, DrawnTypes DEF QueueText
  <2>4. PICK id : id = NewId(page.box)
    OBVIOUS
  <2>5. /\ rows' = Enqueued(id)
        /\ page' = [page EXCEPT !.box = Nothing, !.list = ListAfterEnqueue(id)]
        /\ ShareAt("texts", {}, NoId)
    BY <1>3, <2>4 DEF QueueText
  <2>6. /\ rows' \in [Ids -> {"none", "draft", "pending"}]
        /\ \A i \in Ids : rows'[i] = "pending" => rows[i] = "pending" \/ Thing(i) \in asked
    BY <2>1, <2>2, <2>4, <2>5, EnqueuedRows
  <2>7. page' \in Pages /\ page'.open
    <3>1. PICK p : p = [page EXCEPT !.box = Nothing]
      OBVIOUS
    <3>2. p \in Pages /\ p.open = page.open
      BY <1>2, <3>1, PageTypes
    <3>3. page' = [p EXCEPT !.list = ListAfterEnqueue(id)]
      BY <1>2, <2>5, <3>1 DEF Pages
    <3>. QED
      BY <1>1, <2>2, <2>4, <3>2, <3>3, EnqueuedPage
  <2>. QED
    BY <1>1, <1>2, <2>3, <2>5, <2>6, <2>7, ShareInv
<1>4. CASE QueueShare
  <2>1. share.todo \subseteq Things
    BY <1>4 DEF QueueShare, Pressed
  <2>2. /\ rows' = Enqueued(share.id) /\ used' = used
        /\ page' = [page EXCEPT !.list = ListAfterEnqueue(share.id)]
        /\ ShareAt("drop", share.todo, share.id)
    BY <1>4 DEF QueueShare, QueueId
  <2>3. /\ rows' \in [Ids -> {"none", "draft", "pending"}] /\ rows'[share.id] # "none"
        /\ \A i \in Ids : rows'[i] = "pending" => rows[i] = "pending" \/ Thing(i) \in asked
    BY <1>1, <2>2, EnqueuedRows
  <2>4. page' \in Pages /\ page'.open
    BY <1>1, <1>2, <2>2, EnqueuedPage
  <2>. QED
    BY <1>1, <1>2, <2>1, <2>2, <2>3, <2>4, ShareInv
<1>5. CASE FlipDraft
  <2>1. share.todo \subseteq Ids /\ \A i \in share.todo : Thing(i) \in asked
    BY <1>5 DEF FlipDraft, Pressed, Asked
  <2>2. /\ rows' \in {Enqueued(share.id), rows} /\ used' = used
        /\ page' = [page EXCEPT !.list[share.id] = "pending"]
        /\ ShareAt("drafts", share.todo, NoId)
    BY <1>5 DEF FlipDraft
  <2>3. /\ rows' \in [Ids -> {"none", "draft", "pending"}]
        /\ \A i \in Ids : rows'[i] = "pending" => rows[i] = "pending" \/ Thing(i) \in asked
    BY <1>1, <1>2, <2>2, EnqueuedRows
  <2>4. page' \in Pages /\ page'.open
    BY <1>1, <1>2, <2>2, PageTypes
  <2>. QED
    BY <1>1, <1>2, <2>1, <2>2, <2>3, <2>4, ShareInv
<1>. QED
  BY <1>3, <1>4, <1>5

\* Shares leave the inbox, files get a row.
LEMMA ClaimsInv ==
  ASSUME Inv, \/ DropShare \/ ClaimFiles \/ TakeDrafts
              \/ \E id \in Ids : PersistClaim(id) \/ ClaimUnstored(id)
  PROVE  Inv'
<1> USE NoIdIsNone DEF Inv, Sent
<1>1. /\ page.open /\ UNCHANGED <<legacy, sync, tag, server, removed, closes>> /\ asked \subseteq asked'
      /\ inbox' \subseteq inbox
  BY DEF DropShare, ClaimFiles, TakeDrafts, PersistClaim, ClaimUnstored, Pressed, Busy, stores, history
<1>2. /\ rows \in [Ids -> {"none", "draft", "pending"}] /\ page \in Pages
      /\ tag' \in BOOLEAN /\ used \in [Things -> 0..MaxTries]
  BY <1>1 DEF Stored
<1>3. CASE DropShare
  <2>1. share.todo \subseteq Things
    BY <1>3 DEF DropShare, Pressed
  <2>. QED
    BY <1>1, <1>2, <1>3, <2>1, ShareInv DEF DropShare, history
<1>4. CASE ClaimFiles
  <2> DEFINE files == Visible \cap SharedFile
             new == {NewId(t) : t \in files}
             list == [id \in Ids |-> IF id \in new THEN "held" ELSE page.list[id]]
  <2>1. files \in SUBSET Things /\ Spare(files) /\ used' = Drawn(files)
        /\ ShareAt("claim", new, NoId) /\ UNCHANGED stores /\ asked' = asked
    BY <1>4, ShareKinds DEF ClaimFiles, history
  <2>2. new \subseteq Ids
    BY <2>1, NewIds DEF Spare
  <2>3. used' \in [Things -> 0..MaxTries]
    BY <2>1, DrawnTypes
  <2>4. page' = [page EXCEPT !.list = list]
    BY <1>4 DEF ClaimFiles
  <2>5. list \in [Ids -> {"none", "held", "draft", "pending"}]
    BY <1>2 DEF Pages
  <2> HIDE DEF files, new, list
  <2>6. page' \in Pages /\ page'.open
    BY <1>1, <1>2, <2>4, <2>5, PageTypes
  <2>. QED
    BY <1>1, <1>2, <2>1, <2>2, <2>3, <2>6, ShareInv DEF stores
<1>5. CASE TakeDrafts
  <2>1. Drafts \subseteq Ids /\ asked' = asked \cup {Thing(id) : id \in Drafts}
        /\ ShareAt("drafts", Drafts, NoId)
    BY <1>5 DEF TakeDrafts, Drafts
  <2>. QED
    BY <1>1, <1>2, <1>5, <2>1, ShareInv DEF TakeDrafts
<1>6. ASSUME NEW id \in Ids, PersistClaim(id) PROVE Inv'
  <2>1. share.todo \subseteq Ids /\ ShareAt("claim", share.todo \ {id}, NoId)
    BY <1>6 DEF PersistClaim, Pressed
  <2>2. /\ rows' \in [Ids -> {"none", "draft", "pending"}]
        /\ \A i \in Ids : rows'[i] = "pending" => rows[i] = "pending"
    BY <1>6, DraftRows DEF PersistClaim
  <2>. QED
    BY <1>1, <1>2, <1>6, <2>1, <2>2, ShareInv DEF PersistClaim, history
<1>7. ASSUME NEW id \in Ids, ClaimUnstored(id) PROVE Inv'
  <2>1. share.todo \subseteq Ids /\ ShareAt("claim", share.todo \ {id}, NoId)
    BY <1>7 DEF ClaimUnstored, Pressed
  <2>. QED
    BY <1>1, <1>2, <1>7, <2>1, ShareInv DEF ClaimUnstored, stores
<1>. QED
  BY <1>3, <1>4, <1>5, <1>6, <1>7

-----------------------------------------------------------------------------
(***************************************************************************)
(* The two drains.                                                         *)
(***************************************************************************)
Requested == {e \in Entries : Thing(e[2]) \in asked}

LEMMA SyncsRequested ==
  ASSUME Inv, NEW s \in Syncers
  PROVE  /\ sync[s] \in Syncs /\ sync[s].todo \subseteq Requested
         /\ sync[s].entry \in Requested \cup {NoId}
BY DEF Inv, Stored, Syncs, Asked, Requested

LEMMA QueueRequested == Inv => InQueue \cup InLegacy \subseteq Requested
<1> SUFFICES ASSUME Inv PROVE InQueue \cup InLegacy \subseteq Requested
  OBVIOUS
<1>1. ASSUME NEW id \in PendingRows PROVE <<"compose", id>> \in Requested
  BY DEF Inv, Asked, PendingRows, Requested, Entries
<1>2. ASSUME NEW id \in legacy PROVE <<"legacy", id>> \in Requested
  BY DEF Inv, Stored, Asked, Requested, Entries
<1>. QED
  BY <1>1, <1>2 DEF InQueue, InLegacy

\* One drain moves on, and rows leave the stores only for the server or because
\* it refused them.
LEMMA DrainInv ==
  ASSUME Inv, NEW s \in Syncers, NEW d \in Syncs, sync' = [sync EXCEPT ![s] = d],
         d.todo \subseteq Requested, d.entry \in Requested \cup {NoId},
         UNCHANGED <<inbox, share, used, asked, closes>>,
         page' \in Pages, page'.open = page.open, page'.box = page.box, tag' \in BOOLEAN,
         rows' \in [Ids -> {"none", "draft", "pending"}],
         \A i \in Ids : \/ rows'[i] = rows[i]
                        \/ rows'[i] = "none" /\ (i \in server' \/ Thing(i) \in removed'),
         legacy' \subseteq legacy, removed \subseteq removed',
         server' = server \/ (\E e \in Requested : server' = server \cup {e[2]})
  PROVE  Inv'
<1> USE DEF Inv
<1>1. /\ server \subseteq server' /\ server' \subseteq Ids
      /\ \A id \in server' : Thing(id) \in asked
  BY EntryIds DEF Requested, Stored, Asked
<1>2. Stored'
  BY <1>1 DEF Stored
<1>3. Pressed'
  BY DEF Pressed, Busy
<1>4. Backed'
  BY <1>1, NoIdIsNone DEF Backed, Pressed
<1>5. Asked'
  <2>1. \A q \in Syncers : \A e \in Entries :
          e \in sync'[q].todo \/ e = sync'[q].entry => Thing(e[2]) \in asked
    BY NoIdIsNone DEF Stored, Asked, Requested
  <2>2. \A id \in Ids : rows'[id] = "pending" \/ id \in legacy' \cup server' => Thing(id) \in asked
    BY <1>1 DEF Asked
  <2>. QED
    BY <2>1, <2>2 DEF Asked
<1>. QED
  BY <1>2, <1>3, <1>4, <1>5

LEMMA DrainStartsInv ==
  ASSUME Inv, StartForeground \/ StartBackground \/ EndForeground \/ EndBackground
  PROVE  Inv'
<1> USE DEF Inv
<1>1. /\ UNCHANGED <<inbox, rows, legacy, share, server, used, removed, asked, closes>>
      /\ rows \in [Ids -> {"none", "draft", "pending"}] /\ tag' \in BOOLEAN
  BY DEF StartForeground, StartBackground, EndForeground, EndBackground, stores, history, Stored
<1>2. page' \in Pages /\ page'.open = page.open /\ page'.box = page.box
  <2>1. CASE EndForeground
    <3>1. page.list \in [Ids -> {"none", "held", "draft", "pending"}]
      BY DEF Stored, Pages
    <3>2. Refreshed(page.list, rows) \in [Ids -> {"none", "held", "draft", "pending"}]
      BY <1>1, <3>1, ListTypes
    <3>3. page' = [page EXCEPT !.list = Refreshed(page.list, rows)]
      BY <2>1 DEF EndForeground
    <3>. QED
      BY <3>2, <3>3, PageTypes DEF Stored
  <2>. QED
    BY <2>1 DEF StartForeground, StartBackground, EndBackground, Stored
<1>3. /\ NoSync \in Syncs /\ NoSync.todo = {} /\ NoSync.entry = NoId
  BY DEF NoSync, Syncs
<1>4. ASSUME NEW todo, todo \subseteq Requested
      PROVE  LET d == [NoSync EXCEPT !.on = TRUE, !.todo = todo]
             IN  d \in Syncs /\ d.todo = todo /\ d.entry = NoId
  BY <1>4 DEF NoSync, Syncs, Requested
<1>5. CASE StartForeground
  <2>1. PICK d : d = [NoSync EXCEPT !.on = TRUE, !.todo = InQueue]
    OBVIOUS
  <2>2. d \in Syncs /\ d.todo \subseteq Requested /\ d.entry = NoId
    BY <1>4, <2>1, QueueRequested
  <2>3. sync' = [sync EXCEPT !["foreground"] = d]
    BY <1>5, <2>1 DEF StartForeground
  <2>. QED
    BY <1>1, <1>2, <2>2, <2>3, DrainInv DEF Syncers
<1>6. CASE StartBackground
  <2>1. PICK d : d = [NoSync EXCEPT !.on = TRUE, !.todo = InQueue \cup InLegacy]
    OBVIOUS
  <2>2. d \in Syncs /\ d.todo \subseteq Requested /\ d.entry = NoId
    BY <1>4, <2>1, QueueRequested
  <2>3. sync' = [sync EXCEPT !["background"] = d]
    BY <1>6, <2>1 DEF StartBackground
  <2>. QED
    BY <1>1, <1>2, <2>2, <2>3, DrainInv DEF Syncers
<1>7. CASE EndForeground \/ EndBackground
  <2>1. PICK s \in Syncers : sync' = [sync EXCEPT ![s] = NoSync]
    BY <1>7 DEF EndForeground, EndBackground, Syncers
  <2>. QED
    BY <1>1, <1>2, <1>3, <2>1, DrainInv
<1>. QED
  BY <1>5, <1>6, <1>7

\* A row that leaves its store.
LEMMA Dequeued ==
  ASSUME Stored, NEW e \in Entries, Dequeue(e)
  PROVE  /\ rows' \in [Ids -> {"none", "draft", "pending"}]
         /\ \A i \in Ids : rows'[i] = rows[i] \/ (i = e[2] /\ rows'[i] = "none")
         /\ legacy' \subseteq legacy /\ \A i \in legacy : i \in legacy' \/ i = e[2]
BY EntryIds, RowTypes DEF Dequeue, Stored

LEMMA DrainStepsInv ==
  ASSUME Inv, NEW s \in Syncers,
         \/ Refused(s) \/ Unanswered(s)
         \/ \E e \in Entries : Upload(s, e)
         \/ \E id \in Ids : Uploaded(s, id)
  PROVE  Inv'
<1> USE DEF Inv
<1>1. /\ UNCHANGED <<inbox, page, share, used, asked, closes>>
      /\ page' \in Pages /\ page'.open = page.open /\ page'.box = page.box /\ tag' \in BOOLEAN
  BY DEF Refused, Unanswered, Upload, Uploaded, stores, history, Stored
<1>2. /\ sync[s] \in Syncs /\ sync[s].todo \subseteq Requested
      /\ sync[s].entry \in Requested \cup {NoId} /\ rows \in [Ids -> {"none", "draft", "pending"}]
  BY SyncsRequested DEF Stored
<1>3. ASSUME sync' = [sync EXCEPT ![s].entry = NoId]
      PROVE  \E d \in Syncs : /\ sync' = [sync EXCEPT ![s] = d]
                              /\ d.todo = sync[s].todo /\ d.entry = NoId
  <2>1. PICK d : d = [sync[s] EXCEPT !.entry = NoId]
    OBVIOUS
  <2>2. d \in Syncs /\ d.todo = sync[s].todo /\ d.entry = NoId
    BY <1>2, <2>1 DEF Syncs
  <2>3. sync' = [sync EXCEPT ![s] = d]
    BY <1>3, <2>1
  <2>. QED
    BY <2>2, <2>3
<1>4. ASSUME Refused(s) PROVE Inv'
  <2>1. PICK d \in Syncs : /\ sync' = [sync EXCEPT ![s] = d]
                           /\ d.todo = sync[s].todo /\ d.entry = NoId
    BY <1>3, <1>4 DEF Refused
  <2>2. PICK e \in Entries : e = sync[s].entry
    BY <1>2, <1>4 DEF Refused, Requested
  <2>3. Dequeue(e) /\ removed' = removed \cup {Thing(e[2])} /\ server' = server
    BY <1>4, <2>2 DEF Refused
  <2>. QED
    BY <1>1, <1>2, <2>1, <2>3, Dequeued, DrainInv
<1>5. ASSUME Unanswered(s) PROVE Inv'
  <2>1. PICK d \in Syncs : /\ sync' = [sync EXCEPT ![s] = d]
                           /\ d.todo = sync[s].todo /\ d.entry = NoId
    BY <1>3, <1>5 DEF Unanswered
  <2>2. PICK e \in Requested : e = sync[s].entry
    BY <1>2, <1>5 DEF Unanswered
  <2>3. /\ server' = server \/ server' = server \cup {e[2]}
        /\ UNCHANGED <<rows, legacy, removed>>
    BY <1>5, <2>2 DEF Unanswered, stores, history
  <2>. QED
    BY <1>1, <1>2, <2>1, <2>3, DrainInv
<1>6. ASSUME NEW e \in Entries, Upload(s, e) PROVE Inv'
  <2>1. PICK d : d = [sync[s] EXCEPT !.entry = e, !.todo = @ \ {e}]
    OBVIOUS
  <2>2. d \in Syncs /\ d.todo = sync[s].todo \ {e} /\ d.entry = e
    BY <1>2, <2>1 DEF Syncs
  <2>3. sync' = [sync EXCEPT ![s] = d]
    BY <1>2, <1>6, <2>1 DEF Upload, Stored, Syncs
  <2>4. e \in Requested /\ UNCHANGED <<rows, legacy, removed, server>>
    BY <1>2, <1>6 DEF Upload, stores, history
  <2>. QED
    BY <1>1, <1>2, <2>2, <2>3, <2>4, DrainInv
<1>7. ASSUME NEW id \in Ids, Uploaded(s, id) PROVE Inv'
  <2>1. PICK d \in Syncs : /\ sync' = [sync EXCEPT ![s] = d]
                           /\ d.todo = sync[s].todo /\ d.entry = NoId
    BY <1>3, <1>7 DEF Uploaded
  <2>2. PICK e \in Requested : e = sync[s].entry /\ e[2] = id
    BY <1>2, <1>7 DEF Uploaded
  <2>3. Dequeue(e) /\ removed' = removed /\ server' = server \cup {e[2]} /\ e \in Entries
    BY <1>7, <2>2 DEF Uploaded, history, Requested
  <2>. QED
    BY <1>1, <1>2, <2>1, <2>3, Dequeued, DrainInv
<1>. QED
  BY <1>4, <1>5, <1>6, <1>7

LEMMA InvStep == Inv /\ [Next]_vars => Inv'
<1> SUFFICES ASSUME Inv, [Next]_vars PROVE Inv'
  OBVIOUS
<1>1. CASE UNCHANGED vars
  BY <1>1 DEF vars, stores, history, Inv, Stored, Pressed, Busy, Sent, Asked, Backed
<1>2. CASE ShareSteps
  BY <1>2, MovesInv, SendsInv, AnswersInv, QueuesInv, ClaimsInv DEF ShareSteps
<1>3. CASE SyncSteps
  BY <1>3, DrainStartsInv, DrainStepsInv DEF SyncSteps
<1>. QED
  BY <1>1, <1>2, <1>3, ArrivalsInv, EntryInv, PageInv DEF Next

LEMMA InvAlways == Spec => []Inv
BY InitInv, InvStep, PTL DEF Spec

-----------------------------------------------------------------------------
(***************************************************************************)
(* What holds in every state.                                              *)
(***************************************************************************)
\* The inbox, the rows, the old queue, the page, the press of Share and the
\* drains hold what their declarations say, and only what waits for an answer
\* has an id (space-view.ts, idb-storage.ts, sw.ts).
THEOREM TypeCorrect == Spec => []TypeOK
<1>1. Inv => TypeOK
  <2> SUFFICES ASSUME Inv PROVE TypeOK
    OBVIOUS
  <2>1. \A s \in Syncers : sync[s].todo \subseteq Entries /\ sync[s].entry \in Entries \cup {NoId}
    BY DEF Inv, Stored, Syncs
  <2>2. share.todo \subseteq Ids \cup Things
    BY DEF Inv, Pressed
  <2>. QED
    BY <2>1, <2>2 DEF Inv, Stored, Pressed, TypeOK, Pages
<1>. QED
  BY <1>1, InvAlways, PTL

\* The server never gets anything the user has not pressed Share for: whatever
\* a drain of the page or of the service worker uploads was taken up by a press
\* before, in this version or in the one that left the old queue.
THEOREM NothingUnasked == Spec => []OnlyAsked
<1>1. Inv => OnlyAsked
  BY DEF Inv, Stored, Asked, OnlyAsked
<1>. QED
  BY <1>1, InvAlways, PTL

-----------------------------------------------------------------------------
(***************************************************************************)
(* What no step does.                                                      *)
(***************************************************************************)
InPlace(id) == rows[id] # "none" \/ id \in legacy

\* Nothing is lost when what leaves a store is in another one, on the server
\* or removed.
LEMMA KeptIf ==
  ASSUME \A t \in inbox : \/ t \in inbox' \cup removed'
                          \/ \E id \in Ids : Thing(id) = t /\ (InPlace(id)' \/ id \in server'),
         \A id \in Ids : InPlace(id) => InPlace(id)' \/ id \in server' \/ Thing(id) \in removed'
  PROVE  \A t \in Things : Durable(t) => Durable(t)' \/ OnServer(t)' \/ t \in removed'
BY DEF InPlace, Durable, OnServer

Kept == \A t \in Things : Durable(t) => Durable(t)' \/ OnServer(t)' \/ t \in removed'

LEMMA KeptByUser == Inv /\ (Arrivals \/ EntrySteps \/ PageSteps) => Kept
<1> SUFFICES ASSUME Inv, Arrivals \/ EntrySteps \/ PageSteps PROVE Kept
  OBVIOUS
<1> USE DEF InPlace, Inv
<1>1. CASE Arrivals
  BY <1>1, KeptIf
     DEF Kept, Arrivals, ReceiveShare, TypeText, PickFile, DismissShare, stores, history
<1>2. ASSUME NEW id \in Ids, PersistDraft(id) PROVE Kept
  <2>1. \A i \in Ids : rows[i] # "none" => rows'[i] # "none"
    BY <1>2, DraftRows DEF PersistDraft
  <2>. QED
    BY <1>2, <2>1, KeptIf DEF PersistDraft, Kept
<1>3. ASSUME NEW id \in Ids, RemoveEntry(id) PROVE Kept
  <2>1. \A i \in Ids : i # id => rows'[i] = rows[i]
    BY <1>3, RowTypes DEF RemoveEntry
  <2>. QED
    BY <1>3, <2>1, KeptIf DEF RemoveEntry, Kept
<1>4. CASE OpenPage
  <2>1. \A i \in Ids : InPlace(i) => Migrated[i] # "none"
    BY DEF Migrated
  <2>. QED
    BY <1>4, <2>1, KeptIf DEF OpenPage, Kept
<1>5. CASE ClosePage \/ ComeOnline \/ RefreshList
  BY <1>5, KeptIf DEF ClosePage, ComeOnline, RefreshList, stores, Kept
<1>. QED
  BY <1>1, <1>2, <1>3, <1>4, <1>5 DEF EntrySteps, PageSteps

\* A share leaves the inbox when the server has it, or when a row stands for it.
LEMMA KeptByPress == Inv /\ ShareSteps => Kept
<1> SUFFICES ASSUME Inv, ShareSteps PROVE Kept
  OBVIOUS
<1> USE NoIdIsNone DEF InPlace, Inv, Sent
<1>1. CASE UNCHANGED stores
  BY <1>1, KeptIf DEF stores, Kept
<1>2. CASE ShareStored
  <2>1. share.id \in Ids
    BY <1>2 DEF ShareStored, Pressed
  <2>. QED
    BY <1>2, <2>1, KeptIf DEF ShareStored, StoreSent, Kept
<1>3. CASE DropShare
  <2>1. /\ inbox' = inbox \ {Thing(share.id)}
        /\ rows' = rows /\ legacy' = legacy /\ server' = server /\ removed' = removed
    BY <1>3 DEF DropShare, history
  <2>2. PICK id \in Ids : /\ inbox' = inbox \ {Thing(id)}
                          /\ InPlace(id) \/ id \in server \/ Thing(id) \in removed
    BY <1>3, <2>1 DEF DropShare, Pressed, Backed
  <2>. QED
    BY <2>1, <2>2, KeptIf DEF Kept
<1>4. CASE DraftStored
  <2>1. share.id \in Ids
    BY <1>4 DEF DraftStored, Pressed
  <2>2. \A i \in Ids : i # share.id => rows'[i] = rows[i]
    BY <1>4, <2>1, RowTypes DEF DraftStored
  <2>. QED
    BY <1>4, <2>1, <2>2, KeptIf DEF DraftStored, StoreSent, Kept
<1>5. CASE TakeDrafts
  <2>1. \A t \in Claimed : \E id \in Ids : Thing(id) = t /\ rows[id] # "none"
    BY DEF Claimed
  <2>. QED
    BY <1>5, <2>1, KeptIf DEF TakeDrafts, Kept
<1>6. ASSUME NEW id \in Ids, rows' \in {Enqueued(id), rows}, UNCHANGED <<inbox, legacy>>
      PROVE  Kept
  <2>1. \A i \in Ids : rows[i] # "none" => rows'[i] # "none"
    BY <1>6, EnqueuedRows
  <2>. QED
    BY <1>6, <2>1, KeptIf DEF Kept
<1>7. CASE QueueText
  <2>1. page.box \in Things /\ Spare({page.box})
    BY <1>7, ShareKinds DEF QueueText, Pressed
  <2>2. NewId(page.box) \in Ids
    BY <2>1, NewIds DEF Spare
  <2>. QED
    BY <1>6, <1>7, <2>2 DEF QueueText
<1>8. CASE QueueShare \/ FlipDraft
  <2>1. share.id \in Ids
    BY <1>8 DEF QueueShare, FlipDraft, Pressed
  <2>. QED
    BY <1>6, <1>8, <2>1 DEF QueueShare, QueueId, FlipDraft
<1>9. ASSUME NEW id \in Ids, PersistClaim(id) PROVE Kept
  <2>1. \A i \in Ids : rows[i] # "none" => rows'[i] # "none"
    BY <1>9, DraftRows DEF PersistClaim
  <2>. QED
    BY <1>9, <2>1, KeptIf DEF PersistClaim, Kept
<1>. QED
  BY <1>1, <1>2, <1>3, <1>4, <1>5, <1>7, <1>8, <1>9
     DEF ShareSteps, PressShare, SendText, TextShared, TakeTexts, SendShare, QueueFails, ClaimFiles,
         ClaimUnstored, SendDraft, StopShare, StopUnreadable, EndShare

\* A row leaves the queue when the server has its item or refuses it.
LEMMA KeptByDrains == Inv /\ SyncSteps => Kept
<1> SUFFICES ASSUME Inv, SyncSteps PROVE Kept
  OBVIOUS
<1> USE DEF InPlace, Inv
<1>1. CASE UNCHANGED stores
  BY <1>1, KeptIf DEF stores, Kept
<1>2. ASSUME NEW e \in Entries, Dequeue(e), UNCHANGED inbox,
             e[2] \in server' \/ Thing(e[2]) \in removed'
      PROVE  Kept
  <2>1. \A i \in Ids : InPlace(i) => InPlace(i)' \/ i = e[2]
    BY <1>2, Dequeued
  <2>. QED
    BY <1>2, <2>1, KeptIf DEF Kept
<1>3. ASSUME NEW s \in Syncers, Refused(s) PROVE Kept
  <2>1. sync[s].entry \in Entries
    BY <1>3 DEF Refused, Stored, Syncs
  <2>. QED
    BY <1>2, <1>3, <2>1 DEF Refused
<1>4. ASSUME NEW s \in Syncers, NEW id \in Ids, Uploaded(s, id) PROVE Kept
  <2>1. sync[s].entry \in Entries
    BY <1>4 DEF Uploaded, Stored, Syncs
  <2>. QED
    BY <1>2, <1>4, <2>1 DEF Uploaded
<1>. QED
  BY <1>1, <1>3, <1>4
     DEF SyncSteps, StartForeground, StartBackground, EndForeground, EndBackground, Unanswered, Upload

\* However often the page closes, answers are lost and the two drains overlap,
\* what IndexedDB holds stays in one of its stores until the server has it, the
\* user removes it or the server refuses it for good.
THEOREM NothingGetsLost == Spec => NothingLost
<1>1. Inv /\ [Next]_vars
        => [\A t \in Things : Durable(t) => \/ Durable(t)' \/ OnServer(t)' \/ t \in removed']_vars
  BY KeptByUser, KeptByPress, KeptByDrains DEF Kept, Next
<1>. QED
  BY <1>1, InvAlways, PTL DEF Spec, NothingLost

-----------------------------------------------------------------------------
(***************************************************************************)
(* A share becomes one item: an id is drawn for it only while no other can *)
(* come to the server.                                                     *)
(***************************************************************************)
Shares == SharedText \cup SharedFile

InDrain(id) ==
  \E s \in Syncers, kind \in {"compose", "legacy"} :
    <<kind, id>> \in sync[s].todo \/ <<kind, id>> = sync[s].entry

Placed(id) ==
  id \in server \/ rows[id] # "none" \/ id \in legacy \/ page.list[id] # "none" \/ InDrain(id)

\* An id that is on the server or that something may still send there.
Out(id) ==
  \/ Placed(id) \/ id = share.id
  \/ share.pc \in {"claim", "drafts", "draftSent"} /\ id \in share.todo

Given == \A id \in Ids : Out(id) => used[Thing(id)] # 0

Single ==
  \A i, j \in Ids : Out(i) /\ Out(j) /\ Thing(i) = Thing(j) /\ Thing(i) \in Shares \ torn => i = j

\* The texts a press has taken up are in the inbox until their turn.
Awaited ==
  share.pc \in {"next", "sent", "drop"} =>
    share.todo \subseteq inbox /\ (share.id # NoId => Thing(share.id) \notin share.todo)

\* Sent, and not queued yet.
OnItsWay(id) == share.pc = "sent" /\ id = share.id /\ ~Placed(id)

\* In the list, and its row there or to come.
BeingClaimed(id) ==
  /\ share.pc = "claim" /\ page.list[id] = "held"
  /\ rows[id] = "draft" \/ (rows[id] = "none" /\ id \in share.todo)
  /\ id \notin legacy /\ ~InDrain(id)

\* A share in the inbox has no id out but the one the press is at.
Apart ==
  \A id \in Ids : Thing(id) \in inbox \ torn /\ Out(id) =>
    OnItsWay(id) \/ (share.pc = "drop" /\ id = share.id) \/ BeingClaimed(id)

Once == Given /\ Single /\ Awaited /\ Apart

OnceInv == Inv /\ Once

\* Of the things an id is drawn for, no other id is out.
LEMMA OnceIf ==
  ASSUME OnceInv, torn \subseteq torn', \A t \in Things : used[t] # 0 => used'[t] # 0,
         NEW N \in SUBSET Ids, \A id \in Ids : Out(id)' => Out(id) \/ id \in N,
         \A i \in N :
           /\ used'[Thing(i)] # 0
           /\ Thing(i) \in Shares \ torn =>
                /\ \A j \in N : Thing(j) = Thing(i) => j = i
                /\ \A j \in Ids : Out(j) => Thing(j) # Thing(i)
  PROVE  Given' /\ Single'
<1>1. Given'
  BY IdsOfThings DEF OnceInv, Once, Given
<1>2. Single'
  BY DEF OnceInv, Once, Single
<1>. QED
  BY <1>1, <1>2

\* No id is drawn.
LEMMA OnceKept ==
  ASSUME OnceInv, torn \subseteq torn', \A t \in Things : used[t] # 0 => used'[t] # 0,
         \A id \in Ids : Out(id)' => Out(id)
  PROVE  Given' /\ Single'
<1>1. Given'
  BY IdsOfThings DEF OnceInv, Once, Given
<1>2. Single'
  BY DEF OnceInv, Once, Single
<1>. QED
  BY <1>1, <1>2

LEMMA DrawnUsed ==
  ASSUME Stored, NEW S \in SUBSET Things, used' = Drawn(S)
  PROVE  /\ \A t \in Things : used[t] # 0 => used'[t] # 0
         /\ \A t \in S : used'[t] # 0
BY DEF Stored, Drawn

\* While no press is under way, or one that is not at the inbox, no share of the
\* inbox has an id out.
LEMMA InboxApart ==
  ASSUME OnceInv, share.pc \notin {"sent", "drop", "claim"}
  PROVE  \A id \in Ids : Thing(id) \in inbox \ torn => ~Out(id)
BY DEF OnceInv, Once, Apart, OnItsWay, BeingClaimed

\* Steps that are not of the press: nothing new is placed, what is being claimed
\* stays in the list, and only the drains' rows go.
LEMMA ElsewhereOnce ==
  ASSUME OnceInv, UNCHANGED <<inbox, share, used, torn>>, legacy' \subseteq legacy,
         \A id \in Ids :
           /\ Placed(id)' => Placed(id)
           /\ InDrain(id)' => InDrain(id) \/ rows[id] = "pending" \/ id \in legacy
           /\ rows'[id] \in {rows[id], "draft"} \/ InDrain(id)
           /\ page.list[id] = "held" /\ rows[id] # "pending" => page'.list[id] = "held"
  PROVE  Once'
<1>1. \A id \in Ids : Out(id)' => Out(id)
  BY DEF Out
<1>2. Given' /\ Single'
  BY <1>1, OnceKept
<1>3. Awaited'
  BY DEF OnceInv, Once, Awaited
<1>4. \A id \in Ids : OnItsWay(id) => OnItsWay(id)'
  BY DEF OnItsWay
<1>5. \A id \in Ids : BeingClaimed(id) => BeingClaimed(id)'
  BY DEF BeingClaimed
<1>6. Apart'
  BY <1>1, <1>4, <1>5 DEF OnceInv, Once, Apart
<1>. QED
  BY <1>2, <1>3, <1>6 DEF Once

\* Steps with no press under way, or one that is not at the inbox.
LEMMA AsideOnce ==
  ASSUME OnceInv, share.pc \notin {"sent", "drop", "claim"},
         share'.pc \notin {"next", "sent", "drop"},
         inbox' \subseteq inbox, torn \subseteq torn', \A t \in Things : used[t] # 0 => used'[t] # 0,
         NEW new \in Ids, \A id \in Ids : Out(id)' => Out(id) \/ id = new,
         used'[Thing(new)] # 0, Thing(new) \notin inbox,
         Thing(new) \in Shares \ torn => \A j \in Ids : Out(j) => Thing(j) # Thing(new)
  PROVE  Once'
<1>1. Given' /\ Single'
  <2>1. PICK N \in SUBSET Ids : N = {new}
    OBVIOUS
  <2>. QED
    BY <2>1, OnceIf
<1>2. \A id \in Ids : Thing(id) \in inbox' \ torn' => ~Out(id)'
  BY InboxApart
<1>. QED
  BY <1>1, <1>2 DEF Once, Awaited, Apart

LEMMA AsideKept ==
  ASSUME OnceInv, share.pc \notin {"sent", "drop", "claim"},
         share'.pc \notin {"next", "sent", "drop"},
         inbox' \subseteq inbox, torn \subseteq torn', \A t \in Things : used[t] # 0 => used'[t] # 0,
         \A id \in Ids : Out(id)' => Out(id)
  PROVE  Once'
<1>1. Given' /\ Single'
  BY OnceKept
<1>2. \A id \in Ids : Thing(id) \in inbox' \ torn' => ~Out(id)'
  BY InboxApart
<1>. QED
  BY <1>1, <1>2 DEF Once, Awaited, Apart

LEMMA ArrivalsOnce ==
  ASSUME OnceInv, Arrivals
  PROVE  Once'
<1>1. PICK t \in Things : ReceiveShare(t) \/ TypeText(t) \/ PickFile(t) \/ DismissShare(t)
  BY DEF Arrivals
<1>2. CASE ReceiveShare(t)
  <2>1. /\ inbox' = inbox \cup {t} /\ used[t] = 0
        /\ UNCHANGED <<rows, legacy, page, share, sync, server, used, torn>>
    BY <1>2 DEF ReceiveShare, Fresh, history
  <2>2. \A id \in Ids : /\ Out(id)' <=> Out(id)
                        /\ OnItsWay(id)' <=> OnItsWay(id)
                        /\ BeingClaimed(id)' <=> BeingClaimed(id)
    BY <2>1 DEF Out, Placed, InDrain, OnItsWay, BeingClaimed
  <2>3. Given' /\ Single'
    BY <2>1, <2>2, OnceKept
  <2>4. Awaited'
    BY <2>1 DEF OnceInv, Once, Awaited
  <2>5. Apart'
    BY <2>1, <2>2 DEF OnceInv, Once, Apart, Given
  <2>. QED
    BY <2>3, <2>4, <2>5 DEF Once
<1>3. CASE TypeText(t)
  <2>1. UNCHANGED <<inbox, rows, legacy, share, sync, server, used, torn>> /\ page'.list = page.list
    BY <1>3 DEF TypeText, stores, history, OnceInv, Inv, Stored, Pages
  <2>. QED
    BY <2>1, ElsewhereOnce DEF Placed, InDrain
<1>4. CASE PickFile(t)
  <2>1. /\ UNCHANGED <<inbox, rows, legacy, share, sync, server, torn>>
        /\ used[t] = 0 /\ t \notin inbox /\ share.pc = "idle" /\ used' = Drawn({t})
    BY <1>4 DEF PickFile, Fresh, Busy, stores, history
  <2>2. NewId(t) \in Ids /\ Thing(NewId(t)) = t
    BY <2>1, NewIds, ComposeQueueAssumption DEF OnceInv, Inv
  <2>3. \A id \in Ids : id # NewId(t) => page'.list[id] = page.list[id]
    BY <1>4 DEF PickFile, OnceInv, Inv, Stored, Pages
  <2>4. \A id \in Ids : Out(id)' => Out(id) \/ id = NewId(t)
    BY <2>1, <2>3 DEF Out, Placed, InDrain
  <2>5. (\A x \in Things : used[x] # 0 => used'[x] # 0) /\ used'[t] # 0
    BY <2>1, DrawnUsed DEF OnceInv, Inv
  <2>6. \A j \in Ids : Out(j) => Thing(j) # t
    BY <2>1 DEF OnceInv, Once, Given
  <2>. QED
    BY <2>1, <2>2, <2>4, <2>5, <2>6, AsideOnce
<1>5. CASE DismissShare(t)
  <2>1. /\ UNCHANGED <<rows, legacy, page, share, sync, server, used, torn>>
        /\ inbox' \subseteq inbox /\ share.pc = "idle"
    BY <1>5 DEF DismissShare, Busy
  <2>2. \A id \in Ids : Out(id)' => Out(id)
    BY <2>1 DEF Out, Placed, InDrain
  <2>. QED
    BY <2>1, <2>2, AsideKept
<1>. QED
  BY <1>1, <1>2, <1>3, <1>4, <1>5

LEMMA EntryOnce ==
  ASSUME OnceInv, EntrySteps
  PROVE  Once'
<1>1. PICK id \in Ids : PersistDraft(id) \/ RemoveEntry(id)
  BY DEF EntrySteps
<1>2. CASE PersistDraft(id)
  <2>1. UNCHANGED <<inbox, legacy, share, sync, server, used, torn>> /\ page'.list = page.list
    BY <1>2 DEF PersistDraft, history, OnceInv, Inv, Stored, Pages
  <2>2. \A i \in Ids : rows'[i] = rows[i] \/ (rows'[i] = "draft" /\ page.list[i] # "none")
    BY <1>2 DEF PersistDraft, StoredAsDraft, OnceInv, Inv, Stored
  <2>3. \A i \in Ids : Placed(i)' => Placed(i)
    BY <2>1, <2>2 DEF Placed, InDrain
  <2>4. \A i \in Ids : InDrain(i)' => InDrain(i)
    BY <2>1 DEF InDrain
  <2>. QED
    BY <2>1, <2>2, <2>3, <2>4, ElsewhereOnce
<1>3. CASE RemoveEntry(id)
  <2>1. /\ UNCHANGED <<inbox, legacy, share, sync, server, used, torn>> /\ share.pc = "idle"
        /\ \A i \in Ids : /\ rows'[i] # "none" => rows[i] # "none"
                          /\ page'.list[i] # "none" => page.list[i] # "none"
    BY <1>3 DEF RemoveEntry, Busy, OnceInv, Inv, Stored, Pages
  <2>2. \A i \in Ids : Out(i)' => Out(i)
    BY <2>1 DEF Out, Placed, InDrain
  <2>. QED
    BY <2>1, <2>2, AsideKept
<1>. QED
  BY <1>1, <1>2, <1>3

LEMMA PageOnce ==
  ASSUME OnceInv, PageSteps
  PROVE  Once'
<1>1. CASE OpenPage
  <2>1. /\ UNCHANGED <<inbox, share, sync, server, used, torn>> /\ share.pc = "idle"
        /\ legacy' = {} /\ rows' = Migrated /\ page'.list = Refreshed(Empty, Migrated)
    BY <1>1 DEF OpenPage, history, ClosedPage, OnceInv, Inv, Pressed, Busy
  <2>2. \A i \in Ids : /\ rows'[i] # "none" => rows[i] # "none" \/ i \in legacy
                       /\ page'.list[i] # "none" => rows'[i] # "none"
    BY <2>1 DEF Migrated, Refreshed, Empty
  <2>3. \A i \in Ids : Out(i)' => Out(i)
    BY <2>1, <2>2 DEF Out, Placed, InDrain
  <2>. QED
    BY <2>1, <2>3, AsideKept
<1>2. CASE ClosePage
  <2>1. /\ UNCHANGED <<inbox, rows, legacy, used>> /\ page' = ClosedPage /\ share' = NoShare
        /\ sync' = [sync EXCEPT !["foreground"] = NoSync]
        /\ server' \subseteq server \cup InFlight
        /\ torn' = torn \cup {t \in inbox : used[t] > 0}
    BY <1>2 DEF ClosePage, stores
  <2>2. \A i \in Ids : i \in InFlight => Out(i)
    <3>1. ASSUME NEW i \in Ids, share.pc \in Sent, i = share.id PROVE Out(i)
      BY <3>1 DEF Out
    <3>2. ASSUME NEW i \in Ids, sync["foreground"].entry # NoId, i = sync["foreground"].entry[2]
          PROVE  InDrain(i)
      <4>1. sync["foreground"].entry \in Entries
        BY <3>2 DEF OnceInv, Inv, Stored, Syncs, Syncers
      <4>2. PICK kind \in {"compose", "legacy"} : sync["foreground"].entry = <<kind, i>>
        BY <3>2, <4>1 DEF Entries
      <4>. QED
        BY <4>2 DEF InDrain, Syncers
    <3>. QED
      BY <3>1, <3>2 DEF InFlight, Out, Placed
  <2>3. \A i \in Ids : InDrain(i)' => InDrain(i)
    BY <2>1, NoIdIsNone DEF InDrain, NoSync, OnceInv, Inv, Stored, Entries
  <2>4. \A i \in Ids : Out(i)' => Out(i)
    BY <2>1, <2>2, <2>3, NoIdIsNone DEF Out, Placed, NoShare, ClosedPage, Empty
  <2>5. Given' /\ Single'
    BY <2>1, <2>4, OnceKept
  <2>6. \A id \in Ids : Thing(id) \in inbox' \ torn' => ~Out(id)'
    <3>1. \A t \in Things : used[t] # 0 => used[t] > 0
      BY DEF OnceInv, Inv, Stored
    <3>. QED
      BY <2>1, <2>4, <3>1, IdsOfThings DEF OnceInv, Once, Given
  <2>. QED
    BY <2>1, <2>5, <2>6 DEF Once, Awaited, Apart, NoShare
<1>3. CASE ComeOnline
  BY <1>3, ElsewhereOnce DEF ComeOnline, stores, history, Placed, InDrain
<1>4. CASE RefreshList
  <2>1. /\ UNCHANGED <<inbox, rows, legacy, share, sync, server, used, torn>>
        /\ page'.list = Refreshed(page.list, rows)
    BY <1>4 DEF RefreshList, stores, history, OnceInv, Inv, Stored, Pages
  <2>2. \A i \in Ids : /\ page'.list[i] # "none" => page.list[i] # "none" \/ rows[i] # "none"
                       /\ page.list[i] = "held" /\ rows[i] # "pending" => page'.list[i] = "held"
    BY <2>1 DEF Refreshed
  <2>3. \A i \in Ids : (Placed(i)' => Placed(i)) /\ (InDrain(i)' => InDrain(i))
    BY <2>1, <2>2 DEF Placed, InDrain
  <2>. QED
    BY <2>1, <2>2, <2>3, ElsewhereOnce
<1>. QED
  BY <1>1, <1>2, <1>3, <1>4 DEF PageSteps

\* Steps of a press that draw no id.
LEMMA TextsOnce ==
  ASSUME OnceInv, \/ PressShare \/ TextShared \/ TakeTexts \/ StopShare \/ StopUnreadable \/ EndShare
                  \/ \E id \in Ids : SendDraft(id)
  PROVE  Once'
<1> USE NoIdIsNone
<1>1. \A t \in Things : used[t] # 0 => used'[t] # 0
  BY DEF PressShare, TextShared, TakeTexts, StopShare, StopUnreadable, EndShare, SendDraft
<1>2. /\ UNCHANGED <<inbox, rows, legacy, sync, torn>> /\ page'.list = page.list
      /\ share'.id \in {NoId} \cup share.todo
      /\ share'.todo \subseteq share.todo \/ share'.pc = "next"
  BY DEF PressShare, TextShared, TakeTexts, StopShare, StopUnreadable, EndShare, SendDraft, ShareAt,
         NoShare, stores, history, OnceInv, Inv, Stored, Pages
<1>3. CASE PressShare \/ StopShare \/ StopUnreadable \/ EndShare
  <2>1. UNCHANGED <<server, page>> /\ share'.id = NoId /\ share'.pc \in {"idle", "text", "texts"}
    BY <1>3 DEF PressShare, StopShare, StopUnreadable, EndShare, ShareAt, NoShare, stores, history
  <2>2. \A id \in Ids : Out(id)' => Placed(id)
    BY <1>2, <2>1 DEF Out, Placed, InDrain
  <2>3. Given' /\ Single'
    BY <1>1, <1>2, <2>2, OnceKept DEF Out
  <2>4. share.pc \notin {"drop", "claim"}
    BY <1>3 DEF PressShare, StopShare, StopUnreadable, EndShare, Busy, Sent
  <2>5. \A id \in Ids : Thing(id) \in inbox' \ torn' => ~Out(id)'
    BY <1>2, <2>2, <2>4 DEF OnceInv, Once, Apart, Out, OnItsWay, BeingClaimed
  <2>. QED
    BY <2>1, <2>3, <2>5 DEF Once, Awaited, Apart
<1>4. CASE TextShared
  <2>1. /\ share.pc = "textSent" /\ server' = server \cup {share.id}
        /\ share'.id = NoId /\ share'.pc = "texts"
    BY <1>4 DEF TextShared, StoreSent, ShareAt
  <2>2. \A id \in Ids : Out(id)' => Out(id)
    BY <1>2, <2>1 DEF Out, Placed, InDrain
  <2>. QED
    BY <1>1, <1>2, <2>1, <2>2, AsideKept
<1>5. CASE TakeTexts
  <2>1. /\ share.pc = "texts" /\ UNCHANGED <<server, page>>
        /\ share' = [pc |-> "next", todo |-> Visible \cap SharedText, id |-> NoId]
    BY <1>5 DEF TakeTexts, ShareAt
  <2>2. \A id \in Ids : Out(id)' => Out(id)
    BY <1>2, <2>1 DEF Out, Placed, InDrain
  <2>3. Given' /\ Single'
    BY <1>1, <1>2, <2>2, OnceKept
  <2>4. \A id \in Ids : Thing(id) \in inbox' \ torn' => ~Out(id)'
    BY <1>2, <2>1, <2>2, InboxApart
  <2>5. Awaited'
    BY <1>2, <2>1 DEF Awaited, Visible
  <2>. QED
    BY <2>3, <2>4, <2>5 DEF Once, Apart
<1>6. ASSUME NEW id \in Ids, SendDraft(id) PROVE Once'
  <2>1. /\ share.pc = "drafts" /\ id \in share.todo /\ UNCHANGED <<server, page>>
        /\ share' = [pc |-> "draftSent", todo |-> share.todo \ {id}, id |-> id]
    BY <1>6 DEF SendDraft, ShareAt
  <2>2. \A i \in Ids : Out(i)' => Out(i)
    BY <1>2, <2>1 DEF Out, Placed, InDrain
  <2>. QED
    BY <1>1, <1>2, <2>1, <2>2, AsideKept
<1>. QED
  BY <1>3, <1>4, <1>5, <1>6

\* A typed text, and the ids it is sent and queued under.
LEMMA TypedOnce ==
  ASSUME OnceInv, SendText \/ QueueText
  PROVE  Once'
<1> USE NoIdIsNone
<1>1. /\ share.pc \in {"text", "textSent"} /\ page.box \in Typed /\ Spare({page.box})
      /\ used' = Drawn({page.box}) /\ UNCHANGED <<inbox, legacy, sync, torn>>
      /\ share.pc = "textSent" => share.id \in Ids
  BY DEF SendText, QueueText, stores, history, OnceInv, Inv, Pressed, Sent
<1>2. page.box \in Things /\ page.box \notin Shares /\ page.box \notin inbox
  BY <1>1, ComposeQueueAssumption DEF Things, Shares, OnceInv, Inv, Stored
<1>3. PICK new \in Ids : new = NewId(page.box) /\ Thing(new) = page.box
  BY <1>1, <1>2, NewIds DEF Spare, OnceInv, Inv
<1>4. (\A x \in Things : used[x] # 0 => used'[x] # 0) /\ used'[page.box] # 0
  BY <1>1, <1>2, DrawnUsed DEF OnceInv, Inv
<1>5. /\ \A id \in Ids : Out(id)' => Out(id) \/ id = new
      /\ share'.pc \in {"textSent", "texts"}
  <2>1. CASE SendText
    <3>1. /\ UNCHANGED <<rows, legacy, page, sync, server>>
          /\ share' = [pc |-> "textSent", todo |-> {}, id |-> new]
      BY <1>3, <2>1 DEF SendText, ShareAt, stores
    <3>. QED
      BY <3>1 DEF Out, Placed, InDrain
  <2>2. CASE QueueText
    <3>1. /\ share' = [pc |-> "texts", todo |-> {}, id |-> NoId] /\ share.pc = "textSent"
          /\ rows' = Enqueued(new) /\ server' \in {server, server \cup {share.id}}
          /\ page'.list = ListAfterEnqueue(new)
      BY <1>3, <2>2 DEF QueueText, ShareAt, PerhapsSent, StoreSent, OnceInv, Inv, Stored, Pages
    <3>2. \A id \in Ids : /\ rows'[id] # "none" => rows[id] # "none" \/ id = new
                          /\ page'.list[id] # "none" => page.list[id] # "none" \/ rows'[id] # "none"
      BY <3>1, EnqueuedRows DEF ListAfterEnqueue, Refreshed, OnceInv, Inv
    <3>. QED
      BY <1>1, <3>1, <3>2 DEF Out, Placed, InDrain
  <2>. QED
    BY <2>1, <2>2
<1>. QED
  BY <1>1, <1>2, <1>3, <1>4, <1>5, AsideOnce

\* A text from another app.
LEMMA SharesOnce ==
  ASSUME OnceInv, \/ ShareStored \/ QueueShare \/ QueueFails \/ DropShare
                  \/ \E t \in Things : SendShare(t)
  PROVE  Once'
<1> USE NoIdIsNone
<1>1. ASSUME NEW t \in Things, SendShare(t) PROVE Once'
  <2>1. /\ share.pc = "next" /\ t \in share.todo /\ Spare({t}) /\ used' = Drawn({t})
        /\ UNCHANGED <<inbox, rows, legacy, page, sync, server, torn>>
        /\ share' = [pc |-> "sent", todo |-> share.todo \ {t}, id |-> NewId(t)]
    BY <1>1 DEF SendShare, ShareAt, stores
  <2>2. PICK new \in Ids : new = NewId(t) /\ Thing(new) = t
    BY <2>1, NewIds DEF Spare, OnceInv, Inv
  <2>3. (\A x \in Things : used[x] # 0 => used'[x] # 0) /\ used'[t] # 0
    BY <2>1, DrawnUsed DEF OnceInv, Inv
  <2>4. share.todo \subseteq inbox
    BY <2>1 DEF OnceInv, Once, Awaited
  <2>5. t \in Shares \ torn => \A j \in Ids : Out(j) => Thing(j) # t
    BY <2>1, <2>4, InboxApart
  <2>6. \A id \in Ids : /\ Placed(id)' <=> Placed(id)
                        /\ Out(id)' => Out(id) \/ id = new
    BY <2>1, <2>2 DEF Out, Placed, InDrain
  <2>7. Given' /\ Single'
    <3>1. PICK N \in SUBSET Ids : N = {new}
      OBVIOUS
    <3>. QED
      BY <2>1, <2>2, <2>3, <2>5, <2>6, <3>1, OnceIf
  <2>8. Awaited'
    BY <2>1, <2>2, <2>4 DEF Awaited
  <2>9. Apart'
    <3>1. ASSUME NEW id \in Ids, Thing(id) \in inbox' \ torn', Out(id)' PROVE OnItsWay(id)'
      <4>1. id = new
        BY <2>1, <2>6, <3>1, InboxApart
      <4>2. Thing(id) \in Shares \ torn
        BY <2>1, <3>1 DEF OnceInv, Inv, Stored, Shares
      <4>3. ~Placed(id)
        BY <2>2, <2>5, <4>1, <4>2 DEF Out
      <4>. QED
        BY <2>1, <2>2, <2>6, <4>1, <4>3 DEF OnItsWay
    <3>. QED
      BY <3>1 DEF Apart
  <2>. QED
    BY <2>7, <2>8, <2>9 DEF Once
<1>2. CASE ShareStored \/ DropShare
  <2>1. /\ share.pc \in {"sent", "drop"} /\ share.id # NoId /\ server' \in {server, server \cup {share.id}}
        /\ inbox' = inbox \ {Thing(share.id)} /\ UNCHANGED <<rows, legacy, page, sync, used, torn>>
        /\ share' = [pc |-> "next", todo |-> share.todo, id |-> NoId]
    BY <1>2 DEF ShareStored, DropShare, StoreSent, ShareAt, history, OnceInv, Inv, Pressed, Sent
  <2>2. \A id \in Ids : Out(id)' => Out(id)
    BY <2>1 DEF Out, Placed, InDrain
  <2>3. Given' /\ Single'
    BY <2>1, <2>2, OnceKept
  <2>4. Awaited'
    BY <2>1 DEF OnceInv, Once, Awaited
  <2>5. \A id \in Ids : Thing(id) \in inbox' \ torn' => ~Out(id)'
    BY <2>1, <2>2 DEF OnceInv, Once, Apart, OnItsWay, BeingClaimed
  <2>. QED
    BY <2>3, <2>4, <2>5 DEF Once, Apart
<1>3. CASE QueueShare
  <2>1. /\ share.pc = "sent" /\ share.id \in Ids /\ server' \in {server, server \cup {share.id}}
        /\ rows' = Enqueued(share.id) /\ page'.list = ListAfterEnqueue(share.id)
        /\ share' = [pc |-> "drop", todo |-> share.todo, id |-> share.id]
        /\ UNCHANGED <<inbox, legacy, sync, used, torn>>
    BY <1>3 DEF QueueShare, QueueId, PerhapsSent, StoreSent, ShareAt, history, OnceInv, Inv, Pressed,
                Sent, Stored, Pages
  <2>2. \A id \in Ids : /\ rows'[id] # "none" => rows[id] # "none" \/ id = share.id
                        /\ page'.list[id] # "none" => page.list[id] # "none" \/ rows'[id] # "none"
    BY <2>1, EnqueuedRows DEF ListAfterEnqueue, Refreshed, OnceInv, Inv
  <2>3. \A id \in Ids : Out(id)' => Out(id)
    BY <2>1, <2>2 DEF Out, Placed, InDrain
  <2>4. Given' /\ Single'
    BY <2>1, <2>3, OnceKept
  <2>5. Awaited'
    BY <2>1 DEF OnceInv, Once, Awaited
  <2>6. Apart'
    BY <2>1, <2>3 DEF OnceInv, Once, Apart, OnItsWay, BeingClaimed
  <2>. QED
    BY <2>4, <2>5, <2>6 DEF Once
<1>4. CASE QueueFails
  <2>1. /\ share.pc \in {"textSent", "sent"} /\ server' \in {server, server \cup {share.id}}
        /\ share' = NoShare /\ torn' = torn \cup {Thing(share.id)}
        /\ UNCHANGED <<inbox, rows, legacy, page, sync, used>>
    BY <1>4 DEF QueueFails, PerhapsSent, StoreSent, stores
  <2>2. \A id \in Ids : Out(id)' => Out(id)
    BY <2>1 DEF Out, Placed, InDrain, NoShare
  <2>3. Given' /\ Single'
    BY <2>1, <2>2, OnceKept
  <2>4. \A id \in Ids : Thing(id) \in inbox' \ torn' => ~Out(id)'
    BY <2>1, <2>2 DEF OnceInv, Once, Apart, OnItsWay, BeingClaimed
  <2>. QED
    BY <2>1, <2>3, <2>4 DEF Once, Apart, Awaited, NoShare
<1>. QED
  BY <1>1, <1>2, <1>3, <1>4

\* The files from other apps become drafts.
LEMMA ClaimsOnce ==
  ASSUME OnceInv, \/ ClaimFiles \/ TakeDrafts
                  \/ \E id \in Ids : PersistClaim(id) \/ ClaimUnstored(id)
  PROVE  Once'
<1> USE NoIdIsNone
<1>1. CASE ClaimFiles
  <2>1. PICK files \in SUBSET Things : files = Visible \cap SharedFile
    BY ShareKinds
  <2>2. PICK new : new = {NewId(t) : t \in files}
    OBVIOUS
  <2>3. /\ share.pc = "next" /\ Spare(files) /\ used' = Drawn(files) /\ files \subseteq inbox
        /\ UNCHANGED <<inbox, rows, legacy, sync, server, torn>>
        /\ share' = [pc |-> "claim", todo |-> new, id |-> NoId]
        /\ page'.list = [id \in Ids |-> IF id \in new THEN "held" ELSE page.list[id]]
    BY <1>1, <2>1, <2>2 DEF ClaimFiles, ShareAt, Visible, stores, history, OnceInv, Inv, Stored, Pages
  <2>4. \A t \in files : NewId(t) \in Ids /\ Thing(NewId(t)) = t
    BY <2>3, NewIds DEF Spare, OnceInv, Inv
  <2>5. new \in SUBSET Ids /\ \A i \in new : Thing(i) \in files /\ i = NewId(Thing(i))
    BY <2>2, <2>4
  <2>6. (\A x \in Things : used[x] # 0 => used'[x] # 0) /\ \A x \in files : used'[x] # 0
    BY <2>3, DrawnUsed DEF OnceInv, Inv
  <2>7. \A id \in Ids : Out(id)' => Out(id) \/ id \in new
    BY <2>3 DEF Out, Placed, InDrain
  <2>8. \A i \in new : Thing(i) \in Shares \ torn => \A j \in Ids : Out(j) => Thing(j) # Thing(i)
    BY <2>3, <2>5, InboxApart
  <2>9. Given' /\ Single'
    BY <2>3, <2>5, <2>6, <2>7, <2>8, OnceIf
  <2>10. Awaited'
    BY <2>3 DEF Awaited
  <2>11. Apart'
    <3>1. ASSUME NEW id \in Ids, Thing(id) \in inbox' \ torn', Out(id)' PROVE BeingClaimed(id)'
      <4>1. id \in new /\ ~Out(id)
        BY <2>3, <2>7, <3>1, InboxApart
      <4>2. rows[id] = "none" /\ id \notin legacy /\ ~InDrain(id)
        BY <4>1 DEF Out, Placed
      <4>3. ~InDrain(id)'
        BY <2>3, <4>2 DEF InDrain
      <4>. QED
        BY <2>3, <4>1, <4>2, <4>3 DEF BeingClaimed
    <3>. QED
      BY <3>1 DEF Apart
  <2>. QED
    BY <2>9, <2>10, <2>11 DEF Once
<1>2. ASSUME NEW id \in Ids, PersistClaim(id) \/ ClaimUnstored(id) PROVE Once'
  <2>1. /\ share.pc = "claim" /\ id \in share.todo /\ torn \subseteq torn'
        /\ UNCHANGED <<inbox, legacy, page, sync, server, used>>
        /\ share' = [pc |-> "claim", todo |-> share.todo \ {id}, id |-> NoId]
    BY <1>2 DEF PersistClaim, ClaimUnstored, ShareAt, stores, history
  <2>2. \/ rows' = StoredAsDraft(id)
        \/ (rows' = rows /\ Thing(id) \in torn')
    BY <1>2 DEF PersistClaim, ClaimUnstored, stores
  <2>3. \A i \in Ids : rows'[i] = rows[i] \/ (i = id /\ rows'[i] = "draft" /\ page.list[i] # "none")
    BY <2>2 DEF StoredAsDraft, OnceInv, Inv, Stored
  <2>4. \A i \in Ids : (InDrain(i)' => InDrain(i)) /\ (Out(i)' => Out(i))
    BY <2>1, <2>3 DEF Out, Placed, InDrain
  <2>5. Given' /\ Single'
    BY <2>1, <2>4, OnceKept
  <2>6. Awaited'
    BY <2>1 DEF Awaited
  <2>7. Apart'
    <3>1. ASSUME NEW i \in Ids, Thing(i) \in inbox' \ torn', Out(i)' PROVE BeingClaimed(i)'
      <4>1. BeingClaimed(i)
        BY <2>1, <2>4, <3>1 DEF OnceInv, Once, Apart, OnItsWay
      <4>2. rows'[i] = "draft" \/ (rows'[i] = "none" /\ i \in share'.todo)
        BY <2>1, <2>2, <3>1, <4>1 DEF BeingClaimed, StoredAsDraft, OnceInv, Inv, Stored
      <4>. QED
        BY <2>1, <2>4, <4>1, <4>2 DEF BeingClaimed
    <3>. QED
      BY <3>1 DEF Apart
  <2>. QED
    BY <2>5, <2>6, <2>7 DEF Once
<1>3. CASE TakeDrafts
  <2>1. /\ share.pc = "claim" /\ share.todo = {} /\ inbox' = inbox \ Claimed
        /\ UNCHANGED <<rows, legacy, page, sync, server, used, torn>>
        /\ share' = [pc |-> "drafts", todo |-> Drafts, id |-> NoId]
    BY <1>3 DEF TakeDrafts, ShareAt
  <2>2. \A id \in Ids : Out(id)' => Out(id)
    BY <2>1 DEF Out, Placed, InDrain, Drafts
  <2>3. Given' /\ Single'
    BY <2>1, <2>2, OnceKept
  <2>4. \A id \in Ids : Thing(id) \in inbox' \ torn' => ~Out(id)'
    <3>1. ASSUME NEW id \in Ids, Thing(id) \in inbox' \ torn', Out(id)' PROVE FALSE
      <4>1. BeingClaimed(id)
        BY <2>1, <2>2, <3>1 DEF OnceInv, Once, Apart, OnItsWay
      <4>2. Thing(id) \in Claimed
        BY <2>1, <4>1 DEF BeingClaimed, Claimed
      <4>. QED
        BY <2>1, <3>1, <4>2
    <3>. QED
      BY <3>1
  <2>. QED
    BY <2>1, <2>3, <2>4 DEF Once, Awaited, Apart
<1>. QED
  BY <1>1, <1>2, <1>3

\* The answers to the upload of a draft.
LEMMA DraftsOnce ==
  ASSUME OnceInv, DraftStored \/ FlipDraft
  PROVE  Once'
<1>1. /\ share.pc = "draftSent" /\ share'.pc = "drafts" /\ share'.todo = share.todo
      /\ share'.id = NoId /\ share.id \in Ids /\ inbox' \subseteq inbox
      /\ server' \in {server, server \cup {share.id}}
      /\ UNCHANGED <<legacy, sync, used, torn>>
  BY NoIdIsNone DEF DraftStored, FlipDraft, PerhapsSent, StoreSent, ShareAt, history, OnceInv, Inv,
                    Pressed, Sent
<1>2. \A id \in Ids : /\ rows'[id] # "none" => rows[id] # "none" \/ id = share.id
                      /\ page'.list[id] # "none" => page.list[id] # "none" \/ id = share.id
  BY <1>1 DEF DraftStored, FlipDraft, Enqueued, OnceInv, Inv, Stored, Pages
<1>3. \A id \in Ids : Out(id)' => Out(id)
  BY <1>1, <1>2, NoIdIsNone DEF Out, Placed, InDrain
<1>. QED
  BY <1>1, <1>3, AsideKept

\* The drains upload only what is queued, and take only that out of the stores.
LEMMA DrainsOnce ==
  ASSUME OnceInv, SyncSteps
  PROVE  Once'
<1> USE DEF OnceInv, Inv
<1>1. /\ UNCHANGED <<inbox, share, used, torn>> /\ sync \in [Syncers -> Syncs]
      /\ page.list \in [Ids -> {"none", "held", "draft", "pending"}]
  BY DEF SyncSteps, StartForeground, StartBackground, EndForeground, EndBackground, Refused,
         Unanswered, Upload, Uploaded, stores, history, Stored, Pages
<1>2. ASSUME NEW s \in Syncers, NEW e \in Entries, e = sync[s].entry PROVE InDrain(e[2])
  <2>1. e = <<e[1], e[2]>> /\ e[1] \in {"compose", "legacy"}
    BY DEF Entries
  <2>. QED
    BY <1>2, <2>1 DEF InDrain
<1>3. CASE StartForeground \/ StartBackground
  <2>1. UNCHANGED <<rows, legacy, page, server>>
    BY <1>3 DEF StartForeground, StartBackground, stores
  <2>2. PICK s \in Syncers, todo \in SUBSET (InQueue \cup InLegacy) :
          sync' = [sync EXCEPT ![s] = [NoSync EXCEPT !.on = TRUE, !.todo = todo]]
    BY <1>3 DEF StartForeground, StartBackground, Syncers
  <2>3. \A id \in Ids : InDrain(id)' => InDrain(id) \/ rows[id] = "pending" \/ id \in legacy
    BY <1>1, <2>2, NoIdIsNone DEF InDrain, NoSync, InQueue, InLegacy, PendingRows, Entries
  <2>4. \A id \in Ids : Placed(id)' => Placed(id)
    BY <2>1, <2>3 DEF Placed
  <2>. QED
    BY <1>1, <2>1, <2>3, <2>4, ElsewhereOnce
<1>4. CASE EndForeground \/ EndBackground
  <2>1. UNCHANGED <<rows, legacy, server>> /\ page'.list \in {page.list, Refreshed(page.list, rows)}
    BY <1>4 DEF EndForeground, EndBackground, stores, Stored, Pages
  <2>2. PICK s \in Syncers : sync' = [sync EXCEPT ![s] = NoSync]
    BY <1>4 DEF EndForeground, EndBackground, Syncers
  <2>3. \A id \in Ids : InDrain(id)' => InDrain(id)
    BY <1>1, <2>2, NoIdIsNone DEF InDrain, NoSync, Entries
  <2>4. \A i \in Ids : /\ page'.list[i] # "none" => page.list[i] # "none" \/ rows[i] # "none"
                       /\ page.list[i] = "held" /\ rows[i] # "pending" => page'.list[i] = "held"
    BY <2>1 DEF Refreshed
  <2>5. \A id \in Ids : Placed(id)' => Placed(id)
    BY <2>1, <2>3, <2>4 DEF Placed
  <2>. QED
    BY <1>1, <2>1, <2>3, <2>4, <2>5, ElsewhereOnce
<1>5. ASSUME NEW s \in Syncers, Refused(s) \/ Unanswered(s) \/ \E id \in Ids : Uploaded(s, id)
      PROVE  Once'
  <2>1. PICK e \in Entries : e = sync[s].entry
    BY <1>1, <1>5 DEF Refused, Unanswered, Uploaded, Syncs
  <2>2. /\ server' \in {server, server \cup {e[2]}} /\ UNCHANGED page
        /\ sync' = [sync EXCEPT ![s].entry = NoId]
        /\ Dequeue(e) \/ UNCHANGED <<rows, legacy>>
    BY <1>5, <2>1 DEF Refused, Unanswered, Uploaded, stores
  <2>3. /\ \A i \in Ids : rows'[i] = rows[i] \/ (i = e[2] /\ rows'[i] = "none")
        /\ legacy' \subseteq legacy
    BY <2>2, Dequeued
  <2>4. InDrain(e[2])
    BY <1>2, <2>1
  <2>5. \A id \in Ids : InDrain(id)' => InDrain(id)
    BY <1>1, <2>2, NoIdIsNone DEF InDrain, Syncs, Entries
  <2>6. \A id \in Ids : Placed(id)' => Placed(id)
    BY <2>2, <2>3, <2>4, <2>5 DEF Placed
  <2>. QED
    BY <1>1, <2>2, <2>3, <2>4, <2>5, <2>6, ElsewhereOnce
<1>6. ASSUME NEW s \in Syncers, NEW e \in Entries, Upload(s, e) PROVE Once'
  <2>1. /\ e \in sync[s].todo /\ UNCHANGED <<rows, legacy, page, server>>
        /\ sync' = [sync EXCEPT ![s].entry = e, ![s].todo = @ \ {e}]
    BY <1>6 DEF Upload, stores
  <2>2. \A id \in Ids : InDrain(id)' => InDrain(id)
    BY <1>1, <2>1 DEF InDrain, Syncs
  <2>3. \A id \in Ids : Placed(id)' => Placed(id)
    BY <2>1, <2>2 DEF Placed
  <2>. QED
    BY <1>1, <2>1, <2>2, <2>3, ElsewhereOnce
<1>. QED
  BY <1>3, <1>4, <1>5, <1>6 DEF SyncSteps

LEMMA OnceInit == Init => OnceInv
<1> SUFFICES ASSUME Init PROVE Once
  BY InitInv DEF OnceInv
<1>1. \A id \in Ids : Out(id) => id \in legacy
  <2>1. \A id \in Ids, kind \in {"compose", "legacy"} : <<kind, id>> # NoId
    BY NoIdIsNone DEF Entries
  <2>2. \A id \in Ids : ~InDrain(id)
    BY <2>1 DEF Init, InDrain, NoSync
  <2>. QED
    BY <2>2, NoIdIsNone DEF Init, Out, Placed, Empty, ClosedPage, NoShare
<1>2. \A id \in legacy : Thing(id) \in Legacy /\ id = <<Thing(id), 1>>
  BY DEF Init, Thing
<1>3. Given /\ Single
  <2>1. \A id \in Ids : Out(id) => used[Thing(id)] = 1
    BY <1>1, <1>2, IdsOfThings DEF Init
  <2>. QED
    BY <1>1, <1>2, <2>1 DEF Given, Single
<1>. QED
  BY <1>3 DEF Once, Awaited, Apart, Init, NoShare

LEMMA OnceStep == OnceInv /\ [Next]_vars => OnceInv'
<1> SUFFICES ASSUME OnceInv, [Next]_vars PROVE Once'
  BY InvStep DEF OnceInv
<1>1. CASE UNCHANGED vars
  BY <1>1, ElsewhereOnce DEF vars, stores, history, Placed, InDrain
<1>2. CASE ShareSteps
  BY <1>2, TextsOnce, TypedOnce, SharesOnce, ClaimsOnce, DraftsOnce DEF ShareSteps
<1>. QED
  BY <1>1, <1>2, ArrivalsOnce, EntryOnce, PageOnce, DrainsOnce DEF Next

\* A share from another app becomes at most one item, however often its upload is
\* tried, whichever drain makes it and whatever answers are lost, unless the page
\* was closed, or IndexedDB failed, between giving it an id and clearing it from
\* the inbox.
THEOREM SharesArriveOnce == Spec => []SharedOnce
<1>1. OnceInv => SharedOnce
  <2> SUFFICES ASSUME OnceInv, NEW t \in Shares \ torn
               PROVE  Cardinality({id \in server : Thing(id) = t}) <= 1
    BY DEF SharedOnce, Shares
  <2> DEFINE items == {id \in server : Thing(id) = t}
  <2>1. \A i, j \in items : i = j
    BY DEF OnceInv, Inv, Stored, Once, Single, Out, Placed
  <2>2. CASE items = {}
    BY <2>2, FS_EmptySet
  <2>3. ASSUME NEW i \in items PROVE Cardinality(items) = 1
    BY <2>1, <2>3, FS_Singleton
  <2>. QED
    BY <2>2, <2>3
<1>. QED
  BY <1>1, OnceInit, OnceStep, PTL DEF Spec
=============================================================================
