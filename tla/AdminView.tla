----------------------------- MODULE AdminView -----------------------------
(***************************************************************************)
(* The administrator's page <admin-view>: a session with one server, its   *)
(* spaces with a card each, the dialog over them, and the calls under way. *)
(* Nothing is ever cancelled: every answer comes back to the page as it is *)
(* by then, after a logout, a login elsewhere, or with another dialog.     *)
(*                                                                         *)
(* The servers serve a call in one step.  What other administrators and    *)
(* those who join by an invitation do is left out.                         *)
(***************************************************************************)
EXTENDS Naturals, FiniteSets

CONSTANTS
  Sessions,   \* a server's URL with its admin secret
  Spaces, Members, Invites,
  Home,       \* Home[x]: the session's server of a space, the space of all others
  Early,      \* what may be there from the start
  MaxCalls,   \* bound on the calls the administrator makes
  MaxOpened,  \* bound on the dialogs opened
  MaxFaults,  \* bound on calls that fail
  None

ASSUME AdminViewAssumption ==
  /\ Home \in [Spaces \cup Members \cup Invites -> Sessions \cup Spaces]
  /\ \A x \in Spaces : Home[x] \in Sessions
  /\ \A x \in Members \cup Invites : Home[x] \in Spaces
  /\ {MaxCalls, MaxOpened, MaxFaults} \subseteq Nat
  /\ None \notin Sessions \cup Spaces \cup Members \cup Invites

VARIABLES
  started, faults,  \* how much of the bounds is used
  made,          \* server: the spaces
  rows,          \* server: rows[m], "none" before and "removed" after
  pins,          \* server: pins[i], the invitations and whether they can be used
  session,       \* adminServerUrl and adminSecret, or None
  busy,          \* which of isConnecting, isRefreshing, isCreatingSpace are set
  listed,        \* spaces
  cards,         \* spaceCardState
  modal,         \* activeModal
  opened,        \* how many dialogs so far: no two are the same object
  jwt,           \* jwtExchange
  calls,         \* under way, to the server or back
  clean          \* no list has been asked for while it was changed (see ListsCurrent)

server == <<made, rows, pins>>
page == <<session, busy, listed, cards, modal, opened, jwt>>
vars == <<started, faults, server, page, calls, clean>>

In(S, s) == {x \in S : Home[x] = s}
Open(s) == {i \in In(Invites, s) : pins[i] = "open"}

\* What a list of the members of s says.
Shown == {"none", "active", "revoked"}
Listing(s) == [m \in Members |->
                 IF m \in In(Members, s) /\ rows[m] \in Shown THEN rows[m] ELSE "none"]

\* createSpaceCardState
Blank ==
  [members |-> [m \in Members |-> "none"], membersError |-> FALSE, loadingMembers |-> FALSE,
   invitations |-> {}, invitationsError |-> FALSE, loadingInvitations |-> FALSE,
   generating |-> FALSE, generated |-> None, pending |-> {}]

NoJwt == [token |-> None, exchanging |-> FALSE]
NoModal == [type |-> "none", space |-> None, nr |-> 0]
IsOpen(type, s) == modal.type = type /\ modal.space = s

-----------------------------------------------------------------------------
(***************************************************************************)
(* Calls.                                                                  *)
(***************************************************************************)
MemberChanges == {"revoke", "unrevoke", "remove"}
Changes == MemberChanges \cup {"delete"}
Lists == {"login", "refresh", "load"}

\* nr tells it apart; a load has that of the call it follows.
Call(nr, kind, of, s, x) ==
  [nr |-> nr, kind |-> kind, of |-> of, space |-> s, what |-> x,
   modal |-> IF kind \in {"generate", "exchange"} THEN modal ELSE NoModal,
   pc |-> "sent", data |-> None]

\* loadSpaceCollections as far as its calls: x is "all", or "invitations" alone.
Loading(card, x) ==
  [card EXCEPT !.loadingMembers = @ \/ x = "all",
               !.membersError = @ /\ x # "all",
               !.loadingInvitations = TRUE, !.invitationsError = FALSE]

\* A list and a change under way at once.
Clean(new, rest) ==
  \A c \in rest, d \in new : (c.kind \in Lists) = (d.kind \in Lists)

\* What the administrator starts.
Start(c) ==
  /\ started < MaxCalls /\ started' = started + 1
  /\ calls' = calls \cup {c}
  /\ clean' = IF c.kind \in {"login", "refresh"} /\ calls = {} THEN TRUE
              ELSE clean /\ Clean({c}, calls)
  /\ UNCHANGED <<faults, server>>

\* The answer is on its way; or it is lost, and the call has had its effect.
Reply(c, data) ==
  \/ /\ calls' = (calls \ {c}) \cup {[c EXCEPT !.pc = "ok", !.data = data]}
     /\ UNCHANGED <<faults, clean>>
  \/ /\ faults < MaxFaults /\ faults' = faults + 1
     /\ calls' = (calls \ {c}) \cup {[c EXCEPT !.pc = "error"]}
     /\ clean' = (clean /\ c.kind \in Changes \cup {"load"})

\* One of the two lists of a load fails, and the other comes.
ReplyHalf(c, data) ==
  /\ faults < MaxFaults /\ faults' = faults + 1
  /\ calls' = (calls \ {c}) \cup {[c EXCEPT !.pc = "ok", !.data = data]}
  /\ UNCHANGED clean

ServeList(c) ==
  /\ c.kind \in Lists
  /\ LET lists == [members |-> Listing(c.space), invitations |-> Open(c.space)]
     IN \/ c.kind = "load" /\ Reply(c, lists)
        \/ /\ c.kind = "load" /\ c.what = "all"
           /\ \E part \in {"members", "invitations"} :
                ReplyHalf(c, [lists EXCEPT ![part] = None])
        \/ c.kind # "load" /\ Reply(c, In(Spaces, c.of) \cap made)
  /\ UNCHANGED server

\* The object a call makes is one of those there are not yet (a bound).
ServeSpace(c) ==
  /\ c.kind = "create"
  /\ \E s \in In(Spaces, c.of) \ made : made' = made \cup {s} /\ Reply(c, s)
  /\ UNCHANGED <<rows, pins>>

ServeInvitation(c) ==
  /\ c.kind = "generate"
  /\ \E i \in In(Invites, c.space) :
       pins[i] = "none" /\ pins' = [pins EXCEPT ![i] = "open"] /\ Reply(c, i)
  /\ UNCHANGED <<made, rows>>

ServeExchange(c) ==
  /\ c.kind = "exchange" /\ pins[c.what] = "open"
  /\ pins' = [pins EXCEPT ![c.what] = "used"]
  /\ \E m \in In(Members, c.space) :
       rows[m] = "none" /\ rows' = [rows EXCEPT ![m] = "active"] /\ Reply(c, m)
  /\ UNCHANGED made

\* What a change leaves of a member's row, or of an invitation.
ServeChange(c) ==
  \/ /\ c.kind \in MemberChanges /\ rows[c.what] \in {"active", "revoked"}
     /\ c.kind = "remove" => rows[c.what] = "revoked"
     /\ rows' = [rows EXCEPT ![c.what] = CASE c.kind = "revoke" -> "revoked"
                                           [] c.kind = "unrevoke" -> "active"
                                           [] c.kind = "remove" -> "removed"]
     /\ Reply(c, None) /\ UNCHANGED <<made, pins>>
  \/ /\ c.kind = "delete" /\ pins[c.what] = "open"
     /\ pins' = [pins EXCEPT ![c.what] = "used"]
     /\ Reply(c, None) /\ UNCHANGED <<made, rows>>

\* The call fails, or the secret is refused; or there is nothing it could change.
Refuse(c) ==
  /\ \/ /\ faults < MaxFaults /\ faults' = faults + 1
        /\ \E pc \in {"error", "401"} :
             calls' = (calls \ {c}) \cup {[c EXCEPT !.pc = pc]}
     \/ /\ \/ c.kind \in MemberChanges /\ rows[c.what] \notin {"active", "revoked"}
           \/ c.kind = "remove" /\ rows[c.what] = "active"
           \/ c.kind \in {"delete", "exchange"} /\ pins[c.what] # "open"
        /\ calls' = (calls \ {c}) \cup {[c EXCEPT !.pc = "error"]}
        /\ UNCHANGED faults
  /\ clean' = (clean /\ c.kind \notin {"login", "refresh"})
  /\ UNCHANGED server

Serve ==
  /\ \E c \in calls :
       /\ c.pc = "sent"
       /\ \/ ServeList(c) \/ ServeSpace(c) \/ ServeInvitation(c) \/ ServeExchange(c)
          \/ ServeChange(c) \/ Refuse(c)
  /\ UNCHANGED <<started, page>>

-----------------------------------------------------------------------------
(***************************************************************************)
(* The session and the dialog.                                             *)
(***************************************************************************)
\* Mutant: no check after the await.
AnySession(c) == TRUE

\* isCurrentSession, for whatever session it was: one with the same server and
\* secret is the same.
Current(c) == session = c.of

\* clearModal: with the dialog go what it shows of secrets.
ClearedCards == [s \in Spaces |-> IF IsOpen("invite", s) THEN [cards[s] EXCEPT !.generated = None]
                                  ELSE cards[s]]

\* Mutant: the cards stay.
LeaveCards == UNCHANGED cards

ResetCards == cards' = [s \in Spaces |-> Blank]

\* handleLogout
Forget ==
  /\ session' = None /\ modal' = NoModal /\ jwt' = NoJwt
  /\ listed' = {} /\ ResetCards

Logout ==
  /\ session # None
  /\ Forget
  /\ UNCHANGED <<started, faults, server, busy, opened, calls, clean>>

\* handleSecretSubmit
Submit(x) ==
  /\ session = None /\ "login" \notin busy
  /\ busy' = busy \cup {"login"}
  /\ Start(Call(started + 1, "login", x, None, None))
  /\ UNCHANGED <<session, listed, cards, modal, opened, jwt>>

\* handleRefresh
Refresh ==
  /\ session # None /\ "refresh" \notin busy
  /\ busy' = busy \cup {"refresh"}
  /\ Start(Call(started + 1, "refresh", session, None, None))
  /\ UNCHANGED <<session, listed, cards, modal, opened, jwt>>

\* handleCreateSpace
CreateSpace ==
  /\ session # None /\ "create" \notin busy
  /\ In(Spaces, session) \ made # {}
  /\ busy' = busy \cup {"create"}
  /\ Start(Call(started + 1, "create", session, None, None))
  /\ UNCHANGED <<session, listed, cards, modal, opened, jwt>>

OpenModal(type, s) ==
  /\ session # None /\ s \in listed /\ ~jwt.exchanging
  /\ opened < MaxOpened
  /\ modal' = [type |-> type, space |-> s, nr |-> opened + 1] /\ opened' = opened + 1
  /\ cards' = [ClearedCards EXCEPT ![s].generated = IF type = "invite" THEN None ELSE @]
  /\ jwt' = NoJwt
  /\ UNCHANGED <<started, faults, server, session, busy, listed, calls, clean>>

CloseModal ==
  /\ modal # NoModal /\ ~jwt.exchanging
  /\ modal' = NoModal /\ cards' = ClearedCards /\ jwt' = NoJwt
  /\ UNCHANGED <<started, faults, server, session, busy, listed, opened, calls, clean>>

\* What the dialog lists, with a button for each that has no change pending.
Pends(card, kinds, x) == \E k \in kinds : <<k, x>> \in card.pending

MembersOffered(kind, s) ==
  LET card == cards[s]
  IN {m \in In(Members, s) :
       /\ IsOpen("members", s) /\ ~card.loadingMembers /\ ~card.membersError
       /\ IF kind = "revoke"
            THEN card.members[m] = "active" /\ ~Pends(card, {"revoke"}, m)
            ELSE card.members[m] = "revoked" /\ ~Pends(card, {"unrevoke", "remove"}, m)}

InvitationsOffered(s) ==
  LET card == cards[s]
  IN {i \in card.invitations :
       /\ IsOpen("invitations", s) /\ ~card.loadingInvitations /\ ~card.invitationsError
       /\ ~Pends(card, {"delete"}, i)}

InviteOffered(s) ==
  IsOpen("invite", s) /\ ~jwt.exchanging /\ jwt.token = None /\ ~cards[s].generating

\* handleRevokeMember, handleUnrevokeMember, handleRemoveMember
ChangeMember(kind, s, m) ==
  /\ s \in listed /\ m \in MembersOffered(kind, s)
  /\ cards' = [cards EXCEPT ![s].pending = @ \cup {<<kind, m>>}, ![s].membersError = FALSE]
  /\ Start(Call(started + 1, kind, session, s, m))
  /\ UNCHANGED <<session, busy, listed, modal, opened, jwt>>

\* handleDeleteInvitation
DeleteInvitation(s, i) ==
  /\ s \in listed /\ i \in InvitationsOffered(s)
  /\ cards' = [cards EXCEPT ![s].pending = @ \cup {<<"delete", i>>},
                            ![s].invitationsError = FALSE]
  /\ Start(Call(started + 1, "delete", session, s, i))
  /\ UNCHANGED <<session, busy, listed, modal, opened, jwt>>

\* handleGenerateInvitation
Generate(s) ==
  /\ s \in listed /\ InviteOffered(s)
  /\ \E i \in In(Invites, s) : pins[i] = "none"
  /\ cards' = [cards EXCEPT ![s].generating = TRUE]
  /\ Start(Call(started + 1, "generate", session, s, None))
  /\ UNCHANGED <<session, busy, listed, modal, opened, jwt>>

\* handleExchangeInvitation
Exchange(s) ==
  /\ s \in listed /\ InviteOffered(s)
  /\ cards[s].generated # None /\ \E m \in In(Members, s) : rows[m] = "none"
  /\ jwt' = [jwt EXCEPT !.exchanging = TRUE]
  /\ Start(Call(started + 1, "exchange", session, s, cards[s].generated))
  /\ UNCHANGED <<session, busy, listed, cards, modal, opened>>

-----------------------------------------------------------------------------
(***************************************************************************)
(* Answers.                                                                *)
(***************************************************************************)
\* The call is done, and loads the cards of S anew.
Done(c, S, x) ==
  LET rest == calls \ {c}
      loads == {Call(c.nr, "load", c.of, s, x) : s \in S}
  IN calls' = rest \cup loads /\ clean' = (clean /\ Clean(loads, rest))

DoneFor(c) == Done(c, {}, "all")

Late(c) == DoneFor(c) /\ UNCHANGED <<session, listed, cards, modal, jwt>>

\* handleUnauthorized: but for loads, whatever session the refused secret was of.
Unauthorized(c) ==
  /\ c.pc = "401" /\ c.kind \notin {"login", "exchange"}
  /\ IF c.kind = "load" /\ ~Current(c) THEN Late(c) ELSE DoneFor(c) /\ Forget
  /\ busy' = busy \ {c.kind}

\* setSpaces, the cards of spaces that stay being kept, and the loads of S.
SetSpaces(spaces, S) ==
  /\ listed' = spaces
  /\ cards' = [s \in Spaces |-> IF s \in S THEN Loading(cards[s], "all")
                                ELSE IF s \in spaces THEN cards[s] ELSE Blank]

LoggedIn(c) ==
  /\ c.kind = "login" /\ busy' = busy \ {"login"}
  /\ IF c.pc = "ok"
       THEN /\ session' = c.of
            /\ SetSpaces(c.data, c.data)
            /\ Done(c, c.data, "all")
       ELSE /\ session' = None /\ listed' = {} /\ ResetCards
            /\ DoneFor(c)
  /\ UNCHANGED <<modal, jwt>>

\* A list replaces the spaces.
Refreshed(c) ==
  /\ c.kind = "refresh" /\ c.pc # "401"
  /\ busy' = busy \ {"refresh"}
  /\ IF Current(c) /\ c.pc = "ok"
       THEN SetSpaces(c.data, c.data) /\ Done(c, c.data, "all")
       ELSE DoneFor(c) /\ UNCHANGED <<listed, cards>>
  /\ UNCHANGED <<session, modal, jwt>>

\* A new space is put before those there are by now.
SpaceCreated(c) ==
  /\ c.kind = "create" /\ c.pc # "401"
  /\ busy' = busy \ {"create"}
  /\ IF Current(c) /\ c.pc = "ok"
       THEN SetSpaces(listed \cup {c.data}, {c.data}) /\ Done(c, {c.data}, "all")
       ELSE DoneFor(c) /\ UNCHANGED <<listed, cards>>
  /\ UNCHANGED <<session, modal, jwt>>

\* The end of loadSpaceCollections.
LoadedCard(card, c) ==
  LET all == c.what = "all"
      membersOk == c.pc = "ok" /\ c.data.members # None
      invitationsOk == c.pc = "ok" /\ c.data.invitations # None
  IN [card EXCEPT !.loadingMembers = @ /\ ~all,
                  !.members = IF all /\ membersOk THEN c.data.members ELSE @,
                  !.membersError = IF all THEN ~membersOk ELSE @,
                  !.loadingInvitations = FALSE,
                  !.invitations = IF invitationsOk THEN c.data.invitations ELSE @,
                  !.invitationsError = ~invitationsOk]

\* The change is made in the list as it is by now.
ChangedCard(card, c) ==
  LET ok == c.pc = "ok"
      row == CASE c.kind = "revoke" -> "revoked" [] c.kind = "unrevoke" -> "active"
               [] c.kind = "remove" -> "none"
  IN [card EXCEPT !.pending = @ \ {<<c.kind, c.what>>},
                  !.members[c.what] = IF ok /\ @ # "none" THEN row ELSE @,
                  !.membersError = @ \/ ~ok]

DeletedCard(card, c) ==
  [card EXCEPT !.pending = @ \ {<<c.kind, c.what>>},
               !.invitations = IF c.pc = "ok" THEN @ \ {c.what} ELSE @,
               !.invitationsError = @ \/ c.pc # "ok"]

\* An answer for the card it was asked for from, if the session is still that.
Settled(c, card) ==
  /\ c.pc # "401"
  /\ cards' = IF Current(c) THEN [cards EXCEPT ![c.space] = card] ELSE cards
  /\ DoneFor(c)
  /\ UNCHANGED <<session, listed, modal, jwt, busy>>

Loaded(c) == c.kind = "load" /\ Settled(c, LoadedCard(cards[c.space], c))
MemberChanged(c) == c.kind \in MemberChanges /\ Settled(c, ChangedCard(cards[c.space], c))
InvitationDeleted(c) == c.kind = "delete" /\ Settled(c, DeletedCard(cards[c.space], c))

\* Mutant: whatever dialog is open.
AnyDialog(c) == TRUE

SameDialog(c) == modal = c.modal

\* The invitation is shown in the dialog it was asked for in.
Generated(c) ==
  /\ c.kind = "generate" /\ c.pc # "401"
  /\ UNCHANGED <<session, listed, modal, jwt, busy>>
  /\ IF ~Current(c) THEN DoneFor(c) /\ UNCHANGED cards
     ELSE /\ IF c.pc = "ok" THEN Done(c, {c.space}, "invitations") ELSE DoneFor(c)
          /\ LET card == [cards[c.space] EXCEPT
                   !.generating = FALSE,
                   !.generated = IF SameDialog(c) /\ c.pc = "ok" THEN c.data ELSE @]
             IN cards' = [cards EXCEPT ![c.space] =
                  IF c.pc = "ok" THEN Loading(card, "invitations") ELSE card]

\* Mutant: the PIN in the token's place.
PinOf(c) == c.what

TokenOf(c) == c.data

\* So is the token, and the invitation is gone with it.
Exchanged(c) ==
  /\ c.kind = "exchange"
  /\ UNCHANGED <<session, listed, modal, busy>>
  /\ IF ~SameDialog(c) \/ ~jwt.exchanging \/ ~Current(c)
       THEN DoneFor(c) /\ UNCHANGED <<cards, jwt>>
     ELSE IF c.pc = "ok"
       THEN /\ jwt' = [token |-> TokenOf(c), exchanging |-> FALSE]
            /\ cards' = [cards EXCEPT ![c.space] = Loading([@ EXCEPT !.generated = None], "all")]
            /\ Done(c, {c.space}, "all")
       ELSE /\ jwt' = [jwt EXCEPT !.exchanging = FALSE]
            /\ DoneFor(c) /\ UNCHANGED cards

Answer ==
  /\ \E c \in calls :
       /\ c.pc # "sent"
       /\ \/ Unauthorized(c) \/ LoggedIn(c) \/ Refreshed(c) \/ SpaceCreated(c)
          \/ Loaded(c) \/ MemberChanged(c) \/ InvitationDeleted(c)
          \/ Generated(c) \/ Exchanged(c)
  /\ UNCHANGED <<started, faults, server, opened>>

-----------------------------------------------------------------------------
Init ==
  /\ started = 0 /\ faults = 0
  /\ made = Spaces \cap Early
  /\ rows \in [Members -> {"none", "active"}] /\ \A m \in Members \ Early : rows[m] = "none"
  /\ pins \in [Invites -> {"none", "open"}] /\ \A i \in Invites \ Early : pins[i] = "none"
  /\ session = None /\ busy = {} /\ listed = {}
  /\ cards = [s \in Spaces |-> Blank]
  /\ modal = NoModal /\ opened = 0 /\ jwt = NoJwt
  /\ calls = {} /\ clean = TRUE

Administrator ==
  \/ \E x \in Sessions : Submit(x)
  \/ Logout \/ Refresh \/ CreateSpace \/ CloseModal
  \/ \E s \in Spaces :
       \/ \E type \in {"members", "invitations", "invite"} : OpenModal(type, s)
       \/ \E kind \in MemberChanges, m \in Members : ChangeMember(kind, s, m)
       \/ \E i \in Invites : DeleteInvitation(s, i)
       \/ Generate(s) \/ Exchange(s)

Next == Administrator \/ Serve \/ Answer

Spec == Init /\ [][Next]_vars

-----------------------------------------------------------------------------
Cards ==
  [members : [Members -> Shown], membersError : BOOLEAN, loadingMembers : BOOLEAN,
   invitations : SUBSET Invites, invitationsError : BOOLEAN, loadingInvitations : BOOLEAN,
   generating : BOOLEAN, generated : Invites \cup {None},
   pending : SUBSET (Changes \X (Members \cup Invites))]

Modals ==
  [type : {"none", "members", "invitations", "invite"}, space : Spaces \cup {None},
   nr : 0..MaxOpened]

TypeOK ==
  /\ started \in 0..MaxCalls /\ faults \in 0..MaxFaults /\ opened \in 0..MaxOpened
  /\ made \subseteq Spaces /\ listed \subseteq Spaces
  /\ rows \in [Members -> Shown \cup {"removed"}]
  /\ pins \in [Invites -> {"none", "open", "used"}]
  /\ session \in Sessions \cup {None} /\ busy \subseteq {"login", "refresh", "create"}
  /\ cards \in [Spaces -> Cards]
  /\ modal \in Modals
  /\ jwt \in [token : Members \cup {None}, exchanging : BOOLEAN]

\* Once everything has come back, the page shows what its server has, or an error
\* in its place: provided no list was asked for while it was being changed, and no
\* answer to a creation lost, since the lists were last loaded (the pages are
\* brought up to date by hand after every change).
ListsCurrent ==
  clean /\ calls = {} /\ session # None =>
    /\ listed = In(Spaces, session) \cap made
    /\ \A s \in listed :
         /\ cards[s].membersError \/ cards[s].members = Listing(s)
         /\ cards[s].invitationsError \/ cards[s].invitations = Open(s)

\* Whatever waits for an answer has a call that will bring it: no button is disabled,
\* and no list loading, for ever. Logouts, refusals and logins come in between
\* (the early returns of isCurrentSession, which leave the flags alone).
Under(kind, s, x) == \E c \in calls : c.kind = kind /\ c.space = s /\ c.what = x

FlagsHaveCalls ==
  /\ \A kind \in busy : Under(kind, None, None)
  /\ jwt.exchanging => \E c \in calls : c.kind = "exchange" /\ c.modal = modal
  /\ \A s \in Spaces :
       /\ cards[s].generating => Under("generate", s, None)
       /\ cards[s].loadingMembers => Under("load", s, "all")
       /\ cards[s].loadingInvitations => \E c \in calls : c.kind = "load" /\ c.space = s
       /\ \A p \in cards[s].pending : Under(p[1], s, p[2])

\* An invitation and a token made of it are shown only in the dialog they were made
\* in, for its space, to the session that made them (clearModal, the checks after the
\* awaits of handleGenerateInvitation and handleExchangeInvitation).
SecretsInTheirDialog ==
  /\ \A s \in Spaces : cards[s].generated # None =>
       IsOpen("invite", s) /\ session = Home[s] /\ Home[cards[s].generated] = s
  /\ jwt.token # None => IsOpen("invite", Home[jwt.token])
=============================================================================
