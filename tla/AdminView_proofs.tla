------------------------- MODULE AdminView_proofs -------------------------
(***************************************************************************)
(* Theorems about AdminView, for any servers, spaces, members and          *)
(* invitations, and however many calls are made, fail and come late.       *)
(***************************************************************************)
EXTENDS AdminView, TLAPS

\* What an answer brings is of the call's space and server.
AnswerOK(c) ==
  /\ c.kind \in {"login", "refresh"} => c.data \subseteq In(Spaces, c.of)
  /\ c.kind = "create" => c.data \in In(Spaces, c.of)
  /\ c.kind = "load" => /\ c.data.members \in [Members -> Shown] \cup {None}
                        /\ c.data.invitations \in (SUBSET Invites) \cup {None}
  /\ c.kind = "generate" => c.data \in In(Invites, c.space)
  /\ c.kind = "exchange" => c.data \in In(Members, c.space)

ForServer == {"login", "refresh", "create"}
InDialog == {"generate", "exchange"}

CallOK(c) ==
  /\ c = [nr |-> c.nr, kind |-> c.kind, of |-> c.of, space |-> c.space, what |-> c.what,
          modal |-> c.modal, pc |-> c.pc, data |-> c.data]
  /\ c.of \in Sessions
  /\ IF c.kind \in ForServer THEN c.space = None /\ c.what = None
     ELSE c.space \in Spaces /\ Home[c.space] = c.of
  /\ c.kind \in InDialog => c.modal.type = "invite" /\ c.modal.space = c.space
  /\ c.kind = "generate" => c.what = None
  /\ c.kind \in MemberChanges => c.what \in Members
  /\ c.kind \in {"delete", "exchange"} => c.what \in Invites
  /\ c.kind = "load" => c.what \in {"all", "invitations"}
  /\ c.pc = "ok" => AnswerOK(c)

\* A login is the only one, and there is no session while it is under way.
Logins ==
  /\ \A c \in calls : c.kind = "login" => session = None /\ "login" \in busy
  /\ \A c, d \in calls : c.kind = "login" /\ d.kind = "login" => c = d

Quiet(card) ==
  /\ ~card.generating /\ ~card.loadingMembers /\ ~card.loadingInvitations
  /\ card.pending = {} /\ card.generated = None

\* The page shows, and waits for, nothing that is of another server than the session's.
OfSession ==
  /\ listed \subseteq In(Spaces, session)
  /\ modal # NoModal => modal.space \in Spaces /\ Home[modal.space] = session
  /\ \A s \in Spaces : Home[s] # session => Quiet(cards[s])

CallsOK == \A c \in calls : CallOK(c)

Inv == TypeOK /\ CallsOK /\ Logins /\ OfSession /\ FlagsHaveCalls /\ SecretsInTheirDialog

-----------------------------------------------------------------------------
(***************************************************************************)
(* Cards and calls.                                                        *)
(***************************************************************************)
LEMMA BlankCard == Blank \in Cards /\ Quiet(Blank)
BY DEF Blank, Cards, Quiet, Shown

LEMMA InitInv == Init => Inv
<1> SUFFICES ASSUME Init PROVE Inv
  OBVIOUS
<1> USE AdminViewAssumption
<1>1. TypeOK
  <2>1. cards \in [Spaces -> Cards] /\ modal \in Modals
    BY BlankCard DEF Init, NoModal, Modals
  <2>2. jwt \in [token : Members \cup {None}, exchanging : BOOLEAN]
    BY DEF Init, NoJwt
  <2>3. rows \in [Members -> Shown \cup {"removed"}] /\ pins \in [Invites -> {"none", "open", "used"}]
    BY DEF Init, Shown
  <2>. QED
    BY <2>1, <2>2, <2>3 DEF Init, TypeOK
<1>2. CallsOK /\ Logins /\ OfSession
  BY BlankCard DEF Init, CallsOK, Logins, OfSession
<1>3. FlagsHaveCalls /\ SecretsInTheirDialog
  BY BlankCard DEF Init, FlagsHaveCalls, SecretsInTheirDialog, NoJwt, Quiet
<1>. QED
  BY <1>1, <1>2, <1>3 DEF Inv

LEMMA LoadingCard ==
  ASSUME NEW card \in Cards, NEW x \in {"all", "invitations"}
  PROVE  /\ Loading(card, x) \in Cards
         /\ Loading(card, x).generated = card.generated
         /\ Loading(card, x).generating = card.generating
         /\ Loading(card, x).pending = card.pending
         /\ Loading(card, x).loadingMembers => card.loadingMembers \/ x = "all"
BY DEF Loading, Cards

\* A call keeps what it is about while it is answered.
SameCall(c, d) ==
  /\ d.kind = c.kind /\ d.of = c.of /\ d.space = c.space /\ d.what = c.what
  /\ d.modal = c.modal

With(c, pc, data) == [c EXCEPT !.pc = pc, !.data = data]

LEMMA AnsweredCall ==
  ASSUME NEW c, CallOK(c), NEW pc, NEW data, NEW d, d = With(c, pc, data)
  PROVE  /\ SameCall(c, d) /\ d.data = data /\ d.pc = pc
         /\ d = [nr |-> d.nr, kind |-> d.kind, of |-> d.of, space |-> d.space,
                 what |-> d.what, modal |-> d.modal, pc |-> d.pc, data |-> d.data]
<1>1. c = [nr |-> c.nr, kind |-> c.kind, of |-> c.of, space |-> c.space, what |-> c.what,
           modal |-> c.modal, pc |-> c.pc, data |-> c.data]
  BY DEF CallOK
<1>2. d = [nr |-> c.nr, kind |-> c.kind, of |-> c.of, space |-> c.space, what |-> c.what,
           modal |-> c.modal, pc |-> pc, data |-> data]
  <2> DEFINE e == [c EXCEPT !.pc = pc]
  <2>1. e = [nr |-> c.nr, kind |-> c.kind, of |-> c.of, space |-> c.space, what |-> c.what,
             modal |-> c.modal, pc |-> pc, data |-> c.data]
    BY <1>1
  <2>2. d = [e EXCEPT !.data = data]
    BY <1>1 DEF With
  <2>. HIDE DEF e
  <2>3. [e EXCEPT !.data = data]
          = [nr |-> c.nr, kind |-> c.kind, of |-> c.of, space |-> c.space, what |-> c.what,
             modal |-> c.modal, pc |-> pc, data |-> data]
    BY <2>1
  <2>. QED
    BY <2>2, <2>3
<1>3. /\ d.nr = c.nr /\ d.kind = c.kind /\ d.of = c.of /\ d.space = c.space /\ d.what = c.what
      /\ d.modal = c.modal /\ d.pc = pc /\ d.data = data
  BY <1>2
<1>4. SameCall(c, d)
  BY <1>3 DEF SameCall
<1>5. d = [nr |-> d.nr, kind |-> d.kind, of |-> d.of, space |-> d.space, what |-> d.what,
           modal |-> d.modal, pc |-> d.pc, data |-> d.data]
  BY <1>2, <1>3
<1>. QED
  BY <1>3, <1>4, <1>5

LEMMA FailedCall ==
  ASSUME NEW c, CallOK(c), NEW pc, NEW d, d = [c EXCEPT !.pc = pc]
  PROVE  /\ SameCall(c, d) /\ d.pc = pc
         /\ d = [nr |-> d.nr, kind |-> d.kind, of |-> d.of, space |-> d.space,
                 what |-> d.what, modal |-> d.modal, pc |-> d.pc, data |-> d.data]
BY DEF CallOK, SameCall

-----------------------------------------------------------------------------
(***************************************************************************)
(* The servers.                                                            *)
(***************************************************************************)
LEMMA ServedInv ==
  ASSUME Inv, NEW c \in calls, NEW d, CallOK(d), SameCall(c, d),
         calls' = (calls \ {c}) \cup {d}, UNCHANGED <<started, page>>,
         faults' \in 0..MaxFaults, made' \subseteq Spaces,
         rows' \in [Members -> Shown \cup {"removed"}],
         pins' \in [Invites -> {"none", "open", "used"}]
  PROVE  Inv'
<1>1. UNCHANGED <<started, session, busy, listed, cards, modal, opened, jwt>>
  BY DEF page
<1>2. TypeOK'
  BY <1>1 DEF Inv, TypeOK
<1>3. CallsOK'
  BY DEF Inv, CallsOK, CallOK, AnswerOK
<1>4. Logins'
  BY <1>1 DEF Inv, Logins, SameCall
<1>5. OfSession'
  BY <1>1 DEF Inv, OfSession
<1>6. \A e \in calls : \E f \in calls' : SameCall(e, f)
  BY DEF SameCall
<1>7. ASSUME NEW kind, NEW s, NEW x, Under(kind, s, x) PROVE Under(kind, s, x)'
  BY <1>6, <1>7 DEF Under, SameCall
<1>8. FlagsHaveCalls'
  <2>1. \A kind \in busy' : Under(kind, None, None)'
    BY <1>1, <1>7 DEF Inv, FlagsHaveCalls
  <2>2. jwt'.exchanging => \E e \in calls' : e.kind = "exchange" /\ e.modal = modal'
    BY <1>1, <1>6 DEF Inv, FlagsHaveCalls, SameCall
  <2>3. ASSUME NEW s \in Spaces
        PROVE  /\ cards'[s].generating => Under("generate", s, None)'
               /\ cards'[s].loadingMembers => Under("load", s, "all")'
               /\ cards'[s].loadingInvitations => \E e \in calls' : e.kind = "load" /\ e.space = s
               /\ \A p \in cards'[s].pending : Under(p[1], s, p[2])'
    BY <1>1, <1>6, <1>7 DEF Inv, FlagsHaveCalls, SameCall
  <2>. QED
    BY <2>1, <2>2, <2>3 DEF FlagsHaveCalls
<1>9. SecretsInTheirDialog'
  BY <1>1 DEF Inv, SecretsInTheirDialog, IsOpen
<1>. QED
  BY <1>2, <1>3, <1>4, <1>5, <1>8, <1>9 DEF Inv

\* What becomes of a call that is served.
LEMMA ReplyInv ==
  ASSUME Inv, NEW c \in calls, NEW data, Reply(c, data) \/ ReplyHalf(c, data),
         \A d : SameCall(c, d) /\ d.data = data => AnswerOK(d),
         UNCHANGED <<started, page>>, made' \subseteq Spaces,
         rows' \in [Members -> Shown \cup {"removed"}],
         pins' \in [Invites -> {"none", "open", "used"}]
  PROVE  Inv'
<1>1. CallOK(c)
  BY DEF Inv, CallsOK
<1>2. CASE /\ calls' = (calls \ {c}) \cup {[c EXCEPT !.pc = "ok", !.data = data]}
           /\ faults' = faults \/ (faults < MaxFaults /\ faults' = faults + 1)
  <2>0. PICK d : d = With(c, "ok", data)
    OBVIOUS
  <2>1. /\ SameCall(c, d) /\ d.data = data
        /\ d = [nr |-> d.nr, kind |-> d.kind, of |-> d.of, space |-> d.space,
                what |-> d.what, modal |-> d.modal, pc |-> d.pc, data |-> d.data]
    BY <1>1, <2>0, AnsweredCall
  <2>2. calls' = (calls \ {c}) \cup {d}
    BY <1>2, <2>0 DEF With
  <2>3. CallOK(d)
    BY <1>1, <2>1 DEF CallOK, SameCall
  <2>4. faults' \in 0..MaxFaults
    BY <1>2, AdminViewAssumption DEF Inv, TypeOK
  <2>. QED
    BY <2>1, <2>2, <2>3, <2>4, ServedInv
<1>3. CASE /\ calls' = (calls \ {c}) \cup {[c EXCEPT !.pc = "error"]}
           /\ faults < MaxFaults /\ faults' = faults + 1
  <2> DEFINE d == [c EXCEPT !.pc = "error"]
  <2>1. /\ SameCall(c, d) /\ d.pc = "error"
        /\ d = [nr |-> d.nr, kind |-> d.kind, of |-> d.of, space |-> d.space,
                what |-> d.what, modal |-> d.modal, pc |-> d.pc, data |-> d.data]
    BY <1>1, FailedCall
  <2>2. calls' = (calls \ {c}) \cup {d}
    BY <1>3
  <2>. HIDE DEF d
  <2>3. CallOK(d)
    BY <1>1, <2>1 DEF CallOK, SameCall
  <2>4. faults' \in 0..MaxFaults
    BY <1>3, AdminViewAssumption DEF Inv, TypeOK
  <2>. QED
    BY <2>1, <2>2, <2>3, <2>4, ServedInv
<1>. QED
  BY <1>2, <1>3 DEF Reply, ReplyHalf

LEMMA RefuseInv ==
  ASSUME Inv, NEW c \in calls, Refuse(c), UNCHANGED <<started, page>>
  PROVE  Inv'
<1>1. CallOK(c)
  BY DEF Inv, CallsOK
<1>2. PICK pc \in {"error", "401"} : calls' = (calls \ {c}) \cup {[c EXCEPT !.pc = pc]}
  BY DEF Refuse
<1> DEFINE d == [c EXCEPT !.pc = pc]
<1>3. /\ SameCall(c, d) /\ d.pc = pc
      /\ d = [nr |-> d.nr, kind |-> d.kind, of |-> d.of, space |-> d.space,
              what |-> d.what, modal |-> d.modal, pc |-> d.pc, data |-> d.data]
  BY <1>1, FailedCall
<1>4. calls' = (calls \ {c}) \cup {d}
  BY <1>2
<1>. HIDE DEF d
<1>5. CallOK(d)
  BY <1>1, <1>3 DEF CallOK, SameCall
<1>6. faults' \in 0..MaxFaults
  BY AdminViewAssumption DEF Refuse, Inv, TypeOK
<1>7. /\ made' \subseteq Spaces /\ rows' \in [Members -> Shown \cup {"removed"}]
      /\ pins' \in [Invites -> {"none", "open", "used"}]
  BY DEF Refuse, server, Inv, TypeOK
<1>. QED
  BY <1>3, <1>4, <1>5, <1>6, <1>7, ServedInv

LEMMA ServeInv ==
  ASSUME Inv, Serve
  PROVE  Inv'
<1>1. PICK c \in calls :
        \/ ServeList(c) \/ ServeSpace(c) \/ ServeInvitation(c) \/ ServeExchange(c)
        \/ ServeChange(c) \/ Refuse(c)
  BY DEF Serve
<1>2. UNCHANGED <<started, page>>
  BY DEF Serve
<1>3. /\ made \subseteq Spaces /\ rows \in [Members -> Shown \cup {"removed"}]
      /\ pins \in [Invites -> {"none", "open", "used"}]
  BY DEF Inv, TypeOK
<1>4. CASE ServeList(c)
  <2> DEFINE lists == [members |-> Listing(c.space), invitations |-> Open(c.space)]
  <2>1. Listing(c.space) \in [Members -> Shown] /\ Open(c.space) \subseteq Invites
    BY DEF Listing, Shown, Open, In
  <2>2. UNCHANGED <<made, rows, pins>>
    BY <1>4 DEF ServeList, server
  <2>3. PICK data : /\ Reply(c, data) \/ ReplyHalf(c, data)
                    /\ \/ /\ c.kind = "load"
                          /\ \/ data = lists
                             \/ \E part \in {"members", "invitations"} :
                                  data = [lists EXCEPT ![part] = None]
                       \/ c.kind \in {"login", "refresh"} /\ data = In(Spaces, c.of) \cap made
    <3>1. CASE c.kind = "load" /\ Reply(c, lists)
      BY <3>1
    <3>2. CASE /\ c.kind = "load"
               /\ \E part \in {"members", "invitations"} :
                    ReplyHalf(c, [lists EXCEPT ![part] = None])
      BY <3>2
    <3>3. CASE c.kind # "load" /\ Reply(c, In(Spaces, c.of) \cap made)
      BY <1>4, <3>3 DEF ServeList, Lists
    <3>. QED
      BY <1>4, <3>1, <3>2, <3>3 DEF ServeList
  <2>4. c.kind = "load" => /\ data.members \in [Members -> Shown] \cup {None}
                           /\ data.invitations \in (SUBSET Invites) \cup {None}
    BY <2>1, <2>3
  <2>5. \A d : SameCall(c, d) /\ d.data = data => AnswerOK(d)
    <3>1. c.kind # "load" => c.kind \in {"login", "refresh"} /\ data \subseteq In(Spaces, c.of)
      BY <2>3
    <3>. QED
      BY <2>4, <2>3, <3>1 DEF SameCall, AnswerOK
  <2>. QED
    BY <1>2, <1>3, <2>2, <2>3, <2>5, ReplyInv
<1>5. CASE ServeSpace(c)
  <2>1. PICK s \in In(Spaces, c.of) \ made : made' = made \cup {s} /\ Reply(c, s)
    BY <1>5 DEF ServeSpace
  <2>2. \A d : SameCall(c, d) /\ d.data = s => AnswerOK(d)
    BY <1>5, <2>1 DEF ServeSpace, SameCall, AnswerOK
  <2>3. made' \subseteq Spaces /\ UNCHANGED <<rows, pins>>
    BY <1>3, <1>5, <2>1 DEF ServeSpace, In
  <2>. QED
    BY <1>2, <1>3, <2>1, <2>2, <2>3, ReplyInv
<1>6. CASE ServeInvitation(c)
  <2>1. PICK i \in In(Invites, c.space) : pins' = [pins EXCEPT ![i] = "open"] /\ Reply(c, i)
    BY <1>6 DEF ServeInvitation
  <2>2. \A d : SameCall(c, d) /\ d.data = i => AnswerOK(d)
    BY <1>6, <2>1 DEF ServeInvitation, SameCall, AnswerOK
  <2>3. pins' \in [Invites -> {"none", "open", "used"}] /\ UNCHANGED <<made, rows>>
    BY <1>3, <1>6, <2>1 DEF ServeInvitation
  <2>. QED
    BY <1>2, <1>3, <2>1, <2>2, <2>3, ReplyInv
<1>7. CASE ServeExchange(c)
  <2>1. PICK m \in In(Members, c.space) : rows' = [rows EXCEPT ![m] = "active"] /\ Reply(c, m)
    BY <1>7 DEF ServeExchange
  <2>2. \A d : SameCall(c, d) /\ d.data = m => AnswerOK(d)
    BY <1>7, <2>1 DEF ServeExchange, SameCall, AnswerOK
  <2>3. /\ pins' \in [Invites -> {"none", "open", "used"}] /\ UNCHANGED made
        /\ rows' \in [Members -> Shown \cup {"removed"}]
    BY <1>3, <1>7, <2>1 DEF ServeExchange, Shown
  <2>. QED
    BY <1>2, <1>3, <2>1, <2>2, <2>3, ReplyInv
<1>8. CASE ServeChange(c)
  <2>1. \A d : SameCall(c, d) /\ d.data = None => AnswerOK(d)
    BY <1>8 DEF ServeChange, MemberChanges, SameCall, AnswerOK
  <2>2. Reply(c, None) /\ made' = made
    BY <1>8 DEF ServeChange
  <2>3. /\ pins' \in [Invites -> {"none", "open", "used"}]
        /\ rows' \in [Members -> Shown \cup {"removed"}]
    BY <1>3, <1>8 DEF ServeChange, MemberChanges, Shown
  <2>. QED
    BY <1>2, <1>3, <2>1, <2>2, <2>3, ReplyInv
<1>9. CASE Refuse(c)
  BY <1>2, <1>9, RefuseInv
<1>. QED
  BY <1>1, <1>4, <1>5, <1>6, <1>7, <1>8, <1>9

-----------------------------------------------------------------------------
(***************************************************************************)
(* The administrator.                                                      *)
(***************************************************************************)
LEMMA NewCall ==
  ASSUME NEW nr, NEW kind, NEW of \in Sessions, NEW s, NEW x, NEW c,
         c = Call(nr, kind, of, s, x),
         IF kind \in ForServer THEN s = None /\ x = None ELSE s \in Spaces /\ Home[s] = of,
         kind \in InDialog => IsOpen("invite", s),
         kind = "generate" => x = None,
         kind \in MemberChanges => x \in Members,
         kind \in {"delete", "exchange"} => x \in Invites,
         kind = "load" => x \in {"all", "invitations"}
  PROVE  /\ CallOK(c) /\ c.kind = kind /\ c.space = s /\ c.what = x /\ c.of = of
         /\ kind \in InDialog => c.modal = modal
BY DEF Call, CallOK, IsOpen, InDialog

\* What waits for its answer in a card.
Answered(s) ==
  /\ cards[s].generating => Under("generate", s, None)
  /\ cards[s].loadingMembers => Under("load", s, "all")
  /\ cards[s].loadingInvitations => \E c \in calls : c.kind = "load" /\ c.space = s
  /\ \A p \in cards[s].pending : Under(p[1], s, p[2])

LEMMA FlagsByCard ==
  FlagsHaveCalls <=>
    /\ \A kind \in busy : Under(kind, None, None)
    /\ jwt.exchanging => \E c \in calls : c.kind = "exchange" /\ c.modal = modal
    /\ \A s \in Spaces : Answered(s)
BY DEF FlagsHaveCalls, Answered

LEMMA HomesOfSpaces == \A s \in Spaces : Home[s] \in Sessions /\ Home[s] # None /\ s # None
BY AdminViewAssumption

\* Logins, refreshes and creations.
LEMMA AskInv ==
  ASSUME Inv, NEW kind \in ForServer, NEW of \in Sessions,
         kind = "login" => session = None /\ "login" \notin busy,
         Start(Call(started + 1, kind, of, None, None)), busy' = busy \cup {kind},
         UNCHANGED <<session, listed, cards, modal, opened, jwt>>
  PROVE  Inv'
<1> DEFINE c == Call(started + 1, kind, of, None, None)
<1>1. CallOK(c) /\ c.kind = kind /\ c.space = None /\ c.what = None
  BY NewCall DEF ForServer, InDialog, MemberChanges
<1>2. /\ calls' = calls \cup {c} /\ started < MaxCalls /\ started' = started + 1
      /\ UNCHANGED <<faults, made, rows, pins>>
  BY DEF Start, server
<1>. HIDE DEF c
<1>3. TypeOK'
  BY <1>2, AdminViewAssumption DEF Inv, TypeOK, ForServer
<1>4. CallsOK'
  BY <1>1, <1>2 DEF Inv, CallsOK, CallOK, AnswerOK
<1>5. Logins' /\ OfSession'
  BY <1>1, <1>2 DEF Inv, Logins, OfSession
<1>6. FlagsHaveCalls'
  BY <1>1, <1>2 DEF Inv, FlagsHaveCalls, Under
<1>7. SecretsInTheirDialog'
  BY DEF Inv, SecretsInTheirDialog, IsOpen
<1>. QED
  BY <1>3, <1>4, <1>5, <1>6, <1>7 DEF Inv

\* What is done in a dialog.
LEMMA BeginInv ==
  ASSUME Inv, NEW kind \in Changes \cup InDialog, NEW s \in listed, NEW x,
         Start(Call(started + 1, kind, session, s, x)),
         kind \in InDialog => IsOpen("invite", s),
         kind = "generate" => x = None,
         kind \in MemberChanges => x \in Members,
         kind \in {"delete", "exchange"} => x \in Invites,
         UNCHANGED <<session, busy, listed, modal, opened>>,
         jwt' \in [token : Members \cup {None}, exchanging : BOOLEAN],
         jwt'.token = jwt.token,
         jwt'.exchanging => jwt.exchanging \/ kind = "exchange",
         cards' \in [Spaces -> Cards],
         \A t \in Spaces : t # s => cards'[t] = cards[t],
         cards'[s].generated = cards[s].generated,
         cards'[s].loadingMembers = cards[s].loadingMembers,
         cards'[s].loadingInvitations = cards[s].loadingInvitations,
         cards'[s].generating => cards[s].generating \/ kind = "generate",
         cards'[s].pending \subseteq cards[s].pending \cup {<<kind, x>>}
  PROVE  Inv'
<1> DEFINE c == Call(started + 1, kind, session, s, x)
<1>1. s \in Spaces /\ Home[s] = session /\ session \in Sessions
  BY HomesOfSpaces DEF Inv, OfSession, In
<1>2. kind \notin ForServer /\ kind # "load" /\ kind # "login"
  BY DEF Changes, MemberChanges, InDialog, ForServer
<1>3. /\ CallOK(c) /\ c.kind = kind /\ c.space = s /\ c.what = x
      /\ kind \in InDialog => c.modal = modal
  BY <1>1, <1>2, NewCall
<1>4. /\ calls' = calls \cup {c} /\ started < MaxCalls /\ started' = started + 1
      /\ UNCHANGED <<faults, made, rows, pins>>
  BY DEF Start, server
<1>. HIDE DEF c
<1>5. TypeOK'
  BY <1>4, AdminViewAssumption DEF Inv, TypeOK
<1>6. CallsOK'
  BY <1>3, <1>4 DEF Inv, CallsOK, CallOK, AnswerOK
<1>7. Logins' /\ OfSession'
  BY <1>1, <1>2, <1>3, <1>4 DEF Inv, Logins, OfSession
<1>8. FlagsHaveCalls'
  <2>1. \A k, t, z : Under(k, t, z) => Under(k, t, z)'
    BY <1>4 DEF Under
  <2>2. Under(kind, s, x)'
    BY <1>3, <1>4 DEF Under
  <2>3. \A k \in busy' : Under(k, None, None)'
    BY <2>1 DEF Inv, FlagsHaveCalls
  <2>4. jwt'.exchanging => \E d \in calls' : d.kind = "exchange" /\ d.modal = modal'
    BY <1>3, <1>4 DEF Inv, FlagsHaveCalls, InDialog
  <2>5. ASSUME NEW t \in Spaces, t # s PROVE Answered(t)'
    BY <1>4, <2>1, <2>5, FlagsByCard DEF Inv, Answered
  <2>6. Answered(s)'
    <3>1. Answered(s)
      BY <1>1, FlagsByCard DEF Inv
    <3>2. ASSUME NEW p \in cards'[s].pending PROVE Under(p[1], s, p[2])'
      BY <2>1, <2>2, <3>1 DEF Answered
    <3>3. cards'[s].generating => Under("generate", s, None)'
      BY <2>1, <2>2, <3>1 DEF Answered
    <3>. QED
      BY <1>4, <2>1, <3>1, <3>2, <3>3 DEF Answered
  <2>. QED
    BY <2>3, <2>4, <2>5, <2>6 DEF FlagsHaveCalls, Answered
<1>9. SecretsInTheirDialog'
  BY DEF Inv, SecretsInTheirDialog, IsOpen
<1>. QED
  BY <1>5, <1>6, <1>7, <1>8, <1>9 DEF Inv

\* Cards as the actions of a dialog change them.
LEMMA PendingCards ==
  ASSUME Inv, NEW s \in Spaces, NEW kind \in Changes, NEW x \in Members \cup Invites,
         \/ cards' = [cards EXCEPT ![s].pending = @ \cup {<<kind, x>>}, ![s].membersError = FALSE]
         \/ cards' = [cards EXCEPT ![s].pending = @ \cup {<<kind, x>>}, ![s].invitationsError = FALSE]
  PROVE  /\ cards' \in [Spaces -> Cards]
         /\ \A t \in Spaces : t # s => cards'[t] = cards[t]
         /\ cards'[s].generated = cards[s].generated
         /\ cards'[s].generating = cards[s].generating
         /\ cards'[s].loadingMembers = cards[s].loadingMembers
         /\ cards'[s].loadingInvitations = cards[s].loadingInvitations
         /\ cards'[s].pending = cards[s].pending \cup {<<kind, x>>}
<1>1. cards \in [Spaces -> Cards] /\ cards[s] \in Cards
  BY DEF Inv, TypeOK
<1> DEFINE all == cards[s].pending \cup {<<kind, x>>}
<1> DEFINE more == [cards[s] EXCEPT !.pending = all]
<1>2. all \in SUBSET (Changes \X (Members \cup Invites))
  BY <1>1 DEF Cards
<1>. HIDE DEF all
<1>3. /\ more \in Cards /\ more.pending = all
      /\ more.generated = cards[s].generated /\ more.generating = cards[s].generating
      /\ more.loadingMembers = cards[s].loadingMembers
      /\ more.loadingInvitations = cards[s].loadingInvitations
  BY <1>1, <1>2 DEF Cards
<1>4. \/ cards' = [cards EXCEPT ![s] = [more EXCEPT !.membersError = FALSE]]
      \/ cards' = [cards EXCEPT ![s] = [more EXCEPT !.invitationsError = FALSE]]
  BY <1>1 DEF all
<1>. HIDE DEF more
<1>5. PICK card : /\ card \in {[more EXCEPT !.membersError = FALSE],
                               [more EXCEPT !.invitationsError = FALSE]}
                  /\ cards' = [cards EXCEPT ![s] = card]
  BY <1>4
<1>6. /\ card \in Cards /\ card.pending = more.pending
      /\ card.generated = more.generated /\ card.generating = more.generating
      /\ card.loadingMembers = more.loadingMembers
      /\ card.loadingInvitations = more.loadingInvitations
  BY <1>3, <1>5 DEF Cards
<1>. QED
  BY <1>1, <1>3, <1>5, <1>6 DEF all

LEMMA GeneratingCards ==
  ASSUME Inv, NEW s \in Spaces, cards' = [cards EXCEPT ![s].generating = TRUE]
  PROVE  /\ cards' \in [Spaces -> Cards]
         /\ \A t \in Spaces : t # s => cards'[t] = cards[t]
         /\ cards'[s].generated = cards[s].generated
         /\ cards'[s].loadingMembers = cards[s].loadingMembers
         /\ cards'[s].loadingInvitations = cards[s].loadingInvitations
         /\ cards'[s].pending = cards[s].pending
<1>1. cards \in [Spaces -> Cards] /\ cards[s] \in Cards
  BY DEF Inv, TypeOK
<1> DEFINE card == [cards[s] EXCEPT !.generating = TRUE]
<1>2. /\ card \in Cards /\ card.generated = cards[s].generated
      /\ card.loadingMembers = cards[s].loadingMembers
      /\ card.loadingInvitations = cards[s].loadingInvitations
      /\ card.pending = cards[s].pending
  BY <1>1 DEF Cards
<1>3. cards' = [cards EXCEPT ![s] = card]
  BY <1>1
<1>. HIDE DEF card
<1>. QED
  BY <1>1, <1>2, <1>3

LEMMA BeginsInv ==
  ASSUME Inv, NEW s \in Spaces,
         \/ \E kind \in MemberChanges, m \in Members : ChangeMember(kind, s, m)
         \/ \E i \in Invites : DeleteInvitation(s, i)
         \/ Generate(s) \/ Exchange(s)
  PROVE  Inv'
<1>0. jwt \in [token : Members \cup {None}, exchanging : BOOLEAN]
  BY DEF Inv, TypeOK
<1>1. ASSUME NEW kind \in MemberChanges, NEW m \in Members, ChangeMember(kind, s, m)
      PROVE  Inv'
  <2>1. kind \in Changes /\ kind \notin {"generate", "exchange", "delete"}
    BY DEF Changes, MemberChanges
  <2>2. s \in listed /\ Start(Call(started + 1, kind, session, s, m))
        /\ UNCHANGED <<session, busy, listed, modal, opened, jwt>>
    BY <1>1 DEF ChangeMember
  <2>3. cards' = [cards EXCEPT ![s].pending = @ \cup {<<kind, m>>}, ![s].membersError = FALSE]
    BY <1>1 DEF ChangeMember
  <2>4. /\ cards' \in [Spaces -> Cards]
        /\ \A t \in Spaces : t # s => cards'[t] = cards[t]
        /\ cards'[s].generated = cards[s].generated
        /\ cards'[s].generating = cards[s].generating
        /\ cards'[s].loadingMembers = cards[s].loadingMembers
        /\ cards'[s].loadingInvitations = cards[s].loadingInvitations
        /\ cards'[s].pending = cards[s].pending \cup {<<kind, m>>}
    BY <2>1, <2>3, PendingCards
  <2>. QED
    BY <1>0, <2>1, <2>2, <2>4, BeginInv DEF InDialog
<1>2. ASSUME NEW i \in Invites, DeleteInvitation(s, i) PROVE Inv'
  <2>1. "delete" \in Changes /\ "delete" \notin MemberChanges
    BY DEF Changes, MemberChanges
  <2>2. s \in listed /\ Start(Call(started + 1, "delete", session, s, i))
        /\ UNCHANGED <<session, busy, listed, modal, opened, jwt>>
    BY <1>2 DEF DeleteInvitation
  <2>3. cards' = [cards EXCEPT ![s].pending = @ \cup {<<"delete", i>>},
                               ![s].invitationsError = FALSE]
    BY <1>2 DEF DeleteInvitation
  <2>4. /\ cards' \in [Spaces -> Cards]
        /\ \A t \in Spaces : t # s => cards'[t] = cards[t]
        /\ cards'[s].generated = cards[s].generated
        /\ cards'[s].generating = cards[s].generating
        /\ cards'[s].loadingMembers = cards[s].loadingMembers
        /\ cards'[s].loadingInvitations = cards[s].loadingInvitations
        /\ cards'[s].pending = cards[s].pending \cup {<<"delete", i>>}
    BY <2>1, <2>3, PendingCards
  <2>. QED
    BY <1>0, <2>1, <2>2, <2>4, BeginInv DEF InDialog
<1>3. CASE Generate(s)
  <2>1. "generate" \in InDialog /\ "generate" \notin MemberChanges
    BY DEF InDialog, MemberChanges
  <2>2. s \in listed /\ Start(Call(started + 1, "generate", session, s, None))
        /\ UNCHANGED <<session, busy, listed, modal, opened, jwt>> /\ IsOpen("invite", s)
    BY <1>3 DEF Generate, InviteOffered
  <2>3. cards' = [cards EXCEPT ![s].generating = TRUE]
    BY <1>3 DEF Generate
  <2>4. /\ cards' \in [Spaces -> Cards]
        /\ \A t \in Spaces : t # s => cards'[t] = cards[t]
        /\ cards'[s].generated = cards[s].generated
        /\ cards'[s].loadingMembers = cards[s].loadingMembers
        /\ cards'[s].loadingInvitations = cards[s].loadingInvitations
        /\ cards'[s].pending = cards[s].pending
    BY <2>3, GeneratingCards
  <2>. QED
    BY <1>0, <2>1, <2>2, <2>4, BeginInv
<1>4. CASE Exchange(s)
  <2>1. "exchange" \in InDialog /\ "exchange" \notin MemberChanges
    BY DEF InDialog, MemberChanges
  <2>2. /\ s \in listed /\ Start(Call(started + 1, "exchange", session, s, cards[s].generated))
        /\ UNCHANGED <<session, busy, listed, cards, modal, opened>> /\ IsOpen("invite", s)
        /\ jwt' = [jwt EXCEPT !.exchanging = TRUE] /\ cards[s].generated # None
    BY <1>4 DEF Exchange, InviteOffered
  <2>3. cards \in [Spaces -> Cards] /\ cards[s].generated \in Invites
    BY <2>2 DEF Inv, TypeOK, Cards
  <2>4. jwt' \in [token : Members \cup {None}, exchanging : BOOLEAN] /\ jwt'.token = jwt.token
    BY <1>0, <2>2
  <2>. QED
    BY <2>1, <2>2, <2>3, <2>4, BeginInv
<1>. QED
  BY <1>1, <1>2, <1>3, <1>4

\* A logout, wherever it comes from.
LEMMA ForgetInv ==
  ASSUME Inv, Forget, UNCHANGED <<started, faults, server, opened>>,
         calls' \subseteq calls, busy' \subseteq busy,
         \A kind \in busy' : Under(kind, None, None)',
         \A c \in calls' : c.kind = "login" => "login" \in busy'
  PROVE  Inv'
<1>1. /\ session' = None /\ modal' = NoModal /\ jwt' = NoJwt /\ listed' = {}
      /\ cards' = [s \in Spaces |-> Blank]
  BY DEF Forget, ResetCards
<1>2. cards' \in [Spaces -> Cards] /\ \A s \in Spaces : Quiet(cards'[s])
  BY <1>1, BlankCard
<1>3. /\ modal' \in Modals /\ jwt' \in [token : Members \cup {None}, exchanging : BOOLEAN]
      /\ ~jwt'.exchanging /\ jwt'.token = None
  BY <1>1, AdminViewAssumption DEF NoModal, Modals, NoJwt
<1>4. TypeOK'
  BY <1>1, <1>2, <1>3 DEF server, Inv, TypeOK
<1>5. CallsOK' /\ Logins' /\ OfSession'
  BY <1>1, <1>2 DEF Inv, CallsOK, CallOK, AnswerOK, Logins, OfSession
<1>6. FlagsHaveCalls' /\ SecretsInTheirDialog'
  BY <1>2, <1>3 DEF FlagsHaveCalls, SecretsInTheirDialog, Quiet
<1>. QED
  BY <1>4, <1>5, <1>6 DEF Inv

\* With the dialog goes its invitation.
LEMMA NoneShown ==
  ASSUME Inv
  PROVE  /\ ClearedCards \in [Spaces -> Cards]
         /\ \A s \in Spaces :
              /\ ClearedCards[s].generated = None
              /\ ClearedCards[s].generating = cards[s].generating
              /\ ClearedCards[s].loadingMembers = cards[s].loadingMembers
              /\ ClearedCards[s].loadingInvitations = cards[s].loadingInvitations
              /\ ClearedCards[s].pending = cards[s].pending
<1>1. ASSUME NEW s \in Spaces
      PROVE  /\ ClearedCards[s] \in Cards /\ ClearedCards[s].generated = None
             /\ ClearedCards[s].generating = cards[s].generating
             /\ ClearedCards[s].loadingMembers = cards[s].loadingMembers
             /\ ClearedCards[s].loadingInvitations = cards[s].loadingInvitations
             /\ ClearedCards[s].pending = cards[s].pending
  <2>1. cards[s] \in Cards
    BY DEF Inv, TypeOK
  <2>2. ~IsOpen("invite", s) => cards[s].generated = None
    BY DEF Inv, SecretsInTheirDialog
  <2>. QED
    BY <2>1, <2>2 DEF ClearedCards, Cards
<1>. QED
  BY <1>1 DEF ClearedCards

LEMMA DialogInv ==
  ASSUME Inv,
         \/ CloseModal
         \/ \E s \in Spaces, type \in {"members", "invitations", "invite"} : OpenModal(type, s)
  PROVE  Inv'
<1>1. /\ UNCHANGED <<started, faults, made, rows, pins, session, busy, listed, calls>>
      /\ jwt' = NoJwt /\ ~jwt.exchanging
  BY DEF CloseModal, OpenModal, server
<1>2. /\ opened' \in 0..MaxOpened /\ modal' \in Modals
      /\ modal' # NoModal => modal'.space \in Spaces /\ Home[modal'.space] = session
  <2>1. CASE CloseModal
    BY <2>1, AdminViewAssumption DEF CloseModal, NoModal, Modals, Inv, TypeOK
  <2>2. CASE ~CloseModal
    <3>0. PICK s \in Spaces, type \in {"members", "invitations", "invite"} : OpenModal(type, s)
      BY <2>2
    <3>1. /\ opened \in 0..MaxOpened /\ opened < MaxOpened /\ opened' = opened + 1
          /\ modal' = [type |-> type, space |-> s, nr |-> opened + 1] /\ s \in listed
      BY <3>0 DEF OpenModal, Inv, TypeOK
    <3>2. opened' \in 0..MaxOpened
      BY <3>1, AdminViewAssumption
    <3>3. modal' \in Modals
      BY <3>1, <3>2 DEF Modals
    <3>4. Home[s] = session
      BY <3>1 DEF Inv, OfSession, In
    <3>. QED
      BY <3>1, <3>2, <3>3, <3>4
  <2>. QED
    BY <2>1, <2>2
<1>3. /\ cards' \in [Spaces -> Cards]
      /\ \A s \in Spaces :
           /\ cards'[s].generated = None
           /\ cards'[s].generating = cards[s].generating
           /\ cards'[s].loadingMembers = cards[s].loadingMembers
           /\ cards'[s].loadingInvitations = cards[s].loadingInvitations
           /\ cards'[s].pending = cards[s].pending
  <2>1. CASE CloseModal
    BY <2>1, NoneShown DEF CloseModal
  <2>2. CASE ~CloseModal
    <3>0. PICK s \in Spaces, type \in {"members", "invitations", "invite"} : OpenModal(type, s)
      BY <2>2
    <3> DEFINE card == [ClearedCards[s] EXCEPT !.generated = None]
    <3>1. cards' = [ClearedCards EXCEPT ![s] = card]
      BY <3>0, NoneShown DEF OpenModal, Cards
    <3>2. /\ card \in Cards /\ card.generated = None
          /\ card.generating = cards[s].generating
          /\ card.loadingMembers = cards[s].loadingMembers
          /\ card.loadingInvitations = cards[s].loadingInvitations
          /\ card.pending = cards[s].pending
      BY NoneShown DEF Cards
    <3>. HIDE DEF card
    <3>. QED
      BY <3>1, <3>2, NoneShown
  <2>. QED
    BY <2>1, <2>2
<1>4. /\ jwt' \in [token : Members \cup {None}, exchanging : BOOLEAN]
      /\ ~jwt'.exchanging /\ jwt'.token = None
  BY <1>1 DEF NoJwt
<1>5. TypeOK'
  BY <1>1, <1>2, <1>3, <1>4 DEF Inv, TypeOK
<1>6. CallsOK' /\ Logins'
  BY <1>1 DEF Inv, CallsOK, CallOK, AnswerOK, Logins
<1>7. OfSession'
  BY <1>1, <1>2, <1>3 DEF Inv, OfSession, Quiet
<1>8. FlagsHaveCalls' /\ SecretsInTheirDialog'
  BY <1>1, <1>3, <1>4 DEF Inv, FlagsHaveCalls, Under, SecretsInTheirDialog
<1>. QED
  BY <1>5, <1>6, <1>7, <1>8 DEF Inv

LEMMA AdministratorInv ==
  ASSUME Inv, Administrator
  PROVE  Inv'
<1>1. ASSUME NEW x \in Sessions, Submit(x) PROVE Inv'
  <2>1. /\ Start(Call(started + 1, "login", x, None, None)) /\ busy' = busy \cup {"login"}
        /\ session = None /\ "login" \notin busy
        /\ UNCHANGED <<session, listed, cards, modal, opened, jwt>>
    BY <1>1 DEF Submit
  <2>. QED
    BY <2>1, AskInv DEF ForServer
<1>2. CASE Logout
  <2>1. /\ Forget /\ UNCHANGED <<started, faults, server, busy, opened, calls>>
    BY <1>2 DEF Logout
  <2>2. \A kind \in busy' : Under(kind, None, None)'
    BY <2>1 DEF Inv, FlagsHaveCalls, Under
  <2>. QED
    BY <2>1, <2>2, ForgetInv DEF Inv, Logins
<1>3. CASE Refresh
  <2>1. /\ Start(Call(started + 1, "refresh", session, None, None))
        /\ busy' = busy \cup {"refresh"} /\ session \in Sessions
        /\ UNCHANGED <<session, listed, cards, modal, opened, jwt>>
    BY <1>3 DEF Refresh, Inv, TypeOK
  <2>. QED
    BY <2>1, AskInv DEF ForServer
<1>4. CASE CreateSpace
  <2>1. /\ Start(Call(started + 1, "create", session, None, None))
        /\ busy' = busy \cup {"create"} /\ session \in Sessions
        /\ UNCHANGED <<session, listed, cards, modal, opened, jwt>>
    BY <1>4 DEF CreateSpace, Inv, TypeOK
  <2>. QED
    BY <2>1, AskInv DEF ForServer
<1>. QED
  BY <1>1, <1>2, <1>3, <1>4, DialogInv, BeginsInv DEF Administrator

-----------------------------------------------------------------------------
(***************************************************************************)
(* Answers.                                                                *)
(***************************************************************************)
\* What calls there are after one is done.
LEMMA DoneCalls ==
  ASSUME Inv, NEW c \in calls, NEW S \in SUBSET Spaces, NEW x \in {"all", "invitations"},
         Done(c, S, x), \A s \in S : Home[s] = c.of
  PROVE  /\ CallsOK' /\ calls \ {c} \subseteq calls'
         /\ \A e \in calls' : e \in calls \ {c} \/ e.kind = "load"
         /\ \A s \in S : Under("load", s, x)'
<1> DEFINE load(s) == Call(c.nr, "load", c.of, s, x)
<1>1. calls' = (calls \ {c}) \cup {load(s) : s \in S}
  BY DEF Done
<1>2. ASSUME NEW s \in S
      PROVE  CallOK(load(s)) /\ load(s).kind = "load" /\ load(s).space = s /\ load(s).what = x
  <2>1. c.of \in Sessions
    BY DEF Inv, CallsOK, CallOK
  <2>2. /\ "load" \notin ForServer /\ "load" \notin InDialog /\ "load" \notin MemberChanges
        /\ "load" \notin {"delete", "exchange", "generate"}
    BY DEF ForServer, InDialog, MemberChanges
  <2>. QED
    BY <2>1, <2>2, NewCall
<1>. HIDE DEF load
<1>3. \A e \in calls' : CallOK(e)
  BY <1>1, <1>2 DEF Inv, CallsOK
<1>4. CallsOK'
  BY <1>3 DEF CallsOK, CallOK, AnswerOK
<1>. QED
  BY <1>1, <1>2, <1>4 DEF Under

\* What waits in a card is not what is answered, or has been asked for anew.
Settles(c, S, x, s) ==
  /\ cards'[s].generating => cards[s].generating /\ ~(c.kind = "generate" /\ c.space = s)
  /\ cards'[s].loadingMembers =>
       \/ cards[s].loadingMembers /\ ~(c.kind = "load" /\ c.space = s /\ c.what = "all")
       \/ s \in S /\ x = "all"
  /\ cards'[s].loadingInvitations =>
       \/ cards[s].loadingInvitations /\ ~(c.kind = "load" /\ c.space = s)
       \/ s \in S
  /\ \A p \in cards'[s].pending :
       p \in cards[s].pending /\ (c.space = s => p # <<c.kind, c.what>>)

LEMMA SettlesAnswered ==
  ASSUME Inv, NEW c \in calls, NEW S \in SUBSET Spaces, NEW x \in {"all", "invitations"},
         Done(c, S, x), \A s \in S : Home[s] = c.of,
         NEW s \in Spaces, Settles(c, S, x, s)
  PROVE  Answered(s)'
<1>1. /\ calls \ {c} \subseteq calls' /\ \A t \in S : Under("load", t, x)'
  BY DoneCalls
<1>2. Answered(s) /\ CallOK(c)
  BY FlagsByCard DEF Inv, CallsOK
<1>3. cards'[s].generating => Under("generate", s, None)'
  BY <1>1, <1>2 DEF Settles, Answered, Under
<1>4. cards'[s].loadingMembers => Under("load", s, "all")'
  BY <1>1, <1>2 DEF Settles, Answered, Under
<1>5. cards'[s].loadingInvitations => \E e \in calls' : e.kind = "load" /\ e.space = s
  BY <1>1, <1>2 DEF Settles, Answered, Under
<1>6. ASSUME NEW p \in cards'[s].pending PROVE Under(p[1], s, p[2])'
  <2>1. p \in cards[s].pending /\ (c.space = s => p # <<c.kind, c.what>>)
    BY DEF Settles
  <2>2. PICK e \in calls : e.kind = p[1] /\ e.space = s /\ e.what = p[2]
    BY <1>2, <2>1 DEF Answered, Under
  <2>3. p = <<p[1], p[2]>>
    BY <2>1 DEF Inv, TypeOK, Cards
  <2>4. e # c
    BY <2>1, <2>2, <2>3
  <2>. QED
    BY <1>1, <2>2, <2>4 DEF Under
<1>. QED
  BY <1>3, <1>4, <1>5, <1>6 DEF Answered

\* An answer to any call but a login, for a session that stays.
LEMMA AnswerInv ==
  ASSUME Inv, NEW c \in calls, c.kind # "login",
         NEW S \in SUBSET Spaces, NEW x \in {"all", "invitations"},
         Done(c, S, x), \A s \in S : Home[s] = c.of,
         UNCHANGED <<started, faults, server, opened, session, modal>>,
         busy' = busy \ {c.kind}, listed' \subseteq In(Spaces, session),
         jwt' \in [token : Members \cup {None}, exchanging : BOOLEAN],
         jwt'.token # None => IsOpen("invite", Home[jwt'.token]),
         jwt'.exchanging => jwt.exchanging /\ (c.kind = "exchange" => c.modal # modal),
         cards' \in [Spaces -> Cards],
         \A s \in Spaces :
           /\ Home[s] # session => Quiet(cards'[s])
           /\ cards'[s].generated # None =>
                IsOpen("invite", s) /\ session = Home[s] /\ Home[cards'[s].generated] = s
           /\ Quiet(cards'[s]) \/ Settles(c, S, x, s)
  PROVE  Inv'
<1>1. /\ CallsOK' /\ calls \ {c} \subseteq calls'
      /\ \A e \in calls' : e \in calls \ {c} \/ e.kind = "load"
  BY DoneCalls
<1>2. TypeOK'
  BY DEF server, Inv, TypeOK, In
<1>3. Logins' /\ OfSession'
  BY <1>1 DEF Inv, Logins, OfSession
<1>4. \A kind \in busy' : Under(kind, None, None)'
  BY <1>1 DEF Inv, FlagsHaveCalls, Under
<1>5. jwt'.exchanging => \E e \in calls' : e.kind = "exchange" /\ e.modal = modal'
  BY <1>1 DEF Inv, FlagsHaveCalls
<1>6. ASSUME NEW s \in Spaces PROVE Answered(s)'
  <2>1. CASE Quiet(cards'[s])
    BY <2>1 DEF Quiet, Answered
  <2>2. CASE Settles(c, S, x, s)
    BY <2>2, SettlesAnswered
  <2>. QED
    BY <2>1, <2>2
<1>7. FlagsHaveCalls'
  BY <1>4, <1>5, <1>6 DEF FlagsHaveCalls, Answered
<1>8. SecretsInTheirDialog'
  BY DEF SecretsInTheirDialog, IsOpen
<1>. QED
  BY <1>1, <1>2, <1>3, <1>7, <1>8 DEF Inv

\* A card that an answer leaves alone.
LEMMA CardKept ==
  ASSUME Inv, NEW c \in calls, NEW S \in SUBSET Spaces, NEW x, NEW s \in Spaces,
         cards'[s] = cards[s], c.space = s => ~Current(c) \/ c.kind = "exchange"
  PROVE  /\ Home[s] # session => Quiet(cards'[s])
         /\ cards'[s].generated # None =>
              IsOpen("invite", s) /\ session = Home[s] /\ Home[cards'[s].generated] = s
         /\ Quiet(cards'[s]) \/ Settles(c, S, x, s)
<1>1. Home[s] # session => Quiet(cards'[s])
  BY DEF Inv, OfSession
<1>2. cards'[s].generated # None =>
        IsOpen("invite", s) /\ session = Home[s] /\ Home[cards'[s].generated] = s
  BY DEF Inv, SecretsInTheirDialog
<1>3. CASE c.space # s
  BY <1>1, <1>2, <1>3 DEF Settles
<1>4. CASE c.space = s /\ ~Current(c)
  <2>1. Home[s] = c.of
    BY <1>4, HomesOfSpaces DEF Inv, CallsOK, CallOK
  <2>. QED
    BY <1>1, <1>2, <1>4, <2>1 DEF Current
<1>5. CASE c.kind = "exchange"
  <2>1. \A p \in cards[s].pending : p[1] # "exchange"
    BY DEF Inv, TypeOK, Cards, Changes, MemberChanges
  <2>2. \A p \in cards[s].pending : p # <<c.kind, c.what>>
    BY <1>5, <2>1
  <2>. QED
    BY <1>1, <1>2, <1>5, <2>2 DEF Settles
<1>. QED
  BY <1>3, <1>4, <1>5

\* What an answer leaves of the token, while it is not one to an exchange.
LEMMA JwtKept ==
  ASSUME Inv, NEW c \in calls, c.kind # "exchange", jwt' = jwt
  PROVE  /\ jwt' \in [token : Members \cup {None}, exchanging : BOOLEAN]
         /\ jwt'.token # None => IsOpen("invite", Home[jwt'.token])
         /\ jwt'.exchanging => jwt.exchanging /\ (c.kind = "exchange" => c.modal # modal)
BY DEF Inv, TypeOK, SecretsInTheirDialog

\* An answer that changes no card.
LEMMA LateInv ==
  ASSUME Inv, NEW c \in calls, c.kind \notin {"login", "exchange"},
         DoneFor(c), UNCHANGED <<session, listed, cards, modal, jwt>>,
         UNCHANGED <<started, faults, server, opened>>, busy' = busy \ {c.kind},
         c.kind \in ForServer \/ ~Current(c)
  PROVE  Inv'
<1>1. Done(c, {}, "all")
  BY DEF DoneFor
<1>2. ASSUME NEW s \in Spaces PROVE c.space = s => ~Current(c) \/ c.kind = "exchange"
  BY HomesOfSpaces DEF Inv, CallsOK, CallOK
<1>3. listed' \subseteq In(Spaces, session) /\ cards' \in [Spaces -> Cards]
  BY DEF Inv, OfSession, TypeOK
<1>4. /\ jwt' \in [token : Members \cup {None}, exchanging : BOOLEAN]
      /\ jwt'.token # None => IsOpen("invite", Home[jwt'.token])
      /\ jwt'.exchanging => jwt.exchanging /\ (c.kind = "exchange" => c.modal # modal)
  BY JwtKept
<1>5. \A s \in Spaces :
        /\ Home[s] # session => Quiet(cards'[s])
        /\ cards'[s].generated # None =>
             IsOpen("invite", s) /\ session = Home[s] /\ Home[cards'[s].generated] = s
        /\ Quiet(cards'[s]) \/ Settles(c, {}, "all", s)
  BY <1>2, CardKept
<1>. QED
  BY <1>1, <1>3, <1>4, <1>5, AnswerInv

LEMMA UnauthorizedInv ==
  ASSUME Inv, NEW c \in calls, Unauthorized(c), UNCHANGED <<started, faults, server, opened>>
  PROVE  Inv'
<1>1. c.kind \notin {"login", "exchange"} /\ busy' = busy \ {c.kind}
  BY DEF Unauthorized
<1>2. CASE Late(c) /\ ~Current(c)
  BY <1>1, <1>2, LateInv DEF Late
<1>3. CASE DoneFor(c) /\ Forget
  <2>1. calls' = calls \ {c}
    BY <1>3 DEF DoneFor, Done
  <2>2. \A kind \in busy' : Under(kind, None, None)'
    BY <1>1, <2>1 DEF Inv, FlagsHaveCalls, Under
  <2>3. \A e \in calls' : e.kind = "login" => "login" \in busy'
    BY <1>1, <2>1 DEF Inv, Logins
  <2>. QED
    BY <1>1, <1>3, <2>1, <2>2, <2>3, ForgetInv
<1>. QED
  BY <1>2, <1>3 DEF Unauthorized

\* A list of spaces leaves a card alone, blanks it or loads it.
LEMMA SpacesSet ==
  ASSUME Inv, NEW spaces \in SUBSET Spaces, NEW S \in SUBSET Spaces, SetSpaces(spaces, S)
  PROVE  /\ cards' \in [Spaces -> Cards] /\ listed' = spaces
         /\ \A s \in Spaces :
              \/ s \in S /\ cards'[s] = Loading(cards[s], "all")
              \/ cards'[s] = cards[s]
              \/ cards'[s] = Blank
<1>1. \A s \in Spaces : Loading(cards[s], "all") \in Cards /\ cards[s] \in Cards
  BY LoadingCard DEF Inv, TypeOK
<1>. QED
  BY <1>1, BlankCard DEF SetSpaces

\* An answer to a refresh or a creation: the spaces in S are of the session.
LEMMA ListInv ==
  ASSUME Inv, NEW c \in calls, c.kind \in {"refresh", "create"}, Current(c),
         NEW spaces \in SUBSET In(Spaces, session), NEW S \in SUBSET In(Spaces, session),
         SetSpaces(spaces, S), Done(c, S, "all"), busy' = busy \ {c.kind},
         UNCHANGED <<session, modal, jwt>>, UNCHANGED <<started, faults, server, opened>>
  PROVE  Inv'
<1>1. /\ cards' \in [Spaces -> Cards] /\ listed' = spaces
      /\ \A s \in Spaces :
           \/ s \in S /\ cards'[s] = Loading(cards[s], "all")
           \/ cards'[s] = cards[s]
           \/ cards'[s] = Blank
  BY SpacesSet DEF In
<1>2. \A s \in Spaces : c.space # s
  BY HomesOfSpaces DEF Inv, CallsOK, CallOK, ForServer
<1>3. \A s \in S : Home[s] = c.of /\ Home[s] = session
  BY DEF Current, In
<1>4. ASSUME NEW s \in Spaces
      PROVE  /\ Home[s] # session => Quiet(cards'[s])
             /\ cards'[s].generated # None =>
                  IsOpen("invite", s) /\ session = Home[s] /\ Home[cards'[s].generated] = s
             /\ Quiet(cards'[s]) \/ Settles(c, S, "all", s)
  <2>1. CASE cards'[s] = cards[s]
    BY <1>2, <2>1, CardKept DEF In
  <2>2. CASE cards'[s] = Blank
    BY <2>2, BlankCard DEF Quiet
  <2>3. CASE s \in S /\ cards'[s] = Loading(cards[s], "all")
    <3>1. cards[s] \in Cards
      BY DEF Inv, TypeOK
    <3>2. /\ cards'[s].generated = cards[s].generated
          /\ cards'[s].generating = cards[s].generating
          /\ cards'[s].pending = cards[s].pending
      BY <2>3, <3>1, LoadingCard
    <3>3. Settles(c, S, "all", s)
      BY <1>2, <2>3, <3>2 DEF Settles
    <3>. QED
      BY <1>3, <2>3, <3>2, <3>3 DEF Inv, SecretsInTheirDialog
  <2>. QED
    BY <1>1, <2>1, <2>2, <2>3
<1>5. /\ jwt' \in [token : Members \cup {None}, exchanging : BOOLEAN]
      /\ jwt'.token # None => IsOpen("invite", Home[jwt'.token])
      /\ jwt'.exchanging => jwt.exchanging /\ (c.kind = "exchange" => c.modal # modal)
  BY JwtKept
<1>6. S \in SUBSET Spaces
  BY DEF In
<1>. QED
  BY <1>1, <1>3, <1>4, <1>5, <1>6, AnswerInv

LEMMA RefreshedInv ==
  ASSUME Inv, NEW c \in calls, c.pc # "sent", Refreshed(c) \/ SpaceCreated(c),
         UNCHANGED <<started, faults, server, opened>>
  PROVE  Inv'
<1>1. /\ c.kind \in {"refresh", "create"} /\ busy' = busy \ {c.kind}
      /\ UNCHANGED <<session, modal, jwt>>
  BY DEF Refreshed, SpaceCreated
<1>2. CASE Current(c) /\ c.pc = "ok"
  <2>1. AnswerOK(c) /\ c.of = session
    BY <1>2 DEF Inv, CallsOK, CallOK, Current
  <2>2. CASE Refreshed(c)
    <3>1. c.data \in SUBSET In(Spaces, session) /\ SetSpaces(c.data, c.data) /\ Done(c, c.data, "all")
      BY <1>2, <2>1, <2>2 DEF Refreshed, AnswerOK
    <3>. QED
      BY <1>1, <1>2, <3>1, ListInv
  <2>3. CASE SpaceCreated(c)
    <3>1. /\ {c.data} \in SUBSET In(Spaces, session)
          /\ listed \cup {c.data} \in SUBSET In(Spaces, session)
          /\ SetSpaces(listed \cup {c.data}, {c.data}) /\ Done(c, {c.data}, "all")
      BY <1>2, <2>1, <2>3 DEF SpaceCreated, AnswerOK, Inv, OfSession
    <3>. QED
      BY <1>1, <1>2, <3>1, ListInv
  <2>. QED
    BY <2>2, <2>3
<1>3. CASE ~(Current(c) /\ c.pc = "ok")
  <2>1. DoneFor(c) /\ UNCHANGED <<session, listed, cards, modal, jwt>>
    BY <1>3 DEF Refreshed, SpaceCreated
  <2>. QED
    BY <1>1, <2>1, LateInv DEF ForServer
<1>. QED
  BY <1>2, <1>3

LEMMA LoggedInInv ==
  ASSUME Inv, NEW c \in calls, c.pc # "sent", LoggedIn(c),
         UNCHANGED <<started, faults, server, opened>>
  PROVE  Inv'
<1>1. /\ c.kind = "login" /\ busy' = busy \ {"login"} /\ modal' = modal /\ jwt' = jwt
      /\ session = None /\ \A e \in calls : e.kind = "login" => e = c
  BY DEF LoggedIn, Inv, Logins
<1>2. /\ \A s \in Spaces : Quiet(cards[s])
      /\ modal = NoModal /\ jwt.token = None /\ ~jwt.exchanging
  <2>1. \A s \in Spaces : Quiet(cards[s])
    BY <1>1, HomesOfSpaces DEF Inv, OfSession
  <2>2. modal = NoModal
    BY <1>1, HomesOfSpaces DEF Inv, OfSession
  <2>3. \A s : ~IsOpen("invite", s)
    BY <2>2 DEF IsOpen, NoModal
  <2>4. jwt.token = None
    BY <2>3 DEF Inv, SecretsInTheirDialog
  <2>5. ASSUME jwt.exchanging PROVE FALSE
    <3>1. PICK e \in calls : e.kind = "exchange" /\ e.modal = modal
      BY <2>5 DEF Inv, FlagsHaveCalls
    <3>. QED
      BY <2>2, <3>1 DEF Inv, CallsOK, CallOK, InDialog, NoModal
  <2>. QED
    BY <2>1, <2>2, <2>4, <2>5
<1>3. PICK S \in SUBSET Spaces :
        /\ Done(c, S, "all") /\ \A s \in S : Home[s] = c.of
        /\ session' \in Sessions \cup {None} /\ listed' = S
        /\ \A s \in S : Home[s] = session'
        /\ cards' \in [Spaces -> Cards]
        /\ \A s \in Spaces : \/ s \in S /\ cards'[s] = Loading(cards[s], "all")
                             \/ Quiet(cards'[s])
  <2>1. CASE c.pc = "ok"
    <3>1. c.data \subseteq In(Spaces, c.of) /\ c.of \in Sessions
      BY <1>1, <2>1 DEF Inv, CallsOK, CallOK, AnswerOK
    <3>2. SetSpaces(c.data, c.data) /\ Done(c, c.data, "all") /\ session' = c.of
      BY <2>1 DEF LoggedIn
    <3>3. c.data \in SUBSET Spaces /\ \A s \in c.data : Home[s] = c.of
      BY <3>1 DEF In
    <3>4. /\ cards' \in [Spaces -> Cards] /\ listed' = c.data
          /\ \A s \in Spaces :
               \/ s \in c.data /\ cards'[s] = Loading(cards[s], "all")
               \/ cards'[s] = cards[s]
               \/ cards'[s] = Blank
      BY <3>2, <3>3, SpacesSet
    <3>5. \A s \in Spaces : \/ s \in c.data /\ cards'[s] = Loading(cards[s], "all")
                            \/ Quiet(cards'[s])
      BY <1>2, <3>4, BlankCard
    <3>. QED
      BY <3>1, <3>2, <3>3, <3>4, <3>5
  <2>2. CASE c.pc # "ok"
    <3>1. /\ Done(c, {}, "all") /\ session' = None /\ listed' = {}
          /\ cards' = [s \in Spaces |-> Blank]
      BY <2>2 DEF LoggedIn, DoneFor, ResetCards
    <3>. QED
      BY <3>1, BlankCard
  <2>. QED
    BY <2>1, <2>2
<1>4. /\ CallsOK' /\ calls \ {c} \subseteq calls'
      /\ \A e \in calls' : e \in calls \ {c} \/ e.kind = "load"
      /\ \A s \in S : Under("load", s, "all")'
  BY <1>3, DoneCalls
<1>5. ASSUME NEW s \in Spaces
      PROVE  /\ cards'[s].generated = None /\ ~cards'[s].generating
             /\ cards'[s].pending = {} /\ (s \in S \/ Quiet(cards'[s]))
  <2>1. cards[s] \in Cards
    BY DEF Inv, TypeOK
  <2>. QED
    BY <1>2, <1>3, <2>1, LoadingCard DEF Quiet
<1>6. TypeOK'
  BY <1>1, <1>3 DEF server, Inv, TypeOK
<1>7. Logins'
  BY <1>1, <1>4 DEF Logins
<1>8. OfSession'
  BY <1>1, <1>2, <1>3, <1>5 DEF OfSession, In
<1>9. FlagsHaveCalls'
  <2>1. \A kind \in busy' : Under(kind, None, None)'
    BY <1>1, <1>4 DEF Inv, FlagsHaveCalls, Under
  <2>2. ASSUME NEW s \in Spaces PROVE Answered(s)'
    BY <1>4, <1>5 DEF Answered, Quiet, Under
  <2>. QED
    BY <1>1, <1>2, <2>1, <2>2 DEF FlagsHaveCalls, Answered
<1>10. SecretsInTheirDialog'
  BY <1>1, <1>2, <1>5 DEF SecretsInTheirDialog
<1>. QED
  BY <1>4, <1>6, <1>7, <1>8, <1>9, <1>10 DEF Inv

\* An answer that changes its own card, and no other.
LEMMA OwnCardInv ==
  ASSUME Inv, NEW c \in calls, c.kind \notin ForServer, c.kind # "exchange", Current(c),
         NEW S \in SUBSET {c.space}, NEW x \in {"all", "invitations"}, Done(c, S, x),
         UNCHANGED <<session, listed, modal, jwt, busy>>,
         UNCHANGED <<started, faults, server, opened>>,
         NEW card \in Cards, cards' = [cards EXCEPT ![c.space] = card],
         card.generated # None =>
           IsOpen("invite", c.space) /\ Home[card.generated] = c.space,
         Settles(c, S, x, c.space)
  PROVE  Inv'
<1>1. c.space \in Spaces /\ Home[c.space] = c.of /\ c.of = session
  BY DEF Inv, CallsOK, CallOK, Current
<1>2. cards \in [Spaces -> Cards]
  BY DEF Inv, TypeOK
<1>3. /\ cards' \in [Spaces -> Cards] /\ cards'[c.space] = card
      /\ \A s \in Spaces : s # c.space => cards'[s] = cards[s]
  BY <1>1, <1>2
<1>4. S \in SUBSET Spaces /\ \A s \in S : Home[s] = c.of
  BY <1>1
<1>5. busy' = busy \ {c.kind} /\ c.kind # "login"
  BY DEF ForServer, Inv, TypeOK
<1>6. listed' \subseteq In(Spaces, session)
  BY DEF Inv, OfSession
<1>7. /\ jwt' \in [token : Members \cup {None}, exchanging : BOOLEAN]
      /\ jwt'.token # None => IsOpen("invite", Home[jwt'.token])
      /\ jwt'.exchanging => jwt.exchanging /\ (c.kind = "exchange" => c.modal # modal)
  BY JwtKept
<1>8. ASSUME NEW s \in Spaces
      PROVE  /\ Home[s] # session => Quiet(cards'[s])
             /\ cards'[s].generated # None =>
                  IsOpen("invite", s) /\ session = Home[s] /\ Home[cards'[s].generated] = s
             /\ Quiet(cards'[s]) \/ Settles(c, S, x, s)
  <2>1. CASE s # c.space
    BY <1>3, <1>4, <2>1, CardKept
  <2>2. CASE s = c.space
    BY <1>1, <1>3, <2>2
  <2>. QED
    BY <2>1, <2>2
<1>. QED
  BY <1>3, <1>4, <1>5, <1>6, <1>7, <1>8, AnswerInv

\* What an answer makes of its card.
LEMMA LoadedTypes ==
  ASSUME NEW c, CallOK(c), c.kind = "load", NEW card \in Cards,
         NEW new, new = LoadedCard(card, c)
  PROVE  /\ new \in Cards /\ new.generated = card.generated
         /\ new.generating = card.generating /\ new.pending = card.pending
         /\ new.loadingMembers => card.loadingMembers /\ c.what # "all"
         /\ ~new.loadingInvitations
         /\ IF c.what # "all"
              THEN new.members = card.members /\ new.membersError = card.membersError
              ELSE \/ new.membersError
                   \/ c.pc = "ok" /\ c.data.members # None /\ new.members = c.data.members
         /\ \/ new.invitationsError
            \/ /\ c.pc = "ok" /\ c.data.invitations # None
               /\ new.invitations = c.data.invitations
<1> DEFINE all == c.what = "all"
           membersOk == c.pc = "ok" /\ c.data.members # None
           invitationsOk == c.pc = "ok" /\ c.data.invitations # None
           members == IF all /\ membersOk THEN c.data.members ELSE card.members
           error == IF all THEN ~membersOk ELSE card.membersError
           loading == card.loadingMembers /\ ~all
           invitations == IF invitationsOk THEN c.data.invitations ELSE card.invitations
           failed == ~invitationsOk
<1>1. /\ membersOk => c.data.members \in [Members -> Shown]
      /\ invitationsOk => c.data.invitations \in SUBSET Invites
  BY DEF CallOK, AnswerOK
<1>2. /\ members \in [Members -> Shown] /\ invitations \in SUBSET Invites
      /\ error \in BOOLEAN /\ loading \in BOOLEAN /\ failed \in BOOLEAN
  BY <1>1 DEF Cards
<1>3. new = [card EXCEPT !.loadingMembers = loading, !.members = members,
                         !.membersError = error, !.loadingInvitations = FALSE,
                         !.invitations = invitations, !.invitationsError = failed]
  BY DEF LoadedCard, Cards
<1>. HIDE DEF members, error, loading, invitations, failed
<1>4. /\ new \in Cards /\ new.generated = card.generated /\ new.generating = card.generating
      /\ new.pending = card.pending /\ new.loadingMembers = loading
      /\ ~new.loadingInvitations /\ new.members = members /\ new.membersError = error
      /\ new.invitations = invitations /\ new.invitationsError = failed
  BY <1>2, <1>3 DEF Cards
<1>. QED
  BY <1>4 DEF loading, members, error, invitations, failed

LEMMA ChangedTypes ==
  ASSUME NEW c, CallOK(c), NEW card \in Cards,
         NEW new, \/ c.kind \in MemberChanges /\ new = ChangedCard(card, c)
                  \/ c.kind = "delete" /\ new = DeletedCard(card, c)
  PROVE  /\ new \in Cards /\ new.generated = card.generated
         /\ new.generating = card.generating
         /\ new.loadingMembers = card.loadingMembers
         /\ new.loadingInvitations = card.loadingInvitations
         /\ new.pending = card.pending \ {<<c.kind, c.what>>}
<1>1. CASE c.kind \in MemberChanges /\ new = ChangedCard(card, c)
  <2>1. c.what \in Members
    BY <1>1 DEF CallOK
  <2>. QED
    BY <1>1, <2>1 DEF ChangedCard, MemberChanges, Cards, Shown
<1>2. CASE c.kind = "delete" /\ new = DeletedCard(card, c)
  BY <1>2 DEF DeletedCard, Cards
<1>. QED
  BY <1>1, <1>2

LEMMA LoadedInv ==
  ASSUME Inv, NEW c \in calls, Loaded(c), UNCHANGED <<started, faults, server, opened>>
  PROVE  Inv'
<1>1. /\ c.kind = "load" /\ DoneFor(c) /\ UNCHANGED <<session, listed, modal, jwt, busy>>
      /\ cards' = IF Current(c) THEN [cards EXCEPT ![c.space] = LoadedCard(cards[c.space], c)]
                  ELSE cards
  BY DEF Loaded, Settled
<1>2. /\ c.kind \notin ForServer /\ c.kind \notin {"login", "exchange"}
      /\ busy' = busy \ {c.kind}
  BY <1>1 DEF ForServer, Inv, TypeOK
<1>3. CASE ~Current(c)
  BY <1>1, <1>2, <1>3, LateInv
<1>4. CASE Current(c)
  <2>1. CallOK(c) /\ c.space \in Spaces
    BY <1>2 DEF Inv, CallsOK, CallOK
  <2>2. cards \in [Spaces -> Cards] /\ cards[c.space] \in Cards
    BY <2>1 DEF Inv, TypeOK
  <2>3. PICK card : card = LoadedCard(cards[c.space], c)
    OBVIOUS
  <2>4. /\ card \in Cards /\ card.generated = cards[c.space].generated
        /\ card.generating = cards[c.space].generating
        /\ card.pending = cards[c.space].pending
        /\ card.loadingMembers => cards[c.space].loadingMembers /\ c.what # "all"
        /\ ~card.loadingInvitations
    BY <1>1, <2>1, <2>2, <2>3, LoadedTypes
  <2>5. cards' = [cards EXCEPT ![c.space] = card] /\ cards'[c.space] = card
    BY <1>1, <1>4, <2>1, <2>2, <2>3
  <2>6. Settles(c, {}, "all", c.space)
    <3>1. \A p \in cards[c.space].pending : p # <<c.kind, c.what>>
      BY <1>1, <2>2 DEF Cards, Changes, MemberChanges
    <3>. QED
      BY <1>1, <2>4, <2>5, <3>1 DEF Settles
  <2>7. card.generated # None => IsOpen("invite", c.space) /\ Home[card.generated] = c.space
    BY <2>1, <2>4 DEF Inv, SecretsInTheirDialog
  <2>8. Done(c, {}, "all")
    BY <1>1 DEF DoneFor
  <2>. QED
    BY <1>1, <1>2, <1>4, <2>4, <2>5, <2>6, <2>7, <2>8, OwnCardInv
<1>. QED
  BY <1>3, <1>4

LEMMA ChangedInv ==
  ASSUME Inv, NEW c \in calls, MemberChanged(c) \/ InvitationDeleted(c),
         UNCHANGED <<started, faults, server, opened>>
  PROVE  Inv'
<1>1. /\ c.kind \in Changes /\ DoneFor(c) /\ UNCHANGED <<session, listed, modal, jwt, busy>>
  BY DEF MemberChanged, InvitationDeleted, Settled, Changes
<1>2. /\ c.kind \notin ForServer /\ c.kind \notin {"login", "exchange", "load", "generate"}
      /\ busy' = busy \ {c.kind}
  BY <1>1 DEF Changes, MemberChanges, ForServer, Inv, TypeOK
<1>3. CASE ~Current(c)
  <2>1. cards' = cards
    BY <1>3 DEF MemberChanged, InvitationDeleted, Settled
  <2>. QED
    BY <1>1, <1>2, <1>3, <2>1, LateInv
<1>4. CASE Current(c)
  <2>1. CallOK(c) /\ c.space \in Spaces
    BY <1>2 DEF Inv, CallsOK, CallOK
  <2>2. cards \in [Spaces -> Cards] /\ cards[c.space] \in Cards
    BY <2>1 DEF Inv, TypeOK
  <2>3. PICK card :
          /\ cards' = [cards EXCEPT ![c.space] = card]
          /\ \/ c.kind \in MemberChanges /\ card = ChangedCard(cards[c.space], c)
             \/ c.kind = "delete" /\ card = DeletedCard(cards[c.space], c)
    <3>1. CASE MemberChanged(c)
      BY <1>4, <3>1 DEF MemberChanged, Settled
    <3>2. CASE InvitationDeleted(c)
      BY <1>4, <3>2 DEF InvitationDeleted, Settled
    <3>. QED
      BY <3>1, <3>2
  <2>4. /\ card \in Cards /\ card.generated = cards[c.space].generated
        /\ card.generating = cards[c.space].generating
        /\ card.loadingMembers = cards[c.space].loadingMembers
        /\ card.loadingInvitations = cards[c.space].loadingInvitations
        /\ card.pending = cards[c.space].pending \ {<<c.kind, c.what>>}
    BY <2>1, <2>2, <2>3, ChangedTypes
  <2>5. cards'[c.space] = card
    BY <2>1, <2>2, <2>3
  <2>6. Settles(c, {}, "all", c.space)
    BY <1>2, <2>4, <2>5 DEF Settles
  <2>7. card.generated # None => IsOpen("invite", c.space) /\ Home[card.generated] = c.space
    BY <2>1, <2>4 DEF Inv, SecretsInTheirDialog
  <2>8. Done(c, {}, "all")
    BY <1>1 DEF DoneFor
  <2>. QED
    BY <1>1, <1>2, <1>4, <2>3, <2>4, <2>6, <2>7, <2>8, OwnCardInv
<1>. QED
  BY <1>3, <1>4

LEMMA GeneratedInv ==
  ASSUME Inv, NEW c \in calls, Generated(c), UNCHANGED <<started, faults, server, opened>>
  PROVE  Inv'
<1>1. /\ c.kind = "generate" /\ UNCHANGED <<session, listed, modal, jwt, busy>>
  BY DEF Generated
<1>2. /\ c.kind \notin ForServer /\ c.kind \notin {"login", "exchange", "load"}
      /\ c.kind \notin Changes /\ busy' = busy \ {c.kind} /\ c.kind \in InDialog
  BY <1>1 DEF Changes, MemberChanges, InDialog, ForServer, Inv, TypeOK
<1>3. CASE ~Current(c)
  BY <1>1, <1>2, <1>3, LateInv DEF Generated
<1>4. CASE Current(c)
  <2>1. CallOK(c) /\ c.space \in Spaces
    BY <1>2 DEF Inv, CallsOK, CallOK
  <2>2. cards \in [Spaces -> Cards] /\ cards[c.space] \in Cards
    BY <2>1 DEF Inv, TypeOK
  <2> DEFINE was == cards[c.space]
             shown == IF SameDialog(c) /\ c.pc = "ok" THEN c.data ELSE was.generated
             card == [was EXCEPT !.generating = FALSE, !.generated = shown]
             new == IF c.pc = "ok" THEN Loading(card, "invitations") ELSE card
             S == IF c.pc = "ok" THEN {c.space} ELSE {}
  <2>3. cards' = [cards EXCEPT ![c.space] = new]
    BY <1>4, <2>2 DEF Generated
  <2>4. Done(c, S, "invitations") \/ Done(c, S, "all")
    BY <1>4 DEF Generated, DoneFor
  <2>5. /\ shown \in Invites \cup {None}
        /\ shown # None => IsOpen("invite", c.space) /\ Home[shown] = c.space
    <3>1. was.generated \in Invites \cup {None}
      BY <2>2 DEF Cards
    <3>2. was.generated # None => IsOpen("invite", c.space) /\ Home[was.generated] = c.space
      BY <2>1 DEF Inv, SecretsInTheirDialog
    <3>3. SameDialog(c) => IsOpen("invite", c.space)
      BY <1>2, <2>1 DEF CallOK, SameDialog, IsOpen
    <3>4. c.pc = "ok" => c.data \in Invites /\ Home[c.data] = c.space
      BY <1>1, <2>1 DEF CallOK, AnswerOK, In
    <3>. QED
      BY <3>1, <3>2, <3>3, <3>4
  <2>6. was \in Cards
    BY <2>2
  <2> HIDE DEF was, shown
  <2>7. /\ card \in Cards /\ card.generated = shown /\ ~card.generating
        /\ card.pending = was.pending /\ card.loadingMembers = was.loadingMembers
        /\ card.loadingInvitations = was.loadingInvitations
    BY <2>5, <2>6 DEF Cards
  <2> HIDE DEF card
  <2>8. /\ new \in Cards /\ new.generated = shown /\ ~new.generating
        /\ new.pending = was.pending /\ (new.loadingMembers => was.loadingMembers)
        /\ new.loadingInvitations => was.loadingInvitations \/ c.space \in S
    BY <2>7, LoadingCard
  <2> HIDE DEF new
  <2>9. cards'[c.space] = new /\ was = cards[c.space] /\ S \in SUBSET {c.space}
    BY <2>1, <2>2, <2>3 DEF was
  <2> HIDE DEF S
  <2>10. ASSUME NEW x \in {"all", "invitations"} PROVE Settles(c, S, x, c.space)
    <3>1. \A p \in was.pending : p # <<c.kind, c.what>>
      BY <1>2, <2>6 DEF Cards
    <3>. QED
      BY <1>2, <2>8, <2>9, <3>1 DEF Settles
  <2>11. new.generated # None => IsOpen("invite", c.space) /\ Home[new.generated] = c.space
    BY <2>5, <2>8
  <2>12. PICK x \in {"all", "invitations"} : Done(c, S, x)
    BY <2>4
  <2>. QED
    BY <1>1, <1>2, <1>4, <2>3, <2>8, <2>9, <2>10, <2>11, <2>12, OwnCardInv
<1>. QED
  BY <1>3, <1>4

LEMMA ExchangedInv ==
  ASSUME Inv, NEW c \in calls, Exchanged(c), UNCHANGED <<started, faults, server, opened>>
  PROVE  Inv'
<1>1. /\ c.kind = "exchange" /\ UNCHANGED <<session, listed, modal, busy>>
      /\ c.kind # "login" /\ busy' = busy \ {c.kind}
  BY DEF Exchanged, Inv, TypeOK
<1>2. CallOK(c) /\ c.space \in Spaces /\ Home[c.space] = c.of
  BY <1>1 DEF Inv, CallsOK, CallOK, ForServer
<1>3. cards \in [Spaces -> Cards] /\ cards[c.space] \in Cards
  BY <1>2 DEF Inv, TypeOK
<1>4. listed' \subseteq In(Spaces, session)
  BY <1>1 DEF Inv, OfSession
<1>5. SameDialog(c) => IsOpen("invite", c.space) /\ Current(c)
  <2>1. c.modal.type = "invite" /\ c.modal.space = c.space
    BY <1>1, <1>2 DEF CallOK, InDialog
  <2>. QED
    BY <1>2, <2>1 DEF SameDialog, IsOpen, NoModal, Current, Inv, OfSession
<1>6. /\ jwt \in [token : Members \cup {None}, exchanging : BOOLEAN]
      /\ jwt.token # None => IsOpen("invite", Home[jwt.token])
  BY DEF Inv, TypeOK, SecretsInTheirDialog
<1>7. {c.space} \in SUBSET Spaces /\ \A s \in {c.space} : Home[s] = c.of
  BY <1>2
<1>8. CASE cards' = cards
  <2>1. ASSUME NEW s \in Spaces
        PROVE  /\ Home[s] # session => Quiet(cards'[s])
               /\ cards'[s].generated # None =>
                    IsOpen("invite", s) /\ session = Home[s] /\ Home[cards'[s].generated] = s
               /\ Quiet(cards'[s]) \/ Settles(c, {}, "all", s)
    BY <1>1, <1>8, CardKept
  <2>2. CASE DoneFor(c) /\ jwt' = jwt /\ ~(SameDialog(c) /\ jwt.exchanging)
    <3>1. Done(c, {}, "all")
      BY <2>2 DEF DoneFor
    <3>2. jwt'.exchanging => jwt.exchanging /\ c.modal # modal
      BY <2>2 DEF SameDialog
    <3>. QED
      BY <1>1, <1>3, <1>4, <1>6, <1>8, <2>1, <2>2, <3>1, <3>2, AnswerInv
  <2>3. CASE DoneFor(c) /\ jwt' = [jwt EXCEPT !.exchanging = FALSE]
    <3>1. Done(c, {}, "all")
      BY <2>3 DEF DoneFor
    <3>2. /\ jwt' \in [token : Members \cup {None}, exchanging : BOOLEAN]
          /\ jwt'.token = jwt.token /\ ~jwt'.exchanging
      BY <1>6, <2>3
    <3>. QED
      BY <1>1, <1>3, <1>4, <1>6, <1>8, <2>1, <3>1, <3>2, AnswerInv
  <2>4. CASE SameDialog(c) /\ jwt.exchanging /\ Current(c) /\ c.pc = "ok"
    <3>1. Done(c, {c.space}, "all") /\ jwt' = [token |-> c.data, exchanging |-> FALSE]
      BY <2>4 DEF Exchanged, TokenOf
    <3>2. /\ jwt' \in [token : Members \cup {None}, exchanging : BOOLEAN]
          /\ IsOpen("invite", Home[jwt'.token]) /\ ~jwt'.exchanging
      BY <1>1, <1>2, <1>5, <2>4, <3>1 DEF CallOK, AnswerOK, In
    <3>3. \A s \in Spaces : Quiet(cards'[s]) \/ Settles(c, {c.space}, "all", s)
      BY <1>1, <1>8, CardKept, <1>2
    <3>4. cards' \in [Spaces -> Cards]
      BY <1>3, <1>8
    <3>. QED
      BY <1>1, <1>4, <1>7, <2>1, <3>1, <3>2, <3>3, <3>4, AnswerInv
  <2>. QED
    BY <1>5, <2>2, <2>3, <2>4 DEF Exchanged
<1>9. CASE cards' # cards
  <2>1. /\ SameDialog(c) /\ Current(c) /\ c.pc = "ok"
        /\ jwt' = [token |-> c.data, exchanging |-> FALSE]
        /\ Done(c, {c.space}, "all")
        /\ cards' = [cards EXCEPT ![c.space] =
                       Loading([cards[c.space] EXCEPT !.generated = None], "all")]
    BY <1>9 DEF Exchanged, TokenOf
  <2>2. /\ jwt' \in [token : Members \cup {None}, exchanging : BOOLEAN]
        /\ IsOpen("invite", Home[jwt'.token]) /\ ~jwt'.exchanging
    BY <1>1, <1>2, <1>5, <2>1 DEF CallOK, AnswerOK, In
  <2> DEFINE card == [cards[c.space] EXCEPT !.generated = None]
  <2>3. /\ card \in Cards /\ card.generated = None
        /\ card.generating = cards[c.space].generating
        /\ card.pending = cards[c.space].pending
    BY <1>3 DEF Cards
  <2>4. cards' = [cards EXCEPT ![c.space] = Loading(card, "all")]
    BY <2>1
  <2> HIDE DEF card
  <2>5. /\ cards' \in [Spaces -> Cards] /\ cards'[c.space] = Loading(card, "all")
        /\ \A s \in Spaces : s # c.space => cards'[s] = cards[s]
        /\ Loading(card, "all").generated = None
        /\ Loading(card, "all").generating = cards[c.space].generating
        /\ Loading(card, "all").pending = cards[c.space].pending
    BY <1>2, <1>3, <2>3, <2>4, LoadingCard
  <2>6. Settles(c, {c.space}, "all", c.space)
    <3>1. \A p \in cards[c.space].pending : p # <<c.kind, c.what>>
      BY <1>1, <1>3 DEF Cards, Changes, MemberChanges
    <3>. QED
      BY <1>1, <2>5, <3>1 DEF Settles
  <2>7. ASSUME NEW s \in Spaces
        PROVE  /\ Home[s] # session => Quiet(cards'[s])
               /\ cards'[s].generated # None =>
                    IsOpen("invite", s) /\ session = Home[s] /\ Home[cards'[s].generated] = s
               /\ Quiet(cards'[s]) \/ Settles(c, {c.space}, "all", s)
    <3>1. CASE s # c.space
      BY <1>2, <2>5, <3>1, CardKept
    <3>2. CASE s = c.space
      BY <1>2, <2>1, <2>5, <2>6, <3>2 DEF Current
    <3>. QED
      BY <3>1, <3>2
  <2>. QED
    BY <1>1, <1>4, <1>7, <2>1, <2>2, <2>5, <2>7, AnswerInv
<1>. QED
  BY <1>8, <1>9

-----------------------------------------------------------------------------
LEMMA InvStep == Inv /\ [Next]_vars => Inv'
<1> SUFFICES ASSUME Inv, [Next]_vars PROVE Inv'
  OBVIOUS
<1>1. CASE Administrator
  BY <1>1, AdministratorInv
<1>2. CASE Serve
  BY <1>2, ServeInv
<1>3. CASE Answer
  BY <1>3, UnauthorizedInv, LoggedInInv, RefreshedInv, LoadedInv, ChangedInv, GeneratedInv,
     ExchangedInv DEF Answer
<1>4. CASE UNCHANGED vars
  <2>1. UNCHANGED <<started, faults, made, rows, pins, session, busy, listed, cards, modal,
                    opened, jwt, calls>>
    BY <1>4 DEF vars, server, page
  <2>2. TypeOK' /\ CallsOK' /\ Logins' /\ OfSession'
    BY <2>1 DEF Inv, TypeOK, CallsOK, CallOK, AnswerOK, Logins, OfSession
  <2>3. FlagsHaveCalls' /\ SecretsInTheirDialog'
    BY <2>1 DEF Inv, FlagsHaveCalls, Under, SecretsInTheirDialog, IsOpen
  <2>. QED
    BY <2>2, <2>3 DEF Inv
<1>. QED
  BY <1>1, <1>2, <1>3, <1>4 DEF Next

\* The page, its calls and the servers keep their types.
THEOREM TypeCorrect == Spec => []TypeOK
<1>1. Spec => []Inv
  BY InitInv, InvStep, PTL DEF Spec
<1>2. Inv => TypeOK
  BY DEF Inv
<1>. QED
  BY <1>1, <1>2, PTL

\* Whatever comes back late, lost or refused, a button that is disabled and a list that
\* is loading have a call under way that will end it.
THEOREM NothingWaitsForNothing == Spec => []FlagsHaveCalls
<1>1. Spec => []Inv
  BY InitInv, InvStep, PTL DEF Spec
<1>2. Inv => FlagsHaveCalls
  BY DEF Inv
<1>. QED
  BY <1>1, <1>2, PTL

\* No late answer shows an invitation or a token in another dialog than its own, or to
\* another session.
THEOREM SecretsStay == Spec => []SecretsInTheirDialog
<1>1. Spec => []Inv
  BY InitInv, InvStep, PTL DEF Spec
<1>2. Inv => SecretsInTheirDialog
  BY DEF Inv
<1>. QED
  BY <1>1, <1>2, PTL

-----------------------------------------------------------------------------
(***************************************************************************)
(* The lists are brought up to date.                                       *)
(***************************************************************************)
\* Lists and changes keep apart, so a list says what the server still has.
ListAnswer(c) ==
  /\ c.kind \in {"login", "refresh"} =>
       c.pc = "sent" \/ (c.pc = "ok" /\ c.data = In(Spaces, c.of) \cap made)
  /\ c.kind = "load" /\ c.pc = "ok" => /\ c.data.members \in {None, Listing(c.space)}
                                       /\ c.data.invitations \in {None, Open(c.space)}

ListCalls ==
  /\ \A c, d \in calls : (c.kind \in Lists) = (d.kind \in Lists)
  /\ \A c \in calls : ListAnswer(c)

RowAfter(kind) == CASE kind = "revoke" -> "revoked" [] kind = "unrevoke" -> "active"
                    [] kind = "remove" -> "removed"

\* A change is of this session, and of what the page shows in its card.
ChangeOf(c) ==
  /\ c.of = session
  /\ c.kind \in MemberChanges =>
       /\ <<c.kind, c.what>> \in cards[c.space].pending
       /\ cards[c.space].members[c.what] = IF c.kind = "revoke" THEN "active" ELSE "revoked"
       /\ rows[c.what] # "none" /\ Home[c.what] = c.space
       /\ c.pc = "ok" => rows[c.what] = RowAfter(c.kind)
  /\ c.kind \in {"delete", "exchange"} => Home[c.what] = c.space
  /\ c.kind = "delete" /\ c.pc = "ok" => pins[c.what] = "used"
  /\ c.kind = "exchange" => modal = c.modal /\ jwt.exchanging
  /\ c.kind = "create" /\ c.pc = "ok" => c.data \in made

ChangeCalls ==
  /\ \A c \in calls : c.kind \notin Lists => ChangeOf(c)
  /\ \A c, d \in calls :
       \/ c.kind \in MemberChanges /\ d.kind \in MemberChanges /\ c.what = d.what
       \/ c.kind = "exchange" /\ d.kind = "exchange"
       => c = d

\* What the page will be told, by a list, or by the answer to a change made.
Refreshing == \E c \in calls : c.kind = "refresh" /\ c.of = session
LoadUnder(s, X) == \E c \in calls : c.kind = "load" /\ c.of = session /\ c.space = s /\ c.what \in X

MemberTold(c, s, m) ==
  /\ c.space = s
  /\ \/ c.kind \in MemberChanges /\ c.what = m /\ c.pc # "sent"
     \/ c.kind = "exchange" /\ c.pc = "ok" /\ c.data = m

InvitationTold(c, s, i) ==
  /\ c.space = s
  /\ \/ c.kind = "delete" /\ c.what = i /\ c.pc # "sent"
     \/ c.kind = "exchange" /\ c.pc = "ok" /\ c.what = i
     \/ c.kind = "generate" /\ c.pc = "ok" /\ c.data = i

SpacesShown ==
  \/ Refreshing
  \/ /\ listed \subseteq made
     /\ \A s \in In(Spaces, session) \cap made :
          s \in listed \/ \E c \in calls : c.kind = "create" /\ c.pc = "ok" /\ c.data = s

MembersShown(s) ==
  \/ Refreshing \/ LoadUnder(s, {"all"}) \/ cards[s].membersError
  \/ \A m \in Members : \/ cards[s].members[m] = Listing(s)[m]
                        \/ \E c \in calls : MemberTold(c, s, m)

InvitationsShown(s) ==
  \/ Refreshing \/ LoadUnder(s, {"all", "invitations"}) \/ cards[s].invitationsError
  \/ \A i \in Invites : \/ i \in cards[s].invitations <=> i \in Open(s)
                        \/ \E c \in calls : InvitationTold(c, s, i)

PageShown == SpacesShown /\ \A s \in listed : MembersShown(s) /\ InvitationsShown(s)

ShownInv ==
  /\ Inv
  /\ clean => ListCalls
  /\ clean /\ session # None => ChangeCalls /\ PageShown

\* A call that has nothing to tell the page.
Mute(c) ==
  /\ ~(c.kind \in {"refresh", "load"} /\ c.of = session)
  /\ c.kind \in Changes => c.pc = "sent"
  /\ c.kind \in {"create", "exchange", "generate"} => c.pc # "ok"

\* What c had to tell is still to be told.
Stays(c) == c \in calls' \/ Mute(c) \/ (c.kind \in Lists /\ \E d \in calls' : SameCall(c, d))

LEMMA ListsKept ==
  ASSUME session' = session, \A c \in calls : Stays(c) \/ c.kind \notin Lists
  PROVE  /\ Refreshing => Refreshing'
         /\ \A s, X : LoadUnder(s, X) => LoadUnder(s, X)'
BY DEF Stays, Mute, SameCall, Refreshing, LoadUnder, Lists

LEMMA SpacesKept ==
  ASSUME SpacesShown, UNCHANGED <<session, listed, made>>, \A c \in calls : Stays(c)
  PROVE  SpacesShown'
<1>1. Refreshing => Refreshing'
  BY ListsKept
<1>2. \A c \in calls : c.kind = "create" /\ c.pc = "ok" => c \in calls'
  BY DEF Stays, Mute, Lists
<1>. QED
  BY <1>1, <1>2 DEF SpacesShown

\* The rows of the members of X are set right or will be, the others are as before.
LEMMA MembersKept ==
  ASSUME NEW s, MembersShown(s), session' = session, NEW X,
         cards[s].membersError => cards'[s].membersError,
         \A m \in Members \ X :
           cards'[s].members[m] = cards[s].members[m] /\ Listing(s)'[m] = Listing(s)[m],
         \A m \in Members \cap X :
           \/ cards'[s].members[m] = Listing(s)'[m]
           \/ \E c \in calls' : MemberTold(c, s, m),
         \A c \in calls :
           \/ Stays(c)
           \/ c.kind \notin Lists /\ \A m \in Members : MemberTold(c, s, m) => m \in X
  PROVE  MembersShown(s)'
<1>1. (Refreshing => Refreshing') /\ \A Y : LoadUnder(s, Y) => LoadUnder(s, Y)'
  BY ListsKept
<1>2. ASSUME NEW m \in Members \ X, NEW c \in calls, MemberTold(c, s, m) PROVE c \in calls'
  BY <1>2 DEF Stays, Mute, Lists, Changes, MemberChanges, MemberTold
<1>3. \A c, m : MemberTold(c, s, m)' <=> MemberTold(c, s, m)
  BY DEF MemberTold
<1>. QED
  BY <1>1, <1>2, <1>3 DEF MembersShown

LEMMA InvitationsKept ==
  ASSUME NEW s, InvitationsShown(s), session' = session, NEW X,
         cards[s].invitationsError => cards'[s].invitationsError,
         \A i \in Invites \ X :
           (i \in cards'[s].invitations <=> i \in cards[s].invitations)
             /\ (i \in Open(s)' <=> i \in Open(s)),
         \A i \in Invites \cap X :
           \/ i \in cards'[s].invitations <=> i \in Open(s)'
           \/ \E c \in calls' : InvitationTold(c, s, i),
         \A c \in calls :
           \/ Stays(c)
           \/ c.kind \notin Lists /\ \A i \in Invites : InvitationTold(c, s, i) => i \in X
  PROVE  InvitationsShown(s)'
<1>1. (Refreshing => Refreshing') /\ \A Y : LoadUnder(s, Y) => LoadUnder(s, Y)'
  BY ListsKept
<1>2. ASSUME NEW i \in Invites \ X, NEW c \in calls, InvitationTold(c, s, i) PROVE c \in calls'
  BY <1>2 DEF Stays, Mute, Lists, Changes, InvitationTold
<1>3. \A c, i : InvitationTold(c, s, i)' <=> InvitationTold(c, s, i)
  BY DEF InvitationTold
<1>. QED
  BY <1>1, <1>2, <1>3 DEF InvitationsShown

KeepsLists(s) ==
  /\ cards'[s].members = cards[s].members /\ cards'[s].membersError = cards[s].membersError
  /\ cards'[s].invitations = cards[s].invitations
  /\ cards'[s].invitationsError = cards[s].invitationsError

LEMMA PageKept ==
  ASSUME PageShown, UNCHANGED <<session, listed, server>>, \A c \in calls : Stays(c),
         \A s \in listed : KeepsLists(s)
  PROVE  PageShown'
<1>1. UNCHANGED <<made, rows, pins>>
  BY DEF server
<1>2. \A s : Listing(s)' = Listing(s) /\ Open(s)' = Open(s)
  BY <1>1 DEF Listing, Open
<1>3. SpacesShown'
  BY <1>1, SpacesKept DEF PageShown
<1>4. ASSUME NEW s \in listed PROVE MembersShown(s)' /\ InvitationsShown(s)'
  <2>1. MembersShown(s) /\ InvitationsShown(s) /\ KeepsLists(s)
    BY <1>4 DEF PageShown
  <2>2. \A m \in Members \cap {} : FALSE
    OBVIOUS
  <2>3. \A i \in Invites \cap {} : FALSE
    OBVIOUS
  <2>4. MembersShown(s)'
    BY <1>2, <2>1, <2>2, MembersKept DEF KeepsLists
  <2>5. InvitationsShown(s)'
    BY <1>2, <2>1, <2>3, InvitationsKept DEF KeepsLists
  <2>. QED
    BY <2>4, <2>5
<1>. QED
  BY <1>3, <1>4 DEF PageShown

\* While a list is under way no change is.
LEMMA OnlyLists ==
  ASSUME ListCalls, NEW c \in calls, c.kind \in Lists
  PROVE  ChangeCalls /\ \A d \in calls : d.kind \in Lists
<1>1. \A d \in calls : d.kind \in Lists
  BY DEF ListCalls
<1>2. \A d \in calls : d.kind \notin MemberChanges /\ d.kind # "exchange"
  BY <1>1 DEF Lists, MemberChanges
<1>. QED
  BY <1>1, <1>2 DEF ChangeCalls

-----------------------------------------------------------------------------
(***************************************************************************)
(* The administrator's steps: a change is started from what is shown.      *)
(***************************************************************************)
LEMMA StartedLists ==
  ASSUME clean => ListCalls, NEW c, c.pc = "sent", Start(c), clean'
  PROVE  ListCalls' /\ (c.kind \notin Lists => clean /\ \A d \in calls : d.kind \notin Lists)
<1>1. calls' = calls \cup {c} /\ UNCHANGED <<made, rows, pins>>
  BY DEF Start, server
<1>2. \A d : ListAnswer(d)' <=> ListAnswer(d)
  BY <1>1 DEF ListAnswer, Listing, Open
<1>3. ListAnswer(c)
  BY DEF ListAnswer
<1>4. \/ calls = {} /\ c.kind \in Lists
      \/ clean /\ \A d \in calls : (d.kind \in Lists) = (c.kind \in Lists)
  BY DEF Start, Clean, Lists
<1>. QED
  BY <1>1, <1>2, <1>3, <1>4 DEF ListCalls

LEMMA StartedList ==
  ASSUME ListCalls', NEW c, c.kind \in Lists, calls' = calls \cup {c}
  PROVE  ChangeCalls'
BY DEF ListCalls, ChangeCalls, Lists, MemberChanges

LEMMA StartedChange ==
  ASSUME ShownInv, NEW c, c.pc = "sent", c.kind \notin Lists, Start(c), clean', session # None,
         UNCHANGED <<session, listed, modal>>, jwt.exchanging => jwt'.exchanging,
         \A s \in Spaces : KeepsLists(s) /\ cards[s].pending \subseteq cards'[s].pending,
         ChangeOf(c)',
         c.kind \in MemberChanges => \A d \in calls : d.kind \in MemberChanges => d.what # c.what,
         c.kind = "exchange" => \A d \in calls : d.kind # "exchange"
  PROVE  ChangeCalls' /\ PageShown'
<1>1. calls' = calls \cup {c} /\ UNCHANGED <<server, made, rows, pins>>
  BY DEF Start, server
<1>2. ChangeCalls /\ PageShown /\ \A d \in calls : d.kind \notin Lists
  BY StartedLists DEF ShownInv
<1>3. ASSUME NEW d \in calls PROVE ChangeOf(d)'
  <2>1. ChangeOf(d) /\ CallOK(d)
    BY <1>2 DEF ChangeCalls, ShownInv, Inv, CallsOK
  <2>2. d.kind \in MemberChanges => d.space \in Spaces
    BY <2>1 DEF CallOK, MemberChanges, ForServer
  <2>. QED
    BY <1>1, <2>1, <2>2 DEF ChangeOf, KeepsLists
<1>4. ChangeCalls'
  BY <1>1, <1>2, <1>3 DEF ChangeCalls
<1>5. listed \subseteq Spaces
  BY DEF ShownInv, Inv, TypeOK
<1>6. PageShown'
  BY <1>1, <1>2, <1>5, PageKept DEF Stays
<1>. QED
  BY <1>4, <1>6

LEMMA ChangeMemberShown ==
  ASSUME ShownInv, NEW kind \in MemberChanges, NEW s \in Spaces, NEW m \in Members,
         ChangeMember(kind, s, m), clean', session # None
  PROVE  ChangeCalls' /\ PageShown'
<1>1. PICK c : c = Call(started + 1, kind, session, s, m)
  OBVIOUS
<1>2. /\ c.pc = "sent" /\ c.kind = kind /\ c.of = session /\ c.space = s /\ c.what = m
      /\ Start(c) /\ kind \notin Lists /\ kind # "exchange" /\ kind # "delete" /\ kind # "create"
  BY <1>1 DEF Call, ChangeMember, MemberChanges, Lists
<1>3. /\ clean /\ ChangeCalls /\ PageShown /\ \A d \in calls : d.kind \notin Lists
      /\ TypeOK /\ UNCHANGED <<session, listed, modal, jwt, rows, made>>
  BY <1>2, StartedLists DEF ShownInv, ChangeMember, Start, server, Inv
<1>4. /\ s \in listed /\ m \in MembersOffered(kind, s) /\ IsOpen("members", s) /\ Home[m] = s
      /\ ~cards[s].membersError
      /\ IF kind = "revoke"
           THEN cards[s].members[m] = "active" /\ <<"revoke", m>> \notin cards[s].pending
           ELSE /\ cards[s].members[m] = "revoked"
                /\ <<"unrevoke", m>> \notin cards[s].pending /\ <<"remove", m>> \notin cards[s].pending
  BY DEF ChangeMember, MembersOffered, Pends, In
<1>5. ASSUME NEW d \in calls, d.kind \in MemberChanges PROVE d.what # m
  <2>1. ChangeOf(d)
    BY <1>3 DEF ChangeCalls
  <2>. QED
    BY <1>4, <1>5, <2>1 DEF ChangeOf, MemberChanges
<1>6. rows[m] # "none"
  <2>1. ~Refreshing /\ ~LoadUnder(s, {"all"})
    BY <1>3 DEF Refreshing, LoadUnder, Lists
  <2>2. ASSUME NEW d \in calls, MemberTold(d, s, m) PROVE FALSE
    <3>1. d.kind = "exchange"
      BY <1>5, <2>2 DEF MemberTold
    <3>2. modal = d.modal /\ d.modal.type = "invite"
      BY <1>3, <3>1 DEF ChangeCalls, ChangeOf, ShownInv, Inv, CallsOK, CallOK, InDialog
    <3>. QED
      BY <1>4, <3>2 DEF IsOpen
  <2>3. cards[s].members[m] = Listing(s)[m]
    BY <1>3, <1>4, <2>1, <2>2 DEF PageShown, MembersShown
  <2>. QED
    BY <1>4, <2>3 DEF Listing
<1>7. \A t \in Spaces : KeepsLists(t) /\ cards[t].pending \subseteq cards'[t].pending
  <2>1. cards \in [Spaces -> Cards] /\ cards[s] \in Cards
    BY <1>3 DEF TypeOK
  <2>2. PICK card : /\ card = [cards[s] EXCEPT !.pending = @ \cup {<<kind, m>>}, !.membersError = FALSE]
                    /\ cards' = [cards EXCEPT ![s] = card]
    BY <2>1 DEF ChangeMember
  <2>3. /\ card.members = cards[s].members /\ card.membersError = FALSE
        /\ card.invitations = cards[s].invitations
        /\ card.invitationsError = cards[s].invitationsError
        /\ card.pending = cards[s].pending \cup {<<kind, m>>}
    BY <2>1, <2>2 DEF Cards
  <2>4. cards[s].membersError = FALSE
    BY <1>4, <2>1 DEF Cards
  <2>. QED
    BY <2>1, <2>2, <2>3, <2>4 DEF KeepsLists
<1>8. <<kind, m>> \in cards'[s].pending
  BY <1>3 DEF ChangeMember, TypeOK, Cards
<1>9. ChangeOf(c)'
  BY <1>2, <1>3, <1>4, <1>6, <1>7, <1>8 DEF ChangeOf, KeepsLists
<1>. QED
  BY <1>2, <1>3, <1>5, <1>7, <1>9, StartedChange

LEMMA DeleteInvitationShown ==
  ASSUME ShownInv, NEW s \in Spaces, NEW i \in Invites, DeleteInvitation(s, i), clean',
         session # None
  PROVE  ChangeCalls' /\ PageShown'
<1>1. PICK c : c = Call(started + 1, "delete", session, s, i)
  OBVIOUS
<1>2. /\ c.pc = "sent" /\ c.kind = "delete" /\ c.of = session /\ c.space = s /\ c.what = i
      /\ Start(c) /\ c.kind \notin Lists /\ c.kind \notin MemberChanges
  BY <1>1 DEF Call, DeleteInvitation, MemberChanges, Lists
<1>3. /\ clean /\ ChangeCalls /\ PageShown /\ \A d \in calls : d.kind \notin Lists
      /\ TypeOK /\ UNCHANGED <<session, listed, modal, jwt>>
  BY <1>2, StartedLists DEF ShownInv, DeleteInvitation, Inv
<1>4. s \in listed /\ i \in cards[s].invitations /\ ~cards[s].invitationsError
  BY DEF DeleteInvitation, InvitationsOffered
<1>5. Home[i] = s
  <2>1. ~Refreshing /\ ~LoadUnder(s, {"all", "invitations"})
    BY <1>3 DEF Refreshing, LoadUnder, Lists
  <2>2. ASSUME NEW d \in calls, InvitationTold(d, s, i) PROVE Home[i] = s
    <3>1. d.kind \in {"delete", "exchange"} => Home[i] = s
      <4>1. ChangeOf(d)
        BY <1>3 DEF ChangeCalls
      <4>2. d.space = s /\ (d.kind \in {"delete", "exchange"} => d.what = i)
        BY <2>2 DEF InvitationTold
      <4>. QED
        BY <4>1, <4>2 DEF ChangeOf
    <3>2. d.kind = "generate" => Home[i] = s
      BY <2>2 DEF InvitationTold, ShownInv, Inv, CallsOK, CallOK, AnswerOK, In
    <3>. QED
      BY <2>2, <3>1, <3>2 DEF InvitationTold
  <2>. QED
    BY <1>3, <1>4, <2>1, <2>2 DEF PageShown, InvitationsShown, Open, In
<1>6. \A t \in Spaces : KeepsLists(t) /\ cards[t].pending \subseteq cards'[t].pending
  <2>1. cards \in [Spaces -> Cards] /\ cards[s] \in Cards
    BY <1>3 DEF TypeOK
  <2>2. PICK card :
          /\ card = [cards[s] EXCEPT !.pending = @ \cup {<<"delete", i>>}, !.invitationsError = FALSE]
          /\ cards' = [cards EXCEPT ![s] = card]
    BY <2>1 DEF DeleteInvitation
  <2>3. /\ card.members = cards[s].members /\ card.membersError = cards[s].membersError
        /\ card.invitations = cards[s].invitations /\ card.invitationsError = FALSE
        /\ card.pending = cards[s].pending \cup {<<"delete", i>>}
    BY <2>1, <2>2 DEF Cards
  <2>4. cards[s].invitationsError = FALSE
    BY <1>4, <2>1 DEF Cards
  <2>. QED
    BY <2>1, <2>2, <2>3, <2>4 DEF KeepsLists
<1>7. ChangeOf(c)'
  BY <1>2, <1>3, <1>5 DEF ChangeOf
<1>. QED
  BY <1>2, <1>3, <1>6, <1>7, StartedChange

LEMMA GenerateShown ==
  ASSUME ShownInv, NEW s \in Spaces, Generate(s), clean', session # None
  PROVE  ChangeCalls' /\ PageShown'
<1>1. PICK c : c = Call(started + 1, "generate", session, s, None)
  OBVIOUS
<1>2. /\ c.pc = "sent" /\ c.kind = "generate" /\ c.of = session /\ Start(c)
      /\ c.kind \notin Lists /\ c.kind \notin MemberChanges
  BY <1>1 DEF Call, Generate, MemberChanges, Lists
<1>3. TypeOK /\ UNCHANGED <<session, listed, modal, jwt>>
  BY DEF ShownInv, Generate, Inv
<1>4. \A t \in Spaces : KeepsLists(t) /\ cards[t].pending \subseteq cards'[t].pending
  BY <1>3 DEF Generate, TypeOK, Cards, KeepsLists
<1>5. ChangeOf(c)'
  BY <1>2, <1>3 DEF ChangeOf
<1>. QED
  BY <1>2, <1>3, <1>4, <1>5, StartedChange

LEMMA ExchangeShown ==
  ASSUME ShownInv, NEW s \in Spaces, Exchange(s), clean', session # None
  PROVE  ChangeCalls' /\ PageShown'
<1>1. PICK c : c = Call(started + 1, "exchange", session, s, cards[s].generated)
  OBVIOUS
<1>2. /\ c.pc = "sent" /\ c.kind = "exchange" /\ c.of = session /\ c.what = cards[s].generated
      /\ c.space = s /\ c.modal = modal /\ Start(c)
      /\ c.kind \notin Lists /\ c.kind \notin MemberChanges
  BY <1>1 DEF Call, Exchange, MemberChanges, Lists
<1>3. /\ clean /\ ChangeCalls /\ TypeOK /\ UNCHANGED <<session, listed, cards, modal>>
  BY <1>2, StartedLists DEF ShownInv, Exchange, Inv
<1>4. Home[c.what] = s /\ ~jwt.exchanging /\ jwt'.exchanging
  BY <1>2, <1>3 DEF Exchange, InviteOffered, ShownInv, Inv, SecretsInTheirDialog, TypeOK
<1>5. \A t \in Spaces : KeepsLists(t) /\ cards[t].pending \subseteq cards'[t].pending
  BY <1>3 DEF KeepsLists
<1>6. ChangeOf(c)'
  BY <1>2, <1>3, <1>4 DEF ChangeOf
<1>7. \A d \in calls : d.kind # "exchange"
  BY <1>3, <1>4 DEF ChangeCalls, ChangeOf, Lists
<1>. QED
  BY <1>2, <1>3, <1>4, <1>5, <1>6, <1>7, StartedChange

LEMMA CreateShown ==
  ASSUME ShownInv, CreateSpace, clean', session # None
  PROVE  ChangeCalls' /\ PageShown'
<1>1. PICK c : c = Call(started + 1, "create", session, None, None)
  OBVIOUS
<1>2. /\ c.pc = "sent" /\ c.kind = "create" /\ c.of = session /\ Start(c)
      /\ c.kind \notin Lists /\ c.kind \notin MemberChanges
      /\ UNCHANGED <<session, listed, cards, modal, jwt>>
  BY <1>1 DEF Call, CreateSpace, MemberChanges, Lists
<1>3. \A t \in Spaces : KeepsLists(t) /\ cards[t].pending \subseteq cards'[t].pending
  BY <1>2 DEF KeepsLists
<1>4. ChangeOf(c)'
  BY <1>2 DEF ChangeOf
<1>. QED
  BY <1>2, <1>3, <1>4, StartedChange

LEMMA AdministratorShown ==
  ASSUME ShownInv, Administrator
  PROVE  /\ clean' => ListCalls'
         /\ clean' /\ session' # None => ChangeCalls' /\ PageShown'
<1>1. TypeOK /\ (clean => ListCalls) /\ (clean /\ session # None => ChangeCalls /\ PageShown)
  BY DEF ShownInv, Inv
<1>2. ASSUME NEW c, c.pc = "sent", Start(c) PROVE clean' => ListCalls'
  BY <1>1, <1>2, StartedLists
<1>3. ASSUME NEW x \in Sessions, Submit(x)
      PROVE  (clean' => ListCalls') /\ session' = None
  <2>1. PICK c : c = Call(started + 1, "login", x, None, None)
    OBVIOUS
  <2>2. c.pc = "sent" /\ Start(c) /\ session' = None
    BY <1>3, <2>1 DEF Submit, Call
  <2>. QED
    BY <1>2, <2>2
<1>4. ASSUME Refresh PROVE clean' => ListCalls' /\ ChangeCalls' /\ PageShown'
  <2>1. PICK c : c = Call(started + 1, "refresh", session, None, None)
    OBVIOUS
  <2>2. /\ c.pc = "sent" /\ c.kind = "refresh" /\ c.of = session /\ Start(c) /\ session' = session
        /\ calls' = calls \cup {c}
    BY <1>4, <2>1 DEF Refresh, Call, Start
  <2>3. Refreshing'
    BY <2>2 DEF Refreshing
  <2>4. PageShown'
    BY <2>3 DEF PageShown, SpacesShown, MembersShown, InvitationsShown
  <2>5. clean' => ListCalls'
    BY <1>2, <2>2
  <2>. QED
    BY <2>2, <2>4, <2>5, StartedList DEF Lists
<1>5. ASSUME Logout PROVE (clean' => ListCalls') /\ session' = None
  <2>1. UNCHANGED <<calls, clean, made, rows, pins>> /\ session' = None
    BY <1>5 DEF Logout, Forget, server
  <2>. QED
    BY <1>1, <2>1 DEF ListCalls, ListAnswer, Listing, Open
<1>6. ASSUME CloseModal \/ \E s \in Spaces, type \in {"members", "invitations", "invite"} : OpenModal(type, s)
      PROVE  /\ clean' => ListCalls'
             /\ clean' /\ session' # None => ChangeCalls' /\ PageShown'
  <2>1. /\ UNCHANGED <<calls, clean, server, made, rows, pins, session, listed>> /\ ~jwt.exchanging
        /\ \A s \in Spaces : KeepsLists(s) /\ cards[s].pending = cards'[s].pending
    <3>1. \A s \in Spaces : /\ ClearedCards[s] \in Cards
                            /\ ClearedCards[s].members = cards[s].members
                            /\ ClearedCards[s].membersError = cards[s].membersError
                            /\ ClearedCards[s].invitations = cards[s].invitations
                            /\ ClearedCards[s].invitationsError = cards[s].invitationsError
                            /\ ClearedCards[s].pending = cards[s].pending
      BY <1>1 DEF TypeOK, Cards, ClearedCards
    <3>2. CASE CloseModal
      BY <3>1, <3>2 DEF CloseModal, server, KeepsLists
    <3>3. ASSUME NEW s \in Spaces, NEW type, OpenModal(type, s)
          PROVE  /\ UNCHANGED <<calls, clean, server, made, rows, pins, session, listed>>
                 /\ ~jwt.exchanging
                 /\ \A t \in Spaces : KeepsLists(t) /\ cards[t].pending = cards'[t].pending
      <4>1. PICK g : cards' = [ClearedCards EXCEPT ![s] = [ClearedCards[s] EXCEPT !.generated = g]]
        BY <3>3 DEF OpenModal, ClearedCards
      <4>2. \A t \in Spaces :
              /\ cards'[t].members = ClearedCards[t].members
              /\ cards'[t].membersError = ClearedCards[t].membersError
              /\ cards'[t].invitations = ClearedCards[t].invitations
              /\ cards'[t].invitationsError = ClearedCards[t].invitationsError
              /\ cards'[t].pending = ClearedCards[t].pending
        <5>1. PICK card : /\ card = [ClearedCards[s] EXCEPT !.generated = g]
                          /\ cards' = [ClearedCards EXCEPT ![s] = card]
          BY <4>1
        <5>2. /\ card.members = ClearedCards[s].members
              /\ card.membersError = ClearedCards[s].membersError
              /\ card.invitations = ClearedCards[s].invitations
              /\ card.invitationsError = ClearedCards[s].invitationsError
              /\ card.pending = ClearedCards[s].pending
          BY <3>1, <5>1 DEF Cards
        <5>3. \A t \in Spaces : cards'[t] = IF t = s THEN card ELSE ClearedCards[t]
          BY <5>1 DEF ClearedCards
        <5>. QED
          BY <5>2, <5>3
      <4>. QED
        BY <3>1, <3>3, <4>2 DEF OpenModal, server, KeepsLists
    <3>. QED
      BY <1>6, <3>2, <3>3
  <2>2. clean' => ListCalls'
    BY <1>1, <2>1 DEF ListCalls, ListAnswer, Listing, Open
  <2>3. ASSUME clean', session' # None PROVE ChangeCalls' /\ PageShown'
    <3>1. ChangeCalls /\ PageShown /\ listed \subseteq Spaces
      BY <1>1, <2>1, <2>3 DEF TypeOK
    <3>2. ASSUME NEW c \in calls, c.kind \notin Lists PROVE ChangeOf(c)'
      <4>1. ChangeOf(c) /\ CallOK(c)
        BY <3>1, <3>2 DEF ChangeCalls, ShownInv, Inv, CallsOK
      <4>2. c.kind \in MemberChanges => c.space \in Spaces
        BY <4>1 DEF CallOK, MemberChanges, ForServer
      <4>. QED
        BY <2>1, <4>1, <4>2 DEF ChangeOf, KeepsLists
    <3>. QED
      BY <2>1, <3>1, <3>2, PageKept DEF ChangeCalls, Stays
  <2>. QED
    BY <2>2, <2>3
<1>7. ASSUME NEW s \in Spaces, NEW kind \in MemberChanges, NEW m \in Members, ChangeMember(kind, s, m)
      PROVE  (clean' => ListCalls') /\ session' = session /\ session # None
  <2>1. PICK c : c = Call(started + 1, kind, session, s, m)
    OBVIOUS
  <2>2. c.pc = "sent" /\ Start(c) /\ session' = session /\ s \in listed
    BY <1>7, <2>1 DEF ChangeMember, Call
  <2>3. session # None
    BY <2>2, HomesOfSpaces DEF ShownInv, Inv, OfSession, In
  <2>. QED
    BY <1>2, <2>2, <2>3
<1>8. ASSUME NEW s \in Spaces, \/ \E i \in Invites : DeleteInvitation(s, i)
                               \/ Generate(s) \/ Exchange(s)
      PROVE  (clean' => ListCalls') /\ session' = session /\ session # None
  <2>1. PICK kind, x : /\ Start(Call(started + 1, kind, session, s, x))
                       /\ session' = session /\ s \in listed
    BY <1>8 DEF DeleteInvitation, Generate, Exchange
  <2>2. PICK c : c = Call(started + 1, kind, session, s, x)
    OBVIOUS
  <2>3. c.pc = "sent" /\ Start(c)
    BY <2>1, <2>2 DEF Call
  <2>4. session # None
    BY <2>1, HomesOfSpaces DEF ShownInv, Inv, OfSession, In
  <2>. QED
    BY <1>2, <2>1, <2>3, <2>4
<1>9. ASSUME CreateSpace PROVE (clean' => ListCalls') /\ session' = session /\ session # None
  <2>1. PICK c : c = Call(started + 1, "create", session, None, None)
    OBVIOUS
  <2>2. c.pc = "sent" /\ Start(c) /\ session' = session /\ session # None
    BY <1>9, <2>1 DEF CreateSpace, Call
  <2>. QED
    BY <1>2, <2>2
<1>. QED
  BY <1>3, <1>4, <1>5, <1>6, <1>7, <1>8, <1>9, ChangeMemberShown, DeleteInvitationShown,
     GenerateShown, ExchangeShown, CreateShown DEF Administrator

-----------------------------------------------------------------------------
(***************************************************************************)
(* The servers: what a change alters will be told by its answer.           *)
(***************************************************************************)
LEMMA ReplyCall ==
  ASSUME Inv, NEW c \in calls, NEW data, Reply(c, data) \/ ReplyHalf(c, data)
  PROVE  \E d : /\ SameCall(c, d) /\ calls' = (calls \ {c}) \cup {d} /\ (clean' => clean)
                /\ \/ d.pc = "ok" /\ d.data = data
                   \/ d.pc = "error" /\ (clean' => c.kind \in Changes \cup {"load"})
<1>1. CallOK(c)
  BY DEF Inv, CallsOK
<1>2. CASE calls' = (calls \ {c}) \cup {[c EXCEPT !.pc = "ok", !.data = data]} /\ clean' = clean
  <2>1. PICK d : d = With(c, "ok", data)
    OBVIOUS
  <2>2. SameCall(c, d) /\ d.data = data /\ d.pc = "ok"
    BY <1>1, <2>1, AnsweredCall
  <2>. QED
    BY <1>2, <2>1, <2>2 DEF With
<1>3. CASE /\ calls' = (calls \ {c}) \cup {[c EXCEPT !.pc = "error"]}
           /\ clean' = (clean /\ c.kind \in Changes \cup {"load"})
  <2>1. PICK d : d = [c EXCEPT !.pc = "error"]
    OBVIOUS
  <2>2. SameCall(c, d) /\ d.pc = "error"
    BY <1>1, <2>1, FailedCall
  <2>. QED
    BY <1>3, <2>1, <2>2
<1>. QED
  BY <1>2, <1>3 DEF Reply, ReplyHalf

LEMMA ServedLists ==
  ASSUME ListCalls, NEW c \in calls, NEW d, SameCall(c, d), calls' = (calls \ {c}) \cup {d},
         c.kind \in Lists => UNCHANGED <<made, rows, pins>> /\ ListAnswer(d)
  PROVE  ListCalls'
<1>1. \A e, f \in calls' : (e.kind \in Lists) = (f.kind \in Lists)
  BY DEF ListCalls, SameCall
<1>2. CASE c.kind \in Lists
  BY <1>1, <1>2 DEF ListCalls, ListAnswer, Listing, Open
<1>3. CASE c.kind \notin Lists
  BY <1>1, <1>3 DEF ListCalls, ListAnswer, Lists, SameCall
<1>. QED
  BY <1>2, <1>3

LEMMA ServedList ==
  ASSUME ListCalls, PageShown, NEW c \in calls, NEW d, SameCall(c, d), c.kind \in Lists,
         calls' = (calls \ {c}) \cup {d}, UNCHANGED <<page, server>>
  PROVE  ChangeCalls' /\ PageShown'
<1>1. \A e \in calls' : e.kind \in Lists
  BY DEF ListCalls, SameCall
<1>2. ChangeCalls'
  BY <1>1 DEF ChangeCalls, Lists, MemberChanges
<1>3. PageShown'
  BY PageKept DEF page, Stays, KeepsLists
<1>. QED
  BY <1>2, <1>3

LEMMA ServedChange ==
  ASSUME ShownInv, clean, session # None, NEW c \in calls, NEW d, SameCall(c, d),
         c.kind \notin Lists, c.pc = "sent",
         calls' = (calls \ {c}) \cup {d}, UNCHANGED page, made \subseteq made',
         \A s \in made' \ made : d.kind = "create" /\ d.pc = "ok" /\ d.data = s,
         \A m \in Members : rows'[m] = rows[m] \/ MemberTold(d, Home[m], m),
         \A i \in Invites : \/ pins'[i] = "open" <=> pins[i] = "open"
                            \/ InvitationTold(d, Home[i], i),
         \A i \in Invites : pins[i] = "used" => pins'[i] = "used",
         \A e \in calls \ {c} : e.kind \in MemberChanges => rows'[e.what] = rows[e.what],
         ChangeOf(d)'
  PROVE  ChangeCalls' /\ PageShown'
<1>1. UNCHANGED <<session, listed, cards, modal, jwt>>
  BY DEF page
<1>2. ChangeCalls /\ PageShown /\ ListCalls
  BY DEF ShownInv
<1>3. \A e \in calls : CallOK(e) /\ e.kind \notin Lists
  BY <1>2 DEF ShownInv, Inv, CallsOK, ListCalls
<1>4. ASSUME NEW e \in calls \ {c} PROVE ChangeOf(e)'
  <2>1. ChangeOf(e) /\ (e.kind = "delete" => e.what \in Invites)
    BY <1>2, <1>3 DEF ChangeCalls, CallOK
  <2>. QED
    BY <1>1, <2>1 DEF ChangeOf
<1>5. ChangeCalls'
  <2>1. ASSUME NEW e \in calls', NEW f \in calls',
               \/ e.kind \in MemberChanges /\ f.kind \in MemberChanges /\ e.what = f.what
               \/ e.kind = "exchange" /\ f.kind = "exchange"
        PROVE  e = f
    <3>1. PICK e1 \in calls : SameCall(e1, e) /\ (e1 = e \/ (e1 = c /\ e = d))
      BY DEF SameCall
    <3>2. PICK f1 \in calls : SameCall(f1, f) /\ (f1 = f \/ (f1 = c /\ f = d))
      BY DEF SameCall
    <3>3. e1 = f1
      BY <1>2, <2>1, <3>1, <3>2 DEF ChangeCalls, SameCall
    <3>4. (e = d \/ (e # c /\ e \in calls)) /\ (f = d \/ (f # c /\ f \in calls))
      OBVIOUS
    <3>. QED
      BY <3>1, <3>2, <3>3, <3>4
  <2>. QED
    BY <1>4, <2>1 DEF ChangeCalls
<1>6. \A e \in calls : Stays(e)
  BY <1>3 DEF Stays, Mute, Lists
<1>7. SpacesShown'
  <2>1. ~Refreshing
    BY <1>3 DEF Refreshing, Lists
  <2>2. \A e \in calls : e.pc = "ok" => e \in calls'
    OBVIOUS
  <2>3. SpacesShown
    BY <1>2 DEF PageShown
  <2>. QED
    BY <1>1, <2>1, <2>2, <2>3 DEF SpacesShown
<1>8. ASSUME NEW s \in listed PROVE MembersShown(s)'
  <2> DEFINE X == {m \in Members : Home[m] = s /\ rows'[m] # rows[m]}
  <2>1. \A m \in Members \ X : Listing(s)'[m] = Listing(s)[m]
    BY DEF Listing, In
  <2>2. \A m \in Members \cap X : \E e \in calls' : MemberTold(e, s, m)
    OBVIOUS
  <2>3. MembersShown(s)
    BY <1>2 DEF PageShown
  <2>. HIDE DEF X
  <2>. QED
    BY <1>1, <1>6, <2>1, <2>2, <2>3, MembersKept
<1>9. ASSUME NEW s \in listed PROVE InvitationsShown(s)'
  <2> DEFINE X == {i \in Invites : Home[i] = s /\ ~(pins'[i] = "open" <=> pins[i] = "open")}
  <2>1. \A i \in Invites \ X : i \in Open(s)' <=> i \in Open(s)
    BY DEF Open, In
  <2>2. \A i \in Invites \cap X : \E e \in calls' : InvitationTold(e, s, i)
    OBVIOUS
  <2>3. InvitationsShown(s)
    BY <1>2 DEF PageShown
  <2>. HIDE DEF X
  <2>. QED
    BY <1>1, <1>6, <2>1, <2>2, <2>3, InvitationsKept
<1>. QED
  BY <1>1, <1>5, <1>7, <1>8, <1>9 DEF PageShown

LEMMA ServeListShown ==
  ASSUME ShownInv, NEW c \in calls, ServeList(c) \/ (Refuse(c) /\ c.kind \in Lists), UNCHANGED page
  PROVE  /\ clean' => ListCalls'
         /\ clean' /\ session' # None => ChangeCalls' /\ PageShown'
<1>1. UNCHANGED <<server, made, rows, pins>> /\ c.kind \in Lists
  BY DEF ServeList, Refuse, server
<1>2. PICK d : /\ SameCall(c, d) /\ calls' = (calls \ {c}) \cup {d} /\ (clean' => clean)
               /\ clean' => ListAnswer(d)
  <2>1. CASE ServeList(c)
    <3> DEFINE lists == [members |-> Listing(c.space), invitations |-> Open(c.space)]
    <3>1. PICK data : /\ Reply(c, data) \/ ReplyHalf(c, data)
                      /\ \/ /\ c.kind = "load"
                            /\ data.members \in {None, Listing(c.space)}
                            /\ data.invitations \in {None, Open(c.space)}
                         \/ c.kind \in {"login", "refresh"} /\ data = In(Spaces, c.of) \cap made
      <4>1. CASE c.kind = "load" /\ Reply(c, lists)
        BY <4>1
      <4>2. CASE /\ c.kind = "load"
                 /\ \E part \in {"members", "invitations"} :
                      ReplyHalf(c, [lists EXCEPT ![part] = None])
        <5>1. PICK part \in {"members", "invitations"} : ReplyHalf(c, [lists EXCEPT ![part] = None])
          BY <4>2
        <5>2. PICK data : data = [lists EXCEPT ![part] = None]
          OBVIOUS
        <5>3. /\ data.members \in {None, Listing(c.space)}
              /\ data.invitations \in {None, Open(c.space)}
          BY <5>2
        <5>4. Reply(c, data) \/ ReplyHalf(c, data)
          BY <5>1, <5>2
        <5>. QED
          BY <4>2, <5>3, <5>4
      <4>3. CASE c.kind # "load" /\ Reply(c, In(Spaces, c.of) \cap made)
        BY <1>1, <4>3 DEF Lists
      <4>. QED
        BY <2>1, <4>1, <4>2, <4>3 DEF ServeList
    <3>2. PICK d : /\ SameCall(c, d) /\ calls' = (calls \ {c}) \cup {d} /\ (clean' => clean)
                   /\ \/ d.pc = "ok" /\ d.data = data
                      \/ d.pc = "error" /\ (clean' => c.kind \in Changes \cup {"load"})
      BY <3>1, ReplyCall DEF ShownInv
    <3>3. c.kind \in Changes \cup {"load"} => c.kind = "load"
      BY <1>1 DEF Lists, Changes, MemberChanges
    <3>4. clean' => ListAnswer(d)
      BY <3>1, <3>2, <3>3 DEF ListAnswer, SameCall
    <3>. QED
      BY <3>2, <3>4
  <2>2. CASE Refuse(c)
    <3>1. PICK pc \in {"error", "401"} : calls' = (calls \ {c}) \cup {[c EXCEPT !.pc = pc]}
      BY <2>2 DEF Refuse
    <3>2. PICK d : d = [c EXCEPT !.pc = pc]
      OBVIOUS
    <3>3. SameCall(c, d) /\ d.pc = pc
      BY <3>2, FailedCall DEF ShownInv, Inv, CallsOK
    <3>4. clean' => clean /\ c.kind = "load"
      BY <1>1, <2>2 DEF Refuse, Lists
    <3>. QED
      BY <3>1, <3>2, <3>3, <3>4 DEF ListAnswer, SameCall
  <2>. QED
    BY <2>1, <2>2
<1>3. clean' => ListCalls /\ ListCalls'
  BY <1>1, <1>2, ServedLists DEF ShownInv
<1>4. session' = session
  BY DEF page
<1>. QED
  BY <1>1, <1>2, <1>3, <1>4, ServedList DEF ShownInv

LEMMA ServeChangeShown ==
  ASSUME ShownInv, NEW c \in calls, c.pc = "sent", UNCHANGED page, c.kind \notin Lists,
         \/ ServeSpace(c) \/ ServeInvitation(c) \/ ServeExchange(c) \/ ServeChange(c) \/ Refuse(c)
  PROVE  /\ clean' => ListCalls'
         /\ clean' /\ session' # None => ChangeCalls' /\ PageShown'
<1>1. /\ CallOK(c) /\ TypeOK /\ session' = session /\ UNCHANGED <<cards, modal, jwt>>
  BY DEF ShownInv, Inv, CallsOK, page
<1>2. ASSUME NEW d, SameCall(c, d), calls' = (calls \ {c}) \cup {d}, clean' => clean
      PROVE  clean' => ListCalls'
  BY <1>2, ServedLists DEF ShownInv
<1>3. ASSUME clean, session # None PROVE ChangeOf(c) /\ ChangeCalls
  BY <1>3 DEF ShownInv, ChangeCalls
<1>4. CASE Refuse(c)
  <2>1. PICK pc \in {"error", "401"} : calls' = (calls \ {c}) \cup {[c EXCEPT !.pc = pc]}
    BY <1>4 DEF Refuse
  <2>2. PICK d : d = [c EXCEPT !.pc = pc]
    OBVIOUS
  <2>3. SameCall(c, d) /\ d.pc = pc
    BY <1>1, <2>2, FailedCall
  <2>4. (clean' => clean) /\ UNCHANGED <<made, rows, pins>>
    BY <1>4 DEF Refuse, server
  <2>5. clean /\ session # None => ChangeOf(d)'
    <3>1. CASE clean /\ session # None
      BY <1>1, <1>3, <2>3, <2>4, <3>1 DEF ChangeOf, SameCall
    <3>. QED
      BY <3>1
  <2>6. calls' = (calls \ {c}) \cup {d} /\ made \subseteq made'
    BY <2>1, <2>2, <2>4
  <2>7. clean /\ session # None => ChangeCalls' /\ PageShown'
    BY <2>3, <2>4, <2>5, <2>6, ServedChange
  <2>. QED
    BY <1>1, <1>2, <2>3, <2>4, <2>6, <2>7
<1>5. CASE ServeSpace(c)
  <2>1. PICK s \in In(Spaces, c.of) \ made : made' = made \cup {s} /\ Reply(c, s)
    BY <1>5 DEF ServeSpace
  <2>2. PICK d : /\ SameCall(c, d) /\ calls' = (calls \ {c}) \cup {d} /\ (clean' => clean)
                 /\ \/ d.pc = "ok" /\ d.data = s
                    \/ d.pc = "error" /\ (clean' => c.kind \in Changes \cup {"load"})
    BY <2>1, ReplyCall DEF ShownInv
  <2>3. UNCHANGED <<rows, pins>> /\ c.kind = "create"
    BY <1>5 DEF ServeSpace
  <2>4. clean' => clean /\ d.pc = "ok" /\ d.data = s
    BY <2>2, <2>3 DEF Changes, MemberChanges
  <2>5. clean' /\ session # None => ChangeOf(d)'
    <3>1. CASE clean' /\ session # None
      BY <1>1, <1>3, <2>1, <2>2, <2>3, <2>4, <3>1 DEF ChangeOf, SameCall, MemberChanges
    <3>. QED
      BY <3>1
  <2>6. made \subseteq made' /\ \A t \in made' \ made : t = s
    BY <2>1
  <2>7. d.kind = "create"
    BY <2>2, <2>3 DEF SameCall
  <2>8. clean' /\ session # None => ChangeCalls' /\ PageShown'
    BY <2>2, <2>3, <2>4, <2>5, <2>6, <2>7, ServedChange
  <2>. QED
    BY <1>1, <1>2, <2>2, <2>8
<1>6. CASE ServeInvitation(c)
  <2>1. PICK i \in In(Invites, c.space) :
          pins[i] = "none" /\ pins' = [pins EXCEPT ![i] = "open"] /\ Reply(c, i)
    BY <1>6 DEF ServeInvitation
  <2>2. PICK d : /\ SameCall(c, d) /\ calls' = (calls \ {c}) \cup {d} /\ (clean' => clean)
                 /\ \/ d.pc = "ok" /\ d.data = i
                    \/ d.pc = "error" /\ (clean' => c.kind \in Changes \cup {"load"})
    BY <2>1, ReplyCall DEF ShownInv
  <2>3. UNCHANGED <<made, rows>> /\ c.kind = "generate"
    BY <1>6 DEF ServeInvitation
  <2>4. clean' => clean /\ d.pc = "ok" /\ d.data = i
    BY <2>2, <2>3 DEF Changes, MemberChanges
  <2>5. clean' /\ session # None => ChangeOf(d)'
    <3>1. CASE clean' /\ session # None
      BY <1>1, <1>3, <2>2, <2>3, <3>1 DEF ChangeOf, SameCall, MemberChanges
    <3>. QED
      BY <3>1
  <2>6. /\ Home[i] = c.space /\ i \in Invites
        /\ \A j \in Invites : j # i => pins'[j] = pins[j]
        /\ \A j \in Invites : pins[j] = "used" => pins'[j] = "used"
    BY <1>1, <2>1 DEF In, TypeOK
  <2>7. clean' => InvitationTold(d, Home[i], i)
    BY <2>2, <2>3, <2>4, <2>6 DEF InvitationTold, SameCall
  <2>8. clean' => \A j \in Invites : \/ pins'[j] = "open" <=> pins[j] = "open"
                                     \/ InvitationTold(d, Home[j], j)
    BY <2>6, <2>7
  <2>9. made \subseteq made' /\ made' \ made = {}
    BY <2>3
  <2>10. clean' /\ session # None => ChangeCalls' /\ PageShown'
    BY <2>2, <2>3, <2>5, <2>6, <2>8, <2>9, ServedChange
  <2>. QED
    BY <1>1, <1>2, <2>2, <2>10
<1>7. CASE ServeExchange(c)
  <2>1. PICK m \in In(Members, c.space) :
          rows[m] = "none" /\ rows' = [rows EXCEPT ![m] = "active"] /\ Reply(c, m)
    BY <1>7 DEF ServeExchange
  <2>2. PICK d : /\ SameCall(c, d) /\ calls' = (calls \ {c}) \cup {d} /\ (clean' => clean)
                 /\ \/ d.pc = "ok" /\ d.data = m
                    \/ d.pc = "error" /\ (clean' => c.kind \in Changes \cup {"load"})
    BY <2>1, ReplyCall DEF ShownInv
  <2>3. /\ made' = made /\ c.kind = "exchange" /\ pins[c.what] = "open"
        /\ pins' = [pins EXCEPT ![c.what] = "used"]
    BY <1>7 DEF ServeExchange
  <2>4. clean' => clean /\ d.pc = "ok" /\ d.data = m
    BY <2>2, <2>3 DEF Changes, MemberChanges
  <2>5. clean' /\ session # None => ChangeOf(d)'
    <3>1. CASE clean' /\ session # None
      BY <1>1, <1>3, <2>2, <2>3, <3>1 DEF ChangeOf, SameCall, MemberChanges
    <3>. QED
      BY <3>1
  <2>6. /\ Home[m] = c.space /\ m \in Members /\ \A n \in Members : n # m => rows'[n] = rows[n]
        /\ \A j \in Invites : j # c.what => pins'[j] = pins[j]
        /\ \A j \in Invites : pins[j] = "used" => pins'[j] = "used"
    BY <1>1, <2>1, <2>3 DEF In, TypeOK
  <2>7. clean' /\ session # None => Home[c.what] = c.space
    BY <1>3, <2>2, <2>3 DEF ChangeOf
  <2>8. clean' => MemberTold(d, Home[m], m)
    BY <2>2, <2>3, <2>4, <2>6 DEF MemberTold, SameCall
  <2>9. clean' /\ session # None => InvitationTold(d, Home[c.what], c.what)
    BY <2>2, <2>3, <2>4, <2>7 DEF InvitationTold, SameCall
  <2>10. clean' /\ session # None => \A e \in calls \ {c} : e.kind \in MemberChanges => rows'[e.what] = rows[e.what]
    <3>1. ASSUME clean', session # None, NEW e \in calls, e.kind \in MemberChanges
          PROVE  rows'[e.what] = rows[e.what]
      <4>1. ChangeOf(e) /\ e.what \in Members
        BY <1>3, <2>2, <3>1
        DEF ChangeCalls, Lists, MemberChanges, ShownInv, Inv, CallsOK, CallOK
      <4>2. e.what # m
        BY <2>1, <3>1, <4>1 DEF ChangeOf
      <4>. QED
        BY <2>6, <4>1, <4>2
    <3>. QED
      BY <3>1
  <2>11. /\ made \subseteq made' /\ made' \ made = {}
         /\ clean' => \A n \in Members : rows'[n] = rows[n] \/ MemberTold(d, Home[n], n)
         /\ clean' /\ session # None =>
              \A j \in Invites : \/ pins'[j] = "open" <=> pins[j] = "open"
                                 \/ InvitationTold(d, Home[j], j)
    BY <2>3, <2>6, <2>8, <2>9
  <2>12. clean' /\ session # None => ChangeCalls' /\ PageShown'
    BY <2>2, <2>5, <2>6, <2>10, <2>11, ServedChange
  <2>. QED
    BY <1>1, <1>2, <2>2, <2>12
<1>8. CASE ServeChange(c)
  <2>1. Reply(c, None) /\ made' = made /\ c.kind \in Changes
    BY <1>8 DEF ServeChange, Changes
  <2>2. PICK d : /\ SameCall(c, d) /\ calls' = (calls \ {c}) \cup {d} /\ (clean' => clean)
                 /\ d.pc \in {"ok", "error"}
    BY <2>1, ReplyCall DEF ShownInv
  <2>3. made \subseteq made' /\ made' \ made = {}
    BY <2>1
  <2>4. CASE c.kind = "delete"
    <3>1. /\ pins[c.what] = "open" /\ pins' = [pins EXCEPT ![c.what] = "used"] /\ rows' = rows
          /\ c.what \in Invites
      BY <1>1, <1>8, <2>4 DEF ServeChange, MemberChanges, CallOK
    <3>2. clean /\ session # None => ChangeOf(d)' /\ Home[c.what] = c.space
      <4>1. CASE clean /\ session # None
        BY <1>1, <1>3, <2>2, <2>4, <3>1, <4>1 DEF ChangeOf, SameCall, MemberChanges, TypeOK
      <4>. QED
        BY <4>1
    <3>3. /\ \A j \in Invites : j # c.what => pins'[j] = pins[j]
          /\ \A j \in Invites : pins[j] = "used" => pins'[j] = "used"
      BY <1>1, <3>1 DEF TypeOK
    <3>4. clean /\ session # None => InvitationTold(d, Home[c.what], c.what)
      BY <2>2, <2>4, <3>2 DEF InvitationTold, SameCall
    <3>5. clean /\ session # None =>
            \A j \in Invites : \/ pins'[j] = "open" <=> pins[j] = "open"
                               \/ InvitationTold(d, Home[j], j)
      BY <3>3, <3>4
    <3>6. clean /\ session # None => ChangeCalls' /\ PageShown'
      BY <2>2, <2>3, <3>1, <3>2, <3>3, <3>5, ServedChange
    <3>. QED
      BY <1>1, <1>2, <2>2, <3>6
  <2>5. CASE c.kind \in MemberChanges
    <3>1. /\ rows' = [rows EXCEPT ![c.what] = RowAfter(c.kind)] /\ pins' = pins
          /\ c.what \in Members
      BY <1>1, <1>8, <2>5 DEF ServeChange, MemberChanges, CallOK, RowAfter
    <3>2. RowAfter(c.kind) # "none"
      BY <2>5 DEF RowAfter, MemberChanges
    <3>3. rows'[c.what] = RowAfter(c.kind) /\ \A n \in Members : n # c.what => rows'[n] = rows[n]
      BY <1>1, <3>1 DEF TypeOK
    <3>4. clean /\ session # None => ChangeOf(d)' /\ Home[c.what] = c.space
      <4>1. CASE clean /\ session # None
        BY <1>1, <1>3, <2>2, <2>5, <3>2, <3>3, <4>1 DEF ChangeOf, SameCall, MemberChanges
      <4>. QED
        BY <4>1
    <3>5. clean /\ session # None => MemberTold(d, Home[c.what], c.what)
      BY <2>2, <2>5, <3>4 DEF MemberTold, SameCall
    <3>6. clean /\ session # None =>
            \A n \in Members : rows'[n] = rows[n] \/ MemberTold(d, Home[n], n)
      BY <3>3, <3>5
    <3>7. clean /\ session # None =>
            \A e \in calls \ {c} : e.kind \in MemberChanges => rows'[e.what] = rows[e.what]
      BY <1>3, <2>5, <3>3 DEF ChangeCalls, ShownInv, Inv, CallsOK, CallOK
    <3>8. clean /\ session # None => ChangeCalls' /\ PageShown'
      BY <2>2, <2>3, <3>1, <3>4, <3>6, <3>7, ServedChange
    <3>. QED
      BY <1>1, <1>2, <2>2, <3>8
  <2>. QED
    BY <2>1, <2>4, <2>5 DEF Changes
<1>. QED
  BY <1>4, <1>5, <1>6, <1>7, <1>8

LEMMA ServeShown ==
  ASSUME ShownInv, Serve
  PROVE  /\ clean' => ListCalls'
         /\ clean' /\ session' # None => ChangeCalls' /\ PageShown'
<1>1. PICK c \in calls :
        /\ c.pc = "sent"
        /\ \/ ServeList(c) \/ ServeSpace(c) \/ ServeInvitation(c) \/ ServeExchange(c)
           \/ ServeChange(c) \/ Refuse(c)
  BY DEF Serve
<1>2. UNCHANGED page
  BY DEF Serve
<1>3. CASE ServeList(c) \/ (Refuse(c) /\ c.kind \in Lists)
  BY <1>2, <1>3, ServeListShown
<1>4. CASE /\ c.kind \notin Lists
           /\ \/ ServeSpace(c) \/ ServeInvitation(c) \/ ServeExchange(c) \/ ServeChange(c) \/ Refuse(c)
  BY <1>1, <1>2, <1>4, ServeChangeShown
<1>5. ServeSpace(c) \/ ServeInvitation(c) \/ ServeExchange(c) \/ ServeChange(c) => c.kind \notin Lists
  BY DEF ServeSpace, ServeInvitation, ServeExchange, ServeChange, Lists, MemberChanges
<1>. QED
  BY <1>1, <1>3, <1>4, <1>5

-----------------------------------------------------------------------------
(***************************************************************************)
(* The answers: the page shows what they tell, or asks anew.               *)
(***************************************************************************)
LEMMA AfterCalls ==
  ASSUME NEW c \in calls, NEW S, NEW x, Done(c, S, x)
  PROVE  /\ \A s \in S : \E l \in calls' :
              l.kind = "load" /\ l.of = c.of /\ l.space = s /\ l.what = x
         /\ \A l \in calls' : \/ l \in calls \ {c}
                              \/ S # {} /\ l.kind = "load" /\ l.pc = "sent"
         /\ calls \ {c} \subseteq calls'
         /\ clean' => clean /\ (S # {} => \A e \in calls \ {c} : e.kind \in Lists)
<1> DEFINE loads == {Call(c.nr, "load", c.of, s, x) : s \in S}
<1>1. ASSUME NEW s \in S
      PROVE  \E l \in loads : l.kind = "load" /\ l.of = c.of /\ l.space = s /\ l.what = x
  <2>1. Call(c.nr, "load", c.of, s, x) \in loads
    OBVIOUS
  <2>. QED
    BY <2>1 DEF Call
<1>2. \A l \in loads : S # {} /\ l.kind = "load" /\ l.pc = "sent"
  BY DEF Call
<1>3. S # {} => \E l \in loads : l.kind = "load"
  BY <1>1
<1>4. calls' = (calls \ {c}) \cup loads /\ clean' = (clean /\ Clean(loads, calls \ {c}))
  BY DEF Done
<1>. HIDE DEF loads
<1>5. clean' => clean /\ (S # {} => \A e \in calls \ {c} : e.kind \in Lists)
  BY <1>3, <1>4 DEF Clean, Lists
<1>. QED
  BY <1>1, <1>2, <1>4, <1>5

LEMMA AnsweredLists ==
  ASSUME clean => ListCalls, NEW c \in calls, NEW S, NEW x, Done(c, S, x), UNCHANGED server, clean'
  PROVE  clean /\ ListCalls /\ ListCalls'
<1>1. clean /\ ListCalls /\ UNCHANGED <<made, rows, pins>>
  BY AfterCalls DEF server
<1>2. \A l \in calls' : l \in calls \ {c} \/ (l.kind = "load" /\ l.pc = "sent")
  BY AfterCalls
<1>3. \A l \in calls' : ListAnswer(l)'
  BY <1>1, <1>2 DEF ListCalls, ListAnswer, Listing, Open
<1>4. \A l, k \in calls' : (l.kind \in Lists) = (k.kind \in Lists)
  <2>1. CASE S = {}
    BY <1>1, <2>1, AfterCalls DEF ListCalls
  <2>2. CASE S # {}
    BY <1>2, <2>2, AfterCalls DEF Lists
  <2>. QED
    BY <2>1, <2>2
<1>. QED
  BY <1>1, <1>3, <1>4 DEF ListCalls

LEMMA ListsAlone ==
  ASSUME \A l \in calls' : l.kind \in Lists
  PROVE  ChangeCalls'
BY DEF ChangeCalls, Lists, MemberChanges

\* A list of the session's spaces, and all of their cards asked for.
LEMMA Relisted ==
  ASSUME ListCalls, NEW c \in calls, c.kind \in {"login", "refresh"}, c.pc = "ok", session' = c.of,
         listed' = c.data, Done(c, c.data, "all"), UNCHANGED server
  PROVE  ChangeCalls' /\ PageShown'
<1>1. c.data = In(Spaces, c.of) \cap made /\ made' = made
  BY DEF ListCalls, ListAnswer, server
<1>2. \A l \in calls' : l.kind \in Lists
  BY OnlyLists, AfterCalls DEF Lists
<1>3. ChangeCalls'
  BY <1>2, ListsAlone
<1>4. SpacesShown'
  BY <1>1 DEF SpacesShown, In
<1>5. \A s \in listed' : LoadUnder(s, {"all"})' /\ LoadUnder(s, {"all", "invitations"})'
  BY AfterCalls DEF LoadUnder
<1>. QED
  BY <1>3, <1>4, <1>5 DEF PageShown, MembersShown, InvitationsShown

\* An answer that tells nothing.
LEMMA MuteShown ==
  ASSUME ShownInv, clean, session # None, NEW c \in calls, Mute(c), DoneFor(c),
         UNCHANGED <<session, listed, modal, server>>,
         \A s \in Spaces : KeepsLists(s) /\ cards'[s].pending = cards[s].pending,
         c.kind # "exchange" => jwt' = jwt
  PROVE  ChangeCalls' /\ PageShown'
<1>1. /\ calls' = calls \ {c} /\ ChangeCalls /\ PageShown /\ listed \subseteq Spaces
      /\ UNCHANGED <<made, rows, pins>>
  BY DEF DoneFor, Done, ShownInv, Inv, TypeOK, server
<1>2. PageShown'
  BY <1>1, PageKept DEF Stays
<1>3. ASSUME NEW e \in calls \ {c}, e.kind \notin Lists PROVE ChangeOf(e)'
  <2>1. ChangeOf(e) /\ CallOK(e)
    BY <1>1, <1>3 DEF ChangeCalls, ShownInv, Inv, CallsOK
  <2>2. e.kind \in MemberChanges => e.space \in Spaces
    BY <2>1 DEF CallOK, MemberChanges, ForServer
  <2>3. e.kind = "exchange" => c.kind # "exchange"
    BY <1>1, <1>3 DEF ChangeCalls
  <2>. QED
    BY <1>1, <2>1, <2>2, <2>3 DEF ChangeOf, KeepsLists
<1>. QED
  BY <1>1, <1>2, <1>3 DEF ChangeCalls

\* A change is followed by loads only if nothing else is under way.
LEMMA LoadsAlone ==
  ASSUME ShownInv, NEW c \in calls, c.kind \notin Lists, NEW S, S # {}, NEW x, Done(c, S, x), clean'
  PROVE  /\ calls = {c} /\ \A l \in calls' : l.kind \in Lists
         /\ ~Refreshing /\ \A s, X : ~LoadUnder(s, X)
<1>1. ListCalls /\ \A e \in calls \ {c} : e.kind \in Lists
  BY AfterCalls DEF ShownInv
<1>2. calls = {c}
  BY <1>1 DEF ListCalls
<1>. QED
  BY <1>2, AfterCalls DEF Lists, Refreshing, LoadUnder

LEMMA LoggedInShown ==
  ASSUME ShownInv, NEW c \in calls, LoggedIn(c), UNCHANGED server, c.pc # "sent", clean',
         session' # None
  PROVE  ChangeCalls' /\ PageShown'
<1>1. c.pc = "ok" /\ session' = c.of /\ listed' = c.data /\ Done(c, c.data, "all") /\ c.kind = "login"
  BY DEF LoggedIn, SetSpaces
<1>2. ListCalls
  BY <1>1, AnsweredLists DEF ShownInv
<1>. QED
  BY <1>1, <1>2, Relisted

LEMMA RefreshedShown ==
  ASSUME ShownInv, NEW c \in calls, Refreshed(c), UNCHANGED server, c.pc # "sent", clean',
         session' # None
  PROVE  ChangeCalls' /\ PageShown'
<1>1. c.kind = "refresh" /\ UNCHANGED <<session, modal, jwt>>
  BY DEF Refreshed
<1>2. clean /\ ListCalls
  BY AnsweredLists DEF ShownInv, Refreshed, DoneFor
<1>3. c.pc = "ok"
  BY <1>1, <1>2 DEF ListCalls, ListAnswer
<1>4. CASE Current(c)
  <2>1. session' = c.of /\ listed' = c.data /\ Done(c, c.data, "all")
    BY <1>1, <1>3, <1>4 DEF Refreshed, SetSpaces, Current
  <2>. QED
    BY <1>1, <1>2, <1>3, <2>1, Relisted
<1>5. CASE ~Current(c)
  <2>1. DoneFor(c) /\ UNCHANGED <<listed, cards>>
    BY <1>5 DEF Refreshed
  <2>2. Mute(c)
    BY <1>1, <1>5 DEF Mute, Current, Changes, MemberChanges
  <2>. QED
    BY <1>1, <1>2, <2>1, <2>2, MuteShown DEF KeepsLists
<1>. QED
  BY <1>4, <1>5

LEMMA UnauthorizedShown ==
  ASSUME ShownInv, NEW c \in calls, Unauthorized(c), UNCHANGED server, clean', session' # None
  PROVE  ChangeCalls' /\ PageShown'
<1>1. c.kind = "load" /\ ~Current(c) /\ Late(c)
  BY DEF Unauthorized, Forget
<1>2. clean /\ DoneFor(c) /\ UNCHANGED <<session, listed, cards, modal, jwt>>
  BY <1>1, AfterCalls DEF Late, DoneFor
<1>3. Mute(c)
  BY <1>1 DEF Mute, Current, Changes, MemberChanges
<1>. QED
  BY <1>1, <1>2, <1>3, MuteShown DEF KeepsLists

LEMMA SpaceCreatedShown ==
  ASSUME ShownInv, NEW c \in calls, SpaceCreated(c), UNCHANGED server, clean', session' # None
  PROVE  ChangeCalls' /\ PageShown'
<1>1. /\ c.kind = "create" /\ UNCHANGED <<session, modal, jwt>> /\ c.kind \notin Lists
      /\ c.kind \notin Changes /\ c.kind \notin MemberChanges
  BY DEF SpaceCreated, Lists, Changes, MemberChanges
<1>2. clean
  BY AfterCalls DEF SpaceCreated, DoneFor
<1>3. /\ ChangeCalls /\ PageShown /\ ChangeOf(c) /\ Current(c)
      /\ UNCHANGED <<made, rows, pins>>
  BY <1>1, <1>2 DEF ShownInv, ChangeCalls, ChangeOf, Current, server
<1>4. CASE c.pc = "ok"
  <2>1. SetSpaces(listed \cup {c.data}, {c.data}) /\ Done(c, {c.data}, "all")
    BY <1>3, <1>4 DEF SpaceCreated
  <2>2. /\ calls = {c} /\ \A l \in calls' : l.kind \in Lists
        /\ ~Refreshing /\ \A s, X : ~LoadUnder(s, X)
    BY <1>1, <2>1, LoadsAlone
  <2>3. listed' = listed \cup {c.data} /\ c.data \in made
    BY <1>1, <1>3, <1>4, <2>1 DEF SetSpaces, ChangeOf
  <2>4. SpacesShown'
    BY <1>1, <1>3, <2>2, <2>3 DEF PageShown, SpacesShown
  <2>5. LoadUnder(c.data, {"all"})' /\ LoadUnder(c.data, {"all", "invitations"})'
    BY <1>1, <1>3, <2>1, AfterCalls DEF LoadUnder, Current
  <2>6. ASSUME NEW s \in listed, s # c.data PROVE MembersShown(s)' /\ InvitationsShown(s)'
    <3>1. cards'[s] = cards[s]
      BY <2>1, <2>6 DEF SetSpaces, ShownInv, Inv, TypeOK
    <3>2. /\ \A m : ~MemberTold(c, s, m)
          /\ \A i : ~InvitationTold(c, s, i)
      BY <1>1 DEF MemberTold, InvitationTold
    <3>3. Listing(s)' = Listing(s) /\ Open(s)' = Open(s)
      BY <1>3 DEF Listing, Open
    <3>. QED
      BY <1>3, <2>2, <3>1, <3>2, <3>3 DEF PageShown, MembersShown, InvitationsShown
  <2>7. PageShown'
    BY <2>3, <2>4, <2>5, <2>6 DEF PageShown, MembersShown, InvitationsShown
  <2>. QED
    BY <2>2, <2>7, ListsAlone
<1>5. CASE c.pc # "ok"
  <2>1. DoneFor(c) /\ UNCHANGED <<listed, cards>>
    BY <1>5 DEF SpaceCreated
  <2>2. Mute(c)
    BY <1>1, <1>5 DEF Mute
  <2>. QED
    BY <1>1, <1>2, <2>1, <2>2, MuteShown DEF KeepsLists
<1>. QED
  BY <1>4, <1>5

LEMMA LoadedShown ==
  ASSUME ShownInv, NEW c \in calls, Loaded(c), UNCHANGED server, clean', session' # None
  PROVE  ChangeCalls' /\ PageShown'
<1>1. c.kind = "load" /\ DoneFor(c) /\ UNCHANGED <<session, listed, modal, jwt>> /\ c.kind \in Lists
  BY DEF Loaded, Settled, Lists
<1>2. clean /\ ListCalls /\ PageShown /\ calls' = calls \ {c} /\ UNCHANGED <<made, rows, pins>>
  BY <1>1, AnsweredLists DEF ShownInv, DoneFor, Done, server
<1>3. \A l \in calls : l.kind \in Lists
  BY <1>1, <1>2, OnlyLists
<1>4. CASE ~Current(c)
  <2>1. cards' = cards /\ Mute(c)
    BY <1>1, <1>4 DEF Loaded, Settled, Mute, Current, Changes, MemberChanges
  <2>. QED
    BY <1>1, <1>2, <2>1, MuteShown DEF KeepsLists
<1>5. CASE Current(c)
  <2>1. CallOK(c) /\ c.space \in Spaces /\ ListAnswer(c)
    BY <1>1, <1>2 DEF ShownInv, Inv, CallsOK, CallOK, ForServer, ListCalls
  <2>2. cards \in [Spaces -> Cards] /\ cards[c.space] \in Cards /\ listed \subseteq Spaces
    BY <2>1 DEF ShownInv, Inv, TypeOK
  <2>3. PICK card : card = LoadedCard(cards[c.space], c)
    OBVIOUS
  <2>4. /\ cards' = [cards EXCEPT ![c.space] = card] /\ cards'[c.space] = card
        /\ \A s \in Spaces : s # c.space => cards'[s] = cards[s]
    BY <1>5, <2>1, <2>2, <2>3 DEF Loaded, Settled
  <2>5. /\ IF c.what # "all"
             THEN card.members = cards[c.space].members /\ card.membersError = cards[c.space].membersError
             ELSE card.membersError \/ card.members = Listing(c.space)
        /\ card.invitationsError \/ card.invitations = Open(c.space)
    <3>1. c.pc = "ok" => /\ c.data.members \in {None, Listing(c.space)}
                         /\ c.data.invitations \in {None, Open(c.space)}
      BY <1>1, <2>1 DEF ListAnswer
    <3>. QED
      BY <1>1, <2>1, <2>2, <2>3, <3>1, LoadedTypes
  <2>6. /\ \A s : Listing(s)' = Listing(s) /\ Open(s)' = Open(s)
        /\ \A l \in calls : \A s, x : ~MemberTold(l, s, x) /\ ~InvitationTold(l, s, x)
        /\ Refreshing => Refreshing'
        /\ \A l \in calls : l.kind # "create"
    BY <1>1, <1>2, <1>3 DEF Listing, Open, MemberTold, InvitationTold, Refreshing, Lists, MemberChanges
  <2>7. SpacesShown'
    BY <1>1, <1>2, <2>6 DEF PageShown, SpacesShown
  <2>8. ASSUME NEW s \in listed PROVE MembersShown(s)'
    <3>1. CASE s = c.space /\ c.what = "all"
      BY <2>4, <2>5, <2>6, <3>1 DEF MembersShown
    <3>2. CASE s # c.space \/ c.what # "all"
      <4>1. cards'[s].members = cards[s].members /\ cards'[s].membersError = cards[s].membersError
        BY <2>2, <2>4, <2>5, <2>8, <3>2
      <4>2. LoadUnder(s, {"all"}) => LoadUnder(s, {"all"})'
        BY <1>1, <1>2, <3>2 DEF LoadUnder
      <4>. QED
        BY <1>2, <2>6, <4>1, <4>2 DEF PageShown, MembersShown
    <3>. QED
      BY <3>1, <3>2
  <2>9. ASSUME NEW s \in listed PROVE InvitationsShown(s)'
    <3>1. CASE s = c.space
      BY <2>4, <2>5, <2>6, <3>1 DEF InvitationsShown
    <3>2. CASE s # c.space
      <4>1. cards'[s] = cards[s]
        BY <2>2, <2>4, <2>9, <3>2
      <4>2. LoadUnder(s, {"all", "invitations"}) => LoadUnder(s, {"all", "invitations"})'
        BY <1>1, <1>2, <3>2 DEF LoadUnder
      <4>. QED
        BY <1>2, <2>6, <4>1, <4>2 DEF PageShown, InvitationsShown
    <3>. QED
      BY <3>1, <3>2
  <2>10. PageShown'
    BY <1>1, <2>7, <2>8, <2>9 DEF PageShown
  <2>. QED
    BY <1>2, <1>3, <2>10, ListsAlone
<1>. QED
  BY <1>4, <1>5

\* The answer to a change of one row: its card follows it, or shows an error.
LEMMA SettledShown ==
  ASSUME ShownInv, clean, session # None, NEW c \in calls, c.kind \in Changes, c.pc # "sent",
         DoneFor(c), UNCHANGED <<session, listed, modal, jwt, server>>,
         NEW card, cards' = [cards EXCEPT ![c.space] = card],
         card.pending = cards[c.space].pending \ {<<c.kind, c.what>>},
         \A m \in Members : \/ card.members[m] = cards[c.space].members[m]
                            \/ (c.kind \in MemberChanges /\ m = c.what),
         cards[c.space].membersError => card.membersError,
         c.kind \in MemberChanges =>
           card.membersError \/ card.members[c.what] = Listing(c.space)[c.what],
         \A i \in Invites : \/ i \in card.invitations <=> i \in cards[c.space].invitations
                            \/ (c.kind = "delete" /\ i = c.what),
         cards[c.space].invitationsError => card.invitationsError,
         c.kind = "delete" =>
           card.invitationsError \/ (c.what \notin card.invitations /\ c.what \notin Open(c.space))
  PROVE  ChangeCalls' /\ PageShown'
<1>1. /\ calls' = calls \ {c} /\ ChangeCalls /\ PageShown /\ listed \subseteq Spaces
      /\ UNCHANGED <<made, rows, pins>> /\ cards \in [Spaces -> Cards]
      /\ CallOK(c) /\ c.space \in Spaces
  BY DEF DoneFor, Done, ShownInv, Inv, CallsOK, CallOK, TypeOK, server, ForServer, Changes, MemberChanges
<1>2. cards'[c.space] = card /\ \A s \in Spaces : s # c.space => cards'[s] = cards[s]
  BY <1>1
<1>3. \A e \in calls : e.kind \notin Lists
  BY DEF ShownInv, ListCalls, Changes, MemberChanges, Lists
<1>4. ASSUME NEW e \in calls \ {c} PROVE ChangeOf(e)'
  <2>1. ChangeOf(e)
    BY <1>1, <1>3 DEF ChangeCalls
  <2>2. CASE e.kind \in MemberChanges
    <3>1. CallOK(e) /\ e.space \in Spaces /\ e.what \in Members
      BY <2>2 DEF ShownInv, Inv, CallsOK, CallOK, MemberChanges, ForServer
    <3>2. c.kind \in MemberChanges => e.what # c.what
      BY <1>1, <2>2 DEF ChangeCalls
    <3>3. /\ <<e.kind, e.what>> \in cards'[e.space].pending
          /\ cards'[e.space].members[e.what] = cards[e.space].members[e.what]
      BY <1>2, <2>1, <2>2, <3>1, <3>2 DEF ChangeOf
    <3>. QED
      BY <1>1, <2>1, <2>2, <3>3 DEF ChangeOf, MemberChanges
  <2>3. CASE e.kind \notin MemberChanges
    BY <1>1, <2>1, <2>3 DEF ChangeOf
  <2>. QED
    BY <2>2, <2>3
<1>5. ChangeCalls'
  BY <1>1, <1>4 DEF ChangeCalls
<1>6. \A s : Listing(s)' = Listing(s) /\ Open(s)' = Open(s)
  BY <1>1 DEF Listing, Open
<1>7. ~Refreshing /\ \A s, X : ~LoadUnder(s, X)
  BY <1>3 DEF Refreshing, LoadUnder, Lists
<1>8. SpacesShown'
  BY <1>1, <1>7 DEF PageShown, SpacesShown, Changes, MemberChanges
<1>9. ASSUME NEW s \in listed PROVE MembersShown(s)'
  <2>1. \/ cards[s].membersError
        \/ \A m \in Members : \/ cards[s].members[m] = Listing(s)[m]
                              \/ \E e \in calls : MemberTold(e, s, m)
    BY <1>1, <1>7, <1>9 DEF PageShown, MembersShown
  <2>2. \A m \in Members : MemberTold(c, s, m) => c.kind \in MemberChanges /\ s = c.space /\ m = c.what
    BY DEF MemberTold, Changes, MemberChanges
  <2>3. CASE s = c.space
    BY <1>1, <1>2, <1>6, <2>1, <2>2, <2>3 DEF MembersShown
  <2>4. CASE s # c.space
    BY <1>1, <1>2, <1>6, <1>9, <2>1, <2>2, <2>4 DEF MembersShown
  <2>. QED
    BY <2>3, <2>4
<1>10. ASSUME NEW s \in listed PROVE InvitationsShown(s)'
  <2>1. \/ cards[s].invitationsError
        \/ \A i \in Invites : \/ i \in cards[s].invitations <=> i \in Open(s)
                              \/ \E e \in calls : InvitationTold(e, s, i)
    BY <1>1, <1>7, <1>10 DEF PageShown, InvitationsShown
  <2>2. \A i \in Invites : InvitationTold(c, s, i) => c.kind = "delete" /\ s = c.space /\ i = c.what
    BY DEF InvitationTold, Changes, MemberChanges
  <2>3. CASE s = c.space
    BY <1>1, <1>2, <1>6, <2>1, <2>2, <2>3 DEF InvitationsShown
  <2>4. CASE s # c.space
    BY <1>1, <1>2, <1>6, <1>10, <2>1, <2>2, <2>4 DEF InvitationsShown
  <2>. QED
    BY <2>3, <2>4
<1>. QED
  BY <1>1, <1>5, <1>8, <1>9, <1>10 DEF PageShown

LEMMA MemberChangedShown ==
  ASSUME ShownInv, NEW c \in calls, MemberChanged(c), UNCHANGED server, clean', session' # None,
         c.pc # "sent"
  PROVE  ChangeCalls' /\ PageShown'
<1>1. /\ c.kind \in MemberChanges /\ c.kind \in Changes /\ c.kind \notin Lists /\ DoneFor(c)
      /\ UNCHANGED <<session, listed, modal, jwt>> /\ c.kind # "delete"
  BY DEF MemberChanged, Settled, Changes, MemberChanges, Lists
<1>2. clean
  BY <1>1, AfterCalls DEF DoneFor
<1>3. ChangeOf(c) /\ Current(c) /\ CallOK(c) /\ c.what \in Members /\ c.space \in Spaces
  BY <1>1, <1>2 DEF ShownInv, ChangeCalls, ChangeOf, Current, Inv, CallsOK, CallOK, MemberChanges, ForServer
<1>4. cards \in [Spaces -> Cards] /\ cards[c.space] \in Cards
  BY <1>3 DEF ShownInv, Inv, TypeOK
<1>5. PICK card : card = ChangedCard(cards[c.space], c) /\ cards' = [cards EXCEPT ![c.space] = card]
  BY <1>3 DEF MemberChanged, Settled
<1>6. PICK row : row = IF c.pc = "ok" /\ cards[c.space].members[c.what] # "none"
                          THEN CASE c.kind = "revoke" -> "revoked" [] c.kind = "unrevoke" -> "active"
                                 [] c.kind = "remove" -> "none"
                          ELSE cards[c.space].members[c.what]
  OBVIOUS
<1> DEFINE was == cards[c.space]
           members == [was.members EXCEPT ![c.what] = row]
           pending == was.pending \ {<<c.kind, c.what>>}
           error == (was.membersError \/ c.pc # "ok")
<1>7. card = [was EXCEPT !.pending = pending, !.members = members, !.membersError = error]
  <2>1. card = [was EXCEPT !.pending = @ \ {<<c.kind, c.what>>}, !.members[c.what] = row,
                           !.membersError = @ \/ ~(c.pc = "ok")]
    BY <1>5, <1>6 DEF ChangedCard
  <2>. QED
    BY <1>4, <2>1 DEF Cards
<1>8. was \in Cards
  BY <1>4
<1>. HIDE DEF members, pending, error, was
<1>9. /\ card.pending = pending
       /\ card.membersError = error /\ card.members = members
       /\ card.invitations = was.invitations /\ card.invitationsError = was.invitationsError
  BY <1>7, <1>8 DEF Cards
<1>10. /\ card.pending = cards[c.space].pending \ {<<c.kind, c.what>>}
      /\ card.membersError = (cards[c.space].membersError \/ c.pc # "ok")
      /\ card.invitations = cards[c.space].invitations
      /\ card.invitationsError = cards[c.space].invitationsError
      /\ card.members = [cards[c.space].members EXCEPT ![c.what] = row]
  BY <1>9 DEF members, pending, error, was
<1>11. \A m \in Members : m # c.what => card.members[m] = cards[c.space].members[m]
  BY <1>4, <1>10 DEF Cards
<1>12. c.pc = "ok" => card.members[c.what] = Listing(c.space)[c.what]
  <2>1. card.members[c.what] = row
    BY <1>3, <1>4, <1>10 DEF Cards
  <2>. QED
    BY <1>1, <1>3, <1>6, <2>1 DEF ChangeOf, RowAfter, MemberChanges, Listing, In, Shown
<1>13. /\ cards[c.space].membersError => card.membersError
       /\ card.membersError \/ card.members[c.what] = Listing(c.space)[c.what]
  BY <1>10, <1>12
<1>14. \A m \in Members : \/ card.members[m] = cards[c.space].members[m]
                          \/ (c.kind \in MemberChanges /\ m = c.what)
  BY <1>1, <1>11
<1>15. \A i \in Invites : \/ i \in card.invitations <=> i \in cards[c.space].invitations
                          \/ (c.kind = "delete" /\ i = c.what)
  BY <1>10
<1>16. cards' = [cards EXCEPT ![c.space] = card] /\ card.pending = cards[c.space].pending \ {<<c.kind, c.what>>}
  BY <1>5, <1>10
<1>17. cards[c.space].invitationsError => card.invitationsError
  BY <1>10
<1>. QED
  BY <1>1, <1>2, <1>13, <1>14, <1>15, <1>16, <1>17, SettledShown

LEMMA InvitationDeletedShown ==
  ASSUME ShownInv, NEW c \in calls, InvitationDeleted(c), UNCHANGED server, clean', session' # None,
         c.pc # "sent"
  PROVE  ChangeCalls' /\ PageShown'
<1>1. /\ c.kind = "delete" /\ c.kind \in Changes /\ c.kind \notin Lists /\ DoneFor(c)
      /\ UNCHANGED <<session, listed, modal, jwt>> /\ c.kind \notin MemberChanges
  BY DEF InvitationDeleted, Settled, Changes, MemberChanges, Lists
<1>2. clean
  BY <1>1, AfterCalls DEF DoneFor
<1>3. ChangeOf(c) /\ Current(c) /\ c.space \in Spaces
  BY <1>1, <1>2 DEF ShownInv, ChangeCalls, ChangeOf, Current, Inv, CallsOK, CallOK, ForServer
<1>4. cards \in [Spaces -> Cards] /\ cards[c.space] \in Cards
  BY <1>3 DEF ShownInv, Inv, TypeOK
<1>5. PICK card : card = DeletedCard(cards[c.space], c) /\ cards' = [cards EXCEPT ![c.space] = card]
  BY <1>3 DEF InvitationDeleted, Settled
<1>6. /\ card.pending = cards[c.space].pending \ {<<c.kind, c.what>>}
      /\ card.members = cards[c.space].members /\ card.membersError = cards[c.space].membersError
      /\ card.invitations = IF c.pc = "ok" THEN cards[c.space].invitations \ {c.what}
                            ELSE cards[c.space].invitations
      /\ card.invitationsError = (cards[c.space].invitationsError \/ c.pc # "ok")
  BY <1>4, <1>5 DEF DeletedCard, Cards
<1>7. c.pc = "ok" => c.what \notin Open(c.space)
  BY <1>1, <1>3 DEF ChangeOf, Open
<1>. QED
  BY <1>1, <1>2, <1>5, <1>6, <1>7, SettledShown

\* A change that goes through with nothing else under way, and is followed by loads.
LEMMA FollowedShown ==
  ASSUME ShownInv, clean, session # None, NEW c, calls = {c}, c.kind \in InDialog,
         \A l \in calls' : l.kind \in Lists, ~Refreshing, \A s, X : ~LoadUnder(s, X),
         UNCHANGED <<session, listed, server>>,
         \A s \in listed : s # c.space => KeepsLists(s),
         LoadUnder(c.space, {"all", "invitations"})',
         \/ LoadUnder(c.space, {"all"})'
         \/ /\ c.kind = "generate"
            /\ cards'[c.space].members = cards[c.space].members
            /\ cards'[c.space].membersError = cards[c.space].membersError
  PROVE  ChangeCalls' /\ PageShown'
<1>1. PageShown /\ UNCHANGED <<made, rows, pins>>
  BY DEF ShownInv, server
<1>2. \A s : Listing(s)' = Listing(s) /\ Open(s)' = Open(s)
  BY <1>1 DEF Listing, Open
<1>3. SpacesShown'
  BY <1>1 DEF PageShown, SpacesShown, InDialog
<1>4. ASSUME NEW s \in listed PROVE MembersShown(s)' /\ InvitationsShown(s)'
  <2>1. \/ cards[s].membersError
        \/ \A m \in Members : cards[s].members[m] = Listing(s)[m] \/ MemberTold(c, s, m)
    BY <1>1, <1>4 DEF PageShown, MembersShown
  <2>2. \/ cards[s].invitationsError
        \/ \A i \in Invites : (i \in cards[s].invitations <=> i \in Open(s)) \/ InvitationTold(c, s, i)
    BY <1>1, <1>4 DEF PageShown, InvitationsShown
  <2>3. CASE s # c.space
    BY <1>2, <1>4, <2>1, <2>2, <2>3 DEF MemberTold, InvitationTold, MembersShown, InvitationsShown, KeepsLists
  <2>4. CASE s = c.space
    <3>1. InvitationsShown(s)'
      BY <2>4 DEF InvitationsShown
    <3>2. MembersShown(s)'
      BY <1>2, <2>1, <2>4 DEF MemberTold, MembersShown, MemberChanges
    <3>. QED
      BY <3>1, <3>2
  <2>. QED
    BY <2>3, <2>4
<1>. QED
  BY <1>3, <1>4, ListsAlone DEF PageShown

LEMMA GeneratedShown ==
  ASSUME ShownInv, NEW c \in calls, Generated(c), UNCHANGED server, clean', session' # None
  PROVE  ChangeCalls' /\ PageShown'
<1>1. /\ c.kind = "generate" /\ UNCHANGED <<session, listed, modal, jwt>> /\ c.kind \notin Lists
      /\ c.kind \notin Changes /\ c.kind \in InDialog
  BY DEF Generated, Lists, Changes, MemberChanges, InDialog
<1>2. clean
  BY AfterCalls DEF Generated, DoneFor
<1>3. Current(c) /\ CallOK(c) /\ c.space \in Spaces
  BY <1>1, <1>2 DEF ShownInv, ChangeCalls, ChangeOf, Current, Inv, CallsOK, CallOK, ForServer
<1>4. cards \in [Spaces -> Cards] /\ cards[c.space] \in Cards /\ listed \subseteq Spaces
  BY <1>3 DEF ShownInv, Inv, TypeOK
<1>5. PICK shown, card :
        /\ card = [cards[c.space] EXCEPT !.generating = FALSE, !.generated = shown]
        /\ cards' = [cards EXCEPT ![c.space] =
             IF c.pc = "ok" THEN Loading(card, "invitations") ELSE card]
  BY <1>3, <1>4 DEF Generated
<1>6. /\ card.members = cards[c.space].members /\ card.membersError = cards[c.space].membersError
      /\ card.invitations = cards[c.space].invitations
      /\ card.invitationsError = cards[c.space].invitationsError
      /\ card.pending = cards[c.space].pending
      /\ Loading(card, "invitations").members = card.members
      /\ Loading(card, "invitations").membersError = card.membersError
  BY <1>4, <1>5 DEF Cards, Loading
<1>7. CASE c.pc = "ok"
  <2>1. Done(c, {c.space}, "invitations")
    BY <1>3, <1>7 DEF Generated
  <2>2. /\ calls = {c} /\ \A l \in calls' : l.kind \in Lists
        /\ ~Refreshing /\ \A s, X : ~LoadUnder(s, X)
    BY <1>1, <2>1, LoadsAlone
  <2>3. LoadUnder(c.space, {"all", "invitations"})'
    BY <1>1, <1>3, <2>1, AfterCalls DEF LoadUnder, Current
  <2>4. /\ cards'[c.space].members = cards[c.space].members
        /\ cards'[c.space].membersError = cards[c.space].membersError
        /\ \A s \in listed : s # c.space => KeepsLists(s)
    BY <1>3, <1>4, <1>5, <1>6, <1>7 DEF KeepsLists
  <2>. QED
    BY <1>1, <1>2, <2>2, <2>3, <2>4, FollowedShown
<1>8. CASE c.pc # "ok"
  <2>1. DoneFor(c) /\ cards' = [cards EXCEPT ![c.space] = card]
    BY <1>3, <1>5, <1>8 DEF Generated
  <2>2. Mute(c)
    BY <1>1, <1>8 DEF Mute
  <2>3. \A s \in Spaces : KeepsLists(s) /\ cards'[s].pending = cards[s].pending
    BY <1>4, <1>6, <2>1 DEF KeepsLists
  <2>. QED
    BY <1>1, <1>2, <2>1, <2>2, <2>3, MuteShown
<1>. QED
  BY <1>7, <1>8

LEMMA ExchangedShown ==
  ASSUME ShownInv, NEW c \in calls, Exchanged(c), UNCHANGED server, clean', session' # None
  PROVE  ChangeCalls' /\ PageShown'
<1>1. /\ c.kind = "exchange" /\ UNCHANGED <<session, listed, modal>> /\ c.kind \notin Lists
      /\ c.kind \notin Changes /\ c.kind \in InDialog
  BY DEF Exchanged, Lists, Changes, MemberChanges, InDialog
<1>2. clean
  BY AfterCalls DEF Exchanged, DoneFor
<1>3. Current(c) /\ SameDialog(c) /\ jwt.exchanging /\ CallOK(c) /\ c.space \in Spaces
  BY <1>1, <1>2 DEF ShownInv, ChangeCalls, ChangeOf, Current, SameDialog, Inv, CallsOK, CallOK, ForServer
<1>4. cards \in [Spaces -> Cards] /\ cards[c.space] \in Cards /\ listed \subseteq Spaces
  BY <1>3 DEF ShownInv, Inv, TypeOK
<1>5. CASE c.pc = "ok"
  <2>1. PICK card : cards' = [cards EXCEPT ![c.space] = card]
    BY <1>3, <1>5 DEF Exchanged
  <2>2. Done(c, {c.space}, "all")
    BY <1>3, <1>5 DEF Exchanged
  <2>3. /\ calls = {c} /\ \A l \in calls' : l.kind \in Lists
        /\ ~Refreshing /\ \A s, X : ~LoadUnder(s, X)
    BY <1>1, <2>2, LoadsAlone
  <2>4. LoadUnder(c.space, {"all"})' /\ LoadUnder(c.space, {"all", "invitations"})'
    BY <1>1, <1>3, <2>2, AfterCalls DEF LoadUnder, Current
  <2>5. \A s \in listed : s # c.space => KeepsLists(s)
    BY <1>4, <2>1 DEF KeepsLists
  <2>. QED
    BY <1>1, <1>2, <2>3, <2>4, <2>5, FollowedShown
<1>6. CASE c.pc # "ok"
  <2>1. DoneFor(c) /\ cards' = cards
    BY <1>3, <1>6 DEF Exchanged
  <2>2. Mute(c)
    BY <1>1, <1>6 DEF Mute
  <2>. QED
    BY <1>1, <1>2, <2>1, <2>2, MuteShown DEF KeepsLists
<1>. QED
  BY <1>5, <1>6

\* Every answer is the end of its call.
LEMMA AnswerDone ==
  ASSUME NEW c,
         \/ Unauthorized(c) \/ LoggedIn(c) \/ Refreshed(c) \/ SpaceCreated(c) \/ Loaded(c)
         \/ MemberChanged(c) \/ InvitationDeleted(c) \/ Generated(c) \/ Exchanged(c)
  PROVE  \E S, x : Done(c, S, x)
<1>1. CASE Unauthorized(c) \/ LoggedIn(c) \/ Refreshed(c) \/ SpaceCreated(c)
  BY <1>1 DEF Unauthorized, Late, LoggedIn, Refreshed, SpaceCreated, DoneFor
<1>2. CASE Loaded(c) \/ MemberChanged(c) \/ InvitationDeleted(c)
  BY <1>2 DEF Loaded, MemberChanged, InvitationDeleted, Settled, DoneFor
<1>3. CASE Generated(c) \/ Exchanged(c)
  BY <1>3 DEF Generated, Exchanged, DoneFor
<1>. QED
  BY <1>1, <1>2, <1>3

LEMMA AnswerShown ==
  ASSUME ShownInv, Answer
  PROVE  /\ clean' => ListCalls'
         /\ clean' /\ session' # None => ChangeCalls' /\ PageShown'
<1>1. PICK c \in calls :
        /\ c.pc # "sent"
        /\ \/ Unauthorized(c) \/ LoggedIn(c) \/ Refreshed(c) \/ SpaceCreated(c) \/ Loaded(c)
           \/ MemberChanged(c) \/ InvitationDeleted(c) \/ Generated(c) \/ Exchanged(c)
  BY DEF Answer
<1>2. UNCHANGED server
  BY DEF Answer
<1>3. PICK S, x : Done(c, S, x)
  BY <1>1, AnswerDone
<1>4. clean' => ListCalls'
  BY <1>2, <1>3, AnsweredLists DEF ShownInv
<1>5. ASSUME clean', session' # None PROVE ChangeCalls' /\ PageShown'
  BY <1>1, <1>2, <1>5, UnauthorizedShown, LoggedInShown, RefreshedShown, SpaceCreatedShown,
     LoadedShown, MemberChangedShown, InvitationDeletedShown, GeneratedShown, ExchangedShown
<1>. QED
  BY <1>4, <1>5

LEMMA ShownInit == Init => ShownInv
<1> SUFFICES ASSUME Init PROVE ShownInv
  OBVIOUS
<1>1. calls = {} /\ session = None
  BY DEF Init
<1>. QED
  BY <1>1, InitInv DEF ShownInv, ListCalls

LEMMA ShownStep == ShownInv /\ [Next]_vars => ShownInv'
<1> SUFFICES ASSUME ShownInv, [Next]_vars PROVE ShownInv'
  OBVIOUS
<1>1. Inv'
  BY InvStep DEF ShownInv
<1>2. /\ clean' => ListCalls'
      /\ clean' /\ session' # None => ChangeCalls' /\ PageShown'
  <2>1. CASE Administrator
    BY <2>1, AdministratorShown
  <2>2. CASE Serve
    BY <2>2, ServeShown
  <2>3. CASE Answer
    BY <2>3, AnswerShown
  <2>4. CASE UNCHANGED vars
    <3>1. UNCHANGED <<made, rows, pins, session, listed, cards, modal, jwt, calls, clean>>
      BY <2>4 DEF vars, server, page
    <3>2. clean => ListCalls'
      BY <3>1 DEF ShownInv, ListCalls, ListAnswer, Listing, Open
    <3>3. ASSUME clean, session # None PROVE ChangeCalls' /\ PageShown'
      <4>1. ChangeCalls /\ PageShown
        BY <3>3 DEF ShownInv
      <4>2. \A c : ChangeOf(c)' <=> ChangeOf(c)
        BY <3>1 DEF ChangeOf
      <4>3. ChangeCalls'
        BY <3>1, <4>1, <4>2 DEF ChangeCalls
      <4>4. PageShown'
        BY <3>1, <4>1, PageKept DEF server, Stays, KeepsLists
      <4>. QED
        BY <4>3, <4>4
    <3>. QED
      BY <3>1, <3>2, <3>3
  <2>. QED
    BY <2>1, <2>2, <2>3, <2>4 DEF Next
<1>. QED
  BY <1>1, <1>2 DEF ShownInv

\* With nothing under way, the page shows what its server has or an error in its
\* place, unless a list was asked for while it was changed, or the answer to a creation
\* was lost (the lists that every handler asks for anew after its change).
THEOREM ListsAreCurrent == Spec => []ListsCurrent
<1>1. Spec => []ShownInv
  BY ShownInit, ShownStep, PTL DEF Spec
<1>2. ShownInv => ListsCurrent
  <2> SUFFICES ASSUME ShownInv, clean, calls = {}, session # None
               PROVE  /\ listed = In(Spaces, session) \cap made
                      /\ \A s \in listed :
                           /\ cards[s].membersError \/ cards[s].members = Listing(s)
                           /\ cards[s].invitationsError \/ cards[s].invitations = Open(s)
    BY DEF ListsCurrent
  <2>1. /\ PageShown /\ TypeOK /\ listed \subseteq In(Spaces, session)
        /\ ~Refreshing /\ \A s, X : ~LoadUnder(s, X)
    BY DEF ShownInv, Inv, OfSession, Refreshing, LoadUnder
  <2>2. listed = In(Spaces, session) \cap made
    BY <2>1 DEF PageShown, SpacesShown
  <2>3. ASSUME NEW s \in listed
        PROVE  /\ cards[s].membersError \/ cards[s].members = Listing(s)
               /\ cards[s].invitationsError \/ cards[s].invitations = Open(s)
    <3>1. cards[s] \in Cards
      BY <2>1 DEF TypeOK
    <3>2. cards[s].membersError \/ \A m \in Members : cards[s].members[m] = Listing(s)[m]
      BY <2>1 DEF PageShown, MembersShown
    <3>3. \/ cards[s].invitationsError
          \/ \A i \in Invites : i \in cards[s].invitations <=> i \in Open(s)
      BY <2>1 DEF PageShown, InvitationsShown
    <3>4. cards[s].members \in [Members -> Shown] /\ Listing(s) = [m \in Members |-> Listing(s)[m]]
      BY <3>1 DEF Cards, Listing
    <3>5. cards[s].invitations \subseteq Invites /\ Open(s) \subseteq Invites
      BY <3>1 DEF Cards, Open, In
    <3>. QED
      BY <3>2, <3>3, <3>4, <3>5
  <2>. QED
    BY <2>2, <2>3
<1>. QED
  BY <1>1, <1>2, PTL
=============================================================================
