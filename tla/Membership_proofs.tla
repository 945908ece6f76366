------------------------- MODULE Membership_proofs -------------------------
(***************************************************************************)
(* Theorems about Membership, for any number of members, invitations,      *)
(* items and requests under way.                                           *)
(***************************************************************************)
EXTENDS Membership, TLAPS

Slots == Admins \cup Clients

LEMMA TypeInit == Init => TypeOK
BY MembershipAssumption DEF Init, TypeOK

\* Requests are records of several shapes, told apart by pc.
LEMMA Shapes ==
  ASSUME TypeOK, NEW h \in Slots
  PROVE  /\ req[h].pc = "join" => req[h] \in Joining
         /\ req[h].pc = "upload" => req[h] \in Uploading
         /\ req[h].pc = "remove" => req[h] \in Removing
         /\ req[h].pc = "share" => req[h] \in Sharing
         /\ req[h].pc = "unshare" => req[h] \in Unsharing
         /\ req[h].pc = "draw" => req[h] \in Drawing
         /\ req[h].pc = "withdraw" => req[h] \in Withdrawing
         /\ req[h].pc = "switch" => req[h] \in Switching
         /\ req[h].pc = "list" => req[h] \in Listing
         /\ req[h].pc = "delete" => req[h] \in Deleting
BY DEF TypeOK, Slots, Idle, ClientRequest, AdminRequest, Joining, Uploading, Removing,
       Sharing, Unsharing, Drawing, Withdrawing, Switching, Listing, Deleting

\* A request that ends, or goes on to another of the listed shapes.
LEMMA ReqType ==
  ASSUME TypeOK, NEW h \in Slots, NEW q \in ClientRequest \cup AdminRequest \cup {Idle},
         req' = [req EXCEPT ![h] = q]
  PROVE  req' \in [Slots -> ClientRequest \cup AdminRequest \cup {Idle}]
BY DEF TypeOK, Slots

-----------------------------------------------------------------------------
LEMMA AdminType ==
  ASSUME TypeOK, NEW a \in Admins, AdminStep(a)
  PROVE  TypeOK'
<1> USE MembershipAssumption
<1>h. a \in Slots
  BY DEF Slots
<1> DEFINE Good(q) == q \in ClientRequest \cup AdminRequest \cup {Idle}
<1>1. CASE CreateInvitation(a)
  <2>1. Good([pc |-> "draw", left |-> MaxDraws])
    BY DEF AdminRequest, Drawing
  <2>. QED
    BY <1>1, <1>h, <2>1, ReqType DEF CreateInvitation, Begin, TypeOK, Slots
<1>2. ASSUME NEW v \in Invitations, FindInvitation(a, v) PROVE TypeOK'
  <2>1. Good([pc |-> "withdraw", invite |-> v])
    BY DEF AdminRequest, Withdrawing
  <2>. QED
    BY <1>2, <1>h, <2>1, ReqType DEF FindInvitation, Begin, TypeOK, Slots
<1>3. ASSUME NEW v \in Invitations, NEW p \in Pins, DrawPin(a, v, p) PROVE TypeOK'
  <2>1. req[a] \in Drawing
    BY <1>3, <1>h, Shapes DEF DrawPin
  <2>2. PICK q : q \in Drawing \cup {Idle} /\ req' = [req EXCEPT ![a] = q]
    <3>1. CASE ~Taken(p) \/ LastTurn(req[a])
      BY <1>3, <3>1 DEF DrawPin, End
    <3>2. CASE Taken(p) /\ ~LastTurn(req[a])
      <4>1. [pc |-> "draw", left |-> req[a].left - 1] \in Drawing
        BY <2>1, <3>2 DEF LastTurn, Drawing
      <4>2. req' = [req EXCEPT ![a] = [pc |-> "draw", left |-> req[a].left - 1]]
        BY <1>3, <3>2 DEF DrawPin
      <4>. QED
        BY <4>1, <4>2
    <3>. QED
      BY <3>1, <3>2
  <2>3. Good(q)
    BY <2>2 DEF AdminRequest
  <2>4. req' \in [Slots -> ClientRequest \cup AdminRequest \cup {Idle}]
    BY <1>h, <2>2, <2>3, ReqType
  <2>5. invites' \in [Invitations -> Pins \cup {"new", "used", "withdrawn"}]
    BY <1>3 DEF DrawPin, TypeOK
  <2>. QED
    BY <1>3, <2>4, <2>5 DEF DrawPin, TypeOK, Slots
<1>4. CASE DeleteInvitation(a)
  BY <1>4, <1>h, ReqType DEF DeleteInvitation, End, TypeOK, Slots
<1>5. ASSUME NEW m \in Members, StartDeleteMember(a, m) PROVE TypeOK'
  <2>1. Good([pc |-> "list", member |-> m])
    BY DEF AdminRequest, Listing
  <2>. QED
    BY <1>5, <1>h, <2>1, ReqType DEF StartDeleteMember, Begin, TypeOK, Slots
<1>6. ASSUME NEW m \in Members, NEW to \in {"active", "revoked"}, StartSwitch(a, m, to)
      PROVE  TypeOK'
  <2>1. Good([pc |-> "switch", member |-> m, to |-> to])
    BY DEF AdminRequest, Switching
  <2>. QED
    BY <1>6, <1>h, <2>1, ReqType DEF StartSwitch, Begin, TypeOK, Slots
<1>7. CASE Switch(a)
  <2>1. req[a] \in Switching
    BY <1>7, <1>h, Shapes DEF Switch
  <2>2. req[a].to \in {"active", "revoked"}
    BY <2>1 DEF Switching
  <2>3. members' \in [Members -> {"none", "active", "revoked", "deleted"}]
    BY <1>7, <2>2 DEF Switch, TypeOK
  <2>. QED
    BY <1>7, <1>h, <2>3, ReqType DEF Switch, End, TypeOK, Slots
<1>8. CASE ListItems(a)
  <2>1. req[a].member \in Members
    BY <1>8, <1>h, Shapes DEF ListItems, Listing
  <2>2. Good([pc |-> "delete", member |-> req[a].member,
              items |-> {i \in Items : owner[i] = req[a].member}])
    BY <2>1 DEF AdminRequest, Deleting
  <2>. QED
    BY <1>8, <1>h, <2>2, ReqType DEF ListItems, TypeOK, Slots
<1>9. CASE DeleteMember(a)
  <2>1. owner' \in [Items -> Members \cup {NoMember}]
    BY <1>9 DEF DeleteMember, TypeOK
  <2>2. links' \subseteq Items \X Members
    BY <1>9 DEF DeleteMember, TypeOK, LinksWithout
  <2>3. members' \in [Members -> {"none", "active", "revoked", "deleted"}]
    BY <1>9 DEF DeleteMember, TypeOK
  <2>. QED
    BY <1>9, <1>h, <2>1, <2>2, <2>3, ReqType DEF DeleteMember, End, TypeOK, Slots
<1>10. CASE DeleteMemberFails(a)
  BY <1>10, <1>h, ReqType DEF DeleteMemberFails, End, TypeOK, Slots
<1>. QED
  BY <1>1, <1>2, <1>3, <1>4, <1>5, <1>6, <1>7, <1>8, <1>9, <1>10 DEF AdminStep

LEMMA ClientType ==
  ASSUME TypeOK, NEW c \in Clients, ClientStep(c)
  PROVE  TypeOK'
<1>h. c \in Slots
  BY DEF Slots
<1> DEFINE Good(q) == q \in ClientRequest \cup AdminRequest \cup {Idle}
<1>1. ASSUME NEW v \in Invitations, PresentPin(c, v) PROVE TypeOK'
  <2>1. Good([pc |-> "join", invite |-> v])
    BY DEF ClientRequest, Joining
  <2>. QED
    BY <1>1, <1>h, <2>1, ReqType DEF PresentPin, Begin, TypeOK, Slots
<1>2. ASSUME NEW m \in Members, ExchangePin(c, m) PROVE TypeOK'
  <2>1. req[c].invite \in Invitations
    BY <1>2, <1>h, Shapes DEF ExchangePin, Joining
  <2>. QED
    BY <1>2, <1>h, <2>1, ReqType DEF ExchangePin, End, TypeOK, Slots
<1>3. CASE RefusePin(c)
  BY <1>3, <1>h, ReqType DEF RefusePin, End, TypeOK, Slots
<1>4. ASSUME NEW m \in Members, NEW i \in Items, StartUpload(c, m, i) PROVE TypeOK'
  <2>1. Stored(i) \in BOOLEAN
    BY DEF Stored
  <2>2. [pc |-> "upload", by |-> m, item |-> i, known |-> Stored(i)] \in Uploading
    BY <2>1, Zenon DEF Uploading
  <2>3. Good([pc |-> "upload", by |-> m, item |-> i, known |-> Stored(i)])
    BY <2>2, Zenon DEF ClientRequest
  <2>. QED
    BY <1>4, <1>h, <2>3, ReqType DEF StartUpload, Begin, TypeOK, Slots
<1>5. ASSUME NEW m \in Members, NEW i \in Items, StartRemove(c, m, i) PROVE TypeOK'
  <2>1. Good([pc |-> "remove", by |-> m, item |-> i])
    BY DEF ClientRequest, Removing
  <2>. QED
    BY <1>5, <1>h, <2>1, ReqType DEF StartRemove, Begin, TypeOK, Slots
<1>6. ASSUME NEW m \in Members, NEW i \in Items, StartShare(c, m, i) PROVE TypeOK'
  <2>1. Good([pc |-> "share", by |-> m, item |-> i])
    BY DEF ClientRequest, Sharing
  <2>. QED
    BY <1>6, <1>h, <2>1, ReqType DEF StartShare, Begin, TypeOK, Slots
<1>7. ASSUME NEW m \in Members, NEW l \in links, StartUnshare(c, m, l) PROVE TypeOK'
  <2>1. Good([pc |-> "unshare", by |-> m, link |-> l])
    BY DEF ClientRequest, Unsharing, TypeOK
  <2>. QED
    BY <1>7, <1>h, <2>1, ReqType DEF StartUnshare, Begin, TypeOK, Slots
<1>8. CASE Upload(c)
  <2>1. req[c].by \in Members
    BY <1>8, <1>h, Shapes DEF Upload, Uploading
  <2>2. owner' \in [Items -> Members \cup {NoMember}]
    BY <1>8, <2>1 DEF Upload, TypeOK
  <2>. QED
    BY <1>8, <1>h, <2>2, ReqType DEF Upload, End, TypeOK, Slots
<1>9. CASE Remove(c)
  <2>1. links' \subseteq Items \X Members
    BY <1>9 DEF Remove, LinksWithout, TypeOK
  <2>. QED
    BY <1>9, <1>h, <2>1, ReqType DEF Remove, End, TypeOK, Slots
<1>10. CASE Share(c)
  <2>1. <<req[c].item, req[c].by>> \in Items \X Members
    BY <1>10, <1>h, Shapes DEF Share, Sharing
  <2>2. links' \subseteq Items \X Members
    BY <1>10, <2>1 DEF Share, TypeOK
  <2>. QED
    BY <1>10, <1>h, <2>2, ReqType DEF Share, End, TypeOK, Slots
<1>11. CASE Unshare(c)
  BY <1>11, <1>h, ReqType DEF Unshare, End, TypeOK, Slots
<1>. QED
  BY <1>1, <1>2, <1>3, <1>4, <1>5, <1>6, <1>7, <1>8, <1>9, <1>10, <1>11 DEF ClientStep

LEMMA TypeStep == TypeOK /\ [Next]_vars => TypeOK'
<1> SUFFICES ASSUME TypeOK, [Next]_vars PROVE TypeOK'
  OBVIOUS
<1>1. ASSUME NEW a \in Admins, AdminStep(a) PROVE TypeOK'
  BY <1>1, AdminType
<1>2. ASSUME NEW c \in Clients, ClientStep(c) PROVE TypeOK'
  BY <1>2, ClientType
<1>3. ASSUME NEW h \in Slots, Abandon(h) PROVE TypeOK'
  BY <1>3, ReqType DEF Abandon, End, TypeOK, Slots
<1>4. CASE UNCHANGED vars
  BY <1>4 DEF vars, TypeOK
<1>. QED
  BY <1>1, <1>2, <1>3, <1>4 DEF Next, Slots

\* Type correctness: a drawing never has more or fewer turns left than the loop
\* of CreateInvitation allows, a deletion lists items only.
THEOREM TypeCorrect == Spec => []TypeOK
BY TypeInit, TypeStep, PTL DEF Spec
-----------------------------------------------------------------------------
(***************************************************************************)
(* OneMemberPerInvitation and NoOrphans are inductive together with the    *)
(* type invariant: a PIN is exchanged, and a member deleted, by a save     *)
(* that looks at the rows again.                                           *)
(***************************************************************************)
JoinedByInvitation == \A m \in Members : Joined(m) => via[m] \in Invitations

MemberInv == TypeOK /\ JoinedByInvitation /\ OneMemberPerInvitation /\ NoOrphans

LEMMA MemberInit == Init => MemberInv
<1> SUFFICES ASSUME Init PROVE MemberInv
  OBVIOUS
<1>1. JoinedByInvitation /\ OneMemberPerInvitation
  BY DEF Init, JoinedByInvitation, OneMemberPerInvitation, Joined
<1>2. NoOrphans
  BY DEF Init, NoOrphans, Stored
<1>. QED
  BY <1>1, <1>2, TypeInit DEF MemberInv

\* Steps by which nobody joins and no used invitation comes back.
LEMMA OneMemberKept ==
  ASSUME JoinedByInvitation, OneMemberPerInvitation,
         \A v \in Invitations : invites[v] = "used" => invites'[v] = "used",
         \A m \in Members : Joined(m)' => Joined(m),
         via' = via
  PROVE  JoinedByInvitation' /\ OneMemberPerInvitation'
BY DEF JoinedByInvitation, OneMemberPerInvitation

LEMMA ExchangeOnce ==
  ASSUME MemberInv, NEW c \in Clients, NEW m \in Members, ExchangePin(c, m)
  PROVE  JoinedByInvitation' /\ OneMemberPerInvitation'
<1> DEFINE v == req[c].invite
<1>1. v \in Invitations /\ invites[v] \in Pins
  BY Shapes DEF ExchangePin, StillOpen, Open, MemberInv, Slots, Joining
<1>2. invites[v] # "used"
  BY <1>1, MembershipAssumption
<1>3. \A n \in Members : Joined(n) => via[n] \in Invitations /\ via[n] # v
  BY <1>2 DEF MemberInv, JoinedByInvitation, OneMemberPerInvitation
<1>4. /\ invites' = [invites EXCEPT ![v] = "used"]
      /\ via' = [via EXCEPT ![m] = v]
      /\ members' = [members EXCEPT ![m] = "active"]
  BY DEF ExchangePin
<1>5. invites'[v] = "used" /\ via'[m] = v
  BY <1>1, <1>4 DEF MemberInv, TypeOK
<1>6. \A n \in Members \ {m} : via'[n] = via[n] /\ (Joined(n)' <=> Joined(n))
  BY <1>4 DEF MemberInv, TypeOK, Joined
<1>7. \A u \in Invitations \ {v} : invites'[u] = invites[u]
  BY <1>4 DEF MemberInv, TypeOK
<1>8. \A n \in Members \ {m} : Joined(n)' => via'[n] \in Invitations \ {v} /\ invites'[via'[n]] = "used"
  BY <1>3, <1>6, <1>7 DEF MemberInv, OneMemberPerInvitation
<1>9. \A n, k \in Members \ {m} : Joined(n)' /\ Joined(k)' /\ via'[k] = via'[n] => k = n
  BY <1>6 DEF MemberInv, OneMemberPerInvitation
<1>. QED
  BY <1>1, <1>5, <1>8, <1>9 DEF JoinedByInvitation, OneMemberPerInvitation

\* Steps that touch neither items nor links, and by which no member goes.
LEMMA NoOrphansKept ==
  ASSUME NoOrphans, owner' = owner, links' = links,
         \A m \in Members : Present(m) => Present(m)', TypeOK
  PROVE  NoOrphans'
BY DEF NoOrphans, Stored, TypeOK

LEMMA AdminStepKeeps ==
  ASSUME MemberInv, NEW a \in Admins, AdminStep(a)
  PROVE  MemberInv'
<1> USE MembershipAssumption DEF MemberInv
<1>t. TypeOK'
  BY AdminType
<1>1. CASE UNCHANGED <<invites, members, via, owner, links>>
  <2>1. JoinedByInvitation' /\ OneMemberPerInvitation'
    BY <1>1, OneMemberKept DEF Joined
  <2>2. NoOrphans'
    BY <1>1, NoOrphansKept DEF Present
  <2>. QED
    BY <1>t, <2>1, <2>2
<1>2. ASSUME NEW v \in Invitations, NEW p \in Pins, DrawPin(a, v, p) PROVE MemberInv'
  <2>1. \A u \in Invitations : invites[u] = "used" => invites'[u] = "used"
    BY <1>2 DEF DrawPin, TypeOK
  <2>2. JoinedByInvitation' /\ OneMemberPerInvitation'
    BY <1>2, <2>1, OneMemberKept DEF DrawPin, Joined
  <2>3. NoOrphans'
    BY <1>2, NoOrphansKept DEF DrawPin, Present
  <2>. QED
    BY <1>t, <2>2, <2>3
<1>3. CASE DeleteInvitation(a)
  <2>1. \A u \in Invitations : invites[u] = "used" => invites'[u] = "used"
    BY <1>3 DEF DeleteInvitation, Open, TypeOK
  <2>2. JoinedByInvitation' /\ OneMemberPerInvitation'
    BY <1>3, <2>1, OneMemberKept DEF DeleteInvitation, Joined
  <2>3. NoOrphans'
    BY <1>3, NoOrphansKept DEF DeleteInvitation, Present
  <2>. QED
    BY <1>t, <2>2, <2>3
<1>4. CASE Switch(a)
  <2>1. req[a] \in Switching
    BY <1>4, Shapes DEF Switch, Slots
  <2>2. \A m \in Members : (Present(m) <=> Present(m)') /\ (Joined(m) <=> Joined(m)')
    BY <1>4, <2>1 DEF Switch, Switching, Present, Joined, TypeOK
  <2>3. JoinedByInvitation' /\ OneMemberPerInvitation'
    BY <1>4, <2>2, OneMemberKept DEF Switch
  <2>4. NoOrphans'
    BY <1>4, <2>2, NoOrphansKept DEF Switch
  <2>. QED
    BY <1>t, <2>3, <2>4
<1>5. CASE DeleteMember(a)
  <2> DEFINE q == req[a]
  <2>1. q \in Deleting
    BY <1>5, Shapes DEF DeleteMember, Slots
  <2>2. \A m \in Members : m # q.member => (Present(m) <=> Present(m)')
    BY <1>5 DEF DeleteMember, Present, TypeOK
  <2>3. \A m \in Members : Joined(m)' => Joined(m)
    BY <1>5 DEF DeleteMember, Removable, Present, Joined, TypeOK
  <2>4. JoinedByInvitation' /\ OneMemberPerInvitation'
    BY <1>5, <2>3, OneMemberKept DEF DeleteMember
  <2>5. \A i \in Items : Stored(i)' => i \notin q.items /\ owner'[i] = owner[i] /\ owner[i] # q.member
    BY <1>5, <2>1 DEF DeleteMember, Removable, Restricted, Stored, TypeOK
  <2>6. \A i \in Items : Stored(i)' => Present(owner[i])'
    <3> SUFFICES ASSUME NEW i \in Items, Stored(i)' PROVE Present(owner[i])'
      OBVIOUS
    <3>1. owner[i] \in Members /\ Present(owner[i])
      BY <2>5 DEF NoOrphans, Stored, TypeOK
    <3>2. owner'[i] = owner[i] /\ owner[i] # q.member
      BY <2>5
    <3>. QED
      BY <2>2, <3>1, <3>2 DEF Present
  <2>7. \A l \in links' : l \in links /\ l[1] \notin q.items /\ l[2] # q.member
    BY <1>5 DEF DeleteMember, Removable, Restricted, LinksWithout
  <2>8. \A l \in links' : Stored(l[1])' /\ Present(l[2])'
    <3> SUFFICES ASSUME NEW l \in links' PROVE Stored(l[1])' /\ Present(l[2])'
      OBVIOUS
    <3>1. l[1] \in Items /\ l[2] \in Members /\ Stored(l[1]) /\ Present(l[2])
      BY <2>7 DEF NoOrphans, TypeOK
    <3>2. owner'[l[1]] = owner[l[1]]
      BY <1>5, <2>7, <3>1 DEF DeleteMember
    <3>. QED
      BY <2>2, <2>7, <3>1, <3>2 DEF Stored
  <2>. QED
    BY <1>t, <2>4, <2>6, <2>8 DEF NoOrphans
<1>6. CASE \/ CreateInvitation(a) \/ ListItems(a) \/ DeleteMemberFails(a)
           \/ \E v \in Invitations : FindInvitation(a, v)
           \/ \E m \in Members : StartDeleteMember(a, m)
           \/ \E m \in Members, to \in {"active", "revoked"} : StartSwitch(a, m, to)
  BY <1>1, <1>6 DEF CreateInvitation, ListItems, DeleteMemberFails, FindInvitation,
                    StartDeleteMember, StartSwitch
<1>. QED
  BY <1>2, <1>3, <1>4, <1>5, <1>6 DEF AdminStep

LEMMA ClientStepKeeps ==
  ASSUME MemberInv, NEW c \in Clients, ClientStep(c)
  PROVE  MemberInv'
<1> USE MembershipAssumption DEF MemberInv
<1>t. TypeOK'
  BY ClientType
<1>1. ASSUME UNCHANGED <<invites, members, via>> PROVE JoinedByInvitation' /\ OneMemberPerInvitation'
  BY <1>1, OneMemberKept DEF Joined
<1>2. CASE UNCHANGED <<invites, members, via, owner, links>>
  <2>1. NoOrphans'
    BY <1>2, NoOrphansKept DEF Present
  <2>. QED
    BY <1>t, <1>1, <1>2, <2>1
<1>3. ASSUME NEW m \in Members, ExchangePin(c, m) PROVE MemberInv'
  <2>1. JoinedByInvitation' /\ OneMemberPerInvitation'
    BY <1>3, ExchangeOnce
  <2>2. \A n \in Members : Present(n) => Present(n)'
    BY <1>3 DEF ExchangePin, Present, TypeOK
  <2>3. NoOrphans'
    BY <1>3, <2>2, NoOrphansKept DEF ExchangePin
  <2>. QED
    BY <1>t, <2>1, <2>3
<1>4. CASE Upload(c)
  <2>1. req[c] \in Uploading
    BY <1>4, Shapes DEF Upload, Slots
  <2>2. NoOrphans'
    BY <1>4, <2>1 DEF Upload, Uploading, NoOrphans, Stored, Present, TypeOK
  <2>. QED
    BY <1>t, <1>1, <1>4, <2>2 DEF Upload
<1>5. CASE Remove(c)
  <2>1. \A i \in Items : Stored(i)' => i # req[c].item /\ owner'[i] = owner[i]
    BY <1>5 DEF Remove, Stored, TypeOK
  <2>2. \A l \in links' : l \in links /\ l[1] # req[c].item
    BY <1>5 DEF Remove, LinksWithout
  <2>3. \A l \in links' : Stored(l[1])' /\ Present(l[2])'
    <3> SUFFICES ASSUME NEW l \in links' PROVE Stored(l[1])' /\ Present(l[2])'
      OBVIOUS
    <3>1. l[1] \in Items /\ Stored(l[1]) /\ Present(l[2])
      BY <2>2 DEF NoOrphans, TypeOK
    <3>2. owner'[l[1]] = owner[l[1]]
      BY <1>5, <2>2, <3>1 DEF Remove, TypeOK
    <3>. QED
      BY <1>5, <3>1, <3>2 DEF Remove, Stored, Present
  <2>4. NoOrphans'
    BY <1>5, <2>1, <2>3 DEF Remove, NoOrphans, Stored, Present
  <2>. QED
    BY <1>t, <1>1, <1>5, <2>4 DEF Remove
<1>6. CASE Share(c) \/ Unshare(c)
  <2>1. Share(c) => req[c] \in Sharing
    BY Shapes DEF Share, Slots
  <2>2. NoOrphans'
    BY <1>6, <2>1 DEF Share, Unshare, Sharing, NoOrphans, Stored, Present, TypeOK
  <2>. QED
    BY <1>t, <1>1, <1>6, <2>2 DEF Share, Unshare
<1>7. CASE \/ RefusePin(c) \/ \E v \in Invitations : PresentPin(c, v)
           \/ \E m \in Members, i \in Items :
                StartUpload(c, m, i) \/ StartRemove(c, m, i) \/ StartShare(c, m, i)
           \/ \E m \in Members, l \in links : StartUnshare(c, m, l)
  BY <1>2, <1>7 DEF RefusePin, PresentPin, StartUpload, StartRemove, StartShare, StartUnshare
<1>. QED
  BY <1>3, <1>4, <1>5, <1>6, <1>7 DEF ClientStep

LEMMA MemberStep == MemberInv /\ [Next]_vars => MemberInv'
<1> SUFFICES ASSUME MemberInv, [Next]_vars PROVE MemberInv'
  OBVIOUS
<1>1. ASSUME NEW a \in Admins, AdminStep(a) PROVE MemberInv'
  BY <1>1, AdminStepKeeps
<1>2. ASSUME NEW c \in Clients, ClientStep(c) PROVE MemberInv'
  BY <1>2, ClientStepKeeps
<1>3. CASE UNCHANGED vars \/ \E h \in Slots : Abandon(h)
  <2>1. TypeOK'
    BY TypeStep DEF MemberInv
  <2>2. UNCHANGED <<invites, members, via, owner, links>>
    BY <1>3 DEF vars, Abandon
  <2>3. JoinedByInvitation' /\ OneMemberPerInvitation'
    BY <2>2, OneMemberKept DEF Joined, MemberInv
  <2>4. NoOrphans'
    BY <2>2, NoOrphansKept DEF Present, MemberInv
  <2>. QED
    BY <2>1, <2>3, <2>4 DEF MemberInv
<1>. QED
  BY <1>1, <1>2, <1>3 DEF Next, Slots

\* However many devices present one PIN at once, and whatever is withdrawn or
\* drawn again meanwhile, an invitation makes at most one member.
THEOREM InvitationsAreOneTime == Spec => []OneMemberPerInvitation
<1>1. MemberInv => OneMemberPerInvitation
  BY DEF MemberInv
<1>. QED
  BY <1>1, MemberInit, MemberStep, PTL DEF Spec

\* No interleaving of a member's deletion with uploads, links, reinstatement and
\* other deletions leaves a row that refers to a member who is gone.
THEOREM NothingIsOrphaned == Spec => []NoOrphans
<1>1. MemberInv => NoOrphans
  BY DEF MemberInv
<1>. QED
  BY <1>1, MemberInit, MemberStep, PTL DEF Spec
-----------------------------------------------------------------------------
\* The step of one request on one slot changes no other slot.
LEMMA OtherSlots ==
  ASSUME TypeOK, NEW c \in Clients, ClientStep(c) \/ Abandon(c), NEW h \in Slots, h # c
  PROVE  req'[h] = req[h]
BY DEF ClientStep, PresentPin, ExchangePin, RefusePin, StartUpload, StartRemove, StartShare,
       StartUnshare, Upload, Remove, Share, Unshare, Abandon, Begin, End, TypeOK, Slots

\* What a step adds in the name of a member, it adds for a request of that member
\* under way or for one that is let in.
LEMMA StepAdds ==
  ASSUME TypeOK, NEW m \in Members, members[m] # "active", ~Busy(m), [Next]_vars
  PROVE  /\ {i \in Items : owner'[i] = m} \subseteq {i \in Items : owner[i] = m}
         /\ {l \in links' : l[2] = m} \subseteq links
         /\ ~Busy(m)'
<1> USE MembershipAssumption
<1>0. \A c \in Clients : req[c].pc \in {"upload", "share"} => req[c].by # m
  BY Shapes DEF Busy, Slots
<1>1. ASSUME NEW c \in Clients, ClientStep(c) \/ Abandon(c)
      PROVE  /\ {i \in Items : owner'[i] = m} \subseteq {i \in Items : owner[i] = m}
             /\ {l \in links' : l[2] = m} \subseteq links
             /\ ~Busy(m)'
  <2>1. \A d \in Clients \ {c} : req'[d] = req[d]
    BY <1>1, OtherSlots DEF Slots
  <2>2. req'[c] \notin Uploading \cup Sharing \/ req'[c].by # m
    <3>1. CASE \E n \in Members, i \in Items : StartUpload(c, n, i) \/ StartShare(c, n, i)
      <4>1. PICK n \in Members : Admitted(n) /\ req'[c].by = n
        BY <3>1 DEF StartUpload, StartShare, Begin, TypeOK, Slots
      <4>. QED
        BY <4>1 DEF Admitted
    <3>2. CASE \E n \in Members, i \in Items : StartRemove(c, n, i)
      BY <3>2 DEF StartRemove, Begin, TypeOK, Slots, Uploading, Sharing
    <3>3. CASE \E n \in Members : \E l \in links : StartUnshare(c, n, l)
      BY <3>3 DEF StartUnshare, Begin, TypeOK, Slots, Uploading, Sharing
    <3>4. CASE \E v \in Invitations : PresentPin(c, v)
      BY <3>4 DEF PresentPin, Begin, TypeOK, Slots, Uploading, Sharing
    <3>5. CASE End(c)
      BY <3>5 DEF End, TypeOK, Slots, Uploading, Sharing, Idle
    <3>. QED
      BY <1>1, <3>1, <3>2, <3>3, <3>4, <3>5
      DEF ClientStep, ExchangePin, RefusePin, Upload, Remove, Share, Unshare, Abandon
  <2>3. ~Busy(m)'
    BY <2>1, <2>2 DEF Busy
  <2>4. CASE Upload(c)
    <3>1. req[c].by # m
      BY <1>0, <2>4 DEF Upload
    <3>. QED
      BY <2>3, <2>4, <3>1 DEF Upload, TypeOK
  <2>5. CASE Share(c)
    <3>1. req[c].by # m
      BY <1>0, <2>5 DEF Share
    <3>. QED
      BY <2>3, <2>5, <3>1 DEF Share
  <2>6. CASE Remove(c)
    BY <2>3, <2>6 DEF Remove, LinksWithout, TypeOK
  <2>7. CASE Unshare(c)
    BY <2>3, <2>7 DEF Unshare
  <2>8. CASE UNCHANGED <<owner, links>>
    BY <2>3, <2>8
  <2>9. Upload(c) \/ Share(c) \/ Remove(c) \/ Unshare(c) \/ UNCHANGED <<owner, links>>
    BY <1>1 DEF ClientStep, PresentPin, ExchangePin, RefusePin, StartUpload, StartRemove,
                StartShare, StartUnshare, Abandon
  <2>. QED
    BY <2>4, <2>5, <2>6, <2>7, <2>8, <2>9
<1>2. ASSUME NEW a \in Admins, AdminStep(a) \/ Abandon(a)
      PROVE  /\ {i \in Items : owner'[i] = m} \subseteq {i \in Items : owner[i] = m}
             /\ {l \in links' : l[2] = m} \subseteq links
             /\ ~Busy(m)'
  <2>1. \A c \in Clients : req'[c] = req[c]
    BY <1>2 DEF AdminStep, CreateInvitation, FindInvitation, DrawPin, DeleteInvitation,
                StartDeleteMember, StartSwitch, Switch, ListItems, DeleteMember,
                DeleteMemberFails, Abandon, Begin, End, TypeOK
  <2>2. ~Busy(m)'
    BY <2>1 DEF Busy
  <2>3. CASE DeleteMember(a)
    BY <2>2, <2>3 DEF DeleteMember, LinksWithout, TypeOK
  <2>4. CASE ~DeleteMember(a)
    <3>1. UNCHANGED <<owner, links>>
      BY <1>2, <2>4 DEF AdminStep, CreateInvitation, FindInvitation, DrawPin, DeleteInvitation,
                        StartDeleteMember, StartSwitch, Switch, ListItems, DeleteMemberFails,
                        Abandon
    <3>. QED
      BY <2>2, <3>1
  <2>. QED
    BY <2>3, <2>4
<1>3. CASE UNCHANGED vars
  BY <1>3 DEF vars, Busy
<1>. QED
  BY <1>1, <1>2, <1>3 DEF Next

\* A revoked member's requests that were let in before finish; nothing else is
\* written in its name, whatever overlaps, until it is reinstated.
THEOREM RevocationHolds == Spec => RevokedAddNothing
<1>1. TypeOK /\ [Next]_vars =>
        [\A m \in Members :
           members[m] # "active" /\ ~Busy(m) =>
             /\ {i \in Items : owner'[i] = m} \subseteq {i \in Items : owner[i] = m}
             /\ {l \in links' : l[2] = m} \subseteq links
             /\ members'[m] # "active" => ~Busy(m)']_vars
  BY StepAdds
<1>. QED
  BY <1>1, TypeCorrect, PTL DEF Spec, RevokedAddNothing
=============================================================================
