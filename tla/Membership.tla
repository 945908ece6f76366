----------------------------- MODULE Membership -----------------------------
(***************************************************************************)
(* The members of one space: invitations and the PINs they are joined by   *)
(* (InvitationEndpoints, TokenEndpoints), revocation, reinstatement and    *)
(* deletion of members (SpaceEndpoints), and the items and shared links    *)
(* that refer to members, written by requests that were let in while the   *)
(* member was active (SpaceMemberAuthorizationMiddleware).                 *)
(*                                                                         *)
(* A handler reads in one step and saves in a later one; SaveChanges is a  *)
(* transaction, and it is there that keys, unique indexes and foreign keys *)
(* are enforced.                                                           *)
(***************************************************************************)
EXTENDS Integers, FiniteSets

CONSTANTS
  Members,      \* member ids, handed out by joining
  Invitations,  \* invitation ids
  Pins,         \* PINs the generator draws from
  MaxDraws,     \* maxRetries
  Items,        \* ids of items, each used again after a deletion
  Admins,       \* slots for requests of administrators
  Clients,      \* slots for requests of devices
  Ops,          \* what devices ask for: "upload", "remove", "share", "unshare"
  NoMember, NoInvitation

ASSUME MembershipAssumption ==
  /\ MaxDraws \in Nat \ {0}
  /\ Ops \subseteq {"upload", "remove", "share", "unshare"}
  /\ NoMember \notin Members
  /\ NoInvitation \notin Invitations
  /\ Pins \cap {"new", "used", "withdrawn"} = {}
  /\ Admins \cap Clients = {}

VARIABLES
  invites,  \* invites[v]: the PIN of an open invitation or else its fate
  members,  \* members[m]: what m is, see Present and TypeOK
  via,      \* via[m]: the invitation m joined by (history)
  owner,    \* owner[i]: MemberId of the row of item i, NoMember without a row
  links,    \* the SharedLinks rows, by item and creator
  req       \* req[h]: the request in slot h

vars == <<invites, members, via, owner, links, req>>

Idle == [pc |-> "idle"]

Joining     == [pc : {"join"}, invite : Invitations]
Uploading   == [pc : {"upload"}, by : Members, item : Items, known : BOOLEAN]
Removing    == [pc : {"remove"}, by : Members, item : Items]
Sharing     == [pc : {"share"}, by : Members, item : Items]
Unsharing   == [pc : {"unshare"}, by : Members, link : Items \X Members]
Drawing     == [pc : {"draw"}, left : 1..MaxDraws]
Withdrawing == [pc : {"withdraw"}, invite : Invitations]
Switching   == [pc : {"switch"}, member : Members, to : {"active", "revoked"}]
Listing     == [pc : {"list"}, member : Members]
Deleting    == [pc : {"delete"}, member : Members, items : SUBSET Items]

ClientRequest == Joining \cup Uploading \cup Removing \cup Sharing \cup Unsharing
AdminRequest  == Drawing \cup Withdrawing \cup Switching \cup Listing \cup Deleting

Open(v)    == invites[v] \in Pins
Present(m) == members[m] \in {"active", "revoked"}
Stored(i)  == owner[i] # NoMember

\* Ends of requests: h starts on q, and h is over.
Begin(h, q) == req[h] = Idle /\ req' = [req EXCEPT ![h] = q]
End(h)      == req' = [req EXCEPT ![h] = Idle]

-----------------------------------------------------------------------------
(***************************************************************************)
(* Invitations.                                                            *)
(***************************************************************************)
CreateInvitation(a) ==
  /\ Begin(a, [pc |-> "draw", left |-> MaxDraws])
  /\ UNCHANGED <<invites, members, via, owner, links>>

Taken(p) == \E v \in Invitations : invites[v] = p

\* Mutant: one turn more.
PastLastTurn(q) == q.left = 0

LastTurn(q) == q.left = 1

\* One turn of the retry loop: the unique index on Pin refuses a PIN that an
\* open invitation has, of this space or another. The last turn throws.
DrawPin(a, v, p) ==
  /\ req[a].pc = "draw"
  /\ invites[v] = "new"
  /\ \/ /\ ~Taken(p)
        /\ invites' = [invites EXCEPT ![v] = p]
        /\ End(a)
     \/ /\ Taken(p)
        /\ req' = [req EXCEPT ![a] =
             IF LastTurn(req[a]) THEN Idle ELSE [pc |-> "draw", left |-> req[a].left - 1]]
        /\ UNCHANGED invites
  /\ UNCHANGED <<members, via, owner, links>>

\* DeleteInvitation as far as the row.
FindInvitation(a, v) ==
  /\ Open(v)
  /\ Begin(a, [pc |-> "withdraw", invite |-> v])
  /\ UNCHANGED <<invites, members, via, owner, links>>

\* The row may be gone by now (DbUpdateConcurrencyException).
DeleteInvitation(a) ==
  /\ req[a].pc = "withdraw"
  /\ invites' = IF Open(req[a].invite)
                  THEN [invites EXCEPT ![req[a].invite] = "withdrawn"] ELSE invites
  /\ End(a)
  /\ UNCHANGED <<members, via, owner, links>>

\* ExchangePinForToken as far as the invitation; an unknown PIN has no effect.
PresentPin(c, v) ==
  /\ Open(v)
  /\ Begin(c, [pc |-> "join", invite |-> v])
  /\ UNCHANGED <<invites, members, via, owner, links>>

\* Mutant: the row is removed without a look at how many there were.
WasOpen(q) == TRUE

\* DELETE affects one row; none is a DbUpdateConcurrencyException.
StillOpen(q) == Open(q.invite)

\* The new member and the removal of the invitation, in one transaction.
ExchangePin(c, m) ==
  /\ req[c].pc = "join"
  /\ StillOpen(req[c])
  /\ members[m] = "none"
  /\ members' = [members EXCEPT ![m] = "active"]
  /\ invites' = [invites EXCEPT ![req[c].invite] = "used"]
  /\ via' = [via EXCEPT ![m] = req[c].invite]
  /\ End(c)
  /\ UNCHANGED <<owner, links>>

RefusePin(c) ==
  /\ req[c].pc = "join" /\ ~StillOpen(req[c])
  /\ End(c)
  /\ UNCHANGED <<invites, members, via, owner, links>>

-----------------------------------------------------------------------------
(***************************************************************************)
(* Requests of members.                                                    *)
(***************************************************************************)

\* Mutant: a token is good as long as its member exists.
Recognised(m) == Present(m)

\* The middleware looks the member up once, before the handler runs.
Admitted(m) == members[m] = "active"

\* UpsertItem, up to the row it found. Any member may write any item.
StartUpload(c, m, i) ==
  /\ "upload" \in Ops /\ Admitted(m)
  /\ Begin(c, [pc |-> "upload", by |-> m, item |-> i, known |-> Stored(i)])
  /\ UNCHANGED <<invites, members, via, owner, links>>

\* The row is inserted, or updated along with its MemberId; a key that is there,
\* a row that is gone or a member that is gone make the save fail.
Upload(c) ==
  LET q == req[c]
  IN /\ q.pc = "upload"
     /\ owner' = IF q.known = Stored(q.item) /\ Present(q.by)
                   THEN [owner EXCEPT ![q.item] = q.by] ELSE owner
     /\ End(c)
     /\ UNCHANGED <<invites, members, via, links>>

StartRemove(c, m, i) ==
  /\ "remove" \in Ops /\ Admitted(m) /\ Stored(i)
  /\ Begin(c, [pc |-> "remove", by |-> m, item |-> i])
  /\ UNCHANGED <<invites, members, via, owner, links>>

\* Links hang on their item: ON DELETE CASCADE.
LinksWithout(ids) == {l \in links : l[1] \notin ids}

Remove(c) ==
  /\ req[c].pc = "remove"
  /\ owner' = [owner EXCEPT ![req[c].item] = NoMember]
  /\ links' = LinksWithout({req[c].item})
  /\ End(c)
  /\ UNCHANGED <<invites, members, via>>

\* CreateSharedLink. One link per item and member is enough to hold either.
StartShare(c, m, i) ==
  /\ "share" \in Ops /\ Admitted(m) /\ Stored(i)
  /\ <<i, m>> \notin links
  /\ Begin(c, [pc |-> "share", by |-> m, item |-> i])
  /\ UNCHANGED <<invites, members, via, owner, links>>

\* A link needs its item and its creator.
Share(c) ==
  LET q == req[c]
  IN /\ q.pc = "share"
     /\ links' = IF Stored(q.item) /\ Present(q.by)
                   THEN links \cup {<<q.item, q.by>>} ELSE links
     /\ End(c)
     /\ UNCHANGED <<invites, members, via, owner>>

\* DeleteSharedLink: any member may delete any link.
StartUnshare(c, m, l) ==
  /\ "unshare" \in Ops /\ Admitted(m) /\ l \in links
  /\ Begin(c, [pc |-> "unshare", by |-> m, link |-> l])
  /\ UNCHANGED <<invites, members, via, owner, links>>

Unshare(c) ==
  /\ req[c].pc = "unshare"
  /\ links' = links \ {req[c].link}
  /\ End(c)
  /\ UNCHANGED <<invites, members, via, owner>>

\* The client goes away, or the server stops, before the save.
Abandon(c) ==
  /\ req[c] # Idle
  /\ End(c)
  /\ UNCHANGED <<invites, members, via, owner, links>>

-----------------------------------------------------------------------------
(***************************************************************************)
(* Revocation and deletion.                                                *)
(***************************************************************************)

\* RevokeMember and ReinstateMember, as far as the row and if it is to change.
StartSwitch(a, m, to) ==
  /\ Present(m) /\ members[m] # to
  /\ Begin(a, [pc |-> "switch", member |-> m, to |-> to])
  /\ UNCHANGED <<invites, members, via, owner, links>>

Switch(a) ==
  LET q == req[a]
  IN /\ q.pc = "switch"
     /\ members' = IF Present(q.member) THEN [members EXCEPT ![q.member] = q.to] ELSE members
     /\ End(a)
     /\ UNCHANGED <<invites, via, owner, links>>

\* Only revoked members are deleted (409).
Deletable(m) == members[m] = "revoked"

StartDeleteMember(a, m) ==
  /\ Deletable(m)
  /\ Begin(a, [pc |-> "list", member |-> m])
  /\ UNCHANGED <<invites, members, via, owner, links>>

ListItems(a) ==
  /\ req[a].pc = "list"
  /\ LET m == req[a].member
     IN req' = [req EXCEPT ![a] =
          [pc |-> "delete", member |-> m, items |-> {i \in Items : owner[i] = m}]]
  /\ UNCHANGED <<invites, members, via, owner, links>>

\* Mutant: only the links are looked at.
LinksHeld(q) ==
  \E l \in LinksWithout(q.items) : l[2] = q.member

\* Rows left that refer to the member, whose foreign keys restrict its deletion:
\* an item stored since the items were listed, a link on somebody else's item.
Restricted(q) ==
  \/ \E i \in Items \ q.items : owner[i] = q.member
  \/ \E l \in LinksWithout(q.items) : l[2] = q.member

\* Every row to be removed is there, and nothing restricts it.
Removable(q) ==
  /\ Present(q.member)
  /\ \A i \in q.items : Stored(i)
  /\ ~Restricted(q)

\* The items go by their ids, whoever they belong to by now.
DeleteMember(a) ==
  LET q == req[a]
  IN /\ q.pc = "delete"
     /\ Removable(q)
     /\ owner' = [i \in Items |-> IF i \in q.items THEN NoMember ELSE owner[i]]
     /\ links' = LinksWithout(q.items)
     /\ members' = [members EXCEPT ![q.member] = "deleted"]
     /\ End(a)
     /\ UNCHANGED <<invites, via>>

DeleteMemberFails(a) ==
  /\ req[a].pc = "delete" /\ ~Removable(req[a])
  /\ End(a)
  /\ UNCHANGED <<invites, members, via, owner, links>>

-----------------------------------------------------------------------------
Init ==
  /\ invites = [v \in Invitations |-> "new"]
  /\ members = [m \in Members |-> "none"]
  /\ via = [m \in Members |-> NoInvitation]
  /\ owner = [i \in Items |-> NoMember]
  /\ links = {}
  /\ req = [h \in Admins \cup Clients |-> Idle]

AdminStep(a) ==
  \/ CreateInvitation(a)
  \/ \E v \in Invitations : FindInvitation(a, v) \/ \E p \in Pins : DrawPin(a, v, p)
  \/ DeleteInvitation(a)
  \/ \E m \in Members : StartDeleteMember(a, m) \/ \E to \in {"active", "revoked"} : StartSwitch(a, m, to)
  \/ Switch(a) \/ ListItems(a) \/ DeleteMember(a) \/ DeleteMemberFails(a)

ClientStep(c) ==
  \/ \E v \in Invitations : PresentPin(c, v)
  \/ \E m \in Members : ExchangePin(c, m)
  \/ RefusePin(c)
  \/ \E m \in Members, i \in Items :
       StartUpload(c, m, i) \/ StartRemove(c, m, i) \/ StartShare(c, m, i)
  \/ \E m \in Members, l \in links : StartUnshare(c, m, l)
  \/ Upload(c) \/ Remove(c) \/ Share(c) \/ Unshare(c)

Next ==
  \/ \E a \in Admins : AdminStep(a)
  \/ \E c \in Clients : ClientStep(c)
  \/ \E h \in Admins \cup Clients : Abandon(h)

Spec == Init /\ [][Next]_vars

-----------------------------------------------------------------------------
TypeOK ==
  /\ invites \in [Invitations -> Pins \cup {"new", "used", "withdrawn"}]
  /\ members \in [Members -> {"none", "active", "revoked", "deleted"}]
  /\ via \in [Members -> Invitations \cup {NoInvitation}]
  /\ owner \in [Items -> Members \cup {NoMember}]
  /\ links \subseteq Items \X Members
  /\ req \in [Admins \cup Clients -> ClientRequest \cup AdminRequest \cup {Idle}]

Joined(m) == members[m] # "none"

\* An invitation makes at most one member, however many devices present its PIN
\* at once, and none once it is withdrawn, even if another has its PIN by then
\* (ExchangePinForToken; README.md: "Invitation PINs are one-time use").
OneMemberPerInvitation ==
  \A m \in Members : Joined(m) =>
    /\ invites[via[m]] = "used"
    /\ \A n \in Members : Joined(n) /\ via[n] = via[m] => n = m

\* Whatever overlaps with the deletion of a member, no item and no link is left
\* that refers to a member, or an item, that is gone (DeleteMember, the foreign
\* keys of SpaceItem and SharedLink).
NoOrphans ==
  /\ \A i \in Items : Stored(i) => Present(owner[i])
  /\ \A l \in links : Stored(l[1]) /\ Present(l[2])

Busy(m) == \E c \in Clients : req[c] \in Uploading \cup Sharing /\ req[c].by = m

\* Once a member is revoked and the requests it had under way are over, nothing
\* is added in its name any more until it is reinstated (the middleware).
RevokedAddNothing ==
  [][\A m \in Members :
       members[m] # "active" /\ ~Busy(m) =>
         /\ {i \in Items : owner'[i] = m} \subseteq {i \in Items : owner[i] = m}
         /\ {l \in links' : l[2] = m} \subseteq links
         /\ members'[m] # "active" => ~Busy(m)']_vars

\* The next two are stated by a document of the repository and violated by the code:
\* see the README.

\* An active member is not deleted (DeleteMember; .squad/decisions.md: "409 Conflict
\* if member is not revoked (prevents accidental deletion of active members)").
ActiveSurvives ==
  [][\A m \in Members : members[m] = "active" => members'[m] # "deleted"]_vars

\* With no request under way, a revoked member and its items can be removed
\* (DeleteMember; .squad/decisions.md: "Admins can fully remove revoked members
\* and reclaim storage").
RemovalPossible ==
  (\A h \in Admins \cup Clients : req[h] = Idle) =>
    \A m \in Members : Deletable(m) =>
      Removable([member |-> m, items |-> {i \in Items : owner[i] = m}])
=============================================================================
