CONSTANTS
  Members = {m1, m2}
  Invitations = {v1, v2}
  Pins = {p1}
  MaxDraws = 2
  Items = {i1}
  Admins = {a1, a2}
  Clients = {c1, c2}
  Ops = {"upload", "remove", "share", "unshare"}
  NoMember = NoMember
  NoInvitation = NoInvitation
SPECIFICATION Spec
INVARIANT TypeOK
INVARIANT OneMemberPerInvitation
INVARIANT NoOrphans
PROPERTY RevokedAddNothing
SYMMETRY Symmetry
