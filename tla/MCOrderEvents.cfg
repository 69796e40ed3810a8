CONSTANTS
  o1 = o1
  o2 = o2
  ann = ann
  bob = bob
  u1 = u1
  u2 = u2
  u3 = u3
  c1 = c1
  c2 = c2
  s1 = s1
  Orders = {o1, o2}
  Users = {ann, bob}
  Updates = {u1, u2, u3}
  Clients = {c1, c2}
  Sockets = {s1}
  CanRead <- MCCanRead
  Patches <- MCPatches
  Watch <- MCWatch
  SocketUser <- MCSocketUser
  Allowed = {"pending", "paid", "shipped"}
  Created = "paid"
  BufferLimit = 2
  NoOne = NoOne
  Absent = Absent
  Other = Other
  MaxFaults = 2
SPECIFICATION FairSpec
INVARIANTS
  TypeOK
  NoGapNoRepeat
  BusFollowsTable
  OnlyReadersSee
PROPERTIES CaughtUp
