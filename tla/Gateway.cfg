\* Two clients of three users, a group of an org and a personal group, a
\* message in each table, and two requests in flight.
SPECIFICATION Spec
CONSTANTS
  u1 = u1
  u2 = u2
  o1 = o1
  g1 = g1
  g2 = g2
  u3 = u3
  Nobody = Nobody
  Users = {u1, u2, u3}
  Clients = {u1, u2}
  MaxHistory = 3
  Groups = {g1, g2}
  Orgs = {o1}
  OrgOf <- MCOrgOf
  CreatedBy <- MCCreatedBy
  Emojis = {"like"}
  MaxMessages = 3
  MaxReactions = 1
  MaxSaved = 0
  Slots = {s1, s2}
  Scopes = {{"list"}, {"connect", "org"}, {"react", "delete"}, {"pin", "seen"},
    {"send", "delete"}, {"post"}, {"forward"}, {"share"}, {"connect", "delete"}}
INVARIANTS TypeOK SteadyInRooms ChatsListed RecentListed
PROPERTIES ImplementsForest WritesAreAnnounced
CHECK_DEADLOCK FALSE
