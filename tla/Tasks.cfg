\* A group of an org or a personal one, three tasks of which two are there
\* at the start, a client and somebody else, and two requests in flight.
SPECIFICATION Spec
CONSTANTS
  boss = boss
  client = client
  Persons = {boss, client}
  Clients = {client}
  OrgGroups = {g1}
  Groups = {g1, g2}
  OwnerOf <- MCOwnerOf
  MaxTasks = 3
  MaxArchives = 2
  Null = Null
  Slots = {s1, s2}
  Scopes = {{"create", "remove"}, {"create", "people"},
    {"assign", "unassign", "people"}, {"assign", "update", "unassign"},
    {"update", "remove", "stop"}, {"reorder", "remove"},
    {"archive", "remove"}, {"move", "remove"}}
INVARIANTS TypeOK TaskReferences ArchivedOnce AssigneesUpdated
PROPERTIES ReorderedTogether StaysReachable
SYMMETRY Symmetry
CHECK_DEADLOCK FALSE
