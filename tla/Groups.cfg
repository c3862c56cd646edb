\* A database in use: an org, a group of it or of a person, two users with
\* requests in flight and, where members are removed, a third one.
SPECIFICATION Spec
CONSTANTS
  Persons = {p1, p2, p3}
  Registered = {p1, p2, p3}
  Clients = {p1, p2}
  Founder = p1
  Nobody = Nobody
  Names = {n1}
  Options = {yes, no}
  MaxOrgs = 1
  MaxInvites = 0
  MaxTransfers = 0
  MaxGroups = 3
  MaxPolls = 1
  Slots = {s1, s2}
  Scopes = {{"create", "org"}, {"create", "rename"}, {"rename", "org"},
    {"pin", "drop"}, {"add", "org"},
    {"evict", "leave", "stop"}, {"leave", "drop"}, {"admin", "stop"},
    {"connect", "drop", "org"}, {"poll", "vote", "drop"}}
SYMMETRY Symmetry
CHECK_DEADLOCK FALSE
INVARIANTS TypeOK GroupReferences OneConnectorGroup
PROPERTIES ImplementsRoster EvictedTogether LeaversAreOut
