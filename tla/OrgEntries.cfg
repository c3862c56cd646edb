\* Who is entered and removed, with two requests in flight.
SPECIFICATION FairSpec
CONSTANTS
  Persons = {p1, p2, p3}
  Registered = {p1}
  MaxOrgs = 1
  MaxInvites = 1
  MaxTransfers = 0
  Clients = {p1}
  Named = {p2}
  Lists = {{p2, p3}}
  GivenRoles = {"Owner"}
  Slots = {s1, s2}
  Activity = {"found", "close", "add", "phones", "connector", "role", "remove",
    "die"}
CHECK_DEADLOCK FALSE
INVARIANTS OneMembership
PROPERTIES EntriesApplied
