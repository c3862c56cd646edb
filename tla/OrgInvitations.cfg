\* Invitations and transfers, asked for, answered and deleted while the org
\* they are about is founded and deleted.
SPECIFICATION FairSpec
CONSTANTS
  Persons = {p1, p2}
  Registered = {p1}
  MaxOrgs = 1
  MaxInvites = 1
  MaxTransfers = 1
  Clients = {p1, p2}
  Named = {p2}
  Lists = {{p2}}
  GivenRoles = {}
  Slots = {s1, s2}
  Activity = {"found", "close", "ask", "answer", "withdraw", "transfer",
    "connector", "remove"}
CHECK_DEADLOCK FALSE
INVARIANTS TypeOK OrgReferences
PROPERTIES ImplementsLedger ApprovalsHold ApprovedJoins
