\* One request at a time for an additional number.
SPECIFICATION Spec
CONSTANTS
  Accounts = {a1, a2}
  Phones = {p1, p2, p3}
  Devices = {d1}
  Names = {n1}
  SessionIds = {i1}
  Suffixes = {x1}
  Null = Null
  MaxNumbers = 1
  MaxChecks = 1
  MaxAsked = 0
  Slots = {s1}
  Scopes = {{"link"}}
INVARIANT LegalNumbersPass
CHECK_DEADLOCK FALSE
