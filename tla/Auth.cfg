\* Two accounts, three phones, two devices, and two requests in flight; a
\* server that stops in some behaviours and keeps running in others.
SPECIFICATION Spec
CONSTANTS
  Accounts = {a1, a2}
  Phones = {p1, p2, p3}
  Devices = {d1, d2}
  Names = {n1}
  SessionIds = {i1}
  Suffixes = {x1, x2}
  Null = Null
  MaxNumbers = 2
  MaxChecks = 2
  MaxAsked = 3
  Slots = {s1, s2}
  Scopes = {{"signup", "code", "time"},
    {"alone", "code", "login", "logout", "crash"},
    {"alone", "code", "login", "device", "time"}, {"profile"}, {"change"},
    {"alone", "change", "time"}, {"link"}, {"alone", "link", "unlink"}}
INVARIANTS TypeOK AccountsDistinct SessionsAwaited
PROPERTIES ImplementsPhoneBook SessionsEnd ConnectedTogether
CHECK_DEADLOCK FALSE
