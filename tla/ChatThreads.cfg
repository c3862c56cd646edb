\* Threads of replies and forwards across both tables, cut by deletes; and two
\* requests in flight on one message of each table.
SPECIFICATION MCSpec
CONSTANTS
  Users = {u1, u2}
  Groups = {g1}
  Emojis = {e1}
  MaxMessages = 2
  MaxReactions = 2
  MaxSaved = 1
  Slots = {s1, s2}
  Activity = {"send", "post", "reply", "forward", "unsend", "delete",
    "hide", "archive", "seen", "pin", "react", "save", "group", "age"}
  Parts = {"threads", "races"}
  OneSlot = {s1}
  OneUser = {u1}
SYMMETRY Symmetry
CHECK_DEADLOCK FALSE
INVARIANTS TypeOK RefIntegrity ReactionsDistinct
PROPERTY ImplementsForest
