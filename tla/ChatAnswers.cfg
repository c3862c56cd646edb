\* What every accepted request leads to, under the fairness of the server, with
\* two requests in flight.  Three users: a multiple delete can hold a message
\* that is not the user's.
SPECIFICATION MCFairSpec
CONSTANTS
  Users = {u1, u2, u3}
  Groups = {g1}
  Emojis = {e1}
  MaxMessages = 2
  MaxReactions = 0
  MaxSaved = 0
  Slots = {s1, s2}
  Activity = {"send", "post", "reply", "forward", "unsend", "delete",
    "hide", "archive", "seen", "pin", "react", "save", "group", "age"}
  Parts = {"hides", "marks"}
  OneSlot = {s1}
  OneUser = {u1}
CHECK_DEADLOCK FALSE
PROPERTIES RequestsEnd UnsentStaysGone BatchHideApplied MarksStick
  MarksNeverUndone
