\* Both parties delete the same message.
SPECIFICATION Spec
CONSTANTS
  Users = {u1, u2}
  Groups = {g1}
  Emojis = {e1}
  MaxMessages = 1
  MaxReactions = 0
  MaxSaved = 0
  Slots = {s1}
  Activity = {"send", "hide"}
CHECK_DEADLOCK FALSE
PROPERTY ReceiverDeletesForThemselves
