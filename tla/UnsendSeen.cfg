\* An unsend and a seen mark in flight together.
SPECIFICATION Spec
CONSTANTS
  Users = {u1, u2}
  Groups = {g1}
  Emojis = {e1}
  MaxMessages = 1
  MaxReactions = 0
  MaxSaved = 0
  Slots = {s1, s2}
  Activity = {"send", "unsend", "seen"}
CHECK_DEADLOCK FALSE
PROPERTY UnsendOnlyUnseen
