SPECIFICATION FairSpec
CONSTANTS
  Msgs = {m1, m2}
  Frags = 3
  Win = 2
  Places = {"loop", "runner"}
INVARIANT TakenInOrder
PROPERTIES EndIsTheLastWord WindowComesBack
CHECK_DEADLOCK FALSE
