SPECIFICATION FairSpec
CONSTANTS
  Slots = {s1, s2}
  Users = {u}
  kOps = 4
  Budgets <- MCBudgets
INVARIANTS ShownIsThere FiguresAreTrue PlaceIsKept
PROPERTIES TopicSpec WaitsEnd
