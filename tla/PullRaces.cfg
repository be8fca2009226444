\* Merges, pushes to both branches and a fault, under a required check, and
\* under a rule that keeps the history.
CONSTANTS
  c1 = c1
  c2 = c2
  c3 = c3
  g1 = g1
  g2 = g2
  p1 = p1
  NoCommit = NoCommit
  Commit = {c1, c2, c3}
  Root = c1
  Work = c2
  Merger = {g1, g2}
  Pusher = {p1}
  Editor = {}
  Rules <- BothRules
  Strategies <- Everyone
  Posted = {"success"}
  Reviews = {}
  Switches = {}
  MaxFaults = 1
SPECIFICATION RaceSpec
SYMMETRY Interchangeable
INVARIANTS
  TypeOK
  ProtectedHoldsCheckedWork
  MergedHasLanded
PROPERTIES
  ProtectedKeepsHistory
