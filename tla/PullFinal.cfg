\* Close a pull request while its merge is recorded.
CONSTANTS
  c1 = c1
  c2 = c2
  g1 = g1
  e1 = e1
  NoCommit = NoCommit
  Commit = {c1, c2}
  Root = c1
  Work = c2
  Merger = {g1}
  Pusher = {}
  Editor = {e1}
  Rules <- HistoryRules
  Strategies <- Everyone
  Posted = {}
  Reviews = {}
  Switches = {}
  MaxFaults = 0
SPECIFICATION Spec
PROPERTIES
  MergedIsFinal
