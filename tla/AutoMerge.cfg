\* Arm auto-merge after the last status and review.
CONSTANTS
  c1 = c1
  c2 = c2
  g1 = g1
  NoCommit = NoCommit
  Commit = {c1, c2}
  Root = c1
  Work = c2
  Merger = {g1}
  Pusher = {}
  Editor = {}
  Rules <- AllGates
  Strategies <- Everyone
  Posted = {"success"}
  Reviews = {"approved"}
  Switches = {"auto"}
  MaxFaults = 0
SPECIFICATION FairSpec
PROPERTIES
  AutoMergeFires
