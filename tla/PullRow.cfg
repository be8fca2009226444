\* Everything that writes the row, while one merge runs.
CONSTANTS
  c1 = c1
  c2 = c2
  g1 = g1
  e1 = e1
  NoCommit = NoCommit
  Commit = {c1, c2}
  Root = c1
  Work = c2
  Merger = {g1}
  Pusher = {}
  Editor = {e1}
  Rules <- AllGates
  Strategies <- Everyone
  Posted = {"success"}
  Reviews = {"approved", "changes"}
  Switches = {"auto", "draft"}
  MaxFaults = 1
SPECIFICATION FairSpec
PROPERTIES
  LandedIsRecorded
  WokenMergeFires
