SPECIFICATION FairSpec
CONSTANTS
  Watchers = {1, 2, 3}
  Render = {2, 3}
  Post = {}
  NoRecurse = {1}
  Owner <- ParentAndChild
  CanThrow = {2}
  Callbacks = {c1, c2}
  Flush = flush
  MaxUpdateCount = 1
  MaxOps = 5
INVARIANTS
  FlagsTellTruth
  HasIsQueued
  NoLostTrigger
  NextTickSeesUpdates
  OldestFirst
PROPERTIES
  StoppedForGood
  EveryCallAnswered
CHECK_DEADLOCK FALSE
