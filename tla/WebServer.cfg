\* The requests come to an end; that each of them does is a property.
SPECIFICATION FairSpec
CONSTANTS
  Request = {r1, r2}
  What = {"chat", "config", "approve", "use"}
  Background = {scheduler}
  Watcher = watcher
  None = None
  Slots = 1
  Outcomes = {"ok", "bad", "channels"}
  MaxEdits = 1
CHECK_DEADLOCK FALSE
INVARIANTS
  Serialized
  TurnsUseReadyApp
  OnlyHalfBuiltLeak
  ConfigApplied
PROPERTIES
  EveryRequestServed
