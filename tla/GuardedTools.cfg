SPECIFICATION GuardedSpec
CONSTANTS
  Args <- Calls
  NoArgs = NoArgs
  ToolOf <- ToolOfMC
  Untrusted <- OutsideMC
  NHooks = 2
  Policy <- Policies
  NoPolicy = NoPolicy
  Sample <- TwoCalls
  Subagents <- Declared
INVARIANTS RunsOnlyCleared RefusalIsFinal ReturnsFiltered 
PROPERTIES CallEnds
