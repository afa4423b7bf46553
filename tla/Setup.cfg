\* The desk and one remote seat over what a launch may find; settings one thing apart
\* from a seat that works; two pages that route, and two captures.
CONSTANTS
  Desk = "desk"
  Remotes = {"seat"}
  IdOf <- MCIdOf
  Builtin = "b"
  Keys = {"m2lx", "srt"}
  Finds <- MCFinds
  PresetBudgets <- MCPresetBudgets
  Cases <- MCCases
  Overrides <- MCOverrides
  Mics = {"mic"}
  Cards = {"1", "2"}
  Pages = {"desk", "seat"}
  Pad <- MCPad
  Told <- MCTold
  Saved <- MCSaved
  Maps <- MCMaps
  ChanBudgets <- MCChanBudgets
SPECIFICATION MCSpec
INVARIANTS
  TypesOK PresetsAreConfined AcceptedIsUsable RoutingIsShown
PROPERTIES OnlyItsOwnPasswords
CHECK_DEADLOCK FALSE
