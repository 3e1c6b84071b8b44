CONSTANTS
  Handlers = {bot}
  Peers = {"stations"}
  RestoreCycles = 2
  FlagDry = TRUE
  Classes = {"bulk"}
  HealActions = {"remediate_silent_wan_blackhole"}
  RequestActions = {"remediate_wifi_quality"}
  Word = 8
SPECIFICATION FairSpec
INVARIANTS
  TickTypeOK
  DryRunAsAsked
  ReloadSparesStations
PROPERTIES
  RevertIsEarned
  FlagFollowsRadio
  EcoReturns
