CONSTANTS
  ManagedValues = {dhcp}
  OtherValues = {o1}
  DefaultManaged = dhcp
  ExitChecks = 2
  Anomalies = {wan_drop}
  WanDrop = wan_drop
  Actions = {restart_wan}
  HighRisk = {restart_wan}
  MaxProposals = 1
  MaxExecutions = 1
SPECIFICATION FairLoopSpec
PROPERTIES
  SafeModeEnds
  RestartServed
