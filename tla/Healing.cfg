CONSTANTS
  ManagedValues = {dhcp}
  OtherValues = {o1, o2}
  DefaultManaged = dhcp
  ExitChecks = 2
  Anomalies = {wan_drop, latency}
  WanDrop = wan_drop
  Actions = {restart_wan, purge_cache}
  HighRisk = {restart_wan}
  MaxProposals = 1
  MaxExecutions = 2
SPECIFICATION LoopSpec
SYMMETRY OtherSymmetry
INVARIANTS
  LoopTypeOK
  SafeModeDurable
  HealingIsEarned
  HealsOnlyWhenAllowed
  GatedChangeIsRecoverable
  ApprovedOnce
