CONSTANTS
  ManagedValues = {dhcp, pppoe}
  OtherValues = {o1, o2}
  DefaultManaged = dhcp
  ExitChecks = 5
  Anomalies = {wan_drop, latency}
  WanDrop = wan_drop
  Actions = {restart_wan, purge_cache}
  HighRisk = {restart_wan}
  MaxProposals = 2
  MaxExecutions = 1
SPECIFICATION MCSpec
INVARIANT ExitChecksWereHealthy
