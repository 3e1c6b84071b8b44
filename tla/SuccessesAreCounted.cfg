CONSTANTS
  wan_drop = wan_drop
  weak_signal = weak_signal
  restart_wan = restart_wan
  scale_tx = scale_tx
  remediate = remediate
  Anomalies = {wan_drop, weak_signal}
  Checked = {wan_drop}
  Actions = {restart_wan, scale_tx, remediate}
  WanDrop = wan_drop
  RestartWan = restart_wan
  Risk <- MCRisk
  DefaultAction <- MCDefault
  Seed <- MCSeed
  AIAnswers <- MCAnswers
  Injected <- MCInjected
  Verifications = {v1, v2}
  ChaosCalls = {c1}
  MaxStarts = 3
SPECIFICATION Spec
PROPERTY SuccessesAreCounted
