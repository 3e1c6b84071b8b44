CONSTANTS
  Kinds = {"ignored", "chat", "reboot", "rebootTalk", "boost"}
  MaxUpdates = 3
SPECIFICATION FairSpec
INVARIANTS
  ListenerTypeOK
  ConfirmedIsHandled
  RepeatedOnlyWhenCut
PROPERTY UpdatesAreForgotten
