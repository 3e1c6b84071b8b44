CONSTANTS
  EventTypes = {"anomaly_detected", "verification_passed", "failed_critically"}
  Listeners = {o1, o2}
  RingSize = 2
  MaxEvents = 3
SPECIFICATION Spec
SYMMETRY ListenerSymmetry
INVARIANTS
  OrchTypeOK
  RewardedOncePerInstance
  SerialEventsDriveState
CHECK_DEADLOCK FALSE
