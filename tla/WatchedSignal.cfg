CONSTANTS
    Setups <- SmallSetups
    MaxPrice = 6
    MaxGap = 1
SPECIFICATION Spec
INVARIANTS TypeOK FiresOnProof LateMoveNotChased
PROPERTIES CrossingIsConfirmed StopIsLive
CHECK_DEADLOCK FALSE
