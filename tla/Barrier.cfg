SPECIFICATION BarrierSpec
CONSTANT N = 4
INVARIANTS NoLostWakeup
PROPERTIES ImplementsBeforeAfter AllJoined
CHECK_DEADLOCK FALSE
