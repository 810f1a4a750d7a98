SPECIFICATION NanoSpec
CONSTANT MaxGates = 6
INVARIANTS ClockBeforeWaiting NoPulseTwice
PROPERTY LoopKeepsClock
