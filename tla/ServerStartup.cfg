\* The process ends when main returns.
SPECIFICATION StartupFairSpec
INVARIANTS NothingLeft NotUnderAThread
PROPERTIES MainReturns
CHECK_DEADLOCK FALSE
