SPECIFICATION Spec
CONSTANTS
  SchedulingFreq = 2
  MaxFiq = 2
  MaxNotify = 2
  MaxStarts = 2
INVARIANT TypeOK NoLostWakeup
PROPERTY SwdBusyScheduled InitDeviceReturns
CHECK_DEADLOCK FALSE
