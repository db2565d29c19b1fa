SPECIFICATION Spec
CONSTANTS
  COUNT_MOD = 39
  MESSAGE_MOD = 2
  GYRO_BUF = 13
  REGS = 6
  CALIBRATE_NUM = 3
INVARIANTS
  TypeOK
  ValuesInOrder
  NoReplyDropped
  OnePollAhead
PROPERTY
  DriverReturns
