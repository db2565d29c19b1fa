\* The program writes and reads; the other end sends no backspace.
SPECIFICATION Spec
CONSTANTS
  COUNT_MOD = 4
  MESSAGE_MOD = 2
  USART_BUF = 2
  SIZE_MOD = 3
  WriteCounts = {0, 2, 3}
  ReadCounts = {0, 2}
  RxChars = {"a", "ESC"}
INVARIANTS
  TypeOK
  NoByteStranded
  TxNeverOverrun
  RxNeverUnderrun
  WireFramed
PROPERTIES
  TxIsFifo
  RxIsFifo
  WriteReturns
  TxDrains
