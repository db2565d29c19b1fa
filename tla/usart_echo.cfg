SPECIFICATION Spec
CONSTANTS
  COUNT_MOD = 4
  MESSAGE_MOD = 3
  USART_BUF = 2
  SIZE_MOD = 2
  WriteCounts = {0}
  ReadCounts = {}
  RxChars = {"a", "BS"}
INVARIANT
  EchoesApart
