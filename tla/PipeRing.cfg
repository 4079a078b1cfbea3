CONSTANTS
  MaxPipes = 1
  Capacity = 3
  Byte = {0, 1}
  NoByte = 0
  MaxBuffer = 4
  MaxRefs = 2
SPECIFICATION RingSpec
PROPERTY RingsAreFifos
