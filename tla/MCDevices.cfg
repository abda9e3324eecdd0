CONSTANTS
  Parts = {"keyboard", "mouse", "clock"}
\* A letter, both shifts, an arrow key and a key without meaning.
  Letters = {x}
  Shifts = {left, right}
  GreyKeys = {arrow}
  MuteKeys = {alt}
  Prefix = e0
  Size = 3
  MaxEvents = 4
  MaxWire = 5
\* Movement bytes without and with the bit that marks a first byte.
  Deltas <- MCDeltas
  Moves = {0, 8}
  ScanCode = 30
  FirmwareConfig = 101
  MaxPackets = 3
  MaxLost = 2
\* The chip ticks twice, while the driver waits or reads.
  Starts <- MCStarts
  MaxPolls = 3
  MaxTicks = 2
SPECIFICATION MCSpec
INVARIANTS
  KeysExact
  WheelExact
  FramingRecovers
  ReadExact
PROPERTIES
  RingIsFifo
CHECK_DEADLOCK FALSE
