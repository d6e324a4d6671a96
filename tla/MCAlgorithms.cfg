SPECIFICATION AllSpec
CONSTANTS
  Size = 18
  Chars = {3}
  Values <- MCValues
  Units = {1, 2}
  Loop = 4
  MaxCount = 3
  Contents <- MCContents
  DECODE_N = 4096
  DECODE_F = 18
  DECODE_THRESHOLD = 2
  Sources <- MCSources
  CRC_POLYNOMIAL <- MCPolynomial
  CRC_INITVAL <- MCInitval
  Sections <- MCSections
  MaxFlips = 2
  SECS_IN_MIN = 2
  MINS_IN_HOUR = 2
  Starts <- MCStarts
  Zones <- MCZones
INVARIANTS
  CallExact
  LzssExact
  CorruptionFound
  CalendarExact
CHECK_DEADLOCK FALSE
