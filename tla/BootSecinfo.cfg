SPECIFICATION Spec
CONSTANTS
  Addr <- MCAddr
  Images <- TablesInRam
  Bad = 99
  Opcode = 72
  Used = 33
  Start = 101
  Secinfo = 102
  Lib = 103
  Crt1 = 104
  MaxResets = 2
INVARIANT
  TablesInRom
