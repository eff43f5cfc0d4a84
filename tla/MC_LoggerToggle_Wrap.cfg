CONSTANTS
  lgA = lgA
  lgB = lgB
  Loggers <- MCLoggers
  NameLength <- MCNameLength
  Files <- MCFiles
  LineNumbers <- MCLineNumbers
  LocationLengths = {0}
  Levels = {1}
  IndentBits = 8
  SizeBits = 12
  MaxScopes = 1
  MaxBuffer = 3
  MaxWritten = 3

SPECIFICATION ToggleSpec

INVARIANT FlushPadBounded
