CONSTANTS
  lgA = lgA
  lgB = lgB
  Loggers <- MCLoggers
  NameLength <- MCNameLength
  Files <- MCFiles
  LineNumbers <- MCLineNumbers
  LocationLengths = {0, 4}
  Levels = {1}
  IndentBits = 2
  SizeBits = 12
  MaxScopes = 1
  MaxBuffer = 3
  MaxWritten = 3

SPECIFICATION ToggleSpec

INVARIANT NoTextLost
