CONSTANTS
  lgA = lgA
  lgB = lgB
  Loggers <- MCLoggers
  NameLength <- MCNameLength
  Files <- MCFiles
  LineNumbers <- MCLineNumbers
  LocationLengths = {0, 4, 6}
  Levels = {1}
  IndentBits = 8
  SizeBits = 12
  MaxScopes = 2
  MaxBuffer = 3

SPECIFICATION ScopedFlushSpec

INVARIANT FlushReproducesBuffer
INVARIANT LocationColumnWidth
INVARIANT IndentMatchesOpenScopes
PROPERTY IndentFollowsScopes
