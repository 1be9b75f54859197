\* Two names over two files, which are never removed; three writes, three calls.
CONSTANTS
  Names = {game, player}
  Paths = {p1, p2}
  Files = {p1, p2}
  FileOf <- OwnFile
  Documents = {v1, v2}
  Broken = broken
  Absent = absent
  Written = {v1, v2, broken}
  MaxWrites = 3
  MaxCalls = 3
SPECIFICATION FairConfigSpec
INVARIANT StaleIsNoticed
PROPERTY EventuallyFresh
