CONSTANTS
  Characters <- MCCharacters
  MaxCharacters = 4
  Modes = {"chunked"}
  Pretoks = {"o200k"}
  MaxCarry = 20
  SearchWindow = 20
  ChunkWindow = 2
  MaxChunks = 3
  Splitting = {}
SPECIFICATION Spec
INVARIANTS
  CutsAreInvisible
