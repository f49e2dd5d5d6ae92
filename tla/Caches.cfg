SPECIFICATION Spec
CONSTANTS
  u1 = u1  u2 = u2  u3 = u3  chA = chA  chB = chB  chC = chC  chZ = chZ
  NBlocks = 3  CacheUsers = {u1, u2}
  Chunks = {chA, chB, chC, chZ}  Partial = {chZ}
  Prompts <- MCPrompts  LegacyHash <- MCHash
  PagedOps = {"release", "fork", "generate", "clear"}  MaxPagedClears = 1
  CacheKeys <- MCKeys  MemMax = 2  MemEntries = 1  Hybrid = FALSE
  StoreKinds = {"prompt", "prefill", "whole"}  MaxMemClears = 1  MaxMemLives = 2
  SpillSize = 1  SsdEntries = 1  MaxSsdFaults = 1  SsdFaults = {"write", "crash"}
  TrieKeys <- MCTrieKeys  TrieMax = 3  TrieTrims = TRUE
  ImageLists <- MCImageLists  VisionPrompts = {1}
  PixelMax = 2  MmMax = 2  MmBytes = 4  MaxMmGrows = 2
  ListSize = 4
SYMMETRY Symmetry
INVARIANTS CachesTypeOK BlocksConserved     
PROPERTY ListIsQueue
CHECK_DEADLOCK FALSE
