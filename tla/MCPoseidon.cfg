SPECIFICATION Spec
CONSTANTS
  P = 7
  POSEIDON_WIDTH = 3
  POSEIDON_FULL_ROUNDS = 2
  POSEIDON_PARTIAL_ROUNDS = 2
  POSEIDON_ARK <- MCARK
  POSEIDON_MDS <- MCMDS
  BYTE = 2
  CHUNK = 2
  Elements = {0, 1, 5}
  Messages <- MCMessages
  NoArg = NoArg
  MaxCalls = 2
CHECK_DEADLOCK FALSE
INVARIANTS TypeOK SpongeTracksPack DistinctMessagesAbsorbDifferently
PROPERTIES ImplementsRustHash
