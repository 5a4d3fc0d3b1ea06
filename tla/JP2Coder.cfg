SPECIFICATION Spec
CONSTANTS
  Lengths = {3, 4, 5}
  ChunkSize = 4
  MaxOutput = 6
  MaxCalls = 3
INVARIANTS
  VerifiersAccept
  VerifiersInForce
  HandlesFreed
  BlobReleased
