SPECIFICATION FairSpec
CONSTANTS
  NBatches = 3
  EmptyBatches <- SecondBatchEmpty
  Vectors = {v1, v2}
  NumShards = 2
  Damages <- AnyDamage
  NoFile = NoFile
INVARIANTS
  TypeOK
  CommittedOnDisk
  ChecksumsTrue
  SealedIsComplete
  NoClaimConflict
  HandOver
PROPERTIES
  IntactShardsImmutable
  SealedIsFrozen
  ImplementsLedger
  PublishedIsSealed
