SPECIFICATION Spec
CONSTANTS
  Numeral <- MCNumeral
  Truth <- MCTruth
  Timestamp <- MCTimestamp
  TextList <- MCTextList
  NumberList <- MCNumberList
  StartsWith <- MCStartsWith
  EndsWith <- MCEndsWith
  Includes <- MCIncludes
  Crc32 <- MCCrc32
  Namespace = "default"
  Documents <- MCDocuments
  Requests <- MCRequests
  Batches <- MCBatches
  Buckets <- MCBuckets
INVARIANTS
  TypeOK VariantFollowsDocument BooleanFollowsDocument BatchFollowsDocument
  SharesAreFair RaisingKeepsEntities OppositesExclude
CHECK_DEADLOCK FALSE
