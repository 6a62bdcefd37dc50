SPECIFICATION Spec
CONSTANTS
  Containers <- NativeContainers
  SchemasEx <- ElixirSchemas
  Short = Short
  Junk = Junk
  SetupFound = TRUE
  Block = {"plain", "mixed"}
  BlobsOf <- MCBlobsOf
  Mixed = {"mixed"}
  MaxCommitments = 6
  MaxDeliveries = 3
  MaxCrashes = 1
INVARIANT RefusedForWrongBlobs
CHECK_DEADLOCK FALSE
