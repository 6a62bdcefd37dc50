SPECIFICATION Spec
CONSTANTS
  Containers <- NativeContainers
  SchemasEx <- ElixirSchemas
  Short = Short
  Junk = Junk
  SetupFound = TRUE
  Block = {"plain", "mixed"}
  BlobsOf <- MCBlobsOf
  Mixed = {"mixed"}
  MaxCommitments = 6
  MaxDeliveries = 4
  MaxCrashes = 1
INVARIANTS
  ImportedIsCommitted
  NeverRefused
  InclusionProofsVerify
CHECK_DEADLOCK FALSE
