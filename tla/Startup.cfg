SPECIFICATION FairSpec
CONSTANTS
  Environments <- MCEnvironments
  Pem <- MCPem
  NoFile = NoFile
  Unreliable = {"redis", "broker", "files", "tmp"}
  MaxRenewals = 1
  MaxCrashes = 1
INVARIANT TypeOK
INVARIANT TrustStoreWhole
INVARIANT ConnectsAsConfigured
PROPERTY ComesUp
