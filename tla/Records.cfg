SPECIFICATION FairSpec
CONSTANTS
  Clients = {c1, c2}
  Records = {r1}
  Entities = {"Archive", "ArchiveStore", "AuditChunkStatus", "Audit", "BillingInfo", "Client", "DataCreator", "DataManager", "Dataset", "DepositChunk", "Deposit", "DepositReview", "Event", "FileStore", "Group", "Job", "PendingDataCreator", "PendingVault", "PermissionModel", "RetentionPolicy", "Retrieve", "RoleAssignment", "RoleModel", "User", "Vault", "VaultReview"}
  Operations <- MCOperations
  Versioned <- VersionedEntities
  Assigned <- AssignedEntities
  PoolSize = 2
  MaxEdits = 2
  MaxFaults = 1
INVARIANTS TypeOK NoLostUpdate DeletedOnce
PROPERTY OnlyLeaksBlock
CHECK_DEADLOCK FALSE
