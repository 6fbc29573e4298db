SPECIFICATION FairSpec
CONSTANTS
  Replicas = {r1, r2, r3}
  NumMigrations = 2
  Faults = {"db", "crash"}
INVARIANTS SchemaMatches AppliedInOrder ServingHasSchema
PROPERTY OneServes
