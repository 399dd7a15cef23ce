SPECIFICATION Spec
CONSTANTS
  o1 = o1
  o2 = o2
  o3 = o3
  r1 = r1
  r2 = r2
  Output = {o1, o2, o3}
  Repo = {r1, r2}
  RepoOf <- ThreeRepoOf
  Position <- Order
  Requests <- Streamed
  Declarations <- Targets
  Settings <- SettingsTried
  IdKeys = {"manifest-id"}
  Checksums = {"checksum"}
  Threshold = 2
  Path <- Paths
  Diffs <- DiffsTried
INVARIANT PreviewsThePermitted
