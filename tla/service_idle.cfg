SPECIFICATION SpecEstablished
CONSTANTS
  Names = {"HDFS", "YARN"}
  Requests = {r1, r2}
  DefaultDeps <- Chain
  MaxCrashes = 0
SYMMETRY Symmetry
INVARIANTS TypeOK SettledWhenIdle LastOpAudited DependedOnKept DeletedUnlinked
