SPECIFICATION SpecEstablished
CONSTANTS
  Names = {"HDFS"}
  Requests = {r1, r2}
  DefaultDeps <- NoDeps
  MaxCrashes = 0
PROPERTY NoDeleteWhileRunning
