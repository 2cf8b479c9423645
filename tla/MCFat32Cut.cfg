SPECIFICATION Spec
CONSTANTS
  SectorSize = 2
  sectors_per_cluster = 2
  Clusters <- MCClusters
  EOC = 7
  Volumes <- MCVolumes
  Fnames = {"a", "b"}
  MaxSize = 8
INVARIANT
  ReturnsTheFile
