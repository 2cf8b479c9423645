SPECIFICATION Spec
CONSTANTS
  SectorSize = 2
  sectors_per_cluster = 2
  Clusters <- MCClusters
  EOC = 7
  Volumes <- MCVolumes
  Fnames = {"a", "b", "c", "d", "x"}
  MaxSize = 8
INVARIANTS
  ReturnsTheFileUnlessFatFails
  NoOverrun
  BuffersFreed
PROPERTIES
  FindsTheFile
  ListsAll
