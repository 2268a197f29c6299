SPECIFICATION Spec
CONSTANTS
  Objects <- MCObjects
  Specs <- MCSpecs
  Sandboxes <- MCSandboxes
  DefaultImage = "default"
  MemoryImage = "mem0"
  MaxInheritanceDepth = 3
  None = None
INVARIANTS PodMeansSpecs  
PROPERTIES PodComesLast PassEnds
