\* Cache hierarchy, replacement, prefetchers, Cheetah and the memory tracker.
SPECIFICATION Spec
CONSTANTS
  Net = Net
  None = None
  NoTag = NoTag
INVARIANTS
  TypeOK
  HierarchyCoherent
  
PROPERTIES
  AtomicPair
  VictimSound
