CONSTANTS
  Tasks = {"t1", "t2"}
  Groups = {"g1", "g2", "g4"}
  GroupOf <- MCGroupOf
  TgFlags <- MCTgFlags
  Capacity <- MCCapacity
  NULL = NULL
  NoCall = NoCall
  CONFIG_BUILD_PROTECTED = TRUE
  CONFIG_BUILD_KERNEL = FALSE
  CONFIG_MM_KERNEL_HEAP = TRUE
SPECIFICATION Spec
INVARIANT TypeOK
PROPERTY Refinement
