CONSTANTS
  Pages = {p1, p2, p3}
  Layouts <- MediumOrMixed
SPECIFICATION Spec
INVARIANTS HeapInv MemoryCounted
PROPERTIES FreedIsOffered ImplementsAllocator
SYMMETRY SamePages
CHECK_DEADLOCK FALSE
