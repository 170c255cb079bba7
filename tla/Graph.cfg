SPECIFICATION Spec
CONSTANTS
  Ptrs = {p1, p2, p3}
  NoPtr = NoPtr
  MaxNodes = 3
  MaxVersion = 2
SYMMETRY PtrSymmetry
INVARIANTS TypeOK CheckInvariants EdgesJoinLiveNodes
PROPERTIES IdsNeverReused RefinesLockOrder
