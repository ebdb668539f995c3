SPECIFICATION Spec
CONSTANTS
  Item = {a, b}
  Capacity = 4
  Modulus = 8
INVARIANT RingSafe
PROPERTY ImplementsFifo
