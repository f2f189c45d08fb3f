SPECIFICATION Spec
CONSTANTS
  Capacity <- MCCapacity
  Items = {a, b, c}
  NoItem = NoItem
INVARIANTS NoCellRace
PROPERTIES Fifo
