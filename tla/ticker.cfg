SPECIFICATION Spec
CONSTANTS
  Events = {e1, e2, e3}
  Delays = {1, 3, 5}
  Span = 16
  MaxReload = 3
  RemainSpan = 2
  Past = 2
  Liberties = {}
SYMMETRY MCSymmetry
INVARIANTS QueueSorted Punctual
PROPERTY NotEarly
