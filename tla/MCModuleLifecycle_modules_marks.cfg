SPECIFICATION Spec
CONSTANTS
  a = a
  b = b
  c = c
  s = s
  Modules = {a, b, c, s}
  Synthetic = {s}
  Shapes <- GraphShapes
  MaxCalls = 2
PROPERTY
  MarksOwnGraphOnly
