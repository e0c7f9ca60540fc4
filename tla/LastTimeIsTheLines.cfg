SPECIFICATION Spec
CONSTANTS
  Slots = 4
  MaxWidth = 2
  Shapes = {a, b, c}
  Values = {0, 1}
  CrcMod = 3
  MaxEvents = 7
  MaxOutside = 1
INVARIANT LastTimeIsTheLines
SYMMETRY ShapeSymmetry
