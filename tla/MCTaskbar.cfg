CONSTANTS
  Window = {w1, w2}
  MaxWire = 2
SPECIFICATION Spec
INVARIANTS ChipsMirrorWindows NoDanglingToplevel DividerMeansChips
