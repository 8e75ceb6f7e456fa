CONSTANTS
  Window = {w1, w2}
  MaxWire = 2
SPECIFICATION Spec
PROPERTIES QuitAsksItsWindow
