\* 30 stars in creation, then a few steps of the world.
SPECIFICATION Spec
CONSTANTS
  StarNum = 30
  MaxSteps = 3
INVARIANTS WorldInv StarsWhole DrawsAfterOrbit
