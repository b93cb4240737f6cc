\* Are the values randomized for an entity its own?
SPECIFICATION Spec
CONSTANTS
  StarNum = 2
  MaxSteps = 0
INVARIANT StarsRandomized
