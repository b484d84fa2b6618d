SPECIFICATION Spec
CONSTANT BusFails = TRUE
INVARIANTS
  HizAsAsked
  AdcFollowsCable
PROPERTIES
  StateConverges
