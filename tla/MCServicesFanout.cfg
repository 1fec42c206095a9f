CONSTANT
  Parts = {"dispatch"}
SPECIFICATION ServicesSpec
INVARIANT HandledIsAcked
CHECK_DEADLOCK FALSE
