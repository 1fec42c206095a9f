\* Every pure decision over bounded inputs.  An evaluation ends, so the last
\* state of a behaviour has no successor.
SPECIFICATION Spec
CHECK_DEADLOCK FALSE
INVARIANTS
  ConfigurationIsExact
  EvidenceIsHonest
  WireFormatsAgree
