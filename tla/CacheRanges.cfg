CONSTANT Length = 6
SPECIFICATION Spec
INVARIANTS
  RangesExact
  RangesSeparated
  LookupUniform
  LookupMatchesSet
