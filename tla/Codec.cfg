SPECIFICATION Spec
CONSTANTS
  HashSize = 3
  AddressSize = 2
  EmptyFilter <- MCFilter
  Values <- MCValues
  Things <- MCThings
  Cuttable <- MCCuttable
  Unknown <- MCUnknown
INVARIANTS RoundTrip DamageNotMisread 
CHECK_DEADLOCK FALSE
