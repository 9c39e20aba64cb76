\* Small stand-ins for u32::MAX and the most bits.
CONSTANTS
  MaxLen = 4
  MaxBits = 20
  Key <- MCKey
  Cases <- MCCases

SPECIFICATION Spec

INVARIANTS
  TypeOK
  NoEndlessCalls
  EncodesAsFormat
  RoundTrip
  LengthsAgree
  ValidAsLikes
  SkipsAsDecodes
  PanicsBeforeLength

\* Encoding ends.
CHECK_DEADLOCK FALSE
