CONSTANT
  Items <- MCItems

SPECIFICATION Spec

INVARIANTS
  TypeOK
  NoPanicOnceChecked
  BoundsSuffice
  BoundsNeeded
  NoSelfBound
  SupertraitsFollow
  FieldsAgree

\* The compiler goes on when every macro has run.
CHECK_DEADLOCK FALSE
