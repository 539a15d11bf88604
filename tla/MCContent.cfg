SPECIFICATION Spec
CHECK_DEADLOCK FALSE
INVARIANTS
  TransfersAreHonest
  AnswersAreRight
  RequestsAreServed
  StoresAreWhole
PROPERTY FilesAreWhole
