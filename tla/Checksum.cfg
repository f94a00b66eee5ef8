SPECIFICATION Spec
CONSTANTS
  Words <- MCWords
  Layouts <- MCLayouts
CHECK_DEADLOCK FALSE

INVARIANTS
  TypeOK
  AnswerIsComplement
  AcceptsIntact
  DetectsDamage
  AnswerIsChecksumOf
