CONSTANTS
  Alphabet <- MCAlphabet
  MaxPayload = 2
  Copies = 2
  MaxAcks = 4
SPECIFICATION Spec
INVARIANTS TypeOK Transparent OnlyACutDeceives SecondCopyRecognised AnswersBounded
 DamageOnlyLoses
CHECK_DEADLOCK FALSE
