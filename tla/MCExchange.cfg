CONSTANTS
  Bodies <- Variants
  Headers <- MCHeaders
  MAX_FRAME_SIZE = 32900
SPECIFICATION Spec
INVARIANTS
  CodecsAgree
  DamageIsNoticed
  OnlyNewIdsAreUnwritable
  RejectionIsTold
  AnswersWhatWasAsked
  AdvertisedIsServed
CHECK_DEADLOCK FALSE
