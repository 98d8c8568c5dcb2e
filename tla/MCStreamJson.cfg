\* A step longer than the final silence, as by default, a VAD, redecode.
SPECIFICATION Spec
CONSTANTS
  Step = 4
  Length = 8
  FinalSilence = 2
  CloseGap = 1
  PartialInterval = 5
  UttMax = 7
  MinTail = 2
  UseVad = TRUE
  Redecode = TRUE
  Horizon = 13
INVARIANTS TypeOK PcmIsTheUtterance FinalAudioMissesLittle OpenWithinLimits OnePartialPerStep
PROPERTIES NoEarlierText Transcript
CHECK_DEADLOCK FALSE
