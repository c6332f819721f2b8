SPECIFICATION Spec
CONSTANTS
  Instant <- Instants
  ChmodNew = FALSE
INVARIANTS
  AttrSurvives
  TimesSurvive
