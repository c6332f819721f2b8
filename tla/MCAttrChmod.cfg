SPECIFICATION Spec
CONSTANTS
  Instant <- Instants
  ChmodNew = TRUE
INVARIANTS
  TypeKept
