CONSTANTS
  c1 = c1
  c2 = c2
  c3 = c3
  Clients = {c1, c2}
  Names <- SomeNames
  Inputs <- SomeInputs
  Trimmed <- SomeTrimmed
  Rejected <- SomeRejected
  Seeds <- SomeSeeds
  Queries <- SomeQueries
  MaxSeq = 6
SPECIFICATION Spec
SYMMETRY Symmetry
INVARIANTS
  TypeOK
  CreatedOnce
  CreatedStays
  SearchExact
PROPERTIES
  IdsNeverReused
  ImplementsDirectory
