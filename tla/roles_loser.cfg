CONSTANTS
  c1 = c1
  c2 = c2
  c3 = c3
  Clients = {c1, c2}
  Names <- SomeNames
  Inputs <- SomeInputs
  Trimmed <- SomeTrimmed
  Rejected <- SomeRejected
  Seeds <- SomeSeeds
  Queries <- SomeQueries
  MaxSeq = 4
SPECIFICATION Spec
PROPERTIES
  LosersGet409
