SPECIFICATION Spec
CONSTANTS
  None = None
  Vocabularies = {narrow, wide}
  Named = FALSE
  MaxMoves = 2
  Places <- Machines
  Kind <- Kinds4
  Origin <- Origins4
  Contents = {v7, v8}
  MaxCommits = 2
  MaxReports = 2
SYMMETRY Alike
INVARIANTS
  TypeOK
  VocabularyIsCurrent
  VerdictsAreAboutACommit
  CommitHoldsTheBytes
  MachinesAgreeOnTheName
  ClonesAgreeOnTheRepository
