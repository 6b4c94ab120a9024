SPECIFICATION Spec
CONSTANTS
  Names <- MCNames
  Types <- MCTypes
  Castable <- MCCastable
  Readers = {"scored", "settlement"}
  Landing = {}
  Steady = {"scored"}
  Builds = {"b1", "b2"}
  Shapes <- MCShapes
  FirstShape <- V1
  MaxVersion = 3
INVARIANTS
  TypeOK
  SteadyReadersWork
  ReleasesServeWhoTheySaw
  ReleasesAreOnRecord
