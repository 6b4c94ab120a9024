SPECIFICATION Spec
CONSTANTS
  Names <- MCNames
  Types <- MCTypes
  Castable <- MCCastable
  Readers = {"claims-ingest"}
  Landing = {"claims-ingest"}
  Steady = {"claims-ingest"}
  Builds = {"b1", "b2"}
  Shapes <- Unkeyed
  FirstShape <- V1
  MaxVersion = 3
INVARIANTS
  KeyedReadersWork
