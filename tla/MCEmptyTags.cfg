SPECIFICATION Spec
CONSTANTS
  None = None
  Names <- MCNames
  Types <- MCTypes
  Castable <- MCCastable
  Tables <- MCTables
  AppTables <- MCAppTables
  Landed <- MCLanded
  MaxVersion = 1
  Shapes <- MCShapes
  InitialShape <- V7
  Releases <- MCReleases
  InitialRelease = "v4.11.0"
  Runs <- LabelRuns
  Apps = {}
  TagKeys = {"domain", "residency"}
  TagValues = {"fraud", "finance", "eu", "mars"}
  OwnerOf <- MCOwnerOf
  DescriptorOf <- Succession
  Domains = {"fraud", "finance"}
  Locations <- MCLocations
  Under <- MCUnder
  QuarantineTable <- MCQuarantine
  QuarantineLocation <- MCQuarantine
  Ontology <- MCOntology
  Mortal = {}
  Earlier = {}
  Edited = {}
  MaxActive = 1
  MaxStarts = 1
  MaxEdits = 0
  Produces <- MCProduces
  ReleasesOf <- OneRelease
INVARIANTS
  WrittenRunsReport
