SPECIFICATION Spec
CONSTANTS
  None = None
  Names <- MCNames
  Types <- MCTypes
  Castable <- MCCastable
  Tables <- MCTables
  AppTables <- MCAppTables
  Landed <- MCLanded
  MaxVersion = 1
  Shapes <- MCShapes
  InitialShape <- V7
  Releases <- MCReleases
  InitialRelease = "v4.11.0"
  Runs <- TypoRuns
  Apps = {}
  TagKeys = {"domain", "residency"}
  TagValues = {"fraud", "finance", "eu", "mars"}
  OwnerOf <- MCOwnerOf
  DescriptorOf <- Typo
  Domains = {"fraud", "finance"}
  Locations <- MCLocations
  Under <- MCUnder
  QuarantineTable <- MCQuarantine
  QuarantineLocation <- MCQuarantine
  Ontology <- MCOntology
  Mortal = {}
  Earlier = {}
  Edited = {}
  MaxActive = 1
  MaxStarts = 2
  MaxEdits = 0
  Produces <- MCProduces
  ReleasesOf <- OneRelease
INVARIANTS
  FailedRunsTouchNothing
