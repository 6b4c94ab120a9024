SPECIFICATION Spec
CONSTANTS
  None = None
  Names <- MCNames
  Types <- MCTypes
  Castable <- MCCastable
  Tables <- MCTables
  AppTables <- MCAppTables
  Landed <- MCLanded
  MaxVersion = 2
  Shapes <- MCShapes
  InitialShape <- V7
  Releases <- MCReleases
  InitialRelease = "v4.11.0"
  Runs <- ConcurrentRuns
  Apps = {"card-ledger"}
  TagKeys = {"domain", "residency"}
  TagValues = {"fraud", "finance", "eu", "mars"}
  OwnerOf <- MCOwnerOf
  DescriptorOf <- Concurrent
  Domains = {"fraud", "finance"}
  Locations <- MCLocations
  Under <- MCUnder
  QuarantineTable <- MCQuarantine
  QuarantineLocation <- MCQuarantine
  Ontology <- MCOntology
  Mortal = {"fraud"}
  Earlier = {"earlier"}
  Edited = {}
  MaxActive = 2
  MaxStarts = 2
  MaxEdits = 0
  Produces <- MCProduces
  ReleasesOf <- OneRelease
INVARIANTS
  TypeOK
  OneTerminalEvent
  OneDatasetOneNamespace
  ClaimsAreOnRecord
  WorksFromThePin
PROPERTIES
  EveryRunEnds
  PublishedVersionsStand
  KeepsTheContract
  TargetsAreGuarded
