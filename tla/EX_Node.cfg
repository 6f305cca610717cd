SPECIFICATION Spec
CONSTANTS
  NoNuma = NoNuma
  NoPod = NoPod
  NoLayout = NoLayout
  BadLayout = BadLayout
  DefaultSplit = DefaultSplit
  NoCopy = NoCopy
  NoTopology = NoTopology
  NoLabels = NoLabels
  NoProduct = NoLabels
  NoNRT = NoNRT
  EmptyMapping = EmptyMapping
  Topologies <- MCTopologies
  Reserved <- MCReserved
  Requests <- MCRequests
  Numas <- MCNumas
  Allocatable = 5500
  FocusChoices <- MCFocusChoices
  ConfigKind <- MCConfigKind
  MaxEvents = 2
  MaxMishaps = 1
INVARIANTS TypeOK ScrapeOfOneTopology ServedIdsResolve PlacementAddsUp NoChangeLost
PROPERTIES NothingUndone ExportsCatchUp OldExportsStayAway MigSettles
CHECK_DEADLOCK FALSE
