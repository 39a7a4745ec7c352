SPECIFICATION HistorySpec
CONSTANTS
  phone = phone
  cabbage = cabbage
  cn = cn
  bj = bj
  None = None
  Listing = {cabbage}
  Dataset = {cabbage}
  Region = {bj}
  RegionsOf <- EveryRegion
  Fingerprint = {kg, jin}
  Value = {p1, p2, p3}
  Release = {rel1}
  MaxTime = 2
  MaxWrites = 4
SYMMETRY PublicationSymmetry
INVARIANTS
  CurrentRevisionNewest
  CorrectionsWellFormed
  NoMissingPointer
  NoOutdatedPointer
  ProjectionIsRebuildable
  ShowsLastNews
PROPERTIES
  CurrentNeverRollsBack
