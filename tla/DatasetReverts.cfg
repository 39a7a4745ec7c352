SPECIFICATION HistorySpec
CONSTANTS
  phone = phone
  cabbage = cabbage
  cn = cn
  bj = bj
  None = None
  Listing = {cabbage}
  Dataset = {cabbage}
  Region = {bj}
  RegionsOf <- EveryRegion
  Fingerprint = {kg}
  Value = {p1, p2}
  Release = {rel1}
  MaxTime = 2
  MaxWrites = 4
INVARIANTS
  ShowsLastPublication
