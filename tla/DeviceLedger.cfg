SPECIFICATION HistorySpec
CONSTANTS
  phone = phone
  cabbage = cabbage
  cn = cn
  bj = bj
  None = None
  Listing = {phone}
  Dataset = {}
  Region = {cn}
  RegionsOf <- NationalOnly
  Fingerprint = {gb256, gb512}
  Value = {body1, body2}
  Release = {rel1, rel2}
  MaxTime = 3
  MaxWrites = 3
SYMMETRY PublicationSymmetry
INVARIANTS
  LedgerInv
  OneOpenFactPerTime
  ProjectionIsRebuildable
  DevicesShowLastPublication
PROPERTIES
  ReadersSeeNewerQuotesOnly
