SPECIFICATION Spec
CONSTANTS
  phone = phone
  cabbage = cabbage
  cn = cn
  bj = bj
  sh = sh
  None = None
  Listing = {cabbage}
  Dataset = {cabbage}
  Region = {bj}
  RegionsOf <- EveryRegion
  Fingerprint = {kg}
  Value = {p1}
  Release = {rel1, rel2}
  MaxTime = 2
  MaxWrites = 3
INVARIANTS
  OneOpenFactPerTime
