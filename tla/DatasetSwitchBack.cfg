SPECIFICATION Spec
CONSTANTS
  phone = phone
  cabbage = cabbage
  cn = cn
  bj = bj
  sh = sh
  None = None
  Listing = {cabbage}
  Dataset = {cabbage}
  Region = {bj, sh}
  RegionsOf <- EveryRegion
  Fingerprint = {kg, jin}
  Value = {p1}
  Release = {rel1}
  MaxTime = 3
  MaxWrites = 3
INVARIANTS
  NoMissingPointer
