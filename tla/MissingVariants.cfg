SPECIFICATION Spec
CONSTANTS
  watch = watch
  phone = phone
  tablet = tablet
  w1 = w1
  w2 = w2
  Product <- ThreeProducts
  Listing <- FourListings
  ProductOf <- TwoVariants
  ConfirmationRuns = 2
  FloorPercent = 50
  MaxTime = 2
SYMMETRY ProductSymmetry
INVARIANTS
  LifecycleFollowsEvidence
  MissesAreBacked
  AbsenceIsConfirmed
PROPERTIES AbsenceCoversProduct FewDiscoveredCostNothing
