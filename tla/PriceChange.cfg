SPECIFICATION FairSpec
CONSTANTS
  black = black
  white = white
  gb256 = gb256
  None = None
  Listing = {black, white}
  Specification = {gb256}
  Price <- Amounts
  ThresholdPercent = 30
INVARIANT TypeOK
PROPERTIES
  LargeChangeIsSeenTwice
  StablePriceIsAdopted
