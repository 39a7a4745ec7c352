SPECIFICATION CollectSpec
CONSTANTS
  national = national
  province = province
  corps = corps
  unknown = unknown
  l1 = l1
  l2 = l2
  l3 = l3
  l4 = l4
  l5 = l5
  red = red
  blue = blue
  green = green
  small = small
  large = large
  None = None
  Listing <- MCListing
  Region <- MCRegion
  Unknown = unknown
  Scale = 2
  Pages <- MCPages
  Kind = {"apple", "huawei", "xiaomi", "skuPages", "oppo", "vivo", "shanghai", "mofcom"}
  National = national
  Dims = 2
  SpecOf <- MCSpec
  Silent = Silent
  Published <- MCPublished
  Limit = 3
  Mapped <- MCMapped
  MarketOf <- MCMarketOf
  QuotedIn <- MCQuotedIn
  Today = 1
  Changes = 2
CHECK_DEADLOCK FALSE
INVARIANTS
  RefusedForCause
  ValidatorsAgreeWithConstraints
  VerdictMatchesFacts
  ProductIsAllOrNothing
  FactsWerePublished
  OnlyWithheldIsMissed
