SPECIFICATION ListingFairSpec
CONSTANTS
  MaxEvents = 4
  MaxListings = 2
INVARIANTS
  ListingInv
  PointersLive
PROPERTIES
  BannerGoesAway
CHECK_DEADLOCK FALSE
