\* One customer who earns, redeems and earns again.
SPECIFICATION LoyaltySpec
CHECK_DEADLOCK FALSE
CONSTANTS
  NCustomers = 1  NPointRequests = 3  MaxPoints = 2  SilverAt = 1  GoldAt = 2  VipAt = 4
INVARIANT TierFollowsLifetime
