\* Orders of every channel with all their line items and returns.
SPECIFICATION DrawSpec
INVARIANT OrdersWithinSeeds
