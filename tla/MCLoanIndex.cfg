SPECIFICATION IndexSpec
CONSTANTS
  u1 = u1
  u2 = u2
  Borrowers = {u1, u2}
  PageSize = 3
  LegacyOwners <- MCLegacyOwners
  MaxLoans = 9
INVARIANTS
  ReadsExactUnlessOverlap
  PagesWithinCapacity
