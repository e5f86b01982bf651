\* Elements that lie in the same pair of buckets until the table has been
\* rehashed four times.
CONSTANTS
  Elem = {1, 6, 9, 14, 17}
  Missing = none
  BucketSize = 2
  MaxSize = 6
  Reservations = {3, 5, 9}
SPECIFICATION Spec
INVARIANTS
  CountExact
  StoredOnce
  NoNestedRehash
PROPERTIES
  ImplementsSet
  InsertReturns
