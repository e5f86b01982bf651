\* Four threads; three-bit counters, so that the generation wraps around.
CONSTANTS
  Thread = {t1, t2, t3, t4}
  Wrap = 8
SPECIFICATION FairSpec
INVARIANT TypeOK
PROPERTIES
  ImplementsBarrier
  Released
