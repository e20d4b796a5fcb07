SPECIFICATION FairSpec
CONSTANTS
  StreamLimit = 25
INVARIANT TypeOK
INVARIANT MarkersTrue
INVARIANT LossNoticed
PROPERTY LinkRestored
