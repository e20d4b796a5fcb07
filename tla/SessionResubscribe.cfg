SPECIFICATION FairSpec
CONSTANTS
  StreamLimit = 25
PROPERTY WaitsSubscribed
