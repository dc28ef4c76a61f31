SPECIFICATION MCSpec
CONSTANTS
  None = None
  Entries <- MCEntries
  Requests <- MCRequests
  Spellings <- MCSpellings
  Identity <- MCIdentity
  Blank = " "
  Dimensions = {"audience", "type"}
  Vocabulary = {"color"}
  Skus = {"s1", "s2", "s3"}
  MaxSkuAttempts = 2
  MaxFaults = 1
INVARIANTS
  CreatedWhole
  FailsForCause
  ListingIsWhole
PROPERTIES
  Answered
