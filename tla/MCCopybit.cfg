SPECIFICATION CopybitSpec
CONSTANTS
  MaxCount = 2
  MaxDimension = 6
  Modulus = 4096
  Alphas <- MCAlphas
  Jobs <- MCJobs
  Regions <- MCRegions
INVARIANTS
  Covered
  ClipExact
