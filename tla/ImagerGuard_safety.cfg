SPECIFICATION FairSpec
CONSTANTS
  good = good
  other = other
  junk = junk
  none = none
  Keys <- MCKeys
  Ed25519 <- MCEd25519
  NoKey = none
  Scripts <- MCScripts
  MaxFaults = 2
  MaxMarkers = 1
INVARIANT TypeOK
INVARIANT ReleasedOnlyAsAsked
INVARIANT ReleasedIsAudited
INVARIANT OneShellPerMarker
PROPERTY FirstFailureStays
PROPERTY KeepsPromise
PROPERTY CleanIsReleased
PROPERTY StartsComeToVerdict
