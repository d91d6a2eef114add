\* Fifty-odd texts for which changesets are exact; any edit at any time.
SPECIFICATION FairSpec
CONSTANTS
  SP = " "
  NL = "nl"
  Text <- RoundTripTexts
INVARIANTS
  TypeOK
  MirrorInSync
PROPERTIES
  FeedKept
  MirrorCatchesUp
