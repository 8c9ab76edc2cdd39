SPECIFICATION NamesSpec
CONSTANTS
  Base = 4
  Width = 2
  KeyCount = 8
  LetterN = 2
  LetterV = 3
  MaxD = 2
  MaxPaths = 2
  MaxLabel = 5
  MaxUrl = 3
  MaxRooted = 5
  HostLabels <- MCHostLabels
  Urls <- MCUrls
  Events <- MCEvents
INVARIANTS DecodedIsCanonical ValidIsReachable ValidIsAMap NormalisedIsSafe ListedIsReachable
CHECK_DEADLOCK FALSE
