SPECIFICATION Spec
CONSTANTS
  Number <- MCNumber
  Ranges <- MCRanges
  Breaks <- MCBreaks
  Required <- MCRequired
  HostVersions <- MCHostVersions
  HostApis <- MCHostApis
  Found <- MCFound
INVARIANTS
  UsableWasObserved
  OnePlaceOnTheAxis
  VerdictsAreOrdered
