\* One frame damaged or lost and two answers late in a behaviour.
SPECIFICATION FairSpec
CONSTANTS
  MaxInFlight = 2
  MaxFaults = 1
  MaxLate = 2
  MaxSwallow = 2
  TxTimesOut = FALSE
INVARIANTS
  QuietExchangeIsOwn
  AckOnWireBeforeReset
PROPERTIES
  LinkRecovers
