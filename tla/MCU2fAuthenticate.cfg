\* U2F Authenticate with the touch handshake, the staged counter and power loss.
CONSTANTS
  a1 = a1  a2 = a2
  DevKey = DevKey  NewKey = NewKey  NoData = NoData  NoStage = NoStage  NoReq = NoReq
  AppIds <- MC_AppIds
  Handles <- MC_Handles
  Requests <- MC_Requests
  KeyGenOutcomes = {TRUE, FALSE}
  SignOutcomes = {TRUE, FALSE}
  MaxCounter = 3
  ButtonTimeout = 1
  ReleaseTimeout = 1
  ClockMod = 4
SPECIFICATION Spec
INVARIANT TypeOK CounterFresh
PROPERTY PresenceConfirmed PresenceWaitEnds
