\* A GetNextAssertion after a newer GetAssertion of another relying party.
CONSTANTS
  c1 = c1  c2 = c2  c3 = c3  c4 = c4  c5 = c5  rpA = rpA  rpB = rpB
  NoData = NoData  NoStage = NoStage  DevKey = DevKey
  Absent = Absent  NoReq = NoReq  NoRp = NoRp  NoCred = NoCred
  BadDesc = BadDesc  OtherType = OtherType
  Cred <- MC_Cred
  RP <- MC_RP
  CredRp <- MC_CredRp
  Creation <- MC_Creation
  CredProtect <- MC_CredProtect
  Store <- MC_Store
  Requests <- MC_Requests
  MaxCreds = 3
  PinSet = TRUE
  Window = 2
  ClockMod = 8
  MaxTime = 3
  MaxCounter = 3
  SignOutcomes = {TRUE}
SPECIFICATION Spec
INVARIANT NoStaleContinuation
