\* An HOTP code accepted twice by VERIFY CODE.
CONSTANTS
  n1 = n1  n2 = n2  k1 = k1  k2 = k2  p1 = p1  p2 = p2  c1 = c1  c2 = c2
  NoKey = NoKey  ZeroChallenge = ZeroChallenge  NoPin = NoPin
  Names <- MC_Names
  Keys <- MC_Keys
  Pins <- MC_Pins
  MAX_OTP_COUNTER = 3
  MaxOathCred = 1
  MaxHotp = 1
  MaxGuesses = 4
  Challenges <- MC_Challenges
SPECIFICATION Spec
PROPERTY HotpAcceptedOnce
