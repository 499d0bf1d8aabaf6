SPECIFICATION ScreensSpec
CONSTANTS
  Numbers = {"+911", "+912"}
  Codes = {"101", "102"}
  CodeOf <- MCCodeOf
  NoText = ""
  Null = Null
  Faults = {"typo", "stop", "rotate", "kill", "refused", "timeout", "sign in"}
  MaxPending = 2
CHECK_DEADLOCK FALSE
INVARIANTS
  LoginTypeOK
  OffersHaveSession
  NeverStuck
PROPERTIES
  ResumesOrCrashes
  PressAnswered
  TapSettles
