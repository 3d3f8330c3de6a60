SPECIFICATION FairSpec
CONSTANTS
  Alphabet <- MCAlphabet
  AppRegistry <- MCRegistry
  OnRequestOnly <- MCOnRequest
  CommandLines <- MCCommandLines
  NoApp = ""
  MaxSlots = 2
  Clients <- MCSlots
  Protocols <- MCProtocols
  DetailType = "eth"
  Kind <- MCKind
INVARIANTS TypeOK ExitIsFounded ReadyIsValid
PROPERTIES ProcessEnds InitAnswers
CHECK_DEADLOCK FALSE
