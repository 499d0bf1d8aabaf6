SPECIFICATION ServiceSpec
CONSTANTS
  Phones = {"123456789"}
  NoPhone = ""
  MaxIntents = 1
  Titles <- MCTitles
  NoTitle = NoTitle
  Ids <- MCIds
  IdOf <- MCIdOf
  Notifications <- BotNotifications
  None = None
  NoRef = NoRef
  DisconnectsOnDestroy = FALSE
  MaxInstances = 2
  MaxTasks = 1
  MaxObservers = 2
  Faults = {}
  Toggles <- AssistToggles
INVARIANTS
  TypeOK
  PrefsMirror
  NotifyListens
  RelayRoutes
  AnswersGreeted
