SPECIFICATION ServiceSpec
CONSTANTS
  Phones = {"123456789"}
  NoPhone = ""
  MaxIntents = 1
  Titles <- MCTitles
  NoTitle = NoTitle
  Ids <- MCIds
  IdOf <- MCIdOf
  Notifications <- BotNotifications
  None = None
  NoRef = NoRef
  DisconnectsOnDestroy = TRUE
  MaxInstances = 1
  MaxTasks = 2
  MaxObservers = 2
  Faults = {}
  Toggles <- BotToggles
INVARIANT AnswerGoesToAsker
