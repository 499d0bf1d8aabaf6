SPECIFICATION ModesSpec
CONSTANTS
  Phones = {"123456789"}
  NoPhone = ""
  MaxIntents = 2
  Titles <- OneTitle
  NoTitle = NoTitle
  Ids <- OneId
  IdOf <- OneIdOf
  Notifications <- NoNotifications
  None = None
  NoRef = NoRef
  DisconnectsOnDestroy = TRUE
  MaxInstances = 2
  MaxTasks = 0
  MaxObservers = 2
  Toggles = {}
  Faults = {"kill", "unbind", "revoke", "rotate"}
CONSTRAINT Undisturbed
INVARIANTS
  ModesConsistent
  ServiceFollowsSwitches
  ObserveOnce
  GreetedFirst
PROPERTIES
  NoToggleCrash
