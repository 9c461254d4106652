SPECIFICATION Spec
CONSTANTS
  None = None
  MaxRestarts = 1
  Event <- ZaloEvents
  Chat = {"guest", "other"}
  Configured = {}
  Carrier = {t1, t2}
  Poller = t1
  SeenCap = 2
  FailCap = 1
  MaxFailures = 1
  Audience = {"a", "b"}
  Chunks = 2
  Attempts = 2
  MaxAgain = 1
  Updates <- TelegramUpdates
  Batch = 2
  TgAllowed = {"owner"}
  TgThread = telegram
  MaxDays = 2
CHECK_DEADLOCK FALSE
INVARIANTS
  GuessesLimited
  DrainsOne
  SentOnce
  ReplayWindow
  UpdatesOnce
PROPERTIES
  UpdatesServed
