SPECIFICATION Spec
CONSTANTS
  MaxMail = 3
  MaxDate = 2
  CommandLimit = 2
  MaxStops = 1
  Limits <- MCLimits
  Ideas = {"A", "B"}
  Reports <- MCReports
  Callers = {"loop", "cli"}
  Loop = "loop"
  Cli = "cli"
  MayExit = {"server"}
  MAX_ROUND_ATTEMPTS = 1
  MaxExits = 1
  Events = {"answer", "followup"}
  Standing = {"followup"}
  MinGap = 1
  EventGap = 1
  AskedGap = 1
  LongAgo = 1
  Askers = {"call"}
  Requests = {"morning", "event"}
  MaxPerDay = 1
  Scheduled = {"morning"}
  MaxServerStops = 1
  IDLE = 4
  FOLLOWUP = 2
  MAX_SESSION = 6
  SILENCE = 2
  PRE_ROLL = 3
  MAX_UTTERANCE = 3
  QUEUE = 2
  Speech = 2
  MaxCheck = 2
  MaxAsked = 1
  MaxAnnouncements = 2
  MaxLosses = 1
CHECK_DEADLOCK FALSE
INVARIANTS
  UnattendedTypeOK
  UnattendedIsSound
PROPERTIES
  StepsAreKept
  EverythingIsSeenTo
