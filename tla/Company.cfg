SPECIFICATION Spec
CONSTANTS
  \* the planning cycle
  PlannedTasks = {"t1", "t2"}
  Agents = {"a1", "a2"}
  Topics = {"x", "y"}
  Slots = {1, 2, 3}
  WorkingSlots = {1, 2}
  MaxBlock = 2
  MaxActions = 2
  CycleCap <- MCCycleCap
  DailyCap <- MCDailyCap
  Plans <- MCPlans
  MaxRuns = 2
  MaxDays = 1
  \* product searches
  Limits <- MCLimits
  Ideas = {"A", "B"}
  Reports <- MCReports
  Callers = {"loop", "cli"}
  Loop = "loop"
  Cli = "cli"
  MayExit = {"server"}
  MAX_ROUND_ATTEMPTS = 1
  MaxExits = 1
  \* the day
  DayTasks = {"t1", "t2"}
  Agendas <- MCAgendas
  Hours <- MCHours
  FocusLimit = 1
  MaxDay = 2
  MaxCuts = 1
  \* reviews
  Staff <- MCStaff
  Gary = "gary"
  Alex = "alex"
  Interval = 1
  RoundLimit = 2
  MaxReviews = 2
  MaxReviewDay = 2
  \* tasks
  Tasks = {"t1", "t2", "t3"}
  Projects = {"p"}
  Followups = {"f"}
  Updatable = {"cancelled"}
  \* tasks on the calendar
  Booking = {"t1"}
  Times = {"morning", "noon", "night"}
  WorkTimes = {"morning", "noon"}
  Carriers = {"a", "b"}
  MaxEvents = 2
  MaxTangled = 1
  \* working time
  DayLength = 6
  LastDay = 1
  Weeks <- MCWeeks
  BusyTimes <- MCBusy
  MIN_MINUTES = 2
  \* the chart
  Members = {"susan", "dave", "linda"}
  Chief = "gary"
  MaxChanges = 2
  MaxProposals = 2
  \* hiring
  Proposals <- MCProposals
  Founders <- MCFounders
  EarlierHires <- MCEarlier
  MaxTickets = 2
  MaxBreaks = 1
  \* production
  Schedules <- MCSchedules
  HORIZON_DAYS = 14
  ATTEMPTS_PER_DAY = 2
  Mornings = {0, 6}
  MaxEpisode = 3
  MaxMishaps = 1
  \* purchases
  Amounts = {2}
  PER_PURCHASE = 2
  MONTHLY = 2
  Buyers <- MCBuyers
  MAX_REQUESTS = 1
  MAX_TOOL_CALLS = 1
  Cards <- MCCards
  MaxMonth = 2
  MaxCrashes = 1
  MaxRemovals = 1
  \* spending
  Thinkers = {"work", "talk", "replan"}
  Sessions = {"talk"}
  Unasked = {"replan"}
  MAX_CALLS = 2
  Models = {"m1"}
  ModelOf <- MCModelOf
  CallSizes <- MCCalls
  Rates <- MCRates
  CEILING = 3
  CACHE_SECONDS = 1
  REQUIRE_PRICED = TRUE
  DAY = 4
  MaxMoment = 4
  MaxReloads = 1
  \* the realtime connection
  RETRIES = 1
  MaxTurns = 3
  MaxToolCalls = 3
  MaxFailures = 2
  MaxDrops = 1
  \* new mail
  Inboxes <- MCInboxes
  Mail <- MCMail
  InboxOf <- MCInboxOf
  NoReplyMail = {"e2"}
  QuietTimes = {2}
  OVERLAP = 1
  LIST_LIMIT = 1
  ANNOUNCED_LIMIT = 1
  MaxClock = 4
  MaxMailFailures = 1
  \* the voice session
  MAX_TOOL_ROUNDS = 2
  MAX_HISTORY_ITEMS = 6
  NEW_EMAILS_PER_SESSION = 1
  Letters = {"l1"}
  NoReplyLetters = {}
  Addresses = {"a1", "a2"}
  Texts = {"t1"}
  Acquainted = {"a1"}
  MaxUtterances = 2
  MaxLost = 1
CHECK_DEADLOCK FALSE
INVARIANTS
  CompanyTypeOK
  PlanningAndHiring
  WorkAddsUp
  Acyclic
  CalendarIsKept
  PeopleAreKept
  MoneyIsKept
  NothingSaidIsLost
PROPERTIES
  EndsAreKept
