SPECIFICATION AccountsSpec
CONSTANTS
  wa = wa
  sms = sms
  twilio = twilio
  termii = termii
  s1 = s1
  t1 = t1
  t2 = t2
  u1 = u1
  u2 = u2
  Identifiers = {e1}
  Usernames = {u1, u2}
  RegThreads = {t1, t2}
  OtpMaxAttempts = 1
  OtpDailyQuota = 2
  MaxCodes = 2
  MaxRewards = 2
  MaxRegCalls = 3
  CredThreads = {t1, t2}
  MaxResetCodes = 2
  MaxGuesses = 1
  LoginFailures = 1
  MaxSessions = 2
  MaxCredCalls = 4
  TextCodes = {h1, h2}
  Ladder <- Channel
  Chain <- Vendors
  MaxMessageTries = 1
  MaxMessageLosses = 1
  Entries = {e1, e2, e3}
  EntryLimit = 2
  CatalogThreads = {t1, t2}
  MaxCatalogCalls = 5
  People = {u1, u2}
  Spots = {s1}
  Near <- Reach
  MaxTasks = 3
  Processes = {t1, t2}
  Settings = {u1, u2}
  Env = env
  MaxConfigEdits = 2
  MaxConfigReads = 4
  Happenings = {t1, t2}
  NoticeActors = {u1, u2}
  PreviewLimit = 1
  MaxTries = 2
  MaxNoticeLosses = 1
  MaxInboxCalls = 2
  PageThreads = {t1, t2}
  MaxPageCalls = 4
  MaxVersion = 4
SYMMETRY ServerSymmetry
CHECK_DEADLOCK FALSE
INVARIANTS RegInv CredInv MessagingInv CatInv DiscInv ConfigInv UserPagesInv NoticeInv
