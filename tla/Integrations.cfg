SPECIFICATION Spec
CONSTANTS
  Moving = {"hooks", "flows", "mail-in", "threads", "reports", "texts", "recipients"}
  Events = {a1, a2}
  Calls = {b1, b2}
  HookLimit = 1
  FlowPhones = {p1, p2, p3}
  FlowLists <- ShortLists
  FlowKeys = {a1, a2}
  FlowLimit = 2
  FlowRecipients = 3
  Mails = {m1, m2}
  Ids = {i1, i2}
  IdOf <- MailIds
  Known <- KnownMails
  Polls = {a1, a2}
  MaxUid = 2
  MaxValid = 2
  MaxFetch = 1
  MaxEvents = 2
  ThreadKeys = {k1, k2}
  Accounts = {account}
  Services = {s1, s2}
  Numbers = {a1, a2}
  AccountOf <- KeyAccount
  Allowed <- KeyServices
  Outs = {o1, o2}
  Ins = {o3}
  Desk <- DeskOf
  Service <- SendsFrom
  MaxSms = 2
  MaxTickets = 1
  MaxSent = 1
  Rows = {a1, a2}
  FirstDelay = 1
  Schedule <- OneDelay
  TailDelay = 2
  Day = 3
  MailRetries = 1
  MaxTime = 4
  Alphabet = {"basic", "escaped", "wide"}
  MaxLength = 6
  GsmSingle = 9
  GsmMulti = 7
  UcsSingle = 4
  UcsMulti = 3
  MaxParts = 2
  Home <- HomeCode
  Countries <- TwoCountries
  National = 2
  MinDigits = 4
  MaxDigits = 8
  Written <- WrittenNumbers
  Reported <- ReportedNumbers
  Names = {"none", "n"}
  MaxLines = 2
  Digits = {0, 1, 2, 4, 6, 7, 8}
  OneId = TRUE
  a1 = a1
  a2 = a2
  b1 = b1
  b2 = b2
  p1 = p1
  p2 = p2
  p3 = p3
  m1 = m1
  m2 = m2
  i1 = i1
  i2 = i2
  k1 = k1
  k2 = k2
  s1 = s1
  s2 = s2
  o1 = o1
  o2 = o2
  o3 = o3
  desk1 = desk1
  desk2 = desk2
  account = account
SYMMETRY Pairs
INVARIANT EventsAreSentOnce
INVARIANT FlowsAreBounded
INVARIANT MailsAreTakenOnce
INVARIANT ReportsAreKept
INVARIANT TextsAreFull
PROPERTY KeysStayApart
PROPERTY ListsHold
CHECK_DEADLOCK FALSE
