SPECIFICATION EngineSpec
CONSTANTS
  Texts <- MCTexts
  Base = "USD"
  Sheets <- MCSheets
  Rows <- MCRows
  Hints <- MCHints
  Currencies = {"COP", "USD"}
  Snapshots <- MCSnapshots
  UserGoals <- MCGoals
  Corrections = {0, 4}
  MaxEdits = 1
  MaxAsks = 2
  Foreign = {"EUR", "GBP"}
  Pages = {p1, p2}
  KeptFor = 1
  MaxMoves = 1
  Mails = {m1, m2}
  Copies = {c1, c2}
  Tolerance = 1
  Kept = 2
  Skew = 1
  MaxRun = 1
  Window = 3
  Limit = 1
  MaxTime = 4
  Letters <- MCLetters
  KeyNames = {"g1", "g2", "b"}
  RowMax = 4
  LookupMax = 2
  Contents <- MCContents
  LinkMax = 1
  Detected = {"cafe", "roma", "web"}
  Facts <- MCFacts
  AccountCurrency <- MCAccountCurrency
  Primary = "main"
  Hands = {h1, h2}
  Recent = 2
  AutoPostMin = 9400
  MaxTurns = 2
INVARIANT ImportedAsWritten
CHECK_DEADLOCK FALSE
