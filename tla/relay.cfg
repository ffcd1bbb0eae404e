SPECIFICATION PartSpec
CONSTANTS
  MaxAliases = 2
  Providers = {"gmail"}
  MaxSources = 2
  MaxTests = 1
  Mails <- MCMails
  Handlers = {h1, h2}
  NoMail = NoMail
  NoSource = NoSource
  RevokedSource = RevokedSource
  NoTest = NoTest
  MaxFaults = 1
  Calls = {c1, c2}
  MaxClicks = 3
  MaxMails = 1
  MaxTroubles = 1
INVARIANTS LiveTree ConnectionFollows MailHandledOnce IssuedShown
PROPERTIES ActiveMeansProven RevocationIsFinal
SYMMETRY MCSymmetry
CHECK_DEADLOCK FALSE
