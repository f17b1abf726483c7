SPECIFICATION Spec
CONSTANTS
  None = None
  Partial = Partial
  Corrupt = Corrupt
  Refused = Refused
  Unsupported = Unsupported
  Providers = {"p", "pi", "hello"}
  CommandLines <- MCCommandLines
  Sessions = {s1, s2}
  Hosts = {h1, h2}
  Turns = {t1}
  ModeOption = None
  ActiveBuiltins <- MCActiveBuiltins
  Registrations <- MCRegistrations
  EarlyTurns = FALSE
  MaxEntries = 3
INVARIANTS TypeOK SettingsWhole HostsOwned RecordedContractGoverns ShutdownCleans
PROPERTIES ConversationKeepsMode LifecycleSettles
