SPECIFICATION RegistrySpec
CONSTANTS
  None = None
  t1 = t1  t2 = t2  first = first  second = second  Mine = Mine
  Threads = {t1, t2}
  EntryPoints <- Installed
  ByHand <- Manual
  Slugs = {first, second}
  Classes = {"First", "Second", Mine}
  MaxCalls = 3
CHECK_DEADLOCK FALSE
PROPERTIES
  AnswersAreComplete
  UnregisteredStaysAway
  NobodyIsReplaced
  CallsReturn
