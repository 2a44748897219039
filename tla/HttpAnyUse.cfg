\* One plain and one SSL server, the latter with a name too long for an entry.
SPECIFICATION Spec
CONSTANTS
  s1 = s1
  s2 = s2
  d1 = d1
  t1 = t1
  t2 = t2
  Any = Any
  NoTok = NoTok
  Servers = {s1, s2}
  Secure = {s2}
  Long = {s2}
  Datasets = {d1, Any}
  Tokens = {t1, t2}
  Accepts <- AcceptsOne
  KeyFiles <- TwoFiles
  MaxCreds = 3
  MaxPrompt = 2
  MaxHops = 1
INVARIANTS TypeOK SpecificFirst ResendOnlyShadowed SaveThenLoad NothingLeftOpen
PROPERTIES WithdrawsWhatWasSent RequestEnds
CHECK_DEADLOCK FALSE
