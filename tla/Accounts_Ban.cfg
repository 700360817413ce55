CONSTANTS
  Account = {a1, a2}
  Spelling = {"plain", "other"}
  Handler = {h1, h2}
  MaxSessions = 1
  MaxDeaths = 0
SPECIFICATION AccountsSpec
INVARIANT DeletedIsGone
CHECK_DEADLOCK FALSE
