CONSTANTS
  c1 = c1
  NoCode = NoCode
  Codes = {c1}
  MaxErrors = 2
  MaxLines = 5
  MaxAcHops = 10
  MaxHops = 15
SPECIFICATION LoginSpec
INVARIANTS
  LoginTypeOK
  EventsAreBlocks
  OutcomeIsJustified
  CodeIsSpentOnce
  PasswordOnce
  CookieIsFound
PROPERTIES
  LoginEndsClosed
CHECK_DEADLOCK FALSE
