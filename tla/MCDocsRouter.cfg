SPECIFICATION RouterSpec
CONSTANTS
  Word <- MCWord
  Visits <- MCVisits
  Files <- MCFiles
  Missing = Missing
  Refused = Refused
  NoAnswer = NoAnswer
INVARIANTS
  PagesAreFound
PROPERTIES
  RedirectsEnd
CHECK_DEADLOCK FALSE
