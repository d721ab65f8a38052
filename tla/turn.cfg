SPECIFICATION FairSpec
CONSTANTS
  crew = crew
  build = build
  signal = signal
  review = review
  Calls = {"look", "git", "edit", "bash", "ask", "job"}
  Agent <- MCAgent
  Sub = {build}
  Code = {crew, build, review}
  Tools <- MCTools
  CodeCap = 4
  OtherCap = 2
  SeeLimit = 2
  IdleLimit = 3
  MaxCalls = 2
  MaxMsg = 2
INVARIANTS
  TypeOK
  StopBelongs
  StopEndsRound
  Announced
  JobEndsTools
  ReadingEnds
PROPERTIES
  TurnEnds
CHECK_DEADLOCK FALSE
