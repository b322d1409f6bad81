SPECIFICATION FairSpec
CONSTANTS
  c1 = c1
  c2 = c2
  Clients <- MCClients
  Steady = {c1}
  Sleepers = {c2}
  LongPollers = {c2}
  SoloPlayers = {c1}
  Loose = Loose
  NoOne = NoOne
  SoloGames <- MCSolo
  HumanTeams <- MCTeams
  Positions <- MCPositions
  NumPlayers = 4
  Turns = 1
  Rerolls = 1
  MaxTickets = 2
  MaxFaults = 2
CHECK_DEADLOCK FALSE
INVARIANTS
    LiveTurnIsOfThisTurn
    SheetsStayApart
    NoChangeUnseen
    RecordedOnce
PROPERTIES
    BotTurnsArePlayed
    FinishedIsRecorded
