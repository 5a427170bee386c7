\* Five kinds of matches: what the rules, the views, the menus, the bots and
\* the clock promise of each state, and that every match ends.
SPECIFICATION Spec
CONSTANTS
    Ann = Ann  Bob = Bob  Cyd = Cyd  NoOne = NoOne
    PlayerOrder <- Seats
    Vertex <- AllVertices  Edge <- AllEdges  Hex <- AllHexes  Corners <- HexCorners
    Terrain <- HexTerrain  Token <- HexToken  Ports <- Harbours
    Resource <- Materials  Desert = "desert"  AnyResource = "any"
    RoadCost <- Timber  SettlementCost <- TimberAndOre  CityCost <- TwoOre  CardCost <- Ore
    BankSize = 9  MaxRoads = 5  MaxSettlements = 3  MaxCities = 1
    HandLimit = 2  LongestRoadMinimum = 3  LargestArmyMinimum = 1  Bonus = 2
    TradeId = {t1}  Offers <- Swaps  Scenarios <- Matches
INVARIANTS
  ValidCommandsApply
  ScoresTrue
  PlayersCanAct
  ViewsDoNotTell
  AutomationCanAct
PROPERTIES
  GamesEnd
