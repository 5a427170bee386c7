\* Where the longest road changes hands after a tie.
SPECIFICATION Spec
CONSTANTS
    Ann = Ann  Bob = Bob  Cyd = Cyd  NoOne = NoOne
    PlayerOrder <- Seats
    Vertex <- AllVertices  Edge <- AllEdges  Hex <- AllHexes  Corners <- HexCorners
    Terrain <- HexTerrain  Token <- HexToken  Ports <- Harbours
    Resource <- Materials  Desert = "desert"  AnyResource = "any"
    RoadCost <- Timber  SettlementCost <- TimberAndOre  CityCost <- TwoOre  CardCost <- Ore
    BankSize = 9  MaxRoads = 5  MaxSettlements = 3  MaxCities = 1
    HandLimit = 3  LongestRoadMinimum = 3  LargestArmyMinimum = 1  Bonus = 2
    TradeId = {t1}  Offers <- Swaps  Scenarios <- JustRoads
PROPERTIES
  TieKeepsHolder
