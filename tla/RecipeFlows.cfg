\* Hotpot: a prompt of 8 tokens holds one or two of the passages.  ALFWorld: a
\* game of three moves in a flow of four.  WebShop: four turns, to open a
\* product, choose its two options and buy it.
SPECIFICATION Spec
CONSTANTS
    Corpus <- MCCorpus
    Nearest <- MCNearest
    Question = "who"
    Truths = {"right"}
    Answers = {"right", "wrong"}
    Length <- MCLength
    HotpotSteps = 3
    MaxCalls = 2
    PromptLength = 8
    BaseTokens = 2
    MinChars = 4
    AlfCommands = {"open", "take"}
    AlfRewards = {0, 1}
    AlfSteps = 4
    MaxEpisodeSteps = 3
    Catalogue <- MCCatalogue
    Queries <- MCQueries
    Score <- MCScore
    Alike <- MCAlike
    Clicks <- MCClicks
    PriceRange <- MCPriceRange
    PageSize = 1
    TopK = 2
    ShopSteps = 4
    Bonus = 100
    Penalty = 1
INVARIANTS
    EvidenceAccounted
    HistoryTrue
    ScoredAtTheEnd
    MenuHonoured
    PaidForPurchase
    GoalStaysWinnable
CHECK_DEADLOCK FALSE
