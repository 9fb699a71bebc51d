CONSTANTS
    Id = {1, 2, 3}
    Stuck = {1}
    Hour = 2
    Day = 2
    TTLs = {1, 2}
    Delay = 1
    BatchSize = 2
SPECIFICATION FairSpec
PROPERTIES UrlsOutlived AbandonedGo
