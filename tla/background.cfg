SPECIFICATION SpecOfAll
CONSTANTS
    e2 = e2
    e3 = e3
    w1 = w1
    w2 = w2
    w3 = w3
    NoLoop = NoLoop
    none = none
    health = health
    scan = scan
    r1 = r1
    r2 = r2
    film = film
    other = other
    ip1 = ip1
    ip2 = ip2
    alice = alice
    h1 = h1
    h2 = h2
    s1 = s1
    s2 = s2
    Episodes <- MCTwoEpisodes
    Loops <- MCThreeLoops
    Tasks <- MCTasks
    Scheduled <- MCScheduled
    Requests <- MCRequests
    Titles <- MCTitles
    Others <- MCOthers
    Addresses <- MCAddresses
    Names <- MCNames
    Handlers <- MCHandlers
    Activations <- MCActivations
    Slugs <- MCSlugs
    Releases <- MCReleases
    Configs <- MCConfigs
    Overrides <- MCOverrides
    Preferences <- MCPreferences
    Queries <- MCQueries
    Contents <- MCFiles
    Folders <- MCFolders
    MaxId = 3
    PerRun = 2
    MaxKeys = 3
    Burst = 1
    Window = 3
    MaxWait = 2
    SweepAt = 2
    MaxTime = 5
    MaxFailures = 3
    MaxFound = 3
    Asked = 1
    MaxFiles = 3
INVARIANTS AllTypeOK OneWarm EntriesAreLive OneRunner LibraryKeepsPlaying OnlyOffendersWait OnePick RightFile
PROPERTIES PlayTakesOver EveryRowIsLookedAt RestartComesBack WatchdogHeals
