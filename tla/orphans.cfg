SPECIFICATION FairSpec
CONSTANTS
    e1 = e1
    e2 = e2
    pack = pack
    single = single
    worker = worker
    player = player
    request = request
    call = call
    task = task
    NoHash = NoHash
    Titles <- MCTitles
    Hashes <- MCPack
    Workers <- MCWorker
    Viewers <- MCViewer
    Removers <- MCRemover
    Hooks <- MCNone
    Cleaners <- MCCleaner
    MaxCrashes = 1
PROPERTIES OrphansGo
