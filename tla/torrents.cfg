SPECIFICATION Spec
CONSTANTS
    e1 = e1
    e2 = e2
    pack = pack
    single = single
    worker = worker
    player = player
    request = request
    call = call
    task = task
    NoHash = NoHash
    Titles <- MCTitles
    Hashes <- MCHashes
    Workers <- MCWorker
    Viewers <- MCViewer
    Removers <- MCNone
    Hooks <- MCHook
    Cleaners <- MCNone
    MaxCrashes = 0
INVARIANTS TriesAreDropped HookSparesViewers
SYMMETRY MCSymmetry
