CONSTANTS
    Frontends = {f}
    Clients = {1, 2}
    Calls <- MCCalls
    MaxRequests = 1
    MaxWatches = 2
    MaxEvents = 2
    MaxFailures = 1
SPECIFICATION FairSpec
INVARIANT RefsMatchHandles OneLiveWatcher DisposalIfUnused RunningIsLive
INVARIANT NothingLost EventsInOrder ErrorsReachTheirClients
PROPERTY ClosedSessionsLetGo UnusedStops WatchedAgain
CHECK_DEADLOCK FALSE
