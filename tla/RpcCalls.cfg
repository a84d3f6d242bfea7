CONSTANTS
    main = main
    host = host
    Peers = {main, host}
    MaxCalls <- TwoAndOne
    MaxCancels = 1
    MaxDisposed = 1
SPECIFICATION FairSpec
INVARIANT TypeOK NoCallIsLost CancellationsArrive SourcesOfRunning
PROPERTY CallsAsPromised CallsSettle
CHECK_DEADLOCK FALSE
