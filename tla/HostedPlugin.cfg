CONSTANTS
    a = a
    b = b
    c = c
    opened = opened
    Eager = Eager
    StartupFinished = finished
    Plugins = {a, b, c}
    Events = {opened, finished}
    DependsOn <- MCDependsOn
    Subscribed <- MCSubscribed
    FirstDeployed = {b, c}
    Changing = {a, c}
    MaxFailures = 1
    MaxConnections = 1
    MaxDeploys = 2
SPECIFICATION FairSpec
INVARIANT HostsAgree EventsActivate RunningCanBeStopped
PROPERTY DependenciesFirst DeployedGetStarted
CHECK_DEADLOCK FALSE
