SPECIFICATION FairSpec
CONSTANTS
    Priorities <- ThreePriorities
    MaxSignals = 4
    Allowed = {}
INVARIANT HandlersAreBusy
PROPERTY ImplementsDiscipline
PROPERTY AllHandled
