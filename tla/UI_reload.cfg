SPECIFICATION FairSpec
CONSTANTS
    Created = 1
    LastRow <- MCOneRun
    MaxAbandoned = 0
    MaxPanelGets = 1
PROPERTY VisiblePageIsCurrent
