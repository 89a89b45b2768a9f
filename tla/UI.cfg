SPECIFICATION FairSpec
CONSTANTS
    Created = 2
    LastRow <- MCLastRow
    MaxAbandoned = 1
    MaxPanelGets = 1
INVARIANT ShowsSelectedRun
PROPERTIES EventsNeverGoBack OverIsShown
