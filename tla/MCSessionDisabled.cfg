\* a tab with two requests in flight, an account disabled and enabled once
SPECIFICATION SessionSpec
CONSTANTS
    NoCookie = noCookie
    LastSession = 2
    MaxStatusChanges = 2
    MaxTabCalls = 2
INVARIANTS
    DisabledHasNoSessions
CHECK_DEADLOCK FALSE
