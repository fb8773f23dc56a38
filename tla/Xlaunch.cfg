SPECIFICATION FairSpec
CONSTANTS
    Sessions = {"explicit", "desktop", "gpudesk"}
    QuitAfter = {TRUE, FALSE}
    MaxTicks = 2
INVARIANTS
    TypeOK
    PidsAreOurs
    OrphansAreExplained
PROPERTIES
    AppExitIsHarmless
    SessionEnds
