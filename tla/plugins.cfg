SPECIFICATION Spec
CONSTANTS
    c1 = c1
    c2 = c2
    Containers <- MCContainers
    Feed <- MCFeed
    Sanitized <- MCSanitized
    Roles = {"master", "agent_public", "other"}
INVARIANTS
    PluginSurvives
    RoundCovers
    
    ScrapeComplete
CHECK_DEADLOCK FALSE
