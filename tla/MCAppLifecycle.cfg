SPECIFICATION MCSpec
CONSTANTS
    Helpers = {"h1", "h2"}
    StatusCalls = 2
    None = None
INVARIANTS
    NoUseAfterDestruction
    ResultIsTaken
    PanelsMatchOutcome
PROPERTIES
    EveryoneEnds
