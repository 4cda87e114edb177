SPECIFICATION FairSpec
CONSTANTS
    Call = {c1, c2}
    TurnLoop = {c1}
    None = None
INVARIANTS
    OnePrompt
    YoloLeavesNoPrompt
PROPERTIES
    DecisionsAreTheUsers
    AnswerReturns
CHECK_DEADLOCK FALSE
