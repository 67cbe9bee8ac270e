SPECIFICATION Spec
CONSTANTS
    Call = {c1, c2, c3}
    Function = {"createOffer", "setAnswer", "getAnswer"}
INVARIANTS
    SingleValue
    PunctualHandlersLeaveNothing
    RepliesAreOfTheRightType
PROPERTIES
    HandlersReturn
CHECK_DEADLOCK FALSE
