CONSTANTS
    MAX_FORM_PARAMS = 2
    DECODE = 24
    Requests <- MCRequests
    Controls <- MCControls
SPECIFICATION Spec
INVARIANTS FormAsSent ParsingFails FieldsAsSent LoginAsSent AnswersRight
CHECK_DEADLOCK FALSE
