SPECIFICATION Spec
CONSTANTS
    Shift = {k1}
    Km = {0, 1, 2}
    None = None
    Request = {q1, q2}
    MaxRows = 1
INVARIANTS CompletionComesLast AlertsAreFounded
PROPERTIES AnswersAgree MapShowsStarted
CHECK_DEADLOCK FALSE
