CONSTANTS
    WordSize = 8
    FloatSize = 4
    Numerals = {0, 1, 2, 3, 5, 6, 7}
    MaxRequests = 1
SPECIFICATION Spec
INVARIANT AnswerInRange
