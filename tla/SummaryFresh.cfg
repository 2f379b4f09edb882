SPECIFICATION Spec
CONSTANTS
    r1 = r1  r2 = r2  p1 = p1  q = q
    Requests = {r1, r2}
    Processes = {p1}
    Questions = {q}
    Home <- MCHome
    Asks <- MCAsks
    Local = Local
    MaxWrites = 2
    MaxOutages = 1
    Uuids = {"", "d1", "d2"}
    ChunkTexts = {"", "a", "b"}
    Words <- MCWords
    MaxPerDocument = 1
    AnswerLength = 5
    ListLength = 2
INVARIANTS AnswersAreFresh StoredIsClean
PROPERTY RequestEnds
CHECK_DEADLOCK FALSE
