CONSTANTS
    Kinds = {"GET", "POST", "junk", "end", "b", "Content-Length", "content-length", "Connection", "CONNECTION"}
    MaxTokens = 5
    MaxLines = 4
SPECIFICATION Spec
INVARIANTS ParserAgrees ConfigAgrees NamesAgree
PROPERTY BodyIsInert
CHECK_DEADLOCK FALSE
