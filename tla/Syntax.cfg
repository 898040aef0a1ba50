SPECIFICATION Spec
CONSTANTS
    Identifiers = {"a", "f", "P"}
    Capitalized = {"P"}
    NumberTokens = {"1"}
    TextTokens = {"'s'"}
    RawTokens = {"r's'"}
    MaxWraps = 2
    Letters = {"a", "b", "e", "r", "x"}
    Digits <- MCDigits
    MaxDigits = 3
    MaxTokens = 3
    MaxText = 4
    Wide = {"e'"}
    Upper <- MCUpper
    MaxNodes = 3
    MaxFilters = 3
INVARIANTS
    WrittenIsRead
    LexemesReadBack
    TemplatesShow
CHECK_DEADLOCK FALSE
