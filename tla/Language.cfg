SPECIFICATION Spec
CONSTANTS
    MaxInt = 3
    OverflowChecks = FALSE
    Wide = {"w"}
    Mode = "Normal"
    TemplateFiles = {}
    MaxNesting = 3
    MaxArms = 3
    MaxItems = 3
    MaxStatements = 4
    Holes = {"{text}", "{code}", "{name}", "{value}", "{field}", "{ms}", "{seconds}", "{pattern}", "{expected}", "{prefix}", "{suffix}", "{max}", "{min}"}
    Spaced = {"b c"}
    Numerals <- MCNumerals
    MaxDepth = 50
    MaxAttempts = 4
    MaxDefinitions = 4
    MaxLines = 5
    MaxSteps = 3
    MaxPieces = 4
    MaxChanges = 3
    UpperCase <- MCUpperCase
    Figures <- MCFigures
    Malformed = {}
    Codes <- MCCodes
    JsonTexts <- MCJsonTexts
INVARIANTS
    ControlReachesItsTarget
    ExhaustiveTakesAnArm
    CallsDoOneThing
    NumbersBehave
    ChangesAreAllOrNothing
    ResolutionInlines
    AssertionsSayWhatTheyMean
    IntentFilesKeepLines
    ChecksAgreeWithRuns
    MistakesAreFound
    LibraryLaws
    SignaturesTell
    ModulesLoad
CHECK_DEADLOCK FALSE
