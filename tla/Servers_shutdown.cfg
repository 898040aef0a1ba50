SPECIFICATION Spec
CONSTANTS
    Methods = {"GET"}
    Patterns <- MCPatterns
    Paths <- MCPaths
    UrlPrefixes <- MCPrefixes
    Files <- MCFiles
    Wire <- MCWire
    Handlers = {"echo", "text", "redirect", "wide", "low", "precondition"}
    Middlewares = {"stop", "login", "tag", "failure"}
    MaxRegistrations = 2
INVARIANTS
    ShutdownHandlersRun
CHECK_DEADLOCK FALSE
