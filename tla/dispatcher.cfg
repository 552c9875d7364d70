SPECIFICATION PartsSpec
CONSTANTS
    Request <- MCRequest
    Agent = "codex"
    Names <- MCNames
    MaxOutput = 0
    Faults = {"spawn", "bad"}
    Parts = {"turns", "prefs", "binds", "crash", "deleted", "prompts", "pieces", "stopped", "overlap", "upserts", "serial", "saved"}
INVARIANTS ThreadIsWhole ThreadsAreWhole ToldIsSo
PROPERTIES ApprovalAsked
CHECK_DEADLOCK FALSE
