SPECIFICATION Spec
CONSTANT Parts = {"pipes", "pty", "codex", "calls", "restored", "drops", "all", "view", "files", "idle"}
INVARIANTS OutputIsAccounted TurnIsReported TerminalIsWhole
PROPERTIES EvictedIsSaved
CHECK_DEADLOCK FALSE
