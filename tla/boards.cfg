SPECIFICATION Spec
CONSTANT Parts = {"tasks", "serial", "syncs", "pulls", "pushes"}
INVARIANTS BoardIsWhole SyncIsWhole
PROPERTIES CardsStay
CHECK_DEADLOCK FALSE
