------------------------------ MODULE MCBoards ------------------------------
(* The boards for TLC: the tasks of a board and its synchronisation with a   *)
(* GitHub Project. One run explores them side by side: `part` says which     *)
(* of them a behaviour is of, with which constants.                          *)
EXTENDS Naturals, FiniteSets, Sequences
CONSTANT Parts
VARIABLES
    part,
    \* BoardTasks
    board, cards, changed, edits, at, copy, task, out, told, pass, sessions,
    \* GitHubSync
    syncBoard, syncCards, items, ids, link, field, events, syncEdits, remote, links,
    syncAt, syncTold, snap, syncCopy, left, cur

\* The board and the project of GitHub at first, and what webhooks say.
ACard(n, issue, role) == [card |-> n, item |-> 0, issue |-> issue, role |-> role, text |-> 0]
TwoCards == {ACard(1, 0, "intake"), ACard(2, 5, "inProgress")}
OneIssue == {[id |-> 1, card |-> 0, kind |-> "Issue", issue |-> 5, text |-> 0,
              status |-> "todo", closed |-> FALSE, archived |-> FALSE]}
Ours == [event |-> "projects_v2_item", repo |-> "none", owner |-> "ours", project |-> "none"]
Star == [event |-> "star", repo |-> "ours", owner |-> "ours", project |-> "none"]
OnlyOurs == {Ours}
TwoPayloads == {Ours, Star}

Tasks == INSTANCE BoardTasks WITH
    Launches <- {"l1"}, Creates <- {"c1"}, Updates <- {"u1"}, Handoffs <- {},
    MaxCards <- 2, Passes <- 1, Room <- 1, Edits <- 1,
    Faults <- {"read", "torn", "context", "write"}, Overlapping <- TRUE
Serial == INSTANCE BoardTasks WITH
    Launches <- {"l1"}, Creates <- {"c1"}, Updates <- {"u1"}, Handoffs <- {},
    MaxCards <- 2, Passes <- 2, Room <- 1, Edits <- 1,
    Faults <- {"enqueue", "dropped"}, Overlapping <- FALSE
Synced == INSTANCE GitHubSync WITH
    Pushes <- {"p1"}, Pulls <- {}, Hooks <- {"h1"}, Board <- TwoCards,
    Project <- OneIssue, Options <- <<"todo", "in progress", "done">>,
    EditRoles <- {"review"}, Changes <- {"remove", "close", "field"},
    Payloads <- TwoPayloads, Page <- 9, MaxItems <- 3, MaxCards <- 3, Edits <- 0,
    Remote <- 1, Links <- 1, Faults <- {"gh", "answer", "write"}, Overlapping <- TRUE,
    board <- syncBoard, cards <- syncCards, edits <- syncEdits, at <- syncAt,
    told <- syncTold, copy <- syncCopy
Pulled == INSTANCE GitHubSync WITH
    Pushes <- {"p1", "p2"}, Pulls <- {"q1"}, Hooks <- {}, Board <- TwoCards,
    Project <- OneIssue, Options <- <<"todo", "in progress", "done">>,
    EditRoles <- {"review", "inProgress"}, Changes <- {"status", "archive", "add"},
    Payloads <- OnlyOurs, Page <- 9, MaxItems <- 5, MaxCards <- 5, Edits <- 1,
    Remote <- 1, Links <- 0, Faults <- {"read", "write"}, Overlapping <- FALSE,
    board <- syncBoard, cards <- syncCards, edits <- syncEdits, at <- syncAt,
    told <- syncTold, copy <- syncCopy
Pushed == INSTANCE GitHubSync WITH
    Pushes <- {"p1", "p2", "p3"}, Pulls <- {}, Hooks <- {}, Board <- TwoCards,
    Project <- {}, Options <- <<"todo", "in progress", "done">>,
    EditRoles <- {"review"}, Changes <- {"remove"}, Payloads <- {}, Page <- 9,
    MaxItems <- 5, MaxCards <- 2, Edits <- 1, Remote <- 1, Links <- 0,
    Faults <- {"gh", "answer", "read", "write"}, Overlapping <- FALSE,
    board <- syncBoard, cards <- syncCards, edits <- syncEdits, at <- syncAt,
    told <- syncTold, copy <- syncCopy

\* What each component assumes of its constants holds of every part.
ASSUME PartsAssumption ==
    /\ Tasks!BoardAssumption /\ Serial!BoardAssumption /\ Synced!SyncAssumption
    /\ Pulled!SyncAssumption /\ Pushed!SyncAssumption

\* The variables of a component whose part it is not are idle.
BoardTasksVars == <<board, cards, changed, edits, at, copy, task, out, told, pass,
                    sessions>>
NoBoardTasks ==
    /\ board = 0 /\ cards = 0 /\ changed = 0 /\ edits = 0 /\ at = 0 /\ copy = 0 /\ task = 0
    /\ out = 0 /\ told = 0 /\ pass = 0 /\ sessions = 0
GitHubSyncVars == <<syncBoard, syncCards, items, ids, link, field, events, syncEdits,
                    remote, links, syncAt, syncTold, snap, syncCopy, left, cur>>
NoGitHubSync ==
    /\ syncBoard = 0 /\ syncCards = 0 /\ items = 0 /\ ids = 0 /\ link = 0 /\ field = 0
    /\ events = 0 /\ syncEdits = 0 /\ remote = 0 /\ links = 0 /\ syncAt = 0 /\ syncTold = 0
    /\ snap = 0 /\ syncCopy = 0 /\ left = 0 /\ cur = 0

Init ==
    /\ part \in Parts
    /\ CASE part = "tasks" -> Tasks!Init
         [] part = "serial" -> Serial!Init
         [] OTHER -> NoBoardTasks
    /\ CASE part = "syncs" -> Synced!Init
         [] part = "pulls" -> Pulled!Init
         [] part = "pushes" -> Pushed!Init
         [] OTHER -> NoGitHubSync
Next ==
    /\ UNCHANGED part
    /\ CASE part = "tasks" -> Tasks!Next
         [] part = "serial" -> Serial!Next
         [] OTHER -> UNCHANGED BoardTasksVars
    /\ CASE part = "syncs" -> Synced!Next
         [] part = "pulls" -> Pulled!Next
         [] part = "pushes" -> Pushed!Next
         [] OTHER -> UNCHANGED GitHubSyncVars
vars == <<part, BoardTasksVars, GitHubSyncVars>>
Spec == Init /\ [][Next]_vars

-----------------------------------------------------------------------------
\* A board has each card on one line, whoever overwrites whom. One after the
\* other no reference names two cards, and no pass starts a session for a card
\* that has one, unless a launch started it for a line without an id.
BoardIsWhole ==
    /\ part = "tasks" => Tasks!TypeOK /\ Tasks!OneLine
    /\ part = "serial" => Serial!OneLine /\ Serial!DispatchedOnce /\ Serial!OneRef

\* A card has one item of the GitHub Project, and one more at most for each push
\* that failed on its way; a push that comes to its end has named an item for
\* each card it read.
SyncIsWhole ==
    /\ part = "syncs" => Synced!TypeOK /\ Synced!PushNamesAll
    /\ part = "pulls" => Pulled!OneItem
    /\ part = "pushes" => Pushed!OneItem /\ Pushed!PushNamesAll

\* Whoever writes the board keeps each card and each update he had read on it,
\* also when others wrote meanwhile. One after the other nothing is lost, unless
\* the file could not be read, and then all is; and a pull shows each item in the
\* column its status stands for.
CardsStay ==
    [][/\ part = "tasks" => Tasks!LosesOnlyUnread
       /\ part = "serial" => Serial!LosesNothing /\ Serial!UpdateKept
       /\ part = "pulls" => Pulled!CardsKept /\ Pulled!Shown
       /\ part = "pushes" => Pushed!CardsKept]_vars
=============================================================================
