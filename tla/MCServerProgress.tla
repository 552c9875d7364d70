-------------------------- MODULE MCServerProgress --------------------------
(* Liveness of the server for TLC. One run explores them side by side:       *)
(* `part` says which of them a behaviour is of; the fairness is that of      *)
(* the component, as its module states it.                                   *)
EXTENDS Naturals, FiniteSets, Sequences
CONSTANTS Parts
VARIABLES
    part,
    \* DispatcherThreads
    mem, disk, attached, rt, con, at, own, guard, snap, pending, flush, server,
    \* AcpPrompts
    thread, agent, killed, acpAt, asks, copy, inFlight, flag, sent, announced,
    open, card, reason, answer,
    \* ExecutorProcess
    child, holder, written, read, reader, raw, fwd, forwards, bytes, over, sink, got,
    listens, kill, sup,
    \* TtydOwners
    ttyd, status, old, asked, host, ttydSent, owner, monitor, ttydN, ttydAt, holds,
    lapsed, drops, restarts, evictions,
    \* BoardTasks
    board, cards, changed, edits, taskAt, taskCopy, task, out, told, pass, sessions,
    \* GitHubSync
    syncBoard, syncCards, items, ids, link, field, events, syncEdits, remote, links,
    syncAt, syncTold, syncSnap, syncCopy, left, cur,
    \* TerminalStream
    hosts, made, reg, chunks, capture, restore, termTask, view, queue, lagged,
    termFlush, termRead, idles, crashes

\* The board at first and what webhooks say.
ACard(n, issue, role) == [card |-> n, item |-> 0, issue |-> issue, role |-> role, text |-> 0]
TwoCards == {ACard(1, 0, "intake"), ACard(2, 5, "inProgress")}
Ours == [event |-> "projects_v2_item", repo |-> "none", owner |-> "ours", project |-> "none"]
Star == [event |-> "star", repo |-> "ours", owner |-> "ours", project |-> "none"]

Turning == INSTANCE DispatcherThreads WITH
    Request <- [s1 |-> "send", i |-> "interrupt"], Agent <- "codex",
    Names <- <<"r1", "r2">>, MaxOutput <- 0, Faults <- {"spawn"}
Prompting == INSTANCE AcpPrompts WITH
    Prompts <- {"p1"}, Cancels <- {"c1"}, Others <- {"o1"}, MaxEntries <- 2,
    MaxText <- 1, Deletable <- TRUE, at <- acpAt
Ending == INSTANCE ExecutorProcess WITH
    Variant <- "pipes", SizeOf <- <<1>>, Budget <- 2, NoticeSize <- 1, Word <- 8, SinkCap <- 1,
    Faults <- {"holder"}
Owning == INSTANCE TtydOwners WITH
    Callers <- {"c1"}, MaxGroups <- 4, MaxTries <- 1, Drops <- 1, Restarts <- 0,
    Evictions <- 1, Hangs <- TRUE, Kills <- TRUE, Ages <- FALSE,
    Faults <- {"exit", "deaf"}, sent <- ttydSent,
    n <- ttydN, at <- ttydAt
Ready == INSTANCE BoardTasks WITH
    Launches <- {}, Creates <- {}, Updates <- {}, Handoffs <- {"h1"}, MaxCards <- 2,
    Passes <- 0, Room <- 1, Edits <- 2, Faults <- {"enqueue", "dropped"},
    Overlapping <- TRUE, at <- taskAt, copy <- taskCopy
Hooked == INSTANCE GitHubSync WITH
    Pushes <- {"p1"}, Pulls <- {}, Hooks <- {"h1"}, Board <- TwoCards, Project <- {},
    Options <- <<"todo", "in progress", "done">>, EditRoles <- {},
    Changes <- {"status", "close", "archive", "add"}, Payloads <- {Ours, Star},
    Page <- 9, MaxItems <- 4, MaxCards <- 5, Edits <- 0, Remote <- 2, Links <- 0,
    Faults <- {}, Overlapping <- FALSE, board <- syncBoard, cards <- syncCards,
    edits <- syncEdits, at <- syncAt, told <- syncTold, snap <- syncSnap,
    copy <- syncCopy
Capturing == INSTANCE TerminalStream WITH
    Emitters <- {"e1"}, Viewers <- {}, Readers <- {}, Attachers <- {},
    Closers <- {"detach"}, MaxChunks <- 1, MaxHosts <- 2, MaxPauses <- 0,
    Idles <- 0, Capacity <- 2, Crashes <- 1, Faults <- {"capture"}, task <- termTask,
    flush <- termFlush, read <- termRead

\* What each component assumes of its constants holds of every part.
ASSUME PartsAssumption ==
    /\ Turning!DispatcherAssumption /\ Prompting!AcpAssumption
    /\ Ending!ProcessAssumption /\ Owning!OwnersAssumption /\ Ready!BoardAssumption
    /\ Hooked!SyncAssumption /\ Capturing!StreamAssumption

\* The variables of a component whose part it is not are idle.
DispatcherThreadsVars == <<mem, disk, attached, rt, con, at, own, guard, snap,
                           pending, flush, server>>
NoDispatcherThreads ==
    /\ mem = 0 /\ disk = 0 /\ attached = 0 /\ rt = 0 /\ con = 0 /\ at = 0 /\ own = 0 /\ guard = 0
    /\ snap = 0 /\ pending = 0 /\ flush = 0 /\ server = 0
AcpPromptsVars == <<thread, agent, killed, acpAt, asks, copy, inFlight, flag, sent,
                    announced, open, card, reason, answer>>
NoAcpPrompts ==
    /\ thread = 0 /\ agent = 0 /\ killed = 0 /\ acpAt = 0 /\ asks = 0 /\ copy = 0 /\ inFlight = 0
    /\ flag = 0 /\ sent = 0 /\ announced = 0 /\ open = 0 /\ card = 0 /\ reason = 0 /\ answer = 0
ExecutorProcessVars == <<child, holder, written, read, reader, raw, fwd, forwards,
                         bytes, over, sink, got, listens, kill, sup>>
NoExecutorProcess ==
    /\ child = 0 /\ holder = 0 /\ written = 0 /\ read = 0 /\ reader = 0 /\ raw = 0 /\ fwd = 0
    /\ forwards = 0 /\ bytes = 0 /\ over = 0 /\ sink = 0 /\ got = 0 /\ listens = 0 /\ kill = 0
    /\ sup = 0
TtydOwnersVars == <<ttyd, status, old, asked, host, ttydSent, owner, monitor, ttydN,
                    ttydAt, holds, lapsed, drops, restarts, evictions>>
NoTtydOwners ==
    /\ ttyd = 0 /\ status = 0 /\ old = 0 /\ asked = 0 /\ host = 0 /\ ttydSent = 0 /\ owner = 0
    /\ monitor = 0 /\ ttydN = 0 /\ ttydAt = 0 /\ holds = 0 /\ lapsed = 0 /\ drops = 0
    /\ restarts = 0 /\ evictions = 0
BoardTasksVars == <<board, cards, changed, edits, taskAt, taskCopy, task, out, told,
                    pass, sessions>>
NoBoardTasks ==
    /\ board = 0 /\ cards = 0 /\ changed = 0 /\ edits = 0 /\ taskAt = 0 /\ taskCopy = 0
    /\ task = 0 /\ out = 0 /\ told = 0 /\ pass = 0 /\ sessions = 0
GitHubSyncVars == <<syncBoard, syncCards, items, ids, link, field, events, syncEdits,
                    remote, links, syncAt, syncTold, syncSnap, syncCopy, left, cur>>
NoGitHubSync ==
    /\ syncBoard = 0 /\ syncCards = 0 /\ items = 0 /\ ids = 0 /\ link = 0 /\ field = 0
    /\ events = 0 /\ syncEdits = 0 /\ remote = 0 /\ links = 0 /\ syncAt = 0 /\ syncTold = 0
    /\ syncSnap = 0 /\ syncCopy = 0 /\ left = 0 /\ cur = 0
TerminalStreamVars == <<hosts, made, reg, chunks, capture, restore, termTask, view,
                        queue, lagged, termFlush, termRead, idles, crashes>>
NoTerminalStream ==
    /\ hosts = 0 /\ made = 0 /\ reg = 0 /\ chunks = 0 /\ capture = 0 /\ restore = 0
    /\ termTask = 0 /\ view = 0 /\ queue = 0 /\ lagged = 0 /\ termFlush = 0 /\ termRead = 0
    /\ idles = 0 /\ crashes = 0

Init ==
    /\ part \in Parts
    /\ IF part = "turn" THEN Turning!Init ELSE NoDispatcherThreads
    /\ IF part = "prompt" THEN Prompting!Init ELSE NoAcpPrompts
    /\ IF part = "ends" THEN Ending!Init ELSE NoExecutorProcess
    /\ IF part = "owner" THEN Owning!Init ELSE NoTtydOwners
    /\ IF part = "ready" THEN Ready!Init ELSE NoBoardTasks
    /\ IF part = "hooks" THEN Hooked!Init ELSE NoGitHubSync
    /\ IF part = "capture" THEN Capturing!Init ELSE NoTerminalStream
Next ==
    /\ UNCHANGED part
    /\ IF part = "turn" THEN Turning!Next ELSE UNCHANGED DispatcherThreadsVars
    /\ IF part = "prompt" THEN Prompting!Next ELSE UNCHANGED AcpPromptsVars
    /\ IF part = "ends" THEN Ending!Next ELSE UNCHANGED ExecutorProcessVars
    /\ IF part = "owner" THEN Owning!Next ELSE UNCHANGED TtydOwnersVars
    /\ IF part = "ready" THEN Ready!Next ELSE UNCHANGED BoardTasksVars
    /\ IF part = "hooks" THEN Hooked!Next ELSE UNCHANGED GitHubSyncVars
    /\ IF part = "capture" THEN Capturing!Next ELSE UNCHANGED TerminalStreamVars
vars == <<part, DispatcherThreadsVars, AcpPromptsVars, ExecutorProcessVars,
          TtydOwnersVars, BoardTasksVars, GitHubSyncVars, TerminalStreamVars>>
Spec == Init /\ [][Next]_vars
FairSpec ==
    /\ Spec
    /\ WF_DispatcherThreadsVars(part = "turn" /\ (\E r \in Turning!Runtimes : Turning!Exit(r) \/ Turning!ConsumerStep(r)))
    /\ WF_DispatcherThreadsVars(part = "turn" /\ (\E c \in {"s1", "i"} : Turning!SendStep(c) \/ Turning!ReplaceStep(c) \/ Turning!DeleteStep(c)))
    /\ WF_DispatcherThreadsVars(part = "turn" /\ (Turning!Drain \/ Turning!FlushTake \/ Turning!Flush))
    /\ WF_AcpPromptsVars(part = "prompt" /\ Prompting!Finish) /\ WF_AcpPromptsVars(part = "prompt" /\ Prompting!PromptStep("p1"))
    /\ SF_AcpPromptsVars(part = "prompt" /\ Prompting!Decide("p1") /\ acpAt'["p1"] = "finish")
    /\ \A s \in {"stdout", "stderr"} :
        /\ WF_ExecutorProcessVars(part = "ends" /\ (Ending!Read(s) \/ Ending!Add(s) \/ Ending!Undo(s) \/ Ending!Keep(s) \/ Ending!EndOfFile(s)))
        /\ WF_ExecutorProcessVars(part = "ends" /\ Ending!Abort(s))
    /\ WF_ExecutorProcessVars(part = "ends" /\ Ending!ForwardTake)
    /\ WF_ExecutorProcessVars(part = "ends" /\ Ending!ForwardSend)
    /\ WF_ExecutorProcessVars(part = "ends" /\ Ending!Receive)
    /\ WF_ExecutorProcessVars(part = "ends" /\ Ending!SeeExit)
    /\ WF_ExecutorProcessVars(part = "ends" /\ Ending!SeeKill)
    /\ WF_ExecutorProcessVars(part = "ends" /\ Ending!Terminate)
    /\ WF_ExecutorProcessVars(part = "ends" /\ Ending!Report)
    /\ WF_TtydOwnersVars(part = "owner" /\ Owning!Spawn) 
    /\ \A c \in {"launch", "c1"} : WF_TtydOwnersVars(part = "owner" /\ (Owning!Ready(c) \/ Owning!GiveUp(c)))
    /\ \A g \in 1..4 : WF_TtydOwnersVars(part = "owner" /\ Owning!Task(g))
    /\ WF_BoardTasksVars(part = "ready" /\ Ready!Pass) /\ WF_BoardTasksVars(part = "ready" /\ Ready!SessionStarts)
    /\ WF_BoardTasksVars(part = "ready" /\ Ready!SessionEnds)
    /\ SF_BoardTasksVars(part = "ready" /\ Ready!PassSpawn /\ sessions' # sessions)
    /\ SF_BoardTasksVars(part = "ready" /\ Ready!Write(Ready!Auto))
    /\ \A s \in {"p1", "h1"} : WF_GitHubSyncVars(part = "hooks" /\ Hooked!SyncStep(s)) /\ WF_GitHubSyncVars(part = "hooks" /\ Hooked!Deliver(s))
    /\ WF_TerminalStreamVars(part = "capture" /\ (Capturing!Flush(Capturing!Maint) \/ Capturing!Scan \/ Capturing!ScanTracking \/ Capturing!ScanCapture \/ Capturing!Evict))
    /\ SF_TerminalStreamVars(part = "capture" /\ Capturing!FlushCapture(Capturing!Maint) /\ Capturing!Written)
    /\ WF_TerminalStreamVars(part = "capture" /\ (Capturing!Make("e1") \/ Capturing!Capture("e1") \/ Capturing!Apply("e1") \/ Capturing!Mark("e1") \/ Capturing!Send("e1")))
    /\ \A f \in {"detach"} :
        WF_TerminalStreamVars(part = "capture" /\ (termFlush[f].at # "new" /\ (Capturing!Flush(f) \/ Capturing!Close(f))))

-----------------------------------------------------------------------------
\* What was started ends and is cleaned up: a thread does not stay at work, a
\* prompt is answered, a process that ended is reported, a failed launch leaves
\* no ttyd, and the owner of one attaches again or gives up.
WorkEnds ==
    /\ (part = "turn" /\ mem.status = "Working") ~> (part = "turn" /\ mem.status # "Working")
    /\ (part = "prompt" /\ acpAt["p1"] # "new") ~> (part = "prompt" /\ answer["p1"] # "none")
    /\ (part = "ends" /\ (child # "run" \/ kill = "sent")) ~> (part = "ends" /\ Ending!Ends # {})
    /\ (part = "owner" /\ ttydAt["launch"] = "failed") ~> (part = "owner" /\ ttyd # "up")
    /\ \A g \in 1..4 : (part = "owner" /\ owner[g].at = "sleep")
         ~> (part = "owner" /\ (Owning!Attached \/ owner[g].at \in {"gone", "none"}))

\* What is to be done gets done: a ready card is dispatched, a change on GitHub
\* reaches the board, and what was emitted is captured.
WorkArrives ==
    /\ \A c \in 1..2 :
         (part = "ready" /\ \E x \in board : x.card = c /\ x.role = "ready")
           ~> (part = "ready" /\ ~\E x \in board : x.card = c /\ x.role = "ready")
    /\ <>[](part = "hooks" => \A i \in items : \E c \in syncBoard : c.item = i.id /\ c.role = Hooked!RoleOf(i))
    /\ <>[](part = "capture" => (Capturing!Resting => Capturing!Pending = <<>>))
=============================================================================
