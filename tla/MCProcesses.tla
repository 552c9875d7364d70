---------------------------- MODULE MCProcesses -----------------------------
(* What runs outside the server, for TLC: executors and their output, the    *)
(* Codex app-server, the owners of a ttyd and the terminal hosts. One run    *)
(* explores them side by side: `part` says which of them a behaviour is      *)
(* of, with which constants.                                                 *)
EXTENDS Naturals, FiniteSets, Sequences
CONSTANT Parts
VARIABLES
    part,
    \* ExecutorProcess
    child, holder, written, read, reader, raw, fwd, forwards, bytes, over, sink, got,
    listens, kill, sup,
    \* CodexAppServer
    server, toServer, lines, client, deltas, anonymous, out, handshake, caller,
    codexKill,
    \* TtydOwners
    ttyd, status, old, asked, host, sent, owner, monitor, ttydN, at, holds, lapsed,
    drops, restarts, evictions,
    \* TerminalStream
    hosts, made, reg, chunks, capture, restore, task, view, queue, lagged, flush,
    termRead, idles, crashes

Pipes == INSTANCE ExecutorProcess WITH
    Variant <- "pipes", SizeOf <- <<1, 2>>, Budget <- 3, NoticeSize <- 2,
    Word <- 16, SinkCap <- 1, Faults <- {"holder", "slow", "deaf", "checked"}
Pty == INSTANCE ExecutorProcess WITH
    Variant <- "pty", SizeOf <- <<2, 1, 2>>, Budget <- 3, NoticeSize <- 2,
    Word <- 16, SinkCap <- 1, Faults <- {"holder", "deaf", "readfail", "drop"}
Codex == INSTANCE CodexAppServer WITH
    Messages <- {"m1", "m2"},
    Faults <- {"exit", "refuse", "ask", "garbage", "complain", "timeout", "kill", "drop"},
    kill <- codexKill
Calls == INSTANCE TtydOwners WITH
    Callers <- {"c1", "c2"}, MaxGroups <- 4, MaxTries <- 1, Drops <- 1, Restarts <- 1,
    Evictions <- 0, Hangs <- FALSE, Kills <- TRUE, Ages <- TRUE, Faults <- {"exit", "deaf"},
    n <- ttydN
Restored == INSTANCE TtydOwners WITH
    Callers <- {"c1", "c2"}, MaxGroups <- 5, MaxTries <- 1, Drops <- 0, Restarts <- 1,
    Evictions <- 1, Hangs <- TRUE, Kills <- TRUE, Ages <- TRUE, Faults <- {"exit"},
    n <- ttydN
Dropped == INSTANCE TtydOwners WITH
    Callers <- {}, MaxGroups <- 5, MaxTries <- 2, Drops <- 3, Restarts <- 0,
    Evictions <- 1, Hangs <- FALSE, Kills <- TRUE, Ages <- TRUE, Faults <- {"exit"},
    n <- ttydN
All == INSTANCE TerminalStream WITH
    Emitters <- {"e1"}, Viewers <- {}, Readers <- {"r1"}, Attachers <- {"a1"},
    Closers <- {"remove"}, MaxChunks <- 1, MaxHosts <- 2, MaxPauses <- 0, Idles <- 0,
    Capacity <- 2, Crashes <- 0, Faults <- {}, read <- termRead
View == INSTANCE TerminalStream WITH
    Emitters <- {"e1"}, Viewers <- {"v1"}, Readers <- {}, Attachers <- {},
    Closers <- {"exit"}, MaxChunks <- 2, MaxHosts <- 2, MaxPauses <- 1, Idles <- 0,
    Capacity <- 1, Crashes <- 0, Faults <- {}, read <- termRead
Files == INSTANCE TerminalStream WITH
    Emitters <- {"e1"}, Viewers <- {}, Readers <- {}, Attachers <- {},
    Closers <- {"detach"}, MaxChunks <- 2, MaxHosts <- 2, MaxPauses <- 0,
    Idles <- 0, Capacity <- 2, Crashes <- 1, Faults <- {"capture", "snapshot"},
    read <- termRead
Idly == INSTANCE TerminalStream WITH
    Emitters <- {"e1"}, Viewers <- {}, Readers <- {}, Attachers <- {"a1"},
    Closers <- {}, MaxChunks <- 2, MaxHosts <- 2, MaxPauses <- 0, Idles <- 2,
    Capacity <- 2, Crashes <- 1, Faults <- {"capture", "snapshot"}, read <- termRead

\* What each component assumes of its constants holds of every part.
ASSUME PartsAssumption ==
    /\ Pipes!ProcessAssumption /\ Pty!ProcessAssumption /\ Codex!FaultsAssumption
    /\ Calls!OwnersAssumption /\ Restored!OwnersAssumption /\ Dropped!OwnersAssumption
    /\ All!StreamAssumption /\ View!StreamAssumption /\ Files!StreamAssumption
    /\ Idly!StreamAssumption

\* The variables of a component whose part it is not are idle.
ExecutorProcessVars == <<child, holder, written, read, reader, raw, fwd, forwards,
                         bytes, over, sink, got, listens, kill, sup>>
NoExecutorProcess ==
    /\ child = 0 /\ holder = 0 /\ written = 0 /\ read = 0 /\ reader = 0 /\ raw = 0 /\ fwd = 0
    /\ forwards = 0 /\ bytes = 0 /\ over = 0 /\ sink = 0 /\ got = 0 /\ listens = 0 /\ kill = 0
    /\ sup = 0
CodexAppServerVars == <<server, toServer, lines, client, deltas, anonymous, out,
                        handshake, caller, codexKill>>
NoCodexAppServer ==
    /\ server = 0 /\ toServer = 0 /\ lines = 0 /\ client = 0 /\ deltas = 0 /\ anonymous = 0
    /\ out = 0 /\ handshake = 0 /\ caller = 0 /\ codexKill = 0
TtydOwnersVars == <<ttyd, status, old, asked, host, sent, owner, monitor, ttydN, at,
                    holds, lapsed, drops, restarts, evictions>>
NoTtydOwners ==
    /\ ttyd = 0 /\ status = 0 /\ old = 0 /\ asked = 0 /\ host = 0 /\ sent = 0 /\ owner = 0
    /\ monitor = 0 /\ ttydN = 0 /\ at = 0 /\ holds = 0 /\ lapsed = 0 /\ drops = 0 /\ restarts = 0
    /\ evictions = 0
TerminalStreamVars == <<hosts, made, reg, chunks, capture, restore, task, view, queue,
                        lagged, flush, termRead, idles, crashes>>
NoTerminalStream ==
    /\ hosts = 0 /\ made = 0 /\ reg = 0 /\ chunks = 0 /\ capture = 0 /\ restore = 0 /\ task = 0
    /\ view = 0 /\ queue = 0 /\ lagged = 0 /\ flush = 0 /\ termRead = 0 /\ idles = 0
    /\ crashes = 0

Init ==
    /\ part \in Parts
    /\ CASE part = "pipes" -> Pipes!Init
         [] part = "pty" -> Pty!Init
         [] OTHER -> NoExecutorProcess
    /\ IF part = "codex" THEN Codex!Init ELSE NoCodexAppServer
    /\ CASE part = "calls" -> Calls!Init
         [] part = "restored" -> Restored!Init
         [] part = "drops" -> Dropped!Init
         [] OTHER -> NoTtydOwners
    /\ CASE part = "all" -> All!Init
         [] part = "view" -> View!Init
         [] part = "files" -> Files!Init
         [] part = "idle" -> Idly!Init
         [] OTHER -> NoTerminalStream
Next ==
    /\ UNCHANGED part
    /\ CASE part = "pipes" -> Pipes!Next
         [] part = "pty" -> Pty!Next
         [] OTHER -> UNCHANGED ExecutorProcessVars
    /\ IF part = "codex" THEN Codex!Next ELSE UNCHANGED CodexAppServerVars
    /\ CASE part = "calls" -> Calls!Next
         [] part = "restored" -> Restored!Next
         [] part = "drops" -> Dropped!Next
         [] OTHER -> UNCHANGED TtydOwnersVars
    /\ CASE part = "all" -> All!Next
         [] part = "view" -> View!Next
         [] part = "files" -> Files!Next
         [] part = "idle" -> Idly!Next
         [] OTHER -> UNCHANGED TerminalStreamVars
vars == <<part, ExecutorProcessVars, CodexAppServerVars, TtydOwnersVars,
          TerminalStreamVars>>
Spec == Init /\ [][Next]_vars

-----------------------------------------------------------------------------
\* Each line a process wrote reaches its consumer in order, once and before the
\* end, or its loss is announced; what waits is within the budget and counted, to
\* the notice of the loss, which is never added and yet taken off.
OutputIsAccounted ==
    /\ part = "pipes" => /\ Pipes!TypeOK /\ Pipes!BytesMatch /\ Pipes!WithinBudget
                         /\ Pipes!EndIsLast /\ Pipes!NoSilentGap
    /\ part = "pty" => Pty!TypeOK /\ Pty!BytesMatch /\ Pty!WithinBudget /\ Pty!EndIsLast

\* A turn of the app-server ends once, is reported when its client is over, and
\* each of its messages is shown once.
TurnIsReported ==
    part = "codex" => /\ Codex!TypeOK /\ Codex!EndsOnce
                      /\ Codex!DoneIsReported /\ Codex!EachMessageOnce

\* A ttyd has one owner whoever restores it, and lives until somebody asks for
\* its end or drops the sender that could, whatever websockets are lost.  A
\* browser that has nothing to read shows the screen of its session, and what was
\* emitted is captured in order, and once where no write of it fails.
TerminalIsWhole ==
    /\ part = "calls" => Calls!TypeOK /\ Calls!EndsWhenAsked
    /\ part = "restored" => Restored!OneOwner /\ Restored!EndsWhenAsked
    /\ part = "drops" => Dropped!EndsWhenAsked
    /\ part = "all" => All!TypeOK
    /\ part = "view" => View!Lossless /\ View!Gapless
    /\ part = "files" => Files!Gapless

\* A host is evicted only when the screen it was found idle with is on disk, or
\* its last write failed, though the looks at it are apart.
EvictedIsSaved == [][part = "idle" => Idly!KeepsScreen]_vars
=============================================================================
