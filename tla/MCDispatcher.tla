---------------------------- MODULE MCDispatcher ----------------------------
(* The dispatcher for TLC: the turns of a thread, the prompts of an ACP      *)
(* client and the bindings of a project. One run explores them side by       *)
(* side: `part` says which of them a behaviour is of. The part "turns" is    *)
(* DispatcherThreads under the constants of the configuration, as            *)
(* DispatcherThreadsProofs is about it; the other parts of threads have      *)
(* constants, and variables, of their own.                                   *)
EXTENDS DispatcherThreads
CONSTANT Parts
VARIABLES
    part,
    \* DispatcherThreads with other requests, agents and faults
    otherMem, otherDisk, otherAttached, otherRt, otherCon, otherAt,
    otherOwn, otherGuard, otherSnap, otherPending, otherFlush, otherServer,
    \* AcpPrompts
    thread, agent, killed, acpAt, asks, copy, inFlight, flag, sent, announced,
    open, card, reason, answer,
    \* DispatcherBindings
    bindMem, bindDisk, alive, made, clock, bindAt, input, found, chosen, bindSnap,
    acked

MCRequest == [s1 |-> "send", s2 |-> "send", i |-> "interrupt"]
MCNames == <<"r1", "r2">>
Prefs == INSTANCE DispatcherThreads WITH
    Request <- [s1 |-> "send", s2 |-> "send", p |-> "prefs"], Agent <- "terminal",
    Names <- MCNames, MaxOutput <- 0, Faults <- {},
    mem <- otherMem, disk <- otherDisk, attached <- otherAttached, rt <- otherRt,
    con <- otherCon, at <- otherAt, own <- otherOwn, guard <- otherGuard,
    snap <- otherSnap, pending <- otherPending, flush <- otherFlush, server <- otherServer
Binds == INSTANCE DispatcherThreads WITH
    Request <- [s1 |-> "send", p |-> "prefs", b |-> "bind"], Agent <- "terminal",
    Names <- MCNames, MaxOutput <- 1, Faults <- {},
    mem <- otherMem, disk <- otherDisk, attached <- otherAttached, rt <- otherRt,
    con <- otherCon, at <- otherAt, own <- otherOwn, guard <- otherGuard,
    snap <- otherSnap, pending <- otherPending, flush <- otherFlush, server <- otherServer
Crashes == INSTANCE DispatcherThreads WITH
    Request <- [s1 |-> "send", p |-> "prefs"], Agent <- "codex",
    Names <- MCNames, MaxOutput <- 1, Faults <- {"disk", "crash"},
    mem <- otherMem, disk <- otherDisk, attached <- otherAttached, rt <- otherRt,
    con <- otherCon, at <- otherAt, own <- otherOwn, guard <- otherGuard,
    snap <- otherSnap, pending <- otherPending, flush <- otherFlush, server <- otherServer
Removals == INSTANCE DispatcherThreads WITH
    Request <- [s1 |-> "send", d |-> "delete"], Agent <- "codex",
    Names <- MCNames, MaxOutput <- 1, Faults <- {},
    mem <- otherMem, disk <- otherDisk, attached <- otherAttached, rt <- otherRt,
    con <- otherCon, at <- otherAt, own <- otherOwn, guard <- otherGuard,
    snap <- otherSnap, pending <- otherPending, flush <- otherFlush, server <- otherServer
Acp == INSTANCE AcpPrompts WITH
    Prompts <- {"p1", "p2"}, Cancels <- {"c1"}, Others <- {}, MaxEntries <- 3,
    MaxText <- 1, Deletable <- FALSE, at <- acpAt
Pieces == INSTANCE AcpPrompts WITH
    Prompts <- {"p1"}, Cancels <- {}, Others <- {}, MaxEntries <- 4,
    MaxText <- 1, Deletable <- FALSE, at <- acpAt
Stopped == INSTANCE AcpPrompts WITH
    Prompts <- {"p1"}, Cancels <- {"c1"}, Others <- {}, MaxEntries <- 3,
    MaxText <- 2, Deletable <- TRUE, at <- acpAt
Overlap == INSTANCE DispatcherBindings WITH
    Upserts <- {"u1", "u2"}, Deletes <- {"d1"}, Externals <- {1, 2}, MaxThreads <- 2,
    MaxBindings <- 1, Faults <- {"fail"}, Overlapping <- TRUE, mem <- bindMem,
    disk <- bindDisk, at <- bindAt, snap <- bindSnap
Adds == INSTANCE DispatcherBindings WITH
    Upserts <- {"u1", "u2", "u3"}, Deletes <- {}, Externals <- {1, 2},
    MaxThreads <- 2, MaxBindings <- 2, Faults <- {}, Overlapping <- FALSE,
    mem <- bindMem, disk <- bindDisk, at <- bindAt, snap <- bindSnap
Serial == INSTANCE DispatcherBindings WITH
    Upserts <- {"u1", "u2", "u3"}, Deletes <- {"d1"}, Externals <- {1, 2},
    MaxThreads <- 2, MaxBindings <- 2, Faults <- {}, Overlapping <- FALSE,
    mem <- bindMem, disk <- bindDisk, at <- bindAt, snap <- bindSnap
Kept == INSTANCE DispatcherBindings WITH
    Upserts <- {"u1", "u2"}, Deletes <- {"d1"}, Externals <- {1, 2}, MaxThreads <- 2,
    MaxBindings <- 2, Faults <- {"fail", "crash"}, Overlapping <- FALSE,
    mem <- bindMem, disk <- bindDisk, at <- bindAt, snap <- bindSnap

\* What each component assumes of its constants holds of every part.
ASSUME PartsAssumption ==
    /\ Prefs!DispatcherAssumption /\ Binds!DispatcherAssumption
    /\ Crashes!DispatcherAssumption /\ Removals!DispatcherAssumption
    /\ Acp!AcpAssumption /\ Pieces!AcpAssumption /\ Stopped!AcpAssumption
    /\ Overlap!BindingsAssumption
    /\ Adds!BindingsAssumption /\ Serial!BindingsAssumption /\ Kept!BindingsAssumption

\* The variables of a component whose part it is not are idle.
OtherThreadsVars == <<otherMem, otherDisk, otherAttached, otherRt, otherCon, otherAt,
                      otherOwn, otherGuard, otherSnap, otherPending, otherFlush, otherServer>>
NoOtherThreads ==
    /\ otherMem = 0 /\ otherDisk = 0 /\ otherAttached = 0 /\ otherRt = 0 /\ otherCon = 0
    /\ otherAt = 0 /\ otherOwn = 0 /\ otherGuard = 0 /\ otherSnap = 0 /\ otherPending = 0
    /\ otherFlush = 0 /\ otherServer = 0
AcpPromptsVars == <<thread, agent, killed, acpAt, asks, copy, inFlight, flag, sent,
                    announced, open, card, reason, answer>>
NoAcpPrompts ==
    /\ thread = 0 /\ agent = 0 /\ killed = 0 /\ acpAt = 0 /\ asks = 0 /\ copy = 0 /\ inFlight = 0
    /\ flag = 0 /\ sent = 0 /\ announced = 0 /\ open = 0 /\ card = 0 /\ reason = 0 /\ answer = 0
DispatcherBindingsVars == <<bindMem, bindDisk, alive, made, clock, bindAt, input,
                            found, chosen, bindSnap, acked>>
NoDispatcherBindings ==
    /\ bindMem = 0 /\ bindDisk = 0 /\ alive = 0 /\ made = 0 /\ clock = 0 /\ bindAt = 0
    /\ input = 0 /\ found = 0 /\ chosen = 0 /\ bindSnap = 0 /\ acked = 0

PartsInit ==
    /\ part \in Parts
    /\ Init
    /\ CASE part = "prefs" -> Prefs!Init
         [] part = "binds" -> Binds!Init
         [] part = "crash" -> Crashes!Init
         [] part = "deleted" -> Removals!Init
         [] OTHER -> NoOtherThreads
    /\ CASE part = "prompts" -> Acp!Init
         [] part = "pieces" -> Pieces!Init
         [] part = "stopped" -> Stopped!Init
         [] OTHER -> NoAcpPrompts
    /\ CASE part = "overlap" -> Overlap!Init
         [] part = "upserts" -> Adds!Init
         [] part = "serial" -> Serial!Init
         [] part = "saved" -> Kept!Init
         [] OTHER -> NoDispatcherBindings
PartsNext ==
    /\ UNCHANGED part
    /\ IF part = "turns" THEN Next ELSE UNCHANGED vars
    /\ CASE part = "prefs" -> Prefs!Next
         [] part = "binds" -> Binds!Next
         [] part = "crash" -> Crashes!Next
         [] part = "deleted" -> Removals!Next
         [] OTHER -> UNCHANGED OtherThreadsVars
    /\ CASE part = "prompts" -> Acp!Next
         [] part = "pieces" -> Pieces!Next
         [] part = "stopped" -> Stopped!Next
         [] OTHER -> UNCHANGED AcpPromptsVars
    /\ CASE part = "overlap" -> Overlap!Next
         [] part = "upserts" -> Adds!Next
         [] part = "serial" -> Serial!Next
         [] part = "saved" -> Kept!Next
         [] OTHER -> UNCHANGED DispatcherBindingsVars
partsVars == <<part, vars, OtherThreadsVars, AcpPromptsVars, DispatcherBindingsVars>>
PartsSpec == PartsInit /\ [][PartsNext]_partsVars

-----------------------------------------------------------------------------
\* A thread is kept whole whatever its agent, its requests and its faults are:
\* preferences and bindings that are changed beside its turns, a deletion, a disk
\* that fails and a crash (ThreadIsWhole says what is kept, and when).
ThreadsAreWhole ==
    /\ part = "prefs" => Prefs!ThreadIsWhole
    /\ part = "binds" => Binds!ThreadIsWhole
    /\ part = "crash" => Crashes!ThreadIsWhole
    /\ part = "deleted" => Removals!ThreadIsWhole

\* What clients were told is so. The client of a prompt is sent each piece of the
\* answer once and all of it before it is told of the end (of a tool call's entry,
\* which is replaced, what is longer), and a tool call it was told of is closed
\* unless the prompt fails or a later update opens it again; bindings of a
\* project have their own ids, are bounded, are cleared with their thread, and
\* the file holds those a client was told of.
ToldIsSo ==
    /\ part = "prompts" => /\ Acp!TypeOK /\ Acp!StreamedAll
                           /\ Acp!AnsweredAtEnd /\ Acp!ToolsClosed
    /\ part = "pieces" => /\ Pieces!TypeOK /\ Pieces!StreamedAll
                           /\ Pieces!AnsweredAtEnd /\ Pieces!ToolsClosed
    /\ part = "stopped" => /\ Stopped!TypeOK /\ Stopped!StreamedAll
                           /\ Stopped!AnsweredAtEnd /\ Stopped!ToolsClosed
    /\ part = "overlap" => Overlap!TypeOK
    /\ part = "upserts" => Adds!UniqueIds
    /\ part = "serial" => Serial!ClearedAfterDelete
    /\ part = "saved" => Kept!AckedOnDisk
=============================================================================
