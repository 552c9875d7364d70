-------------------------- MODULE MCRelayProgress ---------------------------
(* Liveness of the relay for TLC, and its queues. One run explores them side *)
(* by side: `part` says which of them a behaviour is of; the fairness is     *)
(* that of the component, as its module states it. The queues are those of   *)
(* RelayQueues itself, so that the run checks what RelayQueuesProofs proves. *)
EXTENDS RelayQueues
CONSTANTS Parts, NoValue, d1, u1, k1, t1, t2
VARIABLES
    part,
    \* RelayTerminals
    sessions, conns, creators, timers, starts, issued, got, told, deleted,
    \* RelayRequests
    devices, deleting, channel, reqConns, reqs, pending, waitingBytes, reply, events,
    work, sent, cancels, lost, read,
    \* RelayPairing
    codes, claims, claimBytes, pairDevices, tokens, revision, written, holder, disk,
    renaming, tasks, handed, crashes

\* Two sockets of one user, on two channels, and a stream of another budget.
MCQueues == {"browser", "bridge", "stream"}
MCBudgets == {"global", "user", "a", "b", "streams"}
MCBudgetsOf == [q \in MCQueues |-> CASE q = "browser" -> {"global", "user", "a"}
                                     [] q = "bridge" -> {"global", "user", "b"}
                                     [] OTHER -> {"streams"}]
MCTo == <<"browser", "browser", "bridge", "stream">>
MCSizeOf == <<2, 1, 2, 2>>
MCByteCap == [q \in MCQueues |-> 3]
MCCountCap == [q \in MCQueues |-> IF q = "browser" THEN 1 ELSE 2]
MCBudgetCap == [b \in MCBudgets |-> CASE b = "a" -> 2 [] b \in {"b", "user"} -> 3
                                     [] b = "streams" -> 2 [] OTHER -> 4]

Collect == INSTANCE RelayTerminals WITH
    Keys <- {"k"}, DeviceOf <- [k \in {"k"} |-> "d"],
    OwnerOf <- [d \in {"d"} |-> "u"], Creators <- {"a"}, MaxTerminals <- 1,
    MaxConns <- 3, MaxCreates <- 1, MaxFrames <- 0, BufferCap <- 1, SessionCap <- 1,
    DeviceCap <- 1, UserCap <- 1, FrameKinds <- {}, SlowPeers <- TRUE,
    Deletions <- FALSE
Answering == INSTANCE RelayRequests WITH
    Devices <- {"d"}, Requests <- {"get", "stream"},
    DeviceOf <- [r \in {"get", "stream"} |-> "d"],
    KindOf <- [r \in {"get", "stream"} |-> r],
    SizeOf <- [r \in {"get", "stream"} |-> 1], Conns <- {1}, MaxChunks <- 1,
    EventCap <- 1, CountCap <- 1, ByteCap <- 1, SlowPeers <- TRUE,
    Events <- {"timeout", "abandon", "hangup"}, conns <- reqConns,
    bytes <- waitingBytes
Polling == INSTANCE RelayPairing WITH
    None <- NoValue, Devices <- {d1}, Users <- {u1}, Codes <- {}, Claims <- {k1},
    Tasks <- {t1, t2}, SizeOf <- [k \in {k1} |-> 2], CodeCap <- 1, ClaimCap <- 1,
    ClaimByteCap <- 2, DeviceCap <- 1, UserCap <- 1, MaxCrashes <- 1,
    Faults <- {"write", "late", "abandon", "lapse"}, devices <- pairDevices

\* What each component assumes of its constants holds of every part.
ASSUME PartsAssumption ==
    /\ Answering!BoundsAssumption /\ Answering!RequestsAssumption
    /\ Answering!EventsAssumption /\ Answering!ConnsAssumption
    /\ QueuesAssumption

\* The variables of a component whose part it is not are idle; the queues stay
\* empty.
RelayTerminalsVars == <<sessions, conns, creators, timers, starts, issued, got, told,
                        deleted>>
NoRelayTerminals ==
    /\ sessions = 0 /\ conns = 0 /\ creators = 0 /\ timers = 0 /\ starts = 0 /\ issued = 0
    /\ got = 0 /\ told = 0 /\ deleted = 0
RelayRequestsVars == <<devices, deleting, channel, reqConns, reqs, pending, waitingBytes,
                       reply, events, work, sent, cancels, lost, read>>
NoRelayRequests ==
    /\ devices = 0 /\ deleting = 0 /\ channel = 0 /\ reqConns = 0 /\ reqs = 0 /\ pending = 0
    /\ waitingBytes = 0 /\ reply = 0 /\ events = 0 /\ work = 0 /\ sent = 0 /\ cancels = 0
    /\ lost = 0 /\ read = 0
RelayPairingVars == <<codes, claims, claimBytes, pairDevices, tokens, revision,
                      written, holder, disk, renaming, tasks, handed, crashes>>
NoRelayPairing ==
    /\ codes = 0 /\ claims = 0 /\ claimBytes = 0 /\ pairDevices = 0 /\ tokens = 0
    /\ revision = 0 /\ written = 0 /\ holder = 0 /\ disk = 0 /\ renaming = 0 /\ tasks = 0
    /\ handed = 0 /\ crashes = 0

PartsInit ==
    /\ part \in Parts
    /\ IF part = "collect" THEN Collect!Init ELSE NoRelayTerminals
    /\ IF part = "answer" THEN Answering!Init ELSE NoRelayRequests
    /\ Init
    /\ IF part = "poll" THEN Polling!Init ELSE NoRelayPairing
PartsNext ==
    /\ UNCHANGED part
    /\ IF part = "collect" THEN Collect!Next ELSE UNCHANGED RelayTerminalsVars
    /\ IF part = "answer" THEN Answering!Next ELSE UNCHANGED RelayRequestsVars
    /\ IF part = "drain" THEN Next ELSE UNCHANGED vars
    /\ IF part = "poll" THEN Polling!Next ELSE UNCHANGED RelayPairingVars
partsVars == <<part, RelayTerminalsVars, RelayRequestsVars, vars, RelayPairingVars>>
PartsSpec == PartsInit /\ [][PartsNext]_partsVars
FairParts ==
    /\ PartsSpec
    /\ WF_RelayTerminalsVars(part = "collect" /\ (Collect!StartProxy("a") \/ Collect!StartRefused("a")))
    /\ WF_RelayTerminalsVars(part = "collect" /\ Collect!UndoCreate("a"))
    /\ WF_RelayTerminalsVars(part = "collect" /\ Collect!TimeStep)
    /\ \A c \in 1..3 :
        /\ WF_RelayTerminalsVars(part = "collect" /\ Collect!Attach(c)) /\ WF_RelayTerminalsVars(part = "collect" /\ Collect!Detach(c))
        /\ WF_RelayTerminalsVars(part = "collect" /\ Collect!Forward(c))
        /\ WF_RelayTerminalsVars(part = "collect" /\ c \in told /\ Collect!Hangup(c))
    /\ \A r \in {"get", "stream"} :
        /\ WF_RelayRequestsVars(part = "answer" /\ (Answering!SendRequest(r) \/ Answering!SendRefused(r)))
        /\ WF_RelayRequestsVars(part = "answer" /\ Answering!Unsent(r))
        /\ WF_RelayRequestsVars(part = "answer" /\ Answering!Answered(r))
        /\ WF_RelayRequestsVars(part = "answer" /\ Answering!Timeout(r))
        /\ WF_RelayRequestsVars(part = "answer" /\ Answering!Expire(r))
        /\ WF_RelayRequestsVars(part = "answer" /\ (Answering!StreamStarts(r) \/ Answering!StreamEndsEarly(r) \/ Answering!StreamMisordered(r)))
        /\ WF_RelayRequestsVars(part = "answer" /\ ((Answering!Begin(r) /\ reqs[r].attempt = 2) \/ Answering!GiveUp(r)))
        /\ WF_RelayRequestsVars(part = "answer" /\ Answering!CancelStream(r))
    /\ \A m \in Messages :
        /\ WF_vars(part = "drain" /\ (Reserve(m) \/ Uncharge(m) \/ Enqueue(m)))
        /\ WF_vars(part = "drain" /\ (Release(m) \/ Return(m)))
    /\ WF_RelayPairingVars(part = "poll" /\ Polling!Poll(k1))

-----------------------------------------------------------------------------
\* Nothing is left behind in the relay: a terminal session that nobody attaches
\* to is collected or attached again, the bytes of closed queues come back, and
\* who waits is answered: a request to a device, and a device that polls its
\* claim.
RelayLeavesNothing ==
    /\ (part = "collect" /\ Collect!Live(1) /\ sessions[1].browser = 0 /\ sessions[1].bridge = 0)
         ~> (part = "collect" /\ (Collect!Live(1) => sessions[1].browser # 0 \/ sessions[1].bridge # 0))
    /\ (part = "drain" /\ open = {} /\ At({"idle"}) = {})
         ~> (part = "drain" /\ (\A q \in Queues : bytes[q] = 0) /\ \A b \in Budgets : used[b] = 0)
    /\ \A r \in {"get", "stream"} :
         (part = "answer" /\ reqs[r].pc \in {"queued", "wait"})
           ~> (part = "answer" /\ reqs[r].pc \in {"done", "body", "abandoned"})
    /\ (part = "poll" /\ \E t \in {t1, t2} : tasks[t].op = "complete" /\ tasks[t].pc = "ok")
         ~> (part = "poll" /\ (handed[k1] = 1 \/ claims[k1].state = "gone"))
=============================================================================
