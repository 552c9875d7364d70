---------------------------- MODULE BridgeClient ----------------------------
(***************************************************************************)
(* The bridge of a paired machine (crates/conductor-cli/src/bridge.rs): the *)
(* process of `conductor bridge connect`, which dials the relay again and   *)
(* again until its token is removed, and in each connection answers the     *)
(* relay's requests from the local backend.  A connection is a receive loop *)
(* and the tasks it spawns: one per streamed request, a poller of the       *)
(* active session's output, a heartbeat, and one writer that prefers the    *)
(* control queue to the stream queue.                                       *)
(*                                                                         *)
(* The relay and the backend are the environment.  Output is a sequence of  *)
(* lines, a response a number of chunks.  Bounded: Messages from the relay, *)
(* MaxConns connections, the stream tasks Tasks, MaxChunks, MaxLines.       *)
(***************************************************************************)
EXTENDS Naturals, Sequences, FiniteSets, SequencesExt

CONSTANTS
    Ids,            \* the request ids a relay uses for streams
    Tasks,          \* stream tasks a connection may spawn, 1..n
    Proxies,        \* terminals the relay asks a proxy for
    Kinds,          \* what the relay sends: see KindNames
    Sessions,       \* sessions a request's path may name
    Messages,       \* how many messages the relay sends
    MaxConns,       \* how many connections are made
    MaxChunks,      \* chunks of a streamed response
    MaxLines,       \* lines a session writes
    ControlCap, StreamCap,  \* BRIDGE_CONTROL_QUEUE_CAPACITY, BRIDGE_STREAM_QUEUE_CAPACITY
    MaxBackoff,     \* the cap of the back-off, in doublings
    Faults          \* what goes wrong: see FaultNames
None == "none"
FaultNames == {"dial", "drop", "backend", "large", "file", "disconnect", "repair"}
KindNames == {"ping", "browse", "request", "preview", "input", "stream", "cancel", "proxy"}
ClientAssumption ==
    /\ Kinds \subseteq KindNames /\ Faults \subseteq FaultNames
    /\ \A n \in {Messages, MaxConns, MaxChunks, MaxLines, MaxBackoff} : n \in Nat
    /\ ControlCap \in Nat \ {0} /\ StreamCap \in Nat \ {0}

VARIABLES
    token,      \* whether the token file is there
    file,       \* the state file: NoFile, or whether it says connected, and the session
    client,     \* the loop of connect(): at, its back-off, the connections made
    net,        \* the websocket: "none", "up", "down"
    inbox,      \* messages of the relay the loop has not received
    sent,       \* how many messages the relay has sent
    loop,       \* the receive loop: what it awaits
    active,     \* the active session of the connection
    control,    \* the control queue
    stream,     \* the stream queue
    senders,    \* who may still send on the control queue
    writer,     \* whether the writer runs
    tasks,      \* the stream tasks: request, at, chunks sent, whether aborted
    byId,       \* StreamTaskAbortRegistry: the task of a request id,
    byTask,     \*   and the request id of a task
    got,        \* what reached the relay of each task, in order
    poll,       \* the poller: session, last output
    screen,     \* what the browser shows, from the output messages that arrived
    lines,      \* the lines of each session the backend answers with
    proxies,    \* the terminal proxies: how far each is
    left        \* tasks of earlier connections that nobody stopped
connVars == <<inbox, loop, active, control, stream, senders, writer>>
taskVars == <<tasks, byId, byTask, got>>
outVars == <<poll, screen, lines>>
vars == <<token, file, client, net, sent, left, proxies, connVars, taskVars, outVars>>

NoTask == [id |-> None, at |-> "none", chunks |-> 0, aborted |-> FALSE]
Owners == {"loop", "heartbeat", "poller"}
NoFile == [connected |-> FALSE, session |-> "nofile"]
Disconnected == [connected |-> FALSE, session |-> None]
\* active_session_id is carried over from whatever the file says.
Kept(f) == IF f = NoFile THEN Disconnected ELSE [f EXCEPT !.connected = FALSE]
Live(t) == tasks[t].at \notin {"none", "done", "joined"}
Running == {t \in Tasks : Live(t)}

Init ==
    /\ token \in BOOLEAN /\ file = NoFile
    /\ client = [at |-> "new", backoff |-> 0, conns |-> 0]
    /\ net = "none" /\ inbox = <<>> /\ sent = 0 /\ loop = "none" /\ active = None
    /\ control = <<>> /\ stream = <<>> /\ senders = {} /\ writer = FALSE
    /\ tasks = [t \in Tasks |-> NoTask] /\ byId = <<>> /\ byTask = <<>>
    /\ got = [t \in Tasks |-> <<>>]
    /\ poll = [session |-> None, last |-> <<>>] /\ screen = <<>>
    /\ lines = [s \in Sessions |-> <<>>] /\ left = {}
    /\ proxies = [p \in Proxies |-> "none"]

-----------------------------------------------------------------------------
\* The queues.

\* try_send_bridge_payload: a full queue, or no writer, loses the message.
Offer(m) == control' = IF writer /\ Len(control) < ControlCap THEN Append(control, m) ELSE control
\* bridge_message_to_text refuses what is larger than a websocket message.
OfferAnswer(m) == Offer(m) \/ ("large" \in Faults /\ UNCHANGED control)

\* recv_prioritized_bridge_message and the writer: control first; when nobody
\* can send any more, what is left of the stream queue is dropped.
ShowLines(m) ==
    screen' = CASE m.kind # "output" -> screen
                [] m.clear -> m.lines
                [] OTHER -> screen \o m.lines
Write ==
    /\ writer /\ net = "up"
    /\ IF control # <<>>
       THEN /\ control' = Tail(control) /\ ShowLines(Head(control))
            /\ UNCHANGED <<stream, got>>
       ELSE /\ stream # <<>>
            /\ stream' = Tail(stream)
            /\ got' = [got EXCEPT ![Head(stream).task] = Append(@, Head(stream).kind)]
            /\ UNCHANGED <<control, screen>>
    /\ UNCHANGED <<proxies, token, file, client, net, sent, left, inbox, loop, active, senders, writer,
                   tasks, byId, byTask, poll, lines>>
StreamClosed == "loop" \notin senders /\ Running = {}
WriterEnds ==
    /\ writer
    /\ \/ net = "down" /\ control \o stream # <<>>
       \/ senders = {} /\ control = <<>> /\ StreamClosed
    /\ writer' = FALSE /\ control' = <<>> /\ stream' = <<>>
    /\ UNCHANGED <<proxies, token, file, client, net, sent, left, inbox, loop, active, senders, taskVars, outVars>>

-----------------------------------------------------------------------------
\* connect()

\* The first save, and the token and state file a look at each turn needs.
Begin ==
    /\ client.at = "new" /\ token' = TRUE
    /\ file' = Disconnected /\ client' = [client EXCEPT !.at = "check"]
    /\ UNCHANGED <<proxies, net, sent, left, connVars, taskVars, outVars>>
\* load_token()?.is_none(): clear_state and return.
Leave ==
    /\ client.at \in {"check", "recheck"} /\ ~token
    /\ file' = NoFile /\ client' = [client EXCEPT !.at = "ended"]
    /\ UNCHANGED <<proxies, token, net, sent, left, connVars, taskVars, outVars>>
\* The dial fails: the error is noted, the back-off goes on doubling.
Refused ==
    /\ client.at = "check" /\ token /\ "dial" \in Faults
    /\ file' = Kept(file) /\ client' = [client EXCEPT !.at = "recheck"]
    /\ UNCHANGED <<proxies, token, net, sent, left, connVars, taskVars, outVars>>
\* run_bridge_connection_once up to its loop: queues, writer, heartbeat, poller,
\* the first status, and the file that says connected.
Open ==
    /\ client.at = "check" /\ token /\ client.conns < MaxConns
    /\ client' = [client EXCEPT !.at = "connected", !.conns = @ + 1]
    /\ net' = "up" /\ inbox' = <<>> /\ loop' = "select" /\ active' = None
    /\ control' = <<[kind |-> "status"]>> /\ stream' = <<>> /\ senders' = Owners /\ writer' = TRUE
    /\ tasks' = [t \in Tasks |-> NoTask] /\ byId' = <<>> /\ byTask' = <<>>
    /\ got' = [t \in Tasks |-> <<>>]
    /\ poll' = [session |-> None, last |-> <<>>] /\ screen' = <<>>
    /\ file' = [connected |-> TRUE, session |-> None]
    /\ UNCHANGED <<proxies, token, sent, left, lines>>
\* sleep(backoff), then twice as long up to the cap.
Wait ==
    /\ client.at = "recheck" /\ token
    /\ client' = [client EXCEPT !.at = "check",
                                !.backoff = IF @ < MaxBackoff THEN @ + 1 ELSE @]
    /\ UNCHANGED <<proxies, token, file, net, sent, left, connVars, taskVars, outVars>>

-----------------------------------------------------------------------------
\* The receive loop

Loop(at) == client.at = "connected" /\ loop = at
Received(kind) == Loop("select") /\ inbox # <<>> /\ Head(inbox).kind = kind /\ inbox' = Tail(inbox)

\* Ping, and FileBrowse, which lists a directory at once.
Ping ==
    /\ Received("ping") \/ Received("browse")
    /\ Offer([kind |-> Head(inbox).kind])
    /\ UNCHANGED <<proxies, token, file, client, net, sent, left, loop, active, stream, senders, writer, taskVars, outVars>>
\* ApiRequest: the session of its path becomes the active one and goes into the
\* file; the loop then waits for the backend and receives nothing meanwhile.
ApiRequest ==
    /\ Received("request") /\ loop' = "backend"
    /\ IF Head(inbox).session = None THEN UNCHANGED <<active, file>>
       ELSE /\ active' = Head(inbox).session
            /\ file' = [connected |-> TRUE, session |-> Head(inbox).session]
    /\ UNCHANGED <<proxies, token, client, net, sent, left, control, stream, senders, writer, taskVars, outVars>>
\* PreviewRequest: the loop waits for a server of this machine; a method, scheme,
\* host or body that is not let through is answered like one that fails.
PreviewRequest ==
    /\ Received("preview") /\ loop' = "backend"
    /\ UNCHANGED <<proxies, token, file, client, net, sent, left, active, control, stream, senders, writer, taskVars, outVars>>
\* TerminalInput goes to the active session, if there is one; nobody is answered.
TerminalInput ==
    /\ Received("input") /\ loop' = IF active = None THEN "select" ELSE "input"
    /\ UNCHANGED <<proxies, token, file, client, net, sent, left, active, control, stream, senders, writer, taskVars, outVars>>
InputPosted ==
    /\ Loop("input") /\ loop' = "select"
    /\ UNCHANGED <<proxies, token, file, client, net, sent, left, inbox, active, control, stream, senders, writer, taskVars, outVars>>
\* proxy_request: whatever the backend says, or that it cannot be asked (502).
ApiResponse ==
    /\ Loop("backend") /\ loop' = "select" /\ OfferAnswer([kind |-> "answer"])
    /\ UNCHANGED <<proxies, token, file, client, net, sent, left, inbox, active, stream, senders, writer, taskVars, outVars>>

\* StreamTaskAbortRegistry::register: an older task of the id is aborted.
Replaced(id) == IF id \in DOMAIN byId THEN {byId[id]} ELSE {}
Without(f, S) == [x \in DOMAIN f \ S |-> f[x]]
With(f, x, y) == [z \in DOMAIN f \cup {x} |-> IF z = x THEN y ELSE f[z]]
Aborted(ts, S) == [t \in Tasks |-> IF t \in S THEN [ts[t] EXCEPT !.aborted = TRUE] ELSE ts[t]]
AllTasks(f, S) == f
KeptTasks(f, S) == Without(f, S)
ApiStreamRequest ==
    /\ Received("stream")
    /\ \E t \in Tasks :
         /\ tasks[t].at = "none" /\ \A u \in Tasks : u < t => tasks[u].at # "none"
         /\ LET id == Head(inbox).id IN
            /\ tasks' = [Aborted(tasks, Replaced(id)) EXCEPT ![t] = [NoTask EXCEPT !.id = id, !.at = "request"]]
            /\ byTask' = With(KeptTasks(byTask, Replaced(id)), t, id)
            /\ byId' = With(byId, id, t)
    /\ UNCHANGED <<proxies, token, file, client, net, sent, left, loop, active, control, stream, senders, writer, got, outVars>>
\* cancel_stream_task_abort: an unknown or completed id is ignored.
Cancelled(id) == Replaced(id)
ApiStreamCancel ==
    /\ Received("cancel")
    /\ LET S == Cancelled(Head(inbox).id) IN
         /\ tasks' = Aborted(tasks, S)
         /\ byTask' = Without(byTask, S) /\ byId' = Without(byId, {Head(inbox).id})
    /\ UNCHANGED <<proxies, token, file, client, net, sent, left, loop, active, control, stream, senders, writer, got, outVars>>
\* join_next_with_id and remove_by_task_id, which finds the id of the task.
Join(t) ==
    /\ Loop("select") /\ tasks[t].at = "done"
    /\ tasks' = [tasks EXCEPT ![t].at = "joined"]
    /\ byTask' = Without(byTask, {t})
    /\ byId' = IF t \in DOMAIN byTask THEN Without(byId, {byTask[t]}) ELSE byId
    /\ UNCHANGED <<proxies, token, file, client, net, sent, left, connVars, got, outVars>>

-----------------------------------------------------------------------------
\* A stream task: proxy_stream_request, forward_proxy_stream_response and
\* send_stream_failure_response.  Each send waits for room in the queue.

Put(t, kind) ==
    /\ writer /\ Len(stream) < StreamCap
    /\ stream' = Append(stream, [task |-> t, kind |-> kind])
TaskGoes(t, at) ==
    /\ tasks' = [tasks EXCEPT ![t].at = at]
    /\ UNCHANGED <<proxies, token, file, client, net, sent, left, inbox, loop, active, control, senders,
                   writer, byId, byTask, got, outVars>>
\* The backend answers, or the request cannot be built or sent.
BackendAnswers(t) == tasks[t].at = "request" /\ UNCHANGED stream /\ TaskGoes(t, "start")
BackendFails(t) ==
    tasks[t].at = "request" /\ "backend" \in Faults /\ UNCHANGED stream /\ TaskGoes(t, "badStart")
Start(t) == tasks[t].at = "start" /\ Put(t, "start") /\ TaskGoes(t, "body")
BadStart(t) == tasks[t].at = "badStart" /\ Put(t, "start") /\ TaskGoes(t, "badBody")
BadBody(t) == tasks[t].at = "badBody" /\ Put(t, "chunk") /\ TaskGoes(t, "end")
Chunk(t) ==
    /\ tasks[t].at = "body" /\ tasks[t].chunks < MaxChunks /\ Put(t, "chunk")
    /\ tasks' = [tasks EXCEPT ![t].chunks = @ + 1]
    /\ UNCHANGED <<proxies, token, file, client, net, sent, left, inbox, loop, active, control, senders,
                   writer, byId, byTask, got, outVars>>
\* The body is over, or reading it failed: both end the stream.
End(t) == tasks[t].at \in {"body", "end"} /\ Put(t, "end") /\ TaskGoes(t, "done")
\* An aborted task stops at an await; one whose queue is closed gives up.
Stop(t) ==
    /\ Live(t) /\ (tasks[t].aborted \/ (~writer /\ tasks[t].at # "request"))
    /\ UNCHANGED stream /\ TaskGoes(t, "done")
TaskStep(t) ==
    BackendAnswers(t) \/ BackendFails(t) \/ Start(t) \/ BadStart(t) \/ BadBody(t)
        \/ Chunk(t) \/ End(t) \/ Stop(t)

-----------------------------------------------------------------------------
\* poll_session_output and the heartbeat

\* What one poll sends: what is new, or a form feed and everything.
Delta(session, last) ==
    IF IsPrefix(last, lines[session])
    THEN [kind |-> "output", clear |-> FALSE, lines |-> SubSeq(lines[session], Len(last) + 1, Len(lines[session]))]
    ELSE [kind |-> "output", clear |-> TRUE, lines |-> lines[session]]
Poll ==
    /\ "poller" \in senders /\ loop \notin {"stopped", "saved"}
    /\ IF active = None THEN poll' = [session |-> None, last |-> <<>>] /\ UNCHANGED <<control, senders>>
       ELSE LET last == IF poll.session = active THEN poll.last ELSE <<>>
                m == Delta(active, last)
                seen == [session |-> active, last |-> lines[active]] IN
            IF m.lines = <<>> /\ ~m.clear THEN poll' = seen /\ UNCHANGED <<control, senders>>
            ELSE IF writer /\ Len(control) < ControlCap
            THEN control' = Append(control, m) /\ poll' = seen /\ UNCHANGED senders
            ELSE senders' = senders \ {"poller"} /\ UNCHANGED <<control, poll>>
    /\ UNCHANGED <<proxies, token, file, client, net, sent, left, inbox, loop, active, stream, writer, taskVars, screen, lines>>
\* The status every 30 seconds; a queue that is full or closed ends it.
Beat ==
    /\ "heartbeat" \in senders /\ loop \notin {"stopped", "saved"}
    /\ IF writer /\ Len(control) < ControlCap
       THEN control' = Append(control, [kind |-> "status"]) /\ UNCHANGED senders
       ELSE senders' = senders \ {"heartbeat"} /\ UNCHANGED control
    /\ UNCHANGED <<proxies, token, file, client, net, sent, left, inbox, loop, active, stream, writer, taskVars, outVars>>

-----------------------------------------------------------------------------
\* run_terminal_proxy_session: a task of its own, which no connection waits for.
\* It dials the relay, then the ttyd, and forwards until either side closes.

ProxyGoes(p, at) ==
    /\ proxies' = [proxies EXCEPT ![p] = at]
    /\ UNCHANGED <<token, file, client, net, sent, left, loop, active, control, stream, senders, writer,
                   taskVars, outVars>>
TerminalProxyStart ==
    /\ Received("proxy")
    /\ \E p \in Proxies : proxies[p] = "none" /\ ProxyGoes(p, "fetch")
\* The ttyd's url is asked of the backend before anything is dialled.
ProxyFetches(p) ==
    /\ proxies[p] = "fetch" /\ UNCHANGED inbox
    /\ ProxyGoes(p, "dialRelay") \/ ("backend" \in Faults /\ ProxyGoes(p, "ended"))
ProxyDials(p) ==
    /\ UNCHANGED inbox
    /\ \/ proxies[p] = "dialRelay" /\ ProxyGoes(p, "dialLocal")
       \/ proxies[p] = "dialLocal" /\ ProxyGoes(p, "forward")
       \/ proxies[p] \in {"dialRelay", "dialLocal"} /\ "dial" \in Faults /\ ProxyGoes(p, "ended")
\* The browser's or the ttyd's side closes; the loop passes the close on.
SideCloses(p) == proxies[p] = "forward" /\ UNCHANGED inbox /\ ProxyGoes(p, "closing")
ProxyEnds(p) == proxies[p] = "closing" /\ UNCHANGED inbox /\ ProxyGoes(p, "ended")
ProxyStep(p) == ProxyFetches(p) \/ ProxyDials(p) \/ ProxyEnds(p)

-----------------------------------------------------------------------------
\* The end of a connection

\* The websocket is over, or the check every five seconds finds no token.
Hangup ==
    /\ Loop("select") /\ net = "down" /\ inbox = <<>>
    /\ loop' = "abort" /\ client' = [client EXCEPT !.at = "reconnect"]
    /\ UNCHANGED <<proxies, token, file, net, sent, left, inbox, active, control, stream, senders, writer, taskVars, outVars>>
Exit ==
    /\ Loop("select") /\ ~token
    /\ loop' = "abort" /\ client' = [client EXCEPT !.at = "exit"]
    /\ UNCHANGED <<proxies, token, file, net, sent, left, inbox, active, control, stream, senders, writer, taskVars, outVars>>
\* abort_all_stream_tasks and abort_all.
AbortAll ==
    /\ loop = "abort" /\ loop' = "join"
    /\ tasks' = Aborted(tasks, Running) /\ byId' = <<>> /\ byTask' = <<>>
    /\ UNCHANGED <<proxies, token, file, client, net, sent, left, inbox, active, control, stream, senders, writer, got, outVars>>
\* All of them joined: the senders are dropped and the others told to stop.
Joined(t) == ~Live(t)
DropSenders ==
    /\ loop = "join" /\ (\A t \in Tasks : Joined(t))
    /\ loop' = "stopped" /\ senders' = senders \ {"loop"}
    /\ UNCHANGED <<proxies, token, file, client, net, sent, left, inbox, active, control, stream, writer, taskVars, outVars>>
\* A heartbeat and a poller look at `stop` at their next tick.
Stopped(o) ==
    /\ loop = "stopped" /\ o \in senders \ {"loop"} /\ senders' = senders \ {o}
    /\ UNCHANGED <<proxies, token, file, client, net, sent, left, inbox, loop, active, control, stream, writer, taskVars, outVars>>
SaveEnd ==
    /\ loop = "stopped" /\ senders = {} /\ ~writer
    /\ file' = Kept(file) /\ loop' = "saved"
    /\ UNCHANGED <<proxies, token, client, net, sent, left, inbox, active, control, stream, senders, writer, taskVars, outVars>>
\* The arms of connect(): Exit clears the file and returns, Reconnect starts the
\* back-off again.
Returned ==
    /\ loop = "saved" /\ client.at \in {"exit", "reconnect"}
    /\ loop' = "none" /\ net' = "none"
    /\ IF client.at = "exit" THEN file' = NoFile /\ client' = [client EXCEPT !.at = "ended"]
       ELSE file' = Kept(file) /\ client' = [client EXCEPT !.at = "recheck", !.backoff = 0]
    /\ UNCHANGED <<proxies, token, sent, left, inbox, active, control, stream, senders, writer, taskVars, outVars>>
\* save_state(..)? and load_token()? leave the function from inside the loop: the
\* stream tasks are aborted with their JoinSet, the others live on.
FileFails ==
    /\ Loop("select") /\ "file" \in Faults
    /\ left' = left \cup (senders \ {"loop"})
    /\ loop' = "none" /\ net' = "none" /\ inbox' = <<>> /\ control' = <<>> /\ stream' = <<>>
    /\ senders' = {} /\ writer' = FALSE /\ tasks' = [t \in Tasks |-> NoTask]
    /\ byId' = <<>> /\ byTask' = <<>>
    /\ file' = Kept(file) /\ client' = [client EXCEPT !.at = "recheck"]
    /\ UNCHANGED <<proxies, token, sent, active, got, outVars>>

-----------------------------------------------------------------------------
\* The relay, the backend and the user

Send(m) ==
    /\ net = "up" /\ sent < Messages /\ sent' = sent + 1 /\ inbox' = Append(inbox, m)
    /\ UNCHANGED <<proxies, token, file, client, net, left, loop, active, control, stream, senders, writer, taskVars, outVars>>
RelaySends ==
    \/ \E k \in Kinds \ {"request", "stream", "cancel"} : Send([kind |-> k])
    \/ \E s \in Sessions \cup {None} : "request" \in Kinds /\ Send([kind |-> "request", session |-> s])
    \/ \E k \in Kinds \cap {"stream", "cancel"}, i \in Ids : Send([kind |-> k, id |-> i])
RelayDrops ==
    /\ net = "up" /\ "drop" \in Faults /\ net' = "down"
    /\ UNCHANGED <<proxies, token, file, client, sent, left, connVars, taskVars, outVars>>
\* A session writes a line; the window of 500 lines loses its first.
Writes(s) ==
    /\ \E n \in {1, 2} :
         /\ \E drop \in {0, 1} :
              /\ drop <= Len(lines[s]) /\ Len(lines[s]) < MaxLines
              /\ lines' = [lines EXCEPT ![s] = SubSeq(@, 1 + drop, Len(@)) \o <<n>>]
    /\ UNCHANGED <<proxies, token, file, client, net, sent, left, connVars, taskVars, poll, screen>>
\* clear_token removes both files; another pairing saves a token.
Disconnect ==
    /\ "disconnect" \in Faults /\ client.at # "new" /\ token /\ token' = FALSE /\ file' = NoFile
    /\ UNCHANGED <<proxies, client, net, sent, left, connVars, taskVars, outVars>>
PairAgain ==
    /\ "repair" \in Faults /\ client.at # "new" /\ ~token /\ token' = TRUE
    /\ UNCHANGED <<proxies, file, client, net, sent, left, connVars, taskVars, outVars>>

Next ==
    \/ Begin \/ Leave \/ Refused \/ Open \/ Wait
    \/ Ping \/ ApiRequest \/ PreviewRequest \/ ApiResponse \/ TerminalInput \/ InputPosted
    \/ TerminalProxyStart \/ (\E p \in Proxies : ProxyStep(p) \/ SideCloses(p))
    \/ ApiStreamRequest \/ ApiStreamCancel
    \/ \E t \in Tasks : Join(t) \/ TaskStep(t)
    \/ Write \/ WriterEnds \/ Poll \/ Beat
    \/ Hangup \/ Exit \/ AbortAll \/ DropSenders \/ SaveEnd \/ Returned \/ FileFails
    \/ \E o \in Owners : Stopped(o)
    \/ RelaySends \/ RelayDrops \/ (\E s \in Sessions : Writes(s))
    \/ Disconnect \/ PairAgain
Spec == Init /\ [][Next]_vars
FairSpec ==
    /\ Spec
    /\ WF_vars(Begin) /\ WF_vars(Leave) /\ WF_vars(Wait) /\ WF_vars(ApiResponse) /\ WF_vars(InputPosted)
    /\ WF_vars(Write) /\ SF_vars(control = <<>> /\ Write) /\ WF_vars(WriterEnds) /\ SF_vars(Exit) /\ SF_vars(Hangup)
    /\ WF_vars(AbortAll) /\ WF_vars(DropSenders) /\ WF_vars(SaveEnd) /\ WF_vars(Returned)
    /\ \A t \in Tasks : WF_vars(TaskStep(t)) /\ SF_vars(End(t))
    /\ (\A o \in Owners : WF_vars(Stopped(o))) /\ \A p \in Proxies : WF_vars(ProxyStep(p))

-----------------------------------------------------------------------------
Message ==
    [kind : {"status", "ping", "browse", "answer"}]
      \cup [kind : {"output"}, clear : BOOLEAN, lines : Seq({1, 2})]
TypeOK ==
    /\ token \in BOOLEAN
    /\ file = NoFile \/ file \in [connected : BOOLEAN, session : Sessions \cup {None}]
    /\ client.at \in {"new", "check", "connected", "exit", "reconnect", "recheck", "ended"}
    /\ client.backoff \in 0..MaxBackoff /\ client.conns \in 0..MaxConns
    /\ net \in {"none", "up", "down"} /\ active \in Sessions \cup {None}
    /\ loop \in {"none", "select", "backend", "input", "abort", "join", "stopped", "saved"}
    /\ Len(control) <= ControlCap /\ \A i \in DOMAIN control : control[i] \in Message
    /\ Len(stream) <= StreamCap /\ senders \subseteq Owners /\ left \subseteq Owners
    /\ DOMAIN byId \subseteq Ids /\ DOMAIN byTask \subseteq Tasks

\* A stream that still runs can be cancelled: it is the one the registry holds
\* for its id, however tasks of the same id were replaced, cancelled and joined
\* before (docs/dispatcher-streaming-SPEC.md: a cancel aborts only the matching
\* stream; the registry is two maps that register, remove and join change).
RunningIsRegistered ==
    loop \in {"select", "backend", "input"} =>
      /\ \A t \in Running : ~tasks[t].aborted =>
           /\ t \in DOMAIN byTask /\ byTask[t] = tasks[t].id
           /\ tasks[t].id \in DOMAIN byId /\ byId[tasks[t].id] = t
      /\ \A i \in DOMAIN byId : byId[i] \in DOMAIN byTask /\ byTask[byId[i]] = i

\* What the relay receives of a stream is a start, chunks and an end, in this
\* order, whatever is in the queues at a cancel or at the end of a connection.
Sofar(t) == got[t] \o SelectSeq([i \in DOMAIN stream |-> IF stream[i].task = t THEN stream[i].kind ELSE None],
                               LAMBDA k : k # None)
WellFormed(q) ==
    \A i \in DOMAIN q :
      /\ (q[i] = "start") <=> (i = 1)
      /\ q[i] = "end" => i = Len(q)
StreamsWellFormed == \A t \in Tasks : WellFormed(Sofar(t))
\* A task that nobody aborted ends its stream, and an id has one such task.
EndedWhole ==
    loop \in {"select", "backend", "input"} /\ writer =>
      \A t \in Tasks :
        tasks[t].at = "done" /\ ~tasks[t].aborted => Sofar(t) # <<>> /\ Last(Sofar(t)) = "end"

\* Of an earlier connection nothing is at work when the next is made, and
\* nothing at all when the process has ended.
NothingLeft ==
    /\ loop = "none" => senders = {} /\ Running = {} /\ ~writer
    /\ left = {}

\* A disconnected bridge keeps no state file, and `bridge status` calls nothing
\* connected that is not: the file says so only while a connection is there.
StatusIsTrue ==
    /\ client.at = "ended" => file = NoFile
    /\ file # NoFile /\ file.connected => client.at \in {"connected", "exit", "reconnect"}

\* A browser that has read everything shows what the poller last read, while
\* the bridge follows one session and no message was too large.
ScreenIsLast ==
    net = "up" /\ writer /\ control = <<>> /\ poll.session # None => screen = poll.last

\* A terminal proxy is set up or given up, and ends when one side has closed.
ProxiesEnd ==
    \A p \in Proxies : (proxies[p] # "none") ~> (proxies[p] \in {"forward", "ended"})
\* A bridge whose token is removed ends, unless it is paired again, and a stream
\* that is not aborted reaches its end while the websocket is up.
DisconnectEnds == (client.at # "new" /\ ~token) ~> (token \/ client.at = "ended")
StreamsEnd ==
    \A t \in Tasks :
      (Live(t) /\ client.at = "connected")
        ~> (tasks[t].aborted \/ net # "up" \/ client.at # "connected"
              \/ (got[t] # <<>> /\ Last(got[t]) = "end"))
=============================================================================
