---------------------------- MODULE CodexAppServer ----------------------------
(***************************************************************************)
(* One Codex turn over `codex app-server --stdio`                          *)
(* (conductor-executors/src/agents/codex/app_server.rs) and the fall back  *)
(* to the older transport (agents/codex.rs).                               *)
(*                                                                         *)
(* Three parties: the caller of spawn, which waits for the handshake; the  *)
(* task run_app_server, whose select takes one event at a time; and the    *)
(* app-server, which does what its protocol allows, or fails.              *)
(***************************************************************************)
EXTENDS Naturals, Sequences, FiniteSets, SequencesExt

CONSTANTS
    Messages,     \* agent messages of the turn
    Faults        \* what may go wrong

FaultNames == {"slow",        \* the handshake takes longer than the caller waits
               "exit",        \* the app-server exits by itself
               "refuse",      \* it answers a request with an error
               "ask",         \* it asks for something Conductor cannot answer
               "garbage",     \* it writes a line that is not JSON
               "complain",    \* it sends an error notification
               "timeout",     \* the turn takes longer than allowed
               "kill",        \* the turn is interrupted
               "drop"}        \* the handle is dropped

FaultsAssumption == Faults \subseteq FaultNames

VARIABLES
    server,       \* the app-server: how far it is, whether it runs, what it has said
    toServer,     \* lines on its input
    lines,        \* lines on its output
    client,       \* run_app_server: runs, stdin, stdoutOpen, ended, shutdown
    deltas,       \* delta_message_ids
    anonymous,    \* anonymous_agent_message_delta_received
    out,          \* what was sent to the consumer
    handshake,    \* "open", "ok", "failed"
    caller,       \* "waits", "runs" or "legacy"
    kill          \* the kill sender: "open", "sent", "dropped", "seen"

vars == <<server, toServer, lines, client, deltas, anonymous, out, handshake, caller, kill>>
parties == <<server, caller, kill>>

-----------------------------------------------------------------------------
Reply(id) == [kind |-> "reply", id |-> id]
Refusal(id) == [kind |-> "refusal", id |-> id]
Delta(m, named) == [kind |-> "delta", msg |-> m, named |-> named]
Final(m) == [kind |-> "final", msg |-> m]             \* item/completed of an agentMessage
Turn(status) == [kind |-> "turn", status |-> status]  \* turn/completed
Plain(kind) == [kind |-> kind]
Text(m) == [kind |-> "text", msg |-> m]
End(why) == [kind |-> "end", why |-> why]

Ends == {i \in 1..Len(out) : out[i].kind = "end"}
Finished == Ends # {}                                  \* terminal_emitted

Init ==
    /\ server = [at |-> "boot", up |-> TRUE, open |-> {}, said |-> {}, style |-> "none"]
    /\ toServer = <<"initialize">> /\ lines = <<>>
    /\ client = [runs |-> TRUE, stdin |-> TRUE, stdout |-> TRUE, shutdown |-> FALSE]
    /\ deltas = {} /\ anonymous = FALSE
    /\ out = <<>>
    /\ handshake = "open" /\ caller = "waits" /\ kill = "open"

-----------------------------------------------------------------------------
\* The app-server

Says(line) == lines' = Append(lines, line)
Rest == <<client, deltas, anonymous, out, handshake, caller, kill>>

\* It answers what it reads: initialize, the thread's start, the turn's start.
Answer ==
    /\ server.up /\ toServer # <<>>
    /\ toServer' = Tail(toServer)
    /\ LET to == CASE Head(toServer) = "initialize" -> [at |-> "inited", id |-> 1]
                   [] Head(toServer) = "thread" -> [at |-> "threaded", id |-> 2]
                   [] Head(toServer) = "turn" -> [at |-> "turn", id |-> 3]
                   [] OTHER -> [at |-> server.at, id |-> 0] IN
       IF to.id = 0 THEN UNCHANGED <<server, lines>>
       ELSE \/ server' = [server EXCEPT !.at = to.at] /\ Says(Reply(to.id))
            \/ "refuse" \in Faults /\ Says(Refusal(to.id)) /\ UNCHANGED server
    /\ UNCHANGED Rest

\* A message comes in pieces with its id, in pieces without, or whole; those
\* without an id come one message at a time.
Speak(m) ==
    /\ server.up /\ server.at = "turn" /\ m \notin server.open \cup server.said
    /\ \E style \in {"named", "anonymous"} :
          /\ style = "anonymous" => server.open = {}
          /\ server.style = "anonymous" => server.open = {}
          /\ server' = [server EXCEPT !.open = @ \cup {m}, !.style = style]
          /\ Says(Delta(m, style = "named"))
    /\ UNCHANGED <<toServer, Rest>>

Finish(m) ==
    /\ server.up /\ server.at = "turn" /\ m \notin server.said
    /\ m \in server.open \/ server.style # "anonymous" \/ server.open = {}
    /\ server' = [server EXCEPT !.open = @ \ {m}, !.said = @ \cup {m}]
    /\ Says(Final(m))
    /\ UNCHANGED <<toServer, Rest>>

FinishTurn ==
    /\ server.up /\ server.at = "turn" /\ server.open = {}
    /\ server' = [server EXCEPT !.at = "finished"]
    /\ \E status \in {"completed", "failed"} : Says(Turn(status))
    /\ UNCHANGED <<toServer, Rest>>

Misbehave ==
    /\ server.up /\ server.at # "finished"
    /\ \E kind \in {"ask", "garbage", "complain"} \cap Faults : Says(Plain(kind))
    /\ server' = [server EXCEPT !.at = "finished"]
    /\ UNCHANGED <<toServer, Rest>>

\* It exits when its input is closed, or by itself.
Exit ==
    /\ server.up /\ ("exit" \in Faults \/ (~client.stdin /\ toServer = <<>>))
    /\ server' = [server EXCEPT !.up = FALSE]
    /\ UNCHANGED <<toServer, lines, Rest>>

-----------------------------------------------------------------------------
\* run_app_server

Write(msgs) == client.stdin /\ server.up /\ toServer' = toServer \o msgs
CannotWrite == ~client.stdin \/ ~server.up

\* The oneshot of the handshake is answered once.
Shake(how) == handshake' = IF handshake = "open" THEN how ELSE handshake

\* Mutants: the end is reported again; it is not reported.
EmittedAgain(why) == Append(out, End(why))
\* emit_failed
Emitted(why) == IF Finished THEN out ELSE Append(out, End(why))

Terminated == server' = [server EXCEPT !.up = FALSE]

\* Every way a turn can fail: the handshake, the end, the input, the process.
Fail(why) ==
    /\ Shake("failed")
    /\ out' = Emitted(why)
    /\ client' = [client EXCEPT !.runs = FALSE, !.stdin = FALSE]
    /\ Terminated
    /\ UNCHANGED <<toServer, deltas, anonymous, caller, kill>>

NextLine == lines' = Tail(lines)
HandleReply(m) ==
    \/ /\ m.id = 1 /\ Write(<<"initialized", "thread">>) /\ UNCHANGED <<out, handshake>>
    \/ /\ m.id = 2 /\ Write(<<"turn">>) /\ out' = Append(out, Plain("started"))
       /\ UNCHANGED handshake
    \/ /\ m.id = 3 /\ Shake("ok") /\ UNCHANGED <<out, toServer>>

SawDeltas(m) == m \in deltas \/ anonymous

HandleDelta(m) ==
    /\ deltas' = IF m.named THEN deltas \cup {m.msg} ELSE deltas
    /\ anonymous' = (anonymous \/ ~m.named)
    /\ out' = Append(out, m)

\* The flag of nameless deltas is taken only when the id is not among the named.
HandleFinal(m) ==
    /\ deltas' = deltas \ {m.msg}
    /\ anonymous' = (anonymous /\ m.msg \in deltas)
    /\ out' = IF SawDeltas(m.msg) THEN out ELSE Append(out, Text(m.msg))

HandleTurn(m) ==
    /\ out' = Emitted(m.status)
    /\ client' = [client EXCEPT !.stdin = FALSE, !.shutdown = TRUE]

Handle ==
    /\ client.runs /\ client.stdout /\ lines # <<>> /\ NextLine
    /\ LET m == Head(lines) IN
       \/ /\ m.kind = "reply" /\ HandleReply(m)
          /\ UNCHANGED <<client, deltas, anonymous, parties>>
       \/ /\ m.kind = "delta" /\ HandleDelta(m)
          /\ UNCHANGED <<client, toServer, handshake, parties>>
       \/ /\ m.kind = "final" /\ HandleFinal(m)
          /\ UNCHANGED <<client, toServer, handshake, parties>>
       \/ /\ m.kind = "turn" /\ HandleTurn(m)
          /\ UNCHANGED <<toServer, deltas, anonymous, handshake, parties>>
       \/ /\ \/ m.kind \in {"refusal", "garbage", "complain", "ask"}
             \/ m.kind = "reply" /\ m.id < 3 /\ CannotWrite
          /\ Fail("error")

EndOfLines ==
    /\ client.runs /\ client.stdout /\ lines = <<>> /\ ~server.up
    /\ client' = [client EXCEPT !.stdout = FALSE]
    /\ UNCHANGED <<server, toServer, lines, deltas, anonymous, out, handshake, caller, kill>>

SeeKill ==
    /\ client.runs /\ kill = "sent" /\ Fail("killed") /\ UNCHANGED lines

SeeDrop ==
    /\ client.runs /\ kill = "dropped" /\ kill' = "seen"
    /\ UNCHANGED <<server, toServer, lines, client, deltas, anonymous, out, handshake, caller>>

TimeOut ==
    /\ "timeout" \in Faults /\ client.runs /\ ~Finished /\ Fail("timeout") /\ UNCHANGED lines

\* SHUTDOWN_GRACE after the turn.
ShutDown ==
    /\ client.runs /\ client.shutdown
    /\ client' = [client EXCEPT !.runs = FALSE]
    /\ Terminated
    /\ UNCHANGED <<toServer, lines, deltas, anonymous, out, handshake, caller, kill>>

\* The poll of the child, every 25 ms.
SeeExit ==
    /\ client.runs /\ ~server.up /\ Fail("exited") /\ UNCHANGED lines

-----------------------------------------------------------------------------
\* spawn, and whoever holds its handle

Await ==
    /\ caller = "waits"
    /\ \/ handshake = "ok" /\ caller' = "runs" /\ UNCHANGED kill
       \/ /\ handshake = "failed" \/ "slow" \in Faults
          /\ caller' = "legacy" /\ kill' = "sent"
    /\ UNCHANGED <<server, toServer, lines, client, deltas, anonymous, out, handshake>>

Kill ==
    /\ caller = "runs" /\ kill = "open"
    /\ \/ "kill" \in Faults /\ kill' = "sent"
       \/ "drop" \in Faults /\ kill' = "dropped"
    /\ UNCHANGED <<server, toServer, lines, client, deltas, anonymous, out, handshake, caller>>

Next ==
    \/ Answer \/ FinishTurn \/ Misbehave \/ Exit
    \/ \E m \in Messages : Speak(m) \/ Finish(m)
    \/ Handle \/ EndOfLines \/ SeeKill \/ SeeDrop \/ TimeOut \/ ShutDown \/ SeeExit
    \/ Await \/ Kill

Spec == Init /\ [][Next]_vars

\* The client's loop is scheduled and its select is fair among what is ready;
\* the caller's timer fires when nothing else does; nothing is asked of the server.
FairSpec ==
    /\ Spec
    /\ WF_vars(Handle) /\ WF_vars(EndOfLines) /\ WF_vars(ShutDown) /\ WF_vars(SeeExit)
    /\ SF_vars(SeeKill) /\ WF_vars(Await)

-----------------------------------------------------------------------------
\* Every variable has its type.
TypeOK ==
    /\ server.at \in {"boot", "inited", "threaded", "turn", "finished"}
    /\ server.open \subseteq Messages /\ server.said \subseteq Messages
    /\ deltas \subseteq Messages /\ anonymous \in BOOLEAN
    /\ client \in [runs : BOOLEAN, stdin : BOOLEAN, stdout : BOOLEAN, shutdown : BOOLEAN]
    /\ handshake \in {"open", "ok", "failed"} /\ caller \in {"waits", "runs", "legacy"}
    /\ kill \in {"open", "sent", "dropped", "seen"}
    /\ caller = "runs" => handshake = "ok"

\* A turn ends once, whatever ends it and whatever ends it afterwards: the end of
\* a turn that is reported twice would end the next one.
EndsOnce == Cardinality(Ends) <= 1

\* When the client's task is over the end of the turn was reported, and the
\* app-server does not live on.
DoneIsReported == ~client.runs => Finished /\ ~server.up /\ handshake # "open"

\* What the agent said is shown once: in pieces or whole, not both, and nothing of
\* it is lost although pieces of messages may be interleaved and nameless.
Shown(m, kind) == \E i \in 1..Len(out) : out[i].kind = kind /\ out[i].msg = m
EachMessageOnce ==
    \A m \in Messages :
        /\ ~(Shown(m, "delta") /\ Shown(m, "text"))
        /\ m \in server.said /\ Finished /\ out[Len(out)] = End("completed")
             => Shown(m, "delta") \/ Shown(m, "text")

\* An app-server whose handshake failed does not live on beside its replacement,
\* nor does one whose turn is over.
NobodyLivesOn == (caller = "legacy" \/ Finished) ~> ~server.up

\* "Failed before the turn started; falling back": the older transport gets the
\* prompt only when the app-server has not begun with it.
FallsBackBeforeTurn == caller = "legacy" => server.at \notin {"turn", "finished"}
=============================================================================
