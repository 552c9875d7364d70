---------------------------- MODULE OpenClawTurn ----------------------------
(***************************************************************************)
(* A turn of an OpenClaw agent                                             *)
(* (crates/conductor-executors/src/agents/openclaw.rs).  The executor has   *)
(* no process: a task dials the gateway, answers its challenge with the     *)
(* device identity it shares with every other turn through one file, sends  *)
(* the prompt and turns the gateway's events into output, until the run is  *)
(* over, the turn is killed or its time is up.  A device that is not paired *)
(* yet is approved with the shared secret, and the turn tried once more.    *)
(*                                                                         *)
(* The gateway is the environment.  Text is a sequence of numbered pieces;  *)
(* a snapshot of n is the text of the first n.                             *)
(* Bounded: MaxFrames events of a run, the Turns.                           *)
(***************************************************************************)
EXTENDS Naturals, Sequences, FiniteSets, SequencesExt

CONSTANTS
    Turns,          \* 1..n; a turn's device, when it makes one, has its number
    KeyOf,          \* what a turn's token is kept under: gateway, role and scopes
    EnvOf,          \* card, project and session of a turn, "" if it has none
    Secret,         \* whether a token or a password is configured
    Deadline,       \* whether the turn has a time-out
    MaxFrames,      \* events the gateway sends of a run
    Overlapping,    \* whether turns run side by side
    Paired,         \* whether the gateway knows each device from the start
    Faults          \* what goes wrong: see FaultNames
None == 0
FaultNames == {"dial", "drop", "reject", "read", "save", "torn", "chatty", "pair"}
TurnAssumption ==
    /\ Turns \subseteq Nat \ {None} /\ Faults \subseteq FaultNames /\ MaxFrames \in Nat
    /\ DOMAIN KeyOf = Turns /\ DOMAIN EnvOf = Turns

VARIABLES
    identity,   \* device-auth.json: the device, None if there is none in it, and its tokens
    paired,     \* the devices the gateway has approved
    pending,    \* the devices that asked to be paired, in order
    turn,       \* of each turn: at, the try, the identity it read, its outcome, whether
                \* its websocket broke with a run behind it
    kill,       \* the kill channel of the handle: "open", "sent"
    run,        \* the run at the gateway: state, session, events sent, pieces of text
    wire,       \* events of the gateway the turn has not read
    out         \* what the turn has put out
vars == <<identity, paired, pending, turn, kill, run, wire, out>>

NoIdentity == [device |-> None, tokens |-> {}]
Running == {t \in Turns : turn[t].at \notin {"new", "done"}}
Init ==
    /\ identity = NoIdentity /\ paired = (IF Paired THEN Turns ELSE {}) /\ pending = <<>>
    /\ turn = [t \in Turns |-> [at |-> "new", try |-> 1, own |-> NoIdentity, named |-> FALSE,
                           outcome |-> "none", lost |-> FALSE]]
    /\ kill = [t \in Turns |-> "open"]
    /\ run = [t \in Turns |-> [state |-> "none", key |-> <<>>, sent |-> 0, text |-> 0]]
    /\ wire = [t \in Turns |-> <<>>] /\ out = [t \in Turns |-> <<>>]

\* resolve_session_key: a card has one gateway session whatever session works
\* on it, anything else one for its session.
Named(parts) == SelectSeq(parts, LAMBDA x : x # "")
SessionKey(e) ==
    IF e.card # "" THEN <<"conductor", "card">> \o Named(<<e.project, e.card>>)
    ELSE <<"conductor">> \o Named(<<e.project>>) \o <<IF e.session = "" THEN "session" ELSE e.session>>

At(t, S) == turn[t].at \in S
Goes(t, at) ==
    /\ turn' = [turn EXCEPT ![t].at = at]
    /\ UNCHANGED <<identity, paired, pending, kill, run, wire, out>>
Fails(t, outcome) ==
    /\ turn' = [turn EXCEPT ![t].at = "over", ![t].outcome = outcome]
    /\ UNCHANGED <<identity, paired, pending, kill, run, wire, out>>

-----------------------------------------------------------------------------
\* run_openclaw_turn_inner: the handshake.  Nothing here looks at the kill
\* channel; each wait for a frame has a time-out of its own.

Begin(t) == At(t, {"new"}) /\ (Overlapping \/ Running = {}) /\ Goes(t, "dial")
Dial(t) ==
    /\ At(t, {"dial"})
    /\ Goes(t, "challenge") \/ ("dial" \in Faults /\ \E o \in {"failed", "timeout"} : Fails(t, o))
Challenge(t) ==
    /\ At(t, {"challenge"})
    /\ Goes(t, "load") \/ ("drop" \in Faults /\ Fails(t, "failed"))
\* load_or_create_device_identity: what the file says, or a new device when it
\* cannot be read or says nothing.  fs::write empties the file first: a write that
\* fails may leave it so.
Read == {identity} \cup {NoIdentity : f \in Faults \cap {"read"}}
Load(t) ==
    /\ At(t, {"load"})
    /\ \E was \in Read :
         turn' = [turn EXCEPT ![t].own = IF was = NoIdentity THEN [device |-> t, tokens |-> {}] ELSE was,
                              ![t].at = IF was = NoIdentity THEN "create" ELSE "connect"]
    /\ UNCHANGED <<identity, paired, pending, kill, run, wire, out>>
FailedSave == {identity : f \in Faults \cap {"save"}} \cup {NoIdentity : f \in Faults \cap {"torn"}}
Create(t) ==
    /\ At(t, {"create"})
    /\ \/ identity' = turn[t].own /\ turn' = [turn EXCEPT ![t].at = "connect"]
       \/ identity' \in FailedSave /\ turn' = [turn EXCEPT ![t].at = "over", ![t].outcome = "failed"]
    /\ UNCHANGED <<paired, pending, kill, run, wire, out>>
\* wait_for_connect_response: events and answers to others are skipped.
Skipped(t) == At(t, {"connect"}) /\ "chatty" \in Faults /\ UNCHANGED vars
Welcome(t) ==
    /\ At(t, {"connect"}) /\ turn[t].own.device \in paired
    /\ \E granted \in BOOLEAN :
         turn' = [turn EXCEPT ![t].at = IF granted THEN "token" ELSE "send"]
    /\ UNCHANGED <<identity, paired, pending, kill, run, wire, out>>
Refusal(t) ==
    /\ At(t, {"connect"})
    /\ \/ /\ turn[t].own.device \notin paired
          /\ pending' = Append(SelectSeq(pending, LAMBDA d : d # turn[t].own.device), turn[t].own.device)
          /\ \E named \in BOOLEAN :
               turn' = [turn EXCEPT ![t].at = "refused", ![t].outcome = "pairing", ![t].named = named]
          /\ UNCHANGED <<identity, paired, kill, run, wire, out>>
       \/ "reject" \in Faults /\ Fails(t, "failed")
       \/ "drop" \in Faults /\ Fails(t, "failed")
\* The device token of the hello is added to the identity that was read, and
\* that identity written over the file; a failed write is only logged.
Token(t) ==
    /\ At(t, {"token"})
    /\ LET own == [turn[t].own EXCEPT !.tokens = @ \cup {KeyOf[t]}] IN
         /\ turn' = [turn EXCEPT ![t].own = own, ![t].at = "send"]
         /\ identity' \in {own} \cup FailedSave
    /\ UNCHANGED <<paired, pending, kill, run, wire, out>>
\* chat.send, which starts the run; one that fails may have reached the gateway.
Started(t) == [run EXCEPT ![t] = [state |-> "running", key |-> SessionKey(EnvOf[t]), sent |-> 0, text |-> 0]]
Send(t) ==
    /\ At(t, {"send"})
    /\ \/ run' = Started(t) /\ turn' = [turn EXCEPT ![t].at = "loop"]
       \/ /\ "drop" \in Faults /\ run' \in {run, Started(t)}
          /\ turn' = [turn EXCEPT ![t].at = "over", ![t].outcome = "failed", ![t].lost = TRUE]
    /\ UNCHANGED <<identity, paired, pending, kill, wire, out>>

-----------------------------------------------------------------------------
\* The loop: the kill channel, the deadline and the gateway's frames

\* send_abort tells the gateway to end the run the turn gives up; nobody looks
\* whether that could be sent.
LeftRunning(r) == r
Abort(r) == IF r.state = "running" THEN [r EXCEPT !.state = "aborting"] ELSE r
Cancel(t, outcome) ==
    /\ \E lost \in {FALSE} \cup {TRUE : f \in Faults \cap {"drop"}} :
         /\ run' = IF lost THEN run ELSE [run EXCEPT ![t] = Abort(@)]
         /\ turn' = [turn EXCEPT ![t].at = "over", ![t].outcome = outcome, ![t].lost = lost]
    /\ UNCHANGED <<identity, paired, pending, kill, wire, out>>
\* The second try listens to a channel whose sender is gone, which reads as a
\* kill at once.
KillSeen(t) == At(t, {"loop"}) /\ (kill[t] = "sent" \/ turn[t].try = 2) /\ Cancel(t, "killed")
TimeUp(t) == At(t, {"loop"}) /\ Deadline /\ Cancel(t, "timeout")

\* phase_to_tool_status
ToolStatus(phase) ==
    CASE phase \in {"result", "end"} -> "success" [] phase = "error" -> "error" [] OTHER -> "running"
\* convert_chat_event, convert_agent_event and convert_heartbeat_event: what is
\* put out for an event; an event of another run is none of this turn's.
Ours(t, f) == f.of = t
Said(t, f, kind) == IF f.text = None THEN <<>> ELSE <<[kind |-> kind, text |-> f.text, of |-> f.of]>>
Converted(t, f) ==
    CASE f.kind = "heartbeat" -> <<[kind |-> "status", text |-> None, of |-> t]>>
      [] ~Ours(t, f) -> <<>>
      [] f.kind = "delta" -> Said(t, f, "delta")
      [] f.kind \in {"message", "final"} -> Said(t, f, "snapshot")
      [] f.kind = "tool" -> <<[kind |-> ToolStatus(f.phase), text |-> None, of |-> f.of]>>
      [] OTHER -> <<>>
\* handle_runtime_frame
Frame(t) ==
    /\ At(t, {"loop"}) /\ wire[t] # <<>>
    /\ LET f == Head(wire[t]) IN
         /\ out' = [out EXCEPT ![t] = @ \o Converted(t, f)]
         /\ turn' = IF Ours(t, f) /\ f.kind \in {"final", "error", "aborted", "refused"}
                    THEN [turn EXCEPT ![t].at = "over",
                                      ![t].outcome = CASE f.kind = "final" -> "completed"
                                                       [] f.kind = "aborted" -> "aborted"
                                                       [] OTHER -> "failed"]
                    ELSE turn
    /\ wire' = [wire EXCEPT ![t] = Tail(@)]
    /\ UNCHANGED <<identity, paired, pending, kill, run>>
\* The websocket is over before the run is.
Lost(t) ==
    /\ At(t, {"loop"}) /\ "drop" \in Faults
    /\ turn' = [turn EXCEPT ![t].at = "over", ![t].outcome = "failed", ![t].lost = TRUE]
    /\ UNCHANGED <<identity, paired, pending, kill, run, wire, out>>

-----------------------------------------------------------------------------
\* run_openclaw_turn: auto_approve_device_pairing and the second try

Refused(t) ==
    /\ At(t, {"refused"})
    /\ IF Secret /\ turn[t].try = 1 THEN Goes(t, "approve") ELSE Fails(t, "failed")
\* The request the refusal named, or the last of the list, with a connection of
\* its own that may fail at any of its steps.
Approve(t) ==
    /\ At(t, {"approve"})
    /\ \/ /\ pending # <<>>
          /\ LET d == IF turn[t].named THEN turn[t].own.device ELSE Last(pending) IN
               /\ paired' = paired \cup {d} /\ pending' = SelectSeq(pending, LAMBDA x : x # d)
          /\ turn' = [turn EXCEPT ![t].at = "dial", ![t].try = 2, ![t].outcome = "none"]
          /\ UNCHANGED <<identity, kill, run, wire, out>>
       \/ (pending = <<>> \/ "pair" \in Faults) /\ Fails(t, "failed")
\* The outcome is put out, after everything else.
Finish(t) ==
    /\ At(t, {"over"})
    /\ out' = [out EXCEPT ![t] = Append(@, [kind |-> turn[t].outcome, text |-> None, of |-> t])]
    /\ turn' = [turn EXCEPT ![t].at = "done"]
    /\ UNCHANGED <<identity, paired, pending, kill, run, wire>>

-----------------------------------------------------------------------------
\* The gateway and whoever holds the handle

\* Events of the run: a piece of text, or a message with all of it (a delta that
\* replaces, or of an older gateway) or with none, tools, heartbeats, and those of
\* a run that another client of the session started.
Emit(t, f) == wire' = IF turn[t].lost THEN wire ELSE [wire EXCEPT ![t] = Append(@, f)]
GatewayEmits(t) ==
    /\ run[t].state = "running" /\ run[t].sent < MaxFrames
    /\ \/ \E kind \in {"delta", "message"} :
            /\ Emit(t, [kind |-> kind, of |-> t, text |-> run[t].text + 1])
            /\ run' = [run EXCEPT ![t].sent = @ + 1, ![t].text = @ + 1]
       \/ /\ \/ Emit(t, [kind |-> "delta", of |-> None, text |-> 1])
             \/ Emit(t, [kind |-> "message", of |-> t, text |-> None])
             \/ Emit(t, [kind |-> "heartbeat", of |-> t, text |-> None])
             \/ \E phase \in {"start", "result", "error"} :
                  Emit(t, [kind |-> "tool", of |-> t, text |-> None, phase |-> phase])
          /\ run' = [run EXCEPT ![t].sent = @ + 1]
    /\ UNCHANGED <<identity, paired, pending, turn, kill, out>>
\* A final message has the whole text or none.
GatewayEnds(t) ==
    /\ run[t].state \in {"running", "aborting"}
    /\ \E k \in IF run[t].state = "aborting" THEN {"aborted"} ELSE {"final", "error", "refused"} :
       \E text \in {run[t].text, None} :
         /\ Emit(t, [kind |-> k, of |-> t, text |-> text])
         /\ run' = [run EXCEPT ![t].state = k]
    /\ UNCHANGED <<identity, paired, pending, turn, kill, out>>
Kill(t) ==
    /\ ~At(t, {"new", "done"}) /\ kill[t] = "open" /\ kill' = [kill EXCEPT ![t] = "sent"]
    /\ UNCHANGED <<identity, paired, pending, turn, run, wire, out>>

TurnStep(t) ==
    \/ Dial(t) \/ Challenge(t) \/ Load(t) \/ Create(t) \/ Welcome(t) \/ Refusal(t) \/ Token(t)
    \/ Send(t) \/ KillSeen(t) \/ TimeUp(t) \/ Frame(t) \/ Lost(t) \/ Refused(t) \/ Approve(t) \/ Finish(t)
Next == \E t \in Turns :
    Begin(t) \/ TurnStep(t) \/ Skipped(t) \/ GatewayEmits(t) \/ GatewayEnds(t) \/ Kill(t)
Spec == Init /\ [][Next]_vars
FairSpec == Spec /\ \A t \in Turns : WF_vars(Begin(t)) /\ WF_vars(TurnStep(t)) /\ WF_vars(GatewayEnds(t))

-----------------------------------------------------------------------------
Ends == {"completed", "failed", "killed", "timeout", "aborted"}
TypeOK ==
    /\ identity.device \in Turns \cup {None} /\ paired \subseteq Turns
    /\ \A t \in Turns :
         /\ turn[t].try \in 1..2 /\ turn[t].outcome \in Ends \cup {"none", "pairing"}
         /\ turn[t].own.device \in Turns \cup {None}
         /\ run[t].state \in {"none", "running", "aborting", "aborted", "final", "error", "refused"}
\* No run goes on at the gateway for a turn that has ended, unless its websocket
\* broke: a killed turn and one whose time is up abort theirs.
NoRunLeft == \A t \in Turns : At(t, {"over", "done"}) /\ run[t].state = "running" => turn[t].lost
\* The text of a turn is that of its own run, in the gateway's order, and whole when
\* it is completed, in pieces or in a later message that has them, also when other
\* clients' runs of the session are told in between; its outcome comes last.
Text(t) == SelectSeq(out[t], LAMBDA o : o.kind \in {"delta", "snapshot"})
OwnTextInOrder ==
    \A t \in Turns :
      /\ \A i \in DOMAIN out[t] : out[t][i].of = t
      /\ \A i, j \in DOMAIN Text(t) : i < j =>
            IF Text(t)[j].kind = "delta" THEN Text(t)[i].text < Text(t)[j].text ELSE Text(t)[i].text <= Text(t)[j].text
      /\ \A i \in DOMAIN out[t] : out[t][i].kind \in Ends => i = Len(out[t])
      /\ At(t, {"done"}) /\ turn[t].outcome = "completed" =>
           \A n \in 1..run[t].text : \E i \in DOMAIN Text(t) :
              Text(t)[i].text = n \/ (Text(t)[i].kind = "snapshot" /\ Text(t)[i].text > n)
\* The comment at the retry calls a dead kill channel acceptable: the retried
\* turn cannot be killed.  A turn is killed only when somebody asks for it.
KilledOnlyIfAsked == \A t \in Turns : turn[t].outcome = "killed" => kill[t] = "sent"
\* The device of this machine and its tokens stay what they are while turns run
\* one after the other and its file can be read and written whole: whatever was
\* approved is not lost, and one device is ever approved.
KeepsIdentity ==
    identity # NoIdentity =>
         identity'.device = identity.device /\ identity.tokens \subseteq identity'.tokens
OneDevice == paired \subseteq {identity.device}
IdentityKept == [][KeepsIdentity]_vars
\* A turn ends, and in particular a killed one, unless the gateway keeps talking
\* to a client it does not answer.
TurnEnds == \A t \in Turns : (~At(t, {"new"})) ~> At(t, {"done"})
=============================================================================
