------------------------------- MODULE AcpPrompts -------------------------------
(***************************************************************************)
(* The ACP server on standard input and output                             *)
(* (conductor-server/src/acp.rs): prompts for one session, each in a task  *)
(* of its own, that poll the dispatcher thread and stream what it gains,   *)
(* while cancels, turns sent from elsewhere and the agent go on.           *)
(*                                                                         *)
(* The thread is what this server sees of it: its status, its approval     *)
(* state and its conversation. A message only grows; the entry of a tool   *)
(* call is replaced as the call goes on. How a turn is started is          *)
(* DispatcherThreads.                                                      *)
(***************************************************************************)
EXTENDS Naturals, Sequences, FiniteSets, SequencesExt

CONSTANTS
    Prompts,      \* session/prompt requests
    Cancels,      \* session/cancel notifications
    Others,       \* turns sent by another client (dashboard)
    MaxEntries,   \* entries of the conversation
    MaxText,      \* pieces of text of an entry
    Deletable     \* whether the thread may be deleted

AcpAssumption == MaxEntries \in Nat /\ MaxText \in Nat \ {0} /\ Deletable \in BOOLEAN

VARIABLES
    thread,       \* status, approval state and conversation
    agent,        \* whose turn the agent works on, or None
    killed,       \* it was told to stop
    at,           \* requests: where
    asks,         \* prompts: whether their message asks for a plan only
    copy,         \* prompts: the record they read
    inFlight,     \* in_flight_prompts: the prompt, or None
    flag,         \* prompts: cancel_flag
    sent,         \* prompts: the cursor's sent_lengths
    announced,    \* prompts: the cursor's announced_tool_calls
    open,         \* prompts: the cursor's open_tool_call_id
    card,         \* prompts: what the client was last told of a tool call, by entry
    reason,       \* prompts: the stop reason
    answer        \* prompts: what was answered

vars == <<thread, agent, killed, at, asks, copy, inFlight, flag, sent, announced, open, card, reason, answer>>
None == "none"
Turns == Prompts \cup Others
There == thread.status # "gone"
\* An entry of the conversation; `runs` is the toolStatus of a tool call.
Entry(kind) == [kind |-> kind, len |-> 1, runs |-> kind = "tool"]
\* The entries of the turn: those after the last message of a user.
OfTurn(t) == {i \in DOMAIN t.entries : \A j \in i..Len(t.entries) : t.entries[j].kind # "user"}

NothingSent == [i \in 1..MaxEntries |-> 0]

Init ==
    /\ thread = [status |-> "Idle", asks |-> FALSE, entries |-> <<>>]
    /\ agent = None /\ killed = FALSE
    /\ at = [x \in Turns \cup Cancels |-> "new"]
    /\ asks = [p \in Prompts |-> FALSE]
    /\ copy = [p \in Prompts |-> None]
    /\ inFlight = None /\ flag = [p \in Prompts |-> FALSE]
    /\ sent = [p \in Prompts |-> NothingSent]
    /\ open = [p \in Prompts |-> 0] /\ announced = [p \in Prompts |-> {}]
    /\ card = [p \in Prompts |-> [i \in 1..MaxEntries |-> None]]
    /\ reason = [p \in Prompts |-> None] /\ answer = reason

Go(x, where) == at' = [at EXCEPT ![x] = where]
Fail(p) == Go(p, "leave") /\ reason' = [reason EXCEPT ![p] = "error"]

-----------------------------------------------------------------------------
\* The dispatcher thread

\* send_to_dispatcher_thread: an agent that takes a process per turn takes one.
CanSend == There /\ agent = None /\ Len(thread.entries) < MaxEntries
Sent(x, plan) ==
    /\ agent' = x /\ killed' = FALSE
    /\ thread' = [thread EXCEPT !.status = "Working", !.asks = plan,
                                !.entries = Append(@, Entry("user"))]

SendOther(x) ==
    /\ at[x] = "new" /\ CanSend
    /\ \E plan \in BOOLEAN : Sent(x, plan)
    /\ Go(x, "done")
    /\ UNCHANGED <<asks, copy, inFlight, flag, sent, announced, open, card, reason, answer>>

Server == <<at, asks, copy, inFlight, flag, sent, announced, open, card, reason, answer>>
\* The agent says something, more of it, or uses a tool; the entry of a tool call
\* of the turn is replaced (upsert_runtime_status_entry), by a shorter text too.
Speak ==
    /\ agent # None /\ There /\ UNCHANGED <<agent, killed, Server>>
    /\ \/ /\ Len(thread.entries) < MaxEntries
          /\ \E kind \in {"message", "tool"} : thread' = [thread EXCEPT !.entries = Append(@, Entry(kind))]
       \/ \E i \in OfTurn(thread) :
             \/ /\ thread.entries[i].kind = "message" /\ thread.entries[i].len < MaxText
                /\ thread' = [thread EXCEPT !.entries[i].len = @ + 1]
             \/ /\ thread.entries[i].kind = "tool"
                /\ \E len \in 1..MaxText, runs \in BOOLEAN :
                      thread' = [thread EXCEPT !.entries[i] = [@ EXCEPT !.len = len, !.runs = runs]]

\* settle_runtime_tool_statuses: no tool call of the turn runs any more.
Settled(t) == [i \in DOMAIN t.entries |->
    IF i \in OfTurn(t) THEN [t.entries[i] EXCEPT !.runs = FALSE] ELSE t.entries[i]]
Finish ==
    /\ agent # None
    /\ thread' = IF ~There THEN thread ELSE
          [thread EXCEPT !.entries = Settled(thread),
                         !.status = IF killed THEN "Killed" ELSE IF thread.asks THEN "NeedsInput" ELSE "Idle"]
    /\ agent' = None /\ killed' = FALSE
    /\ UNCHANGED Server

Delete ==
    /\ Deletable /\ There
    /\ thread' = [thread EXCEPT !.status = "gone", !.entries = <<>>]
    /\ UNCHANGED <<agent, killed, Server>>

-----------------------------------------------------------------------------
\* Prompts

\* handle_prompt_request
Begin(p) ==
    /\ at[p] = "new"
    /\ IF ~There THEN Go(p, "answer") /\ reason' = [reason EXCEPT ![p] = "error"] /\ UNCHANGED copy
       ELSE Go(p, "register") /\ copy' = [copy EXCEPT ![p] = thread] /\ UNCHANGED reason
    /\ UNCHANGED <<thread, agent, killed, asks, inFlight, flag, sent, announced, open, card, answer>>

Register(p) ==
    /\ at[p] = "register"
    /\ IF inFlight # None
       THEN Go(p, "answer") /\ reason' = [reason EXCEPT ![p] = "busy"] /\ UNCHANGED <<inFlight, asks>>
       ELSE /\ inFlight' = p /\ UNCHANGED reason
            /\ \E plan \in BOOLEAN : asks' = [asks EXCEPT ![p] = plan]
            /\ Go(p, IF copy[p].asks # asks'[p] THEN "approve" ELSE "cursor")
    /\ UNCHANGED <<thread, agent, killed, copy, flag, sent, announced, open, card, answer>>

\* update_approval_state reads the thread and puts it back.
ReadThread(p) ==
    /\ at[p] = "approve"
    /\ IF There THEN Go(p, "replace") /\ copy' = [copy EXCEPT ![p] = thread] /\ UNCHANGED reason
       ELSE Fail(p) /\ UNCHANGED copy
    /\ UNCHANGED <<thread, agent, killed, asks, inFlight, flag, sent, announced, open, card, answer>>

ReplaceThread(p) ==
    /\ at[p] = "replace"
    /\ thread' = [copy[p] EXCEPT !.asks = asks[p]]
    /\ Go(p, "cursor")
    /\ UNCHANGED <<agent, killed, asks, copy, inFlight, flag, sent, announced, open, card, reason, answer>>

Lengths(t) == [i \in 1..MaxEntries |-> IF i \in DOMAIN t.entries THEN t.entries[i].len ELSE 0]
\* PromptStreamCursor::from_session: what is there is not sent again.
Cursor(p) ==
    /\ at[p] = "cursor"
    /\ sent' = [sent EXCEPT ![p] = Lengths(IF There THEN thread ELSE copy[p])]
    /\ Go(p, "launch")
    /\ UNCHANGED <<thread, agent, killed, asks, copy, inFlight, flag, announced, open, card, reason, answer>>

\* ensure_prompt_runtime, then send_to_dispatcher_thread
Launch(p) ==
    /\ at[p] = "launch"
    /\ IF CanSend THEN Sent(p, asks[p]) /\ Go(p, "poll") /\ UNCHANGED reason
       ELSE Fail(p) /\ UNCHANGED <<thread, agent, killed>>
    /\ UNCHANGED <<asks, copy, inFlight, flag, sent, announced, open, card, answer>>

\* stream_prompt_delta: each entry that is longer than what was sent of it, in
\* order. The cursor has one open tool call, from its announcement to the next
\* entry that is sent, and tells the client that it is over; an update of another
\* one, which says that it runs, opens its card again.
Longer(p, t) == {i \in DOMAIN t.entries : t.entries[i].len > sent[p][i]}
Closed(c) == IF c.open = 0 THEN c ELSE [c EXCEPT !.open = 0, !.card[c.open] = "ended"]
Update(c, i, e) ==
    LET d == IF c.open = i THEN c ELSE Closed(c)
        is(new) == IF ~e.runs THEN "ended" ELSE IF new \/ d.open = i THEN "running" ELSE "again"
    IN IF e.kind # "tool" THEN Closed(c)
       ELSE IF i \in c.announced THEN [d EXCEPT !.card[i] = is(FALSE)]
       ELSE [d EXCEPT !.announced = @ \cup {i}, !.open = i, !.card[i] = is(TRUE)]
TheCursor(p) == [open |-> open[p], announced |-> announced[p], card |-> card[p]]
Tell(p, c) ==
    /\ open' = [open EXCEPT ![p] = c.open] /\ card' = [card EXCEPT ![p] = c.card]
    /\ announced' = [announced EXCEPT ![p] = c.announced]
Stream(p, t) ==
    /\ Tell(p, FoldLeft(LAMBDA c, i : Update(c, i, t.entries[i]), TheCursor(p),
                        SetToSortSeq(Longer(p, t), <)))
    /\ sent' = [sent EXCEPT ![p] = [i \in 1..MaxEntries |->
                    IF i \in Longer(p, t) THEN t.entries[i].len ELSE @[i]]]

Complete(t) == t.status \notin {"Working", "Spawning", "Queued"}      \* prompt_turn_complete
StopReason(t) == IF t.status = "Killed" THEN "cancelled" ELSE "end_turn"
\* The poll reads the thread, streams it, and decides on what it read.
Poll(p) ==
    /\ at[p] = "poll"
    /\ IF There THEN copy' = [copy EXCEPT ![p] = thread] /\ Stream(p, thread)
                     /\ Go(p, "decide") /\ UNCHANGED reason
       ELSE Fail(p) /\ UNCHANGED <<copy, sent, announced, open, card>>
    /\ UNCHANGED <<thread, agent, killed, asks, inFlight, flag, answer>>

\* Mutant: the thread is read again.
Now(p) == thread
Seen(p) == copy[p]
Grace(p) == flag[p]
Decide(p) ==
    /\ at[p] = "decide"
    /\ \/ (flag[p] \/ ~Complete(Seen(p))) /\ Go(p, "poll") /\ UNCHANGED reason
       \/ /\ Grace(p)                                                 \* ACP_CANCEL_GRACE_PERIOD
          /\ Go(p, "finish") /\ reason' = [reason EXCEPT ![p] = "cancelled"]
       \/ /\ ~flag[p] /\ Complete(Seen(p))
          /\ Go(p, "finish") /\ reason' = [reason EXCEPT ![p] = StopReason(Seen(p))]
    /\ UNCHANGED <<thread, agent, killed, asks, copy, inFlight, flag, sent, announced, open, card, answer>>

\* finalize_open_tool_call
CloseTool(p) ==
    /\ at[p] = "finish" /\ Go(p, "leave") /\ Tell(p, Closed(TheCursor(p)))
    /\ UNCHANGED <<thread, agent, killed, asks, copy, inFlight, flag, sent, reason, answer>>

Left(p) == None
Leave(p) ==
    /\ at[p] = "leave" /\ inFlight' = Left(p) /\ Go(p, "answer")
    /\ copy' = [copy EXCEPT ![p] = None] /\ sent' = [sent EXCEPT ![p] = NothingSent]
    /\ announced' = [announced EXCEPT ![p] = {}]                       \* the turn's locals
    /\ UNCHANGED <<thread, agent, killed, asks, flag, open, card, reason, answer>>

Answer(p) ==
    /\ at[p] = "answer" /\ answer' = [answer EXCEPT ![p] = reason[p]] /\ Go(p, "done")
    /\ UNCHANGED <<thread, agent, killed, asks, copy, inFlight, flag, sent, announced, open, card, reason>>

-----------------------------------------------------------------------------
\* cancel_session: the flag of the prompt in flight, then the agent.
Flag(c) ==
    /\ at[c] = "new" /\ Go(c, "interrupt")
    /\ flag' = IF inFlight = None THEN flag ELSE [flag EXCEPT ![inFlight] = TRUE]
    /\ UNCHANGED <<thread, agent, killed, asks, copy, inFlight, sent, announced, open, card, reason, answer>>
Interrupt(c) ==
    /\ at[c] = "interrupt" /\ Go(c, "done")
    /\ killed' = (killed \/ agent # None)
    /\ UNCHANGED <<thread, agent, asks, copy, inFlight, flag, sent, announced, open, card, reason, answer>>

PromptStep(p) ==
    \/ Begin(p) \/ Register(p) \/ ReadThread(p) \/ ReplaceThread(p) \/ Cursor(p) \/ Launch(p)
    \/ Poll(p) \/ Decide(p) \/ CloseTool(p) \/ Leave(p) \/ Answer(p)
Next ==
    \/ \E p \in Prompts : PromptStep(p)
    \/ \E c \in Cancels : Flag(c) \/ Interrupt(c)
    \/ \E x \in Others : SendOther(x)
    \/ Speak \/ Finish \/ Delete

Spec == Init /\ [][Next]_vars

\* A prompt's task is scheduled and its timers fire; an agent ends its turn; the
\* grace of a cancelled prompt is over some day.
FairSpec ==
    /\ Spec
    /\ WF_vars(Finish)
    /\ \A p \in Prompts :
          /\ WF_vars(PromptStep(p))
          /\ SF_vars(Decide(p) /\ at'[p] = "finish")

-----------------------------------------------------------------------------
\* Every variable has its type.
TypeOK ==
    /\ thread.status \in {"Idle", "Working", "NeedsInput", "Killed", "gone"}
    /\ thread.asks \in BOOLEAN /\ Len(thread.entries) <= MaxEntries
    /\ agent \in Turns \cup {None} /\ inFlight \in Prompts \cup {None}
    /\ \A p \in Prompts : open[p] \in 0..MaxEntries /\ sent[p] \in [1..MaxEntries -> 0..MaxText]
    /\ \A p \in Prompts, i \in 1..MaxEntries : card[p][i] \in {None, "running", "again", "ended"}
    /\ \A p \in Prompts :
          (inFlight = p) = (at[p] \in {"approve", "replace", "cursor", "launch", "poll", "decide", "finish", "leave"})

\* A turn that ended is answered after all of it was streamed: the poll that sees
\* the end has sent what came before the end, of a tool call as much text as it has.
StreamedAll ==
    \A p \in Prompts : at[p] = "finish" /\ reason[p] = "end_turn" /\ There =>
        \A i \in DOMAIN thread.entries :
            IF thread.entries[i].kind = "tool" THEN sent[p][i] >= thread.entries[i].len
            ELSE sent[p][i] = thread.entries[i].len

\* A prompt whose turn ended is not answered while its agent still works.
AnsweredAtEnd == \A p \in Prompts : reason[p] = "end_turn" => agent # p

\* Every prompt is answered, also when it is cancelled, refused or loses its thread.
Answered == \A p \in Prompts : (at[p] # "new") ~> (answer[p] # None)

\* A tool call the client was told of as running is the one the cursor will close,
\* and it is closed when the prompt is answered, unless the prompt failed or a later
\* update opened it again.
ToolsClosed ==
    \A p \in Prompts, i \in 1..MaxEntries : card[p][i] = "running" =>
        open[p] = i /\ (at[p] \in {"leave", "answer", "done"} => reason[p] = "error")

\* What a client may take for granted and the code does not keep (README): no tool
\* call runs for ever in a client whose prompt ended its turn, and one that the
\* client was told is over is over.
NoneRunsOn ==
    \A p \in Prompts, i \in 1..MaxEntries :
        at[p] \in {"answer", "done"} /\ reason[p] = "end_turn" => card[p][i] \in {None, "ended"}
EndedIsOver ==
    \A p \in Prompts : at[p] = "decide" /\ There =>
        \A i \in DOMAIN copy[p].entries : card[p][i] = "ended" => ~copy[p].entries[i].runs

\* A plan-only turn stays one while the agent works on it: "Do not create or update
\* board tasks in this turn".
PlanHolds == [][agent # None /\ agent' = agent /\ thread.asks /\ There => thread'.asks]_vars
=============================================================================
