--------------------------- MODULE DispatcherThreads ---------------------------
(***************************************************************************)
(* One dispatcher thread: its record, its snapshot on disk and the agents  *)
(* that work on its turns (conductor-server/src/state/acp_dispatcher.rs,   *)
(* and the flush queue of state/mod.rs).                                   *)
(*                                                                         *)
(* Actors: the requests (send, preferences, bind, delete, interrupt), the  *)
(* task that consumes each agent's output, the agents, the flush watchdog, *)
(* and a crash of the server.  Each lock the code takes by itself is a     *)
(* step; what it does between two awaits that change nothing is not.       *)
(***************************************************************************)
EXTENDS Naturals, Sequences, FiniteSets, SequencesExt

CONSTANTS
    Request,      \* what each request is: a function to RequestKinds
    Agent,        \* how the thread's agent is run
    Names,        \* a sequence of names for the agents' runtimes
    MaxOutput,    \* events an agent reports before its last
    Faults        \* what may go wrong

RequestKinds == {"send", "prefs", "bind", "delete", "interrupt"}
AgentKinds == {"codex",      \* a process per turn, its input open while it runs
               "exec",       \* a process per turn that was given no input
               "gateway",    \* a connection per turn, from the server's own process
               "terminal"}   \* one process for all turns, which takes them as input
FaultNames == {"spawn",      \* an agent does not start
               "bad",        \* an agent fails
               "disk",       \* a snapshot is not written
               "crash"}      \* the server crashes, once

DispatcherAssumption ==
    /\ \A c \in DOMAIN Request : Request[c] \in RequestKinds
    /\ Agent \in AgentKinds /\ Faults \subseteq FaultNames /\ MaxOutput \in Nat
    \* No name stands for two of them, for nobody or for the watchdog.
    /\ Range(Names) \cap DOMAIN Request = {}
    /\ {"none", "flush"} \cap (Range(Names) \cup DOMAIN Request) = {}
ASSUME ConstantsAssumption == DispatcherAssumption

VARIABLES
    mem,          \* the record in dispatcher_threads
    disk,         \* the snapshot
    attached,     \* dispatcher_runtimes: the runtime of the handle, or None
    rt,           \* the runtimes: up, input open, kill sender held, prompts, events
    con,          \* output consumers: where, and the event in hand
    at,           \* requests: where
    own,          \* requests: their copy of the record, and a handle they hold
    guard,        \* who holds the transition guard
    snap,         \* who holds the snapshot guard, and what it writes
    pending,      \* the thread is in pending_dispatcher_flushes
    flush,        \* the watchdog: "wait" or "drained"
    server        \* "up", "crashed" (and started again), "killed"

vars == <<mem, disk, attached, rt, con, at, own, guard, snap, pending, flush, server>>
Requests == DOMAIN Request
Runtimes == Range(Names)
None == "none"
Headless == Agent # "terminal"                     \* dispatcher_uses_headless_turns

-----------------------------------------------------------------------------
\* Records.  said are the requests whose messages the conversation holds, pid the
\* runtime whose process was recorded, launch the model it was started with.
Record(status) ==
    [status |-> status, asks |-> FALSE, said |-> {}, model |-> 1, launch |-> 0, pid |-> None]
Gone == Record("gone")
Statuses == {"gone", "Idle", "Working", "NeedsInput", "Errored", "Killed"}
Terminal == {"Errored", "Killed"}                  \* is_terminal
There == mem.status # "gone"

Cleared(t) == [t EXCEPT !.pid = None, !.launch = 0]       \* clear_dispatcher_runtime_state
Ready(t) == [Cleared(t) EXCEPT !.asks = FALSE, !.status = "Idle"]

\* normalize_loaded_dispatcher_thread, with the recorded process terminated
Loaded(t) ==
    LET s == IF t.status = "Working" THEN "Idle" ELSE t.status IN
    IF t.status = "gone" THEN t
    ELSE [t EXCEPT !.pid = None,
                   !.status = IF t.asks /\ s \in {"Idle", "NeedsInput"} THEN "NeedsInput" ELSE s]

Init ==
    /\ mem = Record("Idle") /\ disk = mem
    /\ attached = None
    /\ rt = [r \in Runtimes |-> [at |-> "none", open |-> FALSE, held |-> FALSE,
                                 heard |-> {}, left |-> MaxOutput, events |-> <<>>]]
    /\ con = [r \in Runtimes |-> [at |-> "none", event |-> None]]
    /\ at = [c \in Requests |-> "new"]
    /\ own = [c \in Requests |-> [rec |-> Gone, handle |-> None]]
    /\ guard = None
    /\ snap = [by |-> None, rec |-> Gone]
    /\ pending = FALSE /\ flush = "wait" /\ server = "up"

-----------------------------------------------------------------------------
\* Runtimes

Up(r) == rt[r].at = "up"
\* Nobody who has not been told to stop.
AtWork == {r \in Runtimes : Up(r) /\ rt[r].held}

Killed(r) == [rt EXCEPT ![r].held = FALSE]
\* interrupt_retired_dispatcher_runtime, and the end of interrupt_dispatcher
Interrupted(r) == IF r \in Runtimes THEN Killed(r) ELSE rt

\* Mutant: a turn's input is closed once it has its prompt.
ClosedAtOnce(r) == Headless
Closed(r) == ~rt[r].open
\* dispatcher_runtime_attached, dispatcher_runtime_input: a handle whose input is
\* closed is removed.
Attached == attached # None /\ ~Closed(attached)
DropClosed == attached' = IF Attached THEN attached ELSE None

\* clear_dispatcher_runtime_if
ClearIf(r) == IF attached = r THEN None ELSE attached

Speak(r) ==
    /\ server # "killed" /\ Up(r) /\ rt[r].held /\ rt[r].left > 0 /\ rt[r].heard # {}
    /\ \E e \in IF Headless THEN {"delta"} ELSE {"delta", "ask"} :
          rt' = [rt EXCEPT ![r].left = @ - 1, ![r].events = Append(@, e)]
    /\ UNCHANGED <<mem, disk, attached, con, at, own, guard, snap, pending, flush, server>>

\* The last event of a runtime.  A process that takes turns as input may stop at
\* any time, its input stays open; so does that of a gateway's turn.
Exit(r) ==
    /\ server # "killed" /\ Up(r)
    /\ \E e \in IF ~rt[r].held THEN {"killed"} ELSE {"done"} \cup ({"bad"} \cap Faults) :
          rt' = [rt EXCEPT ![r].at = "ended", ![r].open = Agent \in {"terminal", "gateway"},
                           ![r].events = Append(@, e)]
    /\ UNCHANGED <<mem, disk, attached, con, at, own, guard, snap, pending, flush, server>>

\* terminate_process on the recorded pid: the process of the runtime, or, of a
\* gateway's turn, the server's own.
Terminate(pid) ==
    /\ server' = IF pid # None /\ Agent = "gateway" THEN "killed" ELSE server
    /\ rt' = IF pid # None /\ Agent # "gateway" /\ Up(pid)
             THEN [rt EXCEPT ![pid].at = "ended", ![pid].open = Agent = "terminal",
                             ![pid].events = Append(@, "bad")]
             ELSE rt

-----------------------------------------------------------------------------
\* The snapshot guard

Take(me, rec) == snap.by = None /\ snap' = [by |-> me, rec |-> rec]
Release == snap' = [by |-> None, rec |-> Gone]
\* persist_current_dispatcher_snapshot, under the guard: what memory held is written.
Written == disk' = IF snap.rec.status = "gone" THEN disk ELSE snap.rec
Write(me, ok) == snap.by = me /\ Release /\ IF ok THEN Written ELSE UNCHANGED disk
WriteMay(ok) == ok \/ "disk" \in Faults

Queue == pending' = TRUE                           \* queue_dispatcher_flush

-----------------------------------------------------------------------------
\* Consumers

Where(r, where) == con' = [con EXCEPT ![r].at = where]

\* apply_dispatcher_runtime_event, to the check of the runtime's id
Receive(r) ==
    /\ server # "killed" /\ con[r].at = "wait" /\ rt[r].events # <<>>
    /\ rt' = [rt EXCEPT ![r].events = Tail(@)]
    /\ con' = IF attached = r THEN [con EXCEPT ![r] = [at |-> "apply", event |-> Head(rt[r].events)]]
              ELSE con
    /\ UNCHANGED <<mem, disk, attached, at, own, guard, snap, pending, flush, server>>

Ends(e) == e \in {"done", "bad", "killed"}
\* Mutant: the next turn need not be approved.
WithoutApproval(t) == IF Headless THEN "Idle" ELSE "NeedsInput"
Rests(t) == IF t.asks \/ ~Headless THEN "NeedsInput" ELSE "Idle"
Effect(e, t) ==
    [t EXCEPT !.status = CASE e = "delta" -> "Working" [] e = "ask" -> "NeedsInput"
                           [] e = "done" -> Rests(t) [] e = "bad" -> "Errored"
                           [] OTHER -> "Killed",
              !.launch = IF Ends(e) THEN 0 ELSE @]

Apply(r) ==
    /\ server # "killed" /\ con[r].at = "apply"
    /\ LET e == con[r].event IN
       IF There /\ mem.status \notin Terminal
       THEN /\ mem' = Effect(e, mem)
            /\ Where(r, IF Ends(e) THEN "clear" ELSE IF e = "ask" THEN "save" ELSE "queue")
       ELSE /\ UNCHANGED mem
            /\ Where(r, IF Ends(e) THEN "leave" ELSE "wait")
    /\ UNCHANGED <<disk, attached, rt, at, own, guard, snap, pending, flush, server>>

Clear(r) ==
    /\ server # "killed" /\ con[r].at \in {"clear", "leave"}
    /\ attached' = ClearIf(r)
    /\ Where(r, IF con[r].at = "clear" THEN "save" ELSE "wait")
    /\ UNCHANGED <<mem, disk, rt, at, own, guard, snap, pending, flush, server>>

QueueEvent(r) ==
    /\ server # "killed" /\ con[r].at = "queue" /\ Queue /\ Where(r, "wait")
    /\ UNCHANGED <<mem, disk, attached, rt, at, own, guard, snap, flush, server>>

SaveEvent(r) ==
    /\ server # "killed"
    /\ \/ con[r].at = "save" /\ Take(r, mem) /\ Where(r, "write") /\ UNCHANGED disk
       \/ /\ con[r].at = "write"
          /\ \E ok \in BOOLEAN : WriteMay(ok) /\ Write(r, ok)
          /\ Where(r, "wait")
    /\ UNCHANGED <<mem, attached, rt, at, own, guard, pending, flush, server>>

-----------------------------------------------------------------------------
\* Requests

Go(c, where) == at' = [at EXCEPT ![c] = where]
\* The end of a request that holds the transition guard.
End(c, how) == Go(c, how) /\ guard' = IF guard = c THEN None ELSE guard
Keep(c, rec) == own' = [own EXCEPT ![c].rec = rec]
Is(c, kind, where) == server # "killed" /\ Request[c] = kind /\ at[c] = where

\* Mutant: the preferences are changed while a turn is being started.
NoGuard == {"send"}
\* delete and bind change the thread without the transition guard.
Guarded == {"send", "prefs"}
Enter(c) ==
    /\ server # "killed" /\ at[c] = "new" /\ Request[c] \in {"send", "prefs"}
    /\ IF Request[c] \in Guarded THEN guard = None /\ guard' = c ELSE UNCHANGED guard
    /\ Go(c, "in")
    /\ UNCHANGED <<mem, disk, attached, rt, con, own, snap, pending, flush, server>>

Busy == Headless /\ There /\ Attached

\* send_to_dispatcher_thread
Check(c) ==
    /\ Is(c, "send", "in")
    /\ IF Busy THEN End(c, "refused") ELSE Go(c, "mark") /\ UNCHANGED guard
    /\ IF Headless /\ There THEN DropClosed ELSE UNCHANGED attached
    /\ UNCHANGED <<mem, disk, rt, con, own, snap, pending, flush, server>>

\* The turn: whether it needs approval is read from the message.
Mark(c) ==
    /\ Is(c, "send", "mark")
    /\ \/ ~There /\ End(c, "failed") /\ UNCHANGED <<mem, own>>
       \/ /\ There
          /\ \E asks \in BOOLEAN :
                mem' = [mem EXCEPT !.status = "Working", !.asks = asks, !.said = @ \cup {c}]
          /\ Keep(c, mem') /\ Go(c, "save") /\ UNCHANGED guard
    /\ UNCHANGED <<disk, attached, rt, con, snap, pending, flush, server>>

\* persist_dispatcher_thread, of a turn, of its runtime and of its failure
After == [save |-> "route", save2 |-> "consume", save3 |-> "fail"]
WriteOf == [save |-> "write", save2 |-> "write2", save3 |-> "write3"]
Saves == DOMAIN After
PersistTake(c) ==
    /\ server # "killed" /\ at[c] \in Saves
    /\ Take(c, mem) /\ Go(c, WriteOf[at[c]])
    /\ UNCHANGED <<mem, disk, attached, rt, con, own, guard, pending, flush, server>>

GoesOn(ok) == ok
Persist(c) ==
    /\ server # "killed"
    /\ \E s \in Saves, ok \in BOOLEAN :
          /\ at[c] = WriteOf[s] /\ WriteMay(ok) /\ Write(c, ok)
          /\ IF GoesOn(ok) THEN Go(c, After[s]) /\ UNCHANGED <<pending, guard>>
             ELSE Queue /\ IF s = "save2" THEN Go(c, "recover") /\ UNCHANGED guard
                           ELSE End(c, "failed")
    /\ UNCHANGED <<mem, attached, rt, con, own, flush, server>>

\* A process that takes turns as input is given this one, or replaced when it was
\* started with other preferences.
Route(c) ==
    /\ Is(c, "send", "route")
    /\ \/ (Headless \/ ~Attached) /\ Go(c, "ensure") /\ UNCHANGED <<rt, own, guard>>
       \/ /\ ~Headless /\ Attached /\ own[c].rec.launch = own[c].rec.model
          /\ rt' = [rt EXCEPT ![attached].heard = IF Up(attached) THEN @ \cup {c} ELSE @]
          /\ End(c, "ok") /\ UNCHANGED own
       \/ /\ ~Headless /\ Attached /\ own[c].rec.launch # own[c].rec.model
          /\ rt' = Interrupted(attached)
          /\ own' = [own EXCEPT ![c].handle = attached]
          /\ Go(c, "retire") /\ UNCHANGED guard
    /\ UNCHANGED <<mem, disk, attached, con, snap, pending, flush, server>>

Retire(c) ==
    /\ Is(c, "send", "retire")
    /\ attached' = ClearIf(own[c].handle) /\ Go(c, "ensure")
    /\ UNCHANGED <<mem, disk, rt, con, own, guard, snap, pending, flush, server>>

\* ensure_dispatcher_runtime: the agent is started with the turn.
Spawn(c) ==
    /\ Is(c, "send", "ensure")
    /\ DropClosed
    /\ IF Attached THEN End(c, "ok") /\ UNCHANGED <<rt, own>>
       ELSE /\ UNCHANGED guard
            /\ \/ "spawn" \in Faults /\ Go(c, "recover") /\ UNCHANGED <<rt, own>>
               \/ \E i \in DOMAIN Names :
                     /\ rt[Names[i]].at = "none" /\ \A j \in 1..(i - 1) : rt[Names[j]].at # "none"
                     /\ rt' = [rt EXCEPT ![Names[i]].at = "up", ![Names[i]].open = Agent # "exec",
                                         ![Names[i]].held = TRUE, ![Names[i]].heard = {c}]
                     /\ own' = [own EXCEPT ![c].handle = Names[i]] /\ Go(c, "store")
    /\ UNCHANGED <<mem, disk, con, snap, pending, flush, server>>

\* store_dispatcher_runtime
Store(c) ==
    /\ Is(c, "send", "store")
    /\ attached' = own[c].handle /\ Go(c, "note")
    /\ UNCHANGED <<mem, disk, rt, con, own, guard, snap, pending, flush, server>>

Note(c) ==
    /\ Is(c, "send", "note")
    /\ IF There
       THEN /\ mem' = [mem EXCEPT !.pid = own[c].handle, !.launch = own[c].rec.model]
            /\ Go(c, "save2")
       ELSE UNCHANGED mem /\ Go(c, "consume")
    /\ UNCHANGED <<disk, attached, rt, con, own, guard, snap, pending, flush, server>>

\* start_dispatcher_output_consumer
Consume(c) ==
    /\ Is(c, "send", "consume")
    /\ Where(own[c].handle, "wait") /\ End(c, "ok")
    /\ UNCHANGED <<mem, disk, attached, rt, own, snap, pending, flush, server>>

\* persist_dispatcher_runtime_recovery_failure
Recover(c) ==
    /\ Is(c, "send", "recover") /\ attached' = None /\ Go(c, "errored")
    /\ UNCHANGED <<mem, disk, rt, con, own, guard, snap, pending, flush, server>>

Failed(t) == [Cleared(t) EXCEPT !.status = "Errored"]
RecordFailure(c) ==
    /\ Is(c, "send", "errored")
    /\ IF mem.status = "Working" THEN mem' = Failed(mem) /\ Go(c, "save3") /\ UNCHANGED guard
       ELSE End(c, "failed") /\ UNCHANGED mem
    /\ UNCHANGED <<disk, attached, rt, con, own, snap, pending, flush, server>>

Fail(c) ==
    /\ Is(c, "send", "fail") /\ End(c, "failed")
    /\ UNCHANGED <<mem, disk, attached, rt, con, own, snap, pending, flush, server>>

-----------------------------------------------------------------------------
\* update_dispatcher_preferences, update_dispatcher_runtime_preferences: another
\* model; the runtime is retired.
ReadPrefs(c) ==
    /\ Is(c, "prefs", "in")
    /\ IF There THEN Keep(c, [mem EXCEPT !.model = 3 - @, !.launch = 0]) /\ Go(c, "retire") /\ UNCHANGED guard
       ELSE End(c, "failed") /\ UNCHANGED own
    /\ UNCHANGED <<mem, disk, attached, rt, con, snap, pending, flush, server>>

TakeRuntime(c) ==
    /\ Is(c, "prefs", "retire")
    /\ attached' = None
    /\ LET t == own[c].rec IN
       own' = [own EXCEPT ![c] = [handle |-> attached, rec |->
                 IF attached # None \/ t.status \in {"Working", "NeedsInput"} THEN Ready(t) ELSE t]]
    /\ Go(c, "replace")
    /\ UNCHANGED <<mem, disk, rt, con, guard, snap, pending, flush, server>>

\* update_dispatcher_integration_binding
ReadBind(c) ==
    /\ Is(c, "bind", "new")
    /\ IF There THEN Keep(c, mem) /\ Go(c, "replace") ELSE Go(c, "failed") /\ UNCHANGED own
    /\ UNCHANGED <<mem, disk, attached, rt, con, guard, snap, pending, flush, server>>

\* replace_dispatcher_thread: the snapshot, then memory.
ReplaceTake(c) ==
    /\ server # "killed" /\ at[c] = "replace" /\ Take(c, own[c].rec) /\ Go(c, "replace1")
    /\ UNCHANGED <<mem, disk, attached, rt, con, own, guard, pending, flush, server>>
ReplaceDisk(c) ==
    /\ server # "killed" /\ at[c] = "replace1"
    /\ \/ disk' = snap.rec /\ Go(c, "replace2") /\ UNCHANGED snap
       \/ "disk" \in Faults /\ Release /\ Go(c, "replaceErr") /\ UNCHANGED disk
    /\ UNCHANGED <<mem, attached, rt, con, own, guard, pending, flush, server>>
ReplaceMem(c) ==
    /\ server # "killed" /\ at[c] = "replace2" /\ mem' = snap.rec /\ Release /\ Go(c, "replaceOk")
    /\ UNCHANGED <<disk, attached, rt, con, own, guard, pending, flush, server>>
EndReplace(c) ==
    /\ server # "killed" /\ at[c] \in {"replaceOk", "replaceErr"}
    /\ rt' = Interrupted(own[c].handle)
    /\ End(c, IF at[c] = "replaceOk" THEN "ok" ELSE "failed")
    /\ UNCHANGED <<mem, disk, attached, con, own, snap, pending, flush, server>>

-----------------------------------------------------------------------------
\* interrupt_dispatcher
Interrupt(c) ==
    /\ Is(c, "interrupt", "new")
    /\ IF attached # None /\ rt[attached].held
       THEN rt' = Killed(attached) /\ Go(c, "ok")
       ELSE UNCHANGED rt /\ Go(c, "refused")
    /\ UNCHANGED <<mem, disk, attached, con, own, guard, snap, pending, flush, server>>

\* delete_dispatcher_thread.  The interrupt is a task of its own: it may come
\* before the handle is removed, or too late.
ReadDelete(c) ==
    /\ Is(c, "delete", "new")
    /\ IF There THEN Keep(c, mem) /\ Go(c, "detach") ELSE Go(c, "failed") /\ UNCHANGED own
    /\ UNCHANGED <<mem, disk, attached, rt, con, guard, snap, pending, flush, server>>
Detach(c) ==
    /\ Is(c, "delete", "detach") /\ attached' = None /\ Go(c, "terminate")
    /\ rt' \in {Interrupted(attached), rt}
    /\ UNCHANGED <<mem, disk, con, own, guard, snap, pending, flush, server>>
TerminateOld(c) ==
    /\ Is(c, "delete", "terminate") /\ Terminate(own[c].rec.pid) /\ Go(c, "remove")
    /\ UNCHANGED <<mem, disk, attached, con, own, guard, snap, pending, flush>>
RemoveTake(c) ==
    /\ Is(c, "delete", "remove") /\ Take(c, Gone) /\ Go(c, "remove1")
    /\ UNCHANGED <<mem, disk, attached, rt, con, own, guard, pending, flush, server>>
RemoveFile(c) ==
    /\ Is(c, "delete", "remove1") /\ disk' = Gone /\ Go(c, "remove2")
    /\ UNCHANGED <<mem, attached, rt, con, own, guard, snap, pending, flush, server>>
LeavesMemory == mem' = Gone
RemoveMem(c) ==
    /\ Is(c, "delete", "remove2") /\ LeavesMemory /\ Go(c, "remove3")
    /\ UNCHANGED <<disk, attached, rt, con, own, guard, snap, pending, flush, server>>
RemovePending(c) ==
    /\ Is(c, "delete", "remove3") /\ pending' = FALSE /\ Release /\ Go(c, "ok")
    /\ UNCHANGED <<mem, disk, attached, rt, con, own, guard, flush, server>>

-----------------------------------------------------------------------------
\* The flush watchdog, and the flush of a shutdown
Drain ==
    /\ server # "killed" /\ flush = "wait" /\ pending
    /\ pending' = FALSE /\ flush' = "drained"
    /\ UNCHANGED <<mem, disk, attached, rt, con, at, own, guard, snap, server>>
FlushTake ==
    /\ server # "killed" /\ flush = "drained" /\ Take("flush", mem) /\ flush' = "write"
    /\ UNCHANGED <<mem, disk, attached, rt, con, at, own, guard, pending, server>>
Requeue(ok) == pending' = (pending \/ ~ok)
Flush ==
    /\ server # "killed" /\ flush = "write" /\ flush' = "wait"
    /\ \E ok \in BOOLEAN : WriteMay(ok) /\ Write("flush", ok) /\ Requeue(ok)
    /\ UNCHANGED <<mem, attached, rt, con, at, own, guard, server>>

\* The server crashes and starts again: load_dispatchers_from_disk.
Crash ==
    /\ "crash" \in Faults /\ server = "up" /\ server' = "crashed"
    /\ mem' = Loaded(disk) /\ disk' = mem'
    /\ rt' = [r \in Runtimes |->
                IF Up(r) /\ disk.pid = r THEN [rt[r] EXCEPT !.at = "ended"] ELSE rt[r]]
    /\ attached' = None
    /\ con' = [r \in Runtimes |-> [at |-> "none", event |-> None]]
    /\ at' = [c \in Requests |-> IF at[c] \in {"new", "ok", "refused", "failed"} THEN at[c] ELSE "lost"]
    /\ guard' = None /\ snap' = [by |-> None, rec |-> Gone]
    /\ pending' = FALSE /\ flush' = "wait"
    /\ UNCHANGED own

ConsumerStep(r) == Receive(r) \/ Apply(r) \/ Clear(r) \/ QueueEvent(r) \/ SaveEvent(r)
SendStep(c) ==
    \/ Check(c) \/ Mark(c) \/ PersistTake(c) \/ Persist(c) \/ Route(c) \/ Retire(c) \/ Spawn(c)
    \/ Store(c) \/ Note(c) \/ Consume(c) \/ Recover(c) \/ RecordFailure(c) \/ Fail(c)
ReplaceStep(c) ==
    \/ ReadPrefs(c) \/ TakeRuntime(c) \/ ReadBind(c)
    \/ ReplaceTake(c) \/ ReplaceDisk(c) \/ ReplaceMem(c) \/ EndReplace(c)
DeleteStep(c) ==
    \/ ReadDelete(c) \/ Detach(c) \/ TerminateOld(c)
    \/ RemoveTake(c) \/ RemoveFile(c) \/ RemoveMem(c) \/ RemovePending(c)
Next ==
    \/ \E r \in Runtimes : Speak(r) \/ Exit(r) \/ ConsumerStep(r)
    \/ \E c \in Requests :
          Enter(c) \/ SendStep(c) \/ ReplaceStep(c) \/ Interrupt(c) \/ DeleteStep(c)
    \/ Drain \/ FlushTake \/ Flush \/ Crash

Spec == Init /\ [][Next]_vars

\* Agents end their turns by themselves or because they were told to; tasks and
\* requests that are under way are scheduled.  Nothing here repeats itself for ever,
\* so that fairness need not name each of them.
FairSpec ==
    /\ Spec
    /\ WF_vars(\E r \in Runtimes : Exit(r) \/ ConsumerStep(r))
    /\ WF_vars(\E c \in Requests : SendStep(c) \/ ReplaceStep(c) \/ DeleteStep(c))
    /\ WF_vars(Drain \/ FlushTake \/ Flush)

-----------------------------------------------------------------------------
Resting == {"new", "ok", "refused", "failed", "lost"}

\* Every variable has its type, and a guard is held by one who is between its lock
\* and its release.
TypeOK ==
    /\ \A t \in {mem, disk, snap.rec} : t.status \in Statuses /\ t.said \subseteq Requests
                                        /\ t.pid \in Runtimes \cup {None} /\ t.launch \in 0..2
    /\ attached \in Runtimes \cup {None}
    /\ guard # None => at[guard] \notin Resting
    /\ \A c \in Requests : Request[c] = "send" /\ at[c] \notin Resting => guard = c
    /\ snap.by \in Requests => at[snap.by] \notin Resting

\* "Dispatcher is already working on the current turn": the thread has one agent at
\* work that was not told to stop, whatever is sent, interrupted or restarted.
OneTurn == Cardinality(AtWork) <= 1

\* A thread that is not on disk as it is in memory will be: it waits for the flush,
\* or somebody is about to write it.
Saving ==
    \/ pending \/ flush # "wait"
    \/ \E r \in Runtimes : con[r].at \in {"clear", "queue", "save", "write"}
    \/ \E c \in Requests : at[c] \notin Resting
Saved == server = "killed" \/ mem = disk \/ Saving

\* A message or a change of preferences that was acknowledged is on disk and in the
\* thread, whatever else was written meanwhile, a crash included.
AckedOnDisk ==
    \A c \in Requests, t \in {disk, mem} :
        at[c] = "ok" => /\ Request[c] = "send" => c \in t.said
                        /\ Request[c] = "prefs" => t.model = 2

\* A message that was acknowledged was given to an agent that ran.
Heard ==
    \A c \in Requests :
        Request[c] = "send" /\ at[c] = "ok" => \E r \in Runtimes : c \in rt[r].heard

\* What a turn was refused for ends: the thread does not stay at work.
TurnEnds == (mem.status = "Working") ~> (mem.status # "Working")

\* A turn that needs approval does not end as one that is done with.
AsksOn == mem.asks /\ mem'.status = "Idle" /\ mem.status # "Idle" => ~mem'.asks
ApprovalAsked == [][AsksOn]_vars

\* An event changes the thread only while its runtime is the thread's.
StaleIgnored == [][\A r \in Runtimes : con[r].at = "apply" /\ mem' # mem /\ con'[r].at # "apply"
                      => attached = r]_vars

Deleted == \E c \in Requests : Request[c] = "delete" /\ at[c] = "ok"
\* A deleted thread stays deleted, in memory and on disk.
DeletedStays == Deleted => ~There /\ disk.status = "gone"
\* A deleted thread has no runtime.
DeletedIsDetached == Deleted => attached = None

\* Deleting a thread does not stop the server.
ServerLives == server # "killed"

-----------------------------------------------------------------------------
Asked(kind) == {c \in Requests : Request[c] = kind}
\* What is kept of a thread: its types, and the rest each under what it needs of the requests and the faults:
\* an agent that is given its turn as input answers for itself until it ends; a
\* deletion and a binding change the thread beside the guarded requests.
ThreadIsWhole ==
    /\ TypeOK
    /\ Agent # "exec" /\ Faults \subseteq {"spawn", "bad"} /\ Asked("delete") = {} => OneTurn
    /\ "disk" \notin Faults => Saved
    /\ Headless /\ (Asked("bind") = {} \/ Asked("delete") = {}) => Heard
    /\ Asked("prefs") = {} /\ Asked("bind") = {} => DeletedStays
    /\ /\ Asked("delete") = {} /\ Asked("bind") = {}
       /\ \A p, q \in Asked("prefs") : p = q
       => AckedOnDisk
=============================================================================
