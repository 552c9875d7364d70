--------------------------- MODULE SessionLifecycle ---------------------------
(***************************************************************************)
(* The session manager of the Rust backend: the launch queue and its       *)
(* supervisor (state/spawn_queue.rs), the handlers that kill, archive,     *)
(* message, resume and restore a session (state/session_manager.rs), the   *)
(* events of the agent runtimes, the debounced flush to disk               *)
(* (state/mod.rs, state/session_store.rs), and a crash followed by the     *)
(* start-up sequence of `serve` (lib.rs, state/detached/mod.rs).           *)
(*                                                                         *)
(* One action is one stretch of a handler between two awaits at which      *)
(* another task can change what it goes on to use.  A handler that cloned  *)
(* a session under the lock keeps the clone in its own state (`rec`) while *)
(* it waits for the disk, exactly as the code keeps `updated`.             *)
(***************************************************************************)
EXTENDS Naturals, FiniteSets

CONSTANTS
    Sessions,          \* ids a session can get, in order of creation
    Keys,              \* launch requests: project, prompt and agent
    Projects,
    ProjectOf,         \* the project of a request
    BranchlessKeys,    \* requests whose session keeps its branch empty
    Uninstalled,       \* requests whose agent is gone when the server restarts
    Runtimes,          \* ttyd processes, never reused
    NoRuntime,
    Clients,           \* tasks that issue commands
    Commands,          \* the commands they issue
    GlobalLimit,       \* MAX_GLOBAL_CONCURRENT_LAUNCHES
    ProjectLimit,      \* MAX_PROJECT_CONCURRENT_LAUNCHES
    Faults,            \* what may go wrong, a subset of FaultNames
    Background,        \* what runs by itself, a subset of BackgroundNames
    MaxCommands,       \* how many commands each client issues
    MaxCrashes

CommandNames == {"spawn", "kill", "archive", "action_kill", "action_archive",
                 "timeout", "send", "restore"}

\* A dropped request future, a failed write of a session file, a process
\* that cannot be started or terminated, a ttyd that refuses its owner, a
\* process that ends with an exit status other than 0.
FaultNames == {"cancel", "disk", "process", "owner", "status"}

\* The flush watchdog, an agent's output, an agent's question.
BackgroundNames == {"flush", "output", "input"}

ASSUME SessionsAssumption == Sessions \subseteq Nat \ {0}
ASSUME RuntimesAssumption == NoRuntime \notin Runtimes
ASSUME KeysAssumption ==
    /\ Keys # {}
    /\ ProjectOf \in [Keys -> Projects]
    /\ BranchlessKeys \subseteq Keys
    /\ Uninstalled \subseteq Keys
ASSUME CommandsAssumption == Commands \subseteq CommandNames
ASSUME FaultsAssumption == Faults \subseteq FaultNames
ASSUME BackgroundAssumption == Background \subseteq BackgroundNames
ASSUME LimitsAssumption ==
    /\ GlobalLimit \in Nat
    /\ ProjectLimit \in Nat
    /\ MaxCommands \in [Clients -> Nat]
    /\ MaxCrashes \in Nat

VARIABLES
    mem,       \* AppState.sessions
    disk,      \* the session's snapshot file
    host,      \* its terminal host: current input sender, kill senders held
    proc,      \* the ttyd processes
    watch,     \* the tasks that watch a process: exit monitor, output consumer
    sup,       \* the launch supervisor's loop
    kick,      \* someone waits for spawn_guard to run the loop
    cmd,       \* what each client task is doing
    pend,      \* pending_session_flushes
    flush,     \* the clones the flush watchdog is writing
    timers,    \* runtimes whose session timeout is still running
    phase,     \* where `serve` is in its start-up
    todo,      \* sessions a start-up loop has collected
    crashes

vars == <<mem, disk, host, proc, watch, sup, kick, cmd, pend, flush, timers,
          phase, todo, crashes>>

boot == <<phase, todo, crashes>>
writes == <<pend, flush>>
runtime == <<proc, watch, timers>>

-----------------------------------------------------------------------------
(* Records.  The status alone determines `activity`; `ttyd` stands for the  *)
(* runtimeMode entry a launched session carries and, negated, for the       *)
(* spawnRequest entry only an unlaunched one carries; `pid` stands for the  *)
(* pid, detachedPid and ttydPid entries, which name the same process until  *)
(* a termination removes them all.                                          *)

Terminal == {"errored", "killed", "archived"}
Status == {"absent", "queued", "spawning", "working", "needs_input",
           "stuck", "restored"} \cup Terminal
Branches == Sessions \cup {0}

Rec == [status : Status, key : Keys, branch : Branches, ttyd : BOOLEAN,
        term : {"none", "kill", "archive"}, pid : Runtimes \cup {NoRuntime}]

NoRec == [status |-> "absent", key |-> CHOOSE k \in Keys : TRUE, branch |-> 0,
          ttyd |-> FALSE, term |-> "none", pid |-> NoRuntime]

Present(s) == mem[s].status # "absent"

QueuedRec(key, branch) ==
    [NoRec EXCEPT !.status = "queued", !.key = key, !.branch = branch]

\* The record spawn_session_now builds afresh: the request's data and the
\* new runtime, nothing of what happened to the old record meanwhile.
LaunchedRec(s, old, r) ==
    [status |-> "working", key |-> old.key,
     branch |-> IF old.branch = 0 /\ old.key \notin BranchlessKeys
                THEN s ELSE old.branch,
     ttyd |-> TRUE, term |-> "none", pid |-> r]

Terminated(rec, action) ==
    [rec EXCEPT !.status = IF action = "kill" THEN "killed" ELSE "archived",
                !.term = "none", !.pid = NoRuntime]

\* A Completed or Failed event reaching a session that is not terminal.
Ended(rec, event) ==
    IF rec.term # "none" THEN Terminated(rec, rec.term)
    ELSE [rec EXCEPT !.status = IF event = "completed" THEN "needs_input"
                                ELSE "errored"]

AfterExit(rec, event) ==
    IF rec.status \in Terminal \cup {"absent"} THEN rec ELSE Ended(rec, event)

\* normalize_loaded_session, applied to a snapshot read at start-up.
Normalized(rec) ==
    CASE rec.status = "spawning" /\ ~rec.ttyd ->
            [rec EXCEPT !.status = "queued", !.pid = NoRuntime]
      [] rec.status = "working" /\ ~rec.ttyd ->
            [rec EXCEPT !.status = "archived", !.pid = NoRuntime]
      [] rec.status \in {"working", "spawning"} /\ rec.ttyd ->
            [rec EXCEPT !.status = "stuck"]
      [] OTHER -> rec

\* mark_session_runtime_restored
Recovered(rec) ==
    [rec EXCEPT !.status = IF @ = "stuck" THEN "working" ELSE @]

-----------------------------------------------------------------------------
(* Runtimes.  A process is watched by the task group of whoever spawned it  *)
(* ("own") and, once ensure_session_live or the start-up has found it alive *)
(* but detached, by a second group ("restored").  A group's kill sender is  *)
(* named by the group; dropping the sender unused resolves the receiver, so *)
(* it kills the process just as sending does.                               *)

Groups == Runtimes \X {"own", "restored"}
Own(r) == <<r, "own">>
Restored(r) == <<r, "restored">>

NoProc == [st |-> "free", s |-> 0, by |-> "launch", life |-> 0]
NoWatch == [mon |-> "off", con |-> FALSE, evt |-> "none"]
NoHost == [there |-> FALSE, input |-> NoRuntime, kills |-> {}]
Watched == [mon |-> "run", con |-> FALSE, evt |-> "none"]

Live(r) == r # NoRuntime /\ proc[r].st = "alive"

\* An input sender is closed once the process behind it is gone.
Attached(s) == Live(host[s].input)

\* The groups in K learn that their kill sender was used or dropped.
Signalled(W, K) ==
    [x \in Groups |-> IF x \in K /\ W[x].mon = "run"
                      THEN [W[x] EXCEPT !.mon = "kill"] ELSE W[x]]

\* Every group still watching r sees it gone.  A monitor that was told to
\* kill reports Completed, and so does one that only polls the pid.
Gone(W, r, event) ==
    [x \in Groups |->
        IF x[1] # r \/ W[x].mon \notin {"run", "kill"} THEN W[x]
        ELSE [W[x] EXCEPT !.mon = "detach",
                          !.evt = IF x = Own(r) /\ W[x].mon = "run"
                                  THEN event ELSE "completed"]]

\* What the monitor of the process's own group can find in its exit status.
Outcomes == IF "status" \in Faults THEN {"completed", "failed"} ELSE {"completed"}

\* attach_runtime: an attach that finds an open input is skipped, and the
\* newcomer's senders are dropped; what it displaces is retained.
AttachedHost(s, x) ==
    IF Attached(s) THEN host[s]
    ELSE [there |-> TRUE, input |-> x[1], kills |-> host[s].kills \cup {x}]

DetachedHost(s) == [host[s] EXCEPT !.input = NoRuntime]

\* attach_terminal_runtime followed by start_output_consumer, which is
\* called whether or not the attach took place.
AttachAndConsume(s, x) ==
    /\ host' = [host EXCEPT ![s] = AttachedHost(s, x)]
    /\ watch' = [Signalled(watch, IF Attached(s) THEN {x} ELSE {})
                    EXCEPT ![x].con = TRUE]

\* remove_terminal_host drops whatever senders the host still holds.
RemoveHost(s, W) ==
    /\ host' = [host EXCEPT ![s] = NoHost]
    /\ watch' = Signalled(W, host[s].kills)

\* spawn_ttyd_runtime
StartProcess(r, s, by) ==
    /\ proc[r].st = "free"
    /\ proc' = [proc EXCEPT ![r] = [st |-> "alive", s |-> s, by |-> by,
                                    life |-> crashes]]
    /\ watch' = [watch EXCEPT ![Own(r)] = Watched]

-----------------------------------------------------------------------------
(* The launch supervisor: kick_spawn_supervisor, next_queueable_spawn,      *)
(* mark_queued_session_launching, spawn_session_now and                     *)
(* mark_queued_session_failed.  spawn_guard lets one task at a time run it. *)

SupPcs == {"idle", "select", "mark", "mark_persist", "mark_insert", "stage1",
           "stage1_persist", "check1", "stage2_persist", "spawn", "check2",
           "replace_persist", "replace_insert", "attach", "fail",
           "fail_persist", "fail_insert"}
IdleSup == [pc |-> "idle", s |-> 0, rt |-> NoRuntime, rec |-> NoRec]

\* The supervisor task owns the senders of sup.rt until it attaches them.
HoldsRuntime == {"check2", "replace_persist", "replace_insert", "attach"}

Launching(s) ==
    /\ mem[s].status \notin Terminal \cup {"absent", "queued"}
    /\ mem[s].status = "spawning" \/ Attached(s)

\* session_occupies_launch_capacity: a paused session does not count.
Occupies(s) == Launching(s) /\ mem[s].status \notin {"needs_input", "stuck"}

OccupyingIn(projects) ==
    {s \in Sessions : Occupies(s) /\ ProjectOf[mem[s].key] \in projects}

Fingerprint(s) == <<mem[s].key, mem[s].branch>>
ActiveFingerprints == {Fingerprint(s) : s \in {t \in Sessions : Launching(t)}}

\* Mutants: an off-by-one in the project limit, and no look at duplicates.
EligibleOneMore(s) ==
    /\ mem[s].status = "queued"
    /\ Cardinality(OccupyingIn(Projects)) < GlobalLimit
    /\ Fingerprint(s) \notin ActiveFingerprints
    /\ Cardinality(OccupyingIn({ProjectOf[mem[s].key]})) <= ProjectLimit

Eligible(s) ==
    /\ mem[s].status = "queued"
    /\ Cardinality(OccupyingIn(Projects)) < GlobalLimit
    /\ Fingerprint(s) \notin ActiveFingerprints
    /\ Cardinality(OccupyingIn({ProjectOf[mem[s].key]})) < ProjectLimit

Up == phase # "down"
\* discover_executors, once in each life of the server: an agent that a session
\* was launched with may have no executor in a later one.
Offered(key) == crashes = 0 \/ key \notin Uninstalled
SupAt(pc) == Up /\ sup.pc = pc
\* The clone is kept from the write of the file to the insert.
HoldsClone == {"mark_insert", "replace_insert", "fail_insert"}
SupGo(pc) == sup' = [sup EXCEPT !.pc = pc, !.rec = IF pc \in HoldsClone THEN @ ELSE NoRec]
SupLoop == sup' = [IdleSup EXCEPT !.pc = "select"]
SetMem(s, rec) == mem' = [mem EXCEPT ![s] = rec]
SetDisk(s, rec) == disk' = [disk EXCEPT ![s] = rec]
\* queue_hot_path_session_update, for an event the session took notice of.
QueueFlush(s) ==
    pend' = IF "flush" \in Background /\ mem[s].status \notin Terminal \cup {"absent"}
            THEN pend \cup {s} ELSE pend
DiskFails == "disk" \in Faults /\ UNCHANGED disk

TakeGuard ==
    /\ SupAt("idle") /\ kick
    /\ SupLoop
    /\ kick' = FALSE
    /\ UNCHANGED <<mem, disk, host, runtime, cmd, writes, boot>>

\* The oldest queued session that is neither a duplicate nor over a limit.
SelectNext(s) ==
    /\ SupAt("select")
    /\ Eligible(s)
    /\ \A t \in Sessions : Eligible(t) => s <= t
    /\ sup' = [IdleSup EXCEPT !.pc = "mark", !.s = s]
    /\ UNCHANGED <<mem, disk, host, runtime, kick, cmd, writes, boot>>

SelectNone ==
    /\ SupAt("select")
    /\ \A s \in Sessions : ~Eligible(s)
    /\ sup' = IdleSup
    /\ UNCHANGED <<mem, disk, host, runtime, kick, cmd, writes, boot>>

\* A session that left the queue since it was selected is not marked, and
\* the loop launches it all the same.
Mark ==
    /\ SupAt("mark")
    /\ IF mem[sup.s].status = "queued"
       THEN LET rec == [mem[sup.s] EXCEPT !.status = "spawning"]
            IN  /\ SetMem(sup.s, rec)
                /\ sup' = [sup EXCEPT !.pc = "mark_persist", !.rec = rec]
       ELSE SupGo("stage1") /\ UNCHANGED mem
    /\ UNCHANGED <<disk, host, runtime, kick, cmd, writes, boot>>

MarkPersist ==
    /\ SupAt("mark_persist")
    /\ \/ SetDisk(sup.s, sup.rec) /\ SupGo("mark_insert")
       \/ DiskFails /\ SupLoop
    /\ UNCHANGED <<mem, host, runtime, kick, cmd, writes, boot>>

MarkInsert ==
    /\ SupAt("mark_insert")
    /\ SetMem(sup.s, sup.rec)
    /\ SupGo("stage1")
    /\ UNCHANGED <<disk, host, runtime, kick, cmd, writes, boot>>

\* ensure_terminal_host, then the first update_launch_stage.
Stage1 ==
    /\ SupAt("stage1") /\ Offered(mem[sup.s].key)
    /\ host' = [host EXCEPT ![sup.s].there = TRUE]
    /\ sup' = [sup EXCEPT !.pc = "stage1_persist", !.rec = mem[sup.s]]
    /\ UNCHANGED <<mem, disk, runtime, kick, cmd, writes, boot>>

\* The result of an update_launch_stage is ignored.
StagePersist(pc, next) ==
    /\ SupAt(pc)
    /\ SetDisk(sup.s, sup.rec) \/ DiskFails
    /\ SupGo(next)
    /\ UNCHANGED <<mem, host, runtime, kick, cmd, writes, boot>>

\* The workspace is ready: a session that has ended is not launched; for any
\* other the stage "Starting agent runtime" is recorded.
Check1 ==
    /\ SupAt("check1")
    /\ IF mem[sup.s].status \in Terminal THEN SupGo("fail")
       ELSE sup' = [sup EXCEPT !.pc = "stage2_persist", !.rec = mem[sup.s]]
    /\ UNCHANGED <<mem, disk, host, runtime, kick, cmd, writes, boot>>

SpawnRuntime(r) ==
    /\ SupAt("spawn")
    /\ StartProcess(r, sup.s, "launch")
    /\ sup' = [sup EXCEPT !.pc = "check2", !.rt = r]
    /\ UNCHANGED <<mem, disk, host, timers, kick, cmd, writes, boot>>

\* No executor, or no workspace, or no process.
LaunchError ==
    /\ \/ SupAt("stage1") /\ ~Offered(mem[sup.s].key)
       \/ "process" \in Faults /\ (SupAt("check1") \/ SupAt("spawn"))
    /\ SupGo("fail")
    /\ UNCHANGED <<mem, disk, host, runtime, kick, cmd, writes, boot>>

\* The second look at the session, with the process already running; the
\* fresh record is built from here on and nothing looks at the session again.
Check2 ==
    /\ SupAt("check2")
    /\ IF mem[sup.s].status \in Terminal
       THEN SupGo("fail") /\ watch' = Signalled(watch, {Own(sup.rt)})
       ELSE /\ sup' = [sup EXCEPT !.pc = "replace_persist",
                                  !.rec = LaunchedRec(sup.s, mem[sup.s], sup.rt)]
            /\ UNCHANGED watch
    /\ UNCHANGED <<mem, disk, host, proc, timers, kick, cmd, writes, boot>>

ReplacePersist ==
    /\ SupAt("replace_persist")
    /\ \/ SetDisk(sup.s, sup.rec) /\ SupGo("replace_insert") /\ UNCHANGED watch
       \/ /\ DiskFails /\ SupGo("fail")
          /\ watch' = Signalled(watch, {Own(sup.rt)})
    /\ UNCHANGED <<mem, host, proc, timers, kick, cmd, writes, boot>>

ReplaceInsert ==
    /\ SupAt("replace_insert")
    /\ SetMem(sup.s, sup.rec)
    /\ SupGo("attach")
    /\ UNCHANGED <<disk, host, runtime, kick, cmd, writes, boot>>

\* Delivering the initial prompt fails when the process is already gone.
LaunchAttach ==
    /\ SupAt("attach")
    /\ AttachAndConsume(sup.s, Own(sup.rt))
    /\ timers' = timers \cup {sup.rt}
    /\ SupLoop \/ (~Live(sup.rt) /\ SupGo("fail"))
    /\ UNCHANGED <<mem, disk, proc, kick, cmd, writes, boot>>

\* Mutants: a failed launch goes back to the queue, or keeps its status.
FailRequeues ==
    /\ SupAt("fail")
    /\ LET rec == [mem[sup.s] EXCEPT !.status = "queued"]
       IN  SetMem(sup.s, rec) /\ sup' = [sup EXCEPT !.pc = "fail_persist", !.rec = rec]
    /\ UNCHANGED <<disk, host, runtime, kick, cmd, writes, boot>>

\* mark_queued_session_failed does not look at the status it overwrites.
Fail ==
    /\ SupAt("fail")
    /\ LET rec == [mem[sup.s] EXCEPT !.status = "errored"]
       IN  SetMem(sup.s, rec) /\ sup' = [sup EXCEPT !.pc = "fail_persist", !.rec = rec]
    /\ UNCHANGED <<disk, host, runtime, kick, cmd, writes, boot>>

FailPersist ==
    /\ SupAt("fail_persist")
    /\ \/ SetDisk(sup.s, sup.rec) /\ SupGo("fail_insert")
       \/ DiskFails /\ SupLoop
    /\ UNCHANGED <<mem, host, runtime, kick, cmd, writes, boot>>

FailInsert ==
    /\ SupAt("fail_insert")
    /\ SetMem(sup.s, sup.rec)
    /\ SupLoop
    /\ UNCHANGED <<disk, host, runtime, kick, cmd, writes, boot>>

\* The request whose task runs the loop goes away: its future is dropped,
\* spawn_guard is released and so are the senders of a runtime it holds.
CancelLaunch ==
    /\ "cancel" \in Faults
    /\ phase = "serving" /\ sup.pc # "idle"
    /\ watch' = Signalled(watch, IF sup.pc \in HoldsRuntime THEN {Own(sup.rt)} ELSE {})
    /\ sup' = IdleSup
    /\ UNCHANGED <<mem, disk, host, proc, timers, kick, cmd, writes, boot>>

Supervisor ==
    \/ TakeGuard \/ SelectNone \/ Mark \/ MarkPersist \/ MarkInsert \/ Stage1
    \/ \E s \in Sessions : SelectNext(s)
    \/ StagePersist("stage1_persist", "check1") \/ Check1
    \/ StagePersist("stage2_persist", "spawn")
    \/ \E r \in Runtimes : SpawnRuntime(r)
    \/ Check2 \/ ReplacePersist \/ ReplaceInsert \/ LaunchAttach
    \/ LaunchError \/ Fail \/ FailPersist \/ FailInsert

-----------------------------------------------------------------------------
(* Commands: the route handlers and the session timeout, each run by a task *)
(* of Clients.                                                              *)

CmdPcs == {"idle", "q_persist", "q_insert", "t_mark", "t_signal", "t_reap",
           "t_apply", "t_persist", "t_insert", "e_attach", "e_persist",
           "s_apply", "s_persist", "r_spawn", "r_apply", "r_persist",
           "r_insert", "r_attach", "x_persist", "x_enqueue"}
IdleCmd == [op |-> "spawn", pc |-> "idle", s |-> 0, rt |-> NoRuntime,
            rec |-> NoRec, issued |-> 0]
Idle(c) == [IdleCmd EXCEPT !.issued = cmd[c].issued]

\* The task owns the senders of the runtime it resumed, or of the group with
\* which it is reattaching one.
Holding == {"r_apply", "r_persist", "r_insert", "r_attach", "e_attach"}
HeldBy(c) ==
    CASE cmd[c].pc = "e_attach" -> {Restored(cmd[c].rt)}
      [] cmd[c].pc \in Holding \ {"e_attach"} -> {Own(cmd[c].rt)}
      [] OTHER -> {}

CmdAt(c, pc) == Up /\ cmd[c].pc = pc
Goto(c, pc) == cmd' = [cmd EXCEPT ![c].pc = pc]
GotoWith(c, pc, rec) == cmd' = [cmd EXCEPT ![c].pc = pc, ![c].rec = rec]
Finish(c) == cmd' = [cmd EXCEPT ![c] = Idle(c)]
Begin(c, op, pc, s, r, rec) ==
    /\ phase = "serving" /\ cmd[c].pc = "idle" /\ op \in Commands
    /\ cmd[c].issued < MaxCommands[c]
    /\ cmd' = [cmd EXCEPT ![c] = [op |-> op, pc |-> pc, s |-> s, rt |-> r, rec |-> rec,
                                  issued |-> @.issued + 1]]

Unused == {s \in Sessions : /\ mem[s].status = "absent" /\ disk[s].status = "absent"
                            /\ \A c \in Clients : cmd[c].s # s}
NextId(s) == s \in Unused /\ \A t \in Unused : s <= t

\* Mutant: the session is shown although its file could not be written.
EnqueueAnyway(c) ==
    /\ CmdAt(c, "q_persist")
    /\ SetDisk(cmd[c].s, cmd[c].rec) \/ DiskFails
    /\ Goto(c, "q_insert")
    /\ UNCHANGED <<mem, host, runtime, sup, kick, writes, boot>>

\* enqueue_session_spawn_inner: replace_session writes the file first.
Enqueue(c, s, key) ==
    /\ NextId(s)
    /\ Begin(c, "spawn", "q_persist", s, NoRuntime, QueuedRec(key, 0))
    /\ UNCHANGED <<mem, disk, host, runtime, sup, kick, writes, boot>>

EnqueuePersist(c) ==
    /\ CmdAt(c, "q_persist")
    /\ \/ SetDisk(cmd[c].s, cmd[c].rec) /\ Goto(c, "q_insert")
       \/ DiskFails /\ Finish(c)
    /\ UNCHANGED <<mem, host, runtime, sup, kick, writes, boot>>

EnqueueInsert(c) ==
    /\ CmdAt(c, "q_insert")
    /\ SetMem(cmd[c].s, cmd[c].rec)
    /\ kick' = TRUE
    /\ Finish(c)
    /\ UNCHANGED <<disk, host, runtime, sup, writes, boot>>

-----------------------------------------------------------------------------
(* kill_session and archive_session, called by their own routes, by the     *)
(* actions route (which does not kick the supervisor afterwards) and by the *)
(* timeout that start_output_consumer leaves running.                       *)

TermOps == {"kill", "archive", "action_kill", "action_archive", "timeout"}
TermAction(op) == IF op \in {"archive", "action_archive"} THEN "archive" ELSE "kill"
KickAfter == {"kill", "archive"}

\* mark_termination_requested.  cmd.rt records, for the properties only,
\* which runtime was attached when the command began.
TerminateStart(c, op, s) ==
    /\ op \in TermOps /\ Present(s)
    /\ LET rec == [mem[s] EXCEPT !.term = TermAction(op)]
       IN  /\ SetMem(s, rec)
           /\ Begin(c, op, "t_mark", s,
                    IF Attached(s) THEN host[s].input ELSE NoRuntime, rec)

Terminate(c, op, s) ==
    /\ op # "timeout"
    /\ TerminateStart(c, op, s)
    /\ UNCHANGED <<disk, host, runtime, sup, kick, writes, boot>>

\* Nothing cancels the timer when the runtime it was started for ends.
Timeout(c, r) ==
    /\ r \in timers
    /\ timers' = timers \ {r}
    /\ TerminateStart(c, "timeout", proc[r].s)
    /\ UNCHANGED <<disk, host, proc, watch, sup, kick, writes, boot>>

\* Mutant: a session that has already ended is left alone.
TermMarkUnlessEnded(c) ==
    /\ CmdAt(c, "t_mark")
    /\ \/ /\ mem[cmd[c].s].status \notin Terminal
          /\ SetDisk(cmd[c].s, cmd[c].rec) /\ Goto(c, "t_signal")
       \/ mem[cmd[c].s].status \in Terminal /\ Finish(c) /\ UNCHANGED disk
    /\ UNCHANGED <<mem, host, runtime, sup, kick, writes, boot>>

TermMark(c) ==
    /\ CmdAt(c, "t_mark")
    /\ \/ SetDisk(cmd[c].s, cmd[c].rec) /\ Goto(c, "t_signal")
       \/ DiskFails /\ Finish(c)
    /\ UNCHANGED <<mem, host, runtime, sup, kick, writes, boot>>

TermSignalFirst(c) ==
    /\ CmdAt(c, "t_signal")
    /\ LET s == cmd[c].s
           alone == \A d \in Clients \ {c} : cmd[d].s # s
       IN  /\ host' = [host EXCEPT ![s].kills = IF alone THEN {} ELSE @]
           /\ watch' = Signalled(watch, IF alone THEN host[s].kills ELSE {})
    /\ Goto(c, "t_reap")
    /\ UNCHANGED <<mem, disk, proc, timers, sup, kick, writes, boot>>

\* terminate_session_runtime: every sender the host holds, current and
\* retained, is taken and used.
TermSignal(c) ==
    /\ CmdAt(c, "t_signal")
    /\ host' = [host EXCEPT ![cmd[c].s].kills = {}]
    /\ watch' = Signalled(watch, host[cmd[c].s].kills)
    /\ Goto(c, "t_reap")
    /\ UNCHANGED <<mem, disk, proc, timers, sup, kick, writes, boot>>

\* After the grace period the pid on record is killed if it still runs, and
\* the host is removed whether or not that worked.
TermReap(c) ==
    /\ CmdAt(c, "t_reap")
    /\ LET s == cmd[c].s
           r == mem[s].pid
       IN  \/ /\ Live(r)
              /\ proc' = [proc EXCEPT ![r].st = "dead"]
              /\ \E event \in Outcomes : RemoveHost(s, Gone(watch, r, event))
              /\ Goto(c, "t_apply")
           \/ ~Live(r) /\ RemoveHost(s, watch) /\ Goto(c, "t_apply") /\ UNCHANGED proc
           \/ /\ Live(r) /\ "process" \in Faults
              /\ RemoveHost(s, watch) /\ Finish(c) /\ UNCHANGED proc
    /\ UNCHANGED <<mem, disk, timers, sup, kick, writes, boot>>

TermApply(c) ==
    /\ CmdAt(c, "t_apply")
    /\ LET s == cmd[c].s
           action == TermAction(cmd[c].op)
           rec == Terminated(mem[s], action)
       IN  IF action = "archive" /\ mem[s].status = "archived"
           THEN Finish(c) /\ kick' = (kick \/ cmd[c].op \in KickAfter) /\ UNCHANGED mem
           ELSE SetMem(s, rec) /\ GotoWith(c, "t_persist", rec) /\ UNCHANGED kick
    /\ UNCHANGED <<disk, host, runtime, sup, writes, boot>>

TermPersist(c) ==
    /\ CmdAt(c, "t_persist")
    /\ \/ SetDisk(cmd[c].s, cmd[c].rec) /\ Goto(c, "t_insert")
       \/ DiskFails /\ Finish(c)
    /\ UNCHANGED <<mem, host, runtime, sup, kick, writes, boot>>

TermInsert(c) ==
    /\ CmdAt(c, "t_insert")
    /\ SetMem(cmd[c].s, cmd[c].rec)
    /\ kick' = (kick \/ cmd[c].op \in KickAfter)
    /\ Finish(c)
    /\ UNCHANGED <<disk, host, runtime, sup, writes, boot>>

-----------------------------------------------------------------------------
(* The send route: ensure_session_live, then send_to_session, or            *)
(* resume_session_with_prompt for a paused session whose runtime is gone.   *)

\* A per-session guard serialises ensure_session_live.
GuardFree(s) ==
    \A c \in Clients : ~(cmd[c].s = s /\ cmd[c].pc \in {"e_attach", "e_persist"})

Recoverable(s) ==
    /\ mem[s].status \notin {"absent", "archived", "killed"}
    /\ mem[s].ttyd /\ mem[s].pid # NoRuntime
    /\ ~Attached(s)

SendLive(c, s) ==
    /\ GuardFree(s) /\ Attached(s) /\ Present(s)
    /\ Begin(c, "send", "s_apply", s, host[s].input, NoRec)
    /\ UNCHANGED <<mem, disk, host, runtime, sup, kick, writes, boot>>

\* restore_ttyd_runtime on a living process: a second monitor starts and a
\* new owner connects.  A runtime has at most one such group at a time here.  Where
\* the agent has no executor the message is refused and nothing changes.
SendRecover(c, s) ==
    /\ GuardFree(s) /\ Recoverable(s) /\ Offered(mem[s].key)
    /\ LET r == mem[s].pid
       IN  /\ Live(r) /\ watch[Restored(r)] = NoWatch
           /\ watch' = [watch EXCEPT ![Restored(r)] = Watched]
           /\ Begin(c, "send", "e_attach", s, r, NoRec)
    /\ UNCHANGED <<mem, disk, host, proc, timers, sup, kick, writes, boot>>

\* The process is dead: its session is told so, and a session that is now
\* waiting for input (or stuck) is resumed with the message.
SendExited(c, s) ==
    /\ GuardFree(s) /\ Recoverable(s)
    /\ ~Live(mem[s].pid)
    /\ LET rec == AfterExit(mem[s], "completed")
           resumes == rec.status \in {"needs_input", "stuck"}
       IN  /\ SetMem(s, rec)
           /\ host' = [host EXCEPT ![s] = DetachedHost(s)]
           /\ QueueFlush(s)
           /\ IF resumes THEN Begin(c, "send", "r_spawn", s, NoRuntime, NoRec)
              ELSE /\ phase = "serving" /\ cmd[c].pc = "idle" /\ "send" \in Commands
                   /\ UNCHANGED cmd
    /\ UNCHANGED <<disk, runtime, sup, kick, flush, boot>>

\* Attach, start the consumer and mark_session_runtime_restored; or give up
\* on the owner, which drops the new monitor's kill sender.
EnsureAttach(c) ==
    /\ CmdAt(c, "e_attach")
    /\ LET s == cmd[c].s
           rec == Recovered(mem[s])
       IN  \/ /\ AttachAndConsume(s, Restored(cmd[c].rt))
              /\ SetMem(s, rec)
              /\ IF rec # mem[s] THEN GotoWith(c, "e_persist", rec) ELSE Goto(c, "s_apply")
           \/ /\ "owner" \in Faults
              /\ watch' = Signalled(watch, HeldBy(c))
              /\ Finish(c)
              /\ UNCHANGED <<mem, host>>
    /\ UNCHANGED <<disk, proc, timers, sup, kick, writes, boot>>

EnsurePersist(c) ==
    /\ CmdAt(c, "e_persist")
    /\ \/ /\ SetDisk(cmd[c].s, cmd[c].rec)
          /\ IF Attached(cmd[c].s) THEN Goto(c, "s_apply") ELSE Finish(c)
       \/ DiskFails /\ Finish(c)
    /\ UNCHANGED <<mem, host, runtime, sup, kick, writes, boot>>

\* send_to_session cloned the input sender; it does not look at the status
\* it overwrites.
SendApply(c) ==
    /\ CmdAt(c, "s_apply")
    /\ LET rec == [mem[cmd[c].s] EXCEPT !.status = "working"]
       IN  SetMem(cmd[c].s, rec) /\ GotoWith(c, "s_persist", rec)
    /\ UNCHANGED <<disk, host, runtime, sup, kick, writes, boot>>

SendPersist(c) ==
    /\ CmdAt(c, "s_persist")
    /\ SetDisk(cmd[c].s, cmd[c].rec) \/ DiskFails
    /\ Finish(c)
    /\ UNCHANGED <<mem, host, runtime, sup, kick, writes, boot>>

ResumeSpawn(c, r) ==
    /\ CmdAt(c, "r_spawn") /\ Offered(mem[cmd[c].s].key)
    /\ StartProcess(r, cmd[c].s, "resume")
    /\ cmd' = [cmd EXCEPT ![c].pc = "r_apply", ![c].rt = r]
    /\ UNCHANGED <<mem, disk, host, timers, sup, kick, writes, boot>>

ResumeError(c) ==
    /\ CmdAt(c, "r_spawn")
    /\ "process" \in Faults \/ ~Offered(mem[cmd[c].s].key)
    /\ Finish(c)
    /\ UNCHANGED <<mem, disk, host, runtime, sup, kick, writes, boot>>

\* Of everything that may have happened to the session while the process
\* started, only an archive is noticed.
ResumeApply(c) ==
    /\ CmdAt(c, "r_apply")
    /\ LET s == cmd[c].s
           rec == [mem[s] EXCEPT !.status = "working", !.pid = cmd[c].rt]
       IN  IF mem[s].status = "archived"
           THEN watch' = Signalled(watch, HeldBy(c)) /\ Finish(c) /\ UNCHANGED mem
           ELSE SetMem(s, rec) /\ GotoWith(c, "r_persist", rec) /\ UNCHANGED watch
    /\ UNCHANGED <<disk, host, proc, timers, sup, kick, writes, boot>>

ResumePersist(c) ==
    /\ CmdAt(c, "r_persist")
    /\ \/ SetDisk(cmd[c].s, cmd[c].rec) /\ Goto(c, "r_insert") /\ UNCHANGED watch
       \/ DiskFails /\ Finish(c) /\ watch' = Signalled(watch, HeldBy(c))
    /\ UNCHANGED <<mem, host, proc, timers, sup, kick, writes, boot>>

ResumeInsert(c) ==
    /\ CmdAt(c, "r_insert")
    /\ SetMem(cmd[c].s, cmd[c].rec)
    /\ Goto(c, "r_attach")
    /\ UNCHANGED <<disk, host, runtime, sup, kick, writes, boot>>

\* With a native resume target the message itself is sent afterwards.
ResumeAttach(c) ==
    /\ CmdAt(c, "r_attach")
    /\ AttachAndConsume(cmd[c].s, Own(cmd[c].rt))
    /\ timers' = timers \cup {cmd[c].rt}
    /\ \/ Finish(c)
       \/ (Attached(cmd[c].s) \/ Live(cmd[c].rt)) /\ Goto(c, "s_apply")
    /\ UNCHANGED <<mem, disk, proc, sup, kick, writes, boot>>

-----------------------------------------------------------------------------
(* restore_session: the original is put aside and its request is queued     *)
(* again under a new id, with the branch the original had.                  *)

RestoreStart(c, s) ==
    /\ Present(s)
    /\ IF mem[s].status = "archived"
       THEN Begin(c, "restore", "x_enqueue", s, NoRuntime, mem[s]) /\ UNCHANGED mem
       ELSE LET rec == [mem[s] EXCEPT !.status = "restored"]
            IN  SetMem(s, rec) /\ Begin(c, "restore", "x_persist", s, NoRuntime, rec)
    /\ UNCHANGED <<disk, host, runtime, sup, kick, writes, boot>>

RestorePersist(c) ==
    /\ CmdAt(c, "x_persist")
    /\ SetDisk(cmd[c].s, cmd[c].rec) \/ DiskFails
    /\ Goto(c, "x_enqueue")
    /\ UNCHANGED <<mem, host, runtime, sup, kick, writes, boot>>

RestoreEnqueue(c, s) ==
    /\ CmdAt(c, "x_enqueue")
    /\ NextId(s)
    /\ cmd' = [cmd EXCEPT ![c] = [Idle(c) EXCEPT
                   !.pc = "q_persist", !.s = s,
                   !.rec = QueuedRec(cmd[c].rec.key, cmd[c].rec.branch)]]
    /\ UNCHANGED <<mem, disk, host, runtime, sup, kick, writes, boot>>

\* The client of a route goes away and the handler's future is dropped.
Cancel(c) ==
    /\ "cancel" \in Faults
    /\ Up /\ cmd[c].pc # "idle" /\ cmd[c].op # "timeout"
    /\ watch' = Signalled(watch, HeldBy(c))
    /\ Finish(c)
    /\ UNCHANGED <<mem, disk, host, proc, timers, sup, kick, writes, boot>>

\* What a client task does once it has begun.
Progress(c) ==
    \/ EnqueuePersist(c) \/ EnqueueInsert(c)
    \/ TermMark(c) \/ TermSignal(c) \/ TermReap(c)
    \/ TermApply(c) \/ TermPersist(c) \/ TermInsert(c)
    \/ EnsureAttach(c) \/ EnsurePersist(c) \/ SendApply(c) \/ SendPersist(c)
    \/ \E r \in Runtimes : ResumeSpawn(c, r)
    \/ ResumeError(c) \/ ResumeApply(c) \/ ResumePersist(c) \/ ResumeInsert(c)
    \/ ResumeAttach(c) \/ RestorePersist(c)
    \/ \E s \in Sessions : RestoreEnqueue(c, s)

Request(c) ==
    \/ \E s \in Sessions, key \in Keys : Enqueue(c, s, key)
    \/ \E s \in Sessions, op \in TermOps : Terminate(c, op, s)
    \/ \E r \in Runtimes : Timeout(c, r)
    \/ \E s \in Sessions : SendLive(c, s) \/ SendRecover(c, s) \/ SendExited(c, s)
                           \/ RestoreStart(c, s)

-----------------------------------------------------------------------------
(* What the runtimes do, and the tasks that watch them.                     *)

\* append_and_apply: output counts as activity while the session has a host.
Output(x) ==
    /\ Up /\ watch[x].con /\ "output" \in Background
    /\ LET s == proc[x[1]].s
       IN  /\ mem[s].status \notin Terminal \cup {"absent"}
           /\ SetMem(s, [mem[s] EXCEPT !.status = IF host[s].there THEN "working" ELSE @])
           /\ QueueFlush(s)
    /\ UNCHANGED <<disk, host, runtime, sup, kick, cmd, flush, boot>>

\* apply_runtime_event(NeedsInput); no one kicks the supervisor for it.
AsksInput(x) ==
    /\ Up /\ watch[x].con /\ "input" \in Background
    /\ LET s == proc[x[1]].s
       IN  /\ mem[s].status \notin Terminal \cup {"absent"}
           /\ SetMem(s, [mem[s] EXCEPT !.status = IF host[s].there THEN "needs_input" ELSE @])
           /\ QueueFlush(s)
    /\ UNCHANGED <<disk, host, runtime, sup, kick, cmd, flush, boot>>

Dies(r) ==
    /\ proc[r].st = "alive"
    /\ proc' = [proc EXCEPT ![r].st = "dead"]
    /\ \E event \in Outcomes : watch' = Gone(watch, r, event)
    /\ UNCHANGED <<mem, disk, host, timers, sup, kick, cmd, writes, boot>>

Exit(r) == Up /\ Dies(r)

Told(r) == \E x \in Groups : x[1] = r /\ watch[x].mon = "kill"

\* A monitor that was told to kill terminates the process group.
MonitorKills(r) == Up /\ Told(r) /\ Dies(r)

\* The consumer takes the last event: apply_runtime_event, which also
\* detaches whatever the host holds, then kick_spawn_supervisor.
Consume(x) ==
    /\ Up /\ watch[x].con /\ watch[x].evt # "none"
    /\ LET s == proc[x[1]].s
       IN  /\ SetMem(s, AfterExit(mem[s], watch[x].evt))
           /\ host' = [host EXCEPT ![s] = DetachedHost(s)]
           /\ QueueFlush(s)
    /\ watch' = [watch EXCEPT ![x].con = FALSE, ![x].evt = "none"]
    /\ kick' = TRUE
    /\ UNCHANGED <<disk, proc, timers, sup, cmd, flush, boot>>

\* The monitor's own detach, by session id, some time after its event.
MonitorDetach(x) ==
    /\ Up /\ watch[x].mon = "detach"
    /\ host' = [host EXCEPT ![proc[x[1]].s] = DetachedHost(proc[x[1]].s)]
    /\ watch' = [watch EXCEPT ![x].mon = "off"]
    /\ UNCHANGED <<mem, disk, proc, timers, sup, kick, cmd, writes, boot>>

\* start_session_flush_watchdog: drain, clone, then write file by file.
FlushDrain ==
    /\ Up /\ pend # {}
    /\ \A s \in Sessions : flush[s] = NoRec
    /\ flush' = [s \in Sessions |-> IF s \in pend THEN mem[s] ELSE NoRec]
    /\ pend' = {}
    /\ UNCHANGED <<mem, disk, host, runtime, sup, kick, cmd, boot>>

FlushWrite(s) ==
    /\ Up /\ flush[s] # NoRec
    /\ SetDisk(s, flush[s]) \/ DiskFails
    /\ flush' = [flush EXCEPT ![s] = NoRec]
    /\ UNCHANGED <<mem, host, runtime, sup, kick, cmd, pend, boot>>

-----------------------------------------------------------------------------
(* The backend stops at any moment; the ttyd processes are detached and     *)
(* live on.  Nothing but the session files outlives it.                     *)

Crash ==
    /\ Up /\ crashes < MaxCrashes
    /\ phase' = "down"
    /\ crashes' = crashes + 1
    /\ todo' = {}
    /\ mem' = [s \in Sessions |-> NoRec]
    /\ host' = [s \in Sessions |-> NoHost]
    /\ watch' = [x \in Groups |-> NoWatch]
    /\ sup' = IdleSup
    /\ kick' = FALSE
    /\ cmd' = [c \in Clients |-> Idle(c)]
    /\ pend' = {}
    /\ flush' = [s \in Sessions |-> NoRec]
    /\ timers' = {}
    /\ UNCHANGED <<disk, proc>>

\* AppState::new loads and normalises; discovering the executors kicks the
\* supervisor and waits for it.
BootLoad ==
    /\ phase = "down"
    /\ phase' = "launch"
    /\ mem' = [s \in Sessions |-> Normalized(disk[s])]
    /\ disk' = [s \in Sessions |-> Normalized(disk[s])]
    /\ kick' = TRUE
    /\ UNCHANGED <<host, runtime, sup, cmd, writes, todo, crashes>>

Unfinished == {s \in Sessions : mem[s].status \notin Terminal \cup {"absent"}}

BootLaunched ==
    /\ phase = "launch" /\ sup.pc = "idle" /\ ~kick
    /\ phase' = "archive"
    /\ todo' = {s \in Unfinished : ~mem[s].ttyd}
    /\ UNCHANGED <<mem, disk, host, runtime, sup, kick, cmd, writes, crashes>>

\* archive_stale_non_ttyd_sessions
BootArchive(s) ==
    /\ phase = "archive" /\ s \in todo
    /\ LET rec == [mem[s] EXCEPT !.status = "archived", !.pid = NoRuntime]
       IN  SetMem(s, rec) /\ (SetDisk(s, rec) \/ DiskFails)
    /\ todo' = todo \ {s}
    /\ UNCHANGED <<host, runtime, sup, kick, cmd, writes, phase, crashes>>

\* Mutant: only the sessions that were at work are looked at again.
BootArchivedAtWork ==
    /\ phase = "archive" /\ todo = {}
    /\ phase' = "restore"
    /\ todo' = {s \in Unfinished : mem[s].ttyd /\ mem[s].status = "stuck"}
    /\ UNCHANGED <<mem, disk, host, runtime, sup, kick, cmd, writes, crashes>>

BootArchived ==
    /\ phase = "archive" /\ todo = {}
    /\ phase' = "restore"
    /\ todo' = {s \in Unfinished : mem[s].ttyd}
    /\ UNCHANGED <<mem, disk, host, runtime, sup, kick, cmd, writes, crashes>>

\* restore_runtime_sessions: one restore_ttyd_runtime per session.  The monitor
\* of one whose owner fails has only its order to kill left; it takes the place
\* of the process's own group, which ended with the server that started it.
BootReattach(s) ==
    /\ phase = "restore" /\ s \in todo
    /\ Live(mem[s].pid) /\ ~Attached(s) /\ watch[Restored(mem[s].pid)] = NoWatch
    /\ Offered(mem[s].key)
    /\ todo' = todo \ {s}
    /\ LET x == Restored(mem[s].pid)
           rec == Recovered(mem[s])
       IN  \/ /\ host' = [host EXCEPT ![s] = AttachedHost(s, x)]
              /\ watch' = [watch EXCEPT ![x] = [Watched EXCEPT !.con = TRUE]]
              /\ SetMem(s, rec)
              /\ SetDisk(s, rec) \/ DiskFails
           \/ /\ "owner" \in Faults
              /\ watch[Own(mem[s].pid)] = NoWatch
              /\ watch' = [watch EXCEPT ![Own(mem[s].pid)] = [Watched EXCEPT !.mon = "kill"]]
              /\ UNCHANGED <<mem, disk, host>>
    /\ UNCHANGED <<proc, timers, sup, kick, cmd, writes, phase, crashes>>

BootExited(s) ==
    /\ phase = "restore" /\ s \in todo
    /\ mem[s].pid # NoRuntime /\ ~Live(mem[s].pid) /\ ~Attached(s)
    /\ todo' = todo \ {s}
    /\ SetMem(s, AfterExit(mem[s], "completed"))
    /\ host' = [host EXCEPT ![s] = DetachedHost(s)]
    /\ QueueFlush(s)
    /\ UNCHANGED <<disk, runtime, sup, kick, cmd, flush, phase, crashes>>

\* Already attached: nothing to do.  No pid on record, or a living process whose
\* agent has no executor: an error that is only logged, before anything watches
\* the process or is attached to it.
BootSkip(s) ==
    /\ phase = "restore" /\ s \in todo
    /\ \/ Attached(s) \/ mem[s].pid = NoRuntime
       \/ Live(mem[s].pid) /\ ~Offered(mem[s].key)
    /\ todo' = todo \ {s}
    /\ UNCHANGED <<mem, disk, host, runtime, sup, kick, cmd, writes, phase, crashes>>

BootServe ==
    /\ phase = "restore" /\ todo = {}
    /\ phase' = "serving"
    /\ kick' = TRUE
    /\ UNCHANGED <<mem, disk, host, runtime, sup, cmd, writes, todo, crashes>>

Boot ==
    \/ BootLoad \/ BootLaunched \/ BootArchived \/ BootServe
    \/ \E s \in Sessions : BootArchive(s) \/ BootReattach(s) \/ BootExited(s) \/ BootSkip(s)

-----------------------------------------------------------------------------
Init ==
    /\ mem = [s \in Sessions |-> NoRec]
    /\ disk = [s \in Sessions |-> NoRec]
    /\ host = [s \in Sessions |-> NoHost]
    /\ proc = [r \in Runtimes |-> NoProc]
    /\ watch = [x \in Groups |-> NoWatch]
    /\ sup = IdleSup
    /\ kick = FALSE
    /\ cmd = [c \in Clients |-> IdleCmd]
    /\ pend = {}
    /\ flush = [s \in Sessions |-> NoRec]
    /\ timers = {}
    /\ phase = "serving"
    /\ todo = {}
    /\ crashes = 0

Events ==
    \/ \E x \in Groups : Output(x) \/ AsksInput(x) \/ Consume(x) \/ MonitorDetach(x)
    \/ \E r \in Runtimes : Exit(r) \/ MonitorKills(r)
    \/ FlushDrain
    \/ \E s \in Sessions : FlushWrite(s)

Next ==
    \/ Supervisor \/ CancelLaunch
    \/ \E c \in Clients : Request(c) \/ Progress(c) \/ Cancel(c)
    \/ Events
    \/ Crash \/ Boot

Spec == Init /\ [][Next]_vars

\* The runtime polls every task: the supervisor, a command that has begun, a
\* monitor with an order or a report, a consumer with an event, the watchdog,
\* and the start-up.  Nothing makes a client ask or an agent speak or exit.
Fairness ==
    /\ WF_vars(Supervisor)
    /\ \A c \in Clients : WF_vars(Progress(c))
    /\ \A r \in Runtimes : WF_vars(MonitorKills(r))
    /\ \A x \in Groups : WF_vars(Consume(x)) /\ WF_vars(MonitorDetach(x))
    /\ WF_vars(FlushDrain)
    /\ \A s \in Sessions : WF_vars(FlushWrite(s))
    /\ WF_vars(Boot)

FairSpec == Spec /\ Fairness

-----------------------------------------------------------------------------
\* The types of every variable.
HostRec == [there : BOOLEAN, input : Runtimes \cup {NoRuntime}, kills : SUBSET Groups]
ProcRec == [st : {"free", "alive", "dead"}, s : Branches,
            by : {"launch", "resume"}, life : Nat]
WatchRec == [mon : {"off", "run", "kill", "detach"}, con : BOOLEAN,
             evt : {"none", "completed", "failed"}]
SupRec == [pc : SupPcs, s : Branches, rt : Runtimes \cup {NoRuntime}, rec : Rec]
CmdRec == [op : CommandNames, pc : CmdPcs, s : Branches,
           rt : Runtimes \cup {NoRuntime}, rec : Rec, issued : Nat]

Started(r) == r \in Runtimes /\ proc[r].st # "free"

StoreOK ==
    /\ mem \in [Sessions -> Rec] /\ disk \in [Sessions -> Rec]
    /\ flush \in [Sessions -> Rec] /\ pend \in SUBSET Sessions

HostOK == host \in [Sessions -> HostRec]

RuntimeOK ==
    /\ proc \in [Runtimes -> ProcRec] /\ watch \in [Groups -> WatchRec]
    /\ timers \subseteq {r \in Runtimes : Started(r)}
    /\ \A r \in Runtimes : Started(r) => proc[r].s \in Sessions
    /\ \A x \in Groups : watch[x].con \/ watch[x].mon # "off" => Started(x[1])

SupOK ==
    /\ sup \in SupRec
    /\ sup.pc \notin {"idle", "select"} => sup.s \in Sessions
    /\ sup.pc \in HoldsRuntime => Started(sup.rt)

CmdOK ==
    /\ cmd \in [Clients -> CmdRec]
    /\ \A c \in Clients : /\ cmd[c].pc # "idle" => cmd[c].s \in Sessions
                          /\ cmd[c].pc \in Holding => Started(cmd[c].rt)

ServerOK ==
    /\ kick \in BOOLEAN /\ crashes \in Nat
    /\ phase \in {"serving", "down", "launch", "archive", "restore"}
    /\ todo \in SUBSET Sessions

\* Every variable has its type, and nobody works on what does not exist: a
\* busy supervisor or command has a session and a started process where it
\* holds one; only started processes have watchers and timers.
TypeOK == StoreOK /\ HostOK /\ RuntimeOK /\ SupOK /\ CmdOK /\ ServerOK

\* The supervisor starts at most one process for a session in one life of the
\* server, however launches, kills, resumes, restores, late events and stale
\* clones interleave: a session never re-enters the queue while the server
\* lives (spawn_queue.rs, kick_spawn_supervisor).
LaunchOnce ==
    \A r, q \in Runtimes :
        (/\ proc[r].st # "free" /\ proc[q].st # "free"
         /\ proc[r].by = "launch" /\ proc[q].by = "launch"
         /\ proc[r].s = proc[q].s /\ proc[r].life = proc[q].life) => r = q

Doomed(r) == proc[r].st = "dead" \/ Told(r)

\* Once a kill, an archive or a timeout has sent its signals, the runtime
\* that was attached when it began is dead or has a monitor with the order to
\* kill it, even if a late detach of an older runtime, another attach or
\* another termination came in between (terminate_session_runtime and the
\* senders that detach_runtime retains).
KillReachesRuntime ==
    \A c \in Clients :
        cmd[c].pc \in {"t_reap", "t_apply", "t_persist", "t_insert"}
            => cmd[c].rt = NoRuntime \/ Doomed(cmd[c].rt)

\* A session any client can see is in a file, so a restart cannot lose it
\* (replace_session writes before it inserts).
SeenIsSaved == \A s \in DOMAIN mem : Present(s) => disk[s].status # "absent"

\* At most one session is being launched, the one the supervisor has in
\* hand: unless the request that runs the loop is dropped or a file cannot be
\* written, no error path leaves another one behind as "spawning".
OneSpawning ==
    \A s \in Sessions : mem[s].status = "spawning" => sup.pc # "idle" /\ sup.s = s

\* No clone, event or start-up step returns a session to the queue while the
\* server lives; only normalize_loaded_session does, when a new one loads.
NeverRequeued ==
    [][\A s \in Sessions :
          (phase # "down" /\ Present(s) /\ mem[s].status # "queued")
              => mem'[s].status # "queued"]_vars

\* While no paused session goes back to work, the sessions that are spawning
\* or at work never outnumber the limits, whatever is killed during a launch
\* (launch_capacity_snapshot looks at the sessions once, before the launch).
WithinLimits ==
    /\ Cardinality(OccupyingIn(Projects)) <= GlobalLimit
    /\ \A p \in Projects : Cardinality(OccupyingIn({p})) <= ProjectLimit

\* Two sessions with the same project, prompt, agent and branch are never
\* both launching or live (the fingerprints of next_queueable_spawn).
NoDuplicateLaunch ==
    \A s, t \in Sessions :
        Launching(s) /\ Launching(t) /\ Fingerprint(s) = Fingerprint(t) => s = t

\* What the limits are about: requests that start and end sessions, in one
\* life of the server.  A message or a restore puts a session to work that
\* was not counted, and so does a restart that finds processes alive.
StartsAndEnds == Commands \cap {"send", "restore"} = {} /\ MaxCrashes = 0

\* An agent that asked for input stays paused.
StaysPaused == "input" \notin Background \/ "output" \notin Background

\* What is kept of the launches, each under the requests and the faults it
\* needs: capacity and fingerprints are looked at once, before a launch
\* (launch_capacity_snapshot, next_queueable_spawn), and a loop that is dropped
\* or a file that cannot be written leaves its session behind.
LaunchesWithinLimits ==
    /\ TypeOK
    /\ StartsAndEnds => NoDuplicateLaunch
    /\ StartsAndEnds /\ StaysPaused => WithinLimits
    /\ Faults \cap {"cancel", "disk"} = {} => OneSpawning

\* No wake-up is lost: a session that may be launched does not stay so for
\* ever, whichever of the exits, kills and failures made room for it.
EligibleIsLaunched == \A s \in Sessions : Eligible(s) ~> ~Eligible(s)

\* A launch that has begun comes to an end, unless the request that runs it is
\* dropped or a file cannot be written: the session is working, ended or
\* failed, never "spawning" for ever.
LaunchResolves ==
    \A s \in Sessions : mem[s].status = "spawning" ~> mem[s].status # "spawning"

\* The runtime that was attached when a kill began is dead in the end.
KilledRuntimeDies ==
    \A c \in Clients, r \in Runtimes :
        (cmd[c].pc = "t_mark" /\ cmd[c].rt = r) ~> proc[r].st = "dead"

\* When the server accepts requests again, every unfinished session whose
\* record names a living process is attached to it (restore_runtime_sessions),
\* whatever was in progress when the server stopped and whatever was launched
\* since.  Two things may keep it from that: its owner failed, and then its
\* monitor has the order to kill it; or its agent is not installed any more, and
\* then it lives on with nobody to watch it (see NobodyUnwatched).
Reattaches ==
    phase = "restore" /\ phase' = "serving" =>
        \A s \in DOMAIN mem \ {sup.s} :
            mem[s].status \notin Terminal /\ Live(mem[s].pid) /\ Offered(mem[s].key)
                => \/ Attached(s)
                   \/ "owner" \in Faults /\ watch[Own(mem[s].pid)].mon = "kill"
SurvivorsAreReattached == [][Reattaches]_vars

-----------------------------------------------------------------------------
(* What comments and tests of the repository say and the code does not do.  *)

Quiet == phase = "serving" /\ sup.pc = "idle" /\ \A c \in Clients : cmd[c].pc = "idle"

\* archive_session_removes_live_runtime_...: "live runtime should terminate".
\* Once nothing is in progress, no archived session has a runtime that lives
\* on with no order to die.
ArchivedHasNoRuntime ==
    Quiet => \A r \in Runtimes : proc[r].st = "alive" /\ ~Told(r)
                                 => mem[proc[r].s].status # "archived"

\* attach_runtime: "so concurrent restores cannot both decide the runtime is
\* detached and install competing channel sets".  Where nobody kills, no
\* runtime is told to die.
SendingKillsNothing == \A r \in Runtimes : ~(proc[r].st = "alive" /\ Told(r))

\* archive_stale_non_ttyd_sessions: "Archive any non-ttyd sessions that
\* survived previous restarts as Stuck/Working.  These are legacy sessions".
\* A session that is waiting in the queue is none of them.
QueueSurvivesRestart ==
    [][\A s \in Sessions : phase = "archive" /\ mem[s].status = "queued"
                            => mem'[s].status # "archived"]_vars

\* restore_runtime_sessions: "Clean up orphaned ttyd processes from previous
\* server runs before restoring sessions".  A server that is up has, of the
\* processes of earlier ones, only those a session knows.
NoOrphanAfterRestart ==
    phase = "serving" =>
        \A r \in Runtimes : proc[r].st = "alive" /\ proc[r].life < crashes
                            => mem[proc[r].s].pid = r

\* restore_ttyd_runtime: "If the ttyd process is still alive, reconnect mirror
\* and input forwarder".  A server that is up watches each living process that an
\* unfinished session names; it does not if the agent has no executor.
NobodyUnwatched ==
    phase = "serving" =>
        \A s \in DOMAIN mem \ {sup.s} :
            mem[s].status \notin Terminal /\ Live(mem[s].pid)
                => \E x \in Groups : x[1] = mem[s].pid /\ watch[x].mon # "off"

\* queued_spawn_requests_ignore_paused_sessions_without_live_runtimes:
\* "queued session should not be blocked by paused sessions".
PausedDoNotBlock ==
    \A s \in Sessions :
        (mem[s].status = "queued" /\ OccupyingIn(Projects) = {})
            ~> mem[s].status # "queued"

=============================================================================
