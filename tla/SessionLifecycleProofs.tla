----------------------- MODULE SessionLifecycleProofs -----------------------
(***************************************************************************)
(* Proofs about SessionLifecycle, for every number of sessions, processes  *)
(* and clients, every fault and every bound.                               *)
(***************************************************************************)
EXTENDS SessionLifecycle, FiniteSetTheorems, TLAPS

-----------------------------------------------------------------------------
(* What the operators on records and watchers return.                       *)

\* The empty record is a record.
LEMMA NoRecType == NoRec \in Rec
BY KeysAssumption DEF NoRec, Rec, Branches, Status, Terminal

\* A record keeps its type under the updates the handlers write in place.
LEMMA RecTypes ==
    ASSUME NEW rec \in Rec
    PROVE  /\ rec.status \in Status
           /\ \A v \in Status : [rec EXCEPT !.status = v] \in Rec
           /\ \A t \in {"none", "kill", "archive"} : [rec EXCEPT !.term = t] \in Rec
           /\ \A v \in Status, p \in Runtimes \cup {NoRuntime} :
                 [rec EXCEPT !.status = v, !.pid = p] \in Rec
BY DEF Rec

\* A queued session's record is a record.
LEMMA QueuedRecType ==
    ASSUME NEW key \in Keys, NEW branch \in Branches
    PROVE  QueuedRec(key, branch) \in Rec
BY NoRecType DEF QueuedRec, Rec, Status

\* So is the record of a launched session.
LEMMA LaunchedRecType ==
    ASSUME NEW s \in Sessions, NEW old \in Rec, NEW r \in Runtimes
    PROVE  LaunchedRec(s, old, r) \in Rec
BY DEF LaunchedRec, Rec, Status, Branches

\* Terminations, exits, the start-up's normalisation and a reattachment keep
\* a record a record.
LEMMA ChangedRecTypes ==
    ASSUME NEW rec \in Rec
    PROVE  /\ \A action : Terminated(rec, action) \in Rec
           /\ \A event : AfterExit(rec, event) \in Rec
           /\ Normalized(rec) \in Rec
           /\ Recovered(rec) \in Rec
BY DEF Terminated, Ended, AfterExit, Normalized, Recovered, Rec, Status, Terminal

\* A signal changes no watcher's consumer, and stops and starts no monitor.
LEMMA SignalledType ==
    ASSUME NEW W \in [Groups -> WatchRec], NEW K
    PROVE  /\ Signalled(W, K) \in [Groups -> WatchRec]
           /\ \A x \in Groups : /\ Signalled(W, K)[x].con = W[x].con
                                /\ Signalled(W, K)[x].mon = "off" <=> W[x].mon = "off"
BY DEF Signalled, WatchRec

\* Neither does the news that a process is gone.
LEMMA GoneType ==
    ASSUME NEW W \in [Groups -> WatchRec], NEW r \in Runtimes, NEW event \in Outcomes
    PROVE  /\ Gone(W, r, event) \in [Groups -> WatchRec]
           /\ \A x \in Groups : /\ Gone(W, r, event)[x].con = W[x].con
                                /\ Gone(W, r, event)[x].mon = "off" <=> W[x].mon = "off"
BY DEF Gone, Outcomes, WatchRec

-----------------------------------------------------------------------------
(* What the building blocks of the actions preserve.                        *)

\* Storing a record in memory or on disk.
LEMMA SetMemType ==
    ASSUME StoreOK, NEW s \in Sessions, NEW rec \in Rec, SetMem(s, rec)
    PROVE  mem' \in [Sessions -> Rec]
BY DEF StoreOK, SetMem

\* Writing a session file with a record leaves every file a record.
LEMMA SetDiskType ==
    ASSUME StoreOK, NEW s \in Sessions, NEW rec \in Rec, SetDisk(s, rec)
    PROVE  disk' \in [Sessions -> Rec]
BY DEF StoreOK, SetDisk

\* Queueing a flush.
LEMMA QueueFlushType ==
    ASSUME StoreOK, NEW s \in Sessions, QueueFlush(s)
    PROVE  pend' \in SUBSET Sessions
BY DEF StoreOK, QueueFlush

\* The supervisor goes on, with or without a clone, or starts over.
LEMMA SupGoType ==
    ASSUME SupOK, UNCHANGED proc, NEW pc \in SupPcs, SupGo(pc),
           pc \notin {"idle", "select"} => sup.s \in Sessions,
           pc \in HoldsRuntime => sup.pc \in HoldsRuntime
    PROVE  SupOK'
BY NoRecType DEF SupOK, SupGo, SupRec, Started

\* The supervisor takes a clone and moves on with the session it has in hand.
LEMMA SupCloneType ==
    ASSUME SupOK, UNCHANGED proc, NEW pc \in SupPcs, NEW rec \in Rec,
           sup' = [sup EXCEPT !.pc = pc, !.rec = rec], sup.s \in Sessions,
           pc \in HoldsRuntime => sup.pc \in HoldsRuntime
    PROVE  SupOK'
BY DEF SupOK, SupRec, Started

\* A supervisor that has nothing in hand is of its type at every step.
LEMMA IdleSupType ==
    /\ IdleSup \in SupRec
    /\ \A s \in Sessions, pc \in SupPcs : [IdleSup EXCEPT !.pc = pc, !.s = s] \in SupRec
    /\ \A pc \in SupPcs : [IdleSup EXCEPT !.pc = pc] \in SupRec
BY NoRecType, ZenonT(60) DEF IdleSup, SupRec, SupPcs, Branches

\* Going back to the selection leaves the supervisor with nothing to hold.
LEMMA SupLoopType ==
    ASSUME SupLoop
    PROVE  SupOK'
<1>1. "select" \in SupPcs /\ "select" \notin HoldsRuntime
  BY DEF SupPcs, HoldsRuntime
<1>2. sup' \in SupRec /\ sup'.pc = "select"
  BY <1>1, IdleSupType DEF SupLoop, IdleSup
<1> QED
  BY <1>1, <1>2 DEF SupOK

\* A command begins, goes on with or without a clone, or finishes.
LEMMA GotoType ==
    ASSUME CmdOK, UNCHANGED proc, NEW c \in Clients, NEW pc \in CmdPcs, Goto(c, pc),
           cmd[c].pc # "idle", pc \in Holding => cmd[c].pc \in Holding
    PROVE  CmdOK'
BY DEF CmdOK, Goto, CmdRec, Started

\* The same where the step may start or end a process.
LEMMA GotoStartedType ==
    ASSUME CmdOK, NEW c \in Clients, NEW pc \in CmdPcs,
           NEW r \in Runtimes \cup {NoRuntime},
           cmd' = [cmd EXCEPT ![c] = [cmd[c] EXCEPT !.pc = pc, !.rt = r]],
           \A q \in Runtimes : Started(q) => Started(q)',
           cmd[c].pc # "idle", pc \in Holding => Started(r)'
    PROVE  CmdOK'
<1>1. cmd' \in [Clients -> CmdRec] /\ cmd'[c].pc = pc /\ cmd'[c].rt = r /\ cmd'[c].s = cmd[c].s
      /\ \A d \in Clients \ {c} : cmd'[d] = cmd[d]
  BY DEF CmdOK, CmdRec
<1>2. \A d \in Clients : Started(cmd[d].rt) => cmd[d].rt \in Runtimes
  BY DEF Started
<1>3. \A d \in Clients : (cmd[d].pc \in Holding => Started(cmd[d].rt))'
  BY <1>1, <1>2 DEF CmdOK, Started
<1> QED
  BY <1>1, <1>3 DEF CmdOK

\* A command that takes a clone and moves on stays of its type.
LEMMA GotoWithType ==
    ASSUME CmdOK, UNCHANGED proc, NEW c \in Clients, NEW pc \in CmdPcs, NEW rec \in Rec,
           GotoWith(c, pc, rec), cmd[c].pc # "idle",
           pc \in Holding => cmd[c].pc \in Holding
    PROVE  CmdOK'
BY DEF CmdOK, GotoWith, CmdRec, Started

\* A command without a task is of its type.
LEMMA IdleType ==
    ASSUME CmdOK, NEW c \in Clients
    PROVE  /\ Idle(c) \in CmdRec /\ Idle(c).pc = "idle"
           /\ IdleCmd \in CmdRec /\ IdleCmd.pc = "idle"
BY NoRecType DEF CmdOK, Idle, IdleCmd, CmdRec, CommandNames, CmdPcs, Branches

\* The end of a command leaves every command of its type.
LEMMA FinishType ==
    ASSUME CmdOK, UNCHANGED proc, NEW c \in Clients, Finish(c)
    PROVE  CmdOK'
BY IdleType DEF CmdOK, Finish, Holding, Started

\* A command that begins on a session, holding a started runtime or none,
\* leaves every command of its type.
LEMMA BeginType ==
    ASSUME CmdOK, UNCHANGED proc, NEW c \in Clients, NEW op, NEW pc \in CmdPcs,
           NEW s \in Sessions, NEW r \in Runtimes \cup {NoRuntime}, NEW rec \in Rec,
           Begin(c, op, pc, s, r, rec), pc \in Holding => Started(r)
    PROVE  CmdOK'
<1>1. op \in CommandNames /\ cmd[c].issued + 1 \in Nat
  BY CommandsAssumption DEF Begin, CmdOK, CmdRec
<1>2. [op |-> op, pc |-> pc, s |-> s, rt |-> r, rec |-> rec,
       issued |-> cmd[c].issued + 1] \in CmdRec
  BY <1>1 DEF CmdRec, Branches
<1> QED
  BY <1>2 DEF Begin, CmdOK, Started

\* A signal, and the start of a process.
LEMMA SignalType ==
    ASSUME RuntimeOK, NEW K, watch' = Signalled(watch, K), UNCHANGED <<proc, timers>>
    PROVE  RuntimeOK'
BY SignalledType DEF RuntimeOK, Started

\* A process that starts, for a launch or a resume, keeps the runtimes' types
\* and leaves every started process started.
LEMMA StartType ==
    ASSUME RuntimeOK, ServerOK, NEW r \in Runtimes, NEW s \in Sessions,
           NEW by \in {"launch", "resume"}, StartProcess(r, s, by), UNCHANGED timers
    PROVE  /\ RuntimeOK'
           /\ \A q \in Runtimes : Started(q) => Started(q)'
           /\ Started(r)'
<1>1. /\ proc' \in [Runtimes -> ProcRec] /\ proc'[r].st = "alive" /\ proc'[r].s = s
      /\ \A q \in Runtimes \ {r} : proc'[q] = proc[q]
  BY DEF RuntimeOK, ServerOK, StartProcess, ProcRec, Branches
<1>2. watch' \in [Groups -> WatchRec] /\ \A x \in Groups : x # Own(r) => watch'[x] = watch[x]
  BY DEF RuntimeOK, StartProcess, Watched, WatchRec, Own, Groups
<1>3. Own(r)[1] = r /\ \A x \in Groups : x[1] \in Runtimes
  BY DEF Own, Groups
<1> QED
  BY <1>1, <1>2, <1>3 DEF RuntimeOK, Started

\* An attach, which starts the consumer of a process that was started.
LEMMA AttachType ==
    ASSUME RuntimeOK, HostOK, NEW s \in Sessions, NEW x \in Groups, Started(x[1]),
           AttachAndConsume(s, x), UNCHANGED proc,
           timers' = timers \/ timers' = timers \cup {x[1]}
    PROVE  RuntimeOK' /\ HostOK'
<1>1. HostOK'
  BY DEF HostOK, AttachAndConsume, AttachedHost, HostRec, Groups
<1> DEFINE W == Signalled(watch, IF Attached(s) THEN {x} ELSE {})
<1>2. W \in [Groups -> WatchRec] /\ \A y \in Groups : W[y].con = watch[y].con
                                       /\ (W[y].mon = "off" <=> watch[y].mon = "off")
  BY SignalledType DEF RuntimeOK
<1>3. watch' = [W EXCEPT ![x].con = TRUE]
  BY DEF AttachAndConsume
<1> HIDE DEF W
<1>4. watch' \in [Groups -> WatchRec] /\ \A y \in Groups : watch'[y].mon = W[y].mon
                                       /\ (y # x => watch'[y].con = watch[y].con)
  BY <1>2, <1>3 DEF WatchRec
<1>5. timers' \subseteq {r \in Runtimes : Started(r)}
  BY DEF RuntimeOK, Started
<1> QED
  BY <1>1, <1>2, <1>4, <1>5 DEF RuntimeOK, Started

\* The host of a session is removed, with news for its watchers or without.
LEMMA RemoveHostType ==
    ASSUME HostOK, NEW s \in Sessions, NEW W \in [Groups -> WatchRec], RemoveHost(s, W)
    PROVE  /\ HostOK'
           /\ watch' \in [Groups -> WatchRec]
           /\ \A x \in Groups : /\ watch'[x].con = W[x].con
                                /\ watch'[x].mon = "off" <=> W[x].mon = "off"
BY SignalledType DEF HostOK, RemoveHost, NoHost, HostRec

\* What a step leaves alone keeps its type; a process never becomes unstarted.
LEMMA FrameType ==
    ASSUME TypeOK
    PROVE  /\ (mem' = mem /\ disk' = disk /\ pend' = pend /\ flush' = flush) => StoreOK'
           /\ (mem' \in [Sessions -> Rec] /\ disk' = disk
                 /\ pend' \in SUBSET Sessions /\ flush' = flush) => StoreOK'
           /\ (disk' \in [Sessions -> Rec] /\ mem' = mem
                 /\ pend' = pend /\ flush' = flush) => StoreOK'
           /\ pend \in SUBSET Sessions
           /\ host' = host => HostOK'
           /\ (proc' = proc /\ watch' = watch /\ timers' = timers) => RuntimeOK'
           /\ (sup' = sup /\ \A r \in Runtimes : Started(r) => Started(r)') => SupOK'
           /\ (cmd' = cmd /\ \A r \in Runtimes : Started(r) => Started(r)') => CmdOK'
           /\ proc' = proc => \A r \in Runtimes : Started(r) => Started(r)'
           /\ (phase' = phase /\ todo' = todo /\ crashes' = crashes
                 /\ (kick' = kick \/ kick' \in BOOLEAN)) => ServerOK'
<1>1. /\ (mem' = mem /\ disk' = disk /\ pend' = pend /\ flush' = flush) => StoreOK'
      /\ (mem' \in [Sessions -> Rec] /\ disk' = disk
            /\ pend' \in SUBSET Sessions /\ flush' = flush) => StoreOK'
      /\ (disk' \in [Sessions -> Rec] /\ mem' = mem
            /\ pend' = pend /\ flush' = flush) => StoreOK'
      /\ pend \in SUBSET Sessions
  BY DEF TypeOK, StoreOK
<1>2. /\ host' = host => HostOK'
      /\ (proc' = proc /\ watch' = watch /\ timers' = timers) => RuntimeOK'
  BY DEF TypeOK, HostOK, RuntimeOK, Started
<1>3. /\ (sup' = sup /\ \A r \in Runtimes : Started(r) => Started(r)') => SupOK'
      /\ (cmd' = cmd /\ \A r \in Runtimes : Started(r) => Started(r)') => CmdOK'
      /\ proc' = proc => \A r \in Runtimes : Started(r) => Started(r)'
  BY DEF TypeOK, SupOK, CmdOK, Started
<1>4. (phase' = phase /\ todo' = todo /\ crashes' = crashes
         /\ (kick' = kick \/ kick' \in BOOLEAN)) => ServerOK'
  BY DEF TypeOK, ServerOK
<1> QED
  BY <1>1, <1>2, <1>3, <1>4

-----------------------------------------------------------------------------
(* Type correctness, action by action.                                      *)

\* The supervisor's steps preserve the types.
LEMMA SupervisorType == TypeOK /\ (Supervisor \/ CancelLaunch) => TypeOK'
<1> SUFFICES ASSUME TypeOK, Supervisor \/ CancelLaunch PROVE TypeOK'
  OBVIOUS
<1> USE DEF TypeOK, runtime, writes, boot
<1>r. sup.rec \in Rec /\ (sup.s \in Sessions => mem[sup.s] \in Rec)
  BY DEF SupOK, SupRec, StoreOK
<1>1. CASE TakeGuard
  BY <1>1, FrameType, SupLoopType DEF TakeGuard
<1>2. CASE SelectNone
  BY <1>2, FrameType, IdleSupType DEF SelectNone, SupOK, IdleSup, HoldsRuntime, SupRec
<1>3. ASSUME NEW s \in Sessions, SelectNext(s) PROVE TypeOK'
  <2>1. sup' \in SupRec /\ sup'.pc = "mark" /\ sup'.s = s
    BY <1>3, IdleSupType DEF SelectNext, SupPcs, IdleSup
  <2> QED
    BY <1>3, FrameType, <2>1 DEF SelectNext, SupOK, HoldsRuntime
<1>4. CASE Mark
  <2>1. sup.s \in Sessions
    BY <1>4 DEF Mark, SupAt, SupOK
  <2>2. CASE mem[sup.s].status = "queued"
    <3> DEFINE rec == [mem[sup.s] EXCEPT !.status = "spawning"]
    <3>1. rec \in Rec
      BY <2>1, <1>r, RecTypes DEF Status
    <3>2. SetMem(sup.s, rec) /\ sup' = [sup EXCEPT !.pc = "mark_persist", !.rec = rec]
      BY <1>4, <2>2 DEF Mark
    <3> HIDE DEF rec
    <3> QED
      BY <1>4, <3>1, <3>2, <2>1, FrameType, SetMemType, SupCloneType
      DEF Mark, SupPcs, HoldsRuntime
  <2>3. CASE mem[sup.s].status # "queued"
    BY <1>4, <2>1, <2>3, FrameType, SupGoType DEF Mark, SupPcs, HoldsRuntime
  <2> QED
    BY <2>2, <2>3
<1>5. CASE MarkPersist
  <2>1. sup.s \in Sessions
    BY <1>5 DEF MarkPersist, SupAt, SupOK
  <2>2. StoreOK'
    BY <1>5, <2>1, FrameType, <1>r, SetDiskType DEF MarkPersist, DiskFails
  <2>3. SupOK'
    BY <1>5, <2>1, SupGoType, SupLoopType DEF MarkPersist, SupPcs, HoldsRuntime
  <2> QED
    BY <1>5, <2>2, <2>3, FrameType DEF MarkPersist
<1>6. CASE MarkInsert
  BY <1>6, FrameType, <1>r, SetMemType, SupGoType
  DEF MarkInsert, SupAt, SupOK, SupPcs, HoldsRuntime
<1>7. CASE Stage1
  <2>1. sup.s \in Sessions
    BY <1>7 DEF Stage1, SupAt, SupOK
  <2>2. HostOK'
    BY <1>7, <2>1 DEF Stage1, HostOK, HostRec
  <2>3. SupOK'
    BY <1>7, <2>1, <1>r, SupCloneType DEF Stage1, SupPcs, HoldsRuntime
  <2> QED
    BY <1>7, <2>2, <2>3, FrameType DEF Stage1
<1>8. ASSUME NEW pc \in {"stage1_persist", "stage2_persist"},
             NEW next \in {"check1", "spawn"}, StagePersist(pc, next)
      PROVE  TypeOK'
  <2>1. sup.s \in Sessions
    BY <1>8 DEF StagePersist, SupAt, SupOK
  <2>2. StoreOK'
    BY <1>8, <2>1, FrameType, <1>r, SetDiskType DEF StagePersist, DiskFails
  <2>3. SupOK'
    BY <1>8, <2>1, SupGoType DEF StagePersist, SupPcs, HoldsRuntime
  <2> QED
    BY <1>8, <2>2, <2>3, FrameType DEF StagePersist
<1>9. CASE Check1
  <2>1. sup.s \in Sessions
    BY <1>9 DEF Check1, SupAt, SupOK
  <2>2. SupOK'
    BY <1>9, <2>1, <1>r, SupGoType, SupCloneType DEF Check1, SupPcs, HoldsRuntime
  <2> QED
    BY <1>9, <2>2, FrameType DEF Check1
<1>10. ASSUME NEW r \in Runtimes, SpawnRuntime(r) PROVE TypeOK'
  <2>1. sup.s \in Sessions
    BY <1>10 DEF SpawnRuntime, SupAt, SupOK
  <2>2. RuntimeOK' /\ Started(r)' /\ \A q \in Runtimes : Started(q) => Started(q)'
    BY <1>10, <2>1, StartType DEF SpawnRuntime
  <2>3. SupOK'
    BY <1>10, <2>1, <2>2 DEF SpawnRuntime, SupOK, SupRec, SupPcs
  <2>4. CmdOK'
    BY <1>10, <2>2 DEF SpawnRuntime, CmdOK, Started
  <2> QED
    BY <1>10, <2>2, <2>3, <2>4, FrameType DEF SpawnRuntime
<1>11. CASE Check2
  <2>1. sup.s \in Sessions /\ sup.rt \in Runtimes
    BY <1>11 DEF Check2, SupAt, SupOK, HoldsRuntime, Started
  <2>2. LaunchedRec(sup.s, mem[sup.s], sup.rt) \in Rec
    BY <2>1, <1>r, LaunchedRecType
  <2>3. SupOK'
    BY <1>11, <2>1, <2>2, SupGoType, SupCloneType
    DEF Check2, SupAt, SupPcs, HoldsRuntime
  <2>4. RuntimeOK'
    BY <1>11, FrameType, SignalType DEF Check2
  <2> QED
    BY <1>11, <2>3, <2>4, FrameType DEF Check2
<1>12. CASE ReplacePersist
  <2>1. sup.s \in Sessions
    BY <1>12 DEF ReplacePersist, SupAt, SupOK
  <2>2. StoreOK'
    BY <1>12, <2>1, FrameType, <1>r, SetDiskType DEF ReplacePersist, DiskFails
  <2>3. SupOK'
    BY <1>12, <2>1, SupGoType DEF ReplacePersist, SupAt, SupPcs, HoldsRuntime
  <2>4. RuntimeOK'
    BY <1>12, FrameType, SignalType DEF ReplacePersist
  <2> QED
    BY <1>12, <2>2, <2>3, <2>4, FrameType DEF ReplacePersist
<1>13. CASE ReplaceInsert
  BY <1>13, FrameType, <1>r, SetMemType, SupGoType
  DEF ReplaceInsert, SupAt, SupOK, SupPcs, HoldsRuntime
<1>14. CASE LaunchAttach
  <2>1. sup.s \in Sessions /\ Started(sup.rt) /\ sup.rt \in Runtimes
    BY <1>14 DEF LaunchAttach, SupAt, SupOK, HoldsRuntime, Started
  <2>2. Own(sup.rt) \in Groups /\ Own(sup.rt)[1] = sup.rt
    BY <2>1 DEF Own, Groups
  <2>3. RuntimeOK' /\ HostOK'
    BY <1>14, <2>1, <2>2, AttachType DEF LaunchAttach
  <2>4. SupOK'
    BY <1>14, <2>1, SupGoType, SupLoopType DEF LaunchAttach, SupPcs, HoldsRuntime
  <2> QED
    BY <1>14, <2>3, <2>4, FrameType DEF LaunchAttach
<1>15. CASE LaunchError
  BY <1>15, FrameType, SupGoType DEF LaunchError, SupAt, SupOK, SupPcs, HoldsRuntime
<1>16. CASE Fail
  <2>1. sup.s \in Sessions
    BY <1>16 DEF Fail, SupAt, SupOK
  <2> DEFINE rec == [mem[sup.s] EXCEPT !.status = "errored"]
  <2>2. rec \in Rec
    BY <2>1, <1>r, RecTypes DEF Status, Terminal
  <2>3. SetMem(sup.s, rec) /\ sup' = [sup EXCEPT !.pc = "fail_persist", !.rec = rec]
    BY <1>16 DEF Fail
  <2> HIDE DEF rec
  <2> QED
    BY <1>16, <2>1, <2>2, <2>3, FrameType, SetMemType, SupCloneType
    DEF Fail, SupPcs, HoldsRuntime
<1>17. CASE FailPersist
  <2>1. sup.s \in Sessions
    BY <1>17 DEF FailPersist, SupAt, SupOK
  <2>2. StoreOK'
    BY <1>17, <2>1, FrameType, <1>r, SetDiskType DEF FailPersist, DiskFails
  <2>3. SupOK'
    BY <1>17, <2>1, SupGoType, SupLoopType DEF FailPersist, SupPcs, HoldsRuntime
  <2> QED
    BY <1>17, <2>2, <2>3, FrameType DEF FailPersist
<1>18. CASE FailInsert
  BY <1>18, FrameType, <1>r, SetMemType, SupLoopType
  DEF FailInsert, SupAt, SupOK
<1>19. CASE CancelLaunch
  <2>1. SupOK'
    BY <1>19, IdleSupType DEF CancelLaunch, SupOK, IdleSup, HoldsRuntime, SupRec
  <2> QED
    BY <1>19, <2>1, FrameType, SignalType DEF CancelLaunch
<1> QED
  BY <1>1, <1>2, <1>3, <1>4, <1>5, <1>6, <1>7, <1>8, <1>9, <1>10, <1>11, <1>12,
     <1>13, <1>14, <1>15, <1>16, <1>17, <1>18, <1>19 DEF Supervisor

\* So do the steps of a command that has begun, and its cancellation.
LEMMA ProgressType ==
    ASSUME TypeOK, NEW c \in Clients, Progress(c) \/ Cancel(c)
    PROVE  TypeOK'
<1> USE DEF TypeOK, runtime, writes, boot
<1>r. cmd[c].rec \in Rec
  BY DEF CmdOK, CmdRec
<1>p. cmd[c].pc # "idle" => cmd[c].s \in Sessions /\ mem[cmd[c].s] \in Rec
  BY DEF CmdOK, StoreOK
<1>1. CASE EnqueuePersist(c)
  <2>1. StoreOK'
    BY <1>1, <1>r, <1>p, SetDiskType, FrameType DEF EnqueuePersist, CmdAt, DiskFails
  <2>2. CmdOK'
    BY <1>1, GotoType, FinishType DEF EnqueuePersist, CmdAt, CmdPcs, Holding
  <2> QED
    BY <1>1, <2>1, <2>2, FrameType DEF EnqueuePersist
<1>2. CASE EnqueueInsert(c)
  BY <1>2, <1>r, <1>p, SetMemType, FinishType, FrameType DEF EnqueueInsert, CmdAt
<1>3. CASE TermMark(c)
  <2>1. StoreOK'
    BY <1>3, <1>r, <1>p, SetDiskType, FrameType DEF TermMark, CmdAt, DiskFails
  <2>2. CmdOK'
    BY <1>3, GotoType, FinishType DEF TermMark, CmdAt, CmdPcs, Holding
  <2> QED
    BY <1>3, <2>1, <2>2, FrameType DEF TermMark
<1>4. CASE TermSignal(c)
  <2>1. HostOK'
    BY <1>4, <1>p DEF TermSignal, CmdAt, HostOK, HostRec
  <2>2. RuntimeOK'
    BY <1>4, SignalType DEF TermSignal
  <2>3. CmdOK'
    BY <1>4, GotoType DEF TermSignal, CmdAt, CmdPcs, Holding
  <2> QED
    BY <1>4, <2>1, <2>2, <2>3, FrameType DEF TermSignal
<1>5. CASE TermReap(c)
  <2> DEFINE s == cmd[c].s
             r == mem[s].pid
  <2>1. s \in Sessions
    BY <1>5, <1>p DEF TermReap, CmdAt
  <2>2. CASE /\ Live(r)
             /\ proc' = [proc EXCEPT ![r].st = "dead"]
             /\ \E event \in Outcomes : RemoveHost(s, Gone(watch, r, event))
             /\ Goto(c, "t_apply")
    <3>1. r \in Runtimes /\ Started(r)
      BY <2>1, <2>2 DEF Live, StoreOK, Rec, Started
    <3>2. PICK event \in Outcomes : RemoveHost(s, Gone(watch, r, event))
      BY <2>2
    <3>3. /\ Gone(watch, r, event) \in [Groups -> WatchRec]
          /\ \A x \in Groups : /\ Gone(watch, r, event)[x].con = watch[x].con
                               /\ Gone(watch, r, event)[x].mon = "off" <=> watch[x].mon = "off"
      BY <3>1, GoneType DEF RuntimeOK
    <3>4. HostOK' /\ watch' \in [Groups -> WatchRec]
          /\ \A x \in Groups : /\ watch'[x].con = watch[x].con
                               /\ watch'[x].mon = "off" <=> watch[x].mon = "off"
      BY <2>1, <3>2, <3>3, RemoveHostType
    <3>5. /\ proc' \in [Runtimes -> ProcRec]
          /\ \A q \in Runtimes : proc'[q].s = proc[q].s /\ (Started(q) <=> Started(q)')
      BY <2>2, <3>1, ZenonT(60) DEF RuntimeOK, ProcRec, Started
    <3>6. \A x \in Groups : x[1] \in Runtimes
      BY DEF Groups
    <3> HIDE DEF r, s
    <3>7. timers' = timers
      BY <1>5 DEF TermReap
    <3>8. RuntimeOK'
      BY <3>4, <3>5, <3>6, <3>7 DEF RuntimeOK
    <3>9. cmd[c].pc = "t_reap" /\ cmd[c].rt \in Runtimes \cup {NoRuntime}
      BY <1>5 DEF TermReap, CmdAt, CmdOK, CmdRec
    <3>10. cmd' = [cmd EXCEPT ![c] = [cmd[c] EXCEPT !.pc = "t_apply", !.rt = cmd[c].rt]]
      BY <2>2 DEF Goto, CmdOK, CmdRec
    <3>11. CmdOK'
      BY <3>5, <3>9, <3>10, GotoStartedType DEF CmdPcs, Holding
    <3> QED
      BY <1>5, <3>4, <3>5, <3>8, <3>11, FrameType DEF TermReap
  <2>3. CASE RemoveHost(s, watch) /\ UNCHANGED proc /\ (Goto(c, "t_apply") \/ Finish(c))
    <3>1. HostOK' /\ watch' \in [Groups -> WatchRec]
          /\ \A x \in Groups : /\ watch'[x].con = watch[x].con
                               /\ watch'[x].mon = "off" <=> watch[x].mon = "off"
      BY <2>1, <2>3, RemoveHostType DEF RuntimeOK
    <3>2. RuntimeOK'
      BY <1>5, <2>3, <3>1 DEF TermReap, RuntimeOK, Started
    <3>3. CmdOK'
      BY <1>5, <2>3, GotoType, FinishType DEF TermReap, CmdAt, CmdPcs, Holding
    <3> QED
      BY <1>5, <2>3, <3>1, <3>2, <3>3, FrameType DEF TermReap
  <2> QED
    BY <1>5, <2>2, <2>3 DEF TermReap
<1>6. CASE TermApply(c)
  <2> DEFINE action == TermAction(cmd[c].op)
             rec == Terminated(mem[cmd[c].s], action)
  <2>1. cmd[c].s \in Sessions /\ cmd[c].pc = "t_apply" /\ rec \in Rec
    BY <1>6, <1>p, ChangedRecTypes DEF TermApply, CmdAt
  <2>2. CASE action = "archive" /\ mem[cmd[c].s].status = "archived"
    BY <1>6, <2>2, FinishType, FrameType DEF TermApply, ServerOK
  <2>3. CASE ~(action = "archive" /\ mem[cmd[c].s].status = "archived")
    <3>1. SetMem(cmd[c].s, rec) /\ GotoWith(c, "t_persist", rec) /\ UNCHANGED kick
      BY <1>6, <2>3 DEF TermApply
    <3> HIDE DEF rec
    <3> QED
      BY <1>6, <2>1, <3>1, SetMemType, GotoWithType, FrameType
      DEF TermApply, CmdPcs, Holding
  <2> QED
    BY <2>2, <2>3
<1>7. CASE TermPersist(c)
  <2>1. StoreOK'
    BY <1>7, <1>r, <1>p, SetDiskType, FrameType DEF TermPersist, CmdAt, DiskFails
  <2>2. CmdOK'
    BY <1>7, GotoType, FinishType DEF TermPersist, CmdAt, CmdPcs, Holding
  <2> QED
    BY <1>7, <2>1, <2>2, FrameType DEF TermPersist
<1>8. CASE TermInsert(c)
  BY <1>8, <1>r, <1>p, SetMemType, FinishType, FrameType DEF TermInsert, CmdAt, ServerOK
<1>9. CASE EnsureAttach(c)
  <2> DEFINE rec == Recovered(mem[cmd[c].s])
             x == Restored(cmd[c].rt)
  <2>1. /\ cmd[c].s \in Sessions /\ cmd[c].pc = "e_attach" /\ rec \in Rec
        /\ Started(cmd[c].rt) /\ x \in Groups /\ x[1] = cmd[c].rt
    BY <1>9, <1>p, ChangedRecTypes
    DEF EnsureAttach, CmdAt, CmdOK, Holding, Restored, Groups, Started
  <2>2. CASE /\ AttachAndConsume(cmd[c].s, x) /\ SetMem(cmd[c].s, rec)
             /\ GotoWith(c, "e_persist", rec) \/ Goto(c, "s_apply")
    <3> HIDE DEF rec, x
    <3>1. RuntimeOK' /\ HostOK'
      BY <1>9, <2>1, <2>2, AttachType DEF EnsureAttach
    <3>2. CmdOK'
      BY <1>9, <2>1, <2>2, GotoType, GotoWithType DEF EnsureAttach, CmdPcs, Holding
    <3> QED
      BY <1>9, <2>1, <2>2, <3>1, <3>2, SetMemType, FrameType DEF EnsureAttach
  <2>3. CASE /\ watch' = Signalled(watch, HeldBy(c)) /\ Finish(c)
             /\ UNCHANGED <<mem, host>>
    BY <1>9, <2>3, SignalType, FinishType, FrameType DEF EnsureAttach
  <2> QED
    BY <1>9, <2>2, <2>3 DEF EnsureAttach
<1>10. CASE EnsurePersist(c)
  <2>1. StoreOK'
    BY <1>10, <1>r, <1>p, SetDiskType, FrameType DEF EnsurePersist, CmdAt, DiskFails
  <2>2. CmdOK'
    BY <1>10, GotoType, FinishType DEF EnsurePersist, CmdAt, CmdPcs, Holding
  <2> QED
    BY <1>10, <2>1, <2>2, FrameType DEF EnsurePersist
<1>11. CASE SendApply(c)
  <2> DEFINE rec == [mem[cmd[c].s] EXCEPT !.status = "working"]
  <2>1. cmd[c].s \in Sessions /\ cmd[c].pc = "s_apply" /\ rec \in Rec
    BY <1>11, <1>p, RecTypes DEF SendApply, CmdAt, Status
  <2>2. SetMem(cmd[c].s, rec) /\ GotoWith(c, "s_persist", rec)
    BY <1>11 DEF SendApply
  <2> HIDE DEF rec
  <2> QED
    BY <1>11, <2>1, <2>2, SetMemType, GotoWithType, FrameType DEF SendApply, CmdPcs, Holding
<1>12. CASE SendPersist(c)
  <2>1. StoreOK'
    BY <1>12, <1>r, <1>p, SetDiskType, FrameType DEF SendPersist, CmdAt, DiskFails
  <2> QED
    BY <1>12, <2>1, FinishType, FrameType DEF SendPersist
<1>13. ASSUME NEW r \in Runtimes, ResumeSpawn(c, r) PROVE TypeOK'
  <2>1. cmd[c].s \in Sessions /\ cmd[c].pc = "r_spawn"
    BY <1>13, <1>p DEF ResumeSpawn, CmdAt
  <2>2. RuntimeOK' /\ Started(r)' /\ \A q \in Runtimes : Started(q) => Started(q)'
    BY <1>13, <2>1, StartType DEF ResumeSpawn
  <2>3. CmdOK'
    <3>1. cmd' = [cmd EXCEPT ![c] = [cmd[c] EXCEPT !.pc = "r_apply", !.rt = r]]
      BY <1>13 DEF ResumeSpawn
    <3> QED
      BY <2>1, <2>2, <3>1, GotoStartedType DEF CmdPcs
  <2> QED
    BY <1>13, <2>2, <2>3, FrameType DEF ResumeSpawn
<1>14. CASE ResumeError(c)
  BY <1>14, FinishType, FrameType DEF ResumeError
<1>15. CASE ResumeApply(c)
  <2> DEFINE rec == [mem[cmd[c].s] EXCEPT !.status = "working", !.pid = cmd[c].rt]
  <2>1. cmd[c].s \in Sessions /\ cmd[c].pc = "r_apply" /\ rec \in Rec
    BY <1>15, <1>p, RecTypes DEF ResumeApply, CmdAt, Status, CmdOK, Holding, Started
  <2>2. CASE mem[cmd[c].s].status = "archived"
    BY <1>15, <2>2, SignalType, FinishType, FrameType DEF ResumeApply
  <2>3. CASE mem[cmd[c].s].status # "archived"
    <3>1. SetMem(cmd[c].s, rec) /\ GotoWith(c, "r_persist", rec) /\ UNCHANGED watch
      BY <1>15, <2>3 DEF ResumeApply
    <3> HIDE DEF rec
    <3> QED
      BY <1>15, <2>1, <3>1, SetMemType, GotoWithType, FrameType
      DEF ResumeApply, CmdPcs, Holding
  <2> QED
    BY <2>2, <2>3
<1>16. CASE ResumePersist(c)
  <2>1. StoreOK'
    BY <1>16, <1>r, <1>p, SetDiskType, FrameType DEF ResumePersist, CmdAt, DiskFails
  <2>2. CmdOK'
    BY <1>16, GotoType, FinishType DEF ResumePersist, CmdAt, CmdPcs, Holding
  <2>3. RuntimeOK'
    BY <1>16, SignalType, FrameType DEF ResumePersist
  <2> QED
    BY <1>16, <2>1, <2>2, <2>3, FrameType DEF ResumePersist
<1>17. CASE ResumeInsert(c)
  BY <1>17, <1>r, <1>p, SetMemType, GotoType, FrameType
  DEF ResumeInsert, CmdAt, CmdPcs, Holding
<1>18. CASE ResumeAttach(c)
  <2> DEFINE x == Own(cmd[c].rt)
  <2>1. /\ cmd[c].s \in Sessions /\ cmd[c].pc = "r_attach"
        /\ Started(cmd[c].rt) /\ x \in Groups /\ x[1] = cmd[c].rt
    BY <1>18, <1>p DEF ResumeAttach, CmdAt, CmdOK, Holding, Own, Groups, Started
  <2>2. RuntimeOK' /\ HostOK'
    BY <1>18, <2>1, AttachType DEF ResumeAttach
  <2>3. CmdOK'
    BY <1>18, <2>1, GotoType, FinishType DEF ResumeAttach, CmdPcs, Holding
  <2> QED
    BY <1>18, <2>2, <2>3, FrameType DEF ResumeAttach
<1>19. CASE RestorePersist(c)
  <2>1. StoreOK'
    BY <1>19, <1>r, <1>p, SetDiskType, FrameType DEF RestorePersist, CmdAt, DiskFails
  <2> QED
    BY <1>19, <2>1, GotoType, FrameType DEF RestorePersist, CmdAt, CmdPcs, Holding
<1>20. ASSUME NEW s \in Sessions, RestoreEnqueue(c, s) PROVE TypeOK'
  <2> DEFINE rec == QueuedRec(cmd[c].rec.key, cmd[c].rec.branch)
             new == [Idle(c) EXCEPT !.pc = "q_persist", !.s = s, !.rec = rec]
  <2>1. rec \in Rec
    BY <1>r, QueuedRecType DEF Rec
  <2>2. new \in CmdRec /\ new.pc = "q_persist" /\ new.s = s
    BY <2>1, IdleType DEF CmdRec, CmdPcs, Branches
  <2>3. cmd' = [cmd EXCEPT ![c] = new]
    BY <1>20 DEF RestoreEnqueue
  <2>4. CmdOK'
    <3> HIDE DEF new
    <3> QED
      BY <1>20, <2>2, <2>3 DEF RestoreEnqueue, CmdOK, Holding, Started
  <2> QED
    BY <1>20, <2>4, FrameType DEF RestoreEnqueue
<1>21. CASE Cancel(c)
  BY <1>21, SignalType, FinishType, FrameType DEF Cancel
<1> QED
  BY <1>1, <1>2, <1>3, <1>4, <1>5, <1>6, <1>7, <1>8, <1>9, <1>10, <1>11, <1>12,
     <1>13, <1>14, <1>15, <1>16, <1>17, <1>18, <1>19, <1>20, <1>21 DEF Progress

\* So do the steps that begin a command.
LEMMA RequestType ==
    ASSUME TypeOK, NEW c \in Clients, Request(c)
    PROVE  TypeOK'
<1> USE DEF TypeOK, runtime, writes, boot
<1>p. \A s \in Sessions : mem[s] \in Rec /\ host[s] \in HostRec
  BY DEF StoreOK, HostOK
<1>t. ASSUME NEW s \in Sessions, NEW op, TerminateStart(c, op, s)
      PROVE  mem' \in [Sessions -> Rec] /\ (proc' = proc => CmdOK')
  <2> DEFINE rec == [mem[s] EXCEPT !.term = TermAction(op)]
             r == IF Attached(s) THEN host[s].input ELSE NoRuntime
  <2>1. rec \in Rec
    BY <1>p, RecTypes DEF TermAction
  <2>2. r \in Runtimes \cup {NoRuntime}
    BY <1>p DEF HostRec
  <2>3. SetMem(s, rec) /\ Begin(c, op, "t_mark", s, r, rec)
    BY <1>t DEF TerminateStart
  <2> HIDE DEF rec, r
  <2> QED
    BY <2>1, <2>2, <2>3, SetMemType, BeginType DEF CmdPcs, Holding
<1>1. ASSUME NEW s \in Sessions, NEW key \in Keys, Enqueue(c, s, key) PROVE TypeOK'
  <2>1. QueuedRec(key, 0) \in Rec
    BY QueuedRecType DEF Branches
  <2> QED
    BY <1>1, <2>1, BeginType, FrameType DEF Enqueue, CmdPcs, Holding
<1>2. ASSUME NEW s \in Sessions, NEW op \in TermOps, Terminate(c, op, s) PROVE TypeOK'
  BY <1>2, <1>t, FrameType DEF Terminate
<1>3. ASSUME NEW r \in Runtimes, Timeout(c, r) PROVE TypeOK'
  <2>1. proc[r].s \in Sessions
    BY <1>3 DEF Timeout, RuntimeOK, Started
  <2>2. RuntimeOK'
    BY <1>3 DEF Timeout, RuntimeOK, Started
  <2> QED
    BY <1>3, <2>1, <2>2, <1>t, FrameType DEF Timeout
<1>4. ASSUME NEW s \in Sessions, SendLive(c, s) PROVE TypeOK'
  <2>1. host[s].input \in Runtimes \cup {NoRuntime}
    BY <1>p DEF HostRec
  <2> QED
    BY <1>4, <2>1, NoRecType, BeginType, FrameType DEF SendLive, CmdPcs, Holding
<1>5. ASSUME NEW s \in Sessions, SendRecover(c, s) PROVE TypeOK'
  <2> DEFINE r == mem[s].pid
  <2>1. r \in Runtimes /\ Started(r)
    BY <1>5, <1>p DEF SendRecover, Live, Rec, Started
  <2>2. /\ watch' = [watch EXCEPT ![Restored(r)] = Watched]
        /\ Begin(c, "send", "e_attach", s, r, NoRec)
        /\ UNCHANGED <<mem, disk, host, proc, timers, sup, kick, writes, boot>>
    BY <1>5 DEF SendRecover
  <2>3. RuntimeOK'
    BY <2>1, <2>2 DEF RuntimeOK, Restored, Groups, Watched, WatchRec, Started
  <2> HIDE DEF r
  <2> QED
    BY <2>1, <2>2, <2>3, NoRecType, BeginType, FrameType DEF CmdPcs
<1>6. ASSUME NEW s \in Sessions, SendExited(c, s) PROVE TypeOK'
  <2>1. mem' \in [Sessions -> Rec]
    BY <1>6, <1>p, ChangedRecTypes, SetMemType DEF SendExited
  <2>2. pend' \in SUBSET Sessions
    BY <1>6, QueueFlushType DEF SendExited
  <2>3. HostOK'
    BY <1>6 DEF SendExited, DetachedHost, HostOK, HostRec
  <2>4. CmdOK'
    BY <1>6, NoRecType, BeginType, FrameType DEF SendExited, CmdPcs, Holding
  <2> QED
    BY <1>6, <2>1, <2>2, <2>3, <2>4, FrameType DEF SendExited
<1>7. ASSUME NEW s \in Sessions, RestoreStart(c, s) PROVE TypeOK'
  <2> DEFINE rec == [mem[s] EXCEPT !.status = "restored"]
  <2>1. rec \in Rec
    BY <1>p, RecTypes DEF Status
  <2>2. \/ Begin(c, "restore", "x_enqueue", s, NoRuntime, mem[s]) /\ UNCHANGED mem
        \/ SetMem(s, rec) /\ Begin(c, "restore", "x_persist", s, NoRuntime, rec)
    BY <1>7 DEF RestoreStart
  <2> HIDE DEF rec
  <2>3. mem' \in [Sessions -> Rec]
    BY <2>1, <2>2, SetMemType DEF StoreOK
  <2>4. CmdOK'
    BY <1>7, <1>p, <2>1, <2>2, BeginType DEF RestoreStart, CmdPcs, Holding
  <2> QED
    BY <1>7, <2>3, <2>4, FrameType DEF RestoreStart
<1> QED
  BY <1>1, <1>2, <1>3, <1>4, <1>5, <1>6, <1>7 DEF Request

\* So do the events of the runtimes and the flush watchdog.
LEMMA EventsType == TypeOK /\ Events => TypeOK'
<1> SUFFICES ASSUME TypeOK, Events PROVE TypeOK'
  OBVIOUS
<1> USE DEF TypeOK, runtime, writes, boot
<1>p. \A s \in Sessions : mem[s] \in Rec /\ host[s] \in HostRec
  BY DEF StoreOK, HostOK
<1>w. \A x \in Groups : (watch[x].con \/ watch[x].mon # "off") => proc[x[1]].s \in Sessions
  BY DEF RuntimeOK, Started, Groups
<1>1. ASSUME NEW x \in Groups, Output(x) PROVE TypeOK'
  <2> DEFINE s == proc[x[1]].s
             rec == [mem[s] EXCEPT !.status = IF host[s].there THEN "working" ELSE @]
  <2>1. s \in Sessions /\ rec \in Rec
    BY <1>1, <1>p, <1>w, RecTypes DEF Output, Status
  <2>2. SetMem(s, rec) /\ QueueFlush(s)
    BY <1>1 DEF Output
  <2> HIDE DEF s, rec
  <2> QED
    BY <1>1, <2>1, <2>2, SetMemType, QueueFlushType, FrameType DEF Output
<1>2. ASSUME NEW x \in Groups, AsksInput(x) PROVE TypeOK'
  <2> DEFINE s == proc[x[1]].s
             rec == [mem[s] EXCEPT !.status = IF host[s].there THEN "needs_input" ELSE @]
  <2>1. s \in Sessions /\ rec \in Rec
    BY <1>2, <1>p, <1>w, RecTypes DEF AsksInput, Status
  <2>2. SetMem(s, rec) /\ QueueFlush(s)
    BY <1>2 DEF AsksInput
  <2> HIDE DEF s, rec
  <2> QED
    BY <1>2, <2>1, <2>2, SetMemType, QueueFlushType, FrameType DEF AsksInput
<1>3. ASSUME NEW x \in Groups, Consume(x) PROVE TypeOK'
  <2> DEFINE s == proc[x[1]].s
             rec == AfterExit(mem[s], watch[x].evt)
  <2>1. s \in Sessions /\ rec \in Rec
    BY <1>3, <1>p, <1>w, ChangedRecTypes DEF Consume
  <2>2. /\ SetMem(s, rec) /\ QueueFlush(s)
        /\ host' = [host EXCEPT ![s] = DetachedHost(s)]
    BY <1>3 DEF Consume
  <2>3. HostOK'
    BY <2>2 DEF DetachedHost, HostOK, HostRec
  <2>4. RuntimeOK'
    BY <1>3 DEF Consume, RuntimeOK, WatchRec, Started
  <2> HIDE DEF s, rec
  <2> QED
    BY <1>3, <2>1, <2>2, <2>3, <2>4, SetMemType, QueueFlushType, FrameType DEF Consume
<1>4. ASSUME NEW x \in Groups, MonitorDetach(x) PROVE TypeOK'
  <2>1. HostOK'
    BY <1>4 DEF MonitorDetach, DetachedHost, HostOK, HostRec
  <2>2. RuntimeOK'
    BY <1>4 DEF MonitorDetach, RuntimeOK, WatchRec, Started
  <2> QED
    BY <1>4, <2>1, <2>2, FrameType DEF MonitorDetach
<1>5. ASSUME NEW r \in Runtimes, Dies(r) PROVE TypeOK'
  <2>1. PICK event \in Outcomes : watch' = Gone(watch, r, event)
    BY <1>5 DEF Dies
  <2>2. /\ watch' \in [Groups -> WatchRec]
        /\ \A x \in Groups : /\ watch'[x].con = watch[x].con
                             /\ watch'[x].mon = "off" <=> watch[x].mon = "off"
    BY <2>1, GoneType DEF RuntimeOK
  <2>3. /\ proc' \in [Runtimes -> ProcRec]
        /\ \A q \in Runtimes : proc'[q].s = proc[q].s /\ (Started(q) <=> Started(q)')
    BY <1>5 DEF Dies, RuntimeOK, ProcRec, Started
  <2>4. \A x \in Groups : x[1] \in Runtimes
    BY DEF Groups
  <2>5. timers' = timers
    BY <1>5 DEF Dies
  <2>6. RuntimeOK'
    BY <2>2, <2>3, <2>4, <2>5 DEF RuntimeOK
  <2> QED
    BY <1>5, <2>3, <2>6, FrameType DEF Dies
<1>6. CASE FlushDrain
  <2>1. StoreOK'
    BY <1>6, NoRecType DEF FlushDrain, StoreOK
  <2> QED
    BY <1>6, <2>1, FrameType DEF FlushDrain
<1>7. ASSUME NEW s \in Sessions, FlushWrite(s) PROVE TypeOK'
  <2>1. StoreOK'
    BY <1>7, NoRecType DEF FlushWrite, StoreOK, SetDisk, DiskFails
  <2> QED
    BY <1>7, <2>1, FrameType DEF FlushWrite
<1> QED
  BY <1>1, <1>2, <1>3, <1>4, <1>5, <1>6, <1>7 DEF Events, Exit, MonitorKills

\* So do a crash and the start-up that follows it.
LEMMA CrashType == TypeOK /\ Crash => TypeOK'
<1> SUFFICES ASSUME TypeOK, Crash PROVE TypeOK'
  OBVIOUS
<1> USE DEF TypeOK
<1>1. StoreOK'
  BY NoRecType DEF Crash, StoreOK
<1>2. HostOK'
  BY DEF Crash, HostOK, NoHost, HostRec
<1>3. RuntimeOK'
  BY DEF Crash, RuntimeOK, NoWatch, WatchRec, Started
<1>4. SupOK'
  BY IdleSupType DEF Crash, SupOK, IdleSup, HoldsRuntime
<1>5. CmdOK'
  BY IdleType DEF Crash, CmdOK, Holding
<1>6. ServerOK'
  <2>1. crashes \in Nat
    BY DEF ServerOK
  <2>2. crashes' \in Nat
    BY <2>1 DEF Crash
  <2>3. phase' = "down" /\ todo' = {}
    BY DEF Crash
  <2>4. kick' \in BOOLEAN
    BY DEF Crash
  <2> QED
    BY <2>2, <2>3, <2>4 DEF ServerOK
<1> QED
  BY <1>1, <1>2, <1>3, <1>4, <1>5, <1>6

\* The start-up keeps every variable of its type.
LEMMA BootType == TypeOK /\ Boot => TypeOK'
<1> SUFFICES ASSUME TypeOK, Boot PROVE TypeOK'
  OBVIOUS
<1> USE DEF TypeOK, runtime, writes, boot
<1>p. \A s \in Sessions : mem[s] \in Rec /\ host[s] \in HostRec
  BY DEF StoreOK, HostOK
<1>1. CASE BootLoad
  <2>1. StoreOK'
    BY <1>1, ChangedRecTypes DEF BootLoad, StoreOK
  <2>2. ServerOK'
    BY <1>1 DEF BootLoad, ServerOK
  <2> QED
    BY <1>1, <2>1, <2>2, FrameType DEF BootLoad
<1>2. CASE BootLaunched
  <2>1. ServerOK'
    BY <1>2 DEF BootLaunched, ServerOK, Unfinished
  <2> QED
    BY <1>2, <2>1, FrameType DEF BootLaunched
<1>3. CASE BootArchived
  <2>1. ServerOK'
    BY <1>3 DEF BootArchived, ServerOK, Unfinished
  <2> QED
    BY <1>3, <2>1, FrameType DEF BootArchived
<1>4. CASE BootServe
  <2>1. ServerOK'
    BY <1>4 DEF BootServe, ServerOK
  <2> QED
    BY <1>4, <2>1, FrameType DEF BootServe
<1>5. ASSUME NEW s \in Sessions, BootArchive(s) PROVE TypeOK'
  <2> DEFINE rec == [mem[s] EXCEPT !.status = "archived", !.pid = NoRuntime]
  <2>1. rec \in Rec
    BY <1>p, RecTypes DEF Status, Terminal
  <2>2. SetMem(s, rec) /\ (SetDisk(s, rec) \/ DiskFails)
    BY <1>5 DEF BootArchive
  <2> HIDE DEF rec
  <2>3. mem' \in [Sessions -> Rec] /\ disk' \in [Sessions -> Rec]
    BY <2>1, <2>2, SetMemType, SetDiskType DEF DiskFails, StoreOK
  <2>4. StoreOK'
    BY <1>5, <2>3 DEF BootArchive, StoreOK
  <2>5. ServerOK'
    BY <1>5 DEF BootArchive, ServerOK
  <2> QED
    BY <1>5, <2>4, <2>5, FrameType DEF BootArchive
<1>6. ASSUME NEW s \in Sessions, BootReattach(s) PROVE TypeOK'
  <2> DEFINE r == mem[s].pid
             x == Restored(r)
             own == Own(r)
             rec == Recovered(mem[s])
  <2>1. /\ rec \in Rec /\ r \in Runtimes /\ Started(r)
        /\ \A y \in {x, own} : y \in Groups /\ y[1] = r
    BY <1>6, <1>p, ChangedRecTypes
    DEF BootReattach, Live, Rec, Started, Restored, Own, Groups
  <2>2. \/ /\ host' = [host EXCEPT ![s] = AttachedHost(s, x)]
           /\ watch' = [watch EXCEPT ![x] = [Watched EXCEPT !.con = TRUE]]
           /\ SetMem(s, rec)
           /\ SetDisk(s, rec) \/ DiskFails
        \/ /\ watch' = [watch EXCEPT ![own] = [Watched EXCEPT !.mon = "kill"]]
           /\ UNCHANGED <<mem, disk, host>>
    BY <1>6 DEF BootReattach
  <2>3. UNCHANGED <<proc, timers, sup, kick, cmd, writes, phase, crashes>>
    BY <1>6 DEF BootReattach
  <2> HIDE DEF r, x, own, rec
  <2>4. mem' \in [Sessions -> Rec] /\ disk' \in [Sessions -> Rec]
    BY <2>1, <2>2, SetMemType, SetDiskType DEF DiskFails, StoreOK
  <2>5. StoreOK'
    BY <2>3, <2>4 DEF StoreOK
  <2>6. HostOK'
    <3>1. AttachedHost(s, x) \in HostRec
      BY <2>1, <1>p DEF AttachedHost, HostRec
    <3> QED
      BY <2>2, <3>1 DEF HostOK
  <2>7. RuntimeOK'
    <3>1. PICK y \in {x, own}, w \in WatchRec : watch' = [watch EXCEPT ![y] = w]
      BY <2>2 DEF Watched, WatchRec
    <3> QED
      BY <2>1, <2>3, <3>1 DEF RuntimeOK, Started
  <2>8. ServerOK'
    BY <1>6 DEF BootReattach, ServerOK
  <2> QED
    BY <2>3, <2>5, <2>6, <2>7, <2>8, FrameType
<1>7. ASSUME NEW s \in Sessions, BootExited(s) PROVE TypeOK'
  <2>1. mem' \in [Sessions -> Rec]
    BY <1>7, <1>p, ChangedRecTypes, SetMemType DEF BootExited
  <2>2. pend' \in SUBSET Sessions
    BY <1>7, QueueFlushType DEF BootExited
  <2>3. HostOK'
    BY <1>7 DEF BootExited, DetachedHost, HostOK, HostRec
  <2>4. ServerOK'
    BY <1>7 DEF BootExited, ServerOK
  <2> QED
    BY <1>7, <2>1, <2>2, <2>3, <2>4, FrameType DEF BootExited
<1>8. ASSUME NEW s \in Sessions, BootSkip(s) PROVE TypeOK'
  <2>1. ServerOK'
    BY <1>8 DEF BootSkip, ServerOK
  <2> QED
    BY <1>8, <2>1, FrameType DEF BootSkip
<1> QED
  BY <1>1, <1>2, <1>3, <1>4, <1>5, <1>6, <1>7, <1>8 DEF Boot

\* The server starts well typed.
LEMMA InitType == Init => TypeOK
<1> SUFFICES ASSUME Init PROVE TypeOK
  OBVIOUS
<1> USE DEF Init
<1>1. StoreOK
  BY NoRecType DEF StoreOK
<1>2. HostOK
  BY DEF HostOK, NoHost, HostRec
<1>3. RuntimeOK
  BY DEF RuntimeOK, NoProc, ProcRec, Branches, NoWatch, WatchRec, Groups, Started
<1>4. SupOK
  BY IdleSupType DEF SupOK, IdleSup, SupPcs, HoldsRuntime
<1>5. CmdOK
  BY NoRecType DEF CmdOK, IdleCmd, CmdRec, CommandNames, CmdPcs, Branches, Holding
<1>6. ServerOK
  BY DEF ServerOK
<1> QED
  BY <1>1, <1>2, <1>3, <1>4, <1>5, <1>6 DEF TypeOK

\* Every step preserves the types.
LEMMA NextType == TypeOK /\ [Next]_vars => TypeOK'
<1> SUFFICES ASSUME TypeOK, [Next]_vars PROVE TypeOK'
  OBVIOUS
<1>1. CASE UNCHANGED vars
  BY <1>1 DEF vars, TypeOK, StoreOK, HostOK, RuntimeOK, SupOK, CmdOK, ServerOK, Started
<1>2. CASE Next
  BY <1>2, SupervisorType, RequestType, ProgressType, EventsType, CrashType, BootType
  DEF Next
<1> QED
  BY <1>1, <1>2

\* In every reachable state of the session manager the variables have their
\* types, and whoever is at work has a session and holds only processes that
\* were started.
THEOREM TypeCorrect == Spec => []TypeOK
<1>1. Init => TypeOK
  BY InitType
<1>2. TypeOK /\ [Next]_vars => TypeOK'
  BY NextType
<1> QED
  BY <1>1, <1>2, PTL DEF Spec

-----------------------------------------------------------------------------
(* A kill reaches the runtime it was meant for.  KillReachesRuntime alone   *)
(* is not inductive: it has to be known that a sender is there to be used.  *)

\* The group can be told to kill, or there is nothing left to kill.
Watching(x) == proc[x[1]].st = "dead" \/ watch[x].mon \in {"run", "kill"}

\* Every sender a host, a launch, a resume or a reattachment holds leads to a
\* monitor that has not yet reported.
HeldAreWatched ==
    /\ \A s \in Sessions : \A x \in host[s].kills : Watching(x)
    /\ sup.pc \in HoldsRuntime => Watching(Own(sup.rt))
    /\ \A c \in Clients : \A x \in HeldBy(c) : Watching(x)

\* The host of s holds a sender for r, unless r needs none any more.
Reachable(s, r) == Doomed(r) \/ \E x \in host[s].kills : x[1] = r

InputHasSender ==
    \A s \in Sessions : host[s].input # NoRuntime => Reachable(s, host[s].input)

Marked == {"t_mark", "t_signal"}
Sent == {"t_reap", "t_apply", "t_persist", "t_insert"}

\* Until the signals are sent the runtime a command is after stays reachable.
MarkedIsReachable ==
    \A c \in Clients : cmd[c].pc \in Marked
        => cmd[c].rt = NoRuntime \/ Reachable(cmd[c].s, cmd[c].rt)

KillInv ==
    HeldAreWatched /\ InputHasSender /\ MarkedIsReachable /\ KillReachesRuntime

\* A step that keeps Stays, HostKeeps, SupKeeps and CmdKeeps keeps KillInv:
\* no monitor is forgotten, no sender is lost unused, and whoever takes hold
\* of a runtime or goes after one finds a sender.
Stays ==
    /\ \A x \in Groups : Watching(x) => Watching(x)'
    /\ \A r \in Runtimes : Doomed(r) => Doomed(r)'

HostKeeps ==
    \A s \in Sessions :
        /\ \A x \in host'[s].kills : x \in host[s].kills \/ Watching(x)'
        /\ \A x \in host[s].kills : x \in host'[s].kills \/ Doomed(x[1])'
        /\ \/ host'[s].input \in {NoRuntime, host[s].input}
           \/ \E x \in host'[s].kills : x[1] = host'[s].input

SupKeeps ==
    sup'.pc \in HoldsRuntime => \/ sup.pc \in HoldsRuntime /\ sup'.rt = sup.rt
                                \/ Watching(Own(sup.rt))'

KeptBy(c) ==
    /\ \A x \in HeldBy(c)' : x \in HeldBy(c) \/ Watching(x)'
    /\ cmd'[c].pc \in Marked
          => \/ cmd[c].pc \in Marked /\ cmd'[c].rt = cmd[c].rt /\ cmd'[c].s = cmd[c].s
             \/ cmd'[c].rt = NoRuntime
             \/ Reachable(cmd[c].s, cmd[c].rt)'
    /\ cmd'[c].pc \in Sent
          => \/ cmd[c].pc \in Sent /\ cmd'[c].rt = cmd[c].rt
             \/ cmd'[c].rt = NoRuntime
             \/ Doomed(cmd[c].rt)'

CmdKeeps == \A c \in Clients : KeptBy(c)

\* A step under these four conditions keeps the invariant.
LEMMA KillInvKept ==
    ASSUME TypeOK, TypeOK', KillInv, Stays, HostKeeps, SupKeeps, CmdKeeps
    PROVE  KillInv'
<1>1. /\ \A s \in Sessions : host[s].input \in Runtimes \cup {NoRuntime}
                             /\ host[s].kills \subseteq Groups
      /\ \A x \in Groups : x[1] \in Runtimes
      /\ \A c \in Clients : cmd[c].rt \in Runtimes \cup {NoRuntime}
      /\ \A c \in Clients : cmd[c].pc \in Marked => cmd[c].s \in Sessions
  BY DEF TypeOK, HostOK, HostRec, Groups, CmdOK, CmdRec, Marked
<1>2. /\ sup.pc \in HoldsRuntime => Own(sup.rt) \in Groups
      /\ \A c \in Clients : HeldBy(c) \subseteq Groups
  BY DEF TypeOK, SupOK, CmdOK, Started, Own, Restored, Groups, HeldBy, Holding
<1>3. \A s \in Sessions, r \in Runtimes : Reachable(s, r) => Reachable(s, r)'
  BY <1>1 DEF Stays, HostKeeps, Reachable
<1>4. (\A s \in Sessions : \A x \in host[s].kills : Watching(x))'
  BY <1>1 DEF KillInv, HeldAreWatched, Stays, HostKeeps
<1>5. (sup.pc \in HoldsRuntime => Watching(Own(sup.rt)))'
  BY <1>2 DEF KillInv, HeldAreWatched, Stays, SupKeeps, Watching, Own
<1>6. (\A c \in Clients : \A x \in HeldBy(c) : Watching(x))'
  <2> SUFFICES ASSUME NEW c \in Clients, NEW x \in HeldBy(c)' PROVE Watching(x)'
    OBVIOUS
  <2> QED
    BY <1>2 DEF KillInv, HeldAreWatched, Stays, CmdKeeps, KeptBy
<1>7. InputHasSender'
  BY <1>1, <1>3 DEF KillInv, InputHasSender, HostKeeps, Reachable
<1>8. MarkedIsReachable'
  BY <1>1, <1>3 DEF KillInv, MarkedIsReachable, CmdKeeps, KeptBy
<1>9. KillReachesRuntime'
  BY <1>1 DEF KillInv, KillReachesRuntime, CmdKeeps, KeptBy, Stays, Sent
<1> QED
  BY <1>4, <1>5, <1>6, <1>7, <1>8, <1>9 DEF KillInv, HeldAreWatched

\* What a step does not touch is kept.
LEMMA FrameKept ==
    /\ proc' = proc /\ watch' = watch => Stays
    /\ host' = host => HostKeeps
    /\ sup' = sup => SupKeeps
    /\ cmd' = cmd => CmdKeeps
BY DEF Stays, Watching, Doomed, Told, HostKeeps, SupKeeps, CmdKeeps, KeptBy, HeldBy

\* A signal forgets no monitor and dooms the processes it is meant for.
LEMMA SignalKept ==
    ASSUME TypeOK, NEW K, watch' = Signalled(watch, K), proc' = proc
    PROVE  /\ Stays
           /\ \A x \in Groups : x \in K /\ Watching(x) => Doomed(x[1])'
BY DEF TypeOK, RuntimeOK, WatchRec, Stays, Signalled, Watching, Doomed, Told

\* The same for a signal sent just after a process is gone.
LEMMA GoneKept ==
    ASSUME TypeOK, NEW r \in Runtimes, NEW event, NEW K,
           proc' = [proc EXCEPT ![r].st = "dead"],
           watch' = Signalled(Gone(watch, r, event), K)
    PROVE  /\ Stays
           /\ \A x \in Groups : x \in K /\ Watching(x) => Doomed(x[1])'
<1>1. proc'[r].st = "dead" /\ \A q \in Runtimes : proc[q].st = "dead" => proc'[q].st = "dead"
  BY DEF TypeOK, RuntimeOK, ProcRec
<1>2. \A x \in Groups : /\ x[1] # r => watch'[x].mon = IF x \in K /\ watch[x].mon = "run"
                                                       THEN "kill" ELSE watch[x].mon
                        /\ x[1] \in Runtimes
  BY DEF TypeOK, RuntimeOK, WatchRec, Signalled, Gone, Groups
<1> QED
  BY <1>1, <1>2 DEF Stays, Watching, Doomed, Told

\* A process starts with a monitor.
LEMMA StartKept ==
    ASSUME TypeOK, NEW r \in Runtimes, NEW s, NEW by, StartProcess(r, s, by)
    PROVE  Stays /\ Watching(Own(r))'
<1>1. /\ Own(r) \in Groups /\ Own(r)[1] = r /\ watch'[Own(r)].mon = "run"
      /\ \A x \in Groups : x # Own(r) => watch'[x] = watch[x]
      /\ \A q \in Runtimes : q # r => proc'[q] = proc[q]
      /\ \A x \in Groups : x[1] \in Runtimes
  BY DEF TypeOK, RuntimeOK, StartProcess, Own, Groups, Watched
<1>2. proc[r].st = "free" /\ \A x \in Groups : x[1] = r => watch[x].mon = "off"
  BY DEF TypeOK, RuntimeOK, StartProcess, Started
<1> QED
  BY <1>1, <1>2 DEF Stays, Watching, Doomed, Told

\* An attach keeps the newcomer's sender or uses it; either way no sender
\* is lost.
LEMMA AttachKept ==
    ASSUME TypeOK, NEW s \in Sessions, NEW x \in Groups, Watching(x),
           AttachAndConsume(s, x), proc' = proc
    PROVE  Stays /\ HostKeeps
<1> DEFINE W == Signalled(watch, IF Attached(s) THEN {x} ELSE {})
<1>1. watch' = [W EXCEPT ![x].con = TRUE]
  BY DEF AttachAndConsume
<1>2. W \in [Groups -> WatchRec] /\ \A y \in Groups : W[y].mon \in {watch[y].mon, "kill"}
                                       /\ (watch[y].mon # "run" => W[y].mon = watch[y].mon)
  BY DEF TypeOK, RuntimeOK, Signalled, WatchRec
<1> HIDE DEF W
<1>3. \A y \in Groups : watch'[y].mon = W[y].mon
  BY <1>1, <1>2 DEF WatchRec
<1>4. Stays
  BY <1>2, <1>3 DEF Stays, Watching, Doomed, Told
<1>5. HostKeeps
  BY <1>4 DEF Stays, HostKeeps, AttachAndConsume, AttachedHost, TypeOK, HostOK, HostRec
<1> QED
  BY <1>4, <1>5

\* A host is removed: its senders are used, whatever else was reported.
LEMMA RemoveKept ==
    ASSUME TypeOK, KillInv, NEW s \in Sessions, host' = [host EXCEPT ![s] = NoHost],
           Stays, \A x \in Groups : x \in host[s].kills /\ Watching(x) => Doomed(x[1])'
    PROVE  HostKeeps
BY DEF TypeOK, HostOK, HostRec, HostKeeps, NoHost, KillInv, HeldAreWatched

\* A detach keeps every sender.
LEMMA DetachKept ==
    ASSUME TypeOK, NEW s, host' = [host EXCEPT ![s] = DetachedHost(s)]
    PROVE  HostKeeps
BY DEF TypeOK, HostOK, HostRec, HostKeeps, DetachedHost

\* No step of the supervisor, nor its end in mid-launch, breaks the invariant.
LEMMA SupervisorKept ==
    TypeOK /\ TypeOK' /\ KillInv /\ (Supervisor \/ CancelLaunch) => KillInv'
<1> SUFFICES ASSUME TypeOK, TypeOK', KillInv, Supervisor \/ CancelLaunch
             PROVE  KillInv'
  OBVIOUS
<1> USE FrameKept, KillInvKept DEF runtime, writes, boot
<1>h. sup.pc \in HoldsRuntime => Own(sup.rt) \in Groups /\ Watching(Own(sup.rt))
  BY DEF KillInv, HeldAreWatched, TypeOK, SupOK, Started, Own, Groups
<1>g. ASSUME NEW pc \in SupPcs, SupGo(pc),
             pc \in HoldsRuntime => sup.pc \in HoldsRuntime
      PROVE  SupKeeps
  BY <1>g DEF SupKeeps, SupGo, TypeOK, SupOK, SupRec
<1>c. ASSUME NEW pc \in SupPcs, NEW rec, sup' = [sup EXCEPT !.pc = pc, !.rec = rec],
             pc \in HoldsRuntime => sup.pc \in HoldsRuntime
      PROVE  SupKeeps
  BY <1>c DEF SupKeeps, TypeOK, SupOK, SupRec
<1>l. SupLoop => SupKeeps
  BY DEF SupKeeps, SupLoop, IdleSup, HoldsRuntime
<1>i. sup' = IdleSup => SupKeeps
  BY DEF SupKeeps, IdleSup, HoldsRuntime
<1>1. CASE TakeGuard
  BY <1>1, <1>l DEF TakeGuard
<1>2. CASE SelectNone
  BY <1>2, <1>i DEF SelectNone
<1>3. ASSUME NEW s \in Sessions, SelectNext(s) PROVE KillInv'
  BY <1>3 DEF SelectNext, SupKeeps, IdleSup, HoldsRuntime
<1>4. CASE Mark
  BY <1>4, <1>g, <1>c DEF Mark, SupPcs, HoldsRuntime
<1>5. CASE MarkPersist
  BY <1>5, <1>g, <1>l DEF MarkPersist, SupPcs, HoldsRuntime
<1>6. CASE MarkInsert
  BY <1>6, <1>g DEF MarkInsert, SupPcs, HoldsRuntime
<1>7. CASE Stage1
  <2>1. HostKeeps
    BY <1>7 DEF Stage1, HostKeeps, TypeOK, HostOK, HostRec
  <2> QED
    BY <1>7, <2>1, <1>c DEF Stage1, SupPcs, HoldsRuntime
<1>8. ASSUME NEW pc \in {"stage1_persist", "stage2_persist"},
             NEW next \in {"check1", "spawn"}, StagePersist(pc, next)
      PROVE  KillInv'
  BY <1>8, <1>g DEF StagePersist, SupPcs, HoldsRuntime
<1>9. CASE Check1
  BY <1>9, <1>g, <1>c DEF Check1, SupPcs, HoldsRuntime
<1>10. ASSUME NEW r \in Runtimes, SpawnRuntime(r) PROVE KillInv'
  <2>1. Stays /\ Watching(Own(r))'
    BY <1>10, StartKept DEF SpawnRuntime
  <2>2. sup'.rt = r
    BY <1>10 DEF SpawnRuntime, TypeOK, SupOK, SupRec
  <2>3. SupKeeps
    <3>1. Watching(Own(sup.rt))'
      BY <2>1, <2>2 DEF Watching, Own
    <3> QED
      BY <3>1 DEF SupKeeps
  <2> QED
    BY <1>10, <2>1, <2>3 DEF SpawnRuntime
<1>11. CASE Check2
  <2>1. Stays
    BY <1>11, SignalKept DEF Check2
  <2>2. SupKeeps
    BY <1>11, <1>g, <1>c DEF Check2, SupAt, SupPcs, HoldsRuntime
  <2> QED
    BY <1>11, <2>1, <2>2 DEF Check2
<1>12. CASE ReplacePersist
  <2>1. Stays
    BY <1>12, SignalKept DEF ReplacePersist
  <2>2. SupKeeps
    BY <1>12, <1>g DEF ReplacePersist, SupAt, SupPcs, HoldsRuntime
  <2> QED
    BY <1>12, <2>1, <2>2 DEF ReplacePersist
<1>13. CASE ReplaceInsert
  BY <1>13, <1>g DEF ReplaceInsert, SupAt, SupPcs, HoldsRuntime
<1>14. CASE LaunchAttach
  <2>1. Stays /\ HostKeeps
    BY <1>14, <1>h, AttachKept DEF LaunchAttach, SupAt, HoldsRuntime, TypeOK, SupOK
  <2>2. SupKeeps
    BY <1>14, <1>g, <1>l DEF LaunchAttach, SupPcs, HoldsRuntime
  <2> QED
    BY <1>14, <2>1, <2>2 DEF LaunchAttach
<1>15. CASE LaunchError
  BY <1>15, <1>g DEF LaunchError, SupPcs, HoldsRuntime
<1>16. CASE Fail
  BY <1>16, <1>c DEF Fail, SupPcs, HoldsRuntime
<1>17. CASE FailPersist
  BY <1>17, <1>g, <1>l DEF FailPersist, SupPcs, HoldsRuntime
<1>18. CASE FailInsert
  BY <1>18, <1>l DEF FailInsert
<1>19. CASE CancelLaunch
  BY <1>19, <1>i, SignalKept DEF CancelLaunch
<1> QED
  BY <1>1, <1>2, <1>3, <1>4, <1>5, <1>6, <1>7, <1>8, <1>9, <1>10, <1>11, <1>12,
     <1>13, <1>14, <1>15, <1>16, <1>17, <1>18, <1>19 DEF Supervisor

\* How a command may move on: the pcs at which it holds or hunts a runtime
\* are reached only from pcs at which it already did, or with a reason.
LEMMA GotoKept ==
    ASSUME TypeOK, NEW c \in Clients, NEW pc \in CmdPcs,
           cmd'[c].pc = pc, cmd'[c].rt = cmd[c].rt, cmd'[c].s = cmd[c].s,
           \A d \in Clients \ {c} : cmd'[d] = cmd[d],
           pc \in Holding => /\ cmd[c].pc \in Holding
                             /\ pc = "e_attach" <=> cmd[c].pc = "e_attach",
           pc \in Marked => cmd[c].pc \in Marked,
           pc \in Sent => cmd[c].pc \in Sent \/ cmd[c].rt = NoRuntime \/ Doomed(cmd[c].rt)'
    PROVE  CmdKeeps
<1>1. KeptBy(c)
  <2>1. HeldBy(c)' \subseteq HeldBy(c)
    BY DEF HeldBy, Holding, Own, Restored
  <2> QED
    BY <2>1 DEF KeptBy
<1>2. \A d \in Clients \ {c} : KeptBy(d)
  BY DEF KeptBy, HeldBy
<1> QED
  BY <1>1, <1>2 DEF CmdKeeps

\* A command that ends has no obligations left; the others keep theirs.
LEMMA FinishKept ==
    ASSUME TypeOK, NEW c \in Clients, Finish(c)
    PROVE  CmdKeeps
<1>1. cmd'[c].pc = "idle" /\ \A d \in Clients \ {c} : cmd'[d] = cmd[d]
  BY IdleType DEF Finish, TypeOK, CmdOK
<1> QED
  BY <1>1 DEF CmdKeeps, KeptBy, HeldBy, Holding, Marked, Sent

\* No step of a command, nor its cancellation, breaks the invariant.
LEMMA ProgressKept ==
    ASSUME TypeOK, TypeOK', KillInv, NEW c \in Clients, Progress(c) \/ Cancel(c)
    PROVE  KillInv'
<1> USE FrameKept, KillInvKept DEF runtime, writes, boot
<1>p. cmd[c].pc # "idle" => cmd[c].s \in Sessions
  BY DEF TypeOK, CmdOK
<1>h. cmd[c].pc \in Holding =>
         \A x \in HeldBy(c) : x \in Groups /\ Watching(x)
  BY DEF KillInv, HeldAreWatched, TypeOK, CmdOK, Started, HeldBy, Own, Restored, Groups
<1>f. Finish(c) => CmdKeeps
  BY FinishKept
<1>g. ASSUME NEW pc \in CmdPcs, NEW rec, Goto(c, pc) \/ GotoWith(c, pc, rec),
             pc \in Holding => /\ cmd[c].pc \in Holding
                               /\ pc = "e_attach" <=> cmd[c].pc = "e_attach",
             pc \in Marked => cmd[c].pc \in Marked,
             pc \in Sent => cmd[c].pc \in Sent \/ cmd[c].rt = NoRuntime
                            \/ Doomed(cmd[c].rt)'
      PROVE  CmdKeeps
  <2>1. /\ cmd'[c].pc = pc /\ cmd'[c].rt = cmd[c].rt /\ cmd'[c].s = cmd[c].s
        /\ \A d \in Clients \ {c} : cmd'[d] = cmd[d]
    BY <1>g DEF Goto, GotoWith, TypeOK, CmdOK, CmdRec
  <2> QED
    BY <1>g, <2>1, GotoKept
<1>q. ASSUME NEW pc \in CmdPcs \ (Holding \cup Marked \cup Sent), NEW rec,
             Goto(c, pc) \/ GotoWith(c, pc, rec)
      PROVE  CmdKeeps
  BY <1>q, <1>g
<1>1. CASE EnqueuePersist(c)
  BY <1>1, <1>f, <1>q DEF EnqueuePersist, CmdPcs, Holding, Marked, Sent
<1>2. CASE EnqueueInsert(c)
  BY <1>2, <1>f DEF EnqueueInsert
<1>3. CASE TermMark(c)
  <2>1. CmdKeeps
    BY <1>3, <1>f, <1>g DEF TermMark, CmdAt, CmdPcs, Holding, Marked, Sent
  <2> QED
    BY <1>3, <2>1 DEF TermMark
<1>4. CASE TermSignal(c)
  <2> DEFINE s == cmd[c].s
  <2>1. s \in Sessions /\ cmd[c].pc = "t_signal"
    BY <1>4, <1>p DEF TermSignal, CmdAt
  <2>2. Stays /\ \A x \in Groups : x \in host[s].kills /\ Watching(x) => Doomed(x[1])'
    BY <1>4, SignalKept DEF TermSignal
  <2>3. \A x \in host[s].kills : x \in Groups /\ Doomed(x[1])'
    BY <2>1, <2>2 DEF TypeOK, HostOK, HostRec, KillInv, HeldAreWatched
  <2>4. HostKeeps
    BY <1>4, <2>1, <2>3 DEF TermSignal, HostKeeps, TypeOK, HostOK, HostRec
  <2>5. cmd[c].rt \in Runtimes \cup {NoRuntime}
    BY DEF TypeOK, CmdOK, CmdRec
  <2>6. cmd[c].rt = NoRuntime \/ Doomed(cmd[c].rt)'
    <3>1. cmd'[c].rt = cmd[c].rt
      BY <1>4 DEF TermSignal, Goto, TypeOK, CmdOK, CmdRec
    <3> QED
      BY <3>1, <2>1, <2>2, <2>3, <2>5
      DEF KillInv, MarkedIsReachable, Marked, Reachable, Stays, Doomed, Told
  <2>7. CmdKeeps
    BY <1>4, <2>6, <1>g DEF TermSignal, CmdPcs, Holding, Marked
  <2> QED
    BY <1>4, <2>2, <2>4, <2>7 DEF TermSignal
<1>5. CASE TermReap(c)
  <2> DEFINE s == cmd[c].s
             r == mem[s].pid
  <2>1. s \in Sessions /\ cmd[c].pc = "t_reap"
    BY <1>5, <1>p DEF TermReap, CmdAt
  <2>2. CmdKeeps
    BY <1>5, <2>1, <1>f, <1>g DEF TermReap, CmdPcs, Holding, Marked, Sent
  <2>3. host' = [host EXCEPT ![s] = NoHost]
    BY <1>5 DEF TermReap, RemoveHost
  <2>4. Stays /\ \A x \in Groups : x \in host[s].kills /\ Watching(x) => Doomed(x[1])'
    <3>1. CASE /\ Live(r) /\ proc' = [proc EXCEPT ![r].st = "dead"]
               /\ \E event \in Outcomes : RemoveHost(s, Gone(watch, r, event))
      <4>1. r \in Runtimes
        BY <2>1, <3>1 DEF Live, TypeOK, StoreOK, Rec
      <4>2. PICK event \in Outcomes : RemoveHost(s, Gone(watch, r, event))
        BY <3>1
      <4>3. watch' = Signalled(Gone(watch, r, event), host[s].kills)
        BY <4>2 DEF RemoveHost
      <4> HIDE DEF r, s
      <4> QED
        BY <3>1, <4>1, <4>3, GoneKept
    <3>2. CASE RemoveHost(s, watch) /\ UNCHANGED proc
      BY <3>2, SignalKept DEF RemoveHost
    <3> QED
      BY <1>5, <3>1, <3>2 DEF TermReap
  <2>5. HostKeeps
    <3> HIDE DEF s
    <3> QED
      BY <2>1, <2>3, <2>4, RemoveKept
  <2> QED
    BY <1>5, <2>2, <2>4, <2>5 DEF TermReap
<1>6. CASE TermApply(c)
  <2>1. CmdKeeps
    BY <1>6, <1>f, <1>g DEF TermApply, CmdAt, CmdPcs, Holding, Marked, Sent
  <2> QED
    BY <1>6, <2>1 DEF TermApply
<1>7. CASE TermPersist(c)
  <2>1. CmdKeeps
    BY <1>7, <1>f, <1>g DEF TermPersist, CmdAt, CmdPcs, Holding, Marked, Sent
  <2> QED
    BY <1>7, <2>1 DEF TermPersist
<1>8. CASE TermInsert(c)
  BY <1>8, <1>f DEF TermInsert
<1>9. CASE EnsureAttach(c)
  <2>1. CmdKeeps
    BY <1>9, <1>f, <1>q DEF EnsureAttach, CmdPcs, Holding, Marked, Sent
  <2>2. CASE AttachAndConsume(cmd[c].s, Restored(cmd[c].rt))
    <3>1. Restored(cmd[c].rt) \in Groups /\ Watching(Restored(cmd[c].rt))
      BY <1>9, <1>h DEF EnsureAttach, CmdAt, Holding, HeldBy
    <3>2. Stays /\ HostKeeps
      BY <1>9, <1>p, <2>2, <3>1, AttachKept DEF EnsureAttach, CmdAt
    <3> QED
      BY <1>9, <2>1, <3>2 DEF EnsureAttach
  <2>3. CASE watch' = Signalled(watch, HeldBy(c)) /\ host' = host
    BY <1>9, <2>1, <2>3, SignalKept DEF EnsureAttach
  <2> QED
    BY <1>9, <2>2, <2>3 DEF EnsureAttach
<1>10. CASE EnsurePersist(c)
  BY <1>10, <1>f, <1>q DEF EnsurePersist, CmdPcs, Holding, Marked, Sent
<1>11. CASE SendApply(c)
  BY <1>11, <1>q DEF SendApply, CmdPcs, Holding, Marked, Sent
<1>12. CASE SendPersist(c)
  BY <1>12, <1>f DEF SendPersist
<1>13. ASSUME NEW r \in Runtimes, ResumeSpawn(c, r) PROVE KillInv'
  <2>1. Stays /\ Watching(Own(r))'
    BY <1>13, StartKept DEF ResumeSpawn
  <2>2. /\ cmd'[c].pc = "r_apply" /\ cmd'[c].rt = r
        /\ \A d \in Clients \ {c} : cmd'[d] = cmd[d]
    BY <1>13 DEF ResumeSpawn, TypeOK, CmdOK, CmdRec
  <2>3. HeldBy(c)' = {Own(r)}
    BY <2>2 DEF HeldBy, Holding, Own
  <2>4. KeptBy(c)
    BY <2>1, <2>2, <2>3 DEF KeptBy, Marked, Sent, Watching
  <2>5. CmdKeeps
    BY <2>2, <2>4 DEF CmdKeeps, KeptBy, HeldBy
  <2> QED
    BY <1>13, <2>1, <2>5 DEF ResumeSpawn
<1>14. CASE ResumeError(c)
  BY <1>14, <1>f DEF ResumeError
<1>15. CASE ResumeApply(c)
  <2>1. CmdKeeps
    BY <1>15, <1>f, <1>g DEF ResumeApply, CmdAt, CmdPcs, Holding, Marked, Sent
  <2>2. Stays
    BY <1>15, SignalKept DEF ResumeApply
  <2> QED
    BY <1>15, <2>1, <2>2 DEF ResumeApply
<1>16. CASE ResumePersist(c)
  <2>1. CmdKeeps
    BY <1>16, <1>f, <1>g DEF ResumePersist, CmdAt, CmdPcs, Holding, Marked, Sent
  <2>2. Stays
    BY <1>16, SignalKept DEF ResumePersist
  <2> QED
    BY <1>16, <2>1, <2>2 DEF ResumePersist
<1>17. CASE ResumeInsert(c)
  <2>1. CmdKeeps
    BY <1>17, <1>g DEF ResumeInsert, CmdAt, CmdPcs, Holding, Marked, Sent
  <2> QED
    BY <1>17, <2>1 DEF ResumeInsert
<1>18. CASE ResumeAttach(c)
  <2>1. CmdKeeps
    BY <1>18, <1>f, <1>q DEF ResumeAttach, CmdPcs, Holding, Marked, Sent
  <2>2. Own(cmd[c].rt) \in Groups /\ Watching(Own(cmd[c].rt))
    BY <1>18, <1>h DEF ResumeAttach, CmdAt, Holding, HeldBy
  <2>3. Stays /\ HostKeeps
    BY <1>18, <1>p, <2>2, AttachKept DEF ResumeAttach, CmdAt
  <2> QED
    BY <1>18, <2>1, <2>3 DEF ResumeAttach
<1>19. CASE RestorePersist(c)
  BY <1>19, <1>q DEF RestorePersist, CmdPcs, Holding, Marked, Sent
<1>20. ASSUME NEW s \in Sessions, RestoreEnqueue(c, s) PROVE KillInv'
  <2>1. cmd'[c].pc = "q_persist" /\ \A d \in Clients \ {c} : cmd'[d] = cmd[d]
    BY <1>20 DEF RestoreEnqueue, TypeOK, CmdOK, CmdRec, Idle, IdleCmd
  <2>2. CmdKeeps
    BY <2>1 DEF CmdKeeps, KeptBy, HeldBy, Holding, Marked, Sent
  <2> QED
    BY <1>20, <2>2 DEF RestoreEnqueue
<1>21. CASE Cancel(c)
  BY <1>21, <1>f, SignalKept DEF Cancel
<1> QED
  BY <1>1, <1>2, <1>3, <1>4, <1>5, <1>6, <1>7, <1>8, <1>9, <1>10, <1>11, <1>12,
     <1>13, <1>14, <1>15, <1>16, <1>17, <1>18, <1>19, <1>20, <1>21 DEF Progress

\* No command that begins breaks the invariant: a termination records the
\* runtime attached at that moment, for which the host holds a sender.
LEMMA RequestKept ==
    ASSUME TypeOK, TypeOK', KillInv, NEW c \in Clients, Request(c)
    PROVE  KillInv'
<1> USE FrameKept, KillInvKept DEF runtime, writes, boot
<1>b. ASSUME NEW op, NEW pc \in CmdPcs, NEW s \in Sessions, NEW r, NEW rec,
             Begin(c, op, pc, s, r, rec)
      PROVE  /\ cmd'[c].pc = pc /\ cmd'[c].s = s /\ cmd'[c].rt = r
             /\ \A d \in Clients \ {c} : cmd'[d] = cmd[d]
  BY <1>b DEF Begin, TypeOK, CmdOK
<1>q. ASSUME NEW op, NEW pc \in CmdPcs \ (Holding \cup Marked \cup Sent),
             NEW s \in Sessions, NEW r, NEW rec, Begin(c, op, pc, s, r, rec)
      PROVE  CmdKeeps
  <2>1. /\ cmd'[c].pc = pc /\ pc \notin Holding \cup Marked \cup Sent
        /\ \A d \in Clients \ {c} : cmd'[d] = cmd[d]
    BY <1>q, <1>b
  <2>2. HeldBy(c)' = {}
    BY <2>1 DEF HeldBy, Holding
  <2>3. KeptBy(c)
    BY <2>1, <2>2 DEF KeptBy
  <2> QED
    BY <2>1, <2>3 DEF CmdKeeps, KeptBy, HeldBy
<1>t. ASSUME NEW s \in Sessions, NEW op, TerminateStart(c, op, s),
             proc' = proc, watch' = watch, host' = host
      PROVE  CmdKeeps
  <2> DEFINE r == IF Attached(s) THEN host[s].input ELSE NoRuntime
  <2>1. PICK rec : Begin(c, op, "t_mark", s, r, rec)
    BY <1>t DEF TerminateStart
  <2>2. /\ cmd'[c].pc = "t_mark" /\ cmd'[c].s = s /\ cmd'[c].rt = r
        /\ \A d \in Clients \ {c} : cmd'[d] = cmd[d]
    BY <2>1, <1>b DEF CmdPcs
  <2>3. r = NoRuntime \/ Reachable(s, r)
    BY DEF KillInv, InputHasSender
  <2> HIDE DEF r
  <2>4. cmd'[c].rt = NoRuntime \/ Reachable(cmd[c].s, cmd[c].rt)'
    BY <1>t, <2>2, <2>3 DEF Reachable, Doomed, Told
  <2>5. KeptBy(c)
    BY <2>2, <2>4 DEF KeptBy, HeldBy, Holding, Sent
  <2> QED
    BY <2>2, <2>5 DEF CmdKeeps, KeptBy, HeldBy
<1>1. ASSUME NEW s \in Sessions, NEW key \in Keys, Enqueue(c, s, key) PROVE KillInv'
  BY <1>1, <1>q DEF Enqueue, CmdPcs, Holding, Marked, Sent
<1>2. ASSUME NEW s \in Sessions, NEW op \in TermOps, Terminate(c, op, s) PROVE KillInv'
  BY <1>2, <1>t DEF Terminate
<1>3. ASSUME NEW r \in Runtimes, Timeout(c, r) PROVE KillInv'
  <2>1. proc[r].s \in Sessions
    BY <1>3 DEF Timeout, TypeOK, RuntimeOK, Started
  <2> QED
    BY <1>3, <2>1, <1>t DEF Timeout
<1>4. ASSUME NEW s \in Sessions, SendLive(c, s) PROVE KillInv'
  BY <1>4, <1>q DEF SendLive, CmdPcs, Holding, Marked, Sent
<1>5. ASSUME NEW s \in Sessions, SendRecover(c, s) PROVE KillInv'
  <2>1. PICK r \in Runtimes :
           /\ watch' = [watch EXCEPT ![Restored(r)] = Watched]
           /\ watch[Restored(r)] = NoWatch
           /\ Begin(c, "send", "e_attach", s, r, NoRec)
           /\ UNCHANGED <<mem, disk, host, proc, timers, sup, kick, writes, boot>>
    BY <1>5 DEF SendRecover, Live, TypeOK, StoreOK, Rec
  <2>2. Restored(r) \in Groups /\ Restored(r)[1] = r
    BY DEF Restored, Groups
  <2>3. watch'[Restored(r)].mon = "run" /\ \A x \in Groups \ {Restored(r)} : watch'[x] = watch[x]
    BY <2>1, <2>2 DEF TypeOK, RuntimeOK, Watched
  <2>4. Stays /\ Watching(Restored(r))'
    BY <2>1, <2>2, <2>3 DEF Stays, Watching, Doomed, Told, NoWatch
  <2>5. /\ cmd'[c].pc = "e_attach" /\ cmd'[c].s = s /\ cmd'[c].rt = r
        /\ \A d \in Clients \ {c} : cmd'[d] = cmd[d]
    BY <2>1, <1>b DEF CmdPcs
  <2>6. HeldBy(c)' = {Restored(r)}
    BY <2>5 DEF HeldBy, Restored
  <2>7. KeptBy(c)
    BY <2>4, <2>5, <2>6 DEF KeptBy, Marked, Sent, Watching
  <2>8. CmdKeeps
    BY <2>5, <2>7 DEF CmdKeeps, KeptBy, HeldBy
  <2> QED
    BY <2>1, <2>4, <2>8
<1>6. ASSUME NEW s \in Sessions, SendExited(c, s) PROVE KillInv'
  <2>1. HostKeeps
    BY <1>6, DetachKept DEF SendExited
  <2>2. CmdKeeps
    BY <1>6, <1>q DEF SendExited, CmdPcs, Holding, Marked, Sent
  <2> QED
    BY <1>6, <2>1, <2>2 DEF SendExited
<1>7. ASSUME NEW s \in Sessions, RestoreStart(c, s) PROVE KillInv'
  <2>1. CmdKeeps
    BY <1>7, <1>q DEF RestoreStart, CmdPcs, Holding, Marked, Sent
  <2> QED
    BY <1>7, <2>1 DEF RestoreStart
<1> QED
  BY <1>1, <1>2, <1>3, <1>4, <1>5, <1>6, <1>7 DEF Request

\* No exit, output or report of a runtime and no flush breaks the invariant.
LEMMA EventsKept == TypeOK /\ TypeOK' /\ KillInv /\ Events => KillInv'
<1> SUFFICES ASSUME TypeOK, TypeOK', KillInv, Events PROVE KillInv'
  OBVIOUS
<1> USE FrameKept, KillInvKept DEF runtime, writes, boot
<1>1. ASSUME NEW x \in Groups, Output(x) PROVE KillInv'
  BY <1>1 DEF Output
<1>2. ASSUME NEW x \in Groups, AsksInput(x) PROVE KillInv'
  BY <1>2 DEF AsksInput
<1>3. ASSUME NEW x \in Groups, Consume(x) PROVE KillInv'
  <2>1. Stays
    <3>1. /\ watch' = [watch EXCEPT ![x].con = FALSE, ![x].evt = "none"] /\ proc' = proc
          /\ watch \in [Groups -> WatchRec]
      BY <1>3 DEF Consume, TypeOK, RuntimeOK
    <3>2. \A y \in Groups : watch'[y].mon = watch[y].mon
      BY <3>1 DEF WatchRec
    <3> QED
      BY <3>1, <3>2 DEF Stays, Watching, Doomed, Told
  <2>2. HostKeeps
    BY <1>3, DetachKept DEF Consume
  <2> QED
    BY <1>3, <2>1, <2>2 DEF Consume
<1>4. ASSUME NEW x \in Groups, MonitorDetach(x) PROVE KillInv'
  <2>1. Stays
    BY <1>4 DEF MonitorDetach, TypeOK, RuntimeOK, WatchRec, Stays, Watching, Doomed, Told
  <2>2. HostKeeps
    BY <1>4, DetachKept DEF MonitorDetach
  <2> QED
    BY <1>4, <2>1, <2>2 DEF MonitorDetach
<1>5. ASSUME NEW r \in Runtimes, Dies(r) PROVE KillInv'
  <2>1. PICK event \in Outcomes : watch' = Gone(watch, r, event)
    BY <1>5 DEF Dies
  <2>2. Signalled(Gone(watch, r, event), {}) = Gone(watch, r, event)
    BY DEF Signalled, Gone
  <2>3. proc' = [proc EXCEPT ![r].st = "dead"]
    BY <1>5 DEF Dies
  <2>4. Stays
    BY <2>1, <2>2, <2>3, GoneKept
  <2> QED
    BY <1>5, <2>4 DEF Dies
<1>6. CASE FlushDrain
  BY <1>6 DEF FlushDrain
<1>7. ASSUME NEW s \in Sessions, FlushWrite(s) PROVE KillInv'
  BY <1>7 DEF FlushWrite
<1> QED
  BY <1>1, <1>2, <1>3, <1>4, <1>5, <1>6, <1>7 DEF Events, Exit, MonitorKills

\* After a crash nobody holds or hunts anything.
LEMMA CrashKept == TypeOK /\ TypeOK' /\ Crash => KillInv'
<1> SUFFICES ASSUME TypeOK, TypeOK', Crash PROVE KillInv'
  OBVIOUS
<1>1. \A s \in Sessions : host'[s].kills = {} /\ host'[s].input = NoRuntime
  BY DEF Crash, NoHost
<1>2. sup'.pc = "idle" /\ \A c \in Clients : cmd'[c].pc = "idle"
  BY IdleType DEF Crash, IdleSup, TypeOK
<1>3. \A c \in Clients : HeldBy(c)' = {}
  BY <1>2 DEF HeldBy, Holding
<1> QED
  BY <1>1, <1>2, <1>3 DEF KillInv, HeldAreWatched, InputHasSender, MarkedIsReachable,
     KillReachesRuntime, HoldsRuntime, Marked

\* The start-up keeps the invariant: what it attaches comes with its sender.
LEMMA BootKept == TypeOK /\ TypeOK' /\ KillInv /\ Boot => KillInv'
<1> SUFFICES ASSUME TypeOK, TypeOK', KillInv, Boot PROVE KillInv'
  OBVIOUS
<1> USE FrameKept, KillInvKept DEF runtime, writes, boot
<1>1. CASE BootLoad \/ BootLaunched \/ BootArchived \/ BootServe
  BY <1>1 DEF BootLoad, BootLaunched, BootArchived, BootServe
<1>2. ASSUME NEW s \in Sessions, BootArchive(s) PROVE KillInv'
  BY <1>2 DEF BootArchive
<1>3. ASSUME NEW s \in Sessions, BootReattach(s) PROVE KillInv'
  <2>1. PICK r \in Runtimes : r = mem[s].pid
    BY <1>3 DEF BootReattach, Live, TypeOK, StoreOK, Rec
  <2>2. PICK x \in {Restored(r), Own(r)} :
        /\ watch[x] = NoWatch
        /\ UNCHANGED <<proc, sup, cmd>>
        /\ \/ /\ host' = [host EXCEPT ![s] = AttachedHost(s, x)]
              /\ watch' = [watch EXCEPT ![x] = [Watched EXCEPT !.con = TRUE]]
           \/ /\ watch' = [watch EXCEPT ![x] = [Watched EXCEPT !.mon = "kill"]]
              /\ UNCHANGED host
    BY <1>3, <2>1 DEF BootReattach
  <2>x. x \in Groups /\ x[1] = r
    BY DEF Restored, Own, Groups
  <2>3. /\ watch'[x].mon \in {"run", "kill"}
        /\ \A y \in Groups \ {x} : watch'[y] = watch[y]
    BY <2>x, <2>2 DEF TypeOK, RuntimeOK, Watched
  <2>4. Stays /\ Watching(x)'
    BY <2>x, <2>2, <2>3 DEF Stays, Watching, Doomed, Told, NoWatch
  <2>5. HostKeeps
    BY <2>2, <2>4 DEF HostKeeps, AttachedHost, Watching, TypeOK, HostOK, HostRec
  <2> QED
    BY <2>2, <2>4, <2>5
<1>4. ASSUME NEW s \in Sessions, BootExited(s) PROVE KillInv'
  <2>1. HostKeeps
    BY <1>4, DetachKept DEF BootExited
  <2> QED
    BY <1>4, <2>1 DEF BootExited
<1>5. ASSUME NEW s \in Sessions, BootSkip(s) PROVE KillInv'
  BY <1>5 DEF BootSkip
<1> QED
  BY <1>1, <1>2, <1>3, <1>4, <1>5 DEF Boot

\* Initially no host, launch or command holds a sender.
LEMMA KillInvInit == Init => KillInv
<1> SUFFICES ASSUME Init PROVE KillInv
  OBVIOUS
<1>1. \A s \in Sessions : host[s].kills = {} /\ host[s].input = NoRuntime
  BY DEF Init, NoHost
<1>2. sup.pc = "idle" /\ \A c \in Clients : cmd[c].pc = "idle" /\ HeldBy(c) = {}
  BY DEF Init, IdleSup, IdleCmd, HeldBy, Holding
<1> QED
  BY <1>1, <1>2 DEF KillInv, HeldAreWatched, InputHasSender, MarkedIsReachable,
     KillReachesRuntime, HoldsRuntime, Marked

\* KillInv is inductive, given the types.
LEMMA KillInvNext == TypeOK /\ KillInv /\ [Next]_vars => KillInv'
<1> SUFFICES ASSUME TypeOK, KillInv, [Next]_vars PROVE KillInv'
  OBVIOUS
<1>1. TypeOK'
  BY NextType
<1>2. CASE UNCHANGED vars
  BY <1>1, <1>2, FrameKept, KillInvKept DEF vars
<1>3. CASE Next
  BY <1>1, <1>3, SupervisorKept, RequestKept, ProgressKept, EventsKept, CrashKept,
     BootKept DEF Next
<1> QED
  BY <1>2, <1>3

\* Whatever attaches, detaches, terminations, launches, faults and crashes
\* come in between, for any number of sessions, processes and clients: once a
\* kill, an archive or a timeout has sent its signals, the runtime that was
\* attached when it began is dead or has been told to die.
THEOREM KillIsDelivered == Spec => []KillReachesRuntime
<1>1. Init => TypeOK /\ KillInv
  BY InitType, KillInvInit
<1>2. TypeOK /\ KillInv /\ [Next]_vars => (TypeOK /\ KillInv)'
  BY NextType, KillInvNext
<1>3. TypeOK /\ KillInv => KillReachesRuntime
  BY DEF KillInv
<1> QED
  BY <1>1, <1>2, <1>3, PTL DEF Spec

-----------------------------------------------------------------------------
(***************************************************************************)
(* The launches: no session returns to the queue while the server lives, and *)
(* the supervisor starts at most one process for a session in one life of  *)
(* the server.                                                             *)
(***************************************************************************)

\* The session is known and has left the queue.
Settled(s) == mem[s].status \notin {"absent", "queued"}
SettledRec(rec) == rec.status \notin {"absent", "queued"}

PreSpawn == {"mark", "mark_persist", "mark_insert", "stage1", "stage1_persist",
             "check1", "stage2_persist", "spawn"}
PastMark == SupPcs \ {"idle", "select", "mark"}
SupClones == {"mark_persist", "mark_insert", "replace_persist", "replace_insert",
              "fail_persist", "fail_insert"}
Enqueues == {"q_persist", "q_insert"}
CmdClones == {"t_persist", "t_insert", "r_persist", "r_insert"}

\* The supervisor's session is known, settled once it was marked, and what
\* the supervisor is about to insert would leave it so.
SupSettled ==
    /\ sup.pc = "mark" => Present(sup.s)
    /\ sup.pc \in PastMark => Settled(sup.s)
    /\ sup.pc \in SupClones => SettledRec(sup.rec)

\* So is what a command is about to insert, except in an enqueue, whose id is
\* its own and not yet known.
Entitled(c) ==
    /\ cmd[c].pc # "idle" => phase = "serving"
    /\ cmd[c].pc \notin Enqueues \cup {"idle"} => Present(cmd[c].s)
    /\ cmd[c].pc \in CmdClones => SettledRec(cmd[c].rec)
    /\ cmd[c].pc \in Enqueues
          => /\ ~Present(cmd[c].s)
             /\ \A d \in Clients \ {c} :
                   cmd[d].pc \in Enqueues => cmd[d].s # cmd[c].s

\* A process the supervisor started in the server's present life.
LaunchedNow(r) == Started(r) /\ proc[r].by = "launch" /\ proc[r].life = crashes

\* Its session is settled, and the supervisor is not about to launch it.
LaunchedSettled ==
    \A r \in Runtimes : LaunchedNow(r) =>
        /\ phase # "down"
        /\ Settled(proc[r].s)
        /\ sup.pc \in PreSpawn => sup.s # proc[r].s

Lives == \A r \in Runtimes : Started(r) => proc[r].life <= crashes

DownIsIdle == phase = "down" => sup.pc = "idle" /\ todo = {}

TodoPresent == \A s \in todo : Present(s)

LaunchInv ==
    /\ SupSettled /\ DownIsIdle /\ TodoPresent
    /\ \A c \in Clients : Entitled(c)
    /\ Lives /\ LaunchedSettled /\ LaunchOnce

-----------------------------------------------------------------------------
(* A step that neither moves the server's phase nor loads the files keeps   *)
(* LaunchInv under these conditions.                                        *)

\* A status changes only for a known session, and then not to "queued".
StatusKeeps ==
    \A s \in Sessions : mem'[s].status = mem[s].status \/ (Present(s) /\ Settled(s)')

\* Whatever starts was not started by the supervisor.
ProcKeeps ==
    \A r \in Runtimes : Started(r)' =>
        \/ /\ Started(r) /\ proc'[r].s = proc[r].s
           /\ proc'[r].by = proc[r].by /\ proc'[r].life = proc[r].life
        \/ proc'[r].by = "resume" /\ proc'[r].life = crashes

SupMoves ==
    /\ SupSettled'
    /\ sup' = sup \/ Up
    /\ sup'.pc \in PreSpawn => \/ sup.pc \in PreSpawn /\ sup'.s = sup.s
                               \/ ~Settled(sup'.s)

CmdMoves ==
    \A c \in Clients : cmd'[c] = cmd[c] \/ cmd'[c].pc = "idle" \/ Entitled(c)'

\* A session that is known, settled or neither stays so.
LEMMA StatusKept ==
    ASSUME StatusKeeps
    PROVE  \A s \in Sessions :
              /\ mem'[s].status # "absent" <=> Present(s)
              /\ Settled(s) => mem'[s].status \notin {"absent", "queued"}
BY DEF StatusKeeps, Present, Settled

\* A step under these conditions keeps the invariant.
LEMMA LaunchKept ==
    ASSUME TypeOK, LaunchInv, UNCHANGED <<phase, crashes>>, todo' \subseteq todo,
           StatusKeeps, ProcKeeps, SupMoves, CmdMoves
    PROVE  LaunchInv'
<1>1. DownIsIdle'
  BY DEF LaunchInv, DownIsIdle, SupMoves, Up
<1>t. TodoPresent'
  <2>1. \A s \in todo' : s \in Sessions /\ Present(s)
    BY DEF LaunchInv, TodoPresent, TypeOK, ServerOK
  <2>2. \A s \in todo' : mem'[s].status # "absent"
    BY <2>1, StatusKept
  <2> QED
    BY <2>2 DEF TodoPresent, Present
<1>2. ASSUME NEW c \in Clients PROVE Entitled(c)'
  <2>1. CASE cmd'[c] = cmd[c] /\ cmd[c].pc # "idle"
    <3>1. cmd[c].s \in Sessions
      BY <2>1 DEF TypeOK, CmdOK
    <3>2. \A d \in Clients \ {c} : cmd[c].pc \in Enqueues /\ cmd'[d].pc \in Enqueues
                                    => cmd'[d].s # cmd[c].s
      BY <2>1 DEF LaunchInv, CmdMoves, Entitled, Enqueues
    <3>3. mem'[cmd[c].s].status # "absent" <=> Present(cmd[c].s)
      BY <3>1, StatusKept
    <3>4. Entitled(c)
      BY DEF LaunchInv
    <3> QED
      BY <2>1, <3>2, <3>3, <3>4 DEF Entitled, Present
  <2>2. CASE cmd'[c].pc = "idle"
    BY <2>2 DEF Entitled, Enqueues, CmdClones
  <2> QED
    BY <2>1, <2>2 DEF CmdMoves
<1>3. Lives'
  BY DEF LaunchInv, Lives, ProcKeeps, TypeOK, ServerOK
<1>4. ASSUME NEW r \in Runtimes, LaunchedNow(r)'
      PROVE  /\ LaunchedNow(r) /\ proc'[r].s = proc[r].s /\ proc[r].s \in Sessions
             /\ Settled(proc[r].s) /\ phase # "down"
             /\ sup.pc \in PreSpawn => sup.s # proc[r].s
  <2>1. LaunchedNow(r) /\ proc'[r].s = proc[r].s
    BY <1>4 DEF LaunchedNow, ProcKeeps
  <2> QED
    BY <2>1 DEF LaunchedNow, LaunchInv, LaunchedSettled, TypeOK, RuntimeOK
<1>5. LaunchedSettled'
  <2>1. ASSUME NEW r \in Runtimes, LaunchedNow(r)'
        PROVE  /\ Settled(proc[r].s) /\ proc'[r].s = proc[r].s
               /\ mem'[proc[r].s].status \notin {"absent", "queued"}
    BY <1>4, <2>1, StatusKept
  <2>2. ASSUME NEW r \in Runtimes, LaunchedNow(r)', sup'.pc \in PreSpawn
        PROVE  sup'.s # proc'[r].s
    BY <1>4, <2>1, <2>2 DEF SupMoves
  <2> QED
    BY <1>4, <2>1, <2>2 DEF LaunchedSettled, Settled
<1>6. LaunchOnce'
  BY DEF LaunchInv, LaunchOnce, ProcKeeps, Started
<1> QED
  BY <1>1, <1>t, <1>2, <1>3, <1>5, <1>6 DEF LaunchInv, SupMoves

\* A step that leaves the supervisor alone moves it nowhere.
LEMMA SupStill ==
    ASSUME TypeOK, LaunchInv, StatusKeeps, sup' = sup
    PROVE  SupMoves
<1>1. sup.pc \in PastMark \cup {"mark"} => sup.s \in Sessions
  BY DEF TypeOK, SupOK, PastMark
<1>2. sup.pc \in PastMark \cup {"mark"} =>
         /\ mem'[sup.s].status # "absent" <=> Present(sup.s)
         /\ Settled(sup.s) => mem'[sup.s].status \notin {"absent", "queued"}
  BY <1>1, StatusKept
<1>3. SupSettled'
  <2>1. SupSettled /\ sup'.pc = sup.pc /\ sup'.s = sup.s /\ sup'.rec = sup.rec
    BY DEF LaunchInv
  <2>2. sup'.pc = "mark" => mem'[sup'.s].status # "absent"
    BY <1>2, <2>1 DEF SupSettled
  <2>3. sup'.pc \in PastMark => mem'[sup'.s].status \notin {"absent", "queued"}
    BY <1>2, <2>1 DEF SupSettled
  <2> QED
    BY <2>1, <2>2, <2>3 DEF SupSettled, Present, Settled
<1> QED
  BY <1>3 DEF SupMoves

\* A step that changes none of a session's status, the processes and the
\* commands keeps what is said of them.
LEMMA StillKeeps ==
    /\ UNCHANGED mem => StatusKeeps
    /\ UNCHANGED proc => ProcKeeps
    /\ UNCHANGED cmd => CmdMoves
BY DEF StatusKeeps, ProcKeeps, CmdMoves, Started

\* A known session gets a status that is neither "absent" nor "queued", or
\* any session keeps the one it has.
LEMMA SettleKeeps ==
    ASSUME TypeOK, NEW s \in Sessions, NEW rec, SetMem(s, rec),
           (Present(s) /\ SettledRec(rec)) \/ rec.status = mem[s].status
    PROVE  StatusKeeps
BY DEF TypeOK, StoreOK, SetMem, StatusKeeps, Settled, SettledRec
-----------------------------------------------------------------------------
(* The supervisor.                                                          *)

\* What the proofs say of a step, besides that it keeps the invariant.
NoneRequeued ==
    \A s \in Sessions :
        (phase # "down" /\ Present(s) /\ mem[s].status # "queued")
            => mem'[s].status # "queued"

\* Only the last step of an enqueue and the load of the files show a session.
NoneAppears ==
    \A s \in Sessions :
        mem'[s].status # "absent" =>
            \/ Present(s) \/ phase = "down"
            \/ \E c \in Clients : cmd[c].pc = "q_insert" /\ cmd[c].s = s

\* No session is forgotten while the server lives.
NoneVanishes ==
    \A s \in Sessions :
        phase # "down" /\ phase' # "down" /\ Present(s) => mem'[s].status # "absent"

Orderly == NoneRequeued /\ NoneAppears /\ NoneVanishes

\* A step that keeps the statuses sends no session back to the queue, shows
\* none and forgets none.
LEMMA NotRequeued == StatusKeeps => Orderly
BY DEF StatusKeeps, Orderly, NoneRequeued, NoneAppears, NoneVanishes, Present, Settled

\* The supervisor goes on with the settled session it has in hand.
LEMMA SupAdvances ==
    ASSUME TypeOK, LaunchInv, StatusKeeps, Up, sup.pc \in PastMark,
           sup'.s = sup.s, sup'.pc # "mark",
           sup'.pc \in PreSpawn => sup.pc \in PreSpawn,
           sup'.pc \in SupClones => SettledRec(sup'.rec)
    PROVE  SupMoves
<1>1. mem'[sup.s].status \notin {"absent", "queued"}
  BY StatusKept DEF LaunchInv, SupSettled, PastMark, TypeOK, SupOK
<1>2. SupSettled'
  BY <1>1 DEF SupSettled, Settled
<1> QED
  BY <1>2 DEF SupMoves

\* The supervisor has nothing in hand any more.
LEMMA SupRests ==
    ASSUME Up, sup'.pc \in {"idle", "select"}
    PROVE  SupMoves
BY DEF SupMoves, SupSettled, PastMark, PreSpawn, SupClones

\* Every step of the supervisor except the start of a process, and its end in
\* mid-launch.
SupervisorButSpawn ==
    \/ TakeGuard \/ SelectNone \/ Mark \/ MarkPersist \/ MarkInsert \/ Stage1
    \/ \E s \in Sessions : SelectNext(s)
    \/ StagePersist("stage1_persist", "check1") \/ Check1
    \/ StagePersist("stage2_persist", "spawn")
    \/ Check2 \/ ReplacePersist \/ ReplaceInsert \/ LaunchAttach
    \/ LaunchError \/ Fail \/ FailPersist \/ FailInsert
    \/ CancelLaunch

\* None of these steps breaks the invariant.
LEMMA SupervisorLaunches ==
    ASSUME TypeOK, LaunchInv, SupervisorButSpawn
    PROVE  LaunchInv' /\ Orderly
<1> USE DEF runtime, writes, boot
<1>1. UNCHANGED <<proc, cmd, phase, crashes, todo>> /\ Up
  BY DEF SupervisorButSpawn, TakeGuard, SelectNone, Mark, MarkPersist, MarkInsert, Stage1,
         SelectNext, StagePersist, Check1, Check2, ReplacePersist, ReplaceInsert,
         LaunchAttach, LaunchError, Fail, FailPersist, FailInsert, CancelLaunch,
         SupAt, Up
<1>2. SUFFICES StatusKeeps /\ SupMoves
  BY <1>1, StillKeeps, LaunchKept, NotRequeued
<1>t. sup \in SupRec /\ (sup.pc \in PastMark \cup {"mark"} => sup.s \in Sessions)
  BY DEF TypeOK, SupOK, PastMark
<1>p. SupSettled /\ (sup.pc \in PastMark => Present(sup.s))
  BY DEF LaunchInv, SupSettled, Present, Settled
<1>r. ASSUME UNCHANGED mem, sup'.pc \in {"idle", "select"} PROVE StatusKeeps /\ SupMoves
  BY <1>1, <1>r, StillKeeps, SupRests
<1>i. /\ SupLoop => sup'.pc = "select"
      /\ \A pc \in SupPcs : SupGo(pc) =>
            /\ sup'.pc = pc /\ sup'.s = sup.s
            /\ pc \in HoldsClone => sup'.rec = sup.rec
  BY <1>t DEF SupLoop, SupGo, IdleSup, SupRec
<1>a. ASSUME UNCHANGED mem, NEW pc \in PastMark, SupGo(pc), sup.pc \in PastMark,
             pc \in PreSpawn => sup.pc \in PreSpawn,
             pc \in SupClones => pc \in HoldsClone /\ sup.pc \in SupClones
      PROVE  StatusKeeps /\ SupMoves
  <2>1. /\ sup'.pc = pc /\ sup'.s = sup.s /\ pc # "mark"
        /\ pc \in SupClones => SettledRec(sup'.rec)
    BY <1>a, <1>i, <1>p DEF PastMark, SupSettled
  <2> QED
    BY <1>a, <1>1, <2>1, StillKeeps, SupAdvances
<1>m. ASSUME NEW pc \in PastMark, NEW rec, SetMem(sup.s, rec), sup.pc \in PastMark \cup {"mark"},
             SettledRec(rec), sup'.s = sup.s, sup'.pc = pc,
             pc \in PreSpawn => sup.pc \in PreSpawn,
             pc \in SupClones => SettledRec(sup'.rec)
      PROVE  StatusKeeps /\ SupMoves
  <2>1. StatusKeeps
    BY <1>m, <1>t, <1>p, SettleKeeps DEF SupSettled
  <2>2. mem'[sup.s].status \notin {"absent", "queued"}
    BY <1>m, <1>t DEF SetMem, SettledRec, TypeOK, StoreOK
  <2>3. SupSettled'
    BY <1>m, <2>2 DEF SupSettled, Settled, PastMark
  <2> QED
    BY <1>1, <1>m, <2>1, <2>3 DEF SupMoves
<1> USE DEF SupAt, PastMark, SupPcs, PreSpawn, SupClones, HoldsClone
<1>3. CASE TakeGuard
  BY <1>3, <1>r, <1>i DEF TakeGuard
<1>4. CASE SelectNone
  BY <1>4, <1>r DEF SelectNone, IdleSup
<1>5. ASSUME NEW s \in Sessions, SelectNext(s) PROVE StatusKeeps /\ SupMoves
  <2>1. /\ sup'.pc = "mark" /\ sup'.s = s
        /\ mem' = mem /\ mem[s].status = "queued"
    BY <1>5 DEF SelectNext, IdleSup, Eligible
  <2> QED
    BY <1>1, <2>1, StillKeeps DEF SupMoves, SupSettled, Present, Settled
<1>6. CASE Mark
  <2>1. CASE mem[sup.s].status = "queued"
    <3> DEFINE rec == [mem[sup.s] EXCEPT !.status = "spawning"]
    <3>1. SettledRec(rec)
      BY <1>6, <1>t DEF Mark, SettledRec, TypeOK, StoreOK, Rec
    <3>2. SetMem(sup.s, rec) /\ sup'.s = sup.s /\ sup'.pc = "mark_persist" /\ sup'.rec = rec
      BY <1>6, <2>1, <1>t DEF Mark, SupRec
    <3> QED
      BY <1>6, <3>1, <3>2, <1>m DEF Mark
  <2>2. CASE mem[sup.s].status # "queued"
    <3>1. /\ sup'.pc = "stage1" /\ sup'.s = sup.s /\ UNCHANGED mem
          /\ mem[sup.s].status \notin {"absent", "queued"}
      BY <1>6, <2>2, <1>i, <1>p DEF Mark, SupSettled, Present
    <3> QED
      BY <1>1, <1>6, <3>1, StillKeeps DEF SupMoves, SupSettled, Settled, Mark
  <2> QED
    BY <2>1, <2>2
<1>7. CASE MarkPersist
  BY <1>7, <1>a, <1>r, <1>i DEF MarkPersist
<1>8. CASE MarkInsert
  BY <1>8, <1>m, <1>i, <1>p DEF MarkInsert, SupSettled
<1>9. CASE Stage1
  <2>1. /\ sup'.pc = "stage1_persist" /\ sup'.s = sup.s /\ UNCHANGED mem
    BY <1>9, <1>t DEF Stage1, SupRec
  <2> QED
    BY <1>9, <2>1, <1>1, StillKeeps, SupAdvances DEF Stage1
<1>10. CASE StagePersist("stage1_persist", "check1")
  BY <1>10, <1>a DEF StagePersist
<1>11. CASE Check1
  <2>1. CASE SupGo("fail")
    BY <1>11, <2>1, <1>a DEF Check1
  <2>2. CASE sup' = [sup EXCEPT !.pc = "stage2_persist", !.rec = mem[sup.s]]
    <3>1. /\ sup'.pc = "stage2_persist" /\ sup'.s = sup.s
      BY <2>2, <1>t DEF SupRec
    <3> QED
      BY <1>11, <3>1, <1>1, StillKeeps, SupAdvances DEF Check1
  <2> QED
    BY <1>11, <2>1, <2>2 DEF Check1
<1>12. CASE StagePersist("stage2_persist", "spawn")
  BY <1>12, <1>a DEF StagePersist
<1>13. CASE Check2
  <2>1. CASE SupGo("fail")
    BY <1>13, <2>1, <1>a DEF Check2
  <2>2. CASE sup' = [sup EXCEPT !.pc = "replace_persist",
                                !.rec = LaunchedRec(sup.s, mem[sup.s], sup.rt)]
    <3>1. /\ sup'.pc = "replace_persist" /\ sup'.s = sup.s
          /\ SettledRec(sup'.rec)
      BY <2>2, <1>t DEF SupRec, SettledRec, LaunchedRec
    <3> QED
      BY <1>13, <3>1, <1>1, StillKeeps, SupAdvances DEF Check2
  <2> QED
    BY <1>13, <2>1, <2>2 DEF Check2
<1>14. CASE ReplacePersist
  BY <1>14, <1>a DEF ReplacePersist
<1>15. CASE ReplaceInsert
  BY <1>15, <1>m, <1>i, <1>p DEF ReplaceInsert, SupSettled
<1>16. CASE LaunchAttach
  BY <1>16, <1>a, <1>r, <1>i DEF LaunchAttach
<1>17. CASE LaunchError
  BY <1>17, <1>a DEF LaunchError
<1>18. CASE Fail
  <2> DEFINE rec == [mem[sup.s] EXCEPT !.status = "errored"]
  <2>1. SettledRec(rec)
    BY <1>18, <1>t DEF Fail, SettledRec, TypeOK, StoreOK, Rec
  <2>2. SetMem(sup.s, rec) /\ sup'.s = sup.s /\ sup'.pc = "fail_persist" /\ sup'.rec = rec
    BY <1>18, <1>t DEF Fail, SupRec
  <2> QED
    BY <1>18, <2>1, <2>2, <1>m DEF Fail
<1>19. CASE FailPersist
  BY <1>19, <1>a, <1>r, <1>i DEF FailPersist
<1>20. CASE FailInsert
  <2>1. SetMem(sup.s, sup.rec) /\ SettledRec(sup.rec) /\ Present(sup.s) /\ sup'.pc = "select"
    BY <1>20, <1>i, <1>p DEF FailInsert, SupSettled
  <2>2. StatusKeeps
    BY <1>20, <1>t, <2>1, SettleKeeps DEF FailInsert
  <2> QED
    BY <1>1, <2>1, <2>2, SupRests
<1>21. CASE CancelLaunch
  BY <1>21, <1>r DEF CancelLaunch, IdleSup
<1> QED
  BY <1>3, <1>4, <1>5, <1>6, <1>7, <1>8, <1>9, <1>10, <1>11, <1>12, <1>13, <1>14,
     <1>15, <1>16, <1>17, <1>18, <1>19, <1>20, <1>21 DEF SupervisorButSpawn
\* The supervisor starts a process for a session for which it has started
\* none in this life of the server.
LEMMA SpawnLaunches ==
    ASSUME TypeOK, LaunchInv, NEW r \in Runtimes, SpawnRuntime(r)
    PROVE  LaunchInv' /\ Orderly
<1> USE DEF runtime, writes, boot
<1>1. /\ sup.pc = "spawn" /\ sup.s \in Sessions /\ Settled(sup.s) /\ Up
      /\ sup'.pc = "check2" /\ sup'.s = sup.s
      /\ UNCHANGED <<mem, cmd, phase, todo, crashes>>
  BY DEF SpawnRuntime, SupAt, TypeOK, SupOK, SupRec, LaunchInv, SupSettled, PastMark, SupPcs
<1>2. /\ ~Started(r) /\ proc'[r].s = sup.s /\ proc'[r].life = crashes
      /\ \A q \in Runtimes \ {r} : proc'[q] = proc[q]
  BY DEF SpawnRuntime, StartProcess, Started, TypeOK, RuntimeOK
<1>3. SupSettled' /\ DownIsIdle' /\ TodoPresent' /\ Orderly
  BY <1>1 DEF LaunchInv, SupSettled, DownIsIdle, TodoPresent, SupClones, Settled, Present,
              Up, Orderly, NoneRequeued, NoneAppears, NoneVanishes
<1>4. ASSUME NEW c \in Clients PROVE Entitled(c)'
  BY <1>1 DEF LaunchInv, Entitled, Present
<1>5. Lives'
  BY <1>1, <1>2 DEF LaunchInv, Lives, Started, TypeOK, ServerOK
<1>6. ASSUME NEW q \in Runtimes \ {r}, proc[q].st # "free", proc[q].by = "launch",
             proc[q].life = crashes
      PROVE  proc[q].s # sup.s
  BY <1>1, <1>6 DEF LaunchInv, LaunchedSettled, LaunchedNow, Started, PreSpawn
<1>7. LaunchedSettled'
  <2>1. ASSUME NEW q \in Runtimes, LaunchedNow(q)' PROVE Settled(proc'[q].s)
    BY <1>1, <1>2, <2>1 DEF LaunchInv, LaunchedSettled, LaunchedNow, Started
  <2> QED
    BY <1>1, <2>1 DEF LaunchedSettled, Settled, Up, PreSpawn
<1>8. LaunchOnce'
  BY <1>2, <1>6 DEF LaunchInv, LaunchOnce
<1> QED
  BY <1>3, <1>4, <1>5, <1>7, <1>8 DEF LaunchInv

-----------------------------------------------------------------------------
(* The commands.                                                            *)

\* A process ends.
LEMMA DeathKeeps ==
    ASSUME TypeOK, NEW r \in Runtimes, Started(r), proc' = [proc EXCEPT ![r].st = "dead"]
    PROVE  ProcKeeps
BY DEF ProcKeeps, Started, TypeOK, RuntimeOK, ProcRec

\* A command goes on with its session.
LEMMA CmdAdvances ==
    ASSUME TypeOK, LaunchInv, StatusKeeps, UNCHANGED phase, NEW c \in Clients,
           cmd[c].pc # "idle", cmd'[c].s = cmd[c].s,
           cmd'[c].pc \in Enqueues => cmd[c].pc \in Enqueues,
           cmd[c].pc \in Enqueues => cmd'[c].pc \in Enqueues,
           cmd'[c].pc \in CmdClones => SettledRec(cmd'[c].rec),
           \A d \in Clients \ {c} : cmd'[d] = cmd[d]
    PROVE  CmdMoves
<1>1. Entitled(c) /\ cmd[c].s \in Sessions
  BY DEF LaunchInv, TypeOK, CmdOK
<1>2. mem'[cmd[c].s].status # "absent" <=> Present(cmd[c].s)
  BY <1>1, StatusKept
<1>3. Entitled(c)'
  BY <1>1, <1>2 DEF Entitled, Present
<1> QED
  BY <1>3 DEF CmdMoves

\* A command begins on a known session.
LEMMA CmdBegins ==
    ASSUME TypeOK, NEW c \in Clients, NEW op, NEW pc, NEW s \in Sessions, NEW r, NEW rec,
           Begin(c, op, pc, s, r, rec), UNCHANGED phase,
           mem'[s].status # "absent", pc \notin CmdClones \cup Enqueues
    PROVE  CmdMoves
<1>1. /\ cmd'[c].s = s /\ cmd'[c].pc = pc /\ phase = "serving"
      /\ \A d \in Clients \ {c} : cmd'[d] = cmd[d]
  BY DEF Begin, TypeOK, CmdOK
<1> QED
  BY <1>1 DEF CmdMoves, Entitled, Present
\* The last step of an enqueue shows a session that no one knew.
LEMMA InsertLaunches ==
    ASSUME TypeOK, LaunchInv, NEW c \in Clients, EnqueueInsert(c)
    PROVE  LaunchInv' /\ Orderly
<1> DEFINE s == cmd[c].s
<1> USE DEF runtime, writes, boot
<1>1. /\ cmd[c].pc = "q_insert" /\ s \in Sessions /\ ~Present(s) /\ Up
      /\ UNCHANGED <<proc, sup, phase, todo, crashes>>
      /\ \A t \in Sessions \ {s} : mem'[t] = mem[t]
  BY DEF EnqueueInsert, CmdAt, SetMem, TypeOK, StoreOK, CmdOK, LaunchInv, Entitled, Enqueues
<1>2. cmd'[c].pc = "idle" /\ \A d \in Clients \ {c} : cmd'[d] = cmd[d]
  BY IdleType DEF EnqueueInsert, Finish, TypeOK, CmdOK
<1> HIDE DEF s
<1>3. SupSettled'
  <2>1. sup.pc \in PastMark \cup {"mark"} => sup.s \in Sessions \ {s}
    BY <1>1 DEF LaunchInv, SupSettled, Settled, Present, TypeOK, SupOK, PastMark
  <2> QED
    BY <1>1, <2>1 DEF LaunchInv, SupSettled, Settled, Present
<1>4. ASSUME NEW d \in Clients PROVE Entitled(d)'
  <2>1. CASE d = c
    BY <1>2, <2>1 DEF Entitled, Enqueues, CmdClones
  <2>2. CASE d # c /\ cmd[d].pc # "idle"
    <3>1. /\ Entitled(d) /\ Entitled(c) /\ cmd[d].s \in Sessions /\ cmd'[d] = cmd[d]
      BY <1>2, <2>2 DEF LaunchInv, TypeOK, CmdOK
    <3>2. cmd[d].s # s
      BY <1>1, <2>2, <3>1 DEF Entitled, Enqueues, s
    <3>3. mem'[cmd[d].s] = mem[cmd[d].s]
      BY <1>1, <3>1, <3>2
    <3>4. \A e \in Clients : cmd'[e] = cmd[e] \/ cmd'[e].pc = "idle"
      BY <1>2
    <3> QED
      BY <1>1, <3>1, <3>3, <3>4 DEF Entitled, Present, Enqueues
  <2>3. CASE d # c /\ cmd[d].pc = "idle"
    BY <1>2, <2>3 DEF Entitled, Enqueues, CmdClones
  <2> QED
    BY <2>1, <2>2, <2>3
<1>5. LaunchedSettled'
  <2>1. ASSUME NEW r \in Runtimes, LaunchedNow(r)'
        PROVE  LaunchedNow(r) /\ proc[r].s \in Sessions /\ Settled(proc[r].s)
    BY <1>1, <2>1 DEF LaunchedNow, Started, LaunchInv, LaunchedSettled, TypeOK, RuntimeOK
  <2>2. ASSUME NEW r \in Runtimes, LaunchedNow(r)' PROVE mem'[proc[r].s] = mem[proc[r].s]
    BY <1>1, <2>1, <2>2 DEF Settled, Present
  <2> QED
    BY <1>1, <2>1, <2>2 DEF LaunchInv, LaunchedSettled, Settled
<1>6. TodoPresent' /\ DownIsIdle' /\ Lives' /\ LaunchOnce'
  BY <1>1 DEF LaunchInv, TodoPresent, Present, DownIsIdle, Lives, LaunchOnce, Started,
              TypeOK, ServerOK
<1>7. Orderly
  <2>1. NoneRequeued
    BY <1>1 DEF NoneRequeued, Present
  <2>2. NoneAppears
    BY <1>1 DEF NoneAppears, Present, s
  <2>3. NoneVanishes
    BY <1>1 DEF NoneVanishes, Present
  <2> QED
    BY <2>1, <2>2, <2>3 DEF Orderly
<1> QED
  BY <1>3, <1>4, <1>5, <1>6, <1>7 DEF LaunchInv

\* No other step of a command, nor its cancellation, breaks the invariant.
LEMMA ProgressLaunches ==
    ASSUME TypeOK, LaunchInv, NEW c \in Clients, Progress(c) \/ Cancel(c)
    PROVE  LaunchInv' /\ Orderly
<1> USE DEF runtime, writes, boot, Enqueues, CmdClones
<1>e. ASSUME UNCHANGED <<sup, phase, todo, crashes>>, StatusKeeps, ProcKeeps, CmdMoves
      PROVE  LaunchInv' /\ Orderly
  BY <1>e, LaunchKept, SupStill, NotRequeued
<1>f. Finish(c) => CmdMoves
  BY IdleType DEF Finish, TypeOK, CmdOK, CmdMoves
<1>c. Entitled(c) /\ (cmd[c].pc # "idle" => cmd[c].s \in Sessions)
  BY DEF LaunchInv, TypeOK, CmdOK
<1>g. ASSUME NEW pc, UNCHANGED phase, StatusKeeps, cmd[c].pc # "idle", Goto(c, pc),
             pc \in Enqueues <=> cmd[c].pc \in Enqueues,
             pc \in CmdClones => cmd[c].pc \in CmdClones
      PROVE  CmdMoves
  <2>1. /\ cmd'[c].pc = pc /\ cmd'[c].s = cmd[c].s /\ cmd'[c].rec = cmd[c].rec
        /\ \A d \in Clients \ {c} : cmd'[d] = cmd[d]
    BY <1>g DEF Goto, TypeOK, CmdOK, CmdRec
  <2> QED
    BY <1>g, <2>1, <1>c, CmdAdvances DEF Entitled
<1>h. ASSUME NEW pc, NEW rec, UNCHANGED phase, StatusKeeps, cmd[c].pc # "idle",
             GotoWith(c, pc, rec), SettledRec(rec) \/ pc \notin CmdClones,
             pc \in Enqueues <=> cmd[c].pc \in Enqueues
      PROVE  CmdMoves
  <2>1. /\ cmd'[c].pc = pc /\ cmd'[c].s = cmd[c].s /\ cmd'[c].rec = rec
        /\ \A d \in Clients \ {c} : cmd'[d] = cmd[d]
    BY <1>h DEF GotoWith, TypeOK, CmdOK, CmdRec
  <2> QED
    BY <1>h, <2>1, CmdAdvances
<1>q. UNCHANGED mem => StatusKeeps
  BY StillKeeps
<1>r. UNCHANGED proc => ProcKeeps
  BY StillKeeps
<1>m. ASSUME NEW rec, SetMem(cmd[c].s, rec), cmd[c].pc \notin Enqueues \cup {"idle"},
             SettledRec(rec) \/ rec.status = mem[cmd[c].s].status
      PROVE  StatusKeeps
  BY <1>m, <1>c, SettleKeeps DEF Entitled
<1> USE DEF CmdAt
<1>1. CASE EnqueuePersist(c)
  BY <1>1, <1>e, <1>f, <1>g, <1>q, <1>r DEF EnqueuePersist
<1>2. CASE EnqueueInsert(c)
  BY <1>2, InsertLaunches
<1>3. CASE TermMark(c)
  BY <1>3, <1>e, <1>f, <1>g, <1>q, <1>r DEF TermMark
<1>4. CASE TermSignal(c)
  BY <1>4, <1>e, <1>g, <1>q, <1>r DEF TermSignal
<1>5. CASE TermReap(c)
  <2>1. CmdMoves
    BY <1>5, <1>f, <1>g, <1>q DEF TermReap
  <2>2. ProcKeeps
    <3>1. CASE UNCHANGED proc
      BY <3>1, <1>r
    <3>2. CASE Live(mem[cmd[c].s].pid) /\ proc' = [proc EXCEPT ![mem[cmd[c].s].pid].st = "dead"]
      <4>1. PICK r \in Runtimes : r = mem[cmd[c].s].pid
        BY <1>5, <1>c, <3>2 DEF TermReap, Live, TypeOK, StoreOK, Rec
      <4> QED
        BY <3>2, <4>1, DeathKeeps DEF Live, Started
    <3> QED
      BY <1>5, <3>1, <3>2 DEF TermReap
  <2> QED
    BY <1>5, <2>1, <2>2, <1>e, <1>q DEF TermReap
<1>6. CASE TermApply(c)
  <2> DEFINE rec == Terminated(mem[cmd[c].s], TermAction(cmd[c].op))
  <2>1. SettledRec(rec)
    BY <1>6, <1>c DEF TermApply, Terminated, SettledRec, TypeOK, StoreOK, Rec
  <2> HIDE DEF rec
  <2>2. CASE Finish(c) /\ UNCHANGED mem
    BY <1>6, <2>2, <1>e, <1>f, <1>q, <1>r DEF TermApply
  <2>3. CASE SetMem(cmd[c].s, rec) /\ GotoWith(c, "t_persist", rec)
    <3>1. StatusKeeps
      BY <1>6, <2>1, <2>3, <1>m DEF TermApply
    <3>2. CmdMoves
      BY <1>6, <2>1, <2>3, <3>1, <1>g, <1>h DEF TermApply
    <3> QED
      BY <1>6, <3>1, <3>2, <1>e, <1>r DEF TermApply
  <2> QED
    BY <1>6, <2>2, <2>3 DEF TermApply, rec
<1>7. CASE TermPersist(c)
  BY <1>7, <1>e, <1>f, <1>g, <1>q, <1>r DEF TermPersist
<1>8. CASE TermInsert(c)
  BY <1>8, <1>c, <1>e, <1>f, <1>m, <1>r DEF TermInsert, Entitled
<1>9. CASE EnsureAttach(c)
  <2> DEFINE rec == Recovered(mem[cmd[c].s])
  <2>1. SettledRec(rec) \/ rec.status = mem[cmd[c].s].status
    BY <1>9, <1>c DEF EnsureAttach, Recovered, SettledRec, TypeOK, StoreOK, Rec
  <2>2. StatusKeeps
    BY <1>9, <2>1, <1>m, <1>q DEF EnsureAttach
  <2>3. CmdMoves
    BY <1>9, <2>2, <1>f, <1>g, <1>h DEF EnsureAttach
  <2> QED
    BY <1>9, <2>2, <2>3, <1>e, <1>r DEF EnsureAttach, AttachAndConsume
<1>10. CASE EnsurePersist(c)
  BY <1>10, <1>e, <1>f, <1>g, <1>q, <1>r DEF EnsurePersist
<1>11. CASE SendApply(c)
  <2> DEFINE rec == [mem[cmd[c].s] EXCEPT !.status = "working"]
  <2>1. SettledRec(rec)
    BY <1>11, <1>c DEF SendApply, SettledRec, TypeOK, StoreOK, Rec
  <2>2. StatusKeeps
    BY <1>11, <2>1, <1>m DEF SendApply
  <2>3. CmdMoves
    BY <1>11, <2>2, <1>g, <1>h DEF SendApply
  <2> QED
    BY <1>11, <2>2, <2>3, <1>e, <1>r DEF SendApply
<1>12. CASE SendPersist(c)
  BY <1>12, <1>e, <1>f, <1>q, <1>r DEF SendPersist
<1>13. ASSUME NEW r \in Runtimes, ResumeSpawn(c, r) PROVE LaunchInv' /\ Orderly
  <2>1. ProcKeeps
    BY <1>13 DEF ResumeSpawn, StartProcess, ProcKeeps, Started, TypeOK, RuntimeOK
  <2>2. /\ cmd'[c].pc = "r_apply" /\ cmd'[c].s = cmd[c].s
        /\ \A d \in Clients \ {c} : cmd'[d] = cmd[d]
    BY <1>13 DEF ResumeSpawn, TypeOK, CmdOK, CmdRec
  <2>3. CmdMoves
    BY <1>13, <2>2, <1>q, CmdAdvances DEF ResumeSpawn
  <2> QED
    BY <1>13, <2>1, <2>3, <1>e, <1>q DEF ResumeSpawn
<1>14. CASE ResumeError(c)
  BY <1>14, <1>e, <1>f, <1>q, <1>r DEF ResumeError
<1>15. CASE ResumeApply(c)
  <2> DEFINE rec == [mem[cmd[c].s] EXCEPT !.status = "working", !.pid = cmd[c].rt]
  <2>1. SettledRec(rec)
    BY <1>15, <1>c DEF ResumeApply, SettledRec, TypeOK, StoreOK, Rec
  <2>2. StatusKeeps
    BY <1>15, <2>1, <1>m, <1>q DEF ResumeApply
  <2>3. CmdMoves
    BY <1>15, <2>1, <2>2, <1>f, <1>g, <1>h DEF ResumeApply
  <2> QED
    BY <1>15, <2>2, <2>3, <1>e, <1>r DEF ResumeApply
<1>16. CASE ResumePersist(c)
  BY <1>16, <1>e, <1>f, <1>g, <1>q, <1>r DEF ResumePersist
<1>17. CASE ResumeInsert(c)
  <2>1. StatusKeeps
    BY <1>17, <1>c, <1>m DEF ResumeInsert, Entitled
  <2>2. CmdMoves
    BY <1>17, <2>1, <1>g DEF ResumeInsert
  <2> QED
    BY <1>17, <2>1, <2>2, <1>e, <1>r DEF ResumeInsert
<1>18. CASE ResumeAttach(c)
  BY <1>18, <1>e, <1>f, <1>g, <1>q, <1>r DEF ResumeAttach
<1>19. CASE RestorePersist(c)
  <2>1. cmd[c].pc = "x_persist" /\ Goto(c, "x_enqueue") /\ UNCHANGED mem
    BY <1>19 DEF RestorePersist
  <2>2. CmdMoves
    BY <1>19, <2>1, <1>c, <1>g, <1>q DEF RestorePersist
  <2> QED
    BY <1>19, <2>2, <1>e, <1>q, <1>r DEF RestorePersist
<1>20. ASSUME NEW s \in Sessions, RestoreEnqueue(c, s) PROVE LaunchInv' /\ Orderly
  <2>1. /\ cmd'[c].pc = "q_persist" /\ cmd'[c].s = s
        /\ \A d \in Clients \ {c} : cmd'[d] = cmd[d] /\ cmd[d].s # s
        /\ mem' = mem /\ ~Present(s) /\ phase' = phase
    BY <1>20, IdleType DEF RestoreEnqueue, NextId, Unused, TypeOK, CmdOK, CmdRec, Present
  <2>2. phase = "serving"
    BY <1>20, <1>c DEF RestoreEnqueue, Entitled
  <2>3. CmdMoves
    BY <2>1, <2>2 DEF CmdMoves, Entitled, Present
  <2> QED
    BY <1>20, <2>3, <1>e, <1>q, <1>r DEF RestoreEnqueue
<1>21. CASE Cancel(c)
  BY <1>21, <1>e, <1>f, <1>q, <1>r DEF Cancel
<1> QED
  BY <1>1, <1>2, <1>3, <1>4, <1>5, <1>6, <1>7, <1>8, <1>9, <1>10, <1>11, <1>12, <1>13,
     <1>14, <1>15, <1>16, <1>17, <1>18, <1>19, <1>20, <1>21 DEF Progress

\* An exit settles a session that is known, or leaves it as it is.
LEMMA ExitKeeps ==
    ASSUME TypeOK, NEW s \in Sessions, NEW event, SetMem(s, AfterExit(mem[s], event))
    PROVE  StatusKeeps
<1> DEFINE rec == AfterExit(mem[s], event)
<1>1. rec.status = mem[s].status \/ (Present(s) /\ SettledRec(rec))
  BY DEF AfterExit, Ended, Terminated, SettledRec, Present, Terminal, TypeOK, StoreOK, Rec
<1> QED
  BY <1>1, SettleKeeps

\* A command that begins breaks nothing: a launch request takes an id that
\* no session and no other request has.
LEMMA RequestLaunches ==
    ASSUME TypeOK, LaunchInv, NEW c \in Clients, Request(c)
    PROVE  LaunchInv' /\ Orderly
<1> USE DEF runtime, writes, boot
<1>e. ASSUME UNCHANGED <<sup, phase, todo, crashes>>, StatusKeeps, UNCHANGED proc, CmdMoves
      PROVE  LaunchInv' /\ Orderly
  BY <1>e, LaunchKept, SupStill, NotRequeued, StillKeeps
<1>b. ASSUME NEW op, NEW pc, NEW s \in Sessions, NEW r, NEW rec, UNCHANGED phase,
             Begin(c, op, pc, s, r, rec), Present(s), StatusKeeps,
             pc \notin CmdClones \cup Enqueues
      PROVE  CmdMoves
  BY <1>b, StatusKept, CmdBegins
<1>t. ASSUME NEW s \in Sessions, NEW op, TerminateStart(c, op, s), UNCHANGED phase
      PROVE  StatusKeeps /\ CmdMoves
  <2>1. PICK r, rec : /\ SetMem(s, rec) /\ rec.status = mem[s].status
                      /\ Begin(c, op, "t_mark", s, r, rec) /\ Present(s)
    BY <1>t DEF TerminateStart, TypeOK, StoreOK, Rec
  <2>2. StatusKeeps
    BY <2>1, SettleKeeps
  <2> QED
    BY <1>t, <2>1, <2>2, <1>b DEF CmdClones, Enqueues
<1>1. ASSUME NEW s \in Sessions, NEW key \in Keys, Enqueue(c, s, key)
      PROVE  LaunchInv' /\ Orderly
  <2>1. /\ cmd'[c].pc = "q_persist" /\ cmd'[c].s = s
        /\ \A d \in Clients \ {c} : cmd'[d] = cmd[d] /\ cmd[d].s # s
        /\ mem' = mem /\ ~Present(s) /\ phase = "serving" /\ phase' = phase
    BY <1>1 DEF Enqueue, Begin, NextId, Unused, TypeOK, CmdOK, Present
  <2>2. CmdMoves
    BY <2>1 DEF CmdMoves, Entitled, Present, Enqueues, CmdClones
  <2> QED
    BY <1>1, <2>2, <1>e, StillKeeps DEF Enqueue
<1>2. ASSUME NEW s \in Sessions, NEW op \in TermOps, Terminate(c, op, s)
      PROVE  LaunchInv' /\ Orderly
  BY <1>2, <1>t, <1>e DEF Terminate
<1>3. ASSUME NEW r \in Runtimes, Timeout(c, r) PROVE LaunchInv' /\ Orderly
  <2>1. proc[r].s \in Sessions
    BY <1>3 DEF Timeout, TypeOK, RuntimeOK, Started
  <2> QED
    BY <1>3, <2>1, <1>t, <1>e DEF Timeout
<1>4. ASSUME NEW s \in Sessions, SendLive(c, s) PROVE LaunchInv' /\ Orderly
  <2>1. CmdMoves
    BY <1>4, <1>b, StillKeeps DEF SendLive, CmdClones, Enqueues
  <2> QED
    BY <1>4, <2>1, <1>e, StillKeeps DEF SendLive
<1>5. ASSUME NEW s \in Sessions, SendRecover(c, s) PROVE LaunchInv' /\ Orderly
  <2>1. Present(s) /\ Begin(c, "send", "e_attach", s, mem[s].pid, NoRec)
    BY <1>5 DEF SendRecover, Recoverable, Present
  <2>2. CmdMoves
    BY <1>5, <2>1, <1>b, StillKeeps DEF SendRecover, CmdClones, Enqueues
  <2> QED
    BY <1>5, <2>2, <1>e, StillKeeps DEF SendRecover
<1>6. ASSUME NEW s \in Sessions, SendExited(c, s) PROVE LaunchInv' /\ Orderly
  <2>1. StatusKeeps
    BY <1>6, ExitKeeps DEF SendExited
  <2>2. Begin(c, "send", "r_spawn", s, NoRuntime, NoRec) \/ UNCHANGED cmd
    BY <1>6 DEF SendExited
  <2>3. CmdMoves
    BY <1>6, <2>1, <2>2, <1>b, StillKeeps
    DEF SendExited, Recoverable, Present, CmdClones, Enqueues
  <2> QED
    BY <1>6, <2>1, <2>3, <1>e DEF SendExited
<1>7. ASSUME NEW s \in Sessions, RestoreStart(c, s) PROVE LaunchInv' /\ Orderly
  <2>1. CASE UNCHANGED mem /\ Begin(c, "restore", "x_enqueue", s, NoRuntime, mem[s])
    <3>1. CmdMoves
      BY <1>7, <2>1, <1>b, StillKeeps DEF RestoreStart, CmdClones, Enqueues
    <3> QED
      BY <1>7, <2>1, <3>1, <1>e, StillKeeps DEF RestoreStart
  <2>2. CASE \E rec : /\ rec.status = "restored" /\ SetMem(s, rec)
                      /\ Begin(c, "restore", "x_persist", s, NoRuntime, rec)
    <3>1. PICK rec : /\ rec.status = "restored" /\ SetMem(s, rec)
                     /\ Begin(c, "restore", "x_persist", s, NoRuntime, rec)
      BY <2>2
    <3>2. StatusKeeps
      BY <1>7, <3>1, SettleKeeps DEF RestoreStart, SettledRec
    <3>3. CmdMoves
      BY <1>7, <3>1, <3>2, <1>b DEF RestoreStart, CmdClones, Enqueues
    <3> QED
      BY <1>7, <3>2, <3>3, <1>e DEF RestoreStart
  <2>3. [mem[s] EXCEPT !.status = "restored"].status = "restored"
    BY DEF TypeOK, StoreOK, Rec
  <2> QED
    BY <1>7, <2>1, <2>2, <2>3 DEF RestoreStart
<1> QED
  BY <1>1, <1>2, <1>3, <1>4, <1>5, <1>6, <1>7 DEF Request

-----------------------------------------------------------------------------
(* The runtimes, the flush, the crash and the start-up.                     *)

\* No output, question, exit or report of a runtime sends its session back to
\* the queue, and no flush does.
LEMMA EventsLaunches ==
    ASSUME TypeOK, LaunchInv, Events
    PROVE  LaunchInv' /\ Orderly
<1> USE DEF runtime, writes, boot
<1>e. ASSUME UNCHANGED <<sup, cmd, phase, todo, crashes>>, StatusKeeps, ProcKeeps
      PROVE  LaunchInv' /\ Orderly
  BY <1>e, LaunchKept, SupStill, NotRequeued, StillKeeps
<1>s. \A x \in Groups : watch[x].con \/ watch[x].mon # "off" => proc[x[1]].s \in Sessions
  BY DEF TypeOK, RuntimeOK, Started, Groups
<1>1. ASSUME NEW x \in Groups, Output(x) \/ AsksInput(x) PROVE LaunchInv' /\ Orderly
  <2> DEFINE s == proc[x[1]].s
  <2>1. s \in Sessions /\ Present(s) /\ UNCHANGED <<proc, sup, cmd, phase, todo, crashes>>
    BY <1>1, <1>s DEF Output, AsksInput, Present
  <2>2. PICK rec : SetMem(s, rec) /\ (SettledRec(rec) \/ rec.status = mem[s].status)
    <3>1. \A v \in Status : [mem[s] EXCEPT !.status = v].status = v
      BY <2>1 DEF TypeOK, StoreOK, Rec
    <3>2. mem[s].status \in Status
      BY <2>1 DEF TypeOK, StoreOK, Rec
    <3>3. PICK v \in {"working", "needs_input", mem[s].status} :
             SetMem(s, [mem[s] EXCEPT !.status = v])
      BY <1>1 DEF Output, AsksInput
    <3> QED
      BY <3>1, <3>2, <3>3 DEF SettledRec, Status
  <2>3. StatusKeeps
    BY <2>1, <2>2, SettleKeeps
  <2> QED
    BY <2>1, <2>3, <1>e, StillKeeps
<1>3. ASSUME NEW x \in Groups, Consume(x) PROVE LaunchInv' /\ Orderly
  <2>1. StatusKeeps
    BY <1>3, <1>s, ExitKeeps DEF Consume
  <2> QED
    BY <1>3, <2>1, <1>e, StillKeeps DEF Consume
<1>4. ASSUME NEW x \in Groups, MonitorDetach(x) PROVE LaunchInv' /\ Orderly
  BY <1>4, <1>e, StillKeeps DEF MonitorDetach
<1>5. ASSUME NEW r \in Runtimes, Dies(r) PROVE LaunchInv' /\ Orderly
  <2>1. ProcKeeps
    BY <1>5, DeathKeeps DEF Dies, Started
  <2> QED
    BY <1>5, <2>1, <1>e, StillKeeps DEF Dies
<1>6. CASE FlushDrain
  BY <1>6, <1>e, StillKeeps DEF FlushDrain
<1>7. ASSUME NEW s \in Sessions, FlushWrite(s) PROVE LaunchInv' /\ Orderly
  BY <1>7, <1>e, StillKeeps DEF FlushWrite
<1> QED
  BY <1>1, <1>3, <1>4, <1>5, <1>6, <1>7 DEF Events, Exit, MonitorKills

\* After a crash nothing is in progress, and no process was started by a
\* launch of the life that begins.
LEMMA CrashLaunches ==
    ASSUME TypeOK, LaunchInv, Crash
    PROVE  LaunchInv' /\ Orderly
<1>1. /\ sup'.pc = "idle" /\ todo' = {} /\ \A c \in Clients : cmd'[c].pc = "idle"
      /\ proc' = proc /\ crashes' = crashes + 1 /\ crashes \in Nat
      /\ \A s \in Sessions : mem'[s].status = "absent"
  BY IdleType DEF Crash, IdleSup, NoRec, TypeOK, ServerOK
<1>2. \A r \in Runtimes : ~LaunchedNow(r)'
  BY <1>1 DEF LaunchInv, Lives, LaunchedNow, Started, TypeOK, RuntimeOK, ProcRec
<1>3. SupSettled' /\ DownIsIdle' /\ TodoPresent' /\ LaunchedSettled' /\ LaunchOnce'
  BY <1>1, <1>2 DEF SupSettled, PastMark, SupClones, DownIsIdle, TodoPresent,
                    LaunchedSettled, LaunchInv, LaunchOnce
<1>4. \A c \in Clients : Entitled(c)'
  BY <1>1 DEF Entitled, Enqueues, CmdClones
<1>5. Lives'
  BY <1>1 DEF LaunchInv, Lives, Started, TypeOK, RuntimeOK, ProcRec
<1>6. Orderly
  BY <1>1 DEF Crash, Orderly, NoneRequeued, NoneAppears, NoneVanishes
<1> QED
  BY <1>3, <1>4, <1>5, <1>6 DEF LaunchInv

\* The start-up keeps the invariant: only the load puts a session back into
\* the queue, and no launch of the new life precedes it.
LEMMA BootLaunches ==
    ASSUME TypeOK, LaunchInv, Boot
    PROVE  LaunchInv' /\ Orderly
<1> USE DEF runtime, writes, boot
<1>i. phase # "serving" => \A c \in Clients : cmd[c].pc = "idle"
  BY DEF LaunchInv, Entitled
<1>1. CASE BootLoad
  <2>1. /\ sup.pc = "idle" /\ todo = {} /\ phase = "down" /\ phase' = "launch"
        /\ UNCHANGED <<sup, todo, cmd, proc, crashes>>
    BY <1>1 DEF BootLoad, LaunchInv, DownIsIdle
  <2>2. SupSettled' /\ DownIsIdle' /\ TodoPresent' /\ Lives' /\ LaunchOnce' /\ Orderly
    BY <2>1 DEF SupSettled, PastMark, SupClones, DownIsIdle, TodoPresent, LaunchInv,
                Lives, LaunchOnce, Started, Orderly, NoneRequeued, NoneAppears, NoneVanishes
  <2>3. \A c \in Clients : Entitled(c)'
    BY <1>i, <2>1 DEF Entitled, Enqueues, CmdClones
  <2>4. LaunchedSettled'
    BY <2>1 DEF LaunchInv, LaunchedSettled, LaunchedNow, Started
  <2> QED
    BY <2>2, <2>3, <2>4 DEF LaunchInv
<1>2. CASE BootLaunched \/ BootArchived \/ BootServe
  <2>1. /\ phase \notin {"serving", "down"} /\ phase' # "down"
        /\ UNCHANGED <<mem, sup, cmd, proc, crashes>>
        /\ todo' = todo \/ todo' \subseteq Unfinished
    BY <1>2 DEF BootLaunched, BootArchived, BootServe
  <2>2. TodoPresent'
    BY <2>1 DEF TodoPresent, LaunchInv, Unfinished, Present
  <2>3. \A c \in Clients : Entitled(c)'
    BY <1>i, <2>1 DEF Entitled, Enqueues, CmdClones
  <2>4. /\ SupSettled' /\ DownIsIdle' /\ Lives' /\ LaunchOnce' /\ LaunchedSettled'
        /\ Orderly
    BY <2>1 DEF LaunchInv, SupSettled, Settled, Present, DownIsIdle, Lives, LaunchOnce,
                LaunchedSettled, LaunchedNow, Started, Orderly, NoneRequeued, NoneAppears, NoneVanishes
  <2> QED
    BY <2>2, <2>3, <2>4 DEF LaunchInv
<1>e. ASSUME UNCHANGED <<sup, cmd, proc, phase, crashes>>, todo' \subseteq todo, StatusKeeps
      PROVE  LaunchInv' /\ Orderly
  BY <1>e, LaunchKept, SupStill, NotRequeued, StillKeeps
<1>p. \A s \in Sessions : s \in todo => Present(s)
  BY DEF LaunchInv, TodoPresent
<1>3. ASSUME NEW s \in Sessions, BootArchive(s) PROVE LaunchInv' /\ Orderly
  <2> DEFINE rec == [mem[s] EXCEPT !.status = "archived", !.pid = NoRuntime]
  <2>1. SettledRec(rec) /\ SetMem(s, rec) /\ Present(s)
    BY <1>3, <1>p DEF BootArchive, SettledRec, TypeOK, StoreOK, Rec
  <2>2. StatusKeeps
    BY <2>1, SettleKeeps
  <2> QED
    BY <1>3, <2>2, <1>e DEF BootArchive
<1>4. ASSUME NEW s \in Sessions, BootReattach(s) PROVE LaunchInv' /\ Orderly
  <2> DEFINE rec == Recovered(mem[s])
  <2>1. SettledRec(rec) \/ rec.status = mem[s].status
    BY DEF Recovered, SettledRec, TypeOK, StoreOK, Rec
  <2>2. (SetMem(s, rec) /\ Present(s)) \/ UNCHANGED mem
    BY <1>4, <1>p DEF BootReattach
  <2>3. StatusKeeps
    BY <2>1, <2>2, SettleKeeps, StillKeeps
  <2> QED
    BY <1>4, <2>3, <1>e DEF BootReattach
<1>5. ASSUME NEW s \in Sessions, BootExited(s) PROVE LaunchInv' /\ Orderly
  <2>1. StatusKeeps
    BY <1>5, ExitKeeps DEF BootExited
  <2> QED
    BY <1>5, <2>1, <1>e DEF BootExited
<1>6. ASSUME NEW s \in Sessions, BootSkip(s) PROVE LaunchInv' /\ Orderly
  BY <1>6, <1>e, StillKeeps DEF BootSkip
<1> QED
  BY <1>1, <1>2, <1>3, <1>4, <1>5, <1>6 DEF Boot

-----------------------------------------------------------------------------
\* Initially nothing is in progress and no process was started.
LEMMA LaunchInvInit == Init => LaunchInv
<1> SUFFICES ASSUME Init PROVE LaunchInv
  OBVIOUS
<1>1. /\ sup.pc = "idle" /\ todo = {} /\ \A c \in Clients : cmd[c].pc = "idle"
      /\ \A r \in Runtimes : proc[r].st = "free"
  BY DEF Init, IdleSup, IdleCmd, NoProc
<1> QED
  BY <1>1 DEF LaunchInv, SupSettled, PastMark, SupClones, DownIsIdle, TodoPresent, Entitled,
     Enqueues, CmdClones, Lives, LaunchedSettled, LaunchedNow, LaunchOnce, Started

\* LaunchInv is inductive, given the types, and no step that starts where it
\* holds sends a session back to the queue.
LEMMA LaunchInvNext == TypeOK /\ LaunchInv /\ [Next]_vars => LaunchInv' /\ Orderly
<1> SUFFICES ASSUME TypeOK, LaunchInv, [Next]_vars PROVE LaunchInv' /\ Orderly
  OBVIOUS
<1>1. CASE UNCHANGED vars
  BY <1>1, LaunchKept, SupStill, NotRequeued, StillKeeps DEF vars
<1>2. CASE Supervisor \/ CancelLaunch
  BY <1>2, SupervisorLaunches, SpawnLaunches DEF Supervisor, SupervisorButSpawn
<1>3. CASE Events \/ Crash \/ Boot
  BY <1>3, EventsLaunches, CrashLaunches, BootLaunches
<1>4. ASSUME NEW c \in Clients, Request(c) \/ Progress(c) \/ Cancel(c)
      PROVE  LaunchInv' /\ Orderly
  BY <1>4, RequestLaunches, ProgressLaunches
<1> QED
  BY <1>1, <1>2, <1>3, <1>4 DEF Next

\* However launches, kills, resumes, restores, late events, stale clones,
\* faults and crashes interleave, for any number of them: the supervisor
\* starts at most one process for a session in one life of the server.
THEOREM LaunchedOnce == Spec => []LaunchOnce
<1>1. Init => TypeOK /\ LaunchInv
  BY InitType, LaunchInvInit
<1>2. TypeOK /\ LaunchInv /\ [Next]_vars => (TypeOK /\ LaunchInv)'
  BY NextType, LaunchInvNext
<1>3. TypeOK /\ LaunchInv => LaunchOnce
  BY DEF LaunchInv
<1> QED
  BY <1>1, <1>2, <1>3, PTL DEF Spec

\* Nor does any of them return a session to the queue while the server lives.
THEOREM QueuedOnce == Spec => NeverRequeued
<1>1. Init => TypeOK /\ LaunchInv
  BY InitType, LaunchInvInit
<1>2. TypeOK /\ LaunchInv /\ [Next]_vars => (TypeOK /\ LaunchInv)'
  BY NextType, LaunchInvNext
<1>3. TypeOK /\ LaunchInv /\ [Next]_vars =>
         [\A s \in Sessions :
             (phase # "down" /\ Present(s) /\ mem[s].status # "queued")
                 => mem'[s].status # "queued"]_vars
  BY LaunchInvNext DEF Orderly, NoneRequeued
<1> QED
  BY <1>1, <1>2, <1>3, PTL DEF Spec, NeverRequeued

-----------------------------------------------------------------------------
(***************************************************************************)
(* The files: a session any client can see is in a file, whatever crashes, is *)
(* cancelled or fails to be written.                                       *)
(***************************************************************************)

Saved(s) == disk[s].status # "absent"
KnownRec(rec) == rec.status # "absent"

\* Where a task is about to write the clone it keeps.
Stages == {"stage1_persist", "stage2_persist"}
SupWrites == Stages \cup SupClones
CmdWrites == {"q_persist", "t_mark", "t_persist", "e_persist", "s_persist", "r_persist",
              "x_persist"}

\* No clone of a session that does not exist is about to be written, and a new
\* session is in its file before it is shown.
SupHolds == sup.pc \in Stages => KnownRec(sup.rec)
CmdHolds(c) ==
    /\ cmd[c].pc \in CmdWrites => KnownRec(cmd[c].rec)
    /\ cmd[c].pc = "q_insert" => Saved(cmd[c].s)
FlushHolds == \A s \in Sessions : flush[s] = NoRec \/ KnownRec(flush[s])
PendHolds ==
    /\ \A s \in pend : Present(s)
    /\ phase = "down" => pend = {}

SavedInv ==
    /\ SeenIsSaved /\ SupHolds /\ FlushHolds /\ PendHolds
    /\ \A c \in Clients : CmdHolds(c)

-----------------------------------------------------------------------------
(* What a step must do to keep the invariant.                               *)

\* No file is removed.
DiskKeeps == \A s \in Sessions : Saved(s) => disk'[s].status # "absent"

FlushMoves ==
    \A s \in Sessions : flush'[s] = flush[s] \/ flush'[s] = NoRec \/ KnownRec(flush'[s])

\* Only sessions that are known are marked for a flush.
PendMoves == \A s \in pend' : s \in pend \/ Present(s)

CmdHoldsOn == \A c \in Clients : cmd'[c] = cmd[c] \/ cmd'[c].pc = "idle" \/ CmdHolds(c)'

\* The server is up before and after the step.
StaysUp == phase # "down" /\ phase' # "down"

\* A step of a server that is up keeps the invariant under these conditions.
LEMMA SavedKept ==
    ASSUME TypeOK, TypeOK', SavedInv, Orderly, StaysUp, DiskKeeps, FlushMoves, PendMoves,
           SupHolds', CmdHoldsOn
    PROVE  SavedInv'
<1>m. DOMAIN mem = Sessions /\ DOMAIN mem' = Sessions /\ pend \in SUBSET Sessions
  BY DEF TypeOK, StoreOK
<1>1. SeenIsSaved'
  <2> SUFFICES ASSUME NEW s \in Sessions, mem'[s].status # "absent"
               PROVE  disk'[s].status # "absent"
    BY <1>m DEF SeenIsSaved, Present
  <2>1. Present(s) \/ \E c \in Clients : cmd[c].pc = "q_insert" /\ cmd[c].s = s
    BY DEF Orderly, NoneAppears, StaysUp
  <2>2. Saved(s)
    BY <1>m, <2>1 DEF SavedInv, SeenIsSaved, CmdHolds, Saved
  <2> QED
    BY <2>2 DEF DiskKeeps
<1>2. FlushHolds'
  BY DEF FlushHolds, FlushMoves, SavedInv, KnownRec
<1>3. PendHolds'
  <2>1. \A s \in pend' : Present(s) /\ s \in Sessions
    BY <1>m DEF PendMoves, SavedInv, PendHolds, Present, NoRec, TypeOK, StoreOK
  <2> QED
    BY <2>1 DEF PendHolds, Present, StaysUp, Orderly, NoneVanishes
<1>4. ASSUME NEW c \in Clients PROVE CmdHolds(c)'
  <2>1. CASE cmd'[c] = cmd[c]
    <3>1. CmdHolds(c) /\ (cmd[c].pc = "q_insert" => cmd[c].s \in Sessions)
      BY DEF SavedInv, TypeOK, CmdOK
    <3> QED
      BY <2>1, <3>1 DEF CmdHolds, DiskKeeps, Saved
  <2>2. CASE cmd'[c].pc = "idle"
    BY <2>2 DEF CmdHolds, CmdWrites
  <2> QED
    BY <2>1, <2>2 DEF CmdHoldsOn
<1> QED
  BY <1>1, <1>2, <1>3, <1>4 DEF SavedInv

\* A write keeps every file: nobody writes a record of a session that does not
\* exist.
LEMMA WriteKeeps ==
    ASSUME TypeOK, NEW s \in Sessions, NEW rec, SetDisk(s, rec), KnownRec(rec)
    PROVE  DiskKeeps /\ disk'[s].status # "absent"
BY DEF DiskKeeps, Saved, KnownRec, SetDisk, TypeOK, StoreOK

\* A step that leaves the files, or the clones of the supervisor, the commands
\* or the watchdog alone.
LEMMA StillSaves ==
    /\ UNCHANGED disk => DiskKeeps
    /\ UNCHANGED flush => FlushMoves
    /\ UNCHANGED pend => PendMoves
    /\ UNCHANGED cmd => CmdHoldsOn
    /\ UNCHANGED sup /\ SavedInv => SupHolds'
BY DEF DiskKeeps, Saved, FlushMoves, PendMoves, CmdHoldsOn, SavedInv, SupHolds

-----------------------------------------------------------------------------
(* The supervisor.                                                          *)

\* No step of the supervisor breaks the invariant.
LEMMA SupervisorSaves ==
    ASSUME TypeOK, LaunchInv, SavedInv, Supervisor \/ CancelLaunch
    PROVE  /\ StaysUp /\ DiskKeeps /\ SupHolds'
           /\ UNCHANGED <<cmd, pend, flush>>
<1> USE DEF runtime, writes, boot
<1>1. UNCHANGED <<cmd, pend, flush, phase>> /\ Up
  BY DEF Supervisor, TakeGuard, SelectNone, Mark, MarkPersist, MarkInsert, Stage1,
         SelectNext, StagePersist, SpawnRuntime, Check1, Check2, ReplacePersist,
         ReplaceInsert, LaunchAttach, LaunchError, Fail, FailPersist, FailInsert,
         CancelLaunch, SupAt, Up
<1>2. SUFFICES DiskKeeps /\ SupHolds'
  BY <1>1 DEF Up, StaysUp
<1>t. sup \in SupRec /\ (sup.pc \in PastMark \cup {"mark"} => sup.s \in Sessions)
  BY DEF TypeOK, SupOK, PastMark
<1>p. /\ sup.pc \in PastMark => Present(sup.s)
      /\ sup.pc \in SupWrites => KnownRec(sup.rec)
  BY DEF LaunchInv, SupSettled, Present, Settled, SettledRec, SavedInv, SupHolds, SupWrites,
         KnownRec
<1>w. ASSUME sup.pc \in SupWrites, SetDisk(sup.s, sup.rec) PROVE DiskKeeps
  <2>1. sup.s \in Sessions
    BY <1>w, <1>t DEF SupWrites, SupClones, Stages, PastMark, SupPcs
  <2> QED
    BY <1>w, <1>p, <2>1, WriteKeeps
<1>u. UNCHANGED disk => DiskKeeps
  BY StillSaves
<1>n. sup'.pc \notin Stages => SupHolds'
  BY DEF SupHolds
<1>g. /\ \A pc \in SupPcs \ Stages : SupGo(pc) => SupHolds'
      /\ SupLoop => SupHolds'
      /\ sup' = IdleSup => SupHolds'
  <2>1. ASSUME NEW pc \in SupPcs \ Stages, SupGo(pc) PROVE sup'.pc = pc
    BY <1>t, <2>1 DEF SupGo, SupRec
  <2>2. SupLoop => sup'.pc = "select"
    BY DEF SupLoop, IdleSup
  <2>3. sup' = IdleSup => sup'.pc = "idle"
    BY DEF IdleSup
  <2> QED
    BY <1>n, <2>1, <2>2, <2>3 DEF Stages
<1>h. ASSUME NEW pc, NEW rec, sup' = [sup EXCEPT !.pc = pc, !.rec = rec],
             pc \notin Stages \/ KnownRec(rec)
      PROVE  SupHolds'
  BY <1>h, <1>t DEF SupHolds, SupRec
<1> USE DEF SupAt, SupPcs, Stages, SupWrites, SupClones, DiskFails
<1>3. CASE TakeGuard \/ SelectNone \/ CancelLaunch
  BY <1>3, <1>u, <1>g DEF TakeGuard, SelectNone, CancelLaunch
<1>4. ASSUME NEW s \in Sessions, SelectNext(s) PROVE DiskKeeps /\ SupHolds'
  BY <1>4, <1>u DEF SelectNext, IdleSup, SupHolds
<1>5. CASE Mark
  <2>1. sup'.pc \in {"mark_persist", "stage1"}
    BY <1>5, <1>t DEF Mark, SupGo, SupRec
  <2> QED
    BY <1>5, <2>1, <1>u, <1>n DEF Mark
<1>6. CASE MarkPersist
  BY <1>6, <1>u, <1>g, <1>w DEF MarkPersist
<1>7. CASE MarkInsert
  BY <1>7, <1>u, <1>g DEF MarkInsert
<1>8. CASE Stage1
  BY <1>8, <1>u, <1>h, <1>p DEF Stage1, KnownRec, Present, PastMark
<1>9. CASE StagePersist("stage1_persist", "check1") \/ StagePersist("stage2_persist", "spawn")
  BY <1>9, <1>u, <1>g, <1>w DEF StagePersist
<1>10. CASE Check1
  BY <1>10, <1>u, <1>g, <1>h, <1>p DEF Check1, KnownRec, Present, PastMark
<1>11. ASSUME NEW r \in Runtimes, SpawnRuntime(r) PROVE DiskKeeps /\ SupHolds'
  BY <1>11, <1>u, <1>t DEF SpawnRuntime, SupHolds, SupRec
<1>12. CASE Check2
  <2>1. sup'.pc \in {"replace_persist", "fail"}
    BY <1>12, <1>t DEF Check2, SupGo, SupRec
  <2> QED
    BY <1>12, <2>1, <1>u, <1>n DEF Check2
<1>13. CASE ReplacePersist
  BY <1>13, <1>u, <1>g, <1>w DEF ReplacePersist
<1>14. CASE ReplaceInsert \/ LaunchAttach \/ LaunchError
  BY <1>14, <1>u, <1>g DEF ReplaceInsert, LaunchAttach, LaunchError
<1>15. CASE Fail
  <2>1. sup'.pc = "fail_persist"
    BY <1>15, <1>t DEF Fail, SupRec
  <2> QED
    BY <1>15, <2>1, <1>u, <1>n DEF Fail
<1>16. CASE FailPersist
  BY <1>16, <1>u, <1>g, <1>w DEF FailPersist
<1>17. CASE FailInsert
  BY <1>17, <1>u, <1>g DEF FailInsert
<1> QED
  BY <1>3, <1>4, <1>5, <1>6, <1>7, <1>8, <1>9, <1>10, <1>11, <1>12, <1>13, <1>14, <1>15,
     <1>16, <1>17 DEF Supervisor

-----------------------------------------------------------------------------
(* The commands.                                                            *)

\* A command goes on, and no other does.
LEMMA CmdSaves ==
    ASSUME NEW c \in Clients, CmdHolds(c)', \A d \in Clients \ {c} : cmd'[d] = cmd[d]
    PROVE  CmdHoldsOn
BY DEF CmdHoldsOn

\* A command begins: what it is about to write, if anything, is known.
LEMMA BeginSaves ==
    ASSUME TypeOK, NEW c \in Clients, NEW op, NEW pc, NEW s, NEW r, NEW rec,
           Begin(c, op, pc, s, r, rec), pc \notin CmdWrites \/ KnownRec(rec),
           pc # "q_insert"
    PROVE  CmdHoldsOn
<1>1. /\ cmd'[c].pc = pc /\ cmd'[c].rec = rec
      /\ \A d \in Clients \ {c} : cmd'[d] = cmd[d]
  BY DEF Begin, TypeOK, CmdOK
<1> QED
  BY <1>1, CmdSaves DEF CmdHolds

\* No step of a command, nor its cancellation, breaks the invariant.
LEMMA ProgressSaves ==
    ASSUME TypeOK, LaunchInv, SavedInv, NEW c \in Clients, Progress(c) \/ Cancel(c)
    PROVE  /\ StaysUp /\ DiskKeeps /\ CmdHoldsOn
           /\ UNCHANGED <<sup, pend, flush>>
<1> USE DEF runtime, writes, boot, CmdAt
<1>1. UNCHANGED <<sup, pend, flush, phase>> /\ Up /\ cmd[c].pc # "idle"
  BY DEF Progress, EnqueuePersist, EnqueueInsert, TermMark, TermSignal, TermReap, TermApply,
         TermPersist, TermInsert, EnsureAttach, EnsurePersist, SendApply, SendPersist,
         ResumeSpawn, ResumeError, ResumeApply, ResumePersist, ResumeInsert, ResumeAttach,
         RestorePersist, RestoreEnqueue, Cancel, Up
<1>2. SUFFICES DiskKeeps /\ CmdHoldsOn
  BY <1>1 DEF Up, StaysUp
<1>c. /\ cmd \in [Clients -> CmdRec] /\ cmd[c].s \in Sessions
      /\ cmd[c].pc \in CmdWrites => KnownRec(cmd[c].rec)
      /\ cmd[c].pc \notin Enqueues \cup {"idle"} => Present(cmd[c].s)
  BY <1>1 DEF TypeOK, CmdOK, SavedInv, CmdHolds, LaunchInv, Entitled
<1>u. UNCHANGED disk => DiskKeeps
  BY StillSaves
<1>w. ASSUME cmd[c].pc \in CmdWrites, SetDisk(cmd[c].s, cmd[c].rec)
      PROVE  DiskKeeps /\ disk'[cmd[c].s].status # "absent"
  BY <1>w, <1>c, WriteKeeps
<1>f. Finish(c) => CmdHoldsOn
  BY IdleType DEF Finish, TypeOK, CmdOK, CmdHoldsOn
<1>g. ASSUME NEW pc, Goto(c, pc),
             pc \in CmdWrites => cmd[c].pc \in CmdWrites,
             pc = "q_insert" => disk'[cmd[c].s].status # "absent"
      PROVE  CmdHoldsOn
  <2>1. /\ cmd'[c].pc = pc /\ cmd'[c].s = cmd[c].s /\ cmd'[c].rec = cmd[c].rec
        /\ \A d \in Clients \ {c} : cmd'[d] = cmd[d]
    BY <1>g, <1>c DEF Goto, CmdRec
  <2> QED
    BY <1>g, <1>c, <2>1, CmdSaves DEF CmdHolds, Saved
<1>h. ASSUME NEW pc, NEW rec, GotoWith(c, pc, rec), KnownRec(rec), pc # "q_insert"
      PROVE  CmdHoldsOn
  <2>1. /\ cmd'[c].pc = pc /\ cmd'[c].rec = rec
        /\ \A d \in Clients \ {c} : cmd'[d] = cmd[d]
    BY <1>h, <1>c DEF GotoWith, CmdRec
  <2> QED
    BY <1>h, <2>1, CmdSaves DEF CmdHolds
<1>m. mem[cmd[c].s] \in Rec
  BY <1>c DEF TypeOK, StoreOK
<1> USE DEF CmdWrites, DiskFails
<1>3. CASE EnqueuePersist(c) \/ TermMark(c) \/ TermPersist(c) \/ EnsurePersist(c)
           \/ SendPersist(c) \/ ResumePersist(c) \/ RestorePersist(c)
  <2>1. DiskKeeps
    BY <1>3, <1>u, <1>w DEF EnqueuePersist, TermMark, TermPersist, EnsurePersist, SendPersist,
                            ResumePersist, RestorePersist
  <2>2. EnqueuePersist(c) => CmdHoldsOn
    <3> SUFFICES ASSUME EnqueuePersist(c) PROVE CmdHoldsOn
      OBVIOUS
    <3>1. \/ Finish(c)
          \/ Goto(c, "q_insert") /\ disk'[cmd[c].s].status # "absent"
      BY <1>w DEF EnqueuePersist
    <3>2. CASE Goto(c, "q_insert") /\ disk'[cmd[c].s].status # "absent"
      BY <3>2, <1>g
    <3> QED
      BY <3>1, <3>2, <1>f
  <2>3. CmdHoldsOn
    BY <1>3, <2>2, <1>f, <1>g DEF TermMark, TermPersist, EnsurePersist, SendPersist,
                                  ResumePersist, RestorePersist
  <2> QED
    BY <2>1, <2>3
<1>4. CASE EnqueueInsert(c) \/ TermSignal(c) \/ TermReap(c) \/ TermInsert(c) \/ ResumeError(c)
           \/ ResumeInsert(c) \/ ResumeAttach(c) \/ Cancel(c)
  BY <1>4, <1>u, <1>f, <1>g DEF EnqueueInsert, TermSignal, TermReap, TermInsert, ResumeError,
                                ResumeInsert, ResumeAttach, Cancel
<1>5. CASE TermApply(c)
  <2> DEFINE rec == Terminated(mem[cmd[c].s], TermAction(cmd[c].op))
  <2>1. KnownRec(rec)
    BY <1>m DEF Terminated, KnownRec, Rec
  <2> HIDE DEF rec
  <2>2. Finish(c) \/ GotoWith(c, "t_persist", rec)
    BY <1>5 DEF TermApply, rec
  <2> QED
    BY <1>5, <2>1, <2>2, <1>u, <1>f, <1>h DEF TermApply
<1>6. CASE EnsureAttach(c)
  <2> DEFINE rec == Recovered(mem[cmd[c].s])
  <2>1. KnownRec(rec)
    BY <1>6, <1>c, <1>m DEF Recovered, KnownRec, Rec, EnsureAttach, Enqueues, Present
  <2> HIDE DEF rec
  <2>2. Finish(c) \/ GotoWith(c, "e_persist", rec) \/ Goto(c, "s_apply")
    BY <1>6 DEF EnsureAttach, rec
  <2> QED
    BY <1>6, <2>1, <2>2, <1>u, <1>f, <1>g, <1>h DEF EnsureAttach
<1>7. CASE SendApply(c)
  <2> DEFINE rec == [mem[cmd[c].s] EXCEPT !.status = "working"]
  <2>1. KnownRec(rec)
    BY <1>m DEF KnownRec, Rec
  <2> HIDE DEF rec
  <2>2. GotoWith(c, "s_persist", rec)
    BY <1>7 DEF SendApply, rec
  <2> QED
    BY <1>7, <2>1, <2>2, <1>u, <1>h DEF SendApply
<1>8. ASSUME NEW r \in Runtimes, ResumeSpawn(c, r) PROVE DiskKeeps /\ CmdHoldsOn
  <2>1. /\ cmd'[c].pc = "r_apply" /\ \A d \in Clients \ {c} : cmd'[d] = cmd[d]
    BY <1>8, <1>c DEF ResumeSpawn, CmdRec
  <2> QED
    BY <1>8, <2>1, <1>u, CmdSaves DEF ResumeSpawn, CmdHolds
<1>9. CASE ResumeApply(c)
  <2> DEFINE rec == [mem[cmd[c].s] EXCEPT !.status = "working", !.pid = cmd[c].rt]
  <2>1. KnownRec(rec)
    BY <1>m DEF KnownRec, Rec
  <2> HIDE DEF rec
  <2>2. Finish(c) \/ GotoWith(c, "r_persist", rec)
    BY <1>9 DEF ResumeApply, rec
  <2> QED
    BY <1>9, <2>1, <2>2, <1>u, <1>f, <1>h DEF ResumeApply
<1>10. ASSUME NEW s \in Sessions, RestoreEnqueue(c, s) PROVE DiskKeeps /\ CmdHoldsOn
  <2> DEFINE rec == QueuedRec(cmd[c].rec.key, cmd[c].rec.branch)
  <2>1. KnownRec(rec)
    BY DEF QueuedRec, NoRec, KnownRec
  <2> HIDE DEF rec
  <2>2. /\ cmd'[c].pc = "q_persist" /\ cmd'[c].rec = rec
        /\ \A d \in Clients \ {c} : cmd'[d] = cmd[d]
    BY <1>10, <1>c, IdleType DEF RestoreEnqueue, CmdRec, TypeOK, CmdOK, rec
  <2> QED
    BY <1>10, <2>1, <2>2, <1>u, CmdSaves DEF RestoreEnqueue, CmdHolds
<1> QED
  BY <1>3, <1>4, <1>5, <1>6, <1>7, <1>8, <1>9, <1>10 DEF Progress

\* A command that begins writes nothing yet and marks no unknown session.
LEMMA RequestSaves ==
    ASSUME TypeOK, SavedInv, NEW c \in Clients, Request(c)
    PROVE  /\ StaysUp /\ DiskKeeps /\ CmdHoldsOn /\ PendMoves
           /\ UNCHANGED <<sup, flush>>
<1> USE DEF runtime, writes, boot
<1>1. UNCHANGED <<disk, sup, flush, phase>> /\ phase = "serving"
  BY DEF Request, Enqueue, Terminate, Timeout, TerminateStart, SendLive, SendRecover,
         SendExited, RestoreStart, Begin
<1>2. SUFFICES CmdHoldsOn /\ PendMoves
  BY <1>1, StillSaves DEF StaysUp
<1>m. \A s \in Sessions : mem[s] \in Rec
  BY DEF TypeOK, StoreOK
<1>u. /\ UNCHANGED pend => PendMoves
      /\ UNCHANGED cmd => CmdHoldsOn
  BY StillSaves
<1> USE DEF CmdWrites
<1>t. ASSUME NEW s \in Sessions, NEW op, TerminateStart(c, op, s) PROVE CmdHoldsOn
  <2>1. PICK r, rec : Begin(c, op, "t_mark", s, r, rec) /\ KnownRec(rec)
    <3> DEFINE rec == [mem[s] EXCEPT !.term = TermAction(op)]
    <3>1. KnownRec(rec)
      BY <1>t, <1>m DEF TerminateStart, KnownRec, Present, Rec
    <3> HIDE DEF rec
    <3> QED
      BY <1>t, <3>1 DEF TerminateStart, rec
  <2> QED
    BY <2>1, BeginSaves
<1>3. ASSUME NEW s \in Sessions, NEW key \in Keys, Enqueue(c, s, key)
      PROVE  CmdHoldsOn /\ PendMoves
  <2>1. KnownRec(QueuedRec(key, 0))
    BY DEF QueuedRec, NoRec, KnownRec
  <2> QED
    BY <1>3, <2>1, <1>u, BeginSaves DEF Enqueue
<1>4. ASSUME NEW s \in Sessions, NEW op \in TermOps, Terminate(c, op, s)
      PROVE  CmdHoldsOn /\ PendMoves
  BY <1>4, <1>t, <1>u DEF Terminate
<1>5. ASSUME NEW r \in Runtimes, Timeout(c, r) PROVE CmdHoldsOn /\ PendMoves
  <2>1. proc[r].s \in Sessions
    BY <1>5 DEF Timeout, TypeOK, RuntimeOK, Started
  <2> QED
    BY <1>5, <2>1, <1>t, <1>u DEF Timeout
<1>6. ASSUME NEW s \in Sessions, SendLive(c, s) \/ SendRecover(c, s)
      PROVE  CmdHoldsOn /\ PendMoves
  <2>1. \E pc \in {"s_apply", "e_attach"} : \E r : Begin(c, "send", pc, s, r, NoRec)
    BY <1>6 DEF SendLive, SendRecover
  <2>2. CmdHoldsOn
    BY <2>1, BeginSaves DEF CmdWrites
  <2> QED
    BY <1>6, <2>2, <1>u DEF SendLive, SendRecover
<1>7. ASSUME NEW s \in Sessions, SendExited(c, s) PROVE CmdHoldsOn /\ PendMoves
  <2>1. Begin(c, "send", "r_spawn", s, NoRuntime, NoRec) \/ UNCHANGED cmd
    BY <1>7 DEF SendExited
  <2>2. CmdHoldsOn
    BY <2>1, <1>u, BeginSaves
  <2>3. PendMoves
    BY <1>7 DEF SendExited, QueueFlush, PendMoves, Present
  <2> QED
    BY <2>2, <2>3
<1>8. ASSUME NEW s \in Sessions, RestoreStart(c, s) PROVE CmdHoldsOn /\ PendMoves
  <2>1. \/ Begin(c, "restore", "x_enqueue", s, NoRuntime, mem[s])
        \/ Begin(c, "restore", "x_persist", s, NoRuntime, [mem[s] EXCEPT !.status = "restored"])
    BY <1>8 DEF RestoreStart
  <2>2. KnownRec([mem[s] EXCEPT !.status = "restored"])
    BY <1>m DEF KnownRec, Rec
  <2>3. CmdHoldsOn
    BY <2>1, <2>2, BeginSaves
  <2> QED
    BY <1>8, <2>3, <1>u DEF RestoreStart
<1> QED
  BY <1>3, <1>4, <1>5, <1>6, <1>7, <1>8 DEF Request

-----------------------------------------------------------------------------
(* The runtimes, the flush, the crash and the start-up.                     *)

\* The flush watchdog writes only clones of sessions that are known.
LEMMA EventsSaves ==
    ASSUME TypeOK, SavedInv, Events
    PROVE  /\ StaysUp /\ DiskKeeps /\ FlushMoves /\ PendMoves
           /\ UNCHANGED <<sup, cmd>>
<1> USE DEF runtime, writes, boot
<1>1. UNCHANGED <<sup, cmd, phase>> /\ Up
  BY DEF Events, Output, AsksInput, Consume, MonitorDetach, Exit, MonitorKills, Dies,
         FlushDrain, FlushWrite, Up
<1>2. SUFFICES DiskKeeps /\ FlushMoves /\ PendMoves
  BY <1>1 DEF Up, StaysUp
<1>u. /\ UNCHANGED disk => DiskKeeps
      /\ UNCHANGED flush => FlushMoves
      /\ UNCHANGED pend => PendMoves
  BY StillSaves
<1>3. ASSUME NEW s, QueueFlush(s) PROVE PendMoves
  BY <1>3 DEF QueueFlush, PendMoves, Present
<1>4. ASSUME NEW x \in Groups, Output(x) \/ AsksInput(x) \/ Consume(x) \/ MonitorDetach(x)
      PROVE  DiskKeeps /\ FlushMoves /\ PendMoves
  BY <1>4, <1>u, <1>3 DEF Output, AsksInput, Consume, MonitorDetach
<1>5. ASSUME NEW r \in Runtimes, Exit(r) \/ MonitorKills(r)
      PROVE  DiskKeeps /\ FlushMoves /\ PendMoves
  BY <1>5, <1>u DEF Exit, MonitorKills, Dies
<1>6. CASE FlushDrain
  <2>1. FlushMoves
    BY <1>6 DEF FlushDrain, FlushMoves, KnownRec, SavedInv, PendHolds, Present
  <2> QED
    BY <1>6, <2>1, <1>u DEF FlushDrain, PendMoves
<1>7. ASSUME NEW s \in Sessions, FlushWrite(s) PROVE DiskKeeps /\ FlushMoves /\ PendMoves
  <2>1. KnownRec(flush[s])
    BY <1>7 DEF FlushWrite, SavedInv, FlushHolds
  <2>2. DiskKeeps
    BY <1>7, <2>1, <1>u, WriteKeeps DEF FlushWrite, DiskFails
  <2>3. FlushMoves
    BY <1>7 DEF FlushWrite, FlushMoves, TypeOK, StoreOK
  <2> QED
    BY <1>7, <2>2, <2>3, <1>u DEF FlushWrite
<1> QED
  BY <1>4, <1>5, <1>6, <1>7 DEF Events

\* A crash takes everything but the files.
LEMMA CrashSaves == TypeOK' /\ Crash => SavedInv'
<1> SUFFICES ASSUME TypeOK', Crash PROVE SavedInv'
  OBVIOUS
<1>1. /\ \A s \in Sessions : mem'[s].status = "absent" /\ flush'[s] = NoRec
      /\ sup'.pc = "idle" /\ pend' = {} /\ \A c \in Clients : cmd'[c].pc = "idle"
      /\ DOMAIN mem' = Sessions
  BY DEF Crash, IdleSup, NoRec, Idle, IdleCmd, TypeOK, StoreOK
<1> QED
  BY <1>1 DEF SavedInv, SeenIsSaved, Present, SupHolds, Stages, FlushHolds, PendHolds,
              CmdHolds, CmdWrites

\* What a start-up shows is what the files hold, and it removes none.
LEMMA BootSaves ==
    ASSUME TypeOK, TypeOK', LaunchInv, SavedInv, Orderly, Boot
    PROVE  SavedInv'
<1> USE DEF runtime, writes, boot
<1>1. CASE BootLoad
  <2>1. \A s \in Sessions : mem'[s] = disk'[s]
    BY <1>1 DEF BootLoad
  <2>2. SeenIsSaved'
    BY <2>1 DEF SeenIsSaved, Present, TypeOK, StoreOK
  <2>3. /\ sup.pc = "idle" /\ pend = {} /\ \A c \in Clients : cmd[c].pc = "idle"
        /\ UNCHANGED <<sup, cmd, pend, flush>>
    BY <1>1 DEF BootLoad, LaunchInv, DownIsIdle, Entitled, SavedInv, PendHolds
  <2> QED
    BY <2>2, <2>3 DEF SavedInv, SupHolds, Stages, FlushHolds, PendHolds, CmdHolds, CmdWrites,
                      KnownRec
<1>2. CASE ~BootLoad
  <2>1. StaysUp /\ UNCHANGED <<sup, cmd, flush>>
    BY <1>2 DEF Boot, BootLaunched, BootArchived, BootServe, BootArchive, BootReattach,
                BootExited, BootSkip, StaysUp
  <2>u. UNCHANGED disk => DiskKeeps
    BY StillSaves
  <2>p. \A s \in Sessions : s \in todo => Present(s) /\ mem[s] \in Rec
    BY DEF LaunchInv, TodoPresent, TypeOK, StoreOK
  <2>2. DiskKeeps
    <3>1. ASSUME NEW s \in Sessions, BootArchive(s) PROVE DiskKeeps
      <4>1. KnownRec([mem[s] EXCEPT !.status = "archived", !.pid = NoRuntime])
        BY <2>p, <3>1 DEF KnownRec, Rec, BootArchive
      <4> QED
        BY <3>1, <4>1, <2>u, WriteKeeps DEF BootArchive, DiskFails
    <3>2. ASSUME NEW s \in Sessions, BootReattach(s) PROVE DiskKeeps
      <4>1. KnownRec(Recovered(mem[s]))
        BY <2>p, <3>2 DEF KnownRec, Rec, Recovered, Present, BootReattach
      <4> QED
        BY <3>2, <4>1, <2>u, WriteKeeps DEF BootReattach, DiskFails
    <3> QED
      BY <1>2, <3>1, <3>2, <2>u DEF Boot, BootLaunched, BootArchived, BootServe, BootExited,
                                    BootSkip
  <2>3. PendMoves
    BY <1>2 DEF Boot, BootLaunched, BootArchived, BootServe, BootArchive, BootReattach,
                BootExited, BootSkip, QueueFlush, PendMoves, Present
  <2> QED
    BY <2>1, <2>2, <2>3, StillSaves, SavedKept
<1> QED
  BY <1>1, <1>2

-----------------------------------------------------------------------------
\* Initially nobody sees or writes anything.
LEMMA SavedInvInit == Init => SavedInv
<1> SUFFICES ASSUME Init PROVE SavedInv
  OBVIOUS
<1>1. /\ DOMAIN mem = Sessions
      /\ \A s \in Sessions : mem[s].status = "absent" /\ flush[s] = NoRec
      /\ sup.pc = "idle" /\ pend = {} /\ \A c \in Clients : cmd[c].pc = "idle"
  BY DEF Init, IdleSup, IdleCmd, NoRec
<1> QED
  BY <1>1 DEF SavedInv, SeenIsSaved, Present, SupHolds, Stages, FlushHolds, PendHolds,
              CmdHolds, CmdWrites

\* SavedInv is inductive, given the types and what is known of launches.
LEMMA SavedInvNext ==
    ASSUME TypeOK, TypeOK', LaunchInv, Orderly, SavedInv, [Next]_vars
    PROVE  SavedInv'
<1>1. CASE UNCHANGED vars
  BY <1>1 DEF vars, SavedInv, SeenIsSaved, Present, SupHolds, FlushHolds, PendHolds, CmdHolds,
              Saved
<1>2. CASE Supervisor \/ CancelLaunch
  BY <1>2, SupervisorSaves, StillSaves, SavedKept
<1>3. CASE Events
  BY <1>3, EventsSaves, StillSaves, SavedKept
<1>4. CASE Crash \/ Boot
  BY <1>4, CrashSaves, BootSaves
<1>5. ASSUME NEW c \in Clients, Request(c) PROVE SavedInv'
  BY <1>5, RequestSaves, StillSaves, SavedKept
<1>6. ASSUME NEW c \in Clients, Progress(c) \/ Cancel(c) PROVE SavedInv'
  BY <1>6, ProgressSaves, StillSaves, SavedKept
<1> QED
  BY <1>1, <1>2, <1>3, <1>4, <1>5, <1>6 DEF Next

\* A session any client can see is in a file, so a restart cannot lose it:
\* whatever crashes, is cancelled or cannot be written, for any number of
\* sessions, clients and crashes.
THEOREM SavedBeforeSeen == Spec => []SeenIsSaved
<1>1. Init => TypeOK /\ LaunchInv /\ SavedInv
  BY InitType, LaunchInvInit, SavedInvInit
<1>2. TypeOK /\ LaunchInv /\ SavedInv /\ [Next]_vars => (TypeOK /\ LaunchInv /\ SavedInv)'
  BY NextType, LaunchInvNext, SavedInvNext
<1>3. SavedInv => SeenIsSaved
  BY DEF SavedInv
<1> QED
  BY <1>1, <1>2, <1>3, PTL DEF Spec

-----------------------------------------------------------------------------
(***************************************************************************)
(* The limits of the launch supervisor.  It counts once, when it selects a *)
(* session, and then launches without looking again: what was counted must *)
(* not grow in the meantime by anything but the session it has in hand.    *)
(***************************************************************************)

Busy == sup.pc \notin {"idle", "select"}
InHand(s) == Busy /\ s = sup.s
Paused == {"needs_input", "stuck"}
Resting(rec) == rec.status \in Terminal \cup {"absent", "queued"}

EndPcs == {"t_mark", "t_signal", "t_reap", "t_apply", "t_persist", "t_insert"}
EndClones == {"t_persist", "t_insert"}

\* The server is in its first life and only the commands of StartsAndEnds run.
Plain ==
    /\ phase = "serving" /\ crashes = 0
    /\ \A c \in Clients : cmd[c].pc \in {"idle"} \cup Enqueues \cup EndPcs
    /\ \A r \in Runtimes : Started(r) => proc[r].by = "launch" /\ proc[r].life = 0

\* A record says of session s what its own record says: its key, and a branch
\* that is its own or empty.
OwnRec(s, rec) == rec.key = mem[s].key /\ rec.branch \in {0, s}
QueuedClone(rec) == rec.branch = 0 /\ rec.status = "queued"

SupClone == sup.pc \in SupClones => OwnRec(sup.s, sup.rec)
CmdClone(c) ==
    /\ cmd[c].pc \in EndClones
          => OwnRec(cmd[c].s, cmd[c].rec) /\ cmd[c].rec.status \in Terminal
    /\ cmd[c].pc \in Enqueues => QueuedClone(cmd[c].rec)

Clones ==
    /\ \A s \in Sessions : /\ mem[s].branch \in {0, s}
                           /\ mem[s].status = "queued" => mem[s].branch = 0
    /\ SupClone
    /\ \A c \in Clients : CmdClone(c)

\* The sessions that count, and the one about to.
Held == {s \in Sessions : Occupies(s) \/ InHand(s)}
HeldOf(p) == {s \in Held : ProjectOf[mem[s].key] = p}

LimitInv ==
    /\ IsFiniteSet(Held) /\ Cardinality(Held) <= GlobalLimit
    /\ \A p \in Projects : Cardinality(HeldOf(p)) <= ProjectLimit

\* Of the launching sessions with one key only one has no branch of its own,
\* and while a session is in hand no other has none.
DistinctInv ==
    /\ \A s, t \in Sessions :
          Launching(s) /\ Launching(t) /\ s # t /\ mem[s].key = mem[t].key
             => mem[s].branch # 0 \/ mem[t].branch # 0
    /\ Busy => \A t \in Sessions : Launching(t) /\ t # sup.s /\ mem[t].key = mem[sup.s].key
                                      => mem[t].branch # 0

\* Where no agent asks for input a paused session has no input, and the one in
\* hand is not paused: nobody consumes the output of its process yet.
InHandRuns ==
    sup.pc \in HoldsRuntime =>
        /\ proc[sup.rt].s = sup.s
        /\ \A x \in Groups : x[1] = sup.rt => ~watch[x].con
PausedInv ==
    /\ \A s \in Sessions : mem[s].status \in Paused => ~Attached(s)
    /\ sup.pc \in PreSpawn \cup HoldsRuntime => mem[sup.s].status \notin Paused
    /\ sup.pc \in SupClones => sup.rec.status \notin Paused
    /\ InHandRuns

-----------------------------------------------------------------------------
(* What a step must do to keep them.                                        *)

ProcGrows == \A r \in Runtimes : proc'[r].st = "alive" => proc[r].st \in {"alive", "free"}
InputStays(s) == host'[s].input \in {NoRuntime, host[s].input}

\* No session but the one in hand gets an input that is open.
NoneAttaches == \A s \in Sessions : Attached(s)' => Attached(s) \/ InHand(s)

\* The supervisor takes no new session in hand.
HandStays == Busy' => Busy /\ sup'.s = sup.s

\* Only the session in hand starts to launch or changes its branch.
MemFollows ==
    \A s \in Sessions :
        /\ Present(s) => mem'[s].key = mem[s].key
        /\ mem'[s].branch \in {0, s}
        /\ mem'[s].status = "queued" => mem'[s].branch = 0
        /\ \/ InHand(s)
           \/ Resting(mem'[s])
           \/ /\ ~Resting(mem[s])
              /\ mem'[s].status = "spawning" => mem[s].status = "spawning"
              /\ mem'[s].branch = mem[s].branch

\* No paused session but the one in hand goes back to work while attached.
NoneResumes ==
    \A s \in Sessions :
        mem[s].status \in Paused /\ Attached(s)
            => InHand(s) \/ Resting(mem'[s]) \/ mem'[s].status \in Paused

Calm == NoneAttaches /\ HandStays /\ MemFollows

LEMMA BusyHolds ==
    ASSUME TypeOK, LaunchInv, Busy
    PROVE  sup.s \in Sessions /\ Present(sup.s)
BY DEF TypeOK, SupOK, SupRec, LaunchInv, SupSettled, PastMark, Busy, Present, Settled

LEMMA NoneLaunches ==
    ASSUME Calm, NEW s \in Sessions, Launching(s)', ~InHand(s)
    PROVE  Launching(s) /\ mem'[s].branch = mem[s].branch
BY DEF Calm, NoneAttaches, MemFollows, Launching, Resting

LEMMA NoneOccupies ==
    ASSUME Calm, NoneResumes, NEW s \in Sessions, Occupies(s)', ~InHand(s)
    PROVE  Occupies(s)
<1>1. Launching(s)' /\ mem'[s].status \notin Paused
  BY DEF Occupies, Paused
<1>2. Launching(s)
  BY <1>1, NoneLaunches
<1>3. CASE Attached(s)
  BY <1>1, <1>2, <1>3 DEF NoneResumes, Launching, Resting, Occupies, Paused
<1>4. CASE ~Attached(s)
  BY <1>2, <1>4 DEF Launching, Occupies
<1> QED
  BY <1>3, <1>4

\* A step under these conditions keeps the limits: what counts does not grow.
LEMMA LimitKept ==
    ASSUME TypeOK, LaunchInv, LimitInv, Calm, NoneResumes
    PROVE  LimitInv'
<1>1. ASSUME NEW s \in Held' PROVE s \in Held /\ mem'[s].key = mem[s].key
  <2>1. s \in Sessions /\ (Occupies(s) \/ InHand(s))
    BY NoneOccupies DEF Held, InHand, Calm, HandStays
  <2>2. Present(s)
    BY <2>1, BusyHolds DEF InHand, Occupies, Launching, Present
  <2> QED
    BY <2>1, <2>2 DEF Held, Calm, MemFollows
<1>2. Held' \subseteq Held /\ \A p \in Projects : HeldOf(p)' \subseteq HeldOf(p)
  BY <1>1 DEF HeldOf
<1>3. \A S \in SUBSET Held : IsFiniteSet(S)
  BY FS_Subset DEF LimitInv
<1>4. /\ IsFiniteSet(Held') /\ Cardinality(Held') <= Cardinality(Held)
      /\ Cardinality(Held') \in Nat /\ Cardinality(Held) \in Nat
  BY <1>2, FS_Subset, FS_CardinalityType DEF LimitInv
<1>5. ASSUME NEW p \in Projects PROVE Cardinality(HeldOf(p)') <= ProjectLimit
  <2>1. IsFiniteSet(HeldOf(p)) /\ HeldOf(p)' \subseteq HeldOf(p)
    BY <1>2, <1>3 DEF HeldOf
  <2>2. /\ IsFiniteSet(HeldOf(p)') /\ Cardinality(HeldOf(p)') <= Cardinality(HeldOf(p))
        /\ Cardinality(HeldOf(p)') \in Nat /\ Cardinality(HeldOf(p)) \in Nat
    BY <2>1, FS_Subset, FS_CardinalityType
  <2> QED
    BY <2>2, LimitsAssumption DEF LimitInv
<1> QED
  BY <1>4, <1>5, LimitsAssumption DEF LimitInv

\* It also keeps the launches distinct.
LEMMA DistinctKept ==
    ASSUME TypeOK, LaunchInv, DistinctInv, Calm
    PROVE  DistinctInv'
<1>1. ASSUME NEW s \in Sessions, Launching(s)' \/ InHand(s)
      PROVE  mem'[s].key = mem[s].key
  <2>1. Launching(s) \/ InHand(s)
    BY <1>1, NoneLaunches
  <2>2. Present(s)
    BY <2>1, BusyHolds DEF InHand, Launching, Present
  <2> QED
    BY <2>2 DEF Calm, MemFollows
<1>2. ASSUME Busy' PROVE Busy /\ sup'.s = sup.s /\ sup.s \in Sessions
  BY <1>2, BusyHolds DEF Calm, HandStays
<1>3. ASSUME NEW s \in Sessions, NEW t \in Sessions, Launching(s)', Launching(t)', s # t,
             mem'[s].key = mem'[t].key
      PROVE  mem'[s].branch # 0 \/ mem'[t].branch # 0
  <2>1. mem[s].key = mem[t].key
    BY <1>1, <1>3
  <2>2. CASE ~InHand(s) /\ ~InHand(t)
    BY <1>3, <2>1, <2>2, NoneLaunches DEF DistinctInv
  <2>3. CASE InHand(s)
    BY <1>3, <2>1, <2>3, NoneLaunches DEF DistinctInv, InHand
  <2>4. CASE InHand(t)
    BY <1>3, <2>1, <2>4, NoneLaunches DEF DistinctInv, InHand
  <2> QED
    BY <2>2, <2>3, <2>4
<1>4. ASSUME Busy', NEW t \in Sessions, Launching(t)', t # sup'.s,
             mem'[t].key = mem'[sup'.s].key
      PROVE  mem'[t].branch # 0
  <2>1. /\ Busy /\ sup'.s = sup.s /\ InHand(sup.s) /\ ~InHand(t)
        /\ mem[t].key = mem[sup.s].key
    BY <1>1, <1>2, <1>4 DEF InHand
  <2> QED
    BY <1>4, <2>1, NoneLaunches DEF DistinctInv
<1> QED
  BY <1>3, <1>4 DEF DistinctInv

-----------------------------------------------------------------------------
(* The supervisor selects a session: it counts what launches and works.     *)

LEMMA SelectLimits ==
    ASSUME TypeOK, LaunchInv, LimitInv, Clones, NEW s \in Sessions, SelectNext(s)
    PROVE  LimitInv'
<1>1. /\ Eligible(s) /\ ~Busy /\ Busy' /\ sup'.s = s
      /\ UNCHANGED <<mem, host, proc>>
  BY DEF SelectNext, SupAt, IdleSup, Busy, runtime
<1>2. \A t \in Sessions : Occupies(t)' <=> Occupies(t)
  BY <1>1 DEF Occupies, Launching, Attached, Live
<1>3. \A t \in Sessions : ProjectOf[mem[t].key] \in Projects
  BY KeysAssumption DEF TypeOK, StoreOK, Rec
<1>4. Held = OccupyingIn(Projects) /\ \A p \in Projects : HeldOf(p) = OccupyingIn({p})
  BY <1>1, <1>3 DEF Held, HeldOf, InHand, OccupyingIn
<1>5. /\ Held' = Held \cup {s}
      /\ \A p \in Projects :
            HeldOf(p)' = IF p = ProjectOf[mem[s].key] THEN HeldOf(p) \cup {s} ELSE HeldOf(p)
  BY <1>1, <1>2 DEF Held, HeldOf, InHand
<1>6. ASSUME NEW S, IsFiniteSet(S), NEW n \in Nat, Cardinality(S) < n
      PROVE  IsFiniteSet(S \cup {s}) /\ Cardinality(S \cup {s}) <= n
  <2>1. /\ IsFiniteSet(S \cup {s}) /\ Cardinality(S) \in Nat
        /\ \/ Cardinality(S \cup {s}) = Cardinality(S)
           \/ Cardinality(S \cup {s}) = Cardinality(S) + 1
    BY <1>6, FS_AddElement, FS_CardinalityType
  <2> QED
    BY <1>6, <2>1
<1>7. \A p : IsFiniteSet(HeldOf(p))
  BY FS_Subset DEF HeldOf, LimitInv
<1>8. /\ Cardinality(Held) < GlobalLimit
      /\ Cardinality(HeldOf(ProjectOf[mem[s].key])) < ProjectLimit
  BY <1>1, <1>3, <1>4 DEF Eligible
<1>9. IsFiniteSet(Held') /\ Cardinality(Held') <= GlobalLimit
  BY <1>5, <1>6, <1>8, LimitsAssumption DEF LimitInv
<1>10. ASSUME NEW p \in Projects PROVE Cardinality(HeldOf(p)') <= ProjectLimit
  <2>1. CASE p = ProjectOf[mem[s].key]
    BY <1>5, <1>6, <1>7, <1>8, <2>1, LimitsAssumption
  <2>2. CASE p # ProjectOf[mem[s].key]
    BY <1>5, <2>2 DEF LimitInv
  <2> QED
    BY <2>1, <2>2
<1> QED
  BY <1>9, <1>10 DEF LimitInv

\* It takes none whose work one that launches or lives is doing.
LEMMA SelectDistinct ==
    ASSUME TypeOK, LaunchInv, DistinctInv, Clones, NEW s \in Sessions, SelectNext(s)
    PROVE  DistinctInv'
<1>1. /\ Eligible(s) /\ Busy' /\ sup'.s = s /\ UNCHANGED <<mem, host, proc>>
  BY DEF SelectNext, SupAt, IdleSup, Busy, runtime
<1>2. \A t \in Sessions : Launching(t)' <=> Launching(t)
  BY <1>1 DEF Launching, Attached, Live
<1>3. mem[s].branch = 0 /\ \A t \in Sessions : Launching(t) => Fingerprint(t) # Fingerprint(s)
  BY <1>1 DEF Eligible, ActiveFingerprints, Clones
<1>4. \A t \in Sessions : Launching(t) /\ mem[t].key = mem[s].key => mem[t].branch # 0
  BY <1>3 DEF Fingerprint
<1> QED
  BY <1>1, <1>2, <1>4 DEF DistinctInv

-----------------------------------------------------------------------------
(* The other steps of the supervisor.                                       *)

\* The input of a host belongs to a process that was started.
LEMMA InputStarted ==
    ASSUME TypeOK, KillInv, NEW s \in Sessions, host[s].input # NoRuntime
    PROVE  Started(host[s].input)
<1>1. host[s].input \in Runtimes /\ host[s].kills \subseteq Groups
  BY DEF TypeOK, HostOK, HostRec
<1>2. Reachable(s, host[s].input)
  BY DEF KillInv, InputHasSender
<1>3. CASE Doomed(host[s].input)
  BY <1>1, <1>3 DEF Doomed, Told, Started, TypeOK, RuntimeOK
<1>4. CASE \E x \in host[s].kills : x[1] = host[s].input
  BY <1>1, <1>4 DEF KillInv, HeldAreWatched, Watching, Started, TypeOK, RuntimeOK
<1> QED
  BY <1>2, <1>3, <1>4 DEF Reachable

\* No input opens by itself.
LEMMA AttachedBefore ==
    ASSUME TypeOK, KillInv, ProcGrows, NEW s \in Sessions, InputStays(s), Attached(s)'
    PROVE  Attached(s)
<1>1. host'[s].input # NoRuntime /\ host'[s].input = host[s].input
  BY DEF Attached, Live, InputStays
<1>2. Started(host[s].input) /\ proc'[host[s].input].st = "alive"
  BY <1>1, InputStarted DEF Attached, Live
<1> QED
  BY <1>1, <1>2 DEF ProcGrows, Started, Attached, Live

LEMMA AttachFrom ==
    ASSUME TypeOK, KillInv, ProcGrows, \A s \in Sessions : InputStays(s) \/ InHand(s)
    PROVE  NoneAttaches
BY AttachedBefore DEF NoneAttaches

\* What a step of the supervisor does to the records, the clones and inputs.
OwnChange ==
    \/ mem' = mem
    \/ Busy /\ \E rec : SetMem(sup.s, rec) /\ OwnRec(sup.s, rec) /\ SettledRec(rec)
CloneMoves == sup'.pc \in SupClones => Busy /\ OwnRec(sup.s, sup'.rec)
SupDoes ==
    /\ HandStays /\ OwnChange /\ CloneMoves
    /\ \A s \in Sessions : InputStays(s) \/ InHand(s)
    /\ UNCHANGED cmd

SupSteps ==
    \/ TakeGuard \/ SelectNone \/ Mark \/ MarkPersist \/ MarkInsert \/ Stage1
    \/ StagePersist("stage1_persist", "check1") \/ Check1
    \/ StagePersist("stage2_persist", "spawn")
    \/ Check2 \/ ReplacePersist \/ ReplaceInsert \/ LaunchAttach
    \/ LaunchError \/ Fail \/ FailPersist \/ FailInsert \/ CancelLaunch
    \/ \E r \in Runtimes : SpawnRuntime(r)

LEMMA SupervisorDoes ==
    ASSUME TypeOK, LaunchInv, Clones, SupSteps
    PROVE  SupDoes
<1> USE DEF runtime, writes, boot
<1>t. sup \in SupRec /\ (sup.pc \in SupPcs \ {"idle", "select"} => sup.s \in Sessions)
  BY DEF TypeOK, SupOK
<1>o. /\ \A s \in Sessions : mem[s] \in Rec /\ mem[s].branch \in {0, s}
      /\ sup.pc \in SupClones => OwnRec(sup.s, sup.rec) /\ SettledRec(sup.rec)
  BY DEF TypeOK, StoreOK, Clones, SupClone, LaunchInv, SupSettled
<1>i. ASSUME UNCHANGED <<host, cmd>>, OwnChange, HandStays, CloneMoves PROVE SupDoes
  BY <1>i DEF SupDoes, InputStays
<1>l. ASSUME SupLoop \/ sup' = IdleSup PROVE HandStays /\ CloneMoves
  BY <1>l DEF SupLoop, IdleSup, HandStays, CloneMoves, Busy, SupClones
<1>g. ASSUME NEW pc \in SupPcs, SupGo(pc), Busy, pc \in SupClones => sup.pc \in SupClones /\ pc \in HoldsClone
      PROVE  HandStays /\ CloneMoves
  <2>1. sup'.s = sup.s /\ sup'.pc = pc /\ (pc \in HoldsClone => sup'.rec = sup.rec)
    BY <1>g, <1>t DEF SupGo, SupRec
  <2> QED
    BY <1>g, <2>1, <1>o DEF HandStays, CloneMoves
<1>r. ASSUME NEW pc \in SupPcs, NEW rec, Busy, OwnRec(sup.s, rec),
             sup' = [sup EXCEPT !.pc = pc, !.rec = rec]
      PROVE  HandStays /\ CloneMoves
  <2>1. sup'.s = sup.s /\ sup'.rec = rec
    BY <1>r, <1>t DEF SupRec
  <2> QED
    BY <1>r, <2>1 DEF HandStays, CloneMoves
<1>s. \A v : OwnRec(sup.s, [mem[sup.s] EXCEPT !.status = v]) \/ ~Busy
  BY <1>t, <1>o DEF OwnRec, Rec, SupRec, Busy
<1>c. sup.pc \in SupClones /\ SetMem(sup.s, sup.rec) => OwnChange
  BY <1>o DEF OwnChange, SupClones, Busy
<1>u. UNCHANGED mem => OwnChange
  BY DEF OwnChange
<1> USE DEF SupAt, SupPcs, SupClones, HoldsClone, Busy
<1>1. CASE TakeGuard
  BY <1>1, <1>i, <1>l, <1>u DEF TakeGuard
<1>2. CASE SelectNone
  BY <1>2, <1>i, <1>l, <1>u DEF SelectNone
<1>3. CASE Mark
  <2>1. CASE mem[sup.s].status = "queued"
    <3> DEFINE rec == [mem[sup.s] EXCEPT !.status = "spawning"]
    <3>1. /\ SetMem(sup.s, rec) /\ OwnRec(sup.s, rec) /\ rec.status = "spawning"
          /\ sup' = [sup EXCEPT !.pc = "mark_persist", !.rec = rec]
      BY <1>3, <2>1, <1>s, <1>t, <1>o DEF Mark, Rec
    <3> HIDE DEF rec
    <3>2. OwnChange
      BY <1>3, <3>1 DEF OwnChange, SettledRec, Mark
    <3> QED
      BY <1>3, <3>1, <3>2, <1>r, <1>i DEF Mark
  <2>2. CASE mem[sup.s].status # "queued"
    BY <1>3, <2>2, <1>g, <1>i, <1>u DEF Mark
  <2> QED
    BY <2>1, <2>2
<1>4. CASE MarkPersist
  BY <1>4, <1>g, <1>l, <1>i, <1>u DEF MarkPersist
<1>5. CASE MarkInsert
  BY <1>5, <1>g, <1>i, <1>c DEF MarkInsert
<1>6. CASE Stage1
  <2>1. HandStays /\ CloneMoves
    BY <1>6, <1>r, <1>t, <1>o DEF Stage1, OwnRec
  <2>2. \A s \in Sessions : InputStays(s) \/ InHand(s)
    BY <1>6, <1>t DEF Stage1, InHand, InputStays, TypeOK, HostOK
  <2> QED
    BY <1>6, <2>1, <2>2, <1>u DEF Stage1, SupDoes
<1>7. CASE StagePersist("stage1_persist", "check1")
  BY <1>7, <1>g, <1>i, <1>u DEF StagePersist
<1>8. CASE Check1
  <2>1. CASE SupGo("fail")
    BY <1>8, <2>1, <1>g, <1>i, <1>u DEF Check1
  <2>2. CASE sup' = [sup EXCEPT !.pc = "stage2_persist", !.rec = mem[sup.s]]
    <3>1. OwnRec(sup.s, mem[sup.s])
      BY <1>8, <1>t, <1>o DEF OwnRec, Check1
    <3> QED
      BY <1>8, <2>2, <3>1, <1>r, <1>i, <1>u DEF Check1
  <2> QED
    BY <1>8, <2>1, <2>2 DEF Check1
<1>9. CASE StagePersist("stage2_persist", "spawn")
  BY <1>9, <1>g, <1>i, <1>u DEF StagePersist
<1>10. CASE Check2
  <2>1. CASE SupGo("fail")
    BY <1>10, <2>1, <1>g, <1>i, <1>u DEF Check2
  <2>2. CASE sup' = [sup EXCEPT !.pc = "replace_persist",
                                !.rec = LaunchedRec(sup.s, mem[sup.s], sup.rt)]
    <3>1. OwnRec(sup.s, LaunchedRec(sup.s, mem[sup.s], sup.rt))
      BY <1>10, <1>t, <1>o DEF OwnRec, LaunchedRec, Check2
    <3> QED
      BY <1>10, <2>2, <3>1, <1>r, <1>i, <1>u DEF Check2
  <2> QED
    BY <1>10, <2>1, <2>2 DEF Check2
<1>11. CASE ReplacePersist
  BY <1>11, <1>g, <1>i, <1>u DEF ReplacePersist
<1>12. CASE ReplaceInsert
  BY <1>12, <1>g, <1>i, <1>c DEF ReplaceInsert
<1>13. CASE LaunchAttach
  <2>1. HandStays /\ CloneMoves
    BY <1>13, <1>g, <1>l DEF LaunchAttach
  <2>2. \A s \in Sessions : InputStays(s) \/ InHand(s)
    BY <1>13, <1>t DEF LaunchAttach, AttachAndConsume, InHand, InputStays, TypeOK, HostOK
  <2> QED
    BY <1>13, <2>1, <2>2, <1>u DEF LaunchAttach, SupDoes
<1>14. CASE LaunchError
  BY <1>14, <1>g, <1>i, <1>u DEF LaunchError
<1>15. CASE Fail
  <2> DEFINE rec == [mem[sup.s] EXCEPT !.status = "errored"]
  <2>1. /\ SetMem(sup.s, rec) /\ OwnRec(sup.s, rec) /\ rec.status = "errored"
        /\ sup' = [sup EXCEPT !.pc = "fail_persist", !.rec = rec]
    BY <1>15, <1>s, <1>t, <1>o DEF Fail, Rec
  <2> HIDE DEF rec
  <2>2. OwnChange
    BY <1>15, <2>1 DEF OwnChange, SettledRec, Fail
  <2> QED
    BY <1>15, <2>1, <2>2, <1>r, <1>i DEF Fail
<1>16. CASE FailPersist
  BY <1>16, <1>g, <1>l, <1>i, <1>u DEF FailPersist
<1>17. CASE FailInsert
  BY <1>17, <1>l, <1>i, <1>c DEF FailInsert
<1>18. CASE CancelLaunch
  BY <1>18, <1>l, <1>i, <1>u DEF CancelLaunch
<1>19. ASSUME NEW r \in Runtimes, SpawnRuntime(r) PROVE SupDoes
  <2>1. sup'.pc = "check2" /\ sup'.s = sup.s
    BY <1>19, <1>t DEF SpawnRuntime, SupRec
  <2>2. HandStays /\ CloneMoves
    BY <1>19, <2>1 DEF HandStays, CloneMoves, SpawnRuntime
  <2> QED
    BY <1>19, <2>2, <1>i, <1>u DEF SpawnRuntime
<1> QED
  BY <1>1, <1>2, <1>3, <1>4, <1>5, <1>6, <1>7, <1>8, <1>9, <1>10, <1>11, <1>12, <1>13,
     <1>14, <1>15, <1>16, <1>17, <1>18, <1>19 DEF SupSteps

-----------------------------------------------------------------------------
(* The commands and the events.                                             *)

\* A record session s may get from anyone but the supervisor.
RecFollows(s, rec) ==
    /\ Present(s) => rec.key = mem[s].key
    /\ rec.branch \in {0, s}
    /\ rec.status = "queued" => rec.branch = 0
    /\ \/ Resting(rec)
       \/ /\ ~Resting(mem[s])
          /\ rec.status = "spawning" => mem[s].status = "spawning"
          /\ rec.branch = mem[s].branch

MemChanges ==
    mem' = mem \/ \E s \in Sessions : \E rec : SetMem(s, rec) /\ RecFollows(s, rec)

CmdDoes(c) ==
    /\ cmd'[c].pc \in {"idle"} \cup Enqueues \cup EndPcs
    /\ cmd'[c].pc \in EndClones => /\ Present(cmd'[c].s) /\ OwnRec(cmd'[c].s, cmd'[c].rec)
                                   /\ cmd'[c].rec.status \in Terminal
    /\ cmd'[c].pc \in Enqueues => QueuedClone(cmd'[c].rec)

\* What a command or an event does to the records and inputs.
OthersDo ==
    /\ MemChanges
    /\ \A s \in Sessions : InputStays(s)
    /\ ProcGrows
    /\ \A r \in Runtimes : Started(r)' => Started(r) /\ proc'[r].by = proc[r].by
                                          /\ proc'[r].life = proc[r].life
    /\ UNCHANGED <<sup, phase, crashes>>
    /\ \A c \in Clients : cmd'[c] = cmd[c] \/ CmdDoes(c)

Harmless == OthersDo /\ NoneResumes

LEMMA CommandDoes ==
    ASSUME TypeOK, LaunchInv, Plain, Clones, StartsAndEnds, NEW c \in Clients,
           Progress(c) \/ Cancel(c) \/ Request(c)
    PROVE  Harmless
<1> USE DEF runtime, writes, boot
<1>t. /\ cmd \in [Clients -> CmdRec] /\ mem \in [Sessions -> Rec]
      /\ cmd[c].pc # "idle" => cmd[c].s \in Sessions
      /\ cmd[c].pc \in EndPcs => Present(cmd[c].s)
      /\ cmd[c].pc \in {"idle"} \cup Enqueues \cup EndPcs
  BY DEF TypeOK, CmdOK, StoreOK, LaunchInv, Entitled, Plain, EndPcs, Enqueues
<1>o. /\ \A s \in Sessions : mem[s].branch \in {0, s}
      /\ \A s \in Sessions : mem[s].status = "queued" => mem[s].branch = 0
      /\ cmd[c].pc \in EndClones => OwnRec(cmd[c].s, cmd[c].rec) /\ cmd[c].rec.status \in Terminal
      /\ cmd[c].pc \in Enqueues => QueuedClone(cmd[c].rec)
  BY DEF Clones, CmdClone
<1>p. UNCHANGED proc => /\ ProcGrows
                        /\ \A r \in Runtimes : Started(r)' => Started(r) /\ proc'[r].by = proc[r].by
                                                              /\ proc'[r].life = proc[r].life
  BY DEF ProcGrows, Started
<1>f. Finish(c) => \A d \in Clients : cmd'[d] = cmd[d] \/ CmdDoes(d)
  BY <1>t, IdleType DEF Finish, CmdDoes, Enqueues, EndClones, EndPcs, TypeOK
<1>g. ASSUME NEW pc, Goto(c, pc), pc \in Enqueues \cup EndPcs, cmd[c].pc \in Enqueues \cup EndPcs,
             pc \in EndClones => cmd[c].pc \in EndClones,
             pc \in Enqueues => cmd[c].pc \in Enqueues
      PROVE  \A d \in Clients : cmd'[d] = cmd[d] \/ CmdDoes(d)
  <2>1. /\ cmd'[c].pc = pc /\ cmd'[c].s = cmd[c].s /\ cmd'[c].rec = cmd[c].rec
        /\ \A d \in Clients \ {c} : cmd'[d] = cmd[d]
    BY <1>g, <1>t DEF Goto, CmdRec
  <2> QED
    BY <1>g, <2>1, <1>t, <1>o DEF CmdDoes, EndClones, EndPcs
<1>q. ASSUME UNCHANGED mem PROVE MemChanges /\ NoneResumes
  BY <1>q DEF MemChanges, NoneResumes
<1>s. ASSUME NEW s \in Sessions, NEW rec, SetMem(s, rec), RecFollows(s, rec),
             Resting(rec) \/ rec.status = mem[s].status
      PROVE  MemChanges /\ NoneResumes
  BY <1>s, <1>t DEF MemChanges, NoneResumes, SetMem
<1>h. UNCHANGED host => \A s \in Sessions : InputStays(s)
  BY DEF InputStays
<1>b. ASSUME NEW op, NEW pc, NEW s, NEW r, NEW rec, Begin(c, op, pc, s, r, rec),
             pc \in Enqueues \cup EndPcs, pc \notin EndClones, pc \in Enqueues => QueuedClone(rec)
      PROVE  \A d \in Clients : cmd'[d] = cmd[d] \/ CmdDoes(d)
  <2>1. /\ cmd'[c].pc = pc /\ cmd'[c].rec = rec
        /\ \A d \in Clients \ {c} : cmd'[d] = cmd[d]
    BY <1>b, <1>t DEF Begin
  <2> QED
    BY <1>b, <2>1 DEF CmdDoes
<1>x. ASSUME NEW op, NEW s \in Sessions, TerminateStart(c, op, s)
      PROVE  /\ MemChanges /\ NoneResumes
             /\ \A d \in Clients : cmd'[d] = cmd[d] \/ CmdDoes(d)
  <2>1. PICK r, rec : /\ SetMem(s, rec) /\ Begin(c, op, "t_mark", s, r, rec)
                      /\ rec.status = mem[s].status /\ rec.key = mem[s].key
                      /\ rec.branch = mem[s].branch
    BY <1>x, <1>t DEF TerminateStart, Rec
  <2>2. RecFollows(s, rec)
    BY <2>1, <1>o DEF RecFollows, Resting
  <2> QED
    BY <2>1, <2>2, <1>s, <1>b DEF EndPcs, EndClones, Enqueues
<1> USE DEF CmdAt
<1>1. CASE EnqueuePersist(c)
  BY <1>1, <1>p, <1>f, <1>g, <1>q, <1>h DEF EnqueuePersist, Harmless, OthersDo, Enqueues, EndClones
<1>2. CASE EnqueueInsert(c)
  <2>1. RecFollows(cmd[c].s, cmd[c].rec) /\ Resting(cmd[c].rec)
    BY <1>2, <1>o DEF EnqueueInsert, LaunchInv, Entitled, RecFollows, Resting, QueuedClone, Enqueues
  <2> QED
    BY <1>2, <2>1, <1>t, <1>p, <1>f, <1>s, <1>h DEF EnqueueInsert, Harmless, OthersDo
<1>3. CASE TermMark(c)
  BY <1>3, <1>p, <1>f, <1>g, <1>q, <1>h DEF TermMark, Harmless, OthersDo, EndPcs, EndClones, Enqueues
<1>4. CASE TermSignal(c)
  <2>1. \A s \in Sessions : InputStays(s)
    BY <1>4 DEF TermSignal, InputStays, TypeOK, HostOK, HostRec
  <2> QED
    BY <1>4, <2>1, <1>p, <1>g, <1>q DEF TermSignal, Harmless, OthersDo, EndPcs, EndClones, Enqueues
<1>5. CASE TermReap(c)
  <2>1. \A d \in Clients : cmd'[d] = cmd[d] \/ CmdDoes(d)
    BY <1>5, <1>f, <1>g DEF TermReap, EndPcs, EndClones, Enqueues
  <2>2. \A s \in Sessions : InputStays(s)
    <3>1. host' = [host EXCEPT ![cmd[c].s] = NoHost]
      BY <1>5 DEF TermReap, RemoveHost
    <3> QED
      BY <3>1 DEF InputStays, NoHost, TypeOK, HostOK
  <2>3. /\ ProcGrows
        /\ \A r \in Runtimes : Started(r)' => Started(r) /\ proc'[r].by = proc[r].by
                                              /\ proc'[r].life = proc[r].life
    <3>1. CASE UNCHANGED proc
      BY <3>1, <1>p
    <3>2. CASE /\ Live(mem[cmd[c].s].pid)
               /\ proc' = [proc EXCEPT ![mem[cmd[c].s].pid].st = "dead"]
      <4>1. PICK q : q = mem[cmd[c].s].pid
        OBVIOUS
      <4>2. proc \in [Runtimes -> ProcRec] /\ proc' = [proc EXCEPT ![q].st = "dead"]
            /\ proc[q].st = "alive"
        BY <3>2, <4>1 DEF TypeOK, RuntimeOK, Live
      <4> QED
        BY <4>2 DEF ProcGrows, Started, ProcRec
    <3> QED
      BY <1>5, <3>1, <3>2 DEF TermReap
  <2> QED
    BY <1>5, <2>1, <2>2, <2>3, <1>q DEF TermReap, Harmless, OthersDo
<1>6. CASE TermApply(c)
  <2> DEFINE rec == Terminated(mem[cmd[c].s], TermAction(cmd[c].op))
  <2>0. cmd[c].s \in Sessions /\ Present(cmd[c].s)
    BY <1>6, <1>t DEF TermApply, EndPcs
  <2>1. rec.status \in Terminal /\ OwnRec(cmd[c].s, rec)
    BY <2>0, <1>t, <1>o DEF Terminated, Rec, OwnRec, Terminal
  <2> HIDE DEF rec
  <2>2. CASE Finish(c) /\ UNCHANGED mem
    BY <1>6, <2>2, <1>p, <1>f, <1>q, <1>h DEF TermApply, Harmless, OthersDo
  <2>3. CASE SetMem(cmd[c].s, rec) /\ GotoWith(c, "t_persist", rec)
    <3>1. RecFollows(cmd[c].s, rec) /\ Resting(rec)
      BY <2>1 DEF RecFollows, OwnRec, Resting, Terminal
    <3>2. /\ cmd'[c].pc = "t_persist" /\ cmd'[c].s = cmd[c].s /\ cmd'[c].rec = rec
          /\ \A d \in Clients \ {c} : cmd'[d] = cmd[d]
      BY <2>3, <1>t DEF GotoWith, CmdRec
    <3>3. \A d \in Clients : cmd'[d] = cmd[d] \/ CmdDoes(d)
      BY <3>2, <2>0, <2>1 DEF CmdDoes, EndPcs, Enqueues
    <3> QED
      BY <1>6, <2>0, <2>3, <3>1, <3>3, <1>s, <1>p, <1>h DEF TermApply, Harmless, OthersDo
  <2> QED
    BY <1>6, <2>2, <2>3 DEF TermApply, rec
<1>7. CASE TermPersist(c)
  BY <1>7, <1>p, <1>f, <1>g, <1>q, <1>h DEF TermPersist, Harmless, OthersDo, EndPcs, EndClones, Enqueues
<1>8. CASE TermInsert(c)
  <2>1. /\ cmd[c].s \in Sessions /\ RecFollows(cmd[c].s, cmd[c].rec) /\ Resting(cmd[c].rec)
    BY <1>8, <1>t, <1>o
    DEF TermInsert, RecFollows, OwnRec, Resting, EndClones, EndPcs, Terminal
  <2> QED
    BY <1>8, <2>1, <1>p, <1>f, <1>s, <1>h DEF TermInsert, Harmless, OthersDo
<1>9. CASE Cancel(c)
  BY <1>9, <1>p, <1>f, <1>q, <1>h DEF Cancel, Harmless, OthersDo
<1>10. ASSUME NEW s \in Sessions, NEW key \in Keys, Enqueue(c, s, key) PROVE Harmless
  <2>1. QueuedClone(QueuedRec(key, 0))
    BY DEF QueuedClone, QueuedRec, NoRec
  <2>2. \A d \in Clients : cmd'[d] = cmd[d] \/ CmdDoes(d)
    BY <1>10, <2>1, <1>b DEF Enqueue, Enqueues, EndClones
  <2> QED
    BY <1>10, <2>2, <1>p, <1>q, <1>h DEF Enqueue, Harmless, OthersDo
<1>11. ASSUME NEW s \in Sessions, NEW op \in TermOps, Terminate(c, op, s) PROVE Harmless
  BY <1>11, <1>x, <1>p, <1>h DEF Terminate, Harmless, OthersDo
<1>12. ASSUME NEW r \in Runtimes, Timeout(c, r) PROVE Harmless
  <2>1. proc[r].s \in Sessions
    BY <1>12 DEF Timeout, TypeOK, RuntimeOK, Started
  <2> QED
    BY <1>12, <2>1, <1>x, <1>p, <1>h DEF Timeout, Harmless, OthersDo
<1>13. \A s \in Sessions : ~SendLive(c, s) /\ ~SendRecover(c, s) /\ ~SendExited(c, s)
  BY DEF SendLive, SendRecover, SendExited, Begin, StartsAndEnds
<1>14. \A s \in Sessions : ~RestoreStart(c, s)
  BY DEF RestoreStart, Begin, StartsAndEnds
<1>15. /\ ~EnsureAttach(c) /\ ~EnsurePersist(c) /\ ~SendApply(c) /\ ~SendPersist(c)
       /\ \A r \in Runtimes : ~ResumeSpawn(c, r)
       /\ ~ResumeError(c) /\ ~ResumeApply(c) /\ ~ResumePersist(c) /\ ~ResumeInsert(c)
       /\ ~ResumeAttach(c) /\ ~RestorePersist(c) /\ \A s \in Sessions : ~RestoreEnqueue(c, s)
  BY <1>t DEF EnsureAttach, EnsurePersist, SendApply, SendPersist, ResumeSpawn, ResumeError,
     ResumeApply, ResumePersist, ResumeInsert, ResumeAttach, RestorePersist, RestoreEnqueue,
     Enqueues, EndPcs
<1> QED
  BY <1>1, <1>2, <1>3, <1>4, <1>5, <1>6, <1>7, <1>8, <1>9, <1>10, <1>11, <1>12, <1>13, <1>14,
     <1>15 DEF Progress, Request

\* An event changes the status of a session that has not ended, and nothing
\* else about it.
LEMMA EventFollows ==
    ASSUME TypeOK, Clones, NEW s \in Sessions, ~Resting(mem[s]),
           NEW v \in Status, v \notin {"spawning", "queued"} \/ v = mem[s].status,
           NEW term, NEW pid
    PROVE  /\ RecFollows(s, [mem[s] EXCEPT !.status = v])
           /\ RecFollows(s, [mem[s] EXCEPT !.status = v, !.term = term, !.pid = pid])
<1>1. mem[s] \in Rec /\ mem[s].branch \in {0, s} /\ (mem[s].status = "queued" => mem[s].branch = 0)
  BY DEF TypeOK, StoreOK, Clones
<1> QED
  BY <1>1 DEF RecFollows, Resting, Rec

\* Nothing puts a session that waits in the queue to work behind its back: it
\* has no process yet.
QueuedIsNew == \A r \in Runtimes : Started(r) => Settled(proc[r].s)

LEMMA StartedSettled ==
    ASSUME TypeOK, LaunchInv, Plain
    PROVE  QueuedIsNew
BY DEF LaunchInv, LaunchedSettled, LaunchedNow, Plain, QueuedIsNew

LEMMA EventDoes ==
    ASSUME TypeOK, LaunchInv, Plain, Clones, Events
    PROVE  /\ OthersDo
           /\ \/ "output" \in Background /\ \E x \in Groups : Output(x)
              \/ NoneResumes
<1> DEFINE Done == /\ OthersDo
                   /\ \/ "output" \in Background /\ \E x \in Groups : Output(x)
                      \/ NoneResumes
<1> USE DEF runtime, writes, boot
<1>t. /\ mem \in [Sessions -> Rec] /\ host \in [Sessions -> HostRec]
      /\ proc \in [Runtimes -> ProcRec]
  BY DEF TypeOK, StoreOK, HostOK, RuntimeOK
<1>w. ASSUME NEW x \in Groups, watch[x].con \/ watch[x].mon # "off"
      PROVE  /\ x[1] \in Runtimes /\ Started(x[1])
             /\ proc[x[1]].s \in Sessions /\ Settled(proc[x[1]].s)
  BY <1>w, StartedSettled DEF TypeOK, RuntimeOK, Groups, QueuedIsNew
<1>p. UNCHANGED proc => /\ ProcGrows
                        /\ \A r \in Runtimes : Started(r)' => Started(r) /\ proc'[r].by = proc[r].by
                                                              /\ proc'[r].life = proc[r].life
  BY DEF ProcGrows, Started
<1>q. UNCHANGED mem => MemChanges /\ NoneResumes
  BY DEF MemChanges, NoneResumes
<1>h. /\ UNCHANGED host => \A s \in Sessions : InputStays(s)
      /\ \A s \in Sessions : host' = [host EXCEPT ![s] = DetachedHost(s)]
                                => \A t \in Sessions : InputStays(t)
  BY <1>t DEF InputStays, DetachedHost, HostRec
<1>1. ASSUME NEW x \in Groups, Output(x) PROVE Done
  <2> DEFINE s == proc[x[1]].s
             v == IF host[s].there THEN "working" ELSE mem[s].status
  <2>1. /\ "output" \in Background /\ s \in Sessions /\ ~Resting(mem[s])
        /\ SetMem(s, [mem[s] EXCEPT !.status = v])
    BY <1>1, <1>w DEF Output, Resting, Settled
  <2>2. v \in Status /\ (v \notin {"spawning", "queued"} \/ v = mem[s].status)
        /\ mem[s].status # "queued"
    BY <2>1, <1>t DEF Rec, Status, Resting
  <2> HIDE DEF s, v
  <2>3. RecFollows(s, [mem[s] EXCEPT !.status = v])
    BY <2>1, <2>2, EventFollows
  <2>4. MemChanges
    BY <2>1, <2>3 DEF MemChanges
  <2> QED
    BY <1>1, <2>1, <2>4, <1>p, <1>h DEF Output, OthersDo
<1>2. ASSUME NEW x \in Groups, AsksInput(x) PROVE Done
  <2> DEFINE s == proc[x[1]].s
             v == IF host[s].there THEN "needs_input" ELSE mem[s].status
  <2>1. /\ s \in Sessions /\ ~Resting(mem[s])
        /\ SetMem(s, [mem[s] EXCEPT !.status = v])
    BY <1>2, <1>w DEF AsksInput, Resting, Settled
  <2>2. v \in Status /\ (v \notin {"spawning", "queued"} \/ v = mem[s].status)
        /\ mem[s].status # "queued" /\ v \in {"needs_input", mem[s].status}
    BY <2>1, <1>t DEF Rec, Status, Resting
  <2> HIDE DEF s, v
  <2>3. RecFollows(s, [mem[s] EXCEPT !.status = v])
    BY <2>1, <2>2, EventFollows
  <2>4. MemChanges
    BY <2>1, <2>3 DEF MemChanges
  <2>5. NoneResumes
    BY <2>1, <2>2, <1>t DEF NoneResumes, SetMem, Paused, Rec
  <2> QED
    BY <1>2, <2>4, <2>5, <1>p, <1>h DEF AsksInput, OthersDo
<1>3. ASSUME NEW x \in Groups, Consume(x) PROVE Done
  <2> DEFINE s == proc[x[1]].s
             rec == AfterExit(mem[s], watch[x].evt)
  <2>1. s \in Sessions /\ Settled(s) /\ SetMem(s, rec)
    BY <1>3, <1>w DEF Consume
  <2>2. RecFollows(s, rec) /\ (Resting(rec) \/ rec.status = "needs_input")
    <3>1. CASE mem[s].status \in Terminal
      BY <2>1, <1>t, <3>1 DEF AfterExit, RecFollows, Resting, Clones, Terminal
    <3>2. CASE mem[s].status \notin Terminal
      <4>1. ~Resting(mem[s])
        BY <2>1, <3>2 DEF Settled, Resting
      <4>2. \E v \in {"needs_input"} \cup Terminal :
               \/ rec = [mem[s] EXCEPT !.status = v]
               \/ rec = [mem[s] EXCEPT !.status = v, !.term = "none", !.pid = NoRuntime]
        BY <4>1 DEF AfterExit, Ended, Terminated, Resting, Terminal
      <4> HIDE DEF s, rec
      <4>3. PICK v \in {"needs_input"} \cup Terminal :
               \/ rec = [mem[s] EXCEPT !.status = v]
               \/ rec = [mem[s] EXCEPT !.status = v, !.term = "none", !.pid = NoRuntime]
        BY <4>2
      <4>4. v \in Status /\ v \notin {"spawning", "queued"}
        BY DEF Status, Terminal
      <4>5. RecFollows(s, rec)
        <5>1. /\ RecFollows(s, [mem[s] EXCEPT !.status = v])
              /\ RecFollows(s, [mem[s] EXCEPT !.status = v, !.term = "none",
                                              !.pid = NoRuntime])
          BY <4>1, <4>4, <2>1, EventFollows
        <5> QED
          BY <4>3, <5>1
      <4>6. rec.status = v
        BY <4>3, <2>1, <1>t DEF Rec
      <4> QED
        BY <4>5, <4>6 DEF Resting
    <3> QED
      BY <3>1, <3>2
  <2> HIDE DEF s, rec
  <2>3. MemChanges
    BY <2>1, <2>2 DEF MemChanges
  <2>4. NoneResumes
    BY <2>1, <2>2, <1>t DEF NoneResumes, SetMem, Paused
  <2>5. \A t \in Sessions : InputStays(t)
    BY <1>3, <2>1, <1>h DEF Consume, s
  <2> QED
    BY <1>3, <2>3, <2>4, <2>5, <1>p DEF Consume, OthersDo
<1>4. ASSUME NEW x \in Groups, MonitorDetach(x) PROVE Done
  <2>1. \A t \in Sessions : InputStays(t)
    BY <1>4, <1>w, <1>h DEF MonitorDetach
  <2> QED
    BY <1>4, <2>1, <1>p, <1>q DEF MonitorDetach, OthersDo
<1>5. ASSUME NEW r \in Runtimes, Dies(r), UNCHANGED <<phase, crashes>> PROVE Done
  <2>1. /\ ProcGrows
        /\ \A q \in Runtimes : Started(q)' => Started(q) /\ proc'[q].by = proc[q].by
                                              /\ proc'[q].life = proc[q].life
    BY <1>5, <1>t DEF Dies, ProcGrows, Started, ProcRec
  <2> QED
    BY <1>5, <2>1, <1>q, <1>h DEF Dies, OthersDo
<1>6. CASE FlushDrain
  BY <1>6, <1>p, <1>q, <1>h DEF FlushDrain, OthersDo
<1>7. ASSUME NEW s \in Sessions, FlushWrite(s) PROVE Done
  BY <1>7, <1>p, <1>q, <1>h DEF FlushWrite, OthersDo
<1>8. \A r \in Runtimes : Exit(r) \/ MonitorKills(r) => Dies(r) /\ UNCHANGED <<phase, crashes>>
  BY DEF Exit, MonitorKills, Dies
<1> QED
  BY <1>1, <1>2, <1>3, <1>4, <1>5, <1>6, <1>7, <1>8 DEF Events

-----------------------------------------------------------------------------
(* Every step but a selection is calm.                                      *)

\* A clone keeps saying of its session what the session's record says.
LEMMA OwnStays ==
    ASSUME MemFollows, NEW s \in Sessions, Present(s), NEW rec, OwnRec(s, rec)
    PROVE  rec.key = mem'[s].key /\ rec.branch \in {0, s}
BY DEF MemFollows, OwnRec

LEMMA SupervisorCalm ==
    ASSUME TypeOK, LaunchInv, KillInv, Plain, Clones, SupSteps
    PROVE  Calm /\ NoneResumes /\ Plain' /\ Clones'
<1>d. SupDoes
  BY SupervisorDoes
<1>t. mem \in [Sessions -> Rec]
  BY DEF TypeOK, StoreOK
<1>p. /\ UNCHANGED <<phase, crashes>>
      /\ \/ UNCHANGED proc
         \/ \E r \in Runtimes : \E s : StartProcess(r, s, "launch")
  BY DEF SupSteps, TakeGuard, SelectNone, Mark, MarkPersist, MarkInsert, Stage1, StagePersist,
     Check1, Check2, ReplacePersist, ReplaceInsert, LaunchAttach, LaunchError, Fail, FailPersist,
     FailInsert, CancelLaunch, SpawnRuntime, runtime, boot
<1>1. /\ ProcGrows
      /\ \A r \in Runtimes : Started(r)' => \/ Started(r) /\ proc'[r] = proc[r]
                                            \/ proc'[r].by = "launch" /\ proc'[r].life = crashes
  BY <1>p DEF ProcGrows, StartProcess, Started, TypeOK, RuntimeOK
<1>2. NoneAttaches
  BY <1>d, <1>1, AttachFrom DEF SupDoes
<1>3. MemFollows /\ NoneResumes
  <2>1. CASE mem' = mem
    BY <2>1 DEF MemFollows, NoneResumes, Clones
  <2>2. CASE Busy /\ \E rec : SetMem(sup.s, rec) /\ OwnRec(sup.s, rec) /\ SettledRec(rec)
    <3>1. PICK rec : SetMem(sup.s, rec) /\ OwnRec(sup.s, rec) /\ SettledRec(rec)
      BY <2>2
    <3>2. sup.s \in Sessions /\ InHand(sup.s)
      BY <2>2, BusyHolds DEF InHand
    <3>3. mem'[sup.s] = rec /\ \A s \in Sessions \ {sup.s} : mem'[s] = mem[s]
      BY <1>t, <3>1, <3>2 DEF SetMem
    <3>4. MemFollows
      BY <3>1, <3>2, <3>3 DEF MemFollows, Clones, OwnRec, SettledRec
    <3> QED
      BY <3>2, <3>3, <3>4 DEF NoneResumes
  <2> QED
    BY <1>d, <2>1, <2>2 DEF SupDoes, OwnChange
<1>4. Plain'
  BY <1>d, <1>1, <1>p DEF Plain, SupDoes
<1>5. SupClone'
  <2> SUFFICES ASSUME sup'.pc \in SupClones PROVE OwnRec(sup.s, sup.rec)'
    BY DEF SupClone
  <2>1. Busy /\ OwnRec(sup.s, sup'.rec) /\ sup'.s = sup.s
    BY <1>d DEF SupDoes, CloneMoves, HandStays, Busy, SupClones
  <2>2. sup.s \in Sessions /\ Present(sup.s)
    BY <2>1, BusyHolds
  <2> QED
    BY <1>3, <2>1, <2>2, OwnStays DEF OwnRec
<1>6. ASSUME NEW c \in Clients PROVE CmdClone(c)'
  <2>1. cmd' = cmd /\ CmdClone(c)
    BY <1>d DEF SupDoes, Clones
  <2>2. cmd[c].pc \in EndClones => cmd[c].s \in Sessions /\ Present(cmd[c].s)
    BY DEF EndClones, TypeOK, CmdOK, LaunchInv, Entitled, Enqueues
  <2>3. cmd[c].pc \in EndClones
           => cmd[c].rec.key = mem'[cmd[c].s].key /\ cmd[c].rec.branch \in {0, cmd[c].s}
    BY <1>3, <2>1, <2>2, OwnStays DEF CmdClone
  <2> QED
    BY <2>1, <2>3 DEF CmdClone, OwnRec
<1> QED
  BY <1>d, <1>2, <1>3, <1>4, <1>5, <1>6 DEF Calm, SupDoes, Clones, MemFollows

LEMMA OthersCalm ==
    ASSUME TypeOK, TypeOK', LaunchInv, KillInv, Plain, Clones, OthersDo
    PROVE  Calm /\ Plain' /\ Clones'
<1>t. mem \in [Sessions -> Rec]
  BY DEF TypeOK, StoreOK
<1>1. NoneAttaches /\ HandStays
  BY AttachFrom DEF OthersDo, HandStays, Busy
<1>2. MemFollows
  <2>1. CASE mem' = mem
    BY <2>1 DEF MemFollows, Clones
  <2>2. CASE \E s \in Sessions : \E rec : SetMem(s, rec) /\ RecFollows(s, rec)
    <3>1. PICK t \in Sessions : \E rec : SetMem(t, rec) /\ RecFollows(t, rec)
      BY <2>2
    <3>2. RecFollows(t, mem'[t]) /\ \A s \in Sessions \ {t} : mem'[s] = mem[s]
      BY <1>t, <3>1 DEF SetMem
    <3> QED
      BY <3>2 DEF MemFollows, RecFollows, Clones
  <2> QED
    BY <2>1, <2>2 DEF OthersDo, MemChanges
<1>3. Plain'
  BY DEF Plain, OthersDo, CmdDoes
<1>4. SupClone'
  <2>1. sup' = sup /\ SupClone
    BY DEF OthersDo, Clones
  <2>2. sup.pc \in SupClones => sup.s \in Sessions /\ Present(sup.s)
    BY BusyHolds DEF Busy, SupClones
  <2>3. sup.pc \in SupClones => sup.rec.key = mem'[sup.s].key /\ sup.rec.branch \in {0, sup.s}
    BY <1>2, <2>1, <2>2, OwnStays DEF SupClone
  <2> QED
    BY <2>1, <2>3 DEF SupClone, OwnRec
<1>5. ASSUME NEW c \in Clients PROVE CmdClone(c)'
  <2>1. CASE cmd'[c] = cmd[c]
    <3>1. cmd[c].pc \in EndClones => cmd[c].s \in Sessions /\ Present(cmd[c].s)
      BY DEF EndClones, TypeOK, CmdOK, LaunchInv, Entitled, Enqueues
    <3>2. CmdClone(c)
      BY DEF Clones
    <3>3. cmd[c].pc \in EndClones
             => cmd[c].rec.key = mem'[cmd[c].s].key /\ cmd[c].rec.branch \in {0, cmd[c].s}
      BY <1>2, <3>1, <3>2, OwnStays DEF CmdClone
    <3> QED
      BY <2>1, <3>2, <3>3 DEF CmdClone, OwnRec
  <2>2. CASE CmdDoes(c)
    <3>1. cmd'[c].pc \in EndClones => cmd'[c].s \in Sessions
      BY DEF TypeOK, CmdOK, EndClones
    <3>2. cmd'[c].pc \in EndClones
             => cmd'[c].rec.key = mem'[cmd'[c].s].key /\ cmd'[c].rec.branch \in {0, cmd'[c].s}
      BY <1>2, <2>2, <3>1, OwnStays DEF CmdDoes
    <3> QED
      BY <2>2, <3>2 DEF CmdClone, CmdDoes, OwnRec
  <2> QED
    BY <2>1, <2>2 DEF OthersDo
<1> QED
  BY <1>1, <1>2, <1>3, <1>4, <1>5 DEF Calm, Clones, MemFollows

\* All that is needed of a state besides what is to be proved of it.
Base == TypeOK /\ LaunchInv /\ KillInv /\ Plain /\ Clones

Select == \E s \in Sessions : SelectNext(s)

LEMMA StepIsCalm ==
    ASSUME Base, StartsAndEnds, [Next]_vars
    PROVE  /\ Base'
           /\ Select \/ Calm
           /\ \/ Select \/ NoneResumes
              \/ "output" \in Background /\ \E x \in Groups : Output(x)
<1> USE DEF Base
<1>1. TypeOK' /\ LaunchInv' /\ KillInv'
  BY NextType, LaunchInvNext, KillInvNext
<1>2. CASE Select
  <2>1. /\ UNCHANGED <<mem, proc, cmd, phase, crashes>>
        /\ sup'.pc = "mark"
    BY <1>2 DEF Select, SelectNext, IdleSup, runtime, boot
  <2>2. Plain' /\ Clones'
    BY <2>1 DEF Plain, Started, Clones, SupClone, SupClones, CmdClone, OwnRec
  <2> QED
    BY <1>1, <1>2, <2>2
<1>3. CASE SupSteps
  BY <1>1, <1>3, SupervisorCalm
<1>4. ASSUME NEW c \in Clients, Progress(c) \/ Cancel(c) \/ Request(c)
      PROVE  Plain' /\ Clones' /\ Calm /\ NoneResumes
  BY <1>1, <1>4, CommandDoes, OthersCalm DEF Harmless
<1>5. CASE Events
  BY <1>1, <1>5, EventDoes, OthersCalm
<1>6. CASE UNCHANGED vars
  <2>1. OthersDo /\ NoneResumes
    BY <1>6 DEF vars, OthersDo, MemChanges, InputStays, ProcGrows, Started, NoneResumes
  <2> QED
    BY <1>1, <2>1, OthersCalm
<1>7. ~Crash /\ ~Boot
  BY DEF Crash, Boot, StartsAndEnds, Plain, BootLoad, BootLaunched, BootArchived, BootServe,
     BootArchive, BootReattach, BootExited, BootSkip
<1> QED
  BY <1>1, <1>2, <1>3, <1>4, <1>5, <1>6, <1>7 DEF Next, Supervisor, SupSteps, Select

-----------------------------------------------------------------------------
(* Where no agent asks for input: a session is paused only once its process *)
(* is gone.                                                                 *)

ToLaunch == PreSpawn \cup HoldsRuntime

\* Whose output is consumed is not in hand any more.
LEMMA ConsumedIsOut ==
    ASSUME Base, PausedInv, NEW x \in Groups, watch[x].con, sup.pc \in ToLaunch
    PROVE  proc[x[1]].s # sup.s
<1> USE DEF Base
<1>1. x[1] \in Runtimes /\ LaunchedNow(x[1])
  BY DEF TypeOK, RuntimeOK, Groups, Plain, LaunchedNow, Started
<1>2. CASE sup.pc \in PreSpawn
  BY <1>1, <1>2 DEF LaunchInv, LaunchedSettled
<1>3. CASE sup.pc \in HoldsRuntime
  <2>1. /\ sup.rt \in Runtimes /\ LaunchedNow(sup.rt) /\ proc[sup.rt].s = sup.s
        /\ x[1] # sup.rt
    BY <1>3 DEF TypeOK, SupOK, Started, Plain, LaunchedNow, PausedInv, InHandRuns
  <2> QED
    BY <1>1, <2>1 DEF LaunchInv, LaunchOnce, LaunchedNow, Started
<1> QED
  BY <1>2, <1>3 DEF ToLaunch

ConShrinks == \A x \in Groups : watch'[x].con => watch[x].con
SameOwners == \A r \in Runtimes : Started(r) => proc'[r].s = proc[r].s
NewlyPaused ==
    \A s \in Sessions : mem'[s].status \in Paused =>
        \/ mem[s].status \in Paused
        \/ ~Attached(s)' /\ ~(sup.pc \in ToLaunch /\ s = sup.s)

\* A command or an event keeps PausedInv under these conditions.
LEMMA OthersPaused ==
    ASSUME Base, PausedInv, OthersDo, ConShrinks, SameOwners, NewlyPaused
    PROVE  PausedInv'
<1> USE DEF Base
<1>1. \A s \in Sessions : mem'[s].status \in Paused => ~Attached(s)'
  BY AttachedBefore DEF NewlyPaused, PausedInv, OthersDo
<1>2. sup' = sup /\ (sup.pc \in ToLaunch => sup.s \in Sessions)
  BY BusyHolds DEF OthersDo, ToLaunch, PreSpawn, HoldsRuntime, Busy
<1>3. sup.pc \in ToLaunch => mem'[sup.s].status \notin Paused
  BY <1>2 DEF NewlyPaused, PausedInv, ToLaunch
<1>4. InHandRuns'
  <2>1. sup.pc \in HoldsRuntime => Started(sup.rt)
    BY DEF TypeOK, SupOK
  <2> QED
    BY <1>2, <2>1 DEF PausedInv, InHandRuns, ConShrinks, SameOwners, Started
<1> QED
  BY <1>1, <1>2, <1>3, <1>4 DEF PausedInv, ToLaunch

LEMMA DeathPauses ==
    ASSUME Base, NEW r, proc[r].st = "alive", proc' = [proc EXCEPT ![r].st = "dead"]
    PROVE  SameOwners
BY DEF Base, SameOwners, Started, TypeOK, RuntimeOK, ProcRec

LEMMA CommandPauses ==
    ASSUME Base, PausedInv, StartsAndEnds, NEW c \in Clients,
           Progress(c) \/ Cancel(c) \/ Request(c)
    PROVE  PausedInv'
<1> USE DEF Base, runtime, writes, boot
<1>t. /\ mem \in [Sessions -> Rec] /\ watch \in [Groups -> WatchRec]
      /\ cmd[c].pc # "idle" => cmd[c].s \in Sessions
      /\ cmd[c].pc \in {"idle"} \cup Enqueues \cup EndPcs
  BY DEF TypeOK, CmdOK, StoreOK, RuntimeOK, Plain
<1>o. OthersDo
  BY CommandDoes DEF Harmless
<1>c. /\ UNCHANGED watch => ConShrinks
      /\ \A K : watch' = Signalled(watch, K) => ConShrinks
  BY <1>t, SignalledType DEF ConShrinks
<1>p. UNCHANGED proc => SameOwners
  BY DEF SameOwners
<1>q. /\ UNCHANGED mem => NewlyPaused
      /\ \A s \in Sessions : \A rec : SetMem(s, rec) /\ rec.status \notin Paused => NewlyPaused
      /\ \A s \in Sessions : \A rec : SetMem(s, rec) /\ rec.status = mem[s].status => NewlyPaused
  BY <1>t DEF NewlyPaused, SetMem
<1>x. ASSUME NEW op, NEW s \in Sessions, TerminateStart(c, op, s) PROVE NewlyPaused
  <2>1. PICK rec : SetMem(s, rec) /\ rec.status = mem[s].status
    BY <1>x, <1>t DEF TerminateStart, Rec
  <2> QED
    BY <2>1, <1>q
<1>e. /\ cmd[c].pc \in EndClones => cmd[c].rec.status \notin Paused
      /\ cmd[c].pc \in Enqueues => cmd[c].rec.status \notin Paused
  BY DEF Clones, CmdClone, QueuedClone, Paused, Terminal
<1> USE OthersPaused DEF CmdAt
<1>1. CASE EnqueuePersist(c)
  BY <1>1, <1>o, <1>c, <1>p, <1>q DEF EnqueuePersist
<1>2. CASE EnqueueInsert(c)
  BY <1>2, <1>o, <1>c, <1>p, <1>q, <1>e, <1>t DEF EnqueueInsert, Enqueues
<1>3. CASE TermMark(c)
  BY <1>3, <1>o, <1>c, <1>p, <1>q DEF TermMark
<1>4. CASE TermSignal(c)
  BY <1>4, <1>o, <1>c, <1>p, <1>q DEF TermSignal
<1>5. CASE TermReap(c)
  <2>1. CASE UNCHANGED proc /\ RemoveHost(cmd[c].s, watch)
    BY <1>5, <2>1, <1>o, <1>c, <1>p, <1>q DEF TermReap, RemoveHost
  <2>2. CASE /\ Live(mem[cmd[c].s].pid)
             /\ proc' = [proc EXCEPT ![mem[cmd[c].s].pid].st = "dead"]
             /\ \E event \in Outcomes :
                   RemoveHost(cmd[c].s, Gone(watch, mem[cmd[c].s].pid, event))
    <3>1. PICK r \in Runtimes : r = mem[cmd[c].s].pid
      BY <1>5, <1>t, <2>2 DEF TermReap, Live, Rec
    <3>2. PICK event \in Outcomes :
             watch' = Signalled(Gone(watch, r, event), host[cmd[c].s].kills)
      BY <2>2, <3>1 DEF RemoveHost
    <3>3. ConShrinks
      BY <1>t, <3>2, GoneType, SignalledType DEF ConShrinks
    <3>4. SameOwners
      BY <2>2, <3>1, DeathPauses DEF Live
    <3> QED
      BY <1>5, <3>3, <3>4, <1>o, <1>q DEF TermReap
  <2> QED
    BY <1>5, <2>1, <2>2 DEF TermReap
<1>6. CASE TermApply(c)
  <2>1. Terminated(mem[cmd[c].s], TermAction(cmd[c].op)).status \notin Paused
    BY <1>6, <1>t DEF TermApply, Terminated, Rec, Paused
  <2>2. NewlyPaused
    BY <1>6, <2>1, <1>q, <1>t DEF TermApply
  <2> QED
    BY <1>6, <2>2, <1>o, <1>c, <1>p DEF TermApply
<1>7. CASE TermPersist(c)
  BY <1>7, <1>o, <1>c, <1>p, <1>q DEF TermPersist
<1>8. CASE TermInsert(c)
  BY <1>8, <1>o, <1>c, <1>p, <1>q, <1>e, <1>t DEF TermInsert, EndClones
<1>9. CASE Cancel(c)
  BY <1>9, <1>o, <1>c, <1>p, <1>q DEF Cancel
<1>10. ASSUME NEW s \in Sessions, NEW key \in Keys, Enqueue(c, s, key) PROVE PausedInv'
  BY <1>10, <1>o, <1>c, <1>p, <1>q DEF Enqueue
<1>11. ASSUME NEW s \in Sessions, NEW op \in TermOps, Terminate(c, op, s) PROVE PausedInv'
  BY <1>11, <1>o, <1>c, <1>p, <1>x DEF Terminate
<1>12. ASSUME NEW r \in Runtimes, Timeout(c, r) PROVE PausedInv'
  <2>1. proc[r].s \in Sessions
    BY <1>12 DEF Timeout, TypeOK, RuntimeOK, Started
  <2> QED
    BY <1>12, <2>1, <1>o, <1>c, <1>p, <1>x DEF Timeout
<1>13. \A s \in Sessions : /\ ~SendLive(c, s) /\ ~SendRecover(c, s) /\ ~SendExited(c, s)
                           /\ ~RestoreStart(c, s)
  BY DEF SendLive, SendRecover, SendExited, RestoreStart, Begin, StartsAndEnds
<1>14. /\ ~EnsureAttach(c) /\ ~EnsurePersist(c) /\ ~SendApply(c) /\ ~SendPersist(c)
       /\ \A r \in Runtimes : ~ResumeSpawn(c, r)
       /\ ~ResumeError(c) /\ ~ResumeApply(c) /\ ~ResumePersist(c) /\ ~ResumeInsert(c)
       /\ ~ResumeAttach(c) /\ ~RestorePersist(c) /\ \A s \in Sessions : ~RestoreEnqueue(c, s)
  BY <1>t DEF EnsureAttach, EnsurePersist, SendApply, SendPersist, ResumeSpawn, ResumeError,
     ResumeApply, ResumePersist, ResumeInsert, ResumeAttach, RestorePersist, RestoreEnqueue,
     Enqueues, EndPcs
<1> QED
  BY <1>1, <1>2, <1>3, <1>4, <1>5, <1>6, <1>7, <1>8, <1>9, <1>10, <1>11, <1>12, <1>13, <1>14
  DEF Progress, Request

LEMMA EventPauses ==
    ASSUME Base, PausedInv, "input" \notin Background, Events
    PROVE  PausedInv'
<1> USE DEF Base, runtime, writes, boot
<1>t. mem \in [Sessions -> Rec] /\ watch \in [Groups -> WatchRec] /\ host \in [Sessions -> HostRec]
  BY DEF TypeOK, StoreOK, RuntimeOK, HostOK
<1>w. ASSUME NEW x \in Groups, watch[x].con
      PROVE  /\ proc[x[1]].s \in Sessions
             /\ sup.pc \in ToLaunch => proc[x[1]].s # sup.s
  BY <1>w, ConsumedIsOut DEF TypeOK, RuntimeOK, Groups, Started
<1>o. OthersDo
  BY EventDoes
<1>c. UNCHANGED watch => ConShrinks
  BY DEF ConShrinks
<1>p. UNCHANGED proc => SameOwners
  BY DEF SameOwners
<1>q. UNCHANGED mem => NewlyPaused
  BY DEF NewlyPaused
<1> USE OthersPaused
<1>1. ASSUME NEW x \in Groups, Output(x) PROVE PausedInv'
  <2> DEFINE s == proc[x[1]].s
  <2>1. /\ s \in Sessions /\ watch[x].con
        /\ SetMem(s, [mem[s] EXCEPT !.status = IF host[s].there THEN "working" ELSE @])
    BY <1>1, <1>w DEF Output
  <2> HIDE DEF s
  <2>2. mem'[s].status \in {"working", mem[s].status} /\ \A t \in Sessions \ {s} : mem'[t] = mem[t]
    BY <2>1, <1>t DEF SetMem, Rec
  <2>3. NewlyPaused
    BY <2>1, <2>2 DEF NewlyPaused, Paused
  <2> QED
    BY <1>1, <2>3, <1>o, <1>c, <1>p DEF Output
<1>2. ASSUME NEW x \in Groups, Consume(x) PROVE PausedInv'
  <2>0. PICK s \in Sessions : s = proc[x[1]].s
    BY <1>2, <1>w DEF Consume
  <2>1. /\ (sup.pc \in ToLaunch => s # sup.s)
        /\ \A t \in Sessions \ {s} : mem'[t] = mem[t]
        /\ host' = [host EXCEPT ![s] = DetachedHost(s)]
    BY <1>2, <2>0, <1>w, <1>t DEF Consume, SetMem
  <2>2. ~Attached(s)'
    BY <2>1, <1>t DEF DetachedHost, Attached, Live, HostRec
  <2>3. NewlyPaused
    BY <2>1, <2>2 DEF NewlyPaused
  <2>4. ConShrinks
    BY <1>2, <1>t DEF Consume, ConShrinks, WatchRec
  <2> QED
    BY <1>2, <2>3, <2>4, <1>o, <1>p DEF Consume
<1>3. ASSUME NEW x \in Groups, MonitorDetach(x) PROVE PausedInv'
  <2>1. ConShrinks
    BY <1>3, <1>t DEF MonitorDetach, ConShrinks, WatchRec
  <2> QED
    BY <1>3, <2>1, <1>o, <1>p, <1>q DEF MonitorDetach
<1>4. ASSUME NEW r \in Runtimes, Dies(r) PROVE PausedInv'
  <2>1. PICK event \in Outcomes : watch' = Gone(watch, r, event)
    BY <1>4 DEF Dies
  <2>2. ConShrinks
    BY <1>t, <2>1, GoneType DEF ConShrinks
  <2>3. SameOwners
    BY <1>4, DeathPauses DEF Dies
  <2> QED
    BY <1>4, <2>2, <2>3, <1>o, <1>q DEF Dies
<1>5. CASE FlushDrain
  BY <1>5, <1>o, <1>c, <1>p, <1>q DEF FlushDrain
<1>6. ASSUME NEW s \in Sessions, FlushWrite(s) PROVE PausedInv'
  BY <1>6, <1>o, <1>c, <1>p, <1>q DEF FlushWrite
<1>7. /\ \A x \in Groups : ~AsksInput(x)
      /\ \A r \in Runtimes : Exit(r) \/ MonitorKills(r) => Dies(r)
  BY DEF AsksInput, Exit, MonitorKills
<1> QED
  BY <1>1, <1>2, <1>3, <1>4, <1>5, <1>6, <1>7 DEF Events

\* What a step of the supervisor does to its own place, for PausedInv.
SupPauses ==
    /\ mem' = mem \/ \E rec : SetMem(sup.s, rec) /\ rec.status \notin Paused
    /\ sup'.pc \in ToLaunch => sup.pc \in ToLaunch
    /\ sup'.pc \in SupClones => sup'.rec.status \notin Paused
    /\ sup'.pc \in HoldsRuntime => sup.pc \in HoldsRuntime /\ sup'.rt = sup.rt /\ watch' = watch
    /\ \A s \in Sessions : InputStays(s) \/ (sup.pc \in ToLaunch /\ s = sup.s)
    /\ proc' = proc

LEMMA SupervisorPauses ==
    ASSUME Base, PausedInv, SupSteps, \A r \in Runtimes : ~SpawnRuntime(r)
    PROVE  SupPauses
<1> USE DEF Base, runtime, writes, boot
<1>t. /\ sup \in SupRec /\ (sup.pc \in SupPcs \ {"idle", "select"} => sup.s \in Sessions)
      /\ mem \in [Sessions -> Rec]
  BY DEF TypeOK, SupOK, StoreOK
<1>o. sup.pc \in SupClones => sup.rec.status \notin Paused
  BY DEF PausedInv
<1>m. sup.pc \in ToLaunch => mem[sup.s].status \notin Paused
  BY DEF PausedInv, ToLaunch
<1>h. UNCHANGED host => \A s \in Sessions : InputStays(s) \/ (sup.pc \in ToLaunch /\ s = sup.s)
  BY DEF InputStays
<1>l. ASSUME SupLoop \/ sup' = IdleSup
      PROVE  sup'.pc \notin ToLaunch \cup SupClones \cup HoldsRuntime
  BY <1>l DEF SupLoop, IdleSup, SupClones, ToLaunch, PreSpawn, HoldsRuntime
<1>g. ASSUME NEW pc, SupGo(pc)
      PROVE  /\ sup'.pc = pc /\ sup'.rt = sup.rt
             /\ pc \in HoldsClone => sup'.rec = sup.rec
  BY <1>g, <1>t DEF SupGo, SupRec
<1>r. ASSUME NEW pc, NEW rec, sup' = [sup EXCEPT !.pc = pc, !.rec = rec]
      PROVE  sup'.pc = pc /\ sup'.rt = sup.rt /\ sup'.rec = rec
  BY <1>r, <1>t DEF SupRec
<1> USE DEF SupAt, SupPcs, SupClones, HoldsClone, HoldsRuntime, PreSpawn, ToLaunch
<1>1. CASE TakeGuard
  BY <1>1, <1>l, <1>h DEF TakeGuard, SupPauses
<1>2. CASE SelectNone
  BY <1>2, <1>l, <1>h DEF SelectNone, SupPauses
<1>3. CASE Mark
  <2>1. CASE mem[sup.s].status = "queued"
    <3> DEFINE rec == [mem[sup.s] EXCEPT !.status = "spawning"]
    <3>1. /\ SetMem(sup.s, rec) /\ rec.status = "spawning"
          /\ sup' = [sup EXCEPT !.pc = "mark_persist", !.rec = rec]
      BY <1>3, <2>1, <1>t DEF Mark, Rec
    <3> HIDE DEF rec
    <3>2. sup'.pc = "mark_persist" /\ sup'.rec = rec
      BY <3>1, <1>r
    <3> QED
      BY <1>3, <3>1, <3>2, <1>h DEF Mark, SupPauses, Paused
  <2>2. CASE mem[sup.s].status # "queued"
    <3>1. SupGo("stage1") /\ UNCHANGED mem
      BY <1>3, <2>2 DEF Mark
    <3>2. sup'.pc = "stage1"
      BY <3>1, <1>g
    <3> QED
      BY <1>3, <3>1, <3>2, <1>h DEF Mark, SupPauses
  <2> QED
    BY <2>1, <2>2
<1>4. CASE MarkPersist
  <2>1. \/ sup'.pc = "mark_insert" /\ sup'.rec = sup.rec
        \/ sup'.pc \notin ToLaunch \cup SupClones
    BY <1>4, <1>g, <1>l DEF MarkPersist
  <2> QED
    BY <1>4, <2>1, <1>o, <1>h DEF MarkPersist, SupPauses
<1>5. CASE MarkInsert
  <2>1. sup'.pc = "stage1"
    BY <1>5, <1>g DEF MarkInsert
  <2> QED
    BY <1>5, <2>1, <1>o, <1>h DEF MarkInsert, SupPauses
<1>6. CASE Stage1
  <2>1. sup'.pc = "stage1_persist"
    BY <1>6, <1>r DEF Stage1
  <2>2. \A s \in Sessions : InputStays(s)
    BY <1>6, <1>t DEF Stage1, InputStays, TypeOK, HostOK, HostRec
  <2> QED
    BY <1>6, <2>1, <2>2 DEF Stage1, SupPauses
<1>7. CASE StagePersist("stage1_persist", "check1")
  <2>1. sup'.pc = "check1"
    BY <1>7, <1>g DEF StagePersist
  <2> QED
    BY <1>7, <2>1, <1>h DEF StagePersist, SupPauses
<1>8. CASE Check1
  <2>1. sup'.pc \in {"fail", "stage2_persist"}
    BY <1>8, <1>g, <1>r DEF Check1
  <2> QED
    BY <1>8, <2>1, <1>h DEF Check1, SupPauses
<1>9. CASE StagePersist("stage2_persist", "spawn")
  <2>1. sup'.pc = "spawn"
    BY <1>9, <1>g DEF StagePersist
  <2> QED
    BY <1>9, <2>1, <1>h DEF StagePersist, SupPauses
<1>10. CASE Check2
  <2>1. \/ sup'.pc = "fail"
        \/ /\ sup'.pc = "replace_persist" /\ sup'.rt = sup.rt /\ UNCHANGED watch
           /\ sup'.rec = LaunchedRec(sup.s, mem[sup.s], sup.rt)
    BY <1>10, <1>g, <1>r DEF Check2
  <2> QED
    BY <1>10, <2>1, <1>h DEF Check2, SupPauses, LaunchedRec, Paused
<1>11. CASE ReplacePersist
  <2>1. \/ sup'.pc = "fail"
        \/ /\ sup'.pc = "replace_insert" /\ sup'.rt = sup.rt /\ UNCHANGED watch
           /\ sup'.rec = sup.rec
    BY <1>11, <1>g DEF ReplacePersist
  <2> QED
    BY <1>11, <2>1, <1>o, <1>h DEF ReplacePersist, SupPauses
<1>12. CASE ReplaceInsert
  <2>1. sup'.pc = "attach" /\ sup'.rt = sup.rt
    BY <1>12, <1>g DEF ReplaceInsert
  <2> QED
    BY <1>12, <2>1, <1>o, <1>h DEF ReplaceInsert, SupPauses
<1>13. CASE LaunchAttach
  <2>1. sup'.pc \notin ToLaunch \cup SupClones
    BY <1>13, <1>g, <1>l DEF LaunchAttach
  <2>2. \A s \in Sessions : InputStays(s) \/ s = sup.s
    BY <1>13, <1>t DEF LaunchAttach, AttachAndConsume, InputStays, TypeOK, HostOK
  <2> QED
    BY <1>13, <2>1, <2>2 DEF LaunchAttach, SupPauses
<1>14. CASE LaunchError
  <2>1. sup'.pc = "fail"
    BY <1>14, <1>g DEF LaunchError
  <2> QED
    BY <1>14, <2>1, <1>h DEF LaunchError, SupPauses
<1>15. CASE Fail
  <2> DEFINE rec == [mem[sup.s] EXCEPT !.status = "errored"]
  <2>1. /\ SetMem(sup.s, rec) /\ rec.status = "errored"
        /\ sup' = [sup EXCEPT !.pc = "fail_persist", !.rec = rec]
    BY <1>15, <1>t DEF Fail, Rec
  <2> HIDE DEF rec
  <2>2. sup'.pc = "fail_persist" /\ sup'.rec = rec
    BY <2>1, <1>r
  <2> QED
    BY <1>15, <2>1, <2>2, <1>h DEF Fail, SupPauses, Paused
<1>16. CASE FailPersist
  <2>1. \/ sup'.pc = "fail_insert" /\ sup'.rec = sup.rec
        \/ sup'.pc \notin ToLaunch \cup SupClones
    BY <1>16, <1>g, <1>l DEF FailPersist
  <2> QED
    BY <1>16, <2>1, <1>o, <1>h DEF FailPersist, SupPauses
<1>17. CASE FailInsert
  BY <1>17, <1>l, <1>o, <1>h DEF FailInsert, SupPauses
<1>18. CASE CancelLaunch
  BY <1>18, <1>l, <1>h DEF CancelLaunch, SupPauses
<1> QED
  BY <1>1, <1>2, <1>3, <1>4, <1>5, <1>6, <1>7, <1>8, <1>9, <1>10, <1>11, <1>12, <1>13,
     <1>14, <1>15, <1>16, <1>17, <1>18 DEF SupSteps

LEMMA SpawnPauses ==
    ASSUME Base, PausedInv, NEW r \in Runtimes, SpawnRuntime(r)
    PROVE  PausedInv'
<1> USE DEF Base, runtime, writes, boot
<1>1. /\ sup.pc = "spawn" /\ sup'.pc = "check2" /\ sup'.s = sup.s /\ sup'.rt = r
      /\ UNCHANGED <<mem, host>> /\ sup.s \in Sessions
      /\ StartProcess(r, sup.s, "launch")
  BY DEF SpawnRuntime, SupAt, TypeOK, SupOK, SupRec
<1>2. ProcGrows /\ proc'[r].s = sup.s
  BY <1>1 DEF StartProcess, ProcGrows, TypeOK, RuntimeOK
<1>3. \A s \in Sessions : mem'[s].status \in Paused => ~Attached(s)'
  BY <1>1, <1>2, AttachedBefore DEF PausedInv, InputStays
<1>4. \A x \in Groups : x[1] = r => ~watch'[x].con
  BY <1>1 DEF StartProcess, Watched, TypeOK, RuntimeOK, Started, WatchRec
<1>5. InHandRuns'
  BY <1>1, <1>2, <1>4 DEF InHandRuns
<1> QED
  BY <1>1, <1>3, <1>5 DEF PausedInv, PreSpawn, SupClones
  
\* PausedInv is inductive.
LEMMA PausedNext ==
    ASSUME Base, PausedInv, StartsAndEnds, "input" \notin Background, [Next]_vars
    PROVE  PausedInv'
<1> USE DEF Base
<1>1. CASE Select
  <2>1. PICK s \in Sessions : SelectNext(s)
    BY <1>1 DEF Select
  <2>2. /\ UNCHANGED <<mem, host, proc, watch>>
        /\ sup'.pc = "mark" /\ sup'.s = s /\ mem[s].status = "queued"
    BY <2>1 DEF SelectNext, IdleSup, runtime, Eligible
  <2> QED
    BY <2>2 DEF PausedInv, Attached, Live, Paused, SupClones, InHandRuns, HoldsRuntime
<1>2. CASE SupSteps /\ \A r \in Runtimes : ~SpawnRuntime(r)
  <2>1. SupPauses /\ HandStays
    BY <1>2, SupervisorPauses, SupervisorDoes DEF SupDoes
  <2>2. sup.pc \in ToLaunch => sup.s \in Sessions
    BY BusyHolds DEF ToLaunch, PreSpawn, HoldsRuntime, Busy
  <2>3. sup'.pc \in ToLaunch => sup'.s = sup.s /\ sup.pc \in ToLaunch
    BY <2>1 DEF SupPauses, HandStays, Busy, ToLaunch, PreSpawn, HoldsRuntime
  <2>4. /\ \A s \in Sessions : mem'[s].status \in Paused => mem[s].status \in Paused
        /\ sup'.pc \in ToLaunch => mem'[sup'.s].status \notin Paused
    <3>1. CASE mem' = mem
      BY <3>1, <2>3 DEF PausedInv, ToLaunch
    <3>2. CASE \E rec : SetMem(sup.s, rec) /\ rec.status \notin Paused
      <4>1. \A s \in Sessions : mem'[s].status \notin Paused \/ mem'[s] = mem[s]
        BY <3>2 DEF SetMem, TypeOK, StoreOK
      <4>2. sup.pc \in ToLaunch => mem'[sup.s].status \notin Paused
        BY <4>1, <2>2 DEF PausedInv, ToLaunch
      <4> QED
        BY <4>1, <4>2, <2>3
    <3> QED
      BY <2>1, <3>1, <3>2 DEF SupPauses
  <2>5. ASSUME NEW s \in Sessions, mem'[s].status \in Paused PROVE ~Attached(s)'
    <3>1. mem[s].status \in Paused /\ ~Attached(s)
      BY <2>4, <2>5 DEF PausedInv
    <3>2. ~(sup.pc \in ToLaunch /\ s = sup.s)
      BY <3>1 DEF PausedInv, ToLaunch
    <3>3. InputStays(s) /\ proc' = proc
      BY <2>1, <3>2 DEF SupPauses
    <3> QED
      BY <3>1, <3>3, AttachedBefore DEF ProcGrows
  <2>6. InHandRuns'
    BY <2>1 DEF SupPauses, PausedInv, InHandRuns, HandStays, Busy, HoldsRuntime
  <2> QED
    BY <2>1, <2>4, <2>5, <2>6 DEF PausedInv, SupPauses, ToLaunch
<1>3. ASSUME NEW r \in Runtimes, SpawnRuntime(r) PROVE PausedInv'
  BY <1>3, SpawnPauses
<1>4. ASSUME NEW c \in Clients, Progress(c) \/ Cancel(c) \/ Request(c) PROVE PausedInv'
  BY <1>4, CommandPauses
<1>5. CASE Events
  BY <1>5, EventPauses
<1>6. CASE UNCHANGED vars
  BY <1>6 DEF vars, PausedInv, Attached, Live, InHandRuns
<1>7. ~Crash /\ ~Boot
  BY DEF Crash, Boot, StartsAndEnds, Plain, BootLoad, BootLaunched, BootArchived, BootServe,
     BootArchive, BootReattach, BootExited, BootSkip
<1> QED
  BY <1>1, <1>2, <1>3, <1>4, <1>5, <1>6, <1>7 DEF Next, Supervisor, SupSteps, Select

-----------------------------------------------------------------------------
(* The results.                                                             *)

LEMMA BaseInit == Init => Base /\ DistinctInv /\ PausedInv /\ (Held = {})
<1> SUFFICES ASSUME Init PROVE Base /\ DistinctInv /\ PausedInv /\ (Held = {})
  OBVIOUS
<1>1. TypeOK /\ LaunchInv /\ KillInv
  BY InitType, LaunchInvInit, KillInvInit
<1>2. /\ \A s \in Sessions : mem[s].status = "absent" /\ mem[s].branch = 0
      /\ sup.pc = "idle" /\ \A c \in Clients : cmd[c].pc = "idle"
      /\ \A r \in Runtimes : proc[r].st = "free"
      /\ phase = "serving" /\ crashes = 0
  BY DEF Init, NoRec, IdleSup, IdleCmd, NoProc
<1>3. Plain /\ Clones
  BY <1>2 DEF Plain, Clones, SupClone, CmdClone, Started, SupClones, EndClones, Enqueues
<1>4. \A s \in Sessions : ~Launching(s) /\ ~Occupies(s)
  BY <1>2 DEF Launching, Occupies
<1>5. DistinctInv /\ Held = {}
  BY <1>2, <1>4 DEF DistinctInv, Held, InHand, Busy
<1>6. PausedInv
  BY <1>2 DEF PausedInv, Paused, PreSpawn, SupClones, InHandRuns, HoldsRuntime
<1> QED
  BY <1>1, <1>3, <1>5, <1>6 DEF Base

LEMMA DistinctNext ==
    ASSUME Base, StartsAndEnds, DistinctInv, [Next]_vars
    PROVE  DistinctInv'
BY StepIsCalm, DistinctKept, SelectDistinct DEF Base, Select

LEMMA LimitNext ==
    ASSUME Base, StartsAndEnds, LimitInv, [Next]_vars,
           "output" \notin Background \/ PausedInv
    PROVE  LimitInv'
<1>1. CASE Select
  BY <1>1, SelectLimits DEF Base, Select
<1>2. CASE Calm /\ NoneResumes
  BY <1>2, LimitKept DEF Base
<1>3. CASE Calm /\ PausedInv
  <2>1. NoneResumes
    BY <1>3 DEF NoneResumes, PausedInv
  <2> QED
    BY <1>3, <2>1, LimitKept DEF Base
<1> QED
  BY <1>1, <1>2, <1>3, StepIsCalm

\* As long as sessions only start and end, no two of them are ever launching
\* or live for the same project, prompt, agent and branch, for any number of
\* sessions, clients and limits and whatever fails: that the supervisor looks
\* at the fingerprints once, when it selects, is enough.
THEOREM LaunchesAreDistinct == StartsAndEnds => (Spec => []NoDuplicateLaunch)
<1> SUFFICES ASSUME StartsAndEnds PROVE Spec => []NoDuplicateLaunch
  OBVIOUS
<1>1. Init => Base /\ DistinctInv
  BY BaseInit
<1>2. Base /\ DistinctInv /\ [Next]_vars => (Base /\ DistinctInv)'
  BY StepIsCalm, DistinctNext
<1>3. Base /\ DistinctInv => NoDuplicateLaunch
  <2> SUFFICES ASSUME Clones, DistinctInv, NEW s \in Sessions, NEW t \in Sessions,
                      Launching(s), Launching(t), Fingerprint(s) = Fingerprint(t), s # t
               PROVE  FALSE
    BY DEF Base, NoDuplicateLaunch
  <2>1. mem[s].key = mem[t].key /\ mem[s].branch = mem[t].branch
    BY DEF Fingerprint
  <2>2. mem[s].branch \in {0, s} /\ mem[t].branch \in {0, t} /\ s # 0 /\ t # 0
    BY SessionsAssumption DEF Clones
  <2> QED
    BY <2>1, <2>2 DEF DistinctInv
<1> QED
  BY <1>1, <1>2, <1>3, PTL DEF Spec

\* As long as, besides, no paused agent goes back to work, the sessions that
\* are spawning or at work never outnumber the limits, neither all together
\* nor in one project, although the supervisor counts them only once per
\* launch, and whatever exits, is killed, times out or fails meanwhile.
THEOREM LimitsAreKept == StartsAndEnds /\ StaysPaused => (Spec => []WithinLimits)
<1> SUFFICES ASSUME StartsAndEnds, StaysPaused PROVE Spec => []WithinLimits
  OBVIOUS
<1> DEFINE Inv == /\ Base /\ LimitInv
                  /\ "output" \notin Background \/ PausedInv
<1>1. Init => Inv
  <2> SUFFICES ASSUME Init PROVE Inv
    OBVIOUS
  <2>1. Held = {} /\ \A p : HeldOf(p) = {}
    BY BaseInit DEF HeldOf
  <2>2. IsFiniteSet({}) /\ Cardinality({}) = 0
    BY FS_EmptySet
  <2>3. LimitInv
    BY <2>1, <2>2, LimitsAssumption DEF LimitInv
  <2> QED
    BY <2>3, BaseInit
<1>2. Inv /\ [Next]_vars => Inv'
  <2> SUFFICES ASSUME Inv, [Next]_vars PROVE Inv'
    OBVIOUS
  <2>1. Base' /\ LimitInv'
    BY StepIsCalm, LimitNext
  <2>2. CASE "output" \in Background
    BY <2>1, <2>2, PausedNext DEF StaysPaused
  <2> QED
    BY <2>1, <2>2
<1>3. Inv => WithinLimits
  <2> SUFFICES ASSUME Inv PROVE WithinLimits
    OBVIOUS
  <2>1. OccupyingIn(Projects) \subseteq Held /\ \A p \in Projects : OccupyingIn({p}) \subseteq HeldOf(p)
    BY DEF OccupyingIn, Held, HeldOf
  <2>2. IsFiniteSet(Held) /\ \A p \in Projects : IsFiniteSet(HeldOf(p))
    BY FS_Subset DEF LimitInv, HeldOf
  <2>3. ASSUME NEW S, NEW T, IsFiniteSet(T), S \subseteq T, NEW n \in Nat, Cardinality(T) <= n
        PROVE  Cardinality(S) <= n
    <3>1. /\ IsFiniteSet(S) /\ Cardinality(S) <= Cardinality(T)
          /\ Cardinality(S) \in Nat /\ Cardinality(T) \in Nat
      BY <2>3, FS_Subset, FS_CardinalityType
    <3> QED
      BY <2>3, <3>1
  <2>4. Cardinality(OccupyingIn(Projects)) <= GlobalLimit
    BY <2>1, <2>2, <2>3, LimitsAssumption DEF LimitInv
  <2>5. \A p \in Projects : Cardinality(OccupyingIn({p})) <= ProjectLimit
    BY <2>1, <2>2, <2>3, LimitsAssumption DEF LimitInv
  <2> QED
    BY <2>4, <2>5 DEF WithinLimits
<1> HIDE DEF Inv
<1> QED
  BY <1>1, <1>2, <1>3, PTL DEF Spec

-----------------------------------------------------------------------------
(* No launch is left behind.                                                *)

SpawnPcs == {"mark_persist", "mark_insert", "stage1", "stage1_persist", "check1",
             "stage2_persist", "spawn", "check2", "replace_persist", "replace_insert", "fail"}
PastSpawning == {"replace_persist", "replace_insert", "fail_persist", "fail_insert"}
CmdInserts == {"q_persist", "q_insert", "t_persist", "t_insert", "r_persist", "r_insert"}
NotSpawning(rec) == rec.status # "spawning"

\* The session that spawns is the one in hand, and no clone that is still to be
\* inserted says that another does.
SpawnInv ==
    /\ \A s \in Sessions : mem[s].status = "spawning" => sup.pc \in SpawnPcs /\ sup.s = s
    /\ sup.pc \in PastSpawning => NotSpawning(sup.rec)
    /\ \A c \in Clients : cmd[c].pc \in CmdInserts => NotSpawning(cmd[c].rec)

NoneSpawns ==
    \A s \in Sessions : mem'[s].status = "spawning" => mem[s].status = "spawning"
CmdInsertsStay ==
    \A c \in Clients : cmd'[c].pc \in CmdInserts =>
        \/ cmd[c].pc \in CmdInserts /\ cmd'[c].rec = cmd[c].rec
        \/ NotSpawning(cmd'[c].rec)

\* A command keeps SpawnInv.
LEMMA CommandSpawns ==
    ASSUME TypeOK, SpawnInv, NEW c \in Clients, Progress(c) \/ Cancel(c) \/ Request(c)
    PROVE  SpawnInv'
<1> USE DEF runtime, writes, boot
<1>t. /\ cmd \in [Clients -> CmdRec] /\ mem \in [Sessions -> Rec]
      /\ cmd[c].pc # "idle" => cmd[c].s \in Sessions
      /\ cmd[c].pc \in CmdInserts => NotSpawning(cmd[c].rec)
  BY DEF TypeOK, CmdOK, StoreOK, SpawnInv
<1>k. ASSUME UNCHANGED sup, NoneSpawns, CmdInsertsStay PROVE SpawnInv'
  BY <1>k DEF SpawnInv, NoneSpawns, CmdInsertsStay
<1>u. UNCHANGED mem => NoneSpawns
  BY DEF NoneSpawns
<1>c. /\ UNCHANGED cmd => CmdInsertsStay
      /\ Finish(c) => CmdInsertsStay
  BY <1>t, IdleType DEF CmdInsertsStay, Finish, CmdInserts, TypeOK
<1>g. ASSUME NEW pc, Goto(c, pc), pc \in CmdInserts => cmd[c].pc \in CmdInserts
      PROVE  CmdInsertsStay
  BY <1>g, <1>t DEF Goto, CmdInsertsStay, CmdRec
<1>h. ASSUME NEW pc, NEW rec, GotoWith(c, pc, rec), NotSpawning(rec) \/ pc \notin CmdInserts
      PROVE  CmdInsertsStay
  BY <1>h, <1>t DEF GotoWith, CmdInsertsStay, CmdRec
<1>b. ASSUME NEW op, NEW pc, NEW s, NEW r, NEW rec, Begin(c, op, pc, s, r, rec),
             NotSpawning(rec) \/ pc \notin CmdInserts
      PROVE  CmdInsertsStay
  BY <1>b, <1>t DEF Begin, CmdInsertsStay
<1>m. ASSUME NEW s \in Sessions, NEW rec, SetMem(s, rec),
             NotSpawning(rec) \/ rec.status = mem[s].status
      PROVE  NoneSpawns
  BY <1>m, <1>t DEF SetMem, NoneSpawns, NotSpawning
<1>x. ASSUME NEW op, NEW s \in Sessions, TerminateStart(c, op, s)
      PROVE  NoneSpawns /\ CmdInsertsStay
  <2>1. PICK r, rec : /\ SetMem(s, rec) /\ rec.status = mem[s].status
                      /\ Begin(c, op, "t_mark", s, r, rec)
    BY <1>x, <1>t DEF TerminateStart, Rec
  <2> QED
    BY <2>1, <1>m, <1>b DEF CmdInserts
<1>e. ASSUME NEW s \in Sessions, NEW event, SetMem(s, AfterExit(mem[s], event))
      PROVE  NoneSpawns
  <2>1. \/ NotSpawning(AfterExit(mem[s], event))
        \/ AfterExit(mem[s], event).status = mem[s].status
    BY <1>t DEF AfterExit, Ended, Terminated, NotSpawning, Rec
  <2> QED
    BY <1>e, <2>1, <1>m
<1>i. cmd[c].pc \in CmdInserts /\ SetMem(cmd[c].s, cmd[c].rec) => NoneSpawns
  BY <1>t, <1>m DEF CmdInserts
<1> USE DEF CmdAt, CmdInserts
<1>1. CASE EnqueuePersist(c)
  BY <1>1, <1>k, <1>u, <1>c, <1>g DEF EnqueuePersist
<1>2. CASE EnqueueInsert(c)
  BY <1>2, <1>k, <1>c, <1>i DEF EnqueueInsert
<1>3. CASE TermMark(c)
  BY <1>3, <1>k, <1>u, <1>c, <1>g DEF TermMark
<1>4. CASE TermSignal(c)
  BY <1>4, <1>k, <1>u, <1>g DEF TermSignal
<1>5. CASE TermReap(c)
  BY <1>5, <1>k, <1>u, <1>c, <1>g DEF TermReap
<1>6. CASE TermApply(c)
  <2> DEFINE rec == Terminated(mem[cmd[c].s], TermAction(cmd[c].op))
  <2>1. cmd[c].s \in Sessions /\ NotSpawning(rec)
    BY <1>6, <1>t DEF TermApply, Terminated, NotSpawning, Rec
  <2> HIDE DEF rec
  <2>2. NoneSpawns /\ CmdInsertsStay
    BY <1>6, <2>1, <1>u, <1>c, <1>h, <1>m DEF TermApply, rec
  <2> QED
    BY <1>6, <2>2, <1>k DEF TermApply
<1>7. CASE TermPersist(c)
  BY <1>7, <1>k, <1>u, <1>c, <1>g DEF TermPersist
<1>8. CASE TermInsert(c)
  BY <1>8, <1>k, <1>c, <1>i DEF TermInsert
<1>9. CASE EnsureAttach(c)
  <2> DEFINE rec == Recovered(mem[cmd[c].s])
  <2>1. cmd[c].s \in Sessions /\ (NotSpawning(rec) \/ rec.status = mem[cmd[c].s].status)
    BY <1>9, <1>t DEF EnsureAttach, Recovered, NotSpawning, Rec
  <2> HIDE DEF rec
  <2>2. NoneSpawns /\ CmdInsertsStay
    BY <1>9, <2>1, <1>u, <1>c, <1>g, <1>h, <1>m DEF EnsureAttach, rec
  <2> QED
    BY <1>9, <2>2, <1>k DEF EnsureAttach
<1>10. CASE EnsurePersist(c)
  BY <1>10, <1>k, <1>u, <1>c, <1>g DEF EnsurePersist
<1>11. CASE SendApply(c)
  <2> DEFINE rec == [mem[cmd[c].s] EXCEPT !.status = "working"]
  <2>1. cmd[c].s \in Sessions /\ NotSpawning(rec)
    BY <1>11, <1>t DEF SendApply, NotSpawning, Rec
  <2> HIDE DEF rec
  <2>2. NoneSpawns /\ CmdInsertsStay
    BY <1>11, <2>1, <1>h, <1>m DEF SendApply, rec
  <2> QED
    BY <1>11, <2>2, <1>k DEF SendApply
<1>12. CASE SendPersist(c)
  BY <1>12, <1>k, <1>u, <1>c DEF SendPersist
<1>13. ASSUME NEW r \in Runtimes, ResumeSpawn(c, r) PROVE SpawnInv'
  <2>1. CmdInsertsStay
    BY <1>13, <1>t DEF ResumeSpawn, CmdInsertsStay, CmdRec
  <2> QED
    BY <1>13, <2>1, <1>k, <1>u DEF ResumeSpawn
<1>14. CASE ResumeError(c)
  BY <1>14, <1>k, <1>u, <1>c DEF ResumeError
<1>15. CASE ResumeApply(c)
  <2> DEFINE rec == [mem[cmd[c].s] EXCEPT !.status = "working", !.pid = cmd[c].rt]
  <2>1. cmd[c].s \in Sessions /\ NotSpawning(rec)
    BY <1>15, <1>t DEF ResumeApply, NotSpawning, Rec
  <2> HIDE DEF rec
  <2>2. NoneSpawns /\ CmdInsertsStay
    BY <1>15, <2>1, <1>u, <1>c, <1>h, <1>m DEF ResumeApply, rec
  <2> QED
    BY <1>15, <2>2, <1>k DEF ResumeApply
<1>16. CASE ResumePersist(c)
  BY <1>16, <1>k, <1>u, <1>c, <1>g DEF ResumePersist
<1>17. CASE ResumeInsert(c)
  BY <1>17, <1>k, <1>g, <1>i DEF ResumeInsert
<1>18. CASE ResumeAttach(c)
  BY <1>18, <1>k, <1>u, <1>c, <1>g DEF ResumeAttach
<1>19. CASE RestorePersist(c)
  BY <1>19, <1>k, <1>u, <1>g DEF RestorePersist
<1>20. ASSUME NEW s \in Sessions, RestoreEnqueue(c, s) PROVE SpawnInv'
  <2>1. CmdInsertsStay
    BY <1>20, <1>t, IdleType
    DEF RestoreEnqueue, CmdInsertsStay, CmdRec, QueuedRec, NoRec, NotSpawning, TypeOK
  <2> QED
    BY <1>20, <2>1, <1>k, <1>u DEF RestoreEnqueue
<1>21. CASE Cancel(c)
  BY <1>21, <1>k, <1>u, <1>c DEF Cancel
<1>22. ASSUME NEW s \in Sessions, NEW key \in Keys, Enqueue(c, s, key) PROVE SpawnInv'
  <2>1. NotSpawning(QueuedRec(key, 0))
    BY DEF NotSpawning, QueuedRec, NoRec
  <2> QED
    BY <1>22, <2>1, <1>k, <1>u, <1>b DEF Enqueue
<1>23. ASSUME NEW s \in Sessions, NEW op \in TermOps, Terminate(c, op, s) PROVE SpawnInv'
  BY <1>23, <1>x, <1>k DEF Terminate
<1>24. ASSUME NEW r \in Runtimes, Timeout(c, r) PROVE SpawnInv'
  <2>1. proc[r].s \in Sessions
    BY <1>24 DEF Timeout, TypeOK, RuntimeOK, Started
  <2> QED
    BY <1>24, <2>1, <1>x, <1>k DEF Timeout
<1>25. ASSUME NEW s \in Sessions, SendLive(c, s) \/ SendRecover(c, s) PROVE SpawnInv'
  <2>1. /\ UNCHANGED <<sup, mem>>
        /\ \E pc \in {"s_apply", "e_attach"}, r \in Runtimes \cup {NoRuntime} :
              Begin(c, "send", pc, s, r, NoRec)
    BY <1>25, <1>t DEF SendLive, SendRecover, Attached, Live, TypeOK, HostOK, HostRec, Rec
  <2>2. CmdInsertsStay
    BY <2>1, <1>b
  <2> QED
    BY <2>1, <2>2, <1>k, <1>u
<1>26. ASSUME NEW s \in Sessions, SendExited(c, s) PROVE SpawnInv'
  <2>1. NoneSpawns
    BY <1>26, <1>e DEF SendExited
  <2>2. CmdInsertsStay
    BY <1>26, <1>b, <1>c DEF SendExited
  <2> QED
    BY <1>26, <2>1, <2>2, <1>k DEF SendExited
<1>27. ASSUME NEW s \in Sessions, RestoreStart(c, s) PROVE SpawnInv'
  <2> DEFINE rec == [mem[s] EXCEPT !.status = "restored"]
  <2>1. NotSpawning(rec)
    BY <1>t DEF NotSpawning, Rec
  <2> HIDE DEF rec
  <2>2. NoneSpawns /\ CmdInsertsStay
    BY <1>27, <2>1, <1>u, <1>b, <1>m DEF RestoreStart, rec
  <2> QED
    BY <1>27, <2>2, <1>k DEF RestoreStart
<1> QED
  BY <1>1, <1>2, <1>3, <1>4, <1>5, <1>6, <1>7, <1>8, <1>9, <1>10, <1>11, <1>12, <1>13, <1>14,
     <1>15, <1>16, <1>17, <1>18, <1>19, <1>20, <1>21, <1>22, <1>23, <1>24, <1>25, <1>26, <1>27
  DEF Progress, Request

\* So does an event.
LEMMA EventSpawns ==
    ASSUME TypeOK, SpawnInv, Events
    PROVE  SpawnInv'
<1> USE DEF runtime, writes, boot
<1>t. mem \in [Sessions -> Rec]
  BY DEF TypeOK, StoreOK
<1>w. ASSUME NEW x \in Groups, watch[x].con PROVE proc[x[1]].s \in Sessions
  BY <1>w DEF TypeOK, RuntimeOK, Groups, Started
<1>k. ASSUME UNCHANGED <<sup, cmd>>, NoneSpawns PROVE SpawnInv'
  BY <1>k DEF SpawnInv, NoneSpawns
<1>u. UNCHANGED mem => NoneSpawns
  BY DEF NoneSpawns
<1>m. ASSUME NEW s \in Sessions, NEW rec, SetMem(s, rec),
             NotSpawning(rec) \/ rec.status = mem[s].status
      PROVE  NoneSpawns
  BY <1>m, <1>t DEF SetMem, NoneSpawns, NotSpawning
<1>1. ASSUME NEW x \in Groups, Output(x) \/ AsksInput(x) PROVE SpawnInv'
  <2>1. PICK s \in Sessions : s = proc[x[1]].s
    BY <1>1, <1>w DEF Output, AsksInput
  <2>2. PICK v \in {"working", "needs_input"} :
           SetMem(s, [mem[s] EXCEPT !.status = IF host[s].there THEN v ELSE @])
    BY <1>1, <2>1 DEF Output, AsksInput
  <2>3. \A w : [mem[s] EXCEPT !.status = w].status = w
    BY <1>t DEF Rec
  <2>4. NoneSpawns
    BY <2>2, <2>3, <1>m DEF NotSpawning
  <2> QED
    BY <1>1, <2>4, <1>k DEF Output, AsksInput
<1>2. ASSUME NEW x \in Groups, Consume(x) PROVE SpawnInv'
  <2>1. PICK s \in Sessions : s = proc[x[1]].s
    BY <1>2, <1>w DEF Consume
  <2>2. \/ NotSpawning(AfterExit(mem[s], watch[x].evt))
        \/ AfterExit(mem[s], watch[x].evt).status = mem[s].status
    BY <1>t DEF AfterExit, Ended, Terminated, NotSpawning, Rec
  <2>3. NoneSpawns
    BY <1>2, <2>1, <2>2, <1>m DEF Consume
  <2> QED
    BY <1>2, <2>3, <1>k DEF Consume
<1>3. ASSUME NEW x \in Groups, MonitorDetach(x) PROVE SpawnInv'
  BY <1>3, <1>k, <1>u DEF MonitorDetach
<1>4. ASSUME NEW r \in Runtimes, Exit(r) \/ MonitorKills(r) PROVE SpawnInv'
  BY <1>4, <1>k, <1>u DEF Exit, MonitorKills, Dies
<1>5. CASE FlushDrain
  BY <1>5, <1>k, <1>u DEF FlushDrain
<1>6. ASSUME NEW s \in Sessions, FlushWrite(s) PROVE SpawnInv'
  BY <1>6, <1>k, <1>u DEF FlushWrite
<1> QED
  BY <1>1, <1>2, <1>3, <1>4, <1>5, <1>6 DEF Events

\* A start-up shows no session as spawning.
LEMMA BootSpawns ==
    ASSUME TypeOK, SpawnInv, Crash \/ Boot
    PROVE  SpawnInv'
<1> USE DEF runtime, writes, boot
<1>t. mem \in [Sessions -> Rec] /\ disk \in [Sessions -> Rec]
  BY DEF TypeOK, StoreOK
<1>k. ASSUME UNCHANGED <<sup, cmd>>, NoneSpawns PROVE SpawnInv'
  BY <1>k DEF SpawnInv, NoneSpawns
<1>u. UNCHANGED mem => NoneSpawns
  BY DEF NoneSpawns
<1>m. ASSUME NEW s \in Sessions, NEW rec, SetMem(s, rec),
             NotSpawning(rec) \/ rec.status = mem[s].status
      PROVE  NoneSpawns
  BY <1>m, <1>t DEF SetMem, NoneSpawns, NotSpawning
<1>1. CASE Crash
  <2>1. /\ \A s \in Sessions : mem'[s].status = "absent"
        /\ sup'.pc = "idle" /\ \A c \in Clients : cmd'[c].pc = "idle"
    BY <1>1, IdleType DEF Crash, NoRec, IdleSup, TypeOK
  <2> QED
    BY <2>1 DEF SpawnInv, PastSpawning, CmdInserts
<1>2. CASE BootLoad
  <2>1. \A s \in Sessions : mem'[s].status # "spawning"
    <3> SUFFICES ASSUME NEW s \in Sessions PROVE Normalized(disk[s]).status # "spawning"
      BY <1>2 DEF BootLoad
    <3> QED
      BY <1>t DEF Normalized, Rec, Status, Terminal
  <2> QED
    BY <1>2, <2>1 DEF BootLoad, SpawnInv
<1>3. CASE BootLaunched \/ BootArchived \/ BootServe
  BY <1>3, <1>k, <1>u DEF BootLaunched, BootArchived, BootServe
<1>4. ASSUME NEW s \in Sessions, BootArchive(s) PROVE SpawnInv'
  <2> DEFINE rec == [mem[s] EXCEPT !.status = "archived", !.pid = NoRuntime]
  <2>1. NotSpawning(rec)
    BY <1>t DEF NotSpawning, Rec
  <2> HIDE DEF rec
  <2> QED
    BY <1>4, <2>1, <1>k, <1>m DEF BootArchive, rec
<1>5. ASSUME NEW s \in Sessions, BootReattach(s) PROVE SpawnInv'
  <2>1. NotSpawning(Recovered(mem[s])) \/ Recovered(mem[s]).status = mem[s].status
    BY <1>t DEF Recovered, NotSpawning, Rec
  <2>2. NoneSpawns
    BY <1>5, <2>1, <1>m, <1>u DEF BootReattach
  <2> QED
    BY <1>5, <2>2, <1>k DEF BootReattach
<1>6. ASSUME NEW s \in Sessions, BootExited(s) PROVE SpawnInv'
  <2>1. \/ NotSpawning(AfterExit(mem[s], "completed"))
        \/ AfterExit(mem[s], "completed").status = mem[s].status
    BY <1>t DEF AfterExit, Ended, Terminated, NotSpawning, Rec
  <2>2. NoneSpawns
    BY <1>6, <2>1, <1>m DEF BootExited
  <2> QED
    BY <1>6, <2>2, <1>k DEF BootExited
<1>7. ASSUME NEW s \in Sessions, BootSkip(s) PROVE SpawnInv'
  BY <1>7, <1>k, <1>u DEF BootSkip
<1> QED
  BY <1>1, <1>2, <1>3, <1>4, <1>5, <1>6, <1>7 DEF Boot

\* The supervisor keeps it, unless it is dropped or a file cannot be written.
LEMMA SupervisorSpawns ==
    ASSUME TypeOK, SpawnInv, "cancel" \notin Faults, "disk" \notin Faults,
           Supervisor \/ CancelLaunch
    PROVE  SpawnInv'
<1> USE DEF runtime, writes, boot
<1>t. /\ sup \in SupRec /\ (sup.pc \in SupPcs \ {"idle", "select"} => sup.s \in Sessions)
      /\ mem \in [Sessions -> Rec]
  BY DEF TypeOK, SupOK, StoreOK
<1>c. /\ UNCHANGED cmd /\ ~CancelLaunch /\ ~DiskFails
  BY DEF Supervisor, CancelLaunch, DiskFails, TakeGuard, SelectNone, Mark, MarkPersist,
     MarkInsert, Stage1, SelectNext, StagePersist, Check1, SpawnRuntime, Check2, ReplacePersist,
     ReplaceInsert, LaunchAttach, LaunchError, Fail, FailPersist, FailInsert
<1>o. /\ sup.pc \in PastSpawning => NotSpawning(sup.rec)
      /\ sup.pc \notin SpawnPcs => \A s \in Sessions : mem[s].status # "spawning"
      /\ \A s \in Sessions : mem[s].status = "spawning" => sup.s = s
  BY DEF SpawnInv
\* It does not move away from a session that still spawns.
<1>k. ASSUME (sup'.pc \in SpawnPcs /\ sup'.s = sup.s) \/ sup.pc \notin SpawnPcs, UNCHANGED mem,
             sup'.pc \in PastSpawning => NotSpawning(sup'.rec)
      PROVE  SpawnInv'
  BY <1>k, <1>c DEF SpawnInv
<1>m. ASSUME NEW rec, SetMem(sup.s, rec), sup'.s = sup.s \/ NotSpawning(rec), sup.s \in Sessions,
             NotSpawning(rec) \/ sup'.pc \in SpawnPcs,
             sup'.pc \in PastSpawning => NotSpawning(sup'.rec)
      PROVE  SpawnInv'
  <2>1. mem'[sup.s] = rec /\ \A s \in Sessions : s # sup.s => mem'[s].status # "spawning"
    BY <1>m, <1>t, <1>o DEF SetMem
  <2> QED
    BY <1>m, <1>c, <2>1 DEF SpawnInv, NotSpawning
<1>g. ASSUME NEW pc, SupGo(pc)
      PROVE  /\ sup'.pc = pc /\ sup'.s = sup.s
             /\ pc \in HoldsClone => sup'.rec = sup.rec
  BY <1>g, <1>t DEF SupGo, SupRec
<1>r. ASSUME NEW pc, NEW rec, sup' = [sup EXCEPT !.pc = pc, !.rec = rec]
      PROVE  sup'.pc = pc /\ sup'.s = sup.s /\ sup'.rec = rec
  BY <1>r, <1>t DEF SupRec
<1>l. SupLoop \/ sup' = IdleSup => sup'.pc \in {"idle", "select"}
  BY DEF SupLoop, IdleSup
<1> USE DEF SupAt, SupPcs, SpawnPcs, PastSpawning, HoldsClone
<1>1. CASE TakeGuard \/ SelectNone
  BY <1>1, <1>k, <1>l DEF TakeGuard, SelectNone
<1>2. ASSUME NEW s \in Sessions, SelectNext(s) PROVE SpawnInv'
  <2>1. sup'.pc = "mark" /\ sup.pc = "select" /\ UNCHANGED mem
    BY <1>2 DEF SelectNext, IdleSup
  <2> QED
    BY <2>1, <1>k
<1>3. CASE Mark
  <2>1. CASE mem[sup.s].status = "queued"
    <3> DEFINE rec == [mem[sup.s] EXCEPT !.status = "spawning"]
    <3>1. SetMem(sup.s, rec) /\ sup' = [sup EXCEPT !.pc = "mark_persist", !.rec = rec]
      BY <1>3, <2>1 DEF Mark
    <3> HIDE DEF rec
    <3>2. sup'.pc = "mark_persist" /\ sup'.s = sup.s
      BY <3>1, <1>r
    <3> QED
      BY <1>3, <3>1, <3>2, <1>m, <1>t DEF Mark
  <2>2. CASE mem[sup.s].status # "queued"
    BY <1>3, <2>2, <1>g, <1>k DEF Mark
  <2> QED
    BY <2>1, <2>2
<1>4. CASE MarkPersist
  BY <1>4, <1>g, <1>k, <1>c DEF MarkPersist
<1>5. CASE MarkInsert
  BY <1>5, <1>g, <1>m, <1>t DEF MarkInsert
<1>6. CASE Stage1
  BY <1>6, <1>r, <1>k DEF Stage1
<1>7. CASE StagePersist("stage1_persist", "check1")
  BY <1>7, <1>g, <1>k DEF StagePersist
<1>8. CASE Check1
  <2>1. sup'.pc \in {"fail", "stage2_persist"} /\ sup'.s = sup.s
    BY <1>8, <1>g, <1>r DEF Check1
  <2> QED
    BY <1>8, <2>1, <1>k DEF Check1
<1>9. CASE StagePersist("stage2_persist", "spawn")
  BY <1>9, <1>g, <1>k DEF StagePersist
<1>10. ASSUME NEW r \in Runtimes, SpawnRuntime(r) PROVE SpawnInv'
  <2>1. sup'.pc = "check2" /\ sup'.s = sup.s
    BY <1>10, <1>t DEF SpawnRuntime, SupRec
  <2> QED
    BY <1>10, <2>1, <1>k DEF SpawnRuntime
<1>11. CASE Check2
  <2> DEFINE rec == LaunchedRec(sup.s, mem[sup.s], sup.rt)
  <2>1. CASE SupGo("fail")
    BY <1>11, <2>1, <1>g, <1>k DEF Check2
  <2>2. CASE sup' = [sup EXCEPT !.pc = "replace_persist", !.rec = rec]
    <3>1. NotSpawning(rec)
      BY <1>t DEF LaunchedRec, NotSpawning, Rec
    <3> HIDE DEF rec
    <3>2. sup'.pc = "replace_persist" /\ sup'.s = sup.s /\ sup'.rec = rec
      BY <2>2, <1>r
    <3> QED
      BY <1>11, <3>1, <3>2, <1>k DEF Check2
  <2> QED
    BY <1>11, <2>1, <2>2 DEF Check2
<1>12. CASE ReplacePersist
  BY <1>12, <1>g, <1>k, <1>o, <1>c DEF ReplacePersist
<1>13. CASE ReplaceInsert
  BY <1>13, <1>g, <1>m, <1>o, <1>t DEF ReplaceInsert
<1>14. CASE LaunchAttach
  <2>1. sup'.pc \in {"select", "fail"}
    BY <1>14, <1>g, <1>l DEF LaunchAttach, SupLoop, IdleSup
  <2> QED
    BY <1>14, <2>1, <1>k DEF LaunchAttach
<1>15. CASE LaunchError
  BY <1>15, <1>g, <1>k DEF LaunchError
<1>16. CASE Fail
  <2> DEFINE rec == [mem[sup.s] EXCEPT !.status = "errored"]
  <2>1. /\ SetMem(sup.s, rec) /\ NotSpawning(rec)
        /\ sup' = [sup EXCEPT !.pc = "fail_persist", !.rec = rec]
    BY <1>16, <1>t DEF Fail, Rec, NotSpawning
  <2> HIDE DEF rec
  <2>2. sup'.pc = "fail_persist" /\ sup'.rec = rec /\ sup'.s = sup.s
    BY <2>1, <1>r
  <2> QED
    BY <1>16, <2>1, <2>2, <1>m, <1>t DEF Fail
<1>17. CASE FailPersist
  BY <1>17, <1>g, <1>k, <1>o, <1>c DEF FailPersist
<1>18. CASE FailInsert
  <2>1. sup'.pc = "select"
    BY <1>18 DEF FailInsert, SupLoop, IdleSup
  <2> QED
    BY <1>18, <2>1, <1>m, <1>o, <1>t DEF FailInsert
<1> QED
  BY <1>1, <1>2, <1>3, <1>4, <1>5, <1>6, <1>7, <1>8, <1>9, <1>10, <1>11, <1>12, <1>13, <1>14,
     <1>15, <1>16, <1>17, <1>18, <1>c DEF Supervisor

\* Unless the request that runs the loop is dropped or a file cannot be
\* written, at most one session is ever shown as being launched, the one the
\* supervisor has in hand: whatever else fails, and across messages, resumes,
\* restores and restarts, no launch is left behind half-way.
THEOREM NoLaunchLeftBehind ==
    "cancel" \notin Faults /\ "disk" \notin Faults => (Spec => []OneSpawning)
<1> SUFFICES ASSUME "cancel" \notin Faults, "disk" \notin Faults PROVE Spec => []OneSpawning
  OBVIOUS
<1>1. Init => TypeOK /\ SpawnInv
  <2> SUFFICES ASSUME Init PROVE TypeOK /\ SpawnInv
    OBVIOUS
  <2>1. /\ \A s \in Sessions : mem[s].status = "absent"
        /\ sup.pc = "idle" /\ \A c \in Clients : cmd[c].pc = "idle"
    BY DEF Init, NoRec, IdleSup, IdleCmd
  <2> QED
    BY <2>1, InitType DEF SpawnInv, PastSpawning, CmdInserts
<1>2. TypeOK /\ SpawnInv /\ [Next]_vars => (TypeOK /\ SpawnInv)'
  <2> SUFFICES ASSUME TypeOK, SpawnInv, [Next]_vars PROVE SpawnInv'
    BY NextType
  <2>1. CASE UNCHANGED vars
    BY <2>1 DEF vars, SpawnInv
  <2>2. CASE Supervisor \/ CancelLaunch
    BY <2>2, SupervisorSpawns
  <2>3. ASSUME NEW c \in Clients, Progress(c) \/ Cancel(c) \/ Request(c) PROVE SpawnInv'
    BY <2>3, CommandSpawns
  <2>4. CASE Events
    BY <2>4, EventSpawns
  <2>5. CASE Crash \/ Boot
    BY <2>5, BootSpawns
  <2> QED
    BY <2>1, <2>2, <2>3, <2>4, <2>5 DEF Next
<1>3. SpawnInv => OneSpawning
  BY DEF SpawnInv, SpawnPcs, OneSpawning
<1> QED
  BY <1>1, <1>2, <1>3, PTL DEF Spec


\* The four results about launches together, each under its hypotheses: types,
\* fingerprints, limits, and that no launch is left behind.
THEOREM LaunchesAreWithinLimits == Spec => []LaunchesWithinLimits
<1> DEFINE Distinct == StartsAndEnds => NoDuplicateLaunch
           Limited == StartsAndEnds /\ StaysPaused => WithinLimits
           Single == Faults \cap {"cancel", "disk"} = {} => OneSpawning
<1>1. Spec => []Distinct
  <2>1. CASE StartsAndEnds
    <3>1. Spec => []NoDuplicateLaunch
      BY <2>1, LaunchesAreDistinct
    <3>2. NoDuplicateLaunch => Distinct
      OBVIOUS
    <3> QED
      BY <3>1, <3>2, PTL
  <2>2. CASE ~(StartsAndEnds)
    <3>1. Distinct
      BY <2>2
    <3> QED
      BY <3>1, PTL
  <2> QED
    BY <2>1, <2>2
<1>2. Spec => []Limited
  <2>1. CASE StartsAndEnds /\ StaysPaused
    <3>1. Spec => []WithinLimits
      BY <2>1, LimitsAreKept
    <3>2. WithinLimits => Limited
      OBVIOUS
    <3> QED
      BY <3>1, <3>2, PTL
  <2>2. CASE ~(StartsAndEnds /\ StaysPaused)
    <3>1. Limited
      BY <2>2
    <3> QED
      BY <3>1, PTL
  <2> QED
    BY <2>1, <2>2
<1>3. Spec => []Single
  <2>1. CASE Faults \cap {"cancel", "disk"} = {}
    <3>1. Spec => []OneSpawning
      BY <2>1, NoLaunchLeftBehind
    <3>2. OneSpawning => Single
      OBVIOUS
    <3> QED
      BY <3>1, <3>2, PTL
  <2>2. CASE ~(Faults \cap {"cancel", "disk"} = {})
    <3>1. Single
      BY <2>2
    <3> QED
      BY <3>1, PTL
  <2> QED
    BY <2>1, <2>2
<1>4. TypeOK /\ Distinct /\ Limited /\ Single => LaunchesWithinLimits
  BY DEF LaunchesWithinLimits
<1> HIDE DEF Distinct, Limited, Single
<1> QED
  BY <1>1, <1>2, <1>3, <1>4, TypeCorrect, PTL

-----------------------------------------------------------------------------
(***************************************************************************)
(* The start-up: when the server accepts requests again, whoever lives is  *)
(* attached to his session.  What a file says of a process must be true of *)
(* the process, and no session may have two in use: the end of one takes   *)
(* the input of the other away.                                            *)
(***************************************************************************)

Booting == phase \in {"launch", "archive", "restore"}

\* A record names a process only once it has started, and one of its session.
Fits(s, rec) ==
    rec.pid # NoRuntime =>
        SettledRec(rec) /\ Started(rec.pid) /\ proc[rec.pid].s = s

\* So do all copies of records, and whoever has started a process.
RecordsFit ==
    /\ \A s \in Sessions : Fits(s, mem[s]) /\ Fits(s, disk[s]) /\ Fits(s, flush[s])
    /\ Fits(sup.s, sup.rec)
    /\ \A c \in Clients : Fits(cmd[c].s, cmd[c].rec)
    /\ sup.pc \in HoldsRuntime => proc[sup.rt].s = sup.s
    /\ \A c \in Clients : cmd[c].pc \in Holding => proc[cmd[c].rt].s = cmd[c].s

\* Only of a process that is gone is there an end to report.
EndsAreTrue ==
    \A x \in Groups :
        watch[x].mon = "detach" \/ watch[x].evt # "none" => proc[x[1]].st = "dead"

\* The session's host has the input of r, or somebody watches r for it.
InUse(s, r) ==
    host[s].input = r \/ (proc[r].s = s /\ \E x \in Groups : x[1] = r /\ watch[x] # NoWatch)

\* Nobody asks anything of a server that does not serve, and one that is down
\* uses nothing.
NothingAsked == phase # "serving" => \A c \in Clients : cmd[c].pc = "idle"
DownIsBlank == phase = "down" => \A s \in Sessions, r \in Runtimes : ~InUse(s, r)

\* The record names the only process in use, if it names one.
Alone(s, rec) == rec.pid # NoRuntime => \A r \in Runtimes : InUse(s, r) => r = rec.pid

UsesOne ==
    \A s \in Sessions :
        /\ Alone(s, mem[s])
        /\ mem[s].status = "queued" => \A r \in Runtimes : ~InUse(s, r)

\* The launch in hand: nothing is in use before its process starts, and then
\* only that; nobody but the supervisor writes the process into the record.
Failing == {"fail", "fail_persist", "fail_insert"}
Replaces == {"replace_persist", "replace_insert"}
LaunchUses ==
    /\ sup.pc \in PreSpawn => \A r \in Runtimes : ~InUse(sup.s, r)
    /\ sup.pc \in HoldsRuntime => \A r \in Runtimes : InUse(sup.s, r) => r = sup.rt
    /\ sup.pc \in PreSpawn \cup (HoldsRuntime \ {"attach"}) => mem[sup.s].pid = NoRuntime
    /\ sup.pc \in PreSpawn => sup.rec.pid = NoRuntime
    /\ sup.pc \in Replaces => sup.rec.pid = sup.rt /\ sup.rec.ttyd
    /\ sup.pc = "attach" => mem[sup.s].pid \in {NoRuntime, sup.rt}
                              /\ (mem[sup.s].pid # NoRuntime => mem[sup.s].ttyd)
    /\ sup.pc \in Failing => /\ ~Live(mem[sup.s].pid) /\ ~Live(sup.rec.pid)
                             /\ Alone(sup.s, sup.rec)

\* What the start-up has done, or is still to do, about a session that lives.
Due(s) ==
    CASE phase = "launch" -> TRUE
      [] phase = "archive" -> mem[s].ttyd \/ s \in todo
      [] phase = "restore" -> \/ s \in todo \/ Attached(s)
                              \/ "owner" \in Faults /\ watch[Own(mem[s].pid)].mon = "kill"
                              \/ ~Offered(mem[s].key)
      [] OTHER -> TRUE

NoneForgotten ==
    \A s \in Sessions :
        ~InHand(s) /\ mem[s].status \notin Terminal /\ Live(mem[s].pid) => Due(s)

ReattachInv ==
    /\ RecordsFit /\ EndsAreTrue /\ DownIsBlank
    /\ Booting => UsesOne /\ LaunchUses /\ NoneForgotten

-----------------------------------------------------------------------------
(* Records keep to their processes.                                         *)

SameOwner == \A r \in Runtimes : Started(r) => Started(r)' /\ proc'[r].s = proc[r].s

MemFits == \A s \in Sessions : Fits(s, mem'[s])
DiskFits == \A s \in Sessions : Fits(s, disk'[s])
FlushFits == \A s \in Sessions : Fits(s, flush'[s])
SupFits == /\ Fits(sup'.s, sup'.rec)
           /\ sup'.pc \in HoldsRuntime => proc'[sup'.rt].s = sup'.s
CmdFits == \A c \in Clients : /\ Fits(cmd'[c].s, cmd'[c].rec)
                              /\ cmd'[c].pc \in Holding => proc'[cmd'[c].rt].s = cmd'[c].s

\* A step under these conditions keeps RecordsFit.
LEMMA FitKept ==
    ASSUME TypeOK, RecordsFit, SameOwner, MemFits, DiskFits, FlushFits, SupFits, CmdFits
    PROVE  RecordsFit'
<1>1. ASSUME NEW s, NEW rec, Fits(s, rec) PROVE Fits(s, rec)'
  BY <1>1 DEF Fits, SameOwner, Started
<1> QED
  BY <1>1 DEF RecordsFit, MemFits, DiskFits, FlushFits, SupFits, CmdFits

\* What a step does not touch fits on.
LEMMA FrameFits ==
    ASSUME TypeOK, RecordsFit, SameOwner
    PROVE  /\ UNCHANGED mem => MemFits
           /\ UNCHANGED disk => DiskFits
           /\ UNCHANGED flush => FlushFits
           /\ UNCHANGED sup => SupFits
           /\ UNCHANGED cmd => CmdFits
<1>1. /\ sup.pc \in HoldsRuntime => Started(sup.rt)
      /\ \A c \in Clients : cmd[c].pc \in Holding => Started(cmd[c].rt)
  BY DEF TypeOK, SupOK, CmdOK
<1>2. /\ UNCHANGED sup => SupFits
      /\ UNCHANGED cmd => CmdFits
  BY <1>1 DEF RecordsFit, SupFits, CmdFits, SameOwner, Started
<1> QED
  BY <1>2 DEF RecordsFit, MemFits, DiskFits, FlushFits

\* The record of a session fits on when it ends, changes its status, or is
\* read from its file.
LEMMA ChangesFit ==
    ASSUME NEW s, NEW rec \in Rec, Fits(s, rec)
    PROVE  /\ \A v : v \notin {"absent", "queued"} => Fits(s, [rec EXCEPT !.status = v])
           /\ \A t : Fits(s, [rec EXCEPT !.term = t])
           /\ \A v : Fits(s, [rec EXCEPT !.status = v, !.pid = NoRuntime])
           /\ \A action : Fits(s, Terminated(rec, action))
           /\ \A event : Fits(s, AfterExit(rec, event))
           /\ Fits(s, Normalized(rec))
           /\ Fits(s, Recovered(rec))
<1>1. \A v : v \notin {"absent", "queued"} => Fits(s, [rec EXCEPT !.status = v])
  BY DEF Fits, SettledRec, Rec
<1>2. /\ \A t : Fits(s, [rec EXCEPT !.term = t])
      /\ \A v : Fits(s, [rec EXCEPT !.status = v, !.pid = NoRuntime])
  BY DEF Fits, SettledRec, Rec
<1>3. \A action : Fits(s, Terminated(rec, action))
  BY DEF Terminated, Fits, SettledRec, Rec
<1>4. \A event : Fits(s, AfterExit(rec, event))
  BY <1>1, <1>3 DEF AfterExit, Ended
<1>5. Fits(s, Recovered(rec))
  BY <1>1 DEF Recovered, Fits, SettledRec, Rec
<1>6. Fits(s, Normalized(rec))
  BY <1>1, <1>2 DEF Normalized
<1> QED
  BY <1>1, <1>2, <1>3, <1>4, <1>5, <1>6

\* A record that fits is stored.
LEMMA StoredFits ==
    ASSUME TypeOK, RecordsFit, NEW s, NEW rec, Fits(s, rec)
    PROVE  SetMem(s, rec) => MemFits
BY DEF TypeOK, StoreOK, RecordsFit, SetMem, MemFits
LEMMA WrittenFits ==
    ASSUME TypeOK, RecordsFit, NEW s, NEW rec, Fits(s, rec)
    PROVE  SetDisk(s, rec) \/ DiskFails => DiskFits
BY DEF TypeOK, StoreOK, RecordsFit, SetDisk, DiskFails, DiskFits

\* No process, nothing to fit.
LEMMA NothingFits == \A s : Fits(s, NoRec)
BY DEF Fits, NoRec

-----------------------------------------------------------------------------
(* The ends that are reported.                                              *)

Runs == SameOwner /\ EndsAreTrue'

\* Watchers that stop, or whose news is taken, report no end of their own.
LEMMA StillRuns ==
    ASSUME TypeOK, EndsAreTrue, UNCHANGED proc,
           \A x \in Groups : /\ watch'[x].mon = "detach" => watch[x].mon = "detach"
                             /\ watch'[x].evt \in {watch[x].evt, "none"}
    PROVE  Runs
BY DEF Runs, SameOwner, EndsAreTrue, Started

\* Nor do watchers that are told to kill,
LEMMA SignalRuns ==
    ASSUME TypeOK, EndsAreTrue, UNCHANGED proc, NEW K, watch' = Signalled(watch, K)
    PROVE  Runs
<1>1. \A x \in Groups : /\ watch'[x].mon = "detach" => watch[x].mon = "detach"
                        /\ watch'[x].evt = watch[x].evt
  BY DEF TypeOK, RuntimeOK, Signalled, WatchRec
<1> QED
  BY <1>1, StillRuns

\* nor those of a process that starts;
LEMMA StartRuns ==
    ASSUME TypeOK, EndsAreTrue, NEW r \in Runtimes, NEW s, NEW by, StartProcess(r, s, by)
    PROVE  Runs /\ Started(r)' /\ proc'[r].s = s
<1>1. /\ proc'[r].st = "alive" /\ proc'[r].s = s /\ proc[r].st = "free"
      /\ \A q \in Runtimes : q # r => proc'[q] = proc[q]
      /\ \A x \in Groups : watch'[x] = watch[x] \/ (x[1] = r /\ watch'[x] = Watched)
      /\ \A x \in Groups : x[1] \in Runtimes
  BY DEF TypeOK, RuntimeOK, StartProcess, Own, Groups
<1>2. \A x \in Groups : watch'[x].mon = "detach" \/ watch'[x].evt # "none"
                            => watch'[x] = watch[x] /\ proc[x[1]].st = "dead"
  BY <1>1 DEF EndsAreTrue, Watched
<1>3. EndsAreTrue'
  BY <1>1, <1>2 DEF EndsAreTrue
<1> QED
  BY <1>1, <1>3 DEF Runs, SameOwner, Started

\* a process that dies is gone when they report it;
LEMMA DeathRuns ==
    ASSUME TypeOK, EndsAreTrue, NEW r \in Runtimes, proc[r].st = "alive",
           proc' = [proc EXCEPT ![r].st = "dead"], NEW event,
           \/ watch' = Gone(watch, r, event)
           \/ \E K : watch' = Signalled(Gone(watch, r, event), K)
    PROVE  Runs
<1>1. /\ proc'[r].st = "dead" /\ proc'[r].s = proc[r].s
      /\ \A q \in Runtimes : q # r => proc'[q] = proc[q]
      /\ \A x \in Groups : x[1] \in Runtimes
  BY DEF TypeOK, RuntimeOK, ProcRec, Groups
<1> DEFINE G == Gone(watch, r, event)
<1>2. \A x \in Groups : x[1] # r => G[x] = watch[x]
  BY DEF Gone
<1> HIDE DEF G
<1>w. \A x \in Groups : x[1] # r => /\ watch'[x].mon = "detach" => watch[x].mon = "detach"
                                    /\ watch'[x].evt = watch[x].evt
  <2>1. CASE watch' = G
    BY <2>1, <1>2
  <2>2. ASSUME NEW K, watch' = Signalled(G, K)
        PROVE  \A x \in Groups : x[1] # r => /\ watch'[x].mon = "detach" => watch[x].mon = "detach"
                                             /\ watch'[x].evt = watch[x].evt
    BY <2>2, <1>2 DEF Signalled, TypeOK, RuntimeOK, WatchRec
  <2> QED
    BY <2>1, <2>2 DEF G
<1>3. EndsAreTrue'
  BY <1>1, <1>w DEF EndsAreTrue
<1> QED
  BY <1>1, <1>3 DEF Runs, SameOwner, Started

\* and an attach reports nothing.
LEMMA AttachRuns ==
    ASSUME TypeOK, EndsAreTrue, UNCHANGED proc, NEW s, NEW x, AttachAndConsume(s, x)
    PROVE  Runs
<1> DEFINE W == Signalled(watch, IF Attached(s) THEN {x} ELSE {})
<1>1. /\ W \in [Groups -> WatchRec] /\ watch' = [W EXCEPT ![x].con = TRUE]
      /\ \A y \in Groups : /\ W[y].mon = "detach" => watch[y].mon = "detach"
                           /\ W[y].evt = watch[y].evt
  BY DEF TypeOK, RuntimeOK, Signalled, WatchRec, AttachAndConsume
<1> HIDE DEF W
<1>2. \A y \in Groups : watch'[y].mon = W[y].mon /\ watch'[y].evt = W[y].evt
  BY <1>1 DEF WatchRec
<1> QED
  BY <1>1, <1>2, StillRuns

\* A command keeps records and processes together.
LEMMA CommandFits ==
    ASSUME TypeOK, RecordsFit, EndsAreTrue, NEW c \in Clients,
           Progress(c) \/ Cancel(c) \/ Request(c)
    PROVE  (RecordsFit /\ EndsAreTrue)'
<1> USE DEF runtime, writes, boot
<1>t. /\ cmd \in [Clients -> CmdRec] /\ mem \in [Sessions -> Rec]
      /\ cmd[c].pc # "idle" => cmd[c].s \in Sessions
      /\ \A d \in Clients : cmd[d].pc \in Holding => Started(cmd[d].rt)
      /\ \A s \in Sessions : Fits(s, mem[s])
      /\ \A d \in Clients : /\ Fits(cmd[d].s, cmd[d].rec)
                            /\ cmd[d].pc \in Holding => proc[cmd[d].rt].s = cmd[d].s
  BY DEF TypeOK, CmdOK, StoreOK, RecordsFit
<1>k. ASSUME Runs, UNCHANGED <<sup, flush>>, MemFits, DiskFits, CmdFits
      PROVE  (RecordsFit /\ EndsAreTrue)'
  BY <1>k, FitKept, FrameFits DEF Runs
<1>u. /\ UNCHANGED <<proc, watch>> => Runs
      /\ Runs => /\ UNCHANGED mem => MemFits
                 /\ UNCHANGED disk => DiskFits
                 /\ UNCHANGED cmd => CmdFits
  BY FrameFits, StillRuns DEF Runs
<1>s. ASSUME NEW K, watch' = Signalled(watch, K), UNCHANGED proc PROVE Runs
  BY <1>s, SignalRuns
<1>o. \A d \in Clients \ {c} : cmd'[d] = cmd[d] /\ Runs =>
          /\ Fits(cmd'[d].s, cmd'[d].rec)
          /\ cmd'[d].pc \in Holding => proc'[cmd'[d].rt].s = cmd'[d].s
  BY <1>t DEF Runs, SameOwner, Started
<1>d. ASSUME Runs, \A d \in Clients \ {c} : cmd'[d] = cmd[d],
             Fits(cmd'[c].s, cmd'[c].rec),
             cmd'[c].pc \in Holding => proc'[cmd'[c].rt].s = cmd'[c].s
      PROVE  CmdFits
  BY <1>d, <1>o DEF CmdFits
<1>h. ASSUME Runs, NEW pc, NEW rec, GotoWith(c, pc, rec), Fits(cmd[c].s, rec),
             pc \in Holding => cmd[c].pc \in Holding
      PROVE  CmdFits
  <2>1. /\ cmd'[c].s = cmd[c].s /\ cmd'[c].rt = cmd[c].rt /\ cmd'[c].rec = rec
        /\ cmd'[c].pc = pc /\ \A d \in Clients \ {c} : cmd'[d] = cmd[d]
    BY <1>h, <1>t DEF GotoWith, CmdRec
  <2> QED
    BY <1>h, <1>d, <1>t, <2>1 DEF Runs, SameOwner, Started
<1>g. ASSUME Runs, NEW pc, Goto(c, pc), pc \in Holding => cmd[c].pc \in Holding
      PROVE  CmdFits
  <2>1. /\ cmd'[c].s = cmd[c].s /\ cmd'[c].rt = cmd[c].rt /\ cmd'[c].rec = cmd[c].rec
        /\ cmd'[c].pc = pc /\ \A d \in Clients \ {c} : cmd'[d] = cmd[d]
    BY <1>g, <1>t DEF Goto, CmdRec
  <2> QED
    BY <1>g, <1>d, <1>t, <2>1 DEF Runs, SameOwner, Started
<1>c. ASSUME Runs, Finish(c) PROVE CmdFits
  <2>1. /\ cmd'[c].rec = NoRec /\ cmd'[c].pc = "idle"
        /\ \A d \in Clients \ {c} : cmd'[d] = cmd[d]
    BY <1>c, <1>t DEF Finish, Idle, IdleCmd
  <2> QED
    BY <1>c, <1>d, <2>1, NothingFits DEF Holding
<1>b. ASSUME Runs, NEW op, NEW pc, NEW s, NEW r, NEW rec, Begin(c, op, pc, s, r, rec),
             Fits(s, rec), pc \in Holding => proc'[r].s = s
      PROVE  CmdFits
  <2>1. /\ cmd'[c].s = s /\ cmd'[c].rt = r /\ cmd'[c].rec = rec /\ cmd'[c].pc = pc
        /\ \A d \in Clients \ {c} : cmd'[d] = cmd[d]
    BY <1>b, <1>t DEF Begin
  <2> QED
    BY <1>b, <1>d, <2>1
<1>m. ASSUME NEW s, NEW rec, SetMem(s, rec), Fits(s, rec) PROVE MemFits
  BY <1>m, StoredFits
<1>i. SetMem(cmd[c].s, cmd[c].rec) => MemFits
  BY <1>m, <1>t
<1>w. SetDisk(cmd[c].s, cmd[c].rec) \/ DiskFails => DiskFits
  BY <1>t, WrittenFits
<1>r. ASSUME NEW s \in Sessions
      PROVE  /\ \A v : v \notin {"absent", "queued"} => Fits(s, [mem[s] EXCEPT !.status = v])
             /\ \A t : Fits(s, [mem[s] EXCEPT !.term = t])
             /\ \A action : Fits(s, Terminated(mem[s], action))
             /\ \A event : Fits(s, AfterExit(mem[s], event))
             /\ Fits(s, Recovered(mem[s]))
  BY <1>t, ChangesFit
<1>x. ASSUME Runs, NEW op, NEW s \in Sessions, TerminateStart(c, op, s)
      PROVE  MemFits /\ CmdFits
  <2>1. PICK r, rec : SetMem(s, rec) /\ Fits(s, rec) /\ Begin(c, op, "t_mark", s, r, rec)
    BY <1>x, <1>r DEF TerminateStart
  <2> QED
    BY <2>1, <1>x, <1>m, <1>b DEF Holding
<1> USE DEF CmdAt, Holding
<1>1. CASE EnqueuePersist(c)
  BY <1>1, <1>k, <1>u, <1>c, <1>g, <1>w DEF EnqueuePersist
<1>2. CASE EnqueueInsert(c)
  BY <1>2, <1>k, <1>u, <1>c, <1>i DEF EnqueueInsert
<1>3. CASE TermMark(c)
  BY <1>3, <1>k, <1>u, <1>c, <1>g, <1>w DEF TermMark
<1>4. CASE TermSignal(c)
  <2>1. Runs
    BY <1>4, <1>s DEF TermSignal
  <2> QED
    BY <1>4, <2>1, <1>k, <1>u, <1>g DEF TermSignal
<1>5. CASE TermReap(c)
  <2> DEFINE s == cmd[c].s
             r == mem[s].pid
  <2>1. Runs
    <3>1. CASE /\ Live(r) /\ proc' = [proc EXCEPT ![r].st = "dead"]
               /\ \E event \in Outcomes : RemoveHost(s, Gone(watch, r, event))
      <4>1. PICK event \in Outcomes : watch' = Signalled(Gone(watch, r, event), host[s].kills)
        BY <3>1 DEF RemoveHost
      <4>2. s \in Sessions
        BY <1>5, <1>t DEF TermReap
      <4>3. r \in Runtimes /\ proc[r].st = "alive"
        BY <3>1, <4>2, <1>t DEF Live, Rec
      <4> HIDE DEF r
      <4> QED
        BY <3>1, <4>1, <4>3, DeathRuns
    <3>2. CASE RemoveHost(s, watch) /\ UNCHANGED proc
      BY <3>2, <1>s DEF RemoveHost
    <3> QED
      BY <1>5, <3>1, <3>2 DEF TermReap
  <2> QED
    BY <1>5, <2>1, <1>k, <1>u, <1>c, <1>g DEF TermReap
<1>6. CASE TermApply(c)
  <2> DEFINE rec == Terminated(mem[cmd[c].s], TermAction(cmd[c].op))
  <2>1. Fits(cmd[c].s, rec)
    BY <1>6, <1>t, <1>r DEF TermApply
  <2> HIDE DEF rec
  <2>2. Runs /\ MemFits /\ CmdFits
    BY <1>6, <2>1, <1>u, <1>c, <1>h, <1>m DEF TermApply, rec
  <2> QED
    BY <1>6, <2>2, <1>k, <1>u DEF TermApply
<1>7. CASE TermPersist(c)
  BY <1>7, <1>k, <1>u, <1>c, <1>g, <1>w DEF TermPersist
<1>8. CASE TermInsert(c)
  BY <1>8, <1>k, <1>u, <1>c, <1>i DEF TermInsert
<1>9. CASE EnsureAttach(c)
  <2> DEFINE rec == Recovered(mem[cmd[c].s])
  <2>1. Fits(cmd[c].s, rec)
    BY <1>9, <1>t, <1>r DEF EnsureAttach
  <2>2. Runs
    BY <1>9, <1>s, AttachRuns DEF EnsureAttach
  <2> HIDE DEF rec
  <2>3. MemFits /\ CmdFits
    BY <1>9, <2>1, <2>2, <1>u, <1>c, <1>g, <1>h, <1>m DEF EnsureAttach, rec
  <2> QED
    BY <1>9, <2>2, <2>3, <1>k, <1>u DEF EnsureAttach
<1>10. CASE EnsurePersist(c)
  BY <1>10, <1>k, <1>u, <1>c, <1>g, <1>w DEF EnsurePersist
<1>11. CASE SendApply(c)
  <2> DEFINE rec == [mem[cmd[c].s] EXCEPT !.status = "working"]
  <2>1. Fits(cmd[c].s, rec)
    BY <1>11, <1>t, <1>r DEF SendApply
  <2> HIDE DEF rec
  <2>2. Runs /\ MemFits /\ CmdFits
    BY <1>11, <2>1, <1>u, <1>h, <1>m DEF SendApply, rec
  <2> QED
    BY <1>11, <2>2, <1>k, <1>u DEF SendApply
<1>12. CASE SendPersist(c)
  BY <1>12, <1>k, <1>u, <1>c, <1>w DEF SendPersist
<1>13. ASSUME NEW r \in Runtimes, ResumeSpawn(c, r) PROVE (RecordsFit /\ EndsAreTrue)'
  <2>1. Runs /\ proc'[r].s = cmd[c].s
    BY <1>13, StartRuns DEF ResumeSpawn
  <2>2. /\ cmd'[c].s = cmd[c].s /\ cmd'[c].rt = r /\ cmd'[c].rec = cmd[c].rec
        /\ \A d \in Clients \ {c} : cmd'[d] = cmd[d]
    BY <1>13, <1>t DEF ResumeSpawn, CmdRec
  <2>3. CmdFits
    BY <2>1, <2>2, <1>t, <1>d
  <2> QED
    BY <1>13, <2>1, <2>3, <1>k, <1>u DEF ResumeSpawn
<1>14. CASE ResumeError(c)
  BY <1>14, <1>k, <1>u, <1>c DEF ResumeError
<1>15. CASE ResumeApply(c)
  <2> DEFINE rec == [mem[cmd[c].s] EXCEPT !.status = "working", !.pid = cmd[c].rt]
  <2>1. Fits(cmd[c].s, rec)
    BY <1>15, <1>t DEF ResumeApply, Fits, SettledRec, Rec
  <2> HIDE DEF rec
  <2>2. Runs
    BY <1>15, <1>u, <1>s DEF ResumeApply
  <2>3. MemFits /\ CmdFits
    BY <1>15, <2>1, <2>2, <1>u, <1>c, <1>h, <1>m DEF ResumeApply, rec
  <2> QED
    BY <1>15, <2>2, <2>3, <1>k, <1>u DEF ResumeApply
<1>16. CASE ResumePersist(c)
  <2>1. Runs
    BY <1>16, <1>u, <1>s DEF ResumePersist
  <2> QED
    BY <1>16, <2>1, <1>k, <1>u, <1>c, <1>g, <1>w DEF ResumePersist
<1>17. CASE ResumeInsert(c)
  BY <1>17, <1>k, <1>u, <1>g, <1>i DEF ResumeInsert
<1>18. CASE ResumeAttach(c)
  <2>1. Runs
    BY <1>18, AttachRuns DEF ResumeAttach
  <2> QED
    BY <1>18, <2>1, <1>k, <1>u, <1>c, <1>g DEF ResumeAttach
<1>19. CASE RestorePersist(c)
  BY <1>19, <1>k, <1>u, <1>g, <1>w DEF RestorePersist
<1>20. ASSUME NEW s \in Sessions, RestoreEnqueue(c, s) PROVE (RecordsFit /\ EndsAreTrue)'
  <2>1. /\ cmd'[c].rec.pid = NoRuntime /\ cmd'[c].pc = "q_persist"
        /\ \A d \in Clients \ {c} : cmd'[d] = cmd[d]
    BY <1>20, <1>t DEF RestoreEnqueue, Idle, IdleCmd, QueuedRec, NoRec
  <2>2. Runs
    BY <1>20, <1>u DEF RestoreEnqueue
  <2>3. CmdFits
    BY <2>1, <2>2, <1>d DEF Fits
  <2> QED
    BY <1>20, <2>2, <2>3, <1>k, <1>u DEF RestoreEnqueue
<1>21. CASE Cancel(c)
  <2>1. Runs
    BY <1>21, <1>s DEF Cancel
  <2> QED
    BY <1>21, <2>1, <1>k, <1>u, <1>c DEF Cancel
<1>22. ASSUME NEW s \in Sessions, NEW key \in Keys, Enqueue(c, s, key)
       PROVE  (RecordsFit /\ EndsAreTrue)'
  <2>1. Fits(s, QueuedRec(key, 0))
    BY DEF Fits, QueuedRec, NoRec
  <2> QED
    BY <1>22, <2>1, <1>k, <1>u, <1>b DEF Enqueue
<1>23. ASSUME NEW s \in Sessions, NEW op \in TermOps, Terminate(c, op, s)
       PROVE  (RecordsFit /\ EndsAreTrue)'
  BY <1>23, <1>x, <1>k, <1>u DEF Terminate
<1>24. ASSUME NEW r \in Runtimes, Timeout(c, r) PROVE (RecordsFit /\ EndsAreTrue)'
  <2>1. proc[r].s \in Sessions
    BY <1>24 DEF Timeout, TypeOK, RuntimeOK, Started
  <2> QED
    BY <1>24, <2>1, <1>x, <1>k, <1>u DEF Timeout
<1>25. ASSUME NEW s \in Sessions, SendLive(c, s) PROVE (RecordsFit /\ EndsAreTrue)'
  BY <1>25, <1>k, <1>u, <1>b, NothingFits DEF SendLive
<1>26. ASSUME NEW s \in Sessions, SendRecover(c, s) PROVE (RecordsFit /\ EndsAreTrue)'
  <2> DEFINE r == mem[s].pid
  <2>1. /\ Begin(c, "send", "e_attach", s, r, NoRec) /\ proc[r].s = s
        /\ watch' = [watch EXCEPT ![Restored(r)] = Watched]
        /\ UNCHANGED <<proc, mem, disk, sup, flush>>
    BY <1>26, <1>t DEF SendRecover, Recoverable, Fits
  <2> HIDE DEF r
  <2>2. Runs
    BY <2>1, StillRuns DEF TypeOK, RuntimeOK, Watched
  <2> QED
    BY <2>1, <2>2, <1>k, <1>u, <1>b, NothingFits
<1>27. ASSUME NEW s \in Sessions, SendExited(c, s) PROVE (RecordsFit /\ EndsAreTrue)'
  <2>1. Runs /\ MemFits
    BY <1>27, <1>u, <1>r, <1>m DEF SendExited
  <2>2. CmdFits
    BY <1>27, <2>1, <1>u, <1>b, NothingFits DEF SendExited
  <2> QED
    BY <1>27, <2>1, <2>2, <1>k, <1>u DEF SendExited
<1>28. ASSUME NEW s \in Sessions, RestoreStart(c, s) PROVE (RecordsFit /\ EndsAreTrue)'
  <2> DEFINE rec == [mem[s] EXCEPT !.status = "restored"]
  <2>1. Fits(s, rec) /\ Fits(s, mem[s])
    BY <1>t, <1>r
  <2> HIDE DEF rec
  <2>2. Runs /\ MemFits /\ CmdFits
    BY <1>28, <2>1, <1>u, <1>b, <1>m DEF RestoreStart, rec
  <2> QED
    BY <1>28, <2>2, <1>k, <1>u DEF RestoreStart
<1> QED
  BY <1>1, <1>2, <1>3, <1>4, <1>5, <1>6, <1>7, <1>8, <1>9, <1>10, <1>11, <1>12, <1>13, <1>14,
     <1>15, <1>16, <1>17, <1>18, <1>19, <1>20, <1>21, <1>22, <1>23, <1>24, <1>25, <1>26, <1>27,
     <1>28
  DEF Progress, Request

\* So does the supervisor.
LEMMA SupervisorFits ==
    ASSUME TypeOK, RecordsFit, EndsAreTrue, Supervisor \/ CancelLaunch
    PROVE  (RecordsFit /\ EndsAreTrue)'
<1> USE DEF runtime, writes, boot
<1>t. /\ sup \in SupRec /\ mem \in [Sessions -> Rec]
      /\ sup.pc \notin {"idle", "select"} => sup.s \in Sessions
      /\ sup.pc \in HoldsRuntime => Started(sup.rt) /\ proc[sup.rt].s = sup.s
      /\ \A s \in Sessions : Fits(s, mem[s])
      /\ Fits(sup.s, sup.rec)
  BY DEF TypeOK, SupOK, StoreOK, RecordsFit
<1>k. ASSUME Runs, UNCHANGED <<cmd, flush>>, MemFits, DiskFits, SupFits
      PROVE  (RecordsFit /\ EndsAreTrue)'
  BY <1>k, FitKept, FrameFits DEF Runs
<1>u. /\ UNCHANGED <<proc, watch>> => Runs
      /\ Runs => /\ UNCHANGED mem => MemFits
                 /\ UNCHANGED disk => DiskFits
  BY FrameFits, StillRuns DEF Runs
<1>s. ASSUME NEW K, watch' = Signalled(watch, K), UNCHANGED proc PROVE Runs
  BY <1>s, SignalRuns
<1>g. ASSUME Runs, NEW pc, SupGo(pc), pc \in HoldsRuntime => sup.pc \in HoldsRuntime
      PROVE  SupFits
  <2>1. sup'.pc = pc /\ sup'.s = sup.s /\ sup'.rt = sup.rt /\ sup'.rec \in {sup.rec, NoRec}
    BY <1>g, <1>t DEF SupGo, SupRec
  <2> QED
    BY <1>g, <1>t, <2>1, NothingFits DEF SupFits, Runs, SameOwner, Started
<1>r. ASSUME Runs, NEW pc, NEW rec, sup' = [sup EXCEPT !.pc = pc, !.rec = rec],
             Fits(sup.s, rec), pc \in HoldsRuntime => sup.pc \in HoldsRuntime
      PROVE  SupFits
  <2>1. sup'.pc = pc /\ sup'.s = sup.s /\ sup'.rt = sup.rt /\ sup'.rec = rec
    BY <1>r, <1>t DEF SupRec
  <2> QED
    BY <1>r, <1>t, <2>1 DEF SupFits, Runs, SameOwner, Started
<1>l. SupLoop \/ sup' = IdleSup => SupFits
  BY NothingFits DEF SupLoop, IdleSup, SupFits, HoldsRuntime
<1>m. ASSUME NEW rec, SetMem(sup.s, rec), Fits(sup.s, rec) PROVE MemFits
  BY <1>m, StoredFits
<1>w. SetDisk(sup.s, sup.rec) \/ DiskFails => DiskFits
  BY <1>t, WrittenFits
<1>f. ASSUME sup.s \in Sessions
      PROVE  \A v : v \notin {"absent", "queued"} => Fits(sup.s, [mem[sup.s] EXCEPT !.status = v])
  BY <1>f, <1>t, ChangesFit
<1> USE DEF SupAt, HoldsRuntime
<1>1. CASE TakeGuard \/ SelectNone
  BY <1>1, <1>k, <1>u, <1>l DEF TakeGuard, SelectNone
<1>2. ASSUME NEW s \in Sessions, SelectNext(s) PROVE (RecordsFit /\ EndsAreTrue)'
  <2>1. sup'.pc = "mark" /\ sup'.rec = NoRec
    BY <1>2 DEF SelectNext, IdleSup
  <2> QED
    BY <1>2, <2>1, <1>k, <1>u, NothingFits DEF SelectNext, SupFits
<1>3. CASE Mark
  <2> DEFINE rec == [mem[sup.s] EXCEPT !.status = "spawning"]
  <2>1. Fits(sup.s, rec) /\ Runs
    BY <1>3, <1>t, <1>f, <1>u DEF Mark
  <2> HIDE DEF rec
  <2>2. MemFits /\ SupFits
    BY <1>3, <2>1, <1>u, <1>g, <1>r, <1>m DEF Mark, rec
  <2> QED
    BY <1>3, <2>1, <2>2, <1>k, <1>u DEF Mark
<1>4. CASE MarkPersist
  BY <1>4, <1>k, <1>u, <1>g, <1>l, <1>w DEF MarkPersist
<1>5. CASE MarkInsert
  BY <1>5, <1>k, <1>u, <1>g, <1>m, <1>t DEF MarkInsert
<1>6. CASE Stage1
  BY <1>6, <1>k, <1>u, <1>r, <1>t DEF Stage1
<1>7. CASE StagePersist("stage1_persist", "check1")
  BY <1>7, <1>k, <1>u, <1>g, <1>w DEF StagePersist
<1>8. CASE Check1
  <2>1. Runs /\ Fits(sup.s, mem[sup.s])
    BY <1>8, <1>u, <1>t DEF Check1
  <2>2. SupFits
    BY <1>8, <2>1, <1>g, <1>r DEF Check1
  <2> QED
    BY <1>8, <2>1, <2>2, <1>k, <1>u DEF Check1
<1>9. CASE StagePersist("stage2_persist", "spawn")
  BY <1>9, <1>k, <1>u, <1>g, <1>w DEF StagePersist
<1>10. ASSUME NEW r \in Runtimes, SpawnRuntime(r) PROVE (RecordsFit /\ EndsAreTrue)'
  <2>1. Runs /\ proc'[r].s = sup.s
    BY <1>10, StartRuns DEF SpawnRuntime
  <2>2. sup'.s = sup.s /\ sup'.rt = r /\ sup'.rec = sup.rec
    BY <1>10, <1>t DEF SpawnRuntime, SupRec
  <2>3. SupFits
    BY <2>1, <2>2, <1>t DEF SupFits
  <2> QED
    BY <1>10, <2>1, <2>3, <1>k, <1>u DEF SpawnRuntime
<1>11. CASE Check2
  <2> DEFINE rec == LaunchedRec(sup.s, mem[sup.s], sup.rt)
  <2>1. Fits(sup.s, rec) /\ Runs
    BY <1>11, <1>t, <1>u, <1>s DEF Check2, Fits, SettledRec, LaunchedRec
  <2> HIDE DEF rec
  <2>2. SupFits
    BY <1>11, <2>1, <1>g, <1>r DEF Check2, rec
  <2> QED
    BY <1>11, <2>1, <2>2, <1>k, <1>u DEF Check2
<1>12. CASE ReplacePersist
  <2>1. Runs
    BY <1>12, <1>u, <1>s DEF ReplacePersist
  <2>2. SupFits
    BY <1>12, <2>1, <1>g DEF ReplacePersist
  <2> QED
    BY <1>12, <2>1, <2>2, <1>k, <1>u, <1>w DEF ReplacePersist
<1>13. CASE ReplaceInsert
  BY <1>13, <1>k, <1>u, <1>g, <1>m, <1>t DEF ReplaceInsert
<1>14. CASE LaunchAttach
  <2>1. Runs
    BY <1>14, AttachRuns DEF LaunchAttach
  <2>2. SupFits
    BY <1>14, <2>1, <1>g, <1>l DEF LaunchAttach
  <2> QED
    BY <1>14, <2>1, <2>2, <1>k, <1>u DEF LaunchAttach
<1>15. CASE LaunchError
  BY <1>15, <1>k, <1>u, <1>g DEF LaunchError
<1>16. CASE Fail
  <2> DEFINE rec == [mem[sup.s] EXCEPT !.status = "errored"]
  <2>1. Fits(sup.s, rec) /\ Runs
    BY <1>16, <1>t, <1>f, <1>u DEF Fail
  <2> HIDE DEF rec
  <2>2. MemFits /\ SupFits
    BY <1>16, <2>1, <1>r, <1>m DEF Fail, rec
  <2> QED
    BY <1>16, <2>1, <2>2, <1>k, <1>u DEF Fail
<1>17. CASE FailPersist
  BY <1>17, <1>k, <1>u, <1>g, <1>l, <1>w DEF FailPersist
<1>18. CASE FailInsert
  BY <1>18, <1>k, <1>u, <1>l, <1>m, <1>t DEF FailInsert
<1>19. CASE CancelLaunch
  <2>1. Runs
    BY <1>19, <1>s DEF CancelLaunch
  <2> QED
    BY <1>19, <2>1, <1>k, <1>u, <1>l DEF CancelLaunch
<1> QED
  BY <1>1, <1>2, <1>3, <1>4, <1>5, <1>6, <1>7, <1>8, <1>9, <1>10, <1>11, <1>12, <1>13, <1>14,
     <1>15, <1>16, <1>17, <1>18, <1>19 DEF Supervisor

\* And so do events, a crash and the start-up.
LEMMA OthersFit ==
    ASSUME TypeOK, RecordsFit, EndsAreTrue, Events \/ Crash \/ Boot
    PROVE  (RecordsFit /\ EndsAreTrue)'
<1> USE DEF runtime, writes, boot
<1>t. /\ mem \in [Sessions -> Rec] /\ disk \in [Sessions -> Rec] /\ flush \in [Sessions -> Rec]
      /\ \A s \in Sessions : Fits(s, mem[s]) /\ Fits(s, disk[s]) /\ Fits(s, flush[s])
      /\ \A x \in Groups : watch[x].con \/ watch[x].mon # "off"
            => x[1] \in Runtimes /\ proc[x[1]].s \in Sessions
  BY DEF TypeOK, StoreOK, RuntimeOK, RecordsFit, Started
<1>k. ASSUME Runs, UNCHANGED <<sup, cmd>>, MemFits, DiskFits, FlushFits
      PROVE  (RecordsFit /\ EndsAreTrue)'
  BY <1>k, FitKept, FrameFits DEF Runs
<1>u. /\ UNCHANGED <<proc, watch>> => Runs
      /\ Runs => /\ UNCHANGED mem => MemFits
                 /\ UNCHANGED disk => DiskFits
                 /\ UNCHANGED flush => FlushFits
  BY FrameFits, StillRuns DEF Runs
<1>m. ASSUME NEW s, NEW rec, SetMem(s, rec), Fits(s, rec) PROVE MemFits
  BY <1>m, StoredFits
<1>w. ASSUME NEW s, NEW rec, SetDisk(s, rec) \/ DiskFails, Fits(s, rec) PROVE DiskFits
  BY <1>w, WrittenFits
<1>r. ASSUME NEW s \in Sessions
      PROVE  /\ \A v : v \notin {"absent", "queued"} => Fits(s, [mem[s] EXCEPT !.status = v])
             /\ \A v : Fits(s, [mem[s] EXCEPT !.status = v, !.pid = NoRuntime])
             /\ \A event : Fits(s, AfterExit(mem[s], event))
             /\ Fits(s, Recovered(mem[s]))
             /\ Fits(s, Normalized(disk[s]))
  BY <1>t, ChangesFit
<1>1. ASSUME NEW x \in Groups, Output(x) \/ AsksInput(x) PROVE (RecordsFit /\ EndsAreTrue)'
  <2>1. PICK s \in Sessions : s = proc[x[1]].s
    BY <1>1, <1>t DEF Output, AsksInput
  <2>2. PICK v \in {"working", "needs_input"} :
           \/ SetMem(s, [mem[s] EXCEPT !.status = v])
           \/ SetMem(s, [mem[s] EXCEPT !.status = mem[s].status])
    BY <1>1, <2>1 DEF Output, AsksInput
  <2>3. [mem[s] EXCEPT !.status = mem[s].status] = mem[s]
    BY <1>t DEF Rec
  <2>4. MemFits
    <3>1. CASE SetMem(s, [mem[s] EXCEPT !.status = v])
      BY <3>1, <1>m, <1>r
    <3>2. CASE SetMem(s, [mem[s] EXCEPT !.status = mem[s].status])
      BY <3>2, <2>3, <1>t, <1>m
    <3> QED
      BY <2>2, <3>1, <3>2
  <2> QED
    BY <1>1, <2>4, <1>k, <1>u DEF Output, AsksInput
<1>2. ASSUME NEW x \in Groups, Consume(x) PROVE (RecordsFit /\ EndsAreTrue)'
  <2>1. PICK s \in Sessions : s = proc[x[1]].s
    BY <1>2, <1>t DEF Consume
  <2>2. MemFits
    BY <1>2, <2>1, <1>m, <1>r DEF Consume
  <2>3. Runs
    BY <1>2, StillRuns DEF Consume, TypeOK, RuntimeOK, WatchRec
  <2> QED
    BY <1>2, <2>2, <2>3, <1>k, <1>u DEF Consume
<1>3. ASSUME NEW x \in Groups, MonitorDetach(x) PROVE (RecordsFit /\ EndsAreTrue)'
  <2>1. Runs
    BY <1>3, StillRuns DEF MonitorDetach, TypeOK, RuntimeOK, WatchRec
  <2> QED
    BY <1>3, <2>1, <1>k, <1>u DEF MonitorDetach
<1>4. ASSUME NEW r \in Runtimes, Exit(r) \/ MonitorKills(r) PROVE (RecordsFit /\ EndsAreTrue)'
  <2>1. Runs
    BY <1>4, DeathRuns DEF Exit, MonitorKills, Dies
  <2> QED
    BY <1>4, <2>1, <1>k, <1>u DEF Exit, MonitorKills, Dies
<1>5. CASE FlushDrain
  <2>1. FlushFits
    BY <1>5, <1>t, NothingFits DEF FlushDrain, FlushFits
  <2> QED
    BY <1>5, <2>1, <1>k, <1>u DEF FlushDrain
<1>6. ASSUME NEW s \in Sessions, FlushWrite(s) PROVE (RecordsFit /\ EndsAreTrue)'
  <2>1. FlushFits
    BY <1>6, <1>t, NothingFits DEF FlushWrite, FlushFits
  <2> QED
    BY <1>6, <2>1, <1>t, <1>k, <1>u, <1>w DEF FlushWrite
<1>7. CASE Crash
  <2>1. /\ \A s \in Sessions : mem'[s] = NoRec /\ flush'[s] = NoRec
        /\ sup'.rec = NoRec /\ sup'.pc = "idle"
        /\ \A c \in Clients : cmd'[c].rec = NoRec /\ cmd'[c].pc = "idle"
        /\ \A x \in Groups : watch'[x] = NoWatch
        /\ UNCHANGED <<disk, proc>>
    BY <1>7 DEF Crash, IdleSup, Idle, IdleCmd
  <2>2. SameOwner /\ EndsAreTrue'
    BY <2>1 DEF SameOwner, EndsAreTrue, NoWatch, Started
  <2>3. MemFits /\ FlushFits /\ SupFits /\ CmdFits
    BY <2>1, NothingFits DEF MemFits, FlushFits, SupFits, CmdFits, HoldsRuntime, Holding
  <2> QED
    BY <2>1, <2>2, <2>3, FitKept, FrameFits
<1>8. CASE BootLoad
  <2>1. MemFits /\ DiskFits
    BY <1>8, <1>r DEF BootLoad, MemFits, DiskFits
  <2> QED
    BY <1>8, <2>1, <1>k, <1>u DEF BootLoad
<1>9. CASE BootLaunched \/ BootArchived \/ BootServe
  BY <1>9, <1>k, <1>u DEF BootLaunched, BootArchived, BootServe
<1>10. ASSUME NEW s \in Sessions, BootArchive(s) PROVE (RecordsFit /\ EndsAreTrue)'
  <2> DEFINE rec == [mem[s] EXCEPT !.status = "archived", !.pid = NoRuntime]
  <2>1. Fits(s, rec)
    BY <1>r
  <2> HIDE DEF rec
  <2>2. MemFits /\ DiskFits
    BY <1>10, <2>1, <1>m, <1>w DEF BootArchive, rec
  <2> QED
    BY <1>10, <2>2, <1>k, <1>u DEF BootArchive
<1>11. ASSUME NEW s \in Sessions, BootReattach(s) PROVE (RecordsFit /\ EndsAreTrue)'
  <2> DEFINE rec == Recovered(mem[s])
  <2>1. Fits(s, rec)
    BY <1>r
  <2> HIDE DEF rec
  <2>2. Runs
    BY <1>11, StillRuns DEF BootReattach, TypeOK, RuntimeOK, Watched
  <2>3. MemFits /\ DiskFits
    BY <1>11, <2>1, <2>2, <1>u, <1>m, <1>w DEF BootReattach, rec
  <2> QED
    BY <1>11, <2>2, <2>3, <1>k, <1>u DEF BootReattach
<1>12. ASSUME NEW s \in Sessions, BootExited(s) PROVE (RecordsFit /\ EndsAreTrue)'
  <2>1. MemFits
    BY <1>12, <1>r, <1>m DEF BootExited
  <2> QED
    BY <1>12, <2>1, <1>k, <1>u DEF BootExited
<1>13. ASSUME NEW s \in Sessions, BootSkip(s) PROVE (RecordsFit /\ EndsAreTrue)'
  BY <1>13, <1>k, <1>u DEF BootSkip
<1> QED
  BY <1>1, <1>2, <1>3, <1>4, <1>5, <1>6, <1>7, <1>8, <1>9, <1>10, <1>11, <1>12, <1>13
  DEF Events, Boot

\* Every step keeps records to their processes.
LEMMA FitsNext ==
    TypeOK /\ RecordsFit /\ EndsAreTrue /\ [Next]_vars => (RecordsFit /\ EndsAreTrue)'
<1> SUFFICES ASSUME TypeOK, RecordsFit, EndsAreTrue, [Next]_vars
             PROVE  (RecordsFit /\ EndsAreTrue)'
  OBVIOUS
<1>1. CASE UNCHANGED vars
  BY <1>1, FitKept, FrameFits, StillRuns DEF vars, Runs
<1>2. CASE Supervisor \/ CancelLaunch
  BY <1>2, SupervisorFits
<1>3. CASE Events \/ Crash \/ Boot
  BY <1>3, OthersFit
<1>4. ASSUME NEW c \in Clients, Progress(c) \/ Cancel(c) \/ Request(c)
      PROVE  (RecordsFit /\ EndsAreTrue)'
  BY <1>4, CommandFits
<1> QED
  BY <1>1, <1>2, <1>3, <1>4 DEF Next

-----------------------------------------------------------------------------
(* While the server starts.                                                 *)

\* Nobody does what only a serving server lets him begin.
LEMMA NoCommands ==
    ASSUME NothingAsked, phase # "serving", NEW c \in Clients
    PROVE  ~Progress(c) /\ ~Cancel(c) /\ ~Request(c)
<1>1. cmd[c].pc = "idle"
  BY DEF NothingAsked
<1>2. ~Progress(c) /\ ~Cancel(c)
  BY <1>1, Zenon DEF Progress, Cancel, CmdAt, EnqueuePersist, EnqueueInsert, TermMark, TermSignal,
     TermReap, TermApply, TermPersist, TermInsert, EnsureAttach, EnsurePersist, SendApply,
     SendPersist, ResumeSpawn, ResumeError, ResumeApply, ResumePersist, ResumeInsert,
     ResumeAttach, RestorePersist, RestoreEnqueue
<1>3. \A op, pc, s, r, rec : ~Begin(c, op, pc, s, r, rec)
  BY DEF Begin
<1>4. \A op, s : ~TerminateStart(c, op, s)
  BY <1>3, Zenon DEF TerminateStart
<1>5. ~Request(c)
  BY <1>3, <1>4, Zenon DEF Request, Enqueue, Terminate, Timeout, SendLive, SendRecover,
     SendExited, RestoreStart
<1> QED
  BY <1>2, <1>5

\* A server that is down does nothing but load.
LEMMA DownOnlyLoads ==
    ASSUME NothingAsked, phase = "down", [Next]_vars
    PROVE  BootLoad \/ UNCHANGED vars
<1>1. ~Up /\ phase = "down"
  BY DEF Up
<1>2. ~Supervisor /\ ~CancelLaunch
  BY <1>1, Zenon DEF Supervisor, CancelLaunch, SupAt, TakeGuard, SelectNone, SelectNext, Mark,
     MarkPersist, MarkInsert, Stage1, StagePersist, Check1, SpawnRuntime, Check2,
     ReplacePersist, ReplaceInsert, LaunchAttach, LaunchError, Fail, FailPersist, FailInsert
<1>3. ~Events /\ ~Crash
  BY <1>1, Zenon DEF Events, Crash, Output, AsksInput, Consume, MonitorDetach, Exit, MonitorKills,
     FlushDrain, FlushWrite
<1>4. Boot => BootLoad
  BY <1>1 DEF Boot, BootLaunched, BootArchive, BootArchived, BootReattach, BootExited,
     BootSkip, BootServe
<1> QED
  BY <1>2, <1>3, <1>4, NoCommands DEF Next

\* Only the start-up and a crash move the phase.
LEMMA PhaseMoves ==
    ASSUME [Next]_vars
    PROVE  UNCHANGED phase \/ Crash \/ Boot
<1> USE DEF boot
<1>1. CASE Supervisor \/ CancelLaunch
  BY <1>1 DEF Supervisor, CancelLaunch, TakeGuard, SelectNone, SelectNext, Mark,
     MarkPersist, MarkInsert, Stage1, StagePersist, Check1, SpawnRuntime, Check2,
     ReplacePersist, ReplaceInsert, LaunchAttach, LaunchError, Fail, FailPersist, FailInsert
<1>2. CASE Events
  BY <1>2 DEF Events, Output, AsksInput, Consume, MonitorDetach, Exit, MonitorKills, Dies,
     FlushDrain, FlushWrite
<1>3. ASSUME NEW c \in Clients, Progress(c) \/ Cancel(c) \/ Request(c) PROVE UNCHANGED phase
  BY <1>3 DEF Progress, Cancel, Request, EnqueuePersist, EnqueueInsert, TermMark, TermSignal,
     TermReap, TermApply, TermPersist, TermInsert, EnsureAttach, EnsurePersist, SendApply,
     SendPersist, ResumeSpawn, ResumeError, ResumeApply, ResumePersist, ResumeInsert,
     ResumeAttach, RestorePersist, RestoreEnqueue, Enqueue, Terminate, Timeout, SendLive,
     SendRecover, SendExited, RestoreStart
<1> QED
  BY <1>1, <1>2, <1>3 DEF Next, vars

\* Commands run on a server that serves, and one that is down uses nothing.
LEMMA IdleUnlessServing == LaunchInv => NothingAsked
BY DEF LaunchInv, Entitled, NothingAsked

LEMMA BlankNext ==
    ASSUME TypeOK, NothingAsked, DownIsBlank, [Next]_vars
    PROVE  DownIsBlank'
<1>1. CASE Crash
  <2>1. /\ \A s \in Sessions : host'[s].input = NoRuntime
        /\ \A x \in Groups : watch'[x] = NoWatch
    BY <1>1 DEF Crash, NoHost
  <2> QED
    BY <2>1, RuntimesAssumption DEF DownIsBlank, InUse
<1>2. CASE phase = "down"
  <2>1. UNCHANGED <<host, watch, proc>>
    BY <1>2, DownOnlyLoads DEF BootLoad, vars, runtime
  <2> QED
    BY <1>2, <2>1 DEF DownIsBlank, InUse
<1>3. CASE ~Crash /\ phase # "down"
  <2>1. CASE Boot
    BY <1>3, <2>1 DEF Boot, BootLoad, BootLaunched, BootArchive, BootArchived, BootReattach,
       BootExited, BootSkip, BootServe, DownIsBlank
  <2>2. CASE UNCHANGED phase
    BY <1>3, <2>2 DEF DownIsBlank
  <2> QED
    BY <1>3, <2>1, <2>2, PhaseMoves
<1> QED
  BY <1>1, <1>2, <1>3


-----------------------------------------------------------------------------
(* A step of the start-up other than the supervisor's.                      *)

BootInv == UsesOne /\ LaunchUses /\ NoneForgotten

\* No session comes to the queue.
NoneQueues == \A s \in Sessions : mem'[s].status = "queued" => mem[s].status = "queued"

LEMMA QueueShrinks ==
    ASSUME TypeOK, LaunchInv, NothingAsked, Booting, [Next]_vars
    PROVE  NoneQueues
<1>1. NoneRequeued /\ NoneAppears
  BY LaunchInvNext DEF Orderly
<1>2. /\ phase # "down"
      /\ \A c \in Clients : cmd[c].pc # "q_insert"
  BY DEF NothingAsked, Booting
<1> QED
  BY <1>1, <1>2 DEF NoneRequeued, NoneAppears, NoneQueues, Present

\* It writes no process into a record, starts none, and takes none into use
\* but the living one that the record names.
Tame ==
    /\ UNCHANGED <<sup, crashes>>
    /\ \A r \in Runtimes : proc'[r].st = "alive" => proc[r].st = "alive"
    /\ \A s \in Sessions :
        /\ mem'[s].pid \in {mem[s].pid, NoRuntime}
        /\ mem'[s].ttyd = mem[s].ttyd /\ mem'[s].key = mem[s].key
        /\ mem[s].status \in Terminal => mem'[s].status \in Terminal
        /\ \A r \in Runtimes : InUse(s, r)' => InUse(s, r) \/ (r = mem[s].pid /\ Live(r))

\* Of a session whose process lives on nothing is forgotten.
DueStays ==
    \A s \in Sessions :
        (/\ Due(s) /\ Live(mem[s].pid) /\ proc'[mem[s].pid].st = "alive"
         /\ mem'[s].pid = mem[s].pid /\ mem[s].status \notin Terminal)
            => Due(s)'

\* A tame step keeps what the start-up relies on.
LEMMA TameKept ==
    ASSUME TypeOK, TypeOK', RecordsFit, Booting, BootInv, NoneQueues, Tame, DueStays
    PROVE  BootInv'
<1> USE DEF BootInv
<1>1. /\ \A s \in Sessions : mem[s].pid \in Runtimes \cup {NoRuntime}
      /\ sup.pc \notin {"idle", "select"} => sup.s \in Sessions
      /\ sup.rec.pid \in Runtimes \cup {NoRuntime}
  BY DEF TypeOK, StoreOK, SupOK, SupRec, Rec
<1>2. \A r : Live(r)' /\ r \in Runtimes => Live(r)
  BY DEF Live, Tame
<1>3. UsesOne'
  <2> SUFFICES ASSUME NEW s \in Sessions
               PROVE  /\ mem'[s].pid # NoRuntime => \A r \in Runtimes : InUse(s, r)' => r = mem'[s].pid
                      /\ mem'[s].status = "queued" => \A r \in Runtimes : ~InUse(s, r)'
    BY DEF UsesOne, Alone
  <2>1. mem[s].status = "queued" => mem[s].pid = NoRuntime
    BY DEF RecordsFit, Fits, SettledRec
  <2> QED
    BY <2>1, RuntimesAssumption DEF UsesOne, Alone, Tame, NoneQueues
<1>4. LaunchUses'
  <2> DEFINE S == sup.s
  <2>1. CASE sup.pc \in PreSpawn
    <3>1. sup.s \in Sessions /\ sup.pc \notin HoldsRuntime \cup Replaces \cup Failing
      BY <2>1, <1>1 DEF PreSpawn, HoldsRuntime, Replaces, Failing
    <3> QED
      BY <2>1, <3>1, RuntimesAssumption DEF LaunchUses, Tame, Replaces, HoldsRuntime
  <2>2. CASE sup.pc \in HoldsRuntime
    <3>1. sup.s \in Sessions /\ sup.pc \notin PreSpawn \cup Failing
      BY <2>2, <1>1 DEF PreSpawn, HoldsRuntime, Failing
    <3> QED
      BY <2>2, <3>1, RuntimesAssumption DEF LaunchUses, Tame, HoldsRuntime
  <2>3. CASE sup.pc \in Failing
    <3>1. sup.s \in Sessions /\ sup.pc \notin PreSpawn \cup HoldsRuntime \cup Replaces
      BY <2>3, <1>1 DEF PreSpawn, HoldsRuntime, Failing, Replaces
    <3>2. ~Live(mem[sup.s].pid) /\ ~Live(sup.rec.pid) /\ Alone(sup.s, sup.rec)
      BY <2>3 DEF LaunchUses
    <3>3. sup'.rec = sup.rec /\ sup'.s = sup.s /\ sup'.pc = sup.pc
      BY DEF Tame
    <3>4. ~Live(mem[sup.s].pid)'
      BY <1>1, <1>2, <3>1, <3>2 DEF Tame, Live
    <3>5. ~Live(sup.rec.pid)'
      BY <1>1, <1>2, <3>2, <3>3 DEF Live
    <3>6. Alone(sup.s, sup.rec)'
      BY <3>1, <3>2, <3>3 DEF Alone, Tame
    <3> QED
      BY <2>3, <3>1, <3>3, <3>4, <3>5, <3>6 DEF LaunchUses, Failing
  <2>4. CASE sup.pc \in {"idle", "select"}
    BY <2>4 DEF LaunchUses, Tame, PreSpawn, HoldsRuntime, Failing, Replaces
  <2> QED
    BY <2>1, <2>2, <2>3, <2>4
    DEF TypeOK, SupOK, SupRec, SupPcs, PreSpawn, HoldsRuntime, Failing
<1>5. NoneForgotten'
  <2> SUFFICES ASSUME NEW s \in Sessions, ~InHand(s)', mem'[s].status \notin Terminal,
                      Live(mem[s].pid)'
               PROVE  Due(s)'
    BY DEF NoneForgotten
  <2>1. mem'[s].pid = mem[s].pid /\ mem[s].status \notin Terminal /\ ~InHand(s)
        /\ mem[s].pid # NoRuntime
    BY DEF Tame, InHand, Busy, Live
  <2>2. Live(mem[s].pid) /\ proc'[mem[s].pid].st = "alive"
    BY <1>1, <2>1 DEF Live, Tame
  <2>3. Due(s)
    BY <2>1, <2>2 DEF NoneForgotten
  <2> QED
    BY <2>1, <2>2, <2>3 DEF DueStays
<1> QED
  BY <1>3, <1>4, <1>5

\* Fewer senders and fewer watchers: less is in use.
LEMMA LeavesUse ==
    ASSUME TypeOK, NEW s \in Sessions, host'[s].input \in {host[s].input, NoRuntime},
           \A r \in Runtimes : proc'[r].s = proc[r].s,
           \A x \in Groups : watch'[x] # NoWatch => watch[x] # NoWatch
    PROVE  \A r \in Runtimes : InUse(s, r)' => InUse(s, r)
BY RuntimesAssumption DEF InUse

\* Whoever watches a process of a session, it is the one on its record.
LEMMA WatchedIsOwn ==
    ASSUME TypeOK, UsesOne, NEW x \in Groups, watch[x] # NoWatch, proc[x[1]].s \in Sessions,
           mem[proc[x[1]].s].pid # NoRuntime
    PROVE  mem[proc[x[1]].s].pid = x[1]
<1>1. x[1] \in Runtimes
  BY DEF Groups
<1>2. InUse(proc[x[1]].s, x[1])
  BY DEF InUse
<1> QED
  BY <1>1, <1>2 DEF UsesOne, Alone

\* The end of a process takes it off the record and leaves ended what has ended.
LEMMA ExitIsTame ==
    ASSUME NEW rec \in Rec, NEW event
    PROVE  /\ AfterExit(rec, event).pid \in {rec.pid, NoRuntime}
           /\ AfterExit(rec, event).ttyd = rec.ttyd /\ AfterExit(rec, event).key = rec.key
           /\ rec.status \in Terminal => AfterExit(rec, event).status \in Terminal
BY DEF AfterExit, Ended, Terminated, Rec

\* What is due stays so while the start-up is where it was.
LEMMA DueFrame ==
    ASSUME TypeOK, UNCHANGED <<phase, todo>>, Tame,
           \A s \in Sessions : Live(mem[s].pid) /\ proc'[mem[s].pid].st = "alive" =>
               /\ Attached(s) => Attached(s)'
               /\ watch[Own(mem[s].pid)].mon = "kill" => watch'[Own(mem[s].pid)].mon = "kill"
    PROVE  DueStays
BY DEF DueStays, Due, Tame, Offered

\* Events are tame: an end is only reported of a process that is gone.
LEMMA EventsAreTame ==
    ASSUME TypeOK, RecordsFit, EndsAreTrue, Booting, BootInv, Events
    PROVE  Tame /\ DueStays
<1> USE DEF runtime, writes
<1>t. /\ mem \in [Sessions -> Rec] /\ host \in [Sessions -> HostRec]
      /\ watch \in [Groups -> WatchRec] /\ proc \in [Runtimes -> ProcRec]
      /\ \A x \in Groups : x[1] \in Runtimes
      /\ \A x \in Groups : watch[x].con \/ watch[x].mon # "off" => proc[x[1]].s \in Sessions
  BY DEF TypeOK, StoreOK, HostOK, RuntimeOK, Started, Groups
<1>1. ASSUME NEW x \in Groups, Output(x) \/ AsksInput(x) PROVE Tame /\ DueStays
  <2>1. /\ UNCHANGED <<host, proc, watch, sup, phase, todo, crashes>>
        /\ proc[x[1]].s \in Sessions /\ mem[proc[x[1]].s].status \notin Terminal
    BY <1>1, <1>t DEF Output, AsksInput, boot
  <2>2. \A s \in Sessions : \/ mem'[s] = mem[s]
                            \/ /\ s = proc[x[1]].s
                               /\ mem'[s].pid = mem[s].pid /\ mem'[s].ttyd = mem[s].ttyd
                               /\ mem'[s].key = mem[s].key
    BY <1>1, <1>t, <2>1 DEF Output, AsksInput, SetMem, Rec
  <2>3. Tame
    BY <2>1, <2>2, LeavesUse DEF Tame
  <2> QED
    BY <2>1, <2>3, DueFrame DEF Attached, Live
<1>2. ASSUME NEW x \in Groups, Consume(x) \/ MonitorDetach(x) PROVE Tame /\ DueStays
  <2> DEFINE S == proc[x[1]].s
  <2>1. /\ UNCHANGED <<proc, sup, phase, todo, crashes>> /\ S \in Sessions
        /\ watch[x] # NoWatch /\ proc[x[1]].st = "dead"
    BY <1>2, <1>t DEF Consume, MonitorDetach, boot, EndsAreTrue, NoWatch
  <2>2. \A s \in Sessions : \/ mem'[s] = mem[s]
                            \/ s = S /\ mem'[s] = AfterExit(mem[s], watch[x].evt)
    BY <1>2, <1>t, <2>1 DEF Consume, MonitorDetach, SetMem
  <2>3. /\ host'[S].input = NoRuntime
        /\ \A s \in Sessions : s # S => host'[s] = host[s]
    BY <1>2, <1>t, <2>1 DEF Consume, MonitorDetach, DetachedHost, HostRec
  <2>4. \A y \in Groups : /\ y # x => watch'[y] = watch[y]
                          /\ watch[y].mon = "kill" => watch'[y].mon = "kill"
    BY <1>2, <1>t DEF Consume, MonitorDetach, WatchRec
  <2>5. ~Live(mem[S].pid)
    BY <2>1, WatchedIsOwn DEF BootInv, Live
  <2> HIDE DEF S
  <2>6. Tame
    <3>1. \A s \in Sessions, r \in Runtimes : InUse(s, r)' => InUse(s, r)
      BY <2>1, <2>3, <2>4, LeavesUse
    <3> QED
      BY <1>t, <2>1, <2>2, <3>1, ExitIsTame DEF Tame
  <2>7. ASSUME NEW s \in Sessions, Live(mem[s].pid)
        PROVE  /\ Attached(s) => Attached(s)'
               /\ watch[Own(mem[s].pid)].mon = "kill" => watch'[Own(mem[s].pid)].mon = "kill"
    <3>1. s # S /\ Own(mem[s].pid) \in Groups
      BY <1>t, <2>5, <2>7 DEF Live, Rec, Own, Groups
    <3> QED
      BY <2>1, <2>3, <2>4, <3>1 DEF Attached, Live
  <2> QED
    BY <2>1, <2>6, <2>7, DueFrame
<1>3. ASSUME NEW r \in Runtimes, Exit(r) \/ MonitorKills(r) PROVE Tame /\ DueStays
  <2>1. /\ UNCHANGED <<mem, host, sup, phase, todo, crashes>>
        /\ proc'[r].st = "dead"
        /\ \A q \in Runtimes : proc'[q].s = proc[q].s /\ (q # r => proc'[q] = proc[q])
    BY <1>3, <1>t DEF Exit, MonitorKills, Dies, boot, ProcRec
  <2>2. \A y \in Groups : /\ y[1] # r => watch'[y] = watch[y]
                          /\ watch'[y] # NoWatch => watch[y] # NoWatch
    <3>1. \A y \in Groups : y[1] # r \/ watch[y].mon = "off" => watch'[y] = watch[y]
      BY <1>3, <1>t DEF Exit, MonitorKills, Dies, Gone
    <3> QED
      BY <3>1 DEF NoWatch
  <2>3. Tame
    <3>1. \A s \in Sessions, q \in Runtimes : InUse(s, q)' => InUse(s, q)
      BY <2>1, <2>2, LeavesUse
    <3> QED
      BY <2>1, <3>1 DEF Tame
  <2>4. ASSUME NEW s \in Sessions, Live(mem[s].pid), proc'[mem[s].pid].st = "alive"
        PROVE  /\ Attached(s) => Attached(s)'
               /\ watch[Own(mem[s].pid)].mon = "kill" => watch'[Own(mem[s].pid)].mon = "kill"
    <3>1. mem[s].pid # r /\ mem[s].pid # NoRuntime
          /\ Own(mem[s].pid) \in Groups /\ Own(mem[s].pid)[1] # r
      BY <1>t, <2>1, <2>4 DEF Live, Rec, Own, Groups
    <3>2. host[s].input # r
      BY <3>1 DEF BootInv, UsesOne, Alone, InUse
    <3>3. Attached(s) => Attached(s)'
      BY <1>t, <2>1, <3>2 DEF Attached, Live, HostRec
    <3> QED
      BY <2>2, <3>1, <3>3
  <2> QED
    BY <2>1, <2>3, <2>4, DueFrame
<1>4. CASE FlushDrain \/ \E s \in Sessions : FlushWrite(s)
  <2>1. UNCHANGED <<mem, host, proc, watch, sup, phase, todo, crashes>>
    BY <1>4 DEF FlushDrain, FlushWrite, boot
  <2>2. Tame
    BY <2>1, LeavesUse DEF Tame
  <2> QED
    BY <2>1, <2>2, DueFrame DEF Attached, Live
<1> QED
  BY <1>1, <1>2, <1>3, <1>4 DEF Events

\* So is every step of the start-up but the first and the last.
LEMMA BootIsTame ==
    ASSUME TypeOK, RecordsFit, Booting, BootInv, Boot, ~BootServe
    PROVE  Tame /\ DueStays
<1> USE DEF runtime, writes
<1>t. /\ mem \in [Sessions -> Rec] /\ host \in [Sessions -> HostRec]
      /\ watch \in [Groups -> WatchRec] /\ proc \in [Runtimes -> ProcRec]
      /\ \A x \in Groups : x[1] \in Runtimes
      /\ \A r \in Runtimes : Own(r) \in Groups /\ Restored(r) \in Groups /\ Own(r) # Restored(r)
                             /\ Own(r)[1] = r /\ Restored(r)[1] = r
  BY DEF TypeOK, StoreOK, HostOK, RuntimeOK, Groups, Own, Restored
<1>p. \A s \in Sessions : Live(mem[s].pid) => /\ mem[s].pid \in Runtimes
                                              /\ mem[s].status \notin {"absent", "queued"}
                                              /\ proc[mem[s].pid].s = s
  BY <1>t DEF Live, Rec, RecordsFit, Fits, SettledRec
<1>1. CASE BootLaunched
  <2>1. UNCHANGED <<mem, host, proc, watch, sup, crashes>> /\ phase' = "archive"
        /\ todo' = {s \in Unfinished : ~mem[s].ttyd}
    BY <1>1 DEF BootLaunched
  <2>2. Tame
    BY <2>1, LeavesUse DEF Tame
  <2> QED
    BY <1>p, <2>1, <2>2 DEF DueStays, Due, Unfinished
<1>2. ASSUME NEW s \in Sessions, BootArchive(s) PROVE Tame /\ DueStays
  <2>1. /\ UNCHANGED <<host, proc, watch, sup, phase, crashes>> /\ phase = "archive" /\ todo' = todo \ {s}
        /\ mem'[s] = [mem[s] EXCEPT !.status = "archived", !.pid = NoRuntime]
        /\ \A t \in Sessions : t # s => mem'[t] = mem[t]
    BY <1>2, <1>t DEF BootArchive, SetMem
  <2>2. /\ mem'[s].pid = NoRuntime /\ mem'[s].ttyd = mem[s].ttyd
        /\ mem'[s].key = mem[s].key /\ mem'[s].status = "archived"
    BY <1>t, <2>1 DEF Rec
  <2>3. Tame
    BY <2>1, <2>2, LeavesUse DEF Tame, Terminal
  <2> QED
    BY <2>1, <2>2, <2>3 DEF DueStays, Due, Live
<1>3. CASE BootArchived
  <2>1. UNCHANGED <<mem, host, proc, watch, sup, crashes>> /\ phase' = "restore" /\ phase = "archive"
        /\ todo = {} /\ todo' = {s \in Unfinished : mem[s].ttyd}
    BY <1>3 DEF BootArchived
  <2>2. Tame
    BY <2>1, LeavesUse DEF Tame
  <2> QED
    BY <1>p, <2>1, <2>2 DEF DueStays, Due, Unfinished
<1>4. ASSUME NEW s \in Sessions, BootReattach(s) PROVE Tame /\ DueStays
  <2> DEFINE R == mem[s].pid
  <2>1. /\ UNCHANGED <<proc, sup, phase, crashes>> /\ phase = "restore" /\ todo' = todo \ {s}
        /\ Live(R) /\ R \in Runtimes /\ proc[R].s = s
        /\ \A t \in Sessions : t # s => mem'[t] = mem[t] /\ host'[t] = host[t]
    BY <1>4, <1>t, <1>p DEF BootReattach, SetMem, AttachedHost
  <2>2. /\ mem'[s].pid = R /\ mem'[s].ttyd = mem[s].ttyd /\ mem'[s].key = mem[s].key
        /\ mem[s].status \in Terminal => mem'[s].status \in Terminal
    BY <1>4, <1>t DEF BootReattach, SetMem, Recovered, Terminal, Rec
  <2>3. PICK x \in {Own(R), Restored(R)} : \A y \in Groups : y # x => watch'[y] = watch[y]
    <3>1. \/ \A y \in Groups : y # Own(R) => watch'[y] = watch[y]
          \/ \A y \in Groups : y # Restored(R) => watch'[y] = watch[y]
      BY <1>4, <1>t DEF BootReattach
    <3> QED
      BY <3>1
  <2>4. \/ "owner" \in Faults /\ UNCHANGED host /\ watch'[Own(R)].mon = "kill"
        \/ host'[s].input = R /\ watch'[Own(R)] = watch[Own(R)]
    BY <1>4, <1>t, <2>1, RuntimesAssumption DEF BootReattach, AttachedHost, Attached, Watched, Restored
  <2>5. x[1] = R
    BY <1>t, <2>1
  <2> HIDE DEF R
  <2>6. Tame
    <3>1. ASSUME NEW t \in Sessions, NEW r \in Runtimes, InUse(t, r)'
          PROVE  InUse(t, r) \/ (t = s /\ r = R)
      BY <1>t, <2>1, <2>3, <2>4, <2>5, <3>1 DEF InUse
    <3>2. mem[s].pid = R /\ Live(R)
      BY <2>1 DEF R
    <3>3. \A t \in Sessions, r \in Runtimes : InUse(t, r)' => InUse(t, r) \/ (r = mem[t].pid /\ Live(r))
      BY <3>1, <3>2
    <3> QED
      BY <2>1, <2>2, <3>2, <3>3 DEF Tame
  <2>7. ASSUME NEW t \in Sessions, Due(t), Live(mem[t].pid), mem'[t].pid = mem[t].pid
        PROVE  Due(t)'
    <3>1. CASE t = s
      BY <2>1, <2>2, <2>4, <3>1 DEF Due, Attached, Live, Offered
    <3>2. CASE t # s
      <4>1. mem[t].pid \in Runtimes /\ mem[t].pid # R
        BY <1>p, <2>1, <2>7, <3>2
      <4>2. Own(mem[t].pid) \in Groups /\ Own(mem[t].pid) # x
        BY <1>t, <2>5, <4>1
      <4> QED
        BY <2>1, <2>3, <2>7, <3>2, <4>2 DEF Due, Attached, Live, Offered
    <3> QED
      BY <3>1, <3>2
  <2> QED
    BY <2>6, <2>7 DEF DueStays
<1>5. ASSUME NEW s \in Sessions, BootExited(s) PROVE Tame /\ DueStays
  <2>1. /\ UNCHANGED <<proc, watch, sup, phase, crashes>> /\ phase = "restore" /\ todo' = todo \ {s}
        /\ ~Live(mem[s].pid) /\ host'[s].input = NoRuntime
        /\ mem'[s] = AfterExit(mem[s], "completed")
        /\ \A t \in Sessions : t # s => mem'[t] = mem[t] /\ host'[t] = host[t]
    BY <1>5, <1>t DEF BootExited, SetMem, DetachedHost, HostRec
  <2>2. Tame
    <3>1. \A t \in Sessions, r \in Runtimes : InUse(t, r)' => InUse(t, r)
      BY <2>1, LeavesUse
    <3> QED
      BY <1>t, <2>1, <3>1, ExitIsTame DEF Tame
  <2> QED
    BY <2>1, <2>2 DEF DueStays, Due, Attached, Live, Tame, Offered
<1>6. ASSUME NEW s \in Sessions, BootSkip(s) PROVE Tame /\ DueStays
  <2>1. /\ UNCHANGED <<mem, host, proc, watch, sup, phase, crashes>> /\ phase = "restore"
        /\ todo' = todo \ {s}
        /\ Attached(s) \/ ~Live(mem[s].pid) \/ ~Offered(mem[s].key)
    BY <1>6 DEF BootSkip, Live
  <2>2. Tame
    BY <2>1, LeavesUse DEF Tame
  <2> QED
    BY <2>1, <2>2 DEF DueStays, Due, Attached, Live, Tame, Offered
<1> QED
  BY <1>1, <1>2, <1>3, <1>4, <1>5, <1>6 DEF Boot, Booting, BootLoad

-----------------------------------------------------------------------------
(* A step of the supervisor while the server starts.                        *)

\* It concerns only the session it has in hand.
Elsewhere ==
    /\ sup'.pc \notin {"idle", "select"} => sup'.s = sup.s
    /\ UNCHANGED <<phase, todo, crashes>>
    /\ \A s \in Sessions \ {sup.s} :
        /\ mem'[s] = mem[s] /\ host'[s] = host[s]
        /\ \A r \in Runtimes : InUse(s, r)' => InUse(s, r)
        /\ ~InHand(s) /\ Live(mem[s].pid) =>
              watch'[Own(mem[s].pid)].mon = watch[Own(mem[s].pid)].mon
    /\ \A r \in Runtimes : Started(r) => proc'[r] = proc[r]

\* What it is to leave of the session in hand.
HandKept ==
    \A s \in Sessions : s = sup.s =>
        /\ Alone(s, mem[s])'
        /\ mem'[s].status # "queued" \/ \A r \in Runtimes : ~InUse(s, r)'
        /\ \/ sup'.pc \notin {"idle", "select"}
           \/ mem'[s].status \in Terminal \/ ~Live(mem[s].pid)' \/ Due(s)'

\* Such a step keeps what the start-up relies on.
LEMMA HandIsKept ==
    ASSUME TypeOK, RecordsFit, Booting, BootInv, Elsewhere, HandKept, LaunchUses'
    PROVE  BootInv'
<1> USE DEF BootInv
<1>1. UsesOne'
  <2> SUFFICES ASSUME NEW s \in Sessions
               PROVE  /\ Alone(s, mem[s])'
                      /\ mem'[s].status = "queued" => \A r \in Runtimes : ~InUse(s, r)'
    BY DEF UsesOne
  <2>1. CASE s = sup.s
    BY <2>1 DEF HandKept
  <2>2. CASE s # sup.s
    BY <2>2 DEF Elsewhere, UsesOne, Alone
  <2> QED
    BY <2>1, <2>2
<1>2. NoneForgotten'
  <2> SUFFICES ASSUME NEW s \in Sessions, ~InHand(s)', mem'[s].status \notin Terminal,
                      Live(mem[s].pid)'
               PROVE  Due(s)'
    BY DEF NoneForgotten
  <2>1. CASE s = sup.s
    BY <2>1 DEF HandKept, Elsewhere, InHand, Busy
  <2>2. CASE s # sup.s
    <3>1. /\ mem'[s] = mem[s] /\ host'[s] = host[s] /\ ~InHand(s)
          /\ Started(mem[s].pid)
      BY <2>2 DEF Elsewhere, InHand, Live, RecordsFit, Fits
    <3>2. Live(mem[s].pid) /\ Live(mem[s].pid)'
      BY <3>1 DEF Live, Elsewhere, Started
    <3>3. Due(s)
      BY <2>2, <3>1, <3>2 DEF NoneForgotten
    <3>4. Attached(s) => Attached(s)'
      BY <3>1, RuntimesAssumption DEF Attached, Live, Elsewhere, Started, TypeOK, HostOK, HostRec
    <3> QED
      BY <2>2, <3>1, <3>2, <3>3, <3>4 DEF Due, Elsewhere, Offered
  <2> QED
    BY <2>1, <2>2
<1> QED
  BY <1>1, <1>2

\* The processes and watchers it changes are those of one process: one it has
\* just started, or the one it holds.
Touches(r) ==
    /\ r \in Runtimes /\ proc'[r].s = sup.s
    /\ Started(r) => proc'[r] = proc[r]
    /\ \A q \in Runtimes : q # r => proc'[q] = proc[q]
    /\ \A x \in Groups : x[1] # r => watch'[x] = watch[x]

\* So it leaves the other sessions as they are.
LEMMA TouchesElsewhere ==
    ASSUME TypeOK, RecordsFit, UNCHANGED <<phase, todo, crashes>>,
           sup'.pc \notin {"idle", "select"} => sup'.s = sup.s,
           \A s \in Sessions \ {sup.s} : mem'[s] = mem[s] /\ host'[s] = host[s],
           UNCHANGED <<proc, watch>> \/ \E r \in Runtimes : Touches(r)
    PROVE  Elsewhere
<1>1. CASE UNCHANGED <<proc, watch>>
  BY <1>1 DEF Elsewhere, InUse
<1>2. ASSUME NEW r \in Runtimes, Touches(r) PROVE Elsewhere
  <2>1. ASSUME NEW s \in Sessions, s # sup.s
        PROVE  /\ \A q \in Runtimes : InUse(s, q)' => InUse(s, q)
               /\ Live(mem[s].pid) =>
                     watch'[Own(mem[s].pid)].mon = watch[Own(mem[s].pid)].mon
    <3>1. ASSUME NEW q \in Runtimes, InUse(s, q)' PROVE InUse(s, q)
      BY <1>2, <2>1, <3>1 DEF Touches, InUse
    <3>2. ASSUME Live(mem[s].pid)
          PROVE  watch'[Own(mem[s].pid)].mon = watch[Own(mem[s].pid)].mon
      <4>1. mem[s].pid \in Runtimes /\ Started(mem[s].pid) /\ proc[mem[s].pid].s = s
        BY <2>1, <3>2 DEF RecordsFit, Fits, Live, Started
      <4>2. mem[s].pid # r
        BY <1>2, <2>1, <4>1 DEF Touches
      <4>3. Own(mem[s].pid) \in Groups /\ Own(mem[s].pid)[1] = mem[s].pid
        BY <4>1 DEF Own, Groups
      <4> QED
        BY <1>2, <4>2, <4>3 DEF Touches
    <3> QED
      BY <3>1, <3>2
  <2> QED
    BY <1>2, <2>1 DEF Elsewhere, Touches
<1> QED
  BY <1>1, <1>2

\* Before its process starts, nothing of the session is in use.
LEMMA EarlyKept ==
    ASSUME TypeOK, LaunchUses, sup.pc \in PreSpawn, UNCHANGED <<proc, watch>>,
           sup'.pc \in PreSpawn \cup {"fail", "select"}, sup'.pc # "select" => sup'.s = sup.s,
           \A s \in Sessions : host'[s].input = host[s].input,
           \A s \in Sessions : s = sup.s => mem'[s].pid = NoRuntime,
           sup'.rec.pid = NoRuntime
    PROVE  LaunchUses' /\ HandKept
<1>1. sup.s \in Sessions
  BY DEF TypeOK, SupOK, PreSpawn
<1>2. \A s \in Sessions, r \in Runtimes : InUse(s, r)' <=> InUse(s, r)
  BY DEF InUse
<1>3. \A s \in Sessions : s = sup.s => \A r \in Runtimes : ~InUse(s, r)'
  BY <1>2 DEF LaunchUses
<1>4. ~Live(NoRuntime)'
  BY DEF Live
<1>5. HandKept
  BY <1>3, <1>4 DEF HandKept, Alone
<1>6. LaunchUses'
  <2>1. CASE sup'.pc = "select"
    BY <2>1 DEF LaunchUses, PreSpawn, HoldsRuntime, Replaces, Failing
  <2>2. CASE sup'.pc \in PreSpawn \cup {"fail"}
    <3>1. /\ mem'[sup'.s].pid = NoRuntime /\ \A r \in Runtimes : ~InUse(sup.s, r)'
          /\ sup'.pc \notin HoldsRuntime \cup Replaces /\ sup'.pc # "attach"
      BY <1>1, <1>3, <2>2 DEF PreSpawn, HoldsRuntime, Replaces
    <3>2. ~Live(mem[sup.s].pid)' /\ ~Live(sup.rec.pid)'
      BY <3>1 DEF Live
    <3>3. Alone(sup.s, sup.rec)'
      BY DEF Alone
    <3> QED
      BY <3>1, <3>2, <3>3 DEF LaunchUses
  <2> QED
    BY <2>1, <2>2
<1> QED
  BY <1>5, <1>6

\* Once it holds its process, only that is in use; with none, the launch fails.
LEMMA HoldingKept ==
    ASSUME sup.s \in Sessions, NEW r \in Runtimes,
           \A s \in Sessions : s = sup.s =>
               /\ \A q \in Runtimes : InUse(s, q)' => q = r
               /\ mem'[s].status # "queued" /\ mem'[s].pid \in {NoRuntime, r}
               /\ \/ sup'.pc \notin {"idle", "select"}
                  \/ ~Live(mem[s].pid)' \/ Due(s)'
    PROVE  HandKept
BY DEF HandKept, Alone

\* A step that attaches, tells or only takes note changes what is in use by at
\* most the process that it touches.
LEMMA TouchedUse ==
    ASSUME TypeOK, NEW s \in Sessions, NEW r \in Runtimes, UNCHANGED proc,
           host'[s].input \in {host[s].input, r},
           \A x \in Groups : x[1] # r => watch'[x] = watch[x],
           \A q \in Runtimes : InUse(s, q) => q = r
    PROVE  \A q \in Runtimes : InUse(s, q)' => q = r
BY DEF InUse

\* A signal to the watchers of a process touches no other.
LEMMA SignalTouches ==
    ASSUME NEW r \in Runtimes, watch' = Signalled(watch, {Own(r)}), TypeOK
    PROVE  \A x \in Groups : x[1] # r => watch'[x] = watch[x]
BY DEF Signalled, Own, TypeOK, RuntimeOK

\* Every step of the supervisor keeps what the start-up relies on.
LEMMA SupervisorBoots ==
    ASSUME TypeOK, TypeOK', LaunchInv, RecordsFit, Booting, BootInv, Supervisor
    PROVE  BootInv'
<1> USE DEF runtime, writes, boot, SupAt, BootInv
<1>t. /\ sup \in SupRec /\ mem \in [Sessions -> Rec] /\ host \in [Sessions -> HostRec]
      /\ watch \in [Groups -> WatchRec]
      /\ sup.pc \notin {"idle", "select"} => sup.s \in Sessions
      /\ sup.pc \in HoldsRuntime => Started(sup.rt) /\ sup.rt \in Runtimes /\ proc[sup.rt].s = sup.s
      /\ sup.pc \in PastMark => mem[sup.s].status # "queued"
      /\ sup.pc \in SupClones => sup.rec.status # "queued"
  BY DEF TypeOK, SupOK, StoreOK, HostOK, RuntimeOK, RecordsFit, Started, LaunchInv, SupSettled,
     Settled, SettledRec
<1>k. Elsewhere /\ LaunchUses' /\ HandKept => BootInv'
  BY HandIsKept
<1>c. sup.pc \in {"replace_persist", "replace_insert", "fail_persist", "fail_insert"}
        => sup.pc \in SupClones /\ sup.pc \in PastMark
  BY DEF SupClones, PastMark, SupPcs
<1>1. CASE TakeGuard \/ SelectNone
  <2>1. UNCHANGED <<mem, host, proc, watch, phase, todo, crashes>> /\ sup'.pc \in {"idle", "select"}
        /\ sup.pc \in {"idle", "select"}
    BY <1>1 DEF TakeGuard, SelectNone, SupLoop, IdleSup
  <2>2. \A s, r : InUse(s, r)' <=> InUse(s, r)
    BY <2>1 DEF InUse
  <2>3. UsesOne' /\ LaunchUses'
    BY <2>1, <2>2 DEF UsesOne, Alone, LaunchUses, PreSpawn, HoldsRuntime, Replaces, Failing
  <2>4. NoneForgotten'
    BY <2>1 DEF NoneForgotten, InHand, Busy, Due, Attached, Live, Offered
  <2> QED
    BY <2>3, <2>4
<1>2. ASSUME NEW s \in Sessions, SelectNext(s) PROVE BootInv'
  <2>1. UNCHANGED <<mem, host, proc, watch, phase, todo, crashes>> /\ sup.pc = "select"
        /\ sup'.pc = "mark" /\ sup'.s = s /\ sup'.rec = NoRec /\ mem[s].status = "queued"
    BY <1>2 DEF SelectNext, IdleSup, Eligible
  <2>2. \A t, r : InUse(t, r)' <=> InUse(t, r)
    BY <2>1 DEF InUse
  <2>3. mem[s].pid = NoRuntime
    BY <2>1 DEF RecordsFit, Fits, SettledRec
  <2>4. UsesOne' /\ LaunchUses'
    BY <2>1, <2>2, <2>3 DEF UsesOne, Alone, LaunchUses, PreSpawn, HoldsRuntime, Replaces, Failing,
       NoRec
  <2>5. NoneForgotten'
    BY <2>1 DEF NoneForgotten, InHand, Busy, Due, Attached, Live, Offered
  <2> QED
    BY <2>4, <2>5
<1>3. CASE \/ Mark \/ MarkPersist \/ MarkInsert \/ Stage1 \/ Check1 \/ LaunchError
           \/ StagePersist("stage1_persist", "check1") \/ StagePersist("stage2_persist", "spawn")
  <2>1. sup.pc \in PreSpawn /\ UNCHANGED <<proc, watch, phase, todo, crashes>>
    BY <1>3 DEF Mark, MarkPersist, MarkInsert, Stage1, Check1, LaunchError, StagePersist, PreSpawn
  <2>2. sup.s \in Sessions /\ mem[sup.s].pid = NoRuntime /\ sup.rec.pid = NoRuntime
    BY <1>t, <2>1 DEF LaunchUses, PreSpawn
  <2>3. /\ sup'.pc \in PreSpawn \cup {"fail", "select"}
        /\ sup'.pc # "select" => sup'.s = sup.s
    BY <1>3, <1>t DEF Mark, MarkPersist, MarkInsert, Stage1, Check1, LaunchError, StagePersist,
       SupGo, SupLoop, IdleSup, PreSpawn, SupRec
  <2>4. sup'.rec \in {sup.rec, NoRec, mem[sup.s], [mem[sup.s] EXCEPT !.status = "spawning"]}
    BY <1>3, <1>t DEF Mark, MarkPersist, MarkInsert, Stage1, Check1, LaunchError, StagePersist,
       SupGo, SupLoop, IdleSup, SupRec
  <2>5. /\ mem'[sup.s] \in {mem[sup.s], sup.rec, [mem[sup.s] EXCEPT !.status = "spawning"]}
        /\ \A s \in Sessions : s # sup.s => mem'[s] = mem[s] /\ host'[s] = host[s]
        /\ host'[sup.s].input = host[sup.s].input
    BY <1>3, <1>t, <2>2 DEF Mark, MarkPersist, MarkInsert, Stage1, Check1, LaunchError, StagePersist,
       SetMem, HostRec
  <2>6. mem'[sup.s].pid = NoRuntime /\ sup'.rec.pid = NoRuntime
    BY <1>t, <2>2, <2>4, <2>5 DEF Rec, NoRec
  <2>7. LaunchUses' /\ HandKept
    BY <2>1, <2>3, <2>5, <2>6, EarlyKept
  <2>8. Elsewhere
    BY <2>1, <2>3, <2>5, TouchesElsewhere
  <2> QED
    BY <2>7, <2>8, <1>k
<1>4. ASSUME NEW r \in Runtimes, SpawnRuntime(r) PROVE BootInv'
  <2>1. /\ sup.pc = "spawn" /\ UNCHANGED <<mem, host, phase, todo, crashes>>
        /\ sup'.pc = "check2" /\ sup'.s = sup.s /\ sup'.rt = r /\ ~Started(r)
    BY <1>4, <1>t DEF SpawnRuntime, StartProcess, SupRec, Started
  <2>2. /\ \A q \in Runtimes : q # r => proc'[q] = proc[q]
        /\ proc'[r].s = sup.s
        /\ \A x \in Groups : x[1] # r => watch'[x] = watch[x]
    BY <1>4, <1>t DEF SpawnRuntime, StartProcess, Own, TypeOK, RuntimeOK
  <2>3. sup.s \in Sessions /\ mem[sup.s].pid = NoRuntime /\ \A q \in Runtimes : ~InUse(sup.s, q)
    BY <1>t, <2>1 DEF LaunchUses, PreSpawn
  <2>4. \A s \in Sessions : s = sup.s => \A q \in Runtimes : InUse(s, q)' => q = r
    BY <2>1, <2>2, <2>3 DEF InUse
  <2>5. LaunchUses'
    BY <2>1, <2>3, <2>4 DEF LaunchUses, PreSpawn, HoldsRuntime, Replaces, Failing
  <2>6. mem[sup.s].status # "queued"
    BY <1>t, <2>1 DEF PastMark, SupPcs
  <2>7. HandKept
    BY <2>1, <2>3, <2>4, <2>6, HoldingKept
  <2>8. Elsewhere
    BY <2>1, <2>2, TouchesElsewhere DEF Touches
  <2> QED
    BY <2>5, <2>7, <2>8, <1>k
<1>h. ASSUME sup.pc \in HoldsRuntime
      PROVE  /\ sup.s \in Sessions /\ sup.rt \in Runtimes /\ sup.rt # NoRuntime
             /\ mem[sup.s].status # "queued"
             /\ \A s \in Sessions : s = sup.s => \A q \in Runtimes : InUse(s, q) => q = sup.rt
             /\ (sup.pc # "attach" => mem[sup.s].pid = NoRuntime)
  BY <1>h, <1>t, RuntimesAssumption DEF LaunchUses, HoldsRuntime, PastMark, SupPcs
\* While it holds a process the supervisor touches no other.
<1>x. ASSUME sup.pc \in HoldsRuntime, UNCHANGED <<proc, phase, todo, crashes>>,
             \A x \in Groups : x[1] # sup.rt => watch'[x] = watch[x],
             sup'.pc \notin {"idle", "select"} => sup'.s = sup.s,
             \A s \in Sessions \ {sup.s} : mem'[s] = mem[s] /\ host'[s] = host[s]
      PROVE  Elsewhere
  BY <1>x, <1>t, TouchesElsewhere DEF Touches
<1>5. CASE Check2 \/ ReplacePersist
  <2>1. /\ sup.pc \in {"check2", "replace_persist"} /\ UNCHANGED <<mem, host, proc, phase, todo, crashes>>
        /\ sup'.s = sup.s /\ sup'.rt = sup.rt
        /\ sup'.pc \in {"replace_persist", "replace_insert", "fail"}
    BY <1>5, <1>t DEF Check2, ReplacePersist, SupGo, SupRec
  <2>2. \A x \in Groups : x[1] # sup.rt => watch'[x] = watch[x]
    BY <1>5, <1>t, <2>1, SignalTouches DEF Check2, ReplacePersist, HoldsRuntime
  <2>3. /\ sup'.pc = "fail" => sup'.rec = NoRec
        /\ sup'.pc # "fail" => sup'.rec.pid = sup.rt /\ sup'.rec.ttyd
    <3>1. CASE Check2
      <4>1. \/ sup'.pc = "fail" /\ sup'.rec = NoRec
            \/ sup'.rec = LaunchedRec(sup.s, mem[sup.s], sup.rt)
        BY <3>1, <1>t DEF Check2, SupGo, SupRec, HoldsClone
      <4>2. \A s, old, r : LaunchedRec(s, old, r).pid = r /\ LaunchedRec(s, old, r).ttyd
        BY DEF LaunchedRec
      <4>3. CASE sup'.rec = LaunchedRec(sup.s, mem[sup.s], sup.rt)
        <5>1. sup'.pc = "replace_persist" \/ sup'.rec = NoRec
          BY <3>1, <1>t DEF Check2, SupGo, SupRec, HoldsClone
        <5>2. ~NoRec.ttyd
          BY DEF NoRec
        <5> QED
          BY <4>2, <4>3, <5>1, <5>2
      <4> QED
        BY <4>1, <4>3
    <3>2. CASE ReplacePersist
      <4>1. sup.rec.pid = sup.rt /\ sup.rec.ttyd
        BY <3>2 DEF ReplacePersist, LaunchUses, Replaces
      <4> QED
        BY <3>2, <1>t, <2>1, <4>1 DEF ReplacePersist, SupGo, SupRec, HoldsClone
    <3> QED
      BY <1>5, <3>1, <3>2
  <2>4. \A s \in Sessions : s = sup.s => \A q \in Runtimes : InUse(s, q)' => q = sup.rt
    BY <1>h, <2>1, <2>2, TouchedUse DEF HoldsRuntime
  <2>5. sup.pc \in HoldsRuntime /\ mem[sup.s].pid = NoRuntime /\ sup.s \in Sessions
        /\ mem[sup.s].status # "queued" /\ sup.rt \in Runtimes
    <3>1. sup.pc \in HoldsRuntime /\ sup.pc # "attach"
      BY <2>1 DEF HoldsRuntime
    <3> QED
      BY <3>1, <1>h
  <2>6. LaunchUses'
    <3>1. CASE sup'.pc = "fail"
      BY <2>1, <2>3, <2>5, <3>1 DEF LaunchUses, PreSpawn, HoldsRuntime, Replaces, Failing, NoRec,
         Alone, Live
    <3>2. CASE sup'.pc \in {"replace_persist", "replace_insert"}
      BY <2>1, <2>3, <2>4, <2>5, <3>2 DEF LaunchUses, PreSpawn, HoldsRuntime, Replaces, Failing
    <3> QED
      BY <2>1, <3>1, <3>2
  <2>7. HandKept
    BY <2>1, <2>4, <2>5, HoldingKept
  <2>8. Elsewhere
    BY <1>x, <2>1, <2>2, <2>5
  <2> QED
    BY <2>6, <2>7, <2>8, <1>k
<1>6. CASE ReplaceInsert
  <2>1. /\ sup.pc = "replace_insert" /\ UNCHANGED <<host, proc, watch, phase, todo, crashes>>
        /\ sup'.pc = "attach" /\ sup'.s = sup.s /\ sup'.rt = sup.rt
        /\ mem' = [mem EXCEPT ![sup.s] = sup.rec]
    BY <1>6, <1>t DEF ReplaceInsert, SetMem, SupGo, SupRec
  <2>2. sup.pc \in HoldsRuntime /\ sup.s \in Sessions /\ sup.rt \in Runtimes
        /\ sup.rec.pid = sup.rt /\ sup.rec.ttyd /\ sup.rec.status # "queued"
    BY <1>h, <1>t, <1>c, <2>1 DEF HoldsRuntime, LaunchUses, Replaces
  <2>3. mem'[sup.s] = sup.rec /\ \A s \in Sessions : s # sup.s => mem'[s] = mem[s]
    BY <1>t, <2>1, <2>2
  <2>4. \A s \in Sessions : s = sup.s => \A q \in Runtimes : InUse(s, q)' => q = sup.rt
    BY <1>h, <2>1, <2>2 DEF InUse
  <2>5. LaunchUses'
    BY <2>1, <2>2, <2>3, <2>4 DEF LaunchUses, PreSpawn, HoldsRuntime, Replaces, Failing
  <2>6. HandKept
    BY <2>1, <2>2, <2>3, <2>4, HoldingKept
  <2>7. Elsewhere
    BY <1>x, <2>1, <2>2, <2>3
  <2> QED
    BY <2>5, <2>6, <2>7, <1>k
<1>7. CASE LaunchAttach
  <2>1. /\ sup.pc = "attach" /\ UNCHANGED <<mem, proc, phase, todo, crashes>>
        /\ host' = [host EXCEPT ![sup.s] = AttachedHost(sup.s, Own(sup.rt))]
        /\ \/ sup'.pc = "select"
           \/ sup'.pc = "fail" /\ sup'.s = sup.s /\ sup'.rec = NoRec /\ ~Live(sup.rt)
    BY <1>7, <1>t DEF LaunchAttach, AttachAndConsume, SupLoop, SupGo, SupRec, HoldsClone, IdleSup
  <2>2. sup.pc \in HoldsRuntime /\ sup.s \in Sessions /\ sup.rt \in Runtimes /\ sup.rt # NoRuntime
        /\ mem[sup.s].status # "queued"
    BY <1>h, <2>1 DEF HoldsRuntime
  <2>3. mem[sup.s].pid \in {NoRuntime, sup.rt} /\ (mem[sup.s].pid # NoRuntime => mem[sup.s].ttyd)
    BY <2>1 DEF LaunchUses
  <2>4. \A x \in Groups : x[1] # sup.rt => watch'[x] = watch[x]
    <3>1. \A K, x : x \in Groups /\ x \notin K => Signalled(watch, K)[x] = watch[x]
      BY DEF Signalled
    <3> QED
      BY <1>7, <3>1 DEF LaunchAttach, AttachAndConsume, Own, Signalled
  <2>5. /\ \A s \in Sessions : s # sup.s => host'[s] = host[s]
        /\ host'[sup.s].input \in {host[sup.s].input, sup.rt}
        /\ Live(sup.rt) => Live(host'[sup.s].input)
    BY <1>t, <2>1, <2>2 DEF AttachedHost, Attached, Own
  <2>6. \A s \in Sessions : s = sup.s => \A q \in Runtimes : InUse(s, q)' => q = sup.rt
    BY <1>h, <2>1, <2>2, <2>4, <2>5, TouchedUse
  <2>7. ASSUME NEW s \in Sessions, s = sup.s, Live(mem[s].pid)', sup'.pc = "select"
        PROVE  Due(s)'
    <3>1. mem[s].pid = sup.rt /\ Live(sup.rt) /\ mem[s].ttyd
      BY <2>1, <2>3, <2>7 DEF Live
    <3>2. Attached(s)'
      BY <2>1, <2>5, <2>7, <3>1 DEF Attached, Live
    <3> QED
      BY <2>1, <2>7, <3>1, <3>2 DEF Due
  <2>8. LaunchUses'
    <3>1. CASE sup'.pc = "select"
      BY <3>1 DEF LaunchUses, PreSpawn, HoldsRuntime, Replaces, Failing
    <3>2. CASE sup'.pc = "fail" /\ sup'.s = sup.s /\ sup'.rec = NoRec /\ ~Live(sup.rt)
      <4>1. ~Live(mem[sup.s].pid)'
        BY <2>1, <2>3, <3>2 DEF Live
      <4> QED
        BY <3>2, <4>1 DEF LaunchUses, PreSpawn, HoldsRuntime, Replaces, Failing, NoRec, Alone, Live
    <3> QED
      BY <2>1, <3>1, <3>2
  <2>9. HandKept
    <3>1. \A s \in Sessions : s = sup.s =>
             sup'.pc \notin {"idle", "select"} \/ ~Live(mem[s].pid)' \/ Due(s)'
      BY <2>1, <2>7
    <3> QED
      BY <2>1, <2>2, <2>3, <2>6, <3>1, HoldingKept
  <2>10. Elsewhere
    BY <1>x, <2>1, <2>2, <2>4, <2>5
  <2> QED
    BY <2>8, <2>9, <2>10, <1>k
<1>8. CASE Fail \/ FailPersist \/ FailInsert
  <2>1. /\ sup.pc \in Failing /\ UNCHANGED <<host, proc, watch, phase, todo, crashes>>
        /\ sup.s \in Sessions /\ mem[sup.s].status # "queued"
    BY <1>8, <1>t DEF Fail, FailPersist, FailInsert, Failing, PastMark, SupPcs
  <2>2. ~Live(mem[sup.s].pid) /\ ~Live(sup.rec.pid) /\ Alone(sup.s, sup.rec)
        /\ Alone(sup.s, mem[sup.s])
    BY <2>1 DEF LaunchUses, UsesOne
  <2>3. /\ mem'[sup.s].pid \in {mem[sup.s].pid, sup.rec.pid}
        /\ mem'[sup.s].status # "queued"
        /\ \A s \in Sessions : s # sup.s => mem'[s] = mem[s]
    BY <1>8, <1>t, <1>c, <2>1 DEF Fail, FailPersist, FailInsert, SetMem, Rec
  <2>4. \/ sup'.pc = "select"
        \/ /\ sup'.pc \in {"fail_persist", "fail_insert"} /\ sup'.s = sup.s
           /\ sup'.rec.pid \in {mem[sup.s].pid, sup.rec.pid}
    <3>1. CASE Fail
      <4>1. [mem[sup.s] EXCEPT !.status = "errored"].pid = mem[sup.s].pid
        BY <1>t, <2>1 DEF Rec
      <4> QED
        BY <3>1, <1>t, <4>1 DEF Fail, SupRec
    <3>2. CASE FailPersist
      BY <3>2, <1>t DEF FailPersist, SupLoop, SupGo, IdleSup, HoldsClone, SupRec
    <3>3. CASE FailInsert
      BY <3>3 DEF FailInsert, SupLoop, IdleSup
    <3> QED
      BY <1>8, <3>1, <3>2, <3>3
  <2>5. /\ \A s, r : InUse(s, r)' <=> InUse(s, r)
        /\ \A r : Live(r)' <=> Live(r)
    BY <2>1 DEF InUse, Live
  <2>6. \A s \in Sessions : s = sup.s => Alone(s, mem[s])' /\ ~Live(mem[s].pid)'
    BY <2>2, <2>3, <2>5 DEF Alone, Live
  <2>7. HandKept
    BY <2>3, <2>6 DEF HandKept
  <2>8. LaunchUses'
    <3>1. CASE sup'.pc = "select"
      BY <3>1 DEF LaunchUses, PreSpawn, HoldsRuntime, Replaces, Failing
    <3>2. CASE sup'.pc \in {"fail_persist", "fail_insert"} /\ sup'.s = sup.s
               /\ sup'.rec.pid \in {mem[sup.s].pid, sup.rec.pid}
      <4>1. ~Live(mem[sup.s].pid)' /\ ~Live(sup.rec.pid)' /\ Alone(sup.s, sup.rec)'
        BY <2>1, <2>2, <2>5, <2>6, <3>2 DEF Alone, Live
      <4> QED
        BY <3>2, <4>1 DEF LaunchUses, PreSpawn, HoldsRuntime, Replaces, Failing
    <3> QED
      BY <2>4, <3>1, <3>2
  <2>9. Elsewhere
    BY <2>1, <2>3, <2>4, TouchesElsewhere
  <2> QED
    BY <2>7, <2>8, <2>9, <1>k
<1> QED
  BY <1>1, <1>2, <1>3, <1>4, <1>5, <1>6, <1>7, <1>8 DEF Supervisor

-----------------------------------------------------------------------------
\* What loads knows of no process in use, and has none in hand.
LEMMA LoadBoots ==
    ASSUME TypeOK, LaunchInv, RecordsFit, DownIsBlank, BootLoad
    PROVE  BootInv'
<1>1. /\ UNCHANGED <<host, proc, watch, sup>> /\ sup.pc = "idle"
      /\ phase = "down" /\ phase' = "launch"
  BY DEF BootLoad, runtime, LaunchInv, DownIsIdle
<1>2. \A s \in Sessions, r \in Runtimes : ~InUse(s, r)'
  BY <1>1 DEF InUse, DownIsBlank
<1> QED
  BY <1>1, <1>2 DEF BootInv, UsesOne, Alone, LaunchUses, NoneForgotten, Due, PreSpawn,
     HoldsRuntime, Failing, Replaces

\* It holds at the start, and every step keeps it.
LEMMA ReattachInvInit == Init => ReattachInv
<1> SUFFICES ASSUME Init PROVE ReattachInv
  OBVIOUS
<1>1. RecordsFit
  BY NothingFits DEF Init, RecordsFit, IdleSup, IdleCmd, HoldsRuntime, Holding
<1>2. EndsAreTrue
  BY DEF Init, EndsAreTrue, NoWatch
<1> QED
  BY <1>1, <1>2 DEF Init, ReattachInv, DownIsBlank, Booting

LEMMA ReattachInvNext ==
    TypeOK /\ LaunchInv /\ ReattachInv /\ [Next]_vars => ReattachInv'
<1> SUFFICES ASSUME TypeOK, LaunchInv, ReattachInv, [Next]_vars PROVE ReattachInv'
  OBVIOUS
<1>1. TypeOK' /\ RecordsFit' /\ EndsAreTrue' /\ DownIsBlank'
  BY NextType, FitsNext, BlankNext, IdleUnlessServing DEF ReattachInv
<1>2. ASSUME Booting' PROVE BootInv'
  <2>1. CASE ~Booting
    <3>1. phase = "down" \/ phase = "serving"
      BY <2>1 DEF Booting, TypeOK, ServerOK
    <3>2. Boot
      BY <1>2, <3>1, PhaseMoves DEF Booting, Crash
    <3>3. BootLoad
      BY <3>1, <3>2 DEF Boot, BootLaunched, BootArchive, BootArchived, BootReattach,
         BootExited, BootSkip, BootServe
    <3> QED
      BY <3>3, LoadBoots DEF ReattachInv
  <2>2. CASE Booting
    <3>1. BootInv /\ RecordsFit /\ EndsAreTrue /\ NothingAsked /\ phase # "serving"
      BY <2>2, IdleUnlessServing DEF ReattachInv, BootInv, Booting
    <3>2. NoneQueues
      BY <2>2, <3>1, QueueShrinks
    <3>3. ASSUME Tame, DueStays PROVE BootInv'
      BY <1>1, <2>2, <3>1, <3>2, <3>3, TameKept
    <3>4. CASE Supervisor
      BY <1>1, <2>2, <3>1, <3>4, SupervisorBoots
    <3>5. CASE Events
      BY <2>2, <3>1, <3>3, <3>5, EventsAreTame
    <3>6. CASE Boot
      <4>1. ~BootServe
        BY <1>2 DEF BootServe, Booting
      <4> QED
        BY <2>2, <3>1, <3>3, <3>6, <4>1, BootIsTame
    <3>7. ~CancelLaunch /\ ~Crash
      BY <1>2, <3>1 DEF CancelLaunch, Crash, Booting
    <3>8. CASE UNCHANGED vars
      BY <3>1, <3>8 DEF vars, BootInv, UsesOne, Alone, InUse, LaunchUses, NoneForgotten, Due,
         InHand, Busy, Attached, Live, Offered
    <3> QED
      BY <3>1, <3>4, <3>5, <3>6, <3>7, <3>8, NoCommands DEF Next
  <2> QED
    BY <2>1, <2>2
<1> QED
  BY <1>1, <1>2 DEF ReattachInv, BootInv

\* When the server accepts requests again, every unfinished session whose
\* record names a living process and whose agent is still installed is attached
\* to it, or its monitor has the order to kill it, for any number of sessions,
\* processes and restarts (restore_runtime_sessions, restore_ttyd_runtime).
THEOREM SurvivorsAreAttended == Spec => SurvivorsAreReattached
<1>1. Init => TypeOK /\ LaunchInv /\ ReattachInv
  BY InitType, LaunchInvInit, ReattachInvInit
<1>2. TypeOK /\ LaunchInv /\ ReattachInv /\ [Next]_vars
        => TypeOK' /\ LaunchInv' /\ ReattachInv'
  BY NextType, LaunchInvNext, ReattachInvNext
<1>3. TypeOK /\ LaunchInv /\ ReattachInv /\ [Next]_vars => [Reattaches]_vars
  <2> SUFFICES ASSUME TypeOK, LaunchInv, ReattachInv, [Next]_vars, phase = "restore",
                      phase' = "serving", NEW s \in DOMAIN mem \ {sup.s},
                      mem[s].status \notin Terminal, Live(mem[s].pid), Offered(mem[s].key)
               PROVE  \/ Attached(s)
                      \/ "owner" \in Faults /\ watch[Own(mem[s].pid)].mon = "kill"
    BY DEF Reattaches
  <2>1. s \in Sessions /\ Booting
    BY DEF TypeOK, StoreOK, Booting
  <2>2. todo = {}
    <3>1. Boot
      BY PhaseMoves DEF Crash
    <3> QED
      BY <3>1 DEF Boot, BootLoad, BootLaunched, BootArchive, BootArchived, BootReattach,
         BootExited, BootSkip, BootServe
  <2>3. Due(s)
    BY <2>1 DEF ReattachInv, NoneForgotten, InHand
  <2> QED
    BY <2>2, <2>3 DEF Due
<1> QED
  BY <1>1, <1>2, <1>3, PTL DEF Spec, SurvivorsAreReattached

===============================================================================
