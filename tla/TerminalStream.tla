---------------------------- MODULE TerminalStream ----------------------------
(***************************************************************************)
(* The terminal of one session in the server: the hosts that keep its      *)
(* screen (state/terminal_hosts.rs), whoever emits output, the capture and *)
(* the restore snapshot on disk (state/mod.rs, state/session_store.rs),    *)
(* the maintenance that flushes both and evicts an idle host, and the      *)
(* browsers that watch it (routes/terminal.rs).                            *)
(*                                                                         *)
(* A chunk of output is a number; a screen is the sequence of the chunks   *)
(* it was made of.  Sizes, modes and the trimming of old output are left   *)
(* out.                                                                    *)
(***************************************************************************)
EXTENDS Naturals, Sequences, FiniteSets

CONSTANTS
    Emitters,     \* tasks that emit output
    Viewers,      \* browsers
    Readers,      \* requests for the transcript
    Attachers,    \* tasks that attach a runtime
    Closers,      \* of "detach", "remove", "exit", "resize": each once
    MaxChunks,    \* chunks ever emitted
    MaxHosts,     \* hosts ever made
    MaxPauses,    \* pauses of a viewer
    Idles,        \* times a host is idle for TERMINAL_HOST_IDLE_EVICTION_TTL
    Capacity,     \* of the channel of a host, 8192
    Crashes,      \* restarts of the server
    Faults        \* of "capture", "snapshot": a write fails

StreamAssumption ==
    /\ {MaxChunks, MaxHosts, MaxPauses, Idles, Capacity, Crashes} \subseteq Nat /\ Capacity > 0
    /\ Closers \subseteq {"detach", "remove", "exit", "resize"} /\ Faults \subseteq {"capture", "snapshot"}

VARIABLES
    hosts,        \* every host made, also the ones that are not registered
    made, reg,    \* how many, and the one that is registered or 0
    chunks,       \* chunks emitted
    capture, restore,   \* the files
    task,         \* emitters, viewers and attachers: where, snapshot loaded, host, chunk
    view, queue, lagged,   \* what a viewer shows; its receiver
    flush,        \* maintenance and closers
    read,         \* readers: where, what they read, what had been captured before
    idles, crashes

files == <<capture, restore>>
views == <<view, queue, lagged>>
vars == <<hosts, made, reg, chunks, files, task, views, flush, read, idles, crashes>>

Maint == "maintenance"
Clients == Emitters \cup Viewers \cup Attachers
Empty == [seq |-> 0, screen |-> <<>>]
NewHost(snap) ==
    [seq |-> snap.seq, screen |-> snap.screen, pending |-> <<>>, unsaved |-> FALSE,
     saved |-> snap.seq, dirty |-> FALSE, fresh |-> TRUE, attached |-> FALSE]
NoTask == [at |-> "new", snap |-> Empty, host |-> 0, chunk |-> 0, seq |-> 0]
NoView == [open |-> FALSE, ready |-> FALSE, paused |-> FALSE, shown |-> <<>>, last |-> 0, buffer |-> <<>>, pauses |-> 0]
NoFlush == [at |-> "new", host |-> 0, snap |-> Empty, evict |-> FALSE, seen |-> 0, failed |-> FALSE]
NoRead == [at |-> "new", got |-> <<>>, before |-> {}]
Tasks == [t \in Clients |-> NoTask]
Views == [v \in Viewers |-> NoView]
Queues == [v \in Viewers |-> <<>>]
Flushes == [f \in Closers \cup {Maint} |-> NoFlush]

Init ==
    /\ hosts = <<>> /\ made = 0 /\ reg = 0 /\ task = Tasks /\ view = Views /\ queue = Queues
    /\ lagged = [v \in Viewers |-> FALSE] /\ flush = Flushes /\ read = [r \in Readers |-> NoRead]
    /\ chunks = 0 /\ capture = <<>> /\ restore = Empty /\ idles = 0 /\ crashes = 0

Snap(h) == [seq |-> hosts[h].seq, screen |-> hosts[h].screen]
Elements(s) == {s[i] : i \in DOMAIN s}

-----------------------------------------------------------------------------
\* ensure_terminal_host: get, or load the snapshot and then make one.
Get(t) ==
    /\ task[t].at = "new"
    /\ t \in Emitters => chunks < MaxChunks
    /\ chunks' = IF t \in Emitters THEN chunks + 1 ELSE chunks
    /\ LET new == [task[t] EXCEPT !.chunk = chunks'] IN
       IF reg # 0
         THEN task' = [task EXCEPT ![t] = [new EXCEPT !.at = "have", !.host = reg]] /\ hosts' = [hosts EXCEPT ![reg].fresh = TRUE]
         ELSE task' = [task EXCEPT ![t] = [new EXCEPT !.at = "make", !.snap = restore]] /\ UNCHANGED hosts
    /\ UNCHANGED <<made, reg, files, views, flush, read, idles, crashes>>

\* ensure_host
Make(t) ==
    /\ task[t].at = "make"
    /\ IF reg # 0
         THEN hosts' = [hosts EXCEPT ![reg].fresh = TRUE] /\ UNCHANGED <<made, reg>>
         ELSE made < MaxHosts /\ made' = made + 1 /\ reg' = made' /\ hosts' = Append(hosts, NewHost(task[t].snap))
    /\ task' = [task EXCEPT ![t].at = "have", ![t].host = reg']
    /\ UNCHANGED <<chunks, files, views, flush, read, idles, crashes>>

\* attach_runtime
Attach(t) ==
    /\ t \in Attachers /\ task[t].at = "have" /\ task' = [task EXCEPT ![t].at = "done"]
    /\ hosts' = [hosts EXCEPT ![task[t].host].attached = TRUE, ![task[t].host].fresh = TRUE]
    /\ UNCHANGED <<made, reg, chunks, files, views, flush, read, idles, crashes>>

-----------------------------------------------------------------------------
Buffered(h, c) == [h EXCEPT !.pending = Append(@, c), !.unsaved = TRUE]
\* append_terminal_capture_buffered
Capture(e) ==
    /\ e \in Emitters /\ task[e].at = "have" /\ task' = [task EXCEPT ![e].at = "apply"]
    /\ hosts' = [hosts EXCEPT ![task[e].host] = Buffered(@, task[e].chunk)]
    /\ UNCHANGED <<made, reg, chunks, files, views, flush, read, idles, crashes>>

\* apply_output
Apply(e) ==
    /\ e \in Emitters /\ task[e].at = "apply"
    /\ LET h == task[e].host IN
       /\ hosts' = [hosts EXCEPT ![h].seq = @ + 1, ![h].screen = Append(@, task[e].chunk)]
       /\ task' = [task EXCEPT ![e].at = "mark", ![e].seq = hosts[h].seq + 1]
    /\ UNCHANGED <<made, reg, chunks, files, views, flush, read, idles, crashes>>

\* maybe_checkpoint_terminal_restore_snapshot
Mark(e) ==
    /\ e \in Emitters /\ task[e].at = "mark" /\ task' = [task EXCEPT ![e].at = "send"]
    /\ hosts' = [hosts EXCEPT ![task[e].host].dirty = TRUE, ![task[e].host].fresh = TRUE]
    /\ UNCHANGED <<made, reg, chunks, files, views, flush, read, idles, crashes>>

\* A broadcast: a full receiver loses its oldest event.
Watching(h) == {v \in Viewers : view[v].open /\ task[v].host = h}
Broadcast(h, event) ==
    LET full == {v \in Watching(h) : Len(queue[v]) = Capacity} IN
    /\ queue' = [v \in Viewers |-> IF v \in full THEN Append(Tail(queue[v]), event)
                                   ELSE IF v \in Watching(h) THEN Append(queue[v], event) ELSE queue[v]]
    /\ lagged' = [v \in Viewers |-> lagged[v] \/ v \in full]

\* The end of emit_terminal_bytes.
Send(e) ==
    /\ e \in Emitters /\ task[e].at = "send"
    /\ Broadcast(task[e].host, [end |-> FALSE, seq |-> task[e].seq, chunk |-> task[e].chunk])
    /\ task' = [task EXCEPT ![e] = NoTask]
    /\ UNCHANGED <<hosts, made, reg, chunks, files, view, flush, read, idles, crashes>>

-----------------------------------------------------------------------------
\* The current restore snapshot: of the registered host, or else on disk.
Live == reg # 0 /\ hosts[reg].screen # <<>>
Current == IF Live THEN Snap(reg) ELSE restore
\* The screen of a viewer is replaced by the current snapshot.
Rendered(w) == IF Current.screen = <<>> THEN w ELSE [w EXCEPT !.shown = Current.screen, !.last = Current.seq]
Touched == IF reg = 0 THEN hosts ELSE [hosts EXCEPT ![reg].fresh = TRUE]
\* A chunk is shown unless a snapshot did.
Shown(w, c) == IF c.seq <= w.last THEN w ELSE [w EXCEPT !.shown = Append(@, c.chunk), !.last = c.seq]

Subscribe(v) ==
    /\ v \in Viewers /\ task[v].at = "have" /\ task' = [task EXCEPT ![v].at = "watch"]
    /\ view' = [view EXCEPT ![v].open = TRUE]
    /\ UNCHANGED <<hosts, made, reg, chunks, files, queue, lagged, flush, read, idles, crashes>>

Handshake(v) ==
    /\ view[v].open /\ ~view[v].ready /\ hosts' = Touched
    /\ view' = [view EXCEPT ![v] = Rendered([@ EXCEPT !.ready = TRUE])]
    /\ UNCHANGED <<made, reg, chunks, files, task, queue, lagged, flush, read, idles, crashes>>

Pause(v) ==
    /\ view[v].open /\ view[v].ready /\ ~view[v].paused /\ view[v].pauses < MaxPauses
    /\ view' = [view EXCEPT ![v].paused = TRUE, ![v].pauses = @ + 1]
    /\ UNCHANGED <<hosts, made, reg, chunks, files, task, queue, lagged, flush, read, idles, crashes>>

Replayed(w) ==
    LET new == SelectSeq(w.buffer, LAMBDA c : c.seq > w.last)
    IN  [w EXCEPT !.shown = @ \o [i \in DOMAIN new |-> new[i].chunk], !.paused = FALSE, !.buffer = <<>>,
                  !.last = IF new = <<>> THEN @ ELSE new[Len(new)].seq]
\* The buffer and then the snapshot.
Resumed(w) == Rendered(Replayed(w))
Resume(v) ==
    /\ view[v].open /\ view[v].paused /\ view' = [view EXCEPT ![v] = Resumed(@)] /\ hosts' = Touched
    /\ UNCHANGED <<made, reg, chunks, files, task, queue, lagged, flush, read, idles, crashes>>

Receive(v) ==
    /\ view[v].open /\ view[v].ready /\ ~lagged[v] /\ queue[v] # <<>> /\ queue' = [queue EXCEPT ![v] = Tail(@)]
    /\ view' = [view EXCEPT ![v] = LET c == Head(queue[v]) IN
                  IF c.end THEN [@ EXCEPT !.open = FALSE]
                  ELSE IF @.paused THEN [@ EXCEPT !.buffer = Append(@, c)] ELSE Shown(@, c)]
    /\ UNCHANGED <<hosts, made, reg, chunks, files, task, lagged, flush, read, idles, crashes>>

\* Mutant: the lost events are not made up for.
Skipped(w) == w
\* RecvError::Lagged
CaughtUp(w) == IF w.paused THEN w ELSE Rendered(w)
Lag(v) ==
    /\ view[v].open /\ view[v].ready /\ lagged[v] /\ lagged' = [lagged EXCEPT ![v] = FALSE]
    /\ view' = [view EXCEPT ![v] = CaughtUp(@)] /\ hosts' = IF view[v].paused THEN hosts ELSE Touched
    /\ UNCHANGED <<made, reg, chunks, files, task, queue, flush, read, idles, crashes>>

-----------------------------------------------------------------------------
MaxCapture == MaxChunks + 1        \* bound: how much is written again by failing writes
Unwritten(h) == h
\* flush_terminal_capture_handle, under the lock of the capture. A write that fails
\* may have written a part; all that is pending stays so and is written again.
WriteCapture(h) ==
    IF h = 0 \/ ~hosts[h].unsaved THEN UNCHANGED <<hosts, capture>>
    ELSE \/ /\ capture' = capture \o hosts[h].pending
            /\ hosts' = [hosts EXCEPT ![h].pending = <<>>, ![h].unsaved = FALSE]
         \/ /\ "capture" \in Faults
            /\ \E k \in 0..Len(hosts[h].pending) :
                  Len(capture) + k <= MaxCapture /\ capture' = capture \o SubSeq(hosts[h].pending, 1, k)
            /\ hosts' = [hosts EXCEPT ![h] = Unwritten(@)]

\* dirty_capture_hosts, flush_terminal_capture: the registered host.
FlushCapture(f) ==
    /\ flush[f].at = "new" /\ f # "resize" /\ WriteCapture(reg)
    /\ flush' = [flush EXCEPT ![f].at = "snap"]
    /\ UNCHANGED <<made, reg, chunks, restore, task, views, read, idles, crashes>>

\* Mutant: only a dirty host is written.
Dirty(h) == hosts[h].dirty
Due(h) == hosts[h].dirty \/ hosts[h].saved # hosts[h].seq
\* The maintenance takes dirty hosts only, until it evicts.
Wants(f, h) == f = "resize" \/ (IF f = Maint /\ ~flush[f].evict THEN hosts[h].dirty ELSE Due(h))
Target(f) == IF flush[f].evict THEN flush[f].host ELSE reg
\* flush_terminal_restore_snapshot_handle, resize_terminal_store
Take(f) ==
    /\ flush[f].at = "snap" \/ (f = "resize" /\ flush[f].at = "new")
    /\ flush' = [flush EXCEPT ![f] = IF Target(f) # 0 /\ Wants(f, Target(f))
                   THEN [@ EXCEPT !.at = "write", !.host = Target(f), !.snap = Snap(Target(f))] ELSE [@ EXCEPT !.at = "last"]]
    /\ UNCHANGED <<hosts, made, reg, chunks, files, task, views, read, idles, crashes>>

\* persist_terminal_restore_snapshot
Write(f) ==
    /\ flush[f].at = "write"
    /\ \/ restore' = flush[f].snap /\ flush' = [flush EXCEPT ![f].at = "record"] /\ UNCHANGED hosts
       \/ /\ "snapshot" \in Faults /\ flush' = [flush EXCEPT ![f].at = "last", ![f].failed = TRUE] /\ UNCHANGED restore
          /\ hosts' = IF f = "resize" THEN hosts ELSE [hosts EXCEPT ![flush[f].host].dirty = TRUE]
    /\ UNCHANGED <<made, reg, chunks, capture, task, views, read, idles, crashes>>

\* record_terminal_restore_persisted
Record(f) ==
    /\ flush[f].at = "record" /\ flush' = [flush EXCEPT ![f].at = "last"]
    /\ hosts' = [hosts EXCEPT ![flush[f].host].saved = flush[f].snap.seq, ![flush[f].host].dirty = FALSE]
    /\ UNCHANGED <<made, reg, chunks, files, task, views, read, idles, crashes>>

-----------------------------------------------------------------------------
\* maintain_terminal_hosts: look for an idle host; it is flushed and removed.
\* should_evict takes one lock after the other, of a handle it keeps.
Looks(at, host, next) ==
    /\ flush[Maint].at = at /\ ~flush[Maint].evict
    /\ flush' = [flush EXCEPT ![Maint] = IF host # 0 THEN [next EXCEPT !.host = host] ELSE NoFlush]
    /\ UNCHANGED <<hosts, made, reg, chunks, files, task, views, read, idles, crashes>>
If(h, test) == IF h # 0 /\ test THEN h ELSE 0
Scan == Looks("last", If(reg, ~hosts[reg].attached /\ Watching(reg) = {}), [NoFlush EXCEPT !.at = "tracking"])
ScanTracking ==
    LET h == flush[Maint].host
    IN Looks("tracking", If(h, ~hosts[h].dirty /\ ~hosts[h].fresh),
             [NoFlush EXCEPT !.at = "pending", !.seen = hosts[h].seq])
ScanCapture ==
    LET h == flush[Maint].host
    IN Looks("pending", If(h, ~hosts[h].unsaved), [flush[Maint] EXCEPT !.at = "snap", !.evict = TRUE])

\* remove_if_same
Evict ==
    /\ flush[Maint].at = "last" /\ flush[Maint].evict
    /\ reg' = IF reg = flush[Maint].host THEN 0 ELSE reg
    /\ flush' = [flush EXCEPT ![Maint] = NoFlush]
    /\ UNCHANGED <<hosts, made, chunks, files, task, views, read, idles, crashes>>

\* What a closer does after it flushed: detach the runtime, remove the host,
\* tell of the exit.
Close(f) ==
    /\ f \in Closers /\ flush[f].at = "last" /\ flush' = [flush EXCEPT ![f].at = "done"]
    /\ hosts' = IF reg # 0 /\ f \in {"detach", "remove"} THEN [hosts EXCEPT ![reg].attached = FALSE, ![reg].fresh = TRUE] ELSE hosts
    /\ reg' = IF f = "remove" THEN 0 ELSE reg
    /\ IF reg # 0 /\ f \in {"exit", "remove"} THEN Broadcast(reg, [end |-> TRUE, seq |-> 0, chunk |-> 0]) ELSE UNCHANGED <<queue, lagged>>
    /\ UNCHANGED <<made, chunks, files, task, view, read, idles, crashes>>

\* Nobody stays between two steps as long as it takes a host to be idle.
Idle ==
    /\ idles < Idles /\ reg # 0 /\ hosts[reg].fresh /\ idles' = idles + 1
    /\ \A t \in Clients : task[t].at \in {"new", "watch", "done"}
    /\ \A f \in DOMAIN flush : flush[f].at \in {"new", "done"}
    /\ hosts' = [hosts EXCEPT ![reg].fresh = FALSE]
    /\ UNCHANGED <<made, reg, chunks, files, task, views, flush, read, crashes>>

-----------------------------------------------------------------------------
\* read_terminal_capture_tail_bytes: the file, and then what is pending.
ReadFile(r) ==
    /\ read[r].at = "new"
    /\ read' = [read EXCEPT ![r] = [at |-> "file", got |-> capture,
                  before |-> Elements(capture) \cup (IF reg = 0 THEN {} ELSE Elements(hosts[reg].pending))]]
    /\ UNCHANGED <<hosts, made, reg, chunks, files, task, views, flush, idles, crashes>>
ReadPending(r) ==
    /\ read[r].at = "file"
    /\ read' = [read EXCEPT ![r].at = "done", ![r].got = IF reg = 0 THEN @ ELSE @ \o hosts[reg].pending]
    /\ UNCHANGED <<hosts, made, reg, chunks, files, task, views, flush, idles, crashes>>

\* The server stops; a snapshot that is being written may be torn.
Crash ==
    /\ crashes < Crashes /\ crashes' = crashes + 1
    /\ hosts' = <<>> /\ made' = 0 /\ reg' = 0 /\ task' = Tasks /\ view' = Views /\ queue' = Queues
    /\ lagged' = [v \in Viewers |-> FALSE] /\ flush' = Flushes /\ read' = [r \in Readers |-> NoRead]
    /\ \/ UNCHANGED restore
       \/ restore' = Empty /\ \E f \in DOMAIN flush : flush[f].at = "write"
    /\ UNCHANGED <<chunks, capture, idles>>

Emit(e) == Get(e) \/ Make(e) \/ Capture(e) \/ Apply(e) \/ Mark(e) \/ Send(e)
View(v) == Get(v) \/ Make(v) \/ Subscribe(v) \/ Handshake(v) \/ Resume(v) \/ Receive(v) \/ Lag(v)
Flush(f) == FlushCapture(f) \/ Take(f) \/ Write(f) \/ Record(f)
Next ==
    \/ Scan \/ ScanTracking \/ ScanCapture \/ Evict \/ Idle \/ Crash
    \/ \E e \in Emitters : Emit(e)
    \/ \E v \in Viewers : View(v) \/ Pause(v)
    \/ \E t \in Attachers : Get(t) \/ Make(t) \/ Attach(t)
    \/ \E f \in DOMAIN flush : Flush(f) \/ Close(f)
    \/ \E r \in Readers : ReadFile(r) \/ ReadPending(r)
Spec == Init /\ [][Next]_vars

\* The maintenance runs on a timer, emitters and closers end what they began; a
\* capture that can be written to now and then is written some day.
Written == reg # 0 => hosts'[reg].pending = <<>>
FairSpec ==
    /\ Spec /\ WF_vars(Flush(Maint) \/ Scan \/ ScanTracking \/ ScanCapture \/ Evict)
    /\ SF_vars(FlushCapture(Maint) /\ Written)
    /\ \A e \in Emitters : WF_vars(Make(e) \/ Capture(e) \/ Apply(e) \/ Mark(e) \/ Send(e))
    /\ \A f \in Closers : WF_vars(flush[f].at # "new" /\ (Flush(f) \/ Close(f)))

-----------------------------------------------------------------------------
Ids == 1..MaxChunks
SnapOK(s) == s.seq \in 0..MaxChunks /\ s.screen \in Seq(Ids)
\* The variables have their types; sequence numbers count the chunks of a screen.
TypeOK ==
    /\ made \in 0..MaxHosts /\ reg \in 0..made /\ Len(hosts) = made /\ chunks \in 0..MaxChunks
    /\ \A h \in 1..made :
       /\ SnapOK(Snap(h)) /\ hosts[h].seq = Len(hosts[h].screen)
       /\ hosts[h].pending \in Seq(Ids) /\ hosts[h].saved \in 0..hosts[h].seq
       /\ {hosts[h].unsaved, hosts[h].dirty, hosts[h].fresh, hosts[h].attached} \subseteq BOOLEAN
    /\ capture \in Seq(Ids) /\ SnapOK(restore)
    /\ \A t \in Clients : task[t].at \in {"new", "make", "have", "apply", "mark", "send", "watch", "done"} /\ task[t].host \in 0..made
    /\ \A v \in Viewers : Len(queue[v]) <= Capacity /\ view[v].shown \in Seq(Ids) /\ lagged[v] \in BOOLEAN
    /\ \A f \in DOMAIN flush : flush[f].at \in {"new", "snap", "write", "record", "last", "tracking", "pending", "done"} /\ flush[f].host \in 0..made

\* A browser that has nothing to read shows the terminal of the session,
\* whatever it missed before it was ready, paused or fell behind
\* (terminal.rs:2249 "keeps reconnects lossless").
Watches(v) == view[v].open /\ view[v].ready /\ ~view[v].paused /\ ~lagged[v] /\ queue[v] = <<>>
Resting == \A e \in Emitters : task[e].at = "new"
Lossless == \A v \in Viewers : Watches(v) /\ Resting /\ reg # 0 => view[v].shown = hosts[reg].screen

\* A host is evicted when all that was on its screen as it was found idle is on
\* disk, unless the write that should see to it failed.
KeepsScreen == Evict /\ reg' # reg /\ ~flush[Maint].failed => restore.seq >= flush[Maint].seen
\* What a failed write breaks: mod.rs:1030 evicts whatever the flush came to.
EvictKeeps == [][Evict /\ reg' # reg => restore.seq >= flush[Maint].seen]_vars

\* All that was emitted is in the capture or on its way there, in order, and once
\* where no write fails: what a failed write wrote is written again (README).
Pending == IF reg = 0 THEN <<>> ELSE hosts[reg].pending
Output == capture \o Pending
Once == Output = [i \in 1..chunks |-> i]
Gapless ==
    crashes = 0 /\ Resting =>
        /\ Elements(Output) = 1..chunks
        /\ \A i \in DOMAIN Output : \A n \in 1..Output[i] : \E j \in 1..i : Output[j] = n
        /\ "capture" \notin Faults => Once
KeptOnce == crashes = 0 /\ Resting => Once

\* And it gets there, also when a write failed.
Captured == <>[](Resting => Pending = <<>>)

\* A transcript has all that was captured before it was asked for
\* (session_store.rs:369 current_terminal_transcript_includes_unflushed_capture_bytes).
Transcript == \A r \in Readers : read[r].at = "done" => read[r].before \subseteq Elements(read[r].got)

\* What was emitted is in the snapshot in the end and survives a restart
\* (session_store.rs:296 terminal_restore_snapshot_survives_backend_restart).
Survives == <>[](Resting /\ reg # 0 => restore.screen = hosts[reg].screen)
=============================================================================
