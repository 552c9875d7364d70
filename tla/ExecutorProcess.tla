---------------------------- MODULE ExecutorProcess ----------------------------
(***************************************************************************)
(* A child process of an executor and the tasks around it                  *)
(* (conductor-executors/src/process.rs): a reader per stream, the bounded  *)
(* buffer between readers and consumer, the task that waits for the exit   *)
(* or the kill and reports the end.                                        *)
(*                                                                         *)
(* A child runs on a terminal (spawn_process) or on pipes with its input   *)
(* closed (spawn_process_no_stdin).  A step is one atomic operation on the *)
(* shared counters, one message, or one await.                             *)
(***************************************************************************)
EXTENDS Integers, Sequences, FiniteSets, SequencesExt

CONSTANTS
    Variant,       \* "pty" or "pipes"
    SizeOf,        \* bytes of the n-th line of a stream
    Budget,        \* MAX_BUFFERED_PROCESS_OUTPUT_BYTES
    NoticeSize,    \* bytes of the notice that output is dropped
    Word,          \* one more than the largest number of the counter (usize)
    SinkCap,       \* capacity of the channel to the consumer
    Faults         \* what may go wrong

FaultNames == {"holder",      \* the child leaves a process behind that holds its output open
               "slow",        \* a reader has data and is not scheduled for 250 ms
               "readfail",    \* reading the terminal fails
               "deaf",        \* the consumer goes away
               "checked",     \* a build that panics when an addition overflows
               "drop"}        \* the kill sender is dropped, unused

ProcessAssumption ==
    /\ Variant \in {"pty", "pipes"}
    /\ SizeOf \in Seq(Nat \ {0})
    /\ Budget \in Nat /\ NoticeSize \in Nat \ {0}
    /\ Word \in Nat /\ Word > Budget + NoticeSize + FoldSeq(+, 0, SizeOf)
    /\ SinkCap \in Nat \ {0}
    /\ Faults \subseteq FaultNames

\* A terminal has one stream; pipes are two.
Streams == IF Variant = "pty" THEN {"stdout"} ELSE {"stdout", "stderr"}

VARIABLES
    child,      \* "run", "exited" or "reaped"
    holder,     \* a descendant: "none", "child" (found by ps), "apart", "dead"
    written,    \* lines each stream was given by the child
    read,       \* lines each reader has taken
    reader,     \* where each reader is
    raw,        \* the unbounded channel of readers and supervisor
    fwd,        \* what forward_process_output is sending on, a sequence of at most one
    forwards,   \* whether that task still runs
    bytes,      \* buffered_bytes
    over,       \* output_overflowed
    sink,       \* the channel to the consumer
    got,        \* what the consumer has received
    listens,    \* whether the consumer still does
    kill,       \* the kill sender: "open", "sent" or "dropped"
    sup         \* the task that waits for the exit: where it is, and what it will report

vars == <<child, holder, written, read, reader, raw, fwd, forwards, bytes, over,
          sink, got, listens, kill, sup>>
procs == <<child, holder, written, kill>>
buffer == <<raw, fwd, forwards, sink, got, listens>>

-----------------------------------------------------------------------------
Line(s, n) == [kind |-> "line", stream |-> s, n |-> n]
Notice == [kind |-> "notice"]
End(why) == [kind |-> "end", why |-> why]
\* buffered_process_output_size: the notice is a line of the error output too.
Weight(e) == CASE e.kind = "line" -> SizeOf[e.n] [] e.kind = "notice" -> NoticeSize [] OTHER -> 0
Bytes(q) == FoldSeq(LAMBDA e, sum : Weight(e) + sum, 0, q)
Stream == got \o sink \o fwd \o raw

\* Someone still has the other end of the stream open.
Held == child = "run" \/ holder \in {"child", "apart"}

Init ==
    /\ child = "run" /\ holder = "none"
    /\ written = [s \in Streams |-> 0]
    /\ read = [s \in Streams |-> 0]
    /\ reader = [s \in Streams |-> "reading"]
    /\ raw = <<>> /\ fwd = <<>> /\ forwards = TRUE
    /\ bytes = 0 /\ over = FALSE
    /\ sink = <<>> /\ got = <<>> /\ listens = TRUE
    /\ kill = "open"
    /\ sup = [pc |-> "watch", why |-> "none"]

-----------------------------------------------------------------------------
\* The child and what it leaves behind

Write(s) ==
    /\ child = "run" /\ written[s] < Len(SizeOf)
    /\ written' = [written EXCEPT ![s] = @ + 1]
    /\ UNCHANGED <<child, holder, read, reader, buffer, bytes, over, kill, sup>>

Fork ==
    /\ "holder" \in Faults /\ child = "run" /\ holder = "none"
    /\ holder' = "child"
    /\ UNCHANGED <<child, written, read, reader, buffer, bytes, over, kill, sup>>

\* The one in between ends: ps no longer shows it below the child.
Detach ==
    /\ holder = "child"
    /\ holder' = "apart"
    /\ UNCHANGED <<child, written, read, reader, buffer, bytes, over, kill, sup>>

Exit ==
    /\ child = "run"
    /\ child' = "exited"
    /\ holder' = IF holder = "child" THEN "apart" ELSE holder
    /\ UNCHANGED <<written, read, reader, buffer, bytes, over, kill, sup>>

-----------------------------------------------------------------------------
\* The readers: each takes a line, counts it, and keeps or returns the count

Taken(s) == read' = [read EXCEPT ![s] = @ + 1]
ReaderAt(s, to) == reader' = [reader EXCEPT ![s] = to]

Read(s) ==
    /\ reader[s] = "reading" /\ read[s] < written[s]
    /\ Taken(s)
    /\ IF over THEN UNCHANGED reader ELSE ReaderAt(s, "add")
    /\ UNCHANGED <<procs, buffer, bytes, over, sup>>

Less(size) == (bytes + Word - size) % Word                    \* fetch_sub wraps

\* fetch_add wraps; the test uses a sum of its own, which wraps or panics.
Count(s) ==
    LET sum == bytes + SizeOf[read[s]] IN
    /\ bytes' = sum % Word
    /\ \/ ReaderAt(s, IF bytes' > Budget THEN "undo" ELSE "keep")
       \/ "checked" \in Faults /\ sum >= Word /\ ReaderAt(s, "panicked")

Add(s) == reader[s] = "add" /\ Count(s) /\ UNCHANGED <<procs, read, buffer, over, sup>>

\* signal_output_overflow: the first to say so says so in the stream. The notice
\* is not added to the count, and subtracted when it is sent on.
Announcing == IF over \/ ~forwards THEN raw ELSE Append(raw, Notice)

Undo(s) ==
    /\ reader[s] = "undo"
    /\ bytes' = Less(SizeOf[read[s]])
    /\ over' = TRUE
    /\ raw' = Announcing
    /\ ReaderAt(s, "reading")
    /\ UNCHANGED <<procs, read, fwd, forwards, sink, got, listens, sup>>

\* A reader whose channel is closed gives its count back and stops.
Keep(s) ==
    /\ reader[s] = "keep"
    /\ IF forwards
       THEN /\ raw' = Append(raw, Line(s, read[s]))
            /\ ReaderAt(s, "reading")
            /\ UNCHANGED bytes
       ELSE /\ bytes' = Less(SizeOf[read[s]])
            /\ ReaderAt(s, "done")
            /\ UNCHANGED raw
    /\ UNCHANGED <<procs, read, fwd, forwards, sink, got, listens, over, sup>>

EndOfFile(s) ==
    /\ reader[s] = "reading" /\ read[s] = written[s] /\ ~Held
    /\ ReaderAt(s, "done")
    /\ UNCHANGED <<procs, read, buffer, bytes, over, sup>>

\* Reading a terminal fails: that ends the stream of events too.
ReadFails(s) ==
    /\ "readfail" \in Faults /\ Variant = "pty" /\ reader[s] = "reading"
    /\ raw' = IF forwards THEN Append(raw, End("failed")) ELSE raw
    /\ ReaderAt(s, "done")
    /\ UNCHANGED <<procs, read, fwd, forwards, sink, got, listens, bytes, over, sup>>

-----------------------------------------------------------------------------
\* forward_process_output and the consumer

ForwardTake ==
    /\ forwards /\ fwd = <<>> /\ raw # <<>>
    /\ fwd' = <<Head(raw)>> /\ raw' = Tail(raw)
    /\ UNCHANGED <<procs, read, reader, forwards, bytes, over, sink, got, listens, sup>>

\* Mutant: nothing is given back.
ReleasedNever == bytes
Released == Less(Weight(fwd[1]))

ForwardSend ==
    /\ fwd # <<>> /\ (listens => Len(sink) < SinkCap)
    /\ bytes' = Released
    /\ fwd' = <<>>
    /\ IF listens THEN sink' = Append(sink, fwd[1]) /\ UNCHANGED <<forwards, raw>>
                  ELSE forwards' = FALSE /\ raw' = <<>> /\ UNCHANGED sink
    /\ UNCHANGED <<procs, read, reader, over, got, listens, sup>>

Receive ==
    /\ listens /\ sink # <<>>
    /\ got' = Append(got, Head(sink)) /\ sink' = Tail(sink)
    /\ UNCHANGED <<procs, read, reader, raw, fwd, forwards, listens, bytes, over, sup>>

StopListening ==
    /\ "deaf" \in Faults /\ listens
    /\ listens' = FALSE /\ sink' = <<>>
    /\ UNCHANGED <<procs, read, reader, raw, fwd, forwards, got, bytes, over, sup>>

-----------------------------------------------------------------------------
\* Kills, and the task that waits

Kill ==
    /\ kill = "open" /\ kill' = "sent"
    /\ UNCHANGED <<child, holder, written, read, reader, buffer, bytes, over, sup>>

DropKill ==
    /\ "drop" \in Faults /\ kill = "open" /\ kill' = "dropped"
    /\ UNCHANGED <<child, holder, written, read, reader, buffer, bytes, over, sup>>

Drain(why) == [pc |-> "drain", why |-> why]

\* try_wait finds the exit and reaps it.
SeeExit ==
    /\ sup.pc = "watch" /\ child = "exited"
    /\ child' = "reaped"
    /\ sup' = Drain("exited")
    /\ UNCHANGED <<holder, written, read, reader, buffer, bytes, over, kill>>

\* terminate_process_tree first lists the descendants.
SeeKill ==
    /\ sup.pc = "watch" /\ kill = "sent"
    /\ sup' = [pc |-> IF holder = "child" THEN "killtree" ELSE "killone", why |-> "killed"]
    /\ UNCHANGED <<procs, read, reader, buffer, bytes, over>>

\* A dropped sender wakes the task too, and it ends without a word.
SeeDrop ==
    /\ sup.pc = "watch" /\ kill = "dropped"
    /\ sup' = [sup EXCEPT !.pc = "ended"]
    /\ UNCHANGED <<procs, read, reader, buffer, bytes, over>>

\* SIGTERM, a wait, SIGKILL: the child is a zombie until the wait that follows,
\* so the signals always escalate and reach the ones listed.
Terminate ==
    /\ sup.pc \in {"killtree", "killone"}
    /\ child' = "reaped"
    /\ holder' = CASE sup.pc = "killtree" -> "dead"
                   [] holder = "child" -> "apart"
                   [] OTHER -> holder
    /\ sup' = Drain("killed")
    /\ UNCHANGED <<written, read, reader, buffer, bytes, over, kill>>

ReadersDone == \A s \in Streams : reader[s] \in {"done", "gone", "panicked"}

\* Mutant: readers that do not finish are waited for.
AbortNever(s) == FALSE
\* await_reader_task_with_timeout, one reader after the other: aborting a reader
\* of pipes stops it at its next await; the reader of a terminal blocks a thread
\* and cannot be aborted.
Abort(s) ==
    /\ Variant = "pipes" /\ sup.pc = "drain"
    /\ reader[s] = "reading"
    /\ s = "stderr" => reader["stdout"] \in {"done", "gone", "panicked"}
    /\ read[s] = written[s] \/ "slow" \in Faults
    /\ ReaderAt(s, "gone")
    /\ UNCHANGED <<procs, read, buffer, bytes, over, sup>>

Report ==
    /\ sup.pc = "drain" /\ ReadersDone
    /\ raw' = IF forwards THEN Append(raw, End(sup.why)) ELSE raw
    /\ sup' = [sup EXCEPT !.pc = "ended"]
    /\ UNCHANGED <<procs, read, reader, fwd, forwards, sink, got, listens, bytes, over>>

Next ==
    \/ \E s \in Streams : \/ Write(s) \/ Read(s) \/ Add(s) \/ Undo(s) \/ Keep(s)
                          \/ EndOfFile(s) \/ ReadFails(s) \/ Abort(s)
    \/ Fork \/ Detach \/ Exit \/ Kill \/ DropKill
    \/ ForwardTake \/ ForwardSend \/ Receive \/ StopListening
    \/ SeeExit \/ SeeKill \/ SeeDrop \/ Terminate \/ Report

Spec == Init /\ [][Next]_vars

\* The runtime schedules its tasks, and the consumer reads on; the child need
\* not exit and nobody need kill it.
FairSpec ==
    /\ Spec
    /\ \A s \in Streams : WF_vars(Read(s) \/ Add(s) \/ Undo(s) \/ Keep(s) \/ EndOfFile(s))
                          /\ WF_vars(Abort(s))
    /\ WF_vars(ForwardTake) /\ WF_vars(ForwardSend) /\ WF_vars(Receive)
    /\ WF_vars(SeeExit) /\ WF_vars(SeeKill) /\ WF_vars(Terminate) /\ WF_vars(Report)

-----------------------------------------------------------------------------
\* Every variable has its type.
Pc == {"watch", "killtree", "killone", "drain", "ended"}
TypeOK ==
    /\ child \in {"run", "exited", "reaped"} /\ holder \in {"none", "child", "apart", "dead"}
    /\ written \in [Streams -> 0..Len(SizeOf)] /\ read \in [Streams -> 0..Len(SizeOf)]
    /\ reader \in [Streams -> {"reading", "add", "undo", "keep", "done", "gone", "panicked"}]
    /\ forwards \in BOOLEAN /\ over \in BOOLEAN /\ listens \in BOOLEAN
    /\ bytes \in 0..(Word - 1) /\ Len(fwd) <= 1 /\ Len(sink) <= SinkCap
    /\ kill \in {"open", "sent", "dropped"}
    /\ sup.pc \in Pc

\* While the buffer is in use its count is what is in it, plus what readers are
\* about to put in or take off: a line counted twice, or not given back, would
\* make a long-lived process fall silent. From the notice on it is less by the
\* notice, which may be below zero.
Counting(s) == IF reader[s] \in {"undo", "keep", "panicked"} THEN SizeOf[read[s]] ELSE 0
Buffered == Bytes(raw) + Bytes(fwd) + FoldSet(LAMBDA s, sum : Counting(s) + sum, 0, Streams)
BytesMatch ==
    forwards => bytes = (IF over THEN Buffered + Word - NoticeSize ELSE Buffered) % Word

\* No more than the budget waits for the consumer, before the notice and with it;
\* what is counted too low after it lets in no more than that.
WithinBudget ==
    Bytes(raw) + Bytes(fwd) <= IF over THEN Budget + NoticeSize ELSE Budget

\* What the counter is for and what the notice breaks (README): it counts what is
\* buffered.
CountIsRight == forwards => bytes = Buffered

\* The end comes once and after every line: whoever stops at the end of the
\* events has seen all there is.
Ends == {i \in 1..Len(Stream) : Stream[i].kind = "end"}
EndIsLast == "readfail" \notin Faults => Ends \subseteq {Len(Stream)}

\* What a consumer has of a stream is its beginning, in order, and what is missing
\* before the end was announced, unless a reader was given up.
LinesOf(s) == SelectSeq(Stream, LAMBDA e : e.kind = "line" /\ e.stream = s)
Announced == \E i \in 1..Len(Stream) : Stream[i] = Notice
NoSilentGap ==
    listens /\ forwards =>
        \A s \in Streams :
            /\ \A i \in 1..Len(LinesOf(s)) : LinesOf(s)[i].n = i
            /\ Ends # {} /\ reader[s] = "done" /\ Len(LinesOf(s)) < written[s]
                 => Announced \/ "readfail" \in Faults

\* A process that ended, or was told to end, is reported.
EndReported == (child # "run" \/ kill = "sent") ~> (Ends # {})

\* "This keeps the worst-case detection latency under 100ms": an exit is reported,
\* whatever the process left behind (the comment on the poll of spawn_process).
ExitDetected == (child # "run") ~> (Ends # {})
=============================================================================
