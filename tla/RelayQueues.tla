------------------------------ MODULE RelayQueues ------------------------------
(***************************************************************************)
(* The bounded queues of the relay (conductor-relay/src/relay.rs): every   *)
(* WebSocket has one, limited in messages and bytes, and so has every      *)
(* event stream; the bytes also count against budgets the queues share.    *)
(*                                                                         *)
(* Each step is one atomic operation or one acquisition of the budget's    *)
(* lock; senders, the writers of the sockets and the drops of refused      *)
(* messages run concurrently.                                              *)
(***************************************************************************)
EXTENDS Naturals, Sequences, FiniteSets, ByteCounts

CONSTANTS
    Queues,
    Messages,      \* each is sent once
    To,            \* the queue a message is sent to
    SizeOf,        \* websocket_message_size, proxied_api_stream_event_size
    ByteCap,       \* bytes a queue may hold
    CountCap,      \* messages a queue may hold
    Budgets,       \* shared budgets
    BudgetsOf,     \* the budgets a queue counts against
    BudgetCap

QueuesAssumption ==
    /\ IsFiniteSet(Messages)
    /\ To \in [Messages -> Queues]
    /\ SizeOf \in [Messages -> Nat]
    /\ ByteCap \in [Queues -> Nat] /\ CountCap \in [Queues -> Nat]
    /\ BudgetsOf \in [Queues -> SUBSET Budgets]
    /\ BudgetCap \in [Budgets -> Nat]

VARIABLES
    pc,        \* where each message, or its reservation, is
    bytes,     \* queued_bytes of each queue
    used,      \* bytes of each shared budget
    queue,     \* the channel of each queue
    open       \* queues whose receiver is alive

vars == <<pc, bytes, used, queue, open>>

-----------------------------------------------------------------------------
At(states) == {m \in Messages : pc[m] \in states}
Goto(m, to) == pc' = [pc EXCEPT ![m] = to]
Drained(ms) == [m \in Messages |-> IF m \in ms THEN "release" ELSE pc[m]]
Sum(ms) == TotalBytes(SizeOf, ms)
Minus(n, k) == IF n > k THEN n - k ELSE 0       \* saturating_sub

Init ==
    /\ pc = [m \in Messages |-> "idle"]
    /\ bytes = [q \in Queues |-> 0]
    /\ used = [b \in Budgets |-> 0]
    /\ queue = [q \in Queues |-> <<>>]
    /\ open = Queues

\* The queue's own bytes first: added and checked in one atomic operation.
Charge(m) == LET q == To[m] IN
    /\ pc[m] = "idle"
    /\ IF bytes[q] + SizeOf[m] <= ByteCap[q]
       THEN /\ bytes' = [bytes EXCEPT ![q] = @ + SizeOf[m]]
            /\ Goto(m, "charged")
       ELSE /\ Goto(m, "refused")
            /\ UNCHANGED bytes
    /\ UNCHANGED <<used, queue, open>>

Fits(m) == \A b \in BudgetsOf[To[m]] : used[b] + SizeOf[m] <= BudgetCap[b]

\* All shared budgets under one lock, or none.
Reserve(m) ==
    /\ pc[m] = "charged"
    /\ IF Fits(m)
       THEN /\ used' = [b \in Budgets |-> IF b \in BudgetsOf[To[m]] THEN used[b] + SizeOf[m]
                                          ELSE used[b]]
            /\ Goto(m, "reserved")
       ELSE /\ Goto(m, "uncharge")
            /\ UNCHANGED used
    /\ UNCHANGED <<bytes, queue, open>>

Uncharge(m) ==
    /\ pc[m] = "uncharge"
    /\ bytes' = [bytes EXCEPT ![To[m]] = @ - SizeOf[m]]
    /\ Goto(m, "refused")
    /\ UNCHANGED <<used, queue, open>>

\* Mutant: a message the channel refuses is forgotten with its reservation.
Forgotten(m) == "refused"
Bounced(m) == "release"

Enqueue(m) == LET q == To[m] IN
    /\ pc[m] = "reserved"
    /\ IF q \in open /\ Len(queue[q]) < CountCap[q]
       THEN /\ queue' = [queue EXCEPT ![q] = Append(@, m)]
            /\ Goto(m, "queued")
       ELSE /\ Goto(m, Bounced(m))
            /\ UNCHANGED queue
    /\ UNCHANGED <<bytes, used, open>>

\* The receiver takes a message and keeps its reservation until it is sent.
Receive(q) ==
    /\ q \in open /\ queue[q] # <<>>
    /\ ~\E m \in At({"sending"}) : To[m] = q
    /\ queue' = [queue EXCEPT ![q] = Tail(@)]
    /\ Goto(Head(queue[q]), "sending")
    /\ UNCHANGED <<bytes, used, open>>

SendDone(m) ==
    /\ pc[m] = "sending"
    /\ Goto(m, "release")
    /\ UNCHANGED <<bytes, used, queue, open>>

\* The peer or the client is gone: the receiver is dropped with what is queued.
Close(q) ==
    /\ q \in open
    /\ open' = open \ {q}
    /\ pc' = Drained({queue[q][i] : i \in DOMAIN queue[q]} \cup {m \in At({"sending"}) : To[m] = q})
    /\ queue' = [queue EXCEPT ![q] = <<>>]
    /\ UNCHANGED <<bytes, used>>

\* Dropping a reservation: the queue's bytes, then the shared budgets.
Release(m) ==
    /\ pc[m] = "release"
    /\ bytes' = [bytes EXCEPT ![To[m]] = @ - SizeOf[m]]
    /\ Goto(m, "return")
    /\ UNCHANGED <<used, queue, open>>

Return(m) ==
    /\ pc[m] = "return"
    /\ used' = [b \in Budgets |-> IF b \in BudgetsOf[To[m]] THEN Minus(used[b], SizeOf[m])
                                  ELSE used[b]]
    /\ Goto(m, "done")
    /\ UNCHANGED <<bytes, queue, open>>

Send(m) == Charge(m) \/ Reserve(m) \/ Uncharge(m) \/ Enqueue(m)
Drop(m) == SendDone(m) \/ Release(m) \/ Return(m)
Next == \/ \E m \in Messages : Send(m) \/ Drop(m)
        \/ \E q \in Queues : Receive(q) \/ Close(q)

Spec == Init /\ [][Next]_vars

\* Senders and drops run; peers need not read.
FairSpec == Spec /\ \A m \in Messages : /\ WF_vars(Reserve(m) \/ Uncharge(m) \/ Enqueue(m))
                                        /\ WF_vars(Release(m) \/ Return(m))

-----------------------------------------------------------------------------
(* Properties.                                                              *)

States == {"idle", "charged", "uncharge", "reserved", "queued", "sending", "release",
           "return", "refused", "done"}

TypeOK ==
    /\ pc \in [Messages -> States]
    /\ bytes \in [Queues -> Nat]
    /\ used \in [Budgets -> Nat]
    /\ queue \in [Queues -> Seq(Messages)]
    /\ open \subseteq Queues

\* What a queue counts, and what a budget does, from charge to release.
CountedStates == {"charged", "uncharge", "reserved", "queued", "sending", "release"}
LentStates == {"reserved", "queued", "sending", "release", "return"}
Counted(q) == {m \in At(CountedStates) : To[m] = q}
Lent(b) == {m \in At(LentStates) : b \in BudgetsOf[To[m]]}

\* Every byte counted belongs to a message on its way, and every such message is
\* counted: by its queue, and by all the budgets of its queue.
Accounted ==
    /\ \A q \in Queues : bytes[q] = Sum(Counted(q))
    /\ \A b \in Budgets : used[b] = Sum(Lent(b))

\* What queues and sockets hold stays within every bound, a message being written
\* to a slow peer included.
WithinBounds ==
    /\ \A q \in Queues : Sum({m \in At({"queued", "sending"}) : To[m] = q}) <= ByteCap[q]
    /\ \A b \in Budgets :
        Sum({m \in At({"queued", "sending"}) : b \in BudgetsOf[To[m]]}) <= BudgetCap[b]

\* Both, for every queue and budget of the relay.
BudgetsHold == Accounted /\ WithinBounds

\* When all queues are closed, everything that was charged comes back.
AllComesBack ==
    (open = {} /\ At({"idle"}) = {}) ~> (\A q \in Queues : bytes[q] = 0) /\ (\A b \in Budgets : used[b] = 0)

=============================================================================
