--------------------------- MODULE RelayQueuesProofs ---------------------------
(***************************************************************************)
(* The byte budgets of the relay's queues hold for any number of queues,   *)
(* budgets and messages of any size: what RelayQueues counts is what is on *)
(* its way (Accounted), and it stays within the caps (WithinBounds).       *)
(***************************************************************************)
EXTENDS RelayQueues, ByteCountsProofs

-----------------------------------------------------------------------------
(* Sums of sizes, from the lemmas on counts of bytes.                       *)

LEMMA MessagesFinite ==
    ASSUME QueuesAssumption, NEW ms \in SUBSET Messages
    PROVE  IsFiniteSet(ms) /\ \A m \in ms : SizeOf[m] \in Nat
BY FS_Subset DEF QueuesAssumption

LEMMA SumType ==
    ASSUME QueuesAssumption, NEW ms \in SUBSET Messages
    PROVE  Sum(ms) \in Nat
BY MessagesFinite, BytesFinite DEF Sum

LEMMA SumEmpty == Sum({}) = 0
BY BytesOfNone DEF Sum

LEMMA SumAdd ==
    ASSUME QueuesAssumption, NEW ms \in SUBSET Messages, NEW m \in Messages, m \notin ms
    PROVE  Sum(ms \cup {m}) = Sum(ms) + SizeOf[m]
<1>1. SizeOf[m] \in Nat  BY DEF QueuesAssumption
<1> QED  BY <1>1, MessagesFinite, BytesAdded DEF Sum

LEMMA SumRemove ==
    ASSUME QueuesAssumption, NEW ms \in SUBSET Messages, NEW m \in ms
    PROVE  Sum(ms \ {m}) = Sum(ms) - SizeOf[m] /\ SizeOf[m] <= Sum(ms)
BY MessagesFinite, BytesTaken DEF Sum

LEMMA SumMonotone ==
    ASSUME QueuesAssumption, NEW ms \in SUBSET Messages, NEW ns \in SUBSET ms
    PROVE  Sum(ns) <= Sum(ms)
BY MessagesFinite, BytesMonotone DEF Sum

-----------------------------------------------------------------------------
(* The inductive invariant.                                                 *)

\* A message in the channel of a queue is there once, is queued, and was sent
\* to that queue.
ChannelOK ==
    \A q \in Queues : \A i \in 1..Len(queue[q]) :
        /\ pc[queue[q][i]] = "queued" /\ To[queue[q][i]] = q
        /\ \A j \in 1..Len(queue[q]) : queue[q][i] = queue[q][j] => i = j

\* What is counted is within the caps, that of refused messages included.
Capped ==
    /\ \A q \in Queues : bytes[q] <= ByteCap[q]
    /\ \A b \in Budgets : used[b] <= BudgetCap[b]

QueuesInv == TypeOK /\ ChannelOK /\ Accounted /\ Capped

\* Those of R that are in one of the states S.
In(where, S, R) == {x \in R : where[x] \in S}

\* A message that goes from one state to another takes its size out of what
\* some of the states count, or brings it in, or neither.
LEMMA Moved ==
    ASSUME QueuesAssumption, pc \in [Messages -> States], NEW m \in Messages, NEW to \in States, Goto(m, to),
           NEW S, NEW R \in SUBSET Messages
    PROVE  /\ m \in R /\ to \in S /\ pc[m] \notin S =>
                Sum(In(pc', S, R)) = Sum(In(pc, S, R)) + SizeOf[m]
           /\ m \in R /\ to \notin S /\ pc[m] \in S =>
                Sum(In(pc', S, R)) = Sum(In(pc, S, R)) - SizeOf[m] /\ SizeOf[m] <= Sum(In(pc, S, R))
           /\ m \notin R \/ (to \in S <=> pc[m] \in S) => Sum(In(pc', S, R)) = Sum(In(pc, S, R))
<1> DEFINE old == In(pc, S, R)
           new == In(pc', S, R)
<1>1. pc' = [pc EXCEPT ![m] = to]  BY DEF Goto
<1>2. ASSUME m \in R, to \in S, pc[m] \notin S  PROVE Sum(new) = Sum(old) + SizeOf[m]
  <2>1. new = old \cup {m}  BY <1>1, <1>2 DEF In
  <2>2. old \in SUBSET Messages /\ m \notin old  BY <1>2 DEF In
  <2> QED  BY <2>1, <2>2, SumAdd
<1>3. ASSUME m \in R, to \notin S, pc[m] \in S
      PROVE  Sum(new) = Sum(old) - SizeOf[m] /\ SizeOf[m] <= Sum(old)
  <2>1. new = old \ {m} /\ m \in old  BY <1>1, <1>3 DEF In
  <2>2. old \in SUBSET Messages  BY DEF In
  <2> QED  BY <2>1, <2>2, SumRemove
<1>4. ASSUME m \notin R \/ (to \in S <=> pc[m] \in S)  PROVE Sum(new) = Sum(old)
  <2>1. new = old  BY <1>1, <1>4 DEF In
  <2> QED  BY <2>1
<1> QED  BY <1>2, <1>3, <1>4

\* The messages of a queue, and those that count against a budget.
Of(q) == {m \in Messages : To[m] = q}
Against(b) == {m \in Messages : b \in BudgetsOf[To[m]]}

\* Accounted, of the bytes and budgets after a step that moves one message.
LEMMA MovedQueue ==
    ASSUME QueuesAssumption, TypeOK, Accounted, NEW m \in Messages, NEW to \in States, Goto(m, to),
           NEW q \in Queues
    PROVE  /\ To[m] = q /\ to \in CountedStates /\ pc[m] \notin CountedStates =>
                Sum(Counted(q))' = bytes[q] + SizeOf[m]
           /\ To[m] = q /\ to \notin CountedStates /\ pc[m] \in CountedStates =>
                Sum(Counted(q))' = bytes[q] - SizeOf[m] /\ SizeOf[m] <= bytes[q]
           /\ To[m] # q \/ (to \in CountedStates <=> pc[m] \in CountedStates) => Sum(Counted(q))' = bytes[q]
<1>1. Of(q) \in SUBSET Messages /\ (m \in Of(q) <=> To[m] = q)  BY DEF Of
<1>2. Counted(q) = In(pc, CountedStates, Of(q))  BY DEF Of, Counted, At, In
<1>3. Counted(q)' = In(pc', CountedStates, Of(q))  BY DEF Of, Counted, At, In
<1>4. bytes[q] = Sum(Counted(q)) /\ Sum(Counted(q))' = Sum(Counted(q)')  BY DEF Accounted, Sum
<1>5. pc \in [Messages -> States]  BY DEF TypeOK
<1>6. /\ m \in Of(q) /\ to \in CountedStates /\ pc[m] \notin CountedStates =>
            Sum(Counted(q)') = Sum(Counted(q)) + SizeOf[m]
      /\ m \in Of(q) /\ to \notin CountedStates /\ pc[m] \in CountedStates =>
            Sum(Counted(q)') = Sum(Counted(q)) - SizeOf[m] /\ SizeOf[m] <= Sum(Counted(q))
      /\ m \notin Of(q) \/ (to \in CountedStates <=> pc[m] \in CountedStates) =>
            Sum(Counted(q)') = Sum(Counted(q))
  BY <1>1, <1>2, <1>3, <1>5, Moved
<1> QED  BY <1>1, <1>4, <1>6

LEMMA MovedBudget ==
    ASSUME QueuesAssumption, TypeOK, Accounted, NEW m \in Messages, NEW to \in States, Goto(m, to),
           NEW b \in Budgets
    PROVE  /\ b \in BudgetsOf[To[m]] /\ to \in LentStates /\ pc[m] \notin LentStates =>
                Sum(Lent(b))' = used[b] + SizeOf[m]
           /\ b \in BudgetsOf[To[m]] /\ to \notin LentStates /\ pc[m] \in LentStates =>
                Sum(Lent(b))' = used[b] - SizeOf[m] /\ SizeOf[m] <= used[b]
           /\ b \notin BudgetsOf[To[m]] \/ (to \in LentStates <=> pc[m] \in LentStates) =>
                Sum(Lent(b))' = used[b]
<1>1. Against(b) \in SUBSET Messages /\ (m \in Against(b) <=> b \in BudgetsOf[To[m]])  BY DEF Against
<1>2. Lent(b) = In(pc, LentStates, Against(b))  BY DEF Against, Lent, At, In
<1>3. Lent(b)' = In(pc', LentStates, Against(b))  BY DEF Against, Lent, At, In
<1>4. used[b] = Sum(Lent(b)) /\ Sum(Lent(b))' = Sum(Lent(b)')  BY DEF Accounted, Sum
<1>5. pc \in [Messages -> States]  BY DEF TypeOK
<1>6. /\ m \in Against(b) /\ to \in LentStates /\ pc[m] \notin LentStates =>
            Sum(Lent(b)') = Sum(Lent(b)) + SizeOf[m]
      /\ m \in Against(b) /\ to \notin LentStates /\ pc[m] \in LentStates =>
            Sum(Lent(b)') = Sum(Lent(b)) - SizeOf[m] /\ SizeOf[m] <= Sum(Lent(b))
      /\ m \notin Against(b) \/ (to \in LentStates <=> pc[m] \in LentStates) =>
            Sum(Lent(b)') = Sum(Lent(b))
  BY <1>1, <1>2, <1>3, <1>5, Moved
<1> QED  BY <1>1, <1>4, <1>6

\* Accounted is kept by a step that moves one message when the queue's bytes
\* and the budgets change by its size as its states are entered and left.
LEMMA AccountKept ==
    ASSUME QueuesAssumption, TypeOK, Accounted, NEW m \in Messages, NEW to \in States, Goto(m, to),
           \A q \in Queues : bytes'[q] =
               IF To[m] # q \/ (to \in CountedStates <=> pc[m] \in CountedStates) THEN bytes[q]
               ELSE IF to \in CountedStates THEN bytes[q] + SizeOf[m] ELSE bytes[q] - SizeOf[m],
           \A b \in Budgets : used'[b] =
               IF b \notin BudgetsOf[To[m]] \/ (to \in LentStates <=> pc[m] \in LentStates) THEN used[b]
               ELSE IF to \in LentStates THEN used[b] + SizeOf[m] ELSE used[b] - SizeOf[m]
    PROVE  Accounted'
<1>1. ASSUME NEW q \in Queues  PROVE bytes'[q] = Sum(Counted(q))'
  BY <1>1, MovedQueue
<1>2. ASSUME NEW b \in Budgets  PROVE used'[b] = Sum(Lent(b))'
  BY <1>2, MovedBudget
<1> QED  BY <1>1, <1>2 DEF Accounted

\* A message that is not in a channel goes to where it is in none either.
LEMMA ChannelKept ==
    ASSUME QueuesAssumption, TypeOK, ChannelOK, NEW m \in Messages, NEW to \in States, Goto(m, to),
           pc[m] # "queued", UNCHANGED queue
    PROVE  ChannelOK'
<1>1. pc' = [pc EXCEPT ![m] = to] /\ queue' = queue  BY DEF Goto
<1>2. ASSUME NEW q \in Queues, NEW i \in 1..Len(queue[q])  PROVE queue[q][i] # m /\ queue[q][i] \in Messages
  BY <1>2 DEF ChannelOK, TypeOK
<1> QED  BY <1>1, <1>2 DEF ChannelOK, TypeOK

LEMMA InitHolds == QueuesAssumption /\ Init => QueuesInv
<1> SUFFICES ASSUME QueuesAssumption, Init  PROVE QueuesInv
  OBVIOUS
<1>1. TypeOK  BY DEF Init, TypeOK, States
<1>2. ChannelOK  BY DEF Init, ChannelOK
<1>3. ASSUME NEW q \in Queues  PROVE Counted(q) = {}
  BY DEF Init, Counted, At, CountedStates
<1>4. ASSUME NEW b \in Budgets  PROVE Lent(b) = {}
  BY DEF Init, Lent, At, LentStates
<1>5. Accounted  BY <1>3, <1>4, SumEmpty DEF Init, Accounted
<1>6. Capped  BY DEF Init, Capped, QueuesAssumption
<1> QED  BY <1>1, <1>2, <1>5, <1>6 DEF QueuesInv

-----------------------------------------------------------------------------
(* The steps.                                                               *)

LEMMA ChargeKeeps ==
    ASSUME QueuesAssumption, QueuesInv, NEW m \in Messages, Charge(m)
    PROVE  QueuesInv'
<1> DEFINE q0 == To[m]
           fits == bytes[q0] + SizeOf[m] <= ByteCap[q0]
           to == IF fits THEN "charged" ELSE "refused"
<1>1. TypeOK /\ ChannelOK /\ Accounted /\ Capped  BY DEF QueuesInv
<1>2. /\ q0 \in Queues /\ SizeOf[m] \in Nat /\ pc[m] = "idle"
      /\ Goto(m, to) /\ UNCHANGED <<used, queue, open>>
      /\ bytes' = IF fits THEN [bytes EXCEPT ![q0] = @ + SizeOf[m]] ELSE bytes
  BY DEF Charge, QueuesAssumption
<1>3. TypeOK'  BY <1>1, <1>2 DEF TypeOK, Goto, States
<1>4. ChannelOK'  BY <1>1, <1>2, ChannelKept DEF States
<1>5. Accounted'
  BY <1>1, <1>2, AccountKept DEF TypeOK, CountedStates, LentStates, States
<1>6. Capped'  BY <1>1, <1>2 DEF Capped, TypeOK
<1> QED  BY <1>3, <1>4, <1>5, <1>6 DEF QueuesInv

LEMMA ReserveKeeps ==
    ASSUME QueuesAssumption, QueuesInv, NEW m \in Messages, Reserve(m)
    PROVE  QueuesInv'
<1> DEFINE to == IF Fits(m) THEN "reserved" ELSE "uncharge"
<1>1. TypeOK /\ ChannelOK /\ Accounted /\ Capped  BY DEF QueuesInv
<1>2. /\ To[m] \in Queues /\ BudgetsOf[To[m]] \in SUBSET Budgets /\ SizeOf[m] \in Nat /\ pc[m] = "charged"
      /\ Goto(m, to) /\ UNCHANGED <<bytes, queue, open>>
      /\ used' = IF Fits(m) THEN [b \in Budgets |-> IF b \in BudgetsOf[To[m]] THEN used[b] + SizeOf[m] ELSE used[b]]
                ELSE used
  BY DEF Reserve, QueuesAssumption
<1>3. TypeOK'  BY <1>1, <1>2 DEF TypeOK, Goto, States
<1>4. ChannelOK'  BY <1>1, <1>2, ChannelKept DEF States
<1>5. Accounted'
  BY <1>1, <1>2, AccountKept DEF TypeOK, CountedStates, LentStates, States
<1>6. Capped'  BY <1>1, <1>2 DEF Capped, TypeOK, Fits
<1> QED  BY <1>3, <1>4, <1>5, <1>6 DEF QueuesInv

LEMMA UnchargeKeeps ==
    ASSUME QueuesAssumption, QueuesInv, NEW m \in Messages, Uncharge(m)
    PROVE  QueuesInv'
<1>1. TypeOK /\ ChannelOK /\ Accounted /\ Capped  BY DEF QueuesInv
<1>2. /\ To[m] \in Queues /\ SizeOf[m] \in Nat /\ pc[m] = "uncharge"
      /\ Goto(m, "refused") /\ UNCHANGED <<used, queue, open>>
      /\ bytes' = [bytes EXCEPT ![To[m]] = @ - SizeOf[m]]
  BY DEF Uncharge, QueuesAssumption
<1>3. SizeOf[m] <= bytes[To[m]]
  BY <1>1, <1>2, MovedQueue DEF CountedStates, States
<1>4. TypeOK'  BY <1>1, <1>2, <1>3 DEF TypeOK, Goto, States
<1>5. ChannelOK'  BY <1>1, <1>2, ChannelKept DEF States
<1>6. Accounted'
  BY <1>1, <1>2, AccountKept DEF TypeOK, CountedStates, LentStates, States
<1>7. Capped'  BY <1>1, <1>2 DEF Capped, TypeOK, QueuesAssumption
<1> QED  BY <1>4, <1>5, <1>6, <1>7 DEF QueuesInv

LEMMA EnqueueKeeps ==
    ASSUME QueuesAssumption, QueuesInv, NEW m \in Messages, Enqueue(m)
    PROVE  QueuesInv'
<1> DEFINE q0 == To[m]
           room == q0 \in open /\ Len(queue[q0]) < CountCap[q0]
           to == IF room THEN "queued" ELSE "release"
<1>1. TypeOK /\ ChannelOK /\ Accounted /\ Capped  BY DEF QueuesInv
<1>2. /\ q0 \in Queues /\ SizeOf[m] \in Nat /\ pc[m] = "reserved"
      /\ Goto(m, to) /\ UNCHANGED <<bytes, used, open>>
      /\ queue' = IF room THEN [queue EXCEPT ![q0] = Append(@, m)] ELSE queue
  BY DEF Enqueue, Bounced, QueuesAssumption
<1>3. TypeOK'  BY <1>1, <1>2 DEF TypeOK, Goto, States
<1>4. ChannelOK'
  <2>1. CASE ~room  BY <1>1, <1>2, <2>1, ChannelKept DEF States
  <2>2. CASE room
    <3>1. pc' = [pc EXCEPT ![m] = "queued"] /\ queue' = [queue EXCEPT ![q0] = Append(@, m)]
      BY <1>2, <2>2 DEF Goto
    <3>2. \A q \in Queues : queue[q] \in Seq(Messages)  BY <1>1 DEF TypeOK
    <3>3. \A q \in Queues : \A i \in 1..Len(queue[q]) : queue[q][i] # m /\ queue[q][i] \in Messages
      BY <1>1, <1>2, <3>2 DEF ChannelOK
    <3>4. ASSUME NEW q \in Queues, q # q0, NEW i \in 1..Len(queue'[q])
          PROVE  /\ pc'[queue'[q][i]] = "queued" /\ To[queue'[q][i]] = q
                 /\ \A j \in 1..Len(queue'[q]) : queue'[q][i] = queue'[q][j] => i = j
      <4>1. queue'[q] = queue[q]  BY <1>1, <3>1, <3>4 DEF TypeOK
      <4> QED  BY <1>1, <3>1, <3>3, <3>4, <4>1 DEF ChannelOK, TypeOK
    <3>5. ASSUME NEW i \in 1..Len(queue'[q0])
          PROVE  /\ pc'[queue'[q0][i]] = "queued" /\ To[queue'[q0][i]] = q0
                 /\ \A j \in 1..Len(queue'[q0]) : queue'[q0][i] = queue'[q0][j] => i = j
      <4>1. queue'[q0] = Append(queue[q0], m)  BY <1>1, <1>2, <3>1 DEF TypeOK
      <4>2. Len(queue'[q0]) = Len(queue[q0]) + 1  BY <1>2, <3>2, <4>1
      <4>3. \A k \in 1..Len(queue'[q0]) : queue'[q0][k] = IF k <= Len(queue[q0]) THEN queue[q0][k] ELSE m
        BY <1>2, <3>2, <4>1, <4>2
      <4>4. Len(queue[q0]) \in Nat  BY <1>2, <3>2
      <4> HIDE DEF q0, room, to
      <4>5. CASE i <= Len(queue[q0])
        BY <1>1, <1>2, <3>1, <3>3, <3>5, <4>2, <4>3, <4>4, <4>5 DEF ChannelOK, TypeOK
      <4>6. CASE i = Len(queue[q0]) + 1
        BY <1>1, <1>2, <3>1, <3>3, <3>5, <4>2, <4>3, <4>4, <4>6 DEF ChannelOK, TypeOK, q0
      <4> QED  BY <4>2, <4>4, <4>5, <4>6
    <3> QED  BY <3>4, <3>5 DEF ChannelOK
  <2> QED  BY <2>1, <2>2
<1>5. Accounted'
  BY <1>1, <1>2, AccountKept DEF TypeOK, CountedStates, LentStates, States
<1>6. Capped'  BY <1>1, <1>2 DEF Capped
<1> QED  BY <1>3, <1>4, <1>5, <1>6 DEF QueuesInv

LEMMA ReceiveKeeps ==
    ASSUME QueuesAssumption, QueuesInv, NEW q0 \in Queues, Receive(q0)
    PROVE  QueuesInv'
<1> DEFINE m == Head(queue[q0])
<1>1. TypeOK /\ ChannelOK /\ Accounted /\ Capped  BY DEF QueuesInv
<1>2. /\ queue[q0] \in Seq(Messages) /\ queue[q0] # <<>>
      /\ Goto(m, "sending") /\ UNCHANGED <<bytes, used, open>>
      /\ queue' = [queue EXCEPT ![q0] = Tail(@)]
  BY <1>1 DEF Receive, TypeOK
<1>3. m \in Messages /\ m = queue[q0][1] /\ 1 \in 1..Len(queue[q0])
  BY <1>2
<1>4. pc[m] = "queued" /\ To[m] = q0  BY <1>1, <1>3 DEF ChannelOK
<1>5. TypeOK'  BY <1>1, <1>2, <1>3 DEF TypeOK, Goto, States
<1>6. ChannelOK'
  <2>1. pc' = [pc EXCEPT ![m] = "sending"]  BY <1>2 DEF Goto
  <2>2. \A q \in Queues : queue[q] \in Seq(Messages)  BY <1>1 DEF TypeOK
  <2>3. ASSUME NEW q \in Queues, q # q0, NEW i \in 1..Len(queue'[q])
        PROVE  /\ pc'[queue'[q][i]] = "queued" /\ To[queue'[q][i]] = q
               /\ \A j \in 1..Len(queue'[q]) : queue'[q][i] = queue'[q][j] => i = j
    <3>1. queue'[q] = queue[q]  BY <1>1, <1>2, <2>3 DEF TypeOK
    <3>2. queue[q][i] \in Messages /\ To[queue[q][i]] = q  BY <1>1, <2>2, <2>3, <3>1 DEF ChannelOK
    <3> QED  BY <1>1, <1>4, <2>1, <2>3, <3>1, <3>2 DEF ChannelOK, TypeOK
  <2>4. ASSUME NEW i \in 1..Len(queue'[q0])
        PROVE  /\ pc'[queue'[q0][i]] = "queued" /\ To[queue'[q0][i]] = q0
               /\ \A j \in 1..Len(queue'[q0]) : queue'[q0][i] = queue'[q0][j] => i = j
    <3>1. queue'[q0] = Tail(queue[q0])  BY <1>1, <1>2 DEF TypeOK
    <3> DEFINE chan == queue[q0]
    <3>0. chan \in Seq(Messages) /\ chan # <<>> /\ queue'[q0] = Tail(chan)  BY <1>2, <3>1
    <3> HIDE DEF chan
    <3>2. Len(queue'[q0]) = Len(chan) - 1 /\ Len(chan) \in Nat  BY <3>0
    <3>3. \A k \in 1..Len(queue'[q0]) : queue'[q0][k] = chan[k + 1]  BY <3>0, <3>2
    <3>4. \A k \in 2..Len(queue[q0]) : queue[q0][k] # m /\ queue[q0][k] \in Messages
      BY <1>1, <1>2, <1>3 DEF ChannelOK
    <3> HIDE DEF m
    <3> QED  BY <1>1, <2>1, <2>4, <3>2, <3>3, <3>4, SMTT(60) DEF ChannelOK, TypeOK, chan
  <2> QED  BY <2>3, <2>4 DEF ChannelOK
<1> HIDE DEF m
<1>7. Accounted'
  BY <1>1, <1>2, <1>3, <1>4, AccountKept DEF TypeOK, CountedStates, LentStates, States
<1>8. Capped'  BY <1>1, <1>2 DEF Capped
<1> QED  BY <1>5, <1>6, <1>7, <1>8 DEF QueuesInv

LEMMA SendDoneKeeps ==
    ASSUME QueuesAssumption, QueuesInv, NEW m \in Messages, SendDone(m)
    PROVE  QueuesInv'
<1>1. TypeOK /\ ChannelOK /\ Accounted /\ Capped  BY DEF QueuesInv
<1>2. pc[m] = "sending" /\ Goto(m, "release") /\ UNCHANGED <<bytes, used, queue, open>>
  BY DEF SendDone
<1>3. TypeOK'  BY <1>1, <1>2 DEF TypeOK, Goto, States
<1>4. ChannelOK'  BY <1>1, <1>2, ChannelKept DEF States
<1>5. Accounted'
  BY <1>1, <1>2, AccountKept DEF TypeOK, CountedStates, LentStates, States
<1>6. Capped'  BY <1>1, <1>2 DEF Capped
<1> QED  BY <1>3, <1>4, <1>5, <1>6 DEF QueuesInv

\* Closing a queue moves many messages, all of them counted before and after.
LEMMA CloseKeeps ==
    ASSUME QueuesAssumption, QueuesInv, NEW q0 \in Queues, Close(q0)
    PROVE  QueuesInv'
<1> DEFINE ms == {queue[q0][i] : i \in DOMAIN queue[q0]} \cup {m \in At({"sending"}) : To[m] = q0}
<1>1. TypeOK /\ ChannelOK /\ Accounted /\ Capped  BY DEF QueuesInv
<1>2. /\ pc' = [m \in Messages |-> IF m \in ms THEN "release" ELSE pc[m]]
      /\ queue' = [queue EXCEPT ![q0] = <<>>] /\ open' = open \ {q0}
      /\ UNCHANGED <<bytes, used>>
  BY DEF Close, Drained
<1>3. \A q \in Queues : queue[q] \in Seq(Messages)  BY <1>1 DEF TypeOK
<1>4. \A m \in ms : m \in Messages /\ To[m] = q0 /\ pc[m] \in {"queued", "sending"}
  <2>1. \A i \in DOMAIN queue[q0] : /\ queue[q0][i] \in Messages /\ To[queue[q0][i]] = q0
                                   /\ pc[queue[q0][i]] = "queued"
    BY <1>1, <1>3 DEF ChannelOK
  <2> QED  BY <2>1 DEF At
<1> HIDE DEF ms
<1>5. TypeOK'  BY <1>1, <1>2 DEF TypeOK, States
<1>6. ChannelOK'
  <2>1. ASSUME NEW q \in Queues, NEW i \in 1..Len(queue'[q])
        PROVE  /\ pc'[queue'[q][i]] = "queued" /\ To[queue'[q][i]] = q
               /\ \A j \in 1..Len(queue'[q]) : queue'[q][i] = queue'[q][j] => i = j
    <3>1. q # q0 /\ queue'[q] = queue[q]  BY <1>1, <1>2, <2>1 DEF TypeOK
    <3>2. queue[q][i] \in Messages /\ queue[q][i] \notin ms
      BY <1>1, <1>3, <1>4, <2>1, <3>1 DEF ChannelOK
    <3> QED  BY <1>1, <1>2, <2>1, <3>1, <3>2 DEF ChannelOK
  <2> QED  BY <2>1 DEF ChannelOK
<1>7. \A m \in Messages : /\ pc'[m] \in CountedStates <=> pc[m] \in CountedStates
                          /\ pc'[m] \in LentStates <=> pc[m] \in LentStates
  BY <1>1, <1>2, <1>4 DEF CountedStates, LentStates
<1>8. Accounted'
  <2>1. ASSUME NEW q \in Queues  PROVE Counted(q)' = Counted(q)
    BY <1>7 DEF Counted, At
  <2>2. ASSUME NEW b \in Budgets  PROVE Lent(b)' = Lent(b)
    BY <1>7 DEF Lent, At
  <2> QED  BY <1>1, <1>2, <2>1, <2>2 DEF Accounted, Sum
<1>9. Capped'  BY <1>1, <1>2 DEF Capped
<1> QED  BY <1>5, <1>6, <1>8, <1>9 DEF QueuesInv

LEMMA ReleaseKeeps ==
    ASSUME QueuesAssumption, QueuesInv, NEW m \in Messages, Release(m)
    PROVE  QueuesInv'
<1>1. TypeOK /\ ChannelOK /\ Accounted /\ Capped  BY DEF QueuesInv
<1>2. /\ To[m] \in Queues /\ SizeOf[m] \in Nat /\ pc[m] = "release"
      /\ Goto(m, "return") /\ UNCHANGED <<used, queue, open>>
      /\ bytes' = [bytes EXCEPT ![To[m]] = @ - SizeOf[m]]
  BY DEF Release, QueuesAssumption
<1>3. SizeOf[m] <= bytes[To[m]]
  BY <1>1, <1>2, MovedQueue DEF CountedStates, States
<1>4. TypeOK'  BY <1>1, <1>2, <1>3 DEF TypeOK, Goto, States
<1>5. ChannelOK'  BY <1>1, <1>2, ChannelKept DEF States
<1>6. Accounted'
  BY <1>1, <1>2, AccountKept DEF TypeOK, CountedStates, LentStates, States
<1>7. Capped'  BY <1>1, <1>2 DEF Capped, TypeOK, QueuesAssumption
<1> QED  BY <1>4, <1>5, <1>6, <1>7 DEF QueuesInv

\* The saturating subtraction never saturates.
LEMMA ReturnKeeps ==
    ASSUME QueuesAssumption, QueuesInv, NEW m \in Messages, Return(m)
    PROVE  QueuesInv'
<1>1. TypeOK /\ ChannelOK /\ Accounted /\ Capped  BY DEF QueuesInv
<1>2. /\ BudgetsOf[To[m]] \in SUBSET Budgets /\ SizeOf[m] \in Nat /\ pc[m] = "return"
      /\ Goto(m, "done") /\ UNCHANGED <<bytes, queue, open>>
      /\ used' = [b \in Budgets |-> IF b \in BudgetsOf[To[m]] THEN Minus(used[b], SizeOf[m]) ELSE used[b]]
  BY DEF Return, QueuesAssumption
<1>3. \A b \in BudgetsOf[To[m]] : SizeOf[m] <= used[b]
  BY <1>1, <1>2, MovedBudget DEF LentStates, States
<1>4. \A b \in BudgetsOf[To[m]] : used[b] \in Nat /\ used'[b] = used[b] - SizeOf[m] /\ used'[b] \in Nat
  BY <1>1, <1>2, <1>3 DEF TypeOK, Minus
<1>5. TypeOK'
  <2>1. used' \in [Budgets -> Nat]  BY <1>1, <1>2, <1>4 DEF TypeOK
  <2> QED  BY <1>1, <1>2, <2>1 DEF TypeOK, Goto, States
<1>6. ChannelOK'  BY <1>1, <1>2, ChannelKept DEF States
<1>7. Accounted'
  BY <1>1, <1>2, <1>4, AccountKept DEF TypeOK, CountedStates, LentStates, States
<1>8. Capped'
  <2>1. ASSUME NEW b \in Budgets  PROVE used'[b] <= used[b] /\ used[b] \in Nat /\ used'[b] \in Nat
    <3>1. used[b] \in Nat  BY <1>1 DEF TypeOK
    <3>2. CASE b \in BudgetsOf[To[m]]  BY <1>2, <1>4, <3>1, <3>2
    <3>3. CASE b \notin BudgetsOf[To[m]]  BY <1>2, <3>1, <3>3
    <3> QED  BY <3>2, <3>3
  <2>2. \A b \in Budgets : used[b] <= BudgetCap[b] /\ BudgetCap[b] \in Nat
    BY <1>1 DEF Capped, QueuesAssumption
  <2> QED  BY <1>1, <1>2, <2>1, <2>2 DEF Capped
<1> QED  BY <1>5, <1>6, <1>7, <1>8 DEF QueuesInv

LEMMA StepKeeps == QueuesAssumption /\ QueuesInv /\ [Next]_vars => QueuesInv'
<1> SUFFICES ASSUME QueuesAssumption, QueuesInv, [Next]_vars  PROVE QueuesInv'
  OBVIOUS
<1>1. ASSUME NEW m \in Messages, Send(m)  PROVE QueuesInv'
  BY <1>1, ChargeKeeps, ReserveKeeps, UnchargeKeeps, EnqueueKeeps DEF Send
<1>2. ASSUME NEW m \in Messages, Drop(m)  PROVE QueuesInv'
  BY <1>2, SendDoneKeeps, ReleaseKeeps, ReturnKeeps DEF Drop
<1>3. ASSUME NEW q \in Queues, Receive(q) \/ Close(q)  PROVE QueuesInv'
  BY <1>3, ReceiveKeeps, CloseKeeps
<1>4. CASE UNCHANGED vars
  BY <1>4 DEF vars, QueuesInv, TypeOK, ChannelOK, Accounted, Capped, Counted, Lent, At
<1> QED  BY <1>1, <1>2, <1>3, <1>4 DEF Next

\* What is counted and within the caps holds what is queued or being written.
LEMMA InvBounds == QueuesAssumption /\ QueuesInv => BudgetsHold
<1> SUFFICES ASSUME QueuesAssumption, QueuesInv  PROVE BudgetsHold
  OBVIOUS
<1>1. TypeOK /\ Accounted /\ Capped  BY DEF QueuesInv
<1>2. ASSUME NEW q \in Queues
      PROVE  Sum({m \in At({"queued", "sending"}) : To[m] = q}) <= ByteCap[q]
  <2> DEFINE ns == {m \in At({"queued", "sending"}) : To[m] = q}
  <2>1. Counted(q) \in SUBSET Messages /\ ns \in SUBSET Counted(q)
    BY DEF Counted, At, CountedStates
  <2>2. Sum(ns) <= Sum(Counted(q)) /\ Sum(ns) \in Nat  BY <2>1, SumMonotone, SumType
  <2> QED  BY <1>1, <2>2 DEF Accounted, Capped, TypeOK, QueuesAssumption
<1>3. ASSUME NEW b \in Budgets
      PROVE  Sum({m \in At({"queued", "sending"}) : b \in BudgetsOf[To[m]]}) <= BudgetCap[b]
  <2> DEFINE ns == {m \in At({"queued", "sending"}) : b \in BudgetsOf[To[m]]}
  <2>1. Lent(b) \in SUBSET Messages /\ ns \in SUBSET Lent(b)
    BY DEF Lent, At, LentStates
  <2>2. Sum(ns) <= Sum(Lent(b)) /\ Sum(ns) \in Nat  BY <2>1, SumMonotone, SumType
  <2> QED  BY <1>1, <2>2 DEF Accounted, Capped, TypeOK, QueuesAssumption
<1> QED  BY <1>1, <1>2, <1>3 DEF BudgetsHold, WithinBounds

-----------------------------------------------------------------------------
\* The bytes of every queue and shared budget are those of the messages on their
\* way, and within the caps: try_send charges and try_reserve lends what the
\* drop of a reservation gives back, once, for any sizes and any number of
\* queues, budgets and messages.
THEOREM BytesAreAccounted == ASSUME QueuesAssumption PROVE Spec => []BudgetsHold
<1>1. Init => QueuesInv  BY InitHolds
<1>2. QueuesInv /\ [Next]_vars => QueuesInv'  BY StepKeeps
<1>3. QueuesInv => BudgetsHold  BY InvBounds
<1> QED  BY <1>1, <1>2, <1>3, PTL DEF Spec

\* The saturating subtraction of release_scoped_queue_bytes never saturates, nor
\* does that of a queue's own bytes go below zero: nothing is given back twice.
NeverBelow ==
    [][\A m \in Messages :
        /\ Release(m) \/ Uncharge(m) => SizeOf[m] <= bytes[To[m]]
        /\ Return(m) => \A b \in BudgetsOf[To[m]] : SizeOf[m] <= used[b]]_vars
THEOREM NothingBackTwice == ASSUME QueuesAssumption PROVE Spec => NeverBelow
<1> DEFINE A == \A m \in Messages :
        /\ Release(m) \/ Uncharge(m) => SizeOf[m] <= bytes[To[m]]
        /\ Return(m) => \A b \in BudgetsOf[To[m]] : SizeOf[m] <= used[b]
<1>1. Init => QueuesInv  BY InitHolds
<1>2. QueuesInv /\ [Next]_vars => QueuesInv'  BY StepKeeps
<1>3. ASSUME QueuesInv, NEW m \in Messages
      PROVE  /\ Release(m) \/ Uncharge(m) => SizeOf[m] <= bytes[To[m]]
             /\ Return(m) => \A b \in BudgetsOf[To[m]] : SizeOf[m] <= used[b]
  <2>1. TypeOK /\ Accounted  BY <1>3 DEF QueuesInv
  <2>2. To[m] \in Queues /\ BudgetsOf[To[m]] \in SUBSET Budgets  BY DEF QueuesAssumption
  <2>3. Release(m) => SizeOf[m] <= bytes[To[m]]
    BY <2>1, <2>2, MovedQueue DEF Release, CountedStates, States
  <2>4. Uncharge(m) => SizeOf[m] <= bytes[To[m]]
    BY <2>1, <2>2, MovedQueue DEF Uncharge, CountedStates, States
  <2>5. Return(m) => \A b \in BudgetsOf[To[m]] : SizeOf[m] <= used[b]
    BY <2>1, <2>2, MovedBudget DEF Return, LentStates, States
  <2> QED  BY <2>3, <2>4, <2>5
<1>4. QueuesInv => A  BY <1>3
<1>5. QueuesInv /\ [Next]_vars => [A]_vars  BY <1>4
<1> QED  BY <1>1, <1>2, <1>5, PTL DEF Spec, NeverBelow
=============================================================================
