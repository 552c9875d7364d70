----------------------- MODULE DispatcherThreadsProofs -----------------------
(***************************************************************************)
(* Proofs about DispatcherThreads, for any number of requests, runtimes    *)
(* and events, every kind of agent and every fault that a theorem does not *)
(* name.                                                                   *)
(***************************************************************************)
EXTENDS DispatcherThreads, FiniteSetTheorems, TLAPS

EventNames == {"delta", "ask", "done", "bad", "killed"}
Rec == [status : Statuses, asks : BOOLEAN, said : SUBSET Requests, model : {1, 2},
        launch : 0..2, pid : Runtimes \cup {None}]
RtRec == [at : {"none", "up", "ended"}, open : BOOLEAN, held : BOOLEAN,
          heard : SUBSET Requests, left : Nat, events : Seq(EventNames)]
ConRec == [at : {"none", "wait", "apply", "clear", "leave", "queue", "save", "write"},
           event : EventNames \cup {None}]
OwnRec == [rec : Rec, handle : Runtimes \cup {None}]
SnapRec == [by : Runtimes \cup Requests \cup {"flush", None}, rec : Rec]

Replaces == {"replace", "replace1", "replace2", "replaceOk", "replaceErr"}
Removes == {"remove", "remove1", "remove2", "remove3"}
\* Where a request of a kind may be, besides at rest.
PlacesOf(kind) ==
    CASE kind = "send" -> {"in", "mark", "save", "write", "save2", "write2", "save3", "write3",
                           "route", "retire", "ensure", "store", "note", "consume", "recover",
                           "errored", "fail"}
      [] kind = "prefs" -> {"in", "retire"} \cup Replaces
      [] kind = "bind" -> Replaces
      [] kind = "delete" -> {"detach", "terminate"} \cup Removes
      [] OTHER -> {}
\* Where a request holds the snapshot guard.
Writes == {"write", "write2", "write3", "replace1", "replace2", "remove1", "remove2", "remove3"}

Typed ==
    /\ mem \in Rec /\ disk \in Rec /\ attached \in Runtimes \cup {None}
    /\ rt \in [Runtimes -> RtRec] /\ con \in [Runtimes -> ConRec]
    /\ own \in [Requests -> OwnRec] /\ guard \in Requests \cup {None} /\ snap \in SnapRec
    /\ pending \in BOOLEAN /\ flush \in {"wait", "drained", "write"}
    /\ server \in {"up", "crashed", "killed"}
    /\ DOMAIN at = Requests
    /\ \A r \in Runtimes : con[r].at = "apply" => con[r].event \in EventNames

\* A request is at rest or where its kind may be.
Placed == \A c \in Requests : at[c] \in Resting \cup PlacesOf(Request[c])

\* The transition guard is held by the one guarded request that is under way.
GuardOK ==
    /\ guard # None => Request[guard] \in Guarded /\ at[guard] \notin Resting
    /\ \A c \in Requests : Request[c] \in Guarded /\ at[c] \notin Resting => guard = c

\* The snapshot guard is held by the one who writes.
SnapOK ==
    /\ \A c \in Requests : at[c] \in Writes <=> snap.by = c
    /\ \A r \in Runtimes : con[r].at = "write" <=> snap.by = r
    /\ flush = "write" <=> snap.by = "flush"

\* A runtime that was not started has no consumer, nor has one that is being started.
Starts == {"store", "note", "save2", "write2", "consume"}
Fresh ==
    /\ \A r \in Runtimes : rt[r].at = "none" => con[r].at = "none"
    /\ \A c \in Requests : Request[c] = "send" /\ at[c] \in Starts
          => own[c].handle \in Runtimes /\ con[own[c].handle].at = "none" /\ rt[own[c].handle].at # "none"

TurnInv == Typed /\ Placed /\ GuardOK /\ SnapOK /\ Fresh

-----------------------------------------------------------------------------
(* The state and the places keep their types.                               *)

LEMMA Names1 ==
    /\ None \notin Runtimes /\ None \notin Requests /\ "flush" \notin Runtimes
    /\ "flush" \notin Requests /\ Runtimes \cap Requests = {}
    /\ \A c \in Requests : Request[c] \in RequestKinds
    /\ \A i \in DOMAIN Names : Names[i] \in Runtimes
BY ConstantsAssumption DEF DispatcherAssumption, Runtimes, Requests, None, Range

\* The records the handlers make of one are records.
LEMMA RecTypes ==
    /\ Gone \in Rec /\ Record("Idle") \in Rec /\ Gone.status = "gone"
    /\ \A t \in Rec : Cleared(t) \in Rec /\ Ready(t) \in Rec /\ Loaded(t) \in Rec /\ Failed(t) \in Rec
    /\ \A t \in Rec : \A e \in EventNames : Effect(e, t) \in Rec
<1> USE DEF Rec, Statuses
<1>1. Gone \in Rec /\ Record("Idle") \in Rec /\ Gone.status = "gone"
  BY DEF Gone, Record
<1>2. \A t \in Rec : Cleared(t) \in Rec /\ Ready(t) \in Rec /\ Failed(t) \in Rec
  <2>1. ASSUME NEW t \in Rec PROVE Cleared(t) \in Rec
    <3>1. None \in Runtimes \cup {None} /\ 0 \in 0..2
      OBVIOUS
    <3> QED
      BY <3>1 DEF Cleared
  <2>2. \A t \in Rec : [t EXCEPT !.asks = FALSE, !.status = "Idle"] \in Rec /\ [t EXCEPT !.status = "Errored"] \in Rec
    OBVIOUS
  <2> QED
    BY <2>1, <2>2 DEF Ready, Failed
<1>3. \A t \in Rec : Loaded(t) \in Rec
  <2> SUFFICES ASSUME NEW t \in Rec PROVE Loaded(t) \in Rec
    OBVIOUS
  <2>1. \A s \in Statuses : [t EXCEPT !.pid = None, !.status = s] \in Rec
    OBVIOUS
  <2>2. t.status \in Statuses
    OBVIOUS
  <2> HIDE DEF Rec
  <2> QED
    BY <2>1, <2>2 DEF Loaded
<1>4. \A t \in Rec : \A e \in EventNames : Effect(e, t) \in Rec
  <2> SUFFICES ASSUME NEW t \in Rec, NEW e \in EventNames PROVE Effect(e, t) \in Rec
    OBVIOUS
  <2> DEFINE s == CASE e = "delta" -> "Working" [] e = "ask" -> "NeedsInput" [] e = "done" -> Rests(t)
                    [] e = "bad" -> "Errored" [] OTHER -> "Killed"
             l == IF Ends(e) THEN 0 ELSE t.launch
  <2>1. s \in Statuses /\ l \in 0..2
    BY DEF EventNames, Rests
  <2>2. Effect(e, t) = [t EXCEPT !.status = s, !.launch = l]
    BY DEF Effect
  <2> HIDE DEF s, l
  <2> QED
    BY <2>1, <2>2
<1> QED
  BY <1>1, <1>2, <1>3, <1>4

LEMMA RtTypes ==
    ASSUME rt \in [Runtimes -> RtRec]
    PROVE  /\ \A r \in Runtimes : Killed(r) \in [Runtimes -> RtRec]
           /\ \A r : Interrupted(r) \in [Runtimes -> RtRec]
           /\ \A r, s \in Runtimes : Killed(r)[s].at = rt[s].at
           /\ \A r : \A s \in Runtimes : Interrupted(r)[s].at = rt[s].at
<1>1. \A t \in RtRec : [t EXCEPT !.held = FALSE] \in RtRec /\ [t EXCEPT !.held = FALSE].at = t.at
  BY DEF RtRec
<1>3. ASSUME NEW r \in Runtimes
      PROVE  Killed(r) \in [Runtimes -> RtRec] /\ \A s \in Runtimes : Killed(r)[s].at = rt[s].at
  <2> DEFINE x == [rt[r] EXCEPT !.held = FALSE]
  <2>1. x \in RtRec /\ x.at = rt[r].at
    BY <1>1
  <2>2. Killed(r) = [rt EXCEPT ![r] = x]
    BY DEF Killed
  <2> HIDE DEF x
  <2> QED
    BY <2>1, <2>2
<1> QED
  BY <1>3 DEF Interrupted

\* The records of a runtime's events are records.
LEMMA RtRecs ==
    ASSUME NEW t \in RtRec
    PROVE  /\ t.left > 0 => \A e \in EventNames : [t EXCEPT !.left = @ - 1, !.events = Append(@, e)] \in RtRec
           /\ \A e \in EventNames : \A b \in BOOLEAN :
                [t EXCEPT !.at = "ended", !.open = b, !.events = Append(@, e)] \in RtRec
           /\ t.events # <<>> => Head(t.events) \in EventNames /\ [t EXCEPT !.events = Tail(@)] \in RtRec
<1>1. t.left \in Nat /\ t.events \in Seq(EventNames)
  BY DEF RtRec
<1>2. \A e \in EventNames : Append(t.events, e) \in Seq(EventNames)
  BY <1>1
<1>3. t.events # <<>> => Head(t.events) \in EventNames /\ Tail(t.events) \in Seq(EventNames)
  BY <1>1
<1>4. t.left > 0 => t.left - 1 \in Nat
  BY <1>1
<1>5. \A s \in Seq(EventNames) : \A n \in Nat : [t EXCEPT !.left = n, !.events = s] \in RtRec
  BY DEF RtRec
<1>6. \A s \in Seq(EventNames) : [t EXCEPT !.events = s] \in RtRec
  BY DEF RtRec
<1>7. \A s \in Seq(EventNames) : \A b \in BOOLEAN : [t EXCEPT !.at = "ended", !.open = b, !.events = s] \in RtRec
  BY DEF RtRec
<1>8. t.left > 0 => \A e \in EventNames : [t EXCEPT !.left = @ - 1, !.events = Append(@, e)] \in RtRec
  BY <1>2, <1>4, <1>5
<1>9. \A e \in EventNames : \A b \in BOOLEAN : [t EXCEPT !.at = "ended", !.open = b, !.events = Append(@, e)] \in RtRec
  BY <1>2, <1>7
<1> QED
  BY <1>3, <1>6, <1>8, <1>9

LEMMA InitTurn == Init => TurnInv
<1> SUFFICES ASSUME Init PROVE TurnInv
  OBVIOUS
<1>1. mem \in Rec /\ disk \in Rec /\ snap \in SnapRec /\ own \in [Requests -> OwnRec]
  BY RecTypes DEF Init, SnapRec, OwnRec
<1>2. rt \in [Runtimes -> RtRec]
  BY ConstantsAssumption DEF Init, RtRec, DispatcherAssumption
<1>3. Typed
  BY <1>1, <1>2 DEF Init, Typed, ConRec
<1> QED
  BY <1>3, Names1 DEF Init, TurnInv, Fresh, Starts, Placed, GuardOK, SnapOK, Resting, Writes, None


\* What a request's move to a place leaves of the places and of the guards.
LEMMA Moves ==
    ASSUME TurnInv, NEW c \in Requests, NEW w, Go(c, w)
    PROVE  /\ at'[c] = w /\ (\A o \in Requests : o # c => at'[o] = at[o]) /\ DOMAIN at' = Requests
           /\ w \in Resting \cup PlacesOf(Request[c]) => Placed'
           /\ UNCHANGED <<con, flush, snap>> /\ (w \in Writes <=> at[c] \in Writes) => SnapOK'
           /\ UNCHANGED guard /\ (w \in Resting <=> at[c] \in Resting) => GuardOK'
           /\ Request[c] \notin Guarded /\ UNCHANGED guard => GuardOK'
           /\ End(c, w) /\ w \in Resting => GuardOK'
BY Names1 DEF TurnInv, Typed, Placed, Go, SnapOK, GuardOK, End

\* What holds when a task takes the snapshot guard or gives it back.
LEMMA SnapTaken ==
    ASSUME TurnInv, NEW c \in Requests, NEW w, Go(c, w), UNCHANGED <<con, flush>>
    PROVE  /\ (\E rec : Take(c, rec)) /\ w \in Writes => SnapOK'
           /\ Release /\ at[c] \in Writes /\ w \notin Writes => SnapOK'
BY Names1 DEF TurnInv, Typed, Go, SnapOK, Take, Release, SnapRec, Writes, None

\* The places of the requests are kept by a step of another task.
LEMMA OthersStay ==
    ASSUME TurnInv, UNCHANGED <<at, guard>>
    PROVE  Placed' /\ GuardOK' /\ (UNCHANGED <<con, flush, snap>> => SnapOK')
BY DEF TurnInv, Typed, Placed, GuardOK, SnapOK

\* No step changes the type of what it does not mention, and the places are of a kind.
LEMMA EventTurn ==
    ASSUME TurnInv, NEW r \in Runtimes, Speak(r) \/ Exit(r) \/ ConsumerStep(r)
    PROVE  TurnInv'
<1>t. Typed /\ SnapOK
  BY DEF TurnInv
<1>o. Placed' /\ GuardOK' /\ (UNCHANGED <<con, flush, snap>> => SnapOK')
  BY OthersStay DEF ConsumerStep, Speak, Exit, Receive, Apply, Clear, QueueEvent, SaveEvent
<1>f. Fresh /\ UNCHANGED <<at, own>>
  BY DEF ConsumerStep, Speak, Exit, Receive, Apply, Clear, QueueEvent, SaveEvent, TurnInv
<1>1. CASE Speak(r)
  <2>1. PICK e \in EventNames : rt' = [rt EXCEPT ![r].left = @ - 1, ![r].events = Append(@, e)]
    BY <1>1 DEF Speak, EventNames
  <2>2. rt' \in [Runtimes -> RtRec]
    <3> DEFINE x == [rt[r] EXCEPT !.left = @ - 1, !.events = Append(@, e)]
    <3>1. rt[r] \in RtRec /\ rt[r].left > 0
      BY <1>1, <1>t DEF Typed, Speak
    <3>2. x \in RtRec
      BY <3>1, RtRecs
    <3>3. rt' = [rt EXCEPT ![r] = x]
      BY <2>1
    <3> QED
      BY <1>t, <3>2, <3>3 DEF Typed
  <2>3. \A s \in Runtimes : rt'[s].at = rt[s].at
    <3> DEFINE x == [rt[r] EXCEPT !.left = @ - 1, !.events = Append(@, e)]
    <3>1. x.at = rt[r].at
      BY <1>t DEF Typed, RtRec
    <3>2. rt' = [rt EXCEPT ![r] = x]
      BY <2>1
    <3> HIDE DEF x
    <3> QED
      BY <1>t, <3>1, <3>2 DEF Typed
  <2> QED
    <3>1. UNCHANGED <<mem, disk, attached, con, at, own, guard, snap, pending, flush, server>>
      BY <1>1 DEF Speak
    <3>2. Typed'
      BY <1>t, <2>2, <3>1 DEF Typed
    <3>3. Fresh'
      BY <1>f, <2>3, <3>1 DEF Fresh
    <3> QED
      BY <1>o, <3>1, <3>2, <3>3 DEF TurnInv
<1>2. CASE Exit(r)
  <2>1. PICK e \in EventNames : rt' = [rt EXCEPT ![r].at = "ended", ![r].open = Agent \in {"terminal", "gateway"},
                                                 ![r].events = Append(@, e)]
    BY <1>2 DEF Exit, EventNames
  <2>2. rt' \in [Runtimes -> RtRec]
    <3> DEFINE b == Agent \in {"terminal", "gateway"}
               x == [rt[r] EXCEPT !.at = "ended", !.open = b, !.events = Append(@, e)]
    <3>0. rt[r] \in RtRec /\ b \in BOOLEAN
      BY <1>t DEF Typed
    <3>1. x \in RtRec
      <4> HIDE DEF b
      <4> QED
        BY <3>0, RtRecs
    <3>2. rt' = [rt EXCEPT ![r] = x]
      BY <2>1
    <3> QED
      BY <1>t, <3>1, <3>2 DEF Typed
  <2>3. \A s \in Runtimes : rt'[s].at = "none" <=> rt[s].at = "none"
    <3> DEFINE x == [rt[r] EXCEPT !.at = "ended", !.open = Agent \in {"terminal", "gateway"}, !.events = Append(@, e)]
    <3>1. x.at = "ended" /\ rt[r].at = "up"
      BY <1>2, <1>t DEF Typed, RtRec, Exit, Up
    <3>2. rt' = [rt EXCEPT ![r] = x]
      BY <2>1
    <3> HIDE DEF x
    <3> QED
      BY <1>t, <3>1, <3>2 DEF Typed
  <2>4. Fresh'
    BY <1>2, <1>f, <2>3 DEF Exit, Fresh
  <2> QED
    BY <1>2, <1>t, <1>o, <2>2, <2>4 DEF Exit, TurnInv, Typed
<1>3. CASE Receive(r)
  <2>1. rt' \in [Runtimes -> RtRec] /\ Head(rt[r].events) \in EventNames
    <3> DEFINE x == [rt[r] EXCEPT !.events = Tail(@)]
    <3>1. rt[r] \in RtRec /\ rt[r].events \in Seq(EventNames) /\ rt[r].events # <<>>
      BY <1>3, <1>t DEF Receive, Typed, RtRec
    <3>2. x \in RtRec /\ Head(rt[r].events) \in EventNames
      BY <3>1, RtRecs
    <3>3. rt' = [rt EXCEPT ![r] = x]
      BY <1>3 DEF Receive
    <3> QED
      BY <1>t, <3>2, <3>3 DEF Typed
  <2>2. con' \in [Runtimes -> ConRec] /\ \A s \in Runtimes : con'[s].at = "apply" => con'[s].event \in EventNames
    BY <1>3, <1>t, <2>1 DEF Receive, Typed, ConRec
  <2>3. SnapOK'
    BY <1>3, <1>t DEF Receive, Typed, SnapOK
  <2> QED
    BY <1>3, <1>t, <1>o, <1>f, <2>1, <2>2, <2>3 DEF Receive, TurnInv, Typed, Fresh
<1>w. ASSUME NEW w \in {"none", "wait", "clear", "leave", "queue", "save", "write"}, Where(r, w)
      PROVE  /\ con' \in [Runtimes -> ConRec] /\ con'[r].at = w
             /\ \A s \in Runtimes : s # r => con'[s] = con[s]
             /\ \A s \in Runtimes : con'[s].at = "apply" => con'[s].event \in EventNames
             /\ UNCHANGED <<at, flush, snap>> /\ (w = "write" <=> con[r].at = "write") => SnapOK'
  BY <1>w, <1>t DEF Typed, ConRec, Where, SnapOK
<1>4. CASE Apply(r)
  <2>1. con[r].event \in EventNames /\ mem \in Rec
    BY <1>4, <1>t DEF Typed, Apply
  <2>2. mem' \in Rec /\ con' \in [Runtimes -> ConRec] /\ SnapOK'
    <3>1. CASE There /\ mem.status \notin Terminal
      <4>1. Effect(con[r].event, mem) \in Rec
        BY <2>1, RecTypes
      <4> QED
        BY <1>4, <3>1, <4>1, <1>w DEF Apply
    <3>2. CASE ~(There /\ mem.status \notin Terminal)
      BY <1>4, <3>2, <1>w, <2>1 DEF Apply
    <3> QED
      BY <3>1, <3>2
  <2> QED
    BY <1>4, <1>t, <1>o, <1>f, <2>2, <1>w DEF Apply, TurnInv, Typed, Fresh
<1>5. CASE Clear(r)
  BY <1>5, <1>t, <1>o, <1>f, <1>w DEF Clear, ClearIf, TurnInv, Typed, Fresh
<1>6. CASE QueueEvent(r)
  BY <1>6, <1>t, <1>o, <1>f, <1>w DEF QueueEvent, Queue, TurnInv, Typed, Fresh
<1>7. CASE SaveEvent(r)
  <2>0. \A s \in Runtimes : con'[s].at = "apply" => con'[s].event \in EventNames
    BY <1>7, <1>w DEF SaveEvent
  <2>1. con' \in [Runtimes -> ConRec] /\ snap' \in SnapRec /\ disk' \in Rec
    BY <1>7, <1>t, <1>w, RecTypes DEF SaveEvent, Typed, Take, Write, Release, Written, SnapRec
  <2>2. SnapOK'
    BY <1>7, <1>t, <1>w, Names1 DEF SaveEvent, Typed, Take, Write, Release, SnapOK, SnapRec, None
  <2> QED
    BY <1>7, <1>t, <1>o, <1>f, <1>w, <2>0, <2>1, <2>2 DEF SaveEvent, TurnInv, Typed, Fresh
<1> QED
  BY <1>1, <1>2, <1>3, <1>4, <1>5, <1>6, <1>7 DEF ConsumerStep

\* A request's step from its place to another, with what it takes and gives back.
LEMMA Stepped ==
    ASSUME TurnInv, NEW c \in Requests, NEW w, Go(c, w), w \in Resting \cup PlacesOf(Request[c]),
           UNCHANGED <<con, flush>>,
           \/ UNCHANGED snap /\ (w \in Writes <=> at[c] \in Writes)
           \/ (\E rec : Take(c, rec)) /\ w \in Writes
           \/ Release /\ at[c] \in Writes /\ w \notin Writes,
           \/ UNCHANGED guard /\ (w \in Resting <=> at[c] \in Resting)
           \/ UNCHANGED guard /\ Request[c] \notin Guarded
           \/ End(c, w) /\ w \in Resting
    PROVE  Placed' /\ GuardOK' /\ SnapOK' /\ DOMAIN at' = Requests /\ guard' \in Requests \cup {None}
<1>1. Placed' /\ DOMAIN at' = Requests
  BY Moves
<1>2. GuardOK'
  BY Moves
<1>3. SnapOK'
  BY Moves, SnapTaken
<1> QED
  BY <1>1, <1>2, <1>3 DEF TurnInv, Typed, End

\* Which runtimes are started and have no consumer, when a request leaves the consumers.
LEMMA FreshKept ==
    ASSUME TurnInv, NEW c \in Requests, NEW w, Go(c, w), UNCHANGED con,
           \A s \in Runtimes : rt'[s].at = "none" <=> rt[s].at = "none",
           \A o \in Requests : o # c => own'[o] = own[o],
           \/ w \notin Starts \/ Request[c] # "send"
           \/ own'[c].handle = own[c].handle /\ at[c] \in Starts
    PROVE  Fresh'
BY DEF TurnInv, Typed, Fresh, Go

LEMMA OwnTypes ==
    ASSUME own \in [Requests -> OwnRec], NEW c \in Requests
    PROVE  /\ \A rec \in Rec : [own EXCEPT ![c].rec = rec] \in [Requests -> OwnRec]
           /\ \A h \in Runtimes \cup {None} : [own EXCEPT ![c].handle = h] \in [Requests -> OwnRec]
           /\ \A rec \in Rec, h \in Runtimes \cup {None} :
                [own EXCEPT ![c] = [handle |-> h, rec |-> rec]] \in [Requests -> OwnRec]
           /\ own[c].rec \in Rec /\ own[c].handle \in Runtimes \cup {None}
BY DEF OwnRec

LEMMA SendTurn ==
    ASSUME TurnInv, NEW c \in Requests, SendStep(c)
    PROVE  TurnInv'
<1>t. Typed
  BY DEF TurnInv
<1> USE DEF Is, PlacesOf, Resting, Writes
<1>1. CASE Check(c)
  <2>1. PICK w \in {"refused", "mark"} : Go(c, w) /\ (w = "mark" => UNCHANGED guard) /\ (w = "refused" => End(c, w))
    BY <1>1 DEF Check, End
  <2>2. Placed' /\ GuardOK' /\ SnapOK' /\ DOMAIN at' = Requests /\ guard' \in Requests \cup {None}
    BY <1>1, <2>1, Stepped DEF Check
  <2>4. Fresh'
    BY <1>1, <1>t, <2>1, FreshKept DEF Check, Starts, Typed
  <2> QED
    BY <1>1, <1>t, <2>2, <2>4 DEF Check, DropClosed, TurnInv, Typed
<1>2. CASE Mark(c)
  <2>1. PICK w \in {"failed", "save"} : Go(c, w) /\ (w = "save" => UNCHANGED guard) /\ (w = "failed" => End(c, w))
    BY <1>2 DEF Mark, End
  <2>2. Placed' /\ GuardOK' /\ SnapOK' /\ DOMAIN at' = Requests /\ guard' \in Requests \cup {None}
    BY <1>2, <2>1, Stepped DEF Mark
  <2>3. mem' \in Rec /\ own' \in [Requests -> OwnRec]
    <3>1. \A asks \in BOOLEAN : [mem EXCEPT !.status = "Working", !.asks = asks, !.said = @ \cup {c}] \in Rec
      BY <1>t DEF Typed, Rec, Statuses
    <3>2. mem' \in Rec
      BY <1>2, <1>t, <3>1 DEF Mark, Typed
    <3>3. UNCHANGED own \/ own' = [own EXCEPT ![c].rec = mem']
      BY <1>2 DEF Mark, Keep
    <3> QED
      BY <1>t, <3>2, <3>3, OwnTypes DEF Typed
  <2>4. Fresh'
    BY <1>2, <1>t, <2>1, FreshKept DEF Mark, Starts, Typed, Keep
  <2> QED
    BY <1>2, <1>t, <2>2, <2>3, <2>4 DEF Mark, TurnInv, Typed
<1>3. CASE PersistTake(c)
  <2>1. PICK w \in {"write", "write2", "write3"} : Go(c, w)
    BY <1>3 DEF PersistTake, WriteOf, Saves, After
  <2>2. Placed' /\ GuardOK' /\ SnapOK' /\ DOMAIN at' = Requests /\ guard' \in Requests \cup {None}
    <3>1. Request[c] = "send" /\ at[c] \in {"save", "save2", "save3"}
      BY <1>3, Names1 DEF PersistTake, Saves, After, TurnInv, Placed, Replaces, Removes, RequestKinds
    <3> QED
      BY <1>3, <2>1, <3>1, Stepped DEF PersistTake
  <2>4. Fresh'
    BY <1>3, <1>t, <2>1, FreshKept DEF PersistTake, Starts, Typed, WriteOf, Saves, After
  <2> QED
    BY <1>3, <1>t, <2>2, <2>4 DEF PersistTake, TurnInv, Typed, Take, SnapRec
<1>4. CASE Persist(c)
  <2>1. PICK w \in {"route", "consume", "fail", "recover", "failed"} :
            Go(c, w) /\ (w # "failed" => UNCHANGED guard) /\ (w = "failed" => End(c, w))
            /\ (w = "consume" => at[c] = "write2")
    BY <1>4 DEF Persist, WriteOf, Saves, After, End
  <2>2. Placed' /\ GuardOK' /\ SnapOK' /\ DOMAIN at' = Requests /\ guard' \in Requests \cup {None}
    <3>1. Request[c] = "send" /\ at[c] \in {"write", "write2", "write3"}
      BY <1>4, Names1 DEF Persist, WriteOf, Saves, After, TurnInv, Placed, Replaces, Removes, RequestKinds
    <3> QED
      BY <1>4, <2>1, <3>1, Stepped DEF Persist, Write
  <2>3. disk' \in Rec /\ snap' \in SnapRec
    BY <1>4, <1>t, RecTypes DEF Persist, Typed, Write, Release, Written, SnapRec
  <2>4. Fresh'
    BY <1>4, <1>t, <2>1, FreshKept DEF Persist, Starts, Typed, WriteOf, Saves, After
  <2> QED
    BY <1>4, <1>t, <2>2, <2>3, <2>4 DEF Persist, TurnInv, Typed, Queue
<1>5. CASE Route(c)
  <2>1. PICK w \in {"ensure", "ok", "retire"} : Go(c, w) /\ (w # "ok" => UNCHANGED guard) /\ (w = "ok" => End(c, w))
    BY <1>5 DEF Route, End
  <2>2. Placed' /\ GuardOK' /\ SnapOK' /\ DOMAIN at' = Requests /\ guard' \in Requests \cup {None}
    BY <1>5, <2>1, Stepped DEF Route
  <2>3. rt' \in [Runtimes -> RtRec] /\ own' \in [Requests -> OwnRec]
    <3>1. CASE UNCHANGED <<rt, own>>
      BY <3>1, <1>t DEF Typed
    <3>2. CASE rt' = [rt EXCEPT ![attached].heard = IF Up(attached) THEN @ \cup {c} ELSE @] /\ attached \in Runtimes /\ UNCHANGED own
      <4> DEFINE h == IF Up(attached) THEN rt[attached].heard \cup {c} ELSE rt[attached].heard
                 x == [rt[attached] EXCEPT !.heard = h]
      <4>1. rt[attached] \in RtRec
        BY <1>t, <3>2 DEF Typed
      <4>2. h \subseteq Requests
        BY <4>1 DEF RtRec
      <4>3. x \in RtRec
        <5> HIDE DEF h
        <5> QED
          BY <4>1, <4>2 DEF RtRec
      <4>4. rt' = [rt EXCEPT ![attached] = x]
        BY <3>2
      <4> HIDE DEF x
      <4> QED
        BY <1>t, <3>2, <4>3, <4>4 DEF Typed
    <3>3. CASE rt' = Interrupted(attached) /\ own' = [own EXCEPT ![c].handle = attached]
      BY <1>t, <3>3, OwnTypes, RtTypes DEF Typed
    <3> QED
      BY <1>5, <1>t, <3>1, <3>2, <3>3 DEF Route, Typed, Attached
  <2>5. \A s \in Runtimes : rt'[s].at = "none" <=> rt[s].at = "none"
    <3>1. CASE rt' = [rt EXCEPT ![attached].heard = IF Up(attached) THEN @ \cup {c} ELSE @]
      BY <3>1, <1>t DEF Typed, RtRec
    <3>2. CASE rt' = Interrupted(attached)
      BY <3>2, <1>t, RtTypes DEF Typed
    <3> QED
      BY <1>5, <3>1, <3>2 DEF Route
  <2>4. Fresh'
    BY <1>5, <1>t, <2>1, <2>5, FreshKept DEF Route, Starts, Typed
  <2> QED
    BY <1>5, <1>t, <2>2, <2>3, <2>4 DEF Route, TurnInv, Typed
<1>6. CASE Retire(c)
  <2>2. Placed' /\ GuardOK' /\ SnapOK' /\ DOMAIN at' = Requests /\ guard' \in Requests \cup {None}
    BY <1>6, Stepped DEF Retire
  <2>4. Fresh'
    BY <1>6, <1>t, FreshKept DEF Retire, Starts, Typed
  <2> QED
    BY <1>6, <1>t, <2>2, <2>4 DEF Retire, ClearIf, TurnInv, Typed
<1>7. CASE Spawn(c)
  <2>1. PICK w \in {"ok", "recover", "store"} : Go(c, w) /\ (w # "ok" => UNCHANGED guard) /\ (w = "ok" => End(c, w))
    BY <1>7 DEF Spawn, End
  <2>2. Placed' /\ GuardOK' /\ SnapOK' /\ DOMAIN at' = Requests /\ guard' \in Requests \cup {None}
    BY <1>7, <2>1, Stepped DEF Spawn
  <2>3. rt' \in [Runtimes -> RtRec] /\ own' \in [Requests -> OwnRec]
    <3>1. CASE UNCHANGED <<rt, own>>
      BY <3>1, <1>t DEF Typed
    <3>2. ASSUME NEW i \in DOMAIN Names,
                 rt' = [rt EXCEPT ![Names[i]].at = "up", ![Names[i]].open = Agent # "exec",
                                  ![Names[i]].held = TRUE, ![Names[i]].heard = {c}],
                 own' = [own EXCEPT ![c].handle = Names[i]]
          PROVE  rt' \in [Runtimes -> RtRec] /\ own' \in [Requests -> OwnRec]
      <4> DEFINE r == Names[i]
                 b == Agent # "exec"
                 x == [rt[r] EXCEPT !.at = "up", !.open = b, !.held = TRUE, !.heard = {c}]
      <4>1. r \in Runtimes /\ b \in BOOLEAN
        BY Names1
      <4>2. x \in RtRec
        <5> HIDE DEF b, r
        <5>1. rt[r] \in RtRec /\ {c} \subseteq Requests
          BY <1>t, <4>1 DEF Typed
        <5> QED
          BY <4>1, <5>1 DEF RtRec
      <4>3. rt' = [rt EXCEPT ![r] = x]
        BY <3>2
      <4> HIDE DEF x
      <4>4. rt' \in [Runtimes -> RtRec]
        BY <1>t, <4>1, <4>2, <4>3 DEF Typed
      <4>5. own' \in [Requests -> OwnRec]
        BY <1>t, <3>2, <4>1, OwnTypes DEF Typed
      <4> QED
        BY <4>4, <4>5
    <3> QED
      BY <1>7, <3>1, <3>2 DEF Spawn
  <2>4. Fresh'
    <3>1. ASSUME UNCHANGED <<rt, own>>, NEW z \in {"ok", "recover"}, Go(c, z) PROVE Fresh'
      BY <1>7, <3>1, FreshKept DEF Spawn, Starts
    <3>2. ASSUME NEW i \in DOMAIN Names, rt[Names[i]].at = "none",
                 rt' = [rt EXCEPT ![Names[i]].at = "up", ![Names[i]].open = Agent # "exec",
                                  ![Names[i]].held = TRUE, ![Names[i]].heard = {c}],
                 own' = [own EXCEPT ![c].handle = Names[i]], Go(c, "store")
          PROVE  Fresh'
      <4> DEFINE r == Names[i]
      <4>1. r \in Runtimes
        BY Names1
      <4>2. rt'[r].at = "up" /\ \A s \in Runtimes : s # r => rt'[s] = rt[s]
        BY <1>t, <3>2, <4>1 DEF Typed, RtRec
      <4>3. own'[c].handle = r /\ \A o \in Requests : o # c => own'[o] = own[o]
        BY <1>t, <3>2 DEF Typed, OwnRec
      <4>4. at'[c] = "store" /\ \A o \in Requests : o # c => at'[o] = at[o]
        BY <1>t, <3>2 DEF Typed, Go
      <4>5. con' = con /\ rt[r].at = "none" /\ con[r].at = "none"
        BY <1>7, <3>2, <4>1 DEF Spawn, TurnInv, Fresh
      <4> HIDE DEF r
      <4> QED
        BY <4>1, <4>2, <4>3, <4>4, <4>5 DEF TurnInv, Fresh, Starts
    <3> QED
      BY <1>7, <3>1, <3>2 DEF Spawn, End
  <2> QED
    BY <1>7, <1>t, <2>2, <2>3, <2>4 DEF Spawn, DropClosed, TurnInv, Typed
<1>8. CASE Store(c)
  <2>2. Placed' /\ GuardOK' /\ SnapOK' /\ DOMAIN at' = Requests /\ guard' \in Requests \cup {None}
    BY <1>8, Stepped DEF Store
  <2>4. Fresh'
    BY <1>8, <1>t, FreshKept DEF Store, Starts, Typed
  <2> QED
    BY <1>8, <1>t, <2>2, <2>4, OwnTypes DEF Store, TurnInv, Typed
<1>9. CASE Note(c)
  <2>1. PICK w \in {"save2", "consume"} : Go(c, w)
    BY <1>9 DEF Note
  <2>2. Placed' /\ GuardOK' /\ SnapOK' /\ DOMAIN at' = Requests /\ guard' \in Requests \cup {None}
    BY <1>9, <2>1, Stepped DEF Note
  <2>3. mem' \in Rec
    <3>1. own[c].handle \in Runtimes \cup {None} /\ own[c].rec.model \in 0..2 /\ mem \in Rec
      BY <1>t, OwnTypes DEF Typed, Rec
    <3> QED
      BY <1>9, <3>1 DEF Note, Rec
  <2>4. Fresh'
    BY <1>9, <1>t, <2>1, FreshKept DEF Note, Starts, Typed
  <2> QED
    BY <1>9, <1>t, <2>2, <2>3, <2>4 DEF Note, TurnInv, Typed
<1>11. CASE Consume(c)
  <2> DEFINE h == own[c].handle
  <2>1. h \in Runtimes /\ con[h].at = "none" /\ Request[c] = "send" /\ at[c] = "consume"
    BY <1>11 DEF Consume, TurnInv, Fresh, Starts
  <2>2. /\ con' \in [Runtimes -> ConRec] /\ con'[h].at = "wait" /\ \A s \in Runtimes : s # h => con'[s] = con[s]
        /\ \A s \in Runtimes : con'[s].at = "apply" => con'[s].event \in EventNames
    BY <1>11, <1>t, <2>1 DEF Consume, Where, Typed, ConRec
  <2>3. Placed' /\ GuardOK' /\ DOMAIN at' = Requests /\ guard' \in Requests \cup {None} /\ at'[c] = "ok"
        /\ \A o \in Requests : o # c => at'[o] = at[o]
    BY <1>11, <1>t, <2>1, Moves DEF Consume, End, Typed
  <2>4. SnapOK'
    BY <1>11, <1>t, <2>1, <2>2, <2>3 DEF Consume, TurnInv, SnapOK
  <2>5. Fresh'
    <3>1. guard = c /\ UNCHANGED <<own, rt>> /\ rt[h].at # "none"
      BY <1>11, <2>1 DEF Consume, TurnInv, GuardOK, Guarded, Fresh, Starts
    <3>2. \A o \in Requests : Request[o] = "send" /\ at[o] \in Starts => o = c
      BY <3>1 DEF TurnInv, GuardOK, Guarded, Starts
    <3> QED
      BY <3>1, <3>2, <2>2, <2>3 DEF TurnInv, Fresh, Starts
  <2> QED
    BY <1>11, <1>t, <2>2, <2>3, <2>4, <2>5 DEF Consume, TurnInv, Typed
<1>12. CASE Recover(c)
  <2>2. Placed' /\ GuardOK' /\ SnapOK' /\ DOMAIN at' = Requests /\ guard' \in Requests \cup {None}
    BY <1>12, Stepped DEF Recover
  <2>4. Fresh'
    BY <1>12, <1>t, FreshKept DEF Recover, Starts, Typed
  <2> QED
    BY <1>12, <1>t, <2>2, <2>4 DEF Recover, TurnInv, Typed
<1>13. CASE RecordFailure(c)
  <2>1. PICK w \in {"save3", "failed"} : Go(c, w) /\ (w # "failed" => UNCHANGED guard) /\ (w = "failed" => End(c, w))
    BY <1>13 DEF RecordFailure, End
  <2>2. Placed' /\ GuardOK' /\ SnapOK' /\ DOMAIN at' = Requests /\ guard' \in Requests \cup {None}
    BY <1>13, <2>1, Stepped DEF RecordFailure
  <2>4. Fresh'
    BY <1>13, <1>t, <2>1, FreshKept DEF RecordFailure, Starts, Typed
  <2> QED
    BY <1>13, <1>t, <2>2, <2>4, RecTypes DEF RecordFailure, TurnInv, Typed
<1>14. CASE Fail(c)
  <2>2. Placed' /\ GuardOK' /\ SnapOK' /\ DOMAIN at' = Requests /\ guard' \in Requests \cup {None}
    BY <1>14, Stepped DEF Fail, End
  <2>4. Fresh'
    BY <1>14, <1>t, FreshKept DEF Fail, End, Starts, Typed
  <2> QED
    BY <1>14, <1>t, <2>2, <2>4 DEF Fail, TurnInv, Typed
<1> QED
  BY <1>1, <1>2, <1>3, <1>4, <1>5, <1>6, <1>7, <1>8, <1>9, <1>11, <1>12, <1>13, <1>14 DEF SendStep

LEMMA ReplaceTurn ==
    ASSUME TurnInv, NEW c \in Requests, ReplaceStep(c)
    PROVE  TurnInv'
<1>t. Typed
  BY DEF TurnInv
<1>k. at[c] \in Replaces => Request[c] # "send"
  BY DEF TurnInv, Placed, PlacesOf, Replaces, Resting
<1>g. Request[c] \in RequestKinds /\ at[c] \in Resting \cup PlacesOf(Request[c])
  BY Names1 DEF TurnInv, Placed
<1> USE DEF Is, PlacesOf, Resting, Writes, Replaces
<1>1. CASE ReadPrefs(c)
  <2>1. PICK w \in {"retire", "failed"} : Go(c, w) /\ (w # "failed" => UNCHANGED guard) /\ (w = "failed" => End(c, w))
    BY <1>1 DEF ReadPrefs, End
  <2>2. Placed' /\ GuardOK' /\ SnapOK' /\ DOMAIN at' = Requests /\ guard' \in Requests \cup {None}
    BY <1>1, <1>g, <2>1, Stepped DEF ReadPrefs, End, Guarded, RequestKinds, Removes
  <2>4. Fresh'
    BY <1>1, <1>t, <1>k, <2>1, FreshKept, RtTypes DEF ReadPrefs, End, Starts, Typed, Keep
  <2>3. own' \in [Requests -> OwnRec]
    <3> DEFINE m == 3 - mem.model
    <3>1. m \in {1, 2} /\ mem \in Rec
      BY <1>t DEF Typed, Rec
    <3>2. [mem EXCEPT !.model = 3 - @, !.launch = 0] \in Rec
      <4> SUFFICES [mem EXCEPT !.model = m, !.launch = 0] \in Rec
        OBVIOUS
      <4>1. 0 \in 0..2
        OBVIOUS
      <4> HIDE DEF m
      <4> QED
        BY <3>1, <4>1 DEF Rec
    <3>3. UNCHANGED own \/ own' = [own EXCEPT ![c].rec = [mem EXCEPT !.model = 3 - @, !.launch = 0]]
      BY <1>1 DEF ReadPrefs, Keep
    <3> QED
      BY <1>t, <3>2, <3>3, OwnTypes DEF Typed
  <2> QED
    BY <1>1, <1>t, <2>2, <2>3, <2>4 DEF ReadPrefs, TurnInv, Typed
<1>2. CASE TakeRuntime(c)
  <2>2. Placed' /\ GuardOK' /\ SnapOK' /\ DOMAIN at' = Requests /\ guard' \in Requests \cup {None}
    BY <1>2, <1>g, Stepped DEF TakeRuntime, End, Guarded, RequestKinds, Removes
  <2>4. Fresh'
    BY <1>2, <1>t, <1>k, FreshKept, RtTypes DEF TakeRuntime, End, Starts, Typed
  <2>3. own' \in [Requests -> OwnRec]
    <3> DEFINE x == IF attached # None \/ own[c].rec.status \in {"Working", "NeedsInput"} THEN Ready(own[c].rec) ELSE own[c].rec
    <3>1. own[c].rec \in Rec
      BY <1>t, OwnTypes DEF Typed
    <3>2. x \in Rec
      BY <3>1, RecTypes
    <3>3. own' = [own EXCEPT ![c] = [handle |-> attached, rec |-> x]]
      BY <1>2 DEF TakeRuntime
    <3> HIDE DEF x
    <3> QED
      BY <1>t, <3>2, <3>3, OwnTypes DEF Typed
  <2> QED
    BY <1>2, <1>t, <2>2, <2>3, <2>4 DEF TakeRuntime, TurnInv, Typed
<1>3. CASE ReadBind(c)
  <2>1. PICK w \in {"replace", "failed"} : Go(c, w)
    BY <1>3 DEF ReadBind, End
  <2>2. Placed' /\ GuardOK' /\ SnapOK' /\ DOMAIN at' = Requests /\ guard' \in Requests \cup {None}
    BY <1>3, <1>g, <2>1, Stepped DEF ReadBind, End, Guarded, RequestKinds, Removes
  <2>4. Fresh'
    BY <1>3, <1>t, <1>k, <2>1, FreshKept, RtTypes DEF ReadBind, End, Starts, Typed, Keep
  <2>3. own' \in [Requests -> OwnRec]
    <3>3. UNCHANGED own \/ own' = [own EXCEPT ![c].rec = mem]
      BY <1>3 DEF ReadBind, Keep
    <3> QED
      BY <1>t, <3>3, OwnTypes DEF Typed
  <2> QED
    BY <1>3, <1>t, <2>2, <2>3, <2>4 DEF ReadBind, TurnInv, Typed
<1>4. CASE ReplaceTake(c)
  <2>2. Placed' /\ GuardOK' /\ SnapOK' /\ DOMAIN at' = Requests /\ guard' \in Requests \cup {None}
    BY <1>4, <1>g, Stepped DEF ReplaceTake, End, Guarded, RequestKinds, Removes
  <2>4. Fresh'
    BY <1>4, <1>t, <1>k, FreshKept, RtTypes DEF ReplaceTake, End, Starts, Typed
  <2>3. snap' \in SnapRec
    BY <1>4, <1>t, OwnTypes DEF ReplaceTake, Take, Typed, SnapRec
  <2> QED
    BY <1>4, <1>t, <2>2, <2>3, <2>4 DEF ReplaceTake, TurnInv, Typed
<1>5. CASE ReplaceDisk(c)
  <2>1. PICK w \in {"replace2", "replaceErr"} : Go(c, w) /\ (w = "replace2" => UNCHANGED snap) /\ (w = "replaceErr" => Release)
    BY <1>5 DEF ReplaceDisk, End, Release
  <2>2. Placed' /\ GuardOK' /\ SnapOK' /\ DOMAIN at' = Requests /\ guard' \in Requests \cup {None}
    BY <1>5, <1>g, <2>1, Stepped DEF ReplaceDisk, End, Guarded, RequestKinds, Removes
  <2>4. Fresh'
    BY <1>5, <1>t, <1>k, <2>1, FreshKept, RtTypes DEF ReplaceDisk, End, Starts, Typed
  <2>3. snap' \in SnapRec /\ disk' \in Rec
    BY <1>5, <1>t, RecTypes DEF ReplaceDisk, Release, Typed, SnapRec
  <2> QED
    BY <1>5, <1>t, <2>2, <2>3, <2>4 DEF ReplaceDisk, TurnInv, Typed
<1>6. CASE ReplaceMem(c)
  <2>2. Placed' /\ GuardOK' /\ SnapOK' /\ DOMAIN at' = Requests /\ guard' \in Requests \cup {None}
    BY <1>6, <1>g, Stepped DEF ReplaceMem, End, Guarded, RequestKinds, Removes
  <2>4. Fresh'
    BY <1>6, <1>t, <1>k, FreshKept, RtTypes DEF ReplaceMem, End, Starts, Typed
  <2>3. snap' \in SnapRec /\ mem' \in Rec
    BY <1>6, <1>t, RecTypes DEF ReplaceMem, Release, Typed, SnapRec
  <2> QED
    BY <1>6, <1>t, <2>2, <2>3, <2>4 DEF ReplaceMem, TurnInv, Typed
<1>7. CASE EndReplace(c)
  <2>1. PICK w \in {"ok", "failed"} : Go(c, w) /\ End(c, w)
    BY <1>7 DEF EndReplace, End
  <2>2. Placed' /\ GuardOK' /\ SnapOK' /\ DOMAIN at' = Requests /\ guard' \in Requests \cup {None}
    BY <1>7, <1>g, <2>1, Stepped DEF EndReplace, End, Guarded, RequestKinds, Removes
  <2>4. Fresh'
    BY <1>7, <1>t, <1>k, <2>1, FreshKept, RtTypes DEF EndReplace, End, Starts, Typed
  <2>3. rt' \in [Runtimes -> RtRec]
    BY <1>7, <1>t, RtTypes DEF EndReplace, Typed
  <2> QED
    BY <1>7, <1>t, <2>2, <2>3, <2>4 DEF EndReplace, TurnInv, Typed
<1> QED
  BY <1>1, <1>2, <1>3, <1>4, <1>5, <1>6, <1>7 DEF ReplaceStep

LEMMA DeleteTurn ==
    ASSUME TurnInv, NEW c \in Requests, DeleteStep(c)
    PROVE  TurnInv'
<1>t. Typed
  BY DEF TurnInv
<1> USE DEF Is, PlacesOf, Resting, Writes, Removes
<1>1. CASE ReadDelete(c)
  <2>1. PICK w \in {"detach", "failed"} : Go(c, w)
    BY <1>1 DEF ReadDelete, End
  <2>2. Placed' /\ GuardOK' /\ SnapOK' /\ DOMAIN at' = Requests /\ guard' \in Requests \cup {None}
    BY <1>1, <2>1, Stepped DEF ReadDelete, End, Guarded, RequestKinds, Removes
  <2>4. Fresh'
    BY <1>1, <1>t, <2>1, FreshKept, RtTypes DEF ReadDelete, End, Starts, Typed, Keep
  <2>3. own' \in [Requests -> OwnRec]
    <3>3. UNCHANGED own \/ own' = [own EXCEPT ![c].rec = mem]
      BY <1>1 DEF ReadDelete, Keep
    <3> QED
      BY <1>t, <3>3, OwnTypes DEF Typed
  <2> QED
    BY <1>1, <1>t, <2>2, <2>3, <2>4 DEF ReadDelete, TurnInv, Typed
<1>2. CASE Detach(c)
  <2>2. Placed' /\ GuardOK' /\ SnapOK' /\ DOMAIN at' = Requests /\ guard' \in Requests \cup {None}
    BY <1>2, Stepped DEF Detach, End, Guarded, RequestKinds, Removes
  <2>4. Fresh'
    BY <1>2, <1>t, FreshKept, RtTypes DEF Detach, End, Starts, Typed
  <2>3. rt' \in [Runtimes -> RtRec]
    BY <1>2, <1>t, RtTypes DEF Detach, Typed
  <2> QED
    BY <1>2, <1>t, <2>2, <2>3, <2>4 DEF Detach, TurnInv, Typed
<1>3. CASE TerminateOld(c)
  <2>2. Placed' /\ GuardOK' /\ SnapOK' /\ DOMAIN at' = Requests /\ guard' \in Requests \cup {None}
    BY <1>3, Stepped DEF TerminateOld, End, Guarded, RequestKinds, Removes
  <2>3. rt' \in [Runtimes -> RtRec] /\ server' \in {"up", "crashed", "killed"}
        /\ \A s \in Runtimes : rt'[s].at = "none" <=> rt[s].at = "none"
    <3> DEFINE p == own[c].rec.pid
    <3>1. server' \in {"up", "crashed", "killed"}
      BY <1>3, <1>t DEF TerminateOld, Terminate, Typed
    <3>2. CASE UNCHANGED rt
      BY <3>1, <3>2, <1>t DEF Typed
    <3>3. CASE p # None /\ Agent # "gateway" /\ Up(p)
      <4>1. p \in Runtimes
        BY <1>t, <3>3, OwnTypes DEF Typed, Rec
      <4> DEFINE b == Agent = "terminal"
                 x == [rt[p] EXCEPT !.at = "ended", !.open = b, !.events = Append(@, "bad")]
      <4>2. rt[p] \in RtRec /\ b \in BOOLEAN /\ "bad" \in EventNames /\ rt[p].at = "up"
        BY <1>t, <3>3, <4>1 DEF Typed, EventNames, Up
      <4>3. x \in RtRec /\ x.at = "ended"
        <5> HIDE DEF b
        <5>1. x \in RtRec
          BY <4>2, RtRecs
        <5>2. x.at = "ended"
          BY <4>2 DEF RtRec
        <5> QED
          BY <5>1, <5>2
      <4>4. rt' = [rt EXCEPT ![p] = x]
        BY <1>3, <3>3 DEF TerminateOld, Terminate
      <4> HIDE DEF x, p
      <4> QED
        BY <1>t, <3>1, <4>1, <4>2, <4>3, <4>4 DEF Typed
    <3> QED
      BY <1>3, <3>2, <3>3 DEF TerminateOld, Terminate
  <2>4. Fresh'
    BY <1>3, <1>t, <2>3, FreshKept DEF TerminateOld, End, Starts, Typed
  <2> QED
    BY <1>3, <1>t, <2>2, <2>3, <2>4 DEF TerminateOld, TurnInv, Typed
<1>4. CASE RemoveTake(c)
  <2>2. Placed' /\ GuardOK' /\ SnapOK' /\ DOMAIN at' = Requests /\ guard' \in Requests \cup {None}
    BY <1>4, Stepped DEF RemoveTake, End, Guarded, RequestKinds, Removes
  <2>4. Fresh'
    BY <1>4, <1>t, FreshKept, RtTypes DEF RemoveTake, End, Starts, Typed
  <2>3. snap' \in SnapRec
    BY <1>4, <1>t, RecTypes DEF RemoveTake, Take, Typed, SnapRec
  <2> QED
    BY <1>4, <1>t, <2>2, <2>3, <2>4 DEF RemoveTake, TurnInv, Typed
<1>5. CASE RemoveFile(c)
  <2>2. Placed' /\ GuardOK' /\ SnapOK' /\ DOMAIN at' = Requests /\ guard' \in Requests \cup {None}
    BY <1>5, Stepped DEF RemoveFile, End, Guarded, RequestKinds, Removes
  <2>4. Fresh'
    BY <1>5, <1>t, FreshKept, RtTypes DEF RemoveFile, End, Starts, Typed
  <2> QED
    BY <1>5, <1>t, <2>2, <2>4, RecTypes DEF RemoveFile, TurnInv, Typed
<1>6. CASE RemoveMem(c)
  <2>2. Placed' /\ GuardOK' /\ SnapOK' /\ DOMAIN at' = Requests /\ guard' \in Requests \cup {None}
    BY <1>6, Stepped DEF RemoveMem, End, Guarded, RequestKinds, Removes
  <2>4. Fresh'
    BY <1>6, <1>t, FreshKept, RtTypes DEF RemoveMem, End, Starts, Typed
  <2> QED
    BY <1>6, <1>t, <2>2, <2>4, RecTypes DEF RemoveMem, LeavesMemory, TurnInv, Typed
<1>7. CASE RemovePending(c)
  <2>2. Placed' /\ GuardOK' /\ SnapOK' /\ DOMAIN at' = Requests /\ guard' \in Requests \cup {None}
    BY <1>7, Stepped DEF RemovePending, End, Guarded, RequestKinds, Removes
  <2>4. Fresh'
    BY <1>7, <1>t, FreshKept, RtTypes DEF RemovePending, End, Starts, Typed
  <2>3. snap' \in SnapRec
    BY <1>7, <1>t, RecTypes DEF RemovePending, Release, Typed, SnapRec
  <2> QED
    BY <1>7, <1>t, <2>2, <2>3, <2>4 DEF RemovePending, TurnInv, Typed
<1> QED
  BY <1>1, <1>2, <1>3, <1>4, <1>5, <1>6, <1>7 DEF DeleteStep

LEMMA OtherTurn ==
    ASSUME TurnInv,
           \/ \E c \in Requests : Enter(c) \/ Interrupt(c)
           \/ Drain \/ FlushTake \/ Flush \/ Crash
    PROVE  TurnInv'
<1>t. Typed
  BY DEF TurnInv
<1>1. ASSUME NEW c \in Requests, Enter(c) PROVE TurnInv'
  <2>1. Go(c, "in") /\ guard = None /\ guard' = c /\ Request[c] \in Guarded /\ at[c] = "new"
    BY <1>1 DEF Enter, Guarded
  <2>2. Placed'
    BY <2>1, Moves DEF PlacesOf, Guarded
  <2>3. GuardOK'
    BY <2>1, Names1 DEF TurnInv, Typed, Placed, GuardOK, Go, Resting, None
  <2>4. SnapOK' /\ Fresh' /\ DOMAIN at' = Requests
    BY <1>1, <2>1, Moves, FreshKept DEF Enter, Writes, Starts
  <2> QED
    BY <1>1, <1>t, <2>1, <2>2, <2>3, <2>4 DEF Enter, TurnInv, Typed
<1>2. ASSUME NEW c \in Requests, Interrupt(c) PROVE TurnInv'
  <2>1. PICK w \in {"ok", "refused"} : Go(c, w)
    BY <1>2 DEF Interrupt
  <2>2. Placed' /\ GuardOK' /\ SnapOK' /\ DOMAIN at' = Requests /\ guard' \in Requests \cup {None}
    BY <1>2, <2>1, Stepped DEF Interrupt, Is, Guarded, Resting, Writes
  <2>3. rt' \in [Runtimes -> RtRec] /\ Fresh'
    BY <1>2, <1>t, <2>1, RtTypes, FreshKept DEF Interrupt, Typed, Starts
  <2> QED
    BY <1>2, <1>t, <2>2, <2>3 DEF Interrupt, TurnInv, Typed
<1>f. ASSUME UNCHANGED <<rt, con, own, at, guard>> PROVE Placed' /\ GuardOK' /\ Fresh'
  BY <1>f DEF TurnInv, Typed, Placed, GuardOK, Fresh
<1>3. CASE Drain
  <2>1. SnapOK'
    BY <1>3 DEF Drain, TurnInv, Typed, SnapOK
  <2> QED
    BY <1>3, <1>t, <1>f, <2>1 DEF Drain, TurnInv, Typed
<1>4. CASE FlushTake
  <2>1. SnapOK'
    BY <1>4, Names1 DEF FlushTake, Take, TurnInv, Typed, SnapOK, None
  <2>2. snap' \in SnapRec
    BY <1>4, <1>t DEF FlushTake, Take, Typed, SnapRec
  <2> QED
    BY <1>4, <1>t, <1>f, <2>1, <2>2 DEF FlushTake, TurnInv, Typed
<1>5. CASE Flush
  <2>1. SnapOK'
    BY <1>5, Names1 DEF Flush, Write, Release, TurnInv, Typed, SnapOK, None
  <2>2. snap' \in SnapRec /\ disk' \in Rec /\ pending' \in BOOLEAN
    BY <1>5, <1>t, RecTypes DEF Flush, Write, Written, Release, Requeue, Typed, SnapRec
  <2> QED
    BY <1>5, <1>t, <1>f, <2>1, <2>2 DEF Flush, TurnInv, Typed
<1>6. CASE Crash
  <2>1. mem' \in Rec /\ disk' \in Rec /\ snap' \in SnapRec
    BY <1>6, <1>t, RecTypes DEF Crash, Typed, SnapRec
  <2>2. rt' \in [Runtimes -> RtRec]
    <3>1. \A x \in RtRec : [x EXCEPT !.at = "ended"] \in RtRec
      BY DEF RtRec
    <3> QED
      BY <1>6, <1>t, <3>1 DEF Crash, Typed
  <2>3. Typed'
    BY <1>6, <1>t, <2>1, <2>2, Names1 DEF Crash, Typed, ConRec
  <2>4. \A c \in Requests : at'[c] \in Resting
    BY <1>6 DEF Crash, Resting
  <2>5. Placed' /\ GuardOK' /\ Fresh'
    BY <1>6, <2>4, Names1 DEF Crash, Placed, GuardOK, Fresh, Starts, Resting, None
  <2>6. SnapOK'
    BY <1>6, <2>4, Names1 DEF Crash, SnapOK, Writes, Resting, None
  <2> QED
    BY <2>3, <2>5, <2>6 DEF TurnInv
<1> QED
  BY <1>1, <1>2, <1>3, <1>4, <1>5, <1>6

LEMMA TurnStep == TurnInv /\ [Next]_vars => TurnInv'
<1> SUFFICES ASSUME TurnInv, [Next]_vars PROVE TurnInv'
  OBVIOUS
<1>1. CASE UNCHANGED vars
  BY <1>1 DEF vars, TurnInv, Typed, Placed, GuardOK, SnapOK, Fresh
<1>2. CASE Next
  BY <1>2, EventTurn, SendTurn, ReplaceTurn, DeleteTurn, OtherTurn DEF Next
<1> QED
  BY <1>1, <1>2

\* Every variable has its type, the transition guard is held by the one send or change
\* of preferences that is under way, and the snapshot guard by one who writes.
THEOREM TurnsAreTyped == Spec => [](TurnInv /\ TypeOK)
<1>1. TurnInv => TypeOK
  <2> SUFFICES ASSUME TurnInv PROVE TypeOK
    OBVIOUS
  <2>1. \A t \in {mem, disk, snap.rec} : t \in Rec
    BY DEF TurnInv, Typed, SnapRec
  <2>2. snap.by \in Requests => at[snap.by] \notin Resting
    BY DEF TurnInv, SnapOK, Writes, Resting
  <2> QED
    BY <2>1, <2>2 DEF TurnInv, Typed, GuardOK, Guarded, Rec, TypeOK
<1> QED
  BY <1>1, InitTurn, TurnStep, PTL DEF Spec

-----------------------------------------------------------------------------
(* A turn that needs approval is not done with.                             *)

\* No record, wherever it is held, is idle with a turn that needs approval, and that
\* of a thread that is gone says nothing else.
Quiet(t) == (t.status = "Idle" => ~t.asks) /\ (t.status = "gone" => t = Gone)
Calm == Quiet(mem) /\ Quiet(disk) /\ Quiet(snap.rec) /\ \A c \in Requests : Quiet(own[c].rec)

LEMMA QuietRecs ==
    /\ Quiet(Gone) /\ Quiet(Record("Idle"))
    /\ \A t \in Rec : Quiet(Ready(t)) /\ Quiet(Failed(t)) /\ (Quiet(t) => Quiet(Loaded(t)))
    /\ \A t \in Rec : \A e \in EventNames : Quiet(t) => Quiet(Effect(e, t))
    /\ \A t \in Rec : \A s \in SUBSET Requests : \A a \in BOOLEAN :
          Quiet([t EXCEPT !.status = "Working", !.asks = a, !.said = s])
    /\ \A t \in Rec : \A m, l, p : Quiet(t) /\ t.status # "gone"
          => Quiet([t EXCEPT !.model = m, !.launch = l]) /\ Quiet([t EXCEPT !.pid = p, !.launch = l])
<1> USE DEF Quiet
<1>1. Quiet(Gone) /\ Quiet(Record("Idle"))
  BY DEF Gone, Record
<1>2. ASSUME NEW t \in Rec PROVE Quiet(Ready(t)) /\ Quiet(Failed(t))
  <2>1. Cleared(t) \in Rec
    BY RecTypes
  <2> QED
    BY <2>1 DEF Ready, Failed, Rec
<1>3. \A t \in Rec : Quiet(t) => Quiet(Loaded(t))
  BY DEF Loaded, Rec
<1>4. ASSUME NEW t \in Rec, NEW e \in EventNames, Quiet(t) PROVE Quiet(Effect(e, t))
  <2>1. e = "done" => Effect(e, t).status = Rests(t)
    BY DEF Effect, Rec
  <2>2. e # "done" => Effect(e, t).status # "Idle"
    BY DEF Effect, Rec, EventNames
  <2>3. Effect(e, t).asks = t.asks
    BY DEF Effect, Rec
  <2>4. Effect(e, t).status # "gone"
    BY DEF Effect, Rec, Rests
  <2> QED
    BY <2>1, <2>2, <2>3, <2>4 DEF Rests
<1>5. \A t \in Rec : \A s \in SUBSET Requests : \A a \in BOOLEAN :
          Quiet([t EXCEPT !.status = "Working", !.asks = a, !.said = s])
  BY DEF Rec
<1>6. \A t \in Rec : \A m, l, p : Quiet(t) /\ t.status # "gone"
          => Quiet([t EXCEPT !.model = m, !.launch = l]) /\ Quiet([t EXCEPT !.pid = p, !.launch = l])
  BY DEF Rec
<1> QED
  BY <1>1, <1>2, <1>3, <1>4, <1>5, <1>6

LEMMA CalmStep ==
    ASSUME TurnInv, Calm, [Next]_vars
    PROVE  Calm'
<1>t. Typed
  BY DEF TurnInv
<1>0. ASSUME UNCHANGED <<mem, disk, snap, own>> PROVE Calm'
  BY <1>0 DEF Calm
\* The snapshot guard holds what memory held, or nothing.
<1>s. ASSUME UNCHANGED <<mem, own>>,
             \/ snap'.rec \in {mem, snap.rec, Gone} \/ \E c \in Requests : snap'.rec = own[c].rec,
             disk' \in {disk, snap.rec, Gone}
      PROVE  Calm'
  BY <1>s, QuietRecs DEF Calm, Quiet
<1>m. ASSUME Quiet(mem'), UNCHANGED <<disk, snap, own>> PROVE Calm'
  BY <1>m DEF Calm
<1>o. ASSUME NEW c \in Requests, Quiet(mem'), UNCHANGED <<disk, snap>>, Quiet(own'[c].rec),
             \A o \in Requests : o # c => own'[o] = own[o]
      PROVE  Calm'
  BY <1>o DEF Calm
<1>k. \A c \in Requests : \A rec \in Rec : Keep(c, rec) => /\ own'[c].rec = rec
                                       /\ \A o \in Requests : o # c => own'[o] = own[o]
  BY <1>t DEF Keep, Typed, OwnRec
<1>1. ASSUME NEW r \in Runtimes, Speak(r) \/ Exit(r) \/ ConsumerStep(r) PROVE Calm'
  <2>1. CASE Apply(r)
    <3>1. CASE UNCHANGED mem
      BY <2>1, <3>1, <1>0 DEF Apply
    <3>2. CASE mem' = Effect(con[r].event, mem)
      <4>1. con[r].event \in EventNames /\ mem \in Rec /\ Quiet(mem)
        BY <2>1, <1>t DEF Apply, Typed, Calm
      <4>2. Quiet(mem')
        BY <3>2, <4>1, QuietRecs
      <4> QED
        BY <2>1, <4>2, <1>m DEF Apply
    <3> QED
      BY <2>1, <3>1, <3>2 DEF Apply
  <2>2. CASE SaveEvent(r)
    BY <2>2, <1>s DEF SaveEvent, Take, Write, Release, Written
  <2> QED
    BY <1>1, <2>1, <2>2, <1>0 DEF ConsumerStep, Speak, Exit, Receive, Clear, QueueEvent
<1>2. ASSUME NEW c \in Requests, SendStep(c) PROVE Calm'
  <2>1. CASE Mark(c)
    <3>1. CASE UNCHANGED <<mem, own>>
      BY <2>1, <3>1, <1>0 DEF Mark
    <3>2. ASSUME NEW asks \in BOOLEAN, mem' = [mem EXCEPT !.status = "Working", !.asks = asks, !.said = @ \cup {c}],
                 Keep(c, mem')
          PROVE  Calm'
      <4>1. mem \in Rec /\ mem.said \cup {c} \in SUBSET Requests
        BY <1>t DEF Typed, Rec
      <4>2. Quiet(mem')
        BY <3>2, <4>1, QuietRecs
      <4>3. mem' \in Rec
        BY <1>2, SendTurn DEF TurnInv, Typed
      <4> QED
        BY <2>1, <3>2, <4>2, <4>3, <1>k, <1>o DEF Mark
    <3> QED
      BY <2>1, <3>1, <3>2 DEF Mark
  <2>2. CASE PersistTake(c) \/ Persist(c)
    BY <2>2, <1>s DEF PersistTake, Persist, Take, Write, Release, Written
  <2>3. CASE Route(c) \/ Spawn(c)
    <3>1. UNCHANGED <<mem, disk, snap>> /\ \A o \in Requests : own'[o].rec = own[o].rec
      <4>1. ASSUME NEW h, own' = [own EXCEPT ![c].handle = h]
            PROVE  \A o \in Requests : own'[o].rec = own[o].rec
        BY <4>1, <1>t DEF Typed, OwnRec
      <4>2. UNCHANGED own \/ \E h : own' = [own EXCEPT ![c].handle = h]
        BY <2>3 DEF Route, Spawn
      <4>3. \A o \in Requests : own'[o].rec = own[o].rec
        BY <4>1, <4>2
      <4>4. UNCHANGED <<mem, disk, snap>>
        BY <2>3 DEF Route, Spawn
      <4> QED
        BY <4>3, <4>4
    <3> QED
      BY <3>1 DEF Calm
  <2>4. CASE Note(c)
    <3>1. UNCHANGED mem \/ (mem'.status = mem.status /\ mem'.asks = mem.asks /\ There)
      <4>1. CASE There
        BY <2>4, <4>1, <1>t DEF Note, Typed, Rec
      <4> QED
        BY <2>4, <4>1 DEF Note
    <3> QED
      BY <2>4, <3>1, <1>m DEF Note, Calm, Quiet, There
  <2>5. CASE RecordFailure(c)
    BY <2>5, <1>t, <1>m, QuietRecs DEF RecordFailure, Typed, Calm
  <2> QED
    BY <1>2, <2>1, <2>2, <2>3, <2>4, <2>5, <1>0 DEF SendStep, Check, Retire, Store, Consume, Recover, Fail
<1>3. ASSUME NEW c \in Requests, ReplaceStep(c) PROVE Calm'
  <2>1. CASE ReadPrefs(c)
    <3>1. CASE UNCHANGED own
      BY <2>1, <3>1, <1>0 DEF ReadPrefs
    <3>2. CASE Keep(c, [mem EXCEPT !.model = 3 - @, !.launch = 0])
      <4> DEFINE x == [mem EXCEPT !.model = 3 - @, !.launch = 0]
      <4>1. own'[c].rec = x /\ \A o \in Requests : o # c => own'[o] = own[o]
        BY <3>2, <1>t DEF Keep, Typed, OwnRec
      <4>2. Quiet(x)
        <5>1. CASE There
          BY <5>1, <1>t, QuietRecs DEF There, Typed, Calm
        <5>2. CASE ~There
          <6>1. UNCHANGED own /\ own[c].rec = x
            BY <2>1, <4>1, <5>2 DEF ReadPrefs
          <6> QED
            BY <6>1 DEF Calm
        <5> QED
          BY <5>1, <5>2
      <4> QED
        BY <2>1, <4>1, <4>2, <1>o DEF ReadPrefs, Calm
    <3> QED
      BY <2>1, <3>1, <3>2 DEF ReadPrefs
  <2>2. CASE TakeRuntime(c)
    <3>1. own[c].rec \in Rec
      BY <1>t, OwnTypes DEF Typed
    <3>2. Quiet(own'[c].rec) /\ \A o \in Requests : o # c => own'[o] = own[o]
      BY <2>2, <3>1, <1>t, QuietRecs DEF TakeRuntime, Typed, Calm
    <3> QED
      BY <2>2, <3>2, <1>o DEF TakeRuntime, Calm
  <2>3. CASE ReadBind(c)
    BY <2>3, <1>t, <1>0, <1>k, <1>o DEF ReadBind, Typed, Calm
  <2>4. CASE ReplaceTake(c) \/ ReplaceDisk(c)
    BY <2>4, <1>s DEF ReplaceTake, ReplaceDisk, Take, Release
  <2>5. CASE ReplaceMem(c)
    BY <2>5, QuietRecs DEF ReplaceMem, Release, Calm
  <2> QED
    BY <1>3, <2>1, <2>2, <2>3, <2>4, <2>5, <1>0 DEF ReplaceStep, EndReplace
<1>4. ASSUME NEW c \in Requests, DeleteStep(c) PROVE Calm'
  <2>1. CASE ReadDelete(c)
    BY <2>1, <1>t, <1>0, <1>k, <1>o DEF ReadDelete, Typed, Calm
  <2>2. CASE RemoveTake(c) \/ RemoveFile(c) \/ RemovePending(c)
    BY <2>2, <1>s DEF RemoveTake, RemoveFile, RemovePending, Take, Release
  <2>3. CASE RemoveMem(c)
    BY <2>3, <1>m, QuietRecs DEF RemoveMem, LeavesMemory
  <2> QED
    BY <1>4, <2>1, <2>2, <2>3, <1>0 DEF DeleteStep, Detach, TerminateOld
<1>5. CASE Crash
  BY <1>5, <1>t, QuietRecs DEF Crash, Typed, Calm
<1>6. CASE FlushTake \/ Flush
  BY <1>6, <1>s DEF FlushTake, Flush, Take, Write, Release, Written
<1> QED
  BY <1>0, <1>1, <1>2, <1>3, <1>4, <1>5, <1>6 DEF Next, vars, Enter, Interrupt, Drain

\* A turn that needs approval does not end as one that is done with, whichever requests
\* are made, whatever fails, and after a crash.
THEOREM ApprovalIsAsked == Spec => ApprovalAsked
<1>1. Init => TurnInv /\ Calm
  <2> SUFFICES ASSUME Init PROVE Calm
    BY InitTurn
  <2>1. Quiet(mem) /\ Quiet(disk) /\ Quiet(snap.rec)
    BY QuietRecs DEF Init
  <2>2. \A c \in Requests : own[c].rec = Gone
    BY DEF Init
  <2> QED
    BY <2>1, <2>2, QuietRecs DEF Calm
<1>2. TurnInv /\ Calm /\ [Next]_vars => (TurnInv /\ Calm)'
  BY TurnStep, CalmStep
<1>3. TurnInv /\ Calm /\ [Next]_vars => (TurnInv /\ Calm)' /\ [AsksOn]_vars
  BY <1>2 DEF Calm, Quiet, AsksOn
<1> QED
  BY <1>1, <1>2, <1>3, PTL DEF Spec, ApprovalAsked

-----------------------------------------------------------------------------
(* What is written.                                                         *)

\* The holder of the snapshot guard writes what memory held: it does not change the thread.
Changes == {"replace1", "replace2", "remove1", "remove2", "remove3"}
WritesMemory == snap.by # None /\ \A c \in Requests : at[c] \notin Changes

\* A change of the thread, or its deletion, is on disk before it is in memory; a thread
\* memory does not have is not on disk either, and nobody writes it.
Order ==
    /\ \A c \in Requests : /\ at[c] = "replace2" => disk = snap.rec
                           /\ at[c] \in {"remove1", "remove2", "remove3"} => snap.rec = Gone
                           /\ at[c] \in {"remove2", "remove3"} => disk = Gone
                           /\ at[c] = "remove3" => mem = Gone
    /\ ~There => disk = mem \/ \E c \in Requests : at[c] = "replace2"
    /\ ~There /\ WritesMemory => snap.rec.status = "gone"

\* Once a deletion is acknowledged nobody holds a record to write.
Removed ==
    Asked("prefs") = {} /\ Asked("bind") = {} /\ Deleted => mem = Gone /\ disk = Gone /\ snap.rec = Gone

\* Somebody will take the snapshot guard to write what memory holds then.
WillWrite ==
    \/ pending \/ flush = "drained"
    \/ \E r \in Runtimes : con[r].at \in {"clear", "queue", "save"}
    \/ \E c \in Requests : at[c] \in {"save", "save2", "save3"}
Owed ==
    \/ server = "killed" \/ WillWrite
    \/ snap.by = None /\ mem = disk
    \/ WritesMemory /\ snap.rec = mem
    \/ \E c \in Requests : at[c] \in Changes

\* At most one holds the snapshot guard, and only where it writes.
LEMMA OneWriter ==
    ASSUME TurnInv
    PROVE  /\ \A c \in Requests : at[c] \in Writes =>
                 /\ snap.by = c /\ flush # "write" /\ \A r \in Runtimes : con[r].at # "write"
                 /\ \A o \in Requests : o # c => at[o] \notin Writes
           /\ \A r \in Runtimes : con[r].at = "write" =>
                 /\ snap.by = r /\ flush # "write" /\ \A o \in Requests : at[o] \notin Writes
                 /\ \A s \in Runtimes : s # r => con[s].at # "write"
           /\ flush = "write" => /\ snap.by = "flush" /\ \A o \in Requests : at[o] \notin Writes
                                 /\ \A r \in Runtimes : con[r].at # "write"
           /\ snap.by = None => /\ flush # "write" /\ \A r \in Runtimes : con[r].at # "write"
                                /\ \A o \in Requests : at[o] \notin Writes
BY Names1 DEF TurnInv, SnapOK, None

\* A request that replaces the thread is not one that is sent, and so on.
LEMMA KindsOf ==
    ASSUME TurnInv, NEW c \in Requests
    PROVE  /\ at[c] \in Removes \cup {"detach", "terminate"} => Request[c] = "delete"
           /\ at[c] \in Replaces => Request[c] \in {"prefs", "bind"}
           /\ at[c] \in PlacesOf("send") \ {"in", "retire"} => Request[c] = "send"
           /\ at[c] \in {"in", "retire"} => Request[c] \in {"send", "prefs"}
BY Names1 DEF TurnInv, Placed, PlacesOf, Replaces, Removes, Resting, RequestKinds

LEMMA OrderStep ==
    ASSUME TurnInv, Calm, Order, [Next]_vars
    PROVE  Order'
<1>t. Typed /\ mem \in Rec
  BY DEF TurnInv, Typed
<1>g. Gone.status = "gone"
  BY RecTypes
<1>0. ASSUME UNCHANGED <<mem, disk, snap>>, \A c \in Requests : at'[c] = at[c] \/ {at[c], at'[c]} \cap Changes = {}
      PROVE  Order'
  BY <1>0 DEF Order, There, WritesMemory, Changes, WritesMemory, Changes
\* A change of the thread's record in memory, by one who found it there.
<1>m. ASSUME There, There', UNCHANGED <<disk, snap>>,
             \A c \in Requests : at'[c] = at[c] \/ {at[c], at'[c]} \cap Changes = {}
      PROVE  Order'
  BY <1>m, <1>g DEF Order, There, Changes
\* A snapshot of memory is written by one who holds the guard.
<1>w. ASSUME UNCHANGED mem, disk' \in {disk, snap.rec}, \A c \in Requests : at[c] \notin Changes /\ at'[c] \notin Changes,
             disk' = disk \/ snap.rec.status # "gone", snap.by # None, snap'.by = None
      PROVE  Order'
  BY <1>w DEF Order, There, WritesMemory, Changes, WritesMemory, Changes
<1>e. ASSUME NEW r \in Runtimes, Speak(r) \/ Exit(r) \/ ConsumerStep(r) PROVE Order'
  <2>1. CASE Apply(r)
    <3>1. CASE UNCHANGED mem
      BY <2>1, <3>1, <1>0 DEF Apply
    <3>2. CASE There /\ mem' = Effect(con[r].event, mem)
      <4>1. mem'.status # "gone"
        BY <2>1, <3>2, <1>t DEF Effect, Rests, Rec
      <4> QED
        BY <2>1, <3>2, <4>1, <1>m DEF Apply, There
    <3> QED
      BY <2>1, <3>1, <3>2 DEF Apply
  <2>2. CASE SaveEvent(r)
    <3>1. CASE con[r].at = "save"
      BY <2>2, <3>1, OneWriter DEF SaveEvent, Take, Order, There, WritesMemory, Changes, Writes
    <3>2. CASE con[r].at = "write"
      BY <2>2, <3>2, <1>w, OneWriter, Names1 DEF SaveEvent, Write, Written, Release, Writes, Changes, None
    <3> QED
      BY <2>2, <3>1, <3>2 DEF SaveEvent
  <2> QED
    BY <1>e, <2>1, <2>2, <1>0 DEF ConsumerStep, Speak, Exit, Receive, Clear, QueueEvent
<1>s. ASSUME NEW c \in Requests, SendStep(c) PROVE Order'
  <2>g. \A w : Go(c, w) => at'[c] = w /\ \A o \in Requests : o # c => at'[o] = at[o]
    BY Moves
  <2>1. CASE Mark(c)
    <3>0. at[c] = "mark" /\ at'[c] \in {"failed", "save"} /\ \A o \in Requests : o # c => at'[o] = at[o]
      <4>1. Go(c, "failed") \/ Go(c, "save")
        BY <2>1 DEF Mark, End
      <4> QED
        BY <2>1, <4>1, <2>g DEF Mark, Is
    <3>1. CASE ~There
      <4>1. UNCHANGED <<mem, disk, snap>>
        BY <2>1, <3>1 DEF Mark
      <4> QED
        BY <4>1, <3>0, <1>0 DEF Changes
    <3>2. CASE There
      <4>1. mem'.status = "Working"
        BY <2>1, <3>2, <1>t DEF Mark, Rec
      <4>2. UNCHANGED <<disk, snap>>
        BY <2>1 DEF Mark
      <4> QED
        BY <3>0, <3>2, <4>1, <4>2, <1>m DEF There, Changes
    <3> QED
      BY <3>1, <3>2
  <2>2. CASE PersistTake(c)
    BY <2>2, <2>g, OneWriter DEF PersistTake, Take, Order, There, WritesMemory, Changes, Writes, WriteOf, Saves, After
  <2>3. CASE Persist(c)
    <3>1. at[c] \in {"write", "write2", "write3"} /\ at'[c] \notin Changes
      BY <2>3, <2>g DEF Persist, WriteOf, Saves, After, End, Changes
    <3>2. \A o \in Requests : o # c => at'[o] = at[o]
      BY <2>3, <2>g DEF Persist, End
    <3> QED
      BY <2>3, <3>1, <3>2, <1>w, OneWriter, Names1 DEF Persist, Write, Written, Release, Writes, Changes, None
  <2>4. CASE Note(c)
    <3>1. CASE There
      <4>1. mem'.status = mem.status
        BY <2>4, <3>1, <1>t DEF Note, Rec
      <4> QED
        BY <2>4, <3>1, <4>1, <2>g, <1>m DEF Note, There, Is, Changes
    <3> QED
      BY <2>4, <3>1, <2>g, <1>0 DEF Note, Is, Changes
  <2>5. CASE RecordFailure(c)
    <3>1. CASE mem.status = "Working"
      <4>1. mem'.status = "Errored"
        BY <2>5, <3>1, <1>t, RecTypes DEF RecordFailure, Failed, Rec
      <4> QED
        BY <2>5, <3>1, <4>1, <2>g, <1>m DEF RecordFailure, There, Is, Changes
    <3> QED
      BY <2>5, <3>1, <2>g, <1>0 DEF RecordFailure, Is, End, Changes
  <2>6. CASE Check(c) \/ Route(c) \/ Retire(c) \/ Spawn(c) \/ Store(c) \/ Consume(c) \/ Recover(c) \/ Fail(c)
    <3>1. UNCHANGED <<mem, disk, snap>> /\ at[c] \notin Changes
      BY <2>6 DEF Check, Route, Retire, Spawn, Store, Consume, Recover, Fail, Is, Changes
    <3>2. \E w \in {"refused", "mark", "ensure", "ok", "retire", "recover", "store", "note", "errored", "failed"} : Go(c, w)
      BY <2>6 DEF Check, Route, Retire, Spawn, Store, Consume, Recover, Fail, End
    <3>3. at'[c] \notin Changes /\ \A o \in Requests : o # c => at'[o] = at[o]
      BY <3>2, <2>g DEF Changes
    <3> QED
      BY <3>1, <3>3, <1>0
  <2> QED
    BY <1>s, <2>1, <2>2, <2>3, <2>4, <2>5, <2>6 DEF SendStep
<1>r. ASSUME NEW c \in Requests, ReplaceStep(c) PROVE Order'
  <2>g. \A w : Go(c, w) => at'[c] = w /\ \A o \in Requests : o # c => at'[o] = at[o]
    BY Moves
  <2>1. CASE ReadPrefs(c) \/ TakeRuntime(c) \/ ReadBind(c) \/ EndReplace(c)
    <3>1. UNCHANGED <<mem, disk, snap>> /\ at[c] \notin Changes /\ at'[c] \notin Changes
          /\ \A o \in Requests : o # c => at'[o] = at[o]
      BY <2>1, <2>g DEF ReadPrefs, TakeRuntime, ReadBind, EndReplace, End, Is, Changes
    <3> QED
      BY <3>1, <1>0
  <2>2. CASE ReplaceTake(c)
    BY <2>2, <2>g, OneWriter DEF ReplaceTake, Take, Order, There, WritesMemory, Changes, Writes
  <2>3. CASE ReplaceDisk(c)
    BY <2>3, <2>g, OneWriter DEF ReplaceDisk, Release, Order, There, WritesMemory, Changes, Writes
  <2>4. CASE ReplaceMem(c)
    BY <2>4, <2>g, OneWriter DEF ReplaceMem, Release, Order, There, WritesMemory, Changes, Writes
  <2> QED
    BY <1>r, <2>1, <2>2, <2>3, <2>4 DEF ReplaceStep
<1>d. ASSUME NEW c \in Requests, DeleteStep(c) PROVE Order'
  <2>g. \A w : Go(c, w) => at'[c] = w /\ \A o \in Requests : o # c => at'[o] = at[o]
    BY Moves
  <2>1. CASE ReadDelete(c) \/ Detach(c) \/ TerminateOld(c)
    <3>1. UNCHANGED <<mem, disk, snap>> /\ at[c] \notin Changes /\ at'[c] \notin Changes
          /\ \A o \in Requests : o # c => at'[o] = at[o]
      BY <2>1, <2>g DEF ReadDelete, Detach, TerminateOld, Is, Changes
    <3> QED
      BY <3>1, <1>0
  <2>2. CASE RemoveTake(c)
    BY <2>2, <2>g, OneWriter DEF RemoveTake, Take, Order, There, WritesMemory, Changes, Writes, Is
  <2>3. CASE RemoveFile(c)
    BY <2>3, <2>g, OneWriter, <1>g DEF RemoveFile, Calm, Quiet, Order, There, WritesMemory, Changes, Writes, Is
  <2>4. CASE RemoveMem(c)
    BY <2>4, <2>g, OneWriter DEF RemoveMem, LeavesMemory, Order, There, WritesMemory, Changes, Writes, Is
  <2>5. CASE RemovePending(c)
    BY <2>5, <2>g, OneWriter DEF RemovePending, Release, Order, There, WritesMemory, Changes, Writes, Is
  <2> QED
    BY <1>d, <2>1, <2>2, <2>3, <2>4, <2>5 DEF DeleteStep
<1>o. ASSUME \E c \in Requests : Enter(c) \/ Interrupt(c) PROVE Order'
  <2> PICK c \in Requests : Enter(c) \/ Interrupt(c)
    BY <1>o
  <2>1. UNCHANGED <<mem, disk, snap>> /\ at[c] = "new" /\ at'[c] \in {"in", "ok", "refused"}
        /\ \A o \in Requests : o # c => at'[o] = at[o]
    BY Moves DEF Enter, Interrupt, Is
  <2> QED
    BY <2>1, <1>0 DEF Changes
<1>f. ASSUME Drain \/ FlushTake \/ Flush PROVE Order'
  <2>1. CASE Drain
    BY <2>1, <1>0 DEF Drain
  <2>2. CASE FlushTake
    BY <2>2, OneWriter DEF FlushTake, Take, Order, There, WritesMemory, Changes, Writes
  <2>3. CASE Flush
    BY <2>3, <1>w, OneWriter, Names1 DEF Flush, Write, Written, Release, Writes, Changes, None
  <2> QED
    BY <1>f, <2>1, <2>2, <2>3
<1>c. CASE Crash
  <2>1. mem' = disk' /\ snap'.by = None /\ \A c \in Requests : at'[c] \notin Changes
    BY <1>c DEF Crash, Changes
  <2> QED
    BY <2>1 DEF Order, Changes, WritesMemory, There
<1> QED
  BY <1>e, <1>s, <1>r, <1>d, <1>o, <1>f, <1>c, <1>0 DEF Next, vars

\* What a step does to the record in memory, on disk and under the snapshot guard.
RecordsMove ==
    /\ \/ mem' = mem
       \/ There /\ There'
       \/ \E c \in Requests : at[c] = "replace2" /\ mem' = snap.rec
       \/ \E c \in Asked("delete") : mem' = Gone
       \/ mem' = Loaded(disk)
    /\ \/ disk' = disk
       \/ snap.by # None /\ disk' = snap.rec
       \/ \E c \in Asked("delete") : disk' = Gone
       \/ disk' = Loaded(disk)
    /\ \/ snap' = snap
       \/ snap'.by = None /\ snap'.rec = Gone
       \/ snap'.rec = mem
       \/ \E c \in Requests : at[c] = "replace" /\ snap'.rec = own[c].rec
       \/ \E c \in Asked("delete") : snap'.rec = Gone
    /\ \/ ~Deleted' \/ Deleted
       \/ \E c \in Requests : at[c] = "remove3" /\ snap'.rec = Gone /\ UNCHANGED <<mem, disk>>

\* A step of a kind of request is of a request of that kind.
LEMMA SendsSo ==
    ASSUME TurnInv, NEW c \in Requests, SendStep(c)
    PROVE  Request[c] = "send" /\ at[c] \notin Resting /\ guard = c
<1>0. at[c] \in {"save", "save2", "save3", "write", "write2", "write3"} => Request[c] = "send"
  BY KindsOf DEF PlacesOf
<1>1. ASSUME PersistTake(c) PROVE Request[c] = "send" /\ at[c] \notin Resting
  BY <1>0, <1>1 DEF PersistTake, Saves, After, Resting
<1>2. ASSUME Persist(c) PROVE Request[c] = "send" /\ at[c] \notin Resting
  <2>1. at[c] \in {"write", "write2", "write3"}
    BY <1>2 DEF Persist, WriteOf, Saves, After
  <2> QED
    BY <1>0, <2>1 DEF Resting
<1>3. Request[c] = "send" /\ at[c] \notin Resting
  BY <1>1, <1>2 DEF SendStep, Check, Mark, Route, Retire, Spawn, Store, Note, Consume, Recover, RecordFailure, Fail,
                    Is, Resting
<1> QED
  BY <1>3 DEF TurnInv, GuardOK, Guarded

LEMMA RecordsMoveSo ==
    ASSUME TurnInv, Next
    PROVE  RecordsMove
<1>t. Typed /\ mem \in Rec
  BY DEF TurnInv, Typed
<1>a. ASSUME UNCHANGED at PROVE Deleted' => Deleted
  BY <1>a DEF Deleted
<1>b. ASSUME NEW c \in Requests, NEW w, Go(c, w), w # "ok" \/ Request[c] # "delete" PROVE Deleted' => Deleted
  BY <1>b, <1>t DEF Deleted, Go, Typed
<1>e. ASSUME NEW r \in Runtimes, Speak(r) \/ Exit(r) \/ ConsumerStep(r) PROVE RecordsMove
  <2>a. Deleted' => Deleted
    BY <1>e, <1>a DEF ConsumerStep, Speak, Exit, Receive, Apply, Clear, QueueEvent, SaveEvent
  <2>1. CASE Apply(r)
    <3>1. CASE UNCHANGED mem
      BY <2>1, <2>a, <3>1 DEF Apply, RecordsMove
    <3>2. CASE There /\ mem' = Effect(con[r].event, mem)
      <4>1. mem'.status # "gone"
        BY <2>1, <3>2, <1>t DEF Effect, Rests, Rec
      <4> QED
        BY <2>1, <2>a, <3>2, <4>1 DEF Apply, There, RecordsMove
    <3> QED
      BY <2>1, <3>1, <3>2 DEF Apply
  <2>2. CASE SaveEvent(r)
    BY <2>2, <2>a, Names1 DEF SaveEvent, Take, Write, Written, Release, RecordsMove, None
  <2> QED
    BY <1>e, <2>a, <2>1, <2>2 DEF ConsumerStep, Speak, Exit, Receive, Clear, QueueEvent, RecordsMove
<1>s. ASSUME NEW c \in Requests, SendStep(c) PROVE RecordsMove
  <2>a. Deleted' => Deleted
    <3>1. Request[c] # "delete"
      BY <1>s, SendsSo
    <3>2. \E w : Go(c, w)
      BY <1>s DEF SendStep, Check, Mark, PersistTake, Persist, Route, Retire, Spawn, Store, Note, Consume,
                  Recover, RecordFailure, Fail, End
    <3> QED
      BY <3>1, <3>2, <1>b
  <2>1. CASE Mark(c)
    <3>1. CASE ~There
      BY <2>1, <2>a, <3>1 DEF Mark, RecordsMove
    <3>2. CASE There
      <4>1. mem'.status = "Working"
        BY <2>1, <3>2, <1>t DEF Mark, Rec
      <4> QED
        BY <2>1, <2>a, <3>2, <4>1 DEF Mark, There, RecordsMove
    <3> QED
      BY <3>1, <3>2
  <2>2. CASE PersistTake(c) \/ Persist(c)
    BY <2>2, <2>a, Names1 DEF PersistTake, Persist, Take, Write, Written, Release, RecordsMove, None
  <2>4. CASE Note(c)
    <3>1. CASE There
      <4>1. mem'.status = mem.status
        BY <2>4, <3>1, <1>t DEF Note, Rec
      <4> QED
        BY <2>4, <2>a, <3>1, <4>1 DEF Note, There, RecordsMove
    <3> QED
      BY <2>4, <2>a, <3>1 DEF Note, RecordsMove
  <2>5. CASE RecordFailure(c)
    <3>1. CASE mem.status = "Working"
      <4>1. mem'.status = "Errored"
        BY <2>5, <3>1, <1>t, RecTypes DEF RecordFailure, Failed, Rec
      <4> QED
        BY <2>5, <2>a, <3>1, <4>1 DEF RecordFailure, There, RecordsMove
    <3> QED
      BY <2>5, <2>a, <3>1 DEF RecordFailure, RecordsMove
  <2>6. CASE Check(c) \/ Route(c) \/ Retire(c) \/ Spawn(c) \/ Store(c) \/ Consume(c) \/ Recover(c) \/ Fail(c)
    <3>1. UNCHANGED <<mem, disk, snap>>
      BY <2>6 DEF Check, Route, Retire, Spawn, Store, Consume, Recover, Fail
    <3> QED
      BY <2>a, <3>1 DEF RecordsMove
  <2> QED
    BY <1>s, <2>1, <2>2, <2>4, <2>5, <2>6 DEF SendStep
<1>r. ASSUME NEW c \in Requests, ReplaceStep(c) PROVE RecordsMove
  <2>a. Deleted' => Deleted
    <3>1. Request[c] # "delete"
      BY <1>r, KindsOf DEF ReplaceStep, ReadPrefs, TakeRuntime, ReadBind, ReplaceTake, ReplaceDisk, ReplaceMem,
                           EndReplace, Is, Replaces
    <3>2. \E w : Go(c, w)
      BY <1>r DEF ReplaceStep, ReadPrefs, TakeRuntime, ReadBind, ReplaceTake, ReplaceDisk, ReplaceMem, EndReplace, End
    <3> QED
      BY <3>1, <3>2, <1>b
  <2>1. CASE ReadPrefs(c) \/ TakeRuntime(c) \/ ReadBind(c) \/ EndReplace(c)
    BY <2>1, <2>a DEF ReadPrefs, TakeRuntime, ReadBind, EndReplace, RecordsMove
  <2>2. CASE ReplaceTake(c)
    BY <2>2, <2>a DEF ReplaceTake, Take, RecordsMove
  <2>3. CASE ReplaceDisk(c)
    BY <2>3, <2>a, OneWriter, Names1 DEF ReplaceDisk, Release, RecordsMove, Writes, None
  <2>4. CASE ReplaceMem(c)
    BY <2>4, <2>a DEF ReplaceMem, Release, RecordsMove
  <2> QED
    BY <1>r, <2>1, <2>2, <2>3, <2>4 DEF ReplaceStep
<1>d. ASSUME NEW c \in Requests, DeleteStep(c) PROVE RecordsMove
  <2>a. c \in Asked("delete")
    BY <1>d DEF DeleteStep, ReadDelete, Detach, TerminateOld, RemoveTake, RemoveFile, RemoveMem, RemovePending, Is, Asked
  <2>1. CASE RemovePending(c)
    BY <2>1 DEF RemovePending, Release, RecordsMove, Is
  <2>2. ASSUME ~RemovePending(c) PROVE Deleted' => Deleted
    <3>1. \E w \in {"detach", "failed", "terminate", "remove", "remove1", "remove2", "remove3"} : Go(c, w)
      BY <1>d, <2>2 DEF DeleteStep, ReadDelete, Detach, TerminateOld, RemoveTake, RemoveFile, RemoveMem
    <3> QED
      BY <3>1, <1>b
  <2>3. CASE ReadDelete(c) \/ Detach(c) \/ TerminateOld(c) \/ RemoveTake(c) \/ RemoveFile(c) \/ RemoveMem(c)
    <3>1. CASE RemovePending(c)
      BY <2>1, <3>1
    <3>2. CASE ~RemovePending(c)
      BY <2>a, <2>2, <2>3, <3>2 DEF ReadDelete, Detach, TerminateOld, RemoveTake, Take, RemoveFile, RemoveMem,
                                    LeavesMemory, RecordsMove
    <3> QED
      BY <3>1, <3>2
  <2> QED
    BY <1>d, <2>1, <2>3 DEF DeleteStep
<1>o. ASSUME NEW c \in Requests, Enter(c) \/ Interrupt(c) PROVE RecordsMove
  <2>1. Request[c] # "delete" /\ \E w : Go(c, w)
    BY <1>o DEF Enter, Interrupt, Is
  <2>2. Deleted' => Deleted
    BY <2>1, <1>b
  <2> QED
    BY <1>o, <2>2 DEF Enter, Interrupt, RecordsMove
<1>f. ASSUME Drain \/ FlushTake \/ Flush PROVE RecordsMove
  <2>1. Deleted' => Deleted
    BY <1>f, <1>a DEF Drain, FlushTake, Flush
  <2> QED
    BY <1>f, <2>1, Names1 DEF Drain, FlushTake, Flush, Take, Write, Written, Release, RecordsMove, None
<1>c. CASE Crash
  <2>1. Deleted' => Deleted
    BY <1>c DEF Crash, Deleted
  <2> QED
    BY <1>c, <2>1 DEF Crash, RecordsMove
<1> QED
  BY <1>e, <1>s, <1>r, <1>d, <1>o, <1>f, <1>c DEF Next

LEMMA RemovedStep ==
    ASSUME TurnInv, Order, Removed, [Next]_vars
    PROVE  Removed'
<1>1. CASE UNCHANGED vars
  BY <1>1 DEF vars, Removed, Deleted
<1>2. CASE Next
  <2> SUFFICES ASSUME Asked("prefs") = {}, Asked("bind") = {}, Deleted'
               PROVE  mem' = Gone /\ disk' = Gone /\ snap'.rec = Gone
    BY DEF Removed
  <2>1. \A c \in Requests : at[c] \notin Replaces
    BY KindsOf DEF Asked
  <2>2. RecordsMove
    BY <1>2, RecordsMoveSo
  <2>3. CASE Deleted
    <3>1. mem = Gone /\ disk = Gone /\ snap.rec = Gone
      BY <2>3 DEF Removed
    <3>2. ~There /\ Loaded(Gone) = Gone
      BY <3>1, RecTypes DEF There, Loaded
    <3> QED
      BY <2>1, <2>2, <3>1, <3>2 DEF RecordsMove, Replaces
  <2>4. CASE ~Deleted
    BY <2>2, <2>4 DEF RecordsMove, Order
  <2> QED
    BY <2>3, <2>4
<1> QED
  BY <1>1, <1>2

LEMMA InitWrites == Init => Calm /\ Order /\ Removed
<1> SUFFICES ASSUME Init PROVE Calm /\ Order /\ Removed
  OBVIOUS
<1>1. Calm
  <2>1. Quiet(mem) /\ Quiet(disk) /\ Quiet(snap.rec)
    BY QuietRecs DEF Init
  <2>2. \A c \in Requests : own[c].rec = Gone
    BY DEF Init
  <2> QED
    BY <2>1, <2>2, QuietRecs DEF Calm
<1>2. Order
  BY DEF Init, Order, There, WritesMemory, Record
<1>3. Removed
  BY DEF Init, Removed, Deleted
<1> QED
  BY <1>1, <1>2, <1>3

\* A deleted thread stays deleted, in memory and on disk, whatever the agents report
\* and the watchdog writes, and after a crash: unless a change of preferences or a
\* binding, which write back a copy of the record, are made as well.
THEOREM DeletionIsKept ==
    ASSUME Asked("prefs") = {}, Asked("bind") = {}
    PROVE  Spec => []DeletedStays
<1>1. Init => TurnInv /\ Calm /\ Order /\ Removed
  BY InitTurn, InitWrites
<1>2. TurnInv /\ Calm /\ Order /\ Removed /\ [Next]_vars => (TurnInv /\ Calm /\ Order /\ Removed)'
  BY TurnStep, CalmStep, OrderStep, RemovedStep
<1>3. Removed => DeletedStays
  BY RecTypes DEF Removed, DeletedStays, There
<1> QED
  BY <1>1, <1>2, <1>3, PTL DEF Spec

LEMMA OwedStep ==
    ASSUME TurnInv, Order, Owed, [Next]_vars, "disk" \notin Faults
    PROVE  Owed'
<1>t. Typed
  BY DEF TurnInv
\* A step that leaves the thread and the writers alone.
<1>0. ASSUME UNCHANGED <<mem, disk, snap>>, server = "killed" => server' = "killed", WillWrite => WillWrite',
             \A c \in Requests : at[c] \in Changes <=> at'[c] \in Changes
      PROVE  Owed'
  BY <1>0 DEF Owed, WritesMemory
\* Somebody takes the snapshot guard to write what memory holds.
<1>s. ASSUME NEW me, Take(me, mem), me # None, UNCHANGED mem, \A c \in Requests : at'[c] \notin Changes
      PROVE  Owed'
  BY <1>s DEF Owed, WritesMemory, Take
\* What memory held was written.
<1>w. ASSUME UNCHANGED <<mem, server>>, Written, Release, WritesMemory, WillWrite => WillWrite',
             \A c \in Requests : at[c] \notin Changes /\ at'[c] \notin Changes
      PROVE  Owed'
  <2>1. ~There => disk = mem
    BY <1>w DEF Order, Changes
  <2>2. snap.rec = mem => disk' = mem
    BY <1>w, <2>1 DEF Written, There
  <2> QED
    BY <1>w, <2>2 DEF Owed, Release, WritesMemory
<1>e. ASSUME NEW r \in Runtimes, Speak(r) \/ Exit(r) \/ ConsumerStep(r) PROVE Owed'
  <2>a. UNCHANGED <<at, server, flush>>
    BY <1>e DEF ConsumerStep, Speak, Exit, Receive, Apply, Clear, QueueEvent, SaveEvent
  <2>g. \A w : Where(r, w) => /\ \A s \in Runtimes : s # r => con'[s] = con[s]
                              /\ con'[r].at = w
    BY <1>t DEF Where, Typed, ConRec
  <2>1. CASE Apply(r)
    <3>1. CASE UNCHANGED mem
      <4>1. con[r].at = "apply" /\ \A s \in Runtimes : s # r => con'[s] = con[s]
        BY <2>1, <2>g DEF Apply
      <4>2. WillWrite => WillWrite'
        BY <2>1, <4>1, <2>a DEF Apply, WillWrite
      <4> QED
        BY <2>1, <3>1, <4>2, <2>a, <1>0 DEF Apply
    <3>2. CASE There /\ mem.status \notin Terminal
      <4>1. con'[r].at \in {"clear", "save", "queue"}
        BY <2>1, <2>g, <3>2 DEF Apply
      <4> QED
        BY <4>1 DEF Owed, WillWrite
    <3> QED
      BY <2>1, <3>1, <3>2 DEF Apply
  <2>2. CASE SaveEvent(r)
    <3>1. CASE con[r].at = "save"
      <4>1. Take(r, mem) /\ UNCHANGED mem /\ r # None
        BY <2>2, <3>1, Names1 DEF SaveEvent
      <4>2. \A c \in Requests : at'[c] \notin Changes
        BY <4>1, <2>a, OneWriter DEF Take, Changes, Writes
      <4> QED
        BY <4>1, <4>2, <1>s
    <3>2. CASE con[r].at = "write"
      <4>1. Written /\ Release /\ UNCHANGED mem /\ snap.by = r /\ Where(r, "wait") /\ UNCHANGED pending
        BY <2>2, <3>2 DEF SaveEvent, Write, WriteMay
      <4>2. \A c \in Requests : at[c] \notin Changes
        BY <3>2, OneWriter DEF Changes, Writes
      <4>3. WillWrite => WillWrite'
        BY <4>1, <3>2, <2>a, <2>g DEF WillWrite
      <4> QED
        BY <4>1, <4>2, <4>3, <2>a, Names1, <1>w DEF WritesMemory
    <3> QED
      BY <2>2, <3>1, <3>2 DEF SaveEvent
  <2>3. CASE QueueEvent(r)
    BY <2>3 DEF QueueEvent, Queue, Owed, WillWrite
  <2>4. CASE Clear(r)
    <3>1. con[r].at = "clear" => con'[r].at = "save"
      BY <2>4, <2>g DEF Clear
    <3>2. con[r].at \in {"clear", "leave"} /\ \A s \in Runtimes : s # r => con'[s] = con[s]
      BY <2>4, <2>g DEF Clear
    <3>3. WillWrite => WillWrite'
      BY <2>4, <3>1, <3>2, <2>a DEF Clear, WillWrite
    <3> QED
      BY <2>4, <3>3, <2>a, <1>0 DEF Clear
  <2>5. CASE Receive(r)
    <3>1. con[r].at = "wait" /\ \A s \in Runtimes : s # r => con'[s] = con[s]
      BY <2>5, <1>t DEF Receive, Typed
    <3>2. WillWrite => WillWrite'
      BY <2>5, <3>1, <2>a DEF Receive, WillWrite
    <3> QED
      BY <2>5, <3>2, <2>a, <1>0 DEF Receive
  <2>6. CASE Speak(r) \/ Exit(r)
    BY <2>6, <2>a, <1>0 DEF Speak, Exit, WillWrite
  <2> QED
    BY <1>e, <2>1, <2>2, <2>3, <2>4, <2>5, <2>6 DEF ConsumerStep
\* A request that is not a saver moves on.
<1>c. ASSUME NEW c \in Requests, NEW w, Go(c, w), w \notin Changes, at[c] \notin Changes \cup {"save", "save2", "save3"},
             UNCHANGED <<mem, disk, snap, flush>>, server = "killed" => server' = "killed", pending => pending',
             \A r \in Runtimes : con[r].at \in {"clear", "queue", "save"} => con'[r].at = con[r].at
      PROVE  Owed'
  <2>1. at'[c] = w /\ \A o \in Requests : o # c => at'[o] = at[o]
    BY <1>c, Moves
  <2>2. WillWrite => WillWrite'
    BY <1>c, <2>1 DEF WillWrite
  <2> QED
    BY <1>c, <2>1, <2>2, <1>0
<1>x. ASSUME NEW c \in Requests, SendStep(c) PROVE Owed'
  <2>g. \A w : Go(c, w) => at'[c] = w /\ \A o \in Requests : o # c => at'[o] = at[o]
    BY Moves
  <2>1. CASE Mark(c)
    <3>1. CASE ~There
      <4>1. Go(c, "failed") /\ UNCHANGED <<mem, disk, snap, flush, server, pending, con>> /\ at[c] = "mark"
        BY <2>1, <3>1 DEF Mark, End, Is
      <4> QED
        BY <4>1, <1>c DEF Changes
    <3>2. CASE There
      <4>1. at'[c] = "save"
        BY <2>1, <3>2, <2>g DEF Mark
      <4> QED
        BY <4>1 DEF Owed, WillWrite
    <3> QED
      BY <3>1, <3>2
  <2>2. CASE PersistTake(c)
    <3>1. Take(c, mem) /\ UNCHANGED mem /\ c # None /\ at'[c] \in {"write", "write2", "write3"}
          /\ \A o \in Requests : o # c => at'[o] = at[o]
      BY <2>2, <2>g, Names1 DEF PersistTake, WriteOf, Saves, After
    <3>2. \A o \in Requests : at'[o] \notin Changes
      BY <3>1, OneWriter DEF Take, Changes, Writes
    <3> QED
      BY <3>1, <3>2, <1>s
  <2>3. CASE Persist(c)
    <3>1. Written /\ Release /\ UNCHANGED <<mem, server, pending, flush, con>> /\ snap.by = c
          /\ at[c] \in {"write", "write2", "write3"} /\ at'[c] \in {"route", "consume", "fail"}
      BY <2>3, <2>g DEF Persist, Write, WriteMay, GoesOn, WriteOf, Saves, After
    <3>2. \A o \in Requests : o # c => at'[o] = at[o] /\ at[o] \notin Changes
      <4>1. \A o \in Requests : o # c => at'[o] = at[o]
        BY <2>3, <2>g DEF Persist, End
      <4> QED
        BY <3>1, <4>1, OneWriter DEF Changes, Writes
    <3>3. WillWrite => WillWrite'
      BY <3>1, <3>2 DEF WillWrite
    <3> QED
      BY <3>1, <3>2, <3>3, <1>w, Names1 DEF WritesMemory, Changes
  <2>4. CASE Note(c)
    <3>1. CASE There
      <4>1. at'[c] = "save2"
        BY <2>4, <3>1, <2>g DEF Note
      <4> QED
        BY <4>1 DEF Owed, WillWrite
    <3>2. CASE ~There
      <4>1. Go(c, "consume") /\ UNCHANGED <<mem, disk, snap, flush, server, pending, con>> /\ at[c] = "note"
        BY <2>4, <3>2 DEF Note, Is
      <4> QED
        BY <4>1, <1>c DEF Changes
    <3> QED
      BY <3>1, <3>2
  <2>5. CASE RecordFailure(c)
    <3>1. CASE mem.status = "Working"
      <4>1. at'[c] = "save3"
        BY <2>5, <3>1, <2>g DEF RecordFailure
      <4> QED
        BY <4>1 DEF Owed, WillWrite
    <3>2. CASE mem.status # "Working"
      <4>1. Go(c, "failed") /\ UNCHANGED <<mem, disk, snap, flush, server, pending, con>> /\ at[c] = "errored"
        BY <2>5, <3>2 DEF RecordFailure, Is, End
      <4> QED
        BY <4>1, <1>c DEF Changes
    <3> QED
      BY <3>1, <3>2
  <2>6. CASE Consume(c)
    <3> DEFINE h == own[c].handle
    <3>1. h \in Runtimes /\ con[h].at = "none"
      BY <2>6 DEF Consume, Is, TurnInv, Fresh, Starts
    <3>2. \A r \in Runtimes : r # h => con'[r] = con[r]
      BY <2>6, <1>t DEF Consume, Where, Typed
    <3>3. Go(c, "ok") /\ UNCHANGED <<mem, disk, snap, flush, server, pending>> /\ at[c] = "consume"
      BY <2>6 DEF Consume, End, Is
    <3> QED
      BY <3>1, <3>2, <3>3, <1>c DEF Changes
  <2>7. CASE Check(c) \/ Route(c) \/ Retire(c) \/ Spawn(c) \/ Store(c) \/ Recover(c) \/ Fail(c)
    <3>1. UNCHANGED <<mem, disk, snap, flush, server, pending, con>> /\ at[c] \notin Changes \cup {"save", "save2", "save3"}
      BY <2>7 DEF Check, Route, Retire, Spawn, Store, Recover, Fail, Is, Changes
    <3>2. \E w \in {"refused", "mark", "ensure", "ok", "retire", "recover", "store", "note", "errored", "failed"} : Go(c, w)
      BY <2>7 DEF Check, Route, Retire, Spawn, Store, Recover, Fail, End
    <3> QED
      BY <3>1, <3>2, <1>c DEF Changes
  <2> QED
    BY <1>x, <2>1, <2>2, <2>3, <2>4, <2>5, <2>6, <2>7 DEF SendStep
\* A request that changes the thread under the snapshot guard.
<1>h. ASSUME NEW c \in Requests, NEW w \in Changes, Go(c, w) PROVE Owed'
  BY <1>h, Moves DEF Owed
<1>r. ASSUME NEW c \in Requests, ReplaceStep(c) PROVE Owed'
  <2>1. CASE ReadPrefs(c) \/ TakeRuntime(c) \/ ReadBind(c) \/ EndReplace(c)
    <3>1. UNCHANGED <<mem, disk, snap, flush, server, pending, con>> /\ at[c] \notin Changes \cup {"save", "save2", "save3"}
      BY <2>1 DEF ReadPrefs, TakeRuntime, ReadBind, EndReplace, Is, Changes
    <3>2. \E w \in {"retire", "failed", "replace", "ok"} : Go(c, w)
      BY <2>1 DEF ReadPrefs, TakeRuntime, ReadBind, EndReplace, End
    <3> QED
      BY <3>1, <3>2, <1>c DEF Changes
  <2>2. CASE ReplaceTake(c)
    BY <2>2, <1>h DEF ReplaceTake, Changes
  <2>3. CASE ReplaceDisk(c)
    BY <2>3, <1>h DEF ReplaceDisk, Changes
  <2>4. CASE ReplaceMem(c)
    <3>1. mem' = disk' /\ snap'.by = None
      BY <2>4 DEF ReplaceMem, Release, Order
    <3> QED
      BY <3>1 DEF Owed
  <2> QED
    BY <1>r, <2>1, <2>2, <2>3, <2>4 DEF ReplaceStep
<1>d. ASSUME NEW c \in Requests, DeleteStep(c) PROVE Owed'
  <2>1. CASE ReadDelete(c) \/ Detach(c) \/ TerminateOld(c)
    <3>1. UNCHANGED <<mem, disk, snap, flush, pending, con>> /\ at[c] \notin Changes \cup {"save", "save2", "save3"}
      BY <2>1 DEF ReadDelete, Detach, TerminateOld, Is, Changes
    <3>2. \E w \in {"detach", "failed", "terminate", "remove"} : Go(c, w)
      BY <2>1 DEF ReadDelete, Detach, TerminateOld
    <3>3. server = "killed" => server' = "killed"
      BY <2>1 DEF ReadDelete, Detach, TerminateOld, Is
    <3> QED
      BY <3>1, <3>2, <3>3, <1>c DEF Changes
  <2>2. CASE RemoveTake(c) \/ RemoveFile(c) \/ RemoveMem(c)
    BY <2>2, <1>h DEF RemoveTake, RemoveFile, RemoveMem, Changes
  <2>3. CASE RemovePending(c)
    <3>1. mem' = disk' /\ snap'.by = None
      BY <2>3 DEF RemovePending, Release, Order, Is
    <3> QED
      BY <3>1 DEF Owed
  <2> QED
    BY <1>d, <2>1, <2>2, <2>3 DEF DeleteStep
<1>o. ASSUME NEW c \in Requests, Enter(c) \/ Interrupt(c) PROVE Owed'
  <2>1. UNCHANGED <<mem, disk, snap, flush, server, pending, con>> /\ at[c] = "new"
    BY <1>o DEF Enter, Interrupt, Is
  <2>2. \E w \in {"in", "ok", "refused"} : Go(c, w)
    BY <1>o DEF Enter, Interrupt
  <2> QED
    BY <2>1, <2>2, <1>c DEF Changes
<1>f. ASSUME Drain \/ FlushTake \/ Flush PROVE Owed'
  <2>1. CASE Drain
    BY <2>1 DEF Drain, Owed, WillWrite
  <2>2. CASE FlushTake
    <3>1. \A c \in Requests : at'[c] \notin Changes
      BY <2>2, OneWriter DEF FlushTake, Take, Changes, Writes
    <3> QED
      BY <2>2, <3>1, <1>s DEF FlushTake, None
  <2>3. CASE Flush
    <3>1. Written /\ Release /\ UNCHANGED <<mem, server, con, at>> /\ flush = "write" /\ pending' = pending
      BY <2>3, <1>t DEF Flush, Write, WriteMay, Requeue, Typed
    <3>2. snap.by # None /\ \A c \in Requests : at[c] \notin Changes
      BY <3>1, OneWriter DEF Changes, Writes, None
    <3>3. WillWrite => WillWrite'
      BY <3>1 DEF WillWrite
    <3> QED
      BY <3>1, <3>2, <3>3, <1>w DEF WritesMemory
  <2> QED
    BY <1>f, <2>1, <2>2, <2>3
<1>k. CASE Crash
  BY <1>k DEF Crash, Owed
<1>u. CASE UNCHANGED vars
  BY <1>u, <1>0 DEF vars, WillWrite
<1> QED
  BY <1>e, <1>x, <1>r, <1>d, <1>o, <1>f, <1>k, <1>u DEF Next

\* While writes succeed, a thread that is not on disk as it is in memory waits for one
\* who will write it: no change is forgotten, whoever else writes meanwhile.
THEOREM ChangesAreWritten ==
    ASSUME "disk" \notin Faults
    PROVE  Spec => []Saved
<1>1. Init => TurnInv /\ Calm /\ Order /\ Owed
  BY InitTurn, InitWrites DEF Init, Owed
<1>2. TurnInv /\ Calm /\ Order /\ Owed /\ [Next]_vars => (TurnInv /\ Calm /\ Order /\ Owed)'
  BY TurnStep, CalmStep, OrderStep, OwedStep
<1>3. TurnInv /\ Owed => Saved
  <2> SUFFICES ASSUME TurnInv, Owed, server # "killed", mem # disk PROVE Saving
    BY DEF Saved
  <2>1. CASE WillWrite
    BY <2>1 DEF WillWrite, Saving, Resting
  <2>2. CASE snap.by # None
    <3>1. snap.by \in Runtimes \cup Requests \cup {"flush"}
      BY <2>2 DEF TurnInv, Typed, SnapRec
    <3> QED
      BY <3>1 DEF TurnInv, SnapOK, Writes, Saving, Resting
  <2>3. CASE \E c \in Requests : at[c] \in Changes
    BY <2>3 DEF Changes, Saving, Resting
  <2> QED
    BY <2>1, <2>2, <2>3 DEF Owed, WritesMemory
<1> QED
  BY <1>1, <1>2, <1>3, PTL DEF Spec

-----------------------------------------------------------------------------
(* Who hears a turn.                                                        *)

\* Without a deletion the thread is there: in memory, on disk, in what is written and
\* in the copy a request will write.
Copies(c) == at[c] = "replace" \/ (at[c] = "retire" /\ Request[c] = "prefs")
Exists ==
    /\ There /\ disk.status # "gone" /\ (snap.by # None => snap.rec.status # "gone")
    /\ \A c \in Requests : Copies(c) => own[c].rec.status # "gone"

LEMMA ExistsStep ==
    ASSUME TurnInv, Exists, [Next]_vars, Asked("delete") = {}
    PROVE  Exists'
<1>t. Typed
  BY DEF TurnInv
<1>u. CASE UNCHANGED vars
  BY <1>u DEF vars, Exists, Copies, There
<1>n. CASE Next
  <2>m. RecordsMove
    BY <1>n, RecordsMoveSo
  <2>l. Loaded(disk).status # "gone"
    BY <1>t DEF Exists, Loaded, Typed, Rec
  <2>1. There'
    <3>1. \A c \in Requests : at[c] = "replace2" => snap.rec.status # "gone"
      BY OneWriter, Names1 DEF Exists, Writes, None
    <3> QED
      BY <2>m, <2>l, <3>1 DEF RecordsMove, Exists, There
  <2>2. disk'.status # "gone"
    BY <2>m, <2>l DEF RecordsMove, Exists
  <2>3. snap'.by # None => snap'.rec.status # "gone"
    BY <2>m DEF RecordsMove, Exists, Copies, There
  <2>4. ASSUME NEW c \in Requests, Copies(c)'
        PROVE  own'[c].rec.status # "gone"
    <3>a. ASSUME UNCHANGED own, at'[c] = at[c] PROVE own'[c].rec.status # "gone"
      BY <2>4, <3>a DEF Exists, Copies
    <3>b. ASSUME NEW o \in Requests, NEW w, Go(o, w), o # c \/ w \notin {"replace", "retire"},
                 o = c \/ own'[c] = own[c]
          PROVE  own'[c].rec.status # "gone"
      <4>1. at'[o] = w /\ (o # c => at'[c] = at[c])
        BY <3>b, Moves
      <4> QED
        BY <2>4, <3>b, <4>1 DEF Exists, Copies
    <3>1. ASSUME NEW r \in Runtimes, Speak(r) \/ Exit(r) \/ ConsumerStep(r) PROVE own'[c].rec.status # "gone"
      BY <3>1, <3>a DEF ConsumerStep, Speak, Exit, Receive, Apply, Clear, QueueEvent, SaveEvent
    <3>2. ASSUME NEW o \in Requests, SendStep(o) PROVE own'[c].rec.status # "gone"
      <4>1. CASE o = c
        <5>1. Request[c] = "send" /\ at'[c] # "replace"
          <6>1. TurnInv' /\ Request[c] = "send"
            BY <3>2, <4>1, SendTurn, SendsSo
          <6> QED
            BY <6>1 DEF TurnInv, Placed, PlacesOf, Resting
        <5> QED
          BY <5>1, <2>4 DEF Copies
      <4>2. CASE o # c
        <5>1. own'[c] = own[c] /\ \E w : Go(o, w)
          BY <3>2, <4>2, <1>t DEF SendStep, Check, Mark, PersistTake, Persist, Route, Retire, Spawn, Store, Note, Consume,
                      Recover, RecordFailure, Fail, End, Keep, Typed
        <5> QED
          BY <4>2, <5>1, <3>b
      <4> QED
        BY <4>1, <4>2
    <3>3. ASSUME NEW o \in Requests, ReplaceStep(o) PROVE own'[c].rec.status # "gone"
      <4>g. \A w : Go(o, w) => at'[o] = w
        BY Moves
      <4>o. CASE o # c
        <5>1. own'[c] = own[c] /\ \E w : Go(o, w)
          BY <3>3, <4>o, <1>t DEF ReplaceStep, ReadPrefs, TakeRuntime, ReadBind, ReplaceTake, ReplaceDisk, ReplaceMem,
                      EndReplace, End, Keep, Typed
        <5> QED
          BY <4>o, <5>1, <3>b
      <4>1. CASE o = c /\ ReadPrefs(c)
        <5>1. There
          BY DEF Exists
        <5>2. own'[c].rec = [mem EXCEPT !.model = 3 - @, !.launch = 0]
          BY <4>1, <5>1, <1>t DEF ReadPrefs, Keep, Typed, OwnRec
        <5> QED
          BY <5>1, <5>2, <1>t DEF There, Typed, Rec
      <4>2. CASE o = c /\ TakeRuntime(c)
        <5> DEFINE x == own[c].rec
        <5>1. x.status # "gone" /\ x \in Rec
          BY <4>2, <1>t, OwnTypes DEF TakeRuntime, Is, Exists, Copies, Typed
        <5>2. own'[c].rec \in {x, Ready(x)}
          <6>1. \E h, y : y \in {x, Ready(x)} /\ own' = [own EXCEPT ![c] = [handle |-> h, rec |-> y]]
            BY <4>2 DEF TakeRuntime
          <6> QED
            BY <4>2, <6>1, <1>t DEF Typed
        <5>3. Ready(x).status = "Idle"
          <6>1. \A y \in Rec : [y EXCEPT !.asks = FALSE, !.status = "Idle"].status = "Idle"
            BY DEF Rec
          <6>2. Cleared(x) \in Rec
            BY <5>1, RecTypes
          <6> HIDE DEF x
          <6> QED
            BY <6>1, <6>2 DEF Ready
        <5> QED
          BY <5>1, <5>2, <5>3
      <4>3. CASE o = c /\ ReadBind(c)
        BY <4>3, <1>t DEF ReadBind, Keep, Exists, There, Typed, OwnRec
      <4>4. CASE o = c /\ (ReplaceTake(c) \/ ReplaceDisk(c) \/ ReplaceMem(c) \/ EndReplace(c))
        <5>1. \E w \in {"replace1", "replace2", "replaceErr", "replaceOk", "ok", "failed"} : Go(c, w)
          BY <4>4 DEF ReplaceTake, ReplaceDisk, ReplaceMem, EndReplace, End
        <5> QED
          BY <5>1, <3>b
      <4> QED
        BY <3>3, <4>o, <4>1, <4>2, <4>3, <4>4 DEF ReplaceStep
    <3>4. ASSUME NEW o \in Requests, DeleteStep(o) PROVE own'[c].rec.status # "gone"
      BY <3>4 DEF DeleteStep, ReadDelete, Detach, TerminateOld, RemoveTake, RemoveFile, RemoveMem, RemovePending, Is, Asked
    <3>5. ASSUME NEW o \in Requests, Enter(o) \/ Interrupt(o) PROVE own'[c].rec.status # "gone"
      <4>1. UNCHANGED own /\ \E w \in {"in", "ok", "refused"} : Go(o, w)
        BY <3>5 DEF Enter, Interrupt
      <4> QED
        BY <4>1, <3>b
    <3>6. CASE Drain \/ FlushTake \/ Flush
      BY <3>6, <3>a DEF Drain, FlushTake, Flush
    <3>7. CASE Crash
      BY <3>7, <2>4 DEF Crash, Copies
    <3> QED
      BY <1>n, <3>1, <3>2, <3>3, <3>4, <3>5, <3>6, <3>7 DEF Next
  <2> QED
    BY <2>1, <2>2, <2>3, <2>4 DEF Exists
<1> QED
  BY <1>u, <1>n

\* A turn finds nobody attached until its agent is stored, and that agent has heard it.
Silent == \A r \in Runtimes : rt[r].at = "none" => rt[r].heard = {}
Heeded(c) ==
    /\ at[c] = "mark" /\ There => attached = None
    /\ at[c] \in {"save", "write", "route", "retire", "ensure"} => attached = None
    /\ at[c] \in Starts => c \in rt[own[c].handle].heard
    /\ at[c] = "ok" => \E r \in Runtimes : c \in rt[r].heard
Listened == Silent /\ \A c \in Asked("send") : Heeded(c)

\* No step takes back what a runtime has heard.
HeardOn ==
    \A r \in Runtimes : /\ rt[r].heard \subseteq rt'[r].heard
                        /\ rt'[r].at = "none" => rt[r].at = "none" /\ rt'[r].heard = rt[r].heard

LEMMA HeardGrows ==
    ASSUME TurnInv, Silent, Next
    PROVE  HeardOn /\ Silent'
<1>t. rt \in [Runtimes -> RtRec]
  BY DEF TurnInv, Typed
<1>0. ASSUME UNCHANGED rt PROVE HeardOn
  BY <1>0 DEF HeardOn
<1>k. ASSUME NEW r, rt' = Interrupted(r) PROVE HeardOn
  BY <1>k, <1>t DEF Interrupted, Killed, HeardOn, RtRec
<1>e. ASSUME NEW r \in Runtimes, Speak(r) \/ Exit(r) \/ ConsumerStep(r) PROVE HeardOn
  <2>1. CASE Speak(r)
    BY <2>1, <1>t DEF Speak, HeardOn, RtRec
  <2>2. CASE Exit(r)
    BY <2>2, <1>t DEF Exit, HeardOn, RtRec
  <2>3. CASE Receive(r)
    BY <2>3, <1>t DEF Receive, HeardOn, RtRec
  <2> QED
    BY <1>e, <2>1, <2>2, <2>3, <1>0 DEF ConsumerStep, Apply, Clear, QueueEvent, SaveEvent
<1>s. ASSUME NEW c \in Requests, SendStep(c) PROVE HeardOn
  <2>1. CASE Route(c)
    <3>1. CASE rt' = [rt EXCEPT ![attached].heard = IF Up(attached) THEN @ \cup {c} ELSE @]
      BY <3>1, <1>t DEF HeardOn, RtRec, Up
    <3> QED
      BY <2>1, <3>1, <1>0, <1>k DEF Route
  <2>2. CASE Spawn(c)
    <3>1. ASSUME NEW i \in DOMAIN Names, rt[Names[i]].at = "none",
                 rt' = [rt EXCEPT ![Names[i]].at = "up", ![Names[i]].open = Agent # "exec",
                                  ![Names[i]].held = TRUE, ![Names[i]].heard = {c}]
          PROVE  HeardOn
      <4> DEFINE r == Names[i]
      <4>1. r \in Runtimes /\ rt[r].heard = {}
        BY <3>1, Names1 DEF Silent
      <4>2. rt'[r].at = "up" /\ \A s \in Runtimes : s # r => rt'[s] = rt[s]
        BY <1>t, <3>1, <4>1 DEF RtRec
      <4> HIDE DEF r
      <4> QED
        BY <4>1, <4>2 DEF HeardOn
    <3> QED
      BY <2>2, <3>1, <1>0 DEF Spawn
  <2> QED
    BY <1>s, <2>1, <2>2, <1>0 DEF SendStep, Check, Mark, PersistTake, Persist, Retire, Store, Note, Consume, Recover,
                                  RecordFailure, Fail
<1>r. ASSUME NEW c \in Requests, ReplaceStep(c) PROVE HeardOn
  BY <1>r, <1>0, <1>k DEF ReplaceStep, ReadPrefs, TakeRuntime, ReadBind, ReplaceTake, ReplaceDisk, ReplaceMem, EndReplace
<1>d. ASSUME NEW c \in Requests, DeleteStep(c) PROVE HeardOn
  <2>1. CASE Detach(c)
    <3>1. UNCHANGED rt \/ rt' = Interrupted(attached)
      BY <2>1 DEF Detach
    <3> QED
      BY <3>1, <1>0, <1>k
  <2>2. CASE TerminateOld(c)
    <3>1. CASE UNCHANGED rt
      BY <3>1, <1>0
    <3>2. ASSUME NEW p, rt[p].at = "up",
                 rt' = [rt EXCEPT ![p].at = "ended", ![p].open = Agent = "terminal", ![p].events = Append(@, "bad")]
          PROVE  HeardOn
      BY <3>2, <1>t DEF HeardOn, RtRec
    <3> QED
      BY <2>2, <3>1, <3>2 DEF TerminateOld, Terminate, Up
  <2> QED
    BY <1>d, <2>1, <2>2, <1>0 DEF DeleteStep, ReadDelete, RemoveTake, RemoveFile, RemoveMem, RemovePending
<1>o. ASSUME NEW c \in Requests, Enter(c) \/ Interrupt(c) PROVE HeardOn
  <2>1. CASE Interrupt(c)
    <3>1. UNCHANGED rt \/ (attached # None /\ rt' = Killed(attached))
      BY <2>1 DEF Interrupt
    <3>2. attached \in Runtimes \cup {None}
      BY DEF TurnInv, Typed
    <3> QED
      BY <3>1, <3>2, <1>0, <1>k DEF Interrupted
  <2> QED
    BY <1>o, <2>1, <1>0 DEF Enter
<1>f. ASSUME Drain \/ FlushTake \/ Flush PROVE HeardOn
  BY <1>f, <1>0 DEF Drain, FlushTake, Flush
<1>c. ASSUME Crash PROVE HeardOn
  <2>1. \A r \in Runtimes : rt'[r] = rt[r] \/ (Up(r) /\ rt'[r] = [rt[r] EXCEPT !.at = "ended"])
    BY <1>c DEF Crash
  <2> SUFFICES ASSUME NEW r \in Runtimes
               PROVE  rt'[r].heard = rt[r].heard /\ (rt'[r].at = "none" => rt[r].at = "none")
    BY DEF HeardOn
  <2>2. rt'[r].heard = rt[r].heard /\ (rt'[r].at = "none" => rt[r].at = "none")
    <3>1. rt[r] \in RtRec
      BY <1>t
    <3> QED
      BY <2>1, <3>1 DEF RtRec
  <2> QED
    BY <2>2
<1>h. HeardOn
  BY <1>e, <1>s, <1>r, <1>d, <1>o, <1>f, <1>c DEF Next
<1> QED
  BY <1>h DEF HeardOn, Silent

\* A step of another task than the sends leaves a send and its copy where they are,
\* unless the server crashes.
LEMMA SendsStay ==
    ASSUME TurnInv, NEW c \in Asked("send"),
           \/ \E r \in Runtimes : Speak(r) \/ Exit(r) \/ ConsumerStep(r)
           \/ \E o \in Requests : Interrupt(o) \/ ReplaceStep(o) \/ DeleteStep(o)
           \/ Drain \/ FlushTake \/ Flush
    PROVE  at'[c] = at[c] /\ own'[c] = own[c]
<1>t. Typed /\ c \in Requests /\ Request[c] = "send"
  BY DEF TurnInv, Asked
<1>1. CASE \E r \in Runtimes : Speak(r) \/ Exit(r) \/ ConsumerStep(r)
  BY <1>1 DEF ConsumerStep, Speak, Exit, Receive, Apply, Clear, QueueEvent, SaveEvent
<1>2. ASSUME NEW o \in Requests, Interrupt(o) PROVE at'[c] = at[c] /\ own'[c] = own[c]
  BY <1>2, <1>t DEF Interrupt, Is, Go, Typed
<1>3. ASSUME NEW o \in Requests, ReplaceStep(o) PROVE at'[c] = at[c] /\ own'[c] = own[c]
  <2>1. o # c
    BY <1>3, <1>t, KindsOf DEF ReplaceStep, ReadPrefs, TakeRuntime, ReadBind, ReplaceTake, ReplaceDisk, ReplaceMem,
                               EndReplace, Is, Replaces
  <2>2. \E w : Go(o, w)
    BY <1>3 DEF ReplaceStep, ReadPrefs, TakeRuntime, ReadBind, ReplaceTake, ReplaceDisk, ReplaceMem, EndReplace, End
  <2>3. own'[c] = own[c]
    BY <1>3, <1>t, <2>1 DEF ReplaceStep, ReadPrefs, TakeRuntime, ReadBind, ReplaceTake, ReplaceDisk, ReplaceMem,
                            EndReplace, Keep, Typed
  <2> QED
    BY <1>t, <2>1, <2>2, <2>3, Moves
<1>4. ASSUME NEW o \in Requests, DeleteStep(o) PROVE at'[c] = at[c] /\ own'[c] = own[c]
  <2>1. o # c
    BY <1>4, <1>t DEF DeleteStep, ReadDelete, Detach, TerminateOld, RemoveTake, RemoveFile, RemoveMem, RemovePending, Is
  <2>2. \E w : Go(o, w)
    BY <1>4 DEF DeleteStep, ReadDelete, Detach, TerminateOld, RemoveTake, RemoveFile, RemoveMem, RemovePending
  <2>3. own'[c] = own[c]
    BY <1>4, <1>t, <2>1 DEF DeleteStep, ReadDelete, Detach, TerminateOld, RemoveTake, RemoveFile, RemoveMem,
                            RemovePending, Keep, Typed
  <2> QED
    BY <1>t, <2>1, <2>2, <2>3, Moves
<1>5. CASE Drain \/ FlushTake \/ Flush
  BY <1>5 DEF Drain, FlushTake, Flush
<1> QED
  BY <1>1, <1>2, <1>3, <1>4, <1>5

LEMMA ListenedStep ==
    ASSUME TurnInv, Order, Listened, [Next]_vars, Headless, Asked("bind") = {} \/ There
    PROVE  Listened'
<1>t. Typed
  BY DEF TurnInv
<1>u. CASE UNCHANGED vars
  BY <1>u DEF vars, Listened, Silent, Heeded, There
<1>n. CASE Next
  <2>h. HeardOn /\ Silent'
    BY <1>n, HeardGrows DEF Listened
  <2> SUFFICES ASSUME NEW c \in Asked("send") PROVE Heeded(c)'
    BY <2>h DEF Listened
  <2>r. c \in Requests /\ Request[c] = "send" /\ Heeded(c)
    BY DEF Asked, Listened
  \* There is no thread that was not there before: a binding would have read it.
  <2>m. at[c] = "mark" /\ There' => There
    <3> SUFFICES ASSUME at[c] = "mark", There', ~There PROVE FALSE
      OBVIOUS
    <3>1. RecordsMove
      BY <1>n, RecordsMoveSo
    <3>2. ASSUME NEW o \in Requests, at[o] = "replace2" PROVE FALSE
      <4>1. Request[o] \in {"prefs", "bind"}
        BY <3>2, KindsOf DEF Replaces
      <4>2. Request[o] = "prefs"
        BY <4>1 DEF Asked
      <4>3. guard = o /\ guard = c
        BY <2>r, <3>2, <4>2 DEF TurnInv, GuardOK, Guarded, Resting
      <4> QED
        BY <4>2, <4>3, <2>r
    <3>3. disk = mem /\ mem.status = "gone" /\ Gone.status = "gone"
      BY <3>2, RecTypes DEF Order, There
    <3> QED
      BY <3>1, <3>2, <3>3 DEF RecordsMove, There, Loaded
  \* Another task leaves the request where it is, and attaches nobody.
  <2>0. ASSUME at'[c] = at[c], own'[c] = own[c], attached' \in {attached, None}
        PROVE  Heeded(c)'
    <3>1. at[c] \in Starts => own[c].handle \in Runtimes
      BY <2>r DEF TurnInv, Fresh
    <3> QED
      BY <2>0, <2>m, <2>r, <2>h, <3>1 DEF Heeded, HeardOn
  <2>1. CASE \E r \in Runtimes : Speak(r) \/ Exit(r) \/ ConsumerStep(r)
    <3>1. attached' \in {attached, None}
      BY <2>1 DEF ConsumerStep, Speak, Exit, Receive, Apply, Clear, ClearIf, QueueEvent, SaveEvent
    <3> QED
      BY <2>0, <2>1, <3>1, SendsStay
  <2>2. CASE \E o \in Requests : Interrupt(o) \/ ReplaceStep(o) \/ DeleteStep(o)
    <3>1. attached' \in {attached, None}
      BY <2>2 DEF Interrupt, ReplaceStep, ReadPrefs, TakeRuntime, ReadBind, ReplaceTake, ReplaceDisk, ReplaceMem,
                  EndReplace, DeleteStep, ReadDelete, Detach, TerminateOld, RemoveTake, RemoveFile, RemoveMem, RemovePending
    <3> QED
      BY <2>0, <2>2, <3>1, SendsStay
  <2>3. CASE Drain \/ FlushTake \/ Flush
    <3>1. attached' = attached
      BY <2>3 DEF Drain, FlushTake, Flush
    <3> QED
      BY <2>0, <2>3, <3>1, SendsStay
  <2>4. CASE Crash
    <3>1. at'[c] \in Resting /\ (at'[c] = "ok" => at[c] = "ok")
      BY <2>4, <2>r DEF Crash, Resting
    <3> QED
      BY <3>1, <2>h, <2>r DEF Heeded, HeardOn, Resting, Starts
  <2>5. ASSUME NEW o \in Requests, Enter(o) PROVE Heeded(c)'
    <3>1. attached' = attached /\ own' = own /\ Go(o, "in")
      BY <2>5 DEF Enter
    <3> QED
      BY <2>0, <2>r, <3>1, Moves DEF Heeded, Starts
  <2>6. ASSUME NEW o \in Requests, SendStep(o), o # c PROVE Heeded(c)'
    <3>1. at[c] \in Resting
      BY <2>6, <2>r, SendsSo DEF TurnInv, GuardOK, Guarded
    <3>2. \E w : Go(o, w)
      BY <2>6 DEF SendStep, Check, Mark, PersistTake, Persist, Route, Retire, Spawn, Store, Note, Consume,
                  Recover, RecordFailure, Fail, End
    <3>3. at'[c] = at[c]
      BY <2>6, <2>r, <3>2, Moves
    <3> QED
      BY <3>1, <3>3, <2>h, <2>r DEF Heeded, HeardOn, Resting, Starts
  <2>7. CASE SendStep(c)
    <3>g. \A w : Go(c, w) => at'[c] = w
      BY <2>r, Moves
    <3>1. CASE Check(c)
      <4>1. CASE at'[c] = "mark" /\ There'
        <5>1. ~Busy /\ There
          BY <3>1, <3>g, <4>1 DEF Check, End, There
        <5> QED
          BY <3>1, <4>1, <5>1 DEF Check, DropClosed, Busy, Heeded, Starts
      <4>2. at'[c] \in {"mark", "refused"}
        BY <3>1, <3>g DEF Check, End
      <4> QED
        BY <4>1, <4>2 DEF Heeded, Starts
    <3>2. CASE Mark(c)
      <4>1. at'[c] = "failed" \/ (at'[c] = "save" /\ There)
        BY <3>2, <3>g DEF Mark, End
      <4> QED
        BY <3>2, <4>1, <2>r DEF Mark, Heeded, Is, Starts
    <3>3. CASE PersistTake(c)
      <4>1. at'[c] \in {"write", "write2", "write3"} /\ (at'[c] = "write" => at[c] = "save")
            /\ (at'[c] = "write2" => at[c] = "save2")
        BY <3>3, <3>g DEF PersistTake, WriteOf, Saves, After
      <4>2. own' = own /\ attached' = attached /\ rt' = rt
        BY <3>3 DEF PersistTake
      <4> QED
        BY <4>1, <4>2, <2>r DEF Heeded, Starts
    <3>4. CASE Persist(c)
      <4>1. at'[c] \in {"route", "consume", "fail", "failed", "recover"} /\ (at'[c] = "route" => at[c] = "write")
            /\ (at'[c] = "consume" => at[c] = "write2")
        BY <3>4, <3>g DEF Persist, WriteOf, Saves, After, End
      <4>2. own' = own /\ attached' = attached /\ rt' = rt
        BY <3>4 DEF Persist
      <4> QED
        BY <4>1, <4>2, <2>r DEF Heeded, Starts
    <3>5. CASE Route(c)
      <4>1. at'[c] = "ensure" /\ attached' = attached /\ at[c] = "route"
        BY <3>5, <3>g DEF Route, Is
      <4> QED
        BY <4>1, <2>r DEF Heeded, Starts
    <3>6. CASE Retire(c)
      <4>1. at'[c] = "ensure" /\ attached' \in {attached, None} /\ at[c] = "retire"
        BY <3>6, <3>g DEF Retire, ClearIf, Is
      <4> QED
        BY <4>1, <2>r DEF Heeded, Starts
    <3>7. CASE Spawn(c)
      <4>1. ~Attached
        BY <3>7, <2>r DEF Spawn, Is, Heeded, Attached
      <4>2. CASE Go(c, "recover")
        BY <4>2, <3>g DEF Heeded, Starts
      <4>3. ASSUME NEW i \in DOMAIN Names, Go(c, "store"),
                   rt' = [rt EXCEPT ![Names[i]].at = "up", ![Names[i]].open = Agent # "exec",
                                    ![Names[i]].held = TRUE, ![Names[i]].heard = {c}],
                   own' = [own EXCEPT ![c].handle = Names[i]]
            PROVE  Heeded(c)'
        <5>1. Names[i] \in Runtimes
          BY Names1
        <5>2. rt'[Names[i]].heard = {c} /\ own'[c].handle = Names[i]
          BY <4>3, <5>1, <1>t, <2>r DEF Typed, RtRec, OwnRec
        <5> QED
          BY <4>3, <5>2, <3>g DEF Heeded
      <4> QED
        BY <3>7, <4>1, <4>2, <4>3 DEF Spawn
    <3>8. CASE Store(c) \/ Note(c)
      <4>1. at[c] \in {"store", "note"} /\ at'[c] \in {"note", "save2", "consume"} /\ own' = own /\ rt' = rt
        BY <3>8, <3>g DEF Store, Note, Is
      <4> QED
        BY <4>1, <2>r DEF Heeded, Starts
    <3>9. CASE Consume(c)
      <4>1. at[c] = "consume" /\ at'[c] = "ok" /\ rt' = rt /\ own[c].handle \in Runtimes
        BY <3>9, <3>g, <2>r DEF Consume, Is, End, TurnInv, Fresh, Starts
      <4> QED
        BY <4>1, <2>r DEF Heeded, Starts
    <3>10. CASE Recover(c) \/ RecordFailure(c) \/ Fail(c)
      <4>1. at'[c] \in {"errored", "save3", "failed"}
        BY <3>10, <3>g DEF Recover, RecordFailure, Fail, End
      <4> QED
        BY <4>1 DEF Heeded, Starts
    <3> QED
      BY <2>7, <3>1, <3>2, <3>3, <3>4, <3>5, <3>6, <3>7, <3>8, <3>9, <3>10 DEF SendStep
  <2> QED
    BY <1>n, <2>1, <2>2, <2>3, <2>4, <2>5, <2>6, <2>7 DEF Next
<1> QED
  BY <1>u, <1>n

LEMMA InitThere == Init => Exists /\ Listened
<1> SUFFICES ASSUME Init PROVE Exists /\ Listened
  OBVIOUS
<1>1. Exists
  BY DEF Init, Exists, Copies, There, Record
<1>2. Listened
  BY DEF Init, Listened, Silent, Heeded, Starts, Asked
<1> QED
  BY <1>1, <1>2

\* A message that was acknowledged was given to an agent that ran, where a turn has an
\* agent of its own: unless the thread is both deleted and bound, when a turn may find
\* the thread back with the agent of another.
THEOREM TurnsAreHeard ==
    ASSUME Headless, Asked("bind") = {} \/ Asked("delete") = {}
    PROVE  Spec => []Heard
<1> DEFINE TI == /\ TurnInv /\ Calm /\ Order /\ Listened
                 /\ Asked("delete") = {} => Exists
<1>1. Init => TI
  BY InitTurn, InitWrites, InitThere
<1>2. TI /\ [Next]_vars => TI'
  <2> SUFFICES ASSUME TI, [Next]_vars PROVE TI'
    OBVIOUS
  <2>1. Asked("bind") = {} \/ There
    BY DEF Exists
  <2> QED
    BY <2>1, TurnStep, CalmStep, OrderStep, ExistsStep, ListenedStep
<1>3. TI => Heard
  BY DEF Listened, Heeded, Heard, Asked
<1> HIDE DEF TI
<1> QED
  BY <1>1, <1>2, <1>3, PTL DEF Spec

-----------------------------------------------------------------------------
(* What was acknowledged.                                                   *)

\* Nothing is said back, and the preferences are the same.
Grows(t, u) == t.said \subseteq u.said /\ u.model = t.model

LEMMA GrowsRecs ==
    /\ \A t : Grows(t, t)
    /\ \A t \in Rec : Grows(t, Ready(t)) /\ Grows(t, Loaded(t)) /\ Grows(t, Failed(t))
    /\ \A t \in Rec : \A e \in EventNames : Grows(t, Effect(e, t))
    /\ \A t \in Rec : \A p, l : Grows(t, [t EXCEPT !.pid = p, !.launch = l])
    /\ \A t \in Rec : \A a, c : Grows(t, [t EXCEPT !.status = "Working", !.asks = a, !.said = @ \cup {c}])
<1> USE DEF Grows
<1>1. \A t \in Rec : Grows(t, Ready(t)) /\ Grows(t, Failed(t))
  <2>1. ASSUME NEW t \in Rec PROVE Cleared(t) \in Rec /\ Grows(t, Cleared(t))
    BY RecTypes DEF Cleared, Rec
  <2>2. ASSUME NEW t \in Rec
        PROVE  Grows(t, [t EXCEPT !.asks = FALSE, !.status = "Idle"]) /\ Grows(t, [t EXCEPT !.status = "Errored"])
    BY DEF Rec
  <2> QED
    BY <2>1, <2>2 DEF Ready, Failed
<1>2. \A t \in Rec : Grows(t, Loaded(t))
  BY DEF Loaded, Rec
<1>3. \A t \in Rec : \A e \in EventNames : Grows(t, Effect(e, t))
  BY DEF Effect, Rec
<1>4. \A t \in Rec : \A p, l : Grows(t, [t EXCEPT !.pid = p, !.launch = l])
  BY DEF Rec
<1>5. \A t \in Rec : \A a, c : Grows(t, [t EXCEPT !.status = "Working", !.asks = a, !.said = @ \cup {c}])
  BY DEF Rec
<1> QED
  BY <1>1, <1>2, <1>3, <1>4, <1>5

\* What a step does to what the records say, when nothing is deleted.
ContentMove ==
    /\ \/ Grows(mem, mem')
       \/ \E o \in Requests : at[o] = "replace2" /\ at'[o] = "replaceOk" /\ mem' = snap.rec /\ UNCHANGED disk
       \/ Crash /\ Grows(disk, mem')
    /\ \/ UNCHANGED disk
       \/ snap.by # None /\ disk' = snap.rec
       \/ Crash /\ disk' = mem'
    /\ \/ UNCHANGED snap
       \/ snap'.by = None /\ snap'.rec = Gone
       \/ snap.by = None /\ snap'.rec = mem
       \/ \E o \in Requests : at[o] = "replace" /\ at'[o] = "replace1" /\ snap.by = None /\ snap'.rec = own[o].rec

LEMMA ContentMoveSo ==
    ASSUME TurnInv, Next, Asked("delete") = {}
    PROVE  ContentMove
<1>t. Typed /\ mem \in Rec /\ disk \in Rec /\ Grows(mem, mem)
  BY GrowsRecs DEF TurnInv, Typed
<1>e. ASSUME NEW r \in Runtimes, Speak(r) \/ Exit(r) \/ ConsumerStep(r) PROVE ContentMove
  <2>1. CASE Apply(r)
    <3>1. con[r].event \in EventNames
      BY <2>1 DEF Apply, TurnInv, Typed
    <3>2. Grows(mem, mem')
      BY <2>1, <3>1, <1>t, GrowsRecs DEF Apply
    <3> QED
      BY <2>1, <3>2 DEF Apply, ContentMove
  <2>2. CASE SaveEvent(r)
    BY <2>2, <1>t, Names1 DEF SaveEvent, Take, Write, Written, Release, ContentMove, None
  <2> QED
    BY <1>e, <1>t, <2>1, <2>2 DEF ConsumerStep, Speak, Exit, Receive, Clear, QueueEvent, ContentMove
<1>s. ASSUME NEW c \in Requests, SendStep(c) PROVE ContentMove
  <2>1. CASE Mark(c)
    <3>1. Grows(mem, mem')
      <4>1. CASE There
        <5>1. PICK a : mem' = [mem EXCEPT !.status = "Working", !.asks = a, !.said = @ \cup {c}]
          BY <2>1, <4>1 DEF Mark
        <5> QED
          BY <5>1, <1>t, GrowsRecs
      <4> QED
        BY <2>1, <4>1, <1>t DEF Mark
    <3> QED
      BY <2>1, <3>1 DEF Mark, ContentMove
  <2>2. CASE PersistTake(c) \/ Persist(c)
    BY <2>2, <1>t, Names1 DEF PersistTake, Persist, Take, Write, Written, Release, ContentMove, None
  <2>4. CASE Note(c)
    <3>1. Grows(mem, mem')
      <4>1. CASE There
        BY <2>4, <4>1, <1>t DEF Note, Grows, Rec
      <4> QED
        BY <2>4, <4>1, <1>t DEF Note
    <3> QED
      BY <2>4, <3>1 DEF Note, ContentMove
  <2>5. CASE RecordFailure(c)
    <3>1. Grows(mem, mem')
      BY <2>5, <1>t, GrowsRecs DEF RecordFailure
    <3> QED
      BY <2>5, <3>1 DEF RecordFailure, ContentMove
  <2>6. CASE Check(c) \/ Route(c) \/ Retire(c) \/ Spawn(c) \/ Store(c) \/ Consume(c) \/ Recover(c) \/ Fail(c)
    <3>1. UNCHANGED <<mem, disk, snap>>
      BY <2>6 DEF Check, Route, Retire, Spawn, Store, Consume, Recover, Fail
    <3> QED
      BY <1>t, <3>1 DEF ContentMove
  <2> QED
    BY <1>s, <2>1, <2>2, <2>4, <2>5, <2>6 DEF SendStep
<1>r. ASSUME NEW c \in Requests, ReplaceStep(c) PROVE ContentMove
  <2>1. CASE ReadPrefs(c) \/ TakeRuntime(c) \/ ReadBind(c) \/ EndReplace(c)
    BY <2>1, <1>t DEF ReadPrefs, TakeRuntime, ReadBind, EndReplace, ContentMove
  <2>2. CASE ReplaceTake(c)
    BY <2>2, <1>t, Moves DEF ReplaceTake, Take, ContentMove
  <2>3. CASE ReplaceDisk(c)
    BY <2>3, <1>t, OneWriter, Names1 DEF ReplaceDisk, Release, ContentMove, Writes, None
  <2>4. CASE ReplaceMem(c)
    BY <2>4, Moves DEF ReplaceMem, Release, ContentMove
  <2> QED
    BY <1>r, <2>1, <2>2, <2>3, <2>4 DEF ReplaceStep
<1>d. ASSUME NEW c \in Requests, DeleteStep(c) PROVE ContentMove
  BY <1>d DEF DeleteStep, ReadDelete, Detach, TerminateOld, RemoveTake, RemoveFile, RemoveMem, RemovePending, Is, Asked
<1>o. ASSUME NEW c \in Requests, Enter(c) \/ Interrupt(c) PROVE ContentMove
  BY <1>o, <1>t DEF Enter, Interrupt, ContentMove
<1>f. ASSUME Drain \/ FlushTake \/ Flush PROVE ContentMove
  BY <1>f, <1>t, Names1 DEF Drain, FlushTake, Flush, Take, Write, Written, Release, ContentMove, None
<1>c. CASE Crash
  BY <1>c, <1>t, GrowsRecs DEF Crash, ContentMove
<1> QED
  BY <1>e, <1>s, <1>r, <1>d, <1>o, <1>f, <1>c DEF Next

\* The copy a change of preferences will write says what the thread said.
LEMMA CopiesGrow ==
    ASSUME TurnInv, Next, NEW p \in Asked("prefs"), at'[p] \in {"retire", "replace"}
    PROVE  \/ at[p] = "in" /\ own'[p].rec.said = mem.said /\ own'[p].rec.model = 3 - mem.model
           \/ at[p] \in {"retire", "replace"} /\ Grows(own[p].rec, own'[p].rec)
<1>t. Typed /\ p \in Requests /\ Request[p] = "prefs"
  BY DEF TurnInv, Asked
<1>0. ASSUME at'[p] = at[p], own'[p] = own[p] PROVE at[p] \in {"retire", "replace"} /\ Grows(own[p].rec, own'[p].rec)
  BY <1>0, GrowsRecs
<1>1. ASSUME NEW o \in Requests, NEW w, Go(o, w), o # p, own'[p] = own[p]
      PROVE  at[p] \in {"retire", "replace"} /\ Grows(own[p].rec, own'[p].rec)
  BY <1>1, <1>0, <1>t, Moves
<1>2. ASSUME NEW w, Go(p, w), w \notin {"retire", "replace"} PROVE FALSE
  BY <1>2, <1>t, Moves
<1>e. ASSUME NEW r \in Runtimes, Speak(r) \/ Exit(r) \/ ConsumerStep(r)
      PROVE  at[p] \in {"retire", "replace"} /\ Grows(own[p].rec, own'[p].rec)
  BY <1>e, <1>0 DEF ConsumerStep, Speak, Exit, Receive, Apply, Clear, QueueEvent, SaveEvent
<1>s. ASSUME NEW o \in Requests, SendStep(o) PROVE at[p] \in {"retire", "replace"} /\ Grows(own[p].rec, own'[p].rec)
  <2>1. o # p
    BY <1>s, <1>t, SendsSo
  <2>2. own'[p] = own[p] /\ \E w : Go(o, w)
    BY <1>s, <2>1, <1>t DEF SendStep, Check, Mark, PersistTake, Persist, Route, Retire, Spawn, Store, Note, Consume,
                  Recover, RecordFailure, Fail, End, Keep, Typed
  <2> QED
    BY <2>1, <2>2, <1>1
<1>r. ASSUME NEW o \in Requests, o # p, ReplaceStep(o)
      PROVE  at[p] \in {"retire", "replace"} /\ Grows(own[p].rec, own'[p].rec)
  <2>1. own'[p] = own[p] /\ \E w : Go(o, w)
    BY <1>r, <1>t DEF ReplaceStep, ReadPrefs, TakeRuntime, ReadBind, ReplaceTake, ReplaceDisk, ReplaceMem,
                EndReplace, End, Keep, Typed
  <2> QED
    BY <1>r, <2>1, <1>1
<1>d. ASSUME NEW o \in Requests, DeleteStep(o) PROVE at[p] \in {"retire", "replace"} /\ Grows(own[p].rec, own'[p].rec)
  <2>1. o # p
    BY <1>d, <1>t DEF DeleteStep, ReadDelete, Detach, TerminateOld, RemoveTake, RemoveFile, RemoveMem, RemovePending, Is
  <2>2. own'[p] = own[p] /\ \E w : Go(o, w)
    BY <1>d, <2>1, <1>t DEF DeleteStep, ReadDelete, Detach, TerminateOld, RemoveTake, RemoveFile, RemoveMem,
                            RemovePending, Keep, Typed
  <2> QED
    BY <2>1, <2>2, <1>1
<1>o. ASSUME NEW o \in Requests, Enter(o) \/ Interrupt(o)
      PROVE  at[p] \in {"retire", "replace"} /\ Grows(own[p].rec, own'[p].rec)
  <2>1. own'[p] = own[p] /\ \E w \in {"in", "ok", "refused"} : Go(o, w)
    BY <1>o DEF Enter, Interrupt
  <2> QED
    BY <2>1, <1>1, <1>2
<1>f. ASSUME Drain \/ FlushTake \/ Flush PROVE at[p] \in {"retire", "replace"} /\ Grows(own[p].rec, own'[p].rec)
  BY <1>f, <1>0 DEF Drain, FlushTake, Flush
<1>c. ASSUME Crash PROVE FALSE
  BY <1>c, <1>t DEF Crash
<1>3. CASE ReadPrefs(p)
  <2>1. own' = [own EXCEPT ![p].rec = [mem EXCEPT !.model = 3 - @, !.launch = 0]]
    BY <1>3, <1>2 DEF ReadPrefs, Keep, End
  <2> QED
    BY <1>3, <2>1, <1>t DEF ReadPrefs, Is, Typed, OwnRec, Rec
<1>4. CASE TakeRuntime(p)
  <2>1. own[p].rec \in Rec /\ own'[p].rec \in {own[p].rec, Ready(own[p].rec)}
    BY <1>4, <1>t, OwnTypes DEF TakeRuntime, Typed
  <2>2. Grows(own[p].rec, own'[p].rec)
    BY <2>1, GrowsRecs
  <2> QED
    BY <1>4, <2>2 DEF TakeRuntime, Is
<1>5. ASSUME ReplaceTake(p) \/ ReplaceDisk(p) \/ ReplaceMem(p) \/ EndReplace(p) \/ ReadBind(p) PROVE FALSE
  <2>1. ~ReadBind(p)
    BY <1>t DEF ReadBind, Is
  <2>2. \E w \in {"replace1", "replace2", "replaceErr", "replaceOk", "ok", "failed"} : Go(p, w)
    BY <1>5, <2>1 DEF ReplaceTake, ReplaceDisk, ReplaceMem, EndReplace, End
  <2> QED
    BY <2>2, <1>2
<1>6. ASSUME ReplaceStep(p) PROVE ReadPrefs(p) \/ TakeRuntime(p)
  BY <1>6, <1>5 DEF ReplaceStep
<1> QED
  BY <1>e, <1>s, <1>r, <1>d, <1>o, <1>f, <1>c, <1>3, <1>4, <1>6 DEF Next

\* A message that was written is in every record that may replace the thread.
WasWritten == {"route", "retire", "ensure", "store", "note", "save2", "write2", "consume", "ok"}
SaidBy(c) ==
    /\ at[c] \in {"save", "write"} \cup WasWritten => c \in mem.said
    /\ at[c] \in WasWritten => c \in disk.said
    /\ at[c] \in {"write"} \cup WasWritten /\ snap.by # None => c \in snap.rec.said
    /\ at[c] = "ok" => \A p \in Asked("prefs") : at[p] \in {"retire", "replace"} => c \in own[p].rec.said
\* The model a request chose is in every record that may replace the thread.
ChosenBy(p) ==
    /\ at[p] \in {"new", "in"} => mem.model = 1 /\ disk.model = 1 /\ snap.rec.model = 1
    /\ at[p] \in {"retire", "replace"} => own[p].rec.model = 2
    /\ at[p] \in {"replace1", "replace2"} => snap.rec.model = 2
    /\ at[p] \in {"replaceOk", "ok"} => mem.model = 2 /\ disk.model = 2 /\ (snap.by # None => snap.rec.model = 2)
Acked == (\A c \in Asked("send") : SaidBy(c)) /\ \A p \in Asked("prefs") : ChosenBy(p)

\* Where a request of a kind goes from where it is.
LEMMA SendGoes ==
    ASSUME TurnInv, NEW c \in Requests, SendStep(c), at'[c] \in {"save", "write"} \cup WasWritten
    PROVE  /\ at'[c] = "save" => at[c] = "mark" /\ There /\ c \in mem'.said
           /\ at'[c] = "write" => at[c] = "save" /\ snap'.rec = mem /\ mem' = mem
           /\ at'[c] = "route" => at[c] = "write" /\ (disk' = snap.rec \/ snap.rec.status = "gone") /\ snap'.by = None
           /\ at'[c] \in WasWritten \ {"route"} => at[c] \in WasWritten \ {"ok"}
<1>t. Typed /\ mem \in Rec
  BY DEF TurnInv, Typed
<1>g. \A w : Go(c, w) => at'[c] = w
  BY Moves
<1>1. CASE Mark(c)
  <2>1. at'[c] = "failed" \/ at'[c] = "save"
    BY <1>1, <1>g DEF Mark, End
  <2>2. at'[c] = "save" => There /\ c \in mem'.said
    <3>1. CASE ~There
      BY <1>1, <1>g, <3>1 DEF Mark, End
    <3>2. CASE There
      <4>1. PICK asks \in BOOLEAN : mem' = [mem EXCEPT !.status = "Working", !.asks = asks, !.said = @ \cup {c}]
        BY <1>1, <3>2 DEF Mark
      <4>2. mem'.said = mem.said \cup {c}
        BY <4>1, <1>t DEF Rec
      <4> QED
        BY <3>2, <4>2
    <3> QED
      BY <3>1, <3>2
  <2> QED
    BY <1>1, <2>1, <2>2 DEF Mark, Is, WasWritten
<1>2. CASE PersistTake(c)
  <2>1. at'[c] \in {"write", "write2", "write3"} /\ (at'[c] = "write" => at[c] = "save")
        /\ (at'[c] = "write2" => at[c] = "save2")
    BY <1>2, <1>g DEF PersistTake, WriteOf, Saves, After
  <2> QED
    BY <1>2, <2>1 DEF PersistTake, Take, WasWritten
<1>3. CASE Persist(c)
  <2>1. at'[c] \in {"route", "consume", "fail", "failed", "recover"} /\ (at'[c] = "route" => at[c] = "write")
        /\ (at'[c] = "consume" => at[c] = "write2")
    BY <1>3, <1>g DEF Persist, WriteOf, Saves, After, End
  <2>2. snap'.by = None
    BY <1>3 DEF Persist, Write, Release
  <2>3. at'[c] = "route" => Written
    <3>1. \E ok \in BOOLEAN : (IF ok THEN Written ELSE UNCHANGED disk) /\ (~ok => at'[c] \in {"recover", "failed"})
      BY <1>3, <1>g DEF Persist, Write, GoesOn, End
    <3> QED
      BY <3>1
  <2> QED
    BY <2>1, <2>2, <2>3 DEF Written, WasWritten
<1>4. CASE Check(c) \/ Recover(c) \/ RecordFailure(c) \/ Fail(c)
  <2>1. at'[c] \in {"refused", "mark", "errored", "save3", "failed", "fail"}
    BY <1>4, <1>g DEF Check, Recover, RecordFailure, Fail, End
  <2> QED
    BY <2>1 DEF WasWritten
<1>5. CASE Route(c) \/ Retire(c) \/ Spawn(c) \/ Store(c) \/ Note(c) \/ Consume(c)
  <2>1. at[c] \in WasWritten \ {"ok"}
    BY <1>5 DEF Route, Retire, Spawn, Store, Note, Consume, Is, WasWritten
  <2>2. \E w \in {"ensure", "ok", "retire", "recover", "store", "note", "save2", "consume"} : Go(c, w)
    BY <1>5 DEF Route, Retire, Spawn, Store, Note, Consume, End
  <2> QED
    BY <2>1, <2>2, <1>g DEF WasWritten
<1> QED
  BY <1>1, <1>2, <1>3, <1>4, <1>5 DEF SendStep

LEMMA SaidStep ==
    ASSUME TurnInv, Acked, Exists, Next, Asked("delete") = {}, Asked("bind") = {}, NEW c \in Asked("send")
    PROVE  SaidBy(c)'
<1>t. Typed /\ c \in Requests /\ Request[c] = "send" /\ SaidBy(c)
  BY DEF TurnInv, Asked, Acked
<1>m. ContentMove
  BY ContentMoveSo
<1>k. \A o \in Requests : at[o] \in Replaces => o \in Asked("prefs")
  BY KindsOf DEF Asked
<1>g. at[c] \notin Resting => \A p \in Asked("prefs") : at[p] \in Resting
  BY <1>t DEF Asked, TurnInv, GuardOK, Guarded
<1>1. CASE Crash
  <2>1. at'[c] \in Resting /\ (at'[c] = "ok" => at[c] = "ok")
    BY <1>1, <1>t DEF Crash, Resting
  <2>2. at'[c] = "ok" => c \in disk.said /\ \A p \in Asked("prefs") : at'[p] \notin {"retire", "replace"}
    BY <1>1, <2>1, <1>t DEF Crash, SaidBy, WasWritten, Asked
  <2>3. snap'.by = None /\ mem' = disk' /\ Grows(disk, mem')
    BY <1>1, <1>t, GrowsRecs DEF Crash, Typed
  <2> QED
    BY <2>1, <2>2, <2>3 DEF SaidBy, WasWritten, Resting, Grows
<1>2. ASSUME ~Crash, at'[c] = at[c] PROVE SaidBy(c)'
  <2>1. at[c] \in {"save", "write"} \cup WasWritten => c \in mem'.said
    <3>1. ASSUME NEW o \in Requests, at[o] = "replace2", at[c] \in {"save", "write"} \cup WasWritten
          PROVE  c \in snap.rec.said
      <4>1. at[c] = "ok"
        BY <3>1, <1>k, <1>g DEF Replaces, Resting, WasWritten
      <4>2. snap.by # None
        BY <3>1, OneWriter, Names1 DEF Writes, None
      <4> QED
        BY <4>1, <4>2, <1>t DEF SaidBy, WasWritten
    <3> QED
      BY <1>2, <1>m, <1>t, <3>1 DEF ContentMove, Grows, SaidBy
  <2>2. at[c] \in WasWritten => c \in disk'.said
    BY <1>2, <1>m, <1>t DEF ContentMove, SaidBy
  <2>3. at[c] \in {"write"} \cup WasWritten /\ snap'.by # None => c \in snap'.rec.said
    <3>1. ASSUME NEW o \in Requests, at[o] = "replace", at'[o] = "replace1", at[c] \in {"write"} \cup WasWritten
          PROVE  c \in own[o].rec.said
      <4>1. at[c] = "ok" /\ o \in Asked("prefs")
        BY <3>1, <1>k, <1>g DEF Replaces, Resting, WasWritten
      <4> QED
        BY <3>1, <4>1, <1>t DEF SaidBy
    <3> QED
      BY <1>m, <1>t, <3>1 DEF ContentMove, SaidBy
  <2>4. ASSUME at[c] = "ok", NEW p \in Asked("prefs"), at'[p] \in {"retire", "replace"} PROVE c \in own'[p].rec.said
    BY <2>4, <1>t, CopiesGrow DEF SaidBy, WasWritten, Grows
  <2> QED
    BY <1>2, <2>1, <2>2, <2>3, <2>4 DEF SaidBy
<1>3. ASSUME ~Crash, SendStep(c) PROVE SaidBy(c)'
  <2>1. \A p \in Asked("prefs") : at[p] \in Resting
    BY <1>3, <1>t, <1>g, SendsSo
  <2>2. Grows(mem, mem')
    BY <1>3, <1>m, <1>k, <2>1 DEF ContentMove, Replaces, Resting
  <2>3. \A o \in Requests : at[o] # "replace"
    BY <1>k, <2>1 DEF Replaces, Resting
  <2>4. at'[c] = "ok" => \A p \in Asked("prefs") : at'[p] \notin {"retire", "replace"}
    <3>1. \E w : Go(c, w)
      BY <1>3 DEF SendStep, Check, Mark, PersistTake, Persist, Route, Retire, Spawn, Store, Note, Consume,
                  Recover, RecordFailure, Fail, End
    <3>2. \A p \in Asked("prefs") : at'[p] = at[p]
      BY <3>1, <1>t, Moves DEF Asked
    <3> QED
      BY <2>1, <3>2 DEF Resting
  <2>5. CASE at'[c] = "save"
    BY <1>3, <1>t, <2>5, SendGoes DEF SaidBy, WasWritten
  <2>6. CASE at'[c] = "write"
    <3>1. c \in mem.said /\ snap'.rec = mem /\ mem' = mem
      BY <1>3, <1>t, <2>6, SendGoes DEF SaidBy, WasWritten
    <3> QED
      BY <2>6, <3>1 DEF SaidBy, WasWritten
  <2>7. CASE at'[c] = "route"
    <3>1. at[c] = "write" /\ (disk' = snap.rec \/ snap.rec.status = "gone") /\ snap'.by = None
      BY <1>3, <1>t, <2>7, SendGoes DEF WasWritten
    <3>2. snap.by # None
      BY <3>1, <1>t, OneWriter, Names1 DEF Writes, None
    <3>3. c \in mem.said /\ c \in snap.rec.said /\ disk' = snap.rec
      BY <1>t, <3>1, <3>2 DEF SaidBy, Exists
    <3> QED
      BY <2>2, <2>7, <3>1, <3>3 DEF SaidBy, WasWritten, Grows
  <2>8. CASE at'[c] \in WasWritten \ {"route"}
    <3>1. at[c] \in WasWritten
      BY <1>3, <1>t, <2>8, SendGoes
    <3>2. c \in mem'.said
      BY <3>1, <1>t, <2>2 DEF SaidBy, Grows
    <3>3. c \in disk'.said
      BY <1>3, <1>m, <3>1, <1>t DEF ContentMove, SaidBy
    <3>4. snap'.by # None => c \in snap'.rec.said
      BY <1>m, <2>3, <3>1, <1>t DEF ContentMove, SaidBy
    <3> QED
      BY <2>4, <2>8, <3>2, <3>3, <3>4 DEF SaidBy, WasWritten
  <2> QED
    BY <2>5, <2>6, <2>7, <2>8 DEF SaidBy, WasWritten
<1>4. ASSUME ~Crash, ~SendStep(c) PROVE at'[c] = at[c] \/ at'[c] = "in"
  <2>1. ASSUME NEW o \in Requests, Enter(o) PROVE at'[c] = at[c] \/ at'[c] = "in"
    BY <2>1, <1>t, Moves DEF Enter
  <2>2. ASSUME NEW o \in Requests, SendStep(o) PROVE at'[c] = at[c]
    <3>1. \E w : Go(o, w)
      BY <2>2 DEF SendStep, Check, Mark, PersistTake, Persist, Route, Retire, Spawn, Store, Note, Consume,
                  Recover, RecordFailure, Fail, End
    <3> QED
      BY <1>4, <2>2, <3>1, <1>t, Moves
  <2> QED
    BY <1>4, <2>1, <2>2, SendsStay DEF Next
<1>5. ASSUME at'[c] = "in" PROVE SaidBy(c)'
  BY <1>5 DEF SaidBy, WasWritten
<1> QED
  BY <1>1, <1>2, <1>3, <1>4, <1>5

\* Where a change of preferences goes, and what it writes.
LEMMA PrefsGo ==
    ASSUME TurnInv, Next, ~Crash, NEW p \in Asked("prefs"), at'[p] # at[p]
    PROVE  \/ at'[p] = "in" /\ at[p] = "new"
           \/ at'[p] \in {"retire", "replace", "replaceErr", "failed"}
           \/ at'[p] = "replace1" /\ at[p] = "replace" /\ snap'.rec = own[p].rec
           \/ at'[p] = "replace2" /\ at[p] = "replace1" /\ UNCHANGED snap
           \/ at'[p] = "replaceOk" /\ at[p] = "replace2" /\ mem' = snap.rec /\ UNCHANGED disk /\ snap'.by = None
           \/ at'[p] = "ok" /\ at[p] = "replaceOk" /\ UNCHANGED <<mem, disk, snap>>
<1>t. Typed /\ p \in Requests /\ Request[p] = "prefs"
  BY DEF TurnInv, Asked
<1>g. \A w : Go(p, w) => at'[p] = w
  BY <1>t, Moves
<1>1. ASSUME NEW o \in Requests, NEW w, Go(o, w) PROVE o = p
  BY <1>1, <1>t, Moves
<1>e. ASSUME NEW r \in Runtimes, Speak(r) \/ Exit(r) \/ ConsumerStep(r) PROVE FALSE
  BY <1>e DEF ConsumerStep, Speak, Exit, Receive, Apply, Clear, QueueEvent, SaveEvent
<1>f. ASSUME Drain \/ FlushTake \/ Flush PROVE FALSE
  BY <1>f DEF Drain, FlushTake, Flush
<1>s. ASSUME NEW o \in Requests, SendStep(o) PROVE FALSE
  <2>1. \E w : Go(o, w)
    BY <1>s DEF SendStep, Check, Mark, PersistTake, Persist, Route, Retire, Spawn, Store, Note, Consume,
                Recover, RecordFailure, Fail, End
  <2> QED
    BY <1>s, <2>1, <1>1, <1>t, SendsSo
<1>d. ASSUME NEW o \in Requests, DeleteStep(o) \/ Interrupt(o) PROVE FALSE
  <2>1. \E w : Go(o, w)
    BY <1>d DEF DeleteStep, ReadDelete, Detach, TerminateOld, RemoveTake, RemoveFile, RemoveMem, RemovePending,
                Interrupt
  <2>2. Request[o] \in {"delete", "interrupt"}
    BY <1>d DEF DeleteStep, ReadDelete, Detach, TerminateOld, RemoveTake, RemoveFile, RemoveMem, RemovePending,
                Interrupt, Is
  <2> QED
    BY <2>1, <2>2, <1>1, <1>t
<1>r. ASSUME NEW o \in Requests, ReplaceStep(o) PROVE o = p
  <2>1. \E w : Go(o, w)
    BY <1>r DEF ReplaceStep, ReadPrefs, TakeRuntime, ReadBind, ReplaceTake, ReplaceDisk, ReplaceMem, EndReplace, End
  <2> QED
    BY <2>1, <1>1
<1>o. ASSUME NEW o \in Requests, Enter(o) PROVE at'[p] = "in" /\ at[p] = "new"
  BY <1>o, <1>1, <1>g DEF Enter
<1>2. CASE ReadPrefs(p) \/ TakeRuntime(p)
  BY <1>2, <1>g DEF ReadPrefs, TakeRuntime, End
<1>3. CASE ReplaceTake(p)
  BY <1>3, <1>g DEF ReplaceTake, Take
<1>4. CASE ReplaceDisk(p)
  BY <1>4, <1>g DEF ReplaceDisk
<1>5. CASE ReplaceMem(p)
  BY <1>5, <1>g DEF ReplaceMem, Release
<1>6. CASE EndReplace(p)
  BY <1>6, <1>g DEF EndReplace, End
<1>7. ~ReadBind(p)
  BY <1>t DEF ReadBind, Is
<1> QED
  BY <1>e, <1>f, <1>s, <1>d, <1>r, <1>o, <1>2, <1>3, <1>4, <1>5, <1>6, <1>7 DEF Next, ReplaceStep

LEMMA ChosenStep ==
    ASSUME TurnInv, TurnInv', Order, Acked, Exists, Next, Asked("delete") = {}, Asked("bind") = {},
           NEW p \in Asked("prefs"), \A q \in Asked("prefs") : q = p
    PROVE  ChosenBy(p)'
<1>t. Typed /\ p \in Requests /\ Request[p] = "prefs" /\ ChosenBy(p)
  BY DEF TurnInv, Asked, Acked
<1>m. ContentMove
  BY ContentMoveSo
<1>k. \A o \in Requests : at[o] \in Replaces => o = p
  BY KindsOf DEF Asked
<1>g. Gone.model = 1
  BY DEF Gone, Record
<1>1. CASE Crash
  <2>1. at'[p] \in Resting /\ (at'[p] \in {"new", "ok"} => at[p] = at'[p])
    BY <1>1, <1>t DEF Crash, Resting
  <2>2. snap'.by = None /\ snap'.rec = Gone /\ mem' = disk' /\ Grows(disk, mem')
    BY <1>1, <1>t, GrowsRecs DEF Crash, Typed
  <2> QED
    BY <2>1, <2>2, <1>g, <1>t DEF ChosenBy, Resting, Grows
<1>2. ASSUME ~Crash PROVE ChosenBy(p)'
  <2>g. \/ at'[p] = at[p]
        \/ at'[p] = "in" /\ at[p] = "new"
        \/ at'[p] \in {"retire", "replace", "replaceErr", "failed"}
        \/ at'[p] = "replace1" /\ at[p] = "replace" /\ snap'.rec = own[p].rec
        \/ at'[p] = "replace2" /\ at[p] = "replace1" /\ UNCHANGED snap
        \/ at'[p] = "replaceOk" /\ at[p] = "replace2" /\ mem' = snap.rec /\ UNCHANGED disk /\ snap'.by = None
        \/ at'[p] = "ok" /\ at[p] = "replaceOk" /\ UNCHANGED <<mem, disk, snap>>
    BY <1>2, PrefsGo
  <2>h. \A o \in Requests : at[o] \in Replaces => at[p] = at[o]
    BY <1>k
  <2>1. CASE at'[p] \in {"new", "in"}
    <3>1. at[p] \in {"new", "in"}
      BY <2>1, <2>g
    <3>2. mem.model = 1 /\ disk.model = 1 /\ snap.rec.model = 1
      BY <3>1, <1>t DEF ChosenBy
    <3>3. \A o \in Requests : at[o] \notin {"replace", "replace2"}
      BY <3>1, <2>h DEF Replaces
    <3>4. mem'.model = 1
      BY <1>2, <1>m, <3>2, <3>3 DEF ContentMove, Grows
    <3>5. disk'.model = 1
      BY <1>2, <1>m, <3>2 DEF ContentMove
    <3>6. snap'.rec.model = 1
      BY <1>m, <1>g, <3>2, <3>3 DEF ContentMove
    <3> QED
      BY <2>1, <3>4, <3>5, <3>6 DEF ChosenBy
  <2>2. CASE at'[p] \in {"retire", "replace"}
    <3>1. own'[p].rec.model = 2
      <4>1. CASE at[p] = "in" /\ own'[p].rec.said = mem.said /\ own'[p].rec.model = 3 - mem.model
        BY <4>1, <1>t DEF ChosenBy
      <4>2. CASE at[p] \in {"retire", "replace"} /\ Grows(own[p].rec, own'[p].rec)
        BY <4>2, <1>t DEF ChosenBy, Grows
      <4> QED
        BY <2>2, <4>1, <4>2, CopiesGrow
    <3> QED
      BY <2>2, <3>1 DEF ChosenBy
  <2>3. CASE at'[p] \in {"replace1", "replace2"}
    <3>1. CASE at[p] = "replace"
      BY <2>3, <2>g, <3>1, <1>t DEF ChosenBy
    <3>2. CASE at[p] = "replace1" /\ at'[p] = "replace2"
      BY <2>g, <3>2, <1>t DEF ChosenBy
    <3>3. CASE at'[p] = at[p]
      <4>1. snap.by = p /\ snap'.by = p
        BY <2>3, <3>3, <1>t DEF TurnInv, SnapOK, Writes
      <4>2. UNCHANGED snap
        BY <2>3, <3>3, <4>1, <1>m, <2>h, <1>t, Names1 DEF ContentMove, Replaces, None
      <4> QED
        BY <2>3, <3>3, <4>2, <1>t DEF ChosenBy
    <3> QED
      BY <2>3, <2>g, <3>1, <3>2, <3>3
  <2>4. CASE at'[p] \in {"replaceOk", "ok"}
    <3>1. CASE at[p] = "replace2"
      <4>1. mem' = snap.rec /\ disk' = disk /\ snap'.by = None
        BY <2>4, <2>g, <3>1
      <4>2. disk = snap.rec /\ snap.rec.model = 2
        BY <3>1, <1>t DEF Order, ChosenBy
      <4> QED
        BY <2>4, <4>1, <4>2 DEF ChosenBy
    <3>2. CASE at[p] \in {"replaceOk", "ok"}
      <4>1. mem.model = 2 /\ disk.model = 2 /\ (snap.by # None => snap.rec.model = 2)
        BY <3>2, <1>t DEF ChosenBy
      <4>2. \A o \in Requests : at[o] \notin {"replace", "replace2"}
        BY <3>2, <2>h DEF Replaces
      <4>3. mem'.model = 2
        BY <1>2, <1>m, <4>1, <4>2 DEF ContentMove, Grows
      <4>4. disk'.model = 2
        BY <1>2, <1>m, <4>1 DEF ContentMove
      <4>5. snap'.by # None => snap'.rec.model = 2
        BY <1>m, <4>1, <4>2 DEF ContentMove
      <4> QED
        BY <2>4, <4>3, <4>4, <4>5 DEF ChosenBy
    <3> QED
      BY <2>4, <2>g, <3>1, <3>2
  <2> QED
    BY <2>1, <2>2, <2>3, <2>4 DEF ChosenBy
<1> QED
  BY <1>1, <1>2

LEMMA InitAcked == Init => Acked
BY DEF Init, Acked, SaidBy, ChosenBy, WasWritten, Asked, Gone, Record

\* A message or a change of preferences that was acknowledged is in the thread and on
\* disk, whatever the flushes, the other writers and a crash did since
\* (persist_current_dispatcher_snapshot, replace_dispatcher_thread).
THEOREM AcknowledgedIsKept ==
    ASSUME Asked("delete") = {}, Asked("bind") = {}, \A p, q \in Asked("prefs") : p = q
    PROVE  Spec => []AckedOnDisk
<1> DEFINE KI == TurnInv /\ Calm /\ Order /\ Exists /\ Acked
<1>1. Init => KI
  BY InitTurn, InitWrites, InitThere, InitAcked
<1>2. KI /\ [Next]_vars => KI'
  <2> SUFFICES ASSUME KI, [Next]_vars PROVE KI'
    OBVIOUS
  <2>1. TurnInv' /\ Calm' /\ Order' /\ Exists'
    BY TurnStep, CalmStep, OrderStep, ExistsStep
  <2>2. CASE Next
    BY <2>1, <2>2, SaidStep, ChosenStep DEF Acked, Asked
  <2>3. CASE UNCHANGED vars
    <3>1. mem' = mem /\ disk' = disk /\ snap' = snap /\ at' = at /\ own' = own
      BY <2>3 DEF vars
    <3>2. \A c \in Asked("send") : SaidBy(c)'
      BY <3>1 DEF Acked, SaidBy
    <3>3. \A c \in Asked("prefs") : ChosenBy(c)'
      BY <3>1 DEF Acked, ChosenBy
    <3> QED
      BY <2>1, <3>2, <3>3 DEF Acked, Asked
  <2> QED
    BY <2>1, <2>2, <2>3
<1>3. KI => AckedOnDisk
  BY DEF Acked, SaidBy, ChosenBy, WasWritten, AckedOnDisk, Asked
<1> HIDE DEF KI
<1> QED
  BY <1>1, <1>2, <1>3, PTL DEF Spec


-----------------------------------------------------------------------------
(* One agent at work.                                                       *)

\* A runtime that has not ended has its input open and reports no end, and what
\* its consumer does at an end it does after it.
Running == {"delta", "ask"}
RunsOK ==
    \A r \in Runtimes :
       /\ Up(r) => rt[r].open
       /\ rt[r].at # "ended" => rt[r].events \in Seq(Running)
       /\ con[r].at = "apply" /\ Ends(con[r].event) => rt[r].at = "ended"
       /\ con[r].at \in {"clear", "leave"} => rt[r].at = "ended"

\* An agent at work is the thread's, or a request has it: the one that started it and
\* has not stored it, or the one that took it from the thread to stop it.
HeldOK ==
    /\ \A r \in AtWork :
          \/ attached = r
          \/ \E c \in Asked("send") : at[c] = "store" /\ own[c].handle = r
          \/ \E c \in Asked("prefs") : at[c] \in Replaces /\ own[c].handle = r
    /\ \A c \in Asked("send") :
          /\ at[c] \in {"store", "recover"} => attached = None
          /\ at[c] = "retire" => own[c].handle \in Runtimes /\ ~rt[own[c].handle].held
    /\ \A c \in Asked("prefs") : at[c] \in Replaces => attached = None

LEMMA SeqsOf ==
    \A s \in Seq(Running) : /\ \A e \in Running : Append(s, e) \in Seq(Running)
                            /\ s # <<>> => Head(s) \in Running /\ Tail(s) \in Seq(Running)
OBVIOUS

LEMMA RunsStep ==
    ASSUME TurnInv, RunsOK, Next, Agent # "exec", Faults \subseteq {"spawn", "bad"}, Asked("delete") = {}
    PROVE  RunsOK'
<1>t. Typed /\ Fresh
  BY DEF TurnInv
<1>r. \A r \in Runtimes : rt[r] \in RtRec /\ con[r] \in ConRec
  BY <1>t DEF Typed
<1> USE DEF Up
<1>0. ASSUME \A r \in Runtimes : rt'[r].at = rt[r].at /\ rt'[r].open = rt[r].open /\ rt'[r].events = rt[r].events,
             UNCHANGED con
      PROVE  RunsOK'
  BY <1>0 DEF RunsOK
<1>k. ASSUME NEW h, rt' = Interrupted(h) PROVE \A r \in Runtimes : rt'[r].at = rt[r].at /\ rt'[r].open = rt[r].open /\ rt'[r].events = rt[r].events
  BY <1>k, <1>t DEF Interrupted, Killed, Typed, RtRec
<1>e. ASSUME NEW r \in Runtimes, Speak(r) \/ Exit(r) \/ ConsumerStep(r) PROVE RunsOK'
  <2>0. \A s \in Runtimes : s # r => rt'[s] = rt[s] /\ con'[s] = con[s]
    BY <1>e, <1>t DEF ConsumerStep, Speak, Exit, Receive, Apply, Clear, QueueEvent, SaveEvent, Where, Typed
  <2>1. /\ rt'[r].at = "up" => rt'[r].open
        /\ rt'[r].at # "ended" => rt'[r].events \in Seq(Running)
        /\ con'[r].at = "apply" /\ Ends(con'[r].event) => rt'[r].at = "ended"
        /\ con'[r].at \in {"clear", "leave"} => rt'[r].at = "ended"
    <3>1. CASE Speak(r)
      <4>1. PICK e \in Running : rt' = [rt EXCEPT ![r].left = @ - 1, ![r].events = Append(@, e)]
        BY <3>1 DEF Speak, Running
      <4>2. rt'[r] = [rt[r] EXCEPT !.left = @ - 1, !.events = Append(@, e)]
        BY <4>1, <1>t DEF Typed
      <4>3. rt'[r].at = "up" /\ rt'[r].open = rt[r].open /\ rt'[r].events = Append(rt[r].events, e)
        <5>1. \A t \in RtRec : \A n, q : LET u == [t EXCEPT !.left = n, !.events = q]
                                        IN  u.at = t.at /\ u.open = t.open /\ u.events = q
          BY DEF RtRec
        <5>2. rt[r].at = "up"
          BY <3>1 DEF Speak
        <5> QED
          BY <4>2, <5>1, <5>2, <1>r
      <4>4. rt'[r].events \in Seq(Running)
        <5>1. rt[r].events \in Seq(Running)
          BY <3>1 DEF RunsOK, Speak
        <5> QED
          BY <5>1, <4>3, SeqsOf
      <4> QED
        BY <3>1, <4>3, <4>4 DEF Speak, RunsOK
    <3>2. CASE Exit(r)
      <4>1. rt'[r].at = "ended"
        BY <3>2, <1>t DEF Exit, Typed, RtRec
      <4> QED
        BY <4>1
    <3>3. CASE Receive(r)
      <4>1. rt' = [rt EXCEPT ![r].events = Tail(@)]
        BY <3>3 DEF Receive
      <4>2. rt'[r].at = rt[r].at /\ rt'[r].open = rt[r].open /\ rt'[r].events = Tail(rt[r].events)
        BY <4>1, <1>t DEF Typed, RtRec
      <4>3. rt[r].at # "ended" => Head(rt[r].events) \in Running /\ Tail(rt[r].events) \in Seq(Running)
        BY <3>3, SeqsOf DEF Receive, RunsOK
      <4>4. con'[r] = con[r] \/ con'[r] = [at |-> "apply", event |-> Head(rt[r].events)]
        BY <3>3, <1>t DEF Receive, Typed
      <4> QED
        BY <4>2, <4>3, <4>4 DEF RunsOK, Running, Ends
    <3>4. CASE Apply(r) \/ Clear(r) \/ QueueEvent(r) \/ SaveEvent(r)
      <4>1. UNCHANGED rt
        BY <3>4 DEF Apply, Clear, QueueEvent, SaveEvent
      <4>2. \A w : Where(r, w) => con'[r].at = w
        BY <1>t DEF Where, Typed, ConRec
      <4>3. \/ con'[r].at \in {"wait", "save", "queue", "write"}
            \/ (con'[r].at \in {"clear", "leave"} /\ con[r].at = "apply" /\ Ends(con[r].event))
        <5>1. CASE Apply(r)
          <6>1. \E w : Where(r, w) /\ (w \in {"save", "queue", "wait"} \/ (w \in {"clear", "leave"} /\ Ends(con[r].event)))
            BY <5>1 DEF Apply
          <6> QED
            BY <5>1, <6>1, <4>2 DEF Apply
        <5>2. CASE Clear(r) \/ QueueEvent(r) \/ SaveEvent(r)
          BY <5>2, <4>2 DEF Clear, QueueEvent, SaveEvent
        <5> QED
          BY <3>4, <5>1, <5>2
      <4> QED
        BY <4>1, <4>3 DEF RunsOK
    <3> QED
      BY <1>e, <3>1, <3>2, <3>3, <3>4 DEF ConsumerStep
  <2> QED
    BY <2>0, <2>1 DEF RunsOK
<1>s. ASSUME NEW c \in Requests, SendStep(c) PROVE RunsOK'
  <2>1. CASE Route(c)
    <3>1. \A r \in Runtimes : rt'[r].at = rt[r].at /\ rt'[r].open = rt[r].open /\ rt'[r].events = rt[r].events
      <4>1. ASSUME ~Headless, Attached, NEW h, rt' = [rt EXCEPT ![attached].heard = h]
            PROVE  \A r \in Runtimes : rt'[r].at = rt[r].at /\ rt'[r].open = rt[r].open /\ rt'[r].events = rt[r].events
        BY <4>1, <1>t DEF Typed, RtRec
      <4>2. rt' = rt \/ (\E h : ~Headless /\ Attached /\ rt' = [rt EXCEPT ![attached].heard = h]) \/ \E h : rt' = Interrupted(h)
        BY <2>1 DEF Route
      <4> QED
        BY <4>1, <4>2, <1>k
    <3> QED
      BY <2>1, <3>1, <1>0 DEF Route
  <2>2. CASE Spawn(c)
    <3>1. CASE UNCHANGED rt
      BY <2>2, <3>1, <1>0 DEF Spawn
    <3>2. CASE ~UNCHANGED rt
      <4>1. PICK i \in DOMAIN Names :
               /\ rt[Names[i]].at = "none"
               /\ rt' = [rt EXCEPT ![Names[i]].at = "up", ![Names[i]].open = Agent # "exec",
                                   ![Names[i]].held = TRUE, ![Names[i]].heard = {c}]
        BY <2>2, <3>2 DEF Spawn
      <4>2. Names[i] \in Runtimes
        BY Names1
      <4> DEFINE x == [rt[Names[i]] EXCEPT !.at = "up", !.open = Agent # "exec", !.held = TRUE, !.heard = {c}]
      <4>3. rt' = [rt EXCEPT ![Names[i]] = x]
        BY <4>1, <4>2, <1>t DEF Typed
      <4>x. x.open /\ x.events = rt[Names[i]].events
        BY <4>2, <1>r DEF RtRec
      <4> HIDE DEF x
      <4>4. /\ \A s \in Runtimes : s # Names[i] => rt'[s] = rt[s]
            /\ rt'[Names[i]].open /\ rt'[Names[i]].events = rt[Names[i]].events
        BY <4>2, <4>3, <4>x, <1>t DEF Typed
      <4>5. con'[Names[i]].at = "none" /\ UNCHANGED con
        BY <2>2, <4>1, <4>2, <1>t DEF Fresh, Spawn
      <4> QED
        BY <4>1, <4>2, <4>4, <4>5 DEF RunsOK
    <3> QED
      BY <3>1, <3>2
  <2>3. CASE Consume(c)
    <3>1. \A r \in Runtimes : con'[r] = con[r] \/ con'[r].at = "wait"
      BY <2>3, <1>t DEF Consume, Where, Typed, ConRec
    <3> QED
      BY <2>3, <3>1 DEF Consume, RunsOK
  <2>4. CASE Check(c) \/ Mark(c) \/ PersistTake(c) \/ Persist(c) \/ Retire(c) \/ Store(c) \/ Note(c) \/ Recover(c)
             \/ RecordFailure(c) \/ Fail(c)
    BY <2>4, <1>0 DEF Check, Mark, PersistTake, Persist, Retire, Store, Note, Recover, RecordFailure, Fail
  <2> QED
    BY <1>s, <2>1, <2>2, <2>3, <2>4 DEF SendStep
<1>o. ASSUME NEW c \in Requests, Enter(c) \/ Interrupt(c) \/ ReplaceStep(c) PROVE RunsOK'
  <2>1. UNCHANGED con /\ (UNCHANGED rt \/ \E h : rt' = Interrupted(h))
    <3>1. CASE Interrupt(c)
      <4>1. attached # None /\ rt' = Killed(attached) => rt' = Interrupted(attached)
        BY <1>t DEF Interrupted, Typed
      <4> QED
        BY <3>1, <4>1 DEF Interrupt
    <3>2. CASE Enter(c) \/ ReplaceStep(c)
      BY <3>2 DEF Enter, ReplaceStep, ReadPrefs, TakeRuntime, ReadBind, ReplaceTake, ReplaceDisk, ReplaceMem,
                  EndReplace
    <3> QED
      BY <1>o, <3>1, <3>2
  <2> QED
    BY <2>1, <1>0, <1>k
<1>d. ASSUME NEW c \in Requests, DeleteStep(c) PROVE RunsOK'
  BY <1>d DEF DeleteStep, ReadDelete, Detach, TerminateOld, RemoveTake, RemoveFile, RemoveMem, RemovePending, Is, Asked
<1>f. ASSUME Drain \/ FlushTake \/ Flush PROVE RunsOK'
  BY <1>f, <1>0 DEF Drain, FlushTake, Flush
<1> QED
  BY <1>e, <1>s, <1>o, <1>d, <1>f DEF Next, Crash


\* A request's step keeps who has the agents, when it stops or passes on its own.
LEMMA HeldKept ==
    ASSUME TurnInv, HeldOK, NEW c \in Requests, NEW w, Go(c, w),
           \A o \in Requests : o # c => own'[o].handle = own[o].handle,
           attached' \in {attached, None},
           \A r \in Runtimes : ~rt[r].held => ~rt'[r].held,
           \A r \in AtWork' :
              /\ r \in AtWork
              /\ attached = r => \/ attached' = r
                                 \/ Request[c] = "prefs" /\ w \in Replaces /\ own'[c].handle = r
              /\ Request[c] = "send" => at[c] # "store" \/ own[c].handle # r
              /\ Request[c] = "prefs" /\ at[c] \in Replaces /\ own[c].handle = r
                    => w \in Replaces /\ own'[c].handle = r,
           Request[c] = "send" /\ w \in {"store", "recover"} => attached' = None,
           Request[c] = "send" /\ w = "retire" => own'[c].handle \in Runtimes /\ ~rt'[own'[c].handle].held,
           Request[c] = "prefs" /\ w \in Replaces => attached' = None
    PROVE  HeldOK'
<1>t. Typed /\ at'[c] = w /\ \A o \in Requests : o # c => at'[o] = at[o]
  BY Moves DEF TurnInv
<1>1. ASSUME NEW r \in AtWork'
      PROVE  \/ attached' = r
             \/ \E o \in Asked("send") : at'[o] = "store" /\ own'[o].handle = r
             \/ \E o \in Asked("prefs") : at'[o] \in Replaces /\ own'[o].handle = r
  <2>1. CASE attached = r
    BY <1>t, <1>1, <2>1 DEF Asked
  <2>2. CASE \E o \in Asked("send") : at[o] = "store" /\ own[o].handle = r
    BY <1>t, <1>1, <2>2 DEF Asked
  <2>3. ASSUME NEW o \in Asked("prefs"), at[o] \in Replaces, own[o].handle = r
        PROVE  at'[o] \in Replaces /\ own'[o].handle = r
    BY <1>t, <1>1, <2>3 DEF Asked
  <2> QED
    BY <1>1, <2>1, <2>2, <2>3 DEF HeldOK
<1>2. ASSUME NEW o \in Asked("send")
      PROVE  /\ at'[o] \in {"store", "recover"} => attached' = None
             /\ at'[o] = "retire" => own'[o].handle \in Runtimes /\ ~rt'[own'[o].handle].held
  BY <1>t DEF HeldOK, Asked
<1>3. ASSUME NEW o \in Asked("prefs") PROVE at'[o] \in Replaces => attached' = None
  BY <1>t DEF HeldOK, Asked
<1> QED
  BY <1>1, <1>2, <1>3 DEF HeldOK, Asked

LEMMA HeldStep ==
    ASSUME TurnInv, RunsOK, HeldOK, Next, Agent # "exec", Faults \subseteq {"spawn", "bad"}, Asked("delete") = {}
    PROVE  HeldOK'
<1>t. Typed /\ GuardOK
  BY DEF TurnInv
<1>r. \A r \in Runtimes : rt[r] \in RtRec
  BY <1>t DEF Typed
<1>k. ASSUME NEW h \in Runtimes, rt' = Killed(h)
      PROVE  /\ \A s \in Runtimes : ~rt[s].held => ~rt'[s].held
             /\ AtWork' \subseteq AtWork /\ h \notin AtWork' /\ ~rt'[h].held
  BY <1>k, <1>t, <1>r DEF Killed, Typed, AtWork, Up, RtRec
<1>q. ASSUME UNCHANGED rt PROVE AtWork' = AtWork /\ \A s \in Runtimes : ~rt[s].held => ~rt'[s].held
  BY <1>q DEF AtWork, Up
<1>d. DropClosed => attached' \in {attached, None} /\ \A r \in AtWork : attached = r => attached' = r
  BY DEF DropClosed, Attached, Closed, AtWork, Up, RunsOK
<1>e. ASSUME NEW r \in Runtimes, Speak(r) \/ Exit(r) \/ ConsumerStep(r) PROVE HeldOK'
  <2>0. \A s \in Runtimes : rt'[s].held = rt[s].held /\ (rt'[s].at = "up" => rt[s].at = "up")
    <3>1. CASE UNCHANGED rt
      BY <3>1
    <3>2. CASE Speak(r)
      <4>1. \E e : rt' = [rt EXCEPT ![r].left = @ - 1, ![r].events = Append(@, e)]
        BY <3>2 DEF Speak
      <4> QED
        BY <4>1, <1>t, <1>r DEF Typed, RtRec
    <3>3. CASE Exit(r)
      <4>1. \E e, b : rt' = [rt EXCEPT ![r].at = "ended", ![r].open = b, ![r].events = Append(@, e)]
        BY <3>3 DEF Exit
      <4> QED
        BY <4>1, <1>t, <1>r DEF Typed, RtRec
    <3>4. CASE Receive(r)
      <4>1. rt' = [rt EXCEPT ![r].events = Tail(@)]
        BY <3>4 DEF Receive
      <4> QED
        BY <4>1, <1>t, <1>r DEF Typed, RtRec
    <3> QED
      BY <1>e, <3>1, <3>2, <3>3, <3>4 DEF ConsumerStep, Apply, Clear, QueueEvent, SaveEvent
  <2>1. UNCHANGED <<at, own>> /\ \A s \in Runtimes : rt'[s].held = rt[s].held
    <3>1. UNCHANGED <<at, own>>
      BY <1>e DEF ConsumerStep, Speak, Exit, Receive, Apply, Clear, QueueEvent, SaveEvent
    <3> QED
      BY <2>0, <3>1
  <2>2. AtWork' \subseteq AtWork
    BY <2>0 DEF AtWork, Up
  <2>3. attached' \in {attached, None} /\ \A s \in AtWork' : attached = s => attached' = s
    <3>1. CASE Clear(r)
      <4>1. r \notin AtWork
        BY <3>1 DEF Clear, RunsOK, AtWork, Up
      <4> QED
        BY <3>1, <4>1, <2>2 DEF Clear, ClearIf
    <3>2. CASE ~Clear(r)
      BY <1>e, <3>2 DEF ConsumerStep, Speak, Exit, Receive, Apply, QueueEvent, SaveEvent
    <3> QED
      BY <3>1, <3>2
  <2>4. \A s \in AtWork' :
          \/ attached' = s
          \/ \E c \in Asked("send") : at'[c] = "store" /\ own'[c].handle = s
          \/ \E c \in Asked("prefs") : at'[c] \in Replaces /\ own'[c].handle = s
    BY <2>1, <2>2, <2>3 DEF HeldOK
  <2>5. \A c \in Asked("send") :
          /\ at'[c] \in {"store", "recover"} => attached' = None
          /\ at'[c] = "retire" => own'[c].handle \in Runtimes /\ ~rt'[own'[c].handle].held
    BY <2>1, <2>3 DEF HeldOK
  <2>6. \A c \in Asked("prefs") : at'[c] \in Replaces => attached' = None
    BY <2>1, <2>3 DEF HeldOK
  <2> QED
    BY <2>4, <2>5, <2>6 DEF HeldOK, Asked
<1>s. ASSUME NEW c \in Requests, SendStep(c) PROVE HeldOK'
  <2>k. Request[c] = "send" /\ guard = c /\ c \in Asked("send") /\ at[c] \notin Resting
    BY <1>s, SendsSo DEF Asked
  <2>g. \A o \in Requests : o # c /\ Request[o] \in {"send", "prefs"} => at[o] \in Resting
    BY <1>t, <2>k DEF GuardOK, Guarded
  <2>h. \A o \in Requests : o # c => \A rec, h : /\ [own EXCEPT ![c].rec = rec][o].handle = own[o].handle
                                                /\ [own EXCEPT ![c].handle = h][o].handle = own[o].handle
    BY <1>t DEF Typed
  <2>1. CASE Check(c)
    <3>1. \E w \in {"refused", "mark"} : Go(c, w)
      BY <2>1 DEF Check, End
    <3>2. UNCHANGED <<rt, own>> /\ at[c] = "in" /\ (attached' = attached \/ DropClosed)
      BY <2>1 DEF Check, Is
    <3>3. attached' \in {attached, None} /\ \A r \in AtWork : attached = r => attached' = r
      BY <3>2, <1>d
    <3> QED
      BY <2>k, <3>1, <3>2, <3>3, <1>q, HeldKept
  <2>2. CASE Mark(c) \/ PersistTake(c) \/ Persist(c) \/ Note(c) \/ Consume(c) \/ RecordFailure(c) \/ Fail(c)
    <3>1. UNCHANGED <<attached, rt>> /\ at[c] # "store"
      <4>1. CASE Persist(c)
        BY <4>1 DEF Persist, WriteOf, Saves, After
      <4>2. CASE ~Persist(c)
        BY <2>2, <4>2 DEF Mark, PersistTake, Note, Consume, RecordFailure, Fail, Is, Saves, After
      <4> QED
        BY <4>1, <4>2
    <3>2. \E w : Go(c, w) /\ w \notin {"store", "recover", "retire"}
      <4>1. CASE Mark(c) \/ Note(c) \/ Consume(c) \/ RecordFailure(c) \/ Fail(c)
        <5>1. CASE Mark(c)
          <6>1. Go(c, "failed") \/ Go(c, "save")
            BY <5>1 DEF Mark, End
          <6> QED
            BY <6>1
        <5>2. CASE Note(c)
          <6>1. Go(c, "save2") \/ Go(c, "consume")
            BY <5>2 DEF Note
          <6> QED
            BY <6>1
        <5>3. CASE RecordFailure(c)
          <6>1. Go(c, "save3") \/ Go(c, "failed")
            BY <5>3 DEF RecordFailure, End
          <6> QED
            BY <6>1
        <5> QED
          BY <4>1, <5>1, <5>2, <5>3 DEF Consume, Fail, End
      <4>2. CASE PersistTake(c)
        BY <4>2 DEF PersistTake, WriteOf, Saves, After
      <4>3. CASE Persist(c)
        BY <4>3 DEF Persist, WriteMay, GoesOn, Saves, After
      <4> QED
        BY <2>2, <4>1, <4>2, <4>3
    <3>3. \A o \in Requests : o # c => own'[o].handle = own[o].handle
      <4>1. UNCHANGED own \/ \E rec : own' = [own EXCEPT ![c].rec = rec]
        BY <2>2 DEF Mark, PersistTake, Persist, Note, Consume, RecordFailure, Fail, Keep
      <4> QED
        BY <4>1, <1>t DEF Typed
    <3> QED
      BY <2>k, <3>1, <3>2, <3>3, <1>q, HeldKept
  <2>3. CASE Route(c)
    <3>1. CASE Go(c, "ensure") /\ UNCHANGED <<rt, own>>
      <4>1. UNCHANGED attached /\ at[c] # "store"
        BY <2>3 DEF Route, Is
      <4> QED
        BY <2>k, <3>1, <4>1, <1>q, HeldKept
    <3>2. CASE ~Headless /\ Attached /\ own[c].rec.launch = own[c].rec.model
      <4>1. rt' = [rt EXCEPT ![attached].heard = IF Up(attached) THEN @ \cup {c} ELSE @] /\ Go(c, "ok")
            /\ UNCHANGED <<own, attached>> /\ at[c] = "route"
        BY <2>3, <3>2 DEF Route, End, Is
      <4>2. \A s \in Runtimes : rt'[s].held = rt[s].held /\ rt'[s].at = rt[s].at
        BY <4>1, <3>2, <1>t DEF Typed, RtRec, Attached
      <4>3. AtWork' = AtWork
        BY <4>2 DEF AtWork, Up
      <4> QED
        BY <2>k, <4>1, <4>2, <4>3, HeldKept
    <3>3. CASE ~Headless /\ Attached /\ own[c].rec.launch # own[c].rec.model
      <4>1. attached \in Runtimes /\ rt' = Killed(attached) /\ own' = [own EXCEPT ![c].handle = attached]
            /\ Go(c, "retire") /\ UNCHANGED attached /\ at[c] = "route"
        BY <2>3, <3>3, <1>t DEF Route, Is, Interrupted, Attached, Typed
      <4>2. own'[c].handle = attached
        BY <4>1, <1>t DEF Typed, OwnRec
      <4>3. \A o \in Requests : o # c => own'[o].handle = own[o].handle
        BY <4>1, <2>h
      <4> QED
        BY <2>k, <4>1, <4>2, <4>3, <1>k, HeldKept
    <3> QED
      BY <2>3, <3>1, <3>2, <3>3 DEF Route
  <2>4. CASE Retire(c)
    <3>1. UNCHANGED <<rt, own>> /\ Go(c, "ensure") /\ at[c] = "retire" /\ attached' = ClearIf(own[c].handle)
      BY <2>4 DEF Retire, Is
    <3>2. own[c].handle \notin AtWork
      BY <3>1, <2>k DEF HeldOK, AtWork
    <3> QED
      BY <2>k, <3>1, <3>2, <1>q, HeldKept DEF ClearIf
  <2>5. CASE Spawn(c)
    <3>d. DropClosed /\ at[c] = "ensure"
      BY <2>5 DEF Spawn, Is
    <3>1. CASE Attached
      <4>1. Go(c, "ok") /\ UNCHANGED <<rt, own>>
        BY <2>5, <3>1 DEF Spawn, End
      <4> QED
        BY <2>k, <3>d, <4>1, <1>d, <1>q, HeldKept
    <3>2. CASE ~Attached
      <4>1. attached' = None
        BY <3>d, <3>2 DEF DropClosed
      <4>2. CASE Go(c, "recover") /\ UNCHANGED <<rt, own>>
        BY <2>k, <3>d, <4>1, <4>2, <1>d, <1>q, HeldKept
      <4>3. CASE ~(Go(c, "recover") /\ UNCHANGED <<rt, own>>)
        <5>1. PICK i \in DOMAIN Names :
                 /\ rt[Names[i]].at = "none"
                 /\ rt' = [rt EXCEPT ![Names[i]].at = "up", ![Names[i]].open = Agent # "exec",
                                     ![Names[i]].held = TRUE, ![Names[i]].heard = {c}]
                 /\ own' = [own EXCEPT ![c].handle = Names[i]] /\ Go(c, "store")
          BY <2>5, <3>2, <4>3 DEF Spawn
        <5>2. Names[i] \in Runtimes
          BY Names1
        <5>3. \A s \in Runtimes : s # Names[i] => rt'[s] = rt[s]
          BY <5>1, <5>2, <1>t DEF Typed
        <5>4. \A s \in AtWork : attached = s => attached' = s
          BY <3>d, <1>d
        <5>5. AtWork = {}
          <6>1. ASSUME NEW s \in AtWork PROVE FALSE
            <7>1. s # attached
              BY <4>1, <5>4, Names1 DEF AtWork
            <7>2. ~\E o \in Asked("send") : at[o] = "store"
              BY <2>g, <3>d DEF Asked, Resting
            <7>3. ~\E o \in Asked("prefs") : at[o] \in Replaces
              BY <2>g, <2>k DEF Asked, Resting, Replaces
            <7> QED
              BY <6>1, <7>1, <7>2, <7>3 DEF HeldOK
          <6> QED
            BY <6>1
        <5>6. AtWork' \subseteq {Names[i]}
          BY <5>3, <5>5 DEF AtWork, Up
        <5>7. at'[c] = "store" /\ own'[c].handle = Names[i]
          BY <5>1, <5>2, <1>t, Moves DEF Typed, OwnRec
        <5>8. \A o \in Asked("send") : o # c => at'[o] \in Resting
          BY <5>1, <2>g, Moves DEF Asked
        <5>9. \A o \in Asked("prefs") : at'[o] \in Resting
          BY <5>1, <2>g, <2>k, Moves DEF Asked
        <5>10. /\ \A s \in AtWork' : \E o \in Asked("send") : at'[o] = "store" /\ own'[o].handle = s
               /\ \A o \in Asked("send") : at'[o] # "retire"
               /\ \A o \in Asked("prefs") : at'[o] \notin Replaces
          BY <2>k, <5>6, <5>7, <5>8, <5>9 DEF Resting, Replaces
        <5> QED
          BY <4>1, <5>10 DEF HeldOK, Asked
      <4> QED
        BY <4>2, <4>3
    <3> QED
      BY <3>1, <3>2
  <2>6. CASE Store(c)
    <3>1. attached' = own[c].handle /\ Go(c, "note") /\ UNCHANGED <<rt, own>> /\ at[c] = "store"
      BY <2>6 DEF Store, Is
    <3>2. attached = None
      BY <2>k, <3>1 DEF HeldOK
    <3>3. at'[c] = "note" /\ \A o \in Requests : o # c => at'[o] = at[o]
      BY <3>1, Moves
    <3>4. \A o \in Asked("send") : at'[o] \notin {"store", "recover", "retire"}
      BY <3>3, <2>g DEF Asked, Resting
    <3>5. \A o \in Asked("prefs") : at[o] \notin Replaces /\ at'[o] \notin Replaces
      BY <3>3, <2>g, <2>k DEF Asked, Resting, Replaces
    <3>6. \A s \in AtWork' : attached' = s
      <4>1. ASSUME NEW s \in AtWork PROVE own[c].handle = s
        <5>1. s # attached
          BY <3>2, Names1 DEF AtWork
        <5>2. \A o \in Asked("send") : at[o] = "store" => o = c
          BY <2>g DEF Asked, Resting
        <5> QED
          BY <3>5, <5>1, <5>2 DEF HeldOK
      <4> QED
        BY <3>1, <4>1, <1>q
    <3> QED
      BY <3>4, <3>5, <3>6 DEF HeldOK, Asked
  <2>7. CASE Recover(c)
    <3>1. attached' = None /\ Go(c, "errored") /\ UNCHANGED <<rt, own>> /\ at[c] = "recover"
      BY <2>7 DEF Recover, Is
    <3>2. attached = None
      BY <2>k, <3>1 DEF HeldOK
    <3> QED
      BY <2>k, <3>1, <3>2, <1>q, HeldKept
  <2> QED
    BY <1>s, <2>1, <2>2, <2>3, <2>4, <2>5, <2>6, <2>7 DEF SendStep
<1>p. ASSUME NEW c \in Requests, ReplaceStep(c) PROVE HeldOK'
  <2>h. \A o \in Requests : o # c => \A rec, h : /\ [own EXCEPT ![c].rec = rec][o].handle = own[o].handle
                                                /\ [own EXCEPT ![c] = [handle |-> h, rec |-> rec]][o].handle = own[o].handle
    BY <1>t DEF Typed
  <2>k. at[c] \in Replaces => Request[c] # "send"
    BY KindsOf
  <2>1. CASE ReadPrefs(c)
    <3>1. Request[c] = "prefs" /\ at[c] = "in" /\ UNCHANGED <<attached, rt>>
      BY <2>1 DEF ReadPrefs, Is
    <3>2. \A o \in Requests : o # c => own'[o].handle = own[o].handle
      <4>1. UNCHANGED own \/ \E rec : own' = [own EXCEPT ![c].rec = rec]
        BY <2>1 DEF ReadPrefs, Keep
      <4> QED
        BY <4>1, <1>t DEF Typed
    <3>3. \E w \in {"retire", "failed"} : Go(c, w)
      BY <2>1 DEF ReadPrefs, End
    <3> QED
      BY <3>1, <3>2, <3>3, <1>q, HeldKept DEF Replaces
  <2>2. CASE TakeRuntime(c)
    <3>1. Request[c] = "prefs" /\ at[c] = "retire" /\ UNCHANGED rt /\ attached' = None /\ Go(c, "replace")
      BY <2>2 DEF TakeRuntime, Is
    <3>2. PICK rec : own' = [own EXCEPT ![c] = [handle |-> attached, rec |-> rec]]
      BY <2>2 DEF TakeRuntime
    <3>3. own'[c].handle = attached /\ \A o \in Requests : o # c => own'[o].handle = own[o].handle
      BY <3>2, <2>h, <1>t DEF Typed
    <3> QED
      BY <3>1, <3>3, <1>q, HeldKept DEF Replaces
  <2>3. CASE ReadBind(c)
    <3>1. Request[c] = "bind" /\ UNCHANGED <<attached, rt>>
      BY <2>3 DEF ReadBind, Is
    <3>2. (\A o \in Requests : o # c => own'[o].handle = own[o].handle) /\ \E w : Go(c, w)
      <4>1. (UNCHANGED own \/ \E rec : own' = [own EXCEPT ![c].rec = rec]) /\ \E w : Go(c, w)
        BY <2>3 DEF ReadBind, Keep
      <4> QED
        BY <4>1, <1>t DEF Typed
    <3> QED
      BY <3>1, <3>2, <1>q, HeldKept
  <2>4. CASE ReplaceTake(c) \/ ReplaceDisk(c) \/ ReplaceMem(c)
    <3>1. UNCHANGED <<attached, rt, own>> /\ at[c] \in Replaces /\ \E w \in Replaces : Go(c, w)
      BY <2>4 DEF ReplaceTake, ReplaceDisk, ReplaceMem, Replaces
    <3>2. Request[c] = "prefs" => attached = None
      BY <3>1 DEF HeldOK, Asked
    <3> QED
      BY <3>1, <3>2, <2>k, <1>q, HeldKept
  <2>5. CASE EndReplace(c)
    <3>1. at[c] \in Replaces /\ UNCHANGED <<attached, own>> /\ rt' = Interrupted(own[c].handle)
          /\ \E w \in {"ok", "failed"} : Go(c, w)
      BY <2>5 DEF EndReplace, End, Replaces
    <3>2. AtWork' \subseteq AtWork /\ own[c].handle \notin AtWork' /\ \A s \in Runtimes : ~rt[s].held => ~rt'[s].held
      <4>1. CASE own[c].handle \in Runtimes
        BY <3>1, <4>1, <1>k DEF Interrupted
      <4>2. CASE own[c].handle \notin Runtimes
        BY <3>1, <4>2, <1>q DEF Interrupted, AtWork
      <4> QED
        BY <4>1, <4>2
    <3> QED
      BY <3>1, <3>2, <2>k, HeldKept DEF Replaces
  <2> QED
    BY <1>p, <2>1, <2>2, <2>3, <2>4, <2>5 DEF ReplaceStep
<1>i. ASSUME NEW c \in Requests, Interrupt(c) PROVE HeldOK'
  <2>1. Request[c] = "interrupt" /\ UNCHANGED <<attached, own>> /\ \E w : Go(c, w)
    BY <1>i DEF Interrupt, Is
  <2>2. AtWork' \subseteq AtWork /\ \A s \in Runtimes : ~rt[s].held => ~rt'[s].held
    <3>1. UNCHANGED rt \/ (attached # None /\ rt' = Killed(attached))
      BY <1>i DEF Interrupt
    <3> QED
      BY <3>1, <1>k, <1>q, <1>t DEF Typed
  <2> QED
    BY <2>1, <2>2, HeldKept
<1>n. ASSUME NEW c \in Requests, Enter(c) PROVE HeldOK'
  <2>1. UNCHANGED <<attached, own, rt>> /\ at[c] = "new" /\ Go(c, "in")
    BY <1>n DEF Enter
  <2> QED
    BY <2>1, <1>q, HeldKept DEF Replaces
<1>x. ASSUME NEW c \in Requests, DeleteStep(c) PROVE HeldOK'
  BY <1>x DEF DeleteStep, ReadDelete, Detach, TerminateOld, RemoveTake, RemoveFile, RemoveMem, RemovePending, Is, Asked
<1>f. ASSUME Drain \/ FlushTake \/ Flush PROVE HeldOK'
  <2>1. UNCHANGED <<at, own, rt, attached>>
    BY <1>f DEF Drain, FlushTake, Flush
  <2> QED
    BY <2>1, <1>q DEF HeldOK, Asked
<1> QED
  BY <1>e, <1>s, <1>p, <1>i, <1>n, <1>x, <1>f DEF Next, Crash


LEMMA InitRuns == Init => RunsOK /\ HeldOK
<1> SUFFICES ASSUME Init PROVE RunsOK /\ HeldOK
  OBVIOUS
<1>1. \A r \in Runtimes : rt[r].at = "none" /\ rt[r].events = <<>> /\ con[r].at = "none"
  BY DEF Init
<1>2. RunsOK
  <2>1. <<>> \in Seq(Running)
    OBVIOUS
  <2>2. \A r \in Runtimes : rt[r].events \in Seq(Running)
    BY <1>1, <2>1
  <2> QED
    BY <1>1, <2>2 DEF RunsOK, Up
<1>3. HeldOK
  <2>1. AtWork = {}
    BY <1>1 DEF AtWork, Up
  <2>2. \A c \in Requests : at[c] = "new"
    BY DEF Init
  <2> QED
    BY <2>1, <2>2 DEF HeldOK, Asked, Replaces
<1> QED
  BY <1>2, <1>3

\* Nobody else has an agent when one is at work: the one of the thread, or the one
\* of the request that holds the transition guard.
LEMMA HeldOnce ==
    ASSUME TurnInv, HeldOK
    PROVE  OneTurn
<1>1. ASSUME NEW r \in AtWork, NEW s \in AtWork PROVE r = s
  <2>1. \A o, p \in Requests :
           /\ Request[o] \in Guarded /\ at[o] \notin Resting
           /\ Request[p] \in Guarded /\ at[p] \notin Resting
           => o = p
    BY DEF TurnInv, GuardOK
  <2>2. \A o \in Asked("send") : at[o] = "store" => o \in Requests /\ Request[o] \in Guarded /\ at[o] \notin Resting
    BY DEF Asked, Guarded, Resting
  <2>3. \A o \in Asked("prefs") : at[o] \in Replaces => o \in Requests /\ Request[o] \in Guarded /\ at[o] \notin Resting
    BY DEF Asked, Guarded, Resting, Replaces
  <2>4. r # None /\ s # None
    BY Names1 DEF AtWork
  <2>5. CASE attached # None
    BY <2>5 DEF HeldOK
  <2>6. CASE attached = None
    <3>1. PICK o \in Requests : Request[o] \in Guarded /\ at[o] \notin Resting /\ own[o].handle = r
      BY <2>2, <2>3, <2>4, <2>6 DEF HeldOK
    <3>2. PICK p \in Requests : Request[p] \in Guarded /\ at[p] \notin Resting /\ own[p].handle = s
      BY <2>2, <2>3, <2>4, <2>6 DEF HeldOK
    <3> QED
      BY <2>1, <3>1, <3>2
  <2> QED
    BY <2>5, <2>6
<1>2. CASE AtWork = {}
  BY <1>2, FS_EmptySet DEF OneTurn
<1>3. CASE AtWork # {}
  <2>1. PICK r \in AtWork : TRUE
    BY <1>3
  <2>2. AtWork = {r}
    BY <1>1
  <2>3. Cardinality({r}) = 1
    BY FS_Singleton
  <2> QED
    BY <2>2, <2>3 DEF OneTurn
<1> QED
  BY <1>2, <1>3

\* "Dispatcher is already working on the current turn": whatever is sent, changed,
\* bound or interrupted, one agent of the thread is at work
\* (send_to_dispatcher_thread, ensure_dispatcher_runtime, store_dispatcher_runtime).
THEOREM OneTurnAtWork ==
    ASSUME Agent # "exec", Faults \subseteq {"spawn", "bad"}, Asked("delete") = {}
    PROVE  Spec => []OneTurn
<1> DEFINE WI == TurnInv /\ RunsOK /\ HeldOK
<1>1. Init => WI
  BY InitTurn, InitRuns
<1>2. WI /\ [Next]_vars => WI'
  <2> SUFFICES ASSUME WI, [Next]_vars PROVE WI'
    OBVIOUS
  <2>1. TurnInv'
    BY TurnStep
  <2>2. CASE Next
    BY <2>1, <2>2, RunsStep, HeldStep
  <2>3. CASE UNCHANGED vars
    <3>1. UNCHANGED <<rt, con, at, own, attached>>
      BY <2>3 DEF vars
    <3>2. RunsOK'
      BY <3>1 DEF RunsOK, Up
    <3>3. HeldOK'
      BY <3>1 DEF HeldOK, AtWork, Up, Asked
    <3> QED
      BY <2>1, <3>2, <3>3
  <2> QED
    BY <2>2, <2>3
<1>3. WI => OneTurn
  BY HeldOnce
<1> HIDE DEF WI
<1> QED
  BY <1>1, <1>2, <1>3, PTL DEF Spec

-----------------------------------------------------------------------------
\* A thread has its types, one agent at work, is saved, its acknowledged turns were heard, its
\* deletion and its acknowledged changes are kept, each under the requests and the
\* faults it needs.
THEOREM ThreadIsKept == Spec => []ThreadIsWhole
<1> DEFINE One == Agent # "exec" /\ Faults \subseteq {"spawn", "bad"} /\ Asked("delete") = {} => OneTurn
           Sav == "disk" \notin Faults => Saved
           Hea == Headless /\ (Asked("bind") = {} \/ Asked("delete") = {}) => Heard
           Del == Asked("prefs") = {} /\ Asked("bind") = {} => DeletedStays
           Ack == /\ Asked("delete") = {} /\ Asked("bind") = {}
                  /\ \A p, q \in Asked("prefs") : p = q
                  => AckedOnDisk
<1>1. Spec => []One
  <2>1. CASE Agent # "exec" /\ Faults \subseteq {"spawn", "bad"} /\ Asked("delete") = {}
    <3>1. Spec => []OneTurn
      BY <2>1, OneTurnAtWork
    <3>2. OneTurn => One
      OBVIOUS
    <3> QED
      BY <3>1, <3>2, PTL
  <2>2. CASE ~(Agent # "exec" /\ Faults \subseteq {"spawn", "bad"} /\ Asked("delete") = {})
    <3>1. One
      BY <2>2
    <3> QED
      BY <3>1, PTL
  <2> QED
    BY <2>1, <2>2
<1>2. Spec => []Sav
  <2>1. CASE "disk" \notin Faults
    <3>1. Spec => []Saved
      BY <2>1, ChangesAreWritten
    <3>2. Saved => Sav
      OBVIOUS
    <3> QED
      BY <3>1, <3>2, PTL
  <2>2. CASE "disk" \in Faults
    <3>1. Sav
      BY <2>2
    <3> QED
      BY <3>1, PTL
  <2> QED
    BY <2>1, <2>2
<1>3. Spec => []Hea
  <2>1. CASE Headless /\ (Asked("bind") = {} \/ Asked("delete") = {})
    <3>1. Spec => []Heard
      BY <2>1, TurnsAreHeard
    <3>2. Heard => Hea
      OBVIOUS
    <3> QED
      BY <3>1, <3>2, PTL
  <2>2. CASE ~(Headless /\ (Asked("bind") = {} \/ Asked("delete") = {}))
    <3>1. Hea
      BY <2>2
    <3> QED
      BY <3>1, PTL
  <2> QED
    BY <2>1, <2>2
<1>4. Spec => []Del
  <2>1. CASE Asked("prefs") = {} /\ Asked("bind") = {}
    <3>1. Spec => []DeletedStays
      BY <2>1, DeletionIsKept
    <3>2. DeletedStays => Del
      OBVIOUS
    <3> QED
      BY <3>1, <3>2, PTL
  <2>2. CASE ~(Asked("prefs") = {} /\ Asked("bind") = {})
    <3>1. Del
      BY <2>2
    <3> QED
      BY <3>1, PTL
  <2> QED
    BY <2>1, <2>2
<1>5. Spec => []Ack
  <2> DEFINE H == Asked("delete") = {} /\ Asked("bind") = {} /\ \A p, q \in Asked("prefs") : p = q
  <2>1. CASE H
    <3>1. Spec => []AckedOnDisk
      BY <2>1, AcknowledgedIsKept
    <3>2. AckedOnDisk => Ack
      OBVIOUS
    <3> QED
      BY <3>1, <3>2, PTL
  <2>2. CASE ~H
    <3>1. Ack
      BY <2>2
    <3> QED
      BY <3>1, PTL
  <2> QED
    BY <2>1, <2>2
<1>6. TypeOK /\ One /\ Sav /\ Hea /\ Del /\ Ack => ThreadIsWhole
  BY DEF ThreadIsWhole
<1> HIDE DEF One, Sav, Hea, Del, Ack
<1> QED
  BY <1>1, <1>2, <1>3, <1>4, <1>5, <1>6, TurnsAreTyped, PTL
=============================================================================
