------------------------- MODULE RelayTerminalsProofs -------------------------
(***************************************************************************)
(* Terminals of the relay, for any number of requests, terminals,          *)
(* connections and frames, and any capacities.                             *)
(***************************************************************************)
EXTENDS RelayTerminals, SequenceTheorems, TLAPS

-----------------------------------------------------------------------------
(* Types, with what the tasks rely on when they run.                        *)

\* A task past its first read holds a frame; one that sends knows to whom; one
\* that replays has something to replay and is a bridge's.
TaskOK(r) ==
    /\ r.pc \in {"lookup", "buffer", "send"} => r.sent # 0
    /\ r.pc = "send" => r.peer # None
    /\ r.pc = "replay" => r.todo # <<>> /\ r.kind = "bridge"
    /\ r.pc # "unused" => r.term # 0
    /\ r.pc = "unused" => r = NoConn

TasksOK == \A c \in Conns : TaskOK(conns[c])

RequestsOK == \A i \in Creators : creators[i].pc # "idle" => creators[i].term # 0

\* What a session calls its browser and its bridge are connections of that
\* kind, of that terminal.
SessionsOK ==
    \A t \in Terminals : LET s == sessions[t] IN
        /\ Live(t) => s.gen # 0
        /\ s.browser # None => /\ conns[s.browser].kind = "browser"
                               /\ conns[s.browser].term = t
                               /\ conns[s.browser].pc # "unused"
        /\ s.bridge # None => /\ conns[s.bridge].kind = "bridge"
                              /\ conns[s.bridge].term = t
                              /\ conns[s.bridge].pc # "unused"

TypesInv == TypeOK /\ TasksOK /\ RequestsOK /\ SessionsOK

LEMMA NoSessionIs ==
    /\ NoSession \in Session
    /\ NoSession.gen = 0 /\ NoSession.browser = None /\ NoSession.bridge = None
    /\ NoSession.gone = None /\ NoSession.paused = FALSE
    /\ NoSession.buffer = <<>> /\ NoSession.pending = <<>>
<1> DEFINE k0 == CHOOSE k \in Keys : TRUE
<1>1. k0 \in Keys  BY KeysAssumption
<1> HIDE DEF k0
<1>2. NoSession = [NewSession(k0) EXCEPT !.gen = 0]  BY DEF NoSession, k0
<1>3. NoSession = [key |-> k0, gen |-> 0, deadline |-> "running", browser |-> None,
                   bridge |-> None, gone |-> None, paused |-> FALSE,
                   buffer |-> <<>>, pending |-> <<>>]
  BY <1>2 DEF NewSession
<1> QED  BY <1>1, <1>3 DEF Session, None

LEMMA NewSessionIs ==
    ASSUME NEW k \in Keys
    PROVE  /\ NewSession(k) \in Session
           /\ NewSession(k).gen = 1
           /\ NewSession(k).browser = None /\ NewSession(k).bridge = None
           /\ NewSession(k).deadline = "running" /\ NewSession(k).paused = FALSE
           /\ NewSession(k).buffer = <<>>
BY DEF NewSession, Session, None

LEMMA NoConnIs ==
    /\ NoConn \in Conn
    /\ NoConn.pc = "unused" /\ NoConn.kind = "browser" /\ NoConn.sent = 0
    /\ NoConn.peer = None /\ NoConn.term = 0
BY BoundsAssumption DEF NoConn, Conn, None

LEMMA InitTypes == Init => TypesInv
<1> SUFFICES ASSUME Init PROVE TypesInv
  OBVIOUS
<1> USE DEF Init
<1>1. TypeOK
  <2>1. sessions \in [Terminals -> Session]  BY NoSessionIs
  <2>2. conns \in [Conns -> Conn]  BY NoConnIs
  <2>3. creators \in [Creators -> Request]
    BY BoundsAssumption DEF Request
  <2> QED  BY <2>1, <2>2, <2>3 DEF TypeOK
<1>2. TasksOK  BY NoConnIs DEF TasksOK, TaskOK
<1>3. RequestsOK  BY DEF RequestsOK
<1>4. SessionsOK  BY NoSessionIs DEF SessionsOK, Live
<1> QED  BY <1>1, <1>2, <1>3, <1>4 DEF TypesInv

-----------------------------------------------------------------------------
(* Every step keeps the types.                                              *)

\* A connection keeps its kind and its terminal, and is never unused again.
Steady ==
    \A c \in Conns : conns[c].pc # "unused" =>
        /\ conns'[c].kind = conns[c].kind /\ conns'[c].term = conns[c].term
        /\ conns'[c].pc # "unused"

LEMMA OneSession ==
    ASSUME TypeOK, NEW t \in Terminals, NEW s \in Session, sessions' = [sessions EXCEPT ![t] = s]
    PROVE  /\ sessions' \in [Terminals -> Session]
           /\ sessions'[t] = s
           /\ \A u \in Terminals \ {t} : sessions'[u] = sessions[u]
BY DEF TypeOK

\* The fields of a session.
LEMMA SessionFields ==
    ASSUME TypeOK, NEW t \in Terminals
    PROVE  /\ sessions[t] \in Session
           /\ sessions[t].key \in Keys /\ sessions[t].gen \in Nat
           /\ sessions[t].deadline \in {"unset", "running", "passed"}
           /\ sessions[t].browser \in Conns \cup {None} /\ sessions[t].bridge \in Conns \cup {None}
           /\ sessions[t].gone \in Conns \cup {None} /\ sessions[t].paused \in BOOLEAN
           /\ sessions[t].buffer \in Seq(Frames) /\ sessions[t].pending \in Seq(Frames)
<1>1. sessions[t] \in Session  BY DEF TypeOK
<1> QED  BY <1>1 DEF Session

LEMMA RetriedIs ==
    ASSUME TypeOK, NEW t \in Terminals
    PROVE  LET s == Retried(sessions[t]) IN
           /\ s \in Session
           /\ s.gen \in Nat /\ s.gen # 0 /\ s.deadline = "running"
           /\ s.browser = sessions[t].browser /\ s.bridge = sessions[t].bridge
           /\ s.paused = sessions[t].paused /\ s.buffer = sessions[t].buffer
<1> DEFINE old == sessions[t]
<1>1. old \in Session /\ old.gen \in Nat  BY SessionFields
<1> HIDE DEF old
<1>2. old.gen + 1 \in Nat /\ old.gen + 1 # 0  BY <1>1
<1>3. Retried(old) \in Session /\ Retried(old).gen = old.gen + 1
  BY <1>1, <1>2 DEF Session, Retried, None
<1>4. /\ Retried(old).deadline = "running" /\ Retried(old).browser = old.browser
      /\ Retried(old).bridge = old.bridge
      /\ Retried(old).paused = old.paused /\ Retried(old).buffer = old.buffer
  BY <1>1 DEF Session, Retried
<1> QED  BY <1>2, <1>3, <1>4 DEF old

LEMMA ConnFields ==
    ASSUME TypeOK, NEW c \in Conns
    PROVE  /\ conns[c] \in Conn
           /\ conns[c].kind \in {"browser", "bridge"} /\ conns[c].term \in 0..MaxTerminals
           /\ conns[c].pc \in {"unused", "accepted", "replay", "read", "lookup", "buffer", "send",
                               "ended", "closed"}
           /\ conns[c].sent \in 0..MaxFrames /\ conns[c].peer \in Conns \cup {None}
           /\ conns[c].todo \in Seq(Frames)
<1>1. conns[c] \in Conn  BY DEF TypeOK
<1> QED  BY <1>1 DEF Conn

\* A session that keeps its ends, loses one, or gets one.
LEMMA SessionChanges ==
    ASSUME TypesInv, Steady, NEW t \in Terminals, NEW s \in Session,
           sessions' = [sessions EXCEPT ![t] = s],
           s.gen # 0 \/ s = NoSession,
           \/ s.browser \in {None, sessions[t].browser}
           \/ /\ conns'[s.browser].kind = "browser" /\ conns'[s.browser].term = t
              /\ conns'[s.browser].pc # "unused",
           \/ s.bridge \in {None, sessions[t].bridge}
           \/ /\ conns'[s.bridge].kind = "bridge" /\ conns'[s.bridge].term = t
              /\ conns'[s.bridge].pc # "unused"
    PROVE  SessionsOK'
<1> USE DEF TypesInv
<1>0. /\ sessions'[t] = s
      /\ \A u \in Terminals \ {t} : sessions'[u] = sessions[u]
  BY OneSession
<1>1. ASSUME NEW u \in Terminals
      PROVE  sessions'[u] # NoSession => sessions'[u].gen # 0
  BY <1>0, <1>1 DEF SessionsOK, Live
<1>2. ASSUME NEW u \in Terminals, sessions'[u].browser # None
      PROVE  /\ conns'[sessions'[u].browser].kind = "browser"
             /\ conns'[sessions'[u].browser].term = u
             /\ conns'[sessions'[u].browser].pc # "unused"
  <2>1. CASE sessions'[u].browser = sessions[u].browser
    BY <1>2, <2>1, SessionFields DEF SessionsOK, Steady, None
  <2>2. CASE sessions'[u].browser # sessions[u].browser
    BY <1>0, <1>2, <2>2
  <2> QED  BY <2>1, <2>2
<1>3. ASSUME NEW u \in Terminals, sessions'[u].bridge # None
      PROVE  /\ conns'[sessions'[u].bridge].kind = "bridge"
             /\ conns'[sessions'[u].bridge].term = u
             /\ conns'[sessions'[u].bridge].pc # "unused"
  <2>1. CASE sessions'[u].bridge = sessions[u].bridge
    BY <1>3, <2>1, SessionFields DEF SessionsOK, Steady, None
  <2>2. CASE sessions'[u].bridge # sessions[u].bridge
    BY <1>0, <1>3, <2>2
  <2> QED  BY <2>1, <2>2
<1> QED  BY <1>1, <1>2, <1>3 DEF SessionsOK, Live

LEMMA SessionsStay ==
    ASSUME TypesInv, Steady, UNCHANGED sessions
    PROVE  SessionsOK'
BY SessionFields DEF TypesInv, SessionsOK, Steady, Live, None

LEMMA ConnsStay ==
    ASSUME TypesInv, UNCHANGED conns
    PROVE  Steady /\ TasksOK'
BY DEF TypesInv, Steady, TasksOK

\* A request that goes on with an attempt.
LEMMA RequestStarts ==
    ASSUME TypesInv, NEW i \in Creators, NEW t \in Terminals, NEW g \in Nat, CreateIdle(i),
           creators' = [creators EXCEPT ![i] =
                           [pc |-> "start", term |-> t, gen |-> g, left |-> @.left - 1]]
    PROVE  /\ creators' \in [Creators -> Request]
           /\ RequestsOK'
<1>1. creators[i].left - 1 \in 0..MaxCreates
  BY BoundsAssumption DEF TypesInv, CreateIdle, TypeOK, Request
<1>2. t \in 0..MaxTerminals /\ t # 0  BY BoundsAssumption DEF Terminals
<1> DEFINE r == [pc |-> "start", term |-> t, gen |-> g, left |-> creators[i].left - 1]
<1>3. r \in Request
  BY <1>1, <1>2 DEF Request
<1>4. creators' = [creators EXCEPT ![i] = r] /\ r.term # 0  BY <1>2
<1> HIDE DEF r
<1> QED  BY <1>3, <1>4 DEF TypesInv, TypeOK, RequestsOK

LEMMA RequestGoes ==
    ASSUME TypesInv, NEW i \in Creators, NEW pc \in {"idle", "start", "undo"},
           creators' = [creators EXCEPT ![i].pc = pc], pc = "idle" \/ creators[i].pc # "idle"
    PROVE  /\ creators' \in [Creators -> Request]
           /\ RequestsOK'
BY DEF TypesInv, TypeOK, RequestsOK, Request

LEMMA CreateTypes ==
    ASSUME TypesInv, CreateStep
    PROVE  TypesInv'
<1> USE DEF TypesInv
<1> SUFFICES ASSUME NEW i \in Creators,
                    (\E k \in Keys : Reuse(i, k) \/ Retry(i, k) \/ Create(i, k))
                       \/ StartProxy(i) \/ StartRefused(i) \/ UndoCreate(i)
             PROVE  TypesInv'
  BY DEF CreateStep
<1>0. /\ UNCHANGED <<conns, got, told, deleted>>
      /\ Steady /\ TasksOK'
  BY ConnsStay DEF Reuse, Retry, Create, StartProxy, StartRefused, UndoCreate
<1>1. ASSUME NEW k \in Keys, Reuse(i, k)  PROVE TypesInv'
  <2>1. PICK t \in Terminals : /\ Live(t)
                               /\ sessions' = [sessions EXCEPT ![t].gone = None]
                               /\ issued' = issued \cup {t}
    BY <1>1 DEF Reuse, Reusable
  <2> DEFINE s == [sessions[t] EXCEPT !.gone = None]
  <2>2. /\ s \in Session /\ s.gen = sessions[t].gen
        /\ s.browser = sessions[t].browser /\ s.bridge = sessions[t].bridge
    BY SessionFields DEF Session
  <2>3. sessions' = [sessions EXCEPT ![t] = s]  BY <2>1
  <2>0. s.gen # 0  BY <2>1, <2>2 DEF SessionsOK
  <2> HIDE DEF s
  <2>4. sessions' \in [Terminals -> Session]  BY <2>2, <2>3, OneSession
  <2>5. SessionsOK'  BY <1>0, <2>0, <2>2, <2>3, SessionChanges
  <2>6. creators[i].left - 1 \in 0..MaxCreates
    BY <1>1, BoundsAssumption DEF Reuse, CreateIdle, TypeOK, Request
  <2>7. creators' = [creators EXCEPT ![i].left = @ - 1] /\ UNCHANGED <<timers, starts>>
    BY <1>1 DEF Reuse
  <2>8. /\ creators' \in [Creators -> Request]
        /\ RequestsOK'
    BY <2>6, <2>7 DEF TypeOK, RequestsOK, Request
  <2>9. TypeOK'  BY <1>0, <2>1, <2>4, <2>7, <2>8 DEF TypeOK
  <2> QED  BY <1>0, <2>5, <2>8, <2>9
<1>2. ASSUME NEW k \in Keys, Retry(i, k)  PROVE TypesInv'
  <2>1. PICK t \in Terminals :
            /\ Live(t) /\ sessions' = [sessions EXCEPT ![t] = Retried(@)]
            /\ creators' = [creators EXCEPT ![i] =
                  [pc |-> "start", term |-> t, gen |-> sessions'[t].gen, left |-> @.left - 1]]
    BY <1>2 DEF Retry, Reusable
  <2> DEFINE s == Retried(sessions[t])
  <2>2. /\ s \in Session /\ s.gen \in Nat /\ s.gen # 0
        /\ s.browser = sessions[t].browser /\ s.bridge = sessions[t].bridge
    BY RetriedIs
  <2>3. sessions' = [sessions EXCEPT ![t] = s]  BY <2>1
  <2> HIDE DEF s
  <2>4. sessions' \in [Terminals -> Session] /\ sessions'[t] = s  BY <2>2, <2>3, OneSession
  <2>5. SessionsOK'  BY <1>0, <2>2, <2>3, SessionChanges
  <2>6. UNCHANGED <<timers, starts, issued>> /\ CreateIdle(i)  BY <1>2 DEF Retry
  <2>7. /\ creators' \in [Creators -> Request]
        /\ RequestsOK'
    <3>1. creators' = [creators EXCEPT ![i] =
                          [pc |-> "start", term |-> t, gen |-> s.gen, left |-> @.left - 1]]
      BY <2>1, <2>4
    <3> QED  BY <2>2, <2>6, <3>1, RequestStarts
  <2>8. TypeOK'  BY <1>0, <2>4, <2>6, <2>7 DEF TypeOK
  <2> QED  BY <1>0, <2>5, <2>7, <2>8
<1>3. ASSUME NEW k \in Keys, Create(i, k)  PROVE TypesInv'
  <2>1. PICK t \in Terminals :
            /\ sessions' = [sessions EXCEPT ![t] = NewSession(k)]
            /\ creators' = [creators EXCEPT ![i] =
                  [pc |-> "start", term |-> t, gen |-> 1, left |-> @.left - 1]]
    BY <1>3 DEF Create
  <2>2. sessions' \in [Terminals -> Session]  BY <2>1, NewSessionIs, OneSession
  <2>3. SessionsOK'
    <3> DEFINE s == NewSession(k)
    <3>0. s \in Session /\ s.gen = 1 /\ s.browser = None /\ s.bridge = None
      BY ONLY k \in Keys, NewSessionIs
    <3>1. s.gen # 0  BY <3>0
    <3>2. sessions' = [sessions EXCEPT ![t] = s]  BY <2>1
    <3> HIDE DEF s
    <3> QED  BY <1>0, <3>0, <3>1, <3>2, SessionChanges
  <2>4. UNCHANGED <<timers, starts, issued>> /\ CreateIdle(i)  BY <1>3 DEF Create
  <2>5. /\ creators' \in [Creators -> Request]
        /\ RequestsOK'
    BY <2>1, <2>4, RequestStarts
  <2>6. TypeOK'  BY <1>0, <2>2, <2>4, <2>5 DEF TypeOK
  <2> QED  BY <1>0, <2>3, <2>5, <2>6
<1>4. ASSUME StartProxy(i)  PROVE TypesInv'
  <2> DEFINE t == creators[i].term
             g == creators[i].gen
  <2>1. t \in Terminals /\ g \in Nat
    BY <1>4, BoundsAssumption DEF StartProxy, RequestsOK, TypeOK, Terminals, Request
  <2>2. /\ UNCHANGED sessions /\ starts' = starts \cup {<<t, g>>}
        /\ timers' = timers \cup {<<"attach", t, g, None>>} /\ issued' = issued \cup {t}
        /\ creators' = [creators EXCEPT ![i].pc = "idle"]
    BY <1>4 DEF StartProxy, Timed
  <2> HIDE DEF t, g
  <2>3. /\ creators' \in [Creators -> Request]
        /\ RequestsOK'
    BY <2>2, RequestGoes
  <2>4. timers' \subseteq {"attach", "grace"} \X Terminals \X Nat \X (Conns \cup {None})
    BY <2>1, <2>2 DEF TypeOK
  <2>5. starts' \subseteq Terminals \X Nat /\ issued' \subseteq Terminals
    BY <2>1, <2>2 DEF TypeOK
  <2>6. TypeOK'  BY <1>0, <2>2, <2>3, <2>4, <2>5 DEF TypeOK
  <2> QED  BY <1>0, <2>2, <2>3, <2>6, SessionsStay
<1>5. ASSUME StartRefused(i)  PROVE TypesInv'
  <2>1. /\ UNCHANGED <<sessions, timers, starts, issued>> /\ creators[i].pc = "start"
        /\ creators' = [creators EXCEPT ![i].pc = "undo"]
    BY <1>5 DEF StartRefused
  <2>2. /\ creators' \in [Creators -> Request]
        /\ RequestsOK'
    BY <2>1, RequestGoes
  <2>3. TypeOK'  BY <1>0, <2>1, <2>2 DEF TypeOK
  <2> QED  BY <1>0, <2>1, <2>2, <2>3, SessionsStay
<1>6. ASSUME UndoCreate(i)  PROVE TypesInv'
  <2> DEFINE t == creators[i].term
  <2>1. t \in Terminals
    BY <1>6, BoundsAssumption DEF UndoCreate, RequestsOK, TypeOK, Terminals, Request
  <2>2. /\ UNCHANGED <<timers, starts, issued>>
        /\ creators' = [creators EXCEPT ![i].pc = "idle"]
        /\ UNCHANGED sessions \/ sessions' = [sessions EXCEPT ![t] = NoSession]
    BY <1>6 DEF UndoCreate
  <2> HIDE DEF t
  <2>3. /\ creators' \in [Creators -> Request]
        /\ RequestsOK'
    BY <2>2, RequestGoes
  <2>4. sessions' \in [Terminals -> Session]  BY <2>1, <2>2, NoSessionIs, OneSession DEF TypeOK
  <2>5. SessionsOK'  BY <1>0, <2>1, <2>2, NoSessionIs, SessionChanges, SessionsStay
  <2>6. TypeOK'  BY <1>0, <2>2, <2>3, <2>4 DEF TypeOK
  <2> QED  BY <1>0, <2>3, <2>5, <2>6
<1> QED  BY <1>1, <1>2, <1>3, <1>4, <1>5, <1>6

LEMMA TellTypes ==
    ASSUME TypeOK, NEW S \in SUBSET (Conns \cup {None}), Tell(S)
    PROVE  told' \subseteq Conns /\ told \subseteq told'
BY DEF TypeOK, Tell

LEMMA TimeTypes ==
    ASSUME TypesInv, TimeStep
    PROVE  TypesInv'
<1> USE DEF TypesInv
<1> SUFFICES ASSUME NEW t \in Terminals,
                    \/ DeadlinePasses(t)
                    \/ \E g \in 1..(MaxCreates * Cardinality(Creators)) : AttachTimeout(t, g)
                    \/ \E at, by \in Conns : GraceTimeout(t, at, by)
             PROVE  TypesInv'
  BY DEF TimeStep
<1>0. /\ UNCHANGED <<conns, creators, starts, issued, got, deleted>>
      /\ timers' \subseteq timers
  BY DEF DeadlinePasses, AttachTimeout, GraceTimeout
<1>1. Steady /\ TasksOK' /\ RequestsOK'  BY <1>0, ConnsStay DEF RequestsOK
<1>2. PICK s \in Session : /\ sessions' = [sessions EXCEPT ![t] = s]
                           /\ s.gen # 0 \/ s = NoSession
                           /\ s.browser \in {None, sessions[t].browser}
                           /\ s.bridge \in {None, sessions[t].bridge}
  <2>1. CASE DeadlinePasses(t)
    <3> DEFINE s == [sessions[t] EXCEPT !.deadline = "passed"]
    <3>1. /\ s \in Session /\ s.gen = sessions[t].gen
          /\ s.browser = sessions[t].browser /\ s.bridge = sessions[t].bridge
      BY SessionFields DEF Session
    <3>2. sessions' = [sessions EXCEPT ![t] = s] /\ Live(t)  BY <2>1 DEF DeadlinePasses
    <3>3. sessions[t].gen # 0  BY <3>2 DEF SessionsOK
    <3> QED  BY <3>1, <3>2, <3>3
  <2>2. CASE ~DeadlinePasses(t)
    <3>1. UNCHANGED sessions \/ sessions' = [sessions EXCEPT ![t] = NoSession]
      BY <2>2 DEF AttachTimeout, GraceTimeout
    <3>2. CASE UNCHANGED sessions
      <4>1. sessions' = [sessions EXCEPT ![t] = sessions[t]]  BY <3>2 DEF TypeOK
      <4> QED  BY <4>1, SessionFields DEF SessionsOK, Live
    <3> QED  BY <3>1, <3>2, NoSessionIs
  <2> QED  BY <2>1, <2>2
<1>3. SessionsOK'  BY <1>1, <1>2, SessionChanges
<1>4. sessions' \in [Terminals -> Session]  BY <1>2, OneSession
<1>5. told' \subseteq Conns
  BY TellTypes, SessionFields DEF DeadlinePasses, AttachTimeout, GraceTimeout, TellBrowser, TypeOK
<1>6. TypeOK'  BY <1>0, <1>4, <1>5 DEF TypeOK
<1> QED  BY <1>1, <1>3, <1>6

LEMMA DeletionTypes ==
    ASSUME TypesInv, NEW d \in {DeviceOf[k] : k \in Keys}, DeleteDevice(d)
    PROVE  TypesInv'
<1> USE DEF TypesInv
<1> DEFINE mine == {t \in Terminals : Live(t) /\ DeviceOf[sessions[t].key] = d}
<1>0. /\ UNCHANGED <<conns, creators, timers, starts, issued, got>>
      /\ deleted' = deleted \cup {d}
      /\ sessions' = [t \in Terminals |-> IF t \in mine THEN NoSession ELSE sessions[t]]
      /\ Tell({sessions[t].browser : t \in mine} \cup {sessions[t].bridge : t \in mine})
  BY DEF DeleteDevice
<1>1. Steady /\ TasksOK' /\ RequestsOK'  BY <1>0, ConnsStay DEF RequestsOK
<1>2. \A t \in Terminals : sessions'[t] \in {NoSession, sessions[t]}  BY <1>0
<1>3. SessionsOK'
  <2>1. \A t \in Terminals : /\ sessions'[t] # NoSession => sessions'[t].gen # 0
                             /\ sessions'[t].browser \in {None, sessions[t].browser}
                             /\ sessions'[t].bridge \in {None, sessions[t].bridge}
    BY <1>2, NoSessionIs DEF SessionsOK, Live
  <2>2. ASSUME NEW t \in Terminals, sessions'[t].browser # None
        PROVE  /\ conns'[sessions'[t].browser].kind = "browser"
               /\ conns'[sessions'[t].browser].term = t
               /\ conns'[sessions'[t].browser].pc # "unused"
    <3>1. sessions[t].browser # None /\ sessions'[t].browser = sessions[t].browser  BY <2>1, <2>2
    <3> QED  BY <1>0, <3>1 DEF SessionsOK
  <2>3. ASSUME NEW t \in Terminals, sessions'[t].bridge # None
        PROVE  /\ conns'[sessions'[t].bridge].kind = "bridge"
               /\ conns'[sessions'[t].bridge].term = t
               /\ conns'[sessions'[t].bridge].pc # "unused"
    <3>1. sessions[t].bridge # None /\ sessions'[t].bridge = sessions[t].bridge  BY <2>1, <2>3
    <3> QED  BY <1>0, <3>1 DEF SessionsOK
  <2> QED  BY <2>1, <2>2, <2>3 DEF SessionsOK, Live
<1>4. sessions' \in [Terminals -> Session]  BY <1>0, NoSessionIs DEF TypeOK
<1>5. {sessions[t].browser : t \in mine} \cup {sessions[t].bridge : t \in mine}
          \in SUBSET (Conns \cup {None})
  BY SessionFields
<1>6. told' \subseteq Conns  BY <1>0, <1>5, TellTypes
<1>7. TypeOK'  BY <1>0, <1>4, <1>6 DEF TypeOK
<1> QED  BY <1>1, <1>3, <1>7

-----------------------------------------------------------------------------
(* The connections' tasks.                                                  *)

LEMMA OneConn ==
    ASSUME TypesInv, NEW c \in Conns, NEW r \in Conn, conns' = [conns EXCEPT ![c] = r],
           TaskOK(r), r.pc # "unused",
           conns[c].pc = "unused" \/ (r.kind = conns[c].kind /\ r.term = conns[c].term)
    PROVE  /\ conns' \in [Conns -> Conn] /\ conns'[c] = r
           /\ Steady /\ TasksOK'
<1>1. conns' \in [Conns -> Conn] /\ conns'[c] = r /\ \A d \in Conns \ {c} : conns'[d] = conns[d]
  BY DEF TypesInv, TypeOK
<1> QED  BY <1>1 DEF TypesInv, Steady, TasksOK

\* A task that only goes on to another point.
LEMMA TaskGoes ==
    ASSUME TypesInv, NEW c \in Conns, conns[c].pc # "unused",
           NEW pc \in {"read", "ended", "closed"}, conns' = Goto(c, pc)
    PROVE  conns' \in [Conns -> Conn] /\ Steady /\ TasksOK'
<1> DEFINE r == [conns[c] EXCEPT !.pc = pc]
<1>1. conns[c] \in Conn  BY DEF TypesInv, TypeOK
<1>2. r \in Conn /\ r.pc = pc /\ r.kind = conns[c].kind /\ r.term = conns[c].term
  BY <1>1 DEF Conn
<1>3. conns' = [conns EXCEPT ![c] = r]  BY DEF Goto
<1>4. TaskOK(r)  BY <1>2 DEF TaskOK, TypesInv, TasksOK
<1> HIDE DEF r
<1> QED  BY <1>2, <1>3, <1>4, OneConn

\* A task that has read one more frame.
LEMMA TaskReads ==
    ASSUME TypesInv, NEW c \in Conns, NextFrame(c),
           NEW pc \in {"read", "lookup", "send"}, NEW p \in Conns \cup {None},
           pc = "send" => p # None,
           conns' = [conns EXCEPT ![c].sent = @ + 1, ![c].pc = pc, ![c].peer = p]
    PROVE  /\ conns' \in [Conns -> Conn] /\ Steady /\ TasksOK'
           /\ conns'[c].sent = conns[c].sent + 1 /\ conns'[c].sent \in 1..MaxFrames
<1> DEFINE r == [conns[c] EXCEPT !.sent = @ + 1, !.pc = pc, !.peer = p]
<1>1. conns[c] \in Conn /\ conns[c].pc = "read" /\ conns[c].sent \in 0..MaxFrames
      /\ conns[c].sent < MaxFrames
  BY ConnFields DEF TypesInv, NextFrame
<1>2. conns[c].sent + 1 \in 0..MaxFrames /\ conns[c].sent + 1 # 0 /\ conns[c].sent + 1 \in 1..MaxFrames
  BY <1>1, BoundsAssumption
<1>3. /\ r \in Conn /\ r.pc = pc /\ r.kind = conns[c].kind /\ r.term = conns[c].term
      /\ r.sent = conns[c].sent + 1 /\ r.peer = p
  BY <1>1, <1>2 DEF Conn
<1>4. conns' = [conns EXCEPT ![c] = r]  OBVIOUS
<1>5. conns[c].term # 0  BY <1>1 DEF TypesInv, TasksOK, TaskOK
<1>6. TaskOK(r)  BY <1>2, <1>3, <1>5 DEF TaskOK
<1> HIDE DEF r
<1>7. r.pc # "unused"  BY <1>3
<1>8. conns' \in [Conns -> Conn] /\ conns'[c] = r /\ Steady /\ TasksOK'
  BY <1>3, <1>4, <1>6, <1>7, OneConn
<1> QED  BY <1>2, <1>3, <1>8

LEMMA AcceptTypes ==
    ASSUME TypesInv, NEW c \in Conns, Unused(c), NEW kind \in {"browser", "bridge"},
           NEW t \in Terminals, Accept(c, kind, t)
    PROVE  conns' \in [Conns -> Conn] /\ Steady /\ TasksOK'
<1> DEFINE r == [kind |-> kind, term |-> t, pc |-> "accepted", sent |-> 0,
                 peer |-> None, todo |-> <<>>]
<1>1. r \in Conn /\ r.pc = "accepted" /\ r.term # 0
  BY BoundsAssumption DEF Conn, Terminals
<1>2. TaskOK(r)  BY <1>1 DEF TaskOK
<1>3. conns' = [conns EXCEPT ![c] = r] /\ conns[c].pc = "unused"
  BY NoConnIs DEF Accept, Unused
<1> HIDE DEF r
<1> QED  BY <1>1, <1>2, <1>3, OneConn

LEMMA ConnectTypes ==
    ASSUME TypesInv, NEW c \in Conns, Connect(c)
    PROVE  TypesInv'
<1> USE DEF TypesInv
<1>1. /\ UNCHANGED <<sessions, creators, timers, issued, got, told, deleted>>
      /\ starts' \subseteq starts
  BY DEF Connect, BrowserConnects, BridgeConnects
<1>2. conns' \in [Conns -> Conn] /\ Steady /\ TasksOK'
  <2>1. CASE \E t \in Terminals : BrowserConnects(c, t)
    BY <2>1, AcceptTypes DEF BrowserConnects
  <2>2. CASE \E s \in starts : BridgeConnects(c, s[1], s[2])
    <3>1. PICK s \in starts : BridgeConnects(c, s[1], s[2])  BY <2>2
    <3>2. s[1] \in Terminals  BY DEF TypeOK
    <3>3. CASE UNCHANGED conns  BY <3>3, ConnsStay DEF TypeOK
    <3>4. CASE Accept(c, "bridge", s[1])  BY <3>1, <3>2, <3>4, AcceptTypes DEF BridgeConnects
    <3> QED  BY <3>1, <3>3, <3>4 DEF BridgeConnects
  <2> QED  BY <2>1, <2>2 DEF Connect
<1>3. SessionsOK'  BY <1>1, <1>2, SessionsStay
<1>4. TypeOK' /\ RequestsOK'  BY <1>1, <1>2 DEF TypeOK, RequestsOK
<1> QED  BY <1>2, <1>3, <1>4

\* What a connection's step does to the sessions: nothing, or one session
\* changes and keeps, loses or gets its ends.
EndOK(kind, t, c) == /\ conns'[c].kind = kind /\ conns'[c].term = t
                     /\ conns'[c].pc # "unused"
ChangesTo(t, s) ==
    /\ s \in Session
    /\ s.gen # 0 \/ s = NoSession
    /\ s.browser \in {None, sessions[t].browser} \/ EndOK("browser", t, s.browser)
    /\ s.bridge \in {None, sessions[t].bridge} \/ EndOK("bridge", t, s.bridge)
SessionMoves ==
    \/ UNCHANGED sessions
    \/ \E t \in Terminals, s \in Session :
          sessions' = [sessions EXCEPT ![t] = s] /\ ChangesTo(t, s)

LEMMA StepTypes ==
    ASSUME TypesInv, conns' \in [Conns -> Conn], Steady, TasksOK', SessionMoves,
           UNCHANGED <<creators, starts, issued, deleted>>,
           timers' \subseteq {"attach", "grace"} \X Terminals \X Nat \X (Conns \cup {None}),
           got' \in [Conns -> Seq(Frames)], told' \subseteq Conns
    PROVE  TypesInv'
<1> USE DEF TypesInv
<1>1. sessions' \in [Terminals -> Session] /\ SessionsOK'
  <2>1. CASE UNCHANGED sessions  BY <2>1, SessionsStay DEF TypeOK
  <2>2. CASE ~ UNCHANGED sessions
    <3>1. PICK t \in Terminals, s \in Session :
              sessions' = [sessions EXCEPT ![t] = s] /\ ChangesTo(t, s)
      BY <2>2 DEF SessionMoves
    <3>2. sessions' \in [Terminals -> Session]  BY <3>1, OneSession
    <3>3. SessionsOK'  BY <3>1, SessionChanges DEF ChangesTo, EndOK
    <3> QED  BY <3>2, <3>3
  <2> QED  BY <2>1, <2>2
<1>2. TypeOK' /\ RequestsOK'  BY <1>1 DEF TypeOK, RequestsOK
<1> QED  BY <1>1, <1>2

LEMMA TellNone ==
    ASSUME TypeOK, UNCHANGED <<timers, got, told>>
    PROVE  /\ timers' \subseteq {"attach", "grace"} \X Terminals \X Nat \X (Conns \cup {None})
           /\ got' \in [Conns -> Seq(Frames)] /\ told' \subseteq Conns
BY DEF TypeOK

\* The connection of a task that runs belongs to a terminal.
LEMMA TermOf ==
    ASSUME TypesInv, NEW c \in Conns, conns[c].pc # "unused"
    PROVE  conns[c].term \in Terminals
BY ConnFields, BoundsAssumption DEF TypesInv, TasksOK, TaskOK, Terminals

\* A frame that was read.
LEMMA FrameIs ==
    ASSUME TypesInv, NEW c \in Conns, conns[c].pc \in {"lookup", "buffer", "send"}
    PROVE  Frame(c) \in Frames
<1>1. conns[c].sent \in 1..MaxFrames
  BY ConnFields, BoundsAssumption DEF TypesInv, TasksOK, TaskOK
<1> QED  BY <1>1 DEF Frame, Frames

LEMMA BrowserGiven ==
    ASSUME NEW x \in Session, NEW c \in Conns
    PROVE  LET s == [x EXCEPT !.browser = c, !.gone = None, !.pending = <<>>] IN
           /\ s \in Session /\ s.gen = x.gen /\ s.browser = c /\ s.bridge = x.bridge
           /\ s.gone = None /\ s.deadline = x.deadline
           /\ s.paused = x.paused /\ s.buffer = x.buffer
<1>1. <<>> \in Seq(Frames)  BY EmptySeq
<1> QED  BY <1>1 DEF Session

LEMMA BridgeGiven ==
    ASSUME NEW x \in Session, NEW c \in Conns
    PROVE  LET s == [x EXCEPT !.bridge = c, !.deadline = "unset", !.pending = <<>>] IN
           /\ s \in Session /\ s.gen = x.gen /\ s.bridge = c /\ s.browser = x.browser
           /\ s.gone = x.gone /\ s.deadline = "unset"
           /\ s.paused = x.paused /\ s.buffer = x.buffer
<1>1. <<>> \in Seq(Frames)  BY EmptySeq
<1> QED  BY <1>1 DEF Session

LEMMA RegisterTypes ==
    ASSUME TypesInv, NEW c \in Conns, RegisterBrowser(c) \/ RegisterBridge(c)
    PROVE  TypesInv'
<1> USE DEF TypesInv
<1> DEFINE t == conns[c].term
<1>1. t \in Terminals /\ Live(t) /\ conns[c].pc = "accepted"
  BY TermOf DEF RegisterBrowser, RegisterBridge
<1>2. sessions[t].gen # 0  BY <1>1 DEF SessionsOK
<1>3. CASE RegisterBrowser(c)
  <2> DEFINE s == [sessions[t] EXCEPT !.browser = c, !.gone = None, !.pending = <<>>]
  <2>1. conns' = Goto(c, "read") /\ conns[c].kind = "browser"  BY <1>3 DEF RegisterBrowser
  <2>2. conns' \in [Conns -> Conn] /\ Steady /\ TasksOK'  BY <1>1, <2>1, TaskGoes
  <2>3. EndOK("browser", t, c)  BY <1>1, <2>1, <2>2 DEF Steady, EndOK
  <2>4. s \in Session /\ s.gen = sessions[t].gen /\ s.browser = c /\ s.bridge = sessions[t].bridge
    <3>1. sessions[t] \in Session  BY <1>1, SessionFields
    <3> QED  BY ONLY <3>1, c \in Conns, BrowserGiven
  <2>5. sessions' = [sessions EXCEPT ![t] = s]  BY <1>3 DEF RegisterBrowser
  <2> HIDE DEF s
  <2>6. SessionMoves  BY <1>1, <1>2, <2>3, <2>4, <2>5 DEF SessionMoves, ChangesTo
  <2>7. told' \subseteq Conns  BY <1>1, <1>3, SessionFields, TellTypes DEF RegisterBrowser
  <2> QED  BY <1>3, <2>2, <2>6, <2>7, StepTypes DEF RegisterBrowser, TypeOK
<1>4. CASE RegisterBridge(c)
  <2> DEFINE s == [sessions[t] EXCEPT !.bridge = c, !.deadline = "unset", !.pending = <<>>]
             r == [conns[c] EXCEPT !.todo = sessions[t].pending,
                        !.pc = IF sessions[t].pending = <<>> THEN "read" ELSE "replay"]
  <2>1. conns' = [conns EXCEPT ![c] = r] /\ conns[c].kind = "bridge"  BY <1>4 DEF RegisterBridge
  <2>2. /\ r \in Conn /\ r.kind = conns[c].kind /\ r.term = conns[c].term
        /\ r.pc = IF sessions[t].pending = <<>> THEN "read" ELSE "replay"
        /\ r.todo = sessions[t].pending
    BY <1>1, SessionFields, ConnFields DEF Conn
  <2>3. TaskOK(r) /\ r.pc # "unused"  BY <1>1, <2>1, <2>2 DEF TaskOK, TasksOK
  <2> HIDE DEF r
  <2>4. conns' \in [Conns -> Conn] /\ Steady /\ TasksOK'  BY <2>1, <2>2, <2>3, OneConn
  <2>5. EndOK("bridge", t, c)  BY <1>1, <2>1, <2>4 DEF Steady, EndOK
  <2>6. s \in Session /\ s.gen = sessions[t].gen /\ s.bridge = c /\ s.browser = sessions[t].browser
    <3>1. sessions[t] \in Session  BY <1>1, SessionFields
    <3> QED  BY ONLY <3>1, c \in Conns, BridgeGiven
  <2>7. sessions' = [sessions EXCEPT ![t] = s]  BY <1>4 DEF RegisterBridge
  <2> HIDE DEF s
  <2>8. SessionMoves  BY <1>1, <1>2, <2>5, <2>6, <2>7 DEF SessionMoves, ChangesTo
  <2>9. told' \subseteq Conns  BY <1>1, <1>4, SessionFields, TellTypes DEF RegisterBridge
  <2> QED  BY <1>4, <2>4, <2>8, <2>9, StepTypes DEF RegisterBridge, TypeOK
<1> QED  BY <1>3, <1>4

LEMMA AttachTypes ==
    ASSUME TypesInv, NEW c \in Conns, Attach(c)
    PROVE  TypesInv'
<1> USE DEF TypesInv
<1>1. CASE RegisterBrowser(c) \/ RegisterBridge(c)  BY <1>1, RegisterTypes
<1>2. CASE RegisterRefused(c)
  BY <1>2, TaskGoes, StepTypes, TellNone DEF RegisterRefused, SessionMoves
<1>3. CASE Replay(c)
  <2> DEFINE r == [conns[c] EXCEPT !.todo = Tail(@),
                        !.pc = IF Len(conns[c].todo) = 1 THEN "read" ELSE "replay"]
  <2>1. /\ conns[c].pc = "replay" /\ conns[c].todo # <<>> /\ conns[c].todo \in Seq(Frames)
        /\ conns[c].term # 0 /\ conns[c].kind = "bridge"
    BY <1>3, ConnFields DEF Replay, TasksOK, TaskOK
  <2>2. /\ Tail(conns[c].todo) \in Seq(Frames) /\ Head(conns[c].todo) \in Frames
        /\ Len(conns[c].todo) # 1 => Tail(conns[c].todo) # <<>>
    <3> DEFINE q == conns[c].todo
    <3>1. q \in Seq(Frames) /\ q # <<>>  BY <2>1
    <3> HIDE DEF q
    <3>2. Tail(q) \in Seq(Frames) /\ Head(q) \in Frames /\ Len(Tail(q)) = Len(q) - 1
      BY <3>1, HeadTailProperties
    <3>3. Len(q) \in Nat /\ Len(q) # 0  BY <3>1, EmptySeq
    <3>4. Len(q) # 1 => Tail(q) # <<>>
      <4>1. Len(q) # 1 => Len(Tail(q)) # 0  BY <3>2, <3>3
      <4>2. Len(<<>>) = 0  OBVIOUS
      <4> QED  BY <4>1, <4>2
    <3> QED  BY <3>2, <3>4 DEF q
  <2>3. /\ r \in Conn /\ r.kind = conns[c].kind /\ r.term = conns[c].term
        /\ r.pc = IF Len(conns[c].todo) = 1 THEN "read" ELSE "replay"
        /\ r.todo = Tail(conns[c].todo)
    BY <2>2, ConnFields DEF Conn
  <2>4. TaskOK(r) /\ r.pc # "unused"  BY <2>1, <2>2, <2>3 DEF TaskOK
  <2>5. conns' = [conns EXCEPT ![c] = r]  BY <1>3 DEF Replay
  <2> HIDE DEF r
  <2>6. conns' \in [Conns -> Conn] /\ Steady /\ TasksOK'  BY <2>3, <2>4, <2>5, OneConn
  <2>7. got' \in [Conns -> Seq(Frames)]  BY <1>3, <2>2 DEF Replay, TypeOK
  <2> QED  BY <1>3, <2>6, <2>7, StepTypes DEF Replay, SessionMoves, TypeOK
<1>4. CASE ReplayFails(c)
  <2> DEFINE r == [conns[c] EXCEPT !.pc = "ended", !.todo = <<>>]
  <2>1. r \in Conn /\ r.kind = conns[c].kind /\ r.term = conns[c].term /\ r.pc = "ended"
    BY ConnFields, EmptySeq DEF Conn
  <2>2. conns' = [conns EXCEPT ![c] = r]  BY <1>4 DEF ReplayFails
  <2>3. TaskOK(r)  BY <1>4, <2>1 DEF ReplayFails, TaskOK, TasksOK
  <2> HIDE DEF r
  <2>4. conns' \in [Conns -> Conn] /\ Steady /\ TasksOK'  BY <2>1, <2>2, <2>3, OneConn
  <2> QED  BY <1>4, <2>4, StepTypes, TellNone DEF ReplayFails, SessionMoves
<1> QED  BY <1>1, <1>2, <1>3, <1>4 DEF Attach

LEMMA CleanedTypes ==
    ASSUME TypesInv, NEW t \in Terminals, NEW at \in Conns, NEW c \in Conns,
           timers' = Cleaned(t, at, c)
    PROVE  timers' \subseteq {"attach", "grace"} \X Terminals \X Nat \X (Conns \cup {None})
<1>1. at \in Nat  BY BoundsAssumption DEF Conns
<1> QED  BY <1>1 DEF Cleaned, TypesInv, TypeOK

LEMMA BrowserTaken ==
    ASSUME NEW x \in Session, NEW at \in Conns
    PROVE  LET s == [x EXCEPT !.browser = None, !.gone = at] IN
           /\ s \in Session /\ s.gen = x.gen /\ s.browser = None /\ s.bridge = x.bridge
           /\ s.gone = at /\ s.deadline = x.deadline
           /\ s.paused = x.paused /\ s.buffer = x.buffer
BY DEF Session, None

LEMMA BridgeTaken ==
    ASSUME NEW x \in Session, NEW at \in Conns
    PROVE  LET s == [x EXCEPT !.bridge = None, !.gone = at] IN
           /\ s \in Session /\ s.gen = x.gen /\ s.browser = x.browser /\ s.bridge = None
           /\ s.gone = at /\ s.deadline = x.deadline
           /\ s.paused = x.paused /\ s.buffer = x.buffer
BY DEF Session, None

\* The instant at which the browser of a session left.
LeftAt(t, c) == IF sessions[t].gone = None THEN c ELSE sessions[t].gone

\* What the end of a connection that holds its place does.
LEMMA Leaves ==
    ASSUME TypesInv, NEW c \in Conns, BrowserLeaves(c) \/ BridgeLeaves(c)
    PROVE  LET t == conns[c].term IN
           /\ t \in Terminals /\ Live(t) /\ LeftAt(t, c) \in Conns
           /\ conns[c].pc = "ended" /\ conns' = Goto(c, "closed")
           /\ UNCHANGED <<creators, starts, issued, got, deleted>>
           /\ \/ /\ sessions' = [sessions EXCEPT ![t] = NoSession]
                 /\ UNCHANGED timers
                 /\ sessions[t].browser = None \/ sessions[t].bridge = None
              \/ /\ sessions' = [sessions EXCEPT ![t].browser = None, ![t].gone = LeftAt(t, c)]
                 /\ timers' = Cleaned(t, LeftAt(t, c), c) /\ sessions[t].browser = c
                 /\ sessions[t].bridge # None \/ sessions[t].gone # None
              \/ /\ sessions' = [sessions EXCEPT ![t].bridge = None, ![t].gone = c]
                 /\ timers' = Cleaned(t, c, c) /\ sessions[t].bridge = c
                 /\ sessions[t].browser # None
<1> DEFINE t == conns[c].term
<1>1. conns[c].pc = "ended" /\ conns' = Goto(c, "closed") /\ Current(c)
      /\ UNCHANGED <<creators, starts, issued, got, deleted>>
  BY DEF BrowserLeaves, BridgeLeaves, Mine
<1>2. t \in Terminals  BY <1>1, TermOf
<1>3. Live(t) /\ LeftAt(t, c) \in Conns
  BY <1>1, <1>2, SessionFields DEF Current, LeftAt, TypesInv
<1>4. CASE BrowserLeaves(c)
  <2>1. sessions[t].browser = c  BY <1>1, <1>4 DEF BrowserLeaves, Current
  <2> QED  BY <1>1, <1>2, <1>3, <1>4, <2>1 DEF BrowserLeaves, LeftAt
<1>5. CASE BridgeLeaves(c)
  <2>1. sessions[t].bridge = c
    BY <1>1, <1>5, ConnFields DEF BridgeLeaves, Current
  <2> QED  BY <1>1, <1>2, <1>3, <1>5, <2>1 DEF BridgeLeaves
<1> QED  BY <1>4, <1>5

LEMMA DetachTypes ==
    ASSUME TypesInv, NEW c \in Conns, Detach(c)
    PROVE  TypesInv'
<1> USE DEF TypesInv
<1>1. CASE BrowserLeaves(c) \/ BridgeLeaves(c)
  <2> DEFINE t == conns[c].term
             at == LeftAt(t, c)
  <2>1. /\ t \in Terminals /\ Live(t) /\ at \in Conns
        /\ conns[c].pc = "ended" /\ conns' = Goto(c, "closed")
        /\ UNCHANGED <<creators, starts, issued, got, deleted>>
        /\ sessions[t] \in Session /\ sessions[t].gen # 0
    BY <1>1, Leaves, SessionFields DEF SessionsOK
  <2>2. conns' \in [Conns -> Conn] /\ Steady /\ TasksOK'  BY <2>1, TaskGoes
  <2>3. told' \subseteq Conns
    BY <1>1, <2>1, SessionFields, TellTypes DEF BrowserLeaves, BridgeLeaves, TypeOK
  <2>4. /\ SessionMoves
        /\ timers' \subseteq {"attach", "grace"} \X Terminals \X Nat \X (Conns \cup {None})
    <3>1. CASE sessions' = [sessions EXCEPT ![t] = NoSession] /\ UNCHANGED timers
      BY <2>1, <3>1, NoSessionIs DEF SessionMoves, ChangesTo, TypeOK
    <3>2. CASE /\ sessions' = [sessions EXCEPT ![t].browser = None, ![t].gone = at]
               /\ timers' = Cleaned(t, at, c)
      <4> DEFINE s == [sessions[t] EXCEPT !.browser = None, !.gone = at]
      <4>1. s \in Session /\ s.gen = sessions[t].gen /\ s.browser = None /\ s.bridge = sessions[t].bridge
        BY ONLY <2>1, BrowserTaken
      <4>2. sessions' = [sessions EXCEPT ![t] = s]  BY <3>2
      <4> HIDE DEF s
      <4> QED  BY <2>1, <3>2, <4>1, <4>2, CleanedTypes DEF SessionMoves, ChangesTo
    <3>3. CASE /\ sessions' = [sessions EXCEPT ![t].bridge = None, ![t].gone = c]
               /\ timers' = Cleaned(t, c, c)
      <4> DEFINE s == [sessions[t] EXCEPT !.bridge = None, !.gone = c]
      <4>1. s \in Session /\ s.gen = sessions[t].gen /\ s.browser = sessions[t].browser /\ s.bridge = None
        BY ONLY <2>1, c \in Conns, BridgeTaken
      <4>2. sessions' = [sessions EXCEPT ![t] = s]  BY <3>3
      <4> HIDE DEF s
      <4> QED  BY <2>1, <3>3, <4>1, <4>2, CleanedTypes DEF SessionMoves, ChangesTo
    <3> QED  BY <1>1, <3>1, <3>2, <3>3, Leaves
  <2> QED  BY <2>1, <2>2, <2>3, <2>4, StepTypes DEF TypeOK
<1>2. CASE StaleLeaves(c)
  BY <1>2, TaskGoes, StepTypes, TellNone DEF StaleLeaves, SessionMoves
<1> QED  BY <1>1, <1>2 DEF Detach

LEMMA HangupTypes ==
    ASSUME TypesInv, NEW c \in Conns, Hangup(c)
    PROVE  TypesInv'
BY TaskGoes, StepTypes, TellNone DEF Hangup, SessionMoves, TypesInv

LEMMA Paused ==
    ASSUME NEW x \in Session
    PROVE  LET s == [x EXCEPT !.paused = TRUE, !.buffer = <<>>] IN
           /\ s \in Session /\ s.gen = x.gen /\ s.browser = x.browser /\ s.bridge = x.bridge
           /\ s.gone = x.gone /\ s.deadline = x.deadline
           /\ s.paused = TRUE /\ s.buffer = <<>>
<1>1. <<>> \in Seq(Frames)  BY EmptySeq
<1> QED  BY <1>1 DEF Session

LEMMA ReplayedIs ==
    ASSUME NEW x \in Session
    PROVE  LET s == Replayed(x) IN
           /\ s \in Session /\ s.gen = x.gen /\ s.browser = x.browser /\ s.bridge = x.bridge
           /\ s.gone = x.gone /\ s.deadline = x.deadline
           /\ s.paused = FALSE /\ s.buffer = <<>>
<1>1. <<>> \in Seq(Frames)  BY EmptySeq
<1> QED  BY <1>1 DEF Session, Replayed

LEMMA PendingGiven ==
    ASSUME NEW x \in Session, NEW q \in Seq(Frames)
    PROVE  LET s == [x EXCEPT !.pending = q] IN
           /\ s \in Session /\ s.gen = x.gen /\ s.browser = x.browser /\ s.bridge = x.bridge
           /\ s.gone = x.gone /\ s.deadline = x.deadline
           /\ s.paused = x.paused /\ s.buffer = x.buffer
BY DEF Session

LEMMA BufferGiven ==
    ASSUME NEW x \in Session, NEW q \in Seq(Frames)
    PROVE  LET s == [x EXCEPT !.buffer = q] IN
           /\ s \in Session /\ s.gen = x.gen /\ s.browser = x.browser /\ s.bridge = x.bridge
           /\ s.gone = x.gone /\ s.deadline = x.deadline
           /\ s.paused = x.paused /\ s.buffer = q
BY DEF Session

\* A step that gives a session what it sends back or holds back.
LEMMA SameEnds ==
    ASSUME TypesInv, NEW t \in Terminals, Live(t), NEW s \in Session,
           s.gen = sessions[t].gen, s.browser = sessions[t].browser,
           s.bridge = sessions[t].bridge, sessions' = [sessions EXCEPT ![t] = s]
    PROVE  SessionMoves
BY DEF SessionMoves, ChangesTo, TypesInv, SessionsOK

LEMMA DropOldestIs ==
    ASSUME NEW q \in Seq(Frames), NEW f \in Frames
    PROVE  DropOldest(q, f) \in Seq(Frames)
BY HeadTailProperties, AppendProperties DEF DropOldest

\* What every reading of a frame of the current connection starts from.
LEMMA ReadsOne ==
    ASSUME TypesInv, NEW c \in Conns, NextFrame(c), Current(c)
    PROVE  LET t == conns[c].term IN
           /\ t \in Terminals /\ Live(t) /\ sessions[t] \in Session
           /\ conns[c].pc = "read" /\ conns[c].sent \in 0..MaxFrames
           /\ sessions[t].buffer \in Seq(Frames) /\ sessions[t].pending \in Seq(Frames)
BY TermOf, ConnFields, SessionFields DEF NextFrame, Current, TypesInv

LEMMA ReadsNoFrame ==
    ASSUME TypesInv, NEW c \in Conns, NextFrame(c),
           conns' = [conns EXCEPT ![c].sent = @ + 1]
    PROVE  /\ conns' \in [Conns -> Conn] /\ Steady /\ TasksOK'
           /\ conns'[c].sent = conns[c].sent + 1 /\ conns'[c].sent \in 1..MaxFrames
<1>1. conns[c].pc = "read" /\ conns[c] \in Conn /\ conns[c].peer \in Conns \cup {None}
  BY ConnFields DEF NextFrame, TypesInv
<1> DEFINE r == [conns[c] EXCEPT !.sent = @ + 1]
<1>2. r = [conns[c] EXCEPT !.sent = @ + 1, !.pc = "read", !.peer = conns[c].peer]
  BY <1>1 DEF Conn
<1>3. conns' = [conns EXCEPT ![c].sent = @ + 1, ![c].pc = "read", ![c].peer = conns[c].peer]
  BY <1>2
<1> QED  BY <1>1, <1>3, TaskReads

LEMMA LooksUp ==
    ASSUME TypesInv, NEW c \in Conns, NextFrame(c),
           conns' = [conns EXCEPT ![c].sent = @ + 1, ![c].pc = "lookup"]
    PROVE  /\ conns' \in [Conns -> Conn] /\ Steady /\ TasksOK'
           /\ conns'[c].sent = conns[c].sent + 1 /\ conns'[c].sent \in 1..MaxFrames
<1>1. conns[c] \in Conn /\ conns[c].peer \in Conns \cup {None}  BY ConnFields DEF TypesInv
<1> DEFINE r == [conns[c] EXCEPT !.sent = @ + 1, !.pc = "lookup"]
<1>2. r = [conns[c] EXCEPT !.sent = @ + 1, !.pc = "lookup", !.peer = conns[c].peer]
  BY <1>1 DEF Conn
<1>3. conns' = [conns EXCEPT ![c].sent = @ + 1, ![c].pc = "lookup", ![c].peer = conns[c].peer]
  BY <1>2
<1> QED  BY <1>1, <1>3, TaskReads

LEMMA ReadTypes ==
    ASSUME TypesInv, NEW c \in Conns, Read(c)
    PROVE  TypesInv'
<1> USE DEF TypesInv
<1> DEFINE t == conns[c].term
<1>1. CASE ReadStale(c)
  BY <1>1, TaskGoes, StepTypes, TellNone DEF ReadStale, Rejected, NextFrame, SessionMoves
<1>2. CASE Oversized(c)
  <2>1. told' \subseteq Conns  BY <1>2, TellTypes DEF Oversized
  <2> QED  BY <1>2, <2>1, TaskGoes, StepTypes, TellNone DEF Oversized, NextFrame, SessionMoves, TypeOK
<1>3. CASE Pause(c)
  <2>1. t \in Terminals /\ Live(t) /\ sessions[t] \in Session /\ NextFrame(c)
    BY <1>3, ReadsOne DEF Pause, BrowserSends
  <2> DEFINE s == [sessions[t] EXCEPT !.paused = TRUE, !.buffer = <<>>]
  <2>2. /\ s \in Session /\ s.gen = sessions[t].gen
        /\ s.browser = sessions[t].browser /\ s.bridge = sessions[t].bridge
    BY ONLY <2>1, Paused
  <2>3. sessions' = [sessions EXCEPT ![t] = s]  BY <1>3 DEF Pause
  <2> HIDE DEF s
  <2>4. SessionMoves  BY <2>1, <2>2, <2>3, SameEnds
  <2>5. conns' \in [Conns -> Conn] /\ Steady /\ TasksOK'
    BY <1>3, <2>1, ReadsNoFrame DEF Pause
  <2> QED  BY <1>3, <2>4, <2>5, StepTypes, TellNone DEF Pause
<1>4. CASE Resume(c)
  <2>1. /\ t \in Terminals /\ Live(t) /\ sessions[t] \in Session /\ NextFrame(c)
        /\ sessions[t].buffer \in Seq(Frames)
    BY <1>4, ReadsOne DEF Resume, BrowserSends
  <2> DEFINE s == Replayed(sessions[t])
             buf == sessions[t].buffer
  <2>2. /\ s \in Session /\ s.gen = sessions[t].gen
        /\ s.browser = sessions[t].browser /\ s.bridge = sessions[t].bridge
    BY ONLY <2>1, ReplayedIs
  <2>3. sessions' = [sessions EXCEPT ![t] = s]  BY <1>4 DEF Resume
  <2> HIDE DEF s
  <2>4. SessionMoves  BY <2>1, <2>2, <2>3, SameEnds
  <2>5. conns' \in [Conns -> Conn] /\ Steady /\ TasksOK'
    BY <1>4, <2>1, ReadsNoFrame DEF Resume
  <2>6. PICK n \in 0..Len(buf) : got' = [got EXCEPT ![c] = @ \o SubSeq(buf, 1, n)]
    BY <1>4 DEF Resume
  <2>7. SubSeq(buf, 1, n) \in Seq(Frames)
    <3>1. buf \in Seq(Frames) /\ n \in Int /\ 1 \in Int  BY <2>1
    <3>2. \A i \in 1..n : buf[i] \in Frames  BY <3>1, <2>6
    <3> QED  BY <3>1, <3>2, SubSeqProperties
  <2> HIDE DEF buf
  <2>8. got' \in [Conns -> Seq(Frames)]
    <3>1. got[c] \o SubSeq(buf, 1, n) \in Seq(Frames)  BY <2>7, ConcatProperties DEF TypeOK
    <3> QED  BY <2>6, <3>1 DEF TypeOK
  <2> QED  BY <1>4, <2>4, <2>5, <2>8, StepTypes, TellNone DEF Resume, TypeOK
<1>5. CASE Resize(c)
  <2>1. /\ t \in Terminals /\ Live(t) /\ sessions[t] \in Session /\ NextFrame(c)
        /\ sessions[t].bridge \in Conns \cup {None}
    BY <1>5, ReadsOne, SessionFields DEF Resize, BrowserSends
  <2>2. CASE /\ conns' = [conns EXCEPT ![c].sent = @ + 1, ![c].pc = "send",
                                       ![c].peer = sessions[t].bridge]
             /\ sessions[t].bridge # None /\ UNCHANGED sessions
    BY <1>5, <2>1, <2>2, TaskReads, StepTypes, TellNone DEF Resize, SessionMoves
  <2>3. CASE conns' = Goto(c, "ended") /\ UNCHANGED sessions
    BY <1>5, <2>1, <2>3, TaskGoes, StepTypes, TellNone DEF Resize, NextFrame, SessionMoves
  <2>4. CASE /\ conns' = [conns EXCEPT ![c].sent = @ + 1]
             /\ sessions' = [sessions EXCEPT ![t].pending = Append(@, <<c, conns'[c].sent>>)]
    <3>1. /\ conns' \in [Conns -> Conn] /\ Steady /\ TasksOK'
          /\ conns'[c].sent \in 1..MaxFrames
      BY <2>1, <2>4, ReadsNoFrame
    <3> DEFINE q == Append(sessions[t].pending, <<c, conns'[c].sent>>)
               s == [sessions[t] EXCEPT !.pending = q]
    <3>2. q \in Seq(Frames)
      <4>1. <<c, conns'[c].sent>> \in Frames  BY <3>1 DEF Frames
      <4> QED  BY <2>1, <4>1, SessionFields, AppendProperties
    <3>3. sessions' = [sessions EXCEPT ![t] = s]  BY <2>4
    <3> HIDE DEF q
    <3>4. /\ s \in Session /\ s.gen = sessions[t].gen
          /\ s.browser = sessions[t].browser /\ s.bridge = sessions[t].bridge
      BY ONLY <2>1, <3>2, PendingGiven
    <3> HIDE DEF s
    <3>5. SessionMoves  BY <2>1, <3>3, <3>4, SameEnds
    <3> QED  BY <1>5, <3>1, <3>5, StepTypes, TellNone DEF Resize
  <2> QED  BY <1>5, <2>2, <2>3, <2>4 DEF Resize
<1>6. CASE Data(c)
  BY <1>6, LooksUp, StepTypes, TellNone DEF Data, BrowserSends, SessionMoves
<1>7. CASE Output(c)
  <2>1. /\ t \in Terminals /\ Live(t) /\ sessions[t] \in Session /\ NextFrame(c)
        /\ sessions[t].buffer \in Seq(Frames)
    BY <1>7, ReadsOne DEF Output
  <2>2. CASE UNCHANGED sessions
    BY <1>7, <2>1, <2>2, LooksUp, ReadsNoFrame, StepTypes, TellNone DEF Output, SessionMoves
  <2>3. CASE /\ conns' = [conns EXCEPT ![c].sent = @ + 1]
             /\ sessions' = [sessions EXCEPT ![t].buffer = DropOldest(@, <<c, conns'[c].sent>>)]
    <3>1. /\ conns' \in [Conns -> Conn] /\ Steady /\ TasksOK'
          /\ conns'[c].sent \in 1..MaxFrames
      BY <2>1, <2>3, ReadsNoFrame
    <3> DEFINE q == DropOldest(sessions[t].buffer, <<c, conns'[c].sent>>)
               s == [sessions[t] EXCEPT !.buffer = q]
    <3>2. q \in Seq(Frames)
      <4>1. <<c, conns'[c].sent>> \in Frames  BY <3>1 DEF Frames
      <4> QED  BY <2>1, <4>1, DropOldestIs
    <3>3. sessions' = [sessions EXCEPT ![t] = s]  BY <2>3
    <3> HIDE DEF q
    <3>4. /\ s \in Session /\ s.gen = sessions[t].gen
          /\ s.browser = sessions[t].browser /\ s.bridge = sessions[t].bridge
      BY ONLY <2>1, <3>2, BufferGiven
    <3> HIDE DEF s
    <3>5. SessionMoves  BY <2>1, <3>3, <3>4, SameEnds
    <3> QED  BY <1>7, <3>1, <3>5, StepTypes, TellNone DEF Output
  <2> QED  BY <1>7, <2>2, <2>3 DEF Output
<1> QED  BY <1>1, <1>2, <1>3, <1>4, <1>5, <1>6, <1>7 DEF Read

\* A task that sends, or goes on without.
LEMMA TaskHasPeer ==
    ASSUME TypesInv, NEW c \in Conns, conns[c].pc \in {"lookup", "send"},
           NEW pc \in {"read", "buffer", "send", "ended"}, NEW p \in Conns \cup {None},
           pc = "send" => p # None,
           conns' = [conns EXCEPT ![c].pc = pc, ![c].peer = p]
    PROVE  conns' \in [Conns -> Conn] /\ Steady /\ TasksOK'
<1> DEFINE r == [conns[c] EXCEPT !.pc = pc, !.peer = p]
<1>1. conns[c] \in Conn  BY ConnFields DEF TypesInv
<1>2. /\ r \in Conn /\ r.pc = pc /\ r.kind = conns[c].kind /\ r.term = conns[c].term
      /\ r.sent = conns[c].sent /\ r.peer = p
  BY <1>1 DEF Conn
<1>3. conns' = [conns EXCEPT ![c] = r]  OBVIOUS
<1>4. conns[c].term # 0 /\ conns[c].sent # 0  BY DEF TypesInv, TasksOK, TaskOK
<1>5. TaskOK(r) /\ r.pc # "unused"  BY <1>2, <1>4 DEF TaskOK
<1> HIDE DEF r
<1> QED  BY <1>2, <1>3, <1>5, OneConn

LEMMA CounterpartIs ==
    ASSUME TypesInv, NEW c \in Conns, conns[c].pc # "unused"
    PROVE  /\ Counterpart(c) \in Conns \cup {None}
           /\ Counterpart(c) # None =>
                  /\ conns[Counterpart(c)].pc # "unused"
                  /\ conns[Counterpart(c)].kind # conns[c].kind
                  /\ conns[Counterpart(c)].term = conns[c].term
<1> DEFINE s == sessions[conns[c].term]
<1>1. /\ conns[c].term \in Terminals /\ conns[c].kind \in {"browser", "bridge"}
      /\ s.bridge \in Conns \cup {None} /\ s.browser \in Conns \cup {None}
  BY TermOf, ConnFields, SessionFields DEF TypesInv
<1>2. CASE Current(c) /\ conns[c].kind = "browser"
  <2>1. Counterpart(c) = s.bridge  BY <1>2 DEF Counterpart
  <2> QED  BY <1>1, <1>2, <2>1 DEF TypesInv, SessionsOK
<1>3. CASE Current(c) /\ conns[c].kind = "bridge"
  <2>1. Counterpart(c) = s.browser  BY <1>3 DEF Counterpart
  <2> QED  BY <1>1, <1>3, <2>1 DEF TypesInv, SessionsOK
<1>4. CASE ~Current(c)  BY <1>4 DEF Counterpart
<1> QED  BY <1>1, <1>2, <1>3, <1>4

LEMMA ForwardTypes ==
    ASSUME TypesInv, NEW c \in Conns, Forward(c)
    PROVE  TypesInv'
<1> USE DEF TypesInv
<1>1. CASE Lookup(c)
  <2> DEFINE p == Counterpart(c)
             pc == IF p # None THEN "send"
                   ELSE IF conns[c].kind = "browser" THEN "buffer" ELSE "read"
  <2>1. p \in Conns \cup {None} /\ conns[c].pc = "lookup"
    BY <1>1, CounterpartIs DEF Lookup
  <2>2. conns' = [conns EXCEPT ![c].pc = pc, ![c].peer = p]
    <3>1. conns' = [conns EXCEPT ![c].peer = p, ![c].pc = pc]  BY <1>1 DEF Lookup
    <3> QED  BY <3>1 DEF TypeOK, Conn
  <2>3. pc \in {"read", "buffer", "send", "ended"} /\ (pc = "send" => p # None)  OBVIOUS
  <2> HIDE DEF pc, p
  <2>4. conns' \in [Conns -> Conn] /\ Steady /\ TasksOK'  BY <2>1, <2>2, <2>3, TaskHasPeer
  <2> QED  BY <1>1, <2>4, StepTypes, TellNone DEF Lookup, SessionMoves
<1>2. CASE BufferFrame(c)
  <2> DEFINE t == conns[c].term
  <2>1. conns' \in [Conns -> Conn] /\ Steady /\ TasksOK'
    BY <1>2, TaskGoes DEF BufferFrame
  <2>2. CASE UNCHANGED sessions
    BY <1>2, <2>1, <2>2, StepTypes, TellNone DEF BufferFrame, SessionMoves
  <2>3. CASE Current(c) /\ sessions' = [sessions EXCEPT ![t].pending = Append(@, Frame(c))]
    <3> DEFINE q == Append(sessions[t].pending, Frame(c))
               s == [sessions[t] EXCEPT !.pending = q]
    <3>1. t \in Terminals /\ Live(t) /\ sessions[t] \in Session
      BY <1>2, <2>3, TermOf, SessionFields DEF BufferFrame, Current
    <3>2. q \in Seq(Frames)
      BY <1>2, <3>1, FrameIs, SessionFields, AppendProperties DEF BufferFrame
    <3>3. sessions' = [sessions EXCEPT ![t] = s]  BY <2>3
    <3> HIDE DEF q
    <3>4. /\ s \in Session /\ s.gen = sessions[t].gen
          /\ s.browser = sessions[t].browser /\ s.bridge = sessions[t].bridge
      BY ONLY <3>1, <3>2, PendingGiven
    <3> HIDE DEF s
    <3>5. SessionMoves  BY <3>1, <3>3, <3>4, SameEnds
    <3> QED  BY <1>2, <2>1, <3>5, StepTypes, TellNone DEF BufferFrame
  <2> QED  BY <1>2, <2>2, <2>3 DEF BufferFrame
<1>3. CASE Send(c)
  <2>1. conns' \in [Conns -> Conn] /\ Steady /\ TasksOK'
    BY <1>3, TaskHasPeer DEF Send
  <2>2. got' \in [Conns -> Seq(Frames)]
    <3>1. Frame(c) \in Frames  BY <1>3, FrameIs DEF Send
    <3> QED  BY <1>3, <3>1, AppendProperties DEF Send, TypeOK
  <2> QED  BY <1>3, <2>1, <2>2, StepTypes, TellNone DEF Send, SessionMoves, TypeOK
<1>4. CASE SendRefused(c)
  <2>1. conns' \in [Conns -> Conn] /\ Steady /\ TasksOK'
    BY <1>4, TaskHasPeer DEF SendRefused
  <2> QED  BY <1>4, <2>1, StepTypes, TellNone DEF SendRefused, SessionMoves
<1> QED  BY <1>1, <1>2, <1>3, <1>4 DEF Forward

LEMMA StepKeepsTypes ==
    ASSUME TypesInv, [Next]_vars
    PROVE  TypesInv'
<1>1. CASE UNCHANGED vars
  <2>1. conns' \in [Conns -> Conn] /\ Steady /\ TasksOK'
    BY <1>1, ConnsStay DEF vars, TypesInv, TypeOK
  <2> QED  BY <1>1, <2>1, StepTypes, TellNone DEF vars, SessionMoves, TypesInv
<1>2. CASE Next
  BY <1>2, CreateTypes, TimeTypes, DeletionTypes, ConnectTypes, AttachTypes, DetachTypes,
     HangupTypes, ReadTypes, ForwardTypes DEF Next
<1> QED  BY <1>1, <1>2

\* Types, and what the tasks, the requests and the sessions rely on.
THEOREM TerminalsAreTyped == Spec => []TypeOK
<1>1. Spec => []TypesInv  BY InitTypes, StepKeepsTypes, PTL DEF Spec
<1>2. TypesInv => TypeOK  BY DEF TypesInv
<1> QED  BY <1>1, <1>2, PTL

-----------------------------------------------------------------------------
(* Nothing strands.                                                         *)

\* What is known of one terminal: a bridge that attached cleared the deadline;
\* with a deadline and no bridge an attempt is under way or timed; and the
\* browser that left last, if nobody is there and no deadline is set, left a
\* cleanup behind.
Timely(t) ==
    Live(t) =>
        /\ sessions[t].bridge # None => sessions[t].deadline = "unset"
        /\ sessions[t].bridge = None /\ sessions[t].deadline # "unset"
              => Starting(t) \/ AttachTimer(t)
        /\ sessions[t].bridge = None /\ sessions[t].browser = None
           /\ sessions[t].deadline = "unset" => GraceTimer(t)

TimelyInv == TypesInv /\ \A t \in Terminals : Timely(t)

LEMMA NothingIsStranded == TimelyInv => NothingStrands
BY DEF TimelyInv, Timely, NothingStrands, Collected, WaitIsTimed

LEMMA InitTimely == Init => \A t \in Terminals : Timely(t)
BY DEF Init, Timely, Live

\* What Timely looks at does not change, and no attempt or timer is lost.
SameWaits(t) ==
    /\ sessions'[t].gen = sessions[t].gen /\ sessions'[t].deadline = sessions[t].deadline
    /\ sessions'[t].browser = sessions[t].browser /\ sessions'[t].bridge = sessions[t].bridge
    /\ sessions'[t].gone = sessions[t].gone

LEMMA WaitsGoOn ==
    ASSUME TypesInv, TypesInv', NEW t \in Terminals, Timely(t), SameWaits(t),
           Starting(t) => Starting(t)' \/ AttachTimer(t)',
           timers \subseteq timers'
    PROVE  Timely(t)'
<1>1. Live(t)' => Live(t)
  BY NoSessionIs DEF Live, SameWaits, TypesInv, SessionsOK
<1>2. AttachTimer(t) => AttachTimer(t)'  BY DEF SameWaits, AttachTimer
<1>3. GraceTimer(t) => GraceTimer(t)'  BY DEF SameWaits, GraceTimer
<1> QED  BY <1>1, <1>2, <1>3 DEF SameWaits, Timely

LEMMA Removed ==
    ASSUME NEW t \in Terminals, sessions'[t] = NoSession
    PROVE  Timely(t)'
BY DEF Timely, Live

\* An attempt that goes on counts as long as its terminal keeps its generation.
LEMMA StartsGoOn ==
    ASSUME TypesInv, NEW t \in Terminals, sessions'[t].gen = sessions[t].gen,
           DOMAIN creators' = DOMAIN creators,
           \A i \in DOMAIN creators : creators[i].pc \in {"start", "undo"} =>
               /\ creators'[i].pc \in {"start", "undo"}
               /\ creators'[i].term = creators[i].term /\ creators'[i].gen = creators[i].gen
    PROVE  Starting(t) => Starting(t)'
BY DEF Starting

LEMMA CreateTimely ==
    ASSUME TimelyInv, TypesInv', CreateStep
    PROVE  \A t \in Terminals : Timely(t)'
<1> USE DEF TimelyInv
<1> SUFFICES ASSUME NEW i \in Creators,
                    (\E k \in Keys : Reuse(i, k) \/ Retry(i, k) \/ Create(i, k))
                       \/ StartProxy(i) \/ StartRefused(i) \/ UndoCreate(i),
                    NEW u \in Terminals
             PROVE  Timely(u)'
  BY DEF CreateStep
<1>0. DOMAIN creators = Creators /\ DOMAIN creators' = Creators
      /\ sessions[u] \in Session /\ sessions'[u] \in Session /\ creators[i] \in Request
  BY DEF TypesInv, TypeOK
<1>1. ASSUME NEW k \in Keys, Reuse(i, k)  PROVE Timely(u)'
  <2>1. PICK t \in Terminals : /\ Live(t) /\ sessions[t].bridge # None
                               /\ sessions' = [sessions EXCEPT ![t].gone = None]
    BY <1>1 DEF Reuse, Reusable
  <2>2. \A j \in Creators : creators[j].pc \in {"start", "undo"} => creators'[j] = creators[j]
    BY <1>0, <1>1 DEF Reuse, CreateIdle, TypesInv, TypeOK
  <2>3. CASE u = t
    <3>1. /\ sessions'[u].deadline = sessions[u].deadline /\ sessions'[u].bridge # None
      BY <1>0, <2>1, <2>3 DEF TypesInv, TypeOK, Session
    <3>2. sessions[u].deadline = "unset"  BY <2>1, <2>3 DEF Timely
    <3> QED  BY <3>1, <3>2 DEF Timely
  <2>4. CASE u # t
    <3>1. SameWaits(u) /\ sessions'[u].gen = sessions[u].gen
      BY <2>1, <2>4 DEF SameWaits, TypesInv, TypeOK
    <3>2. Starting(u) => Starting(u)'  BY <1>0, <2>2, <3>1, StartsGoOn
    <3> QED  BY <1>1, <3>1, <3>2, WaitsGoOn DEF Reuse
  <2> QED  BY <2>3, <2>4
<1>2. ASSUME NEW k \in Keys, Retry(i, k) \/ Create(i, k)  PROVE Timely(u)'
  <2>1. PICK t \in Terminals :
            /\ creators'[i].pc = "start" /\ creators'[i].term = t
            /\ creators'[i].gen = sessions'[t].gen
            /\ sessions'[t].bridge = None /\ sessions'[t].deadline = "running"
            /\ u # t => sessions'[u] = sessions[u]
    <3>1. CASE Retry(i, k)
      <4>1. PICK t \in Terminals : /\ sessions[t].bridge = None
                                   /\ sessions' = [sessions EXCEPT ![t] = Retried(@)]
                                   /\ creators' = [creators EXCEPT ![i] =
                                      [pc |-> "start", term |-> t, gen |-> sessions'[t].gen, left |-> @.left - 1]]
        BY <3>1 DEF Retry, Reusable
      <4>2. sessions'[t] = Retried(sessions[t]) /\ (u # t => sessions'[u] = sessions[u])
        BY <4>1 DEF TypesInv, TypeOK
      <4>3. sessions'[t].bridge = None /\ sessions'[t].deadline = "running"
        BY <4>1, <4>2, RetriedIs DEF TypesInv
      <4> QED  BY <4>1, <4>2, <4>3 DEF TypesInv, TypeOK
    <3>2. CASE Create(i, k)
      <4>1. PICK t \in Terminals : /\ sessions' = [sessions EXCEPT ![t] = NewSession(k)]
                                   /\ creators' = [creators EXCEPT ![i] =
                                      [pc |-> "start", term |-> t, gen |-> 1, left |-> @.left - 1]]
        BY <3>2 DEF Create
      <4>2. sessions'[t] = NewSession(k) /\ (u # t => sessions'[u] = sessions[u])
        BY <4>1 DEF TypesInv, TypeOK
      <4>3. sessions'[t].bridge = None /\ sessions'[t].deadline = "running" /\ sessions'[t].gen = 1
        BY <4>2, NewSessionIs
      <4> QED  BY <4>1, <4>2, <4>3 DEF TypesInv, TypeOK
    <3> QED  BY <1>2, <3>1, <3>2
  <2>2. \A j \in Creators : creators[j].pc \in {"start", "undo"} => creators'[j] = creators[j]
    BY <1>0, <1>2 DEF Retry, Create, CreateIdle, TypesInv, TypeOK
  <2>3. CASE u = t
    <3>1. Starting(u)'  BY <1>0, <2>1, <2>3 DEF Starting
    <3> QED  BY <2>1, <2>3, <3>1 DEF Timely
  <2>4. CASE u # t
    <3>1. SameWaits(u) /\ sessions'[u].gen = sessions[u].gen
      BY <2>1, <2>4 DEF SameWaits
    <3>2. Starting(u) => Starting(u)'  BY <1>0, <2>2, <3>1, StartsGoOn
    <3> QED  BY <1>2, <3>1, <3>2, WaitsGoOn DEF Retry, Create
  <2> QED  BY <2>3, <2>4
<1>3. CASE StartProxy(i)
  <2>1. /\ UNCHANGED sessions /\ timers \subseteq timers'
        /\ <<"attach", creators[i].term, creators[i].gen, None>> \in timers'
        /\ creators' = [creators EXCEPT ![i].pc = "idle"]
    BY <1>3 DEF StartProxy, Timed
  <2>2. ASSUME Starting(u)  PROVE Starting(u)' \/ AttachTimer(u)'
    <3>1. PICK j \in Creators : /\ creators[j].pc \in {"start", "undo"}
                                /\ creators[j].term = u /\ creators[j].gen = sessions[u].gen
      BY <1>0, <2>2 DEF Starting
    <3>2. CASE j = i  BY <2>1, <3>1, <3>2 DEF AttachTimer
    <3>3. CASE j # i
      <4>1. creators'[j] = creators[j]  BY <2>1, <3>3 DEF TypesInv, TypeOK
      <4> QED  BY <1>0, <2>1, <3>1, <4>1 DEF Starting
    <3> QED  BY <3>2, <3>3
  <2>3. SameWaits(u)  BY <2>1 DEF SameWaits
  <2> QED  BY <2>1, <2>2, <2>3, WaitsGoOn
<1>4. CASE StartRefused(i)
  <2>1. /\ UNCHANGED <<sessions, timers>> /\ creators[i].pc = "start"
        /\ creators' = [creators EXCEPT ![i].pc = "undo"]
    BY <1>4 DEF StartRefused
  <2>2. \A j \in DOMAIN creators : creators[j].pc \in {"start", "undo"} =>
             /\ creators'[j].pc \in {"start", "undo"}
             /\ creators'[j].term = creators[j].term /\ creators'[j].gen = creators[j].gen
    BY <2>1 DEF TypesInv, TypeOK, Request
  <2>3. SameWaits(u)  BY <2>1 DEF SameWaits
  <2>4. Starting(u) => Starting(u)'  BY <1>0, <2>1, <2>2, StartsGoOn
  <2> QED  BY <2>1, <2>3, <2>4, WaitsGoOn
<1>5. CASE UndoCreate(i)
  <2> DEFINE t == creators[i].term
  <2>1. /\ UNCHANGED timers /\ creators' = [creators EXCEPT ![i].pc = "idle"]
        /\ sessions' = IF Live(t) /\ sessions[t].gen = creators[i].gen /\ sessions[t].bridge = None
                       THEN [sessions EXCEPT ![t] = NoSession] ELSE sessions
    BY <1>5 DEF UndoCreate
  <2>2. sessions'[u] = NoSession \/ sessions'[u] = sessions[u]
    BY <2>1 DEF TypesInv, TypeOK
  <2>3. ASSUME sessions'[u] = sessions[u], Live(u), sessions[u].bridge = None, Starting(u)
        PROVE  Starting(u)'
    <3>1. PICK j \in Creators : /\ creators[j].pc \in {"start", "undo"}
                                /\ creators[j].term = u /\ creators[j].gen = sessions[u].gen
      BY <1>0, <2>3 DEF Starting
    <3>2. j # i  BY <2>1, <2>3, <3>1 DEF TypesInv, TypeOK, Live
    <3>3. creators'[j] = creators[j]  BY <2>1, <3>2 DEF TypesInv, TypeOK
    <3> QED  BY <1>0, <2>3, <3>1, <3>3 DEF Starting
  <2>4. CASE sessions'[u] = sessions[u]
    <3>1. (Live(u)' <=> Live(u)) /\ (AttachTimer(u)' <=> AttachTimer(u))
          /\ (GraceTimer(u)' <=> GraceTimer(u))
      BY <2>1, <2>4 DEF Live, AttachTimer, GraceTimer
    <3> QED  BY <2>3, <2>4, <3>1 DEF Timely
  <2> QED  BY <2>2, <2>4, Removed
<1> QED  BY <1>1, <1>2, <1>3, <1>4, <1>5

\* What a timer that fires finds: the terminal is removed, or it is not the
\* one the timer was for.
LEMMA TimerTimely ==
    ASSUME TimelyInv, TypesInv', TimeStep
    PROVE  \A t \in Terminals : Timely(t)'
<1> USE DEF TimelyInv
<1> SUFFICES ASSUME NEW t \in Terminals, NEW u \in Terminals,
                    \/ DeadlinePasses(t)
                    \/ \E g \in 1..(MaxCreates * Cardinality(Creators)) : AttachTimeout(t, g)
                    \/ \E at, by \in Conns : GraceTimeout(t, at, by)
             PROVE  Timely(u)'
  BY DEF TimeStep
<1>0. UNCHANGED creators /\ sessions[u] \in Session /\ sessions'[u] \in Session
  BY DEF DeadlinePasses, AttachTimeout, GraceTimeout, TypesInv, TypeOK
<1>1. CASE DeadlinePasses(t)
  <2>1. /\ Live(t) /\ sessions[t].deadline = "running" /\ UNCHANGED timers
        /\ sessions' = [sessions EXCEPT ![t].deadline = "passed"]
    BY <1>1 DEF DeadlinePasses
  <2>2. CASE u = t
    <3>1. /\ sessions'[u].gen = sessions[u].gen /\ sessions'[u].bridge = sessions[u].bridge
          /\ sessions'[u].deadline = "passed"
      BY <1>0, <2>1, <2>2 DEF TypesInv, TypeOK, Session
    <3>2. sessions[u].bridge = None /\ (Starting(u) \/ AttachTimer(u))
      BY <2>1, <2>2 DEF Timely
    <3>3. Starting(u)' \/ AttachTimer(u)'
      BY <1>0, <2>1, <3>1, <3>2 DEF Starting, AttachTimer
    <3> QED  BY <3>1, <3>2, <3>3 DEF Timely
  <2>3. CASE u # t
    <3>1. SameWaits(u)  BY <2>1, <2>3 DEF SameWaits, TypesInv, TypeOK
    <3>2. Starting(u) => Starting(u)'  BY <1>0, <3>1 DEF Starting, SameWaits
    <3> QED  BY <2>1, <3>1, <3>2, WaitsGoOn
  <2> QED  BY <2>2, <2>3
<1>2. ASSUME NEW g \in 1..(MaxCreates * Cardinality(Creators)), AttachTimeout(t, g)
      PROVE  Timely(u)'
  <2>1. /\ Live(t) /\ sessions[t].gen = g => sessions[t].deadline # "running"
        /\ timers' = timers \ {<<"attach", t, g, None>>}
        /\ IF Expires(t, g) THEN sessions' = [sessions EXCEPT ![t] = NoSession]
                            ELSE UNCHANGED sessions
    BY <1>2 DEF AttachTimeout
  <2>2. sessions'[u] = NoSession \/ (sessions'[u] = sessions[u] /\ ~(u = t /\ Expires(t, g)))
    BY <2>1 DEF TypesInv, TypeOK
  <2>3. CASE sessions'[u] = sessions[u] /\ ~(u = t /\ Expires(t, g))
    <3>1. (Live(u)' <=> Live(u)) /\ (Starting(u)' <=> Starting(u))
      BY <1>0, <2>3 DEF Live, Starting
    <3>2. GraceTimer(u) => GraceTimer(u)'
      BY <2>1, <2>3 DEF GraceTimer
    <3>3. ASSUME Live(u), sessions[u].bridge = None, sessions[u].deadline # "unset", AttachTimer(u)
          PROVE  AttachTimer(u)'
      <4>1. sessions[u].deadline \in {"running", "passed"}
        BY <3>3, SessionFields DEF TypesInv
      <4>2. ~(u = t /\ sessions[u].gen = g)
        BY <2>1, <2>3, <3>3, <4>1 DEF Expires, Expired
      <4>3. <<"attach", u, sessions[u].gen, None>> # <<"attach", t, g, None>>
        BY <4>2
      <4> QED  BY <2>1, <2>3, <3>3, <4>3 DEF AttachTimer
    <3> QED  BY <2>3, <3>1, <3>2, <3>3 DEF Timely
  <2> QED  BY <2>2, <2>3, Removed
<1>3. ASSUME NEW at \in Conns, NEW by \in Conns, GraceTimeout(t, at, by)
      PROVE  Timely(u)'
  <2>1. /\ timers' = timers \ {<<"grace", t, at, by>>}
        /\ IF StillGone(t, at) THEN sessions' = [sessions EXCEPT ![t] = NoSession]
                               ELSE UNCHANGED sessions
    BY <1>3 DEF GraceTimeout
  <2>2. sessions'[u] = NoSession \/ (sessions'[u] = sessions[u] /\ ~(u = t /\ StillGone(t, at)))
    BY <2>1 DEF TypesInv, TypeOK
  <2>3. CASE sessions'[u] = sessions[u] /\ ~(u = t /\ StillGone(t, at))
    <3>1. (Live(u)' <=> Live(u)) /\ (Starting(u)' <=> Starting(u))
      BY <1>0, <2>3 DEF Live, Starting
    <3>2. AttachTimer(u) => AttachTimer(u)'
      BY <2>1, <2>3 DEF AttachTimer
    <3>3. ASSUME Live(u), sessions[u].browser = None, GraceTimer(u)
          PROVE  GraceTimer(u)'
      <4>1. PICK d \in Conns : <<"grace", u, sessions[u].gone, d>> \in timers
        BY <3>3 DEF GraceTimer
      <4>2. ~(u = t /\ sessions[u].gone = at)  BY <2>3, <3>3 DEF StillGone
      <4>3. <<"grace", u, sessions[u].gone, d>> # <<"grace", t, at, by>>  BY <4>2
      <4> QED  BY <2>1, <2>3, <4>1, <4>3 DEF GraceTimer
    <3> QED  BY <2>3, <3>1, <3>2, <3>3 DEF Timely
  <2> QED  BY <2>2, <2>3, Removed
<1> QED  BY <1>1, <1>2, <1>3

\* A step that changes neither the requests nor the timers, and what Timely
\* looks at of no terminal.
LEMMA OthersTimely ==
    ASSUME TimelyInv, TypesInv', UNCHANGED <<creators, timers>>,
           \A t \in Terminals : SameWaits(t) \/ sessions'[t] = NoSession
    PROVE  \A t \in Terminals : Timely(t)'
<1> SUFFICES ASSUME NEW t \in Terminals PROVE Timely(t)'
  OBVIOUS
<1>1. CASE SameWaits(t)
  <2>1. Starting(t) => Starting(t)'  BY <1>1 DEF Starting, SameWaits
  <2> QED  BY <1>1, <2>1, WaitsGoOn DEF TimelyInv
<1> QED  BY <1>1, Removed

LEMMA RegisterTimely ==
    ASSUME TimelyInv, TypesInv', NEW c \in Conns, RegisterBrowser(c) \/ RegisterBridge(c)
    PROVE  \A t \in Terminals : Timely(t)'
<1> USE DEF TimelyInv
<1> DEFINE t == conns[c].term
<1>1. t \in Terminals /\ Live(t) /\ sessions[t] \in Session /\ c # None
      /\ UNCHANGED <<creators, timers>>
  <2>1. conns[c].pc # "unused" /\ Live(t) /\ UNCHANGED <<creators, timers>>
    BY DEF RegisterBrowser, RegisterBridge
  <2>2. t \in Terminals  BY <2>1, TermOf
  <2>3. sessions[t] \in Session  BY <2>2, SessionFields DEF TypesInv
  <2>4. c # None  BY BoundsAssumption DEF None, Conns
  <2> QED  BY <2>1, <2>2, <2>3, <2>4
<1> SUFFICES ASSUME NEW u \in Terminals PROVE Timely(u)'
  OBVIOUS
<1>2. CASE u # t
  <2>1. sessions'[u] = sessions[u]
    BY <1>2 DEF RegisterBrowser, RegisterBridge, TypesInv, TypeOK
  <2>2. SameWaits(u) /\ (Starting(u) => Starting(u)')  BY <1>1, <2>1 DEF SameWaits, Starting
  <2> QED  BY <1>1, <2>2, WaitsGoOn
<1>3. CASE u = t /\ RegisterBrowser(c)
  <2>1. sessions'[u] = [sessions[u] EXCEPT !.browser = c, !.gone = None, !.pending = <<>>]
    BY <1>1, <1>3 DEF RegisterBrowser, TypesInv, TypeOK
  <2>2. /\ sessions'[u].gen = sessions[u].gen /\ sessions'[u].browser = c
        /\ sessions'[u].bridge = sessions[u].bridge
        /\ sessions'[u].deadline = sessions[u].deadline
    <3>1. sessions[u] \in Session  BY <1>1, <1>3
    <3> DEFINE s == [sessions[u] EXCEPT !.browser = c, !.gone = None, !.pending = <<>>]
    <3>5. /\ s.gen = sessions[u].gen /\ s.browser = c
          /\ s.bridge = sessions[u].bridge /\ s.deadline = sessions[u].deadline
      BY ONLY <3>1, c \in Conns, BrowserGiven
    <3>6. sessions'[u] = s  BY <2>1
    <3> HIDE DEF s
    <3> QED  BY <3>5, <3>6
  <2>3. (Starting(u)' <=> Starting(u)) /\ (AttachTimer(u)' <=> AttachTimer(u))
    BY <1>1, <2>2 DEF Starting, AttachTimer
  <2> QED  BY <1>1, <1>3, <2>2, <2>3 DEF Timely
<1>4. CASE u = t /\ RegisterBridge(c)
  <2>1. sessions'[u] = [sessions[u] EXCEPT !.bridge = c, !.deadline = "unset", !.pending = <<>>]
    BY <1>1, <1>4 DEF RegisterBridge, TypesInv, TypeOK
  <2>2. sessions'[u].bridge = c /\ sessions'[u].deadline = "unset"
    <3>1. sessions[u] \in Session  BY <1>1, <1>4
    <3> DEFINE s == [sessions[u] EXCEPT !.bridge = c, !.deadline = "unset", !.pending = <<>>]
    <3>5. s.bridge = c /\ s.deadline = "unset"
      BY ONLY <3>1, c \in Conns, BridgeGiven
    <3>6. sessions'[u] = s  BY <2>1
    <3> HIDE DEF s
    <3> QED  BY <3>5, <3>6
  <2> QED  BY <1>1, <2>2 DEF Timely
<1> QED  BY <1>2, <1>3, <1>4

LEMMA DetachTimely ==
    ASSUME TimelyInv, TypesInv', NEW c \in Conns, BrowserLeaves(c) \/ BridgeLeaves(c)
    PROVE  \A t \in Terminals : Timely(t)'
<1> USE DEF TimelyInv
<1> DEFINE t == conns[c].term
           at == LeftAt(t, c)
<1>0. /\ t \in Terminals /\ Live(t) /\ at \in Conns /\ UNCHANGED creators
      /\ \/ sessions' = [sessions EXCEPT ![t] = NoSession] /\ UNCHANGED timers
         \/ /\ sessions' = [sessions EXCEPT ![t].browser = None, ![t].gone = at]
            /\ timers' = Cleaned(t, at, c)
         \/ /\ sessions' = [sessions EXCEPT ![t].bridge = None, ![t].gone = c]
            /\ timers' = Cleaned(t, c, c) /\ sessions[t].bridge = c
            /\ sessions[t].browser # None
  BY Leaves
<1>1. t \in Terminals /\ Live(t) /\ sessions[t] \in Session /\ at \in Conns /\ c # None
      /\ UNCHANGED creators
  <2>1. c # None  BY BoundsAssumption DEF None, Conns
  <2> QED  BY <1>0, <2>1, SessionFields DEF TypesInv
<1>2. \A u \in Terminals \ {t} : sessions'[u] = sessions[u]  BY <1>0 DEF TypesInv, TypeOK
<1>3. timers \subseteq timers'  BY <1>0 DEF Cleaned
<1> SUFFICES ASSUME NEW u \in Terminals PROVE Timely(u)'
  OBVIOUS
<1>4. CASE u # t
  <2>1. SameWaits(u) /\ (Starting(u) => Starting(u)')
    BY <1>1, <1>2, <1>4 DEF SameWaits, Starting
  <2> QED  BY <1>3, <2>1, WaitsGoOn
<1>5. CASE u = t
  <2>1. CASE sessions' = [sessions EXCEPT ![t] = NoSession]
    BY <1>5, <2>1, Removed DEF TypesInv, TypeOK
  <2>2. CASE /\ sessions' = [sessions EXCEPT ![t].browser = None, ![t].gone = at]
             /\ timers' = Cleaned(t, at, c)
    <3>1. sessions'[u] = [sessions[u] EXCEPT !.browser = None, !.gone = at]
      BY <1>5, <2>2 DEF TypesInv, TypeOK
    <3>2. /\ sessions'[u].gen = sessions[u].gen /\ sessions'[u].bridge = sessions[u].bridge
          /\ sessions'[u].deadline = sessions[u].deadline /\ sessions'[u].gone = at
      <4>1. sessions[u] \in Session /\ at \in Conns  BY <1>1, <1>5
      <4> HIDE DEF at
      <4> DEFINE s == [sessions[u] EXCEPT !.browser = None, !.gone = at]
      <4>5. /\ s.gen = sessions[u].gen /\ s.gone = at
            /\ s.bridge = sessions[u].bridge /\ s.deadline = sessions[u].deadline
        BY ONLY <4>1, BrowserTaken
      <4>6. sessions'[u] = s  BY <3>1
      <4> HIDE DEF s
      <4> QED  BY <4>5, <4>6
    <3>3. GraceTimer(u)'  BY <1>5, <2>2, <3>2, SMTT(60) DEF GraceTimer, Cleaned
    <3>4. Starting(u) \/ AttachTimer(u) => Starting(u)' \/ AttachTimer(u)'
      BY <1>1, <1>3, <3>2 DEF Starting, AttachTimer
    <3> QED  BY <1>1, <1>5, <3>2, <3>3, <3>4 DEF Timely
  <2>3. CASE /\ sessions' = [sessions EXCEPT ![t].bridge = None, ![t].gone = c]
             /\ sessions[t].bridge = c /\ sessions[t].browser # None
    <3>1. sessions'[u] = [sessions[u] EXCEPT !.bridge = None, !.gone = c]
      BY <1>5, <2>3 DEF TypesInv, TypeOK
    <3>2. /\ sessions'[u].browser = sessions[u].browser /\ sessions'[u].bridge = None
          /\ sessions'[u].deadline = sessions[u].deadline
      <4>1. sessions[u] \in Session  BY <1>1, <1>5
      <4> DEFINE s == [sessions[u] EXCEPT !.bridge = None, !.gone = c]
      <4>5. /\ s.browser = sessions[u].browser /\ s.bridge = None
            /\ s.deadline = sessions[u].deadline
        BY ONLY <4>1, c \in Conns, BridgeTaken
      <4>6. sessions'[u] = s  BY <3>1
      <4> HIDE DEF s
      <4> QED  BY <4>5, <4>6
    <3>3. sessions[u].deadline = "unset"  BY <1>1, <1>5, <2>3 DEF Timely
    <3> QED  BY <1>5, <2>3, <3>2, <3>3 DEF Timely
  <2> QED  BY <1>0, <2>1, <2>2, <2>3
<1> QED  BY <1>4, <1>5

LEMMA FrameSteps ==
    ASSUME TypesInv, NEW c \in Conns, Read(c) \/ Forward(c)
    PROVE  UNCHANGED <<creators, timers>> /\ \A t \in Terminals : SameWaits(t)
<1> USE DEF TypesInv
<1> DEFINE t == conns[c].term
<1>0. UNCHANGED <<creators, timers>>
  BY DEF Read, ReadStale, Oversized, Pause, Resume, Resize, Data, Output, Rejected,
         Forward, Lookup, BufferFrame, Send, SendRefused
<1>1. CASE UNCHANGED sessions  BY <1>0, <1>1 DEF SameWaits
<1>2. CASE ~ UNCHANGED sessions
  <2>1. /\ t \in Terminals /\ sessions[t] \in Session
        /\ \/ sessions' = [sessions EXCEPT ![t].paused = TRUE, ![t].buffer = <<>>]
           \/ sessions' = [sessions EXCEPT ![t] = Replayed(@)]
           \/ sessions' = [sessions EXCEPT ![t].pending = Append(@, <<c, conns'[c].sent>>)]
           \/ sessions' = [sessions EXCEPT ![t].pending = Append(@, Frame(c))]
           \/ sessions' = [sessions EXCEPT ![t].buffer = DropOldest(@, <<c, conns'[c].sent>>)]
    <3>1. t \in Terminals /\ sessions[t] \in Session
      BY <1>2, TermOf, SessionFields
         DEF Read, ReadStale, Oversized, Pause, Resume, Resize, Data, Output, Rejected,
             BrowserSends, NextFrame, Forward, Lookup, BufferFrame, Send, SendRefused
    <3>2. CASE Read(c)
      BY <1>2, <3>1, <3>2
         DEF Read, ReadStale, Oversized, Pause, Resume, Resize, Data, Output, Rejected
    <3>3. CASE Forward(c)
      BY <1>2, <3>1, <3>3 DEF Forward, Lookup, BufferFrame, Send, SendRefused
    <3> QED  BY <3>2, <3>3
  <2>2. \A u \in Terminals \ {t} : sessions'[u] = sessions[u]  BY <2>1 DEF TypeOK
  <2>3. SameWaits(t)
    <3> DEFINE s == sessions[t]
    <3>1. s \in Session  BY <2>1
    <3>2. PICK z : \/ sessions'[t] = [s EXCEPT !.paused = TRUE, !.buffer = z]
                   \/ sessions'[t] = [s EXCEPT !.paused = FALSE, !.buffer = z]
                   \/ sessions'[t] = [s EXCEPT !.pending = z]
                   \/ sessions'[t] = [s EXCEPT !.buffer = z]
      BY <2>1 DEF TypeOK, Replayed
    <3> HIDE DEF s
    <3>3. /\ sessions'[t].gen = s.gen /\ sessions'[t].deadline = s.deadline
          /\ sessions'[t].browser = s.browser /\ sessions'[t].bridge = s.bridge
          /\ sessions'[t].gone = s.gone
      BY <3>1, <3>2 DEF Session
    <3> QED  BY <3>3 DEF SameWaits, s
  <2> QED  BY <1>0, <2>2, <2>3 DEF SameWaits
<1> QED  BY <1>1, <1>2

LEMMA DeletionSteps ==
    ASSUME NEW d \in {DeviceOf[k] : k \in Keys}, DeleteDevice(d)
    PROVE  /\ UNCHANGED <<creators, timers>> /\ deleted' # deleted
           /\ \A t \in Terminals : SameWaits(t) \/ sessions'[t] = NoSession
BY DEF DeleteDevice, SameWaits

LEMMA OtherSteps ==
    ASSUME NEW c \in Conns,
           \/ Connect(c) \/ RegisterRefused(c) \/ Replay(c) \/ ReplayFails(c)
           \/ Hangup(c) \/ StaleLeaves(c)
    PROVE  UNCHANGED <<sessions, creators, timers>>
BY DEF Connect, BrowserConnects, BridgeConnects, RegisterRefused, Replay, ReplayFails,
       Hangup, StaleLeaves

LEMMA StepTimely ==
    ASSUME TimelyInv, [Next]_vars
    PROVE  TimelyInv'
<1>0. TypesInv /\ TypesInv'  BY StepKeepsTypes DEF TimelyInv
<1>1. CASE UNCHANGED vars \/ \E c \in Conns :
              \/ Connect(c) \/ RegisterRefused(c) \/ Replay(c) \/ ReplayFails(c)
              \/ Hangup(c) \/ StaleLeaves(c)
  <2>1. UNCHANGED <<sessions, creators, timers>>  BY <1>1, OtherSteps DEF vars
  <2> QED  BY <1>0, <2>1, OthersTimely DEF SameWaits, TimelyInv
<1>2. CASE CreateStep  BY <1>0, <1>2, CreateTimely DEF TimelyInv
<1>3. CASE TimeStep  BY <1>0, <1>3, TimerTimely DEF TimelyInv
<1>4. CASE \E d \in {DeviceOf[k] : k \in Keys} : DeleteDevice(d)
  BY <1>0, <1>4, DeletionSteps, OthersTimely DEF TimelyInv
<1>5. CASE \E c \in Conns : RegisterBrowser(c) \/ RegisterBridge(c)
  BY <1>0, <1>5, RegisterTimely DEF TimelyInv
<1>6. CASE \E c \in Conns : BrowserLeaves(c) \/ BridgeLeaves(c)
  BY <1>0, <1>6, DetachTimely DEF TimelyInv
<1>7. CASE \E c \in Conns : Read(c) \/ Forward(c)
  BY <1>0, <1>7, FrameSteps, OthersTimely DEF TimelyInv
<1> QED  BY <1>1, <1>2, <1>3, <1>4, <1>5, <1>6, <1>7 DEF Next, Attach, Detach

\* Every terminal nobody is connected to has a timer that removes it, and no
\* browser waits for a bridge without a timeout, whatever attempts, expiries,
\* graces and replacements overlap (create_terminal_session and the spawned
\* expiry and cleanup tasks).
THEOREM TerminalsAreCollected == Spec => []NothingStrands
<1>1. Init => TimelyInv  BY InitTypes, InitTimely DEF TimelyInv
<1>2. TimelyInv /\ [Next]_vars => TimelyInv'  BY StepTimely
<1>3. TimelyInv => NothingStrands  BY NothingIsStranded
<1> QED  BY <1>1, <1>2, <1>3, PTL DEF Spec

-----------------------------------------------------------------------------
(* What is in use stays.                                                    *)

InUse(t) == Live(t) /\ sessions[t].browser # None /\ sessions[t].bridge # None
Kept(t) ==
    /\ InUse(t) /\ deleted' = deleted => sessions'[t] # NoSession
    /\ Live(t) /\ sessions[t].bridge # None /\ sessions'[t] # NoSession
           => sessions'[t].bridge # None \/ conns[sessions[t].bridge].pc = "ended"

LEMMA SameIsKept ==
    ASSUME TypesInv, NEW t \in Terminals, SameWaits(t)
    PROVE  Kept(t)
BY NoSessionIs DEF TypesInv, SessionsOK, SameWaits, Kept, InUse

LEMMA CreateKeeps ==
    ASSUME TypesInv, CreateStep, NEW u \in Terminals
    PROVE  Kept(u)
<1> USE DEF TypesInv
<1>1. PICK i \in Creators :
          (\E k \in Keys : Reuse(i, k) \/ Retry(i, k) \/ Create(i, k))
             \/ StartProxy(i) \/ StartRefused(i) \/ UndoCreate(i)
  BY DEF CreateStep
<1>2. CASE \E k \in Keys : Reuse(i, k)
  <2>1. PICK t \in Terminals : Live(t) /\ sessions' = [sessions EXCEPT ![t].gone = None]
    BY <1>2 DEF Reuse, Reusable
  <2>2. CASE u = t
    <3>1. sessions'[u].bridge = sessions[u].bridge /\ sessions'[u].gen = sessions[u].gen
      BY <2>1, <2>2 DEF TypeOK, Session
    <3> QED  BY <3>1, NoSessionIs DEF Kept, InUse, SessionsOK
  <2>3. CASE u # t
    BY <2>1, <2>3, SameIsKept DEF SameWaits, TypeOK
  <2> QED  BY <2>2, <2>3
<1>3. CASE \E k \in Keys : Retry(i, k) \/ Create(i, k)
  <2>1. PICK t \in Terminals : /\ ~Live(t) \/ sessions[t].bridge = None
                               /\ u # t => sessions'[u] = sessions[u]
    <3>1. CASE \E k \in Keys : Retry(i, k)
      BY <3>1 DEF Retry, Reusable, TypeOK
    <3>2. CASE \E k \in Keys : Create(i, k)
      BY <3>2 DEF Create, Unissued, TypeOK
    <3> QED  BY <1>3, <3>1, <3>2
  <2>2. CASE u = t  BY <2>1, <2>2 DEF Kept, InUse
  <2>3. CASE u # t  BY <2>1, <2>3, SameIsKept DEF SameWaits
  <2> QED  BY <2>2, <2>3
<1>4. CASE StartProxy(i) \/ StartRefused(i)
  BY <1>4, SameIsKept DEF StartProxy, StartRefused, SameWaits
<1>5. CASE UndoCreate(i)
  <2>1. sessions'[u] = sessions[u] \/ (sessions'[u] = NoSession /\ sessions[u].bridge = None)
    BY <1>5 DEF UndoCreate, TypeOK
  <2> QED  BY <2>1, SameIsKept DEF SameWaits, Kept, InUse
<1> QED  BY <1>1, <1>2, <1>3, <1>4, <1>5

LEMMA TimeKeeps ==
    ASSUME TypesInv, TimeStep, NEW u \in Terminals
    PROVE  Kept(u)
<1> USE DEF TypesInv
<1>1. PICK t \in Terminals :
          \/ DeadlinePasses(t)
          \/ \E g \in 1..(MaxCreates * Cardinality(Creators)) : AttachTimeout(t, g)
          \/ \E at, by \in Conns : GraceTimeout(t, at, by)
  BY DEF TimeStep
<1>2. CASE DeadlinePasses(t)
  <2>1. sessions'[u].bridge = sessions[u].bridge /\ sessions'[u].gen = sessions[u].gen
    BY <1>2 DEF DeadlinePasses, TypeOK, Session
  <2> QED  BY <2>1, NoSessionIs DEF Kept, InUse, SessionsOK
<1>3. CASE ~DeadlinePasses(t)
  <2>1. \/ sessions'[u] = sessions[u]
        \/ /\ sessions'[u] = NoSession
           /\ sessions[u].bridge = None \/ sessions[u].browser = None
    BY <1>1, <1>3 DEF AttachTimeout, Expires, Expired, GraceTimeout, StillGone, TypeOK
  <2> QED  BY <2>1, SameIsKept DEF SameWaits, Kept, InUse
<1> QED  BY <1>2, <1>3

LEMMA RegisterKeeps ==
    ASSUME TypesInv, NEW c \in Conns, RegisterBrowser(c) \/ RegisterBridge(c), NEW u \in Terminals
    PROVE  Kept(u)
<1> USE DEF TypesInv
<1> DEFINE t == conns[c].term
<1>1. t \in Terminals /\ Live(t) /\ sessions[t] \in Session
  BY TermOf, SessionFields DEF RegisterBrowser, RegisterBridge
<1>2. c # None  BY BoundsAssumption DEF None, Conns
<1>3. CASE u # t
  BY <1>3, SameIsKept DEF RegisterBrowser, RegisterBridge, SameWaits, TypeOK
<1>4. CASE u = t
  <2>1. /\ sessions'[u].gen = sessions[u].gen
        /\ sessions'[u].bridge \in {c, sessions[u].bridge}
    BY <1>1, <1>4, SMTT(60) DEF RegisterBrowser, RegisterBridge, TypeOK, Session
  <2> QED  BY <1>2, <2>1, NoSessionIs DEF Kept, InUse, SessionsOK
<1> QED  BY <1>3, <1>4

LEMMA DetachKeeps ==
    ASSUME TypesInv, NEW c \in Conns, BrowserLeaves(c) \/ BridgeLeaves(c), NEW u \in Terminals
    PROVE  Kept(u)
<1> USE DEF TypesInv
<1> DEFINE t == conns[c].term
           at == LeftAt(t, c)
<1>1. /\ t \in Terminals /\ Live(t) /\ conns[c].pc = "ended"
      /\ \/ /\ sessions' = [sessions EXCEPT ![t] = NoSession]
            /\ sessions[t].browser = None \/ sessions[t].bridge = None
         \/ sessions' = [sessions EXCEPT ![t].browser = None, ![t].gone = at]
         \/ /\ sessions' = [sessions EXCEPT ![t].bridge = None, ![t].gone = c]
            /\ sessions[t].bridge = c
  BY Leaves
<1> HIDE DEF at
<1>2. CASE u # t
  <2>1. sessions'[u] = sessions[u]  BY <1>1, <1>2 DEF TypeOK
  <2> QED  BY <2>1, SameIsKept DEF SameWaits
<1>3. CASE u = t
  <2>1. CASE /\ sessions' = [sessions EXCEPT ![t] = NoSession]
             /\ sessions[t].browser = None \/ sessions[t].bridge = None
    BY <1>1, <1>3, <2>1 DEF Kept, InUse, TypeOK
  <2>2. CASE sessions' = [sessions EXCEPT ![t].browser = None, ![t].gone = at]
    <3>1. sessions'[u].gen = sessions[u].gen /\ sessions'[u].bridge = sessions[u].bridge
      BY <1>1, <1>3, <2>2 DEF TypeOK, Session
    <3> QED  BY <3>1, NoSessionIs DEF Kept, InUse, SessionsOK
  <2>3. CASE /\ sessions' = [sessions EXCEPT ![t].bridge = None, ![t].gone = c]
             /\ sessions[t].bridge = c
    <3>1. sessions'[u].gen = sessions[u].gen
      BY <1>1, <1>3, <2>3 DEF TypeOK, Session
    <3> QED  BY <1>1, <1>3, <2>3, <3>1, NoSessionIs, ZenonT(60) DEF Kept, InUse, SessionsOK
  <2> QED  BY <1>1, <2>1, <2>2, <2>3
<1> QED  BY <1>2, <1>3

LEMMA StepKeeps ==
    ASSUME TypesInv, Next, NEW t \in Terminals
    PROVE  Kept(t)
<1>1. CASE \E c \in Conns :
              \/ Connect(c) \/ RegisterRefused(c) \/ Replay(c) \/ ReplayFails(c)
              \/ Hangup(c) \/ StaleLeaves(c)
  <2>1. UNCHANGED sessions  BY <1>1, OtherSteps
  <2> QED  BY <2>1, SameIsKept DEF SameWaits
<1>2. CASE CreateStep  BY <1>2, CreateKeeps
<1>3. CASE TimeStep  BY <1>3, TimeKeeps
<1>4. CASE \E d \in {DeviceOf[k] : k \in Keys} : DeleteDevice(d)
  <2>1. deleted' # deleted /\ (SameWaits(t) \/ sessions'[t] = NoSession)
    BY <1>4, DeletionSteps
  <2> QED  BY <2>1, SameIsKept DEF Kept
<1>5. CASE \E c \in Conns : RegisterBrowser(c) \/ RegisterBridge(c)  BY <1>5, RegisterKeeps
<1>6. CASE \E c \in Conns : BrowserLeaves(c) \/ BridgeLeaves(c)  BY <1>6, DetachKeeps
<1>7. CASE \E c \in Conns : Read(c) \/ Forward(c)  BY <1>7, FrameSteps, SameIsKept
<1> QED  BY <1>1, <1>2, <1>3, <1>4, <1>5, <1>6, <1>7 DEF Next, Attach, Detach

\* A terminal that both sides are connected to is not taken down by an earlier
\* attempt's timeout or an earlier browser's cleanup, and the end of an older
\* connection leaves its replacement attached (unregister_terminal_connection).
THEOREM ReplacementIsKept == Spec => ReplacementStays
<1> DEFINE used == \A t \in Terminals :
                      Live(t) /\ sessions[t].browser # None /\ sessions[t].bridge # None
                              /\ deleted' = deleted
                          => sessions'[t] # NoSession
           held == \A t \in Terminals :
                      Live(t) /\ sessions[t].bridge # None /\ sessions'[t] # NoSession
                          => sessions'[t].bridge # None \/ conns[sessions[t].bridge].pc = "ended"
<1>1. TypesInv /\ [Next]_vars => [used]_vars /\ [held]_vars
  <2>1. TypesInv /\ Next => used /\ held  BY StepKeeps DEF Kept, InUse
  <2> QED  BY <2>1
<1>2. Spec => []TypesInv  BY InitTypes, StepKeepsTypes, PTL DEF Spec
<1>3. Spec => [][used]_vars /\ [][held]_vars  BY <1>1, <1>2, PTL DEF Spec
<1> QED  BY <1>3 DEF ReplacementStays, InUseIsKept, HeldIsKept

-----------------------------------------------------------------------------
(* Who loses its place is told.                                             *)

NothingUndone == \A i \in Creators : creators[i].pc # "undo"
ToldInv == TypesInv /\ NothingUndone /\ DisplacedIsTold

\* Both ends of a terminal keep their place, were told, or have left.
EndStays(t, c, end) ==
    c # None => \/ Live(t)' /\ end = c
                \/ c \in told'
                \/ conns'[c].pc = "closed"
EndsStay(t) == /\ EndStays(t, sessions[t].browser, sessions'[t].browser)
               /\ EndStays(t, sessions[t].bridge, sessions'[t].bridge)

LEMMA TellsAll ==
    ASSUME ~SlowPeers, NEW S, Tell(S)
    PROVE  told' = told \cup (S \ {None})
BY DEF Tell

LEMMA NothingIsUndone ==
    ASSUME ToldInv, ~SlowPeers, [Next]_vars
    PROVE  NothingUndone' /\ \A i \in Creators : ~UndoCreate(i)
<1>1. \A i \in Creators : ~UndoCreate(i) /\ ~StartRefused(i)
  BY DEF ToldInv, NothingUndone, UndoCreate, StartRefused
<1>2. UNCHANGED creators \/ CreateStep
  BY ZenonT(60) DEF vars, Next, TimeStep, DeadlinePasses, AttachTimeout, GraceTimeout, Connect,
         BrowserConnects, BridgeConnects, Attach, RegisterBrowser, RegisterBridge,
         RegisterRefused, Replay, ReplayFails, Hangup, Detach, BrowserLeaves, BridgeLeaves,
         StaleLeaves, Read, ReadStale, Oversized, Pause, Resume, Resize, Data, Output, Rejected,
         Forward, Lookup, BufferFrame, Send, SendRefused, DeleteDevice
<1>3. CASE UNCHANGED creators  BY <1>1, <1>3 DEF ToldInv, NothingUndone
<1>4. CASE CreateStep
  <2>1. PICK i \in Creators : (\E k \in Keys : Reuse(i, k) \/ Retry(i, k) \/ Create(i, k))
                                 \/ StartProxy(i)
    BY <1>1, <1>4 DEF CreateStep
  <2>2. \A j \in Creators \ {i} : creators'[j] = creators[j]
    BY <2>1 DEF Reuse, Retry, Create, StartProxy, ToldInv, TypesInv, TypeOK
  <2>3. creators'[i].pc # "undo"
    <3>1. creators[i] \in Request /\ creators \in [Creators -> Request]
      BY DEF ToldInv, TypesInv, TypeOK
    <3>2. CASE \E k \in Keys : Reuse(i, k)
      BY <3>1, <3>2 DEF Reuse, CreateIdle, Request
    <3>3. CASE \E k \in Keys : Retry(i, k)
      <4>1. PICK t, g : creators' = [creators EXCEPT ![i] =
                            [pc |-> "start", term |-> t, gen |-> g, left |-> @.left - 1]]
        BY <3>3 DEF Retry
      <4> QED  BY <3>1, <4>1
    <3>4. CASE \E k \in Keys : Create(i, k)
      <4>1. PICK t : creators' = [creators EXCEPT ![i] =
                         [pc |-> "start", term |-> t, gen |-> 1, left |-> @.left - 1]]
        BY <3>4 DEF Create
      <4> QED  BY <3>1, <4>1
    <3>5. CASE StartProxy(i)  BY <3>1, <3>5 DEF StartProxy, Request
    <3> QED  BY <2>1, <3>2, <3>3, <3>4, <3>5
  <2> QED  BY <1>1, <2>2, <2>3 DEF ToldInv, NothingUndone
<1> QED  BY <1>1, <1>2, <1>3, <1>4

LEMMA SameEndsStay ==
    ASSUME TypesInv, NEW t \in Terminals,
           sessions'[t].browser = sessions[t].browser, sessions'[t].bridge = sessions[t].bridge,
           sessions'[t].gen = sessions[t].gen \/ sessions'[t].gen # 0
    PROVE  EndsStay(t)
<1>1. CASE Live(t)
  BY <1>1, NoSessionIs DEF TypesInv, SessionsOK, EndsStay, EndStays, Live
<1>2. CASE ~Live(t)
  BY <1>2, NoSessionIs DEF EndsStay, EndStays, Live
<1> QED  BY <1>1, <1>2

LEMMA CreateStays ==
    ASSUME ToldInv, ~SlowPeers, CreateStep, \A i \in Creators : ~UndoCreate(i), NEW u \in Terminals
    PROVE  EndsStay(u)
<1> USE DEF ToldInv, TypesInv
<1>1. PICK i \in Creators :
          (\E k \in Keys : Reuse(i, k) \/ Retry(i, k) \/ Create(i, k)) \/ StartProxy(i)
  BY DEF CreateStep, StartRefused
<1>2. CASE \E k \in Keys : Reuse(i, k)
  <2>1. PICK t \in Terminals : Live(t) /\ sessions' = [sessions EXCEPT ![t].gone = None]
    BY <1>2 DEF Reuse, Reusable
  <2>2. /\ sessions'[u].browser = sessions[u].browser /\ sessions'[u].bridge = sessions[u].bridge
        /\ sessions'[u].gen = sessions[u].gen
    BY <2>1 DEF TypeOK, Session
  <2> QED  BY <2>2, SameEndsStay
<1>3. CASE \E k \in Keys : Retry(i, k) \/ Create(i, k)
  <2>1. PICK t \in Terminals : /\ sessions[t].browser = None /\ sessions[t].bridge = None
                               /\ u # t => sessions'[u] = sessions[u]
    <3>1. CASE \E k \in Keys : Retry(i, k)
      BY <3>1 DEF Retry, Reusable, TypeOK
    <3>2. CASE \E k \in Keys : Create(i, k)
      BY <3>2, NoSessionIs DEF Create, Unissued, Live, TypeOK
    <3> QED  BY <1>3, <3>1, <3>2
  <2>2. CASE u = t  BY <2>1, <2>2 DEF EndsStay, EndStays
  <2>3. CASE u # t  BY <2>1, <2>3, SameEndsStay
  <2> QED  BY <2>2, <2>3
<1>4. CASE StartProxy(i)  BY <1>4, SameEndsStay DEF StartProxy
<1> QED  BY <1>1, <1>2, <1>3, <1>4

LEMMA TimeStays ==
    ASSUME ToldInv, ~SlowPeers, TimeStep, NEW u \in Terminals
    PROVE  EndsStay(u)
<1> USE DEF ToldInv, TypesInv
<1>1. PICK t \in Terminals :
          \/ DeadlinePasses(t)
          \/ \E g \in 1..(MaxCreates * Cardinality(Creators)) : AttachTimeout(t, g)
          \/ \E at, by \in Conns : GraceTimeout(t, at, by)
  BY DEF TimeStep
<1>2. CASE DeadlinePasses(t)
  <2>1. /\ sessions'[u].browser = sessions[u].browser /\ sessions'[u].bridge = sessions[u].bridge
        /\ sessions'[u].gen = sessions[u].gen
    BY <1>2 DEF DeadlinePasses, TypeOK, Session
  <2> QED  BY <2>1, SameEndsStay
<1>3. ASSUME NEW g, AttachTimeout(t, g)  PROVE EndsStay(u)
  <2>1. CASE UNCHANGED sessions \/ u # t
    BY <1>3, <2>1, SameEndsStay DEF AttachTimeout, TypeOK
  <2>2. CASE u = t /\ ~ UNCHANGED sessions
    <3>1. sessions[u].bridge = None /\ Tell({sessions[u].browser})
      BY <1>3, <2>2 DEF AttachTimeout, Expires, Expired, TellBrowser
    <3>2. told' = told \cup ({sessions[u].browser} \ {None})  BY <3>1, TellsAll
    <3> QED  BY <3>1, <3>2 DEF EndsStay, EndStays
  <2> QED  BY <2>1, <2>2
<1>4. ASSUME NEW at, NEW by, GraceTimeout(t, at, by)  PROVE EndsStay(u)
  <2>1. CASE UNCHANGED sessions \/ u # t
    BY <1>4, <2>1, SameEndsStay DEF GraceTimeout, TypeOK
  <2>2. CASE u = t /\ ~ UNCHANGED sessions
    <3>1. sessions[u].browser = None /\ Tell({sessions[u].bridge})
      BY <1>4, <2>2 DEF GraceTimeout, StillGone
    <3>2. told' = told \cup ({sessions[u].bridge} \ {None})  BY <3>1, TellsAll
    <3> QED  BY <3>1, <3>2 DEF EndsStay, EndStays
  <2> QED  BY <2>1, <2>2
<1> QED  BY <1>1, <1>2, <1>3, <1>4

LEMMA DeletionStays ==
    ASSUME ToldInv, ~SlowPeers, NEW d, DeleteDevice(d), NEW u \in Terminals
    PROVE  EndsStay(u)
<1> USE DEF ToldInv, TypesInv
<1> DEFINE mine == {t \in Terminals : Live(t) /\ DeviceOf[sessions[t].key] = d}
           ends == {sessions[t].browser : t \in mine} \cup {sessions[t].bridge : t \in mine}
<1>1. /\ sessions' = [t \in Terminals |-> IF t \in mine THEN NoSession ELSE sessions[t]]
      /\ Tell(ends)
  BY DEF DeleteDevice
<1>2. told' = told \cup (ends \ {None})
  <2> HIDE DEF ends
  <2> QED  BY <1>1, TellsAll
<1>3. CASE u \in mine
  <2>1. sessions[u].browser \in ends /\ sessions[u].bridge \in ends  BY <1>3
  <2> HIDE DEF ends
  <2> QED  BY <1>2, <2>1 DEF EndsStay, EndStays
<1>4. CASE u \notin mine
  <2>1. sessions'[u] = sessions[u]  BY <1>1, <1>4
  <2> QED  BY <2>1, SameEndsStay
<1> QED  BY <1>3, <1>4

LEMMA RegisterStays ==
    ASSUME ToldInv, ~SlowPeers, NEW c \in Conns, RegisterBrowser(c) \/ RegisterBridge(c)
    PROVE  Current(c)' /\ \A u \in Terminals : EndsStay(u)
<1> USE DEF ToldInv, TypesInv
<1>0. conns[c].term \in Terminals /\ conns[c].kind \in {"browser", "bridge"}
  BY TermOf, ConnFields DEF RegisterBrowser, RegisterBridge
<1>9. PICK t \in Terminals : t = conns[c].term  BY <1>0
<1>1. t \in Terminals /\ Live(t) /\ sessions[t] \in Session /\ sessions[t].gen # 0
  BY <1>9, TermOf, SessionFields DEF RegisterBrowser, RegisterBridge, SessionsOK
<1>2. /\ t # 0 /\ conns'[c].term = t /\ conns'[c].kind = conns[c].kind
      /\ conns[c].kind \in {"browser", "bridge"}
  <2>1. conns[c] \in Conn /\ t # 0  BY ConnFields, BoundsAssumption DEF Terminals
  <2>2. CASE RegisterBrowser(c)
    BY <1>0, <1>9, <2>1, <2>2 DEF RegisterBrowser, Goto, TypeOK, Conn
  <2>3. CASE RegisterBridge(c)
    <3>1. PICK x, y : conns' = [conns EXCEPT ![c].todo = x, ![c].pc = y]
      BY <2>3 DEF RegisterBridge
    <3> QED  BY <1>0, <1>9, <2>1, <3>1 DEF TypeOK, Conn
  <2> QED  BY <2>2, <2>3
<1>3. \A u \in Terminals \ {t} : sessions'[u] = sessions[u]
  BY <1>9 DEF RegisterBrowser, RegisterBridge, TypeOK
<1>4. \A u \in Terminals \ {t} : EndsStay(u)  BY <1>3, SameEndsStay
<1>5. CASE RegisterBrowser(c)
  <2>1. /\ sessions'[t].gen = sessions[t].gen /\ sessions'[t].browser = c
        /\ sessions'[t].bridge = sessions[t].bridge
    BY <1>1, <1>5, <1>9 DEF RegisterBrowser, TypeOK, Session
  <2>2. Live(t)'  BY <1>1, <2>1, NoSessionIs DEF Live
  <2>3. told' = told \cup ({sessions[t].browser} \ {None})
    BY <1>5, <1>9, TellsAll DEF RegisterBrowser
  <2>4. EndsStay(t)  BY <2>1, <2>2, <2>3 DEF EndsStay, EndStays
  <2>5. Current(c)'  BY <1>2, <1>5, <2>1, <2>2 DEF Current, RegisterBrowser
  <2> QED  BY <1>4, <2>4, <2>5
<1>6. CASE RegisterBridge(c)
  <2>1. /\ sessions'[t].gen = sessions[t].gen /\ sessions'[t].bridge = c
        /\ sessions'[t].browser = sessions[t].browser
    BY <1>1, <1>6, <1>9 DEF RegisterBridge, TypeOK, Session
  <2>2. Live(t)'  BY <1>1, <2>1, NoSessionIs DEF Live
  <2>3. told' = told \cup ({sessions[t].bridge} \ {None})
    BY <1>6, <1>9, TellsAll DEF RegisterBridge
  <2>4. EndsStay(t)  BY <2>1, <2>2, <2>3 DEF EndsStay, EndStays
  <2>5. Current(c)'  BY <1>2, <1>6, <2>1, <2>2 DEF Current, RegisterBridge
  <2> QED  BY <1>4, <2>4, <2>5
<1> QED  BY <1>5, <1>6

LEMMA DetachStays ==
    ASSUME ToldInv, ~SlowPeers, NEW c \in Conns, BrowserLeaves(c) \/ BridgeLeaves(c), NEW u \in Terminals
    PROVE  EndsStay(u)
<1> USE DEF ToldInv, TypesInv
<1>0. conns[c].term \in Terminals /\ Live(conns[c].term) /\ conns[c].pc = "ended"
      /\ conns' = Goto(c, "closed")
  BY Leaves
<1>9. PICK t \in Terminals : t = conns[c].term  BY <1>0
<1> DEFINE at == LeftAt(t, c)
<1>1. t \in Terminals /\ Live(t) /\ sessions[t] \in Session /\ sessions[t].gen # 0
      /\ conns'[c].pc = "closed"
  BY <1>0, <1>9, SessionFields, SMTT(60) DEF SessionsOK, Goto, TypeOK, Conn
<1>2. CASE u # t
  BY <1>2, <1>9, SameEndsStay DEF BrowserLeaves, BridgeLeaves, TypeOK
<1>3. CASE u = t /\ BrowserLeaves(c)
  <2>1. sessions[t].browser = c  BY <1>3, <1>9 DEF BrowserLeaves, Mine, Current
  <2>2. \/ /\ sessions' = [sessions EXCEPT ![t] = NoSession]
           /\ sessions[t].bridge = None
        \/ sessions' = [sessions EXCEPT ![t].browser = None, ![t].gone = at]
    BY <1>3, <1>9 DEF BrowserLeaves, LeftAt
  <2> HIDE DEF at
  <2>3. sessions[t].bridge # None => Live(t)' /\ sessions'[t].bridge = sessions[t].bridge
    <3>1. ASSUME sessions' = [sessions EXCEPT ![t].browser = None, ![t].gone = at]
          PROVE  Live(t)' /\ sessions'[t].bridge = sessions[t].bridge
      <4>1. sessions'[t].gen = sessions[t].gen /\ sessions'[t].bridge = sessions[t].bridge
        BY <1>1, <3>1 DEF TypeOK, Session
      <4> QED  BY <1>1, <4>1, NoSessionIs DEF Live
    <3> QED  BY <2>2, <3>1
  <2> QED  BY <1>1, <1>3, <2>1, <2>3 DEF EndsStay, EndStays
<1>4. CASE u = t /\ BridgeLeaves(c)
  <2>1. sessions[t].bridge = c  BY <1>4, <1>9 DEF BridgeLeaves, Mine, Current
  <2>2. told' = told \cup ({sessions[t].browser} \ {None})
    BY <1>4, <1>9, TellsAll DEF BridgeLeaves
  <2> QED  BY <1>1, <1>4, <2>1, <2>2 DEF EndsStay, EndStays
<1> QED  BY <1>2, <1>3, <1>4

LEMMA StepStays ==
    ASSUME ToldInv, ~SlowPeers, [Next]_vars, NEW t \in Terminals
    PROVE  EndsStay(t)
<1>0. TypesInv  BY DEF ToldInv
<1>1. CASE UNCHANGED vars \/ \E c \in Conns :
              \/ Connect(c) \/ RegisterRefused(c) \/ Replay(c) \/ ReplayFails(c)
              \/ Hangup(c) \/ StaleLeaves(c)
  <2>1. UNCHANGED sessions  BY <1>1, OtherSteps DEF vars
  <2> QED  BY <1>0, <2>1, SameEndsStay
<1>2. CASE CreateStep  BY <1>2, NothingIsUndone, CreateStays
<1>3. CASE TimeStep  BY <1>3, TimeStays
<1>4. CASE \E d \in {DeviceOf[k] : k \in Keys} : DeleteDevice(d)  BY <1>4, DeletionStays
<1>5. CASE \E c \in Conns : RegisterBrowser(c) \/ RegisterBridge(c)  BY <1>5, RegisterStays
<1>6. CASE \E c \in Conns : BrowserLeaves(c) \/ BridgeLeaves(c)  BY <1>6, DetachStays
<1>7. CASE \E c \in Conns : Read(c) \/ Forward(c)
  BY <1>0, <1>7, FrameSteps, SameEndsStay DEF SameWaits
<1> QED  BY <1>1, <1>2, <1>3, <1>4, <1>5, <1>6, <1>7 DEF Next, Attach, Detach

\* A connection's task that took its place and has not ended.
Open(c) == conns[c].pc \in {"replay", "read", "lookup", "buffer", "send"}

\* A frame was read and is on its way.
InFlight == {"lookup", "buffer", "send"}
Facing(c, p) == conns[p].kind # conns[c].kind /\ conns[p].pc # "unused"

\* What a connection's step does to its task, and to no other's.
Reads(c, pc, sent) ==
    /\ sent \in {conns[c].sent, conns[c].sent + 1}
    /\ pc \in InFlight => sent = conns[c].sent + 1 \/ conns[c].pc \in InFlight
    /\ pc \in InFlight /\ conns[c].kind = "bridge"
           => conns[c].pc \in InFlight \/ ~sessions[conns[c].term].paused
TaskStep(c) ==
    /\ \A d \in Conns \ {c} : conns'[d] = conns[d]
    /\ conns[c].pc # "unused" =>
          /\ conns'[c].kind = conns[c].kind /\ conns'[c].term = conns[c].term
          /\ conns'[c].pc # "unused"
    /\ Open(c)' => Open(c) \/ RegisterBrowser(c) \/ RegisterBridge(c)
    /\ Reads(c, conns'[c].pc, conns'[c].sent)
    /\ conns'[c].pc = "send" => Facing(c, conns'[c].peer)

LEMMA GotoSteps ==
    ASSUME TypesInv, NEW c \in Conns, NEW pc \in {"read", "ended", "closed"}, conns' = Goto(c, pc),
           Open(c) \/ RegisterBrowser(c) \/ RegisterBridge(c) \/ pc \in {"ended", "closed"}
    PROVE  TaskStep(c)
<1>1. conns[c] \in Conn /\ conns \in [Conns -> Conn]  BY DEF TypesInv, TypeOK
<1>2. /\ conns'[c].kind = conns[c].kind /\ conns'[c].term = conns[c].term
      /\ conns'[c].sent = conns[c].sent
      /\ conns'[c].pc = pc /\ \A d \in Conns \ {c} : conns'[d] = conns[d]
  BY <1>1 DEF Conn, Goto
<1> QED  BY <1>2 DEF TaskStep, Reads, InFlight, Open

LEMMA SetSteps ==
    ASSUME TypesInv, NEW c \in Conns, NEW pc, pc # "unused", NEW x, NEW y, NEW z,
           conns' = [conns EXCEPT ![c].pc = pc, ![c].sent = x, ![c].peer = y, ![c].todo = z],
           Open(c) \/ RegisterBrowser(c) \/ RegisterBridge(c) \/ pc = "ended",
           Reads(c, pc, x), pc = "send" => Facing(c, y)
    PROVE  TaskStep(c)
<1>1. conns[c] \in Conn /\ conns \in [Conns -> Conn]  BY DEF TypesInv, TypeOK
<1>2. /\ conns'[c].kind = conns[c].kind /\ conns'[c].term = conns[c].term
      /\ conns'[c].pc = pc /\ conns'[c].sent = x /\ conns'[c].peer = y
      /\ \A d \in Conns \ {c} : conns'[d] = conns[d]
  BY <1>1 DEF Conn
<1> QED  BY <1>2 DEF TaskStep, Open

LEMMA ConnSteps ==
    ASSUME TypesInv, NEW c \in Conns,
           Connect(c) \/ Attach(c) \/ Hangup(c) \/ Detach(c) \/ Read(c) \/ Forward(c)
    PROVE  TaskStep(c)
<1>0. conns[c] \in Conn /\ conns \in [Conns -> Conn]  BY DEF TypesInv, TypeOK
<1>1. CASE Connect(c)
  <2>1. UNCHANGED conns
        \/ (conns[c].pc = "unused" /\ \E r : r.pc = "accepted" /\ conns' = [conns EXCEPT ![c] = r])
    BY <1>1, NoConnIs DEF Connect, BrowserConnects, BridgeConnects, Accept, Unused
  <2>2. conns[c].pc = "unused" /\ conns[c].sent = 0
    BY <1>1, NoConnIs DEF Connect, BrowserConnects, BridgeConnects, Unused
  <2>4. UNCHANGED conns \/ (conns'[c].pc = "accepted" /\ conns'[c].sent = 0)
    <3>1. UNCHANGED conns \/ \E kind, t : Accept(c, kind, t)
      BY <1>1 DEF Connect, BrowserConnects, BridgeConnects
    <3>2. ASSUME NEW kind, NEW t, Accept(c, kind, t)
          PROVE  conns'[c].pc = "accepted" /\ conns'[c].sent = 0
      BY <1>0, <3>2 DEF Accept
    <3> QED  BY <3>1, <3>2
  <2>5. Reads(c, conns'[c].pc, conns'[c].sent)  BY <2>2, <2>4 DEF Reads, InFlight
  <2> QED  BY <1>0, <2>1, <2>2, <2>4, <2>5 DEF TaskStep, Open
<1>2. CASE RegisterRefused(c) \/ Hangup(c) \/ BrowserLeaves(c) \/ BridgeLeaves(c)
           \/ StaleLeaves(c) \/ ReadStale(c) \/ Oversized(c)
  BY <1>2, GotoSteps
     DEF RegisterRefused, Hangup, BrowserLeaves, BridgeLeaves, StaleLeaves, ReadStale,
         Oversized, Rejected
<1>3. CASE RegisterBrowser(c)  BY <1>3, GotoSteps DEF RegisterBrowser
<1>4. CASE BufferFrame(c)
  BY <1>4, GotoSteps DEF BufferFrame, Open
<1>5. CASE Resize(c) /\ conns' = Goto(c, "ended")  BY <1>5, GotoSteps
<1>6. CASE RegisterBridge(c)
  <2>1. PICK pc \in {"read", "replay"} : conns' = [conns EXCEPT ![c].todo = sessions[conns[c].term].pending,
                                                               ![c].pc = pc]
    BY <1>6 DEF RegisterBridge
  <2>2. conns' = [conns EXCEPT ![c].pc = pc, ![c].sent = conns[c].sent, ![c].peer = conns[c].peer,
                               ![c].todo = sessions[conns[c].term].pending]
    BY <1>0, <2>1 DEF Conn
  <2>3. Reads(c, pc, conns[c].sent)  BY <2>1 DEF Reads, InFlight
  <2> QED  BY <1>6, <2>2, <2>3, SetSteps
<1>7. CASE Replay(c) \/ ReplayFails(c)
  <2>1. \E pc \in {"read", "replay", "ended"} : \E z :
            conns' = [conns EXCEPT ![c].todo = z, ![c].pc = pc]
    <3>1. CASE Replay(c)  BY <3>1 DEF Replay
    <3>2. CASE ReplayFails(c)
      <4>1. conns' = [conns EXCEPT ![c].todo = <<>>, ![c].pc = "ended"]
        BY <1>0, <3>2 DEF ReplayFails, Conn
      <4> QED  BY <4>1
    <3> QED  BY <1>7, <3>1, <3>2
  <2>p. PICK pc \in {"read", "replay", "ended"} : \E z :
            conns' = [conns EXCEPT ![c].todo = z, ![c].pc = pc]
    BY <2>1
  <2>z. PICK z : conns' = [conns EXCEPT ![c].todo = z, ![c].pc = pc]
    BY <2>p
  <2>2. conns' = [conns EXCEPT ![c].pc = pc, ![c].sent = conns[c].sent, ![c].peer = conns[c].peer,
                               ![c].todo = z]
    BY <1>0, <2>z DEF Conn
  <2>3. Open(c) /\ Reads(c, pc, conns[c].sent)
    BY <1>7, <2>p DEF Replay, ReplayFails, Open, Reads, InFlight
  <2> QED  BY <2>p, <2>2, <2>3, SetSteps
<1>8. CASE \/ Pause(c) \/ Resume(c) \/ Data(c) \/ Output(c)
           \/ Resize(c) /\ conns' # Goto(c, "ended")
  <2>1. Open(c) /\ conns[c].pc = "read"
    BY <1>8 DEF Pause, Resume, Data, Output, Resize, BrowserSends, NextFrame, Open
  <2> DEFINE b == sessions[conns[c].term].bridge
  <2>2. \/ conns' = [conns EXCEPT ![c].sent = @ + 1]
        \/ /\ conns' = [conns EXCEPT ![c].sent = @ + 1, ![c].pc = "lookup"]
           /\ conns[c].kind = "browser" \/ ~sessions[conns[c].term].paused
        \/ /\ conns' = [conns EXCEPT ![c].sent = @ + 1, ![c].pc = "send", ![c].peer = b]
           /\ conns[c].kind = "browser" /\ b # None
    BY <1>8 DEF Pause, Resume, Data, Output, Resize, BrowserSends
  <2>3. b # None /\ conns[c].kind = "browser" => Facing(c, b)
    BY <2>1, TermOf DEF Facing, TypesInv, SessionsOK
  <2> HIDE DEF b
  <2>4. CASE conns' = [conns EXCEPT ![c].sent = @ + 1]
    <3>1. conns' = [conns EXCEPT ![c].pc = "read", ![c].sent = conns[c].sent + 1,
                                 ![c].peer = conns[c].peer, ![c].todo = conns[c].todo]
      BY <1>0, <2>1, <2>4 DEF Conn
    <3> QED  BY <2>1, <3>1, SetSteps DEF Reads, InFlight
  <2>5. CASE /\ conns' = [conns EXCEPT ![c].sent = @ + 1, ![c].pc = "lookup"]
             /\ conns[c].kind = "browser" \/ ~sessions[conns[c].term].paused
    <3>1. conns' = [conns EXCEPT ![c].pc = "lookup", ![c].sent = conns[c].sent + 1,
                                 ![c].peer = conns[c].peer, ![c].todo = conns[c].todo]
      BY <1>0, <2>5 DEF Conn
    <3>2. Reads(c, "lookup", conns[c].sent + 1)  BY <2>5 DEF Reads, InFlight
    <3>3. "lookup" # "send" /\ "lookup" # "unused"  OBVIOUS
    <3> QED  BY ONLY TypesInv, <2>1, <3>1, <3>2, <3>3, c \in Conns, SetSteps
  <2>6. CASE /\ conns' = [conns EXCEPT ![c].sent = @ + 1, ![c].pc = "send", ![c].peer = b]
             /\ conns[c].kind = "browser" /\ b # None
    <3>1. conns' = [conns EXCEPT ![c].pc = "send", ![c].sent = conns[c].sent + 1,
                                 ![c].peer = b, ![c].todo = conns[c].todo]
      BY <1>0, <2>6 DEF Conn
    <3>2. Reads(c, "send", conns[c].sent + 1)  BY <2>6 DEF Reads, InFlight
    <3>3. Facing(c, b)  BY <2>3, <2>6
    <3> QED  BY <2>1, <3>1, <3>2, <3>3, SetSteps
  <2> QED  BY <2>2, <2>4, <2>5, <2>6
<1>9. CASE Lookup(c) \/ Send(c) \/ SendRefused(c)
  <2>1. Open(c) /\ conns[c].pc \in {"lookup", "send"}
    BY <1>9 DEF Lookup, Send, SendRefused, Open
  <2>p. \E pc \in {"read", "buffer", "send", "ended"} : \E y :
            conns' = [conns EXCEPT ![c].pc = pc, ![c].peer = y] /\ (pc = "send" => Facing(c, y))
    <3>1. CASE Lookup(c)
      <4>1. PICK pc \in {"read", "buffer", "send", "ended"} :
                /\ conns' = [conns EXCEPT ![c].peer = Counterpart(c), ![c].pc = pc]
                /\ pc = "send" => Counterpart(c) # None
        BY <3>1 DEF Lookup
      <4>2. conns' = [conns EXCEPT ![c].pc = pc, ![c].peer = Counterpart(c)]
        BY <1>0, <4>1 DEF Conn
      <4>3. pc = "send" => Facing(c, Counterpart(c))
        BY <2>1, <4>1, CounterpartIs DEF Facing
      <4> QED  BY <4>2, <4>3
    <3>2. CASE Send(c)
      <4>1. conns' = [conns EXCEPT ![c].pc = "read", ![c].peer = None]  BY <3>2 DEF Send
      <4> QED  BY <4>1
    <3>3. CASE SendRefused(c)
      <4>1. conns' = [conns EXCEPT ![c].pc = "ended", ![c].peer = None]  BY <3>3 DEF SendRefused
      <4> QED  BY <4>1
    <3> QED  BY <1>9, <3>1, <3>2, <3>3
  <2>q. PICK pc \in {"read", "buffer", "send", "ended"} : \E y :
            conns' = [conns EXCEPT ![c].pc = pc, ![c].peer = y] /\ (pc = "send" => Facing(c, y))
    BY <2>p
  <2>2. PICK y : conns' = [conns EXCEPT ![c].pc = pc, ![c].peer = y] /\ (pc = "send" => Facing(c, y))
    BY <2>q
  <2>3. conns' = [conns EXCEPT ![c].pc = pc, ![c].sent = conns[c].sent, ![c].peer = y,
                               ![c].todo = conns[c].todo]
    BY <1>0, <2>2 DEF Conn
  <2>4. Reads(c, pc, conns[c].sent)  BY <2>1 DEF Reads, InFlight
  <2>5. pc # "unused"  BY <2>q
  <2>6. pc = "send" => Facing(c, y)  BY <2>2
  <2>7. Open(c)  BY <2>1
  <2> HIDE <2>1, <2>2, <2>q
  <2> QED  BY <2>3, <2>4, <2>5, <2>6, <2>7, SetSteps
<1> QED
  BY <1>1, <1>2, <1>3, <1>4, <1>5, <1>6, <1>7, <1>8, <1>9 DEF Attach, Detach, Read, Forward

LEMMA ToldGrows ==
    ASSUME [Next]_vars
    PROVE  told \subseteq told'
<1>1. UNCHANGED told \/ \E S : Tell(S)
  BY ZenonT(60) DEF vars, Next, CreateStep, Reuse, Retry, Create, StartProxy, StartRefused, UndoCreate,
         TimeStep, DeadlinePasses, AttachTimeout, TellBrowser, GraceTimeout, Connect,
         BrowserConnects, BridgeConnects, Attach, RegisterBrowser, RegisterBridge,
         RegisterRefused, Replay, ReplayFails, Hangup, Detach, BrowserLeaves, BridgeLeaves,
         StaleLeaves, Read, ReadStale, Oversized, Pause, Resume, Resize, Data, Output, Rejected,
         Forward, Lookup, BufferFrame, Send, SendRefused, DeleteDevice
<1> QED  BY <1>1 DEF Tell

LEMMA OpenIs ==
    ASSUME TypesInv
    PROVE  DisplacedIsTold <=> \A c \in Conns : Open(c) => Current(c) \/ c \in told
BY ConnFields, NoConnIs DEF DisplacedIsTold, Open, TypesInv, TasksOK, TaskOK

LEMMA StepTells ==
    ASSUME ToldInv, ~SlowPeers, [Next]_vars
    PROVE  ToldInv'
<1>0. TypesInv /\ TypesInv' /\ NothingUndone'
  BY StepKeepsTypes, NothingIsUndone DEF ToldInv
<1>1. ASSUME NEW c \in Conns, Open(c)'
      PROVE  \/ RegisterBrowser(c) \/ RegisterBridge(c)
             \/ /\ Open(c) /\ conns'[c].kind = conns[c].kind
                /\ conns'[c].term = conns[c].term
  <2>1. CASE UNCHANGED conns  BY <1>1, <2>1 DEF Open
  <2>2. CASE \E d \in Conns : Connect(d) \/ Attach(d) \/ Hangup(d) \/ Detach(d) \/ Read(d) \/ Forward(d)
    <3>1. PICK d \in Conns : TaskStep(d)  BY <1>0, <2>2, ConnSteps
    <3>2. CASE d = c  BY <1>1, <3>1, <3>2 DEF TaskStep, Open
    <3>3. CASE d # c  BY <1>1, <3>1, <3>3 DEF TaskStep, Open
    <3> QED  BY <3>2, <3>3
  <2>3. CASE CreateStep \/ TimeStep \/ \E d \in {DeviceOf[k] : k \in Keys} : DeleteDevice(d)
    <3>1. UNCHANGED conns
      BY <2>3 DEF CreateStep, Reuse, Retry, Create, StartProxy, StartRefused, UndoCreate,
         TimeStep, DeadlinePasses, AttachTimeout, GraceTimeout, DeleteDevice
    <3> QED  BY <2>1, <3>1
  <2> QED  BY <2>1, <2>2, <2>3 DEF Next, vars
<1>2. ASSUME NEW c \in Conns, Open(c)'
      PROVE  Current(c)' \/ c \in told'
  <2>1. CASE RegisterBrowser(c) \/ RegisterBridge(c)  BY <2>1, RegisterStays
  <2>2. CASE /\ Open(c) /\ conns'[c].kind = conns[c].kind
             /\ conns'[c].term = conns[c].term
    <3>1. Current(c) \/ c \in told  BY <1>0, <2>2, OpenIs DEF ToldInv
    <3>2. CASE Current(c)
      <4>1. PICK t \in Terminals : t = conns[c].term
        BY <1>0, <2>2, TermOf DEF Open
      <4>2. t # 0 /\ c # None /\ conns[c].kind \in {"browser", "bridge"}
        BY <1>0, ConnFields, BoundsAssumption DEF Terminals, Conns, None, TypesInv
      <4>3. c = IF conns[c].kind = "browser" THEN sessions[t].browser ELSE sessions[t].bridge
        BY <3>2, <4>1 DEF Current
      <4>4. EndsStay(t)  BY StepStays
      <4>5. \/ /\ Live(t)'
               /\ c = IF conns[c].kind = "browser" THEN sessions'[t].browser
                                                  ELSE sessions'[t].bridge
            \/ c \in told' \/ conns'[c].pc = "closed"
        BY <4>2, <4>3, <4>4 DEF EndsStay, EndStays
      <4>6. conns'[c].pc # "closed"  BY <1>2 DEF Open
      <4> QED  BY <2>2, <4>1, <4>2, <4>5, <4>6 DEF Current, Live
    <3> QED  BY <3>1, <3>2, ToldGrows
  <2> QED  BY <1>1, <1>2, <2>1, <2>2
<1>3. DisplacedIsTold' <=> \A c \in Conns : Open(c)' => Current(c)' \/ c \in told'
  <2>1. /\ \A c \in Conns : conns'[c].pc \in {"unused", "accepted", "replay", "read", "lookup",
                                              "buffer", "send", "ended", "closed"}
        /\ \A c \in Conns : conns'[c].pc = "unused" => conns'[c] = NoConn
    BY <1>0 DEF TypesInv, TypeOK, Conn, TasksOK, TaskOK
  <2> QED  BY <2>1, NoConnIs DEF DisplacedIsTold, Open
<1> QED  BY <1>0, <1>2, <1>3 DEF ToldInv

\* While every queue has room, a connection that lost its place, to a
\* replacement, a timeout, a cleanup or a deletion, was sent a Close
\* (register_terminal_connection, expire_unattached_terminal,
\* cleanup_terminal_session_if_browser_absent, disconnect_device_runtime).
THEOREM TheDisplacedAreTold ==
    ASSUME ~SlowPeers
    PROVE  Spec => []DisplacedIsTold
<1>1. Init => ToldInv
  <2>1. Init => TypesInv  BY InitTypes
  <2>2. Init => NothingUndone /\ DisplacedIsTold
    BY DEF Init, NothingUndone, DisplacedIsTold
  <2> QED  BY <2>1, <2>2 DEF ToldInv
<1>2. ToldInv /\ [Next]_vars => ToldInv'  BY StepTells
<1>3. ToldInv => DisplacedIsTold  BY DEF ToldInv
<1> QED  BY <1>1, <1>2, <1>3, PTL DEF Spec

-----------------------------------------------------------------------------
(* The order of the output.                                                 *)

LEMMA OrderedAppend ==
    ASSUME NEW q \in Seq(Frames), NEW f \in Frames, InOrder(q),
           \A g \in Range(q) : g[1] = f[1] => g[2] < f[2]
    PROVE  InOrder(Append(q, f)) /\ Range(Append(q, f)) = Range(q) \cup {f}
<1> DEFINE r == Append(q, f)
<1>1. /\ r \in Seq(Frames) /\ Len(r) = Len(q) + 1 /\ Len(q) \in Nat
      /\ \A i \in 1..Len(q) : r[i] = q[i]
      /\ r[Len(q) + 1] = f
  BY AppendProperties, LenProperties
<1> HIDE DEF r
<1>2. Range(q) = {q[i] : i \in 1..Len(q)} /\ Range(r) = {r[i] : i \in 1..Len(r)}
  BY <1>1, RangeEquality
<1>3. Range(r) = Range(q) \cup {f}
  <2>1. ASSUME NEW i \in 1..Len(r)  PROVE r[i] \in Range(q) \cup {f}
    <3>1. i \in 1..Len(q) \/ i = Len(q) + 1  BY <1>1
    <3> QED  BY <1>1, <1>2, <3>1
  <2>2. ASSUME NEW i \in 1..Len(q)  PROVE q[i] \in Range(r)
    <3>1. i \in 1..Len(r) /\ r[i] = q[i]  BY <1>1
    <3> QED  BY <1>2, <3>1
  <2>3. f \in Range(r)
    <3>1. Len(q) + 1 \in 1..Len(r)  BY <1>1
    <3> QED  BY <1>1, <1>2, <3>1
  <2> QED  BY <1>2, <2>1, <2>2, <2>3
<1>4. ASSUME NEW i \in 1..Len(r), NEW j \in 1..Len(r), i < j, r[i][1] = r[j][1]
      PROVE  r[i][2] < r[j][2]
  <2>1. i \in 1..Len(q) /\ r[i] = q[i] /\ q[i] \in Range(q)  BY <1>1, <1>2, <1>4
  <2>2. CASE j \in 1..Len(q)
    <3>1. r[j] = q[j]  BY <1>1, <2>2
    <3> QED  BY <1>4, <2>1, <2>2, <3>1 DEF InOrder
  <2>3. CASE j = Len(q) + 1
    <3>1. r[j] = f  BY <1>1, <2>3
    <3> QED  BY <1>4, <2>1, <3>1
  <2> QED  BY <1>1, <2>2, <2>3
<1> QED  BY <1>3, <1>4 DEF InOrder, r

LEMMA OrderedTail ==
    ASSUME NEW q \in Seq(Frames), q # <<>>, InOrder(q)
    PROVE  Tail(q) \in Seq(Frames) /\ InOrder(Tail(q)) /\ Range(Tail(q)) \subseteq Range(q)
<1> DEFINE r == Tail(q)
<1>1. /\ r \in Seq(Frames) /\ Len(r) = Len(q) - 1 /\ Len(q) \in Nat
      /\ \A i \in 1..Len(r) : r[i] = q[i + 1]
  BY HeadTailProperties, LenProperties
<1> HIDE DEF r
<1>2. Range(q) = {q[i] : i \in 1..Len(q)} /\ Range(r) = {r[i] : i \in 1..Len(r)}
  BY <1>1, RangeEquality
<1>3. \A i \in 1..Len(r) : i + 1 \in 1..Len(q)  BY <1>1
<1>4. InOrder(r)
  <2> SUFFICES ASSUME NEW i \in 1..Len(r), NEW j \in 1..Len(r), i < j, r[i][1] = r[j][1]
               PROVE  r[i][2] < r[j][2]
    BY DEF InOrder
  <2>1. i + 1 < j + 1 /\ r[i] = q[i + 1] /\ r[j] = q[j + 1]  BY <1>1
  <2> QED  BY <1>3, <2>1 DEF InOrder
<1> QED  BY <1>1, <1>2, <1>3, <1>4 DEF r

LEMMA OrderedReplay ==
    ASSUME NEW s \in Seq(Frames), NEW q \in Seq(Frames), InOrder(s), InOrder(q),
           \A f \in Range(s), g \in Range(q) : f[1] = g[1] => f[2] < g[2],
           NEW n \in 0..Len(q)
    PROVE  LET r == s \o SubSeq(q, 1, n) IN InOrder(r) /\ Range(r) \subseteq Range(s) \cup Range(q)
<1> DEFINE p == SubSeq(q, 1, n)
           r == s \o p
<1>0. Len(q) \in Nat /\ Len(s) \in Nat /\ \A i \in 1..n : i \in 1..Len(q) /\ q[i] \in Frames
  BY LenProperties, ElementOfSeq
<1>1. p \in Seq(Frames) /\ Len(p) = n /\ \A i \in 1..n : p[i] = q[i]
  <2>1. \A i \in 1..n : q[i] \in Frames  BY <1>0
  <2>2. n \in Nat /\ n \in Int /\ 1 \in Int  BY <1>0
  <2>3. /\ p \in Seq(Frames) /\ Len(p) = IF 1 <= n THEN n - 1 + 1 ELSE 0
        /\ \A i \in 1..(n - 1 + 1) : p[i] = q[1 + i - 1]
    BY <2>1, <2>2, SubSeqProperties
  <2> QED  BY <2>2, <2>3
<1> HIDE DEF p
<1>2. /\ r \in Seq(Frames) /\ Len(r) = Len(s) + n
      /\ \A i \in 1..(Len(s) + n) : r[i] = IF i <= Len(s) THEN s[i] ELSE p[i - Len(s)]
  BY <1>1, ConcatProperties
<1> HIDE DEF r
<1>3. /\ Range(s) = {s[i] : i \in 1..Len(s)} /\ Range(q) = {q[i] : i \in 1..Len(q)}
      /\ Range(r) = {r[i] : i \in 1..Len(r)}
  BY <1>2, RangeEquality
<1>4. ASSUME NEW i \in 1..Len(r)
      PROVE  \/ i \in 1..Len(s) /\ r[i] = s[i] /\ r[i] \in Range(s)
             \/ /\ i > Len(s) /\ i - Len(s) \in 1..Len(q) /\ r[i] = q[i - Len(s)]
                /\ r[i] \in Range(q)
  <2>1. CASE i <= Len(s)  BY <1>0, <1>2, <1>3, <2>1
  <2>2. CASE i > Len(s)
    <3>0. n \in Nat /\ i \in Nat /\ i <= Len(s) + n  BY <1>0, <1>2
    <3>1. i - Len(s) \in 1..n /\ r[i] = p[i - Len(s)]
      <4>1. i \in 1..(Len(s) + n) /\ ~(i <= Len(s))  BY <1>0, <1>2, <2>2
      <4> QED  BY <1>0, <1>2, <2>2, <3>0, <4>1
    <3> QED  BY <1>0, <1>1, <1>3, <2>2, <3>1
  <2> QED  BY <1>0, <2>1, <2>2
<1>5. ASSUME NEW i \in 1..Len(r), NEW j \in 1..Len(r), i < j, r[i][1] = r[j][1]
      PROVE  r[i][2] < r[j][2]
  <2>1. CASE j \in 1..Len(s) /\ r[j] = s[j]
    <3>1. i \in 1..Len(s) /\ r[i] = s[i]  BY <1>0, <1>2, <1>4, <1>5, <2>1
    <3> QED  BY <1>5, <2>1, <3>1 DEF InOrder
  <2>2. CASE j > Len(s) /\ j - Len(s) \in 1..Len(q) /\ r[j] = q[j - Len(s)] /\ r[j] \in Range(q)
    <3>1. CASE r[i] \in Range(s)  BY <1>5, <2>2, <3>1
    <3>2. CASE i - Len(s) \in 1..Len(q) /\ r[i] = q[i - Len(s)]
      <4>1. i - Len(s) < j - Len(s)  BY <1>0, <1>5
      <4> QED  BY <1>5, <2>2, <3>2, <4>1 DEF InOrder
    <3> QED  BY <1>4, <3>1, <3>2
  <2> QED  BY <1>4, <2>1, <2>2
<1> QED  BY <1>3, <1>4, <1>5 DEF InOrder, r, p

\* What a session holds back was read from a bridge of its own that has
\* nothing on its way past the buffer.
BufferOK(t) == LET s == sessions[t] IN
    /\ ~s.paused => s.buffer = <<>>
    /\ InOrder(s.buffer)
    /\ \A f \in Range(s.buffer) :
          /\ conns[f[1]].kind = "bridge" /\ conns[f[1]].term = t
          /\ f[2] <= conns[f[1]].sent /\ conns[f[1]].pc \notin InFlight

\* What a browser got is in order, older than what is on its way, and older than
\* what its session holds back.
GotOK(c) == conns[c].kind = "browser" =>
    /\ InOrder(got[c])
    /\ \A f \in Range(got[c]) :
          /\ f[2] <= conns[f[1]].sent
          /\ conns[f[1]].pc \in InFlight => f[2] < conns[f[1]].sent
    /\ conns[c].pc = "unused" => got[c] = <<>>
    /\ conns[c].pc # "unused" =>
          \A f \in Range(got[c]), g \in Range(sessions[conns[c].term].buffer) :
              f[1] = g[1] => f[2] < g[2]

PeersOK == \A c \in Conns : conns[c].pc = "send" => Facing(c, conns[c].peer)

OrderInv ==
    /\ TypesInv /\ PeersOK
    /\ \A t \in Terminals : BufferOK(t)
    /\ \A c \in Conns : GotOK(c)

LEMMA OfNothing == Range(<<>>) = {} /\ InOrder(<<>>)
<1>1. <<>> \in Seq(Frames) /\ Len(<<>>) = 0  BY EmptySeq
<1>2. 1..0 = {}  OBVIOUS
<1>3. Range(<<>>) = {<<>>[i] : i \in 1..0}  BY <1>1, RangeEquality
<1> QED  BY <1>1, <1>2, <1>3 DEF InOrder

\* A frame is of some connection and has a number.
LEMMA FramesAre ==
    ASSUME TypesInv, NEW q \in Seq(Frames), NEW f \in Range(q)
    PROVE  f \in Frames /\ f[1] \in Conns /\ f[2] \in Nat /\ f[2] >= 1 /\ conns[f[1]].sent \in Nat
<1>1. f \in Frames  BY RangeOfSeq
<1>2. f[1] \in Conns /\ f[2] \in 1..MaxFrames  BY <1>1 DEF Frames
<1> QED  BY <1>1, <1>2, ConnFields, BoundsAssumption DEF TypesInv

\* Going on, whatever the step: numbers grow, and what is on its way is new or was.
GoesOn(d) ==
    /\ conns[d].pc # "unused" =>
          /\ conns'[d].kind = conns[d].kind /\ conns'[d].term = conns[d].term
          /\ conns'[d].pc # "unused"
    /\ Reads(d, conns'[d].pc, conns'[d].sent)

LEMMA AllGoOn ==
    ASSUME TypesInv, UNCHANGED conns \/ \E c \in Conns : TaskStep(c)
    PROVE  Steady /\ \A d \in Conns : GoesOn(d)
BY DEF Steady, GoesOn, TaskStep, Reads, InFlight

LEMMA PeersGoOn ==
    ASSUME TypesInv, TypesInv', PeersOK, UNCHANGED conns \/ \E c \in Conns : TaskStep(c)
    PROVE  PeersOK'
<1>1. Steady /\ \A d \in Conns : conns'[d].pc # "unused" \/ conns[d].pc = "unused"
  BY AllGoOn DEF Steady
<1>2. ASSUME NEW c \in Conns, conns'[c].pc = "send"
      PROVE  LET p == conns'[c].peer IN conns'[p].kind # conns'[c].kind /\ conns'[p].pc # "unused"
  <2>1. Facing(c, conns'[c].peer)
    <3>1. CASE UNCHANGED conns  BY <1>2, <3>1 DEF PeersOK
    <3>2. CASE \E d \in Conns : TaskStep(d)  BY <1>2, <3>2 DEF PeersOK, TaskStep, Facing
    <3> QED  BY <3>1, <3>2
  <2>2. conns'[c].peer \in Conns
    BY <1>2 DEF TypesInv, TypeOK, Conn, TasksOK, TaskOK
  <2>3. conns[c].pc # "unused"
    <3>1. CASE UNCHANGED conns  BY <1>2, <3>1
    <3>2. CASE \E d \in Conns : TaskStep(d)
      BY <1>2, <3>2, NoConnIs DEF TaskStep, Reads, InFlight, Open, RegisterBrowser, RegisterBridge
    <3> QED  BY <3>1, <3>2
  <2>4. PICK p \in Conns : p = conns'[c].peer  BY <2>2
  <2>5. conns'[p].kind = conns[p].kind /\ conns'[p].pc # "unused" /\ conns'[c].kind = conns[c].kind
    BY <1>1, <2>1, <2>3, <2>4 DEF Steady, Facing
  <2> QED  BY <2>1, <2>4, <2>5 DEF Facing
<1> QED  BY <1>2 DEF PeersOK, Facing

\* A buffer to which nothing is added.
LEMMA BufferKept ==
    ASSUME OrderInv, Steady, \A d \in Conns : GoesOn(d), NEW t \in Terminals,
           \/ /\ sessions'[t].buffer = sessions[t].buffer
              /\ sessions'[t].paused = sessions[t].paused
           \/ sessions'[t].buffer = <<>>
    PROVE  BufferOK(t)'
<1> USE DEF OrderInv
<1>0. Steady /\ \A d \in Conns : GoesOn(d)  OBVIOUS
<1>1. CASE sessions'[t].buffer = <<>>  BY <1>1, OfNothing DEF BufferOK
<1>2. CASE /\ sessions'[t].buffer = sessions[t].buffer
           /\ sessions'[t].paused = sessions[t].paused
  <2>1. sessions[t].buffer \in Seq(Frames)  BY SessionFields DEF TypesInv
  <2>2. ASSUME NEW f \in Range(sessions[t].buffer)
        PROVE  /\ conns'[f[1]].kind = "bridge" /\ conns'[f[1]].term = t
               /\ f[2] <= conns'[f[1]].sent /\ conns'[f[1]].pc \notin InFlight
    <3>1. f[1] \in Conns /\ f[2] \in Nat /\ conns[f[1]].sent \in Nat
      BY <2>1, FramesAre
    <3>2. /\ conns[f[1]].kind = "bridge" /\ conns[f[1]].term = t
          /\ f[2] <= conns[f[1]].sent /\ conns[f[1]].pc \notin InFlight
      BY DEF BufferOK
    <3>3. conns[f[1]].pc # "unused"
      BY <3>1, <3>2, NoConnIs DEF TypesInv, TasksOK, TaskOK
    <3>4. sessions[t].paused
      <4>1. sessions[t].buffer # <<>>  BY OfNothing
      <4> QED  BY <4>1 DEF BufferOK
    <3>5. GoesOn(f[1])  BY <1>0, <3>1
    <3> QED  BY <3>1, <3>2, <3>3, <3>4, <3>5 DEF GoesOn, Reads
  <2> QED  BY <1>2, <2>2 DEF BufferOK
<1> QED  BY <1>1, <1>2

\* What a browser got when nothing is added to it or to the buffer behind it.
LEMMA GotKept ==
    ASSUME OrderInv, Steady, \A d \in Conns : GoesOn(d), NEW c \in Conns,
           conns[c].kind = "browser" => got'[c] = got[c],
           \A t \in Terminals : \/ sessions'[t].buffer = sessions[t].buffer
                               \/ sessions'[t].buffer = <<>>
    PROVE  GotOK(c)'
<1> USE DEF OrderInv
<1>0. Steady /\ \A d \in Conns : GoesOn(d)  OBVIOUS
<1> SUFFICES ASSUME conns'[c].kind = "browser"  PROVE GotOK(c)'
  BY DEF GotOK
<1>1. conns[c].kind = "browser" \/ conns[c].pc = "unused"  BY <1>0 DEF Steady
<1>2. conns[c].kind = "browser"  BY <1>1, NoConnIs DEF TypesInv, TasksOK, TaskOK
<1>3. got'[c] = got[c] /\ got[c] \in Seq(Frames) /\ InOrder(got[c])
  BY <1>2 DEF GotOK, TypesInv, TypeOK
<1>4. ASSUME NEW f \in Range(got[c])
      PROVE  /\ f[2] <= conns'[f[1]].sent
             /\ conns'[f[1]].pc \in InFlight => f[2] < conns'[f[1]].sent
  <2>1. f[1] \in Conns /\ f[2] \in Nat /\ conns[f[1]].sent \in Nat  BY <1>3, FramesAre
  <2>2. /\ f[2] <= conns[f[1]].sent
        /\ conns[f[1]].pc \in InFlight => f[2] < conns[f[1]].sent
    BY <1>2 DEF GotOK
  <2>3. GoesOn(f[1])  BY <1>0, <2>1
  <2> QED  BY <2>1, <2>2, <2>3 DEF GoesOn, Reads
<1>5. CASE conns[c].pc = "unused"
  <2>1. got'[c] = <<>>  BY <1>2, <1>3, <1>5 DEF GotOK
  <2> QED  BY <1>3, <2>1, OfNothing DEF GotOK
<1>6. CASE conns[c].pc # "unused"
  <2>1. conns'[c].pc # "unused" /\ conns'[c].term = conns[c].term  BY <1>0, <1>6 DEF Steady
  <2>2. PICK t \in Terminals : t = conns[c].term  BY <1>6, TermOf
  <2>3. \A f \in Range(got[c]), g \in Range(sessions'[t].buffer) : f[1] = g[1] => f[2] < g[2]
    <3>1. \A f \in Range(got[c]), g \in Range(sessions[t].buffer) : f[1] = g[1] => f[2] < g[2]
      BY <1>2, <1>6, <2>2 DEF GotOK
    <3>2. CASE sessions'[t].buffer = <<>>  BY <3>2, OfNothing
    <3>3. CASE sessions'[t].buffer = sessions[t].buffer  BY <3>1, <3>3
    <3> QED  BY <3>2, <3>3
  <2> QED  BY <1>3, <1>4, <2>1, <2>2, <2>3 DEF GotOK
<1> QED  BY <1>5, <1>6

\* A step that adds nothing to a buffer or to what a browser got.
LEMMA OrderKept ==
    ASSUME OrderInv, TypesInv', UNCHANGED conns \/ \E c \in Conns : TaskStep(c),
           \A t \in Terminals :
               \/ /\ sessions'[t].buffer = sessions[t].buffer
                  /\ sessions'[t].paused = sessions[t].paused
               \/ sessions'[t].buffer = <<>>,
           \A c \in Conns : conns[c].kind = "browser" => got'[c] = got[c]
    PROVE  OrderInv'
<1>1. Steady /\ \A d \in Conns : GoesOn(d)  BY AllGoOn DEF OrderInv
<1>2. \A t \in Terminals : BufferOK(t)'  BY <1>1, BufferKept
<1>3. \A c \in Conns : GotOK(c)'  BY <1>1, GotKept
<1>4. PeersOK'  BY PeersGoOn DEF OrderInv
<1> QED  BY <1>2, <1>3, <1>4 DEF OrderInv

LEMMA OutputOrder ==
    ASSUME OrderInv, TypesInv', NEW c \in Conns, Output(c), sessions[conns[c].term].paused
    PROVE  OrderInv'
<1> USE DEF OrderInv
<1>0. TaskStep(c)  BY ConnSteps DEF Read
<1>1. Steady /\ \A d \in Conns : GoesOn(d)  BY <1>0, AllGoOn
<1>2. conns[c].term \in Terminals /\ conns[c].sent \in 0..MaxFrames /\ conns[c] \in Conn
  BY ReadsOne, ConnFields DEF Output, TypesInv
<1>3. PICK t \in Terminals : t = conns[c].term  BY <1>2
<1> DEFINE f == <<c, conns[c].sent + 1>>
           buf == sessions[t].buffer
<1>4. /\ conns[c].kind = "bridge" /\ conns[c].pc = "read" /\ sessions[t].paused
      /\ conns' = [conns EXCEPT ![c].sent = @ + 1] /\ UNCHANGED got
      /\ sessions' = [sessions EXCEPT ![t].buffer = DropOldest(@, <<c, conns'[c].sent>>)]
  BY <1>3 DEF Output, NextFrame
<1>5. /\ conns'[c].kind = "bridge" /\ conns'[c].pc = "read" /\ conns'[c].term = t
      /\ conns'[c].sent = conns[c].sent + 1 /\ \A d \in Conns \ {c} : conns'[d] = conns[d]
  BY <1>2, <1>3, <1>4 DEF TypesInv, TypeOK, Conn
<1>6. buf \in Seq(Frames) /\ f \in Frames /\ sessions[t] \in Session
  <2>1. conns[c].sent + 1 \in 1..MaxFrames
    BY <1>2, BoundsAssumption DEF Output, NextFrame
  <2> QED  BY <2>1, SessionFields DEF Frames, TypesInv
<1>7. /\ sessions'[t].buffer = DropOldest(buf, f) /\ sessions'[t].paused
      /\ \A u \in Terminals \ {t} : sessions'[u] = sessions[u]
  <2> DEFINE q == DropOldest(buf, f)
  <2>1. sessions' = [sessions EXCEPT ![t].buffer = q]  BY <1>4, <1>5
  <2> HIDE DEF q
  <2>2. sessions'[t] = [sessions[t] EXCEPT !.buffer = q]  BY <2>1 DEF TypesInv, TypeOK
  <2>3. sessions'[t].buffer = q /\ sessions'[t].paused = sessions[t].paused
    BY <1>6, <2>2 DEF Session
  <2>4. \A u \in Terminals \ {t} : sessions'[u] = sessions[u]  BY <2>1 DEF TypesInv, TypeOK
  <2> QED  BY <1>4, <2>3, <2>4 DEF q
<1>8. f[1] = c /\ f[2] = conns[c].sent + 1  OBVIOUS
<1> HIDE DEF f, buf
<1>9. \A g \in Range(buf) : /\ conns[g[1]].kind = "bridge" /\ conns[g[1]].term = t
                             /\ g[2] <= conns[g[1]].sent
                             /\ conns[g[1]].pc \notin InFlight
  BY DEF BufferOK, buf
<1>10. InOrder(buf)  BY DEF BufferOK, buf
<1>11. PICK q \in Seq(Frames) : /\ InOrder(q) /\ Range(q) \subseteq Range(buf)
                                /\ DropOldest(buf, f) = Append(q, f)
  BY <1>6, <1>10, OrderedTail DEF DropOldest
<1>12. InOrder(Append(q, f)) /\ Range(Append(q, f)) = Range(q) \cup {f}
  <2>1. ASSUME NEW g \in Range(q), g[1] = f[1]  PROVE g[2] < f[2]
    <3>1. g[2] \in Nat /\ g[2] <= conns[c].sent /\ conns[c].sent \in Nat
      BY <1>2, <1>8, <1>9, <1>11, <2>1, FramesAre, BoundsAssumption
    <3> QED  BY <1>8, <3>1
  <2> QED  BY <1>6, <1>11, <2>1, OrderedAppend
<1>13. BufferOK(t)'
  <2>1. ASSUME NEW g \in Range(sessions'[t].buffer)
        PROVE  /\ conns'[g[1]].kind = "bridge" /\ conns'[g[1]].term = t
               /\ g[2] <= conns'[g[1]].sent /\ conns'[g[1]].pc \notin InFlight
    <3>1. CASE g = f
      <4>1. g[1] = c /\ g[2] = conns[c].sent + 1  BY <1>8, <3>1
      <4>2. conns'[c].sent \in Nat  BY <1>2, <1>5, BoundsAssumption
      <4>3. g[2] <= conns'[c].sent  BY <1>5, <4>1, <4>2
      <4> QED  BY <1>5, <4>1, <4>3 DEF InFlight
    <3>2. CASE g # f
      <4>1. g \in Range(buf)  BY <1>7, <1>11, <1>12, <3>2
      <4>2. g[1] \in Conns /\ g[2] \in Nat /\ conns[g[1]].sent \in Nat
        BY <1>6, <4>1, FramesAre
      <4>3. CASE g[1] = c
        <5>1. g[2] <= conns[c].sent  BY <1>9, <4>1, <4>3
        <5>2. g[2] <= conns[c].sent + 1  BY <4>2, <4>3, <5>1
        <5> QED  BY <1>5, <4>3, <5>2 DEF InFlight
      <4>4. CASE g[1] # c  BY <1>5, <1>9, <4>1, <4>2, <4>4
      <4> QED  BY <4>3, <4>4
    <3> QED  BY <3>1, <3>2
  <2> QED  BY <1>7, <1>11, <1>12, <2>1 DEF BufferOK
<1>14. ASSUME NEW u \in Terminals  PROVE BufferOK(u)'
  <2>1. CASE u = t  BY <1>13, <2>1
  <2>2. CASE u # t  BY <1>1, <1>7, <2>2, BufferKept
  <2> QED  BY <2>1, <2>2
<1>15. ASSUME NEW d \in Conns, conns'[d].kind = "browser"  PROVE GotOK(d)'
  <2>1. d # c /\ conns'[d] = conns[d] /\ got'[d] = got[d] /\ got[d] \in Seq(Frames)
    BY <1>4, <1>5, <1>15 DEF TypesInv, TypeOK
  <2>2. conns[d].kind = "browser"  BY <1>15, <2>1
  <2>3. InOrder(got[d]) /\ (conns[d].pc = "unused" => got[d] = <<>>)
    BY <2>2 DEF GotOK
  <2>4. ASSUME NEW h \in Range(got[d])
        PROVE  /\ h[2] <= conns'[h[1]].sent
               /\ conns'[h[1]].pc \in InFlight => h[2] < conns'[h[1]].sent
    <3>1. h[1] \in Conns /\ h[2] \in Nat /\ conns[h[1]].sent \in Nat  BY <2>1, FramesAre
    <3>2. /\ h[2] <= conns[h[1]].sent
          /\ conns[h[1]].pc \in InFlight => h[2] < conns[h[1]].sent
      BY <2>2 DEF GotOK
    <3>3. GoesOn(h[1])  BY <1>1, <3>1
    <3> QED  BY <3>1, <3>2, <3>3 DEF GoesOn, Reads
  <2>5. ASSUME conns[d].pc # "unused", NEW h \in Range(got[d]),
               NEW g \in Range(sessions'[conns[d].term].buffer), h[1] = g[1]
        PROVE  h[2] < g[2]
    <3>1. PICK u \in Terminals : u = conns[d].term  BY <2>5, TermOf
    <3>2. \A x \in Range(sessions[u].buffer) : h[1] = x[1] => h[2] < x[2]
      BY <2>2, <2>5, <3>1 DEF GotOK
    <3>3. CASE g \in Range(sessions[u].buffer)  BY <2>5, <3>2, <3>3
    <3>4. CASE g \notin Range(sessions[u].buffer)
      <4>1. u = t  BY <1>7, <2>5, <3>1, <3>4
      <4>a. Range(sessions'[t].buffer) \subseteq Range(buf) \cup {f}
        BY <1>7, <1>11, <1>12
      <4>b. conns[d].term = t  BY <3>1, <4>1
      <4>2. g = f
        <5>1. g \in Range(sessions'[t].buffer)  BY <2>5, <4>b
        <5>2. g \notin Range(buf)  BY <3>4, <4>1 DEF buf
        <5> QED  BY <4>a, <5>1, <5>2
      <4>3. h[1] = c /\ h[2] \in Nat /\ h[2] <= conns[c].sent /\ conns[c].sent \in Nat
        BY <1>8, <2>1, <2>2, <2>5, <4>2, FramesAre DEF GotOK
      <4> QED  BY <1>8, <4>2, <4>3
    <3> QED  BY <3>3, <3>4
  <2> QED  BY <2>1, <2>3, <2>4, <2>5 DEF GotOK
<1>16. \A d \in Conns : GotOK(d)'  BY <1>15 DEF GotOK
<1>17. PeersOK'  BY <1>0, PeersGoOn
<1> QED  BY <1>14, <1>16, <1>17

LEMMA ResumeOrder ==
    ASSUME OrderInv, TypesInv', NEW c \in Conns, Resume(c)
    PROVE  OrderInv'
<1> USE DEF OrderInv
<1>0. TaskStep(c)  BY ConnSteps DEF Read
<1>1. Steady /\ \A d \in Conns : GoesOn(d)  BY <1>0, AllGoOn
<1>2. /\ conns[c].term \in Terminals /\ conns[c].kind = "browser" /\ conns[c].pc = "read"
      /\ got[c] \in Seq(Frames)
  BY ReadsOne DEF Resume, BrowserSends, TypesInv, TypeOK
<1>3. PICK t \in Terminals : t = conns[c].term  BY <1>2
<1> DEFINE buf == sessions[t].buffer
<1>4. PICK n \in 0..Len(buf) : got' = [got EXCEPT ![c] = @ \o SubSeq(buf, 1, n)]
  BY <1>3 DEF Resume
<1>5. got'[c] = got[c] \o SubSeq(buf, 1, n) /\ \A d \in Conns \ {c} : got'[d] = got[d]
  BY <1>4 DEF TypesInv, TypeOK
<1>6. sessions' = [sessions EXCEPT ![t] = Replayed(@)]  BY <1>3 DEF Resume
<1>7. sessions'[t].buffer = <<>> /\ \A u \in Terminals \ {t} : sessions'[u] = sessions[u]
  <2>1. sessions'[t] = Replayed(sessions[t])  BY <1>6 DEF TypesInv, TypeOK
  <2>2. sessions[t] \in Session  BY SessionFields DEF TypesInv
  <2>3. \A u \in Terminals \ {t} : sessions'[u] = sessions[u]  BY <1>6 DEF TypesInv, TypeOK
  <2> QED  BY <2>1, <2>2, <2>3, ReplayedIs
<1>8. /\ conns'[c].kind = "browser" /\ conns'[c].pc # "unused" /\ conns'[c].term = t
      /\ \A d \in Conns \ {c} : conns'[d] = conns[d]
  BY <1>0, <1>2, <1>3 DEF TaskStep
<1>9. buf \in Seq(Frames)  BY SessionFields DEF TypesInv
<1>10. InOrder(buf) /\ \A f \in Range(buf) : /\ conns[f[1]].kind = "bridge"
                                             /\ f[2] <= conns[f[1]].sent
                                             /\ conns[f[1]].pc \notin InFlight
  BY DEF BufferOK
<1>11. \A f \in Range(got[c]), g \in Range(buf) : f[1] = g[1] => f[2] < g[2]
  BY <1>2, <1>3 DEF GotOK
<1>12. InOrder(got[c])  BY <1>2 DEF GotOK
<1> HIDE DEF buf
<1>13. InOrder(got'[c]) /\ Range(got'[c]) \subseteq Range(got[c]) \cup Range(buf)
  BY <1>2, <1>4, <1>5, <1>9, <1>10, <1>11, <1>12, OrderedReplay
<1>14. ASSUME NEW f \in Range(got'[c])
       PROVE  /\ f[2] <= conns'[f[1]].sent
              /\ conns'[f[1]].pc \in InFlight => f[2] < conns'[f[1]].sent
  <2>1. f \in Range(got[c]) \/ f \in Range(buf)  BY <1>13
  <2>2. f[1] \in Conns /\ f[2] \in Nat /\ conns[f[1]].sent \in Nat
    BY <1>2, <1>9, <2>1, FramesAre
  <2>3. GoesOn(f[1])  BY <1>1, <2>2
  <2>4. CASE f \in Range(got[c])
    <3>1. /\ f[2] <= conns[f[1]].sent
          /\ conns[f[1]].pc \in InFlight => f[2] < conns[f[1]].sent
      BY <1>2, <2>4 DEF GotOK
    <3> QED  BY <2>2, <2>3, <3>1 DEF GoesOn, Reads
  <2>5. CASE f \in Range(buf)
    <3>1. f[1] # c  BY <1>2, <1>10, <2>5
    <3> QED  BY <1>8, <1>10, <2>2, <2>5, <3>1
  <2> QED  BY <2>1, <2>4, <2>5
<1>15. GotOK(c)'
  <2>1. \A f \in Range(got'[c]), g \in Range(sessions'[t].buffer) : f[1] = g[1] => f[2] < g[2]
    BY <1>7, OfNothing
  <2> QED  BY <1>8, <1>13, <1>14, <2>1 DEF GotOK
<1>16. \A u \in Terminals : \/ sessions'[u] = sessions[u]
                            \/ sessions'[u].buffer = <<>>
  BY <1>7
<1>17. ASSUME NEW d \in Conns  PROVE GotOK(d)'
  <2>1. CASE d = c  BY <1>15, <2>1
  <2>2. CASE d # c  BY <1>1, <1>5, <1>16, <2>2, GotKept
  <2> QED  BY <2>1, <2>2
<1>18. \A u \in Terminals : BufferOK(u)'  BY <1>1, <1>16, BufferKept
<1>19. PeersOK'  BY <1>0, PeersGoOn
<1> QED  BY <1>17, <1>18, <1>19

LEMMA SendOrder ==
    ASSUME OrderInv, TypesInv', NEW b \in Conns, Send(b)
    PROVE  OrderInv'
<1> USE DEF OrderInv
<1>0. TaskStep(b)  BY ConnSteps DEF Forward
<1>1. Steady /\ \A d \in Conns : GoesOn(d)  BY <1>0, AllGoOn
<1>2. conns[b].pc = "send" /\ conns[b].peer \in Conns /\ Facing(b, conns[b].peer)
      /\ Frame(b) \in Frames
  <2>1. conns[b].pc = "send"  BY DEF Send
  <2>2. conns[b].peer \in Conns  BY <2>1, ConnFields DEF TypesInv, TasksOK, TaskOK
  <2> QED  BY <2>1, <2>2, FrameIs DEF PeersOK
<1>3. PICK p \in Conns : p = conns[b].peer  BY <1>2
<1> DEFINE f == Frame(b)
<1>4. /\ f[1] = b /\ f[2] = conns[b].sent /\ f \in Frames
      /\ conns[p].kind # conns[b].kind /\ conns[p].pc # "unused"
  BY <1>2, <1>3 DEF Facing, Frame
<1>5. /\ got'[p] = Append(got[p], f) /\ \A d \in Conns \ {p} : got'[d] = got[d]
      /\ UNCHANGED sessions /\ got[p] \in Seq(Frames)
  BY <1>3 DEF Send, TypesInv, TypeOK
<1>6. /\ conns'[b].pc \notin InFlight /\ \A d \in Conns \ {b} : conns'[d] = conns[d]
      /\ conns'[b].sent = conns[b].sent
  BY DEF Send, InFlight, TypesInv, TypeOK, Conn
<1> HIDE DEF f
<1>7. CASE conns[p].kind = "bridge"
  <2>1. \A d \in Conns : conns[d].kind = "browser" => got'[d] = got[d]  BY <1>5, <1>7
  <2> QED  BY <1>0, <1>5, <2>1, OrderKept
<1>8. CASE conns[p].kind = "browser"
  <2>0. b # p  BY <1>4
  <2>1. PICK t \in Terminals : t = conns[p].term  BY <1>4, TermOf
  <2>2. conns'[p] = conns[p]  BY <1>6, <2>0
  <2>3. /\ InOrder(got[p])
        /\ \A h \in Range(got[p]) :
              /\ h[2] <= conns[h[1]].sent
              /\ conns[h[1]].pc \in InFlight => h[2] < conns[h[1]].sent
        /\ \A h \in Range(got[p]), g \in Range(sessions[t].buffer) : h[1] = g[1] => h[2] < g[2]
    BY <1>4, <1>8, <2>1 DEF GotOK
  <2>4. \A h \in Range(got[p]) : h[1] = f[1] => h[2] < f[2]
    BY <1>2, <1>4, <2>3 DEF InFlight
  <2>5. InOrder(got'[p]) /\ Range(got'[p]) = Range(got[p]) \cup {f}
    BY <1>4, <1>5, <2>3, <2>4, OrderedAppend
  <2>6. ASSUME NEW h \in Range(got'[p])
        PROVE  /\ h[2] <= conns'[h[1]].sent
               /\ conns'[h[1]].pc \in InFlight => h[2] < conns'[h[1]].sent
    <3>1. CASE h = f
      <4>1. conns[b].sent \in Nat  BY ConnFields, BoundsAssumption DEF TypesInv
      <4>2. h[1] = b /\ h[2] = conns'[b].sent  BY <1>4, <1>6, <3>1
      <4>3. h[2] <= conns'[b].sent  BY <1>6, <4>1, <4>2
      <4> QED  BY <1>6, <4>2, <4>3
    <3>2. CASE h \in Range(got[p])
      <4>1. h[1] \in Conns /\ h[2] \in Nat /\ conns[h[1]].sent \in Nat
        BY <1>5, <3>2, FramesAre
      <4>2. GoesOn(h[1])  BY <1>1, <4>1
      <4>3. /\ h[2] <= conns[h[1]].sent
            /\ conns[h[1]].pc \in InFlight => h[2] < conns[h[1]].sent
        BY <2>3, <3>2
      <4> QED  BY <4>1, <4>2, <4>3 DEF GoesOn, Reads
    <3> QED  BY <2>5, <3>1, <3>2
  <2>7. ASSUME NEW h \in Range(got'[p]), NEW g \in Range(sessions'[t].buffer), h[1] = g[1]
        PROVE  h[2] < g[2]
    <3>1. g \in Range(sessions[t].buffer)  BY <1>5, <2>7
    <3>2. CASE h \in Range(got[p])  BY <2>3, <2>7, <3>1, <3>2
    <3>3. CASE h = f
      <4>1. conns[b].pc \notin InFlight  BY <1>4, <2>7, <3>1, <3>3 DEF BufferOK
      <4> QED  BY <1>2, <4>1 DEF InFlight
    <3> QED  BY <2>5, <3>2, <3>3
  <2>8. GotOK(p)'
    BY <1>4, <2>1, <2>2, <2>5, <2>6, <2>7 DEF GotOK
  <2>9. ASSUME NEW d \in Conns  PROVE GotOK(d)'
    <3>1. CASE d = p  BY <2>8, <3>1
    <3>2. CASE d # p  BY <1>1, <1>5, <3>2, GotKept
    <3> QED  BY <3>1, <3>2
  <2>10. \A u \in Terminals : BufferOK(u)'  BY <1>1, <1>5, BufferKept
  <2>11. PeersOK'  BY <1>0, PeersGoOn
  <2> QED  BY <2>9, <2>10, <2>11
<1> QED  BY <1>4, <1>7, <1>8, ConnFields DEF TypesInv

\* What every session holds back stays or is dropped.
Holds == \A t \in Terminals :
    \/ /\ sessions'[t].buffer = sessions[t].buffer
       /\ sessions'[t].paused = sessions[t].paused
    \/ sessions'[t].buffer = <<>>

LEMMA OneHolds ==
    ASSUME TypesInv, NEW t \in Terminals, NEW s, sessions' = [sessions EXCEPT ![t] = s],
           (s.buffer = sessions[t].buffer /\ s.paused = sessions[t].paused) \/ s.buffer = <<>>
    PROVE  Holds
BY DEF Holds, TypesInv, TypeOK

LEMMA CreateHolds ==
    ASSUME TypesInv, CreateStep
    PROVE  Holds /\ UNCHANGED <<conns, got>>
<1>1. UNCHANGED <<conns, got>>
  BY DEF CreateStep, Reuse, Retry, Create, StartProxy, StartRefused, UndoCreate
<1>2. \/ UNCHANGED sessions
      \/ \E t \in Terminals : \E s :
            /\ sessions' = [sessions EXCEPT ![t] = s]
            /\ \/ s = [sessions[t] EXCEPT !.gone = None]
               \/ s = Retried(sessions[t])
               \/ s = NoSession
               \/ \E k \in Keys : s = NewSession(k)
  <2>1. ASSUME NEW i \in Creators, NEW k \in Keys, Reuse(i, k)
        PROVE  \E t \in Terminals : sessions' = [sessions EXCEPT ![t].gone = None]
    BY <2>1 DEF Reuse, Reusable
  <2>2. ASSUME NEW i \in Creators, NEW k \in Keys, Retry(i, k)
        PROVE  \E t \in Terminals : sessions' = [sessions EXCEPT ![t] = Retried(@)]
    BY <2>2 DEF Retry, Reusable
  <2>3. ASSUME NEW i \in Creators, NEW k \in Keys, Create(i, k)
        PROVE  \E t \in Terminals : sessions' = [sessions EXCEPT ![t] = NewSession(k)]
    BY <2>3 DEF Create
  <2>4. ASSUME NEW i \in Creators, UndoCreate(i)
        PROVE  UNCHANGED sessions \/ \E t \in Terminals : sessions' = [sessions EXCEPT ![t] = NoSession]
    <3>1. creators[i].term \in Terminals
      BY <2>4 DEF UndoCreate, TypesInv, TypeOK, RequestsOK, Request, Terminals
    <3> QED  BY <2>4, <3>1 DEF UndoCreate
  <2>5. ASSUME NEW i \in Creators, StartProxy(i) \/ StartRefused(i)  PROVE UNCHANGED sessions
    BY <2>5 DEF StartProxy, StartRefused
  <2> QED  BY <2>1, <2>2, <2>3, <2>4, <2>5 DEF CreateStep
<1>3. CASE UNCHANGED sessions  BY <1>1, <1>3 DEF Holds
<1>4. ASSUME NEW t \in Terminals, NEW s, sessions' = [sessions EXCEPT ![t] = s],
             \/ s = [sessions[t] EXCEPT !.gone = None]
             \/ s = Retried(sessions[t])
             \/ s = NoSession
             \/ \E k \in Keys : s = NewSession(k)
      PROVE  Holds
  <2>1. (s.buffer = sessions[t].buffer /\ s.paused = sessions[t].paused) \/ s.buffer = <<>>
    <3>1. CASE s = [sessions[t] EXCEPT !.gone = None]
      BY <3>1, SessionFields DEF TypesInv, Session
    <3>2. CASE s = Retried(sessions[t])  BY <3>2, RetriedIs DEF TypesInv
    <3>3. CASE s = NoSession  BY <3>3, NoSessionIs
    <3>4. CASE \E k \in Keys : s = NewSession(k)  BY <3>4, NewSessionIs
    <3> QED  BY <1>4, <3>1, <3>2, <3>3, <3>4
  <2> QED  BY <1>4, <2>1, OneHolds
<1> QED  BY <1>1, <1>2, <1>3, <1>4

LEMMA TimeHolds ==
    ASSUME TypesInv, TimeStep
    PROVE  Holds /\ UNCHANGED <<conns, got>>
<1>1. UNCHANGED <<conns, got>>  BY DEF TimeStep, DeadlinePasses, AttachTimeout, GraceTimeout
<1>2. PICK t \in Terminals : \/ UNCHANGED sessions
                            \/ sessions' = [sessions EXCEPT ![t].deadline = "passed"]
                            \/ sessions' = [sessions EXCEPT ![t] = NoSession]
  BY DEF TimeStep, DeadlinePasses, AttachTimeout, GraceTimeout
<1>3. CASE UNCHANGED sessions  BY <1>1, <1>3 DEF Holds
<1>4. CASE sessions' = [sessions EXCEPT ![t].deadline = "passed"]
  <2> DEFINE s == [sessions[t] EXCEPT !.deadline = "passed"]
  <2>1. s.buffer = sessions[t].buffer /\ s.paused = sessions[t].paused
    BY SessionFields DEF TypesInv, Session
  <2>2. sessions' = [sessions EXCEPT ![t] = s]  BY <1>4
  <2> QED  BY <1>1, <2>1, <2>2, OneHolds
<1>5. CASE sessions' = [sessions EXCEPT ![t] = NoSession]  BY <1>1, <1>5, NoSessionIs, OneHolds
<1> QED  BY <1>2, <1>3, <1>4, <1>5

LEMMA DeletionHolds ==
    ASSUME TypesInv, NEW d \in {DeviceOf[k] : k \in Keys}, DeleteDevice(d)
    PROVE  Holds /\ UNCHANGED <<conns, got>>
BY NoSessionIs DEF DeleteDevice, Holds

LEMMA EndsHold ==
    ASSUME TypesInv, NEW c \in Conns,
           RegisterBrowser(c) \/ RegisterBridge(c) \/ BrowserLeaves(c) \/ BridgeLeaves(c)
    PROVE  Holds /\ UNCHANGED got
<1> DEFINE t == conns[c].term
<1>0. t \in Terminals /\ sessions[t] \in Session /\ UNCHANGED got
  BY TermOf, SessionFields
     DEF RegisterBrowser, RegisterBridge, BrowserLeaves, BridgeLeaves, TypesInv
<1>1. PICK s : /\ sessions' = [sessions EXCEPT ![t] = s]
               /\ \/ s = [sessions[t] EXCEPT !.browser = c, !.gone = None, !.pending = <<>>]
                  \/ s = [sessions[t] EXCEPT !.bridge = c, !.deadline = "unset", !.pending = <<>>]
                  \/ \E at \in Conns : s = [sessions[t] EXCEPT !.browser = None, !.gone = at]
                  \/ \E at \in Conns : s = [sessions[t] EXCEPT !.bridge = None, !.gone = at]
                  \/ s = NoSession
  <2>1. CASE RegisterBrowser(c)
    <3>1. sessions' = [sessions EXCEPT ![t].browser = c, ![t].gone = None, ![t].pending = <<>>]
      BY <2>1 DEF RegisterBrowser
    <3> QED  BY <3>1
  <2>2. CASE RegisterBridge(c)
    <3>1. sessions' = [sessions EXCEPT ![t].bridge = c, ![t].deadline = "unset", ![t].pending = <<>>]
      BY <2>2 DEF RegisterBridge
    <3> QED  BY <3>1
  <2>3. CASE BrowserLeaves(c)
    <3>1. \/ sessions' = [sessions EXCEPT ![t].browser = None, ![t].gone = LeftAt(t, c)]
          \/ sessions' = [sessions EXCEPT ![t] = NoSession]
      BY <2>3 DEF BrowserLeaves, LeftAt
    <3>2. PICK at \in Conns : at = LeftAt(t, c)  BY <1>0, SessionFields DEF LeftAt, TypesInv
    <3> HIDE DEF t
    <3>3. CASE sessions' = [sessions EXCEPT ![t] = NoSession]  BY <3>3
    <3>4. CASE sessions' = [sessions EXCEPT ![t].browser = None, ![t].gone = LeftAt(t, c)]
      <4>1. sessions' = [sessions EXCEPT ![t] = [sessions[t] EXCEPT !.browser = None, !.gone = at]]
        BY <3>2, <3>4
      <4> QED  BY <4>1
    <3> QED  BY <3>1, <3>3, <3>4
  <2>4. CASE BridgeLeaves(c)
    <3>1. \/ sessions' = [sessions EXCEPT ![t].bridge = None, ![t].gone = c]
          \/ sessions' = [sessions EXCEPT ![t] = NoSession]
      BY <2>4 DEF BridgeLeaves
    <3> HIDE DEF t
    <3>2. CASE sessions' = [sessions EXCEPT ![t] = NoSession]  BY <3>2
    <3>3. CASE sessions' = [sessions EXCEPT ![t].bridge = None, ![t].gone = c]
      <4>1. sessions' = [sessions EXCEPT ![t] = [sessions[t] EXCEPT !.bridge = None, !.gone = c]]
        BY <3>3
      <4> QED  BY <4>1
    <3> QED  BY <3>1, <3>2, <3>3
  <2> QED  BY <2>1, <2>2, <2>3, <2>4
<1>2. (s.buffer = sessions[t].buffer /\ s.paused = sessions[t].paused) \/ s.buffer = <<>>
  <2> DEFINE x == sessions[t]
  <2>0. x \in Session  BY <1>0
  <2> HIDE DEF x
  <2>1. CASE s = [x EXCEPT !.browser = c, !.gone = None, !.pending = <<>>]
    BY <2>0, <2>1, BrowserGiven DEF x
  <2>2. CASE s = [x EXCEPT !.bridge = c, !.deadline = "unset", !.pending = <<>>]
    BY <2>0, <2>2, BridgeGiven DEF x
  <2>3. CASE \E at \in Conns : s = [x EXCEPT !.browser = None, !.gone = at]
    <3>1. PICK at \in Conns : s = [x EXCEPT !.browser = None, !.gone = at]  BY <2>3
    <3>2. s.paused = x.paused /\ s.buffer = x.buffer  BY <2>0, <3>1, BrowserTaken
    <3> QED  BY <3>2 DEF x
  <2>4. CASE \E at \in Conns : s = [x EXCEPT !.bridge = None, !.gone = at]
    <3>1. PICK at \in Conns : s = [x EXCEPT !.bridge = None, !.gone = at]  BY <2>4
    <3>2. s.paused = x.paused /\ s.buffer = x.buffer  BY <2>0, <3>1, BridgeTaken
    <3> QED  BY <3>2 DEF x
  <2>5. CASE s = NoSession  BY <2>5, NoSessionIs
  <2> QED  BY <1>1, <2>1, <2>2, <2>3, <2>4, <2>5 DEF x
<1> QED  BY <1>0, <1>1, <1>2, OneHolds

\* Every reading and forwarding but the three that handle output.
LEMMA FramesHold ==
    ASSUME TypesInv, NEW c \in Conns, Read(c) \/ Forward(c),
           ~Resume(c), ~Send(c), ~(Output(c) /\ sessions[conns[c].term].paused)
    PROVE  Holds /\ UNCHANGED got
<1> DEFINE t == conns[c].term
<1>0. UNCHANGED got
  BY DEF Read, ReadStale, Oversized, Pause, Resize, Data, Output, Rejected,
         Forward, Lookup, BufferFrame, SendRefused
<1>1. CASE UNCHANGED sessions  BY <1>0, <1>1 DEF Holds
<1>2. CASE ~ UNCHANGED sessions
  <2>1. /\ t \in Terminals /\ sessions[t] \in Session
        /\ \/ sessions' = [sessions EXCEPT ![t].paused = TRUE, ![t].buffer = <<>>]
           \/ \E z : sessions' = [sessions EXCEPT ![t].pending = z]
    <3>1. t \in Terminals /\ sessions[t] \in Session
      BY <1>2, TermOf, SessionFields
         DEF Read, ReadStale, Oversized, Pause, Resize, Data, Output, Rejected,
             BrowserSends, NextFrame, Forward, Lookup, BufferFrame, SendRefused, TypesInv
    <3>2. CASE Read(c)
      BY <1>2, <3>1, <3>2 DEF Read, ReadStale, Oversized, Pause, Resize, Data, Output, Rejected
    <3>3. CASE Forward(c)
      BY <1>2, <3>1, <3>3 DEF Forward, Lookup, BufferFrame, SendRefused
    <3> QED  BY <3>1, <3>2, <3>3
  <2>2. PICK s : /\ sessions' = [sessions EXCEPT ![t] = s]
                 /\ \/ s = [sessions[t] EXCEPT !.paused = TRUE, !.buffer = <<>>]
                    \/ \E z : s = [sessions[t] EXCEPT !.pending = z]
    <3> HIDE DEF t
    <3> QED  BY <2>1
  <2>3. (s.buffer = sessions[t].buffer /\ s.paused = sessions[t].paused) \/ s.buffer = <<>>
    BY <2>1, <2>2 DEF Session
  <2> QED  BY <1>0, <2>1, <2>2, <2>3, OneHolds
<1> QED  BY <1>1, <1>2

LEMMA StepOrder ==
    ASSUME OrderInv, [Next]_vars
    PROVE  OrderInv'
<1>0. TypesInv /\ TypesInv'  BY StepKeepsTypes DEF OrderInv
<1>1. ASSUME Holds, \A c \in Conns : conns[c].kind = "browser" => got'[c] = got[c],
             UNCHANGED conns \/ \E c \in Conns : TaskStep(c)
      PROVE  OrderInv'
  BY <1>0, <1>1, OrderKept DEF Holds
<1>2. CASE UNCHANGED vars  BY <1>1, <1>2 DEF vars, Holds
<1>3. CASE CreateStep  BY <1>0, <1>1, <1>3, CreateHolds
<1>4. CASE TimeStep  BY <1>0, <1>1, <1>4, TimeHolds
<1>5. CASE \E d \in {DeviceOf[k] : k \in Keys} : DeleteDevice(d)
  BY <1>0, <1>1, <1>5, DeletionHolds
<1>6. ASSUME NEW c \in Conns,
             Connect(c) \/ Attach(c) \/ Hangup(c) \/ Detach(c) \/ Read(c) \/ Forward(c)
      PROVE  OrderInv'
  <2>0. TaskStep(c)  BY <1>0, <1>6, ConnSteps
  <2>1. CASE Resume(c)  BY <1>0, <2>1, ResumeOrder
  <2>2. CASE Send(c)  BY <1>0, <2>2, SendOrder
  <2>3. CASE Output(c) /\ sessions[conns[c].term].paused  BY <1>0, <2>3, OutputOrder
  <2>4. CASE /\ Read(c) \/ Forward(c)
             /\ ~Resume(c) /\ ~Send(c) /\ ~(Output(c) /\ sessions[conns[c].term].paused)
    BY <1>0, <1>1, <2>0, <2>4, FramesHold
  <2>5. CASE RegisterBrowser(c) \/ RegisterBridge(c) \/ BrowserLeaves(c) \/ BridgeLeaves(c)
    BY <1>0, <1>1, <2>0, <2>5, EndsHold
  <2>6. CASE Replay(c)
    <3>1. UNCHANGED sessions /\ \A d \in Conns \ {c} : got'[d] = got[d]
      BY <1>0, <2>6 DEF Replay, TypesInv, TypeOK
    <3>2. conns[c].kind = "bridge"  BY <1>0, <2>6 DEF Replay, TypesInv, TasksOK, TaskOK
    <3> QED  BY <1>1, <2>0, <3>1, <3>2 DEF Holds
  <2>7. CASE Connect(c) \/ RegisterRefused(c) \/ ReplayFails(c) \/ Hangup(c) \/ StaleLeaves(c)
    <3>1. UNCHANGED <<sessions, got>>
      BY <2>7 DEF Connect, BrowserConnects, BridgeConnects, RegisterRefused, ReplayFails,
                  Hangup, StaleLeaves
    <3> QED  BY <1>1, <2>0, <3>1 DEF Holds
  <2> QED  BY <1>6, <2>1, <2>2, <2>3, <2>4, <2>5, <2>6, <2>7 DEF Attach, Detach
<1> QED  BY <1>2, <1>3, <1>4, <1>5, <1>6 DEF Next

\* A browser gets the output of one bridge connection in the order in which the
\* bridge sent it and never twice, whatever pauses, resumes and reconnections
\* come between, and whatever queues are full or closed
\* (forward_terminal_message).
THEOREM OutputIsInOrder == Spec => []OutputKeepsOrder
<1>1. Init => OrderInv
  <2> SUFFICES ASSUME Init PROVE OrderInv
    OBVIOUS
  <2>1. TypesInv  BY InitTypes
  <2>2. \A t \in Terminals : sessions[t] = NoSession  BY DEF Init
  <2>3. \A c \in Conns : conns[c] = NoConn /\ got[c] = <<>>  BY DEF Init
  <2>4. \A t \in Terminals : BufferOK(t)  BY <2>2, NoSessionIs, OfNothing DEF BufferOK
  <2>5. \A c \in Conns : GotOK(c)  BY <2>3, NoConnIs, OfNothing DEF GotOK
  <2>6. PeersOK  BY <2>3, NoConnIs DEF PeersOK
  <2> QED  BY <2>1, <2>4, <2>5, <2>6 DEF OrderInv
<1>2. OrderInv /\ [Next]_vars => OrderInv'  BY StepOrder
<1>3. OrderInv => OutputKeepsOrder  BY DEF OrderInv, GotOK, OutputKeepsOrder
<1> QED  BY <1>1, <1>2, <1>3, PTL DEF Spec
=============================================================================
