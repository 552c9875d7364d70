---------------------------- MODULE RelayTerminals ----------------------------
(***************************************************************************)
(* Terminal sessions of the relay (conductor-relay/src/relay.rs): a        *)
(* browser asks for a terminal of a paired device, the relay tells the     *)
(* device's bridge to open a proxy connection, and joins the two           *)
(* WebSockets.  Sessions are created, retried, reused, expire when no      *)
(* bridge attaches, and outlive a browser that leaves for a grace period.  *)
(*                                                                         *)
(* One action is one acquisition of the relay's lock together with the     *)
(* Close frames queued right after it; what a handler looked up under one  *)
(* acquisition and uses after it is kept in the connection's record        *)
(* (`peer`, `todo`).                                                       *)
(***************************************************************************)
EXTENDS Naturals, Sequences, FiniteSets

CONSTANTS
    Keys,            \* what a browser asks for: a session of a device
    DeviceOf,        \* the device of a request
    OwnerOf,         \* the user who owns a device
    Creators,        \* concurrent create_terminal_session requests
    MaxTerminals,    \* bound: terminal ids, never reused
    MaxConns,        \* bound: connections ever opened
    MaxCreates,      \* bound: requests each creator makes
    MaxFrames,       \* bound: frames a peer sends on one connection
    BufferCap,       \* capacity of the pause buffer and the pending frames
    SessionCap,      \* MAX_TERMINAL_SESSIONS
    DeviceCap,       \* MAX_TERMINAL_SESSIONS_PER_DEVICE
    UserCap,         \* MAX_TERMINAL_SESSIONS_PER_USER
    FrameKinds,      \* what the peers send
    SlowPeers,       \* a queue may be full, or closed by its writer
    Deletions        \* a device may be deleted

ASSUME BoundsAssumption ==
    /\ {MaxTerminals, MaxConns, MaxCreates, MaxFrames, BufferCap} \subseteq Nat
    /\ {SessionCap, DeviceCap, UserCap} \subseteq Nat
ASSUME KeysAssumption == Keys # {}
ASSUME FramesAssumption ==
    FrameKinds \subseteq {"data", "resize", "pause", "resume", "oversized"}
ASSUME FlagsAssumption == SlowPeers \in BOOLEAN /\ Deletions \in BOOLEAN

Terminals == 1..MaxTerminals
Conns == 1..MaxConns
None == 0                          \* no connection, no instant

VARIABLES
    sessions,   \* RelayInner.terminal_sessions
    conns,      \* the tasks of handle_terminal_connection
    creators,   \* the tasks of create_terminal_session
    timers,     \* spawned expiry and cleanup tasks that still sleep
    starts,     \* TerminalProxyStart requests a bridge has not acted on
    issued,     \* terminal ids returned to browsers
    got,        \* frames queued to each connection, in order
    told,       \* connections a Close was queued to
    deleted     \* deleted devices

vars == <<sessions, conns, creators, timers, starts, issued, got, told, deleted>>

-----------------------------------------------------------------------------
(* Data.  A frame is the connection it came in on and its number there.     *)

Frames == Conns \X (1..MaxFrames)

\* deadline: attach_deadline is unset, in the future, or has passed.
\* gone: browser_disconnected_at, the instant named by who then left.
Session == [key : Keys, gen : Nat, deadline : {"unset", "running", "passed"},
            browser : Conns \cup {None}, bridge : Conns \cup {None},
            gone : Conns \cup {None}, paused : BOOLEAN,
            buffer : Seq(Frames), pending : Seq(Frames)]
NewSession(k) ==
    [key |-> k, gen |-> 1, deadline |-> "running", browser |-> None,
     bridge |-> None, gone |-> None, paused |-> FALSE,
     buffer |-> <<>>, pending |-> <<>>]
NoSession == [NewSession(CHOOSE k \in Keys : TRUE) EXCEPT !.gen = 0]

Live(t) == sessions[t] # NoSession

\* A connection's task: where it is, the frame it handles, the counterpart
\* it looked up and the frames it has still to replay.
Conn == [kind : {"browser", "bridge"}, term : 0..MaxTerminals,
         pc : {"unused", "accepted", "replay", "read", "lookup", "buffer", "send",
               "ended", "closed"},
         sent : 0..MaxFrames, peer : Conns \cup {None}, todo : Seq(Frames)]
NoConn == [kind |-> "browser", term |-> 0, pc |-> "unused", sent |-> 0,
           peer |-> None, todo |-> <<>>]

\* A request's task and the attempt it makes.
Request == [pc : {"idle", "start", "undo"}, term : 0..MaxTerminals,
            gen : Nat, left : 0..MaxCreates]

Frame(c) == <<c, conns[c].sent>>
Current(c) == LET t == conns[c].term IN
    t # 0 /\ Live(t) /\ c = IF conns[c].kind = "browser" THEN sessions[t].browser
                                                ELSE sessions[t].bridge

Goto(c, pc) == [conns EXCEPT ![c].pc = pc]

\* Telling a connection to close: ignored when there is none; a full or
\* closed queue loses it.
Tell(S) == \/ told' = told \cup (S \ {None})
           \/ SlowPeers /\ S \ {None} # {} /\ told' = told

Expired(t) == sessions[t].bridge = None /\ sessions[t].deadline = "passed"

Init ==
    /\ sessions = [t \in Terminals |-> NoSession]
    /\ conns = [c \in Conns |-> NoConn]
    /\ creators = [i \in Creators |-> [pc |-> "idle", term |-> 0, gen |-> 0,
                                       left |-> MaxCreates]]
    /\ timers = {}
    /\ starts = {}
    /\ issued = {}
    /\ got = [c \in Conns |-> <<>>]
    /\ told = {}
    /\ deleted = {}

-----------------------------------------------------------------------------
(* Creating a terminal.                                                     *)

SameDevice(k) == {t \in Terminals : Live(t) /\ DeviceOf[sessions[t].key] = DeviceOf[k]}
SameUser(k) == {t \in Terminals :
    Live(t) /\ OwnerOf[DeviceOf[sessions[t].key]] = OwnerOf[DeviceOf[k]]}
HasRoom(k) ==
    /\ Cardinality(SameUser(k)) < UserCap
    /\ Cardinality({t \in Terminals : Live(t)}) < SessionCap
    /\ Cardinality(SameDevice(k)) < DeviceCap

Reusable(k) == {t \in Terminals :
    Live(t) /\ sessions[t].key = k /\ sessions[t].browser = None}

Unissued(t) == /\ ~Live(t) /\ t \notin issued
               /\ \A i \in Creators : creators[i].term # t

Retried(s) == [s EXCEPT !.gone = None, !.gen = @ + 1, !.deadline = "running"]

CreateIdle(i) == /\ creators[i].pc = "idle"
                 /\ creators[i].left > 0

\* An attached session without a browser is handed out as it is.
Reuse(i, k) ==
    /\ CreateIdle(i)
    /\ DeviceOf[k] \notin deleted
    /\ \E t \in Reusable(k) :
        /\ sessions[t].bridge # None
        /\ sessions' = [sessions EXCEPT ![t].gone = None]
        /\ issued' = issued \cup {t}
    /\ creators' = [creators EXCEPT ![i].left = @ - 1]
    /\ UNCHANGED <<conns, timers, starts, got, told, deleted>>

Retry(i, k) ==
    /\ CreateIdle(i)
    /\ DeviceOf[k] \notin deleted
    /\ \E t \in Reusable(k) :
        /\ sessions[t].bridge = None
        /\ sessions' = [sessions EXCEPT ![t] = Retried(@)]
        /\ creators' = [creators EXCEPT ![i] =
              [pc |-> "start", term |-> t, gen |-> sessions'[t].gen, left |-> @.left - 1]]
    /\ UNCHANGED <<conns, timers, starts, issued, got, told, deleted>>

Create(i, k) ==
    /\ CreateIdle(i)
    /\ DeviceOf[k] \notin deleted
    /\ Reusable(k) = {}
    /\ HasRoom(k)
    /\ \E t \in Terminals :
        /\ Unissued(t) /\ \A u \in 1..(t - 1) : ~Unissued(u)
        /\ sessions' = [sessions EXCEPT ![t] = NewSession(k)]
        /\ creators' = [creators EXCEPT ![i] =
              [pc |-> "start", term |-> t, gen |-> 1, left |-> @.left - 1]]
    /\ UNCHANGED <<conns, timers, starts, issued, got, told, deleted>>

Timed(t, g) == timers \cup {<<"attach", t, g, None>>}

\* The bridge is asked to open its end and the attempt's timeout starts.
StartProxy(i) == LET t == creators[i].term
                     g == creators[i].gen IN
    /\ creators[i].pc = "start"
    /\ starts' = starts \cup {<<t, g>>}
    /\ timers' = Timed(t, g)
    /\ issued' = issued \cup {t}
    /\ creators' = [creators EXCEPT ![i].pc = "idle"]
    /\ UNCHANGED <<sessions, conns, got, told, deleted>>

\* The control queue refused the request.
StartRefused(i) ==
    /\ SlowPeers
    /\ creators[i].pc = "start"
    /\ creators' = [creators EXCEPT ![i].pc = "undo"]
    /\ UNCHANGED <<sessions, conns, timers, starts, issued, got, told, deleted>>

UndoCreate(i) == LET t == creators[i].term IN
    /\ creators[i].pc = "undo"
    /\ sessions' =
        IF Live(t) /\ sessions[t].gen = creators[i].gen /\ sessions[t].bridge = None
        THEN [sessions EXCEPT ![t] = NoSession] ELSE sessions
    /\ creators' = [creators EXCEPT ![i].pc = "idle"]
    /\ UNCHANGED <<conns, timers, starts, issued, got, told, deleted>>

-----------------------------------------------------------------------------
(* Time.                                                                    *)

DeadlinePasses(t) ==
    /\ Live(t) /\ sessions[t].deadline = "running"
    /\ sessions' = [sessions EXCEPT ![t].deadline = "passed"]
    /\ UNCHANGED <<conns, creators, timers, starts, issued, got, told, deleted>>

\* Mutant: a terminal that attached in time expires all the same.
ExpiresAnyway(t, g) == Live(t) /\ sessions[t].gen = g
Expires(t, g) == Live(t) /\ sessions[t].gen = g /\ Expired(t)

TellNobody(t) == UNCHANGED told
TellBrowser(t) == Tell({sessions[t].browser})

\* The timer of attempt g sleeps until that attempt's deadline has passed.
AttachTimeout(t, g) ==
    /\ <<"attach", t, g, None>> \in timers
    /\ Live(t) /\ sessions[t].gen = g => sessions[t].deadline # "running"
    /\ timers' = timers \ {<<"attach", t, g, None>>}
    /\ IF Expires(t, g)
       THEN /\ sessions' = [sessions EXCEPT ![t] = NoSession]
            /\ TellBrowser(t)
       ELSE UNCHANGED <<sessions, told>>
    /\ UNCHANGED <<conns, creators, starts, issued, got, deleted>>

StillGone(t, at) == /\ Live(t)
                    /\ sessions[t].browser = None
                    /\ sessions[t].gone = at

GraceTimeout(t, at, by) ==
    /\ <<"grace", t, at, by>> \in timers
    /\ timers' = timers \ {<<"grace", t, at, by>>}
    /\ IF StillGone(t, at)
       THEN /\ sessions' = [sessions EXCEPT ![t] = NoSession]
            /\ Tell({sessions[t].bridge})
       ELSE UNCHANGED <<sessions, told>>
    /\ UNCHANGED <<conns, creators, starts, issued, got, deleted>>

-----------------------------------------------------------------------------
(* Connections.                                                             *)

Unused(c) == conns[c] = NoConn /\ \A d \in 1..(c - 1) : conns[d] # NoConn
Accept(c, kind, t) ==
    conns' = [conns EXCEPT ![c] = [kind |-> kind, term |-> t, pc |-> "accepted",
                                   sent |-> 0, peer |-> None, todo |-> <<>>]]

BrowserConnects(c, t) ==
    /\ Unused(c)
    /\ t \in issued /\ Live(t) /\ ~Expired(t)
    /\ Accept(c, "browser", t)
    /\ UNCHANGED <<sessions, creators, timers, starts, issued, got, told, deleted>>

\* The bridge opens one connection for each start it was asked for.
BridgeConnects(c, t, g) ==
    /\ Unused(c)
    /\ <<t, g>> \in starts
    /\ starts' = starts \ {<<t, g>>}
    /\ IF Live(t) /\ DeviceOf[sessions[t].key] \notin deleted
       THEN Accept(c, "bridge", t) ELSE UNCHANGED conns
    /\ UNCHANGED <<sessions, creators, timers, issued, got, told, deleted>>

RegisterBrowser(c) == LET t == conns[c].term IN
    /\ conns[c].pc = "accepted" /\ conns[c].kind = "browser"
    /\ Live(t)
    /\ sessions' = [sessions EXCEPT ![t].browser = c, ![t].gone = None,
                                    ![t].pending = <<>>]
    /\ Tell({sessions[t].browser})
    /\ conns' = Goto(c, "read")
    /\ UNCHANGED <<creators, timers, starts, issued, got, deleted>>

RegisterBridge(c) == LET t == conns[c].term IN
    /\ conns[c].pc = "accepted" /\ conns[c].kind = "bridge"
    /\ Live(t) /\ ~Expired(t)
    /\ sessions' = [sessions EXCEPT ![t].bridge = c, ![t].deadline = "unset",
                                    ![t].pending = <<>>]
    /\ Tell({sessions[t].bridge})
    /\ conns' = [conns EXCEPT ![c].todo = sessions[t].pending,
            ![c].pc = IF sessions[t].pending = <<>> THEN "read" ELSE "replay"]
    /\ UNCHANGED <<creators, timers, starts, issued, got, deleted>>

RegisterRefused(c) == LET t == conns[c].term IN
    /\ conns[c].pc = "accepted"
    /\ ~Live(t) \/ (conns[c].kind = "bridge" /\ Expired(t))
    /\ conns' = Goto(c, "closed")
    /\ UNCHANGED <<sessions, creators, timers, starts, issued, got, told, deleted>>

\* The frames the bridge missed are queued to it after the lock is gone.
Replay(c) ==
    /\ conns[c].pc = "replay"
    /\ got' = [got EXCEPT ![c] = Append(@, Head(conns[c].todo))]
    /\ conns' = [conns EXCEPT ![c].todo = Tail(@),
            ![c].pc = IF Len(conns[c].todo) = 1 THEN "read" ELSE "replay"]
    /\ UNCHANGED <<sessions, creators, timers, starts, issued, told, deleted>>

ReplayFails(c) ==
    /\ SlowPeers
    /\ conns[c].pc = "replay"
    /\ conns' = [conns EXCEPT ![c].pc = "ended", ![c].todo = <<>>]
    /\ UNCHANGED <<sessions, creators, timers, starts, issued, got, told, deleted>>

Hangup(c) ==
    /\ conns[c].pc = "read"
    /\ conns' = Goto(c, "ended")
    /\ UNCHANGED <<sessions, creators, timers, starts, issued, got, told, deleted>>

Mine(c) == Current(c)

\* Mutant: an instant for which a cleanup was scheduled gets no second one.
CleanedOnce(t, at, c) ==
    IF sessions[t].gone = at THEN timers ELSE timers \cup {<<"grace", t, at, c>>}
Cleaned(t, at, c) == timers \cup {<<"grace", t, at, c>>}

BrowserLeaves(c) == LET t == conns[c].term
                        s == sessions[t]
                        at == IF s.gone = None THEN c ELSE s.gone IN
    /\ conns[c].pc = "ended" /\ conns[c].kind = "browser" /\ Mine(c)
    /\ IF s.bridge # None \/ s.gone # None
       THEN /\ sessions' = [sessions EXCEPT ![t].browser = None, ![t].gone = at]
            /\ timers' = Cleaned(t, at, c)
       ELSE /\ sessions' = [sessions EXCEPT ![t] = NoSession]
            /\ UNCHANGED timers
    /\ conns' = Goto(c, "closed")
    /\ UNCHANGED <<creators, starts, issued, got, told, deleted>>

BridgeLeaves(c) == LET t == conns[c].term
                       s == sessions[t] IN
    /\ conns[c].pc = "ended" /\ conns[c].kind = "bridge" /\ Mine(c)
    /\ IF s.browser # None
       THEN /\ sessions' = [sessions EXCEPT ![t].bridge = None, ![t].gone = c]
            /\ timers' = Cleaned(t, c, c)
       ELSE /\ sessions' = [sessions EXCEPT ![t] = NoSession]
            /\ UNCHANGED timers
    /\ Tell({s.browser})
    /\ conns' = Goto(c, "closed")
    /\ UNCHANGED <<creators, starts, issued, got, deleted>>

StaleLeaves(c) ==
    /\ conns[c].pc = "ended" /\ ~Mine(c)
    /\ conns' = Goto(c, "closed")
    /\ UNCHANGED <<sessions, creators, timers, starts, issued, got, told, deleted>>

\* disconnect_device_runtime, as far as it concerns terminals.
DeleteDevice(d) == LET mine == {t \in Terminals : Live(t) /\ DeviceOf[sessions[t].key] = d} IN
    /\ Deletions /\ d \notin deleted
    /\ deleted' = deleted \cup {d}
    /\ sessions' = [t \in Terminals |-> IF t \in mine THEN NoSession ELSE sessions[t]]
    /\ Tell({sessions[t].browser : t \in mine} \cup {sessions[t].bridge : t \in mine})
    /\ UNCHANGED <<conns, creators, timers, starts, issued, got>>

-----------------------------------------------------------------------------
(* Forwarding.                                                              *)

DropOldest(buf, f) == IF buf # <<>> /\ Len(buf) >= BufferCap
                      THEN Append(Tail(buf), f) ELSE Append(buf, f)

NextFrame(c) == /\ conns[c].pc = "read" /\ conns[c].sent < MaxFrames

Rejected(c) == /\ conns' = Goto(c, "ended")
               /\ UNCHANGED <<sessions, creators, timers, starts, issued, got, told, deleted>>

ReadStale(c) == NextFrame(c) /\ ~Current(c) /\ Rejected(c)

Oversized(c) ==
    /\ NextFrame(c) /\ Current(c)
    /\ "oversized" \in FrameKinds
    /\ Tell({c})
    /\ conns' = Goto(c, "ended")
    /\ UNCHANGED <<sessions, creators, timers, starts, issued, got, deleted>>

BrowserSends(c, f) == /\ f \in FrameKinds
                      /\ conns[c].kind = "browser" /\ NextFrame(c) /\ Current(c)

Pause(c) ==
    /\ BrowserSends(c, "pause")
    /\ sessions' = [sessions EXCEPT ![conns[c].term].paused = TRUE,
                                    ![conns[c].term].buffer = <<>>]
    /\ conns' = [conns EXCEPT ![c].sent = @ + 1]
    /\ UNCHANGED <<creators, timers, starts, issued, got, told, deleted>>

\* Mutant: what was replayed stays in the buffer.
ReplayedKept(s) == [s EXCEPT !.paused = FALSE]
Replayed(s) == [s EXCEPT !.paused = FALSE, !.buffer = <<>>]

\* The output held back is queued, as far as the queue takes it.
Resume(c) == LET t == conns[c].term
                 buf == sessions[t].buffer IN
    /\ BrowserSends(c, "resume")
    /\ \E n \in 0..Len(buf) :
        /\ n < Len(buf) => SlowPeers
        /\ got' = [got EXCEPT ![c] = @ \o SubSeq(buf, 1, n)]
    /\ sessions' = [sessions EXCEPT ![t] = Replayed(@)]
    /\ conns' = [conns EXCEPT ![c].sent = @ + 1]
    /\ UNCHANGED <<creators, timers, starts, issued, told, deleted>>

\* A resize looks for the bridge and buffers under one acquisition.
Resize(c) == LET t == conns[c].term IN
    /\ BrowserSends(c, "resize")
    /\ IF sessions[t].bridge # None
       THEN /\ conns' = [conns EXCEPT ![c].sent = @ + 1, ![c].pc = "send",
                                      ![c].peer = sessions[t].bridge]
            /\ UNCHANGED sessions
       ELSE IF Len(sessions[t].pending) >= BufferCap
       THEN /\ conns' = Goto(c, "ended")
            /\ UNCHANGED sessions
       ELSE /\ conns' = [conns EXCEPT ![c].sent = @ + 1]
            /\ sessions' = [sessions EXCEPT ![t].pending = Append(@, <<c, conns'[c].sent>>)]
    /\ UNCHANGED <<creators, timers, starts, issued, got, told, deleted>>

Data(c) ==
    /\ BrowserSends(c, "data")
    /\ conns' = [conns EXCEPT ![c].sent = @ + 1, ![c].pc = "lookup"]
    /\ UNCHANGED <<sessions, creators, timers, starts, issued, got, told, deleted>>

\* Output of the bridge: held back while the browser is paused.
Output(c) == LET t == conns[c].term IN
    /\ conns[c].kind = "bridge" /\ NextFrame(c) /\ Current(c)
    /\ IF sessions[t].paused
       THEN /\ conns' = [conns EXCEPT ![c].sent = @ + 1]
            /\ sessions' = [sessions EXCEPT ![t].buffer = DropOldest(@, <<c, conns'[c].sent>>)]
       ELSE /\ conns' = [conns EXCEPT ![c].sent = @ + 1, ![c].pc = "lookup"]
            /\ UNCHANGED sessions
    /\ UNCHANGED <<creators, timers, starts, issued, got, told, deleted>>

Counterpart(c) ==
    LET s == sessions[conns[c].term] IN
    IF ~Current(c) THEN None
    ELSE IF conns[c].kind = "browser" THEN s.bridge ELSE s.browser

Lookup(c) ==
    /\ conns[c].pc = "lookup"
    /\ conns' = [conns EXCEPT ![c].peer = Counterpart(c),
            ![c].pc = IF Counterpart(c) # None THEN "send"
                      ELSE IF conns[c].kind = "browser" THEN "buffer" ELSE "read"]
    /\ UNCHANGED <<sessions, creators, timers, starts, issued, got, told, deleted>>

\* A second acquisition of the lock: the bridge may have attached since.
BufferFrame(c) == LET t == conns[c].term IN
    /\ conns[c].pc = "buffer"
    /\ IF Current(c) /\ Len(sessions[t].pending) < BufferCap
       THEN /\ sessions' = [sessions EXCEPT ![t].pending = Append(@, Frame(c))]
            /\ conns' = Goto(c, "read")
       ELSE /\ conns' = Goto(c, "ended")
            /\ UNCHANGED sessions
    /\ UNCHANGED <<creators, timers, starts, issued, got, told, deleted>>

Send(c) ==
    /\ conns[c].pc = "send"
    /\ got' = [got EXCEPT ![conns[c].peer] = Append(@, Frame(c))]
    /\ conns' = [conns EXCEPT ![c].pc = "read", ![c].peer = None]
    /\ UNCHANGED <<sessions, creators, timers, starts, issued, told, deleted>>

SendRefused(c) ==
    /\ conns[c].pc = "send"
    /\ SlowPeers \/ conns[conns[c].peer].pc = "closed"
    /\ conns' = [conns EXCEPT ![c].pc = "ended", ![c].peer = None]
    /\ UNCHANGED <<sessions, creators, timers, starts, issued, got, told, deleted>>

-----------------------------------------------------------------------------
CreateStep == \E i \in Creators :
    \/ \E k \in Keys : Reuse(i, k) \/ Retry(i, k) \/ Create(i, k)
    \/ StartProxy(i) \/ StartRefused(i) \/ UndoCreate(i)
TimeStep == \E t \in Terminals :
    \/ DeadlinePasses(t)
    \/ \E g \in 1..(MaxCreates * Cardinality(Creators)) : AttachTimeout(t, g)
    \/ \E at, by \in Conns : GraceTimeout(t, at, by)
Connect(c) ==
    \/ \E t \in Terminals : BrowserConnects(c, t)
    \/ \E s \in starts : BridgeConnects(c, s[1], s[2])
Attach(c) ==
    RegisterBrowser(c) \/ RegisterBridge(c) \/ RegisterRefused(c)
        \/ Replay(c) \/ ReplayFails(c)
Detach(c) == BrowserLeaves(c) \/ BridgeLeaves(c) \/ StaleLeaves(c)
Read(c) ==
    ReadStale(c) \/ Oversized(c) \/ Pause(c) \/ Resume(c) \/ Resize(c)
        \/ Data(c) \/ Output(c)
Forward(c) == Lookup(c) \/ BufferFrame(c) \/ Send(c) \/ SendRefused(c)

Next ==
    \/ CreateStep
    \/ TimeStep
    \/ \E c \in Conns :
        Connect(c) \/ Attach(c) \/ Hangup(c) \/ Detach(c) \/ Read(c) \/ Forward(c)
    \/ \E d \in {DeviceOf[k] : k \in Keys} : DeleteDevice(d)

Spec == Init /\ [][Next]_vars

\* Spawned timers fire and the handlers' tasks run; nothing makes a peer
\* connect, send or hang up, except that one told to close does.
FairSpec ==
    /\ Spec
    /\ \A i \in Creators : WF_vars(StartProxy(i) \/ StartRefused(i))
                           /\ WF_vars(UndoCreate(i))
    /\ WF_vars(TimeStep)
    /\ \A c \in Conns : /\ WF_vars(Attach(c))
                        /\ WF_vars(Detach(c))
                        /\ WF_vars(Forward(c))
                        /\ WF_vars(c \in told /\ Hangup(c))

-----------------------------------------------------------------------------
(* Properties.                                                              *)

TypeOK ==
    /\ sessions \in [Terminals -> Session]
    /\ conns \in [Conns -> Conn]
    /\ creators \in [Creators -> Request]
    /\ timers \subseteq {"attach", "grace"} \X Terminals \X Nat \X (Conns \cup {None})
    /\ starts \subseteq Terminals \X Nat
    /\ issued \subseteq Terminals
    /\ got \in [Conns -> Seq(Frames)]
    /\ told \subseteq Conns
    /\ deleted \subseteq {DeviceOf[k] : k \in Keys}

Starting(t) == \E i \in DOMAIN creators :
                                  /\ creators[i].pc \in {"start", "undo"}
                                  /\ creators[i].term = t
                                  /\ creators[i].gen = sessions[t].gen
AttachTimer(t) == <<"attach", t, sessions[t].gen, None>> \in timers
GraceTimer(t) == \E by \in Conns : <<"grace", t, sessions[t].gone, by>> \in timers

\* A terminal nobody is connected to is on its way out: the timeout of its
\* latest attempt sleeps, or the cleanup for the instant its browser left, or
\* the request that made it has not finished.  Retries, reuse and stale timers
\* never lose the one task that will remove it.
Collected ==
    \A t \in Terminals :
        Live(t) /\ sessions[t].browser = None /\ sessions[t].bridge = None
            => Starting(t) \/ AttachTimer(t) \/ GraceTimer(t)

\* Every attempt that waits for its bridge is timed: no browser waits for a
\* bridge without a timeout that ends the wait.
WaitIsTimed ==
    \A t \in Terminals :
        Live(t) /\ sessions[t].bridge = None /\ sessions[t].deadline # "unset"
            => Starting(t) \/ AttachTimer(t)

\* Every terminal nobody is connected to has a timer that removes it, and no
\* browser waits for a bridge without a timeout, however attempts, expiries,
\* graces and replacements overlap (create_terminal_session, the spawned
\* expiry and cleanup tasks).
NothingStrands == Collected /\ WaitIsTimed

\* While every queue has room, an open connection that lost its place in its
\* session, to a replacement, a timeout, a cleanup or a deletion, was sent a
\* Close.
DisplacedIsTold ==
    \A c \in Conns :
        conns[c] # NoConn /\ conns[c].pc \notin {"accepted", "ended", "closed"}
            => Current(c) \/ c \in told

\* A frame is newer than the earlier ones of the same connection.
InOrder(frames) ==
    \A i, j \in 1..Len(frames) :
        i < j /\ frames[i][1] = frames[j][1] => frames[i][2] < frames[j][2]

\* A browser gets the output of one bridge connection in the order in which
\* the bridge sent it and never twice, whatever pauses, resumes and
\* reconnections come between (forward_terminal_message).
OutputKeepsOrder ==
    \A c \in Conns : conns[c].kind = "browser" => InOrder(got[c])

\* A terminal that both sides are connected to is not taken down by the
\* timeout of an attempt, by the cleanup after an earlier browser or by the end of
\* a replaced connection.
InUseIsKept ==
    [][\A t \in Terminals :
        Live(t) /\ sessions[t].browser # None /\ sessions[t].bridge # None
                /\ deleted' = deleted
            => sessions'[t] # NoSession]_vars

\* An attachment ends only with the connection that holds it: the end of an
\* older connection leaves its replacement attached.
HeldIsKept ==
    [][\A t \in Terminals :
        Live(t) /\ sessions[t].bridge # None /\ sessions'[t] # NoSession
            => sessions'[t].bridge # None \/ conns[sessions[t].bridge].pc = "ended"]_vars

\* A terminal that both sides are connected to is not taken down by an earlier
\* attempt's timeout or an earlier browser's cleanup, and the end of an older
\* connection leaves its replacement attached (unregister_terminal_connection).
ReplacementStays == InUseIsKept /\ HeldIsKept

\* A terminal nobody is connected to is removed or connected to in the end.
EventuallyCollected ==
    \A t \in Terminals :
        (Live(t) /\ sessions[t].browser = None /\ sessions[t].bridge = None)
            ~> (Live(t) => sessions[t].browser # None \/ sessions[t].bridge # None)

\* What the comment in register_terminal_connection and the test of the late
\* bridge say: once a bridge is attached, no frame of the browser is left
\* behind in the buffer that only the next bridge will read.
HandshakeReachesBridge ==
    \A t \in Terminals :
        Live(t) /\ sessions[t].bridge # None => sessions[t].pending = <<>>

\* What the test of a browser that does not come back says: a bridge whose
\* browser has left is on its way out.
LeftBridgeIsCollected ==
    \A t \in Terminals :
        /\ Live(t) /\ sessions[t].browser = None /\ sessions[t].bridge # None
        /\ \E c \in Conns : /\ conns[c] # NoConn /\ conns[c].pc = "closed"
                            /\ conns[c].kind = "browser" /\ conns[c].term = t
        /\ \A c \in Conns : conns[c] # NoConn /\ conns[c].term = t
                            => conns[c].pc # "accepted"
        => GraceTimer(t)

=============================================================================
