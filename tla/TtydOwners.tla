------------------------------- MODULE TtydOwners -------------------------------
(***************************************************************************)
(* The ttyd of one session and the tasks around it                         *)
(* (state/detached/ttyd_launcher.rs): the owner of its websocket, which    *)
(* reconnects, the monitors that wait for its end or for a kill, callers   *)
(* of ensure_session_live (state/detached/mod.rs) that restore it, and the *)
(* host that holds its channels (state/terminal_hosts.rs).                 *)
(*                                                                         *)
(* A group is one set of channels: an input and a kill sender here, an     *)
(* input receiver with an owner, a kill receiver with a monitor or nobody. *)
(* The bytes, the frames and the consumers of the output are left out.     *)
(***************************************************************************)
EXTENDS Naturals, FiniteSets

CONSTANTS
    Callers,      \* requests and terminals that ensure the session is live
    MaxGroups,    \* groups ever made
    MaxTries,     \* TTYD_OWNER_RECONNECT_MAX_ATTEMPTS, 20
    Drops,        \* websockets that are lost
    Restarts,     \* restarts of the server
    Evictions,    \* times the host is found idle and evicted
    Hangs,        \* whether a caller may be dropped while it waits
    Kills,        \* whether the session may be killed
    Ages,         \* whether TTYD_MAX_SESSION_DURATION may pass
    Faults        \* of "exit", "deaf": ttyd ends by itself, does not answer

OwnersAssumption ==
    /\ {MaxGroups, MaxTries, Drops, Restarts, Evictions} \subseteq Nat
    /\ {Kills, Ages, Hangs} \subseteq BOOLEAN
    /\ Faults \subseteq {"exit", "deaf"}

VARIABLES
    ttyd,         \* "none", "up" or "dead"
    status,       \* the session: "live", "done" or "killed"
    old,          \* whether the session is past its maximum duration
    asked,        \* whether ttyd ended by itself, or somebody killed or gave it up
    host,         \* channels: the current and the retained senders
    sent,         \* groups whose kill sender was used
    owner,        \* owners: where, the group of their channels, attempts
    monitor,      \* monitors: "none", "watch" or "gone"
    n,            \* groups made
    at, holds,    \* callers: where, the group they made
    lapsed,       \* whether a kill sender of a ttyd that lives was dropped
    drops, restarts, evictions

vars == <<ttyd, status, old, asked, host, sent, owner, monitor, n, at, holds, lapsed, drops, restarts, evictions>>
Groups == 1..MaxGroups
NoOwner == [at |-> "none", ch |-> 0, tries |-> 0]
NoHost == [input |-> 0, kept |-> {}, kill |-> 0, kills |-> {}]
Launch == "launch"

Init ==
    /\ ttyd = "none" /\ status = "live" /\ old = FALSE /\ asked = FALSE /\ lapsed = FALSE
    /\ host = NoHost /\ sent = {} /\ n = 0 /\ drops = 0 /\ restarts = 0 /\ evictions = 0
    /\ owner = [g \in Groups |-> NoOwner] /\ monitor = [g \in Groups |-> "none"]
    /\ at = [c \in Callers \cup {Launch} |-> "new"] /\ holds = [c \in Callers \cup {Launch} |-> 0]

-----------------------------------------------------------------------------
\* An input sender is open while an owner has its receiver; an owner that
\* waits to reconnect has dropped it.
Open(g) == \E o \in Groups : owner[o].ch = g /\ owner[o].at \in {"connect", "up"}
\* runtime_attached
Attached == host.input # 0 /\ Open(host.input)

\* detach_runtime retains the senders.
Detached(h) ==
    [input |-> 0, kept |-> (h.kept \cup {h.input}) \ {0}, kill |-> 0, kills |-> (h.kills \cup {h.kill}) \ {0}]
\* attach_runtime
AttachedTo(h, g) ==
    IF Attached THEN h
    ELSE [input |-> g, kept |-> (h.kept \cup {h.input}) \ {0}, kill |-> g, kills |-> (h.kills \cup {h.kill}) \ {0}]
\* A kill receiver resolves when its sender is used or dropped.
KillHeld(g) == g = host.kill \/ g \in host.kills \/ \E c \in DOMAIN holds : holds[c] = g
Killed(g) == g \in sent \/ ~KillHeld(g)

\* A new group with an owner that connects and a monitor.
NewGroup(c) ==
    /\ n < MaxGroups /\ n' = n + 1
    /\ owner' = [owner EXCEPT ![n + 1] = [at |-> "connect", ch |-> n + 1, tries |-> 0]]
    /\ monitor' = [monitor EXCEPT ![n + 1] = "watch"]
    /\ at' = [at EXCEPT ![c] = "wait"] /\ holds' = [holds EXCEPT ![c] = n + 1]

\* spawn_ttyd_runtime
Spawn ==
    /\ at[Launch] = "new" /\ ttyd' = "up" /\ NewGroup(Launch)
    /\ UNCHANGED <<status, old, asked, host, sent, lapsed, drops, restarts, evictions>>

\* Mutant: nothing serialises the callers.
NoGuard(c) == TRUE
\* Bound: the groups made leave one for each time an owner reconnects.
Room == Cardinality({g \in Groups : monitor[g] # "none"}) * (MaxTries + 1) < MaxGroups
\* ensure_session_live: the guard of the session, then restore_ttyd_runtime.
Guard(c) == \A d \in Callers : at[d] # "wait"
Ensure(c) ==
    /\ c \in Callers /\ at[c] = "new" /\ at[Launch] = "done" /\ Guard(c)
    /\ IF Attached \/ status = "killed" THEN UNCHANGED <<ttyd, status, n, owner, monitor, at, holds>>
       ELSE IF ttyd = "up" THEN Room /\ NewGroup(c) /\ UNCHANGED <<ttyd, status>>
       ELSE status' = "done" /\ UNCHANGED <<ttyd, n, owner, monitor, at, holds>>
    /\ UNCHANGED <<old, asked, host, sent, lapsed, drops, restarts, evictions>>

\* The owner is ready: the channels are attached.
Ready(c) ==
    /\ at[c] = "wait" /\ owner[holds[c]].at = "up"
    /\ host' = AttachedTo(host, holds[c]) /\ lapsed' = (lapsed \/ (Attached /\ ttyd = "up"))
    /\ at' = [at EXCEPT ![c] = IF c = Launch THEN "done" ELSE "new"] /\ holds' = [holds EXCEPT ![c] = 0]
    /\ UNCHANGED <<ttyd, status, old, asked, sent, owner, monitor, n, drops, restarts, evictions>>

\* Whoever gives up drops the kill sender.
Released(c) == [holds EXCEPT ![c] = 0]
\* TTYD_OWNER_ATTACH_TIMEOUT
GiveUp(c) ==
    /\ at[c] = "wait" /\ owner[holds[c]].at # "up" /\ ("deaf" \in Faults \/ ttyd = "dead")
    /\ asked' = TRUE
    /\ at' = [at EXCEPT ![c] = IF c = Launch THEN "failed" ELSE "new"] /\ holds' = Released(c)
    /\ UNCHANGED <<ttyd, status, old, host, sent, owner, monitor, n, lapsed, drops, restarts, evictions>>

\* The client of a request hangs up: its handler is dropped where it waits.
HangUp(c) ==
    /\ Hangs /\ c \in Callers /\ at[c] = "wait" /\ lapsed' = (lapsed \/ ttyd = "up")
    /\ at' = [at EXCEPT ![c] = "new"] /\ holds' = Released(c)
    /\ UNCHANGED <<ttyd, status, old, asked, host, sent, owner, monitor, n, drops, restarts, evictions>>

\* maintain_terminal_hosts: a host that nothing is attached to and nobody watches
\* or touched for TERMINAL_HOST_IDLE_EVICTION_TTL goes with its senders; one that
\* just was detached is not idle.
Evict ==
    /\ evictions < Evictions /\ evictions' = evictions + 1
    /\ ~Attached /\ host # NoHost /\ \A o \in Groups : owner[o].at # "awake"
    /\ host' = NoHost /\ lapsed' = (lapsed \/ ttyd = "up")
    /\ UNCHANGED <<ttyd, status, old, asked, sent, owner, monitor, n, at, holds, drops, restarts>>

-----------------------------------------------------------------------------
\* run_ttyd_session_owner
Connect(o) ==
    /\ owner[o].at = "connect" /\ ttyd = "up" /\ owner' = [owner EXCEPT ![o].at = "up"]
    /\ UNCHANGED <<ttyd, status, old, asked, host, sent, monitor, n, at, holds, lapsed, drops, restarts, evictions>>

\* What run_ttyd_session_owner_with_retry makes of the end of a connection.
Lost(o) ==
    IF ttyd = "dead" THEN owner' = [owner EXCEPT ![o].at = "gone"] /\ UNCHANGED host
    ELSE IF owner[o].tries >= MaxTries
      THEN owner' = [owner EXCEPT ![o].at = "gone"] /\ host' = Detached(host)
      ELSE owner' = [owner EXCEPT ![o].at = "sleep", ![o].tries = @ + 1] /\ UNCHANGED host

\* A connection lasts longer than it takes to attach its channels.
Drop(o) ==
    /\ owner[o].at = "up" /\ drops < Drops /\ drops' = drops + 1 /\ Lost(o)
    /\ \A c \in DOMAIN holds : holds[c] # o
    /\ UNCHANGED <<ttyd, status, old, asked, sent, monitor, n, at, holds, lapsed, restarts, evictions>>

\* The connection ends with ttyd; an owner that cannot connect gives up.
End(o) ==
    /\ \/ owner[o].at = "up" /\ ttyd = "dead"
       \/ owner[o].at = "connect" /\ (ttyd = "dead" \/ "deaf" \in Faults)
    /\ Lost(o)
    /\ UNCHANGED <<ttyd, status, old, asked, sent, monitor, n, at, holds, lapsed, drops, restarts, evictions>>

\* TTYD_MAX_SESSION_DURATION has passed.
TooOld(o) ==
    /\ owner[o].at = "up" /\ old
    /\ owner' = [owner EXCEPT ![o].at = "gone"] /\ host' = Detached(host)
    /\ UNCHANGED <<ttyd, status, old, asked, sent, monitor, n, at, holds, lapsed, drops, restarts, evictions>>

\* After the delay: detach, then attach fresh channels that no monitor has.
WakeDetach(o) ==
    /\ owner[o].at = "sleep" /\ owner' = [owner EXCEPT ![o].at = "awake"] /\ host' = Detached(host)
    /\ UNCHANGED <<ttyd, status, old, asked, sent, monitor, n, at, holds, lapsed, drops, restarts, evictions>>

WakeAttach(o) ==
    /\ owner[o].at = "awake" /\ n < MaxGroups /\ n' = n + 1
    /\ host' = AttachedTo(host, n + 1)
    /\ owner' = [owner EXCEPT ![o].at = "connect", ![o].ch = n + 1]
    /\ UNCHANGED <<ttyd, status, old, asked, sent, monitor, at, holds, lapsed, drops, restarts, evictions>>

-----------------------------------------------------------------------------
\* A monitor: a kill, or the end of ttyd; then the runtime is detached.
Monitor(g) ==
    /\ monitor[g] = "watch" /\ (Killed(g) \/ ttyd = "dead")
    /\ ttyd' = "dead" /\ monitor' = [monitor EXCEPT ![g] = "gone"]
    /\ host' = Detached(host) /\ status' = IF status = "killed" THEN status ELSE "done"
    /\ UNCHANGED <<old, asked, sent, owner, n, at, holds, lapsed, drops, restarts, evictions>>

\* kill_session uses all senders there are, ends the process the session
\* names and removes the host.
Kill ==
    /\ Kills /\ status # "killed" /\ at[Launch] = "done"
    /\ status' = "killed" /\ asked' = TRUE /\ ttyd' = "dead"
    /\ sent' = sent \cup ((host.kills \cup {host.kill}) \ {0}) /\ host' = NoHost
    /\ UNCHANGED <<old, owner, monitor, n, at, holds, lapsed, drops, restarts, evictions>>

Exit ==
    /\ "exit" \in Faults /\ ttyd = "up" /\ ttyd' = "dead" /\ asked' = TRUE
    /\ UNCHANGED <<status, old, host, sent, owner, monitor, n, at, holds, lapsed, drops, restarts, evictions>>

Age ==
    /\ Ages /\ ttyd = "up" /\ ~old /\ old' = TRUE
    /\ UNCHANGED <<ttyd, status, asked, host, sent, owner, monitor, n, at, holds, lapsed, drops, restarts, evictions>>

\* The tasks end with the server, ttyd does not.
Restart ==
    /\ restarts < Restarts /\ restarts' = restarts + 1 /\ at[Launch] = "done"
    /\ host' = NoHost /\ sent' = {} /\ owner' = [g \in Groups |-> NoOwner]
    /\ monitor' = [g \in Groups |-> "none"] /\ n' = 0
    /\ at' = [c \in DOMAIN at |-> IF c = Launch THEN "done" ELSE "new"] /\ holds' = [c \in DOMAIN at |-> 0]
    /\ UNCHANGED <<ttyd, status, old, asked, lapsed, drops, evictions>>

Call(c) == Ensure(c) \/ Ready(c) \/ GiveUp(c) \/ HangUp(c)
Task(g) == Connect(g) \/ End(g) \/ TooOld(g) \/ WakeDetach(g) \/ WakeAttach(g) \/ Monitor(g)
Next ==
    \/ Spawn \/ Kill \/ Exit \/ Age \/ Restart \/ Evict
    \/ \E c \in Callers \cup {Launch} : Call(c)
    \/ \E g \in Groups : Drop(g) \/ Task(g)
Spec == Init /\ [][Next]_vars

\* Tasks run on; nobody has to call, to drop or to kill.
FairSpec == Spec /\ WF_vars(Spawn) /\ (\A c \in Callers \cup {Launch} : WF_vars(Ready(c) \/ GiveUp(c)))
                 /\ \A g \in Groups : WF_vars(Task(g))

-----------------------------------------------------------------------------
\* The variables have their types; what the host holds was made.
TypeOK ==
    /\ ttyd \in {"none", "up", "dead"} /\ status \in {"live", "done", "killed"}
    /\ {old, asked, lapsed} \subseteq BOOLEAN /\ n \in 0..MaxGroups /\ drops \in 0..Drops /\ restarts \in 0..Restarts
    /\ host \in [input : 0..n, kept : SUBSET (1..n), kill : 0..n, kills : SUBSET (1..n)] /\ sent \subseteq 1..n
    /\ \A g \in Groups :
       /\ owner[g] \in [at : {"none", "connect", "up", "sleep", "awake", "gone"}, ch : 0..n, tries : 0..MaxTries]
       /\ monitor[g] \in {"none", "watch", "gone"}
    /\ at \in [Callers \cup {Launch} -> {"new", "wait", "done", "failed"}] /\ holds \in [Callers \cup {Launch} -> 0..n]

\* ttyd starts a terminal for every websocket, so one owner is connected
\* (ttyd_launcher.rs:485 "Conductor must keep exactly one upstream connection
\* alive"), until a ttyd is left to be killed.
OneOwner == \A o, p \in Groups : owner[o].at = "up" /\ owner[p].at = "up" => o = p \/ lapsed

\* ttyd lives until it ends, somebody asks for its end, or the sender that could
\* ask is dropped, with a caller, with an idle host, or by a restore that finds that
\* the owner is back: owners that lose their connection do not take it down.
EndsWhenAsked == ttyd = "dead" => asked \/ lapsed

\* What that sender breaks (README): a lost connection leaves ttyd alone
\* (ttyd_launcher.rs:762 "the ttyd process itself keeps running").
KeepsRunning == ttyd = "dead" => asked

\* A launch whose owner does not get through leaves no ttyd (ttyd_launcher.rs:517
\* "kill the ttyd process to prevent a leak").
NoLeak == (at[Launch] = "failed") ~> (ttyd # "up")

\* The owner of a ttyd that lives on attaches again or gives up.
Returns == \A o \in Groups : (owner[o].at = "sleep") ~> (Attached \/ owner[o].at \in {"gone", "none"})

\* A session at its maximum duration loses its ttyd (ttyd_launcher.rs:50 "After
\* this duration the session is considered stale and the ttyd process is
\* terminated").
StaleEnds == (old /\ ttyd = "up") ~> (ttyd # "up")
=============================================================================
