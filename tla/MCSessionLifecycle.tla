------------------------- MODULE MCSessionLifecycle -------------------------
(***************************************************************************)
(* SessionLifecycle for TLC.  A run explores several cases side by side:   *)
(* what the clients ask for and what goes wrong differ, and a behaviour    *)
(* stays in its case.                                                      *)
(***************************************************************************)
EXTENDS SessionLifecycle, TLC

CONSTANTS Cases, k1, k2, c1, c2
VARIABLE case

MCSessions2 == {1, 2}
MCOneSession == {1}
MCProjects == {"p"}
MCOneProject == [k \in Keys |-> "p"]
MCSymmetry == Permutations(Runtimes)
MCNone == [c \in Clients |-> 0]
Asks(n, m) == [c \in Clients |-> IF c = c1 THEN n ELSE m]
One == [k \in {k1} |-> "p"]
MCTwo == Asks(2, 0)
MCThree == Asks(3, 0)

\* Two clients, one of which starts a session the other ends.
Kill == INSTANCE SessionLifecycle WITH Sessions <- {1}, Keys <- {k1}, ProjectOf <- One, Uninstalled <- {},
    Commands <- {"spawn", "kill"}, Faults <- {},
    Background <- {}, MaxCommands <- Asks(2, 1), MaxCrashes <- 0, ProjectLimit <- 1
\* A message to a session whose agent waits for input or may just have ended.
Send == INSTANCE SessionLifecycle WITH Sessions <- {1}, Keys <- {k1}, ProjectOf <- One, Uninstalled <- {},
    Commands <- {"spawn", "send", "kill"}, Faults <- {"status"},
    Background <- {}, MaxCommands <- Asks(2, 0), MaxCrashes <- 0, ProjectLimit <- 1
\* A crash at any point, with flushes pending; one of two agents is gone after it.
Restart == INSTANCE SessionLifecycle WITH Sessions <- {1},
    Commands <- {"spawn", "kill"}, Faults <- {},
    Background <- {"flush", "input"}, MaxCommands <- Asks(2, 0), MaxCrashes <- 1, ProjectLimit <- 1
\* One place in the project, and launches that fail.
Capacity == INSTANCE SessionLifecycle WITH Keys <- {k1}, ProjectOf <- One, Uninstalled <- {},
    Commands <- {"spawn", "kill"}, Faults <- {"process"}, Background <- {},
    MaxCommands <- Asks(3, 0), MaxCrashes <- 0, ProjectLimit <- 1, BranchlessKeys <- {}
\* Two places, and two requests for the same work.
Duplicates == INSTANCE SessionLifecycle WITH Keys <- {k1}, ProjectOf <- One, Uninstalled <- {},
    Commands <- {"spawn", "kill"}, Faults <- {}, Background <- {},
    MaxCommands <- Asks(3, 0), MaxCrashes <- 0, ProjectLimit <- 2, BranchlessKeys <- {k1}
\* Everything that can fail, and a crash.
Failures == INSTANCE SessionLifecycle WITH Sessions <- {1}, Keys <- {k1}, ProjectOf <- One, Uninstalled <- {},
    Commands <- {"spawn", "archive", "send", "restore"},
    Faults <- {"disk", "process", "owner", "cancel"}, Background <- {},
    MaxCommands <- Asks(2, 0), MaxCrashes <- 1, ProjectLimit <- 1, BranchlessKeys <- {}

CasesInit ==
    /\ case \in Cases
    /\ IF case \in {"kill", "send", "restart", "failures"} THEN Kill!Init ELSE Init
CasesNext ==
    /\ UNCHANGED case
    /\ \/ case = "kill" /\ Kill!Next
       \/ case = "send" /\ Send!Next
       \/ case = "restart" /\ Restart!Next
       \/ case = "capacity" /\ Capacity!Next
       \/ case = "duplicates" /\ Duplicates!Next
       \/ case = "failures" /\ Failures!Next
       \/ case = "given" /\ Next
CasesSpec == CasesInit /\ [][CasesNext]_<<vars, case>>

\* With the constants of the configuration itself, under fairness.
FairCases == CasesSpec /\ Fairness

\* With no crash nothing reads what a session file holds, only that it is
\* there; with no timeouts nothing reads the timers.
MCView ==
    <<case, mem, host, proc, watch, sup, kick, cmd, pend, flush,
      IF case \in {"restart", "failures"} THEN <<disk, phase, todo, crashes>>
      ELSE {s \in DOMAIN disk : disk[s] = NoRec},
      IF case \in {"send", "capacity", "duplicates"} THEN {} ELSE timers>>

-----------------------------------------------------------------------------
\* In every case, under the requests and faults each part needs, every variable
\* has its type, launches stay within the limits, no two are launching or live
\* for the same work, and at most one session is being launched.
CasesWithinLimits ==
    /\ case = "kill" => Kill!LaunchesWithinLimits
    /\ case = "send" => Send!LaunchesWithinLimits
    /\ case = "restart" => Restart!LaunchesWithinLimits
    /\ case = "capacity" => Capacity!LaunchesWithinLimits
    /\ case = "duplicates" => Duplicates!LaunchesWithinLimits
    /\ case = "failures" => Failures!LaunchesWithinLimits

\* A launch makes progress: a queued session that may be launched is, one that
\* is being launched starts or fails, and a runtime told to die does.
LaunchesProgress == EligibleIsLaunched /\ LaunchResolves /\ KilledRuntimeDies
=============================================================================
