----------------------------- MODULE DeviceRegistry -----------------------------
(***************************************************************************)
(* What the relay promises of its paired devices: one durable registry,    *)
(* each operation changes at most the record of one device, at one moment; *)
(* an operation that is answered "ok" made its change, one that is         *)
(* answered "refused" made none, and one that a crash cut off may have     *)
(* made it or not.  RelayPairing is shown to implement this.               *)
(***************************************************************************)
CONSTANTS
    Devices,
    Tasks,       \* operations, each is used once
    Records,     \* what the registry may hold for a device
    NoRecord     \* the record of a device that is not paired

NoRecordAssumption == NoRecord \notin Records

VARIABLES
    registry,    \* the record of each device
    outcome      \* how far each operation is

vars == <<registry, outcome>>

Init ==
    /\ registry = [d \in Devices |-> NoRecord]
    /\ outcome = [t \in Tasks |-> "open"]

Becomes(t, from, to) == outcome[t] = from /\ outcome' = [outcome EXCEPT ![t] = to]

Make(t) ==
    /\ Becomes(t, "open", "made")
    /\ \E d \in Devices, r \in Records \cup {NoRecord} :
           registry' = [registry EXCEPT ![d] = r]

Confirm(t) == Becomes(t, "made", "ok") /\ UNCHANGED registry

Refuse(t) == Becomes(t, "open", "refused") /\ UNCHANGED registry

Lose(S) ==
    /\ outcome' = [t \in Tasks |-> IF t \in S /\ outcome[t] \in {"open", "made"}
                                   THEN "lost" ELSE outcome[t]]
    /\ UNCHANGED registry

Next == \/ \E t \in Tasks : Make(t) \/ Confirm(t) \/ Refuse(t)
        \/ \E S \in SUBSET Tasks : Lose(S)

Spec == Init /\ [][Next]_vars

=============================================================================
