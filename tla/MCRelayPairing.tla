--------------------------- MODULE MCRelayPairing ---------------------------
(* Instances of RelayPairing for TLC.  One run explores them side by side:   *)
(* `part` says whether a behaviour is one of devices that two users pair and *)
(* delete, or one of claims that expire while one user completes them.       *)
EXTENDS RelayPairing, TLC

CONSTANTS d1, d2, u1, u2, c1, c2, k1, k2
VARIABLE part

MCSize == [k \in {k1, k2} |-> 2]
Symmetric == Permutations(Tasks)

Devs == INSTANCE RelayPairing WITH
    Users <- {u1, u2}, Codes <- {c1, c2}, Claims <- {k1}, Faults <- {"write"}
Clms == INSTANCE RelayPairing WITH
    Users <- {u1}, Codes <- {c1}, Claims <- {k1, k2}, Faults <- {"write", "lapse"}

PartInit ==
    \/ part = "devices" /\ Devs!Init
    \/ part = "claims" /\ Clms!Init
PartNext ==
    /\ UNCHANGED part
    /\ \/ part = "devices" /\ Devs!Next
       \/ part = "claims" /\ Clms!Next
PartSpec == PartInit /\ [][PartNext]_<<part, vars>>

=============================================================================
