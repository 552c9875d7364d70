-------------------------- MODULE MCRelayTerminals --------------------------
(***************************************************************************)
(* RelayTerminals for TLC: three cases side by side.  A behaviour stays in *)
(* its case.                                                               *)
(***************************************************************************)
EXTENDS RelayTerminals

CONSTANTS k1, d1, u1
VARIABLE case

MCDevice == [k \in Keys |-> d1]
MCOwner == [d \in {d1} |-> u1]

\* Two concurrent requests for one terminal: creation, retry, reuse, expiry,
\* grace and replacement.
Attaching == INSTANCE RelayTerminals WITH
    Creators <- {"a", "b"}, MaxCreates <- 1, MaxFrames <- 0, FrameKinds <- {},
    SessionCap <- 2, DeviceCap <- 2, SlowPeers <- TRUE, Deletions <- FALSE
\* Connections that forward frames, one too large, and a deletion of the
\* device, while every queue has room.
Displacing == INSTANCE RelayTerminals WITH
    Creators <- {"a"}, MaxCreates <- 1, MaxFrames <- 1,
    FrameKinds <- {"data", "oversized"}, SessionCap <- 2, DeviceCap <- 1,
    SlowPeers <- FALSE, Deletions <- TRUE
\* Output through pauses, resumes, a full buffer and refused sends.
Pausing == INSTANCE RelayTerminals WITH
    Creators <- {"a"}, MaxCreates <- 1, MaxFrames <- 2,
    FrameKinds <- {"pause", "resume"}, SessionCap <- 1, DeviceCap <- 1,
    SlowPeers <- TRUE, Deletions <- FALSE

CasesInit ==
    \/ case = "attaching" /\ Attaching!Init
    \/ case = "displacing" /\ Displacing!Init
    \/ case = "pausing" /\ Pausing!Init
CasesNext ==
    /\ UNCHANGED case
    /\ \/ case = "attaching" /\ Attaching!Next
       \/ case = "displacing" /\ Displacing!Next
       \/ case = "pausing" /\ Pausing!Next
CasesSpec == CasesInit /\ [][CasesNext]_<<vars, case>>

-----------------------------------------------------------------------------
\* While every queue has room, a connection that lost its place, to a
\* replacement, a timeout, a cleanup or a deletion, was sent a Close.
EveryoneIsTold ==
    /\ case = "attaching" => Attaching!TypeOK
    /\ case = "displacing" => Displacing!DisplacedIsTold
=============================================================================
