-------------------------- MODULE MCRelayRequests ---------------------------
(* The requests of the relay for TLC. One run explores three slices of       *)
(* RelayRequests side by side: `part` says which requests begin and what     *)
(* else happens; the constants are the same. What a slice reaches            *)
(* RelayRequests reaches, so the run checks what RelayRequestsProofs proves. *)
EXTENDS RelayRequests
CONSTANT Parts
VARIABLE part

MCDeviceOf == [r \in Requests |-> CHOOSE d \in Devices : TRUE]
MCKindOf == [r \in Requests |-> IF r = "post" THEN "api" ELSE r]
MCSizeOf == [r \in Requests |-> IF r = "post" THEN 2 ELSE 1]

Answers == INSTANCE RelayRequests WITH
    Events <- {"timeout", "abandon", "disconnect", "hangup"}
Streams == INSTANCE RelayRequests WITH
    Events <- {"timeout", "abandon", "hangup", "disorder"}
Cancels == INSTANCE RelayRequests WITH
    Events <- {"timeout", "disconnect", "delete", "hangup", "browser"}
Begins(rs) == \A r \in Requests \ rs : reqs[r].pc = "idle" => reqs'[r].pc = "idle"

PartsInit == part \in Parts /\ Init
PartsNext ==
    /\ UNCHANGED part
    /\ CASE part = "answers" -> Answers!Next /\ Begins({"get", "post"})
         [] part = "streams" -> Streams!Next /\ Begins({"stream"})
         [] part = "cancels" -> Cancels!Next /\ Begins({"stream"})
partsVars == <<part, vars>>
PartsSpec == PartsInit /\ [][PartsNext]_partsVars
=============================================================================
