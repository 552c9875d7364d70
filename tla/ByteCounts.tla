------------------------------- MODULE ByteCounts -------------------------------
(***************************************************************************)
(* The bytes of messages and claims, which the relay counts against caps   *)
(* (conductor-relay/src/relay.rs): what things of known sizes add up to.   *)
(***************************************************************************)
EXTENDS Naturals, FiniteSets

\* The bytes of one thing are numbered; a set of things holds all of theirs.
BytesOf(size, x) == {x} \X (1..size[x])
TotalBytes(size, S) == Cardinality(UNION {BytesOf(size, x) : x \in S})
=============================================================================
