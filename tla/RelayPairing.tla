------------------------------ MODULE RelayPairing ------------------------------
(***************************************************************************)
(* Pairing of devices with the relay (conductor-relay/src/relay.rs): codes *)
(* a device types in, claims a user completes, deletion of a device, and   *)
(* the file that keeps the devices over restarts.                          *)
(*                                                                         *)
(* One action is one acquisition of the relay's inner lock or one step of  *)
(* the write to disk; `holder` is the lock of the persistence coordinator, *)
(* which the three operations that change devices hold from their first    *)
(* step to their answer.  A task's refresh token is the task itself.       *)
(***************************************************************************)
EXTENDS Naturals, FiniteSets, ByteCounts

CONSTANTS
    Devices, Users, Codes, Claims,
    Tasks,           \* calls of pair_device, complete_device_claim, delete_device
    None,
    SizeOf,          \* bytes of the identity in a claim
    CodeCap,         \* MAX_PENDING_PAIRING_CODES
    ClaimCap,        \* MAX_PENDING_DEVICE_CLAIMS
    ClaimByteCap,    \* MAX_PENDING_DEVICE_CLAIM_BYTES
    DeviceCap,       \* MAX_PAIRED_DEVICES_GLOBAL
    UserCap,         \* MAX_PAIRED_DEVICES_PER_USER
    MaxCrashes,      \* bound: restarts of the relay
    Faults           \* what goes wrong, a subset of FaultNames

\* "write": the file is not written; "late": it is in place, and an error follows;
\* "abandon": the client hangs up and its handler is dropped where it awaits.
FaultNames == {"write", "late", "abandon", "lapse"}

ASSUME NoneAssumption == None \notin Devices \cup Users \cup Codes \cup Claims \cup Tasks
ASSUME CapAssumption == {CodeCap, ClaimCap, ClaimByteCap, DeviceCap, UserCap, MaxCrashes} \subseteq Nat
ASSUME SizeAssumption == SizeOf \in [Claims -> Nat]
ASSUME FaultsAssumption == Faults \subseteq FaultNames
ASSUME FiniteAssumption == IsFiniteSet(Devices) /\ IsFiniteSet(Claims)

VARIABLES
    codes,      \* RelayInner.pairing_codes
    claims,     \* RelayInner.device_claims
    claimBytes, \* RelayInner.pending_device_claim_bytes
    devices,    \* RelayInner.devices
    tokens,     \* RelayInner.refresh_tokens
    revision,   \* RelayInner.state_revision
    written,    \* PersistenceCoordinator.last_persisted_revision
    holder,     \* who holds the persistence lock
    disk,       \* the state file
    renaming,   \* renames of the state file the blocking pool still runs for nobody
    tasks,      \* the calls
    handed,     \* how often the tokens of a claim were handed out
    crashes

vars == <<codes, claims, claimBytes, devices, tokens, revision, written, holder,
          disk, renaming, tasks, handed, crashes>>
pending == <<codes, claims, claimBytes, handed>>
memory == <<devices, tokens, revision>>
file == <<disk, renaming>>

-----------------------------------------------------------------------------
Record == [owner : Users, token : Tasks]
NoDevice == [owner |-> None, token |-> None]
Registry == [Devices -> Record \cup {NoDevice}]

Paired(r) == r # NoDevice
PairedIn(ds) == {d \in Devices : Paired(ds[d])}
OwnedIn(ds, u) == {d \in Devices : ds[d].owner = u}
Snapshot(ds, rev) == [rev |-> rev, devices |-> ds]

Code == [state : {"unused", "live", "gone"}, owner : Users \cup {None}, old : BOOLEAN]
Claim == [state : {"unused", "live", "gone"}, dev : Devices \cup {None}, old : BOOLEAN,
          busy : BOOLEAN, token : Tasks \cup {None}, polled : BOOLEAN]
Task == [pc : {"idle", "taken", "write", "written", "unwritten", "ok", "refused", "lost"},
         op : {"pair", "complete", "delete"}, user : Users \cup {None},
         dev : Devices \cup {None}, key : Codes \cup Claims \cup {None},
         old : Record \cup {NoDevice},
         snapshot : [rev : Nat, devices : Registry]]

Empty == Snapshot([d \in Devices |-> NoDevice], 0)
Idle == [pc |-> "idle", op |-> "pair", user |-> None, dev |-> None, key |-> None,
         old |-> NoDevice, snapshot |-> Empty]

Live(table) == {k \in DOMAIN table : table[k].state = "live"}
Bytes(cs) == TotalBytes(SizeOf, Live(cs))

\* Expired entries go, whenever a handler looks.
Pruned(table) == [k \in DOMAIN table |->
    IF table[k].state = "live" /\ table[k].old THEN [table[k] EXCEPT !.state = "gone"]
    ELSE table[k]]

\* Mutant: what a claim leaves behind stays counted.
BytesKept(cs) == claimBytes
BytesLeft(cs) == Bytes(cs)
PruneClaims == claims' = Pruned(claims) /\ claimBytes' = BytesLeft(Pruned(claims))

Init ==
    /\ codes = [c \in Codes |-> [state |-> "unused", owner |-> None, old |-> FALSE]]
    /\ claims = [k \in Claims |-> [state |-> "unused", dev |-> None, old |-> FALSE,
                                   busy |-> FALSE, token |-> None, polled |-> FALSE]]
    /\ claimBytes = 0
    /\ devices = [d \in Devices |-> NoDevice]
    /\ tokens = [t \in Tasks |-> None]
    /\ revision = 0 /\ written = 0
    /\ holder = None
    /\ disk = Empty
    /\ renaming = {}
    /\ tasks = [t \in Tasks |-> Idle]
    /\ handed = [k \in Claims |-> 0]
    /\ crashes = 0

-----------------------------------------------------------------------------
(* Codes and claims.                                                        *)

CreateCode(c, u) == LET cs == Pruned(codes) IN
    /\ codes[c].state = "unused"
    /\ Cardinality(Live(cs)) < CodeCap
    /\ codes' = [cs EXCEPT ![c].state = "live", ![c].owner = u]
    /\ PruneClaims
    /\ UNCHANGED <<memory, written, holder, file, tasks, handed, crashes>>

CreateClaim(k, d) == LET cs == Pruned(claims) IN
    /\ claims[k].state = "unused"
    /\ Cardinality(Live(cs)) < ClaimCap
    /\ Bytes(cs) + SizeOf[k] <= ClaimByteCap
    /\ claims' = [cs EXCEPT ![k].state = "live", ![k].dev = d]
    /\ claimBytes' = BytesLeft(cs) + SizeOf[k]
    /\ UNCHANGED <<codes, memory, written, holder, file, tasks, handed, crashes>>

\* The time to live of an entry is over.
Lapse ==
    /\ "lapse" \in Faults
    /\ \/ \E c \in Live(codes) : codes' = [codes EXCEPT ![c].old = TRUE] /\ UNCHANGED claims
       \/ \E k \in Live(claims) : claims' = [claims EXCEPT ![k].old = TRUE] /\ UNCHANGED codes
    /\ UNCHANGED <<claimBytes, memory, written, holder, file, tasks, handed, crashes>>

\* Mutant: the tokens can be polled again.
PolledStill(k) == FALSE
PolledOut(k) == claims[k].token # None

\* The device asks whether its claim was completed; the tokens go out once.
Poll(k) == LET cs == Pruned(claims) IN
    /\ claims[k].state = "live" /\ ~claims[k].polled
    /\ claims' = [cs EXCEPT ![k].polled = PolledOut(k)]
    /\ claimBytes' = BytesLeft(cs)
    /\ handed' = IF claims[k].token # None /\ cs[k].state = "live"
                 THEN [handed EXCEPT ![k] = @ + 1] ELSE handed
    /\ UNCHANGED <<codes, memory, written, holder, file, tasks, crashes>>

-----------------------------------------------------------------------------
(* Changing devices: the persistence lock, memory, the file, memory again.  *)

\* Mutant: the persistence lock is not held over the write.
FreeAlways(t) == TRUE
Free(t) == holder = None

Starts(t) == tasks[t].pc = "idle" /\ Free(t)
Goto(t, pc) == tasks' = [tasks EXCEPT ![t].pc = pc]
Ended(t, pc) == [Idle EXCEPT !.pc = pc, !.op = tasks[t].op, !.key = tasks[t].key]
End(t, pc) == tasks' = [tasks EXCEPT ![t] = Ended(t, pc)]
Release(t) == holder' = IF holder = t THEN None ELSE holder

Refused(t, op) == tasks' = [tasks EXCEPT ![t].pc = "refused", ![t].op = op]

\* ensure_device_pairing_capacity and the check of the owner.
MayPair(d, u) ==
    /\ Paired(devices[d]) => devices[d].owner = u
    /\ ~Paired(devices[d]) => /\ Cardinality(PairedIn(devices)) < DeviceCap
                              /\ Cardinality(OwnedIn(devices, u)) < UserCap

\* issue_device_pairing and the snapshot that goes to disk.
Issue(t, op, d, u, key) == LET ds == [devices EXCEPT ![d] = [owner |-> u, token |-> t]] IN
    /\ devices' = ds
    /\ tokens' = [s \in Tasks |-> IF s = t THEN d
                                  ELSE IF s = devices[d].token THEN None ELSE tokens[s]]
    /\ revision' = revision + 1
    /\ tasks' = [tasks EXCEPT ![t] = [pc |-> "write", op |-> op, user |-> u, dev |-> d,
                     key |-> key, old |-> devices[d], snapshot |-> Snapshot(ds, revision + 1)]]

CodeTaken(cs, c) == [cs EXCEPT ![c].state = "gone"]

\* pair_device takes the code under one acquisition of the lock ...
PairTake(t, c, d) == LET cs == Pruned(codes) IN
    /\ Starts(t)
    /\ cs[c].state = "live"
    /\ codes' = CodeTaken(cs, c)
    /\ PruneClaims
    /\ tasks' = [tasks EXCEPT ![t].pc = "taken", ![t].op = "pair", ![t].dev = d,
                              ![t].key = c, ![t].user = codes[c].owner]
    /\ holder' = t
    /\ UNCHANGED <<memory, written, file, handed, crashes>>

\* ... and issues the tokens, or gives the code back, under another.
PairIssue(t) == LET T == tasks[t] IN
    /\ T.pc = "taken" /\ MayPair(T.dev, T.user)
    /\ Issue(t, "pair", T.dev, T.user, T.key)
    /\ UNCHANGED <<pending, written, holder, file, crashes>>

GivenBack(c) == [codes EXCEPT ![c].state = "live"]

PairRefused(t) == LET T == tasks[t] IN
    /\ T.pc = "taken" /\ ~MayPair(T.dev, T.user)
    /\ codes' = GivenBack(T.key)
    /\ End(t, "refused") /\ Release(t)
    /\ UNCHANGED <<claims, claimBytes, handed, memory, written, file, crashes>>

\* complete_device_claim: what follows the claim's lookup.
Completable(k) == claims[k].state = "live" /\ ~claims[k].old /\ claims[k].token = None /\ ~claims[k].busy

Complete(t, k, u) ==
    /\ Starts(t) /\ Completable(k) /\ MayPair(claims[k].dev, u)
    /\ Issue(t, "complete", claims[k].dev, u, k)
    /\ claims' = [Pruned(claims) EXCEPT ![k].busy = TRUE]
    /\ claimBytes' = BytesLeft(Pruned(claims))
    /\ holder' = t
    /\ UNCHANGED <<codes, handed, written, file, crashes>>

\* The claim is gone, completed, being completed, or the device may not be paired.
CompleteRefused(t, k, u) ==
    /\ Starts(t) /\ ~(Completable(k) /\ MayPair(claims[k].dev, u))
    /\ claims[k].state # "unused"
    /\ PruneClaims
    /\ Refused(t, "complete")
    /\ UNCHANGED <<codes, handed, memory, written, holder, file, crashes>>

NextRevision == revision + 1

Delete(t, d) == LET ds == [devices EXCEPT ![d] = NoDevice] IN
    /\ Starts(t) /\ Paired(devices[d])
    /\ devices' = ds
    /\ tokens' = [tokens EXCEPT ![devices[d].token] = None]
    /\ revision' = NextRevision
    /\ tasks' = [tasks EXCEPT ![t] = [pc |-> "write", op |-> "delete", user |-> devices[d].owner,
                     dev |-> d, key |-> None, old |-> devices[d],
                     snapshot |-> Snapshot(ds, NextRevision)]]
    /\ holder' = t
    /\ UNCHANGED <<pending, written, file, crashes>>

DeleteRefused(t, d) ==
    /\ Starts(t) /\ ~Paired(devices[d])
    /\ Refused(t, "delete")
    /\ UNCHANGED <<pending, memory, written, holder, file, crashes>>

\* persist_newer_devices_snapshot: a file of its own, renamed over the old one.
Newer(t) == tasks[t].snapshot.rev > written

Write(t) ==
    /\ tasks[t].pc = "write" /\ Newer(t)
    /\ disk' = tasks[t].snapshot
    /\ Goto(t, "written")
    /\ UNCHANGED <<pending, memory, written, holder, renaming, crashes>>

\* No write: the snapshot is stale, or the disk fails, before or after the rename.
Failing(t) == (IF ~Newer(t) \/ "write" \in Faults THEN {disk} ELSE {})
              \cup (IF Newer(t) /\ "late" \in Faults THEN {tasks[t].snapshot} ELSE {})

WriteFails(t) ==
    /\ tasks[t].pc = "write"
    /\ disk' \in Failing(t)
    /\ Goto(t, "unwritten")
    /\ UNCHANGED <<pending, memory, written, holder, renaming, crashes>>

\* The answer; what the claim is for is kept for its device to poll, and a
\* deletion ends what runs for the device.
Answer(t) == LET T == tasks[t] IN
    /\ T.pc = "written"
    /\ written' = T.snapshot.rev
    /\ claims' = CASE T.op = "complete" ->
                        IF claims[T.key].state = "live"
                        THEN [claims EXCEPT ![T.key].token = t, ![T.key].busy = FALSE]
                        ELSE claims
                   [] T.op = "delete" ->
                        [k \in Claims |-> IF claims[k].dev = T.dev /\ claims[k].state = "live"
                                          THEN [claims[k] EXCEPT !.state = "gone"] ELSE claims[k]]
                   [] OTHER -> claims
    /\ claimBytes' = IF T.op = "delete" THEN Bytes(claims') ELSE claimBytes
    /\ End(t, "ok") /\ Release(t)
    /\ UNCHANGED <<codes, memory, file, handed, crashes>>

\* Mutant: the token the device had before is forgotten.
TokensForgotten(t) == [tokens EXCEPT ![t] = None]
TokensBack(t) == [s \in Tasks |-> IF s = tasks[t].old.token THEN tasks[t].dev
                                  ELSE IF s = t THEN None ELSE tokens[s]]

RolledBack(t) == [devices EXCEPT ![tasks[t].dev] = tasks[t].old]

BusyAfter(t) == FALSE

\* The write failed: memory goes back to what it was, except for the revision.
Rollback(t) == LET T == tasks[t] IN
    /\ T.pc = "unwritten"
    /\ devices' = RolledBack(t)
    /\ tokens' = TokensBack(t)
    /\ codes' = IF T.op = "pair" THEN GivenBack(T.key) ELSE codes
    /\ claims' = IF T.op = "complete" /\ claims[T.key].state = "live"
                 THEN [claims EXCEPT ![T.key].busy = BusyAfter(t)] ELSE claims
    /\ End(t, "refused") /\ Release(t)
    /\ UNCHANGED <<claimBytes, handed, revision, written, file, crashes>>

-----------------------------------------------------------------------------
(* Clients that hang up, and restarts.                                      *)

Running(t) == tasks[t].pc \in {"taken", "write", "written", "unwritten"}

\* A dropped handler releases the lock and does nothing more; a rename it had
\* handed to the blocking pool may still be to come.
Abandon(t) ==
    /\ "abandon" \in Faults
    /\ Running(t)
    /\ End(t, "lost") /\ Release(t)
    /\ \/ UNCHANGED renaming
       \/ /\ tasks[t].pc = "write" /\ Newer(t)
          /\ renaming' = renaming \cup {tasks[t].snapshot}
    /\ UNCHANGED <<pending, memory, written, disk, crashes>>

Rename(s) ==
    /\ s \in renaming
    /\ disk' = s
    /\ renaming' = renaming \ {s}
    /\ UNCHANGED <<pending, memory, written, holder, tasks, crashes>>

\* from_persisted: the devices come back with their tokens.
Restart ==
    /\ crashes < MaxCrashes
    /\ crashes' = crashes + 1
    /\ devices' = disk.devices
    /\ tokens' = [t \in Tasks |-> IF \E d \in Devices : disk.devices[d].token = t
                                  THEN CHOOSE d \in Devices : disk.devices[d].token = t
                                  ELSE None]
    /\ revision' = disk.rev /\ written' = disk.rev
    /\ holder' = None
    /\ tasks' = [t \in Tasks |-> IF Running(t) THEN Ended(t, "lost") ELSE tasks[t]]
    /\ codes' = [c \in Codes |-> IF codes[c].state = "live"
                                 THEN [codes[c] EXCEPT !.state = "gone"] ELSE codes[c]]
    /\ claims' = [k \in Claims |-> IF claims[k].state = "live"
                                   THEN [claims[k] EXCEPT !.state = "gone"] ELSE claims[k]]
    /\ claimBytes' = 0
    /\ renaming' = {}
    /\ UNCHANGED <<disk, handed>>

-----------------------------------------------------------------------------
Start(t) ==
    \/ \E c \in Codes, d \in Devices : PairTake(t, c, d)
    \/ \E k \in Claims, u \in Users : Complete(t, k, u) \/ CompleteRefused(t, k, u)
    \/ \E d \in Devices : Delete(t, d) \/ DeleteRefused(t, d)

Continue(t) == PairIssue(t) \/ PairRefused(t) \/ Write(t) \/ WriteFails(t)
               \/ Answer(t) \/ Rollback(t)

Table ==
    \/ \E c \in Codes, u \in Users : CreateCode(c, u)
    \/ \E k \in Claims, d \in Devices : CreateClaim(k, d)
    \/ \E k \in Claims : Poll(k)
    \/ Lapse

Next ==
    \/ Table
    \/ \E t \in Tasks : Start(t) \/ Continue(t) \/ Abandon(t)
    \/ \E s \in renaming : Rename(s)
    \/ Restart

Spec == Init /\ [][Next]_vars

\* The device polls until it has its tokens or its claim is gone.
FairSpec == Spec /\ \A k \in Claims : WF_vars(Poll(k))

-----------------------------------------------------------------------------
(* Properties.                                                              *)

TypeOK ==
    /\ codes \in [Codes -> Code] /\ \A c \in Live(codes) : codes[c].owner \in Users
    /\ claims \in [Claims -> Claim]
    /\ claimBytes \in Nat
    /\ devices \in Registry
    /\ tokens \in [Tasks -> Devices \cup {None}]
    /\ revision \in Nat /\ written \in Nat
    /\ holder \in Tasks \cup {None}
    /\ disk \in [rev : Nat, devices : Registry]
    /\ renaming \subseteq [rev : Nat, devices : Registry]
    /\ tasks \in [Tasks -> Task]
    /\ handed \in [Claims -> Nat]
    /\ crashes \in Nat

\* The tokens a device may come back with are exactly those of the paired
\* devices, each for its own device, through re-pairings, refused writes,
\* abandoned calls and restarts.
TokensMatch ==
    \A t \in Tasks, d \in Devices : tokens[t] = d <=> devices[d].token = t

\* The bytes counted for claims are those of the claims there are.
ClaimBytesMatch == claimBytes = Bytes(claims)

\* There is never a paired device too many, in memory or in the file, where it
\* would keep the relay from starting again; also not when a deletion fails and
\* puts back its device.
Within(ds) ==
    /\ Cardinality(PairedIn(ds)) <= DeviceCap
    /\ \A u \in Users : Cardinality(OwnedIn(ds, u)) <= UserCap
WithinCapacity == Within(devices) /\ Within(disk.devices)

\* While nobody changes devices, memory and file agree.
DiskIsMemory == holder = None => disk.devices = devices

\* No write the code asks for is refused as stale.
NeverRefused == \A t \in Tasks : tasks[t].pc = "write" /\ holder = t => Newer(t)

\* Tokens, devices and the file agree through pairings, refused writes,
\* deletions and a restart: each token is its device's, no cap is passed in
\* memory or on disk, the file is memory when nobody changes it, and no write
\* is taken for stale.
RegistryIsWhole == TokensMatch /\ WithinCapacity /\ DiskIsMemory /\ NeverRefused

\* A pairing code pairs once.
CodeOnce ==
    \A s, t \in Tasks :
        s # t /\ {tasks[s].op, tasks[t].op} = {"pair"} /\ {tasks[s].pc, tasks[t].pc} = {"ok"}
            => tasks[s].key # tasks[t].key

\* The tokens of a claim are handed out once, and it is never completed twice.
ClaimOnce ==
    \A k \in DOMAIN handed :
        /\ handed[k] <= 1
        /\ Cardinality({t \in Tasks : /\ tasks[t].op = "complete" /\ tasks[t].key = k
                                      /\ tasks[t].pc = "ok"}) <= 1

\* A claim that is being completed has a call that completes it.
BusyHasCall ==
    \A k \in DOMAIN claims : claims[k].state = "live" /\ claims[k].busy
        => \E t \in Tasks : Running(t) /\ tasks[t].op = "complete" /\ tasks[t].key = k

\* A code pairs one device and a claim hands out its tokens once, whatever
\* fails or expires, and none is left marked as being completed by nobody.
UsedOnce == CodeOnce /\ ClaimOnce /\ BusyHasCall

\* A stale state never replaces a newer one in the file ("refusing to persist a
\* stale relay state snapshot").
NeverStale == [][disk'.rev >= disk.rev]_disk

\* A device whose claim was completed gets its tokens, unless the claim goes first.
ClaimReachesDevice ==
    \A k \in Claims :
        (\E t \in Tasks : tasks[t].op = "complete" /\ tasks[t].key = k /\ tasks[t].pc = "ok")
            ~> (handed[k] = 1 \/ claims[k].state = "gone")

\* The durable registry: each call changes one device at one moment, and its
\* answer says whether it did.
Outcome(t) ==
    CASE tasks[t].pc \in {"idle", "taken", "write", "unwritten"} -> "open"
      [] tasks[t].pc = "written" -> "made"
      [] OTHER -> tasks[t].pc

Durable == INSTANCE DeviceRegistry
    WITH Records <- Record, NoRecord <- NoDevice,
         registry <- disk.devices, outcome <- [t \in Tasks |-> Outcome(t)]
DurableSpec == Durable!Spec

=============================================================================
