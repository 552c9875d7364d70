--------------------------- MODULE RelayPairingProofs ---------------------------
(***************************************************************************)
(* The relay's pairing for any number of devices, users, codes, claims and *)
(* calls, and any caps: what RelayPairing keeps through failing writes,    *)
(* clients that hang up, renames that come late, and restarts; and, while  *)
(* the file is written or not when a call says so, that it implements the  *)
(* durable registry of DeviceRegistry.                                     *)
(***************************************************************************)
EXTENDS RelayPairing, ByteCountsProofs

USE NoneAssumption, CapAssumption, SizeAssumption, FaultsAssumption, FiniteAssumption

-----------------------------------------------------------------------------
(* The invariant, in the groups that depend on each other one way.          *)

\* Calls that have the lock and changed devices.
Changing(t) == tasks[t].pc \in {"write", "written", "unwritten"}
\* The call runs or was answered "ok".
Used(t) == Running(t) \/ tasks[t].pc = "ok"

\* Only the holder of the persistence lock runs, and what it works on is known.
Serial ==
    \A t \in Tasks :
        /\ Running(t) <=> holder = t
        /\ Running(t) => tasks[t].dev \in Devices
        /\ tasks[t].pc = "taken" => tasks[t].op = "pair" /\ tasks[t].user \in Users
        /\ tasks[t].op = "complete" /\ Used(t) => tasks[t].key \in Claims

\* A code that was taken is gone for the others, and its owner is known.
CodesTaken ==
    /\ \A t \in Tasks : tasks[t].op = "pair" /\ Used(t) =>
           /\ tasks[t].key \in Codes
           /\ codes[tasks[t].key].state = "gone" /\ codes[tasks[t].key].owner \in Users
    /\ \A s, t \in Tasks :
           s # t /\ tasks[s].op = "pair" /\ Used(s) /\ tasks[t].op = "pair" /\ Used(t)
               => tasks[s].key # tasks[t].key

\* The call works on a claim that it completes, or has completed.
ClaimUser(t) == tasks[t].op = "complete" /\ Used(t)

\* What the marks of a claim say, and how often its tokens were handed out.
ClaimRecords ==
    \A k \in Claims :
        /\ claims[k].state = "unused" => ~claims[k].busy /\ claims[k].token = None /\ ~claims[k].polled
        /\ claims[k].state = "live" => claims[k].dev \in Devices
        /\ handed[k] <= 1 /\ (~claims[k].polled => handed[k] = 0)

\* A claim is completed by one call, which its mark shows until its tokens do.
ClaimsMarked ==
    \A t \in Tasks : ClaimUser(t) =>
        \/ claims[tasks[t].key].state = "gone"
        \/ /\ claims[tasks[t].key].state = "live"
           /\ IF Running(t) THEN claims[tasks[t].key].busy
              ELSE claims[tasks[t].key].token # None
ClaimsApart ==
    \A s, t \in Tasks : s # t /\ ClaimUser(s) /\ ClaimUser(t) => tasks[s].key # tasks[t].key

ClaimsTaken == ClaimRecords /\ ClaimsMarked /\ ClaimsApart

PendingInv == TypeOK /\ Serial /\ CodesTaken /\ ClaimsTaken

\* No two devices have one token, and no cap is passed.
OneToOne(ds) == \A d, e \in Devices : ds[d].token = ds[e].token /\ ds[d].token # None => d = e
Clean(ds) == OneToOne(ds) /\ Within(ds)
Unissued(t, ds) == \A d \in Devices : ds[d].token # t

AllClean == Clean(devices) /\ Clean(disk.devices) /\ \A s \in renaming : Clean(s.devices)

\* A call that issued no tokens has none anywhere.
Tokenless(t) == tasks[t].pc \in {"idle", "taken"} \/ (Changing(t) /\ tasks[t].op = "delete")
Fresh ==
    \A t \in Tasks : Tokenless(t) =>
        /\ Unissued(t, devices) /\ Unissued(t, disk.devices)
        /\ \A s \in renaming : Unissued(t, s.devices)
        /\ \A s \in Tasks : Changing(s) => tasks[s].old.token # t

\* What the holder of the lock wrote into memory is still there, is what it is
\* about to write to the file, and can be taken back.
InForce ==
    \A t \in Tasks : Changing(t) =>
        /\ tasks[t].snapshot = Snapshot(devices, revision) /\ revision > written
        /\ devices[tasks[t].dev] \in {NoDevice} \cup [owner : Users, token : {t}]
        /\ Clean(RolledBack(t)) /\ Unissued(t, RolledBack(t))

RegistryInv == TokensMatch /\ AllClean /\ Fresh /\ InForce /\ written <= revision

\* Without clients that hang up, no rename is late.
UpToDate == renaming = {} /\ disk.rev <= revision

\* Without late errors either, the file is what the calls say.
InStep ==
    /\ holder = None => disk.devices = devices
    /\ \A t \in Tasks :
           /\ tasks[t].pc \in {"taken", "written"} => disk.devices = devices
           /\ tasks[t].pc \in {"write", "unwritten"} => disk.devices = RolledBack(t)

-----------------------------------------------------------------------------
(* Types.                                                                   *)

\* What an entry keeps when it goes.
LEMMA CodeGone ==
    ASSUME NEW r \in Code
    PROVE  /\ [r EXCEPT !.state = "gone"] \in Code /\ [r EXCEPT !.state = "gone"].state = "gone"
           /\ [r EXCEPT !.state = "gone"].owner = r.owner
BY DEF Code

LEMMA ClaimGone ==
    ASSUME NEW r \in Claim
    PROVE  /\ [r EXCEPT !.state = "gone"] \in Claim /\ [r EXCEPT !.state = "gone"].state = "gone"
           /\ [r EXCEPT !.state = "gone"].dev = r.dev /\ [r EXCEPT !.state = "gone"].busy = r.busy
           /\ [r EXCEPT !.state = "gone"].token = r.token /\ [r EXCEPT !.state = "gone"].polled = r.polled
BY DEF Claim

\* Pruning keeps the types and what it does not drop.
LEMMA PrunedCodes ==
    ASSUME TypeOK
    PROVE  /\ Pruned(codes) \in [Codes -> Code]
           /\ \A c \in Codes :
                  /\ Pruned(codes)[c] = codes[c]
                     \/ (codes[c].state = "live" /\ Pruned(codes)[c].state = "gone")
                  /\ Pruned(codes)[c].owner = codes[c].owner
<1>1. DOMAIN codes = Codes /\ \A c \in Codes : codes[c] \in Code  BY DEF TypeOK
<1> DEFINE kept(c) == IF codes[c].state = "live" /\ codes[c].old
                      THEN [codes[c] EXCEPT !.state = "gone"] ELSE codes[c]
<1>2. Pruned(codes) = [c \in Codes |-> kept(c)]
  BY <1>1 DEF Pruned
<1>3. ASSUME NEW c \in Codes
      PROVE  /\ Pruned(codes)[c] \in Code
             /\ /\ Pruned(codes)[c] = codes[c]
                   \/ (codes[c].state = "live" /\ Pruned(codes)[c].state = "gone")
                /\ Pruned(codes)[c].owner = codes[c].owner
  BY <1>1, <1>2, CodeGone
<1>4. \A c \in Codes : kept(c) \in Code  BY <1>2, <1>3
<1>5. Pruned(codes) \in [Codes -> Code]
  <2> HIDE DEF kept
  <2> QED  BY <1>2, <1>4
<1> HIDE DEF kept
<1> QED  BY <1>3, <1>5

LEMMA PrunedClaims ==
    ASSUME TypeOK
    PROVE  /\ Pruned(claims) \in [Claims -> Claim]
           /\ \A k \in Claims :
                  /\ Pruned(claims)[k] = claims[k]
                     \/ (claims[k].state = "live" /\ Pruned(claims)[k].state = "gone")
                  /\ Pruned(claims)[k].dev = claims[k].dev /\ Pruned(claims)[k].busy = claims[k].busy
                  /\ Pruned(claims)[k].token = claims[k].token /\ Pruned(claims)[k].polled = claims[k].polled
<1>1. DOMAIN claims = Claims /\ \A k \in Claims : claims[k] \in Claim  BY DEF TypeOK
<1> DEFINE kept(k) == IF claims[k].state = "live" /\ claims[k].old
                      THEN [claims[k] EXCEPT !.state = "gone"] ELSE claims[k]
<1>2. Pruned(claims) = [k \in Claims |-> kept(k)]
  BY <1>1 DEF Pruned
<1>3. ASSUME NEW k \in Claims
      PROVE  /\ Pruned(claims)[k] \in Claim
             /\ /\ Pruned(claims)[k] = claims[k]
                   \/ (claims[k].state = "live" /\ Pruned(claims)[k].state = "gone")
                /\ Pruned(claims)[k].dev = claims[k].dev /\ Pruned(claims)[k].busy = claims[k].busy
                /\ Pruned(claims)[k].token = claims[k].token /\ Pruned(claims)[k].polled = claims[k].polled
  BY <1>1, <1>2, ClaimGone
<1>4. \A k \in Claims : kept(k) \in Claim  BY <1>2, <1>3
<1>5. Pruned(claims) \in [Claims -> Claim]
  <2> HIDE DEF kept
  <2> QED  BY <1>2, <1>4
<1> HIDE DEF kept
<1> QED  BY <1>3, <1>5

LEMMA BytesType ==
    ASSUME NEW cs \in [Claims -> Claim]  PROVE Bytes(cs) \in Nat
<1>1. Live(cs) \in SUBSET Claims  BY DEF Live
<1>2. IsFiniteSet(Live(cs)) /\ \A k \in Live(cs) : SizeOf[k] \in Nat  BY <1>1, FS_Subset
<1> QED  BY <1>2, BytesFinite DEF Bytes

LEMMA TypeInit == Init => TypeOK
BY DEF Init, TypeOK, Code, Claim, Task, Idle, Empty, Snapshot, Registry, NoDevice, Record, Live

\* The tables of codes and claims.
LEMMA TableTypes ==
    ASSUME PendingInv, Table  PROVE TypeOK'
<1> USE PrunedCodes, PrunedClaims
<1>1. TypeOK  BY DEF PendingInv
<1>2. ASSUME NEW c \in Codes, NEW u \in Users, CreateCode(c, u)  PROVE TypeOK'
  <2> DEFINE new(r) == [r EXCEPT !.state = "live", !.owner = u]
  <2>3. \A r \in Code : new(r) \in Code /\ new(r).owner = u  BY DEF Code
  <2>4. codes' = [Pruned(codes) EXCEPT ![c] = new(Pruned(codes)[c])]  BY <1>2 DEF CreateCode
  <2>5. \A x \in Live(Pruned(codes)) : codes[x].owner \in Users /\ x \in Codes
    BY <1>1 DEF Live, TypeOK
  <2> HIDE DEF new
  <2>1. codes' \in [Codes -> Code] /\ \A x \in Live(codes') : codes'[x].owner \in Users
    BY <1>1, <2>3, <2>4, <2>5 DEF Live
  <2>2. claims' \in [Claims -> Claim] /\ claimBytes' \in Nat
    BY <1>1, <1>2, BytesType DEF CreateCode, PruneClaims, BytesLeft
  <2> QED  BY <1>1, <1>2, <2>1, <2>2 DEF CreateCode, TypeOK, memory, file
<1>3. ASSUME NEW k \in Claims, NEW d \in Devices, CreateClaim(k, d)  PROVE TypeOK'
  <2> DEFINE new(r) == [r EXCEPT !.state = "live", !.dev = d]
  <2>2. \A r \in Claim : new(r) \in Claim  BY DEF Claim
  <2>3. claims' = [Pruned(claims) EXCEPT ![k] = new(Pruned(claims)[k])]  BY <1>3 DEF CreateClaim
  <2> HIDE DEF new
  <2>4. claims' \in [Claims -> Claim]  BY <1>1, <2>2, <2>3
  <2>5. claimBytes' = Bytes(Pruned(claims)) + SizeOf[k]  BY <1>3 DEF CreateClaim, BytesLeft
  <2>6. Bytes(Pruned(claims)) \in Nat  BY <1>1, BytesType
  <2>1. claims' \in [Claims -> Claim] /\ claimBytes' \in Nat
    BY <2>4, <2>5, <2>6
  <2> QED  BY <1>1, <1>3, <2>1 DEF CreateClaim, TypeOK, memory, file, Live
<1>4. ASSUME NEW k \in Claims, Poll(k)  PROVE TypeOK'
  <2>1. PolledOut(k) \in BOOLEAN  BY DEF PolledOut
  <2>2. claims' = [Pruned(claims) EXCEPT ![k].polled = PolledOut(k)]  BY <1>4 DEF Poll
  <2>3. \A r \in Claim, b \in BOOLEAN : [r EXCEPT !.polled = b] \in Claim  BY DEF Claim
  <2>4. claims' \in [Claims -> Claim] /\ claimBytes' \in Nat
    BY <1>1, <1>4, <2>1, <2>2, <2>3, BytesType DEF Poll, BytesLeft
  <2>5. handed' \in [Claims -> Nat]  BY <1>1, <1>4 DEF Poll, TypeOK
  <2> QED  BY <1>1, <1>4, <2>4, <2>5 DEF Poll, TypeOK, memory, file, Live
<1>5. ASSUME NEW c \in Live(codes), codes' = [codes EXCEPT ![c].old = TRUE], UNCHANGED claims, Lapse
      PROVE  TypeOK'
  <2>1. c \in Codes /\ \A x \in Codes : codes[x] \in Code  BY <1>1, <1>5 DEF TypeOK, Live
  <2>2. \A r \in Code : LET q == [r EXCEPT !.old = TRUE] IN
            q \in Code /\ q.state = r.state /\ q.owner = r.owner
    BY DEF Code
  <2>3. codes' = [codes EXCEPT ![c] = [codes[c] EXCEPT !.old = TRUE]]  BY <1>5
  <2>4. codes' \in [Codes -> Code]
        /\ \A x \in Codes : codes'[x].owner = codes[x].owner /\ codes'[x].state = codes[x].state
    BY <1>1, <2>1, <2>2, <2>3 DEF TypeOK
  <2> QED  BY <1>1, <1>5, <2>4 DEF Lapse, TypeOK, memory, file, Live
<1>6. ASSUME NEW k \in Live(claims), claims' = [claims EXCEPT ![k].old = TRUE], UNCHANGED codes, Lapse
      PROVE  TypeOK'
  <2>1. k \in Claims /\ \A x \in Claims : claims[x] \in Claim  BY <1>1, <1>6 DEF TypeOK, Live
  <2>2. \A r \in Claim : [r EXCEPT !.old = TRUE] \in Claim  BY DEF Claim
  <2>3. claims' = [claims EXCEPT ![k] = [claims[k] EXCEPT !.old = TRUE]]  BY <1>6
  <2>4. claims' \in [Claims -> Claim]
    BY <1>1, <2>1, <2>2, <2>3 DEF TypeOK
  <2> QED  BY <1>1, <1>6, <2>4 DEF Lapse, TypeOK, memory, file, Live
<1> QED  BY <1>2, <1>3, <1>4, <1>5, <1>6 DEF Table, Lapse

\* Records of calls.
LEMMA CallIsTask ==
    ASSUME TypeOK, NEW t \in Tasks, NEW pc \in {"taken", "write", "written", "unwritten", "ok", "refused", "lost"}
    PROVE  Ended(t, pc) \in Task /\ [tasks[t] EXCEPT !.pc = pc] \in Task
<1>1. tasks[t] \in Task  BY DEF TypeOK
<1>2. NoDevice \in Record \cup {NoDevice} /\ Empty \in [rev : Nat, devices : Registry]
  BY DEF Empty, Snapshot, Registry
<1>3. [tasks[t] EXCEPT !.pc = pc] \in Task  BY <1>1 DEF Task
<1>4. Ended(t, pc) \in Task  BY <1>1, <1>2 DEF Ended, Idle, Task
<1> QED  BY <1>3, <1>4

LEMMA CallTypes ==
    ASSUME TypeOK, NEW t \in Tasks, NEW pc \in {"taken", "write", "written", "unwritten", "ok", "refused", "lost"}
    PROVE  /\ Ended(t, pc) \in Task
           /\ Ended(t, pc).pc = pc /\ Ended(t, pc).op = tasks[t].op /\ Ended(t, pc).key = tasks[t].key
           /\ [tasks[t] EXCEPT !.pc = pc] \in Task
           /\ [tasks[t] EXCEPT !.pc = pc].pc = pc
           /\ [tasks[t] EXCEPT !.pc = pc].op = tasks[t].op /\ [tasks[t] EXCEPT !.pc = pc].key = tasks[t].key
           /\ [tasks[t] EXCEPT !.pc = pc].dev = tasks[t].dev /\ [tasks[t] EXCEPT !.pc = pc].user = tasks[t].user
           /\ [tasks[t] EXCEPT !.pc = pc].old = tasks[t].old
           /\ [tasks[t] EXCEPT !.pc = pc].snapshot = tasks[t].snapshot
<1>1. tasks[t] \in Task  BY DEF TypeOK
<1>2. Ended(t, pc) \in Task /\ [tasks[t] EXCEPT !.pc = pc] \in Task  BY CallIsTask
<1>3. /\ Ended(t, pc).pc = pc /\ Ended(t, pc).op = tasks[t].op /\ Ended(t, pc).key = tasks[t].key
  BY DEF Ended, Idle
<1> QED  BY <1>1, <1>2, <1>3 DEF Task

\* What a call starts with.
LEMMA CallStarts ==
    ASSUME TypeOK, NEW t \in Tasks, NEW op \in {"pair", "complete", "delete"}, NEW d \in Devices,
           NEW u \in Users, NEW k \in Codes \cup Claims \cup {None}, NEW ds \in Registry, NEW rev \in Nat
    PROVE  /\ [pc |-> "write", op |-> op, user |-> u, dev |-> d, key |-> k, old |-> devices[d],
                snapshot |-> Snapshot(ds, rev)] \in Task
           /\ [tasks[t] EXCEPT !.pc = "taken", !.op = "pair", !.dev = d, !.key = k, !.user = u] \in Task
           /\ [tasks[t] EXCEPT !.pc = "refused", !.op = op] \in Task
<1>1. tasks[t] \in Task /\ devices[d] \in Record \cup {NoDevice}  BY DEF TypeOK, Registry
<1>2. Snapshot(ds, rev) \in [rev : Nat, devices : Registry]  BY DEF Snapshot
<1>3. [pc |-> "write", op |-> op, user |-> u, dev |-> d, key |-> k, old |-> devices[d],
       snapshot |-> Snapshot(ds, rev)] \in Task
  BY <1>1, <1>2 DEF Task
<1>4. [tasks[t] EXCEPT !.pc = "taken", !.op = "pair", !.dev = d, !.key = k, !.user = u] \in Task
  BY <1>1 DEF Task
<1>5. [tasks[t] EXCEPT !.pc = "refused", !.op = op] \in Task
  BY <1>1 DEF Task
<1> QED  BY <1>3, <1>4, <1>5
LEMMA IssueTypes ==
    ASSUME TypeOK, NEW t \in Tasks, NEW op \in {"pair", "complete"}, NEW d \in Devices,
           NEW u \in Users, NEW k \in Codes \cup Claims, Issue(t, op, d, u, k)
    PROVE  /\ devices' \in Registry /\ tokens' \in [Tasks -> Devices \cup {None}]
           /\ revision' \in Nat /\ tasks' \in [Tasks -> Task]
<1> DEFINE ds == [devices EXCEPT ![d] = [owner |-> u, token |-> t]]
<1>1. devices' \in Registry /\ devices' = ds
  BY DEF Issue, TypeOK, Registry, Record
<1>2. tokens' \in [Tasks -> Devices \cup {None}] /\ revision + 1 \in Nat /\ revision' \in Nat
  BY DEF Issue, TypeOK
<1>3. tasks' = [tasks EXCEPT ![t] = [pc |-> "write", op |-> op, user |-> u, dev |-> d, key |-> k,
                    old |-> devices[d], snapshot |-> Snapshot(ds, revision + 1)]]
  BY DEF Issue
<1>4. tasks' \in [Tasks -> Task]
  <2> HIDE DEF ds
  <2>1. [pc |-> "write", op |-> op, user |-> u, dev |-> d, key |-> k,
         old |-> devices[d], snapshot |-> Snapshot(ds, revision + 1)] \in Task
    BY <1>1, <1>2, CallStarts
  <2> QED  BY <1>3, <2>1 DEF TypeOK
<1> QED  BY <1>1, <1>2, <1>4

\* The end of a call, and its next step.
LEMMA EndTypes ==
    ASSUME TypeOK, NEW t \in Tasks, NEW pc \in {"taken", "write", "written", "unwritten", "ok", "refused", "lost"},
           End(t, pc) \/ Goto(t, pc)
    PROVE  tasks' \in [Tasks -> Task]
<1>1. tasks \in [Tasks -> Task]  BY DEF TypeOK
<1>2. Ended(t, pc) \in Task /\ [tasks[t] EXCEPT !.pc = pc] \in Task  BY CallIsTask
<1>3. \E q \in Task : tasks' = [tasks EXCEPT ![t] = q]
  <2>1. CASE End(t, pc)  BY <1>2, <2>1 DEF End
  <2>2. CASE Goto(t, pc)  BY <1>2, <2>2 DEF Goto
  <2> QED  BY <2>1, <2>2
<1> QED  BY <1>1, <1>3

LEMMA ReleaseTypes ==
    ASSUME TypeOK, NEW t \in Tasks, Release(t)  PROVE holder' \in Tasks \cup {None}
BY DEF Release, TypeOK

\* A code that is given back has its owner.
LEMMA GivenBackTypes ==
    ASSUME TypeOK, NEW c \in Codes, codes[c].owner \in Users
    PROVE  GivenBack(c) \in [Codes -> Code] /\ \A x \in Live(GivenBack(c)) : GivenBack(c)[x].owner \in Users
<1>1. \A r \in Code : [r EXCEPT !.state = "live"] \in Code /\ [r EXCEPT !.state = "live"].owner = r.owner
  BY DEF Code
<1>2. GivenBack(c) = [codes EXCEPT ![c] = [codes[c] EXCEPT !.state = "live"]]  BY DEF GivenBack
<1>3. codes \in [Codes -> Code] /\ \A x \in Live(codes) : codes[x].owner \in Users /\ x \in Codes
  BY DEF TypeOK, Live
<1>4. GivenBack(c) \in [Codes -> Code]  BY <1>1, <1>2, <1>3
<1>5. ASSUME NEW x \in Codes  PROVE /\ GivenBack(c)[x].owner = codes[x].owner
                                    /\ x # c => GivenBack(c)[x].state = codes[x].state
  BY <1>1, <1>2, <1>3
<1> QED  BY <1>3, <1>4, <1>5 DEF Live

\* The steps of a call.
LEMMA CallStepTypes ==
    ASSUME PendingInv, NEW t \in Tasks, Start(t) \/ Continue(t) \/ Abandon(t)  PROVE TypeOK'
<1> USE PrunedCodes, PrunedClaims
<1>1. TypeOK /\ Serial /\ CodesTaken /\ ClaimsTaken  BY DEF PendingInv
<1>2. ASSUME NEW c \in Codes, NEW d \in Devices, PairTake(t, c, d)  PROVE TypeOK'
  <2>1. codes' = [Pruned(codes) EXCEPT ![c] = [Pruned(codes)[c] EXCEPT !.state = "gone"]]
    BY <1>2 DEF PairTake, CodeTaken
  <2>2. codes' \in [Codes -> Code] /\ \A x \in Live(codes') : codes'[x].owner \in Users
    <3>1. \A x \in Live(Pruned(codes)) : codes[x].owner \in Users /\ x \in Codes
      BY <1>1 DEF Live, TypeOK
    <3> QED  BY <1>1, <2>1, <3>1, CodeGone DEF Live
  <2>3. claims' \in [Claims -> Claim] /\ claimBytes' \in Nat
    BY <1>1, <1>2, BytesType DEF PairTake, PruneClaims, BytesLeft
  <2>4. codes[c].owner \in Users
    BY <1>1, <1>2 DEF PairTake, TypeOK, Live
  <2>5. tasks' = [tasks EXCEPT ![t] = [tasks[t] EXCEPT !.pc = "taken", !.op = "pair", !.dev = d,
                                       !.key = c, !.user = codes[c].owner]]
    BY <1>2 DEF PairTake
  <2>6. tasks' \in [Tasks -> Task]
    <3>1. devices \in Registry /\ tasks \in [Tasks -> Task]  BY <1>1 DEF TypeOK
    <3>2. c \in Codes \cup Claims \cup {None}  OBVIOUS
    <3>3. [tasks[t] EXCEPT !.pc = "taken", !.op = "pair", !.dev = d,
                           !.key = c, !.user = codes[c].owner] \in Task
      BY <1>1, <2>4, <3>1, <3>2, CallStarts
    <3> QED  BY <2>5, <3>1, <3>3
  <2> QED  BY <1>1, <1>2, <2>2, <2>3, <2>6 DEF PairTake, TypeOK, memory, file
<1>3. CASE PairIssue(t)
  <2>1. /\ tasks[t].dev \in Devices /\ tasks[t].user \in Users
        /\ tasks[t].key \in Codes \cup Claims
    BY <1>1, <1>3 DEF PairIssue, Serial, CodesTaken, Used, Running
  <2>2. Issue(t, "pair", tasks[t].dev, tasks[t].user, tasks[t].key)
    BY <1>3 DEF PairIssue
  <2>3. /\ devices' \in Registry /\ tokens' \in [Tasks -> Devices \cup {None}]
        /\ revision' \in Nat /\ tasks' \in [Tasks -> Task]
    BY <1>1, <2>1, <2>2, IssueTypes
  <2> QED  BY <1>1, <1>3, <2>3 DEF PairIssue, TypeOK, pending, file, Live
<1>4. CASE PairRefused(t)
  <2>1. tasks[t].key \in Codes /\ codes[tasks[t].key].owner \in Users
    BY <1>1, <1>4 DEF PairRefused, Serial, CodesTaken, Used, Running
  <2>2. tasks' \in [Tasks -> Task] /\ holder' \in Tasks \cup {None}
    BY <1>1, <1>4, EndTypes, ReleaseTypes DEF PairRefused
  <2>3. codes' \in [Codes -> Code] /\ \A x \in Live(codes') : codes'[x].owner \in Users
    BY <1>1, <1>4, <2>1, GivenBackTypes DEF PairRefused
  <2> QED  BY <1>1, <1>4, <2>2, <2>3 DEF PairRefused, TypeOK, memory, file
<1>5. ASSUME NEW k \in Claims, NEW u \in Users, Complete(t, k, u)  PROVE TypeOK'
  <2>1. claims[k].dev \in Devices
    BY <1>1, <1>5 DEF Complete, Completable, ClaimsTaken, ClaimRecords
  <2>2. /\ devices' \in Registry /\ tokens' \in [Tasks -> Devices \cup {None}]
        /\ revision' \in Nat /\ tasks' \in [Tasks -> Task]
    BY <1>1, <1>5, <2>1, IssueTypes DEF Complete
  <2>3. claims' = [Pruned(claims) EXCEPT ![k] = [Pruned(claims)[k] EXCEPT !.busy = TRUE]]
    BY <1>5 DEF Complete
  <2>4. \A r \in Claim : [r EXCEPT !.busy = TRUE] \in Claim  BY DEF Claim
  <2>5. claims' \in [Claims -> Claim]  BY <1>1, <2>3, <2>4
  <2>6. claimBytes' \in Nat
    BY <1>1, <1>5, BytesType DEF Complete, BytesLeft
  <2> QED  BY <1>1, <1>5, <2>2, <2>5, <2>6 DEF Complete, TypeOK, file
<1>6. ASSUME NEW k \in Claims, NEW u \in Users, CompleteRefused(t, k, u)  PROVE TypeOK'
  <2>1. tasks' \in [Tasks -> Task]
    <3>2. tasks[t] \in Task  BY <1>1 DEF TypeOK
    <3>1. [tasks[t] EXCEPT !.pc = "refused", !.op = "complete"] \in Task
      BY <3>2 DEF Task
    <3> QED  BY <1>1, <1>6, <3>1 DEF CompleteRefused, Refused, TypeOK
  <2>2. claims' \in [Claims -> Claim] /\ claimBytes' \in Nat
    BY <1>1, <1>6, BytesType DEF CompleteRefused, PruneClaims, BytesLeft
  <2> QED  BY <1>1, <1>6, <2>1, <2>2 DEF CompleteRefused, TypeOK, memory, file
<1>7. ASSUME NEW d \in Devices, Delete(t, d)  PROVE TypeOK'
  <2> DEFINE ds == [devices EXCEPT ![d] = NoDevice]
  <2>1. devices' \in Registry /\ devices' = ds /\ ds \in Registry /\ devices[d].owner \in Users
    BY <1>1, <1>7 DEF Delete, TypeOK, Registry, Record, Paired
  <2>5. tokens' \in [Tasks -> Devices \cup {None}]
    BY <1>1, <1>7 DEF Delete, TypeOK
  <2>6. NextRevision \in Nat /\ revision' \in Nat
    BY <1>1, <1>7 DEF Delete, TypeOK, NextRevision
  <2>2. tokens' \in [Tasks -> Devices \cup {None}] /\ NextRevision \in Nat /\ revision' \in Nat
    BY <2>5, <2>6
  <2>3. tasks' = [tasks EXCEPT ![t] = [pc |-> "write", op |-> "delete", user |-> devices[d].owner,
                     dev |-> d, key |-> None, old |-> devices[d], snapshot |-> Snapshot(ds, NextRevision)]]
    BY <1>7 DEF Delete
  <2>4. tasks' \in [Tasks -> Task]
    <3> HIDE DEF ds
    <3>1. [pc |-> "write", op |-> "delete", user |-> devices[d].owner, dev |-> d, key |-> None,
           old |-> devices[d], snapshot |-> Snapshot(ds, NextRevision)] \in Task
      BY <1>1, <2>1, <2>2, CallStarts
    <3> QED  BY <1>1, <2>3, <3>1 DEF TypeOK
  <2> QED  BY <1>1, <1>7, <2>1, <2>2, <2>4 DEF Delete, TypeOK, pending, file, Live
<1>8. ASSUME NEW d \in Devices, DeleteRefused(t, d)  PROVE TypeOK'
  <2>1. tasks' \in [Tasks -> Task]
    <3>2. tasks[t] \in Task  BY <1>1 DEF TypeOK
    <3>1. [tasks[t] EXCEPT !.pc = "refused", !.op = "delete"] \in Task
      BY <3>2 DEF Task
    <3> QED  BY <1>1, <1>8, <3>1 DEF DeleteRefused, Refused, TypeOK
  <2> QED  BY <1>1, <1>8, <2>1 DEF DeleteRefused, TypeOK, memory, pending, file, Live
<1>9. CASE Write(t) \/ WriteFails(t)
  <2>1. tasks' \in [Tasks -> Task]
    BY <1>1, <1>9, EndTypes DEF Write, WriteFails
  <2>2. disk' \in {disk, tasks[t].snapshot}  BY <1>9 DEF Write, WriteFails, Failing
  <2>3. disk' \in [rev : Nat, devices : Registry]  BY <1>1, <2>2 DEF TypeOK, Task
  <2> QED  BY <1>1, <1>9, <2>1, <2>3 DEF Write, WriteFails, TypeOK, pending, memory, Live
<1>10. CASE Answer(t)
  <2>1. tasks' \in [Tasks -> Task] /\ holder' \in Tasks \cup {None}
    BY <1>1, <1>10, EndTypes, ReleaseTypes DEF Answer
  <2>2. tasks[t].snapshot.rev \in Nat  BY <1>1 DEF TypeOK, Task
  <2>3. claims' \in [Claims -> Claim]
    <3>1. \A r \in Claim : [r EXCEPT !.token = t, !.busy = FALSE] \in Claim  BY DEF Claim
    <3>2. CASE tasks[t].op = "complete"
      <4> DEFINE r == [claims[tasks[t].key] EXCEPT !.token = t, !.busy = FALSE]
      <4>1. claims' \in {claims, [claims EXCEPT ![tasks[t].key] = r]}
        BY <1>10, <3>2, ZenonT(60) DEF Answer
      <4>2. tasks[t].key \in Claims  BY <1>1, <1>10, <3>2 DEF Answer, Serial, Used, Running
      <4>3. claims \in [Claims -> Claim]  BY <1>1 DEF TypeOK
      <4>4. r \in Claim  BY <3>1, <4>2, <4>3
      <4> HIDE DEF r
      <4> QED  BY <4>1, <4>2, <4>3, <4>4
    <3>3. CASE tasks[t].op = "delete"
      <4> DEFINE left(k) == IF claims[k].dev = tasks[t].dev /\ claims[k].state = "live"
                            THEN [claims[k] EXCEPT !.state = "gone"] ELSE claims[k]
      <4>1. claims' = [k \in Claims |-> left(k)]  BY <1>10, <3>3 DEF Answer
      <4>2. \A k \in Claims : left(k) \in Claim  BY <1>1, ClaimGone DEF TypeOK
      <4> HIDE DEF left
      <4> QED  BY <4>1, <4>2
    <3>4. CASE tasks[t].op = "pair"  BY <1>1, <1>10, <3>4 DEF Answer, TypeOK
    <3> QED  BY <1>1, <3>2, <3>3, <3>4 DEF TypeOK, Task
  <2>4. claimBytes' \in Nat  BY <1>1, <1>10, <2>3, BytesType DEF Answer, TypeOK
  <2> QED  BY <1>1, <1>10, <2>1, <2>2, <2>3, <2>4 DEF Answer, TypeOK, memory, file, Live
<1>11. CASE Rollback(t)
  <2>1. tasks' \in [Tasks -> Task] /\ holder' \in Tasks \cup {None}
    BY <1>1, <1>11, EndTypes, ReleaseTypes DEF Rollback
  <2>2. /\ devices' = [devices EXCEPT ![tasks[t].dev] = tasks[t].old]
        /\ tasks[t].dev \in Devices /\ tasks[t].old \in Record \cup {NoDevice}
    BY <1>1, <1>11 DEF Rollback, RolledBack, Serial, Running, TypeOK, Task
  <2>3. devices' \in Registry  BY <1>1, <2>2 DEF TypeOK, Registry
  <2>4. tokens' \in [Tasks -> Devices \cup {None}]
    BY <1>1, <1>11, <2>2 DEF Rollback, TokensBack, TypeOK
  <2>5. codes' \in [Codes -> Code] /\ \A x \in Live(codes') : codes'[x].owner \in Users
    <3>1. CASE tasks[t].op = "pair"
      <4>1. tasks[t].key \in Codes /\ codes[tasks[t].key].owner \in Users
        BY <1>1, <1>11, <3>1 DEF Rollback, CodesTaken, Used, Running
      <4> QED  BY <1>1, <1>11, <3>1, <4>1, GivenBackTypes DEF Rollback
    <3>2. CASE tasks[t].op # "pair"  BY <1>1, <1>11, <3>2 DEF Rollback, TypeOK
    <3> QED  BY <3>1, <3>2
  <2>6. claims' \in [Claims -> Claim]
    <3>1. \A r \in Claim : [r EXCEPT !.busy = FALSE] \in Claim  BY DEF Claim
    <3>2. claims' \in {claims, [claims EXCEPT ![tasks[t].key] =
                                   [claims[tasks[t].key] EXCEPT !.busy = FALSE]]}
      BY <1>11 DEF Rollback, BusyAfter
    <3>3. claims' # claims => tasks[t].key \in Claims
      BY <1>1, <1>11 DEF Rollback, Serial, Used, Running
    <3> QED  BY <1>1, <3>1, <3>2, <3>3 DEF TypeOK
  <2> QED  BY <1>1, <1>11, <2>1, <2>3, <2>4, <2>5, <2>6 DEF Rollback, TypeOK, file
<1>12. CASE Abandon(t)
  <2>1. tasks' \in [Tasks -> Task] /\ holder' \in Tasks \cup {None}
    BY <1>1, <1>12, EndTypes, ReleaseTypes DEF Abandon
  <2>2. tasks[t].snapshot \in [rev : Nat, devices : Registry]  BY <1>1 DEF TypeOK, Task
  <2>3. renaming' \subseteq [rev : Nat, devices : Registry]  BY <1>1, <1>12, <2>2 DEF Abandon, TypeOK
  <2> QED  BY <1>1, <1>12, <2>1, <2>3 DEF Abandon, TypeOK, pending, memory, Live
<1> QED  BY <1>2, <1>3, <1>4, <1>5, <1>6, <1>7, <1>8, <1>9, <1>10, <1>11, <1>12 DEF Start, Continue

\* A late rename, and a restart.
LEMMA RestartTypes ==
    ASSUME PendingInv, Restart \/ \E s \in renaming : Rename(s)  PROVE TypeOK'
<1>1. TypeOK  BY DEF PendingInv
<1>2. ASSUME NEW s \in renaming, Rename(s)  PROVE TypeOK'
  BY <1>1, <1>2 DEF Rename, TypeOK, pending, memory, Live
<1>3. CASE Restart
  <2>1. devices' \in Registry /\ revision' \in Nat /\ written' \in Nat
    BY <1>1, <1>3 DEF Restart, TypeOK
  <2>2. tokens' \in [Tasks -> Devices \cup {None}]
    <3> DEFINE token(t) == IF \E d \in Devices : disk.devices[d].token = t
                           THEN CHOOSE d \in Devices : disk.devices[d].token = t ELSE None
    <3>1. tokens' = [t \in Tasks |-> token(t)]  BY <1>3 DEF Restart
    <3>2. ASSUME NEW t \in Tasks  PROVE token(t) \in Devices \cup {None}
      <4>1. CASE \E d \in Devices : disk.devices[d].token = t  BY <4>1
      <4>2. CASE ~ \E d \in Devices : disk.devices[d].token = t  BY <4>2
      <4> QED  BY <4>1, <4>2
    <3> HIDE DEF token
    <3> QED  BY <3>1, <3>2
  <2>3. tasks' \in [Tasks -> Task]
    <3> DEFINE call(t) == IF Running(t) THEN Ended(t, "lost") ELSE tasks[t]
    <3>1. tasks' = [t \in Tasks |-> call(t)]  BY <1>3 DEF Restart
    <3>2. \A t \in Tasks : call(t) \in Task  BY <1>1, CallTypes DEF TypeOK
    <3> HIDE DEF call
    <3> QED  BY <3>1, <3>2
  <2>4. codes' \in [Codes -> Code] /\ Live(codes') = {}
    <3> DEFINE left(c) == IF codes[c].state = "live" THEN [codes[c] EXCEPT !.state = "gone"] ELSE codes[c]
    <3>1. codes' = [c \in Codes |-> left(c)]  BY <1>3 DEF Restart
    <3>2. \A c \in Codes : left(c) \in Code /\ left(c).state # "live"  BY <1>1, CodeGone DEF TypeOK
    <3> HIDE DEF left
    <3> QED  BY <3>1, <3>2 DEF Live
  <2>5. claims' \in [Claims -> Claim]
    <3> DEFINE left(k) == IF claims[k].state = "live" THEN [claims[k] EXCEPT !.state = "gone"] ELSE claims[k]
    <3>1. claims' = [k \in Claims |-> left(k)]  BY <1>3 DEF Restart
    <3>2. \A k \in Claims : left(k) \in Claim  BY <1>1, ClaimGone DEF TypeOK
    <3> HIDE DEF left
    <3> QED  BY <3>1, <3>2
  <2>6. crashes' \in Nat /\ claimBytes' \in Nat /\ holder' = None /\ renaming' = {}
    BY <1>1, <1>3 DEF Restart, TypeOK
  <2> QED  BY <1>1, <1>3, <2>1, <2>2, <2>3, <2>4, <2>5, <2>6 DEF Restart, TypeOK
<1> QED  BY <1>2, <1>3

LEMMA TypeStep == PendingInv /\ [Next]_vars => TypeOK'
<1> SUFFICES ASSUME PendingInv, [Next]_vars  PROVE TypeOK'
  OBVIOUS
<1>1. CASE UNCHANGED vars  BY <1>1 DEF vars, PendingInv, TypeOK, Live
<1> QED  BY <1>1, TableTypes, CallStepTypes, RestartTypes DEF Next

-----------------------------------------------------------------------------
(* What a step does to the calls.                                           *)

Others(t) == \A s \in Tasks : s # t => tasks'[s] = tasks[s]

LEMMA GotoMoves ==
    ASSUME TypeOK, NEW t \in Tasks, NEW pc \in {"taken", "write", "written", "unwritten", "ok", "refused", "lost"},
           Goto(t, pc)
    PROVE  /\ Others(t) /\ tasks'[t].pc = pc
           /\ tasks'[t].op = tasks[t].op /\ tasks'[t].key = tasks[t].key /\ tasks'[t].dev = tasks[t].dev
           /\ tasks'[t].user = tasks[t].user /\ tasks'[t].old = tasks[t].old
           /\ tasks'[t].snapshot = tasks[t].snapshot
<1>1. tasks \in [Tasks -> Task]  BY DEF TypeOK
<1>2. tasks' = [tasks EXCEPT ![t] = [tasks[t] EXCEPT !.pc = pc]]  BY DEF Goto
<1>3. Others(t) /\ tasks'[t] = [tasks[t] EXCEPT !.pc = pc]  BY <1>1, <1>2 DEF Others
<1> QED  BY <1>3, CallTypes

LEMMA EndMoves ==
    ASSUME TypeOK, NEW t \in Tasks, NEW pc \in {"ok", "refused", "lost"}, End(t, pc)
    PROVE  /\ Others(t) /\ tasks'[t].pc = pc
           /\ tasks'[t].op = tasks[t].op /\ tasks'[t].key = tasks[t].key
<1>1. tasks \in [Tasks -> Task]  BY DEF TypeOK
<1>2. tasks' = [tasks EXCEPT ![t] = Ended(t, pc)]  BY DEF End
<1>3. Others(t) /\ tasks'[t] = Ended(t, pc)  BY <1>1, <1>2 DEF Others
<1>4. Ended(t, pc).pc = pc /\ Ended(t, pc).op = tasks[t].op /\ Ended(t, pc).key = tasks[t].key
  BY DEF Ended, Idle
<1> QED  BY <1>3, <1>4

LEMMA RefusedMoves ==
    ASSUME TypeOK, NEW t \in Tasks, NEW op, Refused(t, op)
    PROVE  Others(t) /\ tasks'[t].pc = "refused"
<1>1. tasks \in [Tasks -> Task]  BY DEF TypeOK
<1>2. tasks' = [tasks EXCEPT ![t] = [tasks[t] EXCEPT !.pc = "refused", !.op = op]]  BY DEF Refused
<1>3. Others(t) /\ tasks'[t] = [tasks[t] EXCEPT !.pc = "refused", !.op = op]
  BY <1>1, <1>2 DEF Others
<1>4. tasks[t] \in Task  BY <1>1
<1> QED  BY <1>3, <1>4 DEF Task

LEMMA TakeMoves ==
    ASSUME TypeOK, NEW t \in Tasks, NEW c \in Codes, NEW d \in Devices, PairTake(t, c, d)
    PROVE  /\ Others(t) /\ tasks'[t].pc = "taken" /\ tasks'[t].op = "pair"
           /\ tasks'[t].key = c /\ tasks'[t].dev = d /\ tasks'[t].user = codes[c].owner
<1> DEFINE r == [tasks[t] EXCEPT !.pc = "taken", !.op = "pair", !.dev = d, !.key = c, !.user = codes[c].owner]
<1>1. tasks \in [Tasks -> Task]  BY DEF TypeOK
<1>2. tasks' = [tasks EXCEPT ![t] = r]  BY DEF PairTake
<1>3. tasks[t] \in Task  BY <1>1
<1>4. /\ r.pc = "taken" /\ r.op = "pair" /\ r.key = c /\ r.dev = d /\ r.user = codes[c].owner
  BY <1>3 DEF Task
<1> HIDE DEF r
<1>5. Others(t) /\ tasks'[t] = r  BY <1>1, <1>2 DEF Others
<1> QED  BY <1>4, <1>5

LEMMA IssueMoves ==
    ASSUME TypeOK, NEW t \in Tasks, NEW op, NEW d, NEW u, NEW k, Issue(t, op, d, u, k)
    PROVE  /\ Others(t) /\ tasks'[t].pc = "write" /\ tasks'[t].op = op
           /\ tasks'[t].key = k /\ tasks'[t].dev = d /\ tasks'[t].user = u
           /\ tasks'[t].old = devices[d] /\ tasks'[t].snapshot = Snapshot(devices', revision')
<1> DEFINE r == [pc |-> "write", op |-> op, user |-> u, dev |-> d, key |-> k, old |-> devices[d],
                 snapshot |-> Snapshot([devices EXCEPT ![d] = [owner |-> u, token |-> t]], revision + 1)]
<1>1. tasks \in [Tasks -> Task]  BY DEF TypeOK
<1>2. tasks' = [tasks EXCEPT ![t] = r]  BY DEF Issue
<1>3. /\ r.pc = "write" /\ r.op = op /\ r.key = k /\ r.dev = d /\ r.user = u /\ r.old = devices[d]
      /\ r.snapshot = Snapshot(devices', revision')
  BY DEF Issue
<1> HIDE DEF r
<1>4. Others(t) /\ tasks'[t] = r  BY <1>1, <1>2 DEF Others
<1> QED  BY <1>3, <1>4

LEMMA DeleteMoves ==
    ASSUME TypeOK, NEW t \in Tasks, NEW d \in Devices, Delete(t, d)
    PROVE  /\ Others(t) /\ tasks'[t].pc = "write" /\ tasks'[t].op = "delete"
           /\ tasks'[t].dev = d
           /\ tasks'[t].old = devices[d] /\ tasks'[t].snapshot = Snapshot(devices', revision')
<1> DEFINE r == [pc |-> "write", op |-> "delete", user |-> devices[d].owner, dev |-> d, key |-> None,
                 old |-> devices[d], snapshot |-> Snapshot([devices EXCEPT ![d] = NoDevice], NextRevision)]
<1>1. tasks \in [Tasks -> Task]  BY DEF TypeOK
<1>2. tasks' = [tasks EXCEPT ![t] = r]  BY DEF Delete
<1>3. /\ r.pc = "write" /\ r.op = "delete" /\ r.dev = d /\ r.old = devices[d]
      /\ r.snapshot = Snapshot(devices', revision')
  BY DEF Delete
<1> HIDE DEF r
<1>4. Others(t) /\ tasks'[t] = r  BY <1>1, <1>2 DEF Others
<1> QED  BY <1>3, <1>4

\* A restart loses the calls that run.
LEMMA RestartMoves ==
    ASSUME TypeOK, NEW t \in Tasks, Restart
    PROVE  IF Running(t) THEN /\ tasks'[t].pc = "lost" /\ tasks'[t].op = tasks[t].op
                              /\ tasks'[t].key = tasks[t].key
           ELSE tasks'[t] = tasks[t]
<1> DEFINE call(s) == IF Running(s) THEN Ended(s, "lost") ELSE tasks[s]
<1>1. tasks' = [s \in Tasks |-> call(s)]  BY DEF Restart
<1>2. tasks'[t] = IF Running(t) THEN Ended(t, "lost") ELSE tasks[t]  BY <1>1
<1>3. /\ Ended(t, "lost").pc = "lost" /\ Ended(t, "lost").op = tasks[t].op
      /\ Ended(t, "lost").key = tasks[t].key
  BY DEF Ended, Idle
<1> QED  BY <1>2, <1>3

-----------------------------------------------------------------------------
(* The lock of the persistence coordinator.                                 *)

LEMMA SerialStep == PendingInv /\ [Next]_vars => Serial'
<1> SUFFICES ASSUME PendingInv, [Next]_vars  PROVE Serial'
  OBVIOUS
<1> USE DEF Running, Used
<1>1. TypeOK /\ Serial /\ CodesTaken /\ ClaimsTaken  BY DEF PendingInv
<1>2. CASE Table
  <2>1. UNCHANGED <<tasks, holder>>
    BY <1>2 DEF Table, CreateCode, CreateClaim, Poll, Lapse
  <2> QED  BY <1>1, <2>1 DEF Serial
<1>3. ASSUME NEW t \in Tasks, NEW c \in Codes, NEW d \in Devices, PairTake(t, c, d)  PROVE Serial'
  <2>1. codes[c].owner \in Users
    BY <1>1, <1>3, PrunedCodes DEF PairTake, TypeOK, Live
  <2>2. holder = None /\ holder' = t  BY <1>3 DEF PairTake, Starts, Free
  <2> QED  BY <1>1, <1>3, <2>1, <2>2, TakeMoves DEF Serial, Others
<1>4. ASSUME NEW t \in Tasks, PairIssue(t)  PROVE Serial'
  <2>1. Issue(t, "pair", tasks[t].dev, tasks[t].user, tasks[t].key) /\ holder' = holder /\ tasks[t].pc = "taken"
    BY <1>4 DEF PairIssue
  <2> QED  BY <1>1, <2>1, IssueMoves DEF Serial, Others
<1>5. ASSUME NEW t \in Tasks, NEW k \in Claims, NEW u \in Users, Complete(t, k, u)  PROVE Serial'
  <2>1. claims[k].dev \in Devices
    BY <1>1, <1>5 DEF Complete, Completable, ClaimsTaken, ClaimRecords
  <2>2. holder = None /\ holder' = t /\ Issue(t, "complete", claims[k].dev, u, k)
    BY <1>5 DEF Complete, Starts, Free
  <2> QED  BY <1>1, <2>1, <2>2, IssueMoves DEF Serial, Others
<1>6. ASSUME NEW t \in Tasks, NEW k \in Claims, NEW u \in Users, CompleteRefused(t, k, u)  PROVE Serial'
  <2>1. holder' = holder /\ Refused(t, "complete") /\ tasks[t].pc = "idle"
    BY <1>6 DEF CompleteRefused, Starts
  <2> QED  BY <1>1, <2>1, RefusedMoves DEF Serial, Others
<1>7. ASSUME NEW t \in Tasks, NEW d \in Devices, Delete(t, d)  PROVE Serial'
  <2>1. holder = None /\ holder' = t  BY <1>7 DEF Delete, Starts, Free
  <2> QED  BY <1>1, <1>7, <2>1, DeleteMoves DEF Serial, Others
<1>8. ASSUME NEW t \in Tasks, NEW d \in Devices, DeleteRefused(t, d)  PROVE Serial'
  <2>1. holder' = holder /\ Refused(t, "delete") /\ tasks[t].pc = "idle"
    BY <1>8 DEF DeleteRefused, Starts
  <2> QED  BY <1>1, <2>1, RefusedMoves DEF Serial, Others
<1>9. ASSUME NEW t \in Tasks, Write(t) \/ WriteFails(t)  PROVE Serial'
  <2>1. holder' = holder /\ tasks[t].pc = "write" /\ (Goto(t, "written") \/ Goto(t, "unwritten"))
    BY <1>9 DEF Write, WriteFails
  <2> QED  BY <1>1, <2>1, GotoMoves DEF Serial, Others
<1>10. ASSUME NEW t \in Tasks, PairRefused(t) \/ Answer(t) \/ Rollback(t) \/ Abandon(t)  PROVE Serial'
  <2>1. /\ Running(t) /\ Release(t)
        /\ End(t, "refused") \/ End(t, "lost") \/ (tasks[t].pc = "written" /\ End(t, "ok"))
    BY <1>10 DEF PairRefused, Answer, Rollback, Abandon
  <2>2. holder = t /\ holder' = None  BY <1>1, <2>1 DEF Serial, Release
  <2> QED  BY <1>1, <2>1, <2>2, EndMoves DEF Serial, Others
<1>11. ASSUME NEW s \in renaming, Rename(s)  PROVE Serial'
  BY <1>1, <1>11 DEF Rename, Serial
<1>12. CASE Restart
  <2>1. holder' = None  BY <1>12 DEF Restart
  <2> QED  BY <1>1, <1>12, <2>1, RestartMoves DEF Serial
<1>13. CASE UNCHANGED vars  BY <1>1, <1>13 DEF vars, Serial
<1> QED  BY <1>2, <1>3, <1>4, <1>5, <1>6, <1>7, <1>8, <1>9, <1>10, <1>11, <1>12, <1>13
         DEF Next, Start, Continue

-----------------------------------------------------------------------------
(* Codes.                                                                   *)

\* Calls that use a code, before and after a step that starts none.
CodeUser(t) == tasks[t].op = "pair" /\ Used(t)

\* A step that starts no pairing and leaves the codes that are gone keeps CodesTaken.
LEMMA CodesKept ==
    ASSUME PendingInv,
           \A t \in Tasks : CodeUser(t)' => CodeUser(t) /\ tasks'[t].key = tasks[t].key,
           \A c \in Codes : codes[c].state = "gone" /\ (\E t \in Tasks : CodeUser(t)' /\ tasks'[t].key = c)
               => codes'[c].state = "gone" /\ codes'[c].owner = codes[c].owner
    PROVE  CodesTaken'
<1>1. CodesTaken  BY DEF PendingInv
<1>2. ASSUME NEW t \in Tasks, CodeUser(t)'
      PROVE  /\ CodeUser(t) /\ tasks'[t].key = tasks[t].key /\ tasks[t].key \in Codes
             /\ codes'[tasks[t].key].state = "gone" /\ codes'[tasks[t].key].owner \in Users
  BY <1>1, <1>2 DEF CodesTaken, CodeUser
<1> QED  BY <1>1, <1>2 DEF CodesTaken, CodeUser

LEMMA CodesStep == PendingInv /\ [Next]_vars => CodesTaken'
<1> SUFFICES ASSUME PendingInv, [Next]_vars  PROVE CodesTaken'
  OBVIOUS
<1> USE DEF Running, Used
<1>1. TypeOK /\ Serial /\ CodesTaken /\ ClaimsTaken  BY DEF PendingInv
<1>2. CASE Table
  <2>1. UNCHANGED tasks
    BY <1>2 DEF Table, CreateCode, CreateClaim, Poll, Lapse
  <2>2. \A c \in Codes : codes[c].state = "gone" => codes'[c].state = "gone" /\ codes'[c].owner = codes[c].owner
    <3>1. ASSUME NEW c \in Codes, NEW u \in Users, CreateCode(c, u)
          PROVE \A x \in Codes : codes[x].state = "gone" => codes'[x] = codes[x]
      <4> DEFINE r == [Pruned(codes)[c] EXCEPT !.state = "live", !.owner = u]
      <4>1. codes' = [Pruned(codes) EXCEPT ![c] = r] /\ codes[c].state = "unused"
        BY <3>1 DEF CreateCode
      <4> HIDE DEF r
      <4> QED  BY <1>1, <4>1, PrunedCodes
    <3>2. ASSUME Lapse
          PROVE \A x \in Codes : codes[x].state = "gone" => codes'[x] = codes[x]
      <4>1. UNCHANGED codes \/ \E c \in Live(codes) : codes' = [codes EXCEPT ![c] = [codes[c] EXCEPT !.old = TRUE]]
        BY <3>2 DEF Lapse
      <4> QED  BY <1>1, <4>1 DEF Live, TypeOK
    <3>3. CASE UNCHANGED codes  BY <3>3
    <3> QED  BY <1>2, <3>1, <3>2, <3>3 DEF Table, CreateClaim, Poll
  <2> QED  BY <2>1, <2>2, CodesKept DEF CodeUser
<1>3. ASSUME NEW t \in Tasks, NEW c \in Codes, NEW d \in Devices, PairTake(t, c, d)  PROVE CodesTaken'
  <2>1. Pruned(codes)[c].state = "live"  BY <1>3 DEF PairTake
  <2>2. codes[c].state = "live" /\ codes[c].owner \in Users
    BY <1>1, <2>1, PrunedCodes DEF TypeOK, Live
  <2>3. codes' = [Pruned(codes) EXCEPT ![c] = [Pruned(codes)[c] EXCEPT !.state = "gone"]]
    BY <1>3 DEF PairTake, CodeTaken
  <2>4. codes'[c].state = "gone" /\ codes'[c].owner \in Users
    BY <1>1, <2>2, <2>3, PrunedCodes, CodeGone
  <2>5. \A x \in Codes : x # c /\ codes[x].state = "gone" => codes'[x] = codes[x]
    BY <1>1, <2>3, PrunedCodes
  <2>6. /\ \A s \in Tasks : s # t => tasks'[s] = tasks[s]
        /\ tasks'[t].pc = "taken" /\ tasks'[t].op = "pair" /\ tasks'[t].key = c
    BY <1>1, <1>3, TakeMoves DEF Others
  <2>7. ASSUME NEW s \in Tasks, s # t, CodeUser(s)'
        PROVE  /\ tasks'[s].key \in Codes /\ tasks'[s].key # c
               /\ codes'[tasks'[s].key].state = "gone" /\ codes'[tasks'[s].key].owner \in Users
    BY <1>1, <2>2, <2>5, <2>6, <2>7 DEF CodesTaken, CodeUser
  <2> QED  BY <1>1, <2>4, <2>6, <2>7 DEF CodesTaken, CodeUser
<1>4. ASSUME NEW t \in Tasks, PairIssue(t)  PROVE CodesTaken'
  <2>1. /\ Issue(t, "pair", tasks[t].dev, tasks[t].user, tasks[t].key) /\ tasks[t].pc = "taken"
        /\ UNCHANGED codes
    BY <1>4 DEF PairIssue, pending
  <2>2. CodeUser(t)  BY <1>1, <2>1 DEF Serial, CodeUser
  <2> QED  BY <1>1, <2>1, <2>2, IssueMoves, CodesKept DEF CodeUser, Others
<1>5. ASSUME NEW t \in Tasks, NEW k \in Claims, NEW u \in Users, Complete(t, k, u)  PROVE CodesTaken'
  <2>1. Issue(t, "complete", claims[k].dev, u, k) /\ UNCHANGED codes  BY <1>5 DEF Complete
  <2> QED  BY <1>1, <2>1, IssueMoves, CodesKept DEF CodeUser, Others
<1>6. ASSUME NEW t \in Tasks, Refused(t, "complete") \/ Refused(t, "delete"), UNCHANGED codes  PROVE CodesTaken'
  BY <1>1, <1>6, RefusedMoves, CodesKept DEF CodeUser, Others
<1>7. ASSUME NEW t \in Tasks, NEW d \in Devices, Delete(t, d)  PROVE CodesTaken'
  <2>1. UNCHANGED codes  BY <1>7 DEF Delete, pending
  <2> QED  BY <1>1, <1>7, <2>1, DeleteMoves, CodesKept DEF CodeUser, Others
<1>8. ASSUME NEW t \in Tasks, Write(t) \/ WriteFails(t)  PROVE CodesTaken'
  <2>1. tasks[t].pc = "write" /\ (Goto(t, "written") \/ Goto(t, "unwritten")) /\ UNCHANGED codes
    BY <1>8 DEF Write, WriteFails, pending
  <2> QED  BY <1>1, <2>1, GotoMoves, CodesKept DEF CodeUser, Others
<1>9. ASSUME NEW t \in Tasks, PairRefused(t) \/ Rollback(t)  PROVE CodesTaken'
  <2>1. Running(t) /\ End(t, "refused") /\ (tasks[t].pc = "taken" => tasks[t].op = "pair")
    BY <1>1, <1>9 DEF PairRefused, Rollback, Serial
  <2>2. IF tasks[t].op = "pair" THEN codes' = GivenBack(tasks[t].key) ELSE UNCHANGED codes
    BY <1>1, <1>9, <2>1 DEF PairRefused, Rollback, Serial
  <2>3. ~CodeUser(t)' /\ \A s \in Tasks : s # t => tasks'[s] = tasks[s]
    BY <1>1, <2>1, EndMoves DEF CodeUser, Others
  <2>4. CASE tasks[t].op = "pair"
    <3>1. codes' = [codes EXCEPT ![tasks[t].key] = [codes[tasks[t].key] EXCEPT !.state = "live"]]
      BY <2>2, <2>4 DEF GivenBack
    <3>2. \A x \in Codes : x # tasks[t].key => codes'[x] = codes[x]
      BY <1>1, <3>1 DEF TypeOK
    <3>3. \A s \in Tasks : s # t /\ CodeUser(s) => tasks[s].key # tasks[t].key
      BY <1>1, <2>1, <2>4 DEF CodesTaken, CodeUser
    <3> QED  BY <2>3, <3>2, <3>3, CodesKept DEF CodeUser
  <2>5. CASE tasks[t].op # "pair"
    BY <2>2, <2>3, <2>5, CodesKept DEF CodeUser
  <2> QED  BY <2>4, <2>5
<1>10. ASSUME NEW t \in Tasks, Answer(t) \/ Abandon(t)  PROVE CodesTaken'
  <2>1. Running(t) /\ UNCHANGED codes /\ (End(t, "lost") \/ End(t, "ok"))
    BY <1>10 DEF Answer, Abandon, pending
  <2> QED  BY <1>1, <2>1, EndMoves, CodesKept DEF CodeUser, Others
<1>11. ASSUME NEW s \in renaming, Rename(s)  PROVE CodesTaken'
  BY <1>1, <1>11, CodesKept DEF Rename, CodeUser, pending
<1>12. CASE Restart
  <2>1. \A c \in Codes : codes[c].state = "gone" => codes'[c] = codes[c]
    BY <1>12 DEF Restart
  <2> QED  BY <1>1, <1>12, <2>1, RestartMoves, CodesKept DEF CodeUser
<1>13. CASE UNCHANGED vars  BY <1>1, <1>13, CodesKept DEF vars, CodeUser
<1> QED  BY <1>2, <1>3, <1>4, <1>5, <1>6, <1>7, <1>8, <1>9, <1>10, <1>11, <1>12, <1>13
         DEF Next, Start, Continue, CompleteRefused, DeleteRefused, pending

-----------------------------------------------------------------------------
(* Claims.                                                                  *)

\* A step leaves a claim what it is for, or drops it.
ClaimStays(k) ==
    /\ claims'[k].polled = claims[k].polled
    /\ \/ claims'[k].state = "gone"
       \/ /\ claims'[k].state = claims[k].state /\ claims'[k].dev = claims[k].dev
          /\ claims'[k].busy = claims[k].busy /\ claims'[k].token = claims[k].token

NoNewClaimUser ==
    \A t \in Tasks : ClaimUser(t)' => /\ ClaimUser(t) /\ tasks'[t].key = tasks[t].key
                                      /\ Running(t)' = Running(t)

LEMMA ClaimsKept ==
    ASSUME PendingInv, NoNewClaimUser, UNCHANGED handed, \A k \in Claims : ClaimStays(k)
    PROVE  ClaimsTaken'
<1>1. TypeOK /\ Serial /\ ClaimsTaken  BY DEF PendingInv
<1>2. ClaimRecords'
  BY <1>1 DEF ClaimsTaken, ClaimRecords, ClaimStays
<1>3. \A t \in Tasks : ClaimUser(t) => tasks[t].key \in Claims  BY <1>1 DEF Serial, ClaimUser
<1>4. ClaimsMarked'
  BY <1>1, <1>3 DEF ClaimsTaken, ClaimsMarked, ClaimStays, NoNewClaimUser
<1>5. ClaimsApart'
  BY <1>1 DEF ClaimsTaken, ClaimsApart, NoNewClaimUser
<1> QED  BY <1>2, <1>4, <1>5 DEF ClaimsTaken

\* Pruning alone, and no change at all.
LEMMA PrunedStays ==
    ASSUME TypeOK, claims' \in {claims, Pruned(claims)}  PROVE \A k \in Claims : ClaimStays(k)
BY PrunedClaims DEF ClaimStays

\* The other calls' records, when one call moves.
LEMMA ClaimUsersStay ==
    ASSUME NEW t \in Tasks, Others(t),
           ClaimUser(t)' => ClaimUser(t) /\ tasks'[t].key = tasks[t].key /\ Running(t)' = Running(t)
    PROVE  NoNewClaimUser
BY DEF NoNewClaimUser, Others, ClaimUser, Used, Running

LEMMA ClaimTableStep ==
    ASSUME PendingInv, Table  PROVE ClaimsTaken'
<1>1. TypeOK /\ Serial /\ ClaimsTaken  BY DEF PendingInv
<1>2. UNCHANGED tasks
  BY DEF Table, CreateCode, CreateClaim, Poll, Lapse
<1>3. NoNewClaimUser  BY <1>2 DEF NoNewClaimUser, ClaimUser, Used, Running
<1>4. ASSUME NEW c \in Codes, NEW u \in Users, CreateCode(c, u)  PROVE ClaimsTaken'
  BY <1>1, <1>3, <1>4, PrunedStays, ClaimsKept DEF CreateCode, PruneClaims
<1>5. ASSUME NEW k \in Claims, NEW d \in Devices, CreateClaim(k, d)  PROVE ClaimsTaken'
  <2> DEFINE new(r) == [r EXCEPT !.state = "live", !.dev = d]
  <2>1. \A r \in Claim : /\ new(r).state = "live" /\ new(r).dev = d /\ new(r).busy = r.busy
                          /\ new(r).token = r.token /\ new(r).polled = r.polled
    BY DEF Claim
  <2>2. claims' = [Pruned(claims) EXCEPT ![k] = new(Pruned(claims)[k])] /\ claims[k].state = "unused"
        /\ handed' = handed
    BY <1>5 DEF CreateClaim
  <2> HIDE DEF new
  <2>3. /\ \A x \in Claims : x # k => claims'[x] = Pruned(claims)[x]
        /\ claims'[k].state = "live" /\ claims'[k].dev = d /\ claims'[k].busy = claims[k].busy
        /\ claims'[k].token = claims[k].token /\ claims'[k].polled = claims[k].polled
    BY <1>1, <2>1, <2>2, PrunedClaims
  <2>4. \A x \in Claims : x # k => ClaimStays(x)
    BY <1>1, <2>3, PrunedClaims DEF ClaimStays
  <2>5. \A t \in Tasks : ClaimUser(t) => tasks[t].key \in Claims \ {k}
    BY <1>1, <2>2 DEF ClaimsTaken, ClaimsMarked, Serial, ClaimUser
  <2>6. ClaimRecords'
    BY <1>1, <2>2, <2>3, <2>4 DEF ClaimsTaken, ClaimRecords, ClaimStays
  <2>7. ClaimsMarked'
    BY <1>1, <1>2, <2>4, <2>5 DEF ClaimsTaken, ClaimsMarked, ClaimStays, ClaimUser, Used, Running
  <2>8. ClaimsApart'
    BY <1>1, <1>2 DEF ClaimsTaken, ClaimsApart, ClaimUser, Used, Running
  <2> QED  BY <2>6, <2>7, <2>8 DEF ClaimsTaken
<1>6. ASSUME NEW k \in Claims, Poll(k)  PROVE ClaimsTaken'
  <2> DEFINE new(r) == [r EXCEPT !.polled = PolledOut(k)]
  <2>1. \A r \in Claim : /\ new(r).state = r.state /\ new(r).dev = r.dev /\ new(r).busy = r.busy
                          /\ new(r).token = r.token /\ new(r).polled = PolledOut(k)
    BY DEF Claim
  <2>2. claims' = [Pruned(claims) EXCEPT ![k] = new(Pruned(claims)[k])] /\ claims[k].state = "live" /\ ~claims[k].polled
    BY <1>6 DEF Poll
  <2>3. handed' \in {handed, [handed EXCEPT ![k] = @ + 1]} /\ (handed' # handed => PolledOut(k))
    BY <1>6 DEF Poll, PolledOut
  <2> HIDE DEF new
  <2>4. /\ \A x \in Claims : x # k => claims'[x] = Pruned(claims)[x]
        /\ claims'[k].dev = claims[k].dev /\ claims'[k].busy = claims[k].busy
        /\ claims'[k].token = claims[k].token /\ claims'[k].polled = PolledOut(k)
        /\ claims'[k].state \in {"gone", claims[k].state}
    BY <1>1, <2>1, <2>2, PrunedClaims
  <2>5. \A x \in Claims : x # k => ClaimStays(x) /\ handed'[x] = handed[x]
    BY <1>1, <2>3, <2>4, PrunedClaims DEF ClaimStays, TypeOK
  <2>6. handed[k] = 0 /\ handed'[k] \in {0, 1} /\ (handed'[k] = 1 => PolledOut(k))
    BY <1>1, <2>2, <2>3 DEF ClaimsTaken, ClaimRecords, TypeOK
  <2>7. ClaimRecords'
    BY <1>1, <2>2, <2>4, <2>5, <2>6 DEF ClaimsTaken, ClaimRecords, ClaimStays
  <2>8. \A t \in Tasks : ClaimUser(t) => tasks[t].key \in Claims
    BY <1>1 DEF Serial, ClaimUser
  <2>9. ClaimsMarked'
    BY <1>1, <1>2, <2>4, <2>5, <2>8 DEF ClaimsTaken, ClaimsMarked, ClaimStays, ClaimUser, Used, Running
  <2>10. ClaimsApart'
    BY <1>1, <1>2 DEF ClaimsTaken, ClaimsApart, ClaimUser, Used, Running
  <2> QED  BY <2>7, <2>9, <2>10 DEF ClaimsTaken
<1>7. CASE Lapse
  <2> DEFINE new(r) == [r EXCEPT !.old = TRUE]
  <2>1. \A r \in Claim : /\ new(r).state = r.state /\ new(r).dev = r.dev /\ new(r).busy = r.busy
                          /\ new(r).token = r.token /\ new(r).polled = r.polled
    BY DEF Claim
  <2>2. claims' = claims \/ \E k \in Live(claims) : claims' = [claims EXCEPT ![k] = new(claims[k])]
    BY <1>7 DEF Lapse
  <2>4. claims \in [Claims -> Claim] /\ Live(claims) \in SUBSET Claims  BY <1>1 DEF TypeOK, Live
  <2> HIDE DEF new
  <2>3. \A k \in Claims : ClaimStays(k)
    BY <2>1, <2>2, <2>4 DEF ClaimStays
  <2> QED  BY <1>3, <1>7, <2>3, ClaimsKept DEF Lapse
<1> QED  BY <1>4, <1>5, <1>6, <1>7 DEF Table

LEMMA ClaimCallStep ==
    ASSUME PendingInv, NEW t \in Tasks, Start(t) \/ Continue(t) \/ Abandon(t)  PROVE ClaimsTaken'
<1> USE DEF Running, Used
<1>1. TypeOK /\ Serial /\ ClaimsTaken  BY DEF PendingInv
<1>2. ASSUME NEW c \in Codes, NEW d \in Devices, PairTake(t, c, d)  PROVE ClaimsTaken'
  <2>1. NoNewClaimUser  BY <1>1, <1>2, TakeMoves, ClaimUsersStay DEF ClaimUser
  <2>2. claims' = Pruned(claims) /\ handed' = handed  BY <1>2 DEF PairTake, PruneClaims
  <2> QED  BY <1>1, <2>1, <2>2, PrunedStays, ClaimsKept
<1>3. CASE PairIssue(t)
  <2>1. /\ Issue(t, "pair", tasks[t].dev, tasks[t].user, tasks[t].key)
        /\ claims' = claims /\ handed' = handed
    BY <1>3 DEF PairIssue, pending
  <2>2. NoNewClaimUser  BY <1>1, <2>1, IssueMoves, ClaimUsersStay DEF ClaimUser
  <2> QED  BY <1>1, <2>1, <2>2, PrunedStays, ClaimsKept
<1>4. ASSUME NEW k \in Claims, NEW u \in Users, Complete(t, k, u)  PROVE ClaimsTaken'
  <2> DEFINE new(r) == [r EXCEPT !.busy = TRUE]
  <2>1. \A r \in Claim : /\ new(r).state = r.state /\ new(r).dev = r.dev /\ new(r).busy
                          /\ new(r).token = r.token /\ new(r).polled = r.polled
    BY DEF Claim
  <2>2. /\ claims' = [Pruned(claims) EXCEPT ![k] = new(Pruned(claims)[k])] /\ handed' = handed
        /\ Completable(k) /\ Issue(t, "complete", claims[k].dev, u, k) /\ tasks[t].pc = "idle"
    BY <1>4 DEF Complete, Starts
  <2> HIDE DEF new
  <2>3. Pruned(claims)[k] = claims[k]
    BY <1>1, <2>2 DEF Completable, Pruned, TypeOK
  <2>4. /\ \A x \in Claims : x # k => claims'[x] = Pruned(claims)[x]
        /\ claims'[k].state = "live" /\ claims'[k].dev = claims[k].dev /\ claims'[k].busy
        /\ claims'[k].polled = claims[k].polled
    BY <1>1, <2>1, <2>2, <2>3, PrunedClaims DEF Completable
  <2>5. \A x \in Claims : x # k => ClaimStays(x)
    BY <1>1, <2>4, PrunedClaims DEF ClaimStays
  <2>6. \A s \in Tasks : ClaimUser(s) => s # t /\ tasks[s].key \in Claims \ {k}
    BY <1>1, <2>2 DEF ClaimsTaken, ClaimsMarked, Serial, ClaimUser, Completable
  <2>7. /\ \A s \in Tasks : s # t => tasks'[s] = tasks[s]
        /\ tasks'[t].pc = "write" /\ tasks'[t].op = "complete" /\ tasks'[t].key = k
    BY <1>1, <2>2, IssueMoves DEF Others
  <2>8. ClaimRecords'
    BY <1>1, <2>2, <2>4, <2>5 DEF ClaimsTaken, ClaimRecords, ClaimStays, Completable
  <2>9. ClaimsMarked'
    BY <1>1, <2>4, <2>5, <2>6, <2>7 DEF ClaimsTaken, ClaimsMarked, ClaimStays, ClaimUser
  <2>10. ClaimsApart'
    BY <1>1, <2>6, <2>7 DEF ClaimsTaken, ClaimsApart, ClaimUser
  <2> QED  BY <2>8, <2>9, <2>10 DEF ClaimsTaken
<1>5. ASSUME NEW k \in Claims, NEW u \in Users, CompleteRefused(t, k, u)  PROVE ClaimsTaken'
  <2>1. claims' = Pruned(claims) /\ handed' = handed /\ Refused(t, "complete")
    BY <1>5 DEF CompleteRefused, PruneClaims
  <2>2. NoNewClaimUser  BY <1>1, <2>1, RefusedMoves, ClaimUsersStay DEF ClaimUser
  <2> QED  BY <1>1, <2>1, <2>2, PrunedStays, ClaimsKept
<1>6. ASSUME NEW d \in Devices, Delete(t, d)  PROVE ClaimsTaken'
  <2>1. claims' = claims /\ handed' = handed  BY <1>6 DEF Delete, pending
  <2>2. NoNewClaimUser  BY <1>1, <1>6, DeleteMoves, ClaimUsersStay DEF ClaimUser
  <2> QED  BY <1>1, <2>1, <2>2, PrunedStays, ClaimsKept
<1>7. ASSUME NEW d \in Devices, DeleteRefused(t, d)  PROVE ClaimsTaken'
  <2>1. claims' = claims /\ handed' = handed /\ Refused(t, "delete")  BY <1>7 DEF DeleteRefused, pending
  <2>2. NoNewClaimUser  BY <1>1, <2>1, RefusedMoves, ClaimUsersStay DEF ClaimUser
  <2> QED  BY <1>1, <2>1, <2>2, PrunedStays, ClaimsKept
<1>8. CASE Write(t) \/ WriteFails(t)
  <2>1. /\ claims' = claims /\ handed' = handed /\ tasks[t].pc = "write"
        /\ Goto(t, "written") \/ Goto(t, "unwritten")
    BY <1>8 DEF Write, WriteFails, pending
  <2>2. NoNewClaimUser  BY <1>1, <2>1, GotoMoves, ClaimUsersStay DEF ClaimUser
  <2> QED  BY <1>1, <2>1, <2>2, PrunedStays, ClaimsKept
<1>9. CASE PairRefused(t) \/ Abandon(t)
  <2>1. claims' = claims /\ handed' = handed /\ (End(t, "refused") \/ End(t, "lost"))
    BY <1>9 DEF PairRefused, Abandon, pending
  <2>2. NoNewClaimUser  BY <1>1, <2>1, EndMoves, ClaimUsersStay DEF ClaimUser
  <2> QED  BY <1>1, <2>1, <2>2, PrunedStays, ClaimsKept
<1>10. CASE Answer(t)
  <2>1. /\ handed' = handed /\ End(t, "ok") /\ tasks[t].pc = "written"
    BY <1>10 DEF Answer
  <2>2. /\ \A s \in Tasks : s # t => tasks'[s] = tasks[s]
        /\ tasks'[t].pc = "ok" /\ tasks'[t].op = tasks[t].op /\ tasks'[t].key = tasks[t].key
    BY <1>1, <2>1, EndMoves DEF Others
  <2>3. ClaimsApart'
    BY <1>1, <2>1, <2>2 DEF ClaimsTaken, ClaimsApart, ClaimUser
  <2>4. \A s \in Tasks : ClaimUser(s) => tasks[s].key \in Claims
    BY <1>1 DEF Serial, ClaimUser
  <2>5. CASE tasks[t].op = "complete"
    <3> DEFINE k == tasks[t].key
               new(r) == [r EXCEPT !.token = t, !.busy = FALSE]
    <3>1. \A r \in Claim : /\ new(r).state = r.state /\ new(r).dev = r.dev
                            /\ new(r).token = t /\ new(r).polled = r.polled
      BY DEF Claim
    <3>2. claims' = IF claims[k].state = "live" THEN [claims EXCEPT ![k] = new(claims[k])] ELSE claims
      BY <1>10, <2>5 DEF Answer
    <3>3. k \in Claims /\ claims[k].state \in {"live", "gone"} /\ claims \in [Claims -> Claim]
      BY <1>1, <2>1, <2>4, <2>5 DEF ClaimsTaken, ClaimsMarked, ClaimUser, TypeOK
    <3> HIDE DEF new
    <3>4. /\ \A x \in Claims : x # k => claims'[x] = claims[x]
          /\ claims'[k].state = claims[k].state /\ claims'[k].polled = claims[k].polled
          /\ claims'[k].dev = claims[k].dev /\ (claims[k].state = "live" => claims'[k].token = t)
      BY <3>1, <3>2, <3>3
    <3>5. ClaimRecords'
      BY <1>1, <2>1, <3>3, <3>4 DEF ClaimsTaken, ClaimRecords
    <3>6. \A s \in Tasks : s # t /\ ClaimUser(s) => tasks[s].key # k
      BY <1>1, <2>1, <2>5 DEF ClaimsTaken, ClaimsApart, ClaimUser
    <3>7. ClaimsMarked'
      BY <1>1, <2>2, <2>4, <3>3, <3>4, <3>6 DEF ClaimsTaken, ClaimsMarked, ClaimUser
    <3> QED  BY <2>3, <3>5, <3>7 DEF ClaimsTaken
  <2>6. CASE tasks[t].op # "complete"
    <3>1. \A k \in Claims : ClaimStays(k)
      <4> DEFINE left(k) == IF claims[k].dev = tasks[t].dev /\ claims[k].state = "live"
                            THEN [claims[k] EXCEPT !.state = "gone"] ELSE claims[k]
      <4>1. claims' = claims \/ claims' = [k \in Claims |-> left(k)]  BY <1>10, <2>6 DEF Answer
      <4>2. ASSUME NEW k \in Claims
            PROVE  left(k).polled = claims[k].polled /\ (left(k) = claims[k] \/ left(k).state = "gone")
        BY <1>1, ClaimGone DEF TypeOK
      <4> HIDE DEF left
      <4> QED  BY <4>1, <4>2 DEF ClaimStays
    <3>2. NoNewClaimUser  BY <2>2, <2>6, ClaimUsersStay DEF ClaimUser, Others
    <3> QED  BY <2>1, <3>1, <3>2, ClaimsKept
  <2> QED  BY <2>5, <2>6
<1>11. CASE Rollback(t)
  <2>1. /\ handed' = handed /\ End(t, "refused") /\ tasks[t].pc = "unwritten"
    BY <1>11 DEF Rollback
  <2>2. Others(t) /\ tasks'[t].pc = "refused"  BY <1>1, <2>1, EndMoves
  <2>3. NoNewClaimUser  BY <2>2, ClaimUsersStay DEF ClaimUser
  <2>4. CASE tasks[t].op = "complete" /\ claims[tasks[t].key].state = "live"
    <3> DEFINE k == tasks[t].key
               new(r) == [r EXCEPT !.busy = FALSE]
    <3>1. \A r \in Claim : /\ new(r).state = r.state /\ new(r).dev = r.dev
                            /\ new(r).token = r.token /\ new(r).polled = r.polled
      BY DEF Claim
    <3>2. claims' = [claims EXCEPT ![k] = new(claims[k])] /\ claims \in [Claims -> Claim]
      BY <1>1, <1>11, <2>4 DEF Rollback, BusyAfter, TypeOK
    <3>3. k \in Claims  BY <1>1, <2>1, <2>4 DEF Serial
    <3> HIDE DEF new
    <3>4. /\ \A x \in Claims : x # k => claims'[x] = claims[x]
          /\ claims'[k].state = "live" /\ claims'[k].polled = claims[k].polled
          /\ claims'[k].dev = claims[k].dev /\ claims'[k].token = claims[k].token
      BY <2>4, <3>1, <3>2, <3>3
    <3>5. ClaimRecords'
      BY <1>1, <2>1, <2>4, <3>3, <3>4 DEF ClaimsTaken, ClaimRecords
    <3>6. \A s \in Tasks : s # t /\ ClaimUser(s) => tasks[s].key \in Claims \ {k}
      BY <1>1, <2>1, <2>4 DEF ClaimsTaken, ClaimsApart, ClaimUser, Serial
    <3>7. ClaimsMarked'
      BY <1>1, <2>2, <3>4, <3>6 DEF ClaimsTaken, ClaimsMarked, ClaimUser, Others
    <3>8. ClaimsApart'
      BY <1>1, <2>2 DEF ClaimsTaken, ClaimsApart, ClaimUser, Others
    <3> QED  BY <3>5, <3>7, <3>8 DEF ClaimsTaken
  <2>5. CASE ~(tasks[t].op = "complete" /\ claims[tasks[t].key].state = "live")
    <3>1. claims' = claims  BY <1>11, <2>5 DEF Rollback
    <3> QED  BY <1>1, <2>1, <2>3, <3>1, PrunedStays, ClaimsKept
  <2> QED  BY <2>4, <2>5
<1> QED  BY <1>2, <1>3, <1>4, <1>5, <1>6, <1>7, <1>8, <1>9, <1>10, <1>11 DEF Start, Continue

LEMMA ClaimsStep == PendingInv /\ [Next]_vars => ClaimsTaken'
<1> SUFFICES ASSUME PendingInv, [Next]_vars  PROVE ClaimsTaken'
  OBVIOUS
<1>1. TypeOK  BY DEF PendingInv
<1>2. ASSUME NEW s \in renaming, Rename(s)  PROVE ClaimsTaken'
  <2>1. claims' = claims /\ handed' = handed /\ tasks' = tasks  BY <1>2 DEF Rename, pending
  <2>2. NoNewClaimUser  BY <2>1 DEF NoNewClaimUser, ClaimUser, Used, Running
  <2> QED  BY <1>1, <2>1, <2>2, PrunedStays, ClaimsKept
<1>3. CASE Restart
  <2>1. NoNewClaimUser  BY <1>1, <1>3, RestartMoves DEF NoNewClaimUser, ClaimUser, Used, Running
  <2>2. \A k \in Claims : ClaimStays(k)
    <3> DEFINE left(k) == IF claims[k].state = "live" THEN [claims[k] EXCEPT !.state = "gone"] ELSE claims[k]
    <3>1. claims' = [k \in Claims |-> left(k)]  BY <1>3 DEF Restart
    <3>2. ASSUME NEW k \in Claims
          PROVE  left(k).polled = claims[k].polled /\ (left(k) = claims[k] \/ left(k).state = "gone")
      BY <1>1, ClaimGone DEF TypeOK
    <3> HIDE DEF left
    <3> QED  BY <3>1, <3>2 DEF ClaimStays
  <2>3. handed' = handed  BY <1>3 DEF Restart
  <2> QED  BY <2>1, <2>2, <2>3, ClaimsKept
<1>4. CASE UNCHANGED vars
  <2>1. claims' = claims /\ handed' = handed /\ tasks' = tasks  BY <1>4 DEF vars
  <2>2. NoNewClaimUser  BY <2>1 DEF NoNewClaimUser, ClaimUser, Used, Running
  <2> QED  BY <1>1, <2>1, <2>2, PrunedStays, ClaimsKept
<1> QED  BY <1>2, <1>3, <1>4, ClaimTableStep, ClaimCallStep DEF Next

LEMMA PendingInit == Init => PendingInv
<1> SUFFICES ASSUME Init  PROVE PendingInv
  OBVIOUS
<1>1. TypeOK  BY TypeInit
<1>2. \A t \in Tasks : tasks[t].pc = "idle"  BY DEF Init, Idle
<1>3. Serial /\ CodesTaken /\ ClaimsMarked /\ ClaimsApart
  BY <1>2 DEF Init, Serial, CodesTaken, ClaimsMarked, ClaimsApart, ClaimUser, Used, Running
<1>4. ClaimRecords  BY DEF Init, ClaimRecords
<1> QED  BY <1>1, <1>3, <1>4 DEF PendingInv, ClaimsTaken

LEMMA PendingStep == PendingInv /\ [Next]_vars => PendingInv'
BY TypeStep, SerialStep, CodesStep, ClaimsStep DEF PendingInv

\* Whatever fails, expires or hangs up, every field stays within its type.
THEOREM PairingTypes == Spec => []TypeOK
<1>1. PendingInv => TypeOK  BY DEF PendingInv
<1> QED  BY <1>1, PendingInit, PendingStep, PTL DEF Spec

-----------------------------------------------------------------------------
(* Each code pairs once, each claim is completed once and hands out once.   *)

LEMMA UsedApart == PendingInv => CodeOnce /\ ClaimOnce
<1> SUFFICES ASSUME PendingInv  PROVE CodeOnce /\ ClaimOnce
  OBVIOUS
<1>1. TypeOK /\ CodesTaken /\ ClaimsTaken  BY DEF PendingInv
<1>2. CodeOnce  BY <1>1, SMTT(60) DEF CodeOnce, CodesTaken, Used
<1>3. ASSUME NEW k \in DOMAIN handed
      PROVE  /\ handed[k] <= 1
             /\ Cardinality({t \in Tasks : tasks[t].op = "complete" /\ tasks[t].key = k /\ tasks[t].pc = "ok"}) <= 1
  <2> DEFINE T == {t \in Tasks : tasks[t].op = "complete" /\ tasks[t].key = k /\ tasks[t].pc = "ok"}
  <2>1. k \in Claims /\ handed[k] <= 1  BY <1>1 DEF TypeOK, ClaimsTaken, ClaimRecords
  <2>2. \A s, t \in T : s = t  BY <1>1 DEF ClaimsTaken, ClaimsApart, ClaimUser, Used
  <2>3. T = {} \/ \E t \in T : T = {t}  BY <2>2
  <2> HIDE DEF T
  <2>4. Cardinality(T) <= 1
    <3>1. CASE T = {}
      <4>1. Cardinality(T) = 0  BY <3>1, FS_EmptySet
      <4> QED  BY <4>1
    <3>2. CASE \E t \in T : T = {t}
      <4>1. Cardinality(T) = 1  BY <3>2, FS_Singleton
      <4> QED  BY <4>1
    <3> QED  BY <2>3, <3>1, <3>2
  <2> QED  BY <2>1, <2>4 DEF T
<1> QED  BY <1>2, <1>3 DEF ClaimOnce

\* A step that marks no claim and ends no completion keeps BusyHasCall.
LEMMA BusyKept ==
    ASSUME TypeOK, TypeOK', BusyHasCall,
           \A k \in Claims : claims'[k].state = "live" /\ claims'[k].busy => claims[k].state = "live" /\ claims[k].busy,
           \A t \in Tasks : Running(t) /\ tasks[t].op = "complete" =>
               \/ (Running(t)' /\ tasks'[t].op = "complete" /\ tasks'[t].key = tasks[t].key)
               \/ \A k \in Claims : claims'[k].state = "live" /\ claims'[k].busy => k # tasks[t].key
    PROVE  BusyHasCall'
<1>1. DOMAIN claims = Claims /\ DOMAIN claims' = Claims  BY DEF TypeOK
<1>2. ASSUME NEW k \in Claims, claims'[k].state = "live", claims'[k].busy
      PROVE  \E t \in Tasks : Running(t)' /\ tasks'[t].op = "complete" /\ tasks'[t].key = k
  <2>1. PICK t \in Tasks : Running(t) /\ tasks[t].op = "complete" /\ tasks[t].key = k
    BY <1>1, <1>2 DEF BusyHasCall
  <2> QED  BY <1>2, <2>1
<1> QED  BY <1>1, <1>2 DEF BusyHasCall

LEMMA BusyStep ==
    ASSUME "abandon" \notin Faults, PendingInv, BusyHasCall, [Next]_vars  PROVE BusyHasCall'
<1> USE DEF Running, Used
<1>1. TypeOK /\ Serial /\ ClaimsTaken /\ TypeOK'  BY TypeStep DEF PendingInv
<1> DEFINE Marked(k) == claims[k].state = "live" /\ claims[k].busy
           MarkedNext(k) == claims'[k].state = "live" /\ claims'[k].busy
           Same(t) == tasks'[t].pc \in {"taken", "write", "written", "unwritten"} /\ tasks'[t].op = tasks[t].op
                      /\ tasks'[t].key = tasks[t].key
<1>2. ASSUME claims' \in {claims, Pruned(claims)}  PROVE \A k \in Claims : MarkedNext(k) => Marked(k)
  BY <1>1, <1>2, PrunedClaims
<1>3. CASE Table
  <2>1. tasks' = tasks
    BY <1>3 DEF Table, CreateCode, CreateClaim, Poll, Lapse
  <2>2. \A k \in Claims : MarkedNext(k) => Marked(k)
    <3>1. ASSUME NEW c \in Codes, NEW u \in Users, CreateCode(c, u)  PROVE claims' = Pruned(claims)
      BY <3>1 DEF CreateCode, PruneClaims
    <3>2. ASSUME NEW k \in Claims, NEW d \in Devices, CreateClaim(k, d)
          PROVE  \A x \in Claims : MarkedNext(x) => Marked(x)
      <4> DEFINE new(r) == [r EXCEPT !.state = "live", !.dev = d]
      <4>1. \A r \in Claim : new(r).busy = r.busy  BY DEF Claim
      <4>2. claims' = [Pruned(claims) EXCEPT ![k] = new(Pruned(claims)[k])] /\ claims[k].state = "unused"
        BY <3>2 DEF CreateClaim
      <4>3. ~claims[k].busy  BY <1>1, <4>2 DEF ClaimsTaken, ClaimRecords
      <4> HIDE DEF new
      <4>4. \A x \in Claims : x # k => claims'[x] = Pruned(claims)[x]  BY <1>1, <4>2, PrunedClaims
      <4>5. claims'[k].busy = Pruned(claims)[k].busy  BY <1>1, <4>1, <4>2, PrunedClaims
      <4> QED  BY <1>1, <4>3, <4>4, <4>5, PrunedClaims
    <3>3. ASSUME NEW k \in Claims, Poll(k)  PROVE \A x \in Claims : MarkedNext(x) => Marked(x)
      <4> DEFINE new(r) == [r EXCEPT !.polled = PolledOut(k)]
      <4>1. \A r \in Claim : new(r).busy = r.busy /\ new(r).state = r.state  BY DEF Claim
      <4>2. claims' = [Pruned(claims) EXCEPT ![k] = new(Pruned(claims)[k])]  BY <3>3 DEF Poll
      <4> HIDE DEF new
      <4>3. \A x \in Claims : claims'[x].busy = Pruned(claims)[x].busy /\ claims'[x].state = Pruned(claims)[x].state
        BY <1>1, <4>1, <4>2, PrunedClaims
      <4> QED  BY <1>1, <4>3, PrunedClaims
    <3>4. ASSUME Lapse  PROVE \A x \in Claims : MarkedNext(x) => Marked(x)
      <4> DEFINE new(r) == [r EXCEPT !.old = TRUE]
      <4>1. \A r \in Claim : new(r).busy = r.busy /\ new(r).state = r.state  BY DEF Claim
      <4>2. claims' = claims \/ \E k \in Live(claims) : claims' = [claims EXCEPT ![k] = new(claims[k])]
        BY <3>4 DEF Lapse
      <4>3. claims \in [Claims -> Claim] /\ Live(claims) \in SUBSET Claims  BY <1>1 DEF TypeOK, Live
      <4> HIDE DEF new
      <4> QED  BY <4>1, <4>2, <4>3
    <3> QED  BY <1>2, <1>3, <3>1, <3>2, <3>3, <3>4 DEF Table
  <2> QED  BY <1>1, <2>1, <2>2, BusyKept
<1>4. ASSUME NEW t \in Tasks, Others(t), claims' \in {claims, Pruned(claims)},
             ~(Running(t) /\ tasks[t].op = "complete") \/ Same(t)
      PROVE  BusyHasCall'
  BY <1>1, <1>2, <1>4, BusyKept DEF Others
<1>5. ASSUME NEW t \in Tasks, NEW c \in Codes, NEW d \in Devices, PairTake(t, c, d)  PROVE BusyHasCall'
  BY <1>1, <1>4, <1>5, TakeMoves DEF PairTake, PruneClaims, Starts
<1>6. ASSUME NEW t \in Tasks, PairIssue(t)  PROVE BusyHasCall'
  <2>1. /\ Issue(t, "pair", tasks[t].dev, tasks[t].user, tasks[t].key) /\ tasks[t].pc = "taken"
        /\ claims' = claims
    BY <1>6 DEF PairIssue, pending
  <2> QED  BY <1>1, <1>4, <2>1, IssueMoves DEF Serial
<1>7. ASSUME NEW t \in Tasks, NEW k \in Claims, NEW u \in Users, Complete(t, k, u)  PROVE BusyHasCall'
  <2> DEFINE new(r) == [r EXCEPT !.busy = TRUE]
  <2>1. claims' = [Pruned(claims) EXCEPT ![k] = new(Pruned(claims)[k])] /\ holder = None
        /\ Issue(t, "complete", claims[k].dev, u, k)
    BY <1>7 DEF Complete, Starts, Free
  <2> HIDE DEF new
  <2>2. \A x \in Claims : x # k => claims'[x] = Pruned(claims)[x]  BY <1>1, <2>1, PrunedClaims
  <2>3. \A x \in Claims : ~Marked(x)
    BY <1>1, <2>1 DEF BusyHasCall, Serial, TypeOK
  <2>4. \A x \in Claims : MarkedNext(x) => x = k
    BY <1>1, <2>2, <2>3, PrunedClaims
  <2>5. tasks'[t].pc = "write" /\ tasks'[t].op = "complete" /\ tasks'[t].key = k
    BY <1>1, <2>1, IssueMoves
  <2>6. DOMAIN claims' = Claims  BY <1>1 DEF TypeOK
  <2> QED  BY <2>4, <2>5, <2>6 DEF BusyHasCall
<1>8. ASSUME NEW t \in Tasks, NEW k \in Claims, NEW u \in Users, CompleteRefused(t, k, u)  PROVE BusyHasCall'
  BY <1>1, <1>4, <1>8, RefusedMoves DEF CompleteRefused, PruneClaims, Starts
<1>9. ASSUME NEW t \in Tasks, NEW d \in Devices, Delete(t, d)  PROVE BusyHasCall'
  BY <1>1, <1>4, <1>9, DeleteMoves DEF Delete, pending, Starts
<1>10. ASSUME NEW t \in Tasks, NEW d \in Devices, DeleteRefused(t, d)  PROVE BusyHasCall'
  BY <1>1, <1>4, <1>10, RefusedMoves DEF DeleteRefused, pending, Starts
<1>11. ASSUME NEW t \in Tasks, Write(t) \/ WriteFails(t)  PROVE BusyHasCall'
  <2>1. claims' = claims /\ (Goto(t, "written") \/ Goto(t, "unwritten"))
    BY <1>11 DEF Write, WriteFails, pending
  <2> QED  BY <1>1, <1>4, <2>1, GotoMoves
<1>12. ASSUME NEW t \in Tasks, PairRefused(t)  PROVE BusyHasCall'
  <2>1. claims' = claims /\ End(t, "refused") /\ tasks[t].pc = "taken"  BY <1>12 DEF PairRefused
  <2> QED  BY <1>1, <1>4, <2>1, EndMoves DEF Serial
<1>13. ASSUME NEW t \in Tasks, Answer(t) \/ Rollback(t)  PROVE BusyHasCall'
  <2>1. /\ End(t, "ok") \/ End(t, "refused")
        /\ tasks[t].pc \in {"written", "unwritten"}
    BY <1>13 DEF Answer, Rollback
  <2>2. \A s \in Tasks : s # t => tasks'[s] = tasks[s]  BY <1>1, <2>1, EndMoves DEF Others
  <2>3. CASE tasks[t].op = "complete"
    <3> DEFINE k == tasks[t].key
               new(r) == [r EXCEPT !.token = t, !.busy = FALSE]
               old(r) == [r EXCEPT !.busy = FALSE]
    <3>1. \A r \in Claim : ~new(r).busy /\ ~old(r).busy  BY DEF Claim
    <3>2. \/ claims[k].state = "live" /\ claims' = [claims EXCEPT ![k] = new(claims[k])]
          \/ claims[k].state = "live" /\ claims' = [claims EXCEPT ![k] = old(claims[k])]
          \/ claims[k].state # "live" /\ claims' = claims
      BY <1>13, <2>3 DEF Answer, Rollback, BusyAfter
    <3>3. k \in Claims /\ claims \in [Claims -> Claim]  BY <1>1, <2>1, <2>3 DEF Serial, TypeOK
    <3> HIDE DEF new, old
    <3>4. ~MarkedNext(k) /\ \A x \in Claims : x # k => claims'[x] = claims[x]
      BY <3>1, <3>2, <3>3
    <3> QED  BY <1>1, <2>2, <3>3, <3>4, BusyKept
  <2>4. CASE tasks[t].op # "complete"
    <3>1. \A k \in Claims : MarkedNext(k) => Marked(k)
      <4> DEFINE left(k) == IF claims[k].dev = tasks[t].dev /\ claims[k].state = "live"
                            THEN [claims[k] EXCEPT !.state = "gone"] ELSE claims[k]
      <4>1. claims' = claims \/ claims' = [k \in Claims |-> left(k)]
        BY <1>13, <2>4 DEF Answer, Rollback
      <4>2. ASSUME NEW k \in Claims  PROVE left(k) = claims[k] \/ left(k).state = "gone"
        BY <1>1, ClaimGone DEF TypeOK
      <4> HIDE DEF left
      <4> QED  BY <4>1, <4>2
    <3> QED  BY <1>1, <2>2, <2>4, <3>1, BusyKept
  <2> QED  BY <2>3, <2>4
<1>14. ASSUME NEW s \in renaming, Rename(s)  PROVE BusyHasCall'
  BY <1>1, <1>2, <1>14, BusyKept DEF Rename, pending
<1>15. CASE Restart
  <2>1. \A k \in Claims : ~MarkedNext(k)
    <3> DEFINE left(k) == IF claims[k].state = "live" THEN [claims[k] EXCEPT !.state = "gone"] ELSE claims[k]
    <3>1. claims' = [k \in Claims |-> left(k)]  BY <1>15 DEF Restart
    <3>2. \A k \in Claims : left(k).state # "live"  BY <1>1, ClaimGone DEF TypeOK
    <3> HIDE DEF left
    <3> QED  BY <3>1, <3>2
  <2> QED  BY <1>1, <2>1 DEF BusyHasCall, TypeOK
<1>16. CASE UNCHANGED vars
  BY <1>1, <1>2, <1>16, BusyKept DEF vars
<1>17. ASSUME NEW t \in Tasks, Abandon(t)  PROVE FALSE
  BY <1>17 DEF Abandon
<1> QED  BY <1>3, <1>5, <1>6, <1>7, <1>8, <1>9, <1>10, <1>11, <1>12, <1>13, <1>14, <1>15, <1>16, <1>17
         DEF Next, Start, Continue

\* A pairing code pairs once and the tokens of a claim go out once, also to
\* clients that hang up: pair_device and poll_device_claim take what they use
\* under one acquisition of the lock.
THEOREM PairsAndHandsOutOnce == Spec => [](CodeOnce /\ ClaimOnce)
BY PendingInit, PendingStep, UsedApart, PTL DEF Spec

\* And no claim is left marked as being completed by nobody, which would keep
\* it from being completed again, while no client hangs up.
THEOREM CodesAndClaimsAreUsedOnce == ASSUME "abandon" \notin Faults PROVE Spec => []UsedOnce
<1> DEFINE Inv == PendingInv /\ BusyHasCall
<1>1. Init => Inv  BY PendingInit DEF Init, BusyHasCall
<1>2. Inv /\ [Next]_vars => Inv'  BY PendingStep, BusyStep
<1>3. Inv => UsedOnce  BY UsedApart DEF UsedOnce
<1> QED  BY <1>1, <1>2, <1>3, PTL DEF Spec

-----------------------------------------------------------------------------
(* The bytes of claims.                                                     *)

LEMMA SameLive ==
    ASSUME ClaimBytesMatch, Live(claims') = Live(claims), claimBytes' = claimBytes
    PROVE  ClaimBytesMatch'
BY DEF ClaimBytesMatch, Bytes

LEMMA CountedLive ==
    ASSUME NEW cs, Live(claims') = Live(cs), claimBytes' = Bytes(cs)
    PROVE  ClaimBytesMatch'
BY DEF ClaimBytesMatch, Bytes

\* Changing one entry, but not its state, changes no set of live entries.
LEMMA LiveKept ==
    ASSUME NEW cs \in [Claims -> Claim], NEW k \in Claims, NEW r, r.state = cs[k].state
    PROVE  Live([cs EXCEPT ![k] = r]) = Live(cs)
BY DEF Live

LEMMA BytesStep == PendingInv /\ ClaimBytesMatch /\ [Next]_vars => ClaimBytesMatch'
<1> SUFFICES ASSUME PendingInv, ClaimBytesMatch, [Next]_vars  PROVE ClaimBytesMatch'
  OBVIOUS
<1>1. TypeOK /\ Serial /\ TypeOK' /\ claims \in [Claims -> Claim] /\ Pruned(claims) \in [Claims -> Claim]
  BY TypeStep, PrunedClaims DEF PendingInv, TypeOK
<1> USE DEF BytesLeft
<1>2. ASSUME NEW c \in Codes, NEW u \in Users, CreateCode(c, u)  PROVE ClaimBytesMatch'
  BY <1>2, CountedLive DEF CreateCode, PruneClaims
<1>3. ASSUME NEW k \in Claims, NEW d \in Devices, CreateClaim(k, d)  PROVE ClaimBytesMatch'
  <2> DEFINE cs == Pruned(claims)
             r == [cs[k] EXCEPT !.state = "live", !.dev = d]
  <2>1. r.state = "live" /\ cs[k].state # "live"
    <3>1. cs[k] \in Claim /\ claims[k].state = "unused" BY <1>1, <1>3 DEF CreateClaim
    <3>2. cs[k].state # "live"  BY <1>1, <3>1, PrunedClaims
    <3> QED  BY <3>1, <3>2 DEF Claim
  <2>2. claims' = [cs EXCEPT ![k] = r] /\ claimBytes' = Bytes(cs) + SizeOf[k]
    BY <1>3 DEF CreateClaim
  <2> HIDE DEF r
  <2>3. Live(claims') = Live(cs) \cup {k} /\ k \notin Live(cs) /\ Live(cs) \in SUBSET Claims
    BY <1>1, <2>1, <2>2 DEF Live
  <2>4. IsFiniteSet(Live(cs)) /\ \A x \in Live(cs) : SizeOf[x] \in Nat  BY <2>3, FS_Subset
  <2>5. TotalBytes(SizeOf, Live(cs) \cup {k}) = TotalBytes(SizeOf, Live(cs)) + SizeOf[k]
    BY <2>3, <2>4, BytesAdded
  <2> QED  BY <2>2, <2>3, <2>5 DEF ClaimBytesMatch, Bytes
<1>4. ASSUME NEW k \in Claims, Poll(k)  PROVE ClaimBytesMatch'
  <2> DEFINE cs == Pruned(claims)
             r == [cs[k] EXCEPT !.polled = PolledOut(k)]
  <2>1. r.state = cs[k].state  BY <1>1 DEF Claim
  <2>2. claims' = [cs EXCEPT ![k] = r] /\ claimBytes' = Bytes(cs)  BY <1>4 DEF Poll
  <2> HIDE DEF r, cs
  <2> QED  BY <1>1, <2>1, <2>2, LiveKept, CountedLive DEF cs
<1>5. CASE Lapse
  <2> DEFINE new(k) == [claims[k] EXCEPT !.old = TRUE]
  <2>1. claims' = claims \/ \E k \in Live(claims) : claims' = [claims EXCEPT ![k] = new(k)]
    BY <1>5 DEF Lapse
  <2>2. \A k \in Claims : new(k).state = claims[k].state
    BY <1>1 DEF Claim
  <2>4. Live(claims) \in SUBSET Claims  BY <1>1 DEF Live
  <2> HIDE DEF new
  <2>5. ASSUME NEW k \in Live(claims), claims' = [claims EXCEPT ![k] = new(k)]  PROVE Live(claims') = Live(claims)
    BY <1>1, <2>2, <2>4, <2>5, LiveKept
  <2>3. Live(claims') = Live(claims)  BY <2>1, <2>5
  <2> QED  BY <1>5, <2>3, SameLive DEF Lapse
<1>6. ASSUME NEW t \in Tasks, NEW c \in Codes, NEW d \in Devices, PairTake(t, c, d)  PROVE ClaimBytesMatch'
  BY <1>6, CountedLive DEF PairTake, PruneClaims
<1>7. ASSUME NEW t \in Tasks, NEW k \in Claims, NEW u \in Users, Complete(t, k, u)  PROVE ClaimBytesMatch'
  <2> DEFINE cs == Pruned(claims)
             r == [cs[k] EXCEPT !.busy = TRUE]
  <2>1. r.state = cs[k].state  BY <1>1 DEF Claim
  <2>2. claims' = [cs EXCEPT ![k] = r] /\ claimBytes' = Bytes(cs)  BY <1>7 DEF Complete
  <2> HIDE DEF r, cs
  <2> QED  BY <1>1, <2>1, <2>2, LiveKept, CountedLive DEF cs
<1>8. ASSUME NEW t \in Tasks, NEW k \in Claims, NEW u \in Users, CompleteRefused(t, k, u)  PROVE ClaimBytesMatch'
  BY <1>8, CountedLive DEF CompleteRefused, PruneClaims
<1>9. ASSUME NEW t \in Tasks, Answer(t)  PROVE ClaimBytesMatch'
  <2>1. CASE tasks[t].op = "delete"
    BY <1>9, <2>1 DEF Answer, ClaimBytesMatch
  <2>2. CASE tasks[t].op = "complete"
    <3> DEFINE k == tasks[t].key
               r == [claims[k] EXCEPT !.token = t, !.busy = FALSE]
    <3>1. k \in Claims  BY <1>1, <1>9, <2>2 DEF Serial, Answer, Used, Running
    <3>2. r.state = claims[k].state  BY <1>1, <3>1 DEF Claim
    <3>3. claims' \in {claims, [claims EXCEPT ![k] = r]} /\ claimBytes' = claimBytes
      BY <1>9, <2>2 DEF Answer
    <3> HIDE DEF r
    <3> QED  BY <1>1, <3>1, <3>2, <3>3, LiveKept, SameLive
  <2>3. CASE tasks[t].op \notin {"delete", "complete"}
    BY <1>9, <2>3, SameLive DEF Answer
  <2> QED  BY <2>1, <2>2, <2>3
<1>10. ASSUME NEW t \in Tasks, Rollback(t)  PROVE ClaimBytesMatch'
  <2> DEFINE k == tasks[t].key
             r == [claims[k] EXCEPT !.busy = FALSE]
  <2>1. claims' # claims => k \in Claims  BY <1>1, <1>10 DEF Serial, Rollback, Used, Running
  <2>2. k \in Claims => r.state = claims[k].state  BY <1>1 DEF Claim
  <2>3. claims' \in {claims, [claims EXCEPT ![k] = r]} /\ claimBytes' = claimBytes
    BY <1>10 DEF Rollback, BusyAfter
  <2> HIDE DEF r
  <2> QED  BY <1>1, <2>1, <2>2, <2>3, LiveKept, SameLive
<1>11. CASE Restart
  <2>1. Live(claims') = {}
    <3> DEFINE left(k) == IF claims[k].state = "live" THEN [claims[k] EXCEPT !.state = "gone"] ELSE claims[k]
    <3>1. claims' = [k \in Claims |-> left(k)]  BY <1>11 DEF Restart
    <3>2. \A k \in Claims : left(k).state # "live"  BY <1>1, ClaimGone
    <3> HIDE DEF left
    <3> QED  BY <3>1, <3>2 DEF Live
  <2>2. claimBytes' = 0  BY <1>11 DEF Restart
  <2> QED  BY <2>1, <2>2, BytesOfNone DEF ClaimBytesMatch, Bytes
<1>12. CASE claims' = claims /\ claimBytes' = claimBytes
  BY <1>12, SameLive
<1> QED  BY <1>2, <1>3, <1>4, <1>5, <1>6, <1>7, <1>8, <1>9, <1>10, <1>11, <1>12
         DEF Next, Table, Start, Continue, PairIssue, PairRefused, Delete, DeleteRefused, Write, WriteFails,
             Abandon, Rename, pending, vars

\* The bytes counted against MAX_PENDING_DEVICE_CLAIM_BYTES are those of the
\* claims there are, whoever completes, drops or lets expire which of them.
THEOREM ClaimBytesAreCounted == Spec => []ClaimBytesMatch
<1> DEFINE Inv == PendingInv /\ ClaimBytesMatch
<1>1. Init => Inv
  <2>1. Init => Live(claims) = {} /\ claimBytes = 0  BY DEF Init, Live
  <2> QED  BY <2>1, PendingInit, BytesOfNone DEF ClaimBytesMatch, Bytes
<1>2. Inv /\ [Next]_vars => Inv'  BY PendingStep, BytesStep
<1> QED  BY <1>1, <1>2, PTL DEF Spec

-----------------------------------------------------------------------------
(* Devices and their tokens.                                                *)

\* A device more, or less, and the caps.
LEMMA WithinAdded ==
    ASSUME devices \in Registry, Within(devices), NEW d \in Devices, NEW u \in Users, NEW t \in Tasks, MayPair(d, u)
    PROVE  Within([devices EXCEPT ![d] = [owner |-> u, token |-> t]])
<1> DEFINE ds == [devices EXCEPT ![d] = [owner |-> u, token |-> t]]
<1>1. /\ ds \in [Devices -> Record \cup {NoDevice}] /\ ds[d].owner = u /\ Paired(ds[d])
      /\ \A e \in Devices : e # d => ds[e] = devices[e]
  BY DEF Registry, Record, Paired, NoDevice
<1>2. /\ PairedIn(devices) \in SUBSET Devices /\ IsFiniteSet(PairedIn(devices))
      /\ \A v \in Users : OwnedIn(devices, v) \in SUBSET Devices /\ IsFiniteSet(OwnedIn(devices, v))
  <2>1. PairedIn(devices) \in SUBSET Devices /\ \A v \in Users : OwnedIn(devices, v) \in SUBSET Devices
    BY DEF PairedIn, OwnedIn
  <2> QED  BY <2>1, FS_Subset
<1>3. DeviceCap \in Nat /\ UserCap \in Nat  OBVIOUS
<1> HIDE DEF ds
<1>4. CASE Paired(devices[d])
  <2>1. devices[d].owner = u  BY <1>4 DEF MayPair
  <2>2. PairedIn(ds) = PairedIn(devices) /\ \A v \in Users : OwnedIn(ds, v) = OwnedIn(devices, v)
    BY <1>1, <1>4, <2>1 DEF PairedIn, OwnedIn
  <2> QED  BY <2>2 DEF Within, ds
<1>5. CASE ~Paired(devices[d])
  <2>1. devices[d].owner = None /\ Cardinality(PairedIn(devices)) < DeviceCap /\ Cardinality(OwnedIn(devices, u)) < UserCap
    BY <1>5 DEF MayPair, Paired, NoDevice
  <2>2. /\ PairedIn(ds) = PairedIn(devices) \cup {d} /\ d \notin PairedIn(devices)
        /\ OwnedIn(ds, u) = OwnedIn(devices, u) \cup {d} /\ d \notin OwnedIn(devices, u)
        /\ \A v \in Users : v # u => OwnedIn(ds, v) = OwnedIn(devices, v)
    BY <1>1, <1>5, <2>1 DEF PairedIn, OwnedIn
  <2>3. /\ Cardinality(PairedIn(ds)) = Cardinality(PairedIn(devices)) + 1
        /\ Cardinality(OwnedIn(ds, u)) = Cardinality(OwnedIn(devices, u)) + 1
        /\ Cardinality(PairedIn(devices)) \in Nat /\ Cardinality(OwnedIn(devices, u)) \in Nat
    BY <1>2, <2>2, FS_AddElement, FS_CardinalityType, ZenonT(60)
  <2>4. Cardinality(PairedIn(ds)) <= DeviceCap /\ Cardinality(OwnedIn(ds, u)) <= UserCap
    BY <1>3, <2>1, <2>3
  <2> QED  BY <2>2, <2>4 DEF Within, ds
<1> QED  BY <1>4, <1>5

LEMMA WithinRemoved ==
    ASSUME devices \in Registry, Within(devices), NEW d \in Devices
    PROVE  Within([devices EXCEPT ![d] = NoDevice])
<1> DEFINE ds == [devices EXCEPT ![d] = NoDevice]
<1>1. /\ ds \in [Devices -> Record \cup {NoDevice}] /\ ds[d] = NoDevice
      /\ \A e \in Devices : e # d => ds[e] = devices[e]
  BY DEF Registry
<1> HIDE DEF ds
<1>2. /\ PairedIn(ds) \in SUBSET PairedIn(devices)
      /\ \A v \in Users : OwnedIn(ds, v) \in SUBSET OwnedIn(devices, v)
  BY <1>1 DEF PairedIn, OwnedIn, Paired, NoDevice
<1>3. IsFiniteSet(PairedIn(devices)) /\ \A v \in Users : IsFiniteSet(OwnedIn(devices, v))
  <2>1. PairedIn(devices) \in SUBSET Devices /\ \A v \in Users : OwnedIn(devices, v) \in SUBSET Devices
    BY DEF PairedIn, OwnedIn
  <2> QED  BY <2>1, FS_Subset
<1>4. Cardinality(PairedIn(ds)) <= Cardinality(PairedIn(devices))
      /\ Cardinality(PairedIn(ds)) \in Nat /\ Cardinality(PairedIn(devices)) \in Nat
  BY <1>2, <1>3, FS_Subset, FS_CardinalityType
<1>5. ASSUME NEW v \in Users
      PROVE  /\ Cardinality(OwnedIn(ds, v)) <= Cardinality(OwnedIn(devices, v))
             /\ Cardinality(OwnedIn(ds, v)) \in Nat /\ Cardinality(OwnedIn(devices, v)) \in Nat
  BY <1>2, <1>3, FS_Subset, FS_CardinalityType
<1>6. DeviceCap \in Nat /\ UserCap \in Nat  OBVIOUS
<1>7. Cardinality(PairedIn(ds)) <= DeviceCap  BY <1>4, <1>6 DEF Within
<1>8. ASSUME NEW v \in Users  PROVE Cardinality(OwnedIn(ds, v)) <= UserCap
  BY <1>5, <1>6 DEF Within
<1> QED  BY <1>7, <1>8 DEF Within, ds

\* The state of devices that steps of other calls leave alone.
LEMMA RegistryKept ==
    ASSUME RegistryInv, UNCHANGED <<memory, written, file>>,
           \A t \in Tasks :
               /\ Tokenless(t)' => Tokenless(t)
               /\ Changing(t)' => /\ Changing(t) /\ tasks'[t].dev = tasks[t].dev
                                  /\ tasks'[t].old = tasks[t].old /\ tasks'[t].snapshot = tasks[t].snapshot
    PROVE  RegistryInv'
<1>1. TokensMatch /\ AllClean /\ Fresh /\ InForce /\ written <= revision  BY DEF RegistryInv
<1>2. TokensMatch' /\ AllClean' /\ written' <= revision'
  BY <1>1, SMTT(60) DEF TokensMatch, AllClean, Clean, OneToOne, Within, PairedIn, OwnedIn, memory, file
<1>3. Fresh'  BY <1>1 DEF Fresh, Unissued, memory, file
<1>4. ASSUME NEW t \in Tasks, Changing(t)'
      PROVE  /\ tasks'[t].snapshot = Snapshot(devices, revision)' /\ revision' > written'
             /\ devices'[tasks'[t].dev] \in {NoDevice} \cup [owner : Users, token : {t}]
             /\ Clean(RolledBack(t))' /\ Unissued(t, RolledBack(t))'
  <2>1. RolledBack(t)' = RolledBack(t)  BY <1>4 DEF RolledBack, memory
  <2>2. Changing(t)  BY <1>4
  <2> QED  BY <1>1, <1>4, <2>1, <2>2 DEF InForce, Clean, Unissued, OneToOne, Within, PairedIn, OwnedIn, Snapshot, memory
<1>5. InForce'  BY <1>4 DEF InForce
<1> QED  BY <1>2, <1>3, <1>5 DEF RegistryInv

\* When nobody holds the lock, no call is changing devices.
LEMMA Quiet == PendingInv /\ holder = None => \A t \in Tasks : ~Changing(t)
BY DEF PendingInv, Serial, Changing, Running

LEMMA IssueKeeps ==
    ASSUME PendingInv, RegistryInv, NEW t \in Tasks, NEW op \in {"pair", "complete"}, NEW d \in Devices,
           NEW u \in Users, NEW k, Issue(t, op, d, u, k), MayPair(d, u), Tokenless(t),
           \A s \in Tasks : ~Changing(s), UNCHANGED <<written, file>>
    PROVE  RegistryInv'
<1>1. /\ TypeOK /\ TokensMatch /\ AllClean /\ Fresh /\ written <= revision
      /\ devices \in Registry /\ revision \in Nat /\ written \in Nat
  BY DEF PendingInv, RegistryInv, TypeOK
<1>2. /\ devices' = [devices EXCEPT ![d] = [owner |-> u, token |-> t]] /\ revision' = revision + 1
      /\ tokens' = [s \in Tasks |-> IF s = t THEN d ELSE IF s = devices[d].token THEN None ELSE tokens[s]]
      /\ disk' = disk /\ renaming' = renaming /\ written' = written
  BY DEF Issue, file
<1>3. /\ devices'[d] = [owner |-> u, token |-> t]
      /\ \A e \in Devices : e # d => devices'[e] = devices[e]
  BY <1>1, <1>2 DEF Registry
<1>4. Unissued(t, devices)  BY <1>1 DEF Fresh
<1>5. TokensMatch'
  <2>1. \A s \in Tasks, e \in Devices : tokens[s] = e <=> devices[e].token = s  BY <1>1 DEF TokensMatch
  <2>2. OneToOne(devices)  BY <1>1 DEF AllClean, Clean
  <2>3. ASSUME NEW s \in Tasks, NEW e \in Devices  PROVE tokens'[s] = e <=> devices'[e].token = s
    <3>1. CASE s = t  BY <1>2, <1>3, <1>4, <3>1 DEF Unissued
    <3>2. CASE s # t /\ s = devices[d].token
      <4>1. tokens'[s] = None /\ None # e /\ s # None  BY <1>2, <3>2
      <4>2. e # d => devices[e].token # s  BY <2>2, <3>2, <4>1 DEF OneToOne
      <4> QED  BY <1>3, <3>2, <4>1, <4>2
    <3>3. CASE s # t /\ s # devices[d].token
      BY <1>2, <1>3, <2>1, <3>3
    <3> QED  BY <3>1, <3>2, <3>3
  <2> QED  BY <2>3 DEF TokensMatch
<1>6. AllClean'
  <2>1. OneToOne(devices')  BY <1>1, <1>3, <1>4 DEF AllClean, Clean, OneToOne, Unissued
  <2>2. Within(devices')  BY <1>1, <1>2, WithinAdded DEF AllClean, Clean
  <2> QED  BY <1>1, <1>2, <2>1, <2>2 DEF AllClean, Clean, OneToOne, Within, PairedIn, OwnedIn
<1>7. /\ Others(t) /\ tasks'[t].pc = "write" /\ tasks'[t].op = op /\ tasks'[t].dev = d
      /\ tasks'[t].old = devices[d] /\ tasks'[t].snapshot = Snapshot(devices', revision')
  BY <1>1, IssueMoves
<1>8. \A s \in Tasks : Changing(s)' => s = t  BY <1>7 DEF Others, Changing
<1>9. Fresh'
  <2>1. ASSUME NEW s \in Tasks, Tokenless(s)'
        PROVE  /\ Unissued(s, devices)' /\ Unissued(s, disk.devices)'
               /\ \A x \in renaming' : Unissued(s, x.devices)'
               /\ \A x \in Tasks : Changing(x)' => tasks'[x].old.token # s
    <3>1. s # t /\ Tokenless(s)  BY <1>7, <2>1 DEF Others, Tokenless, Changing
    <3>2. Unissued(s, devices) /\ Unissued(s, disk.devices) /\ \A x \in renaming : Unissued(s, x.devices)
      BY <1>1, <3>1 DEF Fresh
    <3>3. Unissued(s, devices)'  BY <1>3, <3>1, <3>2 DEF Unissued
    <3>4. \A x \in Tasks : Changing(x)' => tasks'[x].old.token # s
      BY <1>7, <1>8, <3>2 DEF Unissued
    <3> QED  BY <1>2, <3>2, <3>3, <3>4 DEF Unissued
  <2> QED  BY <2>1 DEF Fresh
<1>10. RolledBack(t)' = devices
  BY <1>1, <1>2, <1>7 DEF RolledBack, Registry
<1>11. /\ tasks'[t].snapshot = Snapshot(devices, revision)' /\ revision' > written'
       /\ devices'[tasks'[t].dev] \in {NoDevice} \cup [owner : Users, token : {t}]
       /\ Clean(RolledBack(t))' /\ Unissued(t, RolledBack(t))'
  <2>1. tasks'[t].snapshot = Snapshot(devices, revision)'  BY <1>7 DEF Snapshot
  <2>2. revision' > written'  BY <1>1, <1>2
  <2>3. Clean(RolledBack(t))'
    BY <1>1, <1>10 DEF AllClean, Clean, OneToOne, Within, PairedIn, OwnedIn
  <2>4. Unissued(t, RolledBack(t))'  BY <1>4, <1>10 DEF Unissued
  <2> QED  BY <1>3, <1>7, <2>1, <2>2, <2>3, <2>4
<1>12. InForce'  BY <1>8, <1>11 DEF InForce
<1>13. written' <= revision'  BY <1>1, <1>2
<1> QED  BY <1>5, <1>6, <1>9, <1>12, <1>13 DEF RegistryInv

LEMMA DeleteKeeps ==
    ASSUME PendingInv, RegistryInv, NEW t \in Tasks, NEW d \in Devices, Delete(t, d)
    PROVE  RegistryInv'
<1>1. /\ TypeOK /\ TokensMatch /\ AllClean /\ Fresh /\ written <= revision
      /\ devices \in Registry /\ revision \in Nat /\ written \in Nat /\ tokens \in [Tasks -> Devices \cup {None}]
  BY DEF PendingInv, RegistryInv, TypeOK
<1>2. /\ devices' = [devices EXCEPT ![d] = NoDevice] /\ revision' = revision + 1
      /\ tokens' = [tokens EXCEPT ![devices[d].token] = None]
      /\ disk' = disk /\ renaming' = renaming /\ written' = written
      /\ tasks[t].pc = "idle" /\ holder = None /\ devices[d] \in Record
  BY <1>1 DEF Delete, file, NextRevision, Starts, Free, Paired, Registry
<1>3. devices'[d] = NoDevice /\ \A e \in Devices : e # d => devices'[e] = devices[e]
  BY <1>1, <1>2 DEF Registry
<1>4. Unissued(t, devices) /\ Tokenless(t)  BY <1>1, <1>2 DEF Fresh, Tokenless
<1>5. TokensMatch'
  <2>1. \A s \in Tasks, e \in Devices : tokens[s] = e <=> devices[e].token = s  BY <1>1 DEF TokensMatch
  <2>2. OneToOne(devices) /\ devices[d].token \in Tasks  BY <1>1, <1>2 DEF AllClean, Clean, Record
  <2>3. ASSUME NEW s \in Tasks, NEW e \in Devices  PROVE tokens'[s] = e <=> devices'[e].token = s
    <3>1. CASE s = devices[d].token
      <4>1. tokens'[s] = None /\ None # e /\ s # None  BY <1>1, <1>2, <3>1
      <4>2. e # d => devices[e].token # s  BY <2>2, <3>1, <4>1 DEF OneToOne
      <4> QED  BY <1>3, <4>1, <4>2 DEF NoDevice
    <3>2. CASE s # devices[d].token
      <4>1. tokens'[s] = tokens[s] /\ None # s  BY <1>1, <1>2, <3>2
      <4> QED  BY <1>3, <2>1, <3>2, <4>1 DEF NoDevice
    <3> QED  BY <3>1, <3>2
  <2> QED  BY <2>3 DEF TokensMatch
<1>6. AllClean'
  <2>1. OneToOne(devices')  BY <1>1, <1>3 DEF AllClean, Clean, OneToOne, NoDevice
  <2>2. Within(devices')  BY <1>1, <1>2, WithinRemoved DEF AllClean, Clean
  <2> QED  BY <1>1, <1>2, <2>1, <2>2 DEF AllClean, Clean, OneToOne, Within, PairedIn, OwnedIn
<1>7. /\ Others(t) /\ tasks'[t].pc = "write" /\ tasks'[t].op = "delete" /\ tasks'[t].dev = d
      /\ tasks'[t].old = devices[d] /\ tasks'[t].snapshot = Snapshot(devices', revision')
  BY <1>1, DeleteMoves
<1>8. \A s \in Tasks : Changing(s)' => s = t
  BY <1>2, <1>7, Quiet DEF Others, Changing
<1>9. Fresh'
  <2>1. ASSUME NEW s \in Tasks, Tokenless(s)'
        PROVE  /\ Unissued(s, devices)' /\ Unissued(s, disk.devices)'
               /\ \A x \in renaming' : Unissued(s, x.devices)'
               /\ \A x \in Tasks : Changing(x)' => tasks'[x].old.token # s
    <3>1. Tokenless(s)  BY <1>4, <1>7, <2>1 DEF Others, Tokenless, Changing
    <3>2. Unissued(s, devices) /\ Unissued(s, disk.devices) /\ \A x \in renaming : Unissued(s, x.devices)
      BY <1>1, <3>1 DEF Fresh
    <3>3. Unissued(s, devices)'  BY <1>3, <3>2 DEF Unissued, NoDevice
    <3>4. \A x \in Tasks : Changing(x)' => tasks'[x].old.token # s
      BY <1>7, <1>8, <3>2 DEF Unissued
    <3> QED  BY <1>2, <3>2, <3>3, <3>4 DEF Unissued
  <2> QED  BY <2>1 DEF Fresh
<1>10. RolledBack(t)' = devices
  BY <1>1, <1>2, <1>7 DEF RolledBack, Registry
<1>11. /\ tasks'[t].snapshot = Snapshot(devices, revision)' /\ revision' > written'
       /\ devices'[tasks'[t].dev] \in {NoDevice} \cup [owner : Users, token : {t}]
       /\ Clean(RolledBack(t))' /\ Unissued(t, RolledBack(t))'
  <2>1. tasks'[t].snapshot = Snapshot(devices, revision)'  BY <1>7 DEF Snapshot
  <2>2. revision' > written'  BY <1>1, <1>2
  <2>3. Clean(RolledBack(t))'
    BY <1>1, <1>10 DEF AllClean, Clean, OneToOne, Within, PairedIn, OwnedIn
  <2>4. Unissued(t, RolledBack(t))'  BY <1>4, <1>10 DEF Unissued
  <2> QED  BY <1>3, <1>7, <2>1, <2>2, <2>3, <2>4
<1>12. InForce'  BY <1>8, <1>11 DEF InForce
<1>13. written' <= revision'  BY <1>1, <1>2
<1> QED  BY <1>5, <1>6, <1>9, <1>12, <1>13 DEF RegistryInv

\* The file becomes the snapshot of the holder of the lock, or stays.
LEMMA WriteKeeps ==
    ASSUME PendingInv, RegistryInv, NEW t \in Tasks, Write(t) \/ WriteFails(t)
    PROVE  RegistryInv'
<1>1. /\ TypeOK /\ Serial /\ TokensMatch /\ AllClean /\ Fresh /\ InForce /\ written <= revision
  BY DEF PendingInv, RegistryInv
<1>2. /\ devices' = devices /\ tokens' = tokens /\ revision' = revision /\ written' = written
      /\ renaming' = renaming /\ disk' \in {disk, tasks[t].snapshot} /\ tasks[t].pc = "write"
      /\ Goto(t, "written") \/ Goto(t, "unwritten")
  BY DEF Write, WriteFails, Failing, memory
<1>3. Changing(t) /\ tasks[t].snapshot.devices = devices
  BY <1>1, <1>2 DEF Changing, InForce, Snapshot
<1>4. disk'.devices \in {disk.devices, devices}  BY <1>2, <1>3
<1>5. /\ Others(t) /\ tasks'[t].pc \in {"written", "unwritten"} /\ tasks'[t].op = tasks[t].op
      /\ tasks'[t].dev = tasks[t].dev /\ tasks'[t].old = tasks[t].old /\ tasks'[t].snapshot = tasks[t].snapshot
  BY <1>1, <1>2, GotoMoves
<1>6. ASSUME NEW s \in Tasks
      PROVE  /\ Tokenless(s)' => Tokenless(s)
             /\ Changing(s)' => /\ Changing(s) /\ tasks'[s].dev = tasks[s].dev
                                /\ tasks'[s].old = tasks[s].old /\ tasks'[s].snapshot = tasks[s].snapshot
  BY <1>3, <1>5 DEF Others, Tokenless, Changing
<1>7. TokensMatch' /\ written' <= revision'  BY <1>1, <1>2 DEF TokensMatch
<1>8. AllClean'
  <2>1. Clean(disk.devices)'
    BY <1>1, <1>4, ZenonT(60) DEF AllClean, Clean, OneToOne, Within, PairedIn, OwnedIn
  <2> QED  BY <1>1, <1>2, <2>1 DEF AllClean, Clean, OneToOne, Within, PairedIn, OwnedIn
<1>9. Fresh'
  <2>1. ASSUME NEW s \in Tasks, Tokenless(s)'
        PROVE  /\ Unissued(s, devices)' /\ Unissued(s, disk.devices)'
               /\ \A x \in renaming' : Unissued(s, x.devices)'
               /\ \A x \in Tasks : Changing(x)' => tasks'[x].old.token # s
    <3>1. Tokenless(s)  BY <1>6, <2>1
    <3>2. /\ Unissued(s, devices) /\ Unissued(s, disk.devices) /\ \A x \in renaming : Unissued(s, x.devices)
          /\ \A x \in Tasks : Changing(x) => tasks[x].old.token # s
      BY <1>1, <3>1 DEF Fresh
    <3>3. Unissued(s, disk.devices)'  BY <1>4, <3>2 DEF Unissued
    <3> QED  BY <1>2, <1>6, <3>2, <3>3 DEF Unissued
  <2> QED  BY <2>1 DEF Fresh
<1>10. InForce'
  <2>1. ASSUME NEW s \in Tasks, Changing(s)'
        PROVE  /\ tasks'[s].snapshot = Snapshot(devices, revision)' /\ revision' > written'
               /\ devices'[tasks'[s].dev] \in {NoDevice} \cup [owner : Users, token : {s}]
               /\ Clean(RolledBack(s))' /\ Unissued(s, RolledBack(s))'
    <3>1. RolledBack(s)' = RolledBack(s)  BY <1>2, <1>6, <2>1 DEF RolledBack
    <3>2. Changing(s)  BY <1>6, <2>1
    <3> QED  BY <1>1, <1>2, <1>6, <2>1, <3>1, <3>2
             DEF InForce, Clean, Unissued, OneToOne, Within, PairedIn, OwnedIn, Snapshot
  <2> QED  BY <2>1 DEF InForce
<1> QED  BY <1>7, <1>8, <1>9, <1>10 DEF RegistryInv

\* The end of the call that holds the lock, with the devices it leaves.
LEMMA EndKeeps ==
    ASSUME PendingInv, PendingInv', RegistryInv, NEW t \in Tasks, Changing(t) \/ tasks[t].pc = "taken", Others(t),
           tasks'[t].pc \in {"ok", "refused", "lost"}, Release(t),
           UNCHANGED <<revision, disk>>, written' <= revision,
           \/ devices' = devices /\ tokens' = tokens
           \/ Changing(t) /\ devices' = RolledBack(t) /\ tokens' = TokensBack(t),
           renaming' \in {renaming, renaming \cup {Snapshot(devices, revision)}}
    PROVE  RegistryInv'
<1>1. /\ TypeOK /\ Serial /\ TokensMatch /\ AllClean /\ Fresh /\ InForce /\ written <= revision
      /\ devices \in Registry
  BY DEF PendingInv, RegistryInv, TypeOK
<1>2. holder' = None  BY <1>1 DEF Serial, Release, Changing, Running
<1>3. \A s \in Tasks : ~Changing(s)'
  BY <1>2 DEF PendingInv, Serial, Changing, Running
<1>4. InForce'  BY <1>3 DEF InForce
<1>5. Clean(devices')
  BY <1>1 DEF InForce, AllClean
<1>6. AllClean'
  <2>1. \A x \in renaming' : Clean(x.devices)
    BY <1>1 DEF AllClean, Snapshot
  <2> QED  BY <1>1, <1>5, <2>1 DEF AllClean, Clean, OneToOne, Within, PairedIn, OwnedIn
<1>7. Fresh'
  <2>1. ASSUME NEW s \in Tasks, Tokenless(s)'
        PROVE  /\ Unissued(s, devices)' /\ Unissued(s, disk.devices)'
               /\ \A x \in renaming' : Unissued(s, x.devices)'
    <3>1. s # t /\ Tokenless(s)  BY <1>3, <2>1 DEF Others, Tokenless, Changing
    <3>2. /\ Unissued(s, devices) /\ Unissued(s, disk.devices) /\ \A x \in renaming : Unissued(s, x.devices)
          /\ \A x \in Tasks : Changing(x) => tasks[x].old.token # s
      BY <1>1, <3>1 DEF Fresh
    <3>3. Changing(t) /\ devices' = RolledBack(t) => Unissued(s, devices')
      BY <1>1, <3>2 DEF Unissued, RolledBack, Registry
    <3>4. Unissued(s, devices)'  BY <3>2, <3>3 DEF Unissued
    <3>5. \A x \in renaming' : Unissued(s, x.devices)  BY <3>2 DEF Snapshot
    <3> QED  BY <3>2, <3>4, <3>5 DEF Unissued
  <2> QED  BY <1>3, <2>1 DEF Fresh
<1>8. TokensMatch'
  <2>1. CASE devices' = devices /\ tokens' = tokens  BY <1>1, <2>1 DEF TokensMatch
  <2>2. CASE Changing(t) /\ devices' = RolledBack(t) /\ tokens' = TokensBack(t)
    <3> DEFINE d == tasks[t].dev
               old == tasks[t].old
    <3>1. /\ d \in Devices /\ old \in Record \cup {NoDevice}
          /\ devices[d] = NoDevice \/ devices[d].token = t
          /\ OneToOne(RolledBack(t)) /\ Unissued(t, RolledBack(t))
      BY <1>1, <2>2 DEF Serial, InForce, Clean, Changing, Running, TypeOK, Task
    <3>2. devices'[d] = old /\ \A e \in Devices : e # d => devices'[e] = devices[e]
      BY <1>1, <2>2, <3>1 DEF RolledBack, Registry
    <3>3. tokens' = [s \in Tasks |-> IF s = old.token THEN d ELSE IF s = t THEN None ELSE tokens[s]]
      BY <2>2 DEF TokensBack
    <3>4. \A s \in Tasks, e \in Devices : tokens[s] = e <=> devices[e].token = s  BY <1>1 DEF TokensMatch
    <3>5. \A e \in Devices : devices'[e].token # t  BY <2>2, <3>1 DEF Unissued
    <3>6. \A e, f \in Devices : devices'[e].token = devices'[f].token /\ devices'[e].token # None => e = f
      BY <2>2, <3>1 DEF OneToOne
    <3>7. None \notin Tasks /\ None \notin Devices /\ NoDevice.token = None  BY DEF NoDevice
    <3> HIDE DEF d, old
    <3>8. ASSUME NEW s \in Tasks, NEW e \in Devices  PROVE tokens'[s] = e <=> devices'[e].token = s
      <4>1. CASE s = old.token
        <5>1. tokens'[s] = d  BY <3>3, <4>1
        <5>2. devices'[e].token = s => e = d  BY <3>1, <3>2, <3>6, <3>7, <4>1
        <5> QED  BY <3>2, <4>1, <5>1, <5>2
      <4>2. CASE s = t /\ s # old.token  BY <3>3, <3>5, <3>7, <4>2
      <4>3. CASE s # t /\ s # old.token
        <5>1. tokens'[s] = tokens[s]  BY <3>3, <4>3
        <5>2. tokens[s] = e <=> devices[e].token = s  BY <3>4
        <5>3. devices[d].token # s  BY <3>1, <3>7, <4>3
        <5>4. CASE e = d  BY <3>2, <4>3, <5>1, <5>2, <5>3, <5>4
        <5>5. CASE e # d  BY <3>2, <5>1, <5>2, <5>5
        <5> QED  BY <5>4, <5>5
      <4> QED  BY <4>1, <4>2, <4>3
    <3> QED  BY <3>8 DEF TokensMatch
  <2> QED  BY <2>1, <2>2
<1> QED  BY <1>4, <1>6, <1>7, <1>8 DEF RegistryInv

\* The devices come back from the file with the tokens they had there.
LEMMA RestartKeeps == PendingInv /\ RegistryInv /\ Restart => RegistryInv'
<1> SUFFICES ASSUME PendingInv, RegistryInv, Restart  PROVE RegistryInv'
  OBVIOUS
<1>1. /\ TypeOK /\ AllClean /\ Fresh /\ disk.rev \in Nat
  BY DEF PendingInv, RegistryInv, TypeOK
<1>2. /\ devices' = disk.devices /\ disk' = disk /\ renaming' = {}
      /\ revision' = disk.rev /\ written' = disk.rev
  BY DEF Restart
<1>3. \A s \in Tasks : ~Changing(s)' /\ (Tokenless(s)' => Tokenless(s))
  <2>1. ASSUME NEW s \in Tasks  PROVE ~Changing(s)' /\ (Tokenless(s)' => Tokenless(s))
    <3>1. CASE Running(s)
      BY <1>1, <3>1, RestartMoves DEF Changing, Tokenless
    <3>2. CASE ~Running(s)
      <4>1. tasks'[s] = tasks[s]  BY <1>1, <3>2, RestartMoves
      <4> QED  BY <3>2, <4>1 DEF Running, Changing, Tokenless
    <3> QED  BY <3>1, <3>2
  <2> QED  BY <2>1
<1>4. TokensMatch'
  <2> DEFINE token(t) == IF \E d \in Devices : disk.devices[d].token = t
                         THEN CHOOSE d \in Devices : disk.devices[d].token = t ELSE None
  <2>1. tokens' = [t \in Tasks |-> token(t)]  BY DEF Restart
  <2>2. ASSUME NEW t \in Tasks, NEW d \in Devices  PROVE token(t) = d <=> disk.devices[d].token = t
    <3>1. \A e, f \in Devices : disk.devices[e].token = t /\ disk.devices[f].token = t => e = f
      BY <1>1 DEF AllClean, Clean, OneToOne
    <3>2. CASE \E e \in Devices : disk.devices[e].token = t
      <4>1. token(t) \in Devices /\ disk.devices[token(t)].token = t  BY <3>2
      <4> HIDE DEF token
      <4> QED  BY <3>1, <4>1
    <3>3. CASE ~ \E e \in Devices : disk.devices[e].token = t  BY <3>3
    <3> QED  BY <3>2, <3>3
  <2> HIDE DEF token
  <2> QED  BY <1>2, <2>1, <2>2 DEF TokensMatch
<1>5. AllClean'  BY <1>1, <1>2 DEF AllClean, Clean, OneToOne, Within, PairedIn, OwnedIn
<1>6. Fresh'  BY <1>1, <1>2, <1>3 DEF Fresh, Unissued
<1>7. InForce'  BY <1>3 DEF InForce
<1> QED  BY <1>1, <1>2, <1>4, <1>5, <1>6, <1>7 DEF RegistryInv

LEMMA RegistryStep == PendingInv /\ RegistryInv /\ [Next]_vars => RegistryInv'
<1> SUFFICES ASSUME PendingInv, RegistryInv, [Next]_vars  PROVE RegistryInv'
  OBVIOUS
<1>1. TypeOK /\ Serial /\ PendingInv' /\ InForce /\ written <= revision /\ revision \in Nat
  BY PendingStep DEF PendingInv, RegistryInv, TypeOK
<1>2. CASE Table
  <2>1. UNCHANGED <<tasks, memory, written, file>>
    BY <1>2 DEF Table, CreateCode, CreateClaim, Poll, Lapse
  <2> QED  BY <2>1, RegistryKept DEF Tokenless, Changing
<1>3. ASSUME NEW t \in Tasks, NEW c \in Codes, NEW d \in Devices, PairTake(t, c, d)  PROVE RegistryInv'
  <2>1. Others(t) /\ tasks'[t].pc = "taken"  BY <1>1, <1>3, TakeMoves
  <2>2. Tokenless(t)  BY <1>3 DEF PairTake, Starts, Tokenless
  <2> QED  BY <1>3, <2>1, <2>2, RegistryKept DEF Tokenless, Changing, Others, PairTake
<1>4. ASSUME NEW t \in Tasks, PairIssue(t)  PROVE RegistryInv'
  <2>1. /\ Issue(t, "pair", tasks[t].dev, tasks[t].user, tasks[t].key)
        /\ MayPair(tasks[t].dev, tasks[t].user) /\ tasks[t].pc = "taken" /\ UNCHANGED <<written, file>>
    BY <1>4 DEF PairIssue
  <2>2. tasks[t].dev \in Devices /\ tasks[t].user \in Users /\ Tokenless(t) /\ \A s \in Tasks : ~Changing(s)
    BY <1>1, <2>1 DEF Serial, Tokenless, Running, Changing
  <2> QED  BY <2>1, <2>2, IssueKeeps
<1>5. ASSUME NEW t \in Tasks, NEW k \in Claims, NEW u \in Users, Complete(t, k, u)  PROVE RegistryInv'
  <2>1. /\ Issue(t, "complete", claims[k].dev, u, k) /\ claims[k].state = "live" /\ holder = None
        /\ MayPair(claims[k].dev, u) /\ tasks[t].pc = "idle" /\ UNCHANGED <<written, file>>
    BY <1>5 DEF Complete, Starts, Free, Completable
  <2>2. claims[k].dev \in Devices /\ Tokenless(t) /\ \A s \in Tasks : ~Changing(s)
    BY <1>1, <2>1, Quiet DEF PendingInv, ClaimsTaken, ClaimRecords, Tokenless
  <2> QED  BY <2>1, <2>2, IssueKeeps
<1>6. ASSUME NEW t \in Tasks, Refused(t, "complete") \/ Refused(t, "delete"), tasks[t].pc = "idle",
             UNCHANGED <<memory, written, file>>
      PROVE  RegistryInv'
  <2>1. Others(t) /\ tasks'[t].pc = "refused"  BY <1>1, <1>6, RefusedMoves
  <2> QED  BY <1>6, <2>1, RegistryKept DEF Tokenless, Changing, Others
<1>7. ASSUME NEW t \in Tasks, PairRefused(t)  PROVE RegistryInv'
  <2>1. tasks[t].pc = "taken" /\ End(t, "refused") /\ Release(t) /\ UNCHANGED <<memory, written, file>>
    BY <1>7 DEF PairRefused
  <2>2. Others(t) /\ tasks'[t].pc = "refused"  BY <1>1, <2>1, EndMoves
  <2> QED  BY <1>1, <2>1, <2>2, EndKeeps DEF memory, file
<1>8. ASSUME NEW t \in Tasks, Answer(t)  PROVE RegistryInv'
  <2>1. /\ tasks[t].pc = "written" /\ End(t, "ok") /\ Release(t) /\ UNCHANGED <<memory, file>>
        /\ written' = tasks[t].snapshot.rev
    BY <1>8 DEF Answer
  <2>2. Others(t) /\ tasks'[t].pc = "ok"  BY <1>1, <2>1, EndMoves
  <2>3. Changing(t) /\ written' = revision  BY <1>1, <2>1 DEF InForce, Changing, Snapshot
  <2> QED  BY <1>1, <2>1, <2>2, <2>3, EndKeeps DEF memory, file
<1>9. ASSUME NEW t \in Tasks, Rollback(t)  PROVE RegistryInv'
  <2>1. /\ tasks[t].pc = "unwritten" /\ End(t, "refused") /\ Release(t)
        /\ UNCHANGED <<revision, written, file>>
        /\ devices' = RolledBack(t) /\ tokens' = TokensBack(t)
    BY <1>9 DEF Rollback
  <2>2. Others(t) /\ tasks'[t].pc = "refused" /\ Changing(t)  BY <1>1, <2>1, EndMoves DEF Changing
  <2> QED  BY <1>1, <2>1, <2>2, EndKeeps DEF file
<1>10. ASSUME NEW t \in Tasks, Abandon(t)  PROVE RegistryInv'
  <2>1. /\ Running(t) /\ End(t, "lost") /\ Release(t) /\ UNCHANGED <<memory, written, disk>>
        /\ renaming' = renaming \/ (tasks[t].pc = "write" /\ renaming' = renaming \cup {tasks[t].snapshot})
    BY <1>10 DEF Abandon
  <2>2. Others(t) /\ tasks'[t].pc = "lost"  BY <1>1, <2>1, EndMoves
  <2>3. tasks[t].pc = "write" => tasks[t].snapshot = Snapshot(devices, revision)
    BY <1>1 DEF InForce, Changing
  <2>4. Changing(t) \/ tasks[t].pc = "taken"  BY <2>1 DEF Running, Changing
  <2> QED  BY <1>1, <2>1, <2>2, <2>3, <2>4, EndKeeps DEF memory
<1>11. ASSUME NEW s \in renaming, Rename(s)  PROVE RegistryInv'
  <2>1. /\ UNCHANGED <<devices, tokens, revision, written, tasks>> /\ disk' = s /\ renaming' = renaming \ {s}
    BY <1>11 DEF Rename, memory
  <2>2. TokensMatch /\ AllClean /\ Fresh  BY DEF RegistryInv
  <2>3. TokensMatch' /\ written' <= revision'  BY <1>1, <2>1, <2>2 DEF TokensMatch
  <2>4. AllClean'  BY <2>1, <2>2 DEF AllClean, Clean, OneToOne, Within, PairedIn, OwnedIn
  <2>5. Fresh'  BY <2>1, <2>2 DEF Fresh, Unissued, Tokenless, Changing
  <2>6. InForce'
    BY <1>1, <2>1, SMTT(60) DEF InForce, Changing, RolledBack, Clean, Unissued, OneToOne, Within, PairedIn, OwnedIn, Snapshot
  <2> QED  BY <2>3, <2>4, <2>5, <2>6 DEF RegistryInv
<1>12. CASE UNCHANGED vars
  <2>1. UNCHANGED <<tasks, memory, written, file>>  BY <1>12 DEF vars, memory, file
  <2> QED  BY <2>1, RegistryKept DEF Tokenless, Changing
<1> QED
  BY <1>2, <1>3, <1>4, <1>5, <1>6, <1>7, <1>8, <1>9, <1>10, <1>11, <1>12, DeleteKeeps, WriteKeeps, RestartKeeps
  DEF Next, Start, Continue, CompleteRefused, DeleteRefused, Starts

LEMMA RegistryInit == Init => RegistryInv
<1> SUFFICES ASSUME Init  PROVE RegistryInv
  OBVIOUS
<1>1. /\ devices = [d \in Devices |-> NoDevice] /\ disk.devices = [d \in Devices |-> NoDevice]
      /\ tokens = [t \in Tasks |-> None] /\ renaming = {} /\ revision = 0 /\ written = 0
      /\ \A t \in Tasks : tasks[t].pc = "idle"
  BY DEF Init, Empty, Snapshot, Idle
<1>2. TokensMatch  BY <1>1 DEF TokensMatch, NoDevice
<1>3. Within(devices)
  <2>1. PairedIn(devices) = {} /\ \A u \in Users : OwnedIn(devices, u) = {}
    BY <1>1 DEF PairedIn, OwnedIn, Paired, NoDevice
  <2>2. Cardinality(PairedIn(devices)) = 0 /\ \A u \in Users : Cardinality(OwnedIn(devices, u)) = 0
    BY <2>1, FS_EmptySet
  <2>3. DeviceCap \in Nat /\ UserCap \in Nat  OBVIOUS
  <2> QED  BY <2>2, <2>3 DEF Within
<1>4. OneToOne(devices)  BY <1>1 DEF OneToOne, NoDevice
<1>5. AllClean
  <2>1. Clean(devices)  BY <1>3, <1>4 DEF Clean
  <2>2. disk.devices = devices  BY <1>1
  <2> QED  BY <1>1, <2>1, <2>2 DEF AllClean
<1>6. Fresh  BY <1>1 DEF Fresh, Unissued, NoDevice, Changing
<1>7. InForce  BY <1>1 DEF InForce, Changing
<1> QED  BY <1>1, <1>2, <1>5, <1>6, <1>7 DEF RegistryInv

\* A refresh token is a device's exactly when the device holds it, the caps on
\* devices hold in memory and in the file (where one too many would keep the
\* relay from starting), and persist_newer_devices_snapshot never takes a write
\* of the holder of the lock for stale: also with clients that hang up, renames
\* that come late and errors after the file was replaced.
THEOREM TokensAndCapsHold == Spec => [](TokensMatch /\ WithinCapacity /\ NeverRefused)
<1> DEFINE Inv == PendingInv /\ RegistryInv
<1>1. Init => Inv  BY PendingInit, RegistryInit
<1>2. Inv /\ [Next]_vars => Inv'  BY PendingStep, RegistryStep
<1>3. Inv => TokensMatch /\ WithinCapacity /\ NeverRefused
  <2> SUFFICES ASSUME Inv  PROVE TokensMatch /\ WithinCapacity /\ NeverRefused
    OBVIOUS
  <2>1. TokensMatch /\ WithinCapacity  BY DEF RegistryInv, AllClean, Clean, WithinCapacity
  <2>2. NeverRefused  BY DEF RegistryInv, InForce, NeverRefused, Newer, Changing, Snapshot
  <2> QED  BY <2>1, <2>2
<1> QED  BY <1>1, <1>2, <1>3, PTL DEF Spec

-----------------------------------------------------------------------------
(* The file.                                                                *)

LEMMA UpToDateStep ==
    ASSUME "abandon" \notin Faults, PendingInv, RegistryInv, UpToDate, [Next]_vars
    PROVE  UpToDate' /\ disk'.rev >= disk.rev
<1>1. TypeOK /\ InForce /\ revision \in Nat /\ disk.rev \in Nat
  BY DEF PendingInv, RegistryInv, TypeOK
<1>2. \A s \in renaming : FALSE  BY DEF UpToDate
<1>3. \A t \in Tasks : ~Abandon(t)  BY DEF Abandon
<1>4. CASE Table \/ UNCHANGED vars
  <2>1. UNCHANGED <<disk, renaming, revision>>
    BY <1>4 DEF Table, CreateCode, CreateClaim, Poll, Lapse, memory, file, vars
  <2> QED  BY <1>1, <2>1 DEF UpToDate
<1>5. ASSUME NEW t \in Tasks, Write(t) \/ WriteFails(t)
      PROVE  UpToDate' /\ disk'.rev >= disk.rev
  <2>1. /\ disk' \in {disk, tasks[t].snapshot} /\ tasks[t].pc = "write"
        /\ UNCHANGED <<revision, renaming>>
    BY <1>5 DEF Write, WriteFails, Failing, memory
  <2>2. tasks[t].snapshot.rev = revision  BY <1>1, <2>1 DEF InForce, Changing, Snapshot
  <2> QED  BY <1>1, <2>1, <2>2 DEF UpToDate
<1>6. ASSUME UNCHANGED <<disk, renaming>>, revision' \in {revision, revision + 1}
      PROVE  UpToDate' /\ disk'.rev >= disk.rev
  BY <1>1, <1>6 DEF UpToDate
<1>7. ASSUME NEW t \in Tasks, Start(t)  PROVE UpToDate' /\ disk'.rev >= disk.rev
  <2>1. UNCHANGED <<disk, renaming>>
    BY <1>7 DEF Start, PairTake, Complete, CompleteRefused, Delete, DeleteRefused, file
  <2>2. revision' \in {revision, revision + 1}
    BY <1>7 DEF Start, PairTake, Complete, CompleteRefused, Delete, DeleteRefused, Issue, NextRevision, memory
  <2> QED  BY <1>6, <2>1, <2>2
<1>8. ASSUME NEW t \in Tasks, PairIssue(t) \/ PairRefused(t) \/ Answer(t) \/ Rollback(t)
      PROVE  UpToDate' /\ disk'.rev >= disk.rev
  <2>1. UNCHANGED <<disk, renaming>>
    BY <1>8 DEF PairIssue, PairRefused, Answer, Rollback, file
  <2>2. revision' \in {revision, revision + 1}
    BY <1>8 DEF PairIssue, PairRefused, Answer, Rollback, Issue, memory
  <2> QED  BY <1>6, <2>1, <2>2
<1>9. CASE Restart
  BY <1>1, <1>9 DEF UpToDate, Restart
<1> QED
  BY <1>2, <1>3, <1>4, <1>5, <1>7, <1>8, <1>9 DEF Next, Continue

\* The call that holds the lock, and what it says of the file.
LEMMA HolderInStep ==
    ASSUME PendingInv', NEW t \in Tasks, holder' = t,
           tasks'[t].pc \in {"taken", "written"} => disk'.devices = devices',
           tasks'[t].pc \in {"write", "unwritten"} => disk'.devices = RolledBack(t)'
    PROVE  InStep'
<1>1. \A s \in Tasks : s # t => tasks'[s].pc \notin {"taken", "write", "written", "unwritten"}
  BY DEF PendingInv, Serial, Running
<1>2. ASSUME NEW s \in Tasks
      PROVE  /\ tasks'[s].pc \in {"taken", "written"} => disk'.devices = devices'
             /\ tasks'[s].pc \in {"write", "unwritten"} => disk'.devices = RolledBack(s)'
  BY <1>1
<1> QED  BY <1>2 DEF InStep

LEMMA NobodyInStep ==
    ASSUME PendingInv', holder' = None, disk'.devices = devices'  PROVE InStep'
BY DEF PendingInv, Serial, Running, InStep

LEMMA InStepKept ==
    ASSUME PendingInv, PendingInv', InStep, UNCHANGED <<devices, disk, holder>>,
           \A t \in Tasks : Running(t) => tasks'[t] = tasks[t]
    PROVE  InStep'
<1>1. ASSUME NEW t \in Tasks, Running(t)'
      PROVE  tasks'[t] = tasks[t] /\ RolledBack(t)' = RolledBack(t)
  <2>1. Running(t)  BY <1>1 DEF PendingInv, Serial
  <2> QED  BY <2>1 DEF RolledBack
<1> QED  BY <1>1 DEF InStep, Running

LEMMA InStepStep ==
    ASSUME {"late", "abandon"} \cap Faults = {}, PendingInv, RegistryInv, UpToDate, InStep, [Next]_vars
    PROVE  InStep'
<1>1. /\ TypeOK /\ Serial /\ PendingInv' /\ InForce /\ devices \in Registry
  BY PendingStep DEF PendingInv, RegistryInv, TypeOK
<1>2. CASE Table
  <2>1. UNCHANGED <<tasks, devices, disk, holder>>
    BY <1>2 DEF Table, CreateCode, CreateClaim, Poll, Lapse, memory, file
  <2> QED  BY <1>1, <2>1, InStepKept
<1>3. ASSUME NEW t \in Tasks, NEW c \in Codes, NEW d \in Devices, PairTake(t, c, d)  PROVE InStep'
  <2>1. tasks'[t].pc = "taken"  BY <1>1, <1>3, TakeMoves
  <2>2. holder = None /\ holder' = t /\ disk' = disk /\ devices' = devices
    BY <1>3 DEF PairTake, Starts, Free, memory, file
  <2> QED  BY <1>1, <2>1, <2>2, HolderInStep DEF InStep
<1>4. ASSUME NEW t \in Tasks, NEW op \in {"pair", "complete"}, NEW d \in Devices, NEW u, NEW k,
             Issue(t, op, d, u, k), holder' = t, disk' = disk, disk.devices = devices
      PROVE  InStep'
  <2>1. tasks'[t].pc = "write" /\ tasks'[t].dev = d /\ tasks'[t].old = devices[d]  BY <1>1, <1>4, IssueMoves
  <2>2. devices' = [devices EXCEPT ![d] = [owner |-> u, token |-> t]]  BY <1>4 DEF Issue
  <2>3. RolledBack(t)' = devices  BY <1>1, <2>1, <2>2 DEF RolledBack, Registry
  <2> QED  BY <1>1, <1>4, <2>1, <2>3, HolderInStep
<1>5. ASSUME NEW t \in Tasks, PairIssue(t)  PROVE InStep'
  <2>1. /\ Issue(t, "pair", tasks[t].dev, tasks[t].user, tasks[t].key) /\ tasks[t].pc = "taken"
        /\ holder' = holder /\ disk' = disk
    BY <1>5 DEF PairIssue, file
  <2>2. holder = t /\ tasks[t].dev \in Devices /\ disk.devices = devices
    BY <1>1, <2>1 DEF Serial, Running, InStep
  <2> QED  BY <1>4, <2>1, <2>2
<1>6. ASSUME NEW t \in Tasks, NEW k \in Claims, NEW u \in Users, Complete(t, k, u)  PROVE InStep'
  <2>1. /\ Issue(t, "complete", claims[k].dev, u, k) /\ claims[k].state = "live"
        /\ holder = None /\ holder' = t /\ disk' = disk
    BY <1>6 DEF Complete, Completable, Starts, Free, file
  <2>2. claims[k].dev \in Devices /\ disk.devices = devices
    BY <2>1 DEF PendingInv, ClaimsTaken, ClaimRecords, InStep
  <2> QED  BY <1>4, <2>1, <2>2
<1>7. ASSUME NEW t \in Tasks, NEW d \in Devices, Delete(t, d)  PROVE InStep'
  <2>1. tasks'[t].pc = "write" /\ tasks'[t].dev = d /\ tasks'[t].old = devices[d]  BY <1>1, <1>7, DeleteMoves
  <2>2. /\ devices' = [devices EXCEPT ![d] = NoDevice] /\ disk.devices = devices
        /\ holder' = t /\ disk' = disk
    BY <1>7 DEF Delete, Starts, Free, InStep, file
  <2>3. RolledBack(t)' = devices  BY <1>1, <2>1, <2>2 DEF RolledBack, Registry
  <2> QED  BY <1>1, <2>1, <2>2, <2>3, HolderInStep
<1>8. ASSUME NEW t \in Tasks, Refused(t, "complete") \/ Refused(t, "delete"), tasks[t].pc = "idle",
             UNCHANGED <<devices, disk, holder>>
      PROVE  InStep'
  BY <1>1, <1>8, RefusedMoves, InStepKept DEF Others, Running
<1>9. ASSUME NEW t \in Tasks, Write(t)  PROVE InStep'
  <2>1. /\ tasks[t].pc = "write" /\ disk' = tasks[t].snapshot /\ devices' = devices /\ holder' = holder
        /\ Goto(t, "written")
    BY <1>9 DEF Write, memory
  <2>2. holder = t /\ disk'.devices = devices'
    BY <1>1, <2>1 DEF Serial, Running, InForce, Changing, Snapshot
  <2>3. tasks'[t].pc = "written"  BY <1>1, <2>1, GotoMoves
  <2> QED  BY <1>1, <2>1, <2>2, <2>3, HolderInStep
<1>10. ASSUME NEW t \in Tasks, WriteFails(t)  PROVE InStep'
  <2>1. /\ tasks[t].pc = "write" /\ disk' = disk /\ devices' = devices /\ holder' = holder
        /\ Goto(t, "unwritten")
    BY <1>10 DEF WriteFails, Failing, memory
  <2>2. holder = t /\ disk.devices = RolledBack(t)  BY <1>1, <2>1 DEF Serial, Running, InStep
  <2>3. tasks'[t].pc = "unwritten" /\ tasks'[t].dev = tasks[t].dev /\ tasks'[t].old = tasks[t].old
    BY <1>1, <2>1, GotoMoves
  <2>4. RolledBack(t)' = RolledBack(t)  BY <2>1, <2>3 DEF RolledBack
  <2> QED  BY <1>1, <2>1, <2>2, <2>3, <2>4, HolderInStep
<1>11. ASSUME NEW t \in Tasks, PairRefused(t) \/ Answer(t) \/ Rollback(t)  PROVE InStep'
  <2>1. /\ Release(t) /\ disk' = disk
        /\ \/ tasks[t].pc \in {"taken", "written"} /\ devices' = devices
           \/ tasks[t].pc = "unwritten" /\ devices' = RolledBack(t)
    BY <1>11 DEF PairRefused, Answer, Rollback, memory, file
  <2>2. holder' = None  BY <1>1, <2>1 DEF Serial, Running, Release
  <2>3. disk'.devices = devices'  BY <2>1 DEF InStep
  <2> QED  BY <1>1, <2>2, <2>3, NobodyInStep
<1>12. CASE Restart
  <2>1. holder' = None /\ disk'.devices = devices'  BY <1>12 DEF Restart
  <2> QED  BY <1>1, <2>1, NobodyInStep
<1>13. CASE UNCHANGED vars
  BY <1>1, <1>13, InStepKept DEF vars
<1>14. ASSUME NEW t \in Tasks  PROVE ~Abandon(t)  BY DEF Abandon
<1>15. \A s \in renaming : FALSE  BY DEF UpToDate
<1> QED
  BY <1>2, <1>3, <1>5, <1>6, <1>7, <1>8, <1>9, <1>10, <1>11, <1>12, <1>13, <1>14, <1>15
  DEF Next, Start, Continue, CompleteRefused, DeleteRefused, Starts, memory, file

\* While no client hangs up, the file never goes back to an older state.
THEOREM FileNeverGoesBack == ASSUME "abandon" \notin Faults PROVE Spec => NeverStale
<1> DEFINE Inv == PendingInv /\ RegistryInv /\ UpToDate
<1>1. Init => Inv
  BY PendingInit, RegistryInit DEF Init, UpToDate, Empty, Snapshot
<1>2. Inv /\ [Next]_vars => Inv'  BY PendingStep, RegistryStep, UpToDateStep
<1>3. Inv /\ [Next]_vars => [disk'.rev >= disk.rev]_disk  BY UpToDateStep
<1> QED  BY <1>1, <1>2, <1>3, PTL DEF Spec, NeverStale

\* While writes fail only before the file is replaced and no client hangs up,
\* the file is memory whenever nobody changes devices, and the rest holds too.
THEOREM RegistryStaysWhole == ASSUME {"late", "abandon"} \cap Faults = {} PROVE Spec => []RegistryIsWhole
<1> DEFINE Inv == PendingInv /\ RegistryInv /\ UpToDate /\ InStep
<1>1. Init => Inv
  <2>1. Init => UpToDate  BY DEF Init, UpToDate, Empty, Snapshot
  <2>2. Init => InStep  BY DEF Init, InStep, Empty, Snapshot, Idle
  <2> QED  BY <2>1, <2>2, PendingInit, RegistryInit
<1>2. Inv /\ [Next]_vars => Inv'  BY PendingStep, RegistryStep, UpToDateStep, InStepStep
<1>3. Inv => RegistryIsWhole
  <2> SUFFICES ASSUME Inv  PROVE RegistryIsWhole
    OBVIOUS
  <2>1. TokensMatch /\ WithinCapacity  BY DEF RegistryInv, AllClean, Clean, WithinCapacity
  <2>2. NeverRefused  BY DEF RegistryInv, InForce, NeverRefused, Newer, Changing, Snapshot
  <2>3. DiskIsMemory  BY DEF InStep, DiskIsMemory
  <2> QED  BY <2>1, <2>2, <2>3 DEF RegistryIsWhole
<1> QED  BY <1>1, <1>2, <1>3, PTL DEF Spec

-----------------------------------------------------------------------------
(* The durable registry that RelayPairing implements.                       *)

Outcomes == [t \in Tasks |-> Outcome(t)]
StaysOpen(t) == tasks[t].pc \in {"idle", "taken", "write", "unwritten"}

LEMMA OutcomeMoves ==
    ASSUME NEW t \in Tasks, Others(t)
    PROVE  Outcomes' = [Outcomes EXCEPT ![t] = Outcome(t)']
<1>1. \A s \in Tasks : s # t => Outcome(s)' = Outcome(s)  BY DEF Others, Outcome
<1> QED  BY <1>1 DEF Outcomes

LEMMA OutcomeStays ==
    ASSUME NEW t \in Tasks, Others(t), Outcome(t)' = Outcome(t)
    PROVE  Outcomes' = Outcomes
<1>1. \A s \in Tasks : Outcome(s)' = Outcome(s)  BY DEF Others, Outcome
<1> QED  BY <1>1 DEF Outcomes

LEMMA RefuseStep ==
    ASSUME NEW t \in Tasks, Others(t), StaysOpen(t), tasks'[t].pc = "refused", disk' = disk
    PROVE  Durable!Next
<1>1. Outcome(t) = "open" /\ Outcome(t)' = "refused"  BY DEF Outcome, StaysOpen
<1>2. Outcomes' = [Outcomes EXCEPT ![t] = "refused"]  BY <1>1, OutcomeMoves
<1>3. Outcomes[t] = "open" /\ UNCHANGED disk.devices  BY <1>1 DEF Outcomes
<1>4. Durable!Refuse(t)  BY <1>2, <1>3 DEF Durable!Refuse, Durable!Becomes, Outcomes
<1> QED  BY <1>4 DEF Durable!Next

LEMMA OpenStep ==
    ASSUME NEW t \in Tasks, Others(t), StaysOpen(t), StaysOpen(t)', disk' = disk
    PROVE  UNCHANGED Durable!vars
<1>1. Outcome(t)' = Outcome(t)  BY DEF Outcome, StaysOpen
<1>2. Outcomes' = Outcomes /\ UNCHANGED disk.devices  BY <1>1, OutcomeStays
<1> QED  BY <1>2 DEF Durable!vars, Outcomes

LEMMA ImplementsStep ==
    ASSUME {"late", "abandon"} \cap Faults = {}, PendingInv, RegistryInv, UpToDate, InStep, [Next]_vars
    PROVE  Durable!Next \/ UNCHANGED Durable!vars
<1>1. TypeOK /\ Serial /\ InForce /\ devices \in Registry
  BY DEF PendingInv, RegistryInv, TypeOK
<1>2. CASE Table \/ UNCHANGED vars
  <2>1. UNCHANGED <<tasks, disk>>  BY <1>2 DEF Table, CreateCode, CreateClaim, Poll, Lapse, file, vars
  <2> QED  BY <2>1 DEF Durable!vars, Outcome
<1>3. ASSUME NEW t \in Tasks, Start(t)  PROVE Durable!Next \/ UNCHANGED Durable!vars
  <2>1. tasks[t].pc = "idle" /\ disk' = disk /\ StaysOpen(t)
    BY <1>3 DEF Start, PairTake, Complete, CompleteRefused, Delete, DeleteRefused, Starts, file, StaysOpen
  <2>2. ASSUME NEW c \in Codes, NEW d \in Devices, PairTake(t, c, d)  PROVE UNCHANGED Durable!vars
    <3>1. Others(t) /\ StaysOpen(t)'  BY <1>1, <2>2, TakeMoves DEF StaysOpen
    <3> QED  BY <2>1, <3>1, OpenStep
  <2>3. ASSUME NEW k \in Claims, NEW u \in Users, Complete(t, k, u)  PROVE UNCHANGED Durable!vars
    <3>1. Issue(t, "complete", claims[k].dev, u, k)  BY <2>3 DEF Complete
    <3>2. Others(t) /\ StaysOpen(t)'  BY <1>1, <3>1, IssueMoves DEF StaysOpen
    <3> QED  BY <2>1, <3>2, OpenStep
  <2>4. ASSUME NEW d \in Devices, Delete(t, d)  PROVE UNCHANGED Durable!vars
    <3>1. Others(t) /\ StaysOpen(t)'  BY <1>1, <2>4, DeleteMoves DEF StaysOpen
    <3> QED  BY <2>1, <3>1, OpenStep
  <2>5. ASSUME NEW op, Refused(t, op)  PROVE Durable!Next
    BY <1>1, <2>1, <2>5, RefusedMoves, RefuseStep
  <2> QED  BY <1>3, <2>2, <2>3, <2>4, <2>5 DEF Start, CompleteRefused, DeleteRefused
<1>4. ASSUME NEW t \in Tasks, PairIssue(t)  PROVE UNCHANGED Durable!vars
  <2>1. /\ Issue(t, "pair", tasks[t].dev, tasks[t].user, tasks[t].key) /\ disk' = disk
        /\ tasks[t].pc = "taken"
    BY <1>4 DEF PairIssue, file
  <2>2. Others(t) /\ StaysOpen(t) /\ StaysOpen(t)'  BY <1>1, <2>1, IssueMoves DEF StaysOpen
  <2> QED  BY <2>1, <2>2, OpenStep
<1>5. ASSUME NEW t \in Tasks, PairRefused(t) \/ Rollback(t)  PROVE Durable!Next
  <2>1. tasks[t].pc \in {"taken", "unwritten"} /\ End(t, "refused") /\ disk' = disk
    BY <1>5 DEF PairRefused, Rollback, file
  <2>2. Others(t) /\ StaysOpen(t) /\ tasks'[t].pc = "refused"  BY <1>1, <2>1, EndMoves DEF StaysOpen
  <2> QED  BY <2>1, <2>2, RefuseStep
<1>6. ASSUME NEW t \in Tasks, Write(t)  PROVE Durable!Next
  <2>1. tasks[t].pc = "write" /\ disk' = tasks[t].snapshot /\ Goto(t, "written")
    BY <1>6 DEF Write
  <2>2. Others(t) /\ tasks'[t].pc = "written"  BY <1>1, <2>1, GotoMoves
  <2>3. Outcome(t) = "open" /\ Outcome(t)' = "made"  BY <2>1, <2>2 DEF Outcome
  <2>4. Outcomes' = [Outcomes EXCEPT ![t] = "made"] /\ Outcomes[t] = "open"
    BY <2>2, <2>3, OutcomeMoves DEF Outcomes
  <2>5. tasks[t].dev \in Devices /\ disk'.devices = devices /\ disk.devices = RolledBack(t)
    BY <1>1, <2>1 DEF Serial, Running, InForce, Changing, Snapshot, InStep
  <2>6. disk'.devices = [disk.devices EXCEPT ![tasks[t].dev] = devices[tasks[t].dev]]
    BY <1>1, <2>5 DEF RolledBack, Registry
  <2>7. devices[tasks[t].dev] \in Record \cup {NoDevice}  BY <1>1, <2>5 DEF Registry
  <2>8. Durable!Make(t)
    BY <2>4, <2>5, <2>6, <2>7 DEF Durable!Make, Durable!Becomes, Outcomes
  <2> QED  BY <2>8 DEF Durable!Next
<1>7. ASSUME NEW t \in Tasks, WriteFails(t)  PROVE UNCHANGED Durable!vars
  <2>1. tasks[t].pc = "write" /\ disk' = disk /\ Goto(t, "unwritten")
    BY <1>7 DEF WriteFails, Failing
  <2>2. Others(t) /\ StaysOpen(t) /\ StaysOpen(t)'  BY <1>1, <2>1, GotoMoves DEF StaysOpen
  <2> QED  BY <2>1, <2>2, OpenStep
<1>8. ASSUME NEW t \in Tasks, Answer(t)  PROVE Durable!Next
  <2>1. tasks[t].pc = "written" /\ End(t, "ok") /\ disk' = disk  BY <1>8 DEF Answer, file
  <2>2. Others(t) /\ tasks'[t].pc = "ok"  BY <1>1, <2>1, EndMoves
  <2>3. Outcome(t) = "made" /\ Outcome(t)' = "ok"  BY <2>1, <2>2 DEF Outcome
  <2>4. Outcomes' = [Outcomes EXCEPT ![t] = "ok"] /\ Outcomes[t] = "made"
    BY <2>2, <2>3, OutcomeMoves DEF Outcomes
  <2>5. Durable!Confirm(t)
    BY <2>1, <2>4 DEF Durable!Confirm, Durable!Becomes, Outcomes
  <2> QED  BY <2>5 DEF Durable!Next
<1>9. CASE Restart
  <2> DEFINE S == {t \in Tasks : Running(t)}
  <2>1. ASSUME NEW t \in Tasks
        PROVE  Outcome(t)' = IF t \in S /\ Outcome(t) \in {"open", "made"} THEN "lost" ELSE Outcome(t)
    <3>1. CASE Running(t)
      <4>1. tasks'[t].pc = "lost"  BY <1>1, <1>9, <3>1, RestartMoves
      <4>2. Outcome(t)' = "lost" /\ Outcome(t) \in {"open", "made"}
        BY <3>1, <4>1 DEF Outcome, Running
      <4> QED  BY <3>1, <4>2
    <3>2. CASE ~Running(t)
      <4>1. tasks'[t] = tasks[t]  BY <1>1, <1>9, <3>2, RestartMoves
      <4> QED  BY <3>2, <4>1 DEF Outcome
    <3> QED  BY <3>1, <3>2
  <2>2. Outcomes' = [t \in Tasks |-> IF t \in S /\ Outcomes[t] \in {"open", "made"} THEN "lost"
                                     ELSE Outcomes[t]]
    BY <2>1 DEF Outcomes
  <2>3. disk' = disk  BY <1>9 DEF Restart
  <2>4. Durable!Lose(S)  BY <2>2, <2>3 DEF Durable!Lose, Outcomes
  <2> QED  BY <2>4 DEF Durable!Next
<1>10. ASSUME NEW t \in Tasks  PROVE ~Abandon(t)  BY DEF Abandon
<1>11. \A s \in renaming : FALSE  BY DEF UpToDate
<1> QED
  BY <1>2, <1>3, <1>4, <1>5, <1>6, <1>7, <1>8, <1>9, <1>10, <1>11 DEF Next, Continue

\* RelayPairing implements the durable registry: what is answered was written,
\* each call changes one device at one moment, and one that was refused or cut
\* off before its write changed nothing.
THEOREM RelayImplementsRegistry ==
    ASSUME {"late", "abandon"} \cap Faults = {} PROVE Spec => DurableSpec
<1> DEFINE Inv == PendingInv /\ RegistryInv /\ UpToDate /\ InStep
<1>1. Init => Inv
  <2>1. Init => UpToDate  BY DEF Init, UpToDate, Empty, Snapshot
  <2>2. Init => InStep  BY DEF Init, InStep, Empty, Snapshot, Idle
  <2> QED  BY <2>1, <2>2, PendingInit, RegistryInit
<1>2. Inv /\ [Next]_vars => Inv'  BY PendingStep, RegistryStep, UpToDateStep, InStepStep
<1>3. Init => Durable!Init
  BY DEF Init, Empty, Snapshot, Idle, Durable!Init, Outcome
<1>4. Inv /\ [Next]_vars => [Durable!Next]_(Durable!vars)  BY ImplementsStep
<1> QED  BY <1>1, <1>2, <1>3, <1>4, PTL DEF Spec, DurableSpec, Durable!Spec
=============================================================================
