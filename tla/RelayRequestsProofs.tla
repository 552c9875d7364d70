-------------------------- MODULE RelayRequestsProofs --------------------------
(***************************************************************************)
(* What RelayRequests promises holds of any number of devices, requests    *)
(* and connections: the bytes counted are those of the requests that wait, *)
(* these fail with their bridge and with nothing else (part 1), and what   *)
(* a client reads of a stream is what its bridge sent (part 2).            *)
(***************************************************************************)
EXTENDS RelayRequests, ByteCountsProofs

-----------------------------------------------------------------------------
(* Data.                                                                    *)

LEMMA IdsFinite ==
    /\ IsFiniteSet(Ids)
    /\ \A id \in Ids : Bytes[id] \in Nat /\ Bytes[id] = SizeOf[id[1]]
                       /\ Kind(id) \in Kinds /\ Device(id) \in Devices
                       /\ id[1] \in Requests /\ id[2] \in 1..2
<1>1. IsFiniteSet(Ids)
  <2>1. 1 \in Int /\ 2 \in Int  OBVIOUS
  <2>2. IsFiniteSet(1..2)  BY <2>1, FS_Interval
  <2> QED  BY <2>2, RequestsAssumption, FS_Product DEF Ids
<1>2. \A id \in Ids : id[1] \in Requests /\ id[2] \in 1..2 /\ Bytes[id] = SizeOf[id[1]]
  BY DEF Ids, Bytes
<1>3. ASSUME NEW id \in Ids  PROVE Kind(id) \in Kinds /\ Device(id) \in Devices /\ SizeOf[id[1]] \in Nat
  BY <1>2, RequestsAssumption DEF Kind, Kinds, Device
<1> QED  BY <1>1, <1>2, <1>3

LEMMA SumSplit ==
    ASSUME NEW S \in SUBSET Ids, NEW R \in SUBSET S
    PROVE  /\ TotalBytes(Bytes, S \ R) = TotalBytes(Bytes, S) - TotalBytes(Bytes, R)
           /\ TotalBytes(Bytes, R) <= TotalBytes(Bytes, S)
           /\ TotalBytes(Bytes, R) \in Nat /\ TotalBytes(Bytes, S) \in Nat
<1>1. IsFiniteSet(S) /\ \A id \in S : Bytes[id] \in Nat  BY IdsFinite, FS_Subset
<1> QED  BY <1>1, BytesSplit

LEMMA SumAdd ==
    ASSUME NEW S \in SUBSET Ids, NEW id \in Ids, id \notin S
    PROVE  TotalBytes(Bytes, S \cup {id}) = TotalBytes(Bytes, S) + Bytes[id]
<1>1. IsFiniteSet(S) /\ \A x \in S : Bytes[x] \in Nat  BY IdsFinite, FS_Subset
<1>2. Bytes[id] \in Nat  BY IdsFinite
<1> QED  BY <1>1, <1>2, BytesAdded

LEMMA SumOfNone == TotalBytes(Bytes, {}) = 0
BY BytesOfNone

LEMMA IdOf ==
    ASSUME TypeOK, NEW r \in Requests
    PROVE  /\ Id(r) \in Ids /\ Id(r)[1] = r /\ Id(r)[2] = reqs[r].attempt
           /\ Device(Id(r)) = DeviceOf[r] /\ DeviceOf[r] \in Devices
           /\ (IsStream(Id(r)) <=> KindOf[r] = "stream")
<1>1. reqs[r].attempt \in 1..2  BY DEF TypeOK, Req
<1>2. Id(r) \in Ids /\ Id(r)[1] = r /\ Id(r)[2] = reqs[r].attempt  BY <1>1 DEF Id, Ids
<1> QED  BY <1>2, RequestsAssumption DEF Device, IsStream, Kind

-----------------------------------------------------------------------------
(* The tables.                                                              *)

\* Entries that are taken give back their bytes, and those bytes only.
LEMMA TakeAccounts ==
    ASSUME TypeOK, BytesMatch, NEW S \in SUBSET Ids, Take(S)
    PROVE  /\ pending' \in [Ids -> [on : BOOLEAN, started : BOOLEAN]]
           /\ bytes' \in [Kinds -> Nat]
           /\ BytesMatch'
           /\ \A id \in Ids : pending'[id] = IF id \in S THEN NoPending ELSE pending[id]
<1>1. pending' \in [Ids -> [on : BOOLEAN, started : BOOLEAN]]
  BY DEF Take, TypeOK, NoPending
<1>2. \A id \in Ids : pending'[id] = IF id \in S THEN NoPending ELSE pending[id]
  BY DEF Take
<1>3. ASSUME NEW k \in Kinds
      PROVE  bytes'[k] \in Nat /\ bytes'[k] = TotalBytes(Bytes, PendingOf(k)')
  <2> DEFINE out == {id \in S : pending[id].on /\ Kind(id) = k}
  <2>1. PendingOf(k) \in SUBSET Ids /\ out \in SUBSET PendingOf(k)  BY DEF PendingOf
  <2>2. PendingOf(k)' = PendingOf(k) \ out  BY <1>2 DEF PendingOf, NoPending
  <2>3. bytes'[k] = bytes[k] - TotalBytes(Bytes, out)  BY DEF Take, Freed
  <2>4. bytes[k] = TotalBytes(Bytes, PendingOf(k))  BY DEF BytesMatch
  <2> HIDE DEF out
  <2>5. /\ TotalBytes(Bytes, PendingOf(k) \ out) = TotalBytes(Bytes, PendingOf(k)) - TotalBytes(Bytes, out)
        /\ TotalBytes(Bytes, out) <= TotalBytes(Bytes, PendingOf(k))
        /\ TotalBytes(Bytes, out) \in Nat /\ TotalBytes(Bytes, PendingOf(k)) \in Nat
    BY <2>1, SumSplit
  <2> QED  BY <2>2, <2>3, <2>4, <2>5
<1>4. bytes' \in [Kinds -> Nat]  BY <1>3 DEF Take, Freed
<1>5. BytesMatch'  BY <1>3 DEF BytesMatch, TotalBytes
<1> QED  BY <1>1, <1>2, <1>4, <1>5

\* A request that begins brings its own bytes, and is in no table before.
LEMMA BeginAccounts ==
    ASSUME TypeOK, BytesMatch, NEW r \in Requests, Begin(r), ~pending[Id(r)].on
    PROVE  /\ pending' \in [Ids -> [on : BOOLEAN, started : BOOLEAN]]
           /\ bytes' \in [Kinds -> Nat]
           /\ BytesMatch'
<1> DEFINE i == Id(r)
<1>1. i \in Ids /\ i[1] = r  BY IdOf
<1>2. pending' = [pending EXCEPT ![i] = [on |-> TRUE, started |-> FALSE]]  BY DEF Begin
<1>3. pending' \in [Ids -> [on : BOOLEAN, started : BOOLEAN]]  BY <1>2 DEF TypeOK
<1>4. bytes' = [bytes EXCEPT ![Kind(i)] = bytes[Kind(i)] + Bytes[i]]
  BY <1>1, IdsFinite DEF Begin
<1>5. ~pending[i].on  OBVIOUS
<1> HIDE DEF i
<1>6. Kind(i) \in Kinds /\ Bytes[i] \in Nat  BY <1>1, IdsFinite
<1>7. bytes' \in [Kinds -> Nat]  BY <1>4, <1>6 DEF TypeOK
<1>8. ASSUME NEW k \in Kinds  PROVE bytes'[k] = TotalBytes(Bytes, PendingOf(k)')
  <2>1. PendingOf(k) \in SUBSET Ids  BY DEF PendingOf
  <2>2. bytes[k] = TotalBytes(Bytes, PendingOf(k))  BY DEF BytesMatch
  <2>3. CASE k # Kind(i)
    <3>1. PendingOf(k)' = PendingOf(k)  BY <1>1, <1>2, <1>5, <2>3 DEF PendingOf, TypeOK
    <3>2. bytes'[k] = bytes[k]  BY <1>4, <2>3 DEF TypeOK
    <3> QED  BY <2>2, <3>1, <3>2
  <2>4. CASE k = Kind(i)
    <3>1. PendingOf(k)' = PendingOf(k) \cup {i} /\ i \notin PendingOf(k)
      BY <1>1, <1>2, <1>5, <2>4 DEF PendingOf, TypeOK
    <3>2. bytes'[k] = bytes[k] + Bytes[i]  BY <1>4, <2>4 DEF TypeOK
    <3>3. TotalBytes(Bytes, PendingOf(k) \cup {i}) = TotalBytes(Bytes, PendingOf(k)) + Bytes[i]
      BY <1>1, <2>1, <3>1, SumAdd
    <3> QED  BY <2>2, <3>1, <3>2, <3>3
  <2> QED  BY <2>3, <2>4
<1>9. BytesMatch'  BY <1>8 DEF BytesMatch, TotalBytes
<1> QED  BY <1>3, <1>7, <1>9

\* Nothing else about the tables is what the counters depend on.
LEMMA SameTables ==
    ASSUME BytesMatch, bytes' = bytes,
           \A id \in Ids : pending'[id].on = pending[id].on
    PROVE  BytesMatch'
<1>1. \A k \in Kinds : PendingOf(k)' = PendingOf(k)  BY DEF PendingOf
<1> QED  BY <1>1 DEF BytesMatch, TotalBytes

-----------------------------------------------------------------------------
(* Types.                                                                   *)

\* What a step changes of a connection, a channel or a request stays one.
LEMMA ConnTyped ==
    ASSUME TypeOK, NEW c \in Conns, NEW pc, Goto(c, pc),
           pc \in {"unused", "accepted", "announce", "open", "event", "overflow",
                   "cancel", "ended", "closed"}
    PROVE  conns' \in [Conns -> Conn]
<1>1. conns[c] \in Conn  BY DEF TypeOK
<1>2. [conns[c] EXCEPT !.pc = pc] \in Conn  BY <1>1 DEF Conn
<1>3. conns' = [conns EXCEPT ![c] = [conns[c] EXCEPT !.pc = pc]]  BY DEF Goto, TypeOK
<1> QED  BY <1>2, <1>3 DEF TypeOK

LEMMA ChannelTyped ==
    ASSUME TypeOK, NEW d \in Devices, NEW ch \in Channel, channel' = [channel EXCEPT ![d] = ch]
    PROVE  channel' \in [Devices -> Channel]
BY DEF TypeOK

LEMMA ReqTyped ==
    ASSUME TypeOK, NEW r \in Requests, NEW pc, Step(r, pc),
           pc \in {"idle", "queued", "unsent", "wait", "expired", "body", "dropped",
                   "cancel", "cleanup", "done", "abandoned"}
    PROVE  reqs' \in [Requests -> Req]
<1>1. reqs[r] \in Req  BY DEF TypeOK
<1>2. [reqs[r] EXCEPT !.pc = pc] \in Req  BY <1>1 DEF Req
<1>3. reqs' = [reqs EXCEPT ![r] = [reqs[r] EXCEPT !.pc = pc]]  BY DEF Step, TypeOK
<1> QED  BY <1>2, <1>3 DEF TypeOK

LEMMA FailedTyped ==
    ASSUME TypeOK, NEW S, Failed(S)
    PROVE  /\ reply' \in [Ids -> {"none", "ok", "gone"}]
           /\ events' \in [Ids -> Seq(0..End)]
<1>1. End \in 0..End  BY BoundsAssumption DEF End
<1>2. \A id \in Ids : Append(events[id], End) \in Seq(0..End) /\ events[id] \in Seq(0..End)
  BY <1>1 DEF TypeOK
<1> QED  BY <1>2 DEF TypeOK, Failed

LEMMA NoneIsNoConn == None \notin Conns /\ None = 0 /\ NoChannel \in Channel
BY ConnsAssumption DEF None, NoChannel, Channel

LEMMA StartIsEvent == Start \in 0..End
BY BoundsAssumption DEF Start, End

LEMMA HoldTyped ==
    ASSUME TypeOK, NEW c \in Conns, NEW id \in Ids, NEW e \in 0..End, Hold(c, id, e)
    PROVE  conns' \in [Conns -> Conn]
<1>1. PICK q \in Conn : q = conns[c]  BY DEF TypeOK
<1>2. [q EXCEPT !.pc = "event", !.id = id, !.event = e] \in Conn  BY DEF Conn
<1>3. conns' = [conns EXCEPT ![c] = [q EXCEPT !.pc = "event", !.id = id, !.event = e]]
  BY <1>1 DEF Hold, TypeOK
<1> QED  BY <1>2, <1>3 DEF TypeOK

LEMMA WorkTyped ==
    ASSUME TypeOK, NEW c \in Conns, NEW id \in Ids, NEW w, Working(c, id, w),
           w \in {"none", "asked", "started", "done"}
    PROVE  work' \in [Conns -> [Ids -> {"none", "asked", "started", "done"}]]
BY DEF Working, TypeOK

LEMMA TailIs ==
    ASSUME NEW T, NEW q \in Seq(T), q # <<>>
    PROVE  /\ Tail(q) \in Seq(T) /\ Head(q) = q[1] /\ q[1] \in T
           /\ Len(q) \in Nat /\ Len(q) >= 1 /\ Len(Tail(q)) = Len(q) - 1
           /\ \A j \in 1..(Len(q) - 1) : Tail(q)[j] = q[j + 1]
OBVIOUS

LEMMA OfDeviceIds == \A d : OfDevice(d) \in SUBSET Ids
BY DEF OfDevice

LEMMA ConnectionTypes ==
    ASSUME TypeOK, BytesMatch, NEW c \in Conns, Connection(c)
    PROVE  TypeOK' /\ BytesMatch'
<1> DEFINE d == conns[c].dev
           ch == channel[d]
<1>0. d \in Devices /\ conns[c] \in Conn /\ ch \in Channel  BY DEF TypeOK, Conn
<1>1. ASSUME NEW e \in Devices, NEW kind \in {"bridge", "browser"}, Connect(c, kind, e)
      PROVE  TypeOK' /\ BytesMatch'
  <2>1. [conns[c] EXCEPT !.kind = kind, !.dev = e, !.pc = "accepted"] \in Conn  BY <1>0 DEF Conn
  <2>2. conns' = [conns EXCEPT ![c] = [conns[c] EXCEPT !.kind = kind, !.dev = e, !.pc = "accepted"]]
    BY <1>1 DEF Connect, TypeOK
  <2>3. conns' \in [Conns -> Conn]  BY <2>1, <2>2 DEF TypeOK
  <2> QED  BY <1>1, <2>3, SameTables DEF Connect, TypeOK, tables, peers, outcome
<1>2. CASE RegisterBridge(c)
  <2>1. conns' \in [Conns -> Conn]  BY <1>2, ConnTyped DEF RegisterBridge
  <2>2. Replaced(ch, c) \in Channel  BY <1>0 DEF Replaced, Channel
  <2>3. channel' \in [Devices -> Channel]  BY <1>0, <1>2, <2>2, ChannelTyped DEF RegisterBridge
  <2> QED  BY <1>2, <2>1, <2>3, SameTables DEF RegisterBridge, TypeOK, tables, peers, outcome
<1>3. CASE RegisterBrowser(c)
  <2>1. conns' \in [Conns -> Conn]  BY <1>3, ConnTyped DEF RegisterBrowser
  <2>2. [ch EXCEPT !.browsers = ch.browsers \cup {c}] \in Channel  BY <1>0 DEF Channel
  <2>3. channel' = [channel EXCEPT ![d] = [ch EXCEPT !.browsers = ch.browsers \cup {c}]]
    BY <1>0, <1>3 DEF RegisterBrowser, TypeOK
  <2>4. channel' \in [Devices -> Channel]  BY <1>0, <2>2, <2>3, ChannelTyped
  <2> QED  BY <1>3, <2>1, <2>4, SameTables DEF RegisterBrowser, TypeOK, tables, peers, outcome
<1>4. CASE Announce(c)
  <2>1. conns' \in [Conns -> Conn]  BY <1>4, ConnTyped DEF Announce
  <2>2. channel' \in [Devices -> Channel]  BY <1>0, <1>4 DEF Announce, TypeOK, Channel
  <2> QED  BY <1>4, <2>1, <2>2, SameTables DEF Announce, TypeOK, tables, peers, outcome
<1>5. CASE Hangup(c)
  <2>1. conns' \in [Conns -> Conn]  BY <1>5, ConnTyped DEF Hangup
  <2> QED  BY <1>5, <2>1, SameTables DEF Hangup, TypeOK, tables, peers, outcome
<1>6. CASE UnregisterBridge(c)
  <2>1. conns' \in [Conns -> Conn]  BY <1>6, ConnTyped DEF UnregisterBridge
  <2>2. Pruned([ch EXCEPT !.bridge = None, !.seen = FALSE, !.status = "down"]) \in Channel
    BY <1>0 DEF Pruned, Channel, NoChannel, None
  <2> DEFINE new == Pruned([ch EXCEPT !.bridge = None, !.seen = FALSE, !.status = "down"])
  <2>a. channel' = [channel EXCEPT ![d] = new]  BY <1>0, <1>6 DEF UnregisterBridge, TypeOK
  <2>b. new \in Channel  BY <2>2
  <2> HIDE DEF new
  <2>3. channel' \in [Devices -> Channel]  BY <1>0, <2>a, <2>b, ChannelTyped
  <2>4. Take(OfDevice(d)) /\ Failed(OfDevice(d))  BY <1>6 DEF UnregisterBridge
  <2>5. /\ pending' \in [Ids -> [on : BOOLEAN, started : BOOLEAN]]
        /\ bytes' \in [Kinds -> Nat] /\ BytesMatch'
    BY <2>4, OfDeviceIds, TakeAccounts
  <2>6. reply' \in [Ids -> {"none", "ok", "gone"}] /\ events' \in [Ids -> Seq(0..End)]
    BY <2>4, FailedTyped
  <2> QED  BY <1>6, <2>1, <2>3, <2>5, <2>6 DEF UnregisterBridge, TypeOK, peers
<1>7. CASE UnregisterOther(c)
  <2>1. conns' \in [Conns -> Conn]  BY <1>7, ConnTyped DEF UnregisterOther
  <2>2. Pruned(Left(ch, c)) \in Channel
    BY <1>0 DEF Left, Pruned, Channel, NoChannel, None
  <2> DEFINE new == Pruned(Left(ch, c))
  <2>4. channel' = [channel EXCEPT ![d] = new]  BY <1>7 DEF UnregisterOther
  <2>5. new \in Channel  BY <2>2
  <2> HIDE DEF new
  <2>3. channel' \in [Devices -> Channel]  BY <1>0, <2>4, <2>5, ChannelTyped
  <2> QED  BY <1>7, <2>1, <2>3, SameTables DEF UnregisterOther, TypeOK, tables, peers, outcome
<1> QED  BY <1>1, <1>2, <1>3, <1>4, <1>5, <1>6, <1>7 DEF Connection

LEMMA DeviceTypes ==
    ASSUME TypeOK, BytesMatch, NEW d \in Devices, Device_(d)
    PROVE  TypeOK' /\ BytesMatch'
<1>1. ASSUME DisconnectRuntime(d)
      PROVE  /\ channel' \in [Devices -> Channel]
             /\ pending' \in [Ids -> [on : BOOLEAN, started : BOOLEAN]]
             /\ bytes' \in [Kinds -> Nat] /\ BytesMatch'
             /\ reply' \in [Ids -> {"none", "ok", "gone"}] /\ events' \in [Ids -> Seq(0..End)]
  <2>1. channel' \in [Devices -> Channel]
    BY <1>1, NoneIsNoConn, ChannelTyped DEF DisconnectRuntime
  <2> QED  BY <1>1, <2>1, OfDeviceIds, TakeAccounts, FailedTyped DEF DisconnectRuntime
<1>2. CASE Disconnect(d)  BY <1>1, <1>2 DEF Disconnect, TypeOK, peers
<1>3. CASE DeleteSucceeds(d)  BY <1>1, <1>3 DEF DeleteSucceeds, TypeOK, peers
<1>4. CASE Delete(d)  BY <1>4, SameTables DEF Delete, TypeOK, tables, peers, outcome
<1>5. CASE DeleteFails(d)  BY <1>5, SameTables DEF DeleteFails, TypeOK, tables, peers, outcome
<1> QED  BY <1>2, <1>3, <1>4, <1>5 DEF Device_

\* What a cancellation changes.
LEMMA CancelTyped ==
    ASSUME TypeOK, NEW d \in Devices, NEW id \in Ids, CancelAt(d, id)
    PROVE  cancels' \subseteq Conns \X Ids /\ lost' \subseteq Ids
<1>1. Bridge(d) # None => Bridge(d) \in Conns  BY DEF Bridge, TypeOK, Channel
<1> QED  BY <1>1 DEF CancelAt, TypeOK

\* Taking the entry of one's own request.
LEMMA OwnTaken ==
    ASSUME TypeOK, BytesMatch, NEW r \in Requests, Take({Id(r)})
    PROVE  /\ pending' \in [Ids -> [on : BOOLEAN, started : BOOLEAN]]
           /\ bytes' \in [Kinds -> Nat] /\ BytesMatch'
BY IdOf, TakeAccounts

NotYet(id) == \/ id[2] > reqs[id[1]].attempt
              \/ id[2] = reqs[id[1]].attempt /\ reqs[id[1]].pc = "idle"

\* A request is in no table before it begins.
NotBefore == \A id \in Ids : NotYet(id) => ~pending[id].on

LEMMA RequestTypes ==
    ASSUME TypeOK, BytesMatch, NotBefore, NEW r \in Requests, Request(r)
    PROVE  TypeOK' /\ BytesMatch'
<1> DEFINE i == Id(r)
<1>0. /\ i \in Ids /\ reqs[r] \in Req /\ DeviceOf[r] \in Devices
      /\ Bridge(DeviceOf[r]) \in Conns \cup {None}
  BY IdOf DEF TypeOK, Channel, Bridge
<1>1. CASE Begin(r)
  <2>1. ~pending[i].on
    <3>1. NotYet(i)  BY <1>1, IdOf DEF Begin, NotYet
    <3> QED  BY <1>0, <3>1 DEF NotBefore
  <2>2. [reqs[r] EXCEPT !.pc = "queued", !.peer = Bridge(DeviceOf[r])] \in Req  BY <1>0 DEF Req
  <2>3. reqs' = [reqs EXCEPT ![r] = [reqs[r] EXCEPT !.pc = "queued", !.peer = Bridge(DeviceOf[r])]]
    BY <1>1 DEF Begin, TypeOK
  <2>4. reqs' \in [Requests -> Req]  BY <2>2, <2>3 DEF TypeOK
  <2>5. /\ pending' \in [Ids -> [on : BOOLEAN, started : BOOLEAN]]
        /\ bytes' \in [Kinds -> Nat] /\ BytesMatch'
    BY <1>1, <2>1, BeginAccounts
  <2> QED  BY <1>1, <2>4, <2>5 DEF Begin, TypeOK, peers, outcome
<1>2. CASE GiveUp(r) \/ SendRefused(r) \/ Answered(r) \/ Timeout(r) \/ Abandon(r)
           \/ BodyEnds(r) \/ DropBody(r)
  <2>1. \E pc \in {"done", "unsent", "expired", "abandoned", "dropped"} : Step(r, pc)
    BY <1>2 DEF GiveUp, SendRefused, Answered, Timeout, Abandon, BodyEnds, DropBody
  <2>2. reqs' \in [Requests -> Req]  BY <2>1, ReqTyped
  <2>3. UNCHANGED <<devices, deleting, channel, conns, tables, peers, outcome>>
    BY <1>2 DEF GiveUp, SendRefused, Answered, Timeout, Abandon, BodyEnds, DropBody
  <2> QED  BY <2>2, <2>3, SameTables DEF TypeOK, tables, peers, outcome
<1>a. CASE AbandonCancel(r)
  <2>1. reqs' \in [Requests -> Req]  BY <1>a, ReqTyped DEF AbandonCancel
  <2>2. lost' \in SUBSET Ids  BY <1>0, <1>a DEF AbandonCancel, TypeOK
  <2> QED  BY <1>a, <2>1, <2>2, SameTables DEF AbandonCancel, TypeOK, tables, outcome
<1>3. CASE SendRequest(r)
  <2>1. reqs' \in [Requests -> Req]  BY <1>3, ReqTyped DEF SendRequest
  <2>2. work' \in [Conns -> [Ids -> {"none", "asked", "started", "done"}]]
    BY <1>3 DEF SendRequest, TypeOK
  <2> QED  BY <1>3, <2>1, <2>2, SameTables DEF SendRequest, TypeOK, tables, outcome
<1>4. CASE Unsent(r) \/ StreamEndsEarly(r) \/ StreamMisordered(r) \/ CleanBody(r)
  <2>1. Take({i})  BY <1>4 DEF Unsent, StreamEndsEarly, StreamMisordered, CleanBody
  <2>2. \E pc \in {"done", "cancel", "cleanup"} : Step(r, pc)
    BY <1>4 DEF Unsent, StreamEndsEarly, StreamMisordered, CleanBody, CleanedTo
  <2>3. reqs' \in [Requests -> Req]  BY <2>2, ReqTyped
  <2>4. UNCHANGED <<devices, deleting, channel, conns, peers, outcome>>
    BY <1>4 DEF Unsent, StreamEndsEarly, StreamMisordered, CleanBody
  <2> QED  BY <2>1, <2>3, <2>4, OwnTaken DEF TypeOK, peers, outcome
<1>5. CASE Expire(r)
  <2> DEFINE again == [reqs[r] EXCEPT !.pc = "idle", !.attempt = 2]
             gone == [reqs[r] EXCEPT !.pc = "cancel"]
             over == [reqs[r] EXCEPT !.pc = "done"]
  <2>1. again \in Req /\ gone \in Req /\ over \in Req
    <3>1. again \in Req
      <4>1. PICK q \in Req : q = reqs[r]  BY <1>0
      <4>2. [q EXCEPT !.pc = "idle"] \in Req  BY DEF Req
      <4>3. \A p \in Req : [p EXCEPT !.attempt = 2] \in Req  BY DEF Req
      <4>4. [q EXCEPT !.pc = "idle", !.attempt = 2] = [[q EXCEPT !.pc = "idle"] EXCEPT !.attempt = 2]
        OBVIOUS
      <4> QED  BY <4>1, <4>2, <4>3, <4>4
    <3>2. gone \in Req  BY <1>0 DEF Req
    <3>3. over \in Req  BY <1>0 DEF Req
    <3> QED  BY <3>1, <3>2, <3>3
  <2>3. reqs' = [reqs EXCEPT ![r] = IF Retriable(r) THEN again
             ELSE IF KindOf[r] = "stream" /\ pending[Id(r)].on THEN gone ELSE over]
    BY <1>5 DEF Expire
  <2> HIDE DEF again, gone, over
  <2>2. reqs' \in [Requests -> Req]  BY <2>1, <2>3 DEF TypeOK
  <2> QED  BY <1>5, <2>2, OwnTaken DEF Expire, TypeOK, peers, outcome
<1>6. CASE StreamStarts(r) \/ ReadBody(r)
  <2>1. reqs' \in [Requests -> Req]
    <3>1. UNCHANGED reqs \/ \E pc \in {"body", "done"} : Step(r, pc)
      BY <1>6 DEF StreamStarts, ReadBody
    <3> QED  BY <3>1, ReqTyped DEF TypeOK
  <2>2. events' = [events EXCEPT ![i] = Tail(events[i])] /\ events[i] # <<>>
    BY <1>0, <1>6 DEF StreamStarts, ReadBody, TypeOK
  <2>3. events[i] \in Seq(0..End)  BY <1>0 DEF TypeOK
  <2>4. Tail(events[i]) \in Seq(0..End)  BY <2>2, <2>3, TailIs
  <2>5. events' \in [Ids -> Seq(0..End)]  BY <2>2, <2>4 DEF TypeOK
  <2>6. read' \in [Ids -> Seq(1..MaxChunks)]
    <3>1. CASE read' = read  BY <3>1 DEF TypeOK
    <3>2. CASE /\ Head(events[i]) \in 1..MaxChunks
               /\ read' = [read EXCEPT ![i] = Append(read[i], Head(events[i]))]
      <4>1. Append(read[i], Head(events[i])) \in Seq(1..MaxChunks)  BY <1>0, <3>2 DEF TypeOK
      <4> QED  BY <3>2, <4>1 DEF TypeOK
    <3> QED  BY <1>0, <1>6, <3>1, <3>2 DEF StreamStarts, ReadBody, TypeOK
  <2> QED  BY <1>6, <2>1, <2>5, <2>6, SameTables
           DEF StreamStarts, ReadBody, TypeOK, tables, peers, outcome
<1>7. CASE CancelStream(r)
  <2>1. reqs' \in [Requests -> Req]  BY <1>7, ReqTyped DEF CancelStream
  <2>2. cancels' \subseteq Conns \X Ids /\ lost' \subseteq Ids
    BY <1>0, <1>7, CancelTyped DEF CancelStream
  <2> QED  BY <1>7, <2>1, <2>2, SameTables DEF CancelStream, TypeOK, tables, outcome
<1> QED  BY <1>1, <1>2, <1>a, <1>3, <1>4, <1>5, <1>6, <1>7 DEF Request

LEMMA RouteTypes ==
    ASSUME TypeOK, BytesMatch, NEW c \in Conns, Route(c)
    PROVE  TypeOK' /\ BytesMatch'
<1> DEFINE d == conns[c].dev
           i == conns[c].id
<1>0. conns[c] \in Conn /\ d \in Devices /\ i \in Ids /\ conns[c].event \in 0..End
  BY DEF TypeOK, Conn
<1>1. CASE StaleSpeaks(c)
  <2>1. conns' \in [Conns -> Conn]  BY <1>1, ConnTyped DEF StaleSpeaks
  <2> QED  BY <1>1, <2>1, SameTables DEF StaleSpeaks, TypeOK, tables, peers, outcome
<1>2. CASE Report(c)
  <2> DEFINE new == [channel[d] EXCEPT !.seen = TRUE, !.status = "up", !.streams = TakesStreams(c)]
  <2>1. new \in Channel
    <3>1. TakesStreams(c) \in BOOLEAN  BY DEF TakesStreams
    <3>2. PICK ch \in Channel : ch = channel[d]  BY <1>0 DEF TypeOK
    <3>3. ASSUME NEW b \in BOOLEAN
          PROVE  [ch EXCEPT !.seen = TRUE, !.status = "up", !.streams = b] \in Channel
      BY DEF Channel
    <3> QED  BY <3>1, <3>2, <3>3
  <2>2. channel' = [channel EXCEPT ![d] = new]  BY <1>0, <1>2 DEF Report, TypeOK
  <2> HIDE DEF new
  <2>3. channel' \in [Devices -> Channel]  BY <1>0, <2>1, <2>2, ChannelTyped
  <2> QED  BY <1>2, <2>3, SameTables DEF Report, TypeOK, tables, peers, outcome
<1>3. CASE Deliver(c)
  <2>1. conns' \in [Conns -> Conn]  BY <1>3, ConnTyped DEF Deliver
  <2>2. Append(events[i], conns[c].event) \in Seq(0..End)  BY <1>0 DEF TypeOK
  <2>3. events' \in [Ids -> Seq(0..End)]  BY <1>3, <2>2 DEF Deliver, TypeOK
  <2> QED  BY <1>3, <2>1, <2>3, SameTables DEF Deliver, TypeOK, tables, peers
<1>4. CASE Overflow(c)
  <2>1. conns' \in [Conns -> Conn]  BY <1>4, ConnTyped DEF Overflow, Cut
  <2>2. CutOff(c) \in SUBSET Ids  BY <1>0 DEF CutOff
  <2>3. Take(CutOff(c))  BY <1>4 DEF Overflow
  <2> QED  BY <1>4, <2>1, <2>2, <2>3, TakeAccounts DEF Overflow, TypeOK, peers, outcome
<1>5. CASE CancelFrom(c)
  <2>1. conns' \in [Conns -> Conn]  BY <1>5, ConnTyped DEF CancelFrom
  <2>2. cancels' \subseteq Conns \X Ids /\ lost' \subseteq Ids
    BY <1>0, <1>5, CancelTyped DEF CancelFrom
  <2> QED  BY <1>5, <2>1, <2>2, SameTables DEF CancelFrom, TypeOK, tables, outcome
<1>6. ASSUME NEW id \in Ids, Answer(c, id)  PROVE TypeOK' /\ BytesMatch'
  <2>1. Working(c, id, "done") /\ Take({id})  BY <1>6 DEF Answer
  <2>2. work' \in [Conns -> [Ids -> {"none", "asked", "started", "done"}]]
    BY <2>1, WorkTyped
  <2>3. reply' \in [Ids -> {"none", "ok", "gone"}]  BY <1>6 DEF Answer, TypeOK
  <2> QED  BY <1>6, <2>1, <2>2, <2>3, TakeAccounts DEF Answer, TypeOK
<1>7. ASSUME NEW id \in Ids, StreamStart(c, id)  PROVE TypeOK' /\ BytesMatch'
  <2>1. work' \in [Conns -> [Ids -> {"none", "asked", "started", "done"}]]
    BY <1>7, WorkTyped DEF StreamStart
  <2>2. conns' \in [Conns -> Conn]
    <3>1. CASE Hold(c, id, Start)  BY <3>1, StartIsEvent, HoldTyped
    <3> QED  BY <1>7, <3>1 DEF StreamStart, TypeOK
  <2>3. /\ pending' \in [Ids -> [on : BOOLEAN, started : BOOLEAN]]
        /\ \A x \in Ids : pending'[x].on = pending[x].on
    BY <1>7 DEF StreamStart, TypeOK
  <2> QED  BY <1>7, <2>1, <2>2, <2>3, SameTables DEF StreamStart, TypeOK, outcome
<1>8. ASSUME NEW id \in Ids, StreamRestart(c, id)  PROVE TypeOK' /\ BytesMatch'
  <2>1. Take({id}) /\ Failed({id})  BY <1>8 DEF StreamRestart
  <2>2. [conns[c] EXCEPT !.pc = "cancel", !.id = id] \in Conn  BY <1>0 DEF Conn
  <2>3. conns' = [conns EXCEPT ![c] = [conns[c] EXCEPT !.pc = "cancel", !.id = id]]
    BY <1>8 DEF StreamRestart, TypeOK
  <2>4. conns' \in [Conns -> Conn]  BY <2>2, <2>3 DEF TypeOK
  <2> QED  BY <1>8, <2>1, <2>4, TakeAccounts, FailedTyped DEF StreamRestart, TypeOK, peers
<1>9. ASSUME NEW id \in Ids, StreamChunk(c, id)  PROVE TypeOK' /\ BytesMatch'
  <2>1. sent[id] + 1 \in 0..MaxChunks /\ sent[id] + 1 \in 0..End
    BY <1>9, BoundsAssumption DEF StreamChunk, TypeOK, End
  <2>2. sent' \in [Ids -> 0..MaxChunks]  BY <1>9, <2>1 DEF StreamChunk, TypeOK
  <2>3. conns' \in [Conns -> Conn]
    <3>1. CASE Hold(c, id, sent[id] + 1)  BY <2>1, <3>1, HoldTyped
    <3> QED  BY <1>9, <3>1 DEF StreamChunk, TypeOK
  <2> QED  BY <1>9, <2>2, <2>3, SameTables DEF StreamChunk, TypeOK, tables, outcome
<1>10. ASSUME NEW id \in Ids, StreamEnd(c, id)  PROVE TypeOK' /\ BytesMatch'
  <2>1. Working(c, id, "done") /\ Take({id}) /\ Failed({id})  BY <1>10 DEF StreamEnd
  <2>2. work' \in [Conns -> [Ids -> {"none", "asked", "started", "done"}]]
    BY <2>1, WorkTyped
  <2> QED  BY <1>10, <2>1, <2>2, TakeAccounts, FailedTyped DEF StreamEnd, TypeOK
<1>11. ASSUME NEW id \in Ids, Cancelled(c, id)  PROVE TypeOK' /\ BytesMatch'
  <2>1. work' \in [Conns -> [Ids -> {"none", "asked", "started", "done"}]]
    BY <1>11, WorkTyped DEF Cancelled
  <2> QED  BY <1>11, <2>1, SameTables DEF Cancelled, TypeOK, tables, outcome
<1> QED  BY <1>1, <1>2, <1>3, <1>4, <1>5, <1>6, <1>7, <1>8, <1>9, <1>10, <1>11 DEF Route

-----------------------------------------------------------------------------
(* Part 1: the requests that wait.                                          *)

\* Only what streams is streamed.
StartedStreams == \A c \in Conns, id \in Ids : work[c][id] = "started" => IsStream(id)

AccountInv == PendingIsAccounted /\ NotBefore /\ StartedStreams

\* Nothing enters a table but a request that begins.
NoneEnters == \A id \in Ids : pending'[id].on => pending[id].on

LEMMA TakeRemoves ==
    ASSUME TypeOK, NEW S \in SUBSET Ids, Take(S)
    PROVE  NoneEnters /\ \A id \in S : ~pending'[id].on
BY DEF Take, NoPending, NoneEnters

LEMMA BridgeIs ==
    ASSUME TypeOK, NEW d \in Devices
    PROVE  Bridge(d) \in Conns \cup {None} /\ channel[d] \in Channel
BY DEF TypeOK, Channel, Bridge

\* While bridges stay, or take their requests with them, no request is left.
LEMMA ChannelsKeep ==
    ASSUME TypeOK, PendingHasBridge, StatusIsCurrent, NoneEnters, NEW d \in Devices,
           \A e \in Devices : e # d => channel'[e] = channel[e],
           channel'[d].status = "up" <=> channel'[d].bridge # None,
           \/ channel'[d].bridge # None \/ channel[d].bridge = None
           \/ \A id \in OfDevice(d) : ~pending'[id].on
    PROVE  PendingHasBridge' /\ StatusIsCurrent'
<1>1. StatusIsCurrent'  BY DEF StatusIsCurrent, Bridge
<1>2. ASSUME NEW id \in Ids, pending'[id].on  PROVE channel'[Device(id)].bridge # None
  <2>1. channel[Device(id)].bridge # None /\ Device(id) \in Devices
    BY <1>2, IdsFinite DEF NoneEnters, PendingHasBridge, Bridge
  <2> QED  BY <1>2, <2>1 DEF OfDevice
<1>3. PendingHasBridge'  BY <1>2 DEF PendingHasBridge, Bridge, Device
<1> QED  BY <1>1, <1>3

LEMMA ConnectionKeeps ==
    ASSUME TypeOK, PendingHasBridge, StatusIsCurrent, NEW c \in Conns, Connection(c)
    PROVE  PendingHasBridge' /\ StatusIsCurrent' /\ NoneEnters /\ UNCHANGED <<reqs, work>>
<1> DEFINE d == conns[c].dev
           ch == channel[d]
<1>0. d \in Devices /\ ch \in Channel  BY DEF TypeOK, Conn
<1>1. CASE \/ \E e \in Devices, kind \in {"bridge", "browser"} : Connect(c, kind, e)
           \/ Hangup(c)
  BY <1>1 DEF Connect, Hangup, tables, peers, PendingHasBridge, StatusIsCurrent, Bridge,
              NoneEnters
<1>2. CASE RegisterBridge(c)
  <2>1. channel' = [channel EXCEPT ![d] = Replaced(ch, c)]  BY <1>2 DEF RegisterBridge
  <2>2. Replaced(ch, c).bridge = c /\ Replaced(ch, c).status = "up"
    BY <1>0 DEF Replaced, Channel
  <2>3. NoneEnters /\ UNCHANGED <<reqs, work>>
    BY <1>2 DEF RegisterBridge, tables, peers, NoneEnters
  <2> QED  BY <1>0, <2>1, <2>2, <2>3, NoneIsNoConn, ChannelsKeep DEF TypeOK
<1>3. CASE RegisterBrowser(c)
  <2>1. channel' = [channel EXCEPT ![d] = [ch EXCEPT !.browsers = ch.browsers \cup {c}]]
    BY <1>0, <1>3 DEF RegisterBrowser, TypeOK
  <2>2. channel'[d].bridge = ch.bridge /\ channel'[d].status = ch.status
    BY <1>0, <2>1 DEF Channel, TypeOK
  <2>3. NoneEnters /\ UNCHANGED <<reqs, work>>
    BY <1>3 DEF RegisterBrowser, tables, peers, NoneEnters
  <2>4. \A e \in Devices : e # d => channel'[e] = channel[e]  BY <2>1 DEF TypeOK
  <2> QED  BY <1>0, <2>2, <2>3, <2>4, ChannelsKeep DEF StatusIsCurrent, Bridge
<1>4. CASE Announce(c)
  <2>1. CASE Current(c)
    <3>1. channel' = [channel EXCEPT ![d].status = "up"]
      BY <1>4, <2>1 DEF Announce, Announces
    <3>2. channel'[d].bridge = c /\ channel'[d].status = "up"
      BY <1>0, <2>1, <3>1 DEF Current, Bridge, Channel, TypeOK
    <3>3. NoneEnters /\ UNCHANGED <<reqs, work>>
      BY <1>4 DEF Announce, tables, peers, NoneEnters
    <3> QED  BY <1>0, <3>1, <3>2, <3>3, NoneIsNoConn, ChannelsKeep DEF TypeOK
  <2>2. CASE ~Current(c)
    BY <1>4, <2>2 DEF Announce, Announces, tables, peers, PendingHasBridge, StatusIsCurrent,
                      Bridge, NoneEnters
  <2> QED  BY <2>1, <2>2
<1>5. CASE UnregisterBridge(c)
  <2> DEFINE new == [ch EXCEPT !.bridge = None, !.seen = FALSE, !.status = "down"]
  <2>1. channel' = [channel EXCEPT ![d] = Pruned(new)]  BY <1>5 DEF UnregisterBridge
  <2>2. Pruned(new).bridge = None /\ Pruned(new).status # "up"
    BY <1>0 DEF Pruned, NoChannel, Channel
  <2>3. OfDevice(d) \in SUBSET Ids /\ Take(OfDevice(d))  BY <1>5, OfDeviceIds DEF UnregisterBridge
  <2>4. NoneEnters /\ \A id \in OfDevice(d) : ~pending'[id].on  BY <2>3, TakeRemoves
  <2>5. UNCHANGED <<reqs, work>>  BY <1>5 DEF UnregisterBridge, peers
  <2> QED  BY <1>0, <2>1, <2>2, <2>4, <2>5, ChannelsKeep DEF TypeOK
<1>6. CASE UnregisterOther(c)
  <2>1. channel' = [channel EXCEPT ![d] = Pruned(Left(ch, c))]  BY <1>6 DEF UnregisterOther
  <2>2. Left(ch, c).bridge = ch.bridge /\ Left(ch, c).status = ch.status
    BY <1>0 DEF Left, Channel
  <2>3. /\ Pruned(Left(ch, c)).bridge = ch.bridge
        /\ Pruned(Left(ch, c)).status = "up" <=> Pruned(Left(ch, c)).bridge # None
    BY <1>0, <2>2 DEF Pruned, NoChannel, StatusIsCurrent, Bridge
  <2>4. NoneEnters /\ UNCHANGED <<reqs, work>>
    BY <1>6 DEF UnregisterOther, tables, peers, NoneEnters
  <2> QED  BY <1>0, <2>1, <2>3, <2>4, ChannelsKeep DEF TypeOK
<1> QED  BY <1>1, <1>2, <1>3, <1>4, <1>5, <1>6 DEF Connection

LEMMA DeviceKeeps ==
    ASSUME TypeOK, PendingHasBridge, StatusIsCurrent, NEW d \in Devices, Device_(d)
    PROVE  PendingHasBridge' /\ StatusIsCurrent' /\ NoneEnters /\ UNCHANGED <<reqs, work>>
<1>1. CASE Disconnect(d) \/ DeleteSucceeds(d)
  <2>1. DisconnectRuntime(d) /\ UNCHANGED <<reqs, work>>
    BY <1>1 DEF Disconnect, DeleteSucceeds, peers
  <2>2. channel' = [channel EXCEPT ![d] = NoChannel]  BY <2>1 DEF DisconnectRuntime
  <2>3. OfDevice(d) \in SUBSET Ids /\ Take(OfDevice(d))  BY <2>1, OfDeviceIds DEF DisconnectRuntime
  <2>4. NoneEnters /\ \A id \in OfDevice(d) : ~pending'[id].on  BY <2>3, TakeRemoves
  <2> QED  BY <2>1, <2>2, <2>4, ChannelsKeep DEF TypeOK, NoChannel
<1>2. CASE Delete(d) \/ DeleteFails(d)
  BY <1>2 DEF Delete, DeleteFails, tables, peers, PendingHasBridge, StatusIsCurrent, Bridge,
              NoneEnters
<1> QED  BY <1>1, <1>2 DEF Device_

\* Every step of a request is one of these: it begins, it becomes idle for its
\* second attempt, or it moves on.
LEMMA RequestMoves ==
    ASSUME TypeOK, NEW r \in Requests, Request(r)
    PROVE  /\ \A q \in Requests : q # r => reqs'[q] = reqs[q]
           /\ \/ reqs'[r].attempt = reqs[r].attempt /\ reqs'[r].pc # "idle"
              \/ reqs'[r].attempt = 2 /\ reqs[r].attempt = 1 /\ reqs[r].pc # "idle"
           /\ Begin(r) \/ NoneEnters
           /\ UNCHANGED <<channel, conns>>
           /\ SendRequest(r) \/ UNCHANGED work
<1>0. reqs[r] \in Req /\ Id(r) \in Ids  BY IdOf DEF TypeOK
<1>1. ASSUME \E pc \in {"unsent", "wait", "expired", "body", "dropped", "cancel", "cleanup",
                        "done", "abandoned"} : Step(r, pc)
      PROVE  /\ \A q \in Requests : q # r => reqs'[q] = reqs[q]
             /\ reqs'[r].attempt = reqs[r].attempt /\ reqs'[r].pc # "idle"
  <2>1. PICK pc \in {"unsent", "wait", "expired", "body", "dropped", "cancel", "cleanup",
                     "done", "abandoned"} : Step(r, pc)
    BY <1>1
  <2>2. reqs' = [reqs EXCEPT ![r] = [reqs[r] EXCEPT !.pc = pc]]  BY <2>1 DEF Step, TypeOK
  <2>3. /\ [reqs[r] EXCEPT !.pc = pc].attempt = reqs[r].attempt
        /\ [reqs[r] EXCEPT !.pc = pc].pc = pc
    BY <1>0 DEF Req
  <2> QED  BY <2>2, <2>3 DEF TypeOK
<1>2. CASE GiveUp(r) \/ SendRefused(r) \/ Answered(r) \/ Timeout(r) \/ Abandon(r)
           \/ BodyEnds(r) \/ DropBody(r) \/ StreamStarts(r) \/ CancelStream(r) \/ SendRequest(r)
           \/ AbandonCancel(r)
  <2>1. \E pc \in {"unsent", "wait", "expired", "body", "dropped", "cancel", "cleanup",
                   "done", "abandoned"} : Step(r, pc)
    BY <1>2 DEF GiveUp, SendRefused, Answered, Timeout, Abandon, BodyEnds, DropBody,
                StreamStarts, CancelStream, SendRequest, AbandonCancel
  <2>2. UNCHANGED <<channel, conns, tables>> /\ (SendRequest(r) \/ UNCHANGED work)
    BY <1>2 DEF GiveUp, SendRefused, Answered, Timeout, Abandon, BodyEnds, DropBody,
                StreamStarts, CancelStream, SendRequest, AbandonCancel, peers
  <2> QED  BY <1>1, <2>1, <2>2 DEF tables, NoneEnters
<1>3. CASE Unsent(r) \/ StreamEndsEarly(r) \/ StreamMisordered(r) \/ CleanBody(r)
  <2>1. \E pc \in {"unsent", "wait", "expired", "body", "dropped", "cancel", "cleanup",
                   "done", "abandoned"} : Step(r, pc)
    BY <1>3 DEF Unsent, StreamEndsEarly, StreamMisordered, CleanBody, CleanedTo
  <2>2. UNCHANGED <<channel, conns, work>> /\ Take({Id(r)})
    BY <1>3 DEF Unsent, StreamEndsEarly, StreamMisordered, CleanBody, peers
  <2> QED  BY <1>0, <1>1, <2>1, <2>2, TakeRemoves
<1>4. CASE ReadBody(r)
  <2>1. UNCHANGED <<channel, conns, tables, work>> /\ reqs[r].pc = "body"
    BY <1>4 DEF ReadBody, peers
  <2>2. UNCHANGED reqs \/ Step(r, "done")  BY <1>4 DEF ReadBody
  <2> QED  BY <1>1, <2>1, <2>2 DEF tables, NoneEnters
<1>5. CASE Begin(r)
  <2>1. reqs' = [reqs EXCEPT ![r] = [reqs[r] EXCEPT !.pc = "queued", !.peer = Bridge(DeviceOf[r])]]
    BY <1>5 DEF Begin, TypeOK
  <2>2. reqs'[r].attempt = reqs[r].attempt /\ reqs'[r].pc # "idle"
    BY <1>0, <2>1 DEF TypeOK, Req
  <2> QED  BY <1>5, <2>1, <2>2 DEF TypeOK, Begin, peers
<1>6. CASE Expire(r)
  <2>1. UNCHANGED <<channel, conns, work>> /\ Take({Id(r)})  BY <1>6 DEF Expire, peers
  <2>2. NoneEnters  BY <1>0, <2>1, TakeRemoves
  <2>3. \A q \in Requests : q # r => reqs'[q] = reqs[q]  BY <1>6 DEF Expire, TypeOK
  <2>4. CASE Retriable(r)
    <3>1. reqs' = [reqs EXCEPT ![r] = [reqs[r] EXCEPT !.pc = "idle", !.attempt = 2]]
      BY <1>6, <2>4 DEF Expire
    <3>2. reqs'[r].attempt = 2  BY <1>0, <3>1 DEF TypeOK, Req
    <3> QED  BY <1>6, <2>1, <2>2, <2>3, <2>4, <3>2 DEF Retriable, Expire
  <2>5. CASE ~Retriable(r)
    <3>1. \E pc \in {"cancel", "done"} : reqs' = [reqs EXCEPT ![r] = [reqs[r] EXCEPT !.pc = pc]]
      BY <1>6, <2>5 DEF Expire
    <3>2. reqs'[r].attempt = reqs[r].attempt /\ reqs'[r].pc # "idle"
      BY <1>0, <3>1 DEF TypeOK, Req
    <3> QED  BY <2>1, <2>2, <2>3, <3>2
  <2> QED  BY <2>4, <2>5
<1> QED  BY <1>2, <1>3, <1>4, <1>5, <1>6 DEF Request

LEMMA RouteKeeps ==
    ASSUME TypeOK, PendingHasBridge, StatusIsCurrent, StartedStreams, NEW c \in Conns, Route(c)
    PROVE  /\ PendingHasBridge' /\ StatusIsCurrent' /\ NoneEnters /\ UNCHANGED reqs
           /\ StartedStreams'
<1> DEFINE d == conns[c].dev
<1>0. d \in Devices /\ channel[d] \in Channel /\ conns[c].id \in Ids  BY DEF TypeOK, Conn
<1>1. ASSUME UNCHANGED <<channel, reqs>>, NoneEnters, StartedStreams'
      PROVE  PendingHasBridge' /\ StatusIsCurrent' /\ NoneEnters /\ UNCHANGED reqs
             /\ StartedStreams'
  BY <1>1 DEF PendingHasBridge, StatusIsCurrent, Bridge, NoneEnters, Device
<1>2. ASSUME UNCHANGED work  PROVE StartedStreams'
  BY <1>2 DEF StartedStreams, IsStream, Kind
<1>3. ASSUME NEW id \in Ids, NEW w, Working(c, id, w), w = "started" => IsStream(id)
      PROVE  StartedStreams'
  BY <1>3 DEF StartedStreams, Working, TypeOK, IsStream, Kind
<1>4. CASE StaleSpeaks(c) \/ Deliver(c) \/ CancelFrom(c)
  BY <1>1, <1>2, <1>4 DEF StaleSpeaks, Deliver, CancelFrom, tables, peers, NoneEnters
<1>5. CASE Overflow(c)
  <2>1. CutOff(c) \in SUBSET Ids  BY <1>0 DEF CutOff
  <2> QED  BY <1>1, <1>2, <1>5, <2>1, TakeRemoves DEF Overflow, peers
<1>6. CASE Report(c)
  <2> DEFINE new == [channel[d] EXCEPT !.seen = TRUE, !.status = "up", !.streams = TakesStreams(c)]
  <2>1. channel' = [channel EXCEPT ![d] = new]  BY <1>0, <1>6 DEF Report, TypeOK
  <2>2. new.bridge = c /\ new.status = "up"  BY <1>0, <1>6 DEF Report, Current, Bridge, Channel
  <2> HIDE DEF new
  <2>3. NoneEnters /\ UNCHANGED <<reqs, work>>  BY <1>6 DEF Report, tables, peers, NoneEnters
  <2> QED  BY <1>0, <1>2, <2>1, <2>2, <2>3, NoneIsNoConn, ChannelsKeep DEF TypeOK
<1>7. ASSUME NEW id \in Ids, Answer(c, id) \/ StreamEnd(c, id)
      PROVE  PendingHasBridge' /\ StatusIsCurrent' /\ NoneEnters /\ UNCHANGED reqs
             /\ StartedStreams'
  <2>1. Take({id}) /\ Working(c, id, "done")  BY <1>7 DEF Answer, StreamEnd
  <2> QED  BY <1>1, <1>3, <1>7, <2>1, TakeRemoves DEF Answer, StreamEnd
<1>8. ASSUME NEW id \in Ids, StreamStart(c, id)
      PROVE  PendingHasBridge' /\ StatusIsCurrent' /\ NoneEnters /\ UNCHANGED reqs
             /\ StartedStreams'
  <2>1. NoneEnters  BY <1>8 DEF StreamStart, TypeOK, NoneEnters
  <2> QED  BY <1>1, <1>3, <1>8, <2>1 DEF StreamStart
<1>9. ASSUME NEW id \in Ids, StreamRestart(c, id)
      PROVE  PendingHasBridge' /\ StatusIsCurrent' /\ NoneEnters /\ UNCHANGED reqs
             /\ StartedStreams'
  BY <1>1, <1>2, <1>9, TakeRemoves DEF StreamRestart, peers
<1>10. ASSUME NEW id \in Ids, StreamChunk(c, id)
       PROVE  PendingHasBridge' /\ StatusIsCurrent' /\ NoneEnters /\ UNCHANGED reqs
              /\ StartedStreams'
  BY <1>1, <1>2, <1>10 DEF StreamChunk, tables, NoneEnters
<1>11. ASSUME NEW id \in Ids, Cancelled(c, id)
       PROVE  PendingHasBridge' /\ StatusIsCurrent' /\ NoneEnters /\ UNCHANGED reqs
              /\ StartedStreams'
  BY <1>1, <1>3, <1>11 DEF Cancelled, tables, NoneEnters
<1> QED  BY <1>4, <1>5, <1>6, <1>7, <1>8, <1>9, <1>10, <1>11 DEF Route

\* What has not begun stays out of the tables, and nothing goes back to that.
LEMMA NotBeforeKept ==
    ASSUME AccountInv, Next, TypeOK'
    PROVE  NotBefore' /\ \A id \in Ids : NotYet(id)' => NotYet(id)
<1> USE DEF AccountInv, PendingIsAccounted
<1>1. ASSUME NoneEnters, UNCHANGED reqs
      PROVE  NotBefore' /\ \A id \in Ids : NotYet(id)' => NotYet(id)
  BY <1>1 DEF NotBefore, NotYet, NoneEnters
<1>2. ASSUME NEW r \in Requests, Request(r)
      PROVE  NotBefore' /\ \A id \in Ids : NotYet(id)' => NotYet(id)
  <2>a. PICK i \in Ids : i = Id(r)  BY IdOf
  <2>0. i = <<r, reqs[r].attempt>> /\ reqs[r].attempt \in 1..2
    BY <2>a DEF Id, TypeOK, Req
  <2>1. \A q \in Requests : q # r => reqs'[q] = reqs[q]  BY <1>2, RequestMoves
  <2>2. \/ reqs'[r].attempt = reqs[r].attempt /\ reqs'[r].pc # "idle"
        \/ reqs'[r].attempt = 2 /\ reqs[r].attempt = 1 /\ reqs[r].pc # "idle"
    BY <1>2, RequestMoves
  <2>3. ASSUME NEW id \in Ids, NotYet(id)'  PROVE NotYet(id)
    <3>1. id[1] \in Requests /\ id[2] \in 1..2  BY IdsFinite
    <3>2. CASE id[1] # r  BY <2>1, <2>3, <3>1, <3>2 DEF NotYet
    <3>3. CASE id[1] = r
      <4>1. id[2] > reqs'[r].attempt \/ (id[2] = reqs'[r].attempt /\ reqs'[r].pc = "idle")
        BY <2>3, <3>3 DEF NotYet
      <4>2. id[2] > reqs[r].attempt  BY <2>0, <2>2, <3>1, <4>1
      <4> QED  BY <3>3, <4>2 DEF NotYet
    <3> QED  BY <3>2, <3>3
  <2>4. CASE NoneEnters  BY <2>3, <2>4 DEF NotBefore, NoneEnters
  <2>5. CASE Begin(r)
    <3>1. \A id \in Ids : id # i => pending'[id] = pending[id]  BY <2>5, <2>a DEF Begin, TypeOK
    <3>2. ~NotYet(i)'
      <4>1. reqs' = [reqs EXCEPT ![r].pc = "queued", ![r].peer = Bridge(DeviceOf[r])]
        BY <2>5 DEF Begin
      <4>2. reqs'[r].attempt = reqs[r].attempt /\ reqs'[r].pc = "queued"
        BY <4>1 DEF TypeOK, Req
      <4> QED  BY <2>0, <4>2 DEF NotYet
    <3> QED  BY <2>3, <3>1, <3>2 DEF NotBefore
  <2> QED  BY <1>2, <2>3, <2>4, <2>5, RequestMoves
<1>3. ASSUME NEW c \in Conns, Connection(c) \/ Route(c)  PROVE NoneEnters /\ UNCHANGED reqs
  BY <1>3, ConnectionKeeps, RouteKeeps
<1>4. ASSUME NEW d \in Devices, Device_(d)  PROVE NoneEnters /\ UNCHANGED reqs
  BY <1>4, DeviceKeeps
<1> QED  BY <1>1, <1>2, <1>3, <1>4 DEF Next

LEMMA AccountInit == Init => AccountInv
<1> SUFFICES ASSUME Init  PROVE AccountInv
  OBVIOUS
<1>1. TypeOK
  <2>1. conns \in [Conns -> Conn]
    <3>1. \E d \in Devices : TRUE  BY RequestsAssumption
    <3>2. \E id \in Ids : TRUE
      <4>1. PICK r \in Requests : TRUE  BY RequestsAssumption
      <4>2. <<r, 1>> \in Ids  BY DEF Ids
      <4> QED  BY <4>2
    <3>3. (CHOOSE d \in Devices : TRUE) \in Devices /\ (CHOOSE id \in Ids : TRUE) \in Ids
      BY <3>1, <3>2
    <3>4. 0 \in 0..End  BY BoundsAssumption DEF End
    <3> QED  BY <3>3, <3>4 DEF Init, Conn
  <2>2. /\ reqs \in [Requests -> Req] /\ channel \in [Devices -> Channel]
        /\ sent \in [Ids -> 0..MaxChunks]
    BY NoneIsNoConn, BoundsAssumption DEF Init, Req
  <2>3. events \in [Ids -> Seq(0..End)] /\ read \in [Ids -> Seq(1..MaxChunks)]
    BY DEF Init
  <2> QED  BY <2>1, <2>2, <2>3 DEF Init, TypeOK, NoPending
<1>2. \A id \in Ids : ~pending[id].on  BY DEF Init, NoPending
<1>3. BytesMatch
  <2>1. \A k \in Kinds : PendingOf(k) = {}  BY <1>2 DEF PendingOf
  <2> QED  BY <2>1, SumOfNone DEF Init, BytesMatch
<1>4. StatusIsCurrent  BY DEF Init, StatusIsCurrent, Bridge, NoChannel
<1>5. PendingHasBridge /\ NotBefore  BY <1>2 DEF PendingHasBridge, NotBefore
<1>6. StartedStreams  BY DEF Init, StartedStreams
<1> QED  BY <1>1, <1>3, <1>4, <1>5, <1>6 DEF AccountInv, PendingIsAccounted

LEMMA AccountStep == AccountInv /\ [Next]_vars => AccountInv'
<1> SUFFICES ASSUME AccountInv, [Next]_vars  PROVE AccountInv'
  OBVIOUS
<1> USE DEF AccountInv, PendingIsAccounted
<1>1. ASSUME NEW c \in Conns, Connection(c)  PROVE AccountInv'
  <2>1. TypeOK' /\ BytesMatch'  BY <1>1, ConnectionTypes
  <2>2. PendingHasBridge' /\ StatusIsCurrent' /\ UNCHANGED work  BY <1>1, ConnectionKeeps
  <2>3. StartedStreams'  BY <2>2 DEF StartedStreams, IsStream, Kind
  <2>4. NotBefore'  BY <1>1, <2>1, NotBeforeKept DEF Next
  <2> QED  BY <2>1, <2>2, <2>3, <2>4
<1>2. ASSUME NEW c \in Conns, Route(c)  PROVE AccountInv'
  <2>1. TypeOK' /\ BytesMatch'  BY <1>2, RouteTypes
  <2>2. PendingHasBridge' /\ StatusIsCurrent' /\ StartedStreams'  BY <1>2, RouteKeeps
  <2>3. NotBefore'  BY <1>2, <2>1, NotBeforeKept DEF Next
  <2> QED  BY <2>1, <2>2, <2>3
<1>3. ASSUME NEW d \in Devices, Device_(d)  PROVE AccountInv'
  <2>1. TypeOK' /\ BytesMatch'  BY <1>3, DeviceTypes
  <2>2. PendingHasBridge' /\ StatusIsCurrent' /\ UNCHANGED work  BY <1>3, DeviceKeeps
  <2>3. StartedStreams'  BY <2>2 DEF StartedStreams, IsStream, Kind
  <2>4. NotBefore'  BY <1>3, <2>1, NotBeforeKept DEF Next
  <2> QED  BY <2>1, <2>2, <2>3, <2>4
<1>4. ASSUME NEW r \in Requests, Request(r)  PROVE AccountInv'
  <2>1. TypeOK' /\ BytesMatch'  BY <1>4, RequestTypes
  <2>2. UNCHANGED channel  BY <1>4, RequestMoves
  <2>3. StatusIsCurrent'  BY <2>2 DEF StatusIsCurrent, Bridge
  <2>4. PendingHasBridge'
    <3>1. CASE NoneEnters  BY <2>2, <3>1 DEF NoneEnters, PendingHasBridge, Bridge, Device
    <3>2. CASE Begin(r)
      <4>1. \A id \in Ids : id # Id(r) => pending'[id] = pending[id]
        BY <3>2 DEF Begin, TypeOK
      <4>2. Bridge(DeviceOf[r]) # None /\ Device(Id(r)) = DeviceOf[r]  BY <3>2, IdOf DEF Begin
      <4> QED  BY <2>2, <4>1, <4>2 DEF PendingHasBridge, Bridge, Device
    <3> QED  BY <1>4, <3>1, <3>2, RequestMoves
  <2>5. StartedStreams'
    <3>1. CASE UNCHANGED work  BY <3>1 DEF StartedStreams, IsStream, Kind
    <3>2. CASE SendRequest(r)
      <4>1. \A c \in Conns, id \in Ids : work'[c][id] = work[c][id] \/ work'[c][id] = "asked"
        BY <3>2 DEF SendRequest, TypeOK
      <4> QED  BY <4>1 DEF StartedStreams, IsStream, Kind
    <3> QED  BY <1>4, <3>1, <3>2, RequestMoves
  <2>6. NotBefore'  BY <1>4, <2>1, NotBeforeKept DEF Next
  <2> QED  BY <2>1, <2>3, <2>4, <2>5, <2>6
<1>5. CASE UNCHANGED vars
  <2>1. TypeOK'  BY <1>5 DEF vars, tables, peers, outcome, TypeOK
  <2>2. BytesMatch'  BY <1>5, SameTables DEF vars, tables
  <2>3. PendingHasBridge' /\ StatusIsCurrent' /\ NotBefore' /\ StartedStreams'
    BY <1>5 DEF vars, tables, peers, PendingHasBridge, StatusIsCurrent, NotBefore, NotYet,
                StartedStreams, Bridge, Device, IsStream, Kind
  <2> QED  BY <2>1, <2>2, <2>3
<1> QED  BY <1>1, <1>2, <1>3, <1>4, <1>5 DEF Next

\* The bytes the relay counts against the limits of its request tables are those
\* of the requests that wait, and every one of these waits for a bridge that is there.
THEOREM RequestsAreAccounted == Spec => []PendingIsAccounted
<1>1. AccountInv => PendingIsAccounted  BY DEF AccountInv
<1> QED  BY AccountInit, AccountStep, <1>1, PTL DEF Spec

-----------------------------------------------------------------------------
LEMMA OnlyFailedAreGone ==
    ASSUME NEW S, Failed(S), NEW id \in Ids, reply[id] = "none", reply'[id] = "gone"
    PROVE  id \in S /\ pending[id].on /\ ~IsStream(id)
BY DEF Failed

LEMMA GoneStep == AccountInv /\ [Next]_vars => [GoneWithBridge]_vars
<1> SUFFICES ASSUME AccountInv, Next, NEW id \in Ids, reply[id] = "none", reply'[id] = "gone"
             PROVE  /\ Bridge(Device(id)) # None /\ Bridge(Device(id))' = None
                    /\ \A c \in Conns : conns[c].kind = "bridge" /\ conns[c].pc = "ended"
                                        /\ conns'[c].pc = "closed" => Current(c)
  BY DEF GoneWithBridge
<1> USE DEF AccountInv, PendingIsAccounted
<1>0. reply' # reply  OBVIOUS
<1>d. Device(id) \in Devices  BY IdsFinite
<1>1. ASSUME NEW r \in Requests, Request(r)  PROVE FALSE
  <2>1. CASE ~StreamStarts(r) /\ ~ReadBody(r)
    <3>1. UNCHANGED outcome
      BY <1>1, <2>1 DEF Request, Begin, GiveUp, SendRequest, SendRefused, Unsent, Answered,
           Timeout, Expire, Abandon, AbandonCancel, StreamEndsEarly, StreamMisordered, BodyEnds, DropBody,
           CleanBody, CancelStream
    <3> QED  BY <1>0, <3>1 DEF outcome
  <2>2. CASE StreamStarts(r) \/ ReadBody(r)  BY <1>0, <2>2 DEF StreamStarts, ReadBody
  <2> QED  BY <2>1, <2>2
<1>2. ASSUME NEW d \in Devices, Device_(d), DisconnectRuntime(d)
      PROVE  Device(id) = d /\ Bridge(d) # None /\ channel'[d].bridge = None
             /\ UNCHANGED conns
  <2>1. id \in OfDevice(d) /\ pending[id].on
    BY <1>2, OnlyFailedAreGone DEF DisconnectRuntime
  <2>2. channel'[d].bridge = None  BY <1>2 DEF DisconnectRuntime, NoChannel, TypeOK
  <2>3. UNCHANGED conns
    BY <1>2 DEF Device_, Disconnect, Delete, DeleteFails, DeleteSucceeds
  <2> QED  BY <2>1, <2>2, <2>3 DEF OfDevice, PendingHasBridge
<1>3. ASSUME NEW d \in Devices, Device_(d), ~DisconnectRuntime(d)  PROVE FALSE
  BY <1>0, <1>3 DEF Device_, Disconnect, Delete, DeleteFails, DeleteSucceeds, outcome
<1>4. ASSUME NEW c \in Conns, UnregisterBridge(c)
      PROVE  /\ Device(id) = conns[c].dev /\ Current(c)
             /\ channel'[conns[c].dev].bridge = None
             /\ \A b \in Conns : conns'[b].pc # conns[b].pc => b = c
  <2>0. conns[c].dev \in Devices /\ channel[conns[c].dev] \in Channel  BY DEF TypeOK, Conn
  <2>1. id \in OfDevice(conns[c].dev)  BY <1>4, OnlyFailedAreGone DEF UnregisterBridge
  <2>2. channel'[conns[c].dev].bridge = None
    <3> DEFINE new == [channel[conns[c].dev] EXCEPT !.bridge = None, !.seen = FALSE,
                                                    !.status = "down"]
    <3>1. channel' = [channel EXCEPT ![conns[c].dev] = Pruned(new)]
      BY <1>4 DEF UnregisterBridge
    <3>2. Pruned(new).bridge = None  BY <2>0 DEF Pruned, NoChannel, Channel
    <3> QED  BY <2>0, <3>1, <3>2 DEF TypeOK
  <2>3. Current(c) /\ Goto(c, "closed")  BY <1>4 DEF UnregisterBridge, OwnBridge
  <2> QED  BY <2>1, <2>2, <2>3 DEF OfDevice, Goto, TypeOK
<1>5. ASSUME NEW c \in Conns, Connection(c), ~UnregisterBridge(c)  PROVE FALSE
  BY <1>0, <1>5 DEF Connection, Connect, RegisterBridge, RegisterBrowser, Announce, Hangup,
       UnregisterOther, outcome
<1>6. ASSUME NEW c \in Conns, Route(c)  PROVE FALSE
  <2>1. CASE StaleSpeaks(c) \/ Report(c) \/ Deliver(c) \/ Overflow(c) \/ CancelFrom(c)
    BY <1>0, <2>1 DEF StaleSpeaks, Report, Deliver, Overflow, CancelFrom, outcome
  <2>2. ASSUME NEW x \in Ids, StreamStart(c, x) \/ StreamChunk(c, x) \/ Cancelled(c, x)
        PROVE  FALSE
    BY <1>0, <2>2 DEF StreamStart, StreamChunk, Cancelled, outcome
  <2>3. ASSUME NEW x \in Ids, Answer(c, x)  PROVE FALSE
    BY <2>3 DEF Answer, TypeOK
  <2>4. ASSUME NEW x \in Ids, StreamRestart(c, x) \/ StreamEnd(c, x)  PROVE FALSE
    <3>1. IsStream(x) /\ Failed({x})
      BY <2>4 DEF StreamRestart, StreamEnd, StartedStreams, Works
    <3> QED  BY <3>1, OnlyFailedAreGone
  <2> QED  BY <1>6, <2>1, <2>2, <2>3, <2>4 DEF Route
<1>7. ASSUME NEW c \in Conns, UnregisterBridge(c)
      PROVE  /\ Bridge(Device(id)) # None /\ Bridge(Device(id))' = None
             /\ \A b \in Conns : conns[b].kind = "bridge" /\ conns[b].pc = "ended"
                                 /\ conns'[b].pc = "closed" => Current(b)
  <2>1. Bridge(Device(id))' = None  BY <1>4, <1>7 DEF Bridge, Device
  <2> QED  BY <1>4, <1>7, <2>1, NoneIsNoConn DEF Current
<1>8. ASSUME NEW d \in Devices, Device_(d), DisconnectRuntime(d)
      PROVE  /\ Bridge(Device(id)) # None /\ Bridge(Device(id))' = None
             /\ UNCHANGED conns
  BY <1>2, <1>8 DEF Bridge, Device
<1> QED  BY <1>1, <1>3, <1>5, <1>6, <1>7, <1>8 DEF Next

\* A client is told that its device is disconnected only in the step in which
\* the device's bridge goes; the end of a replaced connection is no such step.
THEOREM RequestsFailWithBridge == Spec => FailsWithBridge
BY AccountInit, AccountStep, GoneStep, PTL DEF Spec, FailsWithBridge

-----------------------------------------------------------------------------
(* Part 2: the streams.                                                     *)

\* What the bridge has not been asked yet.
Unasked(id) == \/ NotYet(id)
               \/ id[2] = reqs[id[1]].attempt /\ reqs[id[1]].pc \in {"queued", "unsent"}

\* Only one connection is ever asked about a request, and one to its device; a
\* connection asked about a stream takes streams.
Registered(c) == conns[c].pc \notin {"unused", "accepted"}
Active(c, id) == work[c][id] \in {"asked", "started"}
WorkersFit ==
    \A id \in Ids, c \in Conns :
        /\ work[c][id] # "none" \/ <<c, id>> \in cancels => ~Unasked(id)
        /\ Active(c, id) =>
              /\ Registered(c) /\ conns[c].dev = Device(id)
              /\ IsStream(id) => TakesStreams(c)
              /\ \A b \in Conns : Active(b, id) => b = c

\* The bridge of a channel is a connection to its device, and can what it
\* reported.
BridgesFit ==
    \A d \in Devices :
        /\ channel[d].bridge # None =>
              Registered(channel[d].bridge) /\ conns[channel[d].bridge].dev = d
        /\ channel[d].seen /\ channel[d].streams =>
              channel[d].bridge # None /\ TakesStreams(channel[d].bridge)

\* A request is to be sent to a connection of its device; if that is still the bridge,
\* it waits.
PeersFit ==
    \A r \in Requests : reqs[r].pc = "queued" => LET p == reqs[r].peer IN
        /\ p \in Conns /\ Registered(p) /\ conns[p].dev = DeviceOf[r]
        /\ KindOf[r] = "stream" => TakesStreams(p)
        /\ Bridge(DeviceOf[r]) = p => pending[Id(r)].on

\* What a connection holds of a stream no other connection works on.
Busy(c) == conns[c].pc \in {"event", "overflow", "cancel"}
HoldersFit ==
    \A c \in Conns : Busy(c) => LET id == conns[c].id IN
        /\ IsStream(id) /\ ~Unasked(id) /\ conns[c].dev = Device(id)
        /\ conns[c].pc = "event" => conns[c].event \in 0..MaxChunks
        /\ \A b \in Conns : Active(b, id) \/ (Busy(b) /\ conns[b].id = id) => b = c

\* What has not begun has left no trace; what has ended does not wait.
TracesFit ==
    \A id \in Ids :
        /\ NotYet(id) => events[id] = <<>> /\ sent[id] = 0
        /\ pending[id].on => \A n \in 1..Len(events[id]) : events[id][n] # End

\* Of the chunks 1..m the client has read the first, the others are queued in
\* their order.
Sound(e, rd, m) ==
    /\ Len(rd) <= m
    /\ \A n \in 1..Len(rd) : rd[n] = n
    /\ \A j \in 1..Len(e) : e[j] \in 1..MaxChunks => Len(rd) < e[j] /\ e[j] <= m
    /\ \A j, k \in 1..Len(e) : j < k /\ e[j] \in 1..MaxChunks /\ e[k] \in 1..MaxChunks => e[j] < e[k]
    /\ \A n \in (Len(rd) + 1)..m : \E j \in 1..Len(e) : e[j] = n

\* The chunk after them may be in the hands of the connection; nothing more is
\* missing while the stream is in the table and not about to be cut.
InHand(c, id) == conns[c].pc = "event" /\ conns[c].id = id /\ conns[c].event # Start
Lagging(c, id) == InHand(c, id) \/ (conns[c].pc = "overflow" /\ conns[c].id = id)
Whole(id, m) ==
    /\ Sound(events[id], read[id], m) /\ m <= sent[id]
    /\ \A c \in Conns : InHand(c, id) => conns[c].event = m + 1 /\ sent[id] = m + 1
    /\ pending[id].on => m = sent[id] \/ \E c \in Conns : Lagging(c, id)
StreamsWhole == \A id \in Ids : \E m \in 0..MaxChunks : Whole(id, m)

StreamInv == /\ AccountInv /\ WorkersFit /\ BridgesFit /\ PeersFit /\ HoldersFit
             /\ TracesFit /\ StreamsWhole /\ NobodyStreamsToNobody

LEMMA AccountOf ==
    ASSUME AccountInv
    PROVE  TypeOK /\ BytesMatch /\ PendingHasBridge /\ StatusIsCurrent /\ NotBefore /\ StartedStreams
BY DEF AccountInv, PendingIsAccounted

\* A request is queued when it begins and unsent when its bridge's queue was full.
LEMMA RequestPcs ==
    ASSUME TypeOK, NEW r \in Requests, Request(r), reqs'[r].pc \in {"queued", "unsent"}
    PROVE  \/ Begin(r)
           \/ /\ SendRefused(r) /\ reqs'[r].pc = "unsent"
              /\ reqs'[r].attempt = reqs[r].attempt
<1>0. reqs[r] \in Req  BY DEF TypeOK
<1>1. ASSUME NEW pc, Step(r, pc), pc \notin {"queued", "unsent"}  PROVE FALSE
  <2>1. reqs' = [reqs EXCEPT ![r] = [reqs[r] EXCEPT !.pc = pc]]  BY <1>1 DEF Step, TypeOK
  <2>2. [reqs[r] EXCEPT !.pc = pc].pc = pc  BY <1>0 DEF Req
  <2> QED  BY <1>1, <2>1, <2>2 DEF TypeOK
<1>2. ASSUME \/ GiveUp(r) \/ SendRequest(r) \/ Unsent(r) \/ Answered(r) \/ Timeout(r)
             \/ Abandon(r) \/ AbandonCancel(r) \/ StreamStarts(r) \/ StreamEndsEarly(r) \/ StreamMisordered(r)
             \/ BodyEnds(r) \/ DropBody(r) \/ CleanBody(r) \/ CancelStream(r)
      PROVE  FALSE
  <2>1. \E pc \in {"done", "wait", "expired", "abandoned", "body", "cancel", "cleanup",
                "dropped"} : Step(r, pc)
    BY <1>2 DEF GiveUp, SendRequest, Unsent, Answered, Timeout, Abandon, AbandonCancel, StreamStarts,
         StreamEndsEarly, StreamMisordered, BodyEnds, DropBody, CleanBody, CleanedTo, CancelStream
  <2> QED  BY <1>1, <2>1
<1>3. ASSUME ReadBody(r)  PROVE FALSE
  <2>1. reqs[r].pc = "body" /\ (UNCHANGED reqs \/ Step(r, "done"))  BY <1>3 DEF ReadBody
  <2> QED  BY <1>1, <2>1
<1>4. ASSUME Expire(r)  PROVE FALSE
  <2>1. \/ reqs' = [reqs EXCEPT ![r] = [reqs[r] EXCEPT !.pc = "idle", !.attempt = 2]]
        \/ \E pc \in {"cancel", "done"} : reqs' = [reqs EXCEPT ![r] = [reqs[r] EXCEPT !.pc = pc]]
    BY <1>4 DEF Expire
  <2>2. [reqs[r] EXCEPT !.pc = "idle", !.attempt = 2].pc = "idle"  BY <1>0 DEF Req
  <2>3. \A pc : [reqs[r] EXCEPT !.pc = pc].pc = pc  BY <1>0 DEF Req
  <2> QED  BY <2>1, <2>2, <2>3 DEF TypeOK
<1>5. ASSUME SendRefused(r)  PROVE reqs'[r].attempt = reqs[r].attempt /\ reqs'[r].pc = "unsent"
  <2>1. reqs' = [reqs EXCEPT ![r] = [reqs[r] EXCEPT !.pc = "unsent"]]
    BY <1>5 DEF SendRefused, Step, TypeOK
  <2>2. /\ [reqs[r] EXCEPT !.pc = "unsent"].attempt = reqs[r].attempt
        /\ [reqs[r] EXCEPT !.pc = "unsent"].pc = "unsent"
    BY <1>0 DEF Req
  <2> QED  BY <2>1, <2>2 DEF TypeOK
<1> QED  BY <1>2, <1>3, <1>4, <1>5 DEF Request

LEMMA OthersKeep ==
    ASSUME AccountInv, \/ \E c \in Conns : Connection(c) \/ Route(c)
                       \/ \E d \in Devices : Device_(d)
    PROVE  NoneEnters /\ UNCHANGED reqs
BY AccountOf, ConnectionKeeps, RouteKeeps, DeviceKeeps

\* What was asked stays asked.
LEMMA UnaskedKept ==
    ASSUME AccountInv, Next, TypeOK'
    PROVE  \A id \in Ids : (Unasked(id)' => Unasked(id)) /\ (NotYet(id)' => NotYet(id))
<1>1. \A id \in Ids : NotYet(id)' => NotYet(id)  BY NotBeforeKept
<1>2. ASSUME UNCHANGED reqs  PROVE \A id \in Ids : Unasked(id)' => Unasked(id)
  BY <1>2 DEF Unasked, NotYet
<1>3. ASSUME NEW r \in Requests, Request(r), NEW id \in Ids, Unasked(id)', ~NotYet(id)'
      PROVE  Unasked(id)
  <2>0. TypeOK /\ id[1] \in Requests /\ id[2] \in 1..2  BY AccountOf, IdsFinite
  <2>1. id[2] = reqs'[id[1]].attempt /\ reqs'[id[1]].pc \in {"queued", "unsent"}
    BY <1>3 DEF Unasked
  <2>2. CASE id[1] # r  BY <1>3, <2>0, <2>1, <2>2, RequestMoves DEF Unasked
  <2>3. CASE id[1] = r
    <3>1. CASE Begin(r)
      <4>1. reqs' = [reqs EXCEPT ![r].pc = "queued", ![r].peer = Bridge(DeviceOf[r])]
            /\ reqs[r].pc = "idle"
        BY <3>1 DEF Begin
      <4>2. reqs'[r].attempt = reqs[r].attempt  BY <2>0, <4>1 DEF TypeOK, Req
      <4> QED  BY <2>1, <2>3, <4>1, <4>2 DEF Unasked, NotYet
    <3>2. CASE SendRefused(r) /\ reqs'[r].attempt = reqs[r].attempt
      BY <2>1, <2>3, <3>2 DEF Unasked, SendRefused
    <3> QED  BY <1>3, <2>0, <2>1, <2>3, <3>1, <3>2, RequestPcs
  <2> QED  BY <2>2, <2>3
<1> QED  BY <1>1, <1>2, <1>3, OthersKeep DEF Next, Unasked

\* A connection that was registered stays so, and with its device.
LEMMA ConnsStay ==
    ASSUME AccountInv, Next, NEW c \in Conns, Registered(c)
    PROVE  Registered(c)' /\ conns'[c].dev = conns[c].dev
<1>0. TypeOK  BY AccountOf
<1>1. ASSUME UNCHANGED conns  PROVE Registered(c)' /\ conns'[c].dev = conns[c].dev
  BY <1>1 DEF Registered
<1>2. ASSUME NEW b \in Conns, NEW pc, Goto(b, pc), pc \notin {"unused", "accepted"}
      PROVE  Registered(c)' /\ conns'[c].dev = conns[c].dev
  <2>1. PICK q \in Conn : q = conns[b]  BY <1>0 DEF TypeOK
  <2>2. conns' = [conns EXCEPT ![b] = [q EXCEPT !.pc = pc]]  BY <1>0, <1>2, <2>1 DEF Goto, TypeOK
  <2>3. [q EXCEPT !.pc = pc].pc = pc /\ [q EXCEPT !.pc = pc].dev = q.dev  BY DEF Conn
  <2> QED  BY <1>0, <1>2, <2>1, <2>2, <2>3 DEF Registered, TypeOK
<1>3. ASSUME NEW b \in Conns, NEW id, NEW e, Hold(b, id, e)
      PROVE  Registered(c)' /\ conns'[c].dev = conns[c].dev
  <2>1. PICK q \in Conn : q = conns[b]  BY <1>0 DEF TypeOK
  <2>2. conns' = [conns EXCEPT ![b] = [q EXCEPT !.pc = "event", !.id = id, !.event = e]]
    BY <1>0, <1>3, <2>1 DEF Hold, TypeOK
  <2> DEFINE new == [q EXCEPT !.pc = "event", !.id = id, !.event = e]
  <2>3. new.pc = "event" /\ new.dev = q.dev  BY DEF Conn
  <2> HIDE DEF new
  <2>4. conns' = [conns EXCEPT ![b] = new]  BY <2>2 DEF new
  <2> QED  BY <1>0, <2>1, <2>3, <2>4 DEF Registered, TypeOK
<1>4. ASSUME NEW b \in Conns, Connection(b)
      PROVE  Registered(c)' /\ conns'[c].dev = conns[c].dev
  <2>1. ASSUME NEW d \in Devices, NEW kind, Connect(b, kind, d)
        PROVE  Registered(c)' /\ conns'[c].dev = conns[c].dev
    <3>1. c # b  BY <2>1 DEF Connect, Registered
    <3>2. conns'[c] = conns[c]  BY <1>0, <2>1, <3>1 DEF Connect, TypeOK
    <3> QED  BY <3>2 DEF Registered
  <2>2. CASE \/ RegisterBridge(b) \/ RegisterBrowser(b) \/ Announce(b) \/ Hangup(b)
             \/ UnregisterBridge(b) \/ UnregisterOther(b)
    <3>1. \E pc \in {"announce", "open", "ended", "closed"} : Goto(b, pc)
      BY <2>2 DEF RegisterBridge, RegisterBrowser, Announce, Hangup, UnregisterBridge,
           UnregisterOther
    <3> QED  BY <1>2, <3>1
  <2> QED  BY <1>4, <2>1, <2>2 DEF Connection
<1>5. ASSUME NEW b \in Conns, Route(b)
      PROVE  Registered(c)' /\ conns'[c].dev = conns[c].dev
  <2>1. CASE StaleSpeaks(b) \/ Deliver(b) \/ Overflow(b) \/ CancelFrom(b)
    <3>1. \E pc \in {"open", "ended", "overflow", "cancel"} : Goto(b, pc)
      BY <2>1 DEF StaleSpeaks, Deliver, Overflow, Cut, CancelFrom
    <3> QED  BY <1>2, <3>1
  <2>2. CASE Report(b)  BY <1>1, <2>2 DEF Report
  <2>3. ASSUME NEW id \in Ids, \/ Answer(b, id) \/ StreamStart(b, id) \/ StreamChunk(b, id)
                               \/ StreamEnd(b, id) \/ Cancelled(b, id)
        PROVE  Registered(c)' /\ conns'[c].dev = conns[c].dev
    <3>1. UNCHANGED conns \/ \E e \in {Start, sent[id] + 1} : Hold(b, id, e)
      BY <2>3 DEF Answer, StreamStart, StreamChunk, StreamEnd, Cancelled
    <3> QED  BY <1>1, <1>3, <3>1
  <2>4. ASSUME NEW id \in Ids, StreamRestart(b, id)
        PROVE  Registered(c)' /\ conns'[c].dev = conns[c].dev
    <3>1. PICK q \in Conn : q = conns[b]  BY <1>0 DEF TypeOK
    <3> DEFINE new == [q EXCEPT !.pc = "cancel", !.id = id]
    <3>2. conns' = [conns EXCEPT ![b] = new]  BY <1>0, <2>4, <3>1 DEF StreamRestart, TypeOK
    <3>3. new.pc = "cancel" /\ new.dev = q.dev  BY DEF Conn
    <3> HIDE DEF new
    <3> QED  BY <1>0, <3>1, <3>2, <3>3 DEF Registered, TypeOK
  <2> QED  BY <1>5, <2>1, <2>2, <2>3, <2>4 DEF Route
<1>6. ASSUME NEW d \in Devices, Device_(d)  PROVE UNCHANGED conns
  BY <1>6 DEF Device_, Disconnect, Delete, DeleteFails, DeleteSucceeds
<1> QED  BY <1>0, <1>1, <1>4, <1>5, <1>6, RequestMoves DEF Next

LEMMA WorkersKept ==
    ASSUME AccountInv, Next, TypeOK', WorkersFit,
           \A c \in Conns, id \in Ids :
               /\ work'[c][id] # "none" \/ <<c, id>> \in cancels'
                     => work[c][id] # "none" \/ <<c, id>> \in cancels \/ ~Unasked(id)
               /\ Active(c, id)' => Active(c, id)
    PROVE  WorkersFit'
<1> SUFFICES ASSUME NEW id \in Ids, NEW c \in Conns
             PROVE  /\ work'[c][id] # "none" \/ <<c, id>> \in cancels' => ~Unasked(id)'
                    /\ Active(c, id)' =>
                          /\ Registered(c)' /\ conns'[c].dev = Device(id)
                          /\ IsStream(id) => TakesStreams(c)
                          /\ \A b \in Conns : Active(b, id)' => b = c
  BY DEF WorkersFit, Device, IsStream, Kind, TakesStreams
<1>1. work'[c][id] # "none" \/ <<c, id>> \in cancels' => ~Unasked(id)'
  BY UnaskedKept DEF WorkersFit
<1>2. ASSUME Active(c, id)'
      PROVE  /\ Registered(c)' /\ conns'[c].dev = Device(id)
             /\ IsStream(id) => TakesStreams(c)
             /\ \A b \in Conns : Active(b, id)' => b = c
  <2>1. Active(c, id) /\ \A b \in Conns : Active(b, id)' => Active(b, id)  BY <1>2
  <2> QED  BY <2>1, ConnsStay DEF WorkersFit
<1> QED  BY <1>1, <1>2

LEMMA WorkersStep ==
    ASSUME AccountInv, Next, TypeOK', WorkersFit, PeersFit, HoldersFit
    PROVE  WorkersFit'
<1>0. TypeOK  BY AccountOf
<1>1. ASSUME UNCHANGED <<work, cancels>>  PROVE WorkersFit'
  BY <1>1, WorkersKept DEF Active
<1>2. ASSUME NEW c \in Conns, Connection(c)  PROVE UNCHANGED <<work, cancels>>
  BY <1>2 DEF Connection, Connect, RegisterBridge, RegisterBrowser, Announce, Hangup,
     UnregisterBridge, UnregisterOther, peers
<1>3. ASSUME NEW d \in Devices, Device_(d)  PROVE UNCHANGED <<work, cancels>>
  BY <1>3 DEF Device_, Disconnect, Delete, DeleteFails, DeleteSucceeds, peers
<1>4. ASSUME NEW d \in Devices, NEW i \in Ids, CancelAt(d, i), ~Unasked(i), UNCHANGED work
      PROVE  WorkersFit'
  <2>1. \A c \in Conns, id \in Ids : <<c, id>> \in cancels' => <<c, id>> \in cancels \/ id = i
    BY <1>4 DEF CancelAt
  <2> QED  BY <1>4, <2>1, WorkersKept DEF Active
<1>5. ASSUME NEW r \in Requests, Request(r)  PROVE WorkersFit'
  <2>1. CASE CancelStream(r)
    <3>1. PICK i \in Ids : i = Id(r) /\ i[1] = r /\ i[2] = reqs[r].attempt  BY <1>0, IdOf
    <3>2. reqs[r].attempt \in 1..2 /\ DeviceOf[r] \in Devices  BY <1>0, IdOf DEF TypeOK, Req
    <3>3. ~Unasked(i)  BY <2>1, <3>1, <3>2 DEF CancelStream, Unasked, NotYet
    <3>4. CancelAt(DeviceOf[r], i) /\ UNCHANGED work  BY <2>1, <3>1 DEF CancelStream
    <3> QED  BY <1>4, <3>2, <3>3, <3>4
  <2>2. CASE SendRequest(r)
    <3>1. PICK i \in Ids : i = Id(r) /\ i[1] = r /\ i[2] = reqs[r].attempt  BY <1>0, IdOf
    <3>2. PICK p \in Conns : p = reqs[r].peer /\ Registered(p) /\ conns[p].dev = DeviceOf[r]
                             /\ (KindOf[r] = "stream" => TakesStreams(p))
      BY <2>2 DEF SendRequest, PeersFit
    <3>3. Unasked(i)  BY <2>2, <3>1 DEF SendRequest, Unasked
    <3>4. work' = [work EXCEPT ![p][i] = "asked"] /\ UNCHANGED <<cancels, conns>>
      BY <2>2, <3>1, <3>2 DEF SendRequest
    <3>5. \A c \in Conns, id \in Ids : id # i \/ c # p => work'[c][id] = work[c][id]
      BY <1>0, <3>4 DEF TypeOK
    <3>6. ~Unasked(i)'
      <4>1. Step(r, "wait")  BY <2>2 DEF SendRequest
      <4>2. reqs' = [reqs EXCEPT ![r] = [reqs[r] EXCEPT !.pc = "wait"]]
        BY <1>0, <4>1 DEF Step, TypeOK
      <4>3. reqs'[r].pc = "wait" /\ reqs'[r].attempt = reqs[r].attempt
        BY <1>0, <4>2 DEF TypeOK, Req
      <4>4. i[2] = reqs'[r].attempt /\ i[2] \in 1..2  BY <3>1, <4>3, IdsFinite
      <4> QED  BY <3>1, <4>3, <4>4 DEF Unasked, NotYet
    <3>7. ASSUME NEW c \in Conns, NEW id \in Ids, id # i
          PROVE  /\ work'[c][id] # "none" \/ <<c, id>> \in cancels' => ~Unasked(id)'
                 /\ Active(c, id)' =>
                       /\ Registered(c)' /\ conns'[c].dev = Device(id)
                       /\ IsStream(id) => TakesStreams(c)
                       /\ \A b \in Conns : Active(b, id)' => b = c
      <4>1. \A b \in Conns : work'[b][id] = work[b][id]  BY <3>5, <3>7
      <4> QED  BY <3>4, <4>1, UnaskedKept DEF WorkersFit, Active, Registered
    <3>8. ASSUME NEW c \in Conns, Active(c, i)'
          PROVE  /\ Registered(c)' /\ conns'[c].dev = Device(i)
                 /\ IsStream(i) => TakesStreams(c)
                 /\ \A b \in Conns : Active(b, i)' => b = c
      <4>0. \A b \in Conns : ~Active(b, i)  BY <3>3 DEF WorkersFit, Active
      <4>1. \A b \in Conns : Active(b, i)' => b = p  BY <3>5, <4>0 DEF Active
      <4>2. c = p  BY <3>8, <4>1
      <4>3. Device(i) = DeviceOf[r] /\ (IsStream(i) => KindOf[r] = "stream")
        BY <1>0, <3>1, IdOf
      <4> QED  BY <3>2, <3>4, <4>1, <4>2, <4>3 DEF Registered
    <3> SUFFICES ASSUME NEW id \in Ids, NEW c \in Conns
                 PROVE  /\ work'[c][id] # "none" \/ <<c, id>> \in cancels' => ~Unasked(id)'
                        /\ Active(c, id)' =>
                              /\ Registered(c)' /\ conns'[c].dev = Device(id)
                              /\ IsStream(id) => TakesStreams(c)
                              /\ \A b \in Conns : Active(b, id)' => b = c
      BY DEF WorkersFit, Device, IsStream, Kind, TakesStreams
    <3> QED  BY <3>6, <3>7, <3>8
  <2>3. CASE ~CancelStream(r) /\ ~SendRequest(r)
    <3>1. UNCHANGED <<work, cancels>>
      BY <1>5, <2>3 DEF Request, Begin, GiveUp, SendRefused, Unsent, Answered, Timeout, Expire,
         Abandon, AbandonCancel, StreamStarts, StreamEndsEarly, StreamMisordered, ReadBody,
         BodyEnds, DropBody,
         CleanBody, peers
    <3> QED  BY <1>1, <3>1
  <2> QED  BY <2>1, <2>2, <2>3
<1>6. ASSUME NEW c \in Conns, NEW i \in Ids, NEW w \in {"started", "done"}, Working(c, i, w),
             work[c][i] # "none" \/ <<c, i>> \in cancels, w = "started" => Active(c, i),
             cancels' \subseteq cancels
      PROVE  WorkersFit'
  <2>1. \A b \in Conns, id \in Ids : work'[b][id] = IF b = c /\ id = i THEN w ELSE work[b][id]
    BY <1>0, <1>6 DEF Working, TypeOK
  <2> QED  BY <1>6, <2>1, WorkersKept DEF Active
<1>7. ASSUME NEW c \in Conns, Route(c)  PROVE WorkersFit'
  <2>1. CASE StaleSpeaks(c) \/ Report(c) \/ Deliver(c) \/ Overflow(c)
    BY <1>1, <2>1 DEF StaleSpeaks, Report, Deliver, Overflow, peers
  <2>2. CASE CancelFrom(c)
    <3>1. conns[c].id \in Ids /\ conns[c].dev \in Devices  BY <1>0 DEF TypeOK, Conn
    <3>2. ~Unasked(conns[c].id)  BY <1>7, <2>2 DEF CancelFrom, HoldersFit, Busy
    <3> QED  BY <1>4, <2>2, <3>1, <3>2 DEF CancelFrom
  <2>3. ASSUME NEW i \in Ids, Answer(c, i) \/ StreamEnd(c, i)  PROVE WorkersFit'
    BY <1>6, <2>3 DEF Answer, StreamEnd, Works
  <2>4. ASSUME NEW i \in Ids, StreamStart(c, i)  PROVE WorkersFit'
    BY <1>6, <2>4 DEF StreamStart, Works, Active
  <2>5. ASSUME NEW i \in Ids, StreamRestart(c, i) \/ StreamChunk(c, i)  PROVE WorkersFit'
    BY <1>1, <2>5 DEF StreamRestart, StreamChunk, peers
  <2>6. ASSUME NEW i \in Ids, Cancelled(c, i)  PROVE WorkersFit'
    BY <1>6, <2>6 DEF Cancelled
  <2> QED  BY <1>7, <2>1, <2>2, <2>3, <2>4, <2>5, <2>6 DEF Route
<1> QED  BY <1>1, <1>2, <1>3, <1>5, <1>7 DEF Next

\* A bridge of a channel is a connection that stays what it was.
LEMMA BridgesKept ==
    ASSUME AccountInv, Next, BridgesFit,
           \A d \in Devices :
               /\ channel'[d].bridge = channel[d].bridge \/ channel'[d].bridge = None
               /\ channel'[d].seen /\ channel'[d].streams =>
                     /\ channel[d].seen /\ channel[d].streams
                     /\ channel'[d].bridge = channel[d].bridge
    PROVE  BridgesFit'
<1> SUFFICES ASSUME NEW d \in Devices
             PROVE  /\ channel'[d].bridge # None =>
                          conns'[channel'[d].bridge].pc \notin {"unused", "accepted"}
                          /\ conns'[channel'[d].bridge].dev = d
                    /\ channel'[d].seen /\ channel'[d].streams =>
                          channel'[d].bridge # None /\ TakesStreams(channel'[d].bridge)
  BY DEF BridgesFit, TakesStreams, Registered
<1>1. PICK b : b = channel[d].bridge  OBVIOUS
<1>2. ASSUME channel'[d].bridge # None
      PROVE  conns'[channel'[d].bridge].pc \notin {"unused", "accepted"}
                          /\ conns'[channel'[d].bridge].dev = d
  <2>1. channel'[d].bridge = b /\ b # None  BY <1>1, <1>2
  <2>2. b \in Conns  BY <1>1, <2>1, AccountOf, BridgeIs DEF Bridge
  <2>3. Registered(b) /\ conns[b].dev = d  BY <1>1, <2>1 DEF BridgesFit
  <2>4. Registered(b)' /\ conns'[b].dev = d  BY <2>2, <2>3, ConnsStay
  <2> QED  BY <2>1, <2>4 DEF Registered
<1>3. channel'[d].seen /\ channel'[d].streams => channel'[d].bridge # None /\ TakesStreams(channel'[d].bridge)
  BY DEF BridgesFit
<1> QED  BY <1>2, <1>3

\* What an action on the channel of one device changes of it.
LEMMA ChannelMoves ==
    ASSUME TypeOK, NEW c \in Conns, Connection(c)
    PROVE  \/ RegisterBridge(c)
           \/ \A d \in Devices :
                 /\ \/ channel'[d].bridge = channel[d].bridge
                    \/ UnregisterBridge(c) /\ conns[c].dev = d /\ channel'[d].bridge = None
                 /\ channel'[d].seen /\ channel'[d].streams =>
                       /\ channel[d].seen /\ channel[d].streams
                       /\ channel'[d].bridge = channel[d].bridge
<1> DEFINE e == conns[c].dev
           ch == channel[e]
<1>0. e \in Devices /\ ch \in Channel  BY DEF TypeOK, Conn
<1>1. CASE UNCHANGED channel  BY <1>1
<1>2. ASSUME NEW new, channel' = [channel EXCEPT ![e] = new],
             new.bridge = ch.bridge \/ (UnregisterBridge(c) /\ new.bridge = None),
             new.seen /\ new.streams => ch.seen /\ ch.streams /\ new.bridge = ch.bridge
      PROVE  \A d \in Devices :
                /\ \/ channel'[d].bridge = channel[d].bridge
                   \/ UnregisterBridge(c) /\ conns[c].dev = d /\ channel'[d].bridge = None
                /\ channel'[d].seen /\ channel'[d].streams =>
                      /\ channel[d].seen /\ channel[d].streams
                      /\ channel'[d].bridge = channel[d].bridge
  BY <1>0, <1>2 DEF TypeOK
<1>3. CASE RegisterBrowser(c)
  <2> DEFINE new == [ch EXCEPT !.browsers = ch.browsers \cup {c}]
  <2>1. channel' = [channel EXCEPT ![e] = new]  BY <1>0, <1>3 DEF RegisterBrowser, TypeOK
  <2>2. new.bridge = ch.bridge /\ new.seen = ch.seen /\ new.streams = ch.streams
    BY <1>0 DEF Channel
  <2> HIDE DEF new
  <2> QED  BY <1>2, <2>1, <2>2
<1>4. CASE Announce(c)
  <2> DEFINE new == [ch EXCEPT !.status = "up"]
  <2>1. channel' = [channel EXCEPT ![e] = new] \/ channel' = channel
    BY <1>0, <1>4 DEF Announce, TypeOK
  <2>2. new.bridge = ch.bridge /\ new.seen = ch.seen /\ new.streams = ch.streams
    BY <1>0 DEF Channel
  <2> HIDE DEF new
  <2> QED  BY <1>1, <1>2, <2>1, <2>2
<1>5. CASE UnregisterBridge(c)
  <2> DEFINE down == [ch EXCEPT !.bridge = None, !.seen = FALSE, !.status = "down"]
             new == Pruned(down)
  <2>1. channel' = [channel EXCEPT ![e] = new]  BY <1>5 DEF UnregisterBridge
  <2>2. down.bridge = None /\ ~down.seen  BY <1>0 DEF Channel
  <2>3. new.bridge = None /\ ~new.seen  BY <2>2 DEF Pruned, NoChannel
  <2> HIDE DEF new
  <2> QED  BY <1>2, <1>5, <2>1, <2>3
<1>6. CASE UnregisterOther(c)
  <2> DEFINE new == Pruned(Left(ch, c))
  <2>1. channel' = [channel EXCEPT ![e] = new]  BY <1>6 DEF UnregisterOther
  <2>2. /\ Left(ch, c).bridge = ch.bridge /\ Left(ch, c).seen = ch.seen
        /\ Left(ch, c).streams = ch.streams
    BY <1>0 DEF Left, Channel
  <2>3. new.bridge = ch.bridge /\ (new.seen /\ new.streams => ch.seen /\ ch.streams)
    BY <2>2 DEF Pruned, NoChannel
  <2> HIDE DEF new
  <2> QED  BY <1>2, <2>1, <2>3
<1>7. CASE Hangup(c) \/ \E d \in Devices, kind \in {"bridge", "browser"} : Connect(c, kind, d)
  BY <1>1, <1>7 DEF Hangup, Connect
<1> QED  BY <1>3, <1>4, <1>5, <1>6, <1>7 DEF Connection

\* The one that becomes the bridge of a channel was not registered before.
LEMMA BridgeComes ==
    ASSUME TypeOK, NEW c \in Conns, RegisterBridge(c)
    PROVE  /\ ~Registered(c) /\ Registered(c)' /\ conns'[c].dev = conns[c].dev
           /\ \A d \in Devices : d # conns[c].dev => channel'[d] = channel[d]
           /\ channel'[conns[c].dev].bridge = c /\ ~channel'[conns[c].dev].seen
           /\ UNCHANGED <<reqs, pending, events, sent>>
<1> DEFINE d == conns[c].dev
           new == Replaced(channel[d], c)
<1>0. d \in Devices /\ channel[d] \in Channel  BY DEF TypeOK, Conn
<1>1. channel' = [channel EXCEPT ![d] = new]  BY DEF RegisterBridge
<1>2. new.bridge = c /\ ~new.seen  BY <1>0 DEF Replaced, Channel
<1>3. PICK q \in Conn : q = conns[c]  BY DEF TypeOK
<1>4. conns' = [conns EXCEPT ![c] = [q EXCEPT !.pc = "announce"]]
  BY <1>3 DEF RegisterBridge, Goto, TypeOK
<1>5. [q EXCEPT !.pc = "announce"].pc = "announce" /\ [q EXCEPT !.pc = "announce"].dev = q.dev
  BY DEF Conn
<1>6. conns'[c].pc = "announce" /\ conns'[c].dev = d  BY <1>3, <1>4, <1>5 DEF TypeOK
<1>7. conns[c].pc = "accepted" /\ UNCHANGED <<reqs, pending, events, sent>>
  BY DEF RegisterBridge, tables, outcome, peers
<1> HIDE DEF new
<1>8. \A x \in Devices : x # d => channel'[x] = channel[x]  BY <1>1 DEF TypeOK
<1>9. channel'[d].bridge = c /\ ~channel'[d].seen  BY <1>0, <1>1, <1>2 DEF TypeOK
<1> QED  BY <1>6, <1>7, <1>8, <1>9 DEF Registered

LEMMA BridgesStep ==
    ASSUME AccountInv, Next, BridgesFit
    PROVE  BridgesFit'
<1>0. TypeOK  BY AccountOf
<1>1. ASSUME UNCHANGED channel  PROVE BridgesFit'  BY <1>1, BridgesKept
<1>2. ASSUME NEW c \in Conns, RegisterBridge(c)  PROVE BridgesFit'
  <2>1. PICK e \in Devices : e = conns[c].dev  BY <1>0 DEF TypeOK, Conn
  <2> SUFFICES ASSUME NEW d \in Devices
               PROVE  /\ channel'[d].bridge # None =>
                            conns'[channel'[d].bridge].pc \notin {"unused", "accepted"}
                          /\ conns'[channel'[d].bridge].dev = d
                      /\ channel'[d].seen /\ channel'[d].streams =>
                            channel'[d].bridge # None /\ TakesStreams(channel'[d].bridge)
    BY DEF BridgesFit, TakesStreams, Registered
  <2>2. CASE d = e
    <3>1. channel'[d].bridge = c /\ ~channel'[d].seen /\ Registered(c)' /\ conns'[c].dev = d
      BY <1>0, <1>2, <2>1, <2>2, BridgeComes
    <3> QED  BY <3>1 DEF Registered
  <2>3. CASE d # e
    <3>1. channel'[d] = channel[d]  BY <1>0, <1>2, <2>1, <2>3, BridgeComes
    <3>2. PICK b : b = channel[d].bridge  OBVIOUS
    <3>3. b # None => b \in Conns /\ Registered(b) /\ conns[b].dev = d
      BY <1>0, <3>2, BridgeIs DEF BridgesFit, Bridge
    <3>4. b # None => Registered(b)' /\ conns'[b].dev = d  BY <3>3, ConnsStay
    <3>5. channel[d].seen /\ channel[d].streams => b # None /\ TakesStreams(b)
      BY <3>2 DEF BridgesFit
    <3> QED  BY <3>1, <3>2, <3>4, <3>5 DEF Registered
  <2> QED  BY <2>2, <2>3
<1>3. ASSUME NEW c \in Conns, Connection(c)  PROVE BridgesFit'
  BY <1>0, <1>2, <1>3, ChannelMoves, BridgesKept
<1>4. ASSUME NEW d \in Devices, Device_(d)  PROVE BridgesFit'
  <2>1. CASE DisconnectRuntime(d)
    <3>1. channel' = [channel EXCEPT ![d] = NoChannel]  BY <2>1 DEF DisconnectRuntime
    <3>2. \A e \in Devices : channel'[e] = channel[e] \/ channel'[e] = NoChannel
      BY <1>0, <3>1 DEF TypeOK
    <3> QED  BY <3>2, BridgesKept DEF NoChannel
  <2>2. CASE ~DisconnectRuntime(d)
    BY <1>1, <1>4, <2>2 DEF Device_, Disconnect, Delete, DeleteFails, DeleteSucceeds
  <2> QED  BY <2>1, <2>2
<1>5. ASSUME NEW r \in Requests, Request(r)  PROVE BridgesFit'
  BY <1>0, <1>1, <1>5, RequestMoves
<1>6. ASSUME NEW c \in Conns, Report(c)  PROVE BridgesFit'
  <2>1. PICK e \in Devices : e = conns[c].dev /\ channel[e] \in Channel  BY <1>0 DEF TypeOK, Conn
  <2> DEFINE new == [channel[e] EXCEPT !.seen = TRUE, !.status = "up", !.streams = TakesStreams(c)]
  <2>2. channel' = [channel EXCEPT ![e] = new] /\ UNCHANGED conns
    BY <1>0, <1>6, <2>1 DEF Report, TypeOK
  <2>3. new.bridge = channel[e].bridge /\ new.streams = TakesStreams(c)  BY <2>1 DEF Channel
  <2>4. channel[e].bridge = c /\ Registered(c)
    BY <1>6, <2>1 DEF Report, Current, Bridge, Speaks, Registered
  <2> HIDE DEF new
  <2>5. \A d \in Devices : channel'[d].bridge = channel[d].bridge /\ (d # e => channel'[d] = channel[d])
    BY <1>0, <2>1, <2>2, <2>3 DEF TypeOK
  <2>6. channel'[e].streams = TakesStreams(c) /\ c # None
    BY <1>0, <2>1, <2>2, <2>3, NoneIsNoConn DEF TypeOK
  <2> SUFFICES ASSUME NEW d \in Devices
               PROVE  /\ channel'[d].bridge # None =>
                            Registered(channel'[d].bridge) /\ conns[channel'[d].bridge].dev = d
                      /\ channel'[d].seen /\ channel'[d].streams =>
                            channel'[d].bridge # None /\ TakesStreams(channel'[d].bridge)
    BY <2>2 DEF BridgesFit, TakesStreams, Registered
  <2> QED  BY <2>4, <2>5, <2>6 DEF BridgesFit
<1>7. ASSUME NEW c \in Conns, Route(c), ~Report(c)  PROVE BridgesFit'
  BY <1>1, <1>7 DEF Route, StaleSpeaks, Deliver, Overflow, CancelFrom, Answer, StreamStart,
     StreamRestart, StreamChunk, StreamEnd, Cancelled
<1> QED  BY <1>3, <1>4, <1>5, <1>6, <1>7 DEF Next

\* A request touches only its own entry.
LEMMA OwnEntry ==
    ASSUME TypeOK, NEW r \in Requests, Request(r)
    PROVE  \A id \in Ids : id # Id(r) => pending'[id] = pending[id]
<1>1. ASSUME UNCHANGED tables  PROVE UNCHANGED pending  BY <1>1 DEF tables
<1>2. ASSUME Take({Id(r)})  PROVE \A id \in Ids : id # Id(r) => pending'[id] = pending[id]
  BY <1>2 DEF Take
<1>3. CASE Begin(r)  BY <1>3 DEF Begin, TypeOK
<1>4. CASE \/ GiveUp(r) \/ SendRequest(r) \/ SendRefused(r) \/ Answered(r) \/ Timeout(r)
           \/ Abandon(r) \/ StreamStarts(r) \/ ReadBody(r) \/ BodyEnds(r) \/ DropBody(r)
           \/ CancelStream(r) \/ AbandonCancel(r)
  <2>1. UNCHANGED tables
    BY <1>4 DEF GiveUp, SendRequest, SendRefused, Answered, Timeout, Abandon, StreamStarts,
       ReadBody, BodyEnds, DropBody, CancelStream, AbandonCancel
  <2> QED  BY <1>1, <2>1
<1>5. CASE Unsent(r) \/ Expire(r) \/ StreamEndsEarly(r) \/ StreamMisordered(r) \/ CleanBody(r)
  BY <1>2, <1>5 DEF Unsent, Expire, StreamEndsEarly, StreamMisordered, CleanBody
<1> QED  BY <1>3, <1>4, <1>5 DEF Request

\* An entry waits until its bridge goes, as far as connections and devices go.
LEMMA WaitsForBridge ==
    ASSUME TypeOK, NEW id \in Ids, pending[id].on,
           \/ \E c \in Conns : Connection(c)
           \/ \E d \in Devices : Device_(d)
    PROVE  pending'[id].on \/ channel'[Device(id)].bridge = None
<1>0. Device(id) \in Devices  BY IdsFinite
<1>2. ASSUME NEW c \in Conns, Connection(c)
      PROVE  pending'[id].on \/ channel'[Device(id)].bridge = None
  <2>1. CASE UnregisterBridge(c)
    <3>1. Take(OfDevice(conns[c].dev))  BY <2>1 DEF UnregisterBridge
    <3>2. CASE Device(id) # conns[c].dev  BY <3>1, <3>2 DEF Take, OfDevice
    <3>3. CASE Device(id) = conns[c].dev
      <4> DEFINE down == [channel[conns[c].dev] EXCEPT !.bridge = None, !.seen = FALSE, !.status = "down"]
                 new == Pruned(down)
      <4>1. channel' = [channel EXCEPT ![conns[c].dev] = new]  BY <2>1 DEF UnregisterBridge
      <4>2. down.bridge = None  BY <1>0, <3>3 DEF Channel, TypeOK
      <4>3. new.bridge = None  BY <4>2 DEF Pruned, NoChannel
      <4> HIDE DEF new
      <4> QED  BY <1>0, <3>3, <4>1, <4>3 DEF TypeOK
    <3> QED  BY <3>2, <3>3
  <2>2. CASE ~UnregisterBridge(c)
    BY <1>2, <2>2 DEF Connection, Connect, RegisterBridge, RegisterBrowser, Announce, Hangup,
       UnregisterOther, tables
  <2> QED  BY <2>1, <2>2
<1>3. ASSUME NEW d \in Devices, Device_(d)
      PROVE  pending'[id].on \/ channel'[Device(id)].bridge = None
  <2>1. CASE DisconnectRuntime(d)
    <3>1. Take(OfDevice(d)) /\ channel' = [channel EXCEPT ![d] = NoChannel]
      BY <2>1 DEF DisconnectRuntime
    <3> QED  BY <1>0, <3>1 DEF Take, OfDevice, NoChannel, TypeOK
  <2>2. CASE ~DisconnectRuntime(d)
    BY <1>3, <2>2 DEF Device_, Disconnect, Delete, DeleteFails, DeleteSucceeds, tables
  <2> QED  BY <2>1, <2>2
<1> QED  BY <1>2, <1>3

\* A request that is to be sent waits until its bridge goes: nobody works on it.
LEMMA QueuedWaits ==
    ASSUME AccountInv, WorkersFit, HoldersFit, NEW id \in Ids, Unasked(id), pending[id].on,
           \/ \E c \in Conns : Connection(c) \/ Route(c)
           \/ \E d \in Devices : Device_(d)
    PROVE  pending'[id].on \/ channel'[Device(id)].bridge = None
<1>0. TypeOK /\ Device(id) \in Devices  BY AccountOf, IdsFinite
<1>2. ASSUME \/ \E c \in Conns : Connection(c)
             \/ \E d \in Devices : Device_(d)
      PROVE  pending'[id].on \/ channel'[Device(id)].bridge = None
  BY <1>0, <1>2, WaitsForBridge
<1>4. ASSUME NEW S, Take(S), id \notin S  PROVE pending'[id].on  BY <1>4 DEF Take
<1>5. ASSUME NEW c \in Conns, Active(c, id)  PROVE FALSE
  BY <1>5 DEF WorkersFit, Active
<1>6. ASSUME NEW c \in Conns, Route(c)  PROVE pending'[id].on
  <2>1. CASE StaleSpeaks(c) \/ Report(c) \/ Deliver(c) \/ CancelFrom(c)
    BY <2>1 DEF StaleSpeaks, Report, Deliver, CancelFrom, tables
  <2>2. CASE Overflow(c)
    <3>1. conns[c].id # id  BY <2>2 DEF Overflow, HoldersFit, Busy
    <3> QED  BY <1>4, <2>2, <3>1 DEF Overflow, CutOff
  <2>3. ASSUME NEW i \in Ids, Answer(c, i) \/ StreamRestart(c, i) \/ StreamEnd(c, i)
        PROVE  pending'[id].on
    <3>1. Active(c, i) /\ Take({i})
      BY <2>3 DEF Answer, StreamRestart, StreamEnd, Works, Active
    <3> QED  BY <1>4, <1>5, <3>1
  <2>4. ASSUME NEW i \in Ids, StreamStart(c, i) \/ StreamChunk(c, i) \/ Cancelled(c, i)
        PROVE  pending'[id].on
    BY <1>0, <2>4 DEF StreamStart, StreamChunk, Cancelled, tables, TypeOK
  <2> QED  BY <1>6, <2>1, <2>2, <2>3, <2>4 DEF Route
<1> QED  BY <1>2, <1>6

\* Only a connection that was not registered takes over a device.
LEMMA BridgeMoves ==
    ASSUME TypeOK, Next, NEW d \in Devices
    PROVE  \/ channel'[d].bridge \in {channel[d].bridge, None}
           \/ ~Registered(channel'[d].bridge)
<1>1. ASSUME NEW c \in Conns, Connection(c)
      PROVE  \/ channel'[d].bridge \in {channel[d].bridge, None}
             \/ ~Registered(channel'[d].bridge)
  BY <1>1, ChannelMoves, BridgeComes
<1>2. ASSUME NEW e \in Devices, Device_(e)
      PROVE  channel'[d].bridge \in {channel[d].bridge, None}
  <2>1. UNCHANGED channel \/ channel' = [channel EXCEPT ![e] = NoChannel]
    BY <1>2 DEF Device_, Disconnect, Delete, DeleteFails, DeleteSucceeds, DisconnectRuntime
  <2>2. channel'[d] = channel[d] \/ channel'[d] = NoChannel  BY <2>1 DEF TypeOK
  <2>3. NoChannel.bridge = None  BY DEF NoChannel
  <2> QED  BY <2>2, <2>3
<1>3. ASSUME NEW c \in Conns, Route(c)  PROVE channel'[d].bridge = channel[d].bridge
  <2>1. CASE Report(c)
    <3> DEFINE e == conns[c].dev
               new == [channel[e] EXCEPT !.seen = TRUE, !.status = "up", !.streams = TakesStreams(c)]
    <3>1. e \in Devices /\ channel[e] \in Channel  BY DEF TypeOK, Conn
    <3>2. channel' = [channel EXCEPT ![e] = new]  BY <2>1, <3>1 DEF Report, TypeOK
    <3>3. new.bridge = channel[e].bridge  BY <3>1 DEF Channel
    <3> HIDE DEF new
    <3> QED  BY <3>1, <3>2, <3>3 DEF TypeOK
  <2>2. CASE ~Report(c)
    BY <1>3, <2>2 DEF Route, StaleSpeaks, Deliver, Overflow, CancelFrom, Answer, StreamStart,
       StreamRestart, StreamChunk, StreamEnd, Cancelled
  <2> QED  BY <2>1, <2>2
<1> QED  BY <1>1, <1>2, <1>3, RequestMoves DEF Next

LEMMA PeersAre ==
    ASSUME \A r \in Requests : reqs'[r].pc = "queued" => \E p \in Conns :
               /\ p = reqs'[r].peer /\ Registered(p)' /\ conns'[p].dev = DeviceOf[r]
               /\ KindOf[r] = "stream" => TakesStreams(p)
               /\ channel'[DeviceOf[r]].bridge = p => pending'[Id(r)'].on
    PROVE  PeersFit'
BY DEF PeersFit, Bridge, TakesStreams, Registered

LEMMA PeersStep ==
    ASSUME AccountInv, Next, TypeOK', WorkersFit, BridgesFit, PeersFit, HoldersFit
    PROVE  PeersFit'
<1>0. TypeOK  BY AccountOf
<1>1. ASSUME NEW r \in Requests, reqs[r].pc = "queued", reqs'[r] = reqs[r],
             \A d \in Devices : \/ channel'[d].bridge \in {channel[d].bridge, None}
                                \/ ~Registered(channel'[d].bridge),
             pending[Id(r)].on => \/ pending'[Id(r)].on
                                  \/ channel'[DeviceOf[r]].bridge = None
      PROVE  \E p \in Conns :
                /\ p = reqs'[r].peer /\ Registered(p)' /\ conns'[p].dev = DeviceOf[r]
                /\ KindOf[r] = "stream" => TakesStreams(p)
                /\ channel'[DeviceOf[r]].bridge = p => pending'[Id(r)'].on
  <2>1. PICK p \in Conns : /\ p = reqs[r].peer /\ Registered(p) /\ conns[p].dev = DeviceOf[r]
                           /\ KindOf[r] = "stream" => TakesStreams(p)
                           /\ channel[DeviceOf[r]].bridge = p => pending[Id(r)].on
    BY <1>1 DEF PeersFit, Bridge
  <2>2. Registered(p)' /\ conns'[p].dev = DeviceOf[r]  BY <2>1, ConnsStay
  <2>3. DeviceOf[r] \in Devices /\ p # None  BY <1>0, IdOf, NoneIsNoConn
  <2>4. channel'[DeviceOf[r]].bridge = p => pending'[Id(r)].on
    BY <1>1, <2>1, <2>3
  <2>5. Id(r)' = Id(r)  BY <1>1 DEF Id
  <2> QED  BY <1>1, <2>1, <2>2, <2>4, <2>5
<1>2. ASSUME \/ \E c \in Conns : Connection(c) \/ Route(c)
             \/ \E d \in Devices : Device_(d)
      PROVE  PeersFit'
  <2>1. UNCHANGED reqs  BY <1>2, OthersKeep
  <2>2. \A d \in Devices : \/ channel'[d].bridge \in {channel[d].bridge, None}
                           \/ ~Registered(channel'[d].bridge)
    BY <1>0, BridgeMoves
  <2>3. ASSUME NEW r \in Requests, reqs[r].pc = "queued", pending[Id(r)].on
        PROVE  pending'[Id(r)].on \/ channel'[DeviceOf[r]].bridge = None
    <3>1. PICK i \in Ids : i = Id(r) /\ i[1] = r /\ i[2] = reqs[r].attempt /\ Device(i) = DeviceOf[r]
      BY <1>0, IdOf
    <3>2. Unasked(i) /\ pending[i].on  BY <2>3, <3>1 DEF Unasked
    <3> QED  BY <1>2, <3>1, <3>2, QueuedWaits
  <2> SUFFICES ASSUME NEW r \in Requests, reqs'[r].pc = "queued"
               PROVE  \E p \in Conns :
                         /\ p = reqs'[r].peer /\ Registered(p)' /\ conns'[p].dev = DeviceOf[r]
                         /\ KindOf[r] = "stream" => TakesStreams(p)
                         /\ channel'[DeviceOf[r]].bridge = p => pending'[Id(r)'].on
    BY PeersAre
  <2> QED  BY <1>1, <2>1, <2>2, <2>3
<1>3. ASSUME NEW r \in Requests, Request(r)  PROVE PeersFit'
  <2>1. UNCHANGED <<channel, conns>> /\ \A q \in Requests : q # r => reqs'[q] = reqs[q]
    BY <1>0, <1>3, RequestMoves
  <2> SUFFICES ASSUME NEW q \in Requests, reqs'[q].pc = "queued"
               PROVE  \E p \in Conns :
                         /\ p = reqs'[q].peer /\ Registered(p)' /\ conns'[p].dev = DeviceOf[q]
                         /\ KindOf[q] = "stream" => TakesStreams(p)
                         /\ channel'[DeviceOf[q]].bridge = p => pending'[Id(q)'].on
    BY PeersAre
  <2>2. CASE q # r
    <3>1. reqs'[q] = reqs[q]  BY <2>1, <2>2
    <3>2. Id(q) \in Ids /\ Id(q) # Id(r)  BY <1>0, <2>2, IdOf
    <3>3. pending'[Id(q)] = pending[Id(q)]  BY <1>0, <1>3, <3>2, OwnEntry
    <3> QED  BY <1>1, <2>1, <3>1, <3>3
  <2>3. CASE q = r
    <3>0. reqs[r] \in Req /\ Id(r) \in Ids /\ DeviceOf[r] \in Devices  BY <1>0, IdOf DEF TypeOK
    <3>1. Begin(r)  BY <1>0, <1>3, <2>3, RequestPcs
    <3>2. reqs' = [reqs EXCEPT ![r] = [reqs[r] EXCEPT !.pc = "queued", !.peer = Bridge(DeviceOf[r])]]
      BY <1>0, <3>1 DEF Begin, TypeOK
    <3> DEFINE new == [reqs[r] EXCEPT !.pc = "queued", !.peer = Bridge(DeviceOf[r])]
    <3>3. new.peer = Bridge(DeviceOf[r]) /\ new.attempt = reqs[r].attempt  BY <3>0 DEF Req
    <3>4. reqs'[r] = new  BY <1>0, <3>2 DEF TypeOK
    <3> HIDE DEF new
    <3>5. pending'[Id(r)].on  BY <1>0, <3>0, <3>1 DEF Begin, TypeOK
    <3>6. Bridge(DeviceOf[r]) # None /\ (KindOf[r] = "stream" => channel[DeviceOf[r]].seen /\ channel[DeviceOf[r]].streams)
      BY <3>1 DEF Begin
    <3>7. PICK p \in Conns : p = channel[DeviceOf[r]].bridge
      BY <1>0, <3>0, <3>6, BridgeIs DEF Bridge
    <3>8. Registered(p) /\ conns[p].dev = DeviceOf[r] /\ (KindOf[r] = "stream" => TakesStreams(p))
      BY <3>0, <3>6, <3>7 DEF BridgesFit, Bridge
    <3>9. Id(r)' = Id(r)  BY <3>3, <3>4 DEF Id
    <3>10. p = reqs'[r].peer /\ Registered(p)' /\ conns'[p].dev = DeviceOf[r]
      BY <2>1, <3>3, <3>4, <3>7, <3>8 DEF Bridge, Registered
    <3> QED  BY <2>3, <3>5, <3>8, <3>9, <3>10
  <2> QED  BY <2>2, <2>3
<1> QED  BY <1>2, <1>3 DEF Next

LEMMA HoldersKept ==
    ASSUME AccountInv, Next, TypeOK', HoldersFit,
           \A c \in Conns : Busy(c)' =>
               /\ Busy(c) /\ conns'[c].id = conns[c].id /\ conns'[c].event = conns[c].event
               /\ conns'[c].pc = "event" => conns[c].pc = "event",
           \A c \in Conns, id \in Ids : Active(c, id)' => Active(c, id) \/ Unasked(id)
    PROVE  HoldersFit'
<1>0. TypeOK  BY AccountOf
<1> SUFFICES ASSUME NEW c \in Conns, Busy(c)', NEW id \in Ids, id = conns'[c].id
             PROVE  /\ IsStream(id) /\ ~Unasked(id)' /\ conns'[c].dev = Device(id)
                    /\ conns'[c].pc = "event" => conns'[c].event \in 0..MaxChunks
                    /\ \A b \in Conns : Active(b, id)' \/ (Busy(b)' /\ conns'[b].id = id) => b = c
  BY DEF HoldersFit, IsStream, Kind, Device, TypeOK, Conn
<1>1. Busy(c) /\ id = conns[c].id  OBVIOUS
<1>2. /\ IsStream(id) /\ ~Unasked(id) /\ conns[c].dev = Device(id)
      /\ conns[c].pc = "event" => conns[c].event \in 0..MaxChunks
      /\ \A b \in Conns : Active(b, id) \/ (Busy(b) /\ conns[b].id = id) => b = c
  BY <1>1 DEF HoldersFit
<1>3. conns'[c].dev = conns[c].dev
  <2>1. Registered(c)  BY <1>1 DEF Busy, Registered
  <2> QED  BY <2>1, ConnsStay
<1>4. ~Unasked(id)'  BY <1>2, UnaskedKept
<1> QED  BY <1>2, <1>3, <1>4

\* A connection works on one thing at a time, and is the only one to.
LEMMA HolderComes ==
    ASSUME AccountInv, Next, TypeOK', WorkersFit, HoldersFit,
           NEW c \in Conns, NEW i \in Ids, Active(c, i), IsStream(i), ~Busy(c),
           \A b \in Conns : b # c => conns'[b] = conns[b],
           conns'[c].id = i, conns'[c].pc = "event" => conns'[c].event \in 0..MaxChunks,
           \A b \in Conns, id \in Ids : Active(b, id)' => Active(b, id)
    PROVE  HoldersFit'
<1>0. TypeOK  BY AccountOf
<1> SUFFICES ASSUME NEW a \in Conns, Busy(a)', NEW id \in Ids, id = conns'[a].id
             PROVE  /\ IsStream(id) /\ ~Unasked(id)' /\ conns'[a].dev = Device(id)
                    /\ conns'[a].pc = "event" => conns'[a].event \in 0..MaxChunks
                    /\ \A b \in Conns : Active(b, id)' \/ (Busy(b)' /\ conns'[b].id = id) => b = a
  BY DEF HoldersFit, IsStream, Kind, Device, TypeOK, Conn
<1>1. \A b \in Conns : b # c => (Busy(b)' <=> Busy(b))  BY DEF Busy
<1>2. Registered(c) /\ conns[c].dev = Device(i) /\ ~Unasked(i)
      /\ \A b \in Conns : Active(b, i) => b = c
  BY DEF WorkersFit, Active
<1>3. \A b \in Conns : ~(Busy(b) /\ conns[b].id = i)
  BY DEF HoldersFit
<1>4. CASE a = c
  <2>1. conns'[a].dev = Device(id) /\ ~Unasked(id)' /\ id = i
    BY <1>2, <1>4, ConnsStay, UnaskedKept
  <2>2. \A b \in Conns : Active(b, id)' \/ (Busy(b)' /\ conns'[b].id = id) => b = a
    BY <1>1, <1>2, <1>3, <1>4, <2>1
  <2> QED  BY <1>4, <2>1, <2>2
<1>5. CASE a # c
  <2>1. Busy(a) /\ conns'[a] = conns[a]  BY <1>1, <1>5
  <2>2. /\ IsStream(id) /\ ~Unasked(id) /\ conns[a].dev = Device(id)
        /\ conns[a].pc = "event" => conns[a].event \in 0..MaxChunks
        /\ \A b \in Conns : Active(b, id) \/ (Busy(b) /\ conns[b].id = id) => b = a
    BY <2>1 DEF HoldersFit
  <2>3. id # i  BY <1>5, <2>2
  <2> QED  BY <1>1, <2>1, <2>2, <2>3, UnaskedKept
<1> QED  BY <1>4, <1>5

\* Going on, a connection is still about what it was about, or about nothing.
LEMMA GoingOn ==
    ASSUME TypeOK, NEW c \in Conns, NEW pc, Goto(c, pc), pc = "event" => conns[c].pc = "event"
    PROVE  /\ conns'[c].pc = pc /\ conns'[c].id = conns[c].id /\ conns'[c].event = conns[c].event
           /\ \A b \in Conns : b # c => conns'[b] = conns[b]
<1>1. PICK q \in Conn : q = conns[c]  BY DEF TypeOK
<1>2. conns' = [conns EXCEPT ![c] = [q EXCEPT !.pc = pc]]  BY <1>1 DEF Goto, TypeOK
<1>3. /\ [q EXCEPT !.pc = pc].pc = pc /\ [q EXCEPT !.pc = pc].id = q.id
      /\ [q EXCEPT !.pc = pc].event = q.event
  BY DEF Conn
<1> QED  BY <1>1, <1>2, <1>3 DEF TypeOK

LEMMA Holding ==
    ASSUME TypeOK, NEW c \in Conns, NEW i, NEW e, Hold(c, i, e)
    PROVE  /\ conns'[c].pc = "event" /\ conns'[c].id = i /\ conns'[c].event = e
           /\ \A b \in Conns : b # c => conns'[b] = conns[b]
<1>1. PICK q \in Conn : q = conns[c]  BY DEF TypeOK
<1> DEFINE new == [q EXCEPT !.pc = "event", !.id = i, !.event = e]
<1>2. conns' = [conns EXCEPT ![c] = new]  BY <1>1 DEF Hold, TypeOK
<1>3. new.pc = "event" /\ new.id = i /\ new.event = e  BY DEF Conn
<1> HIDE DEF new
<1> QED  BY <1>2, <1>3 DEF TypeOK

LEMMA Restarting ==
    ASSUME TypeOK, NEW c \in Conns, NEW i \in Ids, StreamRestart(c, i)
    PROVE  /\ conns'[c].pc = "cancel" /\ conns'[c].id = i
           /\ \A b \in Conns : b # c => conns'[b] = conns[b]
<1>1. PICK q \in Conn : q = conns[c]  BY DEF TypeOK
<1> DEFINE new == [q EXCEPT !.pc = "cancel", !.id = i]
<1>2. conns' = [conns EXCEPT ![c] = new]  BY <1>1 DEF StreamRestart, TypeOK
<1>3. new.pc = "cancel" /\ new.id = i  BY DEF Conn
<1> HIDE DEF new
<1> QED  BY <1>2, <1>3 DEF TypeOK

\* A connection that comes, goes or is idle is busy with nothing.
LEMMA ConnectionHands ==
    ASSUME TypeOK, NEW c \in Conns, Connection(c)
    PROVE  /\ ~Busy(c) /\ ~Busy(c)'
           /\ \A b \in Conns : b # c => conns'[b] = conns[b]
<1>1. ASSUME NEW pc \in {"announce", "open", "ended", "closed"}, Goto(c, pc)
      PROVE  ~Busy(c)' /\ \A b \in Conns : b # c => conns'[b] = conns[b]
  BY <1>1, GoingOn DEF Busy
<1>2. CASE \E d \in Devices, kind \in {"bridge", "browser"} : Connect(c, kind, d)
  <2>1. PICK d \in Devices, kind \in {"bridge", "browser"} : Connect(c, kind, d)  BY <1>2
  <2>2. PICK q \in Conn : q = conns[c]  BY DEF TypeOK
  <2> DEFINE new == [q EXCEPT !.kind = kind, !.dev = d, !.pc = "accepted"]
  <2>3. conns' = [conns EXCEPT ![c] = new] /\ conns[c].pc = "unused"
    BY <2>1, <2>2 DEF Connect, TypeOK
  <2>4. new.pc = "accepted"  BY DEF Conn
  <2> HIDE DEF new
  <2> QED  BY <2>3, <2>4 DEF TypeOK, Busy
<1>3. CASE \/ RegisterBridge(c) \/ RegisterBrowser(c) \/ Announce(c) \/ Hangup(c)
           \/ UnregisterBridge(c) \/ UnregisterOther(c)
  <2>1. \E pc \in {"announce", "open", "ended", "closed"} : Goto(c, pc)
    BY <1>3 DEF RegisterBridge, RegisterBrowser, Announce, Hangup, UnregisterBridge,
       UnregisterOther
  <2>2. ~Busy(c)
    BY <1>3 DEF RegisterBridge, RegisterBrowser, Announce, Hangup, UnregisterBridge,
       UnregisterOther, Busy
  <2> QED  BY <1>1, <2>1, <2>2
<1> QED  BY <1>2, <1>3 DEF Connection

LEMMA HoldersStep ==
    ASSUME AccountInv, Next, TypeOK', WorkersFit, HoldersFit
    PROVE  HoldersFit'
<1>0. TypeOK  BY AccountOf
<1>1. ASSUME UNCHANGED <<conns, work>>  PROVE HoldersFit'
  BY <1>1, HoldersKept DEF Busy, Active
<1>2. ASSUME NEW c \in Conns, Connection(c)  PROVE HoldersFit'
  <2>1. UNCHANGED work  BY <1>0, <1>2, AccountOf, ConnectionKeeps
  <2>2. ~Busy(c)' /\ \A b \in Conns : b # c => conns'[b] = conns[b]
    BY <1>0, <1>2, ConnectionHands
  <2>3. \A b \in Conns : Busy(b)' => Busy(b) /\ conns'[b] = conns[b]  BY <2>2 DEF Busy
  <2> QED  BY <2>1, <2>3, HoldersKept DEF Active
<1>3. ASSUME NEW d \in Devices, Device_(d)  PROVE HoldersFit'
  <2>1. UNCHANGED <<conns, work>>
    BY <1>3 DEF Device_, Disconnect, Delete, DeleteFails, DeleteSucceeds, peers
  <2> QED  BY <1>1, <2>1
<1>4. ASSUME NEW r \in Requests, Request(r)  PROVE HoldersFit'
  <2>1. UNCHANGED conns /\ (SendRequest(r) \/ UNCHANGED work)  BY <1>0, <1>4, RequestMoves
  <2>2. CASE SendRequest(r)
    <3>1. PICK i \in Ids : i = Id(r) /\ i[1] = r /\ i[2] = reqs[r].attempt  BY <1>0, IdOf
    <3>2. Unasked(i)  BY <2>2, <3>1 DEF SendRequest, Unasked
    <3>3. \A c \in Conns, id \in Ids : id # i => work'[c][id] = work[c][id]
      BY <1>0, <2>2, <3>1 DEF SendRequest, TypeOK
    <3> QED  BY <2>1, <3>2, <3>3, HoldersKept DEF Active, Busy
  <2> QED  BY <1>1, <2>1, <2>2
<1>5. ASSUME NEW c \in Conns, NEW pc \in {"open", "ended", "overflow", "cancel"}, Goto(c, pc), UNCHANGED work,
             pc \in {"overflow", "cancel"} => Busy(c)
      PROVE  HoldersFit'
  <2>1. /\ conns'[c].pc = pc /\ conns'[c].id = conns[c].id /\ conns'[c].event = conns[c].event
        /\ \A b \in Conns : b # c => conns'[b] = conns[b]
    BY <1>0, <1>5, GoingOn
  <2> QED  BY <1>5, <2>1, HoldersKept DEF Active, Busy
<1>6. ASSUME NEW c \in Conns, NEW i \in Ids, NEW w, Working(c, i, w),
             Active(c, i) \/ w = "done"
      PROVE  \A b \in Conns, id \in Ids : Active(b, id)' => Active(b, id)
  BY <1>0, <1>6 DEF Working, Active, TypeOK
<1>7. ASSUME NEW c \in Conns, Route(c)  PROVE HoldersFit'
  <2>1. CASE StaleSpeaks(c) \/ Deliver(c) \/ Overflow(c) \/ CancelFrom(c)
    <3>1. UNCHANGED work /\ \E pc \in {"open", "ended", "overflow", "cancel"} :
             Goto(c, pc) /\ (pc \in {"overflow", "cancel"} => Busy(c))
      BY <2>1 DEF StaleSpeaks, Deliver, Overflow, Cut, CancelFrom, Busy, peers
    <3> QED  BY <1>5, <3>1
  <2>2. CASE Report(c)  BY <1>1, <2>2 DEF Report, peers
  <2>3. ASSUME NEW i \in Ids, \/ Answer(c, i) \/ StreamEnd(c, i) \/ Cancelled(c, i)
        PROVE  HoldersFit'
    <3>1. UNCHANGED conns /\ Working(c, i, "done")
      BY <2>3 DEF Answer, StreamEnd, Cancelled
    <3> QED  BY <1>6, <3>1, HoldersKept DEF Busy
  <2>4. ASSUME NEW i \in Ids, StreamStart(c, i)  PROVE HoldersFit'
    <3>1. Active(c, i) /\ ~Busy(c) /\ IsStream(i) /\ Working(c, i, "started")
      BY <2>4 DEF StreamStart, Works, Speaks, Active, Busy
    <3>2. \A b \in Conns, id \in Ids : Active(b, id)' => Active(b, id)  BY <1>6, <3>1
    <3>3. CASE Hold(c, i, Start)
      <4>1. Start \in 0..MaxChunks  BY BoundsAssumption DEF Start
      <4> QED  BY <1>0, <3>1, <3>2, <3>3, <4>1, Holding, HolderComes
    <3>4. CASE UNCHANGED conns  BY <3>2, <3>4, HoldersKept DEF Busy
    <3> QED  BY <2>4, <3>3, <3>4 DEF StreamStart
  <2>5. ASSUME NEW i \in Ids, StreamChunk(c, i)  PROVE HoldersFit'
    <3>1. Active(c, i) /\ ~Busy(c) /\ IsStream(i) /\ UNCHANGED work
      BY <2>5 DEF StreamChunk, Works, Speaks, Active, Busy
    <3>2. \A b \in Conns, id \in Ids : Active(b, id)' => Active(b, id)  BY <3>1 DEF Active
    <3>3. CASE Hold(c, i, sent[i] + 1)
      <4>1. sent[i] + 1 \in 0..MaxChunks  BY <1>0, <2>5, BoundsAssumption DEF StreamChunk, TypeOK
      <4> QED  BY <1>0, <3>1, <3>2, <3>3, <4>1, Holding, HolderComes
    <3>4. CASE UNCHANGED conns  BY <3>2, <3>4, HoldersKept DEF Busy
    <3> QED  BY <2>5, <3>3, <3>4 DEF StreamChunk
  <2>6. ASSUME NEW i \in Ids, StreamRestart(c, i)  PROVE HoldersFit'
    <3>1. Active(c, i) /\ ~Busy(c) /\ IsStream(i) /\ UNCHANGED work
      BY <2>6 DEF StreamRestart, Works, Speaks, Active, Busy, peers
    <3>2. \A b \in Conns, id \in Ids : Active(b, id)' => Active(b, id)  BY <3>1 DEF Active
    <3> QED  BY <1>0, <2>6, <3>1, <3>2, Restarting, HolderComes
  <2> QED  BY <1>7, <2>1, <2>2, <2>3, <2>4, <2>5, <2>6 DEF Route
<1> QED  BY <1>2, <1>3, <1>4, <1>7 DEF Next

\* Where entries go, and their clients are told.
LEMMA Ends ==
    ASSUME TypeOK, NEW S \in SUBSET Ids, Take(S), Failed(S), NEW id \in Ids
    PROVE  \/ events'[id] = events[id] /\ (pending'[id].on => pending[id].on)
           \/ /\ events'[id] = Append(events[id], End)
              /\ pending[id].on /\ id \in S /\ ~pending'[id].on
<1>1. pending'[id] = IF id \in S THEN NoPending ELSE pending[id]  BY DEF Take
<1>2. pending'[id].on => pending[id].on /\ id \notin S  BY <1>1 DEF NoPending
<1>3. events'[id] = IF id \in S /\ pending[id].on /\ IsStream(id) /\ Accepts(id)
                    THEN Append(events[id], End) ELSE events[id]
  BY DEF Failed
<1> QED  BY <1>2, <1>3

LEMMA TracesKept ==
    ASSUME AccountInv, Next, TypeOK', TracesFit,
           \A id \in Ids :
               /\ NotYet(id) => events'[id] = events[id] /\ sent'[id] = sent[id]
               /\ pending'[id].on => \/ events'[id] = events[id] /\ pending[id].on
                                     \/ \A n \in 1..Len(events'[id]) : events'[id][n] # End
    PROVE  TracesFit'
BY UnaskedKept DEF TracesFit, End

LEMMA TracesStep ==
    ASSUME AccountInv, Next, TypeOK', WorkersFit, HoldersFit, TracesFit
    PROVE  TracesFit'
<1>0. TypeOK /\ NotBefore  BY AccountOf
<1>1. ASSUME UNCHANGED <<events, sent>>, NoneEnters  PROVE TracesFit'
  BY <1>1, TracesKept DEF NoneEnters
<1>2. ASSUME NEW S \in SUBSET Ids, Take(S), Failed(S), UNCHANGED sent  PROVE TracesFit'
  <2>1. \A id \in Ids : pending'[id].on => events'[id] = events[id] /\ pending[id].on
    BY <1>0, <1>2, Ends
  <2>2. \A id \in Ids : NotYet(id) => events'[id] = events[id]
    BY <1>0, <1>2, Ends DEF NotBefore
  <2> QED  BY <1>2, <2>1, <2>2, TracesKept
<1>3. ASSUME NEW c \in Conns, Connection(c)  PROVE TracesFit'
  <2>0. NoneEnters  BY <1>3, OthersKeep
  <2>1. CASE UnregisterBridge(c)
    <3>1. PICK S \in SUBSET Ids : Take(S) /\ Failed(S)
      BY <2>1, OfDeviceIds DEF UnregisterBridge
    <3> QED  BY <1>2, <2>1, <3>1 DEF UnregisterBridge, peers
  <2>2. CASE ~UnregisterBridge(c)
    <3>1. UNCHANGED <<events, sent>>
      BY <1>3, <2>2 DEF Connection, Connect, RegisterBridge, RegisterBrowser, Announce, Hangup,
         UnregisterOther, outcome, peers
    <3> QED  BY <1>1, <2>0, <3>1
  <2> QED  BY <2>1, <2>2
<1>4. ASSUME NEW d \in Devices, Device_(d)  PROVE TracesFit'
  <2>0. NoneEnters /\ UNCHANGED sent
    BY <1>4, OthersKeep DEF Device_, Disconnect, Delete, DeleteFails, DeleteSucceeds, peers
  <2>1. CASE DisconnectRuntime(d)
    <3>1. PICK S \in SUBSET Ids : Take(S) /\ Failed(S)
      BY <2>1, OfDeviceIds DEF DisconnectRuntime
    <3> QED  BY <1>2, <2>0, <3>1
  <2>2. CASE ~DisconnectRuntime(d)
    <3>1. UNCHANGED events
      BY <1>4, <2>2 DEF Device_, Disconnect, Delete, DeleteFails, DeleteSucceeds, outcome
    <3> QED  BY <1>1, <2>0, <3>1
  <2> QED  BY <2>1, <2>2
<1>5. ASSUME NEW r \in Requests, Request(r)  PROVE TracesFit'
  <2>1. PICK i \in Ids : i = Id(r) /\ i[1] = r /\ i[2] = reqs[r].attempt  BY <1>0, IdOf
  <2>a. reqs[r].attempt \in 1..2  BY <1>0 DEF TypeOK, Req
  <2>2. CASE Begin(r)
    <3>1. NotYet(i)  BY <2>1, <2>2 DEF Begin, NotYet
    <3>2. UNCHANGED <<events, sent>> /\ events[i] = <<>>
      BY <2>2, <3>1 DEF Begin, outcome, peers, TracesFit
    <3>3. \A id \in Ids : id # i => pending'[id] = pending[id]
      BY <1>0, <1>5, <2>1, OwnEntry
    <3>4. \A n \in 1..Len(events'[i]) : events'[i][n] # End
      <4>1. Len(events'[i]) = 0  BY <3>2
      <4> QED  BY <4>1
    <3> QED  BY <3>2, <3>3, <3>4, TracesKept
  <2>3. CASE StreamStarts(r) \/ ReadBody(r)
    <3>1. /\ events' = [events EXCEPT ![i] = Tail(events[i])] /\ events[i] # <<>>
          /\ UNCHANGED <<sent, pending>> /\ ~NotYet(i)
      BY <1>0, <2>1, <2>3, <2>a DEF StreamStarts, ReadBody, TypeOK, peers, tables, NotYet
    <3>2. events'[i] = Tail(events[i]) /\ \A id \in Ids : id # i => events'[id] = events[id]
      BY <1>0, <3>1 DEF TypeOK
    <3>3. PICK q \in Seq(0..End) : q = events[i]  BY <1>0 DEF TypeOK
    <3>4. /\ Len(q) \in Nat /\ Len(q) >= 1 /\ Len(Tail(q)) = Len(q) - 1
          /\ \A j \in 1..(Len(q) - 1) : Tail(q)[j] = q[j + 1]
      BY <3>1, <3>3, TailIs
    <3>5. pending[i].on => \A n \in 1..Len(q) : q[n] # End  BY <3>3 DEF TracesFit
    <3>6. pending[i].on => \A n \in 1..Len(Tail(q)) : Tail(q)[n] # End
      BY <3>4, <3>5
    <3>7. pending'[i].on => \A n \in 1..Len(events'[i]) : events'[i][n] # End
      BY <3>1, <3>2, <3>3, <3>6
    <3> QED  BY <3>1, <3>2, <3>7, TracesKept
  <2>4. CASE ~Begin(r) /\ ~StreamStarts(r) /\ ~ReadBody(r)
    <3>1. NoneEnters  BY <1>0, <1>5, <2>4, RequestMoves
    <3>2. UNCHANGED <<events, sent>>
      BY <1>5, <2>4 DEF Request, GiveUp, SendRequest, SendRefused, Unsent, Answered, Timeout,
         Expire, Abandon, AbandonCancel, StreamEndsEarly, StreamMisordered, BodyEnds, DropBody, CleanBody,
         CancelStream, outcome, peers
    <3> QED  BY <1>1, <3>1, <3>2
  <2> QED  BY <2>2, <2>3, <2>4
<1>6. ASSUME NEW c \in Conns, Route(c)  PROVE TracesFit'
  <2>0. NoneEnters  BY <1>6, OthersKeep
  <2>1. CASE Deliver(c)
    <3>1. PICK i \in Ids : i = conns[c].id  BY <1>0 DEF TypeOK, Conn
    <3>2. ~NotYet(i) /\ conns[c].event \in 0..MaxChunks
      BY <2>1, <3>1 DEF Deliver, HoldersFit, Busy, Unasked
    <3>3. UNCHANGED sent /\ (UNCHANGED events \/ events' = [events EXCEPT ![i] = Append(events[i], conns[c].event)])
      BY <2>1, <3>1 DEF Deliver, peers
    <3>4. CASE UNCHANGED events  BY <1>1, <2>0, <3>3, <3>4
    <3>5. CASE events' = [events EXCEPT ![i] = Append(events[i], conns[c].event)]
      <4>1. PICK q \in Seq(0..End) : q = events[i]  BY <1>0 DEF TypeOK
      <4>2. PICK e \in 0..MaxChunks : e = conns[c].event  BY <3>2
      <4>3. e # End  BY BoundsAssumption DEF End
      <4>4. Len(Append(q, e)) = Len(q) + 1 /\ Append(q, e)[Len(q) + 1] = e
            /\ \A n \in 1..Len(q) : Append(q, e)[n] = q[n]
        OBVIOUS
      <4>5. pending[i].on => \A n \in 1..Len(q) : q[n] # End  BY <4>1 DEF TracesFit
      <4>6. pending[i].on => \A n \in 1..Len(Append(q, e)) : Append(q, e)[n] # End
        BY <4>3, <4>4, <4>5
      <4>7. events'[i] = Append(q, e) /\ \A id \in Ids : id # i => events'[id] = events[id]
        BY <1>0, <3>5, <4>1, <4>2 DEF TypeOK
      <4> QED  BY <2>0, <3>2, <3>3, <4>6, <4>7, TracesKept DEF NoneEnters
    <3> QED  BY <3>3, <3>4, <3>5
  <2>2. ASSUME NEW i \in Ids, StreamChunk(c, i)  PROVE TracesFit'
    <3>1. Active(c, i)  BY <2>2 DEF StreamChunk, Works, Active
    <3>2. ~NotYet(i)  BY <3>1 DEF WorkersFit, Active, Unasked
    <3>3. UNCHANGED events /\ \A id \in Ids : id # i => sent'[id] = sent[id]
      BY <1>0, <2>2 DEF StreamChunk, outcome, TypeOK
    <3> QED  BY <2>0, <3>2, <3>3, TracesKept DEF NoneEnters
  <2>3. ASSUME NEW i \in Ids, StreamRestart(c, i) \/ StreamEnd(c, i)  PROVE TracesFit'
    <3>1. Take({i}) /\ Failed({i}) /\ UNCHANGED sent
      BY <2>3 DEF StreamRestart, StreamEnd, peers
    <3> QED  BY <1>2, <3>1
  <2>4. CASE \/ StaleSpeaks(c) \/ Report(c) \/ Overflow(c) \/ CancelFrom(c)
             \/ \E i \in Ids : Answer(c, i) \/ StreamStart(c, i) \/ Cancelled(c, i)
    <3>1. UNCHANGED <<events, sent>>
      BY <2>4 DEF StaleSpeaks, Report, Overflow, CancelFrom, Answer, StreamStart, Cancelled,
         outcome, peers
    <3> QED  BY <1>1, <2>0, <3>1
  <2> QED  BY <1>6, <2>1, <2>2, <2>3, <2>4 DEF Route
<1> QED  BY <1>3, <1>4, <1>5, <1>6 DEF Next

\* The start and the end are no chunks.
LEMMA SoundMore ==
    ASSUME NEW e \in Seq(0..End), NEW rd \in Seq(1..MaxChunks), NEW m \in 0..MaxChunks,
           Sound(e, rd, m), NEW x \in {Start, End}
    PROVE  Sound(Append(e, x), rd, m)
<1> DEFINE a == Append(e, x)
           C == 1..MaxChunks
<1>1. x \notin C  BY BoundsAssumption DEF Start, End
<1>2. /\ Len(e) \in Nat /\ Len(a) = Len(e) + 1 /\ a[Len(e) + 1] = x
      /\ \A j \in 1..Len(e) : a[j] = e[j]
  OBVIOUS
<1> HIDE DEF a, C
<1>3. \A j \in 1..Len(a) : a[j] \in C => j \in 1..Len(e) /\ a[j] = e[j]  BY <1>1, <1>2
<1>4. \A j \in 1..Len(e) : j \in 1..Len(a) /\ a[j] = e[j]  BY <1>2
<1>5. \A j \in 1..Len(a) : a[j] \in C => Len(rd) < a[j] /\ a[j] <= m
  BY <1>3 DEF Sound, C
<1>6. \A j, k \in 1..Len(a) : j < k /\ a[j] \in C /\ a[k] \in C => a[j] < a[k]
  BY <1>3 DEF Sound, C
<1>7. \A n \in (Len(rd) + 1)..m : \E j \in 1..Len(a) : a[j] = n
  BY <1>4 DEF Sound
<1> QED  BY <1>5, <1>6, <1>7 DEF Sound, C, a

\* The next chunk comes last.
LEMMA SoundChunk ==
    ASSUME NEW e \in Seq(0..End), NEW rd \in Seq(1..MaxChunks), NEW m \in 0..MaxChunks,
           Sound(e, rd, m), m + 1 \in 1..MaxChunks
    PROVE  Sound(Append(e, m + 1), rd, m + 1)
<1> DEFINE a == Append(e, m + 1)
           C == 1..MaxChunks
<1>1. /\ Len(e) \in Nat /\ Len(a) = Len(e) + 1 /\ a[Len(e) + 1] = m + 1
      /\ \A j \in 1..Len(e) : a[j] = e[j]
  OBVIOUS
<1>2. Len(rd) \in Nat /\ Len(rd) <= m /\ m \in Nat  BY BoundsAssumption DEF Sound
<1>3. \A j \in 1..Len(e) : e[j] \in C => Len(rd) < e[j] /\ e[j] <= m  BY DEF Sound, C
<1>4. \A j, k \in 1..Len(e) : j < k /\ e[j] \in C /\ e[k] \in C => e[j] < e[k]  BY DEF Sound, C
<1>5. \A n \in (Len(rd) + 1)..m : \E j \in 1..Len(e) : e[j] = n  BY DEF Sound
<1>c. \A x \in C : x \in Nat  BY DEF C
<1> HIDE DEF a, C
<1>6. ASSUME NEW j \in 1..Len(a), a[j] \in C  PROVE Len(rd) < a[j] /\ a[j] <= m + 1
  <2>1. CASE j = Len(e) + 1  BY <1>1, <1>2, <2>1
  <2>2. CASE j # Len(e) + 1
    <3>1. j \in 1..Len(e) /\ a[j] = e[j]  BY <1>1, <2>2
    <3> QED  BY <1>2, <1>3, <1>6, <1>c, <3>1
  <2> QED  BY <2>1, <2>2
<1>7. ASSUME NEW j \in 1..Len(a), NEW k \in 1..Len(a), j < k, a[j] \in C, a[k] \in C
      PROVE  a[j] < a[k]
  <2>1. j \in 1..Len(e) /\ a[j] = e[j]  BY <1>1, <1>7
  <2>2. CASE k = Len(e) + 1
    <3>1. a[j] <= m /\ a[k] = m + 1 /\ a[j] \in Nat  BY <1>1, <1>3, <1>7, <1>c, <2>1, <2>2
    <3> QED  BY <1>2, <3>1
  <2>3. CASE k # Len(e) + 1
    <3>1. k \in 1..Len(e) /\ a[k] = e[k]  BY <1>1, <2>3
    <3> QED  BY <1>4, <1>7, <2>1, <3>1
  <2> QED  BY <2>2, <2>3
<1>8. ASSUME NEW n \in (Len(rd) + 1)..(m + 1)  PROVE \E j \in 1..Len(a) : a[j] = n
  <2>1. CASE n = m + 1  BY <1>1, <2>1
  <2>2. CASE n # m + 1
    <3>1. n \in (Len(rd) + 1)..m  BY <1>2, <2>2
    <3>2. PICK j \in 1..Len(e) : e[j] = n  BY <1>5, <3>1
    <3>3. j \in 1..Len(a) /\ a[j] = n  BY <1>1, <3>2
    <3> QED  BY <3>3
  <2> QED  BY <2>1, <2>2
<1>9. Len(rd) <= m + 1 /\ \A n \in 1..Len(rd) : rd[n] = n  BY <1>2 DEF Sound
<1> QED  BY <1>6, <1>7, <1>8, <1>9 DEF Sound, C, a

\* What is taken from the front is no chunk, or the next one to read.
LEMMA SoundTail ==
    ASSUME NEW e \in Seq(0..End), NEW rd \in Seq(1..MaxChunks), NEW m \in 0..MaxChunks,
           Sound(e, rd, m), e # <<>>
    PROVE  /\ Head(e) \notin 1..MaxChunks => Sound(Tail(e), rd, m)
           /\ Head(e) \in 1..MaxChunks => Sound(Tail(e), Append(rd, Head(e)), m)
<1> DEFINE a == Tail(e)
           C == 1..MaxChunks
<1>1. /\ Head(e) = e[1] /\ Len(e) \in Nat /\ Len(e) >= 1 /\ Len(a) = Len(e) - 1
      /\ \A j \in 1..(Len(e) - 1) : a[j] = e[j + 1]
  BY TailIs
<1>2. Len(rd) \in Nat /\ Len(rd) <= m /\ m \in Nat /\ \A n \in 1..Len(rd) : rd[n] = n
  BY BoundsAssumption DEF Sound
<1>3. \A j \in 1..Len(e) : e[j] \in C => Len(rd) < e[j] /\ e[j] <= m  BY DEF Sound, C
<1>4. \A j, k \in 1..Len(e) : j < k /\ e[j] \in C /\ e[k] \in C => e[j] < e[k]  BY DEF Sound, C
<1>5. \A n \in (Len(rd) + 1)..m : \E j \in 1..Len(e) : e[j] = n  BY DEF Sound
<1>c. \A x \in C : x \in Nat  BY DEF C
<1>m. \A n \in 1..m : n \in C  BY BoundsAssumption DEF C
<1> HIDE DEF a, C
<1>6. \A j \in 1..Len(a) : j + 1 \in 1..Len(e) /\ a[j] = e[j + 1]  BY <1>1
<1>7. \A j \in 1..Len(e) : j # 1 => j - 1 \in 1..Len(a) /\ a[j - 1] = e[j]
  <2> SUFFICES ASSUME NEW j \in 1..Len(e), j # 1  PROVE j - 1 \in 1..Len(a) /\ a[j - 1] = e[j]
    OBVIOUS
  <2>1. j - 1 \in 1..Len(a) /\ (j - 1) + 1 = j  BY <1>1
  <2> QED  BY <1>1, <2>1
<1>8. \A j, k \in 1..Len(a) : j < k /\ a[j] \in C /\ a[k] \in C => a[j] < a[k]
  <2> SUFFICES ASSUME NEW j \in 1..Len(a), NEW k \in 1..Len(a), j < k, a[j] \in C, a[k] \in C
               PROVE  a[j] < a[k]
    OBVIOUS
  <2>1. j + 1 < k + 1  OBVIOUS
  <2> QED  BY <1>4, <1>6, <2>1
<1>9. ASSUME e[1] \notin C  PROVE Sound(a, rd, m)
  <2>1. \A j \in 1..Len(a) : a[j] \in C => Len(rd) < a[j] /\ a[j] <= m  BY <1>3, <1>6
  <2>2. ASSUME NEW n \in (Len(rd) + 1)..m  PROVE \E j \in 1..Len(a) : a[j] = n
    <3>1. PICK j \in 1..Len(e) : e[j] = n  BY <1>5
    <3>2. n \in C  BY <1>2, <1>m
    <3>3. j # 1  BY <1>9, <3>1, <3>2
    <3> QED  BY <1>7, <3>1, <3>3
  <2> QED  BY <1>2, <1>8, <2>1, <2>2 DEF Sound, C
<1>10. ASSUME e[1] \in C  PROVE Sound(a, Append(rd, e[1]), m)
  <2> DEFINE b == Append(rd, e[1])
  <2>0. 1 \in 1..Len(e) /\ e[1] \in Nat  BY <1>1, <1>10, <1>c
  <2>1. Len(rd) < e[1] /\ e[1] <= m  BY <1>3, <1>10, <2>0
  <2>2. e[1] = Len(rd) + 1
    <3>1. Len(rd) + 1 \in (Len(rd) + 1)..m  BY <1>2, <2>0, <2>1
    <3>2. PICK j \in 1..Len(e) : e[j] = Len(rd) + 1  BY <1>5, <3>1
    <3>3. CASE j = 1  BY <3>2, <3>3
    <3>4. CASE j # 1
      <4>1. Len(rd) + 1 \in C  BY <1>2, <1>m, <3>1
      <4>2. e[1] < Len(rd) + 1  BY <1>4, <1>10, <2>0, <3>2, <3>4, <4>1
      <4> QED  BY <1>2, <2>0, <2>1, <4>2
    <3> QED  BY <3>3, <3>4
  <2>3. Len(b) = Len(rd) + 1 /\ b[Len(rd) + 1] = e[1] /\ \A n \in 1..Len(rd) : b[n] = rd[n]
    BY <1>10 DEF C
  <2> HIDE DEF b
  <2>4. Len(b) <= m  BY <2>1, <2>2, <2>3
  <2>5. \A n \in 1..Len(b) : b[n] = n  BY <1>2, <2>2, <2>3
  <2>6. ASSUME NEW j \in 1..Len(a), a[j] \in C  PROVE Len(b) < a[j] /\ a[j] <= m
    <3>1. j + 1 \in 1..Len(e) /\ a[j] = e[j + 1] /\ 1 < j + 1  BY <1>6
    <3>2. e[1] < e[j + 1]  BY <1>4, <1>10, <2>0, <2>6, <3>1
    <3> QED  BY <1>3, <2>2, <2>3, <2>6, <3>1, <3>2
  <2>7. ASSUME NEW n \in (Len(b) + 1)..m  PROVE \E j \in 1..Len(a) : a[j] = n
    <3>1. n \in (Len(rd) + 1)..m /\ n # e[1]  BY <1>2, <2>2, <2>3
    <3>2. PICK j \in 1..Len(e) : e[j] = n  BY <1>5, <3>1
    <3>3. j # 1  BY <3>1, <3>2
    <3> QED  BY <1>7, <3>2, <3>3
  <2>8. Sound(a, b, m)  BY <1>8, <2>4, <2>5, <2>6, <2>7 DEF Sound, C
  <2> QED  BY <2>8 DEF b
<1> QED  BY <1>1, <1>9, <1>10 DEF a, C

\* A stream stays whole where its hands and what was sent stay.
LEMMA HandsKept ==
    ASSUME NEW id \in Ids, NEW m \in 0..MaxChunks, Whole(id, m),
           sent'[id] = sent[id], pending'[id].on => pending[id].on \/ m = sent[id],
           Sound(events'[id], read'[id], m),
           \A c \in Conns : InHand(c, id)' => InHand(c, id) /\ conns'[c].event = conns[c].event,
           pending'[id].on => \A c \in Conns : Lagging(c, id) => Lagging(c, id)'
    PROVE  \E k \in 0..MaxChunks : Whole(id, k)'
<1>1. \A c \in Conns : InHand(c, id)' => conns'[c].event = m + 1 /\ sent'[id] = m + 1
  BY DEF Whole
<1>2. pending'[id].on => m = sent'[id] \/ \E c \in Conns : Lagging(c, id)'  BY DEF Whole
<1>3. m <= sent'[id]  BY DEF Whole
<1>4. Whole(id, m)'  BY <1>1, <1>2, <1>3 DEF Whole
<1> QED  BY <1>4

LEMMA WholeKept ==
    ASSUME TypeOK, StreamsWhole, NEW id \in Ids,
           sent'[id] = sent[id], read'[id] = read[id], pending'[id].on => pending[id].on,
           \/ events'[id] = events[id]
           \/ \E x \in {Start, End} : events'[id] = Append(events[id], x),
           \A c \in Conns : InHand(c, id)' => InHand(c, id) /\ conns'[c].event = conns[c].event,
           pending'[id].on => \A c \in Conns : Lagging(c, id) => Lagging(c, id)'
    PROVE  \E m \in 0..MaxChunks : Whole(id, m)'
<1>1. PICK m \in 0..MaxChunks : Whole(id, m)  BY DEF StreamsWhole
<1>2. Sound(events[id], read[id], m)  BY <1>1 DEF Whole
<1>3. events[id] \in Seq(0..End) /\ read[id] \in Seq(1..MaxChunks)  BY DEF TypeOK
<1>4. Sound(events'[id], read'[id], m)  BY <1>2, <1>3, SoundMore
<1> QED  BY <1>1, <1>4, HandsKept

\* The tasks of requests do not touch what connections hold.
LEMMA WholeRequest ==
    ASSUME AccountInv, Next, TypeOK', TracesFit, StreamsWhole, NEW r \in Requests, Request(r)
    PROVE  StreamsWhole'
<1>0. TypeOK  BY AccountOf
<1> SUFFICES ASSUME NEW id \in Ids  PROVE \E m \in 0..MaxChunks : Whole(id, m)'
  BY DEF StreamsWhole
<1>1. PICK i \in Ids : i = Id(r) /\ i[1] = r /\ i[2] = reqs[r].attempt  BY <1>0, IdOf
<1>2. UNCHANGED conns  BY <1>0, RequestMoves
<1>3. \A c \in Conns : /\ InHand(c, id)' => InHand(c, id) /\ conns'[c].event = conns[c].event
                       /\ Lagging(c, id) => Lagging(c, id)'
  BY <1>2 DEF InHand, Lagging
<1>4. UNCHANGED sent
  BY DEF Request, Begin, GiveUp, SendRequest, SendRefused, Unsent, Answered, Timeout, Expire,
         Abandon, AbandonCancel, StreamStarts, StreamEndsEarly, StreamMisordered, ReadBody,
         BodyEnds, DropBody,
         CleanBody, CancelStream, peers
<1>5. CASE Begin(r)
  <2>1. UNCHANGED <<events, read>>  BY <1>5 DEF Begin, outcome
  <2>2. CASE id # i
    <3>1. pending'[id] = pending[id]  BY <1>0, <1>1, <2>2, OwnEntry
    <3> QED  BY <1>0, <1>3, <1>4, <2>1, <3>1, WholeKept
  <2>3. CASE id = i
    <3>1. NotYet(id)  BY <1>1, <1>5, <2>3 DEF Begin, NotYet
    <3>2. PICK m \in 0..MaxChunks : Whole(id, m)  BY DEF StreamsWhole
    <3>3. m = sent[id]  BY <3>1, <3>2 DEF TracesFit, Whole
    <3>4. Sound(events'[id], read'[id], m)  BY <2>1, <3>2 DEF Whole
    <3> QED  BY <1>3, <1>4, <3>2, <3>3, <3>4, HandsKept
  <2> QED  BY <2>2, <2>3
<1>6. CASE StreamStarts(r) \/ ReadBody(r)
  <2>1. events' = [events EXCEPT ![i] = Tail(events[i])] /\ events[i] # <<>> /\ UNCHANGED pending
    BY <1>0, <1>1, <1>6 DEF StreamStarts, ReadBody, TypeOK, tables
  <2>2. \/ UNCHANGED read /\ Head(events[i]) \notin 1..MaxChunks
        \/ /\ read' = [read EXCEPT ![i] = Append(read[i], Head(events[i]))]
           /\ Head(events[i]) \in 1..MaxChunks
    <3>1. CASE StreamStarts(r)
      <4>1. Head(events[i]) = Start /\ UNCHANGED read  BY <1>1, <3>1 DEF StreamStarts
      <4> QED  BY <4>1 DEF Start
    <3>2. CASE ReadBody(r)  BY <1>0, <1>1, <3>2 DEF ReadBody, TypeOK
    <3> QED  BY <1>6, <3>1, <3>2
  <2>3. CASE id # i
    <3>1. events'[id] = events[id] /\ read'[id] = read[id] /\ pending'[id] = pending[id]
      BY <1>0, <2>1, <2>2, <2>3 DEF TypeOK
    <3> QED  BY <1>0, <1>3, <1>4, <3>1, WholeKept
  <2>4. CASE id = i
    <3>1. PICK m \in 0..MaxChunks : Whole(i, m)  BY DEF StreamsWhole
    <3>2. PICK e \in Seq(0..End) : e = events[i]  BY <1>0 DEF TypeOK
    <3>3. PICK rd \in Seq(1..MaxChunks) : rd = read[i]  BY <1>0 DEF TypeOK
    <3>4. Sound(e, rd, m) /\ e # <<>>  BY <2>1, <3>1, <3>2, <3>3 DEF Whole
    <3>5. events'[i] = Tail(e)  BY <1>0, <2>1, <3>2 DEF TypeOK
    <3>6. \/ read'[i] = rd /\ Head(e) \notin 1..MaxChunks
          \/ read'[i] = Append(rd, Head(e)) /\ Head(e) \in 1..MaxChunks
      BY <1>0, <2>2, <3>2, <3>3 DEF TypeOK
    <3>7. Sound(events'[i], read'[i], m)  BY <3>4, <3>5, <3>6, SoundTail
    <3> QED  BY <1>3, <1>4, <2>1, <2>4, <3>1, <3>7, HandsKept
  <2> QED  BY <2>3, <2>4
<1>7. CASE ~Begin(r) /\ ~StreamStarts(r) /\ ~ReadBody(r)
  <2>1. NoneEnters  BY <1>0, <1>7, RequestMoves
  <2>2. UNCHANGED <<events, read>>
    BY <1>7 DEF Request, GiveUp, SendRequest, SendRefused, Unsent, Answered, Timeout,
       Expire, Abandon, AbandonCancel, StreamEndsEarly, StreamMisordered, BodyEnds, DropBody, CleanBody,
       CancelStream, outcome
  <2> QED  BY <1>0, <1>3, <1>4, <2>1, <2>2, WholeKept DEF NoneEnters
<1> QED  BY <1>5, <1>6, <1>7


\* The start, an end or a chunk that finds no room adds no chunk; one that is queued
\* is the next.
LEMMA WholeDelivered ==
    ASSUME TypeOK, HoldersFit, StreamsWhole, NEW c \in Conns, Deliver(c)
    PROVE  StreamsWhole'
<1> SUFFICES ASSUME NEW id \in Ids  PROVE \E m \in 0..MaxChunks : Whole(id, m)'
  BY DEF StreamsWhole
<1>1. PICK i \in Ids : i = conns[c].id  BY DEF TypeOK, Conn
<1>2. PICK e \in 0..MaxChunks : e = conns[c].event  BY DEF Deliver, HoldersFit, Busy
<1>3. /\ UNCHANGED <<read, sent, pending>> /\ conns[c].pc = "event"
      /\ \/ Goto(c, "overflow") /\ UNCHANGED events
         \/ Goto(c, "open") /\ events' = [events EXCEPT ![i] = Append(events[i], e)]
  BY <1>1, <1>2 DEF Deliver, peers, tables
<1>4. /\ conns'[c].pc \in {"open", "overflow"} /\ conns'[c].id = i
      /\ conns'[c].pc = "open" <=> Goto(c, "open")
      /\ \A b \in Conns : b # c => conns'[b] = conns[b]
  BY <1>1, <1>3, GoingOn
<1>5. \A b \in Conns : InHand(b, id)' => InHand(b, id) /\ conns'[b].event = conns[b].event
  BY <1>4 DEF InHand
<1>6. CASE id # i
  <2>1. events'[id] = events[id]  BY <1>3, <1>6 DEF TypeOK
  <2>2. \A b \in Conns : Lagging(b, id) => Lagging(b, id)'  BY <1>1, <1>4, <1>6 DEF Lagging, InHand
  <2> QED  BY <1>3, <1>5, <2>1, <2>2, WholeKept
<1>7. CASE id = i /\ Goto(c, "overflow") /\ UNCHANGED events
  <2>1. conns'[c].pc = "overflow"  BY <1>7, GoingOn
  <2>2. \A b \in Conns : Lagging(b, id) => Lagging(b, id)'
    BY <1>4, <1>7, <2>1 DEF Lagging, InHand
  <2> QED  BY <1>3, <1>5, <1>7, <2>2, WholeKept
<1>8. CASE id = i /\ Goto(c, "open") /\ events' = [events EXCEPT ![i] = Append(events[i], e)]
  <2>1. events'[i] = Append(events[i], e)  BY <1>8 DEF TypeOK
  <2>2. CASE e = Start
    <3>1. \A b \in Conns : Lagging(b, id) => Lagging(b, id)'
      BY <1>2, <1>3, <1>4, <2>2 DEF Lagging, InHand
    <3> QED  BY <1>3, <1>5, <1>8, <2>1, <2>2, <3>1, WholeKept
  <2>3. CASE e # Start
    <3>1. PICK m \in 0..MaxChunks : Whole(i, m)  BY DEF StreamsWhole
    <3>2. InHand(c, i)  BY <1>1, <1>2, <1>3, <2>3 DEF InHand
    <3>3. e = m + 1 /\ sent[i] = m + 1 /\ m + 1 \in 1..MaxChunks
      BY <1>2, <2>3, <3>1, <3>2, BoundsAssumption DEF Whole, Start
    <3>4. PICK q \in Seq(0..End), rd \in Seq(1..MaxChunks) : q = events[i] /\ rd = read[i]
      BY DEF TypeOK
    <3>5. Sound(q, rd, m)  BY <3>1, <3>4 DEF Whole
    <3>6. Sound(Append(q, m + 1), rd, m + 1)  BY <3>3, <3>5, SoundChunk
    <3>7. Sound(events'[i], read'[i], m + 1)  BY <1>3, <2>1, <3>3, <3>4, <3>6
    <3>8. \A b \in Conns : ~InHand(b, i)'
      <4>1. conns'[c].pc = "open"  BY <1>4, <1>8
      <4>2. \A b \in Conns : b # c => ~InHand(b, i)
        BY <1>1, <1>3 DEF InHand, HoldersFit, Busy
      <4> QED  BY <1>4, <4>1, <4>2 DEF InHand
    <3>9. PICK k \in 0..MaxChunks : k = m + 1  BY <3>3
    <3>10. Whole(i, k)'  BY <1>3, <3>3, <3>7, <3>8, <3>9 DEF Whole
    <3> QED  BY <1>8, <3>10
  <2> QED  BY <2>2, <2>3
<1> QED  BY <1>3, <1>6, <1>7, <1>8

\* A chunk that is sent is in hand, or nobody waits for it.
LEMMA WholeSent ==
    ASSUME TypeOK, HoldersFit, StreamsWhole, NEW c \in Conns, NEW i \in Ids, StreamChunk(c, i)
    PROVE  StreamsWhole'
<1> SUFFICES ASSUME NEW id \in Ids  PROVE \E m \in 0..MaxChunks : Whole(id, m)'
  BY DEF StreamsWhole
<1>1. /\ Active(c, i) /\ ~Busy(c) /\ UNCHANGED <<events, read, pending>>
      /\ sent[i] < MaxChunks /\ sent' = [sent EXCEPT ![i] = sent[i] + 1]
      /\ IF pending[i].on THEN Hold(c, i, sent[i] + 1) ELSE UNCHANGED conns
  BY DEF StreamChunk, Works, Speaks, Active, Busy, tables, outcome
<1>2. \A b \in Conns : ~(Busy(b) /\ conns[b].id = i)  BY <1>1 DEF HoldersFit
<1>3. \A b \in Conns : ~InHand(b, i) /\ ~Lagging(b, i)
  BY <1>2 DEF InHand, Lagging, Busy
<1>4. sent'[i] = sent[i] + 1 /\ sent[i] \in 0..MaxChunks /\ \A x \in Ids : x # i => sent'[x] = sent[x]
  BY <1>1 DEF TypeOK
<1>5. CASE id # i
  <2>1. \A b \in Conns : /\ InHand(b, id)' => InHand(b, id) /\ conns'[b].event = conns[b].event
                         /\ Lagging(b, id) => Lagging(b, id)'
    <3>1. CASE UNCHANGED conns  BY <3>1 DEF InHand, Lagging
    <3>2. CASE Hold(c, i, sent[i] + 1)
      <4>1. conns'[c].id = i /\ \A b \in Conns : b # c => conns'[b] = conns[b]  BY <3>2, Holding
      <4> QED  BY <1>1, <1>5, <4>1 DEF InHand, Lagging, Busy
    <3> QED  BY <1>1, <3>1, <3>2
  <2> QED  BY <1>1, <1>4, <1>5, <2>1, WholeKept
<1>6. CASE id = i
  <2>1. PICK m \in 0..MaxChunks : Whole(i, m)  BY DEF StreamsWhole
  <2>2. Sound(events[i], read[i], m)' /\ m <= sent'[i]
    BY <1>1, <1>4, <2>1 DEF Whole
  <2>3. CASE pending[i].on
    <3>1. m = sent[i]  BY <1>3, <2>1, <2>3 DEF Whole
    <3>2. /\ conns'[c].pc = "event" /\ conns'[c].id = i /\ conns'[c].event = m + 1
          /\ \A b \in Conns : b # c => conns'[b] = conns[b]
      BY <1>1, <2>3, <3>1, Holding
    <3>3. \A b \in Conns : InHand(b, i)' => b = c  BY <1>3, <3>2 DEF InHand
    <3>4. m + 1 # Start  BY DEF Start
    <3>5. InHand(c, i)'  BY <3>2, <3>4 DEF InHand
    <3>6. Whole(i, m)'  BY <1>4, <2>2, <3>1, <3>2, <3>3, <3>5 DEF Whole, Lagging
    <3> QED  BY <1>6, <3>6
  <2>4. CASE ~pending[i].on
    <3>1. ~pending'[i].on /\ \A b \in Conns : ~InHand(b, i)'  BY <1>1, <1>3, <2>4 DEF InHand
    <3>2. Whole(i, m)'  BY <2>2, <3>1 DEF Whole
    <3> QED  BY <1>6, <3>2
  <2> QED  BY <2>3, <2>4
<1> QED  BY <1>5, <1>6

LEMMA WholeStep ==
    ASSUME AccountInv, Next, TypeOK', WorkersFit, HoldersFit, TracesFit, StreamsWhole
    PROVE  StreamsWhole'
<1>0. TypeOK  BY AccountOf
<1>1. ASSUME UNCHANGED <<sent, read>>, NoneEnters,
             \A id \in Ids : \/ events'[id] = events[id]
                             \/ events'[id] = Append(events[id], End),
             \A id \in Ids, c \in Conns :
                /\ InHand(c, id)' => InHand(c, id) /\ conns'[c].event = conns[c].event
                /\ pending'[id].on /\ Lagging(c, id) => Lagging(c, id)'
      PROVE  StreamsWhole'
  BY <1>0, <1>1, WholeKept DEF StreamsWhole, NoneEnters
<1>2. ASSUME NEW S \in SUBSET Ids, Take(S), Failed(S)
      PROVE  \A id \in Ids : events'[id] = events[id] \/ events'[id] = Append(events[id], End)
  BY <1>0, <1>2, Ends
<1>3. ASSUME NEW c \in Conns, Connection(c)  PROVE StreamsWhole'
  <2>1. NoneEnters  BY <1>3, OthersKeep
  <2>2. UNCHANGED <<sent, read>>
    BY <1>3 DEF Connection, Connect, RegisterBridge, RegisterBrowser, Announce, Hangup,
       UnregisterBridge, UnregisterOther, outcome, peers
  <2>3. \A id \in Ids : events'[id] = events[id] \/ events'[id] = Append(events[id], End)
    <3>1. CASE UnregisterBridge(c)  BY <1>2, <3>1, OfDeviceIds DEF UnregisterBridge
    <3>2. CASE ~UnregisterBridge(c)
      BY <1>3, <3>2 DEF Connection, Connect, RegisterBridge, RegisterBrowser, Announce, Hangup,
         UnregisterOther, outcome
    <3> QED  BY <3>1, <3>2
  <2>4. ~Busy(c) /\ ~Busy(c)' /\ \A b \in Conns : b # c => conns'[b] = conns[b]
    BY <1>0, <1>3, ConnectionHands
  <2>5. \A id \in Ids, b \in Conns :
           /\ InHand(b, id)' => InHand(b, id) /\ conns'[b].event = conns[b].event
           /\ Lagging(b, id) => Lagging(b, id)'
    BY <2>4 DEF InHand, Lagging, Busy
  <2> QED  BY <1>1, <2>1, <2>2, <2>3, <2>5
<1>4. ASSUME NEW d \in Devices, Device_(d)  PROVE StreamsWhole'
  <2>1. NoneEnters  BY <1>4, OthersKeep
  <2>2. UNCHANGED <<sent, read, conns>>
    BY <1>4 DEF Device_, Disconnect, Delete, DeleteFails, DeleteSucceeds, outcome, peers
  <2>3. \A id \in Ids : events'[id] = events[id] \/ events'[id] = Append(events[id], End)
    <3>1. CASE DisconnectRuntime(d)  BY <1>2, <3>1, OfDeviceIds DEF DisconnectRuntime
    <3>2. CASE ~DisconnectRuntime(d)
      BY <1>4, <3>2 DEF Device_, Disconnect, Delete, DeleteFails, DeleteSucceeds, outcome
    <3> QED  BY <3>1, <3>2
  <2>4. \A id \in Ids, b \in Conns :
           /\ InHand(b, id)' => InHand(b, id) /\ conns'[b].event = conns[b].event
           /\ Lagging(b, id) => Lagging(b, id)'
    BY <2>2 DEF InHand, Lagging
  <2> QED  BY <1>1, <2>1, <2>2, <2>3, <2>4
<1>5. ASSUME NEW c \in Conns, Route(c)  PROVE StreamsWhole'
  <2>0. NoneEnters  BY <1>5, OthersKeep
  <2>1. CASE Deliver(c)  BY <1>0, <2>1, WholeDelivered
  <2>2. ASSUME NEW i \in Ids, StreamChunk(c, i)  PROVE StreamsWhole'
    BY <1>0, <2>2, WholeSent
  <2>3. ASSUME NEW pc \in {"open", "ended", "cancel"}, Goto(c, pc), UNCHANGED <<sent, read, events>>,
               conns[c].pc = "overflow" => ~pending'[conns[c].id].on, conns[c].pc # "event"
        PROVE  StreamsWhole'
    <3>1. conns'[c].pc = pc /\ \A b \in Conns : b # c => conns'[b] = conns[b]
      BY <1>0, <2>3, GoingOn
    <3>2. \A id \in Ids, b \in Conns :
             /\ InHand(b, id)' => InHand(b, id) /\ conns'[b].event = conns[b].event
             /\ pending'[id].on /\ Lagging(b, id) => Lagging(b, id)'
      BY <2>3, <3>1 DEF InHand, Lagging
    <3> QED  BY <1>1, <2>0, <2>3, <3>2
  <2>4. CASE StaleSpeaks(c) \/ CancelFrom(c)
    <3>1. /\ UNCHANGED <<sent, read, events>> /\ conns[c].pc \notin {"overflow", "event"}
          /\ \E pc \in {"open", "ended", "cancel"} : Goto(c, pc)
      BY <2>4 DEF StaleSpeaks, CancelFrom, Speaks, peers, outcome
    <3> QED  BY <2>3, <3>1
  <2>5. CASE Overflow(c)
    <3>1. ~pending'[conns[c].id].on
      <4>1. PICK i \in Ids : i = conns[c].id  BY <1>0 DEF TypeOK, Conn
      <4>2. CASE pending[i].on
        <5>1. Take({i})  BY <2>5, <4>1, <4>2 DEF Overflow, CutOff, Cut
        <5> QED  BY <4>1, <5>1 DEF Take, NoPending
      <4>3. CASE ~pending[i].on  BY <2>0, <4>1, <4>3 DEF NoneEnters
      <4> QED  BY <4>2, <4>3
    <3>2. /\ UNCHANGED <<sent, read, events>> /\ conns[c].pc # "event"
          /\ \E pc \in {"open", "ended", "cancel"} : Goto(c, pc)
      BY <2>5 DEF Overflow, Cut, peers, outcome
    <3> QED  BY <2>3, <3>1, <3>2
  <2>6. ASSUME NEW i \in Ids, StreamStart(c, i) \/ StreamRestart(c, i)  PROVE StreamsWhole'
    <3>1. UNCHANGED <<sent, read>> /\ ~Busy(c)
      BY <2>6 DEF StreamStart, StreamRestart, Works, Speaks, Busy, peers, outcome
    <3>2. \A id \in Ids : events'[id] = events[id] \/ events'[id] = Append(events[id], End)
      BY <1>2, <2>6 DEF StreamStart, StreamRestart, outcome
    <3>3. \A id \in Ids, b \in Conns :
             /\ InHand(b, id)' => InHand(b, id) /\ conns'[b].event = conns[b].event
             /\ Lagging(b, id) => Lagging(b, id)'
      <4>1. CASE UNCHANGED conns  BY <4>1 DEF InHand, Lagging
      <4>2. CASE Hold(c, i, Start)
        <5>1. conns'[c].event = Start /\ \A b \in Conns : b # c => conns'[b] = conns[b]
          BY <1>0, <4>2, Holding
        <5> QED  BY <3>1, <5>1 DEF InHand, Lagging, Busy
      <4>3. CASE StreamRestart(c, i)
        <5>1. conns'[c].pc = "cancel" /\ \A b \in Conns : b # c => conns'[b] = conns[b]
          BY <1>0, <4>3, Restarting
        <5> QED  BY <3>1, <5>1 DEF InHand, Lagging, Busy
      <4> QED  BY <2>6, <4>1, <4>2, <4>3 DEF StreamStart
    <3> QED  BY <1>1, <2>0, <3>1, <3>2, <3>3
  <2>7. CASE Report(c) \/ \E i \in Ids : Answer(c, i) \/ StreamEnd(c, i) \/ Cancelled(c, i)
    <3>1. UNCHANGED <<sent, read, conns>>
      BY <2>7 DEF Report, Answer, StreamEnd, Cancelled, peers, outcome
    <3>2. \A id \in Ids : events'[id] = events[id] \/ events'[id] = Append(events[id], End)
      BY <1>2, <2>7 DEF Report, Answer, StreamEnd, Cancelled, outcome
    <3>3. \A id \in Ids, b \in Conns :
             /\ InHand(b, id)' => InHand(b, id) /\ conns'[b].event = conns[b].event
             /\ Lagging(b, id) => Lagging(b, id)'
      BY <3>1 DEF InHand, Lagging
    <3> QED  BY <1>1, <2>0, <3>1, <3>2, <3>3
  <2> QED  BY <1>5, <2>1, <2>2, <2>4, <2>5, <2>6, <2>7 DEF Route
<1> QED  BY <1>3, <1>4, <1>5, WholeRequest DEF Next


-----------------------------------------------------------------------------
\* Of a stream in the table its bridge may go on; otherwise somebody is about to tell it.
Telling == {"cancel", "cleanup"}
Told(c, id) ==
    \/ pending[id].on
    \/ <<c, id>> \in cancels
    \/ reqs[id[1]].pc \in Telling /\ reqs[id[1]].attempt = id[2]
    \/ \E b \in Conns : conns[b].pc = "cancel" /\ conns[b].id = id
    \/ id \in lost

LEMMA NobodyIs ==
    /\ NobodyStreamsToNobody <=>
          \A c \in Conns, id \in Ids : IsStream(id) /\ Active(c, id) /\ Current(c) => Told(c, id)
    /\ NobodyStreamsToNobody' <=>
          \A c \in Conns, id \in Ids : IsStream(id) /\ Active(c, id)' /\ Current(c)' => Told(c, id)'
<1>1. \A id \in Ids : id = <<id[1], id[2]>>  BY DEF Ids
<1>2. \A id \in Ids : Id(id[1]) = id <=> reqs[id[1]].attempt = id[2]  BY <1>1 DEF Id
<1>3. \A id \in Ids : Id(id[1])' = id <=> reqs'[id[1]].attempt = id[2]  BY <1>1 DEF Id
<1>4. NobodyStreamsToNobody <=>
         \A c \in Conns, id \in Ids : IsStream(id) /\ Active(c, id) /\ Current(c) => Told(c, id)
  BY <1>2 DEF NobodyStreamsToNobody, Active, Told, Telling
<1>5. NobodyStreamsToNobody' <=>
         \A c \in Conns, id \in Ids : IsStream(id) /\ Active(c, id)' /\ Current(c)' => Told(c, id)'
  BY <1>3 DEF NobodyStreamsToNobody, Active, Told, Telling, IsStream, Kind
<1> QED  BY <1>4, <1>5

LEMMA ToldKept ==
    ASSUME NEW c, NEW id \in Ids, Told(c, id),
           pending[id].on => Told(c, id)',
           <<c, id>> \in cancels => <<c, id>> \in cancels', id \in lost => id \in lost',
           reqs[id[1]].pc \in Telling /\ reqs[id[1]].attempt = id[2]
               => reqs'[id[1]].pc \in Telling /\ reqs'[id[1]].attempt = id[2],
           \A b \in Conns : conns[b].pc = "cancel" /\ conns[b].id = id
               => conns'[b].pc = "cancel" /\ conns'[b].id = id
    PROVE  Told(c, id)'
BY DEF Told

\* Who is the bridge was it before, or has just registered.
LEMMA StillCurrent ==
    ASSUME AccountInv, Next, NEW c \in Conns, Registered(c), Current(c)'
    PROVE  Current(c) /\ channel'[conns[c].dev].bridge = c /\ conns[c].dev \in Devices
<1>1. TypeOK  BY AccountOf
<1>2. PICK d \in Devices : d = conns[c].dev  BY <1>1 DEF TypeOK, Conn
<1>3. Registered(c)' /\ conns'[c].dev = d  BY <1>2, ConnsStay
<1>4. channel'[d].bridge = c  BY <1>3 DEF Current, Bridge
<1>5. Registered(channel'[d].bridge)  BY <1>4
<1>6. channel'[d].bridge \in {channel[d].bridge, None}  BY <1>1, <1>5, BridgeMoves
<1>7. c # None  BY NoneIsNoConn
<1>8. channel[d].bridge = c  BY <1>4, <1>6, <1>7
<1> QED  BY <1>2, <1>4, <1>8 DEF Current, Bridge

\* A cancellation reaches the bridge, or finds its queue full.
LEMMA CancelTold ==
    ASSUME NEW c \in Conns, NEW id \in Ids, NEW d \in Devices, CancelAt(d, id), Bridge(d) = c
    PROVE  Told(c, id)'
<1>1. c # None  BY NoneIsNoConn
<1> QED  BY <1>1 DEF CancelAt, Told


\* The task of a request that gives up a stream takes its entry and cancels it.
LEMMA RequestTells ==
    ASSUME AccountInv, Next, WorkersFit, PeersFit, TracesFit, NEW r \in Requests, Request(r),
           NEW c \in Conns, NEW id \in Ids, IsStream(id), Active(c, id), Current(c), Told(c, id)
    PROVE  Told(c, id)'
<1>0. TypeOK  BY AccountOf
<1>1. PICK i \in Ids : /\ i = Id(r) /\ i[1] = r /\ i[2] = reqs[r].attempt
                       /\ Device(i) = DeviceOf[r] /\ (IsStream(i) <=> KindOf[r] = "stream")
  BY <1>0, IdOf
<1>2. UNCHANGED conns /\ \A q \in Requests : q # r => reqs'[q] = reqs[q]
  BY <1>0, RequestMoves
<1>3. /\ <<c, id>> \in cancels => <<c, id>> \in cancels'
      /\ id \in lost => id \in lost'
  BY DEF Request, Begin, GiveUp, SendRequest, SendRefused, Unsent, Answered, Timeout, Expire,
         Abandon, AbandonCancel, StreamStarts, StreamEndsEarly, StreamMisordered, ReadBody,
         BodyEnds, DropBody,
         CleanBody, CancelStream, CancelAt, peers
<1>4. id[1] \in Requests /\ id[2] \in 1..2 /\ id = <<id[1], id[2]>> /\ i = <<i[1], i[2]>>
  BY DEF Ids
<1>5. CASE id # i
  <2>1. pending'[id] = pending[id]  BY <1>0, <1>1, <1>5, OwnEntry
  <2>2. reqs[id[1]].attempt = id[2] => reqs'[id[1]] = reqs[id[1]]
    BY <1>1, <1>2, <1>4, <1>5
  <2>3. pending[id].on => Told(c, id)'  BY <2>1 DEF Told
  <2> QED  BY <1>2, <1>3, <2>2, <2>3, ToldKept
<1>6. CASE id = i
  <2>1. ASSUME reqs[r].pc \notin Telling, pending[i].on => Told(c, i)'  PROVE Told(c, id)'
    BY <1>1, <1>2, <1>3, <1>6, <2>1, ToldKept
  <2>2. ASSUME NEW pc \in Telling, Step(r, pc)  PROVE Told(c, i)'
    <3>1. PICK q \in Req : q = reqs[r]  BY <1>0 DEF TypeOK
    <3>2. reqs' = [reqs EXCEPT ![r] = [q EXCEPT !.pc = pc]]
      BY <1>0, <2>2, <3>1 DEF Step, TypeOK
    <3>3. [q EXCEPT !.pc = pc].pc = pc /\ [q EXCEPT !.pc = pc].attempt = q.attempt
      BY DEF Req, Telling
    <3>4. reqs'[i[1]].pc = pc /\ reqs'[i[1]].attempt = i[2]
      BY <1>0, <1>1, <3>1, <3>2, <3>3 DEF TypeOK
    <3> QED  BY <2>2, <3>4 DEF Told
  <2>3. CASE Begin(r)
    <3>1. pending'[i].on  BY <1>0, <1>1, <2>3 DEF Begin, TypeOK
    <3> QED  BY <1>6, <3>1 DEF Told
  <2>4. CASE \/ GiveUp(r) \/ SendRequest(r) \/ SendRefused(r) \/ Answered(r) \/ Timeout(r)
             \/ Abandon(r) \/ StreamStarts(r) \/ ReadBody(r) \/ BodyEnds(r) \/ DropBody(r)
    <3>1. reqs[r].pc \notin Telling /\ UNCHANGED pending
      BY <2>4 DEF GiveUp, SendRequest, SendRefused, Answered, Timeout, Abandon, StreamStarts,
         ReadBody, BodyEnds, DropBody, tables, Telling
    <3> QED  BY <2>1, <3>1 DEF Told
  <2>5. CASE Unsent(r)
    <3>1. Unasked(i)  BY <1>1, <2>5 DEF Unsent, Unasked
    <3> QED  BY <1>6, <3>1 DEF WorkersFit, Active
  <2>6. CASE Expire(r)
    <3>1. KindOf[r] = "stream" /\ reqs[r].pc = "expired"  BY <1>1, <1>6, <2>6 DEF Expire
    <3>2. pending[i].on => Step(r, "cancel")
      BY <1>0, <1>1, <2>6, <3>1 DEF Expire, Retriable, Step, TypeOK
    <3> QED  BY <2>1, <2>2, <3>1, <3>2 DEF Telling
  <2>7. CASE StreamEndsEarly(r)
    <3>1. reqs[r].pc = "wait" /\ (Hungup(i) \/ (events[i] # <<>> /\ Head(events[i]) = End))
      BY <1>1, <2>7 DEF StreamEndsEarly
    <3>2. PICK e \in Seq(0..End) : e = events[i]  BY <1>0 DEF TypeOK
    <3>3. CASE e # <<>> /\ Head(e) = End
      <4>1. 1 \in 1..Len(e) /\ e[1] = End  BY <3>3, TailIs
      <4>2. ~pending[i].on  BY <3>2, <4>1 DEF TracesFit
      <4> QED  BY <2>1, <3>1, <4>2 DEF Telling
    <3>4. CASE Hungup(i)  BY <2>1, <3>1, <3>4 DEF Hungup, Telling
    <3> QED  BY <3>1, <3>2, <3>3, <3>4
  <2>8. CASE StreamMisordered(r) \/ CleanBody(r)
    <3>1. reqs[r].pc \notin Telling
          /\ (pending[i].on => \E pc \in Telling : Step(r, pc))
      BY <1>1, <2>8 DEF StreamMisordered, CleanBody, CleanedTo, Telling
    <3> QED  BY <2>1, <2>2, <3>1
  <2>9. CASE CancelStream(r)
    <3>1. CancelAt(DeviceOf[r], i)  BY <1>1, <2>9 DEF CancelStream
    <3>2. Bridge(DeviceOf[r]) = c  BY <1>1, <1>6 DEF WorkersFit, Current
    <3>3. DeviceOf[r] \in Devices  BY <1>0, IdOf
    <3> QED  BY <1>6, <3>1, <3>2, <3>3, CancelTold
  <2>10. CASE AbandonCancel(r)
    <3>1. i \in lost'  BY <1>1, <2>10 DEF AbandonCancel
    <3> QED  BY <1>6, <3>1 DEF Told
  <2> QED  BY <2>3, <2>4, <2>5, <2>6, <2>7, <2>8, <2>9, <2>10 DEF Request
<1> QED  BY <1>5, <1>6

\* The task of a connection that ends a stream its bridge has not ended cancels it.
LEMMA RouteTells ==
    ASSUME AccountInv, Next, WorkersFit, HoldersFit, NEW a \in Conns, Route(a),
           NEW c \in Conns, NEW id \in Ids, IsStream(id), Active(c, id), Current(c), Told(c, id),
           Active(c, id)'
    PROVE  Told(c, id)'
<1>0. TypeOK  BY AccountOf
<1>1. UNCHANGED reqs  BY OthersKeep
<1>2. ASSUME pending[id].on => Told(c, id)', UNCHANGED <<cancels, lost>>,
             \A b \in Conns : conns[b].pc = "cancel" /\ conns[b].id = id
                 => conns'[b].pc = "cancel" /\ conns'[b].id = id
      PROVE  Told(c, id)'
  BY <1>1, <1>2, ToldKept
<1>3. ASSUME UNCHANGED <<cancels, lost>>, pending'[id].on = pending[id].on, conns[a].pc # "cancel",
             \A b \in Conns : b # a => conns'[b] = conns[b]
      PROVE  Told(c, id)'
  BY <1>2, <1>3 DEF Told
<1>4. CASE StaleSpeaks(a) \/ Deliver(a)
  <2>1. UNCHANGED <<cancels, lost, pending>> /\ conns[a].pc # "cancel"
        /\ \E pc \in {"ended", "open", "overflow"} : Goto(a, pc)
    BY <1>4 DEF StaleSpeaks, Deliver, Speaks, peers, tables
  <2> QED  BY <1>0, <1>3, <2>1, GoingOn
<1>5. CASE Report(a)  BY <1>2, <1>5 DEF Report, peers, tables, Told
<1>6. CASE Overflow(a)
  <2>1. PICK i \in Ids : i = conns[a].id  BY <1>0 DEF TypeOK, Conn
  <2>2. UNCHANGED <<cancels, lost>> /\ conns[a].pc = "overflow" /\ Goto(a, Cut(a)) /\ Take(CutOff(a))
    BY <1>6 DEF Overflow, peers
  <2>3. Cut(a) \in {"cancel", "open"}  BY DEF Cut
  <2>4. conns'[a].pc = Cut(a) /\ conns'[a].id = i /\ \A b \in Conns : b # a => conns'[b] = conns[b]
    BY <1>0, <2>1, <2>2, <2>3, GoingOn
  <2>5. pending[id].on => Told(c, id)'
    <3>1. CASE id = i  BY <2>1, <2>4, <3>1 DEF Cut, Told
    <3>2. CASE id # i
      <4>1. id \notin CutOff(a)  BY <2>1, <3>2 DEF CutOff
      <4> QED  BY <2>2, <4>1 DEF Take, Told
    <3> QED  BY <3>1, <3>2
  <2> QED  BY <1>2, <2>2, <2>4, <2>5
<1>7. CASE CancelFrom(a)
  <2>1. PICK i \in Ids : i = conns[a].id  BY <1>0 DEF TypeOK, Conn
  <2>2. PICK d \in Devices : d = conns[a].dev  BY <1>0 DEF TypeOK, Conn
  <2>3. CancelAt(d, i) /\ Goto(a, "open") /\ conns[a].pc = "cancel" /\ UNCHANGED pending
    BY <1>7, <2>1, <2>2 DEF CancelFrom, tables
  <2>4. CASE id = i
    <3>1. d = Device(i)  BY <2>1, <2>2, <2>3 DEF HoldersFit, Busy
    <3>2. Bridge(d) = c  BY <2>4, <3>1 DEF WorkersFit, Current
    <3> QED  BY <2>3, <2>4, <3>2, CancelTold
  <2>5. CASE id # i
    <3>1. /\ <<c, id>> \in cancels => <<c, id>> \in cancels'
          /\ id \in lost => id \in lost'
      BY <2>3 DEF CancelAt
    <3>2. \A b \in Conns : b # a => conns'[b] = conns[b]  BY <1>0, <2>3, GoingOn
    <3>3. pending[id].on => Told(c, id)'  BY <2>3 DEF Told
    <3> QED  BY <1>1, <2>1, <2>5, <3>1, <3>2, <3>3, ToldKept
  <2> QED  BY <2>4, <2>5
<1>8. ASSUME NEW i \in Ids, Answer(a, i)  PROVE Told(c, id)'
  <2>1. id # i  BY <1>8 DEF Answer
  <2>2. UNCHANGED <<cancels, lost, conns>> /\ pending'[id] = pending[id]
    BY <1>8, <2>1 DEF Answer, Take
  <2> QED  BY <1>2, <2>2 DEF Told
<1>9. ASSUME NEW i \in Ids, StreamStart(a, i) \/ StreamChunk(a, i)  PROVE Told(c, id)'
  <2>1. /\ UNCHANGED <<cancels, lost>> /\ conns[a].pc # "cancel"
        /\ UNCHANGED conns \/ \E e \in {Start, sent[i] + 1} : Hold(a, i, e)
    BY <1>9 DEF StreamStart, StreamChunk, Works, Speaks
  <2>2. pending'[id].on = pending[id].on
    <3>1. CASE StreamStart(a, i)
      <4>1. pending' = [pending EXCEPT ![i].started = pending[i].on]  BY <3>1 DEF StreamStart
      <4> QED  BY <1>0, <4>1 DEF TypeOK
    <3>2. CASE StreamChunk(a, i)  BY <3>2 DEF StreamChunk, tables
    <3> QED  BY <1>9, <3>1, <3>2
  <2>3. \A b \in Conns : b # a => conns'[b] = conns[b]  BY <1>0, <2>1, Holding
  <2> QED  BY <1>3, <2>1, <2>2, <2>3
<1>10. ASSUME NEW i \in Ids, StreamRestart(a, i)  PROVE Told(c, id)'
  <2>1. UNCHANGED <<cancels, lost>> /\ conns[a].pc # "cancel" /\ Take({i})
    BY <1>10 DEF StreamRestart, Works, Speaks, peers
  <2>2. conns'[a].pc = "cancel" /\ conns'[a].id = i /\ \A b \in Conns : b # a => conns'[b] = conns[b]
    BY <1>0, <1>10, Restarting
  <2>3. CASE id = i  BY <2>2, <2>3 DEF Told
  <2>4. CASE id # i
    <3>1. pending'[id] = pending[id]  BY <2>1, <2>4 DEF Take
    <3> QED  BY <1>3, <2>1, <2>2, <3>1
  <2> QED  BY <2>3, <2>4
<1>11. ASSUME NEW i \in Ids, StreamEnd(a, i)  PROVE Told(c, id)'
  <2>1. /\ UNCHANGED <<cancels, lost, conns>> /\ Take({i}) /\ Active(a, i)
        /\ work' = [work EXCEPT ![a][i] = "done"]
    BY <1>11 DEF StreamEnd, Works, Working, Active
  <2>2. CASE id = i
    <3>1. a = c  BY <2>1, <2>2 DEF WorkersFit
    <3> QED  BY <1>0, <2>1, <2>2, <3>1 DEF Active, TypeOK
  <2>3. CASE id # i
    <3>1. pending'[id] = pending[id]  BY <2>1, <2>3 DEF Take
    <3> QED  BY <1>2, <2>1, <3>1 DEF Told
  <2> QED  BY <2>2, <2>3
<1>12. ASSUME NEW i \in Ids, Cancelled(a, i)  PROVE Told(c, id)'
  <2>1. /\ UNCHANGED <<pending, lost, conns>> /\ cancels' = cancels \ {<<a, i>>}
        /\ work' = [work EXCEPT ![a][i] = "done"]
    BY <1>12 DEF Cancelled, Working, tables
  <2>2. <<c, id>> # <<a, i>>  BY <1>0, <2>1 DEF Active, TypeOK
  <2>3. <<c, id>> \in cancels => <<c, id>> \in cancels'  BY <2>1, <2>2
  <2>4. pending[id].on => Told(c, id)'  BY <2>1 DEF Told
  <2> QED  BY <1>1, <2>1, <2>3, <2>4, ToldKept
<1> QED  BY <1>4, <1>5, <1>6, <1>7, <1>8, <1>9, <1>10, <1>11, <1>12 DEF Route

LEMMA NobodyStep ==
    ASSUME AccountInv, Next, TypeOK', WorkersFit, PeersFit, HoldersFit, TracesFit,
           NobodyStreamsToNobody
    PROVE  NobodyStreamsToNobody'
<1>0. TypeOK  BY AccountOf
<1> SUFFICES ASSUME NEW c \in Conns, NEW id \in Ids, IsStream(id), Active(c, id)', Current(c)'
             PROVE  Told(c, id)'
  BY NobodyIs
<1>1. ASSUME Active(c, id)
      PROVE  /\ Current(c) /\ Told(c, id) /\ conns[c].dev = Device(id)
             /\ channel'[Device(id)].bridge = c
  <2>1. Registered(c) /\ conns[c].dev = Device(id)  BY <1>1 DEF WorkersFit
  <2>2. Current(c) /\ channel'[Device(id)].bridge = c  BY <2>1, StillCurrent
  <2>3. Told(c, id)  BY <1>1, <2>2, NobodyIs
  <2> QED  BY <2>1, <2>2, <2>3
<1>2. ASSUME \/ \E a \in Conns : Connection(a)
             \/ \E d \in Devices : Device_(d)
      PROVE  Told(c, id)'
  <2>1. UNCHANGED <<reqs, work, cancels, lost>>
    <3>1. UNCHANGED reqs  BY <1>2, OthersKeep
    <3>2. UNCHANGED <<work, cancels, lost>>
      BY <1>2 DEF Connection, Connect, RegisterBridge, RegisterBrowser, Announce, Hangup,
         UnregisterBridge, UnregisterOther, Device_, Disconnect, Delete, DeleteFails,
         DeleteSucceeds, peers
    <3> QED  BY <3>1, <3>2
  <2>2. Active(c, id)  BY <2>1 DEF Active
  <2>3. \A b \in Conns : conns[b].pc = "cancel" => conns'[b] = conns[b]
    <3>1. ASSUME NEW a \in Conns, Connection(a)
          PROVE  \A b \in Conns : conns[b].pc = "cancel" => conns'[b] = conns[b]
      BY <1>0, <3>1, ConnectionHands DEF Busy
    <3>2. ASSUME NEW d \in Devices, Device_(d)  PROVE UNCHANGED conns
      BY <3>2 DEF Device_, Disconnect, Delete, DeleteFails, DeleteSucceeds
    <3> QED  BY <1>2, <3>1, <3>2
  <2>4. pending[id].on => pending'[id].on
    <3>1. channel'[Device(id)].bridge # None  BY <1>1, <2>2, NoneIsNoConn
    <3> QED  BY <1>0, <1>2, <3>1, WaitsForBridge
  <2>5. pending[id].on => Told(c, id)'  BY <2>4 DEF Told
  <2> QED  BY <1>1, <2>1, <2>2, <2>3, <2>5, ToldKept
<1>3. ASSUME NEW r \in Requests, Request(r)  PROVE Told(c, id)'
  <2>1. CASE Active(c, id)  BY <1>1, <1>3, <2>1, RequestTells
  <2>2. CASE ~Active(c, id)
    <3>1. SendRequest(r)  BY <1>0, <1>3, <2>2, RequestMoves DEF Active
    <3>2. PICK i \in Ids : i = Id(r) /\ Device(i) = DeviceOf[r]  BY <1>0, IdOf
    <3>3. PICK p \in Conns : /\ p = reqs[r].peer /\ Registered(p) /\ conns[p].dev = DeviceOf[r]
                             /\ Bridge(DeviceOf[r]) = p => pending[i].on
      BY <3>1, <3>2 DEF SendRequest, PeersFit
    <3>4. work' = [work EXCEPT ![p][i] = "asked"] /\ UNCHANGED pending
      BY <3>1, <3>2, <3>3 DEF SendRequest, tables
    <3>5. c = p /\ id = i  BY <1>0, <2>2, <3>4 DEF Active, TypeOK
    <3>6. Current(c)  BY <3>3, <3>5, StillCurrent
    <3>7. pending'[id].on  BY <3>3, <3>4, <3>5, <3>6 DEF Current
    <3> QED  BY <3>7 DEF Told
  <2> QED  BY <2>1, <2>2
<1>4. ASSUME NEW a \in Conns, Route(a)  PROVE Told(c, id)'
  <2>1. Active(c, id)
    <3>1. UNCHANGED work \/ \E i \in Ids, w \in {"done", "started"} :
              Working(a, i, w) /\ (w = "started" => Active(a, i))
      BY <1>4 DEF Route, StaleSpeaks, Report, Deliver, Overflow, CancelFrom, Answer, StreamStart,
         StreamRestart, StreamChunk, StreamEnd, Cancelled, Works, Active, peers
    <3>2. ASSUME NEW i \in Ids, NEW w \in {"done", "started"}, Working(a, i, w), w = "started" => Active(a, i)
          PROVE  Active(c, id)
      <4>1. CASE c = a /\ id = i
        <5>1. work'[a][i] = w  BY <1>0, <3>2 DEF Working, TypeOK
        <5> QED  BY <3>2, <4>1, <5>1 DEF Active
      <4>2. CASE ~(c = a /\ id = i)
        <5>1. work'[c][id] = work[c][id]  BY <1>0, <3>2, <4>2 DEF Working, TypeOK
        <5> QED  BY <5>1 DEF Active
      <4> QED  BY <4>1, <4>2
    <3> QED  BY <3>1, <3>2 DEF Active
  <2> QED  BY <1>1, <1>4, <2>1, RouteTells
<1> QED  BY <1>2, <1>3, <1>4 DEF Next

-----------------------------------------------------------------------------
LEMMA StreamInit == Init => StreamInv
<1> SUFFICES ASSUME Init  PROVE StreamInv
  OBVIOUS
<1>1. AccountInv  BY AccountInit
<1>2. /\ \A c \in Conns, id \in Ids : work[c][id] = "none"
      /\ \A c \in Conns : conns[c].pc = "unused"
      /\ \A d \in Devices : channel[d].bridge = None /\ ~channel[d].seen
      /\ \A r \in Requests : reqs[r].pc = "idle"
      /\ \A id \in Ids : /\ events[id] = <<>> /\ read[id] = <<>> /\ sent[id] = 0
                         /\ ~pending[id].on
      /\ cancels = {}
  BY DEF Init, NoChannel, NoPending
<1>3. WorkersFit  BY <1>2 DEF WorkersFit, Active
<1>4. BridgesFit  BY <1>2 DEF BridgesFit
<1>5. PeersFit  BY <1>2 DEF PeersFit
<1>6. HoldersFit  BY <1>2 DEF HoldersFit, Busy
<1>7. TracesFit  BY <1>2 DEF TracesFit
<1>8. StreamsWhole
  <2> SUFFICES ASSUME NEW id \in Ids  PROVE Whole(id, 0) /\ 0 \in 0..MaxChunks
    BY DEF StreamsWhole
  <2>1. Len(events[id]) = 0 /\ Len(read[id]) = 0  BY <1>2
  <2>2. Sound(events[id], read[id], 0)  BY <2>1 DEF Sound
  <2> QED  BY <1>2, <2>2, BoundsAssumption DEF Whole, InHand
<1>9. NobodyStreamsToNobody  BY <1>2 DEF NobodyStreamsToNobody
<1> QED  BY <1>1, <1>3, <1>4, <1>5, <1>6, <1>7, <1>8, <1>9 DEF StreamInv

LEMMA StreamStep == StreamInv /\ [Next]_vars => StreamInv'
<1>1. ASSUME StreamInv, Next  PROVE StreamInv'
  <2> USE <1>1 DEF StreamInv
  <2>1. AccountInv'  BY AccountStep
  <2>2. TypeOK'  BY <2>1 DEF AccountInv, PendingIsAccounted
  <2>3. WorkersFit' /\ BridgesFit' /\ PeersFit'  BY <2>2, WorkersStep, BridgesStep, PeersStep
  <2>4. HoldersFit' /\ TracesFit'  BY <2>2, HoldersStep, TracesStep
  <2>5. StreamsWhole'  BY <2>2, WholeStep
  <2>6. NobodyStreamsToNobody'  BY <2>2, NobodyStep
  <2> QED  BY <2>1, <2>3, <2>4, <2>5, <2>6
<1>2. ASSUME StreamInv, UNCHANGED vars  PROVE StreamInv'
  <2>0. AccountInv'  BY <1>2, AccountStep DEF StreamInv
  <2>1. WorkersFit' /\ BridgesFit' /\ PeersFit'
    BY <1>2 DEF StreamInv, vars, tables, WorkersFit, BridgesFit, PeersFit, Unasked, NotYet, Active,
       Registered, Bridge, Id, Device, IsStream, Kind, TakesStreams
  <2>2. HoldersFit' /\ TracesFit'
    BY <1>2 DEF StreamInv, vars, HoldersFit, TracesFit, Busy, Unasked, NotYet, Active, Device,
       IsStream, Kind
  <2>3. StreamsWhole'
    BY <1>2 DEF StreamInv, vars, StreamsWhole, Whole, InHand, Lagging
  <2>4. NobodyStreamsToNobody'
    BY <1>2 DEF StreamInv, vars, NobodyStreamsToNobody, Current, Bridge, Id, IsStream, Kind
  <2> QED  BY <2>0, <2>1, <2>2, <2>3, <2>4 DEF StreamInv
<1> QED  BY <1>1, <1>2

LEMMA StreamsFollow == StreamInv => StreamsAreWhole
<1> SUFFICES ASSUME StreamInv  PROVE StreamsAreWhole
  OBVIOUS
<1>0. TypeOK  BY AccountOf DEF StreamInv
<1>1. NoGap
  <2> SUFFICES ASSUME NEW id \in Ids
               PROVE  Len(read[id]) <= sent[id] /\ \A n \in 1..Len(read[id]) : read[id][n] = n
    BY DEF NoGap
  <2>1. PICK m \in 0..MaxChunks : Whole(id, m)  BY DEF StreamInv, StreamsWhole
  <2>2. Sound(events[id], read[id], m) /\ m <= sent[id]  BY <2>1 DEF Whole
  <2>3. Len(read[id]) <= m /\ \A n \in 1..Len(read[id]) : read[id][n] = n  BY <2>2 DEF Sound
  <2>4. sent[id] \in 0..MaxChunks /\ read[id] \in Seq(1..MaxChunks)  BY <1>0 DEF TypeOK
  <2>5. Len(read[id]) \in Nat /\ m \in Nat /\ sent[id] \in Nat  BY <2>4, BoundsAssumption
  <2> QED  BY <2>2, <2>3, <2>5
<1>2. StreamOnlyWhenSupported  BY DEF StreamInv, WorkersFit, Active, StreamOnlyWhenSupported
<1> QED  BY <1>1, <1>2 DEF StreamInv, StreamsAreWhole

\* Whatever the number of devices, requests, connections and chunks and the capacity
\* of the queues: what a client has read of a stream is a prefix of what its bridge
\* sent, a stream is asked only of a connection that takes streams, and a current
\* bridge does not work on a stream that nobody waits for and nobody is about to cancel
\* (handle_bridge_message, forward_device_api_stream_request, send_api_stream_cancel).
THEOREM StreamsStayWhole == Spec => []StreamsAreWhole
BY StreamInit, StreamStep, StreamsFollow, PTL DEF Spec
=============================================================================
