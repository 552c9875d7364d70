----------------------------- MODULE RelayRequests -----------------------------
(***************************************************************************)
(* The control channel of a paired device and the requests the relay       *)
(* forwards over it (conductor-relay/src/relay.rs): bridges and browsers   *)
(* connect, are replaced and leave; API, preview and event-stream requests *)
(* wait for the bridge's answer, time out, are retried, cancelled, or fail *)
(* with the bridge; a device is deleted or disconnected.                   *)
(*                                                                         *)
(* One action is one acquisition of the relay's lock.  A sender that a     *)
(* task cloned under the lock and uses after it is kept in that task's     *)
(* record (`peer` of a request, `id` of a connection).  Every connection   *)
(* of a channel belongs to the owner of the device; the checks of that are *)
(* left out.                                                               *)
(***************************************************************************)
EXTENDS Naturals, Sequences, FiniteSets, ByteCounts

CONSTANTS
    Devices,
    Requests,        \* HTTP requests to a device
    DeviceOf,        \* the device a request is for
    KindOf,          \* "get" (retried once), "api", "preview" or "stream"
    SizeOf,          \* bytes of its message
    Conns,           \* control connections, never reused
    MaxChunks,       \* bound: chunks of a stream
    EventCap,        \* API_STREAM_EVENT_QUEUE_CAPACITY
    CountCap,        \* MAX_PENDING_*_REQUESTS
    ByteCap,         \* MAX_PENDING_*_REQUEST_BYTES
    SlowPeers,       \* a bridge's queue may be full
    Events           \* what else happens, a subset of EventNames ("disorder": a
                     \* bridge may send a chunk before the start, or two starts)

EventNames == {"browser", "abandon", "timeout", "delete", "disconnect",
               "disorder", "hangup"}
Kinds == {"api", "preview", "stream"}

ASSUME BoundsAssumption == {MaxChunks, EventCap, CountCap, ByteCap} \subseteq Nat
ASSUME RequestsAssumption ==
    /\ Devices # {} /\ Requests # {} /\ IsFiniteSet(Requests)
    /\ DeviceOf \in [Requests -> Devices]
    /\ KindOf \in [Requests -> {"get"} \cup Kinds]
    /\ SizeOf \in [Requests -> Nat]
ASSUME EventsAssumption == Events \subseteq EventNames /\ SlowPeers \in BOOLEAN
ASSUME ConnsAssumption == Conns \subseteq Nat \ {0}

None == 0
Start == 0                       \* stream events: the start, chunk n, the end
End == MaxChunks + 1
Ids == Requests \X (1..2)        \* one id per attempt

VARIABLES
    devices,    \* paired devices, as far as memory knows
    deleting,   \* devices whose deletion waits for the disk
    channel,    \* RelayInner.channels
    conns,      \* tasks of handle_connection
    reqs,       \* tasks of forward_device_*_request
    pending,    \* RelayInner.pending_*_requests
    bytes,      \* pending_api_bytes, pending_preview_bytes, pending_api_stream_bytes
    reply,      \* one-shot answers
    events,     \* event queues of the streams
    work,       \* what each bridge does about each request (external)
    sent,       \* chunks the bridge has sent for a stream (external)
    cancels,    \* stream cancellations queued to a bridge
    lost,       \* streams whose cancellation found a full queue, or whose client
                \* hung up just before it was sent (history)
    read        \* chunks the client of a stream has read

vars == <<devices, deleting, channel, conns, reqs, pending, bytes, reply, events,
          work, sent, cancels, lost, read>>
tables == <<pending, bytes>>
peers == <<work, sent, cancels, lost>>
outcome == <<reply, events, read>>

-----------------------------------------------------------------------------
(* Data.                                                                    *)

Channel == [bridge : Conns \cup {None}, browsers : SUBSET Conns,
            status : {"none", "up", "down"}, seen : BOOLEAN, streams : BOOLEAN]
NoChannel == [bridge |-> None, browsers |-> {}, status |-> "none", seen |-> FALSE,
              streams |-> FALSE]

Conn == [kind : {"bridge", "browser"}, dev : Devices, id : Ids, event : 0..End,
         pc : {"unused", "accepted", "announce", "open", "event", "overflow",
               "cancel", "ended", "closed"}]
Req == [pc : {"idle", "queued", "unsent", "wait", "expired", "body", "dropped",
              "cancel", "cleanup", "done", "abandoned"},
        attempt : 1..2, peer : Conns \cup {None}]

NoPending == [on |-> FALSE, started |-> FALSE]

Kind(id) == IF KindOf[id[1]] = "get" THEN "api" ELSE KindOf[id[1]]
IsStream(id) == Kind(id) = "stream"
Id(r) == <<r, reqs[r].attempt>>
Device(id) == DeviceOf[id[1]]
Bridge(d) == channel[d].bridge
Current(c) == Bridge(conns[c].dev) = c
Bytes == [id \in Ids |-> SizeOf[id[1]]]
PendingOf(kind) == {id \in Ids : pending[id].on /\ Kind(id) = kind}
HasRoom(id) == /\ Cardinality(PendingOf(Kind(id))) < CountCap
               /\ bytes[Kind(id)] + SizeOf[id[1]] <= ByteCap

\* Mutant: an entry that goes away keeps its bytes.
FreedLate(S) == bytes
Freed(S) == [k \in Kinds |->
    bytes[k] - TotalBytes(Bytes, {id \in S : pending[id].on /\ Kind(id) = k})]

\* Removing entries: those that are there give back their bytes.
Take(S) == /\ pending' = [id \in Ids |-> IF id \in S THEN NoPending ELSE pending[id]]
           /\ bytes' = Freed(S)

\* The receiving end of a stream's queue is held by the request's task.
Listening(id) == /\ reqs[id[1]].attempt = id[2]
                 /\ reqs[id[1]].pc \in {"queued", "unsent", "wait", "body"}
Accepts(id) == Listening(id) /\ Len(events[id]) < EventCap
Holder(id) == \E c \in Conns : conns[c].pc = "event" /\ conns[c].id = id
Hungup(id) == ~pending[id].on /\ ~Holder(id) /\ events[id] = <<>>

\* What the clients of removed entries are told.
Failed(S) ==
    /\ reply' = [id \in Ids |-> IF id \in S /\ pending[id].on /\ ~IsStream(id)
                                THEN "gone" ELSE reply[id]]
    /\ events' = [id \in Ids |-> IF id \in S /\ pending[id].on /\ IsStream(id) /\ Accepts(id)
                                 THEN Append(events[id], End) ELSE events[id]]

OfDevice(d) == {id \in Ids : Device(id) = d}

Init ==
    /\ devices = Devices
    /\ deleting = {}
    /\ channel = [d \in Devices |-> NoChannel]
    /\ conns = [c \in Conns |-> [kind |-> "bridge", dev |-> CHOOSE d \in Devices : TRUE,
                                 id |-> CHOOSE id \in Ids : TRUE, event |-> 0, pc |-> "unused"]]
    /\ reqs = [r \in Requests |-> [pc |-> "idle", attempt |-> 1, peer |-> None]]
    /\ pending = [id \in Ids |-> NoPending]
    /\ bytes = [k \in Kinds |-> 0]
    /\ reply = [id \in Ids |-> "none"]
    /\ events = [id \in Ids |-> <<>>]
    /\ work = [c \in Conns |-> [id \in Ids |-> "none"]]
    /\ sent = [id \in Ids |-> 0]
    /\ cancels = {}
    /\ lost = {}
    /\ read = [id \in Ids |-> <<>>]

-----------------------------------------------------------------------------
(* Connections.                                                             *)

Goto(c, pc) == conns' = [conns EXCEPT ![c].pc = pc]

\* A bridge is let in by the token of a paired device.
Connect(c, kind, d) ==
    /\ conns[c].pc = "unused" /\ \A b \in Conns : b < c => conns[b].pc # "unused"
    /\ kind = "bridge" => d \in devices
    /\ kind = "browser" => "browser" \in Events
    /\ conns' = [conns EXCEPT ![c] = [@ EXCEPT !.kind = kind, !.dev = d, !.pc = "accepted"]]
    /\ UNCHANGED <<devices, deleting, channel, reqs, tables, peers, outcome>>

Replaced(ch, c) == [ch EXCEPT !.bridge = c, !.status = "up", !.seen = FALSE,
                              !.streams = FALSE]

RegisterBridge(c) ==
    /\ conns[c].pc = "accepted" /\ conns[c].kind = "bridge"
    /\ channel' = [channel EXCEPT ![conns[c].dev] = Replaced(@, c)]
    /\ Goto(c, "announce")
    /\ UNCHANGED <<devices, deleting, reqs, tables, peers, outcome>>

RegisterBrowser(c) ==
    /\ conns[c].pc = "accepted" /\ conns[c].kind = "browser"
    /\ channel' = [channel EXCEPT ![conns[c].dev].browsers = @ \cup {c}]
    /\ Goto(c, "open")
    /\ UNCHANGED <<devices, deleting, reqs, tables, peers, outcome>>

Announces(c) == Current(c)

Announce(c) ==
    /\ conns[c].pc = "announce"
    /\ channel' = IF Announces(c) THEN [channel EXCEPT ![conns[c].dev].status = "up"]
                  ELSE channel
    /\ Goto(c, "open")
    /\ UNCHANGED <<devices, deleting, reqs, tables, peers, outcome>>

Hangup(c) ==
    /\ "hangup" \in Events
    /\ conns[c].pc \in {"announce", "open"}
    /\ Goto(c, "ended")
    /\ UNCHANGED <<devices, deleting, channel, reqs, tables, peers, outcome>>

\* A channel with nobody in it is dropped.
Pruned(ch) == IF ch.bridge = None /\ ch.browsers = {} THEN NoChannel ELSE ch

\* Mutant: the end of any bridge connection is the end of the bridge.
AnyBridge(c) == Bridge(conns[c].dev) # None
OwnBridge(c) == Current(c)

\* With the bridge end all the requests its device was to answer.
UnregisterBridge(c) == LET d == conns[c].dev IN
    /\ conns[c].pc = "ended" /\ conns[c].kind = "bridge" /\ OwnBridge(c)
    /\ channel' = [channel EXCEPT ![d] =
          Pruned([@ EXCEPT !.bridge = None, !.seen = FALSE, !.status = "down"])]
    /\ Take(OfDevice(d)) /\ Failed(OfDevice(d))
    /\ Goto(c, "closed")
    /\ UNCHANGED <<devices, deleting, reqs, peers, read>>

Left(ch, c) == [ch EXCEPT !.browsers = ch.browsers \ {c}]

UnregisterOther(c) == LET d == conns[c].dev IN
    /\ conns[c].pc = "ended"
    /\ conns[c].kind = "bridge" => ~OwnBridge(c)
    /\ channel' = [channel EXCEPT ![d] = Pruned(Left(@, c))]
    /\ Goto(c, "closed")
    /\ UNCHANGED <<devices, deleting, reqs, tables, peers, outcome>>

DisconnectRuntime(d) ==
    /\ channel' = [channel EXCEPT ![d] = NoChannel]
    /\ Take(OfDevice(d)) /\ Failed(OfDevice(d))

\* The route that disconnects a bridge.
Disconnect(d) ==
    /\ "disconnect" \in Events
    /\ Bridge(d) # None
    /\ DisconnectRuntime(d)
    /\ UNCHANGED <<devices, deleting, conns, reqs, peers, read>>

\* Deleting a device: out of memory, to disk, then everything it runs.
Delete(d) ==
    /\ "delete" \in Events
    /\ d \in devices /\ deleting = {}
    /\ devices' = devices \ {d}
    /\ deleting' = {d}
    /\ UNCHANGED <<channel, conns, reqs, tables, peers, outcome>>

DeleteFails(d) ==
    /\ d \in deleting
    /\ devices' = devices \cup {d}
    /\ deleting' = {}
    /\ UNCHANGED <<channel, conns, reqs, tables, peers, outcome>>

DeleteSucceeds(d) ==
    /\ d \in deleting
    /\ deleting' = {}
    /\ DisconnectRuntime(d)
    /\ UNCHANGED <<devices, conns, reqs, peers, read>>

-----------------------------------------------------------------------------
(* Requests.                                                                *)

Step(r, pc) == reqs' = [reqs EXCEPT ![r].pc = pc]

\* A bridge takes streams once it has reported that it can; of the bridges
\* here the ones with an odd number can.
TakesStreams(c) == c % 2 = 1

Begin(r) == LET d == DeviceOf[r] IN
    /\ reqs[r].pc = "idle"
    /\ d \in devices
    /\ Bridge(d) # None
    /\ KindOf[r] = "stream" => channel[d].seen /\ channel[d].streams
    /\ HasRoom(Id(r))
    /\ pending' = [pending EXCEPT ![Id(r)] = [on |-> TRUE, started |-> FALSE]]
    /\ bytes' = [bytes EXCEPT ![Kind(Id(r))] = @ + SizeOf[r]]
    /\ reqs' = [reqs EXCEPT ![r].pc = "queued", ![r].peer = Bridge(d)]
    /\ UNCHANGED <<devices, deleting, channel, conns, peers, outcome>>

\* The second attempt of a GET finds no bridge, or no room.
GiveUp(r) ==
    /\ reqs[r].pc = "idle" /\ reqs[r].attempt = 2
    /\ DeviceOf[r] \notin devices \/ Bridge(DeviceOf[r]) = None \/ ~HasRoom(Id(r))
    /\ Step(r, "done")
    /\ UNCHANGED <<devices, deleting, channel, conns, tables, peers, outcome>>

SendRequest(r) ==
    /\ reqs[r].pc = "queued"
    /\ work' = [work EXCEPT ![reqs[r].peer][Id(r)] = "asked"]
    /\ Step(r, "wait")
    /\ UNCHANGED <<devices, deleting, channel, conns, tables, sent, cancels, lost, outcome>>

SendRefused(r) ==
    /\ reqs[r].pc = "queued"
    /\ SlowPeers \/ conns[reqs[r].peer].pc = "closed"
    /\ Step(r, "unsent")
    /\ UNCHANGED <<devices, deleting, channel, conns, tables, peers, outcome>>

Unsent(r) ==
    /\ reqs[r].pc = "unsent"
    /\ Take({Id(r)})
    /\ Step(r, "done")
    /\ UNCHANGED <<devices, deleting, channel, conns, peers, outcome>>

Answered(r) ==
    /\ reqs[r].pc = "wait"
    /\ reply[Id(r)] # "none"
    /\ Step(r, "done")
    /\ UNCHANGED <<devices, deleting, channel, conns, tables, peers, outcome>>

Timeout(r) ==
    /\ "timeout" \in Events
    /\ reqs[r].pc = "wait"
    /\ reply[Id(r)] = "none" /\ events[Id(r)] = <<>>
    /\ Step(r, "expired")
    /\ UNCHANGED <<devices, deleting, channel, conns, tables, peers, outcome>>

Retriable(r) == KindOf[r] = "get" /\ reqs[r].attempt = 1

Expire(r) ==
    /\ reqs[r].pc = "expired"
    /\ Take({Id(r)})
    /\ reqs' = [reqs EXCEPT ![r] =
          IF Retriable(r)
          THEN [@ EXCEPT !.pc = "idle", !.attempt = 2]
          ELSE IF KindOf[r] = "stream" /\ pending[Id(r)].on
          THEN [@ EXCEPT !.pc = "cancel"] ELSE [@ EXCEPT !.pc = "done"]]
    /\ UNCHANGED <<devices, deleting, channel, conns, peers, outcome>>

\* The HTTP client is gone and the handler's future is dropped where it waits: for
\* the answer, or for the lock.
Abandon(r) ==
    /\ "abandon" \in Events
    /\ \/ reqs[r].pc \in {"unsent", "wait", "expired"}
       \/ reqs[r].pc = "idle" /\ reqs[r].attempt = 2
    /\ Step(r, "abandoned")
    /\ UNCHANGED <<devices, deleting, channel, conns, tables, peers, outcome>>

\* It took the entry of its stream and waits for the lock once more, to look for
\* the bridge that it would tell.
AbandonCancel(r) ==
    /\ "abandon" \in Events
    /\ reqs[r].pc = "cancel"
    /\ lost' = lost \cup {Id(r)}
    /\ Step(r, "abandoned")
    /\ UNCHANGED <<devices, deleting, channel, conns, tables, work, sent, cancels, outcome>>

StreamStarts(r) ==
    /\ reqs[r].pc = "wait" /\ KindOf[r] = "stream"
    /\ events[Id(r)] # <<>> /\ Head(events[Id(r)]) = Start
    /\ events' = [events EXCEPT ![Id(r)] = Tail(@)]
    /\ Step(r, "body")
    /\ UNCHANGED <<devices, deleting, channel, conns, tables, peers, reply, read>>

\* The first event is the end, or there will be none.
StreamEndsEarly(r) ==
    /\ reqs[r].pc = "wait" /\ KindOf[r] = "stream"
    /\ Hungup(Id(r)) \/ (events[Id(r)] # <<>> /\ Head(events[Id(r)]) = End)
    /\ Take({Id(r)})
    /\ Step(r, "done")
    /\ UNCHANGED <<devices, deleting, channel, conns, peers, outcome>>

\* A chunk before the start is a protocol error.
StreamMisordered(r) ==
    /\ reqs[r].pc = "wait" /\ KindOf[r] = "stream"
    /\ events[Id(r)] # <<>> /\ Head(events[Id(r)]) \in 1..MaxChunks
    /\ Take({Id(r)})
    /\ Step(r, IF pending[Id(r)].on THEN "cancel" ELSE "done")
    /\ UNCHANGED <<devices, deleting, channel, conns, peers, outcome>>

ReadBody(r) == LET id == Id(r) IN
    /\ reqs[r].pc = "body" /\ events[id] # <<>>
    /\ events' = [events EXCEPT ![id] = Tail(@)]
    /\ IF Head(events[id]) \in 1..MaxChunks
       THEN /\ read' = [read EXCEPT ![id] = Append(@, Head(events[id]))]
            /\ UNCHANGED reqs
       ELSE /\ Step(r, "done")
            /\ UNCHANGED read
    /\ UNCHANGED <<devices, deleting, channel, conns, tables, peers, reply>>

BodyEnds(r) ==
    /\ reqs[r].pc = "body" /\ Hungup(Id(r))
    /\ Step(r, "done")
    /\ UNCHANGED <<devices, deleting, channel, conns, tables, peers, outcome>>

DropBody(r) ==
    /\ "abandon" \in Events
    /\ reqs[r].pc = "body"
    /\ Step(r, "dropped")
    /\ UNCHANGED <<devices, deleting, channel, conns, tables, peers, outcome>>

\* A task of its own, which nobody drops, cleans up after a body that was.
CleanedTo(r) == IF pending[Id(r)].on THEN "cleanup" ELSE "done"

CleanBody(r) ==
    /\ reqs[r].pc = "dropped"
    /\ Take({Id(r)})
    /\ Step(r, CleanedTo(r))
    /\ UNCHANGED <<devices, deleting, channel, conns, peers, outcome>>

\* send_api_stream_cancel: to whichever bridge the device has by then.
CancelAt(d, id) ==
    \/ /\ Bridge(d) # None
       /\ cancels' = cancels \cup {<<Bridge(d), id>>}
       /\ UNCHANGED lost
    \/ /\ Bridge(d) = None
       /\ UNCHANGED <<cancels, lost>>
    \/ /\ Bridge(d) # None /\ SlowPeers
       /\ lost' = lost \cup {id}
       /\ UNCHANGED cancels

CancelStream(r) ==
    /\ reqs[r].pc \in {"cancel", "cleanup"}
    /\ CancelAt(DeviceOf[r], Id(r))
    /\ Step(r, "done")
    /\ UNCHANGED <<devices, deleting, channel, conns, tables, work, sent, outcome>>

-----------------------------------------------------------------------------
(* What the bridge sends, and what becomes of it.                           *)

Speaks(c) == conns[c].kind = "bridge" /\ conns[c].pc = "open"
Works(c, id, w) == work[c][id] = w /\ Speaks(c) /\ Current(c)
Working(c, id, w) == work' = [work EXCEPT ![c][id] = w]

\* Nothing a replaced connection says is heard; it ends.
StaleSpeaks(c) ==
    /\ Speaks(c) /\ ~Current(c)
    /\ Goto(c, "ended")
    /\ UNCHANGED <<devices, deleting, channel, reqs, tables, peers, outcome>>

Report(c) ==
    /\ Speaks(c) /\ Current(c)
    /\ channel' = [channel EXCEPT ![conns[c].dev].seen = TRUE,
                                  ![conns[c].dev].status = "up",
                                  ![conns[c].dev].streams = TakesStreams(c)]
    /\ UNCHANGED <<devices, deleting, conns, reqs, tables, peers, outcome>>

Answer(c, id) ==
    /\ ~IsStream(id)
    /\ Works(c, id, "asked") /\ Working(c, id, "done")
    /\ Take({id})
    /\ reply' = [reply EXCEPT ![id] = IF pending[id].on /\ @ = "none" THEN "ok" ELSE @]
    /\ UNCHANGED <<devices, deleting, channel, conns, reqs, sent, cancels, lost, events, read>>

Hold(c, id, e) == conns' = [conns EXCEPT ![c].pc = "event", ![c].id = id, ![c].event = e]

StreamStart(c, id) ==
    /\ IsStream(id)
    /\ Works(c, id, "asked") /\ Working(c, id, "started")
    /\ pending' = [pending EXCEPT ![id].started = pending[id].on]
    /\ IF pending[id].on THEN Hold(c, id, Start) ELSE UNCHANGED conns
    /\ UNCHANGED <<devices, deleting, channel, reqs, bytes, sent, cancels, lost, outcome>>

\* A second start ends the stream.
StreamRestart(c, id) ==
    /\ "disorder" \in Events
    /\ IsStream(id)
    /\ Works(c, id, "started") /\ pending[id].started
    /\ Take({id}) /\ Failed({id})
    /\ conns' = [conns EXCEPT ![c].pc = "cancel", ![c].id = id]
    /\ UNCHANGED <<devices, deleting, channel, reqs, peers, read>>

StreamChunk(c, id) ==
    /\ IsStream(id) /\ sent[id] < MaxChunks
    /\ Works(c, id, "started") \/ ("disorder" \in Events /\ Works(c, id, "asked"))
    /\ sent' = [sent EXCEPT ![id] = @ + 1]
    /\ IF pending[id].on THEN Hold(c, id, sent[id] + 1) ELSE UNCHANGED conns
    /\ UNCHANGED <<devices, deleting, channel, reqs, tables, work, cancels, lost, outcome>>

StreamEnd(c, id) ==
    /\ Works(c, id, "started") /\ Working(c, id, "done")
    /\ Take({id}) /\ Failed({id})
    /\ UNCHANGED <<devices, deleting, channel, conns, reqs, sent, cancels, lost, read>>

\* The event is queued, or there is no room or no reader.
Deliver(c) == LET id == conns[c].id IN
    /\ conns[c].pc = "event"
    /\ IF Accepts(id)
       THEN /\ events' = [events EXCEPT ![id] = Append(@, conns[c].event)]
            /\ Goto(c, "open")
       ELSE /\ Goto(c, "overflow")
            /\ UNCHANGED events
    /\ UNCHANGED <<devices, deleting, channel, reqs, tables, peers, reply, read>>

\* Mutant: the chunk that found no room is dropped and the stream goes on.
Skipped(c) == "open"
Cut(c) == IF pending[conns[c].id].on THEN "cancel" ELSE "open"
CutOff(c) == IF Cut(c) = "cancel" THEN {conns[c].id} ELSE {}

Overflow(c) ==
    /\ conns[c].pc = "overflow"
    /\ Take(CutOff(c))
    /\ Goto(c, Cut(c))
    /\ UNCHANGED <<devices, deleting, channel, reqs, peers, outcome>>

CancelFrom(c) ==
    /\ conns[c].pc = "cancel"
    /\ CancelAt(conns[c].dev, conns[c].id)
    /\ Goto(c, "open")
    /\ UNCHANGED <<devices, deleting, channel, reqs, tables, work, sent, outcome>>

\* A bridge told to cancel stops working on the stream.
Cancelled(c, id) ==
    /\ <<c, id>> \in cancels
    /\ cancels' = cancels \ {<<c, id>>}
    /\ Working(c, id, "done")
    /\ UNCHANGED <<devices, deleting, channel, conns, reqs, tables, sent, lost, outcome>>

-----------------------------------------------------------------------------
Connection(c) ==
    \/ \E d \in Devices, kind \in {"bridge", "browser"} : Connect(c, kind, d)
    \/ RegisterBridge(c) \/ RegisterBrowser(c) \/ Announce(c) \/ Hangup(c)
    \/ UnregisterBridge(c) \/ UnregisterOther(c)
Device_(d) == Disconnect(d) \/ Delete(d) \/ DeleteFails(d) \/ DeleteSucceeds(d)
Request(r) ==
    \/ Begin(r) \/ GiveUp(r) \/ SendRequest(r) \/ SendRefused(r) \/ Unsent(r)
    \/ Answered(r) \/ Timeout(r) \/ Expire(r) \/ Abandon(r) \/ AbandonCancel(r)
    \/ StreamStarts(r) \/ StreamEndsEarly(r) \/ StreamMisordered(r)
    \/ ReadBody(r) \/ BodyEnds(r) \/ DropBody(r) \/ CleanBody(r) \/ CancelStream(r)
Route(c) ==
    \/ StaleSpeaks(c) \/ Report(c) \/ Deliver(c) \/ Overflow(c) \/ CancelFrom(c)
    \/ \E id \in Ids : Answer(c, id) \/ StreamStart(c, id) \/ StreamRestart(c, id)
                       \/ StreamChunk(c, id) \/ StreamEnd(c, id) \/ Cancelled(c, id)

Next == \/ \E c \in Conns : Connection(c) \/ Route(c)
        \/ \E d \in Devices : Device_(d)
        \/ \E r \in Requests : Request(r)

Spec == Init /\ [][Next]_vars

\* The tasks of requests and connections run and timeouts fire; no bridge has to
\* answer, report or stay.
FairSpec ==
    /\ Spec
    /\ \A r \in Requests :
        /\ WF_vars(SendRequest(r) \/ SendRefused(r)) /\ WF_vars(Unsent(r))
        /\ WF_vars(Answered(r)) /\ WF_vars(Timeout(r)) /\ WF_vars(Expire(r))
        /\ WF_vars(StreamStarts(r) \/ StreamEndsEarly(r) \/ StreamMisordered(r))
        /\ WF_vars((Begin(r) /\ reqs[r].attempt = 2) \/ GiveUp(r))
        /\ WF_vars(CancelStream(r))

-----------------------------------------------------------------------------
(* Properties.                                                              *)

TypeOK ==
    /\ devices \subseteq Devices
    /\ deleting \subseteq Devices
    /\ channel \in [Devices -> Channel]
    /\ conns \in [Conns -> Conn]
    /\ reqs \in [Requests -> Req]
    /\ pending \in [Ids -> [on : BOOLEAN, started : BOOLEAN]]
    /\ bytes \in [Kinds -> Nat]
    /\ reply \in [Ids -> {"none", "ok", "gone"}]
    /\ events \in [Ids -> Seq(0..End)]
    /\ work \in [Conns -> [Ids -> {"none", "asked", "started", "done"}]]
    /\ sent \in [Ids -> 0..MaxChunks]
    /\ cancels \subseteq Conns \X Ids
    /\ lost \subseteq Ids
    /\ read \in [Ids -> Seq(1..MaxChunks)]

\* The byte counters of the request tables are the bytes of what is in them:
\* nothing that leaves a table, by whichever of a dozen ways, is counted on or
\* given back twice.
BytesMatch ==
    \A k \in Kinds : bytes[k] = TotalBytes(Bytes, PendingOf(k))

\* A request waits in a table only while its device has a bridge: with the
\* bridge go the entries of everyone, also of clients that are gone.
PendingHasBridge == \A id \in Ids : pending[id].on => Bridge(Device(id)) # None

\* The status a channel remembers is that of the bridge it has.
StatusIsCurrent ==
    \A d \in Devices : channel[d].status = "up" <=> Bridge(d) # None

\* A stream is asked only of a connection that reported that it takes streams;
\* the report of the connection it replaced does not count.
StreamOnlyWhenSupported ==
    \A c \in Conns, id \in Ids : IsStream(id) /\ work[c][id] \in {"asked", "started"} => TakesStreams(c)

\* What a client reads of a stream is a prefix of what the bridge sent: a
\* chunk that found no room cuts the stream, it never leaves a gap.
NoGap == \A id \in Ids : /\ Len(read[id]) <= sent[id]
                         /\ \A n \in 1..Len(read[id]) : read[id][n] = n

\* A bridge does not stream to nobody: while its connection is the current one and
\* it works on a stream, the stream is in the table, or the cancellation is
\* on its way; or that was lost, in a full queue or with a handler whose client
\* hung up between the two acquisitions of the lock (see CancelsAreSent).
NobodyStreamsToNobody ==
    \A c \in Conns, id \in Ids :
        IsStream(id) /\ work[c][id] \in {"asked", "started"} /\ Current(c)
            => \/ pending[id].on
               \/ <<c, id>> \in cancels
               \/ reqs[id[1]].pc \in {"cancel", "cleanup"} /\ Id(id[1]) = id
               \/ \E b \in Conns : conns[b].pc = "cancel" /\ conns[b].id = id
               \/ id \in lost

\* The three of them, of the requests that wait.
PendingIsAccounted == TypeOK /\ BytesMatch /\ PendingHasBridge /\ StatusIsCurrent

\* The three of them, of the streams.
StreamsAreWhole == NoGap /\ StreamOnlyWhenSupported /\ NobodyStreamsToNobody

\* A client is told that its device is disconnected only when the device's bridge
\* goes: the end of a replaced connection fails nobody's request.
GoneWithBridge ==
    \A id \in Ids : reply[id] = "none" /\ reply'[id] = "gone"
            => Bridge(Device(id)) # None /\ Bridge(Device(id))' = None
               /\ \A c \in Conns : conns[c].kind = "bridge" /\ conns[c].pc = "ended"
                                   /\ conns'[c].pc = "closed" => Current(c)

FailsWithBridge == [][GoneWithBridge]_vars

\* What send_api_stream_cancel is for: while the queues of bridges have room, no
\* cancellation is lost.  A client that hangs up at the wrong moment loses one.
CancelsAreSent == ~SlowPeers => lost = {}

\* A request that was admitted is answered, fails or times out, a GET after its
\* second attempt at the latest.
EventuallyDone ==
    \A r \in Requests :
        reqs[r].pc \in {"queued", "wait"} ~> reqs[r].pc \in {"done", "body", "abandoned"}

=============================================================================
