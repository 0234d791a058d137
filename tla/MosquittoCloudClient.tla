------------------------ MODULE MosquittoCloudClient ------------------------
(***************************************************************************)
(* src/cloud/mosquittocloudclient.{h,cpp}: the MQTT client.  libmosquitto  *)
(* owns a network thread; its callbacks only post a hop, stamped with the  *)
(* generation they saw, to the main thread's event queue, and the handlers *)
(* there drop a hop whose stamp is out of date.                            *)
(*                                                                         *)
(* The library, the socket and the broker are external: what this module   *)
(* says of them is what the code relies on.  A QoS 1 message stays in the  *)
(* handle until its PUBACK and is sent again after every CONNACK; a QoS 0  *)
(* message lives on the wire only; message ids are per handle; the broker  *)
(* takes messages off a connection in order.                               *)
(*                                                                         *)
(* MosquittoCloudClient emits its signals synchronously to UplinkModel, so *)
(* the operators below state the client's half of a main-thread step and   *)
(* module UplinkModel conjoins them with the slots they call.              *)
(***************************************************************************)
EXTENDS Integers, Sequences, FiniteSets

CONSTANTS
    MaxDrops,     \* bound: connections lost or refused
    MaxMids,      \* bound: packets one handle gets to the broker
    StampWindow,  \* may a callback be raised between ++m_generation and
                  \* the end of mosquitto_loop_stop() in teardown()?
    ConnectFaults \* may configureTls(), mosquitto_connect_async() or
                  \* mosquitto_loop_start() fail?

ASSUME ClientAssumption ==
    /\ MaxDrops \in Nat /\ MaxMids \in Nat
    /\ StampWindow \in BOOLEAN
    /\ ConnectFaults \in BOOLEAN

VARIABLES
    gen,        \* m_generation
    mosq,       \* m_mosq is not null
    connected,  \* m_connected
    hops,       \* invocations posted to the main thread, oldest first
    link,       \* library: "down", "syn" (no CONNACK yet), "up"
    outbox,     \* library: QoS 1 messages of this handle without a PUBACK
    wire,       \* messages on the connection, oldest first
    nextMid,    \* library: the next message id of this handle
    drops,      \* connections lost so far
    cloud       \* the messages the broker has taken, ever

mainVars == <<gen, mosq, connected>>
libVars == <<link, outbox, wire, nextMid>>
clientVars == <<mainVars, hops, libVars, drops, cloud>>

----------------------------------------------------------------------------
NoMid == -1

Hop(type, arg, stamp) == [type |-> type, arg |-> arg, gen |-> stamp]

HopTypes == {"connect", "disconnect", "publish"}

\* handleConnect() is given rc: 0 accepted, anything else refused.
Accepted == 0
Refused == 5

Items(packets, n) == UNION {packets[i].items : i \in 1..n}

----------------------------------------------------------------------------
\* publish(): -1 without a connected handle.  The library refuses a message
\* when the socket is gone, except that a QoS 1 message may be kept for the
\* reconnect instead.
Unpublished == UNCHANGED <<outbox, wire, nextMid>>

Publish(items, qos, isConnected, mid) ==
    LET packet == [mid |-> nextMid, qos |-> qos, items |-> items]
    IN  \/ /\ ~mosq \/ ~isConnected \/ link = "down"
           /\ mid = NoMid
           /\ Unpublished
        \/ /\ mosq /\ isConnected
           /\ link # "down" \/ qos = 1
           /\ mid = nextMid
           /\ nextMid' = nextMid + 1
           /\ wire' = IF link = "down" THEN wire ELSE Append(wire, packet)
           /\ outbox' = IF qos = 1 THEN Append(outbox, packet) ELSE outbox

Mids == {NoMid, nextMid}

----------------------------------------------------------------------------
\* What a handle does while teardown() ends it.  The broker may still take
\* some of what is on the wire.  A callback raised after ++m_generation reads
\* the new value, the one the next handle's callbacks will carry.
LateHops(taken) ==
    {<<>>} \cup
    (IF StampWindow /\ mosq
     THEN {<<Hop("disconnect", 0, gen + 1)>>}
          \cup {<<Hop("connect", Accepted, gen + 1)>> : l \in {link} \cap {"syn"}}
          \cup {<<Hop("publish", wire[i].mid, gen + 1)>> :
                  i \in {j \in 1..taken : wire[j].qos = 1}}
     ELSE {})

RetireHandle ==
    \E taken \in 0..Len(wire) :
        /\ cloud' = cloud \cup Items(wire, taken)
        /\ \E late \in LateHops(taken) : hops' = hops \o late

FreshHandle(newLink) ==
    /\ link' = newLink /\ wire' = <<>> /\ outbox' = <<>> /\ nextMid' = 1

\* shutdownLink(): emits disconnected() exactly when `connected` held.
ShutdownLink ==
    /\ RetireHandle
    /\ gen' = gen + 1
    /\ mosq' = FALSE /\ connected' = FALSE
    /\ FreshHandle("down")
    /\ drops' = drops

\* connectToBroker(): shutdownLink(), then a new handle under the generation
\* that shutdown left behind...
ConnectToBroker ==
    /\ RetireHandle
    /\ gen' = gen + 1
    /\ mosq' = TRUE /\ connected' = FALSE
    /\ FreshHandle("syn")
    /\ drops' = drops

\* ...or, when TLS, connect or loop_start fails, no handle and errorOccurred().
ConnectToBrokerFails ==
    /\ ConnectFaults
    /\ RetireHandle
    /\ gen' = gen + 2
    /\ mosq' = FALSE /\ connected' = FALSE
    /\ FreshHandle("down")
    /\ drops' = drops

----------------------------------------------------------------------------
\* MUTANT: a callback of a destroyed handle counts.
Stale_Never(hop) == FALSE

\* The main thread takes the oldest hop; isStale() decides whether it counts.
Stale(hop) == hop.gen # gen \/ ~mosq

TakeHop ==
    /\ hops # <<>>
    /\ hops' = Tail(hops)
    /\ UNCHANGED <<gen, mosq, drops, cloud, link>>

DropStaleHop ==
    /\ TakeHop
    /\ Stale(Head(hops))
    /\ connected' = connected
    /\ Unpublished

\* MUTANT: the CONNACK does not set m_connected.
HandleConnect_NotConnected(rc) ==
    /\ TakeHop
    /\ ~Stale(Head(hops)) /\ Head(hops).type = "connect" /\ Head(hops).arg = rc
    /\ connected' = connected

\* handleConnect(), handleDisconnect(), handlePublish() up to their emit.
HandleConnect(rc) ==
    /\ TakeHop
    /\ ~Stale(Head(hops)) /\ Head(hops).type = "connect" /\ Head(hops).arg = rc
    /\ connected' = (rc = Accepted)

HandleDisconnect ==
    /\ TakeHop
    /\ ~Stale(Head(hops)) /\ Head(hops).type = "disconnect"
    /\ connected' = FALSE
    /\ Unpublished

HandlePublish(mid) ==
    /\ TakeHop
    /\ ~Stale(Head(hops)) /\ Head(hops).type = "publish" /\ Head(hops).arg = mid
    /\ connected' = connected

----------------------------------------------------------------------------
\* The network thread and the broker.
Post(new) == hops' = hops \o new

NetUnchanged == UNCHANGED <<mainVars, nextMid>>

\* s without its element i.
Without(s, i) == SubSeq(s, 1, i - 1) \o SubSeq(s, i + 1, Len(s))

\* loop_start's automatic reconnection, after the backoff delay.
Reconnect ==
    /\ mosq /\ link = "down"
    /\ link' = "syn"
    /\ UNCHANGED <<hops, outbox, wire, drops, cloud>> /\ NetUnchanged

\* CONNACK: everything unacknowledged goes out again.
Connack ==
    /\ link = "syn"
    /\ link' = "up"
    /\ wire' = wire \o outbox
    /\ Post(<<Hop("connect", Accepted, gen)>>)
    /\ UNCHANGED <<outbox, drops, cloud>> /\ NetUnchanged

ConnackRefused ==
    /\ link = "syn"
    /\ drops < MaxDrops /\ drops' = drops + 1
    /\ link' = "down" /\ wire' = <<>>
    /\ Post(<<Hop("connect", Refused, gen), Hop("disconnect", 1, gen)>>)
    /\ UNCHANGED <<outbox, cloud>> /\ NetUnchanged

\* The connection is lost with some of the wire delivered, none of it acked.
LoseConnection ==
    /\ link # "down"
    /\ drops < MaxDrops /\ drops' = drops + 1
    /\ \E taken \in 0..Len(wire) : cloud' = cloud \cup Items(wire, taken)
    /\ link' = "down" /\ wire' = <<>>
    /\ Post(<<Hop("disconnect", 1, gen)>>)
    /\ UNCHANGED outbox /\ NetUnchanged

\* The broker takes the oldest packet; the first PUBACK of a QoS 1 packet is
\* reported.  The network thread's on_publish for a QoS 0 packet names an id
\* nobody waits for and is left out.
BrokerTakes ==
    /\ wire # <<>> /\ link = "up"
    /\ Head(wire).mid < MaxMids
    /\ LET packet == Head(wire)
       IN  /\ cloud' = cloud \cup packet.items
           /\ \/ \E i \in 1..Len(outbox) :
                    /\ outbox[i].mid = packet.mid
                    /\ outbox' = Without(outbox, i)
                    /\ Post(<<Hop("publish", packet.mid, gen)>>)
              \/ /\ \A i \in 1..Len(outbox) : outbox[i].mid # packet.mid
                 /\ UNCHANGED <<outbox, hops>>
    /\ wire' = Tail(wire)
    /\ UNCHANGED <<link, drops>> /\ NetUnchanged

Network == Reconnect \/ Connack \/ ConnackRefused \/ LoseConnection \/ BrokerTakes

----------------------------------------------------------------------------
ClientInit ==
    /\ gen = 0 /\ mosq = FALSE /\ connected = FALSE /\ hops = <<>>
    /\ link = "down" /\ outbox = <<>> /\ wire = <<>> /\ nextMid = 1
    /\ drops = 0 /\ cloud = {}

\* The process ends and takes its handle, its queue and its counters along.
ClientGone ==
    /\ \E taken \in 0..Len(wire) : cloud' = cloud \cup Items(wire, taken)
    /\ gen' = 0 /\ mosq' = FALSE /\ connected' = FALSE /\ hops' = <<>>
    /\ FreshHandle("down")
    /\ drops' = drops
=============================================================================
