------------------------------- MODULE WsHub -------------------------------
(***************************************************************************)
(* The websocket hub (internal/hapi/websocket/hub.go): one goroutine, run, *)
(* owns the set of clients; connection handlers reach it through the       *)
(* buffered channels register and unregister, which may make them wait,    *)
(* and Broadcast through the channel broadcast, which drops a message when *)
(* it is full.                                                             *)
(*                                                                         *)
(* A handler is assumed to use the hub as its exported methods are meant to*)
(* be used: Register its connection, then, when the connection's peer is   *)
(* gone or the handler gives up, Unregister it.                            *)
(***************************************************************************)
EXTENDS Naturals, Sequences, FiniteSets

CONSTANTS
  Conns,         \* connections, each with its handler
  RegisterCap,   \* capacity of register and of unregister (16 in NewHub)
  BroadcastCap,  \* capacity of broadcast (64 in NewHub)
  MaxBroadcasts  \* bound on calls of Broadcast

ASSUME HubConfig ==
  /\ RegisterCap \in Nat \ {0}
  /\ BroadcastCap \in Nat \ {0}
  /\ MaxBroadcasts \in Nat

Message == 1..MaxBroadcasts

VARIABLES
  handler,     \* where the handler of a connection is
  register, unregister, broadcast,  \* the channels' buffers
  clients,     \* h.clients
  hub,         \* where run is: "select", or "writing" a message
  todo,        \* the clients its range loop has still to visit
  alive,       \* the connections whose peer still reads
  closed,      \* the connections run has closed
  calls,       \* history: the calls of Broadcast so far
  accepted,    \* history: the messages run has taken from broadcast
  joined,      \* history: Len(accepted) when a connection became a client
  got,         \* history: the messages written to a connection
  removed      \* history: connections whose Unregister run has handled

channelVars == <<register, unregister, broadcast>>
runVars == <<clients, hub, todo, closed, accepted, joined, got, removed>>
hubVars == <<handler, channelVars, runVars, alive, calls>>

HubTypeOK ==
  /\ handler \in [Conns -> {"new", "registering", "open", "unregistering",
                            "returned"}]
  /\ register \in Seq(Conns) /\ Len(register) <= RegisterCap
  /\ unregister \in Seq(Conns) /\ Len(unregister) <= RegisterCap
  /\ broadcast \in Seq(Message) /\ Len(broadcast) <= BroadcastCap
  /\ clients \subseteq Conns /\ closed \subseteq Conns
  /\ hub \in {"select", "writing"} /\ todo \subseteq clients
  /\ alive \subseteq Conns
  /\ calls \in 0..MaxBroadcasts
  /\ accepted \in Seq(Message)
  /\ joined \in [Conns -> Nat]
  /\ got \in [Conns -> Seq(Message)]
  /\ removed \subseteq Conns

HubInit ==
  /\ handler = [c \in Conns |-> "new"]
  /\ register = <<>> /\ unregister = <<>> /\ broadcast = <<>>
  /\ clients = {} /\ closed = {} /\ hub = "select" /\ todo = {}
  /\ alive = Conns
  /\ calls = 0 /\ accepted = <<>> /\ removed = {}
  /\ joined = [c \in Conns |-> 0]
  /\ got = [c \in Conns |-> <<>>]

-----------------------------------------------------------------------------
(* Callers *)

\* A handler goes from one point to the next.
Handler(c, from, to) ==
  handler[c] = from /\ handler' = [handler EXCEPT ![c] = to]

BeginRegister(c) ==
  /\ Handler(c, "new", "registering")
  /\ UNCHANGED <<channelVars, runVars, alive, calls>>

\* Mutant of Register: the call returns without waiting for room.
RegisterDrops(c) ==
  /\ Handler(c, "registering", "open")
  /\ register' = IF Len(register) < RegisterCap THEN Append(register, c)
                                                 ELSE Append(Tail(register), c)
  /\ UNCHANGED <<unregister, broadcast, runVars, alive, calls>>

\* h.register <- conn
Register(c) ==
  /\ Handler(c, "registering", "open")
  /\ Len(register) < RegisterCap
  /\ register' = Append(register, c)
  /\ UNCHANGED <<unregister, broadcast, runVars, alive, calls>>

\* The handler's read fails, or it has had enough.
BeginUnregister(c) ==
  /\ Handler(c, "open", "unregistering")
  /\ UNCHANGED <<channelVars, runVars, alive, calls>>

\* h.unregister <- conn
Unregister(c) ==
  /\ Handler(c, "unregistering", "returned")
  /\ Len(unregister) < RegisterCap
  /\ unregister' = Append(unregister, c)
  /\ UNCHANGED <<register, broadcast, runVars, alive, calls>>

\* Broadcast: the message is dropped when the channel is full.
Broadcast ==
  /\ calls < MaxBroadcasts
  /\ calls' = calls + 1
  /\ broadcast' = IF Len(broadcast) < BroadcastCap
                    THEN Append(broadcast, calls + 1) ELSE broadcast
  /\ UNCHANGED <<handler, register, unregister, runVars, alive>>

\* The peer is gone: from now on writes may fail.
PeerGoes(c) ==
  /\ c \in alive
  /\ alive' = alive \ {c}
  /\ UNCHANGED <<handler, channelVars, runVars, calls>>

-----------------------------------------------------------------------------
(* run *)

\* case conn := <-h.register
TakeRegister ==
  /\ hub = "select" /\ register # <<>>
  /\ clients' = clients \cup {Head(register)}
  /\ joined' = [joined EXCEPT ![Head(register)] = Len(accepted)]
  /\ register' = Tail(register)
  /\ UNCHANGED <<handler, unregister, broadcast, hub, todo, closed, accepted,
                 got, removed, alive, calls>>

\* Mutants of TakeUnregister: it does not wait for run's loop; the connection
\* is closed but kept.
UnregisterConcurrently ==
  /\ unregister # <<>>
  /\ clients' = clients \ {Head(unregister)}
  /\ closed' = closed \cup (clients \cap {Head(unregister)})
  /\ removed' = removed \cup {Head(unregister)}
  /\ unregister' = Tail(unregister)
  /\ UNCHANGED <<handler, register, broadcast, hub, todo, accepted, joined,
                 got, alive, calls>>

CloseOnly ==
  /\ hub = "select" /\ unregister # <<>>
  /\ closed' = closed \cup (clients \cap {Head(unregister)})
  /\ removed' = removed \cup {Head(unregister)}
  /\ unregister' = Tail(unregister)
  /\ UNCHANGED <<handler, register, broadcast, hub, todo, clients, accepted,
                 joined, got, alive, calls>>

\* case conn := <-h.unregister: a connection that is no client is left alone.
TakeUnregister ==
  /\ hub = "select" /\ unregister # <<>>
  /\ clients' = clients \ {Head(unregister)}
  /\ closed' = closed \cup (clients \cap {Head(unregister)})
  /\ removed' = removed \cup {Head(unregister)}
  /\ unregister' = Tail(unregister)
  /\ UNCHANGED <<handler, register, broadcast, hub, todo, accepted, joined,
                 got, alive, calls>>

\* case msg := <-h.broadcast: the loop over the clients begins.
TakeBroadcast ==
  /\ hub = "select" /\ broadcast # <<>>
  /\ accepted' = Append(accepted, Head(broadcast))
  /\ broadcast' = Tail(broadcast)
  /\ hub' = "writing" /\ todo' = clients
  /\ UNCHANGED <<handler, register, unregister, clients, closed, joined, got,
                 removed, alive, calls>>

\* conn.WriteMessage returns nil; for a while it may do so to a peer that is
\* gone.
WriteMessage(c) ==
  /\ hub = "writing" /\ c \in todo /\ c \notin closed
  /\ got' = [got EXCEPT ![c] = Append(@, accepted[Len(accepted)])]
  /\ todo' = todo \ {c}
  /\ UNCHANGED <<handler, channelVars, clients, hub, closed, accepted, joined,
                 removed, alive, calls>>

\* Mutants of WriteFails: the loop ends; run itself returns.
WriteFailsEndsLoop(c) ==
  /\ hub = "writing" /\ c \in todo /\ c \notin alive \ closed
  /\ clients' = clients \ {c} /\ closed' = closed \cup {c}
  /\ todo' = {}
  /\ UNCHANGED <<handler, channelVars, hub, accepted, joined, got, removed,
                 alive, calls>>

WriteFailsReturns(c) ==
  /\ hub = "writing" /\ c \in todo /\ c \notin alive \ closed
  /\ clients' = clients \ {c} /\ closed' = closed \cup {c}
  /\ todo' = {} /\ hub' = "returned"
  /\ UNCHANGED <<handler, channelVars, accepted, joined, got, removed, alive,
                 calls>>

\* It returns an error: the client is deleted and closed, the loop goes on.
WriteFails(c) ==
  /\ hub = "writing" /\ c \in todo /\ c \notin alive \ closed
  /\ clients' = clients \ {c} /\ closed' = closed \cup {c}
  /\ todo' = todo \ {c}
  /\ UNCHANGED <<handler, channelVars, hub, accepted, joined, got, removed,
                 alive, calls>>

EndOfLoop ==
  /\ hub = "writing" /\ todo = {}
  /\ hub' = "select"
  /\ UNCHANGED <<handler, channelVars, clients, todo, closed, accepted, joined,
                 got, removed, alive, calls>>

-----------------------------------------------------------------------------
HandlerStep(c) ==
  \/ BeginRegister(c) \/ Register(c) \/ BeginUnregister(c) \/ Unregister(c)

RunStep ==
  \/ TakeRegister \/ TakeUnregister \/ TakeBroadcast \/ EndOfLoop
  \/ \E c \in Conns : WriteMessage(c) \/ WriteFails(c)

HubNext ==
  \/ \E c \in Conns : HandlerStep(c) \/ PeerGoes(c)
  \/ Broadcast
  \/ RunStep

\* run and the handlers in a call are scheduled fairly. That run is never stuck
\* in a write is an assumption about the peers: WriteMessage has no deadline.
HubFairness ==
  /\ WF_hubVars(RunStep)
  /\ \A c \in Conns : SF_hubVars(Register(c)) /\ SF_hubVars(Unregister(c))

HubSpec == HubInit /\ [][HubNext]_hubVars

FairHubSpec == HubSpec /\ HubFairness

-----------------------------------------------------------------------------
(* Properties *)

\* The accepted messages a connection should have been written by now.
Due(c) ==
  SubSeq(accepted, joined[c] + 1, Len(accepted) - (IF c \in todo THEN 1 ELSE 0))

\* Every client has been written every message accepted since it joined, once
\* and in order, whatever other clients came, failed and went meanwhile; only
\* Broadcast drops messages, and it drops them for all clients.
EveryClientGetsAll == \A c \in clients : got[c] = Due(c)

\* run never keeps a connection it has closed: a failed write and an Unregister
\* of the same connection, in either order, delete it once for all.
ClosedAreGone == clients \cap closed = {}

\* A handler that calls Register or Unregister gets back, even when channels
\* are full and clients fail.
CallsReturn ==
  \A c \in Conns : handler[c] \in {"registering", "unregistering"}
                     ~> handler[c] \notin {"registering", "unregistering"}

\* Every connection a handler has registered becomes a client, in time to get
\* all messages accepted from then on.
RegisteredJoins ==
  \A c \in Conns : (handler[c] = "open") ~> (c \in clients \cup closed \cup removed)

\* "Unregister removes a websocket connection from the hub" (hub.go:55): a
\* connection whose Unregister the hub has handled is not a client.
UnregisteredIsGone == clients \cap removed = {}
=============================================================================
