-------------------------------- MODULE Hub --------------------------------
(***************************************************************************)
(* The WebSocket hub: Hub.Run, Serve and the two pumps of each client.     *)
(*                                                                         *)
(* The buffered channels reg, unreg and bcast connect the pumps with the   *)
(* loop; a client's send channel connects the loop with its write pump.    *)
(* One turn of the loop is one step: only the loop writes Hub.clients and  *)
(* only it sends, so nothing can be seen of the middle of a turn.  What a  *)
(* message says does not matter: bcast and queued count messages.          *)
(***************************************************************************)
EXTENDS Integers, Sequences, FiniteSets

CONSTANTS Clients,
          RegCap, UnregCap, BcastCap,  \* capacities given in NewHub
          SendCap,                     \* capacity of a client's send channel
          MayStop,                     \* whether App.Close is called
          MaxMsgs                      \* bound: messages read from peers

ASSUME CapAssumption ==
    {RegCap, UnregCap, BcastCap, SendCap} \subseteq Nat \ {0}
ASSUME HubBoundAssumption == MayStop \in BOOLEAN /\ MaxMsgs \in Nat

VARIABLES hub,                \* the loop; "stopping" once hubStop is closed
          clients,            \* Hub.clients
          reg, unreg, bcast,  \* the hub's channels
          queued, sendClosed, \* each client's send channel
          conn,               \* each connection, as this side knows it
          reader,             \* Serve, then readPump
          writer,             \* writePump
          msgs,               \* messages read so far
          joined              \* history: clients the loop took from reg

vars == <<hub, clients, reg, unreg, bcast, queued, sendClosed, conn, reader,
          writer, msgs, joined>>
hubVars == <<hub, clients, joined>>
sendVars == <<queued, sendClosed>>

ConnStates == {"none", "open", "gone", "closed"}
ReaderLabels == {"off", "serving", "reading", "enqueue", "unregister", "hangUp", "done"}
WriterLabels == {"off", "waiting", "writing", "done"}

Init ==
    /\ hub = "running" /\ clients = {} /\ joined = {}
    /\ reg = <<>> /\ unreg = <<>> /\ bcast = 0 /\ msgs = 0
    /\ queued = [c \in Clients |-> 0] /\ sendClosed = [c \in Clients |-> FALSE]
    /\ conn = [c \in Clients |-> "none"]
    /\ reader = [c \in Clients |-> "off"] /\ writer = [c \in Clients |-> "off"]

Reads(c, from, to) == reader[c] = from /\ reader' = [reader EXCEPT ![c] = to]
Writes(c, from, to) == writer[c] = from /\ writer' = [writer EXCEPT ![c] = to]
Close(c) == conn' = [conn EXCEPT ![c] = "closed"]

\* A receive from c.send would not block.
Receivable(c) == queued[c] > 0 \/ sendClosed[c]

-----------------------------------------------------------------------------
(* Serve and readPump.  A peer that went away leaves the messages it had   *)
(* sent; after them the read fails, at the latest at its deadline.         *)

Upgrade(c) ==
    /\ conn[c] = "none" /\ conn' = [conn EXCEPT ![c] = "open"]
    /\ Reads(c, "off", "serving")
    /\ UNCHANGED <<hubVars, reg, unreg, bcast, sendVars, writer, msgs>>

\* h.reg <- client, which waits for room, and both pumps start.
Register(c) ==
    /\ Len(reg) < RegCap /\ reg' = Append(reg, c)
    /\ Reads(c, "serving", "reading") /\ Writes(c, "off", "waiting")
    /\ UNCHANGED <<hubVars, unreg, bcast, sendVars, conn, msgs>>

ReadMessage(c) ==
    /\ conn[c] \in {"open", "gone"} /\ msgs < MaxMsgs
    /\ Reads(c, "reading", "enqueue")
    /\ msgs' = msgs + 1
    /\ UNCHANGED <<hubVars, reg, unreg, bcast, sendVars, conn, writer>>

\* hub.bcast <- msg.
Enqueue(c) ==
    /\ bcast < BcastCap /\ bcast' = bcast + 1
    /\ Reads(c, "enqueue", "reading")
    /\ UNCHANGED <<hubVars, reg, unreg, sendVars, conn, writer, msgs>>

ReadError(c) ==
    /\ conn[c] \in {"gone", "closed"}
    /\ Reads(c, "reading", "unregister")
    /\ UNCHANGED <<hubVars, reg, unreg, bcast, sendVars, conn, writer, msgs>>

\* The deferred hub.unreg <- c, which waits for room ...
Unregister(c) ==
    /\ Len(unreg) < UnregCap /\ unreg' = Append(unreg, c)
    /\ Reads(c, "unregister", "hangUp")
    /\ UNCHANGED <<hubVars, reg, bcast, sendVars, conn, writer, msgs>>

\* ... and only then the deferred conn.Close().
HangUp(c) ==
    /\ Reads(c, "hangUp", "done") /\ Close(c)
    /\ UNCHANGED <<hubVars, reg, unreg, bcast, sendVars, writer, msgs>>

-----------------------------------------------------------------------------
(* writePump.  A write to a closed connection fails; one to a peer that    *)
(* went away may still succeed.  Every way out closes the connection.      *)

WriteNext(c) ==
    /\ queued[c] > 0 /\ queued' = [queued EXCEPT ![c] = @ - 1]
    /\ Writes(c, "waiting", "writing")
    /\ UNCHANGED <<hubVars, reg, unreg, bcast, sendClosed, conn, reader, msgs>>

Written(c) ==
    /\ conn[c] \in {"open", "gone"}
    /\ Writes(c, "writing", "waiting")
    /\ UNCHANGED <<hubVars, reg, unreg, bcast, sendVars, conn, reader, msgs>>

WriteFails(c) ==
    /\ conn[c] \in {"gone", "closed"}
    /\ Writes(c, "writing", "done") /\ Close(c)
    /\ UNCHANGED <<hubVars, reg, unreg, bcast, sendVars, reader, msgs>>

\* send is closed and drained: the close frame, and out.
WriteClose(c) ==
    /\ sendClosed[c] /\ queued[c] = 0
    /\ Writes(c, "waiting", "done") /\ Close(c)
    /\ UNCHANGED <<hubVars, reg, unreg, bcast, sendVars, reader, msgs>>

\* Variant: the write pump has no ticker of its own.
PingFailsNever(c) == FALSE /\ UNCHANGED vars
\* The pump's ticker fires and its ping fails.
PingFails(c) ==
    /\ conn[c] \in {"gone", "closed"}
    /\ Writes(c, "waiting", "done") /\ Close(c)
    /\ UNCHANGED <<hubVars, reg, unreg, bcast, sendVars, reader, msgs>>

-----------------------------------------------------------------------------
(* The loop, and App.Close.  pingAll is no step: its errors are ignored.   *)

HubRegister ==
    /\ hub # "stopped" /\ reg # <<>>
    /\ clients' = clients \cup {Head(reg)} /\ joined' = joined \cup {Head(reg)}
    /\ reg' = Tail(reg)
    /\ UNCHANGED <<hub, unreg, bcast, sendVars, conn, reader, writer, msgs>>

\* Variant: the channel is closed without a look at the map.
HubUnregisterBlind ==
    /\ hub # "stopped" /\ unreg # <<>>
    /\ sendClosed' = [sendClosed EXCEPT ![Head(unreg)] = TRUE]
    /\ clients' = clients \ {Head(unreg)}
    /\ unreg' = Tail(unreg)
    /\ UNCHANGED <<hub, joined, reg, bcast, queued, conn, reader, writer, msgs>>
\* Only a client in the map has its send channel closed.
HubUnregister ==
    /\ hub # "stopped" /\ unreg # <<>>
    /\ sendClosed' = [sendClosed EXCEPT ![Head(unreg)] = @ \/ Head(unreg) \in clients]
    /\ clients' = clients \ {Head(unreg)}
    /\ unreg' = Tail(unreg)
    /\ UNCHANGED <<hub, joined, reg, bcast, queued, conn, reader, writer, msgs>>

\* Variant: nothing is dropped when a channel is full.
HubBroadcastAll ==
    /\ hub # "stopped" /\ bcast > 0
    /\ bcast' = bcast - 1
    /\ queued' = [c \in Clients |-> IF c \in clients THEN queued[c] + 1 ELSE queued[c]]
    /\ UNCHANGED <<hubVars, reg, unreg, sendClosed, conn, reader, writer, msgs>>
\* A client whose channel is full misses the message.
HubBroadcast ==
    /\ hub # "stopped" /\ bcast > 0
    /\ bcast' = bcast - 1
    /\ queued' = [c \in Clients |-> IF c \in clients /\ queued[c] < SendCap
                                    THEN queued[c] + 1 ELSE queued[c]]
    /\ UNCHANGED <<hubVars, reg, unreg, sendClosed, conn, reader, writer, msgs>>

\* close(hubStop).
Stop ==
    /\ MayStop /\ hub = "running" /\ hub' = "stopping"
    /\ UNCHANGED <<clients, joined, reg, unreg, bcast, sendVars, conn, reader,
                   writer, msgs>>

\* closeAll on the send channels: a message that can be received is taken out,
\* and only a channel with none is closed.
CloseChannels ==
    /\ queued' = [c \in Clients |-> IF c \in clients /\ queued[c] > 0
                                    THEN queued[c] - 1 ELSE queued[c]]
    /\ sendClosed' = [c \in Clients |-> sendClosed[c] \/ (c \in clients /\ ~Receivable(c))]

\* Variant: closeAll leaves a client with a waiting message to its pumps.
HangUpAllSkipping ==
    conn' = [c \in Clients |-> IF c \in clients /\ ~Receivable(c) THEN "closed" ELSE conn[c]]
\* Variant: closeAll leaves the connections to the write pumps.
HangUpNone == UNCHANGED conn
\* closeAll on the connections.
HangUpAll == conn' = [c \in Clients |-> IF c \in clients THEN "closed" ELSE conn[c]]

\* The loop sees stop closed, runs closeAll and returns.
HubStop ==
    /\ hub = "stopping" /\ hub' = "stopped"
    /\ CloseChannels /\ HangUpAll
    /\ clients' = {}
    /\ UNCHANGED <<joined, reg, unreg, bcast, reader, writer, msgs>>

\* The peer closes the connection, or stops answering.
PeerGone(c) ==
    /\ conn[c] = "open" /\ conn' = [conn EXCEPT ![c] = "gone"]
    /\ UNCHANGED <<hubVars, reg, unreg, bcast, sendVars, reader, writer, msgs>>

\* The reader of c waits for room in a full channel.
WaitsForRoom(c) == \/ reader[c] = "serving" /\ Len(reg) = RegCap
                   \/ reader[c] = "enqueue" /\ bcast = BcastCap
                   \/ reader[c] = "unregister" /\ Len(unreg) = UnregCap

\* The states in which nothing is left to do: every client came and went, or
\* the loop is gone and a reader waits for ever.
Quiet ==
    /\ \A c \in Clients : /\ reader[c] = "done" \/ (hub = "stopped" /\ WaitsForRoom(c))
                          /\ writer[c] = "done" \/ reader[c] = "serving"
    /\ UNCHANGED vars

-----------------------------------------------------------------------------
ReaderStep(c) ==
    \/ Register(c) \/ Enqueue(c) \/ ReadError(c) \/ Unregister(c) \/ HangUp(c)

WriterStep(c) ==
    \/ WriteNext(c) \/ Written(c) \/ WriteFails(c) \/ WriteClose(c) \/ PingFails(c)

HubStep == HubRegister \/ HubUnregister \/ HubBroadcast \/ HubStop

Next ==
    \/ \E c \in Clients : \/ Upgrade(c) \/ ReadMessage(c) \/ PeerGone(c)
                          \/ ReaderStep(c) \/ WriterStep(c)
    \/ HubStep \/ Stop \/ Quiet

Spec == Init /\ [][Next]_vars

\* A goroutine that can run runs.  Each case of the loop's select is fair by
\* itself, for Go picks at random among those that are ready.  Nobody has to
\* connect, to send, to leave, or to stop the server.
FairSpec ==
    /\ Spec
    /\ WF_vars(HubRegister) /\ WF_vars(HubUnregister)
    /\ WF_vars(HubBroadcast) /\ WF_vars(HubStop)
    /\ \A c \in Clients : WF_vars(ReaderStep(c)) /\ WF_vars(WriterStep(c))

-----------------------------------------------------------------------------
(* Properties. *)

\* Every variable has its type, and no channel holds more than its capacity
\* (NewHub, Serve).
TypeOK ==
    /\ hub \in {"running", "stopping", "stopped"}
    /\ clients \subseteq Clients /\ joined \subseteq Clients
    /\ reg \in Seq(Clients) /\ Len(reg) <= RegCap
    /\ unreg \in Seq(Clients) /\ Len(unreg) <= UnregCap
    /\ bcast \in 0..BcastCap /\ msgs \in 0..MaxMsgs
    /\ queued \in [Clients -> 0..SendCap] /\ sendClosed \in [Clients -> BOOLEAN]
    /\ conn \in [Clients -> ConnStates]
    /\ reader \in [Clients -> ReaderLabels] /\ writer \in [Clients -> WriterLabels]

\* The send channel of a client in the map is open.  The broadcast of Run sends
\* to it, and unreg and closeAll close it: on a closed channel each of them
\* would panic and take the process down.
RegisteredOpen == \A c \in clients : ~sendClosed[c]

\* Once Run has returned, the connection of every client it knew is closed, or
\* its read pump is about to close it (closeAll; the comment on Run).
StoppedHangsUp ==
    hub = "stopped" => \A c \in joined : conn[c] = "closed" \/ reader[c] = "hangUp"

\* The connection of c is lost, and both its pumps ended.
Lost(c) == conn[c] \in {"gone", "closed"}
Ended(c) == reader[c] = "done" /\ writer[c] = "done"

\* While the loop runs, both pumps of a client whose connection is lost end
\* (readPump, writePump), though every channel between them and the loop may be
\* full when they get there.
LostEnds == \A c \in Clients : Lost(c) ~> Ended(c) \/ hub # "running"

\* After Run has returned, the write pump of every client it knew ends, and so
\* does its read pump, unless it waits at hub.bcast <- msg or at the deferred
\* hub.unreg <- c for room that nobody makes any more (the comment on Run, no
\* goroutine leaks, is true but for those two sends).
StoppedEnds ==
    hub = "stopped" ~> \A c \in joined : /\ writer[c] = "done"
                                         /\ reader[c] = "done" \/ WaitsForRoom(c)
=============================================================================
