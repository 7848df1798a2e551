----------------------------- MODULE HubProofs -----------------------------
(* What TLAPS proves of Hub, for any set of clients and any capacities. *)
EXTENDS Hub, SequenceTheorems, TLAPS

Elements(s) == {s[i] : i \in 1..Len(s)}

\* reg holds each client once, before the loop knows it.
Waiting ==
    /\ \A i, j \in 1..Len(reg) : reg[i] = reg[j] => i = j
    /\ Elements(reg) \cap joined = {}
    /\ \A c \in Clients : reader[c] \in {"off", "serving"} => c \notin joined \cup Elements(reg)

\* Only a client that left the map has a closed channel.
Channels ==
    /\ clients \subseteq joined
    /\ \A c \in Clients : sendClosed[c] => c \in joined \ clients

HungUp(c) == conn[c] = "closed" \/ reader[c] = "hangUp"

\* A client leaves the map by its unreg, sent when it is about to hang up, or by
\* closeAll, which hangs up for it.
Left ==
    /\ \A c \in joined \ clients : HungUp(c)
    /\ \A c \in Elements(unreg) : HungUp(c)
    /\ hub = "stopped" => clients = {}

HubInv == TypeOK /\ Waiting /\ Channels /\ Left

-----------------------------------------------------------------------------
(* Sequences. *)

LEMMA AppendElements ==
    ASSUME NEW S, NEW s \in Seq(S), NEW e \in S
    PROVE  /\ Append(s, e) \in Seq(S) /\ Len(Append(s, e)) = Len(s) + 1
           /\ Elements(Append(s, e)) = Elements(s) \cup {e}
           /\ \A i \in 1..Len(s) : Append(s, e)[i] = s[i]
           /\ Append(s, e)[Len(s) + 1] = e
<1>1. /\ Append(s, e) \in Seq(S) /\ Len(Append(s, e)) = Len(s) + 1
      /\ \A i \in 1..Len(s) : Append(s, e)[i] = s[i]
      /\ Append(s, e)[Len(s) + 1] = e
  BY AppendProperties
<1>2. 1..Len(s) + 1 = 1..Len(s) \cup {Len(s) + 1}
  <2>1. Len(s) \in Nat
    OBVIOUS
  <2> QED BY <2>1
<1>3. Elements(Append(s, e)) = Elements(s) \cup {e}
  BY <1>1, <1>2 DEF Elements
<1> QED BY <1>1, <1>3

LEMMA TailElements ==
    ASSUME NEW S, NEW s \in Seq(S), s # <<>>
    PROVE  /\ Tail(s) \in Seq(S) /\ Len(Tail(s)) = Len(s) - 1 /\ Len(s) \in Nat \ {0}
           /\ Head(s) \in S /\ Head(s) = s[1]
           /\ Elements(s) = {Head(s)} \cup Elements(Tail(s))
           /\ \A i \in 1..Len(s) - 1 : Tail(s)[i] = s[i + 1]
<1>1. /\ Tail(s) \in Seq(S) /\ Len(Tail(s)) = Len(s) - 1 /\ Head(s) \in S
      /\ \A i \in 1..Len(Tail(s)) : Tail(s)[i] = s[i + 1]
  BY HeadTailProperties
<1>2. Len(s) \in Nat \ {0} /\ Head(s) = s[1]
  OBVIOUS
<1>3. Elements(s) \subseteq {Head(s)} \cup Elements(Tail(s))
  <2> SUFFICES ASSUME NEW i \in 1..Len(s), i # 1
               PROVE  s[i] \in Elements(Tail(s))
    BY <1>2 DEF Elements
  <2>1. i - 1 \in 1..Len(Tail(s)) /\ (i - 1) + 1 = i
    BY <1>1, <1>2
  <2>2. Tail(s)[i - 1] = s[i]
    BY <1>1, <2>1
  <2> QED BY <2>1, <2>2 DEF Elements
<1>4. {Head(s)} \cup Elements(Tail(s)) \subseteq Elements(s)
  <2>1. \A i \in 1..Len(Tail(s)) : i + 1 \in 1..Len(s)
    BY <1>1, <1>2
  <2>2. 1 \in 1..Len(s)
    BY <1>2
  <2> QED BY <1>1, <1>2, <2>1, <2>2 DEF Elements
<1> QED BY <1>1, <1>2, <1>3, <1>4

LEMMA TailDistinct ==
    ASSUME NEW S, NEW s \in Seq(S), s # <<>>, \A i, j \in 1..Len(s) : s[i] = s[j] => i = j
    PROVE  /\ Head(s) \notin Elements(Tail(s))
           /\ \A i, j \in 1..Len(Tail(s)) : Tail(s)[i] = Tail(s)[j] => i = j
<1>1. /\ Len(Tail(s)) = Len(s) - 1 /\ Len(s) \in Nat \ {0} /\ Head(s) = s[1]
      /\ \A i \in 1..Len(s) - 1 : Tail(s)[i] = s[i + 1]
  BY TailElements
<1>2. 1 \in 1..Len(s)
  BY <1>1
<1>3. \A i \in 1..Len(s) - 1 : i + 1 \in 1..Len(s) /\ i + 1 # 1
  BY <1>1
<1>4. Head(s) \notin Elements(Tail(s))
  BY <1>1, <1>2, <1>3 DEF Elements
<1>5. ASSUME NEW i \in 1..Len(Tail(s)), NEW j \in 1..Len(Tail(s)), Tail(s)[i] = Tail(s)[j]
      PROVE  i = j
  <2>1. s[i + 1] = s[j + 1] /\ i + 1 \in 1..Len(s) /\ j + 1 \in 1..Len(s)
    BY <1>1, <1>3, <1>5
  <2>2. i + 1 = j + 1
    BY <2>1
  <2> QED BY <1>1, <2>2
<1> QED BY <1>4, <1>5

-----------------------------------------------------------------------------
(* Types. *)

LEMMA ReaderType ==
    ASSUME TypeOK, NEW c \in Clients, NEW from \in ReaderLabels, NEW to \in ReaderLabels,
           Reads(c, from, to)
    PROVE  /\ reader' \in [Clients -> ReaderLabels] /\ reader[c] = from /\ reader'[c] = to
           /\ \A d \in Clients \ {c} : reader'[d] = reader[d]
BY DEF TypeOK, Reads

LEMMA WriterType ==
    ASSUME TypeOK, NEW c \in Clients, NEW from, NEW to \in WriterLabels, Writes(c, from, to)
    PROVE  writer' \in [Clients -> WriterLabels]
BY DEF TypeOK, Writes

LEMMA CloseType ==
    ASSUME TypeOK, NEW c \in Clients, Close(c)
    PROVE  /\ conn' \in [Clients -> ConnStates] /\ conn'[c] = "closed"
           /\ \A d \in Clients : conn'[d] = conn[d] \/ conn'[d] = "closed"
BY DEF TypeOK, Close, ConnStates

LEMMA ReaderStepType ==
    ASSUME TypeOK, NEW c \in Clients, ReaderStep(c)
    PROVE  TypeOK'
<1> USE DEF TypeOK
<1>1. CASE Register(c)
  <2>1. Append(reg, c) \in Seq(Clients) /\ Len(Append(reg, c)) = Len(reg) + 1
    BY AppendElements
  <2>2. Len(reg) + 1 <= RegCap
    BY <1>1, CapAssumption DEF Register
  <2> QED BY <1>1, <2>1, <2>2, ReaderType, WriterType
          DEF Register, hubVars, sendVars, ReaderLabels, WriterLabels
<1>2. CASE Enqueue(c)
  <2>1. bcast' \in 0..BcastCap
    BY <1>2, CapAssumption DEF Enqueue
  <2> QED BY <1>2, <2>1, ReaderType DEF Enqueue, hubVars, sendVars, ReaderLabels
<1>3. CASE ReadError(c)
  BY <1>3, ReaderType DEF ReadError, hubVars, sendVars, ReaderLabels
<1>4. CASE Unregister(c)
  <2>1. Append(unreg, c) \in Seq(Clients) /\ Len(Append(unreg, c)) = Len(unreg) + 1
    BY AppendElements
  <2>2. Len(unreg) + 1 <= UnregCap
    BY <1>4, CapAssumption DEF Unregister
  <2> QED BY <1>4, <2>1, <2>2, ReaderType DEF Unregister, hubVars, sendVars, ReaderLabels
<1>5. CASE HangUp(c)
  BY <1>5, ReaderType, CloseType DEF HangUp, hubVars, sendVars, ReaderLabels
<1> QED BY <1>1, <1>2, <1>3, <1>4, <1>5 DEF ReaderStep

LEMMA WriterStepType ==
    ASSUME TypeOK, NEW c \in Clients, WriterStep(c)
    PROVE  TypeOK'
<1> USE DEF TypeOK
<1>1. CASE WriteNext(c)
  <2>1. queued' \in [Clients -> 0..SendCap]
    BY <1>1, CapAssumption DEF WriteNext
  <2> QED BY <1>1, <2>1, WriterType DEF WriteNext, hubVars, WriterLabels
<1>2. CASE Written(c)
  BY <1>2, WriterType DEF Written, hubVars, sendVars, WriterLabels
<1>3. CASE WriteFails(c)
  BY <1>3, WriterType, CloseType DEF WriteFails, hubVars, sendVars, WriterLabels
<1>4. CASE WriteClose(c)
  BY <1>4, WriterType, CloseType DEF WriteClose, hubVars, sendVars, WriterLabels
<1>5. CASE PingFails(c)
  BY <1>5, WriterType, CloseType DEF PingFails, hubVars, sendVars, WriterLabels
<1> QED BY <1>1, <1>2, <1>3, <1>4, <1>5 DEF WriterStep

LEMMA HubStepType ==
    ASSUME TypeOK, HubStep
    PROVE  TypeOK'
<1> USE DEF TypeOK
<1>1. CASE HubRegister
  <2>1. Tail(reg) \in Seq(Clients) /\ Len(Tail(reg)) = Len(reg) - 1 /\ Head(reg) \in Clients
    BY <1>1, TailElements DEF HubRegister
  <2>2. Len(reg) - 1 <= RegCap
    BY CapAssumption
  <2> QED BY <1>1, <2>1, <2>2 DEF HubRegister, sendVars
<1>2. CASE HubUnregister
  <2>1. Tail(unreg) \in Seq(Clients) /\ Len(Tail(unreg)) = Len(unreg) - 1
        /\ Head(unreg) \in Clients
    BY <1>2, TailElements DEF HubUnregister
  <2>2. Len(unreg) - 1 <= UnregCap
    BY CapAssumption
  <2> QED BY <1>2, <2>1, <2>2 DEF HubUnregister
<1>3. CASE HubBroadcast
  <2>1. queued' \in [Clients -> 0..SendCap] /\ bcast' \in 0..BcastCap
    BY <1>3, CapAssumption DEF HubBroadcast
  <2> QED BY <1>3, <2>1 DEF HubBroadcast, hubVars
<1>4. CASE HubStop
  <2>1. queued' \in [Clients -> 0..SendCap] /\ sendClosed' \in [Clients -> BOOLEAN]
    BY <1>4, CapAssumption DEF HubStop, CloseChannels, Receivable
  <2>2. conn' \in [Clients -> ConnStates]
    BY <1>4 DEF HubStop, HangUpAll, ConnStates
  <2> QED BY <1>4, <2>1, <2>2 DEF HubStop
<1> QED BY <1>1, <1>2, <1>3, <1>4 DEF HubStep

LEMMA NextType == TypeOK /\ [Next]_vars => TypeOK'
<1> SUFFICES ASSUME TypeOK, [Next]_vars PROVE TypeOK'
  OBVIOUS
<1> USE DEF TypeOK
<1>1. ASSUME NEW c \in Clients, Upgrade(c) PROVE TypeOK'
  BY <1>1, ReaderType DEF Upgrade, hubVars, sendVars, ReaderLabels, ConnStates
<1>2. ASSUME NEW c \in Clients, ReadMessage(c) PROVE TypeOK'
  <2>1. msgs' \in 0..MaxMsgs
    BY <1>2, HubBoundAssumption DEF ReadMessage
  <2> QED BY <1>2, <2>1, ReaderType DEF ReadMessage, hubVars, sendVars, ReaderLabels
<1>3. ASSUME NEW c \in Clients, PeerGone(c) PROVE TypeOK'
  BY <1>3 DEF PeerGone, hubVars, sendVars, ConnStates
<1>4. ASSUME NEW c \in Clients, ReaderStep(c) PROVE TypeOK'
  BY <1>4, ReaderStepType
<1>5. ASSUME NEW c \in Clients, WriterStep(c) PROVE TypeOK'
  BY <1>5, WriterStepType
<1>6. CASE HubStep
  BY <1>6, HubStepType
<1>7. CASE Stop
  BY <1>7 DEF Stop, sendVars
<1>8. CASE UNCHANGED vars
  BY <1>8 DEF vars
<1> QED BY <1>1, <1>2, <1>3, <1>4, <1>5, <1>6, <1>7, <1>8 DEF Next, Quiet

LEMMA InitInv == Init => HubInv
<1> SUFFICES ASSUME Init PROVE HubInv
  OBVIOUS
<1>1. TypeOK
  BY CapAssumption, HubBoundAssumption
  DEF Init, TypeOK, ConnStates, ReaderLabels, WriterLabels
<1>2. Elements(reg) = {} /\ Elements(unreg) = {}
  BY DEF Init, Elements
<1>3. Waiting /\ Channels /\ Left
  BY <1>2 DEF Init, Waiting, Channels, Left
<1> QED BY <1>1, <1>3 DEF HubInv

\* Every variable keeps its type, and no channel its sender overruns.
THEOREM HubTyped == Spec => []TypeOK
<1>1. Init => TypeOK
  BY InitInv DEF HubInv
<1> QED BY <1>1, NextType, PTL DEF Spec

-----------------------------------------------------------------------------
(* The map, the channels and the connections. *)

LEMMA WaitingStep ==
    ASSUME HubInv, [Next]_vars
    PROVE  Waiting'
<1>1. /\ reg \in Seq(Clients) /\ reader \in [Clients -> ReaderLabels]
      /\ joined \subseteq Clients /\ TypeOK /\ Waiting
  BY DEF HubInv, TypeOK
<1> DEFINE Idle == {"off", "serving"}
<1>2. ASSUME NEW c \in Clients, Register(c) PROVE Waiting'
  <2>1. /\ c \notin joined \cup Elements(reg) /\ joined' = joined
        /\ reader'[c] = "reading"
        /\ \A d \in Clients \ {c} : reader'[d] = reader[d]
    BY <1>1, <1>2, ReaderType DEF Register, Waiting, hubVars, ReaderLabels, Reads
  <2>2. /\ Elements(reg') = Elements(reg) \cup {c} /\ Len(reg') = Len(reg) + 1
        /\ \A i \in 1..Len(reg) : reg'[i] = reg[i]
        /\ reg'[Len(reg) + 1] = c
    BY <1>1, <1>2, AppendElements DEF Register
  <2>3. \A i \in 1..Len(reg) : reg[i] # c
    BY <2>1 DEF Elements
  <2>4. 1..Len(reg') = 1..Len(reg) \cup {Len(reg) + 1}
    BY <1>1, <2>2
  <2>5. \A i, j \in 1..Len(reg') : reg'[i] = reg'[j] => i = j
    BY <1>1, <2>2, <2>3, <2>4 DEF Waiting
  <2>6. \A d \in Clients : reader'[d] \in Idle => d \notin joined' \cup Elements(reg')
    BY <1>1, <2>1, <2>2 DEF Waiting
  <2>7. Elements(reg') \cap joined' = {}
    BY <1>1, <2>1, <2>2 DEF Waiting
  <2> QED BY <2>5, <2>6, <2>7 DEF Waiting, Elements
<1>3. CASE HubRegister
  <2>1. reg # <<>> /\ reg' = Tail(reg) /\ joined' = joined \cup {Head(reg)} /\ reader' = reader
    BY <1>3 DEF HubRegister
  <2>2. Elements(reg) = {Head(reg)} \cup Elements(reg')
    BY <1>1, <2>1, TailElements
  <2>3. /\ Head(reg) \notin Elements(reg')
        /\ \A i, j \in 1..Len(reg') : reg'[i] = reg'[j] => i = j
    BY <1>1, <2>1, TailDistinct DEF Waiting
  <2>4. Elements(reg') \cap joined' = {}
        /\ \A c \in Clients : reader'[c] \in Idle => c \notin joined' \cup Elements(reg')
    BY <1>1, <2>1, <2>2, <2>3 DEF Waiting
  <2> QED BY <2>3, <2>4 DEF Waiting, Elements
<1>4. ASSUME UNCHANGED <<reg, joined>>,
             \A c \in Clients : reader'[c] \in Idle => reader[c] \in Idle
      PROVE  Waiting'
  BY <1>1, <1>4 DEF Waiting, Elements
<1>5. ASSUME NEW c \in Clients, Upgrade(c) \/ ReadMessage(c) \/ PeerGone(c) PROVE Waiting'
  BY <1>1, <1>4, <1>5 DEF Upgrade, ReadMessage, PeerGone, Reads, hubVars
<1>6. ASSUME NEW c \in Clients, ReaderStep(c) PROVE Waiting'
  BY <1>1, <1>2, <1>4, <1>6
  DEF ReaderStep, Enqueue, ReadError, Unregister, HangUp, Reads, hubVars
<1>7. ASSUME NEW c \in Clients, WriterStep(c) PROVE Waiting'
  BY <1>4, <1>7 DEF WriterStep, WriteNext, Written, WriteFails, WriteClose, PingFails, hubVars
<1>8. CASE HubStep
  BY <1>3, <1>4, <1>8 DEF HubStep, HubUnregister, HubBroadcast, HubStop, hubVars
<1>9. CASE Stop \/ UNCHANGED vars
  BY <1>4, <1>9 DEF Stop, vars
<1> QED BY <1>5, <1>6, <1>7, <1>8, <1>9 DEF Next, Quiet

LEMMA ChannelsStep ==
    ASSUME HubInv, [Next]_vars
    PROVE  Channels'
<1>1. /\ sendClosed \in [Clients -> BOOLEAN] /\ reg \in Seq(Clients)
      /\ unreg \in Seq(Clients) /\ joined \subseteq Clients /\ Waiting /\ Channels
  BY DEF HubInv, TypeOK
<1>2. CASE HubRegister
  <2>1. Head(reg) \notin joined /\ Head(reg) \in Clients
    <3>1. Elements(reg) \cap joined = {}
      BY <1>1 DEF Waiting
    <3>2. Head(reg) \in Elements(reg) /\ Head(reg) \in Clients
      BY <1>1, <1>2, TailElements DEF HubRegister
    <3> QED BY <3>1, <3>2
  <2> QED BY <1>1, <1>2, <2>1 DEF HubRegister, Channels, sendVars
<1>3. CASE HubUnregister
  <2>1. Head(unreg) \in Clients
    BY <1>1, <1>3, TailElements DEF HubUnregister
  <2> QED BY <1>1, <1>3, <2>1 DEF HubUnregister, Channels
<1>4. CASE HubStop
  BY <1>1, <1>4 DEF HubStop, CloseChannels, Channels
<1>5. CASE UNCHANGED <<clients, joined, sendClosed>>
  BY <1>1, <1>5 DEF Channels
<1>6. CASE HubStep
  BY <1>2, <1>3, <1>4, <1>5, <1>6 DEF HubStep, HubBroadcast, hubVars
<1>7. ASSUME NEW c \in Clients, Upgrade(c) \/ ReadMessage(c) \/ PeerGone(c) PROVE Channels'
  BY <1>5, <1>7 DEF Upgrade, ReadMessage, PeerGone, hubVars, sendVars
<1>8. ASSUME NEW c \in Clients, ReaderStep(c) PROVE Channels'
  BY <1>5, <1>8
  DEF ReaderStep, Register, Enqueue, ReadError, Unregister, HangUp, hubVars, sendVars
<1>9. ASSUME NEW c \in Clients, WriterStep(c) PROVE Channels'
  BY <1>5, <1>9
  DEF WriterStep, WriteNext, Written, WriteFails, WriteClose, PingFails, hubVars, sendVars
<1>10. CASE Stop \/ UNCHANGED vars
  BY <1>5, <1>10 DEF Stop, sendVars, vars
<1> QED BY <1>6, <1>7, <1>8, <1>9, <1>10 DEF Next, Quiet

LEMMA LeftStep ==
    ASSUME HubInv, [Next]_vars
    PROVE  Left'
<1>1. /\ conn \in [Clients -> ConnStates] /\ reader \in [Clients -> ReaderLabels]
      /\ unreg \in Seq(Clients) /\ joined \subseteq Clients /\ reg \in Seq(Clients)
      /\ TypeOK /\ Left /\ Elements(unreg) \subseteq Clients
  BY DEF HubInv, TypeOK, Elements
<1>2. ASSUME NEW d \in Clients, HungUp(d), [Next]_vars PROVE HungUp(d)'
  <2>1. \A c \in Clients : HangUp(c) => HungUp(d)'
    BY <1>1, <1>2 DEF HangUp, Reads, Close, HungUp
  <2>2. \A c \in Clients : ReaderStep(c) => HungUp(d)'
    BY <1>1, <1>2, <2>1 DEF ReaderStep, Register, Enqueue, ReadError, Unregister, Reads, HungUp
  <2>3. \A c \in Clients : WriterStep(c) => HungUp(d)'
    BY <1>1, <1>2
    DEF WriterStep, WriteNext, Written, WriteFails, WriteClose, PingFails, Close, HungUp
  <2>4. \A c \in Clients : Upgrade(c) \/ ReadMessage(c) \/ PeerGone(c) => HungUp(d)'
    BY <1>1, <1>2 DEF Upgrade, ReadMessage, PeerGone, Reads, HungUp
  <2>5. HubStep => HungUp(d)'
    BY <1>1, <1>2
    DEF HubStep, HubRegister, HubUnregister, HubBroadcast, HubStop, HangUpAll, HungUp
  <2>6. Stop \/ UNCHANGED vars => HungUp(d)'
    BY <1>2 DEF Stop, vars, HungUp
  <2> QED BY <1>2, <2>2, <2>3, <2>4, <2>5, <2>6 DEF Next, Quiet
<1>3. ASSUME UNCHANGED <<joined, clients, unreg>>, hub' = "stopped" => hub = "stopped"
      PROVE  Left'
  BY <1>1, <1>2, <1>3 DEF Left, Elements
<1>4. ASSUME NEW c \in Clients, Unregister(c) PROVE Left'
  <2>1. Elements(unreg') = Elements(unreg) \cup {c}
    BY <1>1, <1>4, AppendElements DEF Unregister
  <2>2. HungUp(c)'
    BY <1>1, <1>4 DEF Unregister, Reads, HungUp
  <2>3. \A d \in Elements(unreg') : HungUp(d)'
    BY <1>1, <1>2, <2>1, <2>2 DEF Left
  <2>4. UNCHANGED hubVars
    BY <1>4 DEF Unregister
  <2> QED BY <1>1, <1>2, <2>3, <2>4 DEF Left, Elements, hubVars
<1>5. CASE HubRegister
  <2>1. Head(reg) \in Clients
    BY <1>1, <1>5, TailElements DEF HubRegister
  <2> QED BY <1>1, <1>2, <1>5, <2>1 DEF HubRegister, Left, Elements
<1>6. CASE HubUnregister
  <2>1. Elements(unreg) = {Head(unreg)} \cup Elements(unreg')
    BY <1>1, <1>6, TailElements DEF HubUnregister
  <2>2. /\ joined' = joined /\ clients' = clients \ {Head(unreg)}
        /\ hub' = hub /\ hub # "stopped"
    BY <1>6 DEF HubUnregister
  <2>3. \A d \in Elements(unreg') : HungUp(d)'
    BY <1>1, <1>2, <2>1 DEF Left
  <2>4. \A d \in joined' \ clients' : HungUp(d)'
    BY <1>1, <1>2, <2>1, <2>2 DEF Left
  <2> QED BY <2>2, <2>3, <2>4 DEF Left, Elements
<1>7. CASE HubStop
  <2>1. /\ clients' = {} /\ joined' = joined /\ unreg' = unreg
        /\ \A d \in Clients : d \in clients => conn'[d] = "closed"
    BY <1>7 DEF HubStop, HangUpAll
  <2>2. \A d \in joined : HungUp(d)'
    BY <1>1, <1>2, <2>1 DEF Left, HungUp
  <2>3. \A d \in Elements(unreg) : HungUp(d)'
    BY <1>1, <1>2 DEF Left
  <2> QED BY <2>1, <2>2, <2>3 DEF Left, Elements
<1>8. CASE HubStep
  BY <1>3, <1>5, <1>6, <1>7, <1>8 DEF HubStep, HubBroadcast, hubVars
<1>9. ASSUME NEW c \in Clients, Upgrade(c) \/ ReadMessage(c) \/ PeerGone(c) PROVE Left'
  BY <1>3, <1>9 DEF Upgrade, ReadMessage, PeerGone, hubVars
<1>10. ASSUME NEW c \in Clients, ReaderStep(c) PROVE Left'
  BY <1>3, <1>4, <1>10 DEF ReaderStep, Register, Enqueue, ReadError, HangUp, hubVars
<1>11. ASSUME NEW c \in Clients, WriterStep(c) PROVE Left'
  BY <1>3, <1>11 DEF WriterStep, WriteNext, Written, WriteFails, WriteClose, PingFails, hubVars
<1>12. CASE Stop \/ UNCHANGED vars
  BY <1>3, <1>12 DEF Stop, vars
<1> QED BY <1>8, <1>9, <1>10, <1>11, <1>12 DEF Next, Quiet

LEMMA InvariantHolds == Spec => []HubInv
<1>1. HubInv /\ [Next]_vars => HubInv'
  BY NextType, WaitingStep, ChannelsStep, LeftStep DEF HubInv
<1> QED BY InitInv, <1>1, PTL DEF Spec

\* The loop never sends on a closed channel nor closes one twice: Run cannot
\* panic, however registrations, disconnections and broadcasts interleave.
THEOREM NoPanic == Spec => []RegisteredOpen
<1>1. HubInv => RegisteredOpen
  BY DEF HubInv, TypeOK, Channels, RegisteredOpen
<1> QED BY <1>1, InvariantHolds, PTL

\* After Run returned no client it knew is left with an open connection, even a
\* client whose send channel closeAll did not close.
THEOREM HangsUp == Spec => []StoppedHangsUp
<1>1. HubInv => StoppedHangsUp
  BY DEF HubInv, Left, HungUp, StoppedHangsUp
<1> QED BY <1>1, InvariantHolds, PTL
=============================================================================
