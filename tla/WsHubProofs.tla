----------------------------- MODULE WsHubProofs -----------------------------
(***************************************************************************)
(* The websocket hub delivers every accepted message to every client, in   *)
(* order and once, for any number of connections, capacities and messages. *)
(***************************************************************************)
EXTENDS WsHub, SequenceTheorems, TLAPS

\* A connection the hub has had nothing to do with.
Fresh(c) == c \notin clients /\ c \notin closed /\ got[c] = <<>>

\* A connection is registered once: until the hub has taken its registration it
\* is fresh, and its handler calls Register only before that.
RegisteredOnce ==
  /\ \A c \in Conns : handler[c] \in {"new", "registering"} =>
       Fresh(c) /\ \A i \in 1..Len(register) : register[i] # c
  /\ \A c \in Conns, i \in 1..Len(register) : register[i] = c => Fresh(c)
  /\ \A i, j \in 1..Len(register) : register[i] = register[j] => i = j

\* The loop writes the latest message, to clients that joined before it.
LoopInv ==
  /\ hub = "select" => todo = {}
  /\ \A c \in clients : joined[c] <= Len(accepted)
  /\ \A c \in todo : joined[c] < Len(accepted)

HubIInv ==
  HubTypeOK /\ RegisteredOnce /\ LoopInv /\ ClosedAreGone /\ EveryClientGetsAll

-----------------------------------------------------------------------------
(* Slices of the log of accepted messages *)

LEMMA SliceOfAppend ==
  ASSUME NEW S, NEW s \in Seq(S), NEW e \in S, NEW m \in Nat, m <= Len(s)
  PROVE  SubSeq(Append(s, e), m + 1, Len(s)) = SubSeq(s, m + 1, Len(s))
<1>1. CASE m = Len(s)
  BY <1>1, SubSeqEmpty
<1>2. CASE m < Len(s)
  <2>1. Append(s, e) = s \o <<e>> /\ <<e>> \in Seq(S)
    BY AppendIsConcat
  <2>2. m + 1 \in 1..Len(s) /\ Len(s) \in 1..Len(s)
    BY <1>2
  <2> QED  BY <2>1, <2>2, SubSeqOfConcat1
<1> QED  BY <1>1, <1>2

LEMMA SliceGrows ==
  ASSUME NEW S, NEW s \in Seq(S), NEW m \in Nat, m < Len(s)
  PROVE  SubSeq(s, m + 1, Len(s)) = Append(SubSeq(s, m + 1, Len(s) - 1), s[Len(s)])
<1>1. m + 1 \in 1..Len(s) /\ Len(s) \in (m + 1)..Len(s)
  OBVIOUS
<1>2. SubSeq(s, m + 1, Len(s)) = SubSeq(s, m + 1, Len(s) - 1) \o <<s[Len(s)]>>
  BY <1>1, SubSeqRecursiveSecond
<1>3. \A i \in (m + 1)..(Len(s) - 1) : s[i] \in S
  OBVIOUS
<1>4. SubSeq(s, m + 1, Len(s) - 1) \in Seq(S) /\ s[Len(s)] \in S
  BY <1>3, SubSeqProperties
<1> QED  BY <1>2, <1>4, AppendIsConcat

LEMMA HeadIsFirst ==
  ASSUME NEW S, NEW s \in Seq(S), s # <<>>
  PROVE  /\ Head(s) \in S /\ Head(s) = s[1] /\ Len(s) > 0
         /\ Tail(s) \in Seq(S) /\ Len(Tail(s)) = Len(s) - 1
         /\ \A i \in 1..(Len(s) - 1) : Tail(s)[i] = s[i + 1]
OBVIOUS

-----------------------------------------------------------------------------
(* Each part of the invariant is preserved. *)

LEMMA HubTypeStep ==
  ASSUME HubIInv, [HubNext]_hubVars
  PROVE  HubTypeOK'
<1> USE HubConfig DEF HubIInv, HubTypeOK
<1>1. ASSUME NEW c \in Conns, HandlerStep(c) \/ PeerGoes(c)
      PROVE  HubTypeOK'
  <2>1. CASE BeginRegister(c) \/ BeginUnregister(c) \/ PeerGoes(c)
    BY <2>1 DEF BeginRegister, BeginUnregister, PeerGoes, Handler, channelVars,
       runVars
  <2>2. CASE Register(c)
    BY <2>2 DEF Register, Handler, runVars
  <2>3. CASE Unregister(c)
    BY <2>3 DEF Unregister, Handler, runVars
  <2> QED  BY <1>1, <2>1, <2>2, <2>3 DEF HandlerStep
<1>2. CASE Broadcast
  <2>1. calls + 1 \in Message /\ calls + 1 \in 0..MaxBroadcasts
    BY <1>2 DEF Broadcast, Message
  <2>2. broadcast' \in Seq(Message) /\ Len(broadcast') <= BroadcastCap
    BY <1>2, <2>1 DEF Broadcast
  <2> QED  BY <1>2, <2>1, <2>2 DEF Broadcast, runVars
<1>3. CASE TakeRegister
  <2>1. /\ Head(register) \in Conns /\ Tail(register) \in Seq(Conns)
        /\ Len(Tail(register)) <= RegisterCap
    BY <1>3, HeadIsFirst DEF TakeRegister
  <2>2. joined' \in [Conns -> Nat]
    BY <1>3 DEF TakeRegister
  <2> QED  BY <1>3, <2>1, <2>2 DEF TakeRegister
<1>4. CASE TakeUnregister
  <2>1. /\ Head(unregister) \in Conns /\ Tail(unregister) \in Seq(Conns)
        /\ Len(Tail(unregister)) <= RegisterCap
    BY <1>4, HeadIsFirst DEF TakeUnregister
  <2>2. todo = {}
    BY <1>4 DEF TakeUnregister, LoopInv
  <2> QED  BY <1>4, <2>1, <2>2 DEF TakeUnregister
<1>5. CASE TakeBroadcast
  <2>1. /\ Head(broadcast) \in Message /\ Tail(broadcast) \in Seq(Message)
        /\ Len(Tail(broadcast)) <= BroadcastCap
    BY <1>5, HeadIsFirst DEF TakeBroadcast
  <2> QED  BY <1>5, <2>1 DEF TakeBroadcast
<1>6. ASSUME NEW c \in Conns, WriteMessage(c)
      PROVE  HubTypeOK'
  <2>1. c \in todo /\ Len(accepted) > 0
    BY <1>6 DEF WriteMessage, LoopInv
  <2>2. accepted[Len(accepted)] \in Message
    BY <2>1
  <2>3. got' \in [Conns -> Seq(Message)]
    BY <1>6, <2>2 DEF WriteMessage
  <2> QED  BY <1>6, <2>3 DEF WriteMessage, channelVars
<1>7. ASSUME NEW c \in Conns, WriteFails(c)
      PROVE  HubTypeOK'
  BY <1>7 DEF WriteFails, channelVars
<1>8. CASE EndOfLoop
  BY <1>8 DEF EndOfLoop, channelVars
<1>9. CASE UNCHANGED hubVars
  BY <1>9 DEF hubVars, channelVars, runVars
<1> QED  BY <1>1, <1>2, <1>3, <1>4, <1>5, <1>6, <1>7, <1>8, <1>9
         DEF HubNext, RunStep

LEMMA RegisteredOnceStep ==
  ASSUME HubIInv, [HubNext]_hubVars
  PROVE  RegisteredOnce'
<1> USE HubConfig DEF HubIInv, HubTypeOK, RegisteredOnce
<1>1. ASSUME NEW c \in Conns, Register(c)
      PROVE  RegisteredOnce'
  <2>1. /\ handler[c] = "registering" /\ handler' = [handler EXCEPT ![c] = "open"]
        /\ register' = Append(register, c) /\ Fresh(c)
        /\ \A d : Fresh(d)' <=> Fresh(d)
    BY <1>1 DEF Register, Handler, runVars, Fresh
  <2>2. /\ Len(register') = Len(register) + 1 /\ register'[Len(register) + 1] = c
        /\ \A i \in 1..Len(register) : register'[i] = register[i] /\ register[i] # c
    BY <2>1
  <2> DEFINE n == Len(register)
  <2>6. \A i \in 1..Len(register') : i \in 1..n \/ i = n + 1
    <3>1. n \in Nat /\ Len(register') = n + 1
      BY <2>2
    <3> HIDE DEF n
    <3> QED  BY <3>1
  <2>3. \A d \in Conns : handler'[d] \in {"new", "registering"} =>
          Fresh(d)' /\ \A i \in 1..Len(register') : register'[i] # d
    BY <2>1, <2>2
  <2>4. \A d \in Conns, i \in 1..Len(register') : register'[i] = d => Fresh(d)'
    BY <2>1, <2>2, <2>6
  <2>5. ASSUME NEW i \in 1..Len(register'), NEW j \in 1..Len(register'),
               register'[i] = register'[j]
        PROVE  i = j
    <3>1. i \in 1..n \/ i = n + 1
      BY <2>6
    <3>2. j \in 1..n \/ j = n + 1
      BY <2>6
    <3> QED  BY <2>2, <2>5, <3>1, <3>2
  <2> QED  BY <2>3, <2>4, <2>5
<1>2. ASSUME NEW c \in Conns,
             BeginRegister(c) \/ BeginUnregister(c) \/ Unregister(c) \/ PeerGoes(c)
      PROVE  RegisteredOnce'
  <2>1. register' = register /\ \A d : Fresh(d)' <=> Fresh(d)
    BY <1>2 DEF BeginRegister, BeginUnregister, Unregister, PeerGoes, Handler, channelVars,
       runVars, Fresh
  <2>2. \A d \in Conns : handler'[d] \in {"new", "registering"} =>
          /\ handler[d] \in {"new", "registering"}
          /\ handler'[d] = "new" => handler[d] = "new"
    BY <1>2 DEF BeginRegister, BeginUnregister, Unregister, PeerGoes, Handler
  <2> QED  BY <2>1, <2>2
<1>3. CASE Broadcast \/ EndOfLoop \/ TakeBroadcast
  BY <1>3 DEF Broadcast, EndOfLoop, TakeBroadcast, channelVars, runVars, Fresh
<1>4. CASE TakeRegister
  <2>1. /\ Head(register) = register[1] /\ Len(register) > 0
        /\ Len(register') = Len(register) - 1
        /\ \A i \in 1..Len(register') : register'[i] = register[i + 1]
    BY <1>4, HeadIsFirst DEF TakeRegister
  <2>2. \A d \in Conns : d # register[1] => (Fresh(d)' <=> Fresh(d))
    BY <1>4, <2>1 DEF TakeRegister, Fresh
  <2>3. \A i \in 1..Len(register') : i + 1 \in 1..Len(register) /\ register[i + 1] # register[1]
    <3> TAKE i \in 1..Len(register')
    <3>1. i + 1 \in 1..Len(register) /\ 1 \in 1..Len(register) /\ i + 1 # 1
      BY <2>1
    <3> QED  BY <3>1
  <2>4. \A d \in Conns : handler'[d] \in {"new", "registering"} =>
          Fresh(d)' /\ \A i \in 1..Len(register') : register'[i] # d
    BY <1>4, <2>1, <2>2, <2>3 DEF TakeRegister
  <2>5. \A d \in Conns, i \in 1..Len(register') : register'[i] = d => Fresh(d)'
    BY <2>1, <2>2, <2>3
  <2>6. ASSUME NEW i \in 1..Len(register'), NEW j \in 1..Len(register'),
               register'[i] = register'[j]
        PROVE  i = j
    <3>1. i + 1 = j + 1
      BY <2>1, <2>3, <2>6
    <3> QED  BY <2>1, <3>1
  <2> QED  BY <2>4, <2>5, <2>6
<1>5. CASE TakeUnregister
  BY <1>5 DEF TakeUnregister, Fresh
<1>6. ASSUME NEW c \in Conns, WriteMessage(c) \/ WriteFails(c)
      PROVE  RegisteredOnce'
  <2>1. /\ c \in clients /\ UNCHANGED <<register, handler>>
        /\ \A d \in Conns \ {c} : Fresh(d) => Fresh(d)'
    BY <1>6 DEF WriteMessage, WriteFails, Fresh, channelVars
  <2>2. ~Fresh(c)
    BY <2>1 DEF Fresh
  <2> QED  BY <2>1, <2>2 DEF Fresh
<1>7. CASE UNCHANGED hubVars
  BY <1>7 DEF hubVars, channelVars, runVars, Fresh
<1> QED  BY <1>1, <1>2, <1>3, <1>4, <1>5, <1>6, <1>7
         DEF HubNext, HandlerStep, RunStep

LEMMA LoopInvStep ==
  ASSUME HubIInv, [HubNext]_hubVars
  PROVE  LoopInv' /\ ClosedAreGone'
<1> USE HubConfig DEF HubIInv, HubTypeOK, LoopInv, ClosedAreGone
<1>1. CASE UNCHANGED <<runVars>>
  BY <1>1 DEF runVars
<1>2. CASE TakeRegister
  <2>1. Head(register) \in Conns /\ Head(register) = register[1] /\ Len(register) > 0
    BY <1>2, HeadIsFirst DEF TakeRegister
  <2>2. Fresh(Head(register))
    BY <2>1 DEF RegisteredOnce
  <2> QED  BY <1>2, <2>1, <2>2, SMTT(30) DEF TakeRegister, Fresh
<1>3. CASE TakeUnregister
  BY <1>3 DEF TakeUnregister
<1>4. CASE TakeBroadcast
  <2>1. Len(accepted') = Len(accepted) + 1
    BY <1>4, HeadIsFirst DEF TakeBroadcast
  <2> QED  BY <1>4, <2>1 DEF TakeBroadcast
<1>5. ASSUME NEW c \in Conns, WriteMessage(c) \/ WriteFails(c)
      PROVE  LoopInv' /\ ClosedAreGone'
  BY <1>5 DEF WriteMessage, WriteFails
<1>6. CASE EndOfLoop
  BY <1>6 DEF EndOfLoop
<1> QED  BY <1>1, <1>2, <1>3, <1>4, <1>5, <1>6
         DEF HubNext, RunStep, hubVars, HandlerStep, BeginRegister, Register,
             BeginUnregister, Unregister, PeerGoes, Broadcast

LEMMA DeliveryStep ==
  ASSUME HubIInv, [HubNext]_hubVars
  PROVE  EveryClientGetsAll'
<1> USE HubConfig DEF HubIInv, HubTypeOK
<1>1. CASE UNCHANGED <<runVars>>
  BY <1>1 DEF runVars, EveryClientGetsAll, Due
<1>2. CASE TakeRegister
  <2> DEFINE h == Head(register)
  <2>1. h \in Conns /\ h = register[1] /\ Len(register) > 0
    BY <1>2, HeadIsFirst DEF TakeRegister
  <2>2. got[h] = <<>>
    BY <2>1 DEF RegisteredOnce, Fresh
  <2>3. todo = {} /\ todo' = {} /\ got' = got /\ accepted' = accepted
    BY <1>2 DEF TakeRegister, LoopInv
  <2>4. joined' = [joined EXCEPT ![h] = Len(accepted)] /\ clients' = clients \cup {h}
    BY <1>2 DEF TakeRegister
  <2>5. SubSeq(accepted, Len(accepted) + 1, Len(accepted)) = <<>>
    BY SubSeqEmpty
  <2>6. ASSUME NEW c \in clients' PROVE got'[c] = Due(c)'
    <3>1. CASE c = h
      BY <2>1, <2>2, <2>3, <2>4, <2>5, <3>1 DEF Due
    <3>2. CASE c # h
      BY <2>3, <2>4, <3>2 DEF Due, EveryClientGetsAll
    <3> QED  BY <3>1, <3>2
  <2> QED  BY <2>6 DEF EveryClientGetsAll
<1>3. CASE TakeUnregister
  BY <1>3 DEF TakeUnregister, EveryClientGetsAll, Due
<1>4. CASE TakeBroadcast
  <2>1. /\ todo = {} /\ todo' = clients /\ clients' = clients
        /\ got' = got /\ joined' = joined
        /\ accepted' = Append(accepted, Head(broadcast))
        /\ Head(broadcast) \in Message
    BY <1>4, HeadIsFirst DEF TakeBroadcast, LoopInv
  <2>2. Len(accepted') - 1 = Len(accepted)
    BY <2>1
  <2>3. ASSUME NEW c \in clients PROVE got'[c] = Due(c)'
    <3>1. joined[c] \in Nat /\ joined[c] <= Len(accepted)
      BY DEF LoopInv
    <3>2. got[c] = SubSeq(accepted, joined[c] + 1, Len(accepted))
      BY <2>1 DEF EveryClientGetsAll, Due
    <3>3. Due(c)' = SubSeq(accepted', joined'[c] + 1, Len(accepted') - 1)
      BY <2>1 DEF Due
    <3>4. Due(c)' = SubSeq(Append(accepted, Head(broadcast)),
                           joined[c] + 1, Len(accepted))
      BY <2>1, <2>2, <3>3
    <3>5. SubSeq(Append(accepted, Head(broadcast)), joined[c] + 1, Len(accepted))
            = SubSeq(accepted, joined[c] + 1, Len(accepted))
      <4>1. accepted \in Seq(Message) /\ Head(broadcast) \in Message
        BY <2>1
      <4> HIDE DEF HubTypeOK, HubIInv
      <4> QED  BY <4>1, <3>1, SliceOfAppend
    <3> QED  BY <2>1, <3>2, <3>4, <3>5
  <2> QED  BY <2>1, <2>3 DEF EveryClientGetsAll
<1>5. ASSUME NEW c \in Conns, WriteMessage(c)
      PROVE  EveryClientGetsAll'
  <2>1. /\ c \in todo /\ todo' = todo \ {c} /\ clients' = clients
        /\ got' = [got EXCEPT ![c] = Append(@, accepted[Len(accepted)])]
        /\ UNCHANGED <<accepted, joined>>
    BY <1>5 DEF WriteMessage
  <2>2. joined[c] \in Nat /\ joined[c] < Len(accepted)
    BY <2>1 DEF LoopInv
  <2>3. got[c] = SubSeq(accepted, joined[c] + 1, Len(accepted) - 1)
    BY <2>1 DEF EveryClientGetsAll, Due
  <2>4. Due(c)' = SubSeq(accepted, joined[c] + 1, Len(accepted))
    <3>1. Due(c)' = SubSeq(accepted, joined[c] + 1, Len(accepted) - 0)
      BY <2>1 DEF Due
    <3>2. Len(accepted) - 0 = Len(accepted)
      OBVIOUS
    <3> QED  BY <3>1, <3>2
  <2>5. got'[c] = Due(c)'
    BY <2>1, <2>2, <2>3, <2>4, SliceGrows
  <2>6. ASSUME NEW d \in clients, d # c PROVE got'[d] = Due(d)'
    BY <2>1, <2>6 DEF Due, EveryClientGetsAll
  <2> QED  BY <2>1, <2>5, <2>6 DEF EveryClientGetsAll
<1>6. ASSUME NEW c \in Conns, WriteFails(c)
      PROVE  EveryClientGetsAll'
  BY <1>6 DEF WriteFails, EveryClientGetsAll, Due
<1>7. CASE EndOfLoop
  BY <1>7 DEF EndOfLoop, EveryClientGetsAll, Due
<1> QED  BY <1>1, <1>2, <1>3, <1>4, <1>5, <1>6, <1>7
         DEF HubNext, RunStep, hubVars, HandlerStep, BeginRegister, Register,
             BeginUnregister, Unregister, PeerGoes, Broadcast

\* What the proofs rest on holds in every state of the hub.
THEOREM HubInvariance == HubSpec => []HubIInv
<1>1. HubInit => HubIInv
  <2> SUFFICES ASSUME HubInit PROVE HubIInv
    OBVIOUS
  <2> USE HubConfig DEF HubInit
  <2>1. HubTypeOK
    BY DEF HubTypeOK
  <2>2. RegisteredOnce /\ LoopInv
    BY DEF RegisteredOnce, LoopInv, Fresh
  <2>3. ClosedAreGone /\ EveryClientGetsAll
    BY DEF ClosedAreGone, EveryClientGetsAll
  <2> QED  BY <2>1, <2>2, <2>3 DEF HubIInv
<1>2. HubIInv /\ [HubNext]_hubVars => HubIInv'
  BY HubTypeStep, RegisteredOnceStep, LoopInvStep, DeliveryStep DEF HubIInv
<1> QED  BY <1>1, <1>2, PTL DEF HubSpec

-----------------------------------------------------------------------------
(* What follows *)

\* The hub's state always has its types: its channels keep to their capacity and
\* run's loop visits clients only.
THEOREM HubTypeCorrect == HubSpec => []HubTypeOK
<1>1. HubIInv => HubTypeOK
  BY DEF HubIInv
<1> QED  BY <1>1, HubInvariance, PTL

\* run's set of clients never has a connection that run has closed.
THEOREM NoClosedClient == HubSpec => []ClosedAreGone
<1>1. HubIInv => ClosedAreGone
  BY DEF HubIInv
<1> QED  BY <1>1, HubInvariance, PTL

\* Every client has every message that was accepted since it joined, once and in
\* order.
THEOREM Delivery == HubSpec => []EveryClientGetsAll
<1>1. HubIInv => EveryClientGetsAll
  BY DEF HubIInv
<1> QED  BY <1>1, HubInvariance, PTL
-----------------------------------------------------------------------------
(* From Broadcast to the peers: what any connection has been written, also *)
(* one that is no client any more.                                         *)

Increasing(s) == \A i, j \in 1..Len(s) : i < j => s[i] < s[j]

\* The messages are numbered by their calls: the channel and run keep that order,
\* although a full channel drops some.
CallsInOrder ==
  /\ Increasing(accepted) /\ Increasing(broadcast)
  /\ \A i \in 1..Len(accepted), j \in 1..Len(broadcast) : accepted[i] < broadcast[j]
  /\ \A i \in 1..Len(accepted) : accepted[i] <= calls
  /\ \A j \in 1..Len(broadcast) : broadcast[j] <= calls

\* What a connection has been written is a gapless piece of the accepted messages.
GotSlice(c) ==
  /\ joined[c] + Len(got[c]) <= Len(accepted)
  /\ \A i \in 1..Len(got[c]) : got[c][i] = accepted[joined[c] + i]

\* A larger number keeps a sequence increasing at its end, as its tail does.
LEMMA IncreasingAppend ==
  ASSUME NEW s \in Seq(Nat), NEW t, NEW n \in Nat, t = Append(s, n),
         Increasing(s), \A i \in 1..Len(s) : s[i] < n
  PROVE  Increasing(t)
<1> SUFFICES ASSUME NEW i \in 1..Len(t), NEW j \in 1..Len(t), i < j PROVE t[i] < t[j]
  BY DEF Increasing
<1>1. /\ Len(t) = Len(s) + 1 /\ t[Len(s) + 1] = n /\ \A k \in 1..Len(s) : t[k] = s[k]
      /\ Len(s) \in Nat
  OBVIOUS
<1>2. i \in 1..Len(s) /\ (j \in 1..Len(s) \/ j = Len(s) + 1)
  BY <1>1
<1> QED  BY <1>1, <1>2 DEF Increasing

LEMMA IncreasingTail ==
  ASSUME NEW s \in Seq(Nat), NEW t, Len(t) = Len(s) - 1,
         \A i \in 1..(Len(s) - 1) : t[i] = s[i + 1], Increasing(s)
  PROVE  Increasing(t)
<1> SUFFICES ASSUME NEW i \in 1..Len(t), NEW j \in 1..Len(t), i < j PROVE t[i] < t[j]
  BY DEF Increasing
<1>1. /\ i + 1 \in 1..Len(s) /\ j + 1 \in 1..Len(s) /\ i + 1 < j + 1
      /\ t[i] = s[i + 1] /\ t[j] = s[j + 1]
  OBVIOUS
<1> QED  BY <1>1 DEF Increasing

LEMMA CallsInOrderStep ==
  ASSUME HubIInv, CallsInOrder, [HubNext]_hubVars
  PROVE  CallsInOrder'
<1> USE HubConfig DEF HubIInv, HubTypeOK, CallsInOrder
<1>0. accepted \in Seq(Nat) /\ broadcast \in Seq(Nat) /\ Message \subseteq Nat
  BY DEF Message
<1>1. CASE UNCHANGED <<accepted, broadcast, calls>>
  BY <1>1 DEF Increasing
<1>2. CASE Broadcast
  <2>1. /\ calls' = calls + 1 /\ accepted' = accepted
        /\ broadcast' \in {broadcast, Append(broadcast, calls + 1)}
    BY <1>2 DEF Broadcast, runVars
  <2>2. \A i \in 1..Len(accepted) : accepted[i] \in Nat
    BY DEF Message
  <2>3. \A j \in 1..Len(broadcast) : broadcast[j] \in Nat
    BY DEF Message
  <2>4. CASE broadcast' = broadcast
    BY <2>1, <2>2, <2>3, <2>4 DEF Increasing
  <2>5. CASE broadcast' = Append(broadcast, calls + 1)
    <3>1. /\ Len(broadcast') = Len(broadcast) + 1 /\ broadcast'[Len(broadcast) + 1] = calls + 1
          /\ \A j \in 1..Len(broadcast) : broadcast'[j] = broadcast[j]
          /\ Len(broadcast) \in Nat
      BY <2>5
    <3>2. \A j \in 1..Len(broadcast') : j \in 1..Len(broadcast) \/ j = Len(broadcast) + 1
      BY <3>1
    <3>3. Increasing(broadcast')
      <4>1. calls + 1 \in Nat /\ \A j \in 1..Len(broadcast) : broadcast[j] < calls + 1
        BY <2>3
      <4> HIDE DEF HubIInv, HubTypeOK
      <4> QED  BY <1>0, <2>5, <4>1, IncreasingAppend
    <3>4. Increasing(accepted')
      BY <2>1
    <3>5. /\ calls \in Nat /\ \A i \in 1..Len(accepted) : accepted[i] <= calls
          /\ \A k \in 1..Len(broadcast) : broadcast[k] <= calls
      OBVIOUS
    <3>6. ASSUME NEW i \in 1..Len(accepted), NEW k \in 1..Len(broadcast')
          PROVE  accepted[i] < broadcast'[k]
      <4>1. CASE k \in 1..Len(broadcast)
        BY <3>1, <4>1
      <4>2. CASE k = Len(broadcast) + 1
        BY <2>2, <3>1, <3>5, <4>2
      <4> QED  BY <3>2, <4>1, <4>2
    <3>7. ASSUME NEW k \in 1..Len(broadcast')
          PROVE  broadcast'[k] <= calls + 1
      <4>1. CASE k \in 1..Len(broadcast)
        <5>1. broadcast'[k] = broadcast[k] /\ broadcast[k] \in Nat /\ broadcast[k] <= calls
          BY <2>3, <3>1, <3>5, <4>1
        <5> HIDE DEF HubIInv, HubTypeOK, CallsInOrder
        <5> QED  BY <3>5, <5>1
      <4>2. CASE k = Len(broadcast) + 1
        BY <3>1, <3>5, <4>2
      <4> QED  BY <3>2, <4>1, <4>2
    <3>8. \A i \in 1..Len(accepted) : accepted[i] <= calls + 1
      BY <2>2, <3>5
    <3> QED  BY <2>1, <3>3, <3>4, <3>6, <3>7, <3>8
  <2> QED  BY <2>1, <2>4, <2>5
<1>3. CASE TakeBroadcast
  <2>1. /\ accepted' = Append(accepted, broadcast[1]) /\ calls' = calls
        /\ Len(broadcast) > 0 /\ Len(broadcast') = Len(broadcast) - 1
        /\ \A j \in 1..(Len(broadcast) - 1) : broadcast'[j] = broadcast[j + 1]
    BY <1>3, HeadIsFirst DEF TakeBroadcast
  <2>2. /\ Len(accepted') = Len(accepted) + 1 /\ accepted'[Len(accepted) + 1] = broadcast[1]
        /\ \A i \in 1..Len(accepted) : accepted'[i] = accepted[i]
        /\ Len(accepted) \in Nat
    BY <2>1
  <2>3. \A i \in 1..Len(accepted') : i \in 1..Len(accepted) \/ i = Len(accepted) + 1
    BY <2>2
  <2>4. /\ 1 \in 1..Len(broadcast)
        /\ \A j \in 1..Len(broadcast') : j + 1 \in 1..Len(broadcast) /\ broadcast[1] < broadcast[j + 1]
    BY <2>1 DEF Increasing
  <2>5. Increasing(accepted')
    <3>1. broadcast[1] \in Nat /\ \A i \in 1..Len(accepted) : accepted[i] < broadcast[1]
      BY <1>0, <2>4
    <3> HIDE DEF HubIInv, HubTypeOK
    <3> QED  BY <1>0, <2>1, <3>1, IncreasingAppend
  <2>6. Increasing(broadcast')
    BY <1>0, <2>1, IncreasingTail
  <2>7. \A i \in 1..Len(accepted'), j \in 1..Len(broadcast') : accepted'[i] < broadcast'[j]
    BY <2>1, <2>2, <2>3, <2>4
  <2>8. /\ \A i \in 1..Len(accepted') : accepted'[i] <= calls'
        /\ \A j \in 1..Len(broadcast') : broadcast'[j] <= calls'
    BY <2>1, <2>2, <2>3, <2>4
  <2> QED  BY <2>5, <2>6, <2>7, <2>8
<1> QED  BY <1>1, <1>2, <1>3
         DEF HubNext, RunStep, hubVars, runVars, channelVars, HandlerStep, BeginRegister,
             Register, BeginUnregister, Unregister, PeerGoes, TakeRegister, TakeUnregister,
             WriteMessage, WriteFails, EndOfLoop

LEMMA GotSliceStep ==
  ASSUME HubIInv, [HubNext]_hubVars, NEW c \in Conns, GotSlice(c)
  PROVE  GotSlice(c)'
<1> USE HubConfig DEF HubIInv, HubTypeOK, GotSlice
<1>1. CASE UNCHANGED <<accepted, joined, got>>
  BY <1>1
<1>2. CASE TakeRegister
  <2> DEFINE h == Head(register)
  <2>1. h \in Conns /\ h = register[1] /\ Len(register) > 0
    BY <1>2, HeadIsFirst DEF TakeRegister
  <2>2. got[h] = <<>> /\ Len(<<>>) = 0
    BY <2>1 DEF RegisteredOnce, Fresh
  <2>3. joined' = [joined EXCEPT ![h] = Len(accepted)] /\ got' = got /\ accepted' = accepted
    BY <1>2 DEF TakeRegister
  <2> HIDE DEF h
  <2>4. CASE c = h
    BY <2>1, <2>2, <2>3, <2>4, SMTT(30)
  <2>5. CASE c # h
    BY <2>1, <2>3, <2>5, SMTT(30)
  <2> QED  BY <2>4, <2>5
<1>3. CASE TakeBroadcast
  <2>1. /\ accepted' = Append(accepted, Head(broadcast)) /\ Head(broadcast) \in Message
        /\ got' = got /\ joined' = joined
    BY <1>3, HeadIsFirst DEF TakeBroadcast
  <2>2. /\ Len(accepted') = Len(accepted) + 1
        /\ \A i \in 1..Len(accepted) : accepted'[i] = accepted[i]
        /\ Len(accepted) \in Nat /\ Len(got[c]) \in Nat /\ joined[c] \in Nat
    BY <2>1
  <2> QED  BY <2>1, <2>2, SMTT(30)
<1>4. ASSUME NEW d \in Conns, WriteMessage(d)
      PROVE  GotSlice(c)'
  <2>1. /\ d \in todo /\ d \in clients /\ accepted' = accepted /\ joined' = joined
        /\ got' = [got EXCEPT ![d] = Append(@, accepted[Len(accepted)])]
    BY <1>4 DEF WriteMessage
  <2>2. CASE c # d
    BY <2>1, <2>2
  <2>3. CASE c = d
    <3>1. joined[c] \in Nat /\ joined[c] < Len(accepted) /\ Len(accepted) \in Nat
      BY <2>1, <2>3 DEF LoopInv
    <3>2. got[c] = SubSeq(accepted, joined[c] + 1, Len(accepted) - 1)
      BY <2>1, <2>3 DEF EveryClientGetsAll, Due
    <3>3. Len(got[c]) = Len(accepted) - 1 - joined[c]
      BY <3>1, <3>2
    <3>4. /\ got'[c] = Append(got[c], accepted[Len(accepted)])
          /\ accepted[Len(accepted)] \in Message /\ got[c] \in Seq(Message)
      BY <2>1, <2>3, <3>1
    <3>5. /\ Len(got'[c]) = Len(got[c]) + 1 /\ got'[c][Len(got[c]) + 1] = accepted[Len(accepted)]
          /\ \A i \in 1..Len(got[c]) : got'[c][i] = got[c][i]
      BY <3>4
    <3>6. \A i \in 1..Len(got'[c]) : i \in 1..Len(got[c]) \/ i = Len(got[c]) + 1
      BY <3>4, <3>5
    <3>7. joined[c] + (Len(got[c]) + 1) = Len(accepted)
      <4> DEFINE start == joined[c]
                 all == Len(accepted)
                 seen == Len(got[c])
      <4>1. start \in Nat /\ all \in Nat /\ seen = all - 1 - start
        BY <3>1, <3>3
      <4> HIDE DEF start, all, seen
      <4>2. start + (seen + 1) = all
        BY ONLY <4>1
      <4> QED  BY ONLY <4>2 DEF start, all, seen
    <3> QED  BY <2>1, <3>1, <3>5, <3>6, <3>7, SMTT(30)
  <2> QED  BY <2>2, <2>3
<1> QED  BY <1>1, <1>2, <1>3, <1>4
         DEF HubNext, RunStep, hubVars, runVars, HandlerStep, BeginRegister, Register,
             BeginUnregister, Unregister, PeerGoes, Broadcast, TakeUnregister, WriteFails,
             EndOfLoop

\* A connection never gets messages out of the order of the calls of Broadcast, nor
\* one twice, over its whole life: however handlers and failures interleave, and
\* whatever messages a full channel drops.
InCallOrder == \A c \in Conns : Increasing(got[c])

THEOREM CallOrderKept == HubSpec => []InCallOrder
<1>1. HubInit => CallsInOrder /\ \A c \in Conns : GotSlice(c)
  BY HubConfig DEF HubInit, CallsInOrder, Increasing, GotSlice
<1>2. HubIInv /\ CallsInOrder /\ (\A c \in Conns : GotSlice(c)) /\ [HubNext]_hubVars
        => CallsInOrder' /\ (\A c \in Conns : GotSlice(c))'
  BY CallsInOrderStep, GotSliceStep
<1>3. HubIInv /\ CallsInOrder /\ (\A c \in Conns : GotSlice(c)) => InCallOrder
  <2> SUFFICES ASSUME HubIInv, CallsInOrder, \A c \in Conns : GotSlice(c), NEW c \in Conns,
                      NEW i \in 1..Len(got[c]), NEW j \in 1..Len(got[c]), i < j
               PROVE  got[c][i] < got[c][j]
    BY DEF InCallOrder, Increasing
  <2>1. joined[c] \in Nat /\ Len(accepted) \in Nat /\ Len(got[c]) \in Nat
    BY DEF HubIInv, HubTypeOK
  <2>2. /\ joined[c] + i \in 1..Len(accepted) /\ joined[c] + j \in 1..Len(accepted)
        /\ joined[c] + i < joined[c] + j
    BY <2>1 DEF GotSlice
  <2>3. got[c][i] = accepted[joined[c] + i] /\ got[c][j] = accepted[joined[c] + j]
    BY DEF GotSlice
  <2> QED  BY <2>2, <2>3 DEF CallsInOrder, Increasing
<1> QED  BY <1>1, <1>2, <1>3, HubInvariance, PTL DEF HubSpec
=============================================================================
