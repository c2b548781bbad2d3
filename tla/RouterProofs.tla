----------------------------- MODULE RouterProofs -----------------------------
(***************************************************************************)
(* Proofs about Router, for any set of consumers, any workload, any        *)
(* capacity and any number of generations of the topic.                    *)
(*                                                                         *)
(* The bound on unacknowledged jobs. dispatchLoop looks at the free slots  *)
(* in one step and takes a slot in another, so the bound is not inductive: *)
(* in between there is a slot (SlotIsFree), which acks leave alone and     *)
(* only another dispatcher could take, and there is none (OneDispatcher).  *)
(* That a dispatcher has a target and a topic to work on is what the types *)
(* rest on (LoopState, LockState).                                         *)
(*                                                                         *)
(* The order of the sequence IDs (SeqInv): the ID is taken in one step and *)
(* the delivery written in a later one, with no other delivery in between. *)
(*                                                                         *)
(* One place for a job (PlaceInv): the queues and hands that hold jobs do  *)
(* not meet, and each step moves a job from one to another or drops it.    *)
(*                                                                         *)
(* Slots that come back (SlotComesBack): a dropped delivery leaves a slot  *)
(* used, but there is always an unacknowledged delivery whose ack frees it.*)
(***************************************************************************)
EXTENDS Router, QueueLemmas

\* No two generations of the topic have a live dispatcher.
OneDispatcher == ~overlapped => \A g, h \in Gens : Running(g) /\ Running(h) => g = h

\* What dispatchLoop has got hold of, by where it is.
LoopState ==
    \A g \in Gens :
        /\ pc[g] \in {"check", "take", "write"} => target[g] \in Consumers
        /\ pc[g] \in {"take", "write"} => count[g] < BatchSize
        /\ pc[g] = "write" => hand[g] \in Delivery

\* The topic exists while it has consumers, and while its last one is removed.
LockState ==
    /\ members # {} => topicGen \in Gens
    /\ mu # NoConsumer => members = {}
    /\ \A c \in Consumers : conn[c] \in {"draining", "receiving"} => mu = c /\ topicGen \in Gens

TypeInv == TypeOK /\ LoopState /\ LockState

\* "Check if consumer still has free slots" is still true when the job is taken.
SlotIsFree ==
    ~overlapped => \A g \in Gens :
        pc[g] = "take" => lastSentID[target[g]] - lastAckID[target[g]] < MaxInflights

InflightInv == InflightBound /\ SlotIsFree /\ OneDispatcher

\* The delivery that dispatchLoop is about to write carries the last sequence ID of
\* its consumer, which no delivery to that consumer has yet.
HandIsNext ==
    /\ \A c \in Consumers : \A i \in DOMAIN Deliveries(c) : Deliveries(c)[i].seq <= lastSentID[c]
    /\ \A g \in Gens : pc[g] = "write" =>
          /\ hand[g].seq = lastSentID[target[g]]
          /\ \A i \in DOMAIN Deliveries(target[g]) : Deliveries(target[g])[i].seq < hand[g].seq

\* What has not been written to the socket is not acknowledged.
AckIsBehind ==
    /\ \A c \in Consumers :
          /\ lastAckID[c] <= lastSentID[c]
          /\ \A i \in DOMAIN writeCh[c] : lastAckID[c] < writeCh[c][i].seq
    /\ \A g \in Gens : pc[g] = "write" => lastAckID[target[g]] < hand[g].seq

SeqInv == SeqInOrder /\ (~overlapped => HandIsNext /\ AckIsBehind)

\* A consumer without a free slot has a delivery to acknowledge, or gets one.
SlotComesBack ==
    ~overlapped /\ BadJobs \subseteq StillQueued =>
        \A c \in Consumers : lastSentID[c] - lastAckID[c] >= MaxInflights =>
            \/ \E i \in DOMAIN Deliveries(c) : Deliveries(c)[i].seq > lastAckID[c]
            \/ \E g \in Gens : pc[g] = "write" /\ target[g] = c

\* The workload: no job twice.
JobsSentOnce ==
    \A m, n \in Messages : \A i \in DOMAIN JobsOf[m], k \in DOMAIN JobsOf[n] :
        JobsOf[m][i] = JobsOf[n][k] => m = n /\ i = k

\* Where a job can be: still in a message, in a mainChan, in the hands of a
\* dispatchLoop, or on its way to a consumer.
Holders == ({"rest"} \X Messages) \union ({"chan"} \X Gens) \union ({"hand"} \X Gens)
           \union ({"out"} \X Consumers)

JobsOut(c) == [i \in DOMAIN Deliveries(c) |-> Deliveries(c)[i].job]

Held(p) ==
    CASE p[1] = "rest" -> Contents(rest[p[2]])
      [] p[1] = "chan" -> Contents(mainChan[p[2]])
      [] p[1] = "hand" -> {hand[p[2]].job} \intersect Jobs
      [] p[1] = "out" -> Contents(JobsOut(p[2]))

HoldersApart == \A p, q \in Holders : \A j \in Held(p) \intersect Held(q) : p = q

HeldOnce ==
    /\ \A m \in Messages : Distinct(rest[m])
    /\ \A g \in Gens : Distinct(mainChan[g])
    /\ \A c \in Consumers : Distinct(JobsOut(c))

PlaceInv == HoldersApart /\ HeldOnce

-----------------------------------------------------------------------------
(* Types                                                                   *)

\* The initial state is well-typed.
LEMMA InitTypeInv == Init => TypeInv
  <1> SUFFICES ASSUME Init PROVE TypeInv
    OBVIOUS
  <1> USE RouterAssumption DEF Init
  <1>0. \A S : <<>> \in Seq(S)
    BY EmptySeq
  <1>1. TypeOK
    <2>1. /\ topicGen \in Gens \union {0}
          /\ lastGen \in Gens \union {0}
          /\ members \subseteq Consumers
          /\ saturated \in BOOLEAN
          /\ mu \in Consumers \union {NoConsumer}
          /\ cancelled \subseteq Gens
          /\ overlapped \in BOOLEAN
      OBVIOUS
    <2>2. /\ mainChan \in [Gens -> Seq(Jobs)]
          /\ writeCh \in [Consumers -> Seq(Delivery)]
          /\ received \in [Consumers -> Seq(Delivery)]
          /\ rest \in [Messages -> Seq(Jobs)]
      BY <1>0
    <2>3. /\ pc \in [Gens -> {"none", "top", "pick", "check", "take", "write", "exited"}]
          /\ target \in [Gens -> Consumers \union {NoConsumer}]
          /\ hand \in [Gens -> Delivery \union {NoDelivery}]
          /\ count \in [Gens -> 0..BatchSize]
      OBVIOUS
    <2>4. /\ conn \in [Consumers -> {"new", "open", "leaving", "draining", "receiving", "gone"}]
          /\ lastSentID \in [Consumers -> Nat]
          /\ lastAckID \in [Consumers -> Nat]
          /\ stream \in [Messages -> Gens \union {Unread, Finished}]
          /\ rejected \subseteq Messages /\ marking \subseteq Messages
      OBVIOUS
    <2> QED BY <2>1, <2>2, <2>3, <2>4 DEF TypeOK
  <1>2. LoopState
    BY DEF LoopState
  <1>3. LockState
    BY DEF LockState
  <1> QED BY <1>1, <1>2, <1>3 DEF TypeInv

\* A step of a WebSocketHandler or of a write loop keeps the types.
LEMMA ConsumerTypeInv ==
    ASSUME TypeInv, NEW c \in Consumers, WebSocketHandler(c) \/ WriteLoop(c)
    PROVE  TypeInv'
  <1> USE RouterAssumption DEF TypeInv, topicVars, dispatchVars, slotVars, deliveryVars, enqueueVars
  <1>1. CASE AddConsumer(c)
    <2>1. topicGen = 0 => lastGen + 1 \in Gens /\ lastGen' = lastGen + 1 /\ topicGen' = lastGen + 1
      BY <1>1 DEF AddConsumer, TypeOK, Gens
    <2>2. /\ topicGen' \in Gens /\ lastGen' \in Gens \union {0}
          /\ saturated' \in BOOLEAN /\ overlapped' \in BOOLEAN
      BY <1>1, <2>1 DEF AddConsumer, TypeOK
    <2>3. /\ pc' \in [Gens -> {"none", "top", "pick", "check", "take", "write", "exited"}]
          /\ \A g \in Gens : pc'[g] = pc[g] \/ pc'[g] = "top"
      BY <1>1, <2>1 DEF AddConsumer, TypeOK
    <2>4. /\ conn' = [conn EXCEPT ![c] = "open"]
          /\ conn' \in [Consumers -> {"new", "open", "leaving", "draining", "receiving", "gone"}]
          /\ members' \subseteq Consumers
      BY <1>1 DEF AddConsumer, TypeOK
    <2>5. TypeOK'
      BY <1>1, <2>2, <2>3, <2>4 DEF AddConsumer, TypeOK
    <2>6. LoopState'
      BY <1>1, <2>3 DEF AddConsumer, LoopState
    <2>7. LockState'
      BY <1>1, <2>2, <2>4 DEF AddConsumer, LockState, Unlocked, TypeOK
    <2> QED BY <2>5, <2>6, <2>7
  <1>2. CASE WriteLoop(c)
    <2>1. Head(writeCh[c]) \in Delivery /\ Tail(writeCh[c]) \in Seq(Delivery)
      BY <1>2, HeadTailProperties DEF WriteLoop, TypeOK
    <2>2. Append(received[c], Head(writeCh[c])) \in Seq(Delivery)
      BY <2>1, AppendProperties DEF TypeOK
    <2>3. received' \in [Consumers -> Seq(Delivery)] /\ writeCh' \in [Consumers -> Seq(Delivery)]
      BY <1>2, <2>1, <2>2 DEF WriteLoop, TypeOK
    <2> QED BY <1>2, <2>3 DEF WriteLoop, TypeOK, LoopState, LockState
  <1>3. CASE Ack(c)
    <2>1. PICK i \in DOMAIN received[c] : UpdateDeliveryAck(c, received[c][i].seq)
      BY <1>3 DEF Ack
    <2>2. received[c][i].seq \in Nat
      <3>1. received[c] \in Seq(Delivery)
        BY DEF TypeOK
      <3>2. received[c][i] \in Delivery
        BY <3>1
      <3> QED BY <3>2 DEF Delivery
    <2>3. lastAckID' \in [Consumers -> Nat]
      BY <2>1, <2>2 DEF UpdateDeliveryAck, TypeOK
    <2> QED BY <1>3, <2>3 DEF Ack, TypeOK, LoopState, LockState
  <1>4. CASE Disconnect(c)
    <2>1. conn' = [conn EXCEPT ![c] = "leaving"]
      BY <1>4 DEF Disconnect
    <2> QED BY <1>4, <2>1 DEF Disconnect, TypeOK, LoopState, LockState
  <1>5. CASE RemoveConsumer(c)
    <2>1. conn' \in [Consumers -> {"new", "open", "leaving", "draining", "receiving", "gone"}]
      BY <1>5 DEF RemoveConsumer, TypeOK
    <2>2. /\ members' \subseteq members /\ mu' \in Consumers \union {NoConsumer}
          /\ UNCHANGED topicGen
      BY <1>5 DEF RemoveConsumer, TypeOK
    <2>3. cancelled' \subseteq Gens
      <3>1. members = {c} => topicGen \in Gens
        BY DEF LockState
      <3>2. cancelled' = cancelled \/ (members = {c} /\ cancelled' = cancelled \union {topicGen})
        BY <1>5 DEF RemoveConsumer
      <3> QED BY <3>1, <3>2 DEF TypeOK
    <2>4. TypeOK'
      BY <1>5, <2>1, <2>2, <2>3 DEF RemoveConsumer, TypeOK
    <2>5. LockState'
      <3>1. CASE members = {c}
        <4>1. mu' = c /\ members' = {} /\ topicGen \in Gens
          BY <1>5, <3>1 DEF RemoveConsumer, LockState
        <4>2. \A d \in Consumers : conn'[d] \in {"draining", "receiving"} => d = c
          BY <1>5, <3>1 DEF RemoveConsumer, LockState, TypeOK, Unlocked
        <4> QED BY <2>2, <4>1, <4>2 DEF LockState
      <3>2. CASE members # {c}
        <4>1. mu' = mu /\ mu = NoConsumer
          BY <1>5, <3>2 DEF RemoveConsumer, Unlocked
        <4>2. \A d \in Consumers : conn'[d] = conn[d] \/ conn'[d] = "gone"
          BY <1>5, <3>2 DEF RemoveConsumer, TypeOK
        <4> QED BY <2>2, <4>1, <4>2 DEF LockState
      <3> QED BY <3>1, <3>2
    <2> QED BY <1>5, <2>4, <2>5 DEF RemoveConsumer, LoopState
  <1>6. CASE DrainCheck(c)
    <2>1. /\ conn' \in [Consumers -> {"new", "open", "leaving", "draining", "receiving", "gone"}]
          /\ topicGen' \in Gens \union {0} /\ mu' \in Consumers \union {NoConsumer}
          /\ saturated' \in BOOLEAN
      BY <1>6 DEF DrainCheck, TypeOK
    <2>2. TypeOK'
      BY <1>6, <2>1 DEF DrainCheck, TypeOK
    <2>3. mu = c /\ topicGen \in Gens /\ members = {} /\ members' = {}
      BY <1>6 DEF DrainCheck, LockState
    <2>4. \A d \in Consumers : d # c => conn'[d] = conn[d] /\ conn[d] \notin {"draining", "receiving"}
      BY <1>6, <2>3 DEF DrainCheck, LockState, TypeOK
    <2>5. \/ mu' = mu /\ topicGen' = topicGen
          \/ mu' = NoConsumer /\ conn'[c] = "gone"
      BY <1>6 DEF DrainCheck, TypeOK
    <2>6. LockState'
      BY <2>3, <2>4, <2>5 DEF LockState
    <2> QED BY <1>6, <2>2, <2>6 DEF DrainCheck, LoopState
  <1>7. CASE DrainReceive(c)
    <2>1. topicGen \in Gens
      BY <1>7 DEF DrainReceive, LockState
    <2>2. Tail(mainChan[topicGen]) \in Seq(Jobs)
      BY <1>7, <2>1, HeadTailProperties DEF DrainReceive, TypeOK
    <2>3. /\ mainChan' \in [Gens -> Seq(Jobs)]
          /\ conn' \in [Consumers -> {"new", "open", "leaving", "draining", "receiving", "gone"}]
      BY <1>7, <2>1, <2>2 DEF DrainReceive, TypeOK
    <2>4. LockState'
      BY <1>7 DEF DrainReceive, LockState, TypeOK
    <2> QED BY <1>7, <2>3, <2>4 DEF DrainReceive, TypeOK, LoopState
  <1> QED BY <1>1, <1>2, <1>3, <1>4, <1>5, <1>6, <1>7 DEF WebSocketHandler

\* A step of EnqueueJobs keeps the types.
LEMMA EnqueueTypeInv ==
    ASSUME TypeInv, NEW m \in Messages, EnqueueJobs(m)
    PROVE  TypeInv'
  <1> USE RouterAssumption DEF TypeInv, topicVars, dispatchVars, slotVars, deliveryVars, enqueueVars
  <1>0. rest[m] # <<>> => Head(rest[m]) \in Jobs /\ Tail(rest[m]) \in Seq(Jobs)
    BY HeadTailProperties DEF TypeOK
  <1>1. CASE EnqueueRead(m)
    <2>1. stream' \in [Messages -> Gens \union {Unread, Finished}] /\ rejected' \subseteq Messages
      BY <1>1 DEF EnqueueRead, TypeOK
    <2> QED BY <1>1, <2>1 DEF EnqueueRead, TypeOK, LoopState, LockState
  <1>2. CASE EnqueueOne(m)
    <2>1. stream[m] \in Gens
      BY <1>2 DEF EnqueueOne, Enqueueing, TypeOK
    <2>2. Append(mainChan[stream[m]], Head(rest[m])) \in Seq(Jobs)
      BY <1>0, <1>2, <2>1, AppendProperties DEF EnqueueOne, TypeOK
    <2>3. mainChan' \in [Gens -> Seq(Jobs)] /\ rest' \in [Messages -> Seq(Jobs)]
      BY <1>0, <1>2, <2>1, <2>2 DEF EnqueueOne, TypeOK
    <2> QED BY <1>2, <2>3 DEF EnqueueOne, TypeOK, LoopState, LockState
  <1>3. CASE RejectOne(m)
    <2>1. /\ rest' \in [Messages -> Seq(Jobs)]
          /\ rejected' \subseteq Messages /\ marking' \subseteq Messages
      BY <1>0, <1>3 DEF RejectOne, TypeOK
    <2> QED BY <1>3, <2>1 DEF RejectOne, TypeOK, LoopState, LockState
  <1>4. CASE EnqueueReturns(m)
    <2>1. stream' \in [Messages -> Gens \union {Unread, Finished}] /\ saturated' \in BOOLEAN
      BY <1>4 DEF EnqueueReturns, TypeOK
    <2> QED BY <1>4, <2>1 DEF EnqueueReturns, TypeOK, LoopState, LockState
  <1>5. CASE MarkSaturated(m)
    BY <1>5 DEF MarkSaturated, TypeOK, LoopState, LockState
  <1> QED BY <1>1, <1>2, <1>3, <1>4, <1>5 DEF EnqueueJobs

\* A step of dispatchLoop keeps the types.
LEMMA DispatchTypeInv ==
    ASSUME TypeInv, NEW g \in Gens, DispatchLoop(g)
    PROVE  TypeInv'
  <1> USE RouterAssumption DEF TypeInv, topicVars, dispatchVars, slotVars, deliveryVars, enqueueVars
  <1>0. mainChan[g] # <<>> => Head(mainChan[g]) \in Jobs /\ Tail(mainChan[g]) \in Seq(Jobs)
    BY HeadTailProperties DEF TypeOK
  <1>1. CASE LoopTop(g)
    BY <1>1 DEF LoopTop, TypeOK, LoopState, LockState
  <1>2. CASE PickConsumer(g)
    <2>1. PICK c \in members : target' = [target EXCEPT ![g] = c]
      BY <1>2 DEF PickConsumer, BestConsumers
    <2>2. target' \in [Gens -> Consumers \union {NoConsumer}] /\ target'[g] \in Consumers
      BY <2>1 DEF TypeOK
    <2>3. count' \in [Gens -> 0..BatchSize]
      BY <1>2 DEF PickConsumer, TypeOK
    <2>4. pc' \in [Gens -> {"none", "top", "pick", "check", "take", "write", "exited"}]
      BY <1>2 DEF PickConsumer, TypeOK
    <2>5. TypeOK'
      BY <1>2, <2>2, <2>3, <2>4 DEF PickConsumer, TypeOK
    <2>6. pc'[g] = "check"
      BY <1>2 DEF PickConsumer, TypeOK
    <2>7. \A h \in Gens : h # g => pc'[h] = pc[h] /\ target'[h] = target[h] /\ count'[h] = count[h]
      BY <1>2, <2>1 DEF PickConsumer, TypeOK
    <2>8. LoopState'
      BY <1>2, <2>2, <2>6, <2>7 DEF PickConsumer, LoopState
    <2> QED BY <1>2, <2>5, <2>8 DEF PickConsumer, LockState
  <1>3. CASE StopWaiting(g)
    BY <1>3 DEF StopWaiting, TypeOK, LoopState, LockState
  <1>4. CASE BatchCheck(g)
    <2>1. TypeOK'
      BY <1>4 DEF BatchCheck, TypeOK
    <2>2. LoopState'
      BY <1>4 DEF BatchCheck, BatchGoesOn, TypeOK, LoopState
    <2> QED BY <1>4, <2>1, <2>2 DEF BatchCheck, LockState
  <1>5. CASE NoMoreJobs(g)
    BY <1>5 DEF NoMoreJobs, TypeOK, LoopState, LockState
  <1>6. count[g] < BatchSize => [count EXCEPT ![g] = count[g] + 1] \in [Gens -> 0..BatchSize]
    BY DEF TypeOK
  <1>7. CASE DropExpired(g)
    <2>1. mainChan' \in [Gens -> Seq(Jobs)]
      BY <1>0, <1>7 DEF DropExpired, Dequeued, TypeOK
    <2>2. count' \in [Gens -> 0..BatchSize]
      BY <1>6, <1>7 DEF DropExpired, LoopState
    <2>3. pc' = [pc EXCEPT ![g] = "check"] /\ count' = [count EXCEPT ![g] = count[g] + 1]
      BY <1>7 DEF DropExpired
    <2>4. TypeOK'
      BY <1>7, <2>1, <2>2, <2>3 DEF DropExpired, TypeOK
    <2>5. LoopState'
      BY <1>7, <2>3 DEF DropExpired, LoopState, TypeOK
    <2> QED BY <1>7, <2>4, <2>5 DEF DropExpired, LockState
  <1>8. CASE TakeJob(g)
    <2>1. target[g] \in Consumers /\ count[g] < BatchSize
      BY <1>8 DEF TakeJob, LoopState
    <2>2. mainChan' \in [Gens -> Seq(Jobs)]
      BY <1>0, <1>8 DEF TakeJob, Dequeued, TypeOK
    <2>3. NextSeq(target[g]) \in Nat
      BY <2>1 DEF NextSeq, TypeOK
    <2>4. lastSentID' \in [Consumers -> Nat]
      BY <1>8, <2>1, <2>3 DEF TakeJob, TypeOK
    <2>5. CASE Head(mainChan[g]) \in BadJobs
      <3>1. /\ pc' = [pc EXCEPT ![g] = "check"] /\ hand' = hand
            /\ count' = [count EXCEPT ![g] = count[g] + 1]
        BY <1>8, <2>5 DEF TakeJob
      <3>2. count' \in [Gens -> 0..BatchSize]
        BY <1>6, <2>1, <3>1
      <3>3. TypeOK'
        BY <1>8, <2>2, <2>4, <3>1, <3>2 DEF TakeJob, TypeOK
      <3>4. LoopState'
        BY <1>8, <3>1 DEF TakeJob, LoopState, TypeOK
      <3> QED BY <1>8, <3>3, <3>4 DEF TakeJob, LockState
    <2>6. CASE Head(mainChan[g]) \notin BadJobs
      <3> DEFINE d == [job |-> Head(mainChan[g]), seq |-> NextSeq(target[g])]
      <3>1. d \in Delivery
        BY <1>0, <1>8, <2>3 DEF TakeJob, Delivery
      <3>2. hand' = [hand EXCEPT ![g] = d] /\ pc' = [pc EXCEPT ![g] = "write"] /\ count' = count
        BY <1>8, <2>6 DEF TakeJob
      <3> HIDE DEF d
      <3>3. TypeOK'
        BY <1>8, <2>2, <2>4, <3>1, <3>2 DEF TakeJob, TypeOK
      <3>4. LoopState'
        BY <1>8, <2>1, <3>1, <3>2 DEF TakeJob, LoopState, TypeOK
      <3> QED BY <1>8, <3>3, <3>4 DEF TakeJob, LockState
    <2> QED BY <2>5, <2>6
  <1>9. CASE WriteJob(g)
    <2>1. target[g] \in Consumers /\ count[g] < BatchSize /\ hand[g] \in Delivery
      BY <1>9 DEF WriteJob, LoopState
    <2>2. Append(writeCh[target[g]], hand[g]) \in Seq(Delivery)
      BY <2>1, AppendProperties DEF TypeOK
    <2>3. writeCh' \in [Consumers -> Seq(Delivery)]
      BY <1>9, <2>1, <2>2 DEF WriteJob, TypeOK
    <2>4. /\ hand' = [hand EXCEPT ![g] = NoDelivery] /\ pc' = [pc EXCEPT ![g] = "check"]
          /\ count' = [count EXCEPT ![g] = count[g] + 1]
      BY <1>9 DEF WriteJob
    <2>5. count' \in [Gens -> 0..BatchSize]
      BY <1>6, <2>1, <2>4
    <2>6. TypeOK'
      BY <1>9, <2>3, <2>4, <2>5 DEF WriteJob, TypeOK
    <2>7. LoopState'
      BY <1>9, <2>1, <2>4 DEF WriteJob, LoopState, TypeOK
    <2> QED BY <1>9, <2>6, <2>7 DEF WriteJob, LockState
  <1>10. CASE DropJob(g)
    <2>1. hand' = [hand EXCEPT ![g] = NoDelivery] /\ pc' = [pc EXCEPT ![g] = "top"]
      BY <1>10 DEF DropJob
    <2>2. TypeOK'
      BY <1>10, <2>1 DEF DropJob, TypeOK
    <2>3. LoopState'
      BY <1>10, <2>1 DEF DropJob, LoopState, TypeOK
    <2> QED BY <1>10, <2>2, <2>3 DEF DropJob, LockState
  <1> QED BY <1>1, <1>2, <1>3, <1>4, <1>5, <1>7, <1>8, <1>9, <1>10 DEF DispatchLoop

\* Every step keeps the types.
LEMMA NextTypeInv == TypeInv /\ [Next]_vars => TypeInv'
  <1> SUFFICES ASSUME TypeInv, [Next]_vars PROVE TypeInv'
    OBVIOUS
  <1>1. CASE BuildHeartbeatReport
    BY <1>1 DEF BuildHeartbeatReport, topicVars, dispatchVars, slotVars, deliveryVars,
                enqueueVars, TypeInv, TypeOK, LoopState, LockState
  <1>2. CASE UNCHANGED vars
    BY <1>2 DEF vars, topicVars, dispatchVars, slotVars, deliveryVars, enqueueVars,
                TypeInv, TypeOK, LoopState, LockState
  <1> QED BY <1>1, <1>2, ConsumerTypeInv, EnqueueTypeInv, DispatchTypeInv DEF Next

\* The type invariant holds throughout.
LEMMA TypeInvHolds == Spec => []TypeInv
  BY InitTypeInv, NextTypeInv, PTL DEF Spec

\* Every reachable state of the consumer side is well-typed: in particular
\* dispatchLoop never writes to a consumer it has not picked, never takes more
\* than dispatchBatchSize jobs in a batch, and drainAndStopTopic always has the
\* channel of the topic it drains.
THEOREM RouterTypes == Spec => []TypeOK
  BY TypeInvHolds, PTL DEF TypeInv

-----------------------------------------------------------------------------
(* The bound on unacknowledged jobs                                        *)

\* A dispatcher is started with its topic, and does not come back to life.
LEMMA NextOneDispatcher == TypeInv /\ OneDispatcher /\ [Next]_vars => OneDispatcher'
  <1> SUFFICES ASSUME TypeInv, OneDispatcher, [Next]_vars PROVE OneDispatcher'
    OBVIOUS
  <1> USE DEF topicVars, dispatchVars, slotVars, deliveryVars, enqueueVars
  <1>1. ASSUME UNCHANGED overlapped, \A g \in Gens : Running(g)' => Running(g)
        PROVE  OneDispatcher'
    BY <1>1 DEF OneDispatcher
  <1>2. ASSUME NEW c \in Consumers, AddConsumer(c) PROVE OneDispatcher'
    <2>1. CASE topicGen = 0
      <3>1. ~overlapped' => \A g \in Gens : ~Running(g)
        BY <1>2, <2>1 DEF AddConsumer
      <3>2. \A g \in Gens : g # lastGen + 1 => pc'[g] = pc[g]
        BY <1>2, <2>1 DEF AddConsumer, TypeInv, TypeOK
      <3> QED BY <3>1, <3>2 DEF OneDispatcher, Running
    <2>2. CASE topicGen # 0
      BY <1>1, <1>2, <2>2 DEF AddConsumer, Running
    <2> QED BY <2>1, <2>2
  <1>3. ASSUME NEW g \in Gens, DispatchLoop(g) PROVE OneDispatcher'
    <2>1. Running(g) /\ UNCHANGED overlapped /\ \A h \in Gens : h # g => pc'[h] = pc[h]
      BY <1>3 DEF DispatchLoop, LoopTop, PickConsumer, StopWaiting, BatchCheck, NoMoreJobs,
                  DropExpired, TakeJob, WriteJob, DropJob, Running, TypeInv, TypeOK
    <2> QED BY <1>1, <2>1 DEF Running
  <1>4. CASE \/ \E c \in Consumers : \/ WriteLoop(c) \/ Ack(c) \/ Disconnect(c)
                                     \/ RemoveConsumer(c) \/ DrainCheck(c) \/ DrainReceive(c)
             \/ \E m \in Messages : EnqueueJobs(m)
             \/ BuildHeartbeatReport \/ UNCHANGED vars
    <2>1. UNCHANGED <<pc, overlapped>>
      BY <1>4 DEF WriteLoop, Ack, Disconnect, RemoveConsumer, DrainCheck, DrainReceive,
                  EnqueueJobs, EnqueueRead, EnqueueOne, RejectOne, MarkSaturated,
                  EnqueueReturns, BuildHeartbeatReport, vars
    <2> QED BY <1>1, <2>1 DEF Running
  <1> QED BY <1>2, <1>3, <1>4 DEF Next, WebSocketHandler

\* Between the check and the send nothing takes the slot.
LEMMA NextInflight ==
    TypeInv /\ InflightInv /\ [Next]_vars => InflightBound' /\ SlotIsFree'
  <1> SUFFICES ASSUME TypeInv, InflightBound, SlotIsFree, OneDispatcher, [Next]_vars
               PROVE  InflightBound' /\ SlotIsFree'
    BY DEF InflightInv
  <1> USE RouterAssumption DEF topicVars, dispatchVars, slotVars, deliveryVars, enqueueVars
  <1>0. /\ \A c \in Consumers : lastSentID[c] \in Nat /\ lastAckID[c] \in Nat
        /\ \A g \in Gens : pc[g] = "take" => target[g] \in Consumers
    BY DEF TypeInv, TypeOK, LoopState
  <1>1. ASSUME UNCHANGED slotVars, overlapped => overlapped',
               \A g \in Gens : pc'[g] = "take" => pc[g] = "take" /\ target'[g] = target[g]
        PROVE  InflightBound' /\ SlotIsFree'
    BY <1>1 DEF InflightBound, SlotIsFree
  <1>2. ASSUME NEW c \in Consumers, AddConsumer(c) PROVE InflightBound' /\ SlotIsFree'
    <2>1. \A g \in Gens : pc'[g] = "take" => pc[g] = "take"
      BY <1>2 DEF AddConsumer, TypeInv, TypeOK
    <2>2. overlapped => overlapped'
      BY <1>2 DEF AddConsumer
    <2> QED BY <2>2, <1>1, <1>2, <2>1 DEF AddConsumer
  <1>3. ASSUME NEW c \in Consumers, Ack(c) PROVE InflightBound' /\ SlotIsFree'
    <2>1. PICK i \in DOMAIN received[c] : UpdateDeliveryAck(c, received[c][i].seq)
      BY <1>3 DEF Ack
    <2>2. received[c][i].seq \in Nat
      <3>1. received[c] \in Seq(Delivery)
        BY DEF TypeInv, TypeOK
      <3>2. received[c][i] \in Delivery
        BY <3>1
      <3> QED BY <3>2 DEF Delivery
    <2>3. \A d \in Consumers : lastAckID'[d] >= lastAckID[d] /\ lastAckID'[d] \in Nat
      <3> DEFINE id == received[c][i].seq
      <3>1. lastAckID' = [lastAckID EXCEPT ![c] = IF id > lastAckID[c] THEN id ELSE lastAckID[c]]
        BY <2>1 DEF UpdateDeliveryAck
      <3> HIDE DEF id
      <3>2. \A d \in Consumers : lastAckID'[d] = lastAckID[d] \/ (d = c /\ lastAckID'[d] = id /\ id > lastAckID[c])
        BY <3>1 DEF TypeInv, TypeOK
      <3>3. id \in Nat
        BY <2>2 DEF id
      <3> QED BY <1>0, <3>2, <3>3
    <2>4. UNCHANGED <<lastSentID, pc, target, overlapped>>
      BY <1>3 DEF Ack
    <2>5. InflightBound'
      BY <1>0, <2>3, <2>4 DEF InflightBound
    <2>6. SlotIsFree'
      BY <1>0, <2>3, <2>4 DEF SlotIsFree
    <2> QED BY <2>5, <2>6
  <1>4. ASSUME NEW g \in Gens, DispatchLoop(g) PROVE InflightBound' /\ SlotIsFree'
    <2>1. CASE BatchCheck(g)
      <3>1. BatchGoesOn(g) => lastSentID[target[g]] - lastAckID[target[g]] < MaxInflights
        <4>1. target[g] \in Consumers
          BY <2>1 DEF BatchCheck, TypeInv, LoopState
        <4> QED BY <1>0, <4>1 DEF BatchGoesOn, FreeSlots
      <3>2. pc' = [pc EXCEPT ![g] = IF BatchGoesOn(g) THEN "take" ELSE "top"]
        BY <2>1 DEF BatchCheck
      <3>3. UNCHANGED <<lastSentID, lastAckID, target, overlapped>>
        BY <2>1 DEF BatchCheck
      <3> QED BY <3>1, <3>2, <3>3 DEF InflightBound, SlotIsFree, TypeInv, TypeOK
    <2>2. CASE TakeJob(g)
      <3>1. /\ target[g] \in Consumers
            /\ ~overlapped => lastSentID[target[g]] - lastAckID[target[g]] < MaxInflights
        BY <1>0, <2>2 DEF TakeJob, SlotIsFree
      <3>2. /\ lastSentID' = [lastSentID EXCEPT ![target[g]] = lastSentID[target[g]] + 1]
            /\ UNCHANGED <<lastAckID, target, overlapped>>
        BY <2>2 DEF TakeJob, NextSeq
      <3>3. ~overlapped => \A h \in Gens : pc'[h] # "take"
        <4>1. pc'[g] # "take"
          BY <2>2 DEF TakeJob, TypeInv, TypeOK
        <4>2. ASSUME ~overlapped, NEW h \in Gens, h # g PROVE pc'[h] # "take"
          BY <2>2, <4>2 DEF TakeJob, OneDispatcher, Running, TypeInv, TypeOK
        <4> QED BY <4>1, <4>2
      <3>4. InflightBound'
        BY <1>0, <3>1, <3>2 DEF InflightBound, TypeInv, TypeOK
      <3> QED BY <3>2, <3>3, <3>4 DEF SlotIsFree
    <2>3. CASE \/ LoopTop(g) \/ PickConsumer(g) \/ StopWaiting(g) \/ NoMoreJobs(g)
               \/ DropExpired(g) \/ WriteJob(g) \/ DropJob(g)
      <3>1. \A h \in Gens : pc'[h] = "take" => h # g /\ pc[h] = "take"
        BY <2>3 DEF LoopTop, PickConsumer, StopWaiting, NoMoreJobs, DropExpired, WriteJob,
                    DropJob, TypeInv, TypeOK
      <3>2. \A h \in Gens : h # g => target'[h] = target[h]
        BY <2>3 DEF LoopTop, PickConsumer, StopWaiting, NoMoreJobs, DropExpired, WriteJob,
                    DropJob, TypeInv, TypeOK
      <3>3. UNCHANGED slotVars /\ UNCHANGED overlapped
        BY <2>3 DEF LoopTop, PickConsumer, StopWaiting, NoMoreJobs, DropExpired, WriteJob,
                    DropJob
      <3> QED BY <1>1, <3>1, <3>2, <3>3
    <2> QED BY <1>4, <2>1, <2>2, <2>3 DEF DispatchLoop
  <1>5. CASE \/ \E c \in Consumers : \/ WriteLoop(c) \/ Disconnect(c) \/ RemoveConsumer(c)
                                     \/ DrainCheck(c) \/ DrainReceive(c)
             \/ \E m \in Messages : EnqueueJobs(m)
             \/ BuildHeartbeatReport \/ UNCHANGED vars
    BY <1>1, <1>5 DEF WriteLoop, Disconnect, RemoveConsumer, DrainCheck, DrainReceive,
                      EnqueueJobs, EnqueueRead, EnqueueOne, RejectOne, MarkSaturated,
                      EnqueueReturns, BuildHeartbeatReport, vars
  <1> QED BY <1>2, <1>3, <1>4, <1>5 DEF Next, WebSocketHandler

\* The inductive invariant of the in-flight bound holds throughout.
LEMMA InflightInvHolds == Spec => []InflightInv
  <1>1. Init => InflightInv
    BY RouterAssumption DEF Init, InflightInv, InflightBound, SlotIsFree, OneDispatcher, Running
  <1>2. TypeInv /\ InflightInv /\ [Next]_vars => InflightInv'
    BY NextInflight, NextOneDispatcher DEF InflightInv
  <1> QED BY <1>1, <1>2, TypeInvHolds, PTL DEF Spec

\* A consumer has at most MaxInflights unacknowledged jobs, however its acks are
\* ordered and whoever else joins or leaves, unless the topic was created again while
\* the dispatchLoop of its earlier life was still running.
THEOREM InflightsAreBounded == Spec => []InflightBound
  <1>1. InflightInv => InflightBound
    BY DEF InflightInv
  <1> QED BY <1>1, InflightInvHolds, PTL

-----------------------------------------------------------------------------
(* The order of the sequence IDs                                           *)

\* The types of what a consumer has got and is to get.
LEMMA DeliveryTypes ==
    ASSUME TypeInv, NEW c \in Consumers
    PROVE  /\ received[c] \in Seq(Delivery) /\ writeCh[c] \in Seq(Delivery)
           /\ Deliveries(c) \in Seq(Delivery)
           /\ DOMAIN Deliveries(c) = 1..Len(Deliveries(c)) /\ Len(Deliveries(c)) \in Nat
           /\ \A i \in DOMAIN Deliveries(c) : Deliveries(c)[i].seq \in Nat
           /\ lastSentID[c] \in Nat /\ lastAckID[c] \in Nat
  <1>1. /\ received[c] \in Seq(Delivery) /\ writeCh[c] \in Seq(Delivery)
        /\ lastSentID[c] \in Nat /\ lastAckID[c] \in Nat
    BY DEF TypeInv, TypeOK
  <1>2. Deliveries(c) \in Seq(Delivery)
    BY <1>1, ConcatProperties DEF Deliveries
  <1>3. DOMAIN Deliveries(c) = 1..Len(Deliveries(c)) /\ Len(Deliveries(c)) \in Nat
    BY <1>2, LenProperties
  <1>4. \A i \in DOMAIN Deliveries(c) : Deliveries(c)[i] \in Delivery
    BY <1>2, <1>3, ElementOfSeq
  <1> QED BY <1>1, <1>2, <1>3, <1>4 DEF Delivery

\* The received deliveries come first, the ones in writeCh after them.
LEMMA ReceivedComeFirst ==
    ASSUME TypeInv, NEW c \in Consumers
    PROVE  /\ \A i \in DOMAIN received[c] :
                 i \in DOMAIN Deliveries(c) /\ Deliveries(c)[i] = received[c][i]
           /\ \A k \in DOMAIN writeCh[c] :
                 /\ Len(received[c]) + k \in DOMAIN Deliveries(c)
                 /\ Deliveries(c)[Len(received[c]) + k] = writeCh[c][k]
                 /\ \A i \in DOMAIN received[c] : i < Len(received[c]) + k
  <1>1. received[c] \in Seq(Delivery) /\ writeCh[c] \in Seq(Delivery)
    BY DeliveryTypes
  <1> DEFINE r == received[c]
             w == writeCh[c]
             d == Deliveries(c)
  <1>2. /\ DOMAIN r = 1..Len(r) /\ Len(r) \in Nat
        /\ DOMAIN w = 1..Len(w) /\ Len(w) \in Nat
        /\ DOMAIN d = 1..(Len(r) + Len(w))
        /\ \A i \in 1..(Len(r) + Len(w)) : d[i] = IF i <= Len(r) THEN r[i] ELSE w[i - Len(r)]
    <2>1. d = r \o w
      BY DEF Deliveries
    <2>2. /\ DOMAIN r = 1..Len(r) /\ Len(r) \in Nat
          /\ DOMAIN w = 1..Len(w) /\ Len(w) \in Nat
      BY <1>1, LenProperties
    <2> HIDE DEF r, w, d
    <2>3. r \in Seq(Delivery) /\ w \in Seq(Delivery)
      BY <1>1 DEF r, w
    <2>4. /\ r \o w \in Seq(Delivery) /\ Len(r \o w) = Len(r) + Len(w)
          /\ \A i \in 1..(Len(r) + Len(w)) : (r \o w)[i] = IF i <= Len(r) THEN r[i] ELSE w[i - Len(r)]
      BY <2>3, ConcatProperties
    <2>5. DOMAIN (r \o w) = 1..(Len(r) + Len(w))
      BY <2>4, LenProperties
    <2> QED BY <2>1, <2>2, <2>4, <2>5
  <1> HIDE DEF r, w, d
  <1>3. \A i \in DOMAIN r : i \in DOMAIN d /\ d[i] = r[i]
    BY <1>2
  <1>4. ASSUME NEW k \in DOMAIN w
        PROVE  Len(r) + k \in DOMAIN d /\ d[Len(r) + k] = w[k] /\ \A i \in DOMAIN r : i < Len(r) + k
    <2>1. Len(r) + k \in 1..(Len(r) + Len(w)) /\ ~(Len(r) + k <= Len(r)) /\ (Len(r) + k) - Len(r) = k
      BY <1>2
    <2> QED BY <1>2, <2>1
  <1> QED BY <1>3, <1>4 DEF r, w, d

\* A step that writes, acknowledges and sends nothing.
LEMMA SeqStays ==
    ASSUME SeqInv, UNCHANGED <<writeCh, received, lastSentID, lastAckID>>,
           overlapped => overlapped',
           \A g \in Gens : pc'[g] = "write" =>
               pc[g] = "write" /\ hand'[g] = hand[g] /\ target'[g] = target[g]
    PROVE  SeqInv'
  <1>1. \A c : Deliveries(c)' = Deliveries(c)
    BY DEF Deliveries
  <1>2. SeqInOrder'
    BY <1>1 DEF SeqInv, SeqInOrder
  <1>3. ~overlapped' => HandIsNext'
    BY <1>1 DEF SeqInv, HandIsNext
  <1>4. ~overlapped' => AckIsBehind'
    BY DEF SeqInv, AckIsBehind
  <1> QED BY <1>2, <1>3, <1>4 DEF SeqInv

\* The write loop moves a delivery from writeCh to the socket.
LEMMA WriteLoopKeepsDeliveries ==
    ASSUME TypeInv, NEW c \in Consumers, WriteLoop(c)
    PROVE  /\ \A d \in Consumers : Deliveries(d)' = Deliveries(d)
           /\ \A d \in Consumers : Contents(writeCh'[d]) \subseteq Contents(writeCh[d])
  <1>1. received[c] \in Seq(Delivery) /\ writeCh[c] \in Seq(Delivery) /\ writeCh[c] # <<>>
    BY DeliveryTypes DEF WriteLoop
  <1>2. /\ received'[c] = Append(received[c], Head(writeCh[c])) /\ writeCh'[c] = Tail(writeCh[c])
        /\ \A d \in Consumers : d # c => received'[d] = received[d] /\ writeCh'[d] = writeCh[d]
    BY DEF WriteLoop, TypeInv, TypeOK
  <1>3. Deliveries(c)' = Deliveries(c)
    BY <1>1, <1>2, HandOver DEF Deliveries
  <1>4. Contents(writeCh'[c]) \subseteq Contents(writeCh[c])
    BY <1>1, <1>2, TakeFromQueue
  <1> QED BY <1>2, <1>3, <1>4 DEF Deliveries

LEMMA WriteLoopSeqInv ==
    ASSUME TypeInv, SeqInv, NEW c \in Consumers, WriteLoop(c)
    PROVE  SeqInv'
  <1>1. UNCHANGED <<overlapped, pc, hand, target, lastSentID, lastAckID>>
    BY DEF WriteLoop, topicVars, dispatchVars, slotVars
  <1>2. SeqInOrder'
    BY <1>1, WriteLoopKeepsDeliveries DEF SeqInv, SeqInOrder
  <1>3. ASSUME ~overlapped PROVE HandIsNext'
    <2>1. \A g \in Gens : pc[g] = "write" => target[g] \in Consumers
      BY DEF TypeInv, LoopState
    <2> QED BY <1>1, <1>3, <2>1, WriteLoopKeepsDeliveries DEF SeqInv, HandIsNext
  <1>4. ASSUME ~overlapped PROVE AckIsBehind'
    <2>1. ASSUME NEW d \in Consumers, NEW i \in DOMAIN writeCh'[d]
          PROVE  lastAckID[d] < writeCh'[d][i].seq
      <3>1. writeCh'[d][i] \in Contents(writeCh[d])
        BY WriteLoopKeepsDeliveries DEF Contents
      <3>2. PICK k \in DOMAIN writeCh[d] : writeCh'[d][i] = writeCh[d][k]
        BY <3>1 DEF Contents
      <3> QED BY <1>4, <3>2 DEF SeqInv, AckIsBehind
    <2> QED BY <1>1, <1>4, <2>1 DEF SeqInv, AckIsBehind
  <1> QED BY <1>1, <1>2, <1>3, <1>4 DEF SeqInv

\* An ack raises LastDeliveryAckID to the ID of a received delivery, or leaves it.
LEMMA AckRaises ==
    ASSUME TypeInv, NEW c \in Consumers, Ack(c)
    PROVE  \E i \in DOMAIN received[c] :
               /\ received[c][i].seq \in Nat
               /\ \/ UNCHANGED lastAckID
                  \/ /\ lastAckID' = [lastAckID EXCEPT ![c] = received[c][i].seq]
                     /\ received[c][i].seq > lastAckID[c]
  <1>1. PICK i \in DOMAIN received[c] : UpdateDeliveryAck(c, received[c][i].seq)
    BY DEF Ack
  <1>2. received[c][i].seq \in Nat
    BY DeliveryTypes, ReceivedComeFirst
  <1>3. CASE received[c][i].seq > lastAckID[c]
    BY <1>1, <1>2, <1>3 DEF UpdateDeliveryAck
  <1>4. CASE ~(received[c][i].seq > lastAckID[c])
    <2>1. lastAckID' = [lastAckID EXCEPT ![c] = lastAckID[c]]
      BY <1>1, <1>4 DEF UpdateDeliveryAck
    <2>2. lastAckID' = lastAckID
      BY <2>1 DEF TypeInv, TypeOK
    <2> QED BY <1>2, <2>2
  <1> QED BY <1>3, <1>4

LEMMA AckSeqInv ==
    ASSUME TypeInv, SeqInv, NEW c \in Consumers, Ack(c)
    PROVE  SeqInv'
  <1>1. UNCHANGED <<overlapped, pc, hand, target, lastSentID, writeCh, received>>
    BY DEF Ack, topicVars, dispatchVars, deliveryVars
  <1>2. PICK i \in DOMAIN received[c] :
               /\ received[c][i].seq \in Nat
               /\ \/ UNCHANGED lastAckID
                  \/ /\ lastAckID' = [lastAckID EXCEPT ![c] = received[c][i].seq]
                     /\ received[c][i].seq > lastAckID[c]
    BY AckRaises
  <1>3. CASE UNCHANGED lastAckID
    BY <1>1, <1>3, SeqStays
  <1>4. CASE lastAckID' = [lastAckID EXCEPT ![c] = received[c][i].seq]
    <2>1. \A d : Deliveries(d)' = Deliveries(d)
      BY <1>1 DEF Deliveries
    <2>2. SeqInOrder' /\ (~overlapped' => HandIsNext')
      BY <1>1, <2>1 DEF SeqInv, SeqInOrder, HandIsNext
    <2>3. ASSUME ~overlapped PROVE AckIsBehind'
      <3>1. lastAckID'[c] = received[c][i].seq /\ \A d \in Consumers : d # c => lastAckID'[d] = lastAckID[d]
        BY <1>4 DEF TypeInv, TypeOK
      <3>2. i \in DOMAIN Deliveries(c) /\ Deliveries(c)[i] = received[c][i]
        BY ReceivedComeFirst
      <3>3. received[c][i].seq <= lastSentID[c]
        BY <2>3, <3>2 DEF SeqInv, HandIsNext
      <3>4. \A k \in DOMAIN writeCh[c] : received[c][i].seq < writeCh[c][k].seq
        BY <2>3, <3>2, ReceivedComeFirst DEF SeqInv, SeqInOrder
      <3>5. \A g \in Gens : pc[g] = "write" /\ target[g] = c => received[c][i].seq < hand[g].seq
        BY <2>3, <3>2 DEF SeqInv, HandIsNext
      <3>6. \A g \in Gens : pc[g] = "write" => target[g] \in Consumers
        BY DEF TypeInv, LoopState
      <3>7. \A d \in Consumers : /\ lastAckID'[d] <= lastSentID[d]
                                 /\ \A k \in DOMAIN writeCh[d] : lastAckID'[d] < writeCh[d][k].seq
        BY <2>3, <3>1, <3>3, <3>4 DEF SeqInv, AckIsBehind
      <3>8. \A g \in Gens : pc[g] = "write" => lastAckID'[target[g]] < hand[g].seq
        BY <2>3, <3>1, <3>5, <3>6 DEF SeqInv, AckIsBehind
      <3> QED BY <1>1, <3>7, <3>8 DEF AckIsBehind
    <2> QED BY <1>1, <2>2, <2>3 DEF SeqInv
  <1> QED BY <1>2, <1>3, <1>4

\* Only dispatchLoop g is in the middle of a batch.
LEMMA OthersDoNotWrite ==
    ASSUME OneDispatcher, ~overlapped, NEW g \in Gens, pc[g] \in {"take", "write"},
           NEW h \in Gens, h # g
    PROVE  pc[h] # "write"
  BY DEF OneDispatcher, Running

\* OnJobSent gives the delivery the next sequence ID, above all of the consumer's.
LEMMA TakeJobSeqInv ==
    ASSUME TypeInv, OneDispatcher, SeqInv, NEW g \in Gens, TakeJob(g)
    PROVE  SeqInv'
  <1> DEFINE c == target[g]
  <1>1. c \in Consumers /\ pc[g] = "take"
    BY DEF TakeJob, TypeInv, LoopState
  <1>2. /\ lastSentID'[c] = lastSentID[c] + 1
        /\ \A d \in Consumers : d # c => lastSentID'[d] = lastSentID[d]
        /\ UNCHANGED <<overlapped, target, lastAckID, writeCh, received>>
    BY <1>1 DEF TakeJob, NextSeq, TypeInv, TypeOK, topicVars, deliveryVars
  <1>3. pc'[g] = "write" => hand'[g].seq = lastSentID[c] + 1
    BY <1>1 DEF TakeJob, NextSeq, TypeInv, TypeOK
  <1>4. ASSUME ~overlapped, NEW h \in Gens, h # g PROVE pc'[h] # "write"
    <2>1. pc'[h] = pc[h]
      BY <1>4 DEF TakeJob, TypeInv, TypeOK
    <2> QED BY <1>1, <1>4, <2>1, OthersDoNotWrite
  <1>5. \A d : Deliveries(d)' = Deliveries(d)
    BY <1>2 DEF Deliveries
  <1>6. \A d \in Consumers : /\ lastSentID[d] \in Nat /\ lastAckID[d] \in Nat
                             /\ \A i \in DOMAIN Deliveries(d) : Deliveries(d)[i].seq \in Nat
    BY DeliveryTypes
  <1> HIDE DEF c
  <1>7. SeqInOrder'
    BY <1>2, <1>5 DEF SeqInv, SeqInOrder
  <1>8. ASSUME ~overlapped PROVE HandIsNext'
    <2>1. \A d \in Consumers : \A i \in DOMAIN Deliveries(d) : Deliveries(d)[i].seq <= lastSentID[d]
      BY <1>8 DEF SeqInv, HandIsNext
    <2>2. \A d \in Consumers : \A i \in DOMAIN Deliveries(d) : Deliveries(d)[i].seq <= lastSentID'[d]
      BY <1>1, <1>2, <1>6, <2>1
    <2>3. \A i \in DOMAIN Deliveries(c) : Deliveries(c)[i].seq < lastSentID[c] + 1
      BY <1>1, <1>6, <2>1
    <2>4. target'[g] = c
      BY <1>2 DEF c
    <2> QED BY <1>2, <1>3, <1>4, <1>5, <1>8, <2>2, <2>3, <2>4 DEF HandIsNext
  <1>9. ASSUME ~overlapped PROVE AckIsBehind'
    <2>1. \A d \in Consumers : lastAckID[d] <= lastSentID'[d]
      BY <1>1, <1>2, <1>6, <1>9 DEF SeqInv, AckIsBehind
    <2>2. lastAckID[c] < lastSentID[c] + 1
      BY <1>1, <1>6, <1>9 DEF SeqInv, AckIsBehind
    <2>3. target'[g] = c
      BY <1>2 DEF c
    <2> QED BY <1>2, <1>3, <1>4, <1>9, <2>1, <2>2, <2>3 DEF SeqInv, AckIsBehind
  <1> QED BY <1>2, <1>7, <1>8, <1>9 DEF SeqInv

\* What a write to writeCh does to the deliveries of a consumer.
LEMMA WriteJobAppends ==
    ASSUME TypeInv, NEW g \in Gens, WriteJob(g)
    PROVE  \E c \in Consumers, e \in Delivery :
            /\ c = target[g] /\ e = hand[g]
            /\ Deliveries(c)' = Append(Deliveries(c), e)
            /\ writeCh'[c] = Append(writeCh[c], e)
            /\ \A d \in Consumers : d # c => Deliveries(d)' = Deliveries(d) /\ writeCh'[d] = writeCh[d]
  <1>1. PICK c \in Consumers, e \in Delivery : c = target[g] /\ e = hand[g]
    BY DEF WriteJob, TypeInv, LoopState
  <1>2. /\ received' = received
        /\ writeCh'[c] = Append(writeCh[c], e)
        /\ \A d \in Consumers : d # c => writeCh'[d] = writeCh[d]
    BY <1>1 DEF WriteJob, TypeInv, TypeOK
  <1>3. PICK r \in Seq(Delivery), w \in Seq(Delivery) : r = received[c] /\ w = writeCh[c]
    BY DeliveryTypes
  <1>4. r \o Append(w, e) = Append(r \o w, e)
    BY AppendToSecond
  <1>5. Deliveries(c)' = Append(Deliveries(c), e)
    BY <1>2, <1>3, <1>4 DEF Deliveries
  <1>6. \A d \in Consumers : d # c => Deliveries(d)' = Deliveries(d)
    BY <1>2 DEF Deliveries
  <1> QED BY <1>1, <1>2, <1>5, <1>6

\* A delivery is written after all those with smaller sequence IDs.
LEMMA WriteJobSeqInv ==
    ASSUME TypeInv, OneDispatcher, SeqInv, NEW g \in Gens, WriteJob(g)
    PROVE  SeqInv'
  <1>1. pc[g] = "write" /\ UNCHANGED <<overlapped, target, lastSentID, lastAckID>>
    BY DEF WriteJob, topicVars, slotVars
  <1>2. ASSUME ~overlapped, NEW h \in Gens PROVE pc'[h] # "write"
    <2>1. pc'[g] = "check" /\ (h # g => pc'[h] = pc[h])
      BY DEF WriteJob, TypeInv, TypeOK
    <2> QED BY <1>1, <1>2, <2>1, OthersDoNotWrite
  <1>3. PICK c \in Consumers, e \in Delivery :
            /\ c = target[g] /\ e = hand[g]
            /\ Deliveries(c)' = Append(Deliveries(c), e)
            /\ writeCh'[c] = Append(writeCh[c], e)
            /\ \A d \in Consumers : d # c => Deliveries(d)' = Deliveries(d) /\ writeCh'[d] = writeCh[d]
    BY WriteJobAppends
  <1>4. ~overlapped => /\ e.seq = lastSentID[c] /\ lastAckID[c] < e.seq
                       /\ \A i \in DOMAIN Deliveries(c) : Deliveries(c)[i].seq < e.seq
    BY <1>1, <1>3 DEF SeqInv, HandIsNext, AckIsBehind
  <1>5. /\ Deliveries(c) \in Seq(Delivery) /\ writeCh[c] \in Seq(Delivery)
        /\ DOMAIN Deliveries(c) = 1..Len(Deliveries(c)) /\ Len(Deliveries(c)) \in Nat
        /\ DOMAIN writeCh[c] = 1..Len(writeCh[c]) /\ Len(writeCh[c]) \in Nat
    BY DeliveryTypes, LenProperties
  <1>6. PICK s, n : s = Deliveries(c) /\ n = Len(Deliveries(c))
    OBVIOUS
  <1>7. /\ DOMAIN Append(s, e) = 1..(n + 1)
        /\ \A i \in 1..n : Append(s, e)[i] = s[i]
        /\ Append(s, e)[n + 1] = e
    BY <1>5, <1>6, AppendProperties, LenProperties
  <1>8. ASSUME ~overlapped, NEW i \in 1..(n + 1), NEW k \in 1..(n + 1), i < k
        PROVE  Append(s, e)[i].seq < Append(s, e)[k].seq
    <2>1. i \in 1..n /\ Append(s, e)[i] = s[i] /\ (k \in 1..n \/ k = n + 1)
      BY <1>5, <1>6, <1>7, <1>8
    <2>2. CASE k \in 1..n
      <3>1. s[i].seq < s[k].seq
        BY <1>5, <1>6, <1>8, <2>1, <2>2 DEF SeqInv, SeqInOrder
      <3> QED BY <1>7, <2>1, <2>2, <3>1
    <2>3. CASE k = n + 1
      BY <1>4, <1>5, <1>6, <1>7, <1>8, <2>1, <2>3
    <2> QED BY <2>1, <2>2, <2>3
  <1>9. ASSUME ~overlapped PROVE SeqInOrder'
    <2>1. ASSUME NEW d \in Consumers, NEW i \in DOMAIN Deliveries(d)', NEW k \in DOMAIN Deliveries(d)', i < k
          PROVE  Deliveries(d)'[i].seq < Deliveries(d)'[k].seq
      <3>1. CASE d = c
        BY <1>3, <1>6, <1>7, <1>8, <1>9, <2>1, <3>1
      <3>2. CASE d # c
        BY <1>3, <1>9, <2>1, <3>2 DEF SeqInv, SeqInOrder
      <3> QED BY <3>1, <3>2
    <2> QED BY <2>1 DEF SeqInOrder
  <1>10. ASSUME ~overlapped PROVE HandIsNext'
    <2>1. \A d \in Consumers : \A i \in DOMAIN Deliveries(d) : Deliveries(d)[i].seq <= lastSentID[d]
      BY <1>10 DEF SeqInv, HandIsNext
    <2>2. ASSUME NEW i \in 1..(n + 1) PROVE Append(s, e)[i].seq <= lastSentID[c]
      <3>1. CASE i \in 1..n
        BY <1>5, <1>6, <1>7, <2>1, <3>1
      <3>2. CASE i = n + 1
        BY <1>4, <1>7, <1>10, <3>2, DeliveryTypes
      <3> QED BY <1>5, <1>6, <3>1, <3>2
    <2>3. ASSUME NEW d \in Consumers, NEW i \in DOMAIN Deliveries(d)'
          PROVE  Deliveries(d)'[i].seq <= lastSentID[d]
      <3>1. CASE d = c
        BY <1>3, <1>6, <1>7, <2>2, <2>3, <3>1
      <3>2. CASE d # c
        BY <1>3, <2>1, <2>3, <3>2
      <3> QED BY <3>1, <3>2
    <2> QED BY <1>1, <1>2, <1>10, <2>3 DEF HandIsNext
  <1>11. ASSUME ~overlapped PROVE AckIsBehind'
    <2>1. Contents(writeCh'[c]) = Contents(writeCh[c]) \union {e}
      BY <1>3, <1>5, AppendToQueue
    <2>2. \A d \in Consumers : \A x \in Contents(writeCh[d]) : lastAckID[d] < x.seq
      BY <1>11 DEF SeqInv, AckIsBehind, Contents
    <2>3. \A d \in Consumers : \A x \in Contents(writeCh'[d]) : lastAckID[d] < x.seq
      BY <1>3, <1>4, <1>11, <2>1, <2>2
    <2>4. \A d \in Consumers : \A i \in DOMAIN writeCh'[d] : lastAckID[d] < writeCh'[d][i].seq
      BY <2>3 DEF Contents
    <2> QED BY <1>1, <1>2, <1>11, <2>4 DEF SeqInv, AckIsBehind
  <1> QED BY <1>1, <1>9, <1>10, <1>11 DEF SeqInv, SeqInOrder

\* Every step keeps the order.
LEMMA NextSeqInv == TypeInv /\ OneDispatcher /\ SeqInv /\ [Next]_vars => SeqInv'
  <1> SUFFICES ASSUME TypeInv, OneDispatcher, SeqInv, [Next]_vars PROVE SeqInv'
    OBVIOUS
  <1> USE DEF topicVars, dispatchVars, slotVars, deliveryVars, enqueueVars
  <1>1. ASSUME NEW c \in Consumers, AddConsumer(c) PROVE SeqInv'
    <2>1. \A g \in Gens : pc'[g] = "write" => pc[g] = "write"
      BY <1>1 DEF AddConsumer, TypeInv, TypeOK
    <2>2. overlapped => overlapped'
      BY <1>1 DEF AddConsumer
    <2> QED BY <1>1, <2>1, <2>2, SeqStays DEF AddConsumer
  <1>2. ASSUME NEW g \in Gens, DispatchLoop(g) PROVE SeqInv'
    <2>1. CASE \/ LoopTop(g) \/ PickConsumer(g) \/ StopWaiting(g) \/ BatchCheck(g)
               \/ NoMoreJobs(g) \/ DropExpired(g) \/ DropJob(g)
      <3>1. /\ pc'[g] # "write"
            /\ \A h \in Gens : h # g => pc'[h] = pc[h] /\ hand'[h] = hand[h] /\ target'[h] = target[h]
        BY <2>1 DEF LoopTop, PickConsumer, StopWaiting, BatchCheck, NoMoreJobs, DropExpired,
                    DropJob, TypeInv, TypeOK
      <3>2. UNCHANGED <<writeCh, received, lastSentID, lastAckID, overlapped>>
        BY <2>1 DEF LoopTop, PickConsumer, StopWaiting, BatchCheck, NoMoreJobs, DropExpired, DropJob
      <3> QED BY <3>1, <3>2, SeqStays
    <2> QED BY <1>2, <2>1, TakeJobSeqInv, WriteJobSeqInv DEF DispatchLoop
  <1>3. CASE \/ \E c \in Consumers : \/ Disconnect(c) \/ RemoveConsumer(c)
                                     \/ DrainCheck(c) \/ DrainReceive(c)
             \/ \E m \in Messages : EnqueueJobs(m)
             \/ BuildHeartbeatReport \/ UNCHANGED vars
    <2>1. UNCHANGED <<writeCh, received, lastSentID, lastAckID, overlapped, pc, hand, target>>
      BY <1>3 DEF Disconnect, RemoveConsumer, DrainCheck, DrainReceive, EnqueueJobs, EnqueueRead,
                  EnqueueOne, RejectOne, MarkSaturated, EnqueueReturns, BuildHeartbeatReport, vars
    <2> QED BY <2>1, SeqStays
  <1> QED BY <1>1, <1>2, <1>3, WriteLoopSeqInv, AckSeqInv DEF Next, WebSocketHandler

\* The order of the sequence IDs holds throughout.
LEMMA SeqInvHolds == Spec => []SeqInv
  <1>1. Init => SeqInv
    <2> SUFFICES ASSUME Init PROVE SeqInv
      OBVIOUS
    <2>1. \A c \in Consumers : DOMAIN Deliveries(c) = {} /\ DOMAIN writeCh[c] = {}
      <3>1. <<>> \o <<>> = <<>>
        BY ConcatEmptySeq, EmptySeq
      <3> QED BY <3>1 DEF Init, Deliveries
    <2> QED BY <2>1 DEF Init, SeqInv, SeqInOrder, HandIsNext, AckIsBehind
  <1>2. InflightInv => OneDispatcher
    BY DEF InflightInv
  <1> QED BY <1>1, <1>2, NextSeqInv, TypeInvHolds, InflightInvHolds, PTL DEF Spec

\* SeqInOrder: the deliveries reach a consumer in the order of their sequence IDs,
\* also when some are dropped because writeCh is full, when acks come in any order and
\* when the dispatcher serves several consumers in turn, unless the topic was created
\* again while its old dispatcher was still running.
THEOREM DeliveriesAreInOrder == Spec => []SeqInOrder
  <1>1. SeqInv => SeqInOrder
    BY DEF SeqInv
  <1> QED BY <1>1, SeqInvHolds, PTL

-----------------------------------------------------------------------------
(* The places a job can be in                                              *)

\* What each kind of holder holds, before and after a step.
LEMMA HeldBy ==
    /\ \A m \in Messages : /\ <<"rest", m>> \in Holders
                            /\ Held(<<"rest", m>>) = Contents(rest[m])
                            /\ Held(<<"rest", m>>)' = Contents(rest'[m])
    /\ \A g \in Gens : /\ <<"chan", g>> \in Holders
                        /\ Held(<<"chan", g>>) = Contents(mainChan[g])
                        /\ Held(<<"chan", g>>)' = Contents(mainChan'[g])
    /\ \A g \in Gens : /\ <<"hand", g>> \in Holders
                        /\ Held(<<"hand", g>>) = {hand[g].job} \intersect Jobs
                        /\ Held(<<"hand", g>>)' = {hand'[g].job} \intersect Jobs
    /\ \A c \in Consumers : /\ <<"out", c>> \in Holders
                             /\ Held(<<"out", c>>) = Contents(JobsOut(c))
                             /\ Held(<<"out", c>>)' = Contents(JobsOut(c)')
  <1>1. \A m \in Messages : /\ <<"rest", m>> \in Holders
                            /\ Held(<<"rest", m>>) = Contents(rest[m])
                            /\ Held(<<"rest", m>>)' = Contents(rest'[m])
    BY DEF Held, Holders, Contents
  <1>2. \A g \in Gens : /\ <<"chan", g>> \in Holders
                        /\ Held(<<"chan", g>>) = Contents(mainChan[g])
                        /\ Held(<<"chan", g>>)' = Contents(mainChan'[g])
    BY DEF Held, Holders, Contents
  <1>3. \A g \in Gens : /\ <<"hand", g>> \in Holders
                        /\ Held(<<"hand", g>>) = {hand[g].job} \intersect Jobs
                        /\ Held(<<"hand", g>>)' = {hand'[g].job} \intersect Jobs
    BY DEF Held, Holders
  <1>4. \A c \in Consumers : /\ <<"out", c>> \in Holders
                             /\ Held(<<"out", c>>) = Contents(JobsOut(c))
                             /\ Held(<<"out", c>>)' = Contents(JobsOut(c)')
    BY DEF Held, Holders, Contents
  <1> QED BY <1>1, <1>2, <1>3, <1>4

\* The holders outside T get nothing.
LEMMA OthersGetNothing ==
    ASSUME NEW T,
           \A m \in Messages : <<"rest", m>> \notin T => Contents(rest'[m]) \subseteq Contents(rest[m]),
           \A g \in Gens : <<"chan", g>> \notin T => Contents(mainChan'[g]) \subseteq Contents(mainChan[g]),
           \A g \in Gens : <<"hand", g>> \notin T => hand'[g].job = hand[g].job \/ hand'[g].job \notin Jobs,
           \A c \in Consumers : <<"out", c>> \notin T => JobsOut(c)' = JobsOut(c),
           NEW p \in Holders, p \notin T
    PROVE  Held(p)' \subseteq Held(p)
  <1>1. \/ \E m \in Messages : p = <<"rest", m>>
        \/ \E g \in Gens : p = <<"chan", g>> \/ p = <<"hand", g>>
        \/ \E c \in Consumers : p = <<"out", c>>
    BY DEF Holders
  <1>2. ASSUME NEW m \in Messages, p = <<"rest", m>> PROVE Held(p)' \subseteq Held(p)
    BY <1>2, HeldBy
  <1>3. ASSUME NEW g \in Gens, p = <<"chan", g>> PROVE Held(p)' \subseteq Held(p)
    BY <1>3, HeldBy
  <1>4. ASSUME NEW g \in Gens, p = <<"hand", g>> PROVE Held(p)' \subseteq Held(p)
    BY <1>4, HeldBy
  <1>5. ASSUME NEW c \in Consumers, p = <<"out", c>> PROVE Held(p)' \subseteq Held(p)
    BY <1>5, HeldBy
  <1> QED BY <1>1, <1>2, <1>3, <1>4, <1>5

\* A job that moves from one holder to another has only one holder afterwards.
LEMMA MovedJobHasOneHolder ==
    ASSUME HoldersApart, NEW f \in Holders, NEW t \in Holders, NEW j \in Held(f),
           j \notin Held(f)', Held(t)' \subseteq Held(t) \union {j},
           \A p \in Holders : p # t => Held(p)' \subseteq Held(p)
    PROVE  HoldersApart'
  <1> SUFFICES ASSUME NEW p \in Holders, NEW q \in Holders,
                      NEW x \in Held(p)' \intersect Held(q)'
               PROVE  p = q
    BY DEF HoldersApart
  <1>1. CASE x = j
    <2>1. ASSUME NEW h \in Holders, j \in Held(h)' PROVE h = t
      <3>1. h # t => j \in Held(h)
        BY <2>1
      <3>2. h # t => h = f
        BY <3>1 DEF HoldersApart
      <3> QED BY <2>1, <3>2
    <2> QED BY <1>1, <2>1
  <1>2. CASE x # j
    BY <1>2 DEF HoldersApart
  <1> QED BY <1>1, <1>2

\* Nothing moves, or something is dropped.
LEMMA FewerHolders ==
    ASSUME HoldersApart,
           \A m \in Messages : Contents(rest'[m]) \subseteq Contents(rest[m]),
           \A g \in Gens : Contents(mainChan'[g]) \subseteq Contents(mainChan[g]),
           \A g \in Gens : hand'[g].job = hand[g].job \/ hand'[g].job \notin Jobs,
           \A c \in Consumers : JobsOut(c)' = JobsOut(c)
    PROVE  HoldersApart'
  <1>1. PICK T : T = {}
    OBVIOUS
  <1>2. \A p \in Holders : p \notin T => Held(p)' \subseteq Held(p)
    BY OthersGetNothing
  <1>3. \A p \in Holders : Held(p)' \subseteq Held(p)
    BY <1>1, <1>2
  <1> QED BY <1>3 DEF HoldersApart

\* At the start the jobs are in the messages.
LEMMA InitPlaceInv ==
    ASSUME JobsSentOnce, Init
    PROVE  PlaceInv
  <1>1. <<>> \o <<>> = <<>>
    BY ConcatEmptySeq, EmptySeq
  <1>2. \A c \in Consumers : JobsOut(c) = <<>>
    <2>1. \A c \in Consumers : Deliveries(c) = <<>>
      BY <1>1 DEF Init, Deliveries
    <2> QED BY <2>1 DEF JobsOut
  <1>3. \A p \in Holders : \A j \in Held(p) :
            \E m \in Messages : p = <<"rest", m>> /\ \E i \in DOMAIN JobsOf[m] : JobsOf[m][i] = j
    <2> SUFFICES ASSUME NEW p \in Holders, NEW j \in Held(p)
                 PROVE  \E m \in Messages : /\ p = <<"rest", m>>
                                            /\ \E i \in DOMAIN JobsOf[m] : JobsOf[m][i] = j
      OBVIOUS
    <2>1. \/ \E m \in Messages : p = <<"rest", m>>
          \/ \E g \in Gens : p = <<"chan", g>> \/ p = <<"hand", g>>
          \/ \E c \in Consumers : p = <<"out", c>>
      BY DEF Holders
    <2>2. ASSUME NEW m \in Messages, p = <<"rest", m>>
          PROVE  \E i \in DOMAIN JobsOf[m] : JobsOf[m][i] = j
      <3>1. j \in Contents(rest[m])
        BY <2>2, HeldBy
      <3>2. rest[m] = JobsOf[m]
        BY DEF Init
      <3> QED BY <3>1, <3>2 DEF Contents
    <2>3. \A g \in Gens : Contents(mainChan[g]) = {} /\ hand[g].job \notin Jobs
      BY RouterAssumption, EmptyQueue DEF Init, NoDelivery
    <2>4. \A c \in Consumers : Contents(JobsOut(c)) = {}
      BY <1>2, EmptyQueue
    <2> QED BY <2>1, <2>2, <2>3, <2>4, HeldBy
  <1>4. HoldersApart
    BY <1>3 DEF HoldersApart, JobsSentOnce
  <1>5. HeldOnce
    BY <1>2, EmptyQueue DEF Init, HeldOnce, Distinct, JobsSentOnce
  <1> QED BY <1>4, <1>5 DEF PlaceInv

\* A job that leaves a mainChan for nowhere.
LEMMA LeftChan ==
    ASSUME TypeInv, PlaceInv, NEW g \in Gens, mainChan[g] # <<>>,
           mainChan' = [mainChan EXCEPT ![g] = Tail(mainChan[g])],
           UNCHANGED <<rest, hand, writeCh, received>>
    PROVE  PlaceInv'
  <1>1. mainChan[g] \in Seq(Jobs)
    BY DEF TypeInv, TypeOK
  <1>2. mainChan'[g] = Tail(mainChan[g]) /\ \A h \in Gens : h # g => mainChan'[h] = mainChan[h]
    BY DEF TypeInv, TypeOK
  <1>3. Contents(mainChan'[g]) \subseteq Contents(mainChan[g]) /\ Distinct(mainChan'[g])
    BY <1>1, <1>2, TakeFromQueue DEF PlaceInv, HeldOnce
  <1>4. \A c \in Consumers : JobsOut(c)' = JobsOut(c)
    BY DEF JobsOut, Deliveries
  <1>5. \A h \in Gens : Contents(mainChan'[h]) \subseteq Contents(mainChan[h])
    BY <1>2, <1>3
  <1>6. HoldersApart'
    BY <1>4, <1>5, FewerHolders DEF PlaceInv
  <1>7. HeldOnce'
    BY <1>2, <1>3, <1>4 DEF PlaceInv, HeldOnce
  <1> QED BY <1>6, <1>7 DEF PlaceInv

\* EnqueueJobs moves a job from its message to the channel it has read.
LEMMA EnqueueOnePlaceInv ==
    ASSUME TypeInv, PlaceInv, NEW m \in Messages, EnqueueOne(m)
    PROVE  PlaceInv'
  <1>1. PICK g \in Gens : g = stream[m]
    BY DEF EnqueueOne, Enqueueing, TypeInv, TypeOK
  <1>2. PICK j : j = Head(rest[m])
    OBVIOUS
  <1>3. rest[m] \in Seq(Jobs) /\ rest[m] # <<>> /\ mainChan[g] \in Seq(Jobs)
    BY DEF EnqueueOne, TypeInv, TypeOK
  <1>4. /\ rest'[m] = Tail(rest[m]) /\ \A n \in Messages : n # m => rest'[n] = rest[n]
        /\ mainChan'[g] = Append(mainChan[g], j) /\ \A h \in Gens : h # g => mainChan'[h] = mainChan[h]
        /\ UNCHANGED <<hand, writeCh, received>>
    BY <1>1, <1>2 DEF EnqueueOne, TypeInv, TypeOK, dispatchVars, deliveryVars
  <1>5. /\ j \in Jobs /\ Contents(rest[m]) = Contents(rest'[m]) \union {j}
        /\ Distinct(rest'[m]) /\ j \notin Contents(rest'[m])
    BY <1>2, <1>3, <1>4, TakeFromQueue DEF PlaceInv, HeldOnce
  <1>6. PICK f \in Holders, t \in Holders : f = <<"rest", m>> /\ t = <<"chan", g>>
    BY HeldBy
  <1>7. f # t /\ j \in Held(f) /\ j \notin Held(f)'
    BY <1>5, <1>6, HeldBy
  <1>8. j \notin Contents(mainChan[g])
    BY <1>6, <1>7, HeldBy DEF PlaceInv, HoldersApart
  <1>9. Contents(mainChan'[g]) = Contents(mainChan[g]) \union {j} /\ Distinct(mainChan'[g])
    BY <1>3, <1>4, <1>5, <1>8, AppendToQueue DEF PlaceInv, HeldOnce
  <1>10. Held(t)' \subseteq Held(t) \union {j}
    BY <1>6, <1>9, HeldBy
  <1>11. \A c \in Consumers : JobsOut(c)' = JobsOut(c)
    BY <1>4 DEF JobsOut, Deliveries
  <1>12. /\ \A n \in Messages : Contents(rest'[n]) \subseteq Contents(rest[n])
         /\ \A h \in Gens : <<"chan", h>> \notin {t} => Contents(mainChan'[h]) \subseteq Contents(mainChan[h])
         /\ \A h \in Gens : hand'[h].job = hand[h].job
    BY <1>4, <1>5, <1>6
  <1>13. \A p \in Holders : p \notin {t} => Held(p)' \subseteq Held(p)
    BY <1>11, <1>12, OthersGetNothing
  <1>14. HoldersApart'
    BY <1>7, <1>10, <1>13, MovedJobHasOneHolder DEF PlaceInv
  <1>15. HeldOnce'
    BY <1>4, <1>5, <1>9, <1>11 DEF PlaceInv, HeldOnce
  <1> QED BY <1>14, <1>15 DEF PlaceInv

\* A rejected job leaves its message for nowhere.
LEMMA RejectOnePlaceInv ==
    ASSUME TypeInv, PlaceInv, NEW m \in Messages, RejectOne(m)
    PROVE  PlaceInv'
  <1>1. rest[m] \in Seq(Jobs) /\ rest[m] # <<>>
    BY DEF RejectOne, TypeInv, TypeOK
  <1>2. /\ rest'[m] = Tail(rest[m]) /\ \A n \in Messages : n # m => rest'[n] = rest[n]
        /\ UNCHANGED <<mainChan, hand, writeCh, received>>
    BY DEF RejectOne, TypeInv, TypeOK, dispatchVars, deliveryVars
  <1>3. Contents(rest'[m]) \subseteq Contents(rest[m]) /\ Distinct(rest'[m])
    BY <1>1, <1>2, TakeFromQueue DEF PlaceInv, HeldOnce
  <1>4. \A c \in Consumers : JobsOut(c)' = JobsOut(c)
    BY <1>2 DEF JobsOut, Deliveries
  <1>5. \A n \in Messages : Contents(rest'[n]) \subseteq Contents(rest[n])
    BY <1>2, <1>3
  <1>6. HoldersApart'
    BY <1>2, <1>4, <1>5, FewerHolders DEF PlaceInv
  <1>7. HeldOnce'
    BY <1>2, <1>3, <1>4 DEF PlaceInv, HeldOnce
  <1> QED BY <1>6, <1>7 DEF PlaceInv

\* dispatchLoop takes a job out of its channel, into its hands or, if it cannot be
\* marshalled, for nowhere.
LEMMA TakeJobPlaceInv ==
    ASSUME TypeInv, PlaceInv, NEW g \in Gens, TakeJob(g)
    PROVE  PlaceInv'
  <1>1. PICK j : j = Head(mainChan[g])
    OBVIOUS
  <1>2. mainChan[g] \in Seq(Jobs) /\ mainChan[g] # <<>>
    BY DEF TakeJob, TypeInv, TypeOK
  <1>3. /\ mainChan' = [mainChan EXCEPT ![g] = Tail(mainChan[g])]
        /\ UNCHANGED <<rest, writeCh, received>>
    BY DEF TakeJob, Dequeued, deliveryVars, enqueueVars
  <1>4. CASE j \in BadJobs
    <2>1. UNCHANGED hand
      BY <1>1, <1>4 DEF TakeJob
    <2> QED BY <1>2, <1>3, <2>1, LeftChan
  <1>5. CASE j \notin BadJobs
    <2>1. hand'[g].job = j /\ \A h \in Gens : h # g => hand'[h] = hand[h]
      BY <1>1, <1>5 DEF TakeJob, TypeInv, TypeOK
    <2>2. mainChan'[g] = Tail(mainChan[g]) /\ \A h \in Gens : h # g => mainChan'[h] = mainChan[h]
      BY <1>3 DEF TypeInv, TypeOK
    <2>3. /\ j \in Jobs /\ Contents(mainChan[g]) = Contents(mainChan'[g]) \union {j}
          /\ Distinct(mainChan'[g]) /\ j \notin Contents(mainChan'[g])
      BY <1>1, <1>2, <2>2, TakeFromQueue DEF PlaceInv, HeldOnce
    <2>4. PICK f \in Holders, t \in Holders : f = <<"chan", g>> /\ t = <<"hand", g>>
      BY HeldBy
    <2>5. j \in Held(f) /\ j \notin Held(f)' /\ Held(t)' \subseteq Held(t) \union {j}
      BY <2>1, <2>3, <2>4, HeldBy
    <2>6. \A c \in Consumers : JobsOut(c)' = JobsOut(c)
      BY <1>3 DEF JobsOut, Deliveries
    <2>7. /\ \A h \in Gens : Contents(mainChan'[h]) \subseteq Contents(mainChan[h])
          /\ \A h \in Gens : <<"hand", h>> \notin {t} => hand'[h].job = hand[h].job
      BY <2>1, <2>2, <2>3, <2>4
    <2>8. \A p \in Holders : p \notin {t} => Held(p)' \subseteq Held(p)
      BY <1>3, <2>6, <2>7, OthersGetNothing
    <2>9. HoldersApart'
      BY <2>5, <2>8, MovedJobHasOneHolder DEF PlaceInv
    <2>10. HeldOnce'
      BY <1>3, <2>2, <2>3, <2>6 DEF PlaceInv, HeldOnce
    <2> QED BY <2>9, <2>10 DEF PlaceInv
  <1> QED BY <1>4, <1>5

\* The jobs of the deliveries when one is appended.
LEMMA JobsOfAppended ==
    ASSUME NEW s \in Seq(Delivery), NEW e \in Delivery
    PROVE  /\ [i \in DOMAIN s |-> s[i].job] \in Seq(Jobs)
           /\ [i \in DOMAIN Append(s, e) |-> Append(s, e)[i].job]
                 = Append([i \in DOMAIN s |-> s[i].job], e.job)
  <1> DEFINE n == Len(s)
             u == [i \in 1..n |-> s[i].job]
             v == [i \in 1..(n + 1) |-> Append(s, e)[i].job]
  <1>1. n \in Nat /\ DOMAIN s = 1..n /\ \A i \in 1..n : s[i] \in Delivery
    BY LenProperties, ElementOfSeq
  <1>2. /\ DOMAIN Append(s, e) = 1..(n + 1) /\ Append(s, e)[n + 1] = e
        /\ \A i \in 1..n : Append(s, e)[i] = s[i]
    BY AppendProperties, LenProperties
  <1>3. e.job \in Jobs /\ \A i \in 1..n : s[i].job \in Jobs
    BY <1>1 DEF Delivery
  <1>4. u \in Seq(Jobs) /\ Len(u) = n /\ \A i \in 1..n : u[i] = s[i].job
    BY <1>1, <1>3
  <1>5. \A i \in 1..(n + 1) : Append(s, e)[i].job = IF i <= n THEN s[i].job ELSE e.job
    BY <1>1, <1>2
  <1>6. v \in Seq(Jobs) /\ Len(v) = n + 1
    BY <1>1, <1>3, <1>5
  <1>7. \A i \in 1..(n + 1) : v[i] = IF i <= n THEN s[i].job ELSE e.job
    BY <1>5
  <1> HIDE DEF n, u, v
  <1>8. /\ Append(u, e.job) \in Seq(Jobs) /\ Len(Append(u, e.job)) = n + 1
        /\ \A i \in 1..n : Append(u, e.job)[i] = u[i]
        /\ Append(u, e.job)[n + 1] = e.job
    BY <1>3, <1>4, AppendProperties
  <1>9. \A i \in 1..(n + 1) : v[i] = Append(u, e.job)[i]
    BY <1>1, <1>4, <1>7, <1>8
  <1>10. v = Append(u, e.job)
    BY <1>6, <1>8, <1>9, SeqEqual
  <1> QED BY <1>1, <1>2, <1>4, <1>10 DEF n, u, v

\* The write to writeCh moves a job from the hands of dispatchLoop to its consumer.
LEMMA WriteJobPlaceInv ==
    ASSUME TypeInv, PlaceInv, NEW g \in Gens, WriteJob(g)
    PROVE  PlaceInv'
  <1>1. PICK c \in Consumers, e \in Delivery :
            /\ c = target[g] /\ e = hand[g]
            /\ Deliveries(c)' = Append(Deliveries(c), e)
            /\ writeCh'[c] = Append(writeCh[c], e)
            /\ \A d \in Consumers : d # c => Deliveries(d)' = Deliveries(d) /\ writeCh'[d] = writeCh[d]
    BY WriteJobAppends
  <1>2. PICK j \in Jobs : j = e.job
    BY DEF Delivery
  <1>3. /\ hand'[g] = NoDelivery /\ \A h \in Gens : h # g => hand'[h] = hand[h]
        /\ UNCHANGED <<rest, mainChan>>
    BY DEF WriteJob, TypeInv, TypeOK, enqueueVars
  <1>4. JobsOut(c) \in Seq(Jobs) /\ JobsOut(c)' = Append(JobsOut(c), j)
    <2>1. PICK s \in Seq(Delivery) : s = Deliveries(c)
      BY DeliveryTypes
    <2>2. /\ [i \in DOMAIN s |-> s[i].job] \in Seq(Jobs)
          /\ [i \in DOMAIN Append(s, e) |-> Append(s, e)[i].job]
                = Append([i \in DOMAIN s |-> s[i].job], e.job)
      BY JobsOfAppended
    <2>3. JobsOut(c) = [i \in DOMAIN s |-> s[i].job]
      BY <2>1 DEF JobsOut
    <2>4. JobsOut(c)' = [i \in DOMAIN Append(s, e) |-> Append(s, e)[i].job]
      BY <1>1, <2>1 DEF JobsOut
    <2> QED BY <1>2, <2>2, <2>3, <2>4
  <1>5. \A d \in Consumers : d # c => JobsOut(d)' = JobsOut(d)
    BY <1>1 DEF JobsOut
  <1>6. NoDelivery.job \notin Jobs
    BY RouterAssumption DEF NoDelivery
  <1>7. PICK f \in Holders, t \in Holders : f = <<"hand", g>> /\ t = <<"out", c>>
    BY HeldBy
  <1>8. f # t /\ j \in Held(f) /\ j \notin Held(f)'
    BY <1>1, <1>2, <1>3, <1>6, <1>7, HeldBy
  <1>9. j \notin Contents(JobsOut(c))
    BY <1>7, <1>8, HeldBy DEF PlaceInv, HoldersApart
  <1>10. Contents(JobsOut(c)') = Contents(JobsOut(c)) \union {j} /\ Distinct(JobsOut(c)')
    BY <1>4, <1>9, AppendToQueue DEF PlaceInv, HeldOnce
  <1>11. Held(t)' \subseteq Held(t) \union {j}
    BY <1>7, <1>10, HeldBy
  <1>12. /\ \A h \in Gens : hand'[h].job = hand[h].job \/ hand'[h].job \notin Jobs
         /\ \A d \in Consumers : <<"out", d>> \notin {t} => JobsOut(d)' = JobsOut(d)
    BY <1>3, <1>5, <1>6, <1>7
  <1>13. \A p \in Holders : p \notin {t} => Held(p)' \subseteq Held(p)
    BY <1>3, <1>12, OthersGetNothing
  <1>14. HoldersApart'
    BY <1>8, <1>11, <1>13, MovedJobHasOneHolder DEF PlaceInv
  <1>15. HeldOnce'
    BY <1>3, <1>5, <1>10 DEF PlaceInv, HeldOnce
  <1> QED BY <1>14, <1>15 DEF PlaceInv

\* A step that moves no job: at most one is dropped from the hands of dispatchLoop.
LEMMA JobsStay ==
    ASSUME PlaceInv, UNCHANGED <<rest, mainChan>>,
           \A c \in Consumers : Deliveries(c)' = Deliveries(c),
           \A g \in Gens : hand'[g] = hand[g] \/ hand'[g].job \notin Jobs
    PROVE  PlaceInv'
  <1>1. \A c \in Consumers : JobsOut(c)' = JobsOut(c)
    BY DEF JobsOut
  <1>2. HoldersApart'
    BY <1>1, FewerHolders DEF PlaceInv
  <1>3. HeldOnce'
    BY <1>1 DEF PlaceInv, HeldOnce
  <1> QED BY <1>2, <1>3 DEF PlaceInv

\* Every step keeps the places of the jobs apart.
LEMMA NextPlaceInv == TypeInv /\ PlaceInv /\ [Next]_vars => PlaceInv'
  <1> SUFFICES ASSUME TypeInv, PlaceInv, [Next]_vars PROVE PlaceInv'
    OBVIOUS
  <1> USE DEF topicVars, dispatchVars, slotVars, deliveryVars, enqueueVars
  <1>1. ASSUME NEW c \in Consumers, WriteLoop(c) PROVE PlaceInv'
    <2>1. UNCHANGED <<rest, mainChan, hand>>
      BY <1>1 DEF WriteLoop
    <2> QED BY <1>1, <2>1, WriteLoopKeepsDeliveries, JobsStay
  <1>2. ASSUME NEW c \in Consumers, DrainReceive(c) PROVE PlaceInv'
    <2>1. PICK g \in Gens : g = topicGen
      BY <1>2 DEF DrainReceive, TypeInv, LockState
    <2> QED BY <1>2, <2>1, LeftChan DEF DrainReceive
  <1>3. ASSUME NEW g \in Gens, DispatchLoop(g) PROVE PlaceInv'
    <2>1. CASE DropExpired(g)
      BY <2>1, LeftChan DEF DropExpired, Dequeued
    <2>2. CASE DropJob(g)
      <3>1. \A h \in Gens : hand'[h] = hand[h] \/ hand'[h].job \notin Jobs
        BY <2>2, RouterAssumption DEF DropJob, NoDelivery, TypeInv, TypeOK
      <3> QED BY <2>2, <3>1, JobsStay DEF DropJob, Deliveries
    <2>3. CASE LoopTop(g) \/ PickConsumer(g) \/ StopWaiting(g) \/ BatchCheck(g) \/ NoMoreJobs(g)
      <3>1. UNCHANGED <<rest, mainChan, hand, writeCh, received>>
        BY <2>3 DEF LoopTop, PickConsumer, StopWaiting, BatchCheck, NoMoreJobs
      <3> QED BY <3>1, JobsStay DEF Deliveries
    <2> QED BY <1>3, <2>1, <2>2, <2>3, TakeJobPlaceInv, WriteJobPlaceInv DEF DispatchLoop
  <1>4. CASE \/ \E c \in Consumers : \/ AddConsumer(c) \/ Ack(c) \/ Disconnect(c)
                                     \/ RemoveConsumer(c) \/ DrainCheck(c)
             \/ \E m \in Messages : EnqueueRead(m) \/ MarkSaturated(m) \/ EnqueueReturns(m)
             \/ BuildHeartbeatReport \/ UNCHANGED vars
    <2>1. UNCHANGED <<rest, mainChan, hand, writeCh, received>>
      BY <1>4 DEF AddConsumer, Ack, Disconnect, RemoveConsumer, DrainCheck, EnqueueRead,
                  MarkSaturated, EnqueueReturns, BuildHeartbeatReport, vars
    <2> QED BY <2>1, JobsStay DEF Deliveries
  <1> QED BY <1>1, <1>2, <1>3, <1>4, EnqueueOnePlaceInv, RejectOnePlaceInv
          DEF Next, WebSocketHandler, EnqueueJobs

\* The places of the jobs are apart throughout.
LEMMA PlaceInvHolds ==
    ASSUME JobsSentOnce
    PROVE  Spec => []PlaceInv
  <1>1. Init => PlaceInv
    BY InitPlaceInv
  <1> QED BY <1>1, NextPlaceInv, TypeInvHolds, PTL DEF Spec

\* JobInOnePlace: no interleaving of EnqueueJobs calls, dispatchers, write loops and
\* drainAndStopTopic copies a job. Of a workload without duplicates no job goes to two
\* consumers, or twice to one, even while two dispatchers run.
THEOREM JobGoesToOneConsumer ==
    ASSUME JobsSentOnce
    PROVE  Spec => []JobInOnePlace
  <1>1. ASSUME TypeInv, PlaceInv PROVE JobInOnePlace
    <2> SUFFICES ASSUME NEW j \in Jobs
                 PROVE  Cardinality({g \in Gens : hand[g].job = j})
                        + Cardinality(QueuedAt(j)) + Cardinality(DeliveredAt(j)) <= 1
      BY DEF JobInOnePlace
    <2> DEFINE H == {g \in Gens : hand[g].job = j}
    <2>1. \A g \in H : j \in Held(<<"hand", g>>)
      BY HeldBy
    <2>2. \A x \in QueuedAt(j) : \E g \in Gens : \E i \in DOMAIN mainChan[g] :
             x = <<g, i>> /\ mainChan[g][i] = j /\ j \in Held(<<"chan", g>>)
      BY HeldBy DEF QueuedAt, Contents
    <2>3. \A x \in DeliveredAt(j) : \E c \in Consumers : \E i \in DOMAIN JobsOut(c) :
             x = <<c, i>> /\ JobsOut(c)[i] = j /\ j \in Held(<<"out", c>>)
      <3> SUFFICES ASSUME NEW x \in DeliveredAt(j)
                   PROVE  \E c \in Consumers : \E i \in DOMAIN JobsOut(c) :
                             x = <<c, i>> /\ JobsOut(c)[i] = j /\ j \in Held(<<"out", c>>)
        OBVIOUS
      <3>1. PICK c \in Consumers : \E i \in DOMAIN Deliveries(c) :
                 x = <<c, i>> /\ Deliveries(c)[i].job = j
        BY DEF DeliveredAt
      <3>2. \E i \in DOMAIN JobsOut(c) : x = <<c, i>> /\ JobsOut(c)[i] = j
        BY <3>1 DEF JobsOut
      <3>3. j \in Held(<<"out", c>>)
        BY <3>2, HeldBy DEF Contents
      <3> QED BY <3>2, <3>3
    <2>4. /\ \A g, h \in H : g = h
          /\ \A x, y \in QueuedAt(j) : x = y
          /\ \A x, y \in DeliveredAt(j) : x = y
      <3>1. \A g, h \in H : g = h
        BY <1>1, <2>1, HeldBy DEF PlaceInv, HoldersApart
      <3>2. ASSUME NEW x \in QueuedAt(j), NEW y \in QueuedAt(j) PROVE x = y
        <4>1. PICK g \in Gens : /\ j \in Held(<<"chan", g>>)
                               /\ \E i \in DOMAIN mainChan[g] : x = <<g, i>> /\ mainChan[g][i] = j
          BY <2>2
        <4>2. PICK h \in Gens : /\ j \in Held(<<"chan", h>>)
                               /\ \E i \in DOMAIN mainChan[h] : y = <<h, i>> /\ mainChan[h][i] = j
          BY <2>2
        <4>3. g = h
          BY <1>1, <4>1, <4>2, HeldBy DEF PlaceInv, HoldersApart
        <4>4. Distinct(mainChan[g])
          BY <1>1 DEF PlaceInv, HeldOnce
        <4> QED BY <4>1, <4>2, <4>3, <4>4 DEF Distinct
      <3>3. ASSUME NEW x \in DeliveredAt(j), NEW y \in DeliveredAt(j) PROVE x = y
        <4>1. PICK c \in Consumers : /\ j \in Held(<<"out", c>>)
                                    /\ \E i \in DOMAIN JobsOut(c) : x = <<c, i>> /\ JobsOut(c)[i] = j
          BY <2>3
        <4>2. PICK d \in Consumers : /\ j \in Held(<<"out", d>>)
                                    /\ \E i \in DOMAIN JobsOut(d) : y = <<d, i>> /\ JobsOut(d)[i] = j
          BY <2>3
        <4>3. c = d
          BY <1>1, <4>1, <4>2, HeldBy DEF PlaceInv, HoldersApart
        <4>4. Distinct(JobsOut(c))
          BY <1>1 DEF PlaceInv, HeldOnce
        <4> QED BY <4>1, <4>2, <4>3, <4>4 DEF Distinct
      <3> QED BY <3>1, <3>2, <3>3
    <2>5. /\ H # {} => QueuedAt(j) = {} /\ DeliveredAt(j) = {}
          /\ QueuedAt(j) # {} => DeliveredAt(j) = {}
      <3>1. /\ \A g, h \in Gens : ~(j \in Held(<<"hand", g>>) /\ j \in Held(<<"chan", h>>))
            /\ \A g \in Gens, c \in Consumers :
                  /\ ~(j \in Held(<<"hand", g>>) /\ j \in Held(<<"out", c>>))
                  /\ ~(j \in Held(<<"chan", g>>) /\ j \in Held(<<"out", c>>))
        BY <1>1, HeldBy DEF PlaceInv, HoldersApart
      <3> HIDE DEF H
      <3>2. H # {} => \E g \in Gens : j \in Held(<<"hand", g>>)
        BY <2>1 DEF H
      <3>3. QueuedAt(j) # {} => \E h \in Gens : j \in Held(<<"chan", h>>)
        BY <2>2
      <3>4. DeliveredAt(j) # {} => \E c \in Consumers : j \in Held(<<"out", c>>)
        BY <2>3
      <3> QED BY <3>1, <3>2, <3>3, <3>4
    <2> HIDE DEF H
    <2>6. /\ Cardinality(H) \in {0, 1} /\ (H = {} <=> Cardinality(H) = 0)
          /\ Cardinality(QueuedAt(j)) \in {0, 1} /\ (QueuedAt(j) = {} <=> Cardinality(QueuedAt(j)) = 0)
          /\ Cardinality(DeliveredAt(j)) \in {0, 1}
          /\ (DeliveredAt(j) = {} <=> Cardinality(DeliveredAt(j)) = 0)
      BY <2>4, AtMostOne
    <2>7. Cardinality(H) + Cardinality(QueuedAt(j)) + Cardinality(DeliveredAt(j)) <= 1
      BY <2>5, <2>6
    <2> QED BY <2>7 DEF H
  <1> QED BY <1>1, TypeInvHolds, PlaceInvHolds, PTL

-----------------------------------------------------------------------------
(* Slots that come back                                                    *)

\* StillQueued by the queues it is made of, before and after a step.
LEMMA QueuedIn ==
    \A j : /\ j \in StillQueued <=>
                 j \in Jobs /\ (\/ \E m \in Messages : j \in Contents(rest[m])
                               \/ \E g \in Gens : j \in Contents(mainChan[g]))
           /\ j \in StillQueued' <=>
                 j \in Jobs /\ (\/ \E m \in Messages : j \in Contents(rest'[m])
                               \/ \E g \in Gens : j \in Contents(mainChan'[g]))
  BY DEF StillQueued, Contents

\* A channel from which the first job is taken.
LEMMA ChanShrinks ==
    ASSUME TypeInv, NEW g \in Gens, mainChan[g] # <<>>,
           mainChan' = [mainChan EXCEPT ![g] = Tail(mainChan[g])], UNCHANGED rest
    PROVE  StillQueued' \subseteq StillQueued
  <1>1. mainChan[g] \in Seq(Jobs)
    BY DEF TypeInv, TypeOK
  <1>2. mainChan'[g] = Tail(mainChan[g]) /\ \A h \in Gens : h # g => mainChan'[h] = mainChan[h]
    BY DEF TypeInv, TypeOK
  <1>3. Contents(mainChan'[g]) \subseteq Contents(mainChan[g])
    BY <1>1, <1>2, TakeFromQueue
  <1> QED BY <1>2, <1>3, QueuedIn

\* A job that has left the queues does not come back to them.
LEMMA NothingIsQueuedAgain == TypeInv /\ [Next]_vars => StillQueued' \subseteq StillQueued
  <1> SUFFICES ASSUME TypeInv, [Next]_vars PROVE StillQueued' \subseteq StillQueued
    OBVIOUS
  <1> USE DEF topicVars, dispatchVars, slotVars, deliveryVars, enqueueVars
  <1>1. ASSUME UNCHANGED <<rest, mainChan>> PROVE StillQueued' \subseteq StillQueued
    BY <1>1 DEF StillQueued
  <1>2. ASSUME NEW m \in Messages, EnqueueOne(m) \/ RejectOne(m)
        PROVE  StillQueued' \subseteq StillQueued
    <2>1. PICK j : j = Head(rest[m])
      OBVIOUS
    <2>2. PICK g \in Gens : g = stream[m]
      BY <1>2 DEF EnqueueOne, RejectOne, Enqueueing, TypeInv, TypeOK
    <2>3. rest[m] \in Seq(Jobs) /\ rest[m] # <<>> /\ mainChan[g] \in Seq(Jobs)
      BY <1>2 DEF EnqueueOne, RejectOne, TypeInv, TypeOK
    <2>4. /\ rest'[m] = Tail(rest[m]) /\ \A n \in Messages : n # m => rest'[n] = rest[n]
          /\ mainChan'[g] = mainChan[g] \/ mainChan'[g] = Append(mainChan[g], j)
          /\ \A h \in Gens : h # g => mainChan'[h] = mainChan[h]
      BY <1>2, <2>1, <2>2 DEF EnqueueOne, RejectOne, TypeInv, TypeOK
    <2>5. j \in Jobs /\ Contents(rest[m]) = Contents(rest'[m]) \union {j}
      BY <2>1, <2>3, <2>4, TakeFromQueue
    <2>6. Contents(mainChan'[g]) \subseteq Contents(mainChan[g]) \union {j}
      <3>1. Contents(Append(mainChan[g], j)) = Contents(mainChan[g]) \union {j}
        BY <2>3, <2>5, AppendToQueue
      <3> QED BY <2>4, <3>1
    <2> QED BY <2>4, <2>5, <2>6, QueuedIn
  <1>3. ASSUME NEW c \in Consumers, DrainReceive(c) PROVE StillQueued' \subseteq StillQueued
    <2>1. PICK g \in Gens : g = topicGen
      BY <1>3 DEF DrainReceive, TypeInv, LockState
    <2> QED BY <1>3, <2>1, ChanShrinks DEF DrainReceive
  <1>4. ASSUME NEW g \in Gens, DispatchLoop(g) PROVE StillQueued' \subseteq StillQueued
    <2>1. CASE DropExpired(g) \/ TakeJob(g)
      BY <2>1, ChanShrinks DEF DropExpired, TakeJob, Dequeued
    <2>2. CASE \/ LoopTop(g) \/ PickConsumer(g) \/ StopWaiting(g) \/ BatchCheck(g)
               \/ NoMoreJobs(g) \/ WriteJob(g) \/ DropJob(g)
      BY <1>1, <2>2 DEF LoopTop, PickConsumer, StopWaiting, BatchCheck, NoMoreJobs, WriteJob, DropJob
    <2> QED BY <1>4, <2>1, <2>2 DEF DispatchLoop
  <1>5. CASE \/ \E c \in Consumers : \/ AddConsumer(c) \/ Ack(c) \/ Disconnect(c) \/ WriteLoop(c)
                                     \/ RemoveConsumer(c) \/ DrainCheck(c)
             \/ \E m \in Messages : EnqueueRead(m) \/ MarkSaturated(m) \/ EnqueueReturns(m)
             \/ BuildHeartbeatReport \/ UNCHANGED vars
    BY <1>1, <1>5 DEF AddConsumer, Ack, Disconnect, WriteLoop, RemoveConsumer, DrainCheck,
                  EnqueueRead, MarkSaturated, EnqueueReturns, BuildHeartbeatReport, vars
  <1> QED BY <1>2, <1>3, <1>4, <1>5 DEF Next, WebSocketHandler, EnqueueJobs

\* The job that dispatchLoop takes was the only one of its kind.
LEMMA TakenIsQueuedNowhere ==
    ASSUME TypeInv, PlaceInv, NEW g \in Gens, TakeJob(g), NEW j, j = Head(mainChan[g])
    PROVE  j \notin StillQueued'
  <1>1. mainChan[g] \in Seq(Jobs) /\ mainChan[g] # <<>>
    BY DEF TakeJob, TypeInv, TypeOK
  <1>2. /\ mainChan'[g] = Tail(mainChan[g]) /\ UNCHANGED rest
        /\ \A h \in Gens : h # g => mainChan'[h] = mainChan[h]
    BY DEF TakeJob, Dequeued, enqueueVars, TypeInv, TypeOK
  <1>3. j \in Contents(mainChan[g]) /\ j \notin Contents(mainChan'[g])
    BY <1>1, <1>2, TakeFromQueue DEF PlaceInv, HeldOnce
  <1> DEFINE p == <<"chan", g>>
  <1>4. p \in Holders /\ j \in Held(p)
    BY <1>3, HeldBy
  <1>5. ASSUME NEW h \in Gens, h # g PROVE j \notin Contents(mainChan[h])
    <2> DEFINE q == <<"chan", h>>
    <2>1. q \in Holders /\ Held(q) = Contents(mainChan[h]) /\ p # q
      BY <1>5, HeldBy
    <2> QED BY <1>4, <2>1 DEF PlaceInv, HoldersApart
  <1>6. ASSUME NEW m \in Messages PROVE j \notin Contents(rest[m])
    <2> DEFINE q == <<"rest", m>>
    <2>1. q \in Holders /\ Held(q) = Contents(rest[m]) /\ p # q
      BY HeldBy
    <2> QED BY <1>4, <2>1 DEF PlaceInv, HoldersApart
  <1> QED BY <1>2, <1>3, <1>5, <1>6, QueuedIn

\* A step that sends, acknowledges and drops nothing.
LEMMA SlotStays ==
    ASSUME SlotComesBack, StillQueued' \subseteq StillQueued, overlapped => overlapped',
           UNCHANGED <<lastSentID, lastAckID>>,
           \A c \in Consumers : Deliveries(c)' = Deliveries(c),
           ~overlapped' => \A g \in Gens : pc[g] = "write" => pc'[g] = "write" /\ target'[g] = target[g]
    PROVE  SlotComesBack'
  <1> SUFFICES ASSUME ~overlapped', BadJobs \subseteq StillQueued', NEW c \in Consumers,
                      lastSentID[c] - lastAckID[c] >= MaxInflights
               PROVE  \/ \E i \in DOMAIN Deliveries(c)' : Deliveries(c)'[i].seq > lastAckID'[c]
                      \/ \E g \in Gens : pc'[g] = "write" /\ target'[g] = c
    BY DEF SlotComesBack
  <1>1. \/ \E i \in DOMAIN Deliveries(c) : Deliveries(c)[i].seq > lastAckID[c]
        \/ \E g \in Gens : pc[g] = "write" /\ target[g] = c
    BY DEF SlotComesBack
  <1> QED BY <1>1

\* An ack frees a slot of a consumer that is within its bound.
LEMMA AckSlot ==
    ASSUME TypeInv, InflightBound, SlotComesBack, StillQueued' \subseteq StillQueued,
           NEW c \in Consumers, Ack(c)
    PROVE  SlotComesBack'
  <1>1. UNCHANGED <<overlapped, pc, target, lastSentID, writeCh, received>>
    BY DEF Ack, topicVars, dispatchVars, deliveryVars
  <1>2. \A d : Deliveries(d)' = Deliveries(d)
    BY <1>1 DEF Deliveries
  <1>3. CASE UNCHANGED lastAckID
    BY <1>1, <1>2, <1>3, SlotStays
  <1>4. CASE lastAckID' # lastAckID
    <2>1. PICK n \in Nat : lastAckID' = [lastAckID EXCEPT ![c] = n] /\ n > lastAckID[c]
      BY <1>4, AckRaises
    <2>2. lastAckID'[c] = n /\ \A d \in Consumers : d # c => lastAckID'[d] = lastAckID[d]
      BY <2>1 DEF TypeInv, TypeOK
    <2> SUFFICES ASSUME ~overlapped', BadJobs \subseteq StillQueued', NEW d \in Consumers,
                        lastSentID'[d] - lastAckID'[d] >= MaxInflights
                 PROVE  \/ \E i \in DOMAIN Deliveries(d)' : Deliveries(d)'[i].seq > lastAckID'[d]
                        \/ \E g \in Gens : pc'[g] = "write" /\ target'[g] = d
      BY DEF SlotComesBack
    <2>3. d # c
      <3>1. lastSentID[c] - lastAckID[c] <= MaxInflights
        BY <1>1 DEF InflightBound
      <3>2. lastSentID[c] \in Nat /\ lastAckID[c] \in Nat /\ MaxInflights \in Nat
        BY RouterAssumption, DeliveryTypes
      <3>3. lastSentID[c] - n < MaxInflights
        BY <2>1, <3>1, <3>2
      <3> QED BY <1>1, <2>2, <3>2, <3>3
    <2>4. \/ \E i \in DOMAIN Deliveries(d) : Deliveries(d)[i].seq > lastAckID[d]
          \/ \E g \in Gens : pc[g] = "write" /\ target[g] = d
      BY <1>1, <2>2, <2>3 DEF SlotComesBack
    <2> QED BY <1>1, <1>2, <2>2, <2>3, <2>4
  <1> QED BY <1>3, <1>4

\* A slot is taken for a delivery, or for a job that cannot be marshalled.
LEMMA TakeJobSlot ==
    ASSUME TypeInv, PlaceInv, SlotComesBack, StillQueued' \subseteq StillQueued,
           NEW g \in Gens, TakeJob(g)
    PROVE  SlotComesBack'
  <1> SUFFICES ASSUME ~overlapped', BadJobs \subseteq StillQueued', NEW d \in Consumers,
                      lastSentID'[d] - lastAckID'[d] >= MaxInflights
               PROVE  \/ \E i \in DOMAIN Deliveries(d)' : Deliveries(d)'[i].seq > lastAckID'[d]
                      \/ \E h \in Gens : pc'[h] = "write" /\ target'[h] = d
    BY DEF SlotComesBack
  <1>1. PICK j : j = Head(mainChan[g])
    OBVIOUS
  <1>2. j \notin BadJobs
    BY <1>1, TakenIsQueuedNowhere
  <1>3. /\ pc'[g] = "write" /\ pc[g] = "take"
        /\ \A h \in Gens : h # g => pc'[h] = pc[h]
        /\ UNCHANGED <<overlapped, target, lastAckID, writeCh, received>>
    BY <1>1, <1>2 DEF TakeJob, TypeInv, TypeOK, topicVars, deliveryVars
  <1>4. CASE d = target[g]
    BY <1>3, <1>4
  <1>5. CASE d # target[g]
    <2>1. lastSentID'[d] = lastSentID[d]
      BY <1>5 DEF TakeJob, TypeInv, TypeOK
    <2>2. \/ \E i \in DOMAIN Deliveries(d) : Deliveries(d)[i].seq > lastAckID[d]
          \/ \E h \in Gens : pc[h] = "write" /\ target[h] = d
      BY <1>3, <2>1 DEF SlotComesBack
    <2>3. Deliveries(d)' = Deliveries(d)
      BY <1>3 DEF Deliveries
    <2> QED BY <1>3, <2>2, <2>3
  <1> QED BY <1>4, <1>5

\* The delivery that is written is one to acknowledge; one that is dropped leaves a
\* full writeCh behind, whose deliveries are.
LEMMA WriteOrDropSlot ==
    ASSUME TypeInv, SeqInv, SlotComesBack, StillQueued' \subseteq StillQueued,
           NEW g \in Gens, WriteJob(g) \/ DropJob(g)
    PROVE  SlotComesBack'
  <1> SUFFICES ASSUME ~overlapped', BadJobs \subseteq StillQueued', NEW d \in Consumers,
                      lastSentID'[d] - lastAckID'[d] >= MaxInflights
               PROVE  \/ \E i \in DOMAIN Deliveries(d)' : Deliveries(d)'[i].seq > lastAckID'[d]
                      \/ \E h \in Gens : pc'[h] = "write" /\ target'[h] = d
    BY DEF SlotComesBack
  <1>1. /\ pc[g] = "write" /\ \A h \in Gens : h # g => pc'[h] = pc[h]
        /\ UNCHANGED <<overlapped, target, lastSentID, lastAckID, received>>
    BY DEF WriteJob, DropJob, TypeInv, TypeOK, topicVars, slotVars, deliveryVars
  <1>2. PICK c \in Consumers : c = target[g]
    BY <1>1 DEF TypeInv, LoopState
  <1>3. lastAckID[c] < hand[g].seq
    BY <1>1, <1>2 DEF SeqInv, AckIsBehind
  <1>4. CASE d # c
    <2>1. Deliveries(d)' = Deliveries(d)
      <3>1. writeCh'[d] = writeCh[d]
        BY <1>2, <1>4 DEF WriteJob, DropJob, TypeInv, TypeOK, deliveryVars
      <3> QED BY <1>1, <3>1 DEF Deliveries
    <2>2. \/ \E i \in DOMAIN Deliveries(d) : Deliveries(d)[i].seq > lastAckID[d]
          \/ \E h \in Gens : pc[h] = "write" /\ target[h] = d
      BY <1>1 DEF SlotComesBack
    <2> QED BY <1>1, <1>2, <1>4, <2>1, <2>2
  <1>5. CASE d = c /\ WriteJob(g)
    <2>1. PICK e \in Delivery : e = hand[g] /\ Deliveries(c)' = Append(Deliveries(c), e)
      BY <1>2, <1>5, WriteJobAppends
    <2>2. PICK s \in Seq(Delivery) : s = Deliveries(c)
      BY DeliveryTypes
    <2>3. Len(s) + 1 \in DOMAIN Append(s, e) /\ Append(s, e)[Len(s) + 1] = e
      BY AppendProperties, LenProperties
    <2>4. e.seq \in Nat /\ lastAckID[c] \in Nat
      BY DeliveryTypes DEF Delivery
    <2> QED BY <1>1, <1>3, <1>5, <2>1, <2>2, <2>3, <2>4
  <1>6. CASE d = c /\ DropJob(g)
    <2>1. Len(writeCh[c]) >= WriteCap /\ UNCHANGED writeCh
      BY <1>2, <1>6 DEF DropJob, deliveryVars
    <2>2. 1 \in DOMAIN writeCh[c]
      <3>1. Len(writeCh[c]) \in Nat /\ DOMAIN writeCh[c] = 1..Len(writeCh[c])
        BY DeliveryTypes, LenProperties
      <3> QED BY <2>1, <3>1, RouterAssumption
    <2>3. PICK i \in DOMAIN Deliveries(c) : Deliveries(c)[i] = writeCh[c][1]
      BY <2>2, ReceivedComeFirst
    <2>4. lastAckID[c] < writeCh[c][1].seq
      BY <1>1, <2>2 DEF SeqInv, AckIsBehind
    <2>5. Deliveries(c)' = Deliveries(c)
      BY <1>1, <2>1 DEF Deliveries
    <2>6. lastAckID[c] \in Nat /\ Deliveries(c)[i].seq \in Nat
      BY DeliveryTypes
    <2> QED BY <1>1, <1>6, <2>3, <2>4, <2>5, <2>6
  <1> QED BY <1>4, <1>5, <1>6

\* Every step leaves a consumer without free slots something to acknowledge.
LEMMA NextSlotComesBack ==
    TypeInv /\ InflightBound /\ SeqInv /\ PlaceInv /\ SlotComesBack /\ [Next]_vars => SlotComesBack'
  <1> SUFFICES ASSUME TypeInv, InflightBound, SeqInv, PlaceInv, SlotComesBack, [Next]_vars
               PROVE  SlotComesBack'
    OBVIOUS
  <1> USE DEF topicVars, dispatchVars, slotVars, deliveryVars, enqueueVars
  <1>0. StillQueued' \subseteq StillQueued
    BY NothingIsQueuedAgain
  <1>1. ASSUME NEW c \in Consumers, AddConsumer(c) PROVE SlotComesBack'
    <2>1. overlapped => overlapped'
      BY <1>1 DEF AddConsumer
    <2>2. ~overlapped' => \A g \in Gens : pc[g] = "write" => pc'[g] = "write"
      BY <1>1 DEF AddConsumer, Running, TypeInv, TypeOK
    <2> QED BY <1>0, <1>1, <2>1, <2>2, SlotStays DEF AddConsumer, Deliveries
  <1>2. ASSUME NEW c \in Consumers, WriteLoop(c) PROVE SlotComesBack'
    BY <1>0, <1>2, WriteLoopKeepsDeliveries, SlotStays DEF WriteLoop
  <1>3. ASSUME NEW g \in Gens, DispatchLoop(g) PROVE SlotComesBack'
    <2>1. CASE \/ LoopTop(g) \/ PickConsumer(g) \/ StopWaiting(g) \/ BatchCheck(g)
               \/ NoMoreJobs(g) \/ DropExpired(g)
      <3>1. /\ pc[g] # "write"
            /\ \A h \in Gens : h # g => pc'[h] = pc[h] /\ target'[h] = target[h]
        BY <2>1 DEF LoopTop, PickConsumer, StopWaiting, BatchCheck, NoMoreJobs, DropExpired,
                    TypeInv, TypeOK
      <3>2. UNCHANGED <<writeCh, received, lastSentID, lastAckID, overlapped>>
        BY <2>1 DEF LoopTop, PickConsumer, StopWaiting, BatchCheck, NoMoreJobs, DropExpired
      <3> QED BY <1>0, <3>1, <3>2, SlotStays DEF Deliveries
    <2> QED BY <1>0, <1>3, <2>1, TakeJobSlot, WriteOrDropSlot DEF DispatchLoop
  <1>4. CASE \/ \E c \in Consumers : \/ Disconnect(c) \/ RemoveConsumer(c)
                                     \/ DrainCheck(c) \/ DrainReceive(c)
             \/ \E m \in Messages : EnqueueJobs(m)
             \/ BuildHeartbeatReport \/ UNCHANGED vars
    <2>1. UNCHANGED <<writeCh, received, lastSentID, lastAckID, overlapped, pc, target>>
      BY <1>4 DEF Disconnect, RemoveConsumer, DrainCheck, DrainReceive, EnqueueJobs, EnqueueRead,
                  EnqueueOne, RejectOne, MarkSaturated, EnqueueReturns, BuildHeartbeatReport, vars
    <2> QED BY <1>0, <2>1, SlotStays DEF Deliveries
  <1> QED BY <1>0, <1>1, <1>2, <1>3, <1>4, AckSlot DEF Next, WebSocketHandler

\* NoSlotLeak: a consumer that has acknowledged everything it got has a free slot.
\* Deliveries dropped at a full writeCh and jobs past their TTL never use up its slots
\* for good, for every workload without duplicates; jobs that cannot be marshalled, and
\* a second dispatcher, are the only ways to lose one.
THEOREM SlotsAreNotLost ==
    ASSUME JobsSentOnce
    PROVE  Spec => []NoSlotLeak
  <1>1. Init => SlotComesBack
    BY RouterAssumption DEF Init, SlotComesBack
  <1>2. InflightInv => InflightBound
    BY DEF InflightInv
  <1>3. ASSUME TypeInv, SlotComesBack PROVE NoSlotLeak
    <2> SUFFICES ASSUME NEW c \in Consumers, ~overlapped, BadJobs \subseteq StillQueued,
                        writeCh[c] = <<>>,
                        \A i \in DOMAIN received[c] : received[c][i].seq <= lastAckID[c],
                        \A g \in Gens : ~(pc[g] = "write" /\ target[g] = c)
                 PROVE  FreeSlots(c) > 0
      BY DEF NoSlotLeak
    <2>1. Deliveries(c) = received[c]
      BY <1>3, DeliveryTypes, ConcatEmptySeq DEF Deliveries
    <2>2. lastSentID[c] \in Nat /\ lastAckID[c] \in Nat
          /\ \A i \in DOMAIN received[c] : received[c][i].seq \in Nat
      BY <1>3, <2>1, DeliveryTypes
    <2>3. ~(lastSentID[c] - lastAckID[c] >= MaxInflights)
      BY <1>3, <2>1, <2>2 DEF SlotComesBack
    <2> QED BY <2>2, <2>3, RouterAssumption DEF FreeSlots
  <1> QED BY <1>1, <1>2, <1>3, NextSlotComesBack, TypeInvHolds, InflightInvHolds, SeqInvHolds,
             PlaceInvHolds, PTL DEF Spec

=============================================================================
