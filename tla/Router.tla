-------------------------------- MODULE Router --------------------------------
(***************************************************************************)
(* The consumer side of one topic: DefaultRouter with its dispatchLoop     *)
(* goroutine (internal/api/router.go), the Consumer of each WebSocket      *)
(* connection with its write loop (internal/api/consumer.go), and the part *)
(* of WebSocketHandler that adds, acknowledges and removes a consumer      *)
(* (internal/api/api.go).                                                  *)
(*                                                                         *)
(*  EnqueueJobs --mainChans[topic]--> dispatchLoop --writeCh--> write loop *)
(*                                        ^                         |      *)
(*                                  free slots <--- ack --- consumer v     *)
(*                                                                         *)
(* The topic is created when its first consumer comes and removed when its *)
(* last one goes. Each creation is a generation, with its own channel and  *)
(* its own dispatcher. The lock r.mu is held across several steps only by  *)
(* RemoveConsumer; every other critical section is one step.               *)
(*                                                                         *)
(* A definition named after another with a suffix is a wrong variant of    *)
(* it, which Next does not use.                                            *)
(***************************************************************************)
EXTENDS Naturals, Sequences, FiniteSets

CONSTANTS
    Consumers,       \* WebSocket connections; a reconnection is another one
    Leavers,         \* the connections that may be closed
    NoConsumer,
    Messages,        \* outbound messages of the leader, one stream each
    JobsOf,          \* the jobs of a message, a sequence
    Jobs,
    BadJobs,         \* jobs whose Data json.Marshal refuses
    NoJob,
    MaxInflights,    \* DefaultMaxInflights
    BatchSize,       \* dispatchBatchSize, 8
    ChanCap,         \* perTopicBufferSize, 25000
    WriteCap,        \* capacity of writeCh, 256
    MayExpire,       \* whether jobs may wait for more than jobTTL
    MaxGens          \* bound: how often the topic is created

Gens == 1..MaxGens

ASSUME RouterAssumption ==
    /\ Leavers \subseteq Consumers
    /\ NoConsumer \notin Consumers
    /\ BadJobs \subseteq Jobs
    /\ NoJob \notin Jobs
    /\ JobsOf \in [Messages -> Seq(Jobs)]
    /\ MaxInflights \in Nat \ {0}
    /\ BatchSize \in Nat \ {0}
    /\ ChanCap \in Nat \ {0}
    /\ WriteCap \in Nat \ {0}
    /\ MayExpire \in BOOLEAN
    /\ MaxGens \in Nat

VARIABLES
    topicGen,        \* generation in mainChans, 0 while the topic does not exist
    lastGen,         \* generations so far
    members,         \* topicConsumers[topic]
    saturated,       \* topicPressure[topic].saturated
    mu,              \* the consumer whose RemoveConsumer holds r.mu
    mainChan,        \* per generation: the channel of queued jobs
    cancelled,       \* generations whose dispatcher context is cancelled
    overlapped,      \* history: the topic was created while an older dispatcher ran
    pc,              \* per generation: where dispatchLoop is
    target,          \* per generation: the consumer dispatchLoop has picked
    count,           \* per generation: i, the iterations of the current batch
    hand,            \* per generation: the delivery about to be written
    conn,            \* per consumer: where its WebSocketHandler is
    lastSentID,      \* per consumer
    lastAckID,       \* per consumer: LastDeliveryAckID
    writeCh,         \* per consumer: deliveries to write
    received,        \* per consumer, history: deliveries written to the socket
    stream,          \* per message: the generation EnqueueJobs has read, or its end
    rest,            \* per message: the jobs EnqueueJobs has still to queue
    rejected,        \* messages of which a job was rejected
    marking          \* messages whose EnqueueJobs is about to call markSaturated

topicVars == <<topicGen, lastGen, members, mu, cancelled, overlapped>>
dispatchVars == <<pc, target, count, hand>>
slotVars == <<lastSentID, lastAckID>>
deliveryVars == <<writeCh, received>>
enqueueVars == <<stream, rest, rejected, marking>>
vars == <<topicVars, saturated, mainChan, dispatchVars, conn, slotVars,
          deliveryVars, enqueueVars>>

Delivery == [job : Jobs, seq : Nat]
NoDelivery == [job |-> NoJob, seq |-> 0]
Unread == 0
Finished == MaxGens + 1

Init ==
    /\ topicGen = 0
    /\ lastGen = 0
    /\ members = {}
    /\ saturated = FALSE
    /\ mu = NoConsumer
    /\ mainChan = [g \in Gens |-> <<>>]
    /\ cancelled = {}
    /\ overlapped = FALSE
    /\ pc = [g \in Gens |-> "none"]
    /\ target = [g \in Gens |-> NoConsumer]
    /\ count = [g \in Gens |-> 0]
    /\ hand = [g \in Gens |-> NoDelivery]
    /\ conn = [c \in Consumers |-> "new"]
    /\ lastSentID = [c \in Consumers |-> 0]
    /\ lastAckID = [c \in Consumers |-> 0]
    /\ writeCh = [c \in Consumers |-> <<>>]
    /\ received = [c \in Consumers |-> <<>>]
    /\ stream = [m \in Messages |-> Unread]
    /\ rest = [m \in Messages |-> JobsOf[m]]
    /\ rejected = {}
    /\ marking = {}

Unlocked == mu = NoConsumer

\* The goroutine dispatchLoop of generation g is alive.
Running(g) == pc[g] \notin {"none", "exited"}

\* GetFreeSlots.
FreeSlots(c) ==
    IF lastSentID[c] - lastAckID[c] > MaxInflights THEN 0
    ELSE MaxInflights - (lastSentID[c] - lastAckID[c])

-----------------------------------------------------------------------------
(* The WebSocketHandler of consumer c                                      *)

\* AddConsumer, with startDispatcher when the topic is new. dispatchLoop reads
\* its channel without the lock: should the topic be gone by then, the loop ends
\* at its first look at the context, so g always uses mainChan[g].
AddConsumer(c) ==
    /\ conn[c] = "new"
    /\ Unlocked
    /\ conn' = [conn EXCEPT ![c] = "open"]
    /\ members' = members \union {c}
    /\ IF topicGen = 0
       THEN /\ lastGen < MaxGens
            /\ lastGen' = lastGen + 1
            /\ topicGen' = lastGen + 1
            /\ pc' = [pc EXCEPT ![lastGen + 1] = "top"]
            /\ saturated' = FALSE
            /\ overlapped' = (overlapped \/ \E g \in Gens : Running(g))
       ELSE UNCHANGED <<lastGen, topicGen, pc, saturated, overlapped>>
    /\ UNCHANGED <<mu, cancelled, mainChan, target, count, hand, slotVars,
                   deliveryVars, enqueueVars>>

\* StartWriteLoop writes one delivery to the socket.
WriteLoop(c) ==
    /\ conn[c] = "open"
    /\ writeCh[c] # <<>>
    /\ received' = [received EXCEPT ![c] = Append(@, Head(writeCh[c]))]
    /\ writeCh' = [writeCh EXCEPT ![c] = Tail(@)]
    /\ UNCHANGED <<topicVars, saturated, mainChan, dispatchVars, conn, slotVars,
                   enqueueVars>>

UpdateDeliveryAck_Ignored(c, id) == lastAckID' = [lastAckID EXCEPT ![c] = @]
UpdateDeliveryAck(c, id) ==
    lastAckID' = [lastAckID EXCEPT ![c] = IF id > @ THEN id ELSE @]

\* The consumer acknowledges a delivery it has received, in any order.
Ack(c) ==
    /\ conn[c] = "open"
    /\ \E i \in DOMAIN received[c] :
          /\ received[c][i].seq # lastAckID[c]
          /\ UpdateDeliveryAck(c, received[c][i].seq)
    /\ UNCHANGED <<topicVars, saturated, mainChan, dispatchVars, conn, lastSentID,
                   deliveryVars, enqueueVars>>

\* ReadJSON fails: the client has gone, which also ends the write loop.
Disconnect(c) ==
    /\ c \in Leavers
    /\ conn[c] = "open"
    /\ conn' = [conn EXCEPT ![c] = "leaving"]
    /\ UNCHANGED <<topicVars, saturated, mainChan, dispatchVars, slotVars,
                   deliveryVars, enqueueVars>>

\* RemoveConsumer. When c was the last one, drainAndStopTopic starts by
\* cancelling the dispatcher, and r.mu stays locked.
RemoveConsumer(c) ==
    /\ conn[c] = "leaving"
    /\ Unlocked
    /\ members' = members \ {c}
    /\ IF members = {c}
       THEN /\ cancelled' = cancelled \union {topicGen}
            /\ mu' = c
            /\ conn' = [conn EXCEPT ![c] = "draining"]
       ELSE /\ conn' = [conn EXCEPT ![c] = "gone"]
            /\ UNCHANGED <<cancelled, mu>>
    /\ UNCHANGED <<topicGen, lastGen, overlapped, saturated, mainChan, dispatchVars,
                   slotVars, deliveryVars, enqueueVars>>

\* for len(ch) > 0 of drainAndStopTopic. With nothing left the topic goes.
DrainCheck(c) ==
    /\ conn[c] = "draining"
    /\ IF mainChan[topicGen] # <<>>
       THEN /\ conn' = [conn EXCEPT ![c] = "receiving"]
            /\ UNCHANGED <<topicGen, mu, saturated>>
       ELSE /\ conn' = [conn EXCEPT ![c] = "gone"]
            /\ topicGen' = 0
            /\ mu' = NoConsumer
            /\ saturated' = FALSE
    /\ UNCHANGED <<lastGen, members, cancelled, overlapped, mainChan, dispatchVars,
                   slotVars, deliveryVars, enqueueVars>>

\* <-r.mainChans[topic], which waits if the dispatcher has been faster.
DrainReceive(c) ==
    /\ conn[c] = "receiving"
    /\ mainChan[topicGen] # <<>>
    /\ mainChan' = [mainChan EXCEPT ![topicGen] = Tail(@)]
    /\ conn' = [conn EXCEPT ![c] = "draining"]
    /\ UNCHANGED <<topicVars, saturated, dispatchVars, slotVars, deliveryVars,
                   enqueueVars>>

-----------------------------------------------------------------------------
(* EnqueueJobs for message m, called by handleSingleStream                 *)

\* The channel is read under the lock. Without a topic all jobs are rejected.
EnqueueRead(m) ==
    /\ stream[m] = Unread
    /\ Unlocked
    /\ stream' = [stream EXCEPT ![m] = IF topicGen = 0 THEN Finished ELSE topicGen]
    /\ rejected' = IF topicGen = 0 THEN rejected \union {m} ELSE rejected
    /\ UNCHANGED <<topicVars, saturated, mainChan, dispatchVars, conn, slotVars,
                   deliveryVars, rest, marking>>

Enqueueing(m) == stream[m] \notin {Unread, Finished} /\ m \notin marking

EnqueueOne(m) ==
    /\ Enqueueing(m)
    /\ rest[m] # <<>>
    /\ Len(mainChan[stream[m]]) < ChanCap
    /\ mainChan' = [mainChan EXCEPT ![stream[m]] = Append(@, Head(rest[m]))]
    /\ rest' = [rest EXCEPT ![m] = Tail(@)]
    /\ UNCHANGED <<topicVars, saturated, dispatchVars, conn, slotVars, deliveryVars,
                   stream, rejected, marking>>

\* The channel is full: the job is rejected.
RejectOne(m) ==
    /\ Enqueueing(m)
    /\ rest[m] # <<>>
    /\ Len(mainChan[stream[m]]) >= ChanCap
    /\ rest' = [rest EXCEPT ![m] = Tail(@)]
    /\ rejected' = rejected \union {m}
    /\ marking' = marking \union {m}
    /\ UNCHANGED <<topicVars, saturated, mainChan, dispatchVars, conn, slotVars,
                   deliveryVars, stream>>

\* markSaturated after a rejected job: the topic may be gone, or a new one.
MarkSaturated(m) ==
    /\ m \in marking
    /\ Unlocked
    /\ saturated' = (topicGen # 0)
    /\ marking' = marking \ {m}
    /\ UNCHANGED <<topicVars, mainChan, dispatchVars, conn, slotVars, deliveryVars,
                   stream, rest, rejected>>

\* The jobs are through. If any was rejected, markSaturated is called once more.
EnqueueReturns(m) ==
    /\ Enqueueing(m)
    /\ rest[m] = <<>>
    /\ IF m \in rejected THEN Unlocked /\ saturated' = (topicGen # 0)
                          ELSE UNCHANGED saturated
    /\ stream' = [stream EXCEPT ![m] = Finished]
    /\ UNCHANGED <<topicVars, mainChan, dispatchVars, conn, slotVars, deliveryVars,
                   rest, rejected, marking>>

\* BuildHeartbeatReport: the flag goes down after 2 seconds.
BuildHeartbeatReport ==
    /\ Unlocked
    /\ saturated
    /\ saturated' = FALSE
    /\ UNCHANGED <<topicVars, mainChan, dispatchVars, conn, slotVars, deliveryVars,
                   enqueueVars>>

-----------------------------------------------------------------------------
(* dispatchLoop of generation g                                            *)

LoopTop(g) ==
    /\ pc[g] = "top"
    /\ pc' = [pc EXCEPT ![g] = IF g \in cancelled THEN "exited" ELSE "pick"]
    /\ UNCHANGED <<topicVars, saturated, mainChan, target, count, hand, conn,
                   slotVars, deliveryVars, enqueueVars>>

\* GetNextConsumer: a member with the most free slots, whoever is a member now.
BestConsumers == {c \in members : \A d \in members : FreeSlots(c) >= FreeSlots(d)}

PickConsumer(g) ==
    /\ pc[g] = "pick"
    /\ Unlocked
    /\ \E c \in BestConsumers :
          /\ FreeSlots(c) > 0
          /\ target' = [target EXCEPT ![g] = c]
    /\ count' = [count EXCEPT ![g] = 0]
    /\ pc' = [pc EXCEPT ![g] = "check"]
    /\ UNCHANGED <<topicVars, saturated, mainChan, hand, conn, slotVars,
                   deliveryVars, enqueueVars>>

\* <-ctx.Done() in the loop that waits for a consumer with a free slot.
StopWaiting(g) ==
    /\ pc[g] = "pick"
    /\ Unlocked
    /\ \A c \in members : FreeSlots(c) = 0
    /\ g \in cancelled
    /\ pc' = [pc EXCEPT ![g] = "exited"]
    /\ UNCHANGED <<topicVars, saturated, mainChan, target, count, hand, conn,
                   slotVars, deliveryVars, enqueueVars>>

\* The head of the batch loop, "Check if consumer still has free slots".
BatchGoesOn_OneMore(g) == count[g] <= BatchSize /\ FreeSlots(target[g]) > 0
BatchGoesOn_NoSlotCheck(g) == count[g] < BatchSize
BatchGoesOn(g) == count[g] < BatchSize /\ FreeSlots(target[g]) > 0

BatchCheck(g) ==
    /\ pc[g] = "check"
    /\ pc' = [pc EXCEPT ![g] = IF BatchGoesOn(g) THEN "take" ELSE "top"]
    /\ UNCHANGED <<topicVars, saturated, mainChan, target, count, hand, conn,
                   slotVars, deliveryVars, enqueueVars>>

NoMoreJobs(g) ==
    /\ pc[g] = "take"
    /\ mainChan[g] = <<>>
    /\ pc' = [pc EXCEPT ![g] = "top"]
    /\ UNCHANGED <<topicVars, saturated, mainChan, target, count, hand, conn,
                   slotVars, deliveryVars, enqueueVars>>

\* What the channel holds after a receive.
Dequeued_Peek(g) == mainChan[g]
Dequeued(g) == Tail(mainChan[g])

\* OnJobSent.
NextSeq_FromAck(c) == lastAckID[c] + 1
NextSeq(c) == lastSentID[c] + 1

DropExpired_AfterOnJobSent(g) ==
    /\ pc[g] = "take"
    /\ MayExpire
    /\ mainChan[g] # <<>>
    /\ mainChan' = [mainChan EXCEPT ![g] = Dequeued(g)]
    /\ lastSentID' = [lastSentID EXCEPT ![target[g]] = @ + 1]
    /\ count' = [count EXCEPT ![g] = @ + 1]
    /\ pc' = [pc EXCEPT ![g] = "check"]
    /\ UNCHANGED <<topicVars, saturated, target, hand, conn, lastAckID, deliveryVars,
                   enqueueVars>>

\* The job has been queued for longer than jobTTL.
DropExpired(g) ==
    /\ pc[g] = "take"
    /\ MayExpire
    /\ mainChan[g] # <<>>
    /\ mainChan' = [mainChan EXCEPT ![g] = Dequeued(g)]
    /\ count' = [count EXCEPT ![g] = @ + 1]
    /\ pc' = [pc EXCEPT ![g] = "check"]
    /\ UNCHANGED <<topicVars, saturated, target, hand, conn, slotVars, deliveryVars,
                   enqueueVars>>

\* OnJobSent takes the slot and the sequence ID, then the job is marshalled. A
\* job that cannot be marshalled is dropped and keeps its slot.
TakeJob(g) ==
    /\ pc[g] = "take"
    /\ mainChan[g] # <<>>
    /\ mainChan' = [mainChan EXCEPT ![g] = Dequeued(g)]
    /\ lastSentID' = [lastSentID EXCEPT ![target[g]] = NextSeq(target[g])]
    /\ IF Head(mainChan[g]) \in BadJobs
       THEN /\ count' = [count EXCEPT ![g] = @ + 1]
            /\ pc' = [pc EXCEPT ![g] = "check"]
            /\ hand' = hand
       ELSE /\ hand' = [hand EXCEPT ![g] = [job |-> Head(mainChan[g]),
                                            seq |-> NextSeq(target[g])]]
            /\ pc' = [pc EXCEPT ![g] = "write"]
            /\ count' = count
    /\ UNCHANGED <<topicVars, saturated, target, conn, lastAckID, deliveryVars,
                   enqueueVars>>

\* The non-blocking send to writeCh, whether or not the consumer is still there.
WriteJob(g) ==
    /\ pc[g] = "write"
    /\ Len(writeCh[target[g]]) < WriteCap
    /\ writeCh' = [writeCh EXCEPT ![target[g]] = Append(@, hand[g])]
    /\ hand' = [hand EXCEPT ![g] = NoDelivery]
    /\ count' = [count EXCEPT ![g] = @ + 1]
    /\ pc' = [pc EXCEPT ![g] = "check"]
    /\ UNCHANGED <<topicVars, saturated, mainChan, target, conn, slotVars, received,
                   enqueueVars>>

\* writeCh is full: the job is dropped, its slot and sequence ID stay used.
DropJob(g) ==
    /\ pc[g] = "write"
    /\ Len(writeCh[target[g]]) >= WriteCap
    /\ hand' = [hand EXCEPT ![g] = NoDelivery]
    /\ pc' = [pc EXCEPT ![g] = "top"]
    /\ UNCHANGED <<topicVars, saturated, mainChan, target, count, conn, slotVars,
                   deliveryVars, enqueueVars>>

-----------------------------------------------------------------------------

WebSocketHandler(c) ==
    \/ AddConsumer(c) \/ Ack(c) \/ Disconnect(c)
    \/ RemoveConsumer(c) \/ DrainCheck(c) \/ DrainReceive(c)

EnqueueJobs(m) ==
    \/ EnqueueRead(m) \/ EnqueueOne(m) \/ RejectOne(m) \/ MarkSaturated(m)
    \/ EnqueueReturns(m)

DispatchLoop(g) ==
    \/ LoopTop(g) \/ PickConsumer(g) \/ StopWaiting(g) \/ BatchCheck(g)
    \/ NoMoreJobs(g) \/ DropExpired(g) \/ TakeJob(g) \/ WriteJob(g) \/ DropJob(g)

Next ==
    \/ \E c \in Consumers : WebSocketHandler(c) \/ WriteLoop(c)
    \/ \E m \in Messages : EnqueueJobs(m)
    \/ BuildHeartbeatReport
    \/ \E g \in Gens : DispatchLoop(g)

\* Every goroutine that can run does, and consumers acknowledge what they
\* receive. Connecting, leaving and the leader's messages are not fair.
Fairness ==
    /\ \A g \in Gens : WF_vars(DispatchLoop(g))
    /\ \A c \in Consumers :
          /\ WF_vars(WriteLoop(c))
          /\ WF_vars(Ack(c))
          /\ WF_vars(RemoveConsumer(c) \/ DrainCheck(c) \/ DrainReceive(c))

Spec == Init /\ [][Next]_vars /\ Fairness

-----------------------------------------------------------------------------
(* Properties                                                              *)

TypeOK ==
    /\ topicGen \in Gens \union {0}
    /\ lastGen \in Gens \union {0}
    /\ members \subseteq Consumers
    /\ saturated \in BOOLEAN
    /\ mu \in Consumers \union {NoConsumer}
    /\ mainChan \in [Gens -> Seq(Jobs)]
    /\ cancelled \subseteq Gens
    /\ overlapped \in BOOLEAN
    /\ pc \in [Gens -> {"none", "top", "pick", "check", "take", "write", "exited"}]
    /\ target \in [Gens -> Consumers \union {NoConsumer}]
    /\ count \in [Gens -> 0..BatchSize]
    /\ hand \in [Gens -> Delivery \union {NoDelivery}]
    /\ conn \in [Consumers -> {"new", "open", "leaving", "draining", "receiving", "gone"}]
    /\ lastSentID \in [Consumers -> Nat]
    /\ lastAckID \in [Consumers -> Nat]
    /\ writeCh \in [Consumers -> Seq(Delivery)]
    /\ received \in [Consumers -> Seq(Delivery)]
    /\ stream \in [Messages -> Gens \union {Unread, Finished}]
    /\ rest \in [Messages -> Seq(Jobs)]
    /\ rejected \subseteq Messages
    /\ marking \subseteq Messages

\* "Should only send 2 jobs (max inflights)": a consumer never has more than
\* MaxInflights jobs it has not acknowledged, although dispatchLoop looks at the
\* free slots in one step and takes one in another. The exception: a topic that was
\* created again before its old dispatcher had looked at the cancelled context has
\* two dispatchers, and both may take the last slot of its consumer.
InflightBound ==
    ~overlapped => \A c \in Consumers : lastSentID[c] - lastAckID[c] <= MaxInflights

Deliveries(c) == received[c] \o writeCh[c]

\* A consumer gets its deliveries in the order of their sequence IDs: an ack of
\* LastID covers everything before it. Two dispatchers at once may swap them.
SeqInOrder ==
    ~overlapped =>
        \A c \in Consumers : \A i, j \in DOMAIN Deliveries(c) :
            i < j => Deliveries(c)[i].seq < Deliveries(c)[j].seq

QueuedAt(j) ==
    UNION {{<<g, i>> : i \in {k \in DOMAIN mainChan[g] : mainChan[g][k] = j}} : g \in Gens}
DeliveredAt(j) ==
    UNION {{<<c, i>> : i \in {k \in DOMAIN Deliveries(c) : Deliveries(c)[k].job = j}} :
              c \in Consumers}

\* A job the leader sent once is in one place only: no two consumers get it, and
\* no consumer gets it twice.
JobInOnePlace ==
    \A j \in Jobs :
        Cardinality({g \in Gens : hand[g].job = j})
        + Cardinality(QueuedAt(j)) + Cardinality(DeliveredAt(j)) <= 1

\* The jobs that EnqueueJobs has still to queue or dispatchLoop has still to take.
StillQueued ==
    {j \in Jobs : \/ \E m \in Messages : \E i \in DOMAIN rest[m] : rest[m][i] = j
                  \/ \E g \in Gens : \E i \in DOMAIN mainChan[g] : mainChan[g][i] = j}

\* "blocks until consumer has slots again": a consumer that has acknowledged all
\* it got has a free slot. Deliveries lost to a full writeCh and jobs past their
\* TTL do not use up its slots for good; jobs that cannot be marshalled do, and so
\* may deliveries that two dispatchers at once have dropped.
NoSlotLeak ==
    \A c \in Consumers :
        (/\ ~overlapped
         /\ BadJobs \subseteq StillQueued
         /\ conn[c] = "open"
         /\ writeCh[c] = <<>>
         /\ \A i \in DOMAIN received[c] : received[c][i].seq <= lastAckID[c]
         /\ \A g \in Gens : ~(pc[g] = "write" /\ target[g] = c))
        => FreeSlots(c) > 0

InQueue(j) == topicGen # 0 /\ \E i \in DOMAIN mainChan[topicGen] : mainChan[topicGen][i] = j

\* A job that is in the queue of the topic while a consumer stays connected leaves
\* the queue, even if other consumers leave with jobs they have not acknowledged.
QueuedIsServed == \A j \in Jobs : (members \ Leavers # {} /\ InQueue(j)) ~> ~InQueue(j)

\* "Consumer should be removed": RemoveConsumer returns, and gives r.mu back,
\* while the dispatcher is running.
RemovalReturns == \A c \in Consumers : conn[c] = "leaving" ~> conn[c] = "gone"

=============================================================================
