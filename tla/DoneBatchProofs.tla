---------------------------- MODULE DoneBatchProofs ---------------------------
(***************************************************************************)
(* Proofs about DoneBatch, for any set of jobs, topics and consumers, any  *)
(* capacity and any number of failed sends: an ack waits in one place, it  *)
(* is thrown away in one case only, and the last flush takes along all it  *)
(* finds.                                                                  *)
(*                                                                         *)
(* None of the three is inductive. That there is one copy of an ack rests  *)
(* on which queues can hold it at all (ByTopic, NotQueued) and on their    *)
(* having nothing in common (Apart). That the last flush is complete rests *)
(* on what is left while it runs: the ack is with the leader, is being     *)
(* sent, or waits for a topic still to be flushed (DueIsOnItsWay).         *)
(***************************************************************************)
EXTENDS DoneBatch, QueueLemmas

\* flushTopic sends something whenever it sends, only inside flushAllTopics and only
\* for a topic that has an entry.
SendState ==
    /\ sendingTopic = NoTopic <=> jobsCopy = <<>>
    /\ flusher \in {"idle", "exited"} => sendingTopic = NoTopic /\ toFlush = {}
    /\ toFlush \subseteq known
    /\ sendingTopic # NoTopic => sendingTopic \in known

\* An ack is batched, and sent, under the topic of its job, and flushAllTopics
\* knows the topic.
ByTopic ==
    /\ \A t \in Topics : \A j \in Contents(batch[t]) : TopicOf[j] = t
    /\ \A t \in Topics : batch[t] # <<>> => t \in known
    /\ \A j \in Contents(jobsCopy) : TopicOf[j] = sendingTopic

\* An ack that has not been put on producerCh is nowhere.
NotQueued ==
    \A j \in Jobs : ack[j] # "queued" =>
        /\ j \notin Contents(producerCh)
        /\ \A t \in Topics : j \notin Contents(batch[t])
        /\ j \notin Contents(jobsCopy)

\* The queues have no duplicates and nothing in common. (Two batches have nothing in
\* common by ByTopic.)
Apart ==
    /\ Distinct(producerCh)
    /\ Distinct(jobsCopy)
    /\ Contents(producerCh) \intersect Contents(jobsCopy) = {}
    /\ \A t \in Topics :
          /\ Distinct(batch[t])
          /\ Contents(producerCh) \intersect Contents(batch[t]) = {}
          /\ Contents(jobsCopy) \intersect Contents(batch[t]) = {}

\* What the last flush found is with the leader, is being sent or is still to be
\* flushed.
DueIsOnItsWay ==
    /\ flusher \in {"idle", "flushing"} => due = {}
    /\ \A j \in due :
          \/ j \in atLeader
          \/ j \in Contents(jobsCopy)
          \/ \E t \in toFlush : j \in Contents(batch[t])

AckInv == TypeOK /\ SendState /\ ByTopic /\ NotQueued /\ Apart /\ DueIsOnItsWay

-----------------------------------------------------------------------------

\* The phases of RunProxy, as a set.
LEMMA PhaseSet ==
    Elements(Phases) = {"serving", "stopping", "closing", "closed", "exited"}
  BY DEF Elements, Phases

\* The initial state: nothing is on its way.
LEMMA InitAckInv == Init => AckInv
  <1> SUFFICES ASSUME Init PROVE AckInv
    OBVIOUS
  <1> USE DoneAssumption DEF Init
  <1>0. \A S : <<>> \in Seq(S)
    BY EmptySeq
  <1>1. TypeOK
    <2>1. Len(producerCh) = 0 /\ producerCh \in Seq(Jobs) /\ jobsCopy \in Seq(Jobs)
      BY <1>0, EmptySeq
    <2>2. batch \in [Topics -> Seq(Jobs)]
      BY <1>0
    <2>3. 0 \in 0..MaxFailures /\ 0 <= ProducerCap
      OBVIOUS
    <2> QED BY <2>1, <2>2, <2>3, PhaseSet DEF TypeOK
  <1>2. /\ Contents(producerCh) = {} /\ Distinct(producerCh)
        /\ Contents(jobsCopy) = {} /\ Distinct(jobsCopy)
        /\ \A t \in Topics : Contents(batch[t]) = {} /\ Distinct(batch[t])
    BY EmptyQueue
  <1>3. SendState /\ ByTopic /\ NotQueued /\ Apart
    BY <1>2 DEF SendState, ByTopic, NotQueued, Apart
  <1>4. DueIsOnItsWay
    BY DEF DueIsOnItsWay
  <1> QED BY <1>1, <1>3, <1>4 DEF AckInv

\* The queues hold jobs.
LEMMA QueueTypes ==
    ASSUME TypeOK
    PROVE  /\ producerCh \in Seq(Jobs) /\ Contents(producerCh) \subseteq Jobs
           /\ jobsCopy \in Seq(Jobs) /\ Contents(jobsCopy) \subseteq Jobs
           /\ (Contents(jobsCopy) = {} <=> jobsCopy = <<>>)
           /\ \A t \in Topics :
                 /\ batch[t] \in Seq(Jobs) /\ Contents(batch[t]) \subseteq Jobs
                 /\ (Contents(batch[t]) = {} <=> batch[t] = <<>>)
  BY ContentsType DEF TypeOK

\* The steps of a WebSocketHandler.
LEMMA HandlerAckInv ==
    ASSUME AckInv, NEW j \in Jobs, AckJob(j) \/ AckTimeout(j)
    PROVE  AckInv'
  <1> USE DoneAssumption DEF AckInv, flushVars, receiverVars
  <1>0. reading' \subseteq Consumers
    BY DEF AckJob, AckTimeout, AfterMessage, TypeOK
  <1>1. CASE AckJob(j)
    <2>1. /\ producerCh' \in Seq(Jobs)
          /\ Contents(producerCh') = Contents(producerCh) \union {j}
          /\ Distinct(producerCh')
      BY <1>1, AppendToQueue DEF AckJob, TypeOK, NotQueued, Apart
    <2>2. Len(producerCh') <= ProducerCap
      BY <1>1, AppendProperties, LenProperties DEF AckJob, CanQueue, TypeOK
    <2>3. /\ ack' = [ack EXCEPT ![j] = "queued"]
          /\ ack' \in [Jobs -> {"none", "queued", "dropped"}]
      BY <1>1 DEF AckJob, TypeOK
    <2>4. TypeOK'
      BY <1>0, <1>1, <2>1, <2>2, <2>3 DEF AckJob, TypeOK
    <2>5. \A i \in Jobs : ack'[i] # "queued" => i # j /\ ack[i] # "queued"
      BY <2>3 DEF TypeOK
    <2>6. NotQueued'
      BY <1>1, <2>1, <2>5 DEF AckJob, NotQueued
    <2>7. Apart'
      BY <1>1, <2>1 DEF AckJob, NotQueued, Apart
    <2>8. SendState' /\ ByTopic' /\ DueIsOnItsWay'
      BY <1>1 DEF AckJob, SendState, ByTopic, DueIsOnItsWay
    <2> QED BY <2>4, <2>6, <2>7, <2>8
  <1>2. CASE AckTimeout(j)
    <2>1. /\ ack' \in [Jobs -> {"none", "queued", "dropped"}]
          /\ \A i \in Jobs : ack'[i] # "queued" => ack[i] # "queued"
      BY <1>2 DEF AckTimeout, TypeOK
    <2>2. TypeOK'
      BY <1>0, <1>2, <2>1 DEF AckTimeout, TypeOK
    <2>3. NotQueued'
      BY <1>2, <2>1 DEF AckTimeout, NotQueued
    <2>4. SendState' /\ ByTopic' /\ Apart' /\ DueIsOnItsWay'
      BY <1>2 DEF AckTimeout, SendState, ByTopic, Apart, DueIsOnItsWay
    <2> QED BY <2>2, <2>3, <2>4
  <1> QED BY <1>1, <1>2

\* handleDoneRequest moves an ack from producerCh to the batch of its topic.
LEMMA HandleDoneAckInv ==
    ASSUME AckInv, HandleDone
    PROVE  AckInv'
  <1> USE DoneAssumption DEF AckInv, flushVars, receiverVars
  <1> DEFINE j == Head(producerCh)
             t == TopicOf[j]
  <1>1. /\ j \in Jobs /\ producerCh' \in Seq(Jobs) /\ producerCh' = Tail(producerCh)
        /\ Contents(producerCh) = Contents(producerCh') \union {j}
        /\ Distinct(producerCh') /\ j \notin Contents(producerCh')
    BY TakeFromQueue DEF HandleDone, TypeOK, Apart
  <1>2. t \in Topics /\ batch[t] \in Seq(Jobs) /\ j \notin Contents(batch[t])
    BY <1>1 DEF TypeOK, Apart
  <1>3. /\ Append(batch[t], j) \in Seq(Jobs)
        /\ Contents(Append(batch[t], j)) = Contents(batch[t]) \union {j}
        /\ Distinct(Append(batch[t], j))
    BY <1>1, <1>2, AppendToQueue DEF Apart
  <1>4. /\ batch' = [batch EXCEPT ![t] = Append(batch[t], j)]
        /\ known' = known \union {t}
    BY DEF HandleDone
  <1>5. Len(producerCh') <= ProducerCap
    BY <1>1, HeadTailProperties, LenProperties DEF HandleDone, TypeOK
  <1> HIDE DEF j, t
  <1>6. batch' \in [Topics -> Seq(Jobs)]
    BY <1>2, <1>3, <1>4 DEF TypeOK
  <1>7. /\ batch'[t] = Append(batch[t], j)
        /\ \A u \in Topics : u # t => batch'[u] = batch[u]
    BY <1>2, <1>4 DEF TypeOK
  <1>8. \A u \in Topics :
            /\ Contents(batch[u]) \subseteq Contents(batch'[u])
            /\ Contents(batch'[u]) \subseteq Contents(batch[u]) \union {j}
            /\ u # t => Contents(batch'[u]) = Contents(batch[u])
            /\ Distinct(batch'[u])
    BY <1>3, <1>7 DEF Apart
  <1>9. TypeOK'
    BY <1>1, <1>2, <1>4, <1>5, <1>6 DEF HandleDone, TypeOK
  <1>10. SendState'
    BY DEF HandleDone, SendState
  <1>11. ByTopic'
    <2>1. \A u \in Topics : \A i \in Contents(batch'[u]) : TopicOf[i] = u
      BY <1>8 DEF ByTopic, t
    <2>2. \A u \in Topics : batch'[u] # <<>> => u \in known'
      BY <1>4, <1>7 DEF ByTopic
    <2> QED BY <2>1, <2>2 DEF HandleDone, ByTopic
  <1>12. NotQueued'
    BY <1>1, <1>8 DEF HandleDone, NotQueued
  <1>13. Apart'
    <2>1. j \notin Contents(jobsCopy)
      BY <1>1 DEF Apart
    <2>2. ASSUME NEW u \in Topics
          PROVE  /\ Contents(producerCh') \intersect Contents(batch'[u]) = {}
                 /\ Contents(jobsCopy) \intersect Contents(batch'[u]) = {}
      <3>1. /\ Contents(producerCh) \intersect Contents(batch[u]) = {}
            /\ Contents(jobsCopy) \intersect Contents(batch[u]) = {}
        BY DEF Apart
      <3>2. Contents(batch'[u]) \subseteq Contents(batch[u]) \union {j}
        BY <1>8
      <3> QED BY <1>1, <2>1, <3>1, <3>2
    <2> QED BY <1>1, <1>8, <2>2 DEF HandleDone, Apart
  <1>14. DueIsOnItsWay'
    <2>1. toFlush \subseteq Topics
      BY DEF TypeOK
    <2> QED BY <1>8, <2>1 DEF HandleDone, DueIsOnItsWay
  <1> QED BY <1>9, <1>10, <1>11, <1>12, <1>13, <1>14

\* flushAllTopics begins: an ack that waits in a batch waits for a topic it copies.
LEMMA FlushAllAckInv ==
    ASSUME AckInv, Tick \/ FinalFlush
    PROVE  AckInv'
  <1> USE DEF AckInv, receiverVars, FlushAllTopics, TopicsToFlush
  <1>1. /\ sendingTopic = NoTopic /\ jobsCopy = <<>> /\ due = {}
        /\ flusher' \in {"flushing", "final"} /\ toFlush' = known
        /\ UNCHANGED <<reading, ack, producerCh, receiver, batch, known, sendingTopic,
                       jobsCopy, failures, atLeader, phase>>
    BY DEF Tick, FinalFlush, SendState, DueIsOnItsWay
  <1>2. \A i \in due' : \E t \in toFlush' : i \in Contents(batch'[t])
    <2>1. CASE Tick
      BY <1>1, <2>1 DEF Tick
    <2>2. CASE FinalFlush
      <3> SUFFICES ASSUME NEW i \in due'
                   PROVE  \E t \in toFlush' : i \in Contents(batch'[t])
        OBVIOUS
      <3>1. PICK t \in Topics : i \in Contents(batch[t])
        BY <2>2 DEF FinalFlush, Elements, Contents
      <3>2. batch[t] # <<>>
        BY <3>1, EmptyQueue
      <3> QED BY <1>1, <3>1, <3>2 DEF ByTopic
    <2> QED BY <2>1, <2>2
  <1>3. due' \subseteq Jobs
    BY <1>1, <1>2, QueueTypes DEF TypeOK
  <1>4. TypeOK'
    BY <1>1, <1>3 DEF TypeOK
  <1>5. SendState' /\ ByTopic' /\ NotQueued' /\ Apart'
    BY <1>1 DEF SendState, ByTopic, NotQueued, Apart
  <1>6. flusher' = "flushing" => due' = {}
    BY <1>1 DEF Tick, FinalFlush
  <1> QED BY <1>1, <1>2, <1>4, <1>5, <1>6 DEF DueIsOnItsWay

\* flushTopic moves the batch of a topic into jobsCopy.
LEMMA FlushTopicAckInv ==
    ASSUME AckInv, NEW t \in Topics, FlushTopic(t)
    PROVE  AckInv'
  <1> USE DoneAssumption DEF AckInv, receiverVars
  <1>0. flusher \in {"flushing", "final"}
    BY DEF FlushTopic, SendState, TypeOK
  <1>1. CASE NothingToSend(t)
    <2>1. UNCHANGED <<batch, sendingTopic, jobsCopy>> /\ toFlush' = toFlush \ {t}
      BY <1>1 DEF FlushTopic
    <2>2. Contents(batch[t]) = {}
      BY <1>1, EmptyQueue DEF NothingToSend
    <2>3. TypeOK'
      BY <2>1 DEF FlushTopic, TypeOK
    <2>4. SendState' /\ ByTopic' /\ NotQueued' /\ Apart'
      BY <2>1 DEF FlushTopic, SendState, ByTopic, NotQueued, Apart
    <2>5. DueIsOnItsWay'
      BY <2>1, <2>2 DEF FlushTopic, DueIsOnItsWay
    <2> QED BY <2>3, <2>4, <2>5
  <1>2. CASE ~NothingToSend(t)
    <2>1. /\ jobsCopy = <<>> /\ jobsCopy' = batch[t] /\ jobsCopy' # <<>>
          /\ sendingTopic' = t /\ sendingTopic' # NoTopic
          /\ batch' = [batch EXCEPT ![t] = <<>>]
          /\ toFlush' = toFlush \ {t}
      BY <1>2 DEF FlushTopic, NothingToSend, Emptied, SendState
    <2>2. /\ batch'[t] = <<>>
          /\ \A u \in Topics : u # t => batch'[u] = batch[u]
          /\ batch' \in [Topics -> Seq(Jobs)]
      BY <2>1, EmptySeq DEF TypeOK
    <2>3. /\ Contents(batch'[t]) = {} /\ Distinct(batch'[t])
          /\ \A u \in Topics : Contents(batch'[u]) \subseteq Contents(batch[u]) /\ Distinct(batch'[u])
          /\ \A u \in Topics : u # t => Contents(batch'[u]) = Contents(batch[u])
      BY <2>2, EmptyQueue DEF Apart
    <2>4. TypeOK'
      BY <2>1, <2>2 DEF FlushTopic, TypeOK
    <2>5. SendState'
      BY <1>0, <2>1 DEF FlushTopic, SendState
    <2>6. ByTopic'
      BY <2>1, <2>2, <2>3 DEF FlushTopic, ByTopic
    <2>7. NotQueued'
      BY <2>1, <2>3 DEF FlushTopic, NotQueued
    <2>8. Apart'
      <3>1. \A u \in Topics : Contents(batch[t]) \intersect Contents(batch'[u]) = {}
        BY <2>3 DEF ByTopic
      <3>2. UNCHANGED producerCh
        BY DEF FlushTopic
      <3> QED BY <2>1, <2>3, <3>1, <3>2 DEF Apart
    <2>9. DueIsOnItsWay'
      <3>1. \A i \in due : i \in atLeader \/ i \in Contents(batch[t])
                           \/ \E u \in toFlush \ {t} : i \in Contents(batch[u])
        BY <2>1, EmptyQueue DEF DueIsOnItsWay
      <3>2. toFlush \subseteq Topics
        BY DEF TypeOK
      <3>3. UNCHANGED <<due, atLeader, flusher>>
        BY DEF FlushTopic
      <3> QED BY <1>0, <2>1, <2>3, <3>1, <3>2, <3>3 DEF DueIsOnItsWay
    <2> QED BY <2>4, <2>5, <2>6, <2>7, <2>8, <2>9
  <1> QED BY <1>1, <1>2

\* The send ends: the acks are with the leader, or back in an empty batch, or lost.
LEMMA SendAckInv ==
    ASSUME AckInv, FlushSent \/ FlushFailed
    PROVE  AckInv'
  <1> USE DoneAssumption DEF AckInv, receiverVars
  <1> DEFINE t == sendingTopic
  <1>1. /\ t \in Topics /\ sendingTopic' = NoTopic /\ jobsCopy' = <<>>
        /\ Contents(jobsCopy') = {} /\ Distinct(jobsCopy')
        /\ UNCHANGED <<reading, ack, producerCh, receiver, known, flusher, toFlush, phase>>
    BY EmptyQueue DEF FlushSent, FlushFailed, TypeOK
  <1>2. Contents(jobsCopy) \subseteq Jobs
    BY QueueTypes
  <1>3. /\ atLeader' \subseteq Jobs /\ atLeader \subseteq atLeader'
        /\ due' \subseteq due
        /\ \A i \in due' : i \notin Contents(jobsCopy) \/ i \in atLeader'
    BY <1>2 DEF FlushSent, FlushFailed, TypeOK, Elements, Contents
  <1>4. \/ UNCHANGED batch
        \/ /\ batch[t] = <<>>
           /\ batch' = [batch EXCEPT ![t] = jobsCopy]
    BY DEF FlushSent, FlushFailed, AfterFailedSend
  <1>5. failures' \in 0..MaxFailures
    BY DEF FlushSent, FlushFailed, TypeOK
  <1>6. /\ batch' \in [Topics -> Seq(Jobs)]
        /\ \A u \in Topics : u # t => batch'[u] = batch[u]
        /\ batch'[t] = batch[t] \/ (batch[t] = <<>> /\ batch'[t] = jobsCopy)
    BY <1>1, <1>4 DEF TypeOK
  <1>7. \A u \in Topics :
            /\ Contents(batch[u]) \subseteq Contents(batch'[u])
            /\ Contents(batch'[u]) = Contents(batch[u])
               \/ (u = t /\ Contents(batch'[u]) = Contents(jobsCopy))
            /\ Distinct(batch'[u])
    BY <1>1, <1>6, EmptyQueue DEF Apart
  <1>8. t \in known
    BY <1>1, DoneAssumption DEF SendState
  <1>9. TypeOK'
    BY <1>1, <1>3, <1>5, <1>6, EmptySeq DEF TypeOK
  <1>10. SendState'
    BY <1>1 DEF SendState
  <1>11. ByTopic'
    <2>1. \A u \in Topics : \A i \in Contents(batch'[u]) : TopicOf[i] = u
      BY <1>7 DEF ByTopic
    <2>2. \A u \in Topics : batch'[u] # <<>> => u \in known'
      BY <1>1, <1>6, <1>8 DEF ByTopic
    <2> QED BY <1>1, <2>1, <2>2 DEF ByTopic
  <1>12. NotQueued'
    BY <1>1, <1>7 DEF NotQueued
  <1>13. Apart'
    <2>1. ASSUME NEW u \in Topics PROVE Contents(producerCh) \intersect Contents(batch'[u]) = {}
      BY <1>7 DEF Apart
    <2> QED BY <1>1, <1>7, <2>1 DEF Apart
  <1>14. DueIsOnItsWay'
    <2>1. toFlush \subseteq Topics
      BY DEF TypeOK
    <2> QED BY <1>1, <1>3, <1>7, <2>1 DEF DueIsOnItsWay
  <1> QED BY <1>9, <1>10, <1>11, <1>12, <1>13, <1>14

\* The steps that leave the acks where they are.
LEMMA QuietAckInv ==
    ASSUME AckInv,
           \/ \E c \in Consumers : HandlerReturns(c)
           \/ ReceiverExits \/ FlushReturns \/ RunProxy \/ UNCHANGED vars
    PROVE  AckInv'
  <1> USE DEF AckInv, receiverVars, flushVars
  <1>1. UNCHANGED <<ack, producerCh, batch, known, toFlush, sendingTopic, jobsCopy,
                    failures, atLeader, due>>
    BY DEF HandlerReturns, ReceiverExits, FlushReturns, RunProxy, Signal, StopAndCancel,
           CloseConnections, Exit, GoOn, vars
  <1>2. /\ reading' \subseteq Consumers
        /\ receiver' \in {"running", "exited"}
        /\ phase' \in Elements(Phases)
    BY PhaseSet DEF HandlerReturns, ReceiverExits, FlushReturns, RunProxy, Signal,
           StopAndCancel, CloseConnections, Exit, GoOn, vars, TypeOK
  <1>3. \/ UNCHANGED flusher
        \/ /\ toFlush = {} /\ sendingTopic = NoTopic
           /\ flusher = "final" /\ flusher' = "exited"
        \/ /\ toFlush = {} /\ sendingTopic = NoTopic
           /\ flusher = "flushing" /\ flusher' = "idle"
    BY DEF HandlerReturns, ReceiverExits, FlushReturns, RunProxy, Signal,
           StopAndCancel, CloseConnections, Exit, GoOn, vars
  <1>4. TypeOK'
    BY <1>1, <1>2, <1>3 DEF TypeOK
  <1>5. ByTopic' /\ NotQueued' /\ Apart'
    BY <1>1 DEF ByTopic, NotQueued, Apart
  <1>6. SendState' /\ DueIsOnItsWay'
    BY <1>1, <1>3 DEF SendState, DueIsOnItsWay
  <1> QED BY <1>4, <1>5, <1>6

\* Every step keeps the invariant.
LEMMA NextAckInv == AckInv /\ [Next]_vars => AckInv'
  BY HandlerAckInv, HandleDoneAckInv, FlushAllAckInv, FlushTopicAckInv, SendAckInv,
     QuietAckInv
     DEF Next, Flusher

\* The invariant holds in every reachable state.
THEOREM AckInvariance == Spec => []AckInv
  <1>1. Init => AckInv
    BY InitAckInv
  <1>2. AckInv /\ [Next]_vars => AckInv'
    BY NextAckInv
  <1> QED BY <1>1, <1>2, PTL DEF Spec

\* TypeOK for any workload: producerCh, the buffer of Done commands and flushTopic's
\* copy hold jobs, and producerCh no more than its capacity.
THEOREM DoneTypeCorrect == Spec => []TypeOK
  <1>1. AckInv => TypeOK
    BY DEF AckInv
  <1> QED BY <1>1, AckInvariance, PTL

\* AckInOnePlace: an ack is never in two of producerCh, doneCmdBatchBuffer and
\* flushTopic's copy, nor in one of them twice, whatever fails and is added back.
THEOREM AckIsInOnePlace == Spec => []AckInOnePlace
  <1>1. AckInv => AckInOnePlace
    <2> SUFFICES ASSUME AckInv, NEW j \in Jobs
                 PROVE  /\ Cardinality(Positions(producerCh, j))
                           + Cardinality(Positions(batch[TopicOf[j]], j))
                           + Cardinality(Positions(jobsCopy, j)) <= 1
      BY DEF AckInOnePlace, Positions
    <2> DEFINE t == TopicOf[j]
    <2>1. t \in Topics
      BY DoneAssumption
    <2>2. /\ Distinct(producerCh) /\ Distinct(batch[t]) /\ Distinct(jobsCopy)
          /\ Contents(producerCh) \intersect Contents(batch[t]) = {}
          /\ Contents(producerCh) \intersect Contents(jobsCopy) = {}
          /\ Contents(jobsCopy) \intersect Contents(batch[t]) = {}
      BY <2>1 DEF AckInv, Apart
    <2> HIDE DEF t
    <2>3. /\ Cardinality(Positions(producerCh, j)) \in {0, 1}
          /\ Cardinality(Positions(batch[t], j)) \in {0, 1}
          /\ Cardinality(Positions(jobsCopy, j)) \in {0, 1}
      BY <2>2, CountInQueue
    <2>4. /\ j \notin Contents(producerCh) => Cardinality(Positions(producerCh, j)) = 0
          /\ j \notin Contents(batch[t]) => Cardinality(Positions(batch[t], j)) = 0
          /\ j \notin Contents(jobsCopy) => Cardinality(Positions(jobsCopy, j)) = 0
      BY <2>2, CountInQueue
    <2>5. \/ j \notin Contents(producerCh) /\ j \notin Contents(batch[t])
          \/ j \notin Contents(producerCh) /\ j \notin Contents(jobsCopy)
          \/ j \notin Contents(batch[t]) /\ j \notin Contents(jobsCopy)
      BY <2>2
    <2> QED BY <2>3, <2>4, <2>5 DEF t
  <1> QED BY <1>1, AckInvariance, PTL

\* LastFlushIsComplete: "flush all remaining" on ctx.Done leaves behind no ack it
\* found in a batch, except one whose send failed.
THEOREM LastFlushCompletes == Spec => []LastFlushIsComplete
  <1>1. AckInv => LastFlushIsComplete
    BY EmptyQueue DEF AckInv, SendState, DueIsOnItsWay, LastFlushIsComplete
  <1> QED BY <1>1, AckInvariance, PTL

\* LostOnlyWhenOvertaken: in no step but a failed send that finds newer acks of the
\* same topic is an ack thrown away before the process ends.
THEOREM AckLostOnlyWhenOvertaken == Spec => LostOnlyWhenOvertaken
  <1>1. ASSUME AckInv, [Next]_vars, NEW j \in Jobs, OnItsWay(j), ~OnItsWay(j)',
               phase' # "exited"
        PROVE  /\ FlushFailed
               /\ sendingTopic = TopicOf[j]
               /\ batch[sendingTopic] # <<>>
    <2> USE DoneAssumption DEF receiverVars, flushVars
    <2> DEFINE t == TopicOf[j]
    <2>1. t \in Topics /\ batch[t] \in Seq(Jobs) /\ producerCh \in Seq(Jobs)
      BY <1>1, QueueTypes DEF AckInv
    <2>2. atLeader \subseteq atLeader'
      BY <1>1 DEF Next, Flusher, AckJob, AckTimeout, HandlerReturns, HandleDone,
         ReceiverExits, Tick, FinalFlush, FlushAllTopics, FlushTopic, FlushSent, FlushFailed,
         FlushReturns, RunProxy, Signal, StopAndCancel, CloseConnections, Exit, GoOn, vars
    <2>3. /\ phase # "exited" /\ j \notin atLeader'
          /\ \/ j \in Contents(producerCh)
             \/ j \in Contents(batch[t])
             \/ j \in Contents(jobsCopy)
      BY <1>1, <2>2 DEF OnItsWay, Running, Elements, Contents
    <2>4. /\ j \notin Contents(producerCh')
          /\ j \notin Contents(batch'[t])
          /\ j \notin Contents(jobsCopy')
      BY <1>1 DEF OnItsWay, Running, Elements, Contents
    <2>5. CASE \E i \in Jobs : AckJob(i)
      <3>1. Contents(producerCh) \subseteq Contents(producerCh')
        BY <2>1, <2>5, AppendToQueue DEF AckJob
      <3> QED BY <2>3, <2>4, <2>5, <3>1 DEF AckJob
    <2>6. CASE HandleDone
      <3>1. /\ Head(producerCh) \in Jobs
            /\ Contents(producerCh) = Contents(producerCh') \union {Head(producerCh)}
        BY <2>1, <2>6, TakeFromQueue DEF HandleDone
      <3>2. j = Head(producerCh) => batch'[t] = Append(batch[t], j)
        BY <1>1, <2>1, <2>6 DEF HandleDone, AckInv, TypeOK
      <3>3. j # Head(producerCh) => \/ batch'[t] = batch[t]
                                    \/ batch'[t] = Append(batch[t], Head(producerCh))
        BY <1>1, <2>1, <2>6, <3>1 DEF HandleDone, AckInv, TypeOK
      <3>4. Contents(Append(batch[t], Head(producerCh)))
                = Contents(batch[t]) \union {Head(producerCh)}
        BY <2>1, <3>1, AppendToQueue
      <3>5. /\ Contents(batch[t]) \subseteq Contents(batch'[t])
            /\ j = Head(producerCh) => j \in Contents(batch'[t])
        BY <3>2, <3>3, <3>4
      <3> QED BY <2>3, <2>4, <2>6, <3>1, <3>5 DEF HandleDone
    <2>7. CASE \E u \in Topics : FlushTopic(u)
      <3>1. PICK u \in Topics : FlushTopic(u)
        BY <2>7
      <3>2. jobsCopy = <<>>
        BY <1>1, <3>1 DEF FlushTopic, AckInv, SendState
      <3>3. j \notin Contents(jobsCopy)
        BY <3>2, EmptyQueue
      <3>4. \/ UNCHANGED <<batch, jobsCopy>>
            \/ jobsCopy' = batch[u] /\ (u # t => batch'[t] = batch[t])
        BY <1>1, <2>1, <3>1 DEF FlushTopic, Emptied, AckInv, TypeOK
      <3> QED BY <2>3, <2>4, <3>1, <3>3, <3>4 DEF FlushTopic
    <2>8. CASE FlushSent
      BY <2>3, <2>4, <2>8 DEF FlushSent, Elements, Contents
    <2>9. CASE FlushFailed
      <3>1. UNCHANGED producerCh
        BY <2>9 DEF FlushFailed
      <3>2. CASE j \in Contents(batch[t])
        <4>1. batch'[t] = batch[t] \/ batch[t] = <<>>
          BY <1>1, <2>1, <2>9 DEF FlushFailed, AfterFailedSend, AckInv, TypeOK
        <4> QED BY <2>4, <3>2, <4>1, EmptyQueue
      <3>3. CASE j \in Contents(jobsCopy)
        <4>1. sendingTopic = t
          BY <1>1, <3>3 DEF AckInv, ByTopic
        <4>2. batch[t] = <<>> => batch'[t] = jobsCopy
          BY <1>1, <2>1, <2>9, <4>1 DEF FlushFailed, AfterFailedSend, AckInv, TypeOK
        <4> QED BY <2>4, <2>9, <3>3, <4>1, <4>2
      <3> QED BY <2>3, <2>4, <3>1, <3>2, <3>3
    <2>10. CASE UNCHANGED <<producerCh, batch, jobsCopy>>
      BY <2>3, <2>4, <2>10
    <2>11. \/ \E i \in Jobs : AckJob(i)
           \/ HandleDone
           \/ \E u \in Topics : FlushTopic(u)
           \/ FlushSent
           \/ FlushFailed
           \/ UNCHANGED <<producerCh, batch, jobsCopy>>
      BY <1>1 DEF Next, Flusher, AckTimeout, HandlerReturns, ReceiverExits, Tick,
         FinalFlush, FlushAllTopics, FlushReturns, RunProxy, Signal, StopAndCancel,
         CloseConnections, Exit, GoOn, vars
    <2> QED BY <2>5, <2>6, <2>7, <2>8, <2>9, <2>10, <2>11
  <1>2. AckInv /\ [Next]_vars =>
           [\A j \in Jobs : (OnItsWay(j) /\ ~OnItsWay(j)') =>
               \/ phase' = "exited"
               \/ /\ FlushFailed
                  /\ sendingTopic = TopicOf[j]
                  /\ batch[sendingTopic] # <<>>]_vars
    BY <1>1
  <1> QED BY <1>2, AckInvariance, PTL DEF Spec, LostOnlyWhenOvertaken
=============================================================================
