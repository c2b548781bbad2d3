-------------------------- MODULE ProducerPathProofs --------------------------
(***************************************************************************)
(* Proofs about ProducerPath, for every workload and every capacity.       *)
(*                                                                         *)
(* TypeOK is not inductive: the type of a new batch needs the count of     *)
(* buffered requests to be right, and the type of an answer needs the      *)
(* messages at the leader to name batches that exist.                      *)
(*                                                                         *)
(* Neither is InOnePlace: it counts, and what a step keeps is that the     *)
(* places are apart and hold nothing twice (PlaceInv). A waiting batch     *)
(* stays routable because every table entry and every call that has read   *)
(* one names the topic of the batch's first job (EntriesAreOwn).           *)
(***************************************************************************)
EXTENDS ProducerPath, QueueLemmas

\* A batch the leader has received is one that was made.
KnownAtLeader == \A m \in atLeader : m.origin = "jobs" => m.id \in BatchIDs

TypeInv == TypeOK /\ DrainNeverBlocks /\ KnownAtLeader

Batch == [topic : Topics, first : JobRequests, reqs : SUBSET JobRequests]

\* In no queue and in no batch.
Nowhere(r) ==
    /\ r \notin Contents(producerCh)
    /\ \A t \in Topics : r \notin Contents(apiInputCh[t]) /\ r \notin Contents(store[t])
    /\ \A i \in BatchIDs : r \notin batches[i].reqs

\* The queues have no duplicates, and nothing is in two of them. (A request is
\* buffered under its own topic, so that two topics have nothing in common.)
QueuesApart ==
    /\ Distinct(producerCh)
    /\ \A t \in Topics :
          /\ Distinct(apiInputCh[t])
          /\ Distinct(store[t])
          /\ \A r \in Contents(apiInputCh[t]) : r \notin Contents(producerCh) /\ TopicOf[r] = t
          /\ \A r \in Contents(store[t]) :
                r \notin Contents(producerCh) /\ r \notin Contents(apiInputCh[t]) /\ TopicOf[r] = t

\* A request in a batch is in no queue and in no other batch.
BatchesApart ==
    \A i \in BatchIDs : \A r \in batches[i].reqs :
        /\ r \notin Contents(producerCh)
        /\ \A t \in Topics : r \notin Contents(apiInputCh[t]) /\ r \notin Contents(store[t])
        /\ \A k \in BatchIDs : r \in batches[k].reqs => i = k

\* A request the handler has not put on producerCh, or whose producer is told, or
\* will be, that the proxy was busy, is nowhere.
TurnedAwayIsNowhere ==
    /\ \A r \in Requests : http[r] \in {"idle", "sending"} => Nowhere(r) /\ respCh[r] # "busy"
    /\ \A r \in JobRequests : http[r] \in {"busy", "503"} \/ respCh[r] = "busy" => Nowhere(r)

PlaceInv == QueuesApart /\ BatchesApart /\ TurnedAwayIsNowhere

\* Callers wait in the JobBuffer of the topic that their batch's first job names.
WaitingIsOwn ==
    \A t \in Topics : \A id \in waitingMap[t] : t \in buffers /\ JobTopicOf[batches[id].first] = t

\* requestIdToTopic, and what a handleResponse call has read from it, is the topic
\* that the first job of the batch names.
EntriesAreOwn ==
    /\ \A e \in requestIdToTopic : e.topic = JobTopicOf[batches[e.id].first]
    /\ \A h \in handling :
          h.resp.id \in BatchIDs /\ h.topic = JobTopicOf[batches[h.resp.id].first]

RouteInv == WaitingIsOwn /\ EntriesAreOwn /\ WaitingBatchIsRoutable

\* The jobs of every request name the topic the request is for.
JobsNameTheirTopic == \A r \in JobRequests : JobTopicOf[r] = TopicOf[r]

\* No responseInputCh is full.
RoomForResponses == \A t \in Topics : Len(responseInputCh[t]) < RespCap

-----------------------------------------------------------------------------
(* Types                                                                   *)

\* The initial state is well-typed.
LEMMA InitTypeInv == Init => TypeInv
  <1> SUFFICES ASSUME Init PROVE TypeInv
    OBVIOUS
  <1> USE WorkloadAssumption DEF Init
  <1>0. \A S : <<>> \in Seq(S)
    BY EmptySeq
  <1>1. TypeOK
    <2>1. /\ http \in [Requests -> {"idle", "sending", "waiting"} \union Final]
          /\ respCh \in [Requests -> {"none"} \union Outcome]
          /\ reqID \in [Requests -> Nat]
          /\ apiCounter \in Nat
          /\ ctxDone \in BOOLEAN
      OBVIOUS
    <2>2. /\ producerCh \in Seq(Requests)
          /\ sendJobsCh \in Seq(BatchIDs)
          /\ batches \in Seq(Batch)
          /\ apiInputCh \in [Topics -> Seq(JobRequests)]
          /\ store \in [Topics -> Seq(JobRequests)]
          /\ responseInputCh \in [Topics -> Seq(Response)]
      BY <1>0
    <2>3. /\ receiving \in TopicRequests \union {NoReq}
          /\ requestMap \subseteq [id : Nat, req : TopicRequests]
          /\ buffers \subseteq Topics
          /\ bufferedCount \in [Topics -> Nat]
          /\ wedged \subseteq Topics
          /\ waitingMap \in [Topics -> SUBSET BatchIDs]
          /\ pending \in [Topics -> BatchIDs \union {0}]
          /\ sending \in BatchIDs \union {0}
      OBVIOUS
    <2>4. /\ requestIdToTopic \subseteq [id : BatchIDs, topic : Topics \union {NoTopic}]
          /\ atLeader \subseteq [id : Nat, origin : {"jobs", "topic"}]
          /\ answered \subseteq Response
          /\ responses \subseteq Response
          /\ handling \subseteq [resp : Response, topic : Topics \union {NoTopic}]
      OBVIOUS
    <2> QED BY <2>1, <2>2, <2>3, <2>4 DEF TypeOK, Batch
  <1>2. DrainNeverBlocks
    BY EmptySeq DEF DrainNeverBlocks
  <1>3. KnownAtLeader
    BY DEF KnownAtLeader
  <1> QED BY <1>1, <1>2, <1>3 DEF TypeInv

\* A handler step keeps the types: it touches http, the IDs and producerCh only.
LEMMA HandlerTypeInv ==
    ASSUME TypeInv, NEW r \in Requests, Handler(r)
    PROVE  TypeInv'
  <1> USE DEF TypeInv, DrainNeverBlocks, KnownAtLeader, BatchIDs,
              handlerVars, bufferVars, batchVars, leaderVars
  <1>1. CASE RejectNoLeader(r)
    BY <1>1 DEF TypeOK, RejectNoLeader, Final
  <1>2. CASE Submit(r)
    <2>1. apiCounter' \in Nat
      BY <1>2 DEF TypeOK, Submit
    <2>2. reqID' \in [Requests -> Nat]
      BY <1>2 DEF TypeOK, Submit
    <2>3. http' \in [Requests -> {"idle", "sending", "waiting"} \union Final]
      BY <1>2 DEF TypeOK, Submit
    <2> QED BY <1>2, <2>1, <2>2, <2>3 DEF TypeOK, Submit
  <1>3. CASE Enqueue(r)
    <2>1. producerCh' \in Seq(Requests)
      BY <1>3 DEF TypeOK, Enqueue
    <2>2. http' \in [Requests -> {"idle", "sending", "waiting"} \union Final]
      BY <1>3 DEF TypeOK, Enqueue
    <2> QED BY <1>3, <2>1, <2>2 DEF TypeOK, Enqueue
  <1>4. CASE EnqueueTimeout(r)
    BY <1>4 DEF TypeOK, EnqueueTimeout, Final
  <1>5. CASE Reply(r)
    BY <1>5 DEF TypeOK, Reply, Final, Outcome
  <1>6. CASE Timeout(r)
    BY <1>6 DEF TypeOK, Timeout, Final
  <1>7. CASE HandlerShutdown(r)
    BY <1>7 DEF TypeOK, HandlerShutdown, Final
  <1> QED BY <1>1, <1>2, <1>3, <1>4, <1>5, <1>6, <1>7 DEF Handler

\* A reply to a caller has its type.
LEMMA OfferType ==
    ASSUME TypeOK, NEW q \in Requests, NEW outcome \in Outcome
    PROVE  Offer(respCh, q, outcome) \in [Requests -> {"none"} \union Outcome]
  BY DEF TypeOK, Offer

\* A response for a JobBuffer has its type.
LEMMA OfferResponseType ==
    ASSUME TypeOK, NEW t, NEW resp \in Response, OfferResponse(t, resp)
    PROVE  responseInputCh' \in [Topics -> Seq(Response)]
  <1>1. CASE UNCHANGED responseInputCh
    BY <1>1 DEF TypeOK
  <1>2. CASE t \in buffers /\ responseInputCh' = [responseInputCh EXCEPT ![t] = Append(@, resp)]
    <2>1. t \in Topics /\ responseInputCh[t] \in Seq(Response)
      BY <1>2 DEF TypeOK
    <2>2. Append(responseInputCh[t], resp) \in Seq(Response)
      BY <2>1, AppendProperties
    <2> QED BY <1>2, <2>1, <2>2 DEF TypeOK
  <1> QED BY <1>1, <1>2 DEF OfferResponse

\* A step of requestReceiverTask keeps the types.
LEMMA ReceiverTypeInv ==
    ASSUME TypeInv, Receiver
    PROVE  TypeInv'
  <1> USE WorkloadAssumption
      DEF TypeInv, DrainNeverBlocks, KnownAtLeader, BatchIDs,
          handlerVars, bufferVars, batchVars, leaderVars
  <1>0. producerCh # <<>> => Head(producerCh) \in Requests /\ Tail(producerCh) \in Seq(Requests)
    BY HeadTailProperties DEF TypeOK
  <1>1. CASE ReceiveJobs
    <2> DEFINE r == Head(producerCh)
               t == TopicOf[r]
    <2>1. r \in JobRequests /\ t \in Topics
      BY <1>1 DEF ReceiveJobs
    <2>2. producerCh' \in Seq(Requests) /\ buffers' \subseteq Topics
      BY <1>0, <1>1, <2>1 DEF ReceiveJobs, TypeOK
    <2>3. apiInputCh' \in [Topics -> Seq(JobRequests)]
      <3>1. Append(apiInputCh[t], r) \in Seq(JobRequests)
        BY <2>1, AppendProperties DEF TypeOK
      <3> QED BY <1>1, <2>1, <3>1 DEF ReceiveJobs, TypeOK
    <2>4. respCh' \in [Requests -> {"none"} \union Outcome]
      <3>1. Offer(respCh, r, "busy") \in [Requests -> {"none"} \union Outcome]
        BY <2>1, OfferType DEF Outcome, Requests
      <3> QED BY <1>1, <3>1 DEF ReceiveJobs, TypeOK
    <2> QED BY <1>1, <2>2, <2>3, <2>4 DEF ReceiveJobs, TypeOK
  <1>2. CASE ReceiveTopic
    <2> DEFINE r == Head(producerCh)
    <2>1. r \in TopicRequests /\ reqID[r] \in Nat
      BY <1>2 DEF ReceiveTopic, TypeOK, Requests
    <2>2. requestMap' \subseteq [id : Nat, req : TopicRequests]
      BY <1>2, <2>1 DEF ReceiveTopic, TypeOK, RequestMapPut
    <2>3. producerCh' \in Seq(Requests) /\ receiving' \in TopicRequests \union {NoReq}
      BY <1>0, <1>2, <2>1 DEF ReceiveTopic
    <2> QED BY <1>2, <2>2, <2>3 DEF ReceiveTopic, TypeOK
  <1>3. CASE TopicSendOk
    <2>1. receiving \in TopicRequests /\ reqID[receiving] \in Nat
      BY <1>3 DEF TopicSendOk, TypeOK, Requests
    <2>2. atLeader' \subseteq [id : Nat, origin : {"jobs", "topic"}]
      BY <1>3, <2>1 DEF TopicSendOk, TypeOK
    <2>3. receiving' \in TopicRequests \union {NoReq}
      BY <1>3 DEF TopicSendOk
    <2>4. KnownAtLeader'
      BY <1>3 DEF TopicSendOk
    <2> QED BY <1>3, <2>2, <2>3, <2>4 DEF TopicSendOk, TypeOK
  <1>4. CASE TopicSendErr
    <2>1. receiving \in TopicRequests
      BY <1>4 DEF TopicSendErr, TypeOK
    <2>2. respCh' \in [Requests -> {"none"} \union Outcome]
      BY <1>4, <2>1, OfferType DEF TopicSendErr, Outcome, Requests
    <2>3. requestMap' \subseteq requestMap /\ receiving' = NoReq
      BY <1>4 DEF TopicSendErr, RequestMapDelete
    <2> QED BY <1>4, <2>2, <2>3 DEF TopicSendErr, TypeOK
  <1> QED BY <1>1, <1>2, <1>3, <1>4 DEF Receiver

\* The requests that drain takes are job requests, and it leaves none behind.
LEMMA DrainedIsAll ==
    ASSUME TypeOK, DrainNeverBlocks, NEW t \in Topics
    PROVE  Drained(t) \subseteq JobRequests /\ LeftInStore(t) = <<>>
  <1>1. store[t] \in Seq(JobRequests) /\ bufferedCount[t] = Len(store[t])
    BY DEF TypeOK, DrainNeverBlocks
  <1>2. \A i \in 1..Len(store[t]) : store[t][i] \in JobRequests
    BY <1>1, ElementOfSeq
  <1>3. Len(store[t]) \in Nat
    BY <1>1, LenProperties
  <1> QED BY <1>1, <1>2, <1>3, SubSeqEmpty DEF Drained, LeftInStore

\* What dispatchResponse tells a caller is an outcome.
LEMMA CallerOutcomeType ==
    ASSUME NEW resp, NEW q PROVE CallerOutcome(resp, q) \in Outcome
  BY DEF CallerOutcome, Outcome

\* A step of a JobBuffer keeps the types.
LEMMA JobBufferTypeInv ==
    ASSUME TypeInv, NEW t \in Topics, JobBuffer(t)
    PROVE  TypeInv'
  <1> USE WorkloadAssumption
      DEF TypeInv, handlerVars, bufferVars, batchVars, leaderVars
  <1>0. apiInputCh[t] # <<>> =>
            Head(apiInputCh[t]) \in JobRequests /\ Tail(apiInputCh[t]) \in Seq(JobRequests)
    BY HeadTailProperties DEF TypeOK
  <1>1. CASE Buffer(t) /\ Len(store[t]) < StoreCap
    <2>1. Head(apiInputCh[t]) \in JobRequests /\ Tail(apiInputCh[t]) \in Seq(JobRequests)
      BY <1>0, <1>1 DEF Buffer
    <2>2. /\ Append(store[t], Head(apiInputCh[t])) \in Seq(JobRequests)
          /\ Len(Append(store[t], Head(apiInputCh[t]))) = Len(store[t]) + 1
      BY <2>1, AppendProperties DEF TypeOK
    <2>3. store' \in [Topics -> Seq(JobRequests)] /\ apiInputCh' \in [Topics -> Seq(JobRequests)]
      <3>1. /\ store' = [store EXCEPT ![t] = Append(store[t], Head(apiInputCh[t]))]
            /\ apiInputCh' = [apiInputCh EXCEPT ![t] = Tail(apiInputCh[t])]
        BY <1>1 DEF Buffer
      <3> QED BY <2>1, <2>2, <3>1 DEF TypeOK
    <2>4. bufferedCount' \in [Topics -> Nat]
      <3>1. bufferedCount \in [Topics -> Nat] /\ bufferedCount[t] + 1 \in Nat
        BY DEF TypeOK
      <3>2. bufferedCount' = [bufferedCount EXCEPT ![t] = bufferedCount[t] + 1]
        BY <1>1 DEF Buffer
      <3> QED BY <3>1, <3>2
    <2>5. TypeOK'
      BY <1>1, <2>3, <2>4 DEF Buffer, TypeOK, BatchIDs
    <2>6. DrainNeverBlocks'
      <3>1. /\ store' = [store EXCEPT ![t] = Append(store[t], Head(apiInputCh[t]))]
            /\ bufferedCount' = [bufferedCount EXCEPT ![t] = bufferedCount[t] + 1]
        BY <1>1 DEF Buffer
      <3> QED BY <3>1, <2>2 DEF DrainNeverBlocks, TypeOK
    <2> QED BY <1>1, <2>5, <2>6 DEF Buffer, KnownAtLeader, BatchIDs
  <1>2. CASE Buffer(t) /\ ~(Len(store[t]) < StoreCap)
    <2>1. apiInputCh' \in [Topics -> Seq(JobRequests)] /\ wedged' \subseteq Topics
      BY <1>0, <1>2 DEF Buffer, TypeOK
    <2> QED BY <1>2, <2>1 DEF Buffer, TypeOK, DrainNeverBlocks, KnownAtLeader, BatchIDs
  <1>3. CASE Drain(t)
    <2> DEFINE b == [topic |-> t, first |-> Head(store[t]), reqs |-> Drained(t)]
    <2>1. b \in Batch
      <3>1. Head(store[t]) \in JobRequests
        BY <1>3, HeadTailProperties DEF Drain, ReadyToDrain, TypeOK
      <3> QED BY <3>1, DrainedIsAll DEF Batch
    <2>2. /\ batches \in Seq(Batch)
          /\ batches' = Append(batches, b)
      BY <1>3 DEF Drain, TypeOK, Batch
    <2> HIDE DEF b
    <2>3. batches' \in Seq(Batch) /\ Len(batches') = Len(batches) + 1 /\ Len(batches) \in Nat
      BY <2>1, <2>2, AppendProperties, LenProperties
    <2>4. /\ BatchIDs' = BatchIDs \union {NextBatchID}
          /\ BatchIDs \subseteq BatchIDs'
          /\ NextBatchID \in BatchIDs'
      BY <2>3 DEF BatchIDs, NextBatchID
    <2>5. waitingMap' \in [Topics -> SUBSET BatchIDs']
      <3>1. waitingMap \in [Topics -> SUBSET BatchIDs]
        BY DEF TypeOK
      <3>2. waitingMap' = [waitingMap EXCEPT ![t] = @ \union {NextBatchID}]
        BY <1>3 DEF Drain
      <3> QED BY <3>1, <3>2, <2>4
    <2>6. pending' \in [Topics -> BatchIDs' \union {0}]
      <3>1. pending \in [Topics -> BatchIDs \union {0}]
        BY DEF TypeOK
      <3>2. pending' = [pending EXCEPT ![t] = NextBatchID]
        BY <1>3 DEF Drain
      <3> QED BY <3>1, <3>2, <2>4
    <2>7. sendJobsCh' \in Seq(BatchIDs')
      <3>1. sendJobsCh \in Seq(BatchIDs) /\ sendJobsCh' = sendJobsCh
        BY <1>3 DEF Drain, TypeOK
      <3> QED BY <3>1, <2>4, SeqMonotonic
    <2>8. sending' \in BatchIDs' \union {0}
      BY <1>3, <2>4 DEF Drain, TypeOK
    <2>9. requestIdToTopic' \subseteq [id : BatchIDs', topic : Topics \union {NoTopic}]
      <3>1. /\ requestIdToTopic \subseteq [id : BatchIDs, topic : Topics \union {NoTopic}]
            /\ requestIdToTopic' = requestIdToTopic
        BY <1>3 DEF Drain, TypeOK
      <3> QED BY <3>1, <2>4
    <2>10. store' = [store EXCEPT ![t] = <<>>] /\ bufferedCount' = [bufferedCount EXCEPT ![t] = 0]
      BY <1>3, DrainedIsAll DEF Drain
    <2>11. store' \in [Topics -> Seq(JobRequests)] /\ bufferedCount' \in [Topics -> Nat]
      BY <2>10, EmptySeq DEF TypeOK
    <2>12. TypeOK'
      BY <1>3, <2>3, <2>5, <2>6, <2>7, <2>8, <2>9, <2>11 DEF Drain, TypeOK, Batch
    <2>13. DrainNeverBlocks'
      BY <2>10, EmptySeq DEF DrainNeverBlocks, TypeOK
    <2>14. KnownAtLeader'
      BY <1>3, <2>4 DEF Drain, KnownAtLeader
    <2> QED BY <2>12, <2>13, <2>14
  <1>4. CASE PushBatch(t)
    <2>1. pending[t] \in BatchIDs
      BY <1>4 DEF PushBatch, TypeOK
    <2>2. sendJobsCh' \in Seq(BatchIDs)
      BY <1>4, <2>1, AppendProperties DEF PushBatch, TypeOK
    <2>3. pending' \in [Topics -> BatchIDs \union {0}]
      BY <1>4 DEF PushBatch, TypeOK
    <2> QED BY <1>4, <2>2, <2>3 DEF PushBatch, TypeOK, DrainNeverBlocks, KnownAtLeader, BatchIDs
  <1>5. CASE Dispatch(t)
    <2> DEFINE resp == Head(responseInputCh[t])
    <2>1. Tail(responseInputCh[t]) \in Seq(Response)
      BY <1>5, HeadTailProperties DEF Dispatch, TypeOK
    <2>2. responseInputCh' \in [Topics -> Seq(Response)]
      BY <1>5, <2>1 DEF Dispatch, TypeOK
    <2>3. /\ respCh' \in [Requests -> {"none"} \union Outcome]
          /\ waitingMap' \in [Topics -> SUBSET BatchIDs]
      <3>1. CASE resp.id \in waitingMap[t]
        <4>1. respCh' = [r \in Requests |->
                  IF r \in batches[resp.id].reqs
                  THEN Offer(respCh, r, CallerOutcome(resp, r))[r]
                  ELSE respCh[r]]
          BY <1>5, <3>1 DEF Dispatch
        <4>2. \A r \in Requests :
                  Offer(respCh, r, CallerOutcome(resp, r))[r] \in {"none"} \union Outcome
          BY CallerOutcomeType, OfferType
        <4>3. respCh' \in [Requests -> {"none"} \union Outcome]
          BY <4>1, <4>2 DEF TypeOK
        <4>4. waitingMap' = [waitingMap EXCEPT ![t] = @ \ {resp.id}]
          BY <1>5, <3>1 DEF Dispatch
        <4> QED BY <4>3, <4>4 DEF TypeOK
      <3>2. CASE resp.id \notin waitingMap[t]
        BY <1>5, <3>2 DEF Dispatch, TypeOK
      <3> QED BY <3>1, <3>2
    <2> QED BY <1>5, <2>2, <2>3 DEF Dispatch, TypeOK, DrainNeverBlocks, KnownAtLeader, BatchIDs
  <1> QED BY <1>1, <1>2, <1>3, <1>4, <1>5 DEF JobBuffer

\* A step of sendJobsHandler keeps the types.
LEMMA SenderTypeInv ==
    ASSUME TypeInv, Sender
    PROVE  TypeInv'
  <1> USE WorkloadAssumption
      DEF TypeInv, handlerVars, bufferVars, batchVars, leaderVars
  <1>0. \A id \in BatchIDs : id \in Nat /\ JobTopicOf[batches[id].first] \in Topics \union {NoTopic}
    <2> TAKE id \in BatchIDs
    <2>1. batches[id] \in Batch
      BY ElementOfSeq DEF TypeOK, Batch, BatchIDs
    <2>2. id \in Nat
      BY LenProperties DEF TypeOK, BatchIDs
    <2> QED BY <2>1, <2>2 DEF Batch
  <1>1. CASE TakeBatch
    <2> DEFINE id == Head(sendJobsCh)
    <2>1. id \in BatchIDs /\ Tail(sendJobsCh) \in Seq(BatchIDs)
      BY <1>1, HeadTailProperties DEF TakeBatch, TypeOK
    <2>2. requestIdToTopic' \subseteq [id : BatchIDs, topic : Topics \union {NoTopic}]
      <3>1. requestIdToTopic' = RequestIdToTopicPut(id, JobTopicOf[batches[id].first])
        BY <1>1 DEF TakeBatch
      <3>2. [id |-> id, topic |-> JobTopicOf[batches[id].first]]
                \in [id : BatchIDs, topic : Topics \union {NoTopic}]
        BY <1>0, <2>1
      <3>3. requestIdToTopic \subseteq [id : BatchIDs, topic : Topics \union {NoTopic}]
        BY DEF TypeOK
      <3> QED BY <3>1, <3>2, <3>3 DEF RequestIdToTopicPut
    <2>3. sending' \in BatchIDs \union {0} /\ sendJobsCh' \in Seq(BatchIDs)
      BY <1>1, <2>1 DEF TakeBatch
    <2> QED BY <1>1, <2>2, <2>3 DEF TakeBatch, TypeOK, DrainNeverBlocks, KnownAtLeader, BatchIDs
  <1>2. CASE SendBatchOk
    <2>1. sending \in BatchIDs /\ sending \in Nat
      BY <1>0, <1>2 DEF SendBatchOk, TypeOK
    <2>2. atLeader' \subseteq [id : Nat, origin : {"jobs", "topic"}]
      BY <1>2, <2>1 DEF SendBatchOk, TypeOK
    <2>3. KnownAtLeader'
      BY <1>2, <2>1 DEF SendBatchOk, KnownAtLeader, BatchIDs
    <2>4. sending' \in BatchIDs \union {0}
      BY <1>2 DEF SendBatchOk
    <2> QED BY <1>2, <2>2, <2>3, <2>4 DEF SendBatchOk, TypeOK, DrainNeverBlocks, BatchIDs
  <1>3. CASE SendBatchErr
    <2> DEFINE resp == [id |-> sending, origin |-> "proxy", status |-> "error", failures |-> {}]
    <2>1. sending \in Nat
      BY <1>0, <1>3 DEF SendBatchErr, TypeOK
    <2>2. resp \in Response
      BY <2>1 DEF Response
    <2>3. responseInputCh' \in [Topics -> Seq(Response)]
      BY <1>3, <2>2, OfferResponseType DEF SendBatchErr
    <2>4. requestIdToTopic' \subseteq requestIdToTopic /\ sending' = 0
      BY <1>3 DEF SendBatchErr, RequestIdToTopicDelete
    <2> QED BY <1>3, <2>3, <2>4 DEF SendBatchErr, TypeOK, DrainNeverBlocks, KnownAtLeader, BatchIDs
  <1> QED BY <1>1, <1>2, <1>3 DEF Sender

\* The leader answers with responses, about jobs only that were in the batch.
LEMMA VerdictsType ==
    ASSUME TypeInv, NEW m \in atLeader
    PROVE  Verdicts(m) \subseteq Response
  <1>1. m.id \in Nat /\ m.origin \in {"jobs", "topic"}
    BY DEF TypeInv, TypeOK
  <1>2. m.origin = "jobs" => JobsIn(m.id) \subseteq Jobs
    <2> SUFFICES ASSUME m.origin = "jobs" PROVE JobsIn(m.id) \subseteq Jobs
      OBVIOUS
    <2>1. m.id \in BatchIDs
      BY DEF TypeInv, KnownAtLeader
    <2>2. batches[m.id] \in Batch
      BY <2>1, ElementOfSeq DEF TypeInv, TypeOK, Batch, BatchIDs
    <2>3. \A r \in batches[m.id].reqs : JobsOf[r] \subseteq Jobs
      BY <2>2, WorkloadAssumption DEF Batch
    <2> QED BY <2>3 DEF JobsIn
  <1>3. ASSUME NEW f, f \in IF m.origin = "jobs" THEN SUBSET JobsIn(m.id) ELSE {{}}
        PROVE  f \subseteq Jobs
    BY <1>2, <1>3
  <1>4. ASSUME NEW s \in {"success", "error"}, NEW f \in SUBSET Jobs
        PROVE  [id |-> m.id, origin |-> m.origin, status |-> s, failures |-> f] \in Response
    BY <1>1 DEF Response
  <1> QED BY <1>3, <1>4 DEF Verdicts

\* A step of the network or of the leader keeps the types.
LEMMA NetworkTypeInv ==
    ASSUME TypeInv, Network
    PROVE  TypeInv'
  <1> USE DEF TypeInv, handlerVars, bufferVars, batchVars, leaderVars
  <1>1. CASE AttemptDelivered
    <2>1. sending # 0 => sending \in BatchIDs /\ sending \in Nat
      BY LenProperties DEF TypeOK, BatchIDs
    <2>2. receiving # NoReq => reqID[receiving] \in Nat
      BY DEF TypeOK, Requests
    <2>3. PICK m : /\ m \in [id : Nat, origin : {"jobs", "topic"}]
                   /\ m.origin = "jobs" => m.id \in BatchIDs
                   /\ atLeader' = atLeader \union {m}
      BY <1>1, <2>1, <2>2 DEF AttemptDelivered
    <2>4. atLeader' \subseteq [id : Nat, origin : {"jobs", "topic"}]
      BY <2>3 DEF TypeOK
    <2>5. KnownAtLeader'
      BY <1>1, <2>3 DEF AttemptDelivered, KnownAtLeader, BatchIDs
    <2> QED BY <1>1, <2>4, <2>5 DEF AttemptDelivered, TypeOK, DrainNeverBlocks, BatchIDs
  <1>2. ASSUME NEW m \in atLeader, LeaderAnswer(m) PROVE TypeInv'
    <2>1. answered' \subseteq Response /\ responses' \subseteq Response
      BY <1>2, VerdictsType DEF LeaderAnswer, TypeOK
    <2> QED BY <1>2, <2>1 DEF LeaderAnswer, TypeOK, DrainNeverBlocks, KnownAtLeader, BatchIDs
  <1> QED BY <1>1, <1>2 DEF Network

\* A step of handleResponse keeps the types.
LEMMA HandleResponseTypeInv ==
    ASSUME TypeInv, HandleResponse
    PROVE  TypeInv'
  <1> USE DEF TypeInv, handlerVars, bufferVars, batchVars, leaderVars
  <1>1. ASSUME NEW resp \in responses, RouteToTopicCaller(resp) PROVE TypeInv'
    <2>1. PICK e \in requestMap :
              /\ requestMap' = RequestMapDelete(resp.id)
              /\ respCh' = Offer(respCh, e.req, TopicOutcome(resp))
      BY <1>1 DEF RouteToTopicCaller
    <2>2. e.req \in Requests /\ TopicOutcome(resp) \in Outcome
      BY DEF TypeOK, Requests, TopicOutcome, Outcome
    <2>3. respCh' \in [Requests -> {"none"} \union Outcome]
      BY <2>1, <2>2, OfferType
    <2>4. requestMap' \subseteq requestMap /\ responses' \subseteq responses
      BY <1>1, <2>1 DEF RouteToTopicCaller, RequestMapDelete
    <2> QED BY <1>1, <2>3, <2>4
            DEF RouteToTopicCaller, TypeOK, DrainNeverBlocks, KnownAtLeader, BatchIDs
  <1>2. ASSUME NEW resp \in responses, LookUpBatch(resp) PROVE TypeInv'
    <2>1. handling' \subseteq [resp : Response, topic : Topics \union {NoTopic}]
      <3>1. \A e \in requestIdToTopic :
                [resp |-> resp, topic |-> e.topic] \in [resp : Response, topic : Topics \union {NoTopic}]
        BY DEF TypeOK
      <3> QED BY <1>2, <3>1 DEF LookUpBatch, TypeOK
    <2>2. responses' \subseteq responses
      BY <1>2 DEF LookUpBatch
    <2> QED BY <1>2, <2>1, <2>2
            DEF LookUpBatch, TypeOK, DrainNeverBlocks, KnownAtLeader, BatchIDs
  <1>3. ASSUME NEW h \in handling, ForwardResponse(h) PROVE TypeInv'
    <2>1. h.resp \in Response
      BY DEF TypeOK
    <2>2. responseInputCh' \in [Topics -> Seq(Response)]
      BY <1>3, <2>1, OfferResponseType DEF ForwardResponse
    <2>3. requestIdToTopic' \subseteq requestIdToTopic /\ handling' \subseteq handling
      BY <1>3 DEF ForwardResponse, RequestIdToTopicDelete
    <2> QED BY <1>3, <2>2, <2>3
            DEF ForwardResponse, TypeOK, DrainNeverBlocks, KnownAtLeader, BatchIDs
  <1> QED BY <1>1, <1>2, <1>3 DEF HandleResponse

\* Every step keeps the types.
LEMMA NextTypeInv == TypeInv /\ [Next]_vars => TypeInv'
  <1> SUFFICES ASSUME TypeInv, [Next]_vars PROVE TypeInv'
    OBVIOUS
  <1>1. CASE Shutdown
    BY <1>1 DEF Shutdown, handlerVars, bufferVars, batchVars, leaderVars, TypeInv, TypeOK,
                DrainNeverBlocks, KnownAtLeader, BatchIDs
  <1>2. CASE UNCHANGED vars
    BY <1>2 DEF vars, handlerVars, bufferVars, batchVars, leaderVars, TypeInv, TypeOK,
                DrainNeverBlocks, KnownAtLeader, BatchIDs
  <1> QED
    BY <1>1, <1>2, HandlerTypeInv, ReceiverTypeInv, JobBufferTypeInv, SenderTypeInv,
       NetworkTypeInv, HandleResponseTypeInv DEF Next

\* The type invariant holds throughout.
LEMMA TypeInvHolds == Spec => []TypeInv
  BY InitTypeInv, NextTypeInv, PTL DEF Spec

\* Every reachable state of the producer path is well-typed: in particular every
\* batch ID in a table, a channel or a goroutine is that of a batch drain made.
THEOREM ProducerTypes == Spec => []TypeOK
  BY TypeInvHolds, PTL DEF TypeInv

\* drain finds in the store the bufferedCount requests it receives from it, so
\* its blocking receives never block the JobBuffer.
THEOREM DrainsWithoutBlocking == Spec => []DrainNeverBlocks
  BY TypeInvHolds, PTL DEF TypeInv

-----------------------------------------------------------------------------
(* Places                                                                  *)

\* The initial state: nothing is anywhere.
LEMMA InitPlaceInv == Init => PlaceInv
  <1> SUFFICES ASSUME Init PROVE PlaceInv
    OBVIOUS
  <1>1. BatchIDs = {}
    BY EmptySeq DEF Init, BatchIDs
  <1>2. /\ Contents(producerCh) = {} /\ Distinct(producerCh)
        /\ \A t \in Topics : /\ Contents(apiInputCh[t]) = {} /\ Distinct(apiInputCh[t])
                             /\ Contents(store[t]) = {} /\ Distinct(store[t])
    BY EmptyQueue DEF Init
  <1>3. \A r \in Requests : respCh[r] # "busy"
    BY DEF Init
  <1> QED BY <1>1, <1>2, <1>3
          DEF PlaceInv, QueuesApart, BatchesApart, TurnedAwayIsNowhere, Nowhere, Requests

\* The queues hold requests.
LEMMA QueueTypes ==
    ASSUME TypeOK
    PROVE  /\ producerCh \in Seq(Requests) /\ Contents(producerCh) \subseteq Requests
           /\ \A t \in Topics :
                 /\ apiInputCh[t] \in Seq(JobRequests) /\ Contents(apiInputCh[t]) \subseteq JobRequests
                 /\ store[t] \in Seq(JobRequests) /\ Contents(store[t]) \subseteq JobRequests
  BY ContentsType DEF TypeOK

\* A step that moves no request: only a handler may leave its first states, and only
\* to say 503 or what its respCh says.
LEMMA SamePlaces ==
    ASSUME PlaceInv, UNCHANGED <<producerCh, apiInputCh, store, batches>>,
           \A r \in Requests :
              /\ http'[r] \in {"idle", "sending"} => http[r] \in {"idle", "sending"}
              /\ respCh'[r] = "busy" => respCh[r] = "busy"
              /\ r \in JobRequests /\ http'[r] \in {"busy", "503"} =>
                    http[r] \in {"idle", "sending", "busy", "503"} \/ respCh[r] = "busy"
    PROVE  PlaceInv'
  <1>1. \A r : Nowhere(r) <=> Nowhere(r)'
    BY DEF Nowhere, BatchIDs
  <1>2. QueuesApart' /\ BatchesApart'
    BY DEF PlaceInv, QueuesApart, BatchesApart, BatchIDs
  <1>3. TurnedAwayIsNowhere'
    BY <1>1 DEF PlaceInv, TurnedAwayIsNowhere, Requests
  <1> QED BY <1>2, <1>3 DEF PlaceInv

\* A step that moves requests on: none comes out of nowhere, and one that is turned
\* away goes nowhere.
LEMMA MovedOn ==
    ASSUME PlaceInv, UNCHANGED http,
           \A r \in Requests : Nowhere(r) => Nowhere(r)',
           \A r \in Requests : respCh'[r] = "busy" =>
              respCh[r] = "busy" \/ (http[r] \notin {"idle", "sending"} /\ Nowhere(r)')
    PROVE  TurnedAwayIsNowhere'
  BY DEF PlaceInv, TurnedAwayIsNowhere, Requests

\* A handler puts its own request on producerCh, and that one was nowhere.
LEMMA HandlerPlaceInv ==
    ASSUME TypeInv, PlaceInv, NEW r \in Requests, Handler(r)
    PROVE  PlaceInv'
  <1> USE DEF TypeInv, bufferVars, batchVars
  <1>1. CASE Enqueue(r)
    <2>1. /\ http[r] = "sending" /\ http' = [http EXCEPT ![r] = "waiting"]
          /\ producerCh' = Append(producerCh, r)
          /\ UNCHANGED <<apiInputCh, store, batches, respCh>>
      BY <1>1 DEF Enqueue
    <2>2. Nowhere(r) /\ respCh[r] # "busy"
      BY <2>1 DEF PlaceInv, TurnedAwayIsNowhere
    <2>3. Contents(producerCh') = Contents(producerCh) \union {r} /\ Distinct(producerCh')
      BY <2>1, <2>2, AppendToQueue DEF TypeOK, Nowhere, PlaceInv, QueuesApart
    <2>4. QueuesApart' /\ BatchesApart'
      BY <2>1, <2>2, <2>3 DEF PlaceInv, QueuesApart, BatchesApart, Nowhere, BatchIDs
    <2>5. \A q \in Requests : q # r => http'[q] = http[q] /\ (Nowhere(q) => Nowhere(q)')
      BY <2>1, <2>3 DEF TypeOK, Nowhere, BatchIDs
    <2>6. http'[r] = "waiting"
      BY <2>1 DEF TypeOK
    <2>7. TurnedAwayIsNowhere'
      BY <2>1, <2>2, <2>5, <2>6 DEF PlaceInv, TurnedAwayIsNowhere, Requests
    <2> QED BY <2>4, <2>7 DEF PlaceInv
  <1>2. CASE Reply(r)
    <2>1. /\ UNCHANGED <<producerCh, apiInputCh, store, batches>>
          /\ http' = [http EXCEPT ![r] = IF respCh[r] = "success" THEN "200" ELSE respCh[r]]
          /\ respCh' = [respCh EXCEPT ![r] = "none"]
      BY <1>2 DEF Reply
    <2>2. \A q \in Requests :
              /\ q # r => http'[q] = http[q] /\ respCh'[q] = respCh[q]
              /\ respCh'[r] = "none"
              /\ http'[r] \notin {"idle", "sending", "503"}
              /\ http'[r] = "busy" => respCh[r] = "busy"
      BY <2>1 DEF TypeOK, Outcome
    <2> QED BY <2>1, <2>2, SamePlaces
  <1>3. CASE \/ RejectNoLeader(r) \/ Submit(r) \/ EnqueueTimeout(r)
             \/ Timeout(r) \/ HandlerShutdown(r)
    <2>1. UNCHANGED <<producerCh, apiInputCh, store, batches, respCh>>
      BY <1>3 DEF RejectNoLeader, Submit, EnqueueTimeout, Timeout, HandlerShutdown
    <2>2. \A q \in Requests : q # r => http'[q] = http[q]
      BY <1>3 DEF RejectNoLeader, Submit, EnqueueTimeout, Timeout, HandlerShutdown, TypeOK
    <2>3. /\ http'[r] \in {"idle", "sending"} => http[r] \in {"idle", "sending"}
          /\ r \in JobRequests /\ http'[r] \in {"busy", "503"} => http[r] \in {"idle", "sending"}
      BY <1>3, WorkloadAssumption
         DEF RejectNoLeader, Submit, EnqueueTimeout, Timeout, HandlerShutdown, TypeOK
    <2> QED BY <2>1, <2>2, <2>3, SamePlaces
  <1> QED BY <1>1, <1>2, <1>3 DEF Handler

\* requestReceiverTask takes a request off producerCh: it goes to its JobBuffer, is
\* turned away, or is sent to the leader by itself.
LEMMA ReceiverPlaceInv ==
    ASSUME TypeInv, PlaceInv, Receiver
    PROVE  PlaceInv'
  <1> USE WorkloadAssumption DEF TypeInv, handlerVars, bufferVars, batchVars
  <1> PICK r : r = Head(producerCh)
    OBVIOUS
  <1>0. producerCh # <<>> =>
            /\ r \in Requests
            /\ Contents(producerCh) = Contents(Tail(producerCh)) \union {r}
            /\ Distinct(Tail(producerCh)) /\ r \notin Contents(Tail(producerCh))
            /\ http[r] \notin {"idle", "sending"}
    <2> SUFFICES ASSUME producerCh # <<>>
                 PROVE  /\ r \in Requests
                        /\ Contents(producerCh) = Contents(Tail(producerCh)) \union {r}
                        /\ Distinct(Tail(producerCh)) /\ r \notin Contents(Tail(producerCh))
                        /\ http[r] \notin {"idle", "sending"}
      OBVIOUS
    <2>1. /\ r \in Requests
          /\ Contents(producerCh) = Contents(Tail(producerCh)) \union {r}
          /\ Distinct(Tail(producerCh)) /\ r \notin Contents(Tail(producerCh))
      BY TakeFromQueue DEF TypeOK, PlaceInv, QueuesApart
    <2>2. ~Nowhere(r)
      BY <2>1 DEF Nowhere
    <2> QED BY <2>1, <2>2 DEF PlaceInv, TurnedAwayIsNowhere
  <1>1. CASE ReceiveTopic
    <2>1. /\ producerCh # <<>> /\ producerCh' = Tail(producerCh)
          /\ UNCHANGED <<http, respCh, apiInputCh, store, batches>>
      BY <1>1 DEF ReceiveTopic
    <2>2. QueuesApart' /\ BatchesApart'
      BY <1>0, <2>1 DEF PlaceInv, QueuesApart, BatchesApart, BatchIDs
    <2>3. \A q \in Requests : Nowhere(q) => Nowhere(q)'
      BY <1>0, <2>1 DEF Nowhere, BatchIDs
    <2> QED BY <2>1, <2>2, <2>3, MovedOn DEF PlaceInv
  <1>2. CASE ReceiveJobs
    <2> DEFINE t == TopicOf[r]
    <2>1. /\ producerCh # <<>> /\ producerCh' = Tail(producerCh) /\ r \in JobRequests
          /\ UNCHANGED <<http, store, batches>>
      BY <1>2 DEF ReceiveJobs
    <2>2. t \in Topics
      BY <2>1
    <2>3. /\ \A u \in Topics : r \notin Contents(apiInputCh[u]) /\ r \notin Contents(store[u])
          /\ \A i \in BatchIDs : r \notin batches[i].reqs
      BY <1>0, <2>1 DEF PlaceInv, QueuesApart, BatchesApart
    <2>4. CASE apiInputCh' = apiInputCh /\ respCh' = Offer(respCh, r, "busy")
      <3>1. QueuesApart' /\ BatchesApart'
        BY <1>0, <2>1, <2>4 DEF PlaceInv, QueuesApart, BatchesApart, BatchIDs
      <3>2. \A q \in Requests : Nowhere(q) => Nowhere(q)'
        BY <1>0, <2>1, <2>4 DEF Nowhere, BatchIDs
      <3>3. Nowhere(r)'
        BY <1>0, <2>1, <2>3, <2>4 DEF Nowhere, BatchIDs
      <3>4. \A q \in Requests : respCh'[q] = respCh[q] \/ q = r
        BY <2>4 DEF Offer, TypeOK
      <3>5. TurnedAwayIsNowhere'
        BY <1>0, <2>1, <3>2, <3>3, <3>4, MovedOn
      <3> QED BY <3>1, <3>5 DEF PlaceInv
    <2>5. CASE apiInputCh' = [apiInputCh EXCEPT ![t] = Append(apiInputCh[t], r)] /\ respCh' = respCh
      <3>1. /\ Contents(Append(apiInputCh[t], r)) = Contents(apiInputCh[t]) \union {r}
            /\ Distinct(Append(apiInputCh[t], r))
        BY <2>1, <2>2, <2>3, AppendToQueue DEF TypeOK, PlaceInv, QueuesApart
      <3>2. /\ apiInputCh'[t] = Append(apiInputCh[t], r)
            /\ \A u \in Topics : u # t => apiInputCh'[u] = apiInputCh[u]
        BY <2>2, <2>5 DEF TypeOK
      <3> HIDE DEF t
      <3>3. ASSUME NEW u \in Topics
            PROVE  /\ Distinct(apiInputCh'[u])
                   /\ \A q : q \in Contents(apiInputCh'[u]) <=>
                                q \in Contents(apiInputCh[u]) \/ (u = t /\ q = r)
        <4>1. CASE u = t
          BY <3>1, <3>2, <4>1
        <4>2. CASE u # t
          BY <3>2, <4>2 DEF PlaceInv, QueuesApart
        <4> QED BY <4>1, <4>2
      <3>4. QueuesApart'
        <4>1. ASSUME NEW u \in Topics
              PROVE  /\ \A q \in Contents(apiInputCh'[u]) :
                           q \notin Contents(producerCh') /\ TopicOf[q] = u
                     /\ \A q \in Contents(store[u]) :
                           /\ q \notin Contents(producerCh') /\ TopicOf[q] = u
                           /\ q \notin Contents(apiInputCh'[u])
          <5>1. /\ \A q \in Contents(apiInputCh[u]) :
                      q \notin Contents(producerCh) /\ TopicOf[q] = u
                /\ \A q \in Contents(store[u]) :
                      /\ q \notin Contents(producerCh) /\ TopicOf[q] = u
                      /\ q \notin Contents(apiInputCh[u])
            BY DEF PlaceInv, QueuesApart
          <5>2. \A q : q \in Contents(apiInputCh'[u]) <=>
                          q \in Contents(apiInputCh[u]) \/ (u = t /\ q = r)
            BY <3>3
          <5> QED BY <1>0, <2>1, <2>3, <5>1, <5>2 DEF t
        <4> QED BY <1>0, <2>1, <3>3, <4>1 DEF PlaceInv, QueuesApart
      <3>5. BatchesApart'
        BY <1>0, <2>1, <2>3, <3>3 DEF PlaceInv, BatchesApart, BatchIDs
      <3>6. \A q \in Requests : Nowhere(q) => Nowhere(q)'
        BY <1>0, <2>1, <3>3 DEF Nowhere, BatchIDs
      <3>7. TurnedAwayIsNowhere'
        BY <2>1, <2>5, <3>6, MovedOn
      <3> QED BY <3>4, <3>5, <3>7 DEF PlaceInv
    <2> QED BY <1>2, <2>4, <2>5 DEF ReceiveJobs
  <1>3. CASE TopicSendOk \/ TopicSendErr
    <2>1. UNCHANGED <<http, producerCh, apiInputCh, store, batches>>
      BY <1>3 DEF TopicSendOk, TopicSendErr
    <2>2. respCh' = respCh \/ respCh' = Offer(respCh, receiving, "unsent")
      BY <1>3 DEF TopicSendOk, TopicSendErr
    <2>3. \A q \in Requests : respCh'[q] = "busy" => respCh[q] = "busy"
      BY <2>2 DEF Offer, TypeOK
    <2> QED BY <2>1, <2>3, SamePlaces
  <1> QED BY <1>1, <1>2, <1>3 DEF Receiver

\* A JobBuffer moves a request from apiInputCh to its store, and drain all that are
\* in the store to a new batch.
LEMMA JobBufferPlaceInv ==
    ASSUME TypeInv, PlaceInv, NEW t \in Topics, JobBuffer(t)
    PROVE  PlaceInv'
  <1> USE WorkloadAssumption DEF TypeInv, handlerVars, bufferVars, batchVars
  <1>1. CASE Buffer(t)
    <2> DEFINE r == Head(apiInputCh[t])
    <2>1. /\ r \in JobRequests
          /\ Contents(apiInputCh[t]) = Contents(Tail(apiInputCh[t])) \union {r}
          /\ Distinct(Tail(apiInputCh[t])) /\ r \notin Contents(Tail(apiInputCh[t]))
      BY <1>1, TakeFromQueue DEF Buffer, TypeOK, PlaceInv, QueuesApart
    <2>2. /\ UNCHANGED <<http, respCh, producerCh, batches>>
          /\ apiInputCh'[t] = Tail(apiInputCh[t])
          /\ \A u \in Topics : u # t => apiInputCh'[u] = apiInputCh[u]
      BY <1>1 DEF Buffer, TypeOK
    <2>3. \/ store' = store
          \/ store' = [store EXCEPT ![t] = Append(store[t], r)]
      BY <1>1 DEF Buffer
    <2> HIDE DEF r
    <2>4. /\ r \notin Contents(producerCh) /\ r \notin Contents(store[t]) /\ TopicOf[r] = t
          /\ \A i \in BatchIDs : r \notin batches[i].reqs
      BY <2>1 DEF PlaceInv, QueuesApart, BatchesApart
    <2>5. /\ Contents(Append(store[t], r)) = Contents(store[t]) \union {r}
          /\ Distinct(Append(store[t], r))
      BY <2>1, <2>4, AppendToQueue DEF TypeOK, PlaceInv, QueuesApart
    <2>6. \A u \in Topics : store'[u] = store[u] \/ (u = t /\ store'[u] = Append(store[t], r))
      BY <2>3 DEF TypeOK
    <2>7. ASSUME NEW u \in Topics
          PROVE  /\ Distinct(store'[u]) /\ Distinct(apiInputCh'[u])
                 /\ \A q \in Contents(store'[u]) : q \in Contents(store[u]) \/ (u = t /\ q = r)
                 /\ \A q \in Contents(apiInputCh'[u]) : q \in Contents(apiInputCh[u])
                 /\ u = t => r \notin Contents(apiInputCh'[u])
      <3>1. Distinct(store[u]) /\ Distinct(apiInputCh[u])
        BY DEF PlaceInv, QueuesApart
      <3>2. CASE u # t
        BY <2>2, <2>6, <3>1, <3>2
      <3>3. CASE u = t
        BY <2>1, <2>2, <2>5, <2>6, <3>1, <3>3
      <3> QED BY <3>2, <3>3
    <2>8. QueuesApart'
      BY <2>2, <2>4, <2>7 DEF PlaceInv, QueuesApart
    <2>9. BatchesApart'
      <3> SUFFICES ASSUME NEW i \in BatchIDs, NEW q \in batches[i].reqs
                   PROVE  /\ q \notin Contents(producerCh)
                          /\ \A u \in Topics :
                                q \notin Contents(apiInputCh'[u]) /\ q \notin Contents(store'[u])
                          /\ \A k \in BatchIDs : q \in batches[k].reqs => i = k
        BY <2>2 DEF BatchesApart, BatchIDs
      <3>1. q # r
        BY <2>4
      <3> QED BY <2>7, <3>1 DEF PlaceInv, BatchesApart
    <2>10. \A q \in Requests : Nowhere(q) => Nowhere(q)'
      <3>1. ~Nowhere(r)
        BY <2>1 DEF Nowhere
      <3>2. ASSUME NEW q \in Requests, Nowhere(q), NEW u \in Topics
            PROVE  q \notin Contents(apiInputCh'[u]) /\ q \notin Contents(store'[u])
        BY <2>7, <3>1, <3>2 DEF Nowhere
      <3> QED BY <2>2, <3>2 DEF Nowhere, BatchIDs
    <2> QED BY <2>2, <2>8, <2>9, <2>10, MovedOn DEF PlaceInv
  <1>2. CASE Drain(t)
    <2> DEFINE b == [topic |-> t, first |-> Head(store[t]), reqs |-> Drained(t)]
    <2>1. Drained(t) = Contents(store[t])
      <3>1. store[t] \in Seq(JobRequests) /\ bufferedCount[t] = Len(store[t])
        BY DEF TypeOK, DrainNeverBlocks
      <3>2. DOMAIN store[t] = 1..Len(store[t])
        BY <3>1, LenProperties
      <3> QED BY <3>1, <3>2 DEF Drained, Contents
    <2>2. /\ store' = [store EXCEPT ![t] = <<>>]
          /\ UNCHANGED <<http, respCh, producerCh, apiInputCh>>
      BY <1>2, DrainedIsAll DEF Drain
    <2>3. /\ Contents(store'[t]) = {} /\ Distinct(store'[t])
          /\ \A u \in Topics : u # t => store'[u] = store[u]
      BY <2>2, EmptyQueue DEF TypeOK
    <2>4. b \in Batch
      <3>1. Head(store[t]) \in JobRequests
        BY <1>2, HeadTailProperties DEF Drain, ReadyToDrain, TypeOK
      <3> QED BY <3>1, DrainedIsAll DEF Batch
    <2>5. batches \in Seq(Batch) /\ batches' = Append(batches, b)
      BY <1>2 DEF Drain, TypeOK, Batch
    <2> HIDE DEF b
    <2>6. /\ Len(batches) \in Nat /\ Len(batches') = Len(batches) + 1
          /\ \A i \in 1..Len(batches) : batches'[i] = batches[i]
          /\ batches'[Len(batches) + 1] = b
      BY <2>4, <2>5, AppendProperties, LenProperties
    <2>7. /\ BatchIDs' = BatchIDs \union {NextBatchID}
          /\ NextBatchID \notin BatchIDs
      BY <2>6 DEF BatchIDs, NextBatchID
    <2>8. \A i \in BatchIDs : batches'[i].reqs = batches[i].reqs
      BY <2>6 DEF BatchIDs
    <2>9. batches'[NextBatchID].reqs = Contents(store[t])
      BY <2>1, <2>6 DEF NextBatchID, b
    <2>10. QueuesApart'
      BY <2>2, <2>3 DEF PlaceInv, QueuesApart
    <2>11. ASSUME NEW q \in Contents(store[t])
           PROVE  /\ q \notin Contents(producerCh')
                  /\ \A u \in Topics : q \notin Contents(apiInputCh'[u]) /\ q \notin Contents(store'[u])
                  /\ \A i \in BatchIDs : q \notin batches[i].reqs
      BY <2>2, <2>3 DEF PlaceInv, QueuesApart, BatchesApart
    <2>12. \A u \in Topics : Contents(store'[u]) \subseteq Contents(store[u])
      BY <2>3
    <2>13. BatchesApart'
      <3> SUFFICES ASSUME NEW i \in BatchIDs', NEW q \in batches'[i].reqs
                   PROVE  /\ q \notin Contents(producerCh')
                          /\ \A u \in Topics :
                                q \notin Contents(apiInputCh'[u]) /\ q \notin Contents(store'[u])
                          /\ \A k \in BatchIDs' : q \in batches'[k].reqs => i = k
        BY DEF BatchesApart
      <3>1. CASE i = NextBatchID
        BY <2>7, <2>8, <2>9, <2>11, <3>1
      <3>2. CASE i \in BatchIDs
        <4>1. /\ q \notin Contents(producerCh)
              /\ \A u \in Topics : q \notin Contents(apiInputCh[u]) /\ q \notin Contents(store[u])
              /\ \A k \in BatchIDs : q \in batches[k].reqs => i = k
          BY <2>8, <3>2 DEF PlaceInv, BatchesApart
        <4>2. q \notin Contents(store[t])
          BY <4>1
        <4>3. \A k \in BatchIDs' : q \in batches'[k].reqs => i = k
          BY <2>7, <2>8, <2>9, <4>1, <4>2
        <4> QED BY <2>2, <2>12, <4>1, <4>3
      <3> QED BY <2>7, <3>1, <3>2
    <2>14. \A q \in Requests : Nowhere(q) => Nowhere(q)'
      BY <2>2, <2>7, <2>8, <2>9, <2>12 DEF Nowhere
    <2> QED BY <2>2, <2>10, <2>13, <2>14, MovedOn DEF PlaceInv
  <1>3. CASE PushBatch(t)
    BY <1>3, SamePlaces DEF PushBatch
  <1>4. CASE Dispatch(t)
    <2> DEFINE resp == Head(responseInputCh[t])
    <2>1. UNCHANGED <<http, producerCh, apiInputCh, store, batches>>
      BY <1>4 DEF Dispatch
    <2>2. \A q \in Requests : respCh'[q] = respCh[q] \/ respCh'[q] = CallerOutcome(resp, q)
      BY <1>4 DEF Dispatch, Offer, TypeOK
    <2>3. \A q \in Requests : CallerOutcome(resp, q) # "busy"
      BY DEF CallerOutcome
    <2> QED BY <2>1, <2>2, <2>3, SamePlaces
  <1> QED BY <1>1, <1>2, <1>3, <1>4 DEF JobBuffer

\* The sender, the network and handleResponse move no request.
LEMMA OtherPlaceInv ==
    ASSUME TypeInv, PlaceInv,
           Sender \/ Network \/ HandleResponse \/ Shutdown \/ UNCHANGED vars
    PROVE  PlaceInv'
  <1> USE DEF handlerVars, bufferVars, batchVars
  <1>1. UNCHANGED <<http, producerCh, apiInputCh, store, batches>>
    BY DEF Sender, TakeBatch, SendBatchOk, SendBatchErr, Network, AttemptDelivered,
           LeaderAnswer, HandleResponse, RouteToTopicCaller, LookUpBatch, ForwardResponse,
           Shutdown, vars
  <1>2. \/ respCh' = respCh
        \/ \E resp \in responses, e \in requestMap : respCh' = Offer(respCh, e.req, TopicOutcome(resp))
    BY DEF Sender, TakeBatch, SendBatchOk, SendBatchErr, Network, AttemptDelivered,
           LeaderAnswer, HandleResponse, RouteToTopicCaller, LookUpBatch, ForwardResponse,
           Shutdown, vars
  <1>3. \A q \in Requests : respCh'[q] = "busy" => respCh[q] = "busy"
    BY <1>2 DEF Offer, TopicOutcome, TypeInv, TypeOK
  <1> QED BY <1>1, <1>3, SamePlaces

\* Every step keeps the places apart.
LEMMA NextPlaceInv == TypeInv /\ PlaceInv /\ [Next]_vars => PlaceInv'
  BY HandlerPlaceInv, ReceiverPlaceInv, JobBufferPlaceInv, OtherPlaceInv DEF Next

\* The places are apart throughout.
LEMMA PlaceInvHolds == Spec => []PlaceInv
  BY InitPlaceInv, NextPlaceInv, TypeInvHolds, PTL DEF Spec

\* How often a job request is in each of the places.
LEMMA PlacesCount ==
    ASSUME TypeInv, PlaceInv, NEW r \in JobRequests
    PROVE  Places(r) <= 1 /\ (Nowhere(r) => Places(r) = 0)
  <1> DEFINE t == TopicOf[r]
             inProducerCh == Cardinality(Positions(producerCh, r))
             inInput == Cardinality(Positions(apiInputCh[t], r))
             inStore == Cardinality(Positions(store[t], r))
             holders == {i \in BatchIDs : r \in batches[i].reqs}
             inBatches == Cardinality(holders)
  <1>1. t \in Topics
    BY WorkloadAssumption
  <1>2. /\ inProducerCh \in {0, 1} /\ (r \notin Contents(producerCh) => inProducerCh = 0)
        /\ inInput \in {0, 1} /\ (r \notin Contents(apiInputCh[t]) => inInput = 0)
        /\ inStore \in {0, 1} /\ (r \notin Contents(store[t]) => inStore = 0)
    BY <1>1, CountInQueue DEF PlaceInv, QueuesApart
  <1>3. \A i, k \in holders : i = k
    BY DEF PlaceInv, BatchesApart
  <1>4. inBatches \in {0, 1} /\ (holders = {} => inBatches = 0)
    BY <1>3, AtMostOne
  <1>5. /\ r \in Contents(producerCh) =>
              r \notin Contents(apiInputCh[t]) /\ r \notin Contents(store[t]) /\ holders = {}
        /\ r \in Contents(apiInputCh[t]) => r \notin Contents(store[t]) /\ holders = {}
        /\ r \in Contents(store[t]) => holders = {}
    BY <1>1 DEF PlaceInv, QueuesApart, BatchesApart
  <1>6. Places(r) = inProducerCh + inInput + inStore + inBatches
    BY DEF Places, Positions
  <1>7. Nowhere(r) => /\ r \notin Contents(producerCh) /\ r \notin Contents(apiInputCh[t])
                      /\ r \notin Contents(store[t]) /\ holders = {}
    BY <1>1 DEF Nowhere
  <1> HIDE DEF t, inProducerCh, inInput, inStore, inBatches, holders
  <1> QED BY <1>2, <1>4, <1>5, <1>6, <1>7

\* InOnePlace: no interleaving of handlers, receiver and JobBuffers copies a job
\* request, so that its jobs are in one batch, and in one message to the leader, at
\* most.
THEOREM RequestInOnePlace == Spec => []InOnePlace
  <1>1. TypeInv /\ PlaceInv => InOnePlace
    BY PlacesCount DEF InOnePlace
  <1> QED BY <1>1, TypeInvHolds, PlaceInvHolds, PTL

\* BusyMeansDropped: what is answered "busy" or 503 is in no queue and in no batch,
\* then and later, so that its producer may submit it again.
THEOREM BusyIsDropped == Spec => []BusyMeansDropped
  <1>1. TypeInv /\ PlaceInv => BusyMeansDropped
    BY PlacesCount DEF BusyMeansDropped, PlaceInv, TurnedAwayIsNowhere
  <1> QED BY <1>1, TypeInvHolds, PlaceInvHolds, PTL

-----------------------------------------------------------------------------
(* The way back of a response                                              *)

\* A response offered to a JobBuffer that exists and has room is there, and nothing
\* else leaves a responseInputCh.
LEMMA ResponseIsOffered ==
    ASSUME TypeInv, RoomForResponses, NEW t \in Topics, NEW resp \in Response,
           OfferResponse(t, resp)
    PROVE  /\ t \in buffers => resp \in Contents(responseInputCh'[t])
           /\ \A u \in Topics : Contents(responseInputCh[u]) \subseteq Contents(responseInputCh'[u])
  <1>1. responseInputCh \in [Topics -> Seq(Response)]
    BY DEF TypeInv, TypeOK
  <1>2. \A u \in Topics : u # t => responseInputCh'[u] = responseInputCh[u]
    BY <1>1 DEF OfferResponse
  <1>3. t \in buffers => responseInputCh'[t] = Append(responseInputCh[t], resp)
    BY <1>1 DEF OfferResponse, RoomForResponses
  <1>4. t \notin buffers => responseInputCh'[t] = responseInputCh[t]
    BY <1>1 DEF OfferResponse
  <1>5. responseInputCh[t] \in Seq(Response)
    BY <1>1
  <1>6. Contents(Append(responseInputCh[t], resp)) = Contents(responseInputCh[t]) \union {resp}
    BY <1>5, AppendToQueue
  <1> QED BY <1>2, <1>3, <1>4, <1>6

\* At the start nobody waits.
LEMMA InitRouteInv == Init => RouteInv
  BY DEF Init, RouteInv, WaitingIsOwn, EntriesAreOwn, WaitingBatchIsRoutable

\* A step that makes no batch and lets no response go.
LEMMA RouteStays ==
    ASSUME TypeInv, RouteInv, UNCHANGED batches, buffers \subseteq buffers',
           \A t \in Topics : waitingMap'[t] \subseteq waitingMap[t],
           \A e \in requestIdToTopic' : e \in requestIdToTopic
                                       \/ e.topic = JobTopicOf[batches[e.id].first],
           \A h \in handling' : h \in handling \/ [id |-> h.resp.id, topic |-> h.topic] \in requestIdToTopic,
           \A t \in Topics : \A id \in waitingMap'[t] : HasWayBack(t, id) => HasWayBack(t, id)'
    PROVE  RouteInv'
  <1> USE DEF RouteInv
  <1>1. BatchIDs' = BatchIDs
    BY DEF BatchIDs
  <1>2. WaitingIsOwn'
    BY DEF WaitingIsOwn
  <1>3. \A e \in requestIdToTopic' : e.topic = JobTopicOf[batches[e.id].first]
    BY DEF EntriesAreOwn
  <1>4. ASSUME NEW h \in handling'
        PROVE  h.resp.id \in BatchIDs /\ h.topic = JobTopicOf[batches[h.resp.id].first]
    <2> DEFINE e == [id |-> h.resp.id, topic |-> h.topic]
    <2>1. CASE h \in handling
      BY <2>1 DEF EntriesAreOwn
    <2>2. CASE e \in requestIdToTopic
      <3>1. e.id \in BatchIDs
        BY <2>2 DEF TypeInv, TypeOK
      <3>2. e.topic = JobTopicOf[batches[e.id].first]
        BY <2>2 DEF EntriesAreOwn
      <3> QED BY <3>1, <3>2
    <2> QED BY <1>4, <2>1, <2>2
  <1>5. EntriesAreOwn'
    BY <1>1, <1>3, <1>4 DEF EntriesAreOwn
  <1>6. WaitingBatchIsRoutable'
    BY DEF WaitingBatchIsRoutable
  <1> QED BY <1>2, <1>5, <1>6

\* A new batch waits under the topic of its first job, and drain is pushing it.
LEMMA DrainRouteInv ==
    ASSUME JobsNameTheirTopic, TypeInv, PlaceInv, RouteInv, NEW t \in Topics, Drain(t)
    PROVE  RouteInv'
  <1> DEFINE n == Len(batches) + 1
  <1>1. PICK r : r = Head(store[t])
    OBVIOUS
  <1>2. r \in JobRequests /\ r \in Contents(store[t])
    <2>1. store[t] \in Seq(JobRequests) /\ store[t] # <<>>
      BY DEF Drain, ReadyToDrain, TypeInv, TypeOK
    <2> QED BY <1>1, <2>1, TakeFromQueue
  <1>3. JobTopicOf[r] = t
    BY <1>2 DEF JobsNameTheirTopic, PlaceInv, QueuesApart
  <1>4. PICK b : b = [topic |-> t, first |-> Head(store[t]), reqs |-> Drained(t)]
    OBVIOUS
  <1>5. b.first = r /\ b \in Batch
    BY <1>1, <1>2, <1>4, DrainedIsAll, ContentsType DEF Batch, TypeInv, TypeOK, Contents
  <1>6. batches \in Seq(Batch) /\ batches' = Append(batches, b)
    BY <1>4 DEF Drain, TypeInv, TypeOK, Batch
  <1>7. /\ n \in Nat /\ n \notin BatchIDs /\ 0 \notin BatchIDs
        /\ BatchIDs' = BatchIDs \union {n}
        /\ batches'[n] = b
        /\ \A i \in BatchIDs : batches'[i] = batches[i]
    BY <1>6, AppendProperties, LenProperties DEF BatchIDs
  <1>8. /\ t \in buffers /\ pending[t] = 0
        /\ waitingMap' = [waitingMap EXCEPT ![t] = @ \union {n}]
        /\ pending' = [pending EXCEPT ![t] = n]
        /\ UNCHANGED <<buffers, sendJobsCh, requestIdToTopic, responseInputCh, handling>>
    BY DEF Drain, AtSelect, NextBatchID
  <1> HIDE DEF n
  <1>9. /\ waitingMap \in [Topics -> SUBSET BatchIDs] /\ pending \in [Topics -> BatchIDs \union {0}]
        /\ \A e \in requestIdToTopic : e.id \in BatchIDs
    BY DEF TypeInv, TypeOK
  <1>10. WaitingIsOwn'
    BY <1>3, <1>5, <1>7, <1>8, <1>9 DEF WaitingIsOwn, RouteInv
  <1>11. EntriesAreOwn'
    BY <1>7, <1>8, <1>9 DEF EntriesAreOwn, RouteInv
  <1>12. ASSUME NEW u \in Topics, NEW id \in waitingMap'[u] PROVE HasWayBack(u, id)'
    <2>1. CASE u = t /\ id = n
      BY <1>8, <1>9, <2>1 DEF HasWayBack
    <2>2. CASE ~(u = t /\ id = n)
      <3>1. id \in waitingMap[u] /\ id \in BatchIDs
        BY <1>8, <1>9, <1>12, <2>2
      <3>2. HasWayBack(u, id)
        BY <3>1 DEF RouteInv, WaitingBatchIsRoutable
      <3>3. pending[u] = id => pending'[u] = id
        BY <1>7, <1>8, <1>9, <3>1
      <3> QED BY <1>8, <3>2, <3>3 DEF HasWayBack
    <2> QED BY <2>1, <2>2
  <1> QED BY <1>10, <1>11, <1>12 DEF RouteInv, WaitingBatchIsRoutable

\* A batch that is pushed is in sendJobsCh; a response that is dispatched ends the
\* wait for its own batch and for no other.
LEMMA JobBufferRouteInv ==
    ASSUME JobsNameTheirTopic, TypeInv, PlaceInv, RouteInv, NEW t \in Topics, JobBuffer(t)
    PROVE  RouteInv'
  <1>1. CASE Buffer(t)
    BY <1>1, RouteStays DEF Buffer, batchVars, HasWayBack
  <1>2. CASE Drain(t)
    BY <1>2, DrainRouteInv
  <1>3. CASE PushBatch(t)
    <2>1. sendJobsCh \in Seq(BatchIDs) /\ pending[t] \in BatchIDs
      BY <1>3 DEF PushBatch, TypeInv, TypeOK
    <2>2. Contents(sendJobsCh') = Contents(sendJobsCh) \union {pending[t]}
      BY <1>3, <2>1, AppendToQueue DEF PushBatch
    <2>3. \A u \in Topics : u # t => pending'[u] = pending[u]
      BY <1>3 DEF PushBatch, TypeInv, TypeOK
    <2>4. UNCHANGED <<buffers, batches, waitingMap, requestIdToTopic, responseInputCh, handling>>
      BY <1>3 DEF PushBatch, bufferVars
    <2>5. ASSUME NEW u \in Topics, NEW id, HasWayBack(u, id) PROVE HasWayBack(u, id)'
      BY <2>2, <2>3, <2>4, <2>5 DEF HasWayBack, Contents
    <2> QED BY <2>4, <2>5, RouteStays
  <1>4. CASE Dispatch(t)
    <2>1. PICK resp : resp = Head(responseInputCh[t])
      OBVIOUS
    <2>2. responseInputCh[t] \in Seq(Response) /\ responseInputCh[t] # <<>>
      BY <1>4 DEF Dispatch, TypeInv, TypeOK
    <2>3. Contents(responseInputCh[t]) = Contents(Tail(responseInputCh[t])) \union {resp}
      BY <2>1, <2>2, TakeFromQueue
    <2>4. /\ responseInputCh'[t] = Tail(responseInputCh[t])
          /\ \A u \in Topics : u # t => responseInputCh'[u] = responseInputCh[u]
      BY <1>4 DEF Dispatch, TypeInv, TypeOK
    <2>5. /\ waitingMap'[t] = waitingMap[t] \ {resp.id}
          /\ \A u \in Topics : u # t => waitingMap'[u] = waitingMap[u]
      BY <1>4, <2>1 DEF Dispatch, TypeInv, TypeOK
    <2>6. UNCHANGED <<buffers, batches, pending, sendJobsCh, requestIdToTopic, handling>>
      BY <1>4 DEF Dispatch, bufferVars
    <2>7. ASSUME NEW u \in Topics, NEW id \in waitingMap'[u], HasWayBack(u, id)
          PROVE  HasWayBack(u, id)'
      <3>1. \A x \in Contents(responseInputCh[u]) :
               x.id = id => x \in Contents(responseInputCh'[u])
        BY <2>3, <2>4, <2>5, <2>7
      <3> QED BY <2>6, <2>7, <3>1 DEF HasWayBack, Contents
    <2> QED BY <2>5, <2>6, <2>7, RouteStays
  <1> QED BY <1>1, <1>2, <1>3, <1>4 DEF JobBuffer

\* A batch that is sent is registered; one that could not be sent has the proxy's
\* error on its way to the JobBuffer.
LEMMA SenderRouteInv ==
    ASSUME RoomForResponses, TypeInv, RouteInv, Sender
    PROVE  RouteInv'
  <1>1. CASE TakeBatch
    <2>1. PICK id : id = Head(sendJobsCh)
      OBVIOUS
    <2> DEFINE e == [id |-> id, topic |-> JobTopicOf[batches[id].first]]
    <2>2. sendJobsCh \in Seq(BatchIDs) /\ sendJobsCh # <<>>
      BY <1>1 DEF TakeBatch, TypeInv, TypeOK
    <2>3. Contents(sendJobsCh) = Contents(sendJobsCh') \union {id}
      BY <1>1, <2>1, <2>2, TakeFromQueue DEF TakeBatch
    <2>4. requestIdToTopic' = {x \in requestIdToTopic : x.id # id} \union {e}
      BY <1>1, <2>1 DEF TakeBatch, RequestIdToTopicPut
    <2>5. UNCHANGED <<buffers, batches, waitingMap, pending, responseInputCh, handling>>
      BY <1>1 DEF TakeBatch, bufferVars, batchVars
    <2>6. ASSUME NEW u \in Topics, NEW k \in waitingMap'[u], HasWayBack(u, k)
          PROVE  HasWayBack(u, k)'
      <3>1. CASE k = id
        <4>1. JobTopicOf[batches[id].first] = u
          BY <2>5, <2>6, <3>1 DEF RouteInv, WaitingIsOwn
        <4> QED BY <2>4, <3>1, <4>1 DEF HasWayBack
      <3>2. CASE k # id
        BY <2>3, <2>4, <2>5, <2>6, <3>2 DEF HasWayBack, Contents
      <3> QED BY <3>1, <3>2
    <2> QED BY <2>4, <2>5, <2>6, RouteStays
  <1>2. CASE SendBatchOk
    BY <1>2, RouteStays DEF SendBatchOk, bufferVars, batchVars, HasWayBack
  <1>3. CASE SendBatchErr
    <2> DEFINE t == JobTopicOf[batches[sending].first]
    <2>1. PICK resp : resp = [id |-> sending, origin |-> "proxy", status |-> "error", failures |-> {}]
      OBVIOUS
    <2>2. sending \in BatchIDs
      BY <1>3 DEF SendBatchErr, TypeInv, TypeOK
    <2>3. OfferResponse(t, resp) /\ resp.id = sending /\ resp \in Response
      BY <1>3, <2>1, <2>2, LenProperties DEF SendBatchErr, Response, BatchIDs
    <2>4. /\ requestIdToTopic' = {e \in requestIdToTopic : e.id # sending}
          /\ UNCHANGED <<buffers, batches, waitingMap, pending, sendJobsCh, handling>>
      BY <1>3 DEF SendBatchErr, RequestIdToTopicDelete, bufferVars, batchVars
    <2>5. t \in Topics \/ UNCHANGED responseInputCh
      BY <2>3 DEF OfferResponse, TypeInv, TypeOK
    <2>6. \A u \in Topics : Contents(responseInputCh[u]) \subseteq Contents(responseInputCh'[u])
      BY <2>3, <2>5, ResponseIsOffered
    <2>7. ASSUME NEW u \in Topics, NEW k \in waitingMap'[u], HasWayBack(u, k)
          PROVE  HasWayBack(u, k)'
      <3>1. CASE k = sending
        <4>1. t = u /\ u \in buffers
          BY <2>4, <2>7, <3>1 DEF RouteInv, WaitingIsOwn
        <4>2. resp \in Contents(responseInputCh'[u])
          BY <2>3, <4>1, ResponseIsOffered
        <4> QED BY <2>3, <3>1, <4>2 DEF HasWayBack, Contents
      <3>2. CASE k # sending
        BY <2>4, <2>6, <2>7, <3>2 DEF HasWayBack, Contents
      <3> QED BY <3>1, <3>2
    <2> QED BY <2>4, <2>7, RouteStays
  <1> QED BY <1>1, <1>2, <1>3 DEF Sender

\* handleResponse deletes the entry of a batch only when the response is on its way
\* to the JobBuffer that the callers wait in.
LEMMA HandleResponseRouteInv ==
    ASSUME RoomForResponses, TypeInv, RouteInv, HandleResponse
    PROVE  RouteInv'
  <1>1. ASSUME NEW resp \in responses, RouteToTopicCaller(resp) PROVE RouteInv'
    BY <1>1, RouteStays DEF RouteToTopicCaller, bufferVars, batchVars, HasWayBack
  <1>2. ASSUME NEW resp \in responses, LookUpBatch(resp) PROVE RouteInv'
    <2>1. UNCHANGED <<buffers, batches, waitingMap, pending, sendJobsCh, requestIdToTopic,
                      responseInputCh>>
      BY <1>2 DEF LookUpBatch, bufferVars, batchVars
    <2>2. ASSUME NEW h \in handling', h \notin handling
          PROVE  [id |-> h.resp.id, topic |-> h.topic] \in requestIdToTopic
      <3>1. PICK e \in requestIdToTopic : e.id = resp.id /\ h = [resp |-> resp, topic |-> e.topic]
        BY <1>2, <2>2 DEF LookUpBatch
      <3>2. e = [id |-> e.id, topic |-> e.topic]
        BY DEF TypeInv, TypeOK
      <3> QED BY <3>1, <3>2
    <2> QED BY <2>1, <2>2, RouteStays DEF HasWayBack
  <1>3. ASSUME NEW h \in handling, ForwardResponse(h) PROVE RouteInv'
    <2>1. PICK resp : resp = h.resp
      OBVIOUS
    <2>2. resp \in Response
      BY <2>1 DEF TypeInv, TypeOK
    <2>3. /\ OfferResponse(h.topic, resp)
          /\ requestIdToTopic' = {e \in requestIdToTopic : e.id # resp.id}
          /\ handling' = handling \ {h}
          /\ UNCHANGED <<buffers, batches, waitingMap, pending, sendJobsCh>>
      BY <1>3, <2>1 DEF ForwardResponse, RequestIdToTopicDelete, bufferVars, batchVars
    <2>4. h.topic \in Topics \/ UNCHANGED responseInputCh
      BY <2>3 DEF OfferResponse, TypeInv, TypeOK
    <2>5. \A u \in Topics : Contents(responseInputCh[u]) \subseteq Contents(responseInputCh'[u])
      BY <2>2, <2>3, <2>4, ResponseIsOffered
    <2>6. ASSUME NEW u \in Topics, NEW k \in waitingMap'[u], HasWayBack(u, k)
          PROVE  HasWayBack(u, k)'
      <3>1. CASE k = resp.id
        <4>1. h.topic = u /\ u \in buffers
          BY <2>1, <2>3, <2>6, <3>1 DEF RouteInv, WaitingIsOwn, EntriesAreOwn
        <4>2. resp \in Contents(responseInputCh'[u])
          BY <2>2, <2>3, <4>1, ResponseIsOffered
        <4> QED BY <3>1, <4>2 DEF HasWayBack, Contents
      <3>2. CASE k # resp.id
        BY <2>3, <2>5, <2>6, <3>2 DEF HasWayBack, Contents
      <3> QED BY <3>1, <3>2
    <2> QED BY <2>3, <2>6, RouteStays
  <1> QED BY <1>1, <1>2, <1>3 DEF HandleResponse

\* Every step keeps the way back of every batch somebody waits for.
LEMMA NextRouteInv ==
    ASSUME JobsNameTheirTopic, RoomForResponses, TypeInv, PlaceInv, RouteInv, [Next]_vars
    PROVE  RouteInv'
  <1>1. ASSUME NEW r \in Requests, Handler(r) PROVE RouteInv'
    BY <1>1, RouteStays DEF Handler, RejectNoLeader, Submit, Enqueue, EnqueueTimeout, Reply,
          Timeout, HandlerShutdown, bufferVars, batchVars, HasWayBack
  <1>2. CASE Receiver
    BY <1>2, RouteStays DEF Receiver, ReceiveJobs, ReceiveTopic, TopicSendOk, TopicSendErr,
          bufferVars, batchVars, HasWayBack
  <1>3. CASE Shutdown \/ Network
    BY <1>3, RouteStays DEF Shutdown, Network, AttemptDelivered, LeaderAnswer,
          bufferVars, batchVars, HasWayBack
  <1>4. CASE UNCHANGED vars
    BY <1>4, RouteStays DEF vars, bufferVars, batchVars, HasWayBack
  <1> QED BY <1>1, <1>2, <1>3, <1>4, JobBufferRouteInv, SenderRouteInv, HandleResponseRouteInv
          DEF Next

\* WaitingBatchIsRoutable: the callers of a batch are never left without a way for
\* the response, whatever order sender, handleResponse calls and JobBuffers run in,
\* however often the leader answers, and also when AddTopic answers carry the ID of a
\* batch. It needs what the code takes for granted: the jobs of a request name the
\* topic the request is for, and no responseInputCh fills up.
THEOREM WaitingStaysRoutable ==
    ASSUME JobsNameTheirTopic
    PROVE  Spec /\ []RoomForResponses => []WaitingBatchIsRoutable
  <1>1. RoomForResponses /\ TypeInv /\ PlaceInv /\ RouteInv /\ [Next]_vars => RouteInv'
    BY NextRouteInv
  <1>2. RouteInv => WaitingBatchIsRoutable
    BY DEF RouteInv
  <1> QED BY <1>1, <1>2, InitRouteInv, TypeInvHolds, PlaceInvHolds, PTL DEF Spec

=============================================================================
