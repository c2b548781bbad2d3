------------------------- MODULE ProducerTruthProofs -------------------------
(***************************************************************************)
(* The verdict a producer reads is the leader's verdict on its own request *)
(* (SuccessIsTrue and RefusalIsTrue), for every workload and capacity.     *)
(*                                                                         *)
(* Two things that the code leaves to chance are hypotheses. NoIdClash: the *)
(* counters of ProxyApi and of ClusterAgent do not give the same ID to an  *)
(* AddTopic request and to a batch. NoHashCollision, for refusals only: two *)
(* job IDs have different fnv64a hashes.                                   *)
(*                                                                         *)
(* The argument: everything on its way back to a producer is an answer of  *)
(* the leader or an error of the proxy's own (WayBackIsTrue); an answer    *)
(* carries the ID of the request it is about (MessagesHaveOrigin); so by   *)
(* NoIdClash the table in which the ID is found is the right one, and what *)
(* is put into a respCh is true of its owner (RepliesAreTrue). It stays    *)
(* true because answers, batches and request IDs are never changed (Grows). *)
(*                                                                         *)
(* On top of that, ProducerPath implements ProducerPromise: a handler that *)
(* ends says what is true, and the leader judges no request that was not   *)
(* submitted or was turned away, since such a request is in no batch       *)
(* (PlaceInv) and has an ID that was never sent (PromiseInv).              *)
(***************************************************************************)
EXTENDS ProducerPathProofs

NoIdClash == \A q \in TopicRequests : reqID[q] \notin BatchIDs

NoHashCollision == \A i, j \in Jobs : JobHash[i] = JobHash[j] => i = j

\* A message is about a batch that was made or a topic request that was submitted.
HasOrigin(m) ==
    \/ m.origin = "jobs" /\ m.id \in BatchIDs
    \/ m.origin = "topic" /\ \E q \in TopicRequests : http[q] # "idle" /\ reqID[q] = m.id

MessagesHaveOrigin == \A m \in atLeader \union answered : HasOrigin(m)

IsProxyError(resp) == resp.origin = "proxy" /\ resp.status = "error" /\ resp.failures = {}

WayBackIsTrue ==
    /\ responses \subseteq answered
    /\ \A h \in handling : h.resp \in answered
    /\ \A t \in Topics : \A i \in 1..Len(responseInputCh[t]) :
          responseInputCh[t][i] \in answered \/ IsProxyError(responseInputCh[t][i])

\* What has left a handler was submitted, and requestMap knows its ID.
WayOutIsSubmitted ==
    /\ \A e \in requestMap : http[e.req] # "idle" /\ reqID[e.req] = e.id
    /\ \A i \in 1..Len(producerCh) : http[producerCh[i]] # "idle"
    /\ receiving # NoReq => http[receiving] # "idle"

\* What respCh or the producer holds is true of request r.
IsTrueOf(r, outcome) ==
    /\ outcome = "success" => Accepted(r)
    /\ outcome = "refused" /\ NoHashCollision => Refused(r)

RepliesAreTrue ==
    \A r \in Requests :
        /\ respCh[r] \in {"success", "refused"} => IsTrueOf(r, respCh[r])
        /\ respCh[r] \in {"success", "refused"} /\ r \in TopicRequests => http[r] # "idle"
        /\ http[r] = "200" => IsTrueOf(r, "success")
        /\ http[r] = "refused" => IsTrueOf(r, "refused")

\* The inductive invariant.
TruthInv == MessagesHaveOrigin /\ WayBackIsTrue /\ WayOutIsSubmitted /\ RepliesAreTrue

-----------------------------------------------------------------------------
(* What no step undoes                                                     *)

\* Answers are kept, batches are never changed, and a request keeps its ID.
Grows ==
    /\ answered \subseteq answered'
    /\ BatchIDs \subseteq BatchIDs'
    /\ \A i \in BatchIDs : batches'[i] = batches[i]
    /\ \A q \in Requests : http[q] # "idle" => http'[q] # "idle" /\ reqID'[q] = reqID[q]

\* A handler step changes no answer and no batch, and gives an ID to a new request only.
LEMMA HandlerGrows ==
    ASSUME TypeInv, NEW r \in Requests, Handler(r)
    PROVE  Grows
  <1>1. UNCHANGED <<answered, batches>>
    BY DEF Handler, RejectNoLeader, Submit, Enqueue, EnqueueTimeout, Reply, Timeout,
           HandlerShutdown, batchVars, leaderVars
  <1>2. \A q \in Requests : q # r => http'[q] = http[q] /\ reqID'[q] = reqID[q]
    BY DEF Handler, RejectNoLeader, Submit, Enqueue, EnqueueTimeout, Reply, Timeout,
           HandlerShutdown, TypeInv, TypeOK
  <1>3. http[r] # "idle" => http'[r] # "idle" /\ reqID'[r] = reqID[r]
    BY DEF Handler, RejectNoLeader, Submit, Enqueue, EnqueueTimeout, Reply, Timeout,
           HandlerShutdown, TypeInv, TypeOK, Outcome
  <1> QED BY <1>1, <1>2, <1>3 DEF Grows, BatchIDs

\* drain adds a batch and changes none.
LEMMA DrainGrows ==
    ASSUME TypeInv, NEW t \in Topics, Drain(t)
    PROVE  Grows
  <1> DEFINE b == [topic |-> t, first |-> Head(store[t]), reqs |-> Drained(t)]
  <1>1. b \in Batch
    <2>1. Head(store[t]) \in JobRequests
      BY HeadTailProperties DEF Drain, ReadyToDrain, TypeOK, TypeInv
    <2> QED BY <2>1, DrainedIsAll DEF Batch, TypeInv
  <1>2. batches \in Seq(Batch) /\ batches' = Append(batches, b)
    BY DEF Drain, TypeInv, TypeOK, Batch
  <1> HIDE DEF b
  <1>3. /\ Len(batches) \in Nat /\ Len(batches') = Len(batches) + 1
        /\ \A i \in 1..Len(batches) : batches'[i] = batches[i]
    BY <1>1, <1>2, AppendProperties, LenProperties
  <1>4. BatchIDs \subseteq BatchIDs' /\ \A i \in BatchIDs : batches'[i] = batches[i]
    BY <1>3 DEF BatchIDs
  <1>5. UNCHANGED <<answered, http, reqID>>
    BY DEF Drain, handlerVars, leaderVars
  <1> QED BY <1>4, <1>5 DEF Grows

\* No step undoes anything.
LEMMA NextGrows == TypeInv /\ [Next]_vars => Grows
  <1> SUFFICES ASSUME TypeInv, [Next]_vars PROVE Grows
    OBVIOUS
  <1>1. CASE UNCHANGED <<answered, batches, http, reqID>>
    BY <1>1 DEF Grows, BatchIDs
  <1>2. ASSUME NEW m \in atLeader, LeaderAnswer(m) PROVE Grows
    BY <1>2 DEF LeaderAnswer, Grows, BatchIDs, handlerVars, batchVars
  <1>3. CASE Receiver
    BY <1>1, <1>3 DEF Receiver, ReceiveJobs, ReceiveTopic, TopicSendOk, TopicSendErr,
                      handlerVars, batchVars, leaderVars
  <1>4. ASSUME NEW t \in Topics, JobBuffer(t) PROVE Grows
    BY <1>1, <1>4, DrainGrows DEF JobBuffer, Buffer, PushBatch, Dispatch,
                      handlerVars, batchVars, leaderVars
  <1>5. CASE Sender
    BY <1>1, <1>5 DEF Sender, TakeBatch, SendBatchOk, SendBatchErr,
                      handlerVars, batchVars, leaderVars
  <1>6. CASE Network
    BY <1>1, <1>2, <1>6 DEF Network, AttemptDelivered, handlerVars, batchVars
  <1>7. CASE HandleResponse
    BY <1>1, <1>7 DEF HandleResponse, RouteToTopicCaller, LookUpBatch, ForwardResponse,
                      handlerVars, batchVars, leaderVars
  <1>8. CASE Shutdown \/ UNCHANGED vars
    BY <1>1, <1>8 DEF Shutdown, vars, handlerVars, batchVars, leaderVars
  <1> QED BY HandlerGrows, <1>3, <1>4, <1>5, <1>6, <1>7, <1>8 DEF Next

\* Where a message came from stays true.
LEMMA OriginStays ==
    ASSUME Grows, NEW m, HasOrigin(m)
    PROVE  HasOrigin(m)'
  BY DEF Grows, HasOrigin, Requests

\* What the leader has decided about a request stays true.
LEMMA VerdictStays ==
    ASSUME MessagesHaveOrigin, Grows, NEW r \in Requests,
           r \in TopicRequests => http[r] # "idle",
           NEW outcome, IsTrueOf(r, outcome)
    PROVE  IsTrueOf(r, outcome)'
  <1>1. CASE r \in TopicRequests
    BY <1>1 DEF Grows, IsTrueOf, Accepted, Refused
  <1>2. CASE r \notin TopicRequests
    <2>1. \A a \in answered : a.origin = "jobs" => a.id \in BatchIDs
      BY DEF MessagesHaveOrigin, HasOrigin
    <2> QED BY <1>2, <2>1 DEF Grows, IsTrueOf, Accepted, Refused
  <1> QED BY <1>1, <1>2

-----------------------------------------------------------------------------
(* The four parts of the invariant                                         *)

\* What reaches the leader is about something the proxy made, and so is what the
\* leader answers.
LEMMA MessagesStep ==
    ASSUME TypeInv, TruthInv, Grows, [Next]_vars
    PROVE  MessagesHaveOrigin'
  <1> USE DEF TruthInv
  <1>1. CASE UNCHANGED <<atLeader, answered>>
    BY <1>1, OriginStays DEF MessagesHaveOrigin
  <1>2. ASSUME NEW m, HasOrigin(m), atLeader' = atLeader \union {m}, UNCHANGED answered
        PROVE  MessagesHaveOrigin'
    BY <1>2, OriginStays DEF MessagesHaveOrigin
  <1>3. sending # 0 => HasOrigin([id |-> sending, origin |-> "jobs"])
    BY DEF TypeInv, TypeOK, HasOrigin
  <1>4. receiving # NoReq => HasOrigin([id |-> reqID[receiving], origin |-> "topic"])
    BY DEF TypeInv, TypeOK, HasOrigin, WayOutIsSubmitted
  <1>5. CASE SendBatchOk
    BY <1>2, <1>3, <1>5 DEF SendBatchOk
  <1>6. CASE TopicSendOk
    BY <1>2, <1>4, <1>6 DEF TopicSendOk
  <1>7. CASE AttemptDelivered
    BY <1>2, <1>3, <1>4, <1>7 DEF AttemptDelivered
  <1>8. ASSUME NEW m \in atLeader, LeaderAnswer(m) PROVE MessagesHaveOrigin'
    <2>1. PICK resp \in Verdicts(m) : answered' = answered \union {resp}
      BY <1>8 DEF LeaderAnswer
    <2>2. resp.id = m.id /\ resp.origin = m.origin
      BY DEF Verdicts
    <2>3. HasOrigin(resp)
      BY <2>2 DEF MessagesHaveOrigin, HasOrigin
    <2>4. atLeader' = atLeader
      BY <1>8 DEF LeaderAnswer
    <2> QED BY <2>1, <2>3, <2>4, OriginStays DEF MessagesHaveOrigin
  <1>9. CASE \/ \E r \in Requests : Handler(r)
             \/ ReceiveJobs \/ ReceiveTopic \/ TopicSendErr
             \/ \E t \in Topics : JobBuffer(t)
             \/ TakeBatch \/ SendBatchErr \/ HandleResponse \/ Shutdown \/ UNCHANGED vars
    BY <1>1, <1>9 DEF Handler, RejectNoLeader, Submit, Enqueue, EnqueueTimeout, Reply,
                      Timeout, HandlerShutdown, ReceiveJobs, ReceiveTopic, TopicSendErr,
                      JobBuffer, Buffer, Drain, PushBatch, Dispatch, TakeBatch,
                      SendBatchErr, HandleResponse, RouteToTopicCaller, LookUpBatch,
                      ForwardResponse, Shutdown, vars, leaderVars
  <1> QED BY <1>5, <1>6, <1>7, <1>8, <1>9 DEF Next, Receiver, Sender, Network

\* A response that is an answer, or an error of the proxy's own, is queued as such.
LEMMA OfferKeepsTruth ==
    ASSUME TypeInv, WayBackIsTrue, NEW topic, NEW resp \in Response,
           resp \in answered \/ IsProxyError(resp), OfferResponse(topic, resp)
    PROVE  \A t \in Topics : \A i \in 1..Len(responseInputCh'[t]) :
               responseInputCh'[t][i] \in answered \/ IsProxyError(responseInputCh'[t][i])
  <1>1. CASE UNCHANGED responseInputCh
    BY <1>1 DEF WayBackIsTrue
  <1>2. CASE topic \in buffers /\ responseInputCh' = [responseInputCh EXCEPT ![topic] = Append(@, resp)]
    <2> SUFFICES ASSUME NEW t \in Topics, NEW i \in 1..Len(responseInputCh'[t])
                 PROVE  \/ responseInputCh'[t][i] \in answered
                        \/ IsProxyError(responseInputCh'[t][i])
      OBVIOUS
    <2>1. CASE t # topic
      BY <1>2, <2>1 DEF WayBackIsTrue, TypeInv, TypeOK
    <2>2. CASE t = topic
      <3>1. responseInputCh'[t] = Append(responseInputCh[t], resp)
        BY <1>2, <2>2 DEF TypeInv, TypeOK
      <3>2. responseInputCh[t] \in Seq(Response) /\ Len(responseInputCh[t]) \in Nat
        BY LenProperties DEF TypeInv, TypeOK
      <3>3. i \in 1..Len(responseInputCh[t]) \/ i = Len(responseInputCh[t]) + 1
        BY <3>1, <3>2, AppendProperties
      <3>4. i \in 1..Len(responseInputCh[t]) => responseInputCh'[t][i] = responseInputCh[t][i]
        BY <3>1, <3>2, AppendProperties
      <3>5. i = Len(responseInputCh[t]) + 1 => responseInputCh'[t][i] = resp
        BY <3>1, <3>2, AppendProperties
      <3> QED BY <3>3, <3>4, <3>5 DEF WayBackIsTrue
    <2> QED BY <2>1, <2>2
  <1> QED BY <1>1, <1>2 DEF OfferResponse

\* Only answers of the leader and errors of the proxy's own travel back.
LEMMA WayBackStep ==
    ASSUME TypeInv, TruthInv, Grows, [Next]_vars
    PROVE  WayBackIsTrue'
  <1> USE DEF TruthInv
  <1>1. CASE UNCHANGED <<responses, handling, responseInputCh>>
    BY <1>1 DEF WayBackIsTrue, Grows, IsProxyError
  <1>2. ASSUME NEW m \in atLeader, LeaderAnswer(m) PROVE WayBackIsTrue'
    BY <1>2 DEF LeaderAnswer, WayBackIsTrue, IsProxyError
  <1>3. ASSUME NEW resp \in responses, RouteToTopicCaller(resp) PROVE WayBackIsTrue'
    BY <1>3 DEF RouteToTopicCaller, WayBackIsTrue, IsProxyError
  <1>4. ASSUME NEW resp \in responses, LookUpBatch(resp) PROVE WayBackIsTrue'
    BY <1>4 DEF LookUpBatch, WayBackIsTrue, IsProxyError
  <1>5. ASSUME NEW h \in handling, ForwardResponse(h) PROVE WayBackIsTrue'
    <2>1. h.resp \in answered /\ h.resp \in Response
      BY DEF WayBackIsTrue, TypeInv, TypeOK
    <2>2. UNCHANGED <<answered, responses>> /\ handling' \subseteq handling
      BY <1>5 DEF ForwardResponse, leaderVars
    <2> QED BY <1>5, <2>1, <2>2, OfferKeepsTruth DEF ForwardResponse, WayBackIsTrue, IsProxyError
  <1>6. CASE SendBatchErr
    <2> DEFINE resp == [id |-> sending, origin |-> "proxy", status |-> "error", failures |-> {}]
    <2>1. sending \in Nat
      BY LenProperties DEF TypeInv, TypeOK, BatchIDs
    <2>2. resp \in Response /\ IsProxyError(resp)
      BY <2>1 DEF Response, IsProxyError
    <2>3. UNCHANGED <<answered, responses, handling>>
      BY <1>6 DEF SendBatchErr, leaderVars
    <2>4. PICK topic : OfferResponse(topic, resp)
      BY <1>6 DEF SendBatchErr
    <2> HIDE DEF resp
    <2> QED BY <2>2, <2>3, <2>4, OfferKeepsTruth DEF WayBackIsTrue, IsProxyError
  <1>7. ASSUME NEW t \in Topics, Dispatch(t) PROVE WayBackIsTrue'
    <2>1. /\ responseInputCh' = [responseInputCh EXCEPT ![t] = Tail(@)]
          /\ responseInputCh[t] # <<>> /\ UNCHANGED <<answered, responses, handling>>
      BY <1>7 DEF Dispatch, leaderVars
    <2>2. /\ responseInputCh[t] \in Seq(Response)
          /\ Len(responseInputCh[t]) \in Nat
      BY LenProperties DEF TypeInv, TypeOK
    <2>3. /\ Len(Tail(responseInputCh[t])) = Len(responseInputCh[t]) - 1
          /\ \A i \in 1..Len(Tail(responseInputCh[t])) :
                Tail(responseInputCh[t])[i] = responseInputCh[t][i + 1]
      BY <2>1, <2>2, HeadTailProperties
    <2>4. \A i \in 1..Len(responseInputCh'[t]) :
              \/ responseInputCh'[t][i] \in answered
              \/ IsProxyError(responseInputCh'[t][i])
      <3>1. responseInputCh'[t] = Tail(responseInputCh[t])
        BY <2>1 DEF TypeInv, TypeOK
      <3> SUFFICES ASSUME NEW i \in 1..Len(Tail(responseInputCh[t]))
                   PROVE  \/ Tail(responseInputCh[t])[i] \in answered
                          \/ IsProxyError(Tail(responseInputCh[t])[i])
        BY <3>1
      <3>2. i + 1 \in 1..Len(responseInputCh[t])
        BY <2>2, <2>3
      <3> QED BY <2>3, <3>2 DEF WayBackIsTrue
    <2>5. \A u \in Topics : u # t => responseInputCh'[u] = responseInputCh[u]
      BY <2>1 DEF TypeInv, TypeOK
    <2> QED BY <2>1, <2>4, <2>5 DEF WayBackIsTrue, IsProxyError
  <1>8. CASE \/ \E r \in Requests : Handler(r)
             \/ Receiver
             \/ \E t \in Topics : Buffer(t) \/ Drain(t) \/ PushBatch(t)
             \/ TakeBatch \/ SendBatchOk \/ AttemptDelivered \/ Shutdown \/ UNCHANGED vars
    BY <1>1, <1>8 DEF Handler, RejectNoLeader, Submit, Enqueue, EnqueueTimeout, Reply,
                      Timeout, HandlerShutdown, Receiver, ReceiveJobs, ReceiveTopic,
                      TopicSendOk, TopicSendErr, Buffer, Drain, PushBatch,
                      TakeBatch, SendBatchOk, AttemptDelivered, Shutdown, vars, leaderVars
  <1> QED BY <1>2, <1>3, <1>4, <1>5, <1>6, <1>7, <1>8
          DEF Next, JobBuffer, Sender, Network, HandleResponse

\* What leaves a handler has been submitted, and requestMap files it under its ID.
LEMMA WayOutStep ==
    ASSUME TypeInv, TruthInv, Grows, [Next]_vars
    PROVE  WayOutIsSubmitted'
  <1> USE DEF TruthInv
  <1>0. /\ producerCh \in Seq(Requests) /\ Len(producerCh) \in Nat
        /\ \A i \in 1..Len(producerCh) : producerCh[i] \in Requests
    BY LenProperties, ElementOfSeq DEF TypeInv, TypeOK
  <1>1. \A q \in Requests : http[q] # "idle" => http'[q] # "idle" /\ reqID'[q] = reqID[q]
    BY DEF Grows
  <1>2. ASSUME requestMap' \subseteq requestMap,
               producerCh' = producerCh, receiving' \in {receiving, NoReq}
        PROVE  WayOutIsSubmitted'
    <2>1. \A e \in requestMap : e.req \in Requests
      BY DEF TypeInv, TypeOK, Requests
    <2>2. receiving # NoReq => receiving \in Requests
      BY DEF TypeInv, TypeOK, Requests
    <2> QED BY <1>0, <1>1, <1>2, <2>1, <2>2 DEF WayOutIsSubmitted
  <1>3. ASSUME NEW r \in Requests, Enqueue(r) PROVE WayOutIsSubmitted'
    <2>1. http[r] = "sending" /\ producerCh' = Append(producerCh, r)
      BY <1>3 DEF Enqueue
    <2>2. \A i \in 1..Len(producerCh') : i \in 1..Len(producerCh) \/ producerCh'[i] = r
      BY <1>0, <2>1, AppendProperties
    <2>3. \A i \in 1..Len(producerCh) : producerCh'[i] = producerCh[i]
      BY <1>0, <2>1, AppendProperties
    <2>4. \A i \in 1..Len(producerCh') : http'[producerCh'[i]] # "idle"
      BY <1>0, <1>1, <2>1, <2>2, <2>3 DEF WayOutIsSubmitted
    <2>5. \A e \in requestMap' : http'[e.req] # "idle" /\ reqID'[e.req] = e.id
      BY <1>1, <1>3 DEF Enqueue, WayOutIsSubmitted, TypeInv, TypeOK, Requests
    <2>6. receiving' # NoReq => http'[receiving'] # "idle"
      BY <1>1, <1>3 DEF Enqueue, WayOutIsSubmitted, TypeInv, TypeOK, Requests
    <2> QED BY <2>4, <2>5, <2>6 DEF WayOutIsSubmitted
  <1>4. ASSUME producerCh # <<>>, producerCh' = Tail(producerCh)
        PROVE  \A i \in 1..Len(producerCh') : http'[producerCh'[i]] # "idle"
    <2>1. /\ Len(producerCh') = Len(producerCh) - 1
          /\ \A i \in 1..Len(producerCh') : producerCh'[i] = producerCh[i + 1]
      BY <1>0, <1>4, HeadTailProperties
    <2> SUFFICES ASSUME NEW i \in 1..Len(producerCh')
                 PROVE  http'[producerCh'[i]] # "idle"
      OBVIOUS
    <2>2. i + 1 \in 1..Len(producerCh)
      BY <1>0, <2>1
    <2> QED BY <1>0, <1>1, <2>1, <2>2 DEF WayOutIsSubmitted
  <1>5. CASE ReceiveJobs
    <2>1. \A i \in 1..Len(producerCh') : http'[producerCh'[i]] # "idle"
      BY <1>4, <1>5 DEF ReceiveJobs
    <2>2. UNCHANGED <<requestMap, receiving, http, reqID>>
      BY <1>5 DEF ReceiveJobs, handlerVars
    <2> QED BY <2>1, <2>2 DEF WayOutIsSubmitted
  <1>6. CASE ReceiveTopic
    <2> DEFINE r == Head(producerCh)
    <2>1. \A i \in 1..Len(producerCh') : http'[producerCh'[i]] # "idle"
      BY <1>4, <1>6 DEF ReceiveTopic
    <2>2. UNCHANGED <<http, reqID>> /\ receiving' = r
      BY <1>6 DEF ReceiveTopic, handlerVars
    <2>3. http[r] # "idle"
      <3>1. Len(producerCh) # 0 /\ r = producerCh[1]
        BY <1>0, <1>6, EmptySeq DEF ReceiveTopic
      <3> QED BY <1>0, <3>1 DEF WayOutIsSubmitted
    <2>4. requestMap' \subseteq requestMap \union {[id |-> reqID[r], req |-> r]}
      BY <1>6 DEF ReceiveTopic, RequestMapPut
    <2>5. \A e \in requestMap' : http'[e.req] # "idle" /\ reqID'[e.req] = e.id
      BY <2>2, <2>3, <2>4 DEF WayOutIsSubmitted
    <2> QED BY <2>1, <2>2, <2>3, <2>5 DEF WayOutIsSubmitted
  <1>7. CASE TopicSendOk \/ TopicSendErr
    BY <1>2, <1>7 DEF TopicSendOk, TopicSendErr, RequestMapDelete
  <1>8. ASSUME NEW resp \in responses, RouteToTopicCaller(resp) PROVE WayOutIsSubmitted'
    BY <1>2, <1>8 DEF RouteToTopicCaller, RequestMapDelete
  <1>9. CASE \/ \E r \in Requests : \/ RejectNoLeader(r) \/ Submit(r) \/ EnqueueTimeout(r)
                                    \/ Reply(r) \/ Timeout(r) \/ HandlerShutdown(r)
             \/ \E t \in Topics : JobBuffer(t)
             \/ Sender \/ Network \/ Shutdown \/ UNCHANGED vars
             \/ \E resp \in responses : LookUpBatch(resp)
             \/ \E h \in handling : ForwardResponse(h)
    BY <1>2, <1>9 DEF RejectNoLeader, Submit, EnqueueTimeout, Reply, Timeout, HandlerShutdown,
                      JobBuffer, Buffer, Drain, PushBatch, Dispatch, Sender,
                      TakeBatch, SendBatchOk, SendBatchErr, Network, AttemptDelivered,
                      LeaderAnswer, LookUpBatch, ForwardResponse, Shutdown, vars
  <1> QED BY <1>3, <1>5, <1>6, <1>7, <1>8, <1>9 DEF Next, Handler, Receiver, HandleResponse

\* What a batch's caller is told is true of it: the answer is about this batch.
LEMMA CallerOutcomeIsTrue ==
    ASSUME TypeInv, TruthInv, NoIdClash, NEW t \in Topics, responseInputCh[t] # <<>>,
           Head(responseInputCh[t]).id \in waitingMap[t],
           NEW r \in JobRequests, r \in batches[Head(responseInputCh[t]).id].reqs
    PROVE  IsTrueOf(r, CallerOutcome(Head(responseInputCh[t]), r))
  <1> DEFINE resp == Head(responseInputCh[t])
  <1>1. resp \in answered \/ IsProxyError(resp)
    <2>1. responseInputCh[t] \in Seq(Response)
      BY DEF TypeInv, TypeOK
    <2>2. Len(responseInputCh[t]) \in Nat \ {0} /\ resp = responseInputCh[t][1]
      BY <2>1, EmptySeq
    <2> QED BY <2>2 DEF TruthInv, WayBackIsTrue
  <1>2. resp.id \in BatchIDs
    BY DEF TypeInv, TypeOK
  <1>3. resp \in Response
    BY HeadTailProperties DEF TypeInv, TypeOK
  <1> HIDE DEF resp
  <1>4. CASE IsProxyError(resp)
    BY <1>4 DEF IsProxyError, CallerOutcome, IsTrueOf, resp
  <1>5. CASE resp \in answered
    <2>1. resp.origin = "jobs"
      BY <1>2, <1>5 DEF TruthInv, MessagesHaveOrigin, HasOrigin, NoIdClash
    <2>2. r \notin TopicRequests
      BY WorkloadAssumption
    <2>3. resp.failures \subseteq Jobs /\ JobsOf[r] \subseteq Jobs /\ resp.status \in {"success", "error"}
      BY <1>3, WorkloadAssumption DEF Response
    <2>4. OwnFailures(resp.failures, r) = {} => resp.failures \intersect JobsOf[r] = {}
      BY DEF OwnFailures
    <2>5. NoHashCollision /\ OwnFailures(resp.failures, r) # {} =>
              resp.failures \intersect JobsOf[r] # {}
      BY <2>3 DEF OwnFailures, NoHashCollision
    <2>6. r \in batches[resp.id].reqs
      BY DEF resp
    <2>7. CallerOutcome(resp, r) = "success" => Accepted(r)
      BY <1>5, <2>1, <2>2, <2>4, <2>6 DEF CallerOutcome, Accepted
    <2>8. CallerOutcome(resp, r) = "refused" /\ NoHashCollision => Refused(r)
      BY <1>5, <2>1, <2>2, <2>3, <2>5, <2>6 DEF CallerOutcome, Refused
    <2> QED BY <2>7, <2>8 DEF IsTrueOf, resp
  <1> QED BY <1>1, <1>4, <1>5

\* An AddTopic caller is told the answer to its own request.
LEMMA TopicOutcomeIsTrue ==
    ASSUME TypeInv, TruthInv, NoIdClash, NEW resp \in responses, NEW e \in requestMap,
           e.id = resp.id
    PROVE  IsTrueOf(e.req, TopicOutcome(resp))
  <1>1. e.req \in TopicRequests /\ reqID[e.req] = resp.id
    BY DEF TypeInv, TypeOK, TruthInv, WayOutIsSubmitted
  <1>2. resp \in answered /\ resp.status \in {"success", "error"}
    BY DEF TypeInv, TypeOK, Response, TruthInv, WayBackIsTrue
  <1>3. resp.origin = "topic"
    BY <1>1, <1>2 DEF TruthInv, MessagesHaveOrigin, HasOrigin, NoIdClash
  <1> QED BY <1>1, <1>2, <1>3 DEF TopicOutcome, IsTrueOf, Accepted, Refused

\* A respCh is only ever given what is true of its owner, and the handler passes
\* it on unchanged.
LEMMA RepliesStep ==
    ASSUME TypeInv, TruthInv, NoIdClash, Grows, [Next]_vars
    PROVE  RepliesAreTrue'
  <1> USE DEF TruthInv
  <1>0. /\ \A q \in Requests : http[q] # "idle" => http'[q] # "idle"
        /\ \A q \in Requests : \A o \in {"success", "refused"} :
              (q \in TopicRequests => http[q] # "idle") /\ IsTrueOf(q, o) => IsTrueOf(q, o)'
    BY VerdictStays DEF Grows
  <1>1. ASSUME \A q \in Requests :
                   respCh'[q] \in {"success", "refused"} =>
                       /\ IsTrueOf(q, respCh'[q])
                       /\ q \in TopicRequests => http[q] # "idle",
               \A q \in Requests :
                   /\ http'[q] = "200" => http[q] # "idle" /\ IsTrueOf(q, "success")
                   /\ http'[q] = "refused" => http[q] # "idle" /\ IsTrueOf(q, "refused")
        PROVE  RepliesAreTrue'
    BY <1>0, <1>1 DEF RepliesAreTrue
  <1>2. \A q \in Requests :
            /\ http[q] = "200" => http[q] # "idle" /\ IsTrueOf(q, "success")
            /\ http[q] = "refused" => http[q] # "idle" /\ IsTrueOf(q, "refused")
    BY DEF RepliesAreTrue
  <1>3. \A q \in Requests :
            respCh[q] \in {"success", "refused"} =>
                /\ IsTrueOf(q, respCh[q])
                /\ q \in TopicRequests => http[q] # "idle"
    BY DEF RepliesAreTrue
  <1>4. CASE UNCHANGED <<respCh, http>>
    BY <1>1, <1>2, <1>3, <1>4
  <1>5. ASSUME NEW r \in Requests, Handler(r) PROVE RepliesAreTrue'
    <2>1. CASE Reply(r)
      <3>1. /\ http' = [http EXCEPT ![r] = IF respCh[r] = "success" THEN "200" ELSE respCh[r]]
            /\ respCh' = [respCh EXCEPT ![r] = "none"]
            /\ http[r] = "waiting" /\ respCh[r] # "none"
        BY <2>1 DEF Reply
      <3>2. \A q \in Requests : respCh'[q] = "none" \/ respCh'[q] = respCh[q]
        BY <3>1 DEF TypeInv, TypeOK
      <3>3. /\ \A q \in Requests : q # r => http'[q] = http[q]
            /\ http'[r] = "200" => respCh[r] = "success"
            /\ http'[r] = "refused" => respCh[r] = "refused"
        BY <3>1 DEF TypeInv, TypeOK, Outcome
      <3> QED BY <1>1, <1>2, <1>3, <3>1, <3>2, <3>3
    <2>2. CASE \/ RejectNoLeader(r) \/ Submit(r) \/ Enqueue(r) \/ EnqueueTimeout(r)
               \/ Timeout(r) \/ HandlerShutdown(r)
      <3>1. /\ \A q \in Requests : http'[q] = http[q] \/ http'[q] \notin {"200", "refused"}
            /\ respCh' = respCh
        BY <2>2 DEF RejectNoLeader, Submit, Enqueue, EnqueueTimeout, Timeout,
                    HandlerShutdown, TypeInv, TypeOK
      <3> QED BY <1>1, <1>2, <1>3, <3>1
    <2> QED BY <1>5, <2>1, <2>2 DEF Handler
  <1>6. ASSUME NEW r \in Requests, NEW outcome, UNCHANGED http,
               respCh' = Offer(respCh, r, outcome),
               outcome \in {"success", "refused"} =>
                   IsTrueOf(r, outcome) /\ (r \in TopicRequests => http[r] # "idle")
        PROVE  RepliesAreTrue'
    <2>1. \A q \in Requests : respCh'[q] = respCh[q] \/ (q = r /\ respCh'[q] = outcome)
      BY <1>6 DEF Offer, TypeInv, TypeOK
    <2> QED BY <1>1, <1>2, <1>3, <1>6, <2>1
  <1>7. CASE ReceiveJobs
    <2> DEFINE r == Head(producerCh)
    <2>1. r \in Requests /\ UNCHANGED http
      BY <1>7 DEF ReceiveJobs, Requests, handlerVars
    <2>2. UNCHANGED respCh \/ respCh' = Offer(respCh, r, "busy")
      BY <1>7 DEF ReceiveJobs
    <2> HIDE DEF r
    <2> QED BY <1>4, <1>6, <2>1, <2>2
  <1>8. CASE TopicSendErr
    <2>1. receiving \in Requests /\ UNCHANGED http /\ respCh' = Offer(respCh, receiving, "unsent")
      BY <1>8 DEF TopicSendErr, TypeInv, TypeOK, Requests, handlerVars
    <2> QED BY <1>6, <2>1
  <1>9. ASSUME NEW resp \in responses, RouteToTopicCaller(resp) PROVE RepliesAreTrue'
    <2>1. PICK e \in requestMap : e.id = resp.id /\ respCh' = Offer(respCh, e.req, TopicOutcome(resp))
      BY <1>9 DEF RouteToTopicCaller
    <2>2. e.req \in Requests /\ http[e.req] # "idle" /\ UNCHANGED http
      BY <1>9 DEF TypeInv, TypeOK, Requests, WayOutIsSubmitted, RouteToTopicCaller, handlerVars
    <2>3. IsTrueOf(e.req, TopicOutcome(resp))
      BY <2>1, TopicOutcomeIsTrue
    <2> QED BY <1>6, <2>1, <2>2, <2>3
  <1>10. ASSUME NEW t \in Topics, Dispatch(t) PROVE RepliesAreTrue'
    <2> DEFINE resp == Head(responseInputCh[t])
    <2>1. UNCHANGED http /\ responseInputCh[t] # <<>>
      BY <1>10 DEF Dispatch, handlerVars
    <2>2. CASE resp.id \notin waitingMap[t]
      BY <1>4, <1>10, <2>1, <2>2 DEF Dispatch
    <2>3. CASE resp.id \in waitingMap[t]
      <3>1. \A q \in Requests :
                respCh'[q] = IF q \in batches[resp.id].reqs
                             THEN Offer(respCh, q, CallerOutcome(resp, q))[q]
                             ELSE respCh[q]
        BY <1>10, <2>3 DEF Dispatch
      <3>2. batches[resp.id].reqs \subseteq JobRequests
        <4>1. resp.id \in BatchIDs
          BY <2>3 DEF TypeInv, TypeOK
        <4>2. batches[resp.id] \in Batch
          BY <4>1, ElementOfSeq DEF TypeInv, TypeOK, Batch, BatchIDs
        <4> QED BY <4>2 DEF Batch
      <3>3. \A q \in Requests :
                \/ respCh'[q] = respCh[q]
                \/ q \in batches[resp.id].reqs /\ respCh'[q] = CallerOutcome(resp, q)
        BY <3>1 DEF Offer, TypeInv, TypeOK
      <3>4. \A q \in Requests :
                \/ respCh'[q] = respCh[q]
                \/ q \notin TopicRequests /\ IsTrueOf(q, respCh'[q])
        BY <2>1, <2>3, <3>2, <3>3, CallerOutcomeIsTrue, WorkloadAssumption
      <3> QED BY <1>1, <1>2, <1>3, <2>1, <3>4
    <2> QED BY <2>2, <2>3
  <1>11. CASE \/ ReceiveTopic \/ TopicSendOk \/ Sender \/ Network \/ Shutdown \/ UNCHANGED vars
              \/ \E t \in Topics : Buffer(t) \/ Drain(t) \/ PushBatch(t)
              \/ \E resp \in responses : LookUpBatch(resp)
              \/ \E h \in handling : ForwardResponse(h)
    BY <1>4, <1>11 DEF ReceiveTopic, TopicSendOk, Sender, TakeBatch, SendBatchOk, SendBatchErr,
                       Network, AttemptDelivered, LeaderAnswer, Buffer, Drain,
                       PushBatch, LookUpBatch, ForwardResponse, Shutdown, vars, handlerVars
  <1> QED BY <1>5, <1>7, <1>8, <1>9, <1>10, <1>11
          DEF Next, Receiver, JobBuffer, HandleResponse

-----------------------------------------------------------------------------

\* The invariant holds at the start: there is nothing to be true of.
LEMMA InitTruthInv == Init => TruthInv
  <1> SUFFICES ASSUME Init PROVE TruthInv
    OBVIOUS
  <1> USE EmptySeq DEF Init
  <1>1. MessagesHaveOrigin
    BY DEF MessagesHaveOrigin
  <1>2. WayBackIsTrue
    BY DEF WayBackIsTrue
  <1>3. WayOutIsSubmitted
    BY DEF WayOutIsSubmitted
  <1>4. RepliesAreTrue
    BY DEF RepliesAreTrue
  <1> QED BY <1>1, <1>2, <1>3, <1>4 DEF TruthInv

\* Every step keeps the invariant as long as no ID is given out twice.
LEMMA NextTruthInv == TypeInv /\ TruthInv /\ NoIdClash /\ [Next]_vars => TruthInv'
  BY NextGrows, MessagesStep, WayBackStep, WayOutStep, RepliesStep DEF TruthInv

\* The invariant holds throughout as long as no ID is given out twice.
LEMMA TruthInvHolds == Spec /\ []NoIdClash => []TruthInv
  BY InitTruthInv, NextTruthInv, TypeInvHolds, PTL DEF Spec

\* A producer that gets the success body had its own jobs, or its own topic,
\* accepted by the leader, whichever batch they shared, however answers were
\* delayed, repeated and reordered, and whatever timed out: unless the two ID
\* counters clash.
THEOREM SuccessIsTheLeaders == Spec /\ []NoIdClash => []SuccessIsTrue
  <1>1. TruthInv => SuccessIsTrue
    BY DEF TruthInv, RepliesAreTrue, SuccessIsTrue, IsTrueOf
  <1> QED BY <1>1, TruthInvHolds, PTL

\* A producer that gets a refusal had that very request refused, unless the ID
\* counters clash or jobBelongsToClient mistakes one job for another by its hash.
THEOREM RefusalIsTheLeaders ==
    ASSUME NoHashCollision
    PROVE  Spec /\ []NoIdClash => []RefusalIsTrue
  <1>1. TruthInv => RefusalIsTrue
    BY DEF TruthInv, RepliesAreTrue, RefusalIsTrue, IsTrueOf
  <1> QED BY <1>1, TruthInvHolds, PTL

-----------------------------------------------------------------------------
(* ProducerPath implements ProducerPromise                                 *)

\* The counter of ProxyApi is ahead of every ID it has given out, and the leader has
\* AddTopic requests under such IDs only.
IdsAreGivenOut ==
    /\ \A r \in Requests : reqID[r] <= apiCounter
    /\ \A r \in Requests : http[r] = "idle" => reqID[r] = 0
    /\ \A r \in Requests : http[r] = "sending" \/ r \in Contents(producerCh) => reqID[r] > 0
    /\ receiving # NoReq => reqID[receiving] > 0
    /\ \A m \in atLeader \union answered : m.origin = "topic" => m.id \in 1..apiCounter

\* Only job requests are turned away by a full JobBuffer.
TopicsAreNotTurnedAway == \A r \in TopicRequests : respCh[r] # "busy" /\ http[r] # "busy"

PromiseInv == IdsAreGivenOut /\ TopicsAreNotTurnedAway

\* At the start no ID is given out.
LEMMA InitPromiseInv == Init => PromiseInv
  BY WorkloadAssumption, EmptyQueue
     DEF Init, PromiseInv, IdsAreGivenOut, TopicsAreNotTurnedAway, Requests

\* A step that submits no request and takes none off producerCh.
LEMMA IdsStay ==
    ASSUME TypeInv, IdsAreGivenOut, UNCHANGED <<reqID, apiCounter>>,
           \A r \in Requests :
              /\ http'[r] = "idle" => http[r] = "idle"
              /\ http'[r] = "sending" => http[r] = "sending"
              /\ r \in Contents(producerCh') => r \in Contents(producerCh) \/ http[r] = "sending",
           receiving' # NoReq => receiving' \in Contents(producerCh) \union {receiving},
           \A m \in atLeader' \union answered' : m.origin = "topic" => m.id \in 1..apiCounter
    PROVE  IdsAreGivenOut'
  <1>1. receiving' # NoReq => reqID'[receiving'] > 0
    <2>1. Contents(producerCh) \subseteq Requests
      BY QueueTypes DEF TypeInv
    <2> QED BY <2>1 DEF IdsAreGivenOut
  <1> QED BY <1>1 DEF IdsAreGivenOut

\* Every step gives out IDs one by one, and turns away job requests only.
LEMMA NextPromiseInv == TypeInv /\ PromiseInv /\ [Next]_vars => PromiseInv'
  <1> SUFFICES ASSUME TypeInv, PromiseInv, [Next]_vars PROVE PromiseInv'
    OBVIOUS
  <1> USE DEF TypeInv, PromiseInv, handlerVars, leaderVars, batchVars
  <1>0. /\ \A m \in atLeader \union answered : m.origin = "topic" => m.id \in 1..apiCounter
        /\ apiCounter \in Nat
    BY DEF IdsAreGivenOut, TypeOK
  <1>1. IdsAreGivenOut'
    <2>1. ASSUME NEW r \in Requests, Submit(r) PROVE IdsAreGivenOut'
      <3>1. /\ http' = [http EXCEPT ![r] = "sending"] /\ http[r] = "idle"
            /\ apiCounter' = apiCounter + 1
            /\ reqID' = [reqID EXCEPT ![r] = apiCounter + 1]
            /\ UNCHANGED <<producerCh, receiving, atLeader, answered>>
        BY <2>1 DEF Submit
      <3>2. /\ reqID'[r] = apiCounter + 1 /\ http'[r] = "sending"
            /\ \A q \in Requests : q # r => reqID'[q] = reqID[q] /\ http'[q] = http[q]
        BY <3>1 DEF TypeOK
      <3>3. \A q \in Requests : reqID[q] \in Nat
        BY DEF TypeOK
      <3>4. r \notin Contents(producerCh)
        BY <3>1, <3>3 DEF IdsAreGivenOut
      <3>5. receiving # NoReq => receiving \in Requests /\ receiving # r
        BY <3>1, <3>3 DEF IdsAreGivenOut, TypeOK, Requests
      <3>6. \A q \in Requests : reqID'[q] <= apiCounter'
        BY <1>0, <3>1, <3>2, <3>3 DEF IdsAreGivenOut
      <3>7. \A q \in Requests : http'[q] = "sending" \/ q \in Contents(producerCh') => reqID'[q] > 0
        BY <1>0, <3>1, <3>2, <3>4 DEF IdsAreGivenOut
      <3>8. \A m \in atLeader' \union answered' : m.origin = "topic" => m.id \in 1..apiCounter'
        <4>1. \A k \in 1..apiCounter : k \in 1..(apiCounter + 1)
          BY <1>0
        <4> QED BY <1>0, <3>1, <4>1
      <3>9. receiving' # NoReq => reqID'[receiving'] > 0
        BY <3>1, <3>2, <3>5 DEF IdsAreGivenOut
      <3>10. \A q \in Requests : http'[q] = "idle" => reqID'[q] = 0
        BY <3>2 DEF IdsAreGivenOut
      <3> QED BY <3>6, <3>7, <3>8, <3>9, <3>10 DEF IdsAreGivenOut
    <2>2. ASSUME NEW r \in Requests,
                 \/ RejectNoLeader(r) \/ Enqueue(r) \/ EnqueueTimeout(r) \/ Reply(r)
                 \/ Timeout(r) \/ HandlerShutdown(r)
          PROVE  IdsAreGivenOut'
      <3>1. UNCHANGED <<reqID, apiCounter, receiving, atLeader, answered>>
        BY <2>2 DEF RejectNoLeader, Enqueue, EnqueueTimeout, Reply, Timeout, HandlerShutdown
      <3>2. \A q \in Requests :
               /\ http'[q] = "idle" => http[q] = "idle"
               /\ http'[q] = "sending" => http[q] = "sending"
        BY <2>2 DEF RejectNoLeader, Enqueue, EnqueueTimeout, Reply, Timeout, HandlerShutdown,
                    TypeOK, Outcome
      <3>3. \/ producerCh' = producerCh
            \/ http[r] = "sending" /\ producerCh' = Append(producerCh, r)
        BY <2>2 DEF RejectNoLeader, Enqueue, EnqueueTimeout, Reply, Timeout, HandlerShutdown
      <3>4. \A q \in Requests :
               q \in Contents(producerCh') => q \in Contents(producerCh) \/ http[q] = "sending"
        <4>1. Contents(Append(producerCh, r)) = Contents(producerCh) \union {r}
          BY AppendToQueue DEF TypeOK
        <4> QED BY <3>3, <4>1
      <3> QED BY <1>0, <3>1, <3>2, <3>4, IdsStay
    <2>3. CASE ReceiveJobs \/ ReceiveTopic
      <3>1. /\ UNCHANGED <<http, reqID, apiCounter, atLeader, answered>>
            /\ producerCh # <<>> /\ producerCh' = Tail(producerCh)
            /\ receiving' \in {receiving, Head(producerCh)}
        BY <2>3 DEF ReceiveJobs, ReceiveTopic
      <3>2. Contents(producerCh) = Contents(producerCh') \union {Head(producerCh)}
        BY <3>1, TakeFromQueue DEF TypeOK
      <3> QED BY <1>0, <3>1, <3>2, IdsStay
    <2>4. ASSUME UNCHANGED <<http, reqID, apiCounter, producerCh>>,
                 receiving' \in {receiving, NoReq},
                 \A m \in atLeader' \union answered' : m.origin = "topic" => m.id \in 1..apiCounter
          PROVE  IdsAreGivenOut'
      BY <2>4, IdsStay
    <2>5. CASE TopicSendOk \/ AttemptDelivered \/ SendBatchOk
      <3>1. /\ UNCHANGED <<http, reqID, apiCounter, producerCh, answered>>
            /\ receiving' \in {receiving, NoReq}
        BY <2>5 DEF TopicSendOk, AttemptDelivered, SendBatchOk
      <3>2. receiving # NoReq => reqID[receiving] \in 1..apiCounter
        <4>1. receiving # NoReq => reqID[receiving] \in Nat /\ receiving \in Requests
          BY DEF TypeOK, Requests
        <4> QED BY <1>0, <4>1 DEF IdsAreGivenOut
      <3>3. \/ atLeader' = atLeader \union {[id |-> sending, origin |-> "jobs"]}
            \/ /\ receiving # NoReq
               /\ atLeader' = atLeader \union {[id |-> reqID[receiving], origin |-> "topic"]}
        BY <2>5 DEF TopicSendOk, AttemptDelivered, SendBatchOk
      <3>4. \A m \in atLeader' : m.origin = "topic" => m.id \in 1..apiCounter
        BY <1>0, <3>2, <3>3
      <3> QED BY <1>0, <2>4, <3>1, <3>4
    <2>6. ASSUME NEW m \in atLeader, LeaderAnswer(m) PROVE IdsAreGivenOut'
      <3>1. PICK resp \in Verdicts(m) : answered' = answered \union {resp}
        BY <2>6 DEF LeaderAnswer
      <3>2. resp.id = m.id /\ resp.origin = m.origin
        BY DEF Verdicts
      <3>3. UNCHANGED <<http, reqID, apiCounter, producerCh, receiving, atLeader>>
        BY <2>6 DEF LeaderAnswer
      <3> QED BY <1>0, <2>4, <3>1, <3>2, <3>3
    <2>7. CASE \/ TopicSendErr \/ TakeBatch \/ SendBatchErr \/ HandleResponse \/ Shutdown
               \/ \E t \in Topics : JobBuffer(t)
               \/ UNCHANGED vars
      <3>1. /\ UNCHANGED <<http, reqID, apiCounter, producerCh, atLeader, answered>>
            /\ receiving' \in {receiving, NoReq}
        BY <2>7 DEF TopicSendErr, TakeBatch, SendBatchErr, HandleResponse, RouteToTopicCaller,
                    LookUpBatch, ForwardResponse, Shutdown, JobBuffer, Buffer, Drain,
                    PushBatch, Dispatch, vars
      <3> QED BY <1>0, <2>4, <3>1
    <2> QED BY <2>1, <2>2, <2>3, <2>5, <2>6, <2>7
            DEF Next, Handler, Receiver, Sender, Network
  <1>2. TopicsAreNotTurnedAway'
    <2>1. ASSUME NEW r \in Requests, Handler(r) PROVE TopicsAreNotTurnedAway'
      <3>1. CASE Reply(r)
        BY <3>1 DEF Reply, TopicsAreNotTurnedAway, TypeOK, Requests
      <3>2. CASE ~Reply(r)
        <4>1. /\ respCh' = respCh
              /\ \A q \in Requests : http'[q] = http[q] \/ http'[q] # "busy"
          BY <2>1, <3>2 DEF Handler, RejectNoLeader, Submit, Enqueue, EnqueueTimeout, Timeout,
                           HandlerShutdown, TypeOK
        <4> QED BY <4>1 DEF TopicsAreNotTurnedAway, Requests
      <3> QED BY <3>1, <3>2
    <2>2. ASSUME UNCHANGED http,
                 \A q \in TopicRequests : respCh'[q] = respCh[q] \/ respCh'[q] # "busy"
          PROVE  TopicsAreNotTurnedAway'
      BY <2>2 DEF TopicsAreNotTurnedAway
    <2>3. CASE ReceiveJobs
      <3>1. \A q \in TopicRequests : respCh'[q] = respCh[q]
        BY <2>3, WorkloadAssumption DEF ReceiveJobs, Offer, TypeOK, Requests
      <3> QED BY <2>2, <2>3, <3>1 DEF ReceiveJobs
    <2>4. CASE TopicSendErr
      <3>1. \A q \in TopicRequests : respCh'[q] = respCh[q] \/ respCh'[q] # "busy"
        BY <2>4 DEF TopicSendErr, Offer, TypeOK, Requests
      <3> QED BY <2>2, <2>4, <3>1 DEF TopicSendErr
    <2>5. ASSUME NEW resp \in responses, RouteToTopicCaller(resp) PROVE TopicsAreNotTurnedAway'
      <3>1. \A q \in TopicRequests : respCh'[q] = respCh[q] \/ respCh'[q] # "busy"
        BY <2>5 DEF RouteToTopicCaller, TopicOutcome, Offer, TypeOK, Requests
      <3> QED BY <2>2, <2>5, <3>1 DEF RouteToTopicCaller
    <2>6. ASSUME NEW t \in Topics, Dispatch(t) PROVE TopicsAreNotTurnedAway'
      <3>1. \A q \in Requests :
               respCh'[q] = respCh[q] \/ respCh'[q] = CallerOutcome(Head(responseInputCh[t]), q)
        BY <2>6 DEF Dispatch, Offer, TypeOK
      <3>2. \A q : CallerOutcome(Head(responseInputCh[t]), q) # "busy"
        BY DEF CallerOutcome
      <3> QED BY <2>2, <2>6, <3>1, <3>2 DEF Dispatch, Requests
    <2>7. CASE \/ ReceiveTopic \/ TopicSendOk \/ Sender \/ Network \/ Shutdown \/ UNCHANGED vars
               \/ \E t \in Topics : Buffer(t) \/ Drain(t) \/ PushBatch(t)
               \/ \E resp \in responses : LookUpBatch(resp)
               \/ \E h \in handling : ForwardResponse(h)
      <3>1. UNCHANGED <<http, respCh>>
        BY <2>7 DEF ReceiveTopic, TopicSendOk, Sender, TakeBatch, SendBatchOk, SendBatchErr,
                    Network, AttemptDelivered, LeaderAnswer, Buffer, Drain, PushBatch,
                    LookUpBatch, ForwardResponse, Shutdown, vars
      <3> QED BY <2>2, <3>1
    <2> QED BY <2>1, <2>3, <2>4, <2>5, <2>6, <2>7 DEF Next, Receiver, JobBuffer, HandleResponse
  <1> QED BY <1>1, <1>2

\* The IDs are given out one by one throughout.
LEMMA PromiseInvHolds == Spec => []PromiseInv
  BY InitPromiseInv, NextPromiseInv, TypeInvHolds, PTL DEF Spec

\* What the leader has said of a request is not changed by a step in which it says
\* nothing, whatever is batched and submitted meanwhile.
LEMMA SameVerdicts ==
    ASSUME TypeInv, TruthInv, PromiseInv, Grows, UNCHANGED answered, NEW r \in Requests,
           \/ reqID'[r] = reqID[r]
           \/ reqID[r] = 0 /\ reqID'[r] = apiCounter + 1
    PROVE  (Accepted(r)' <=> Accepted(r)) /\ (Refused(r)' <=> Refused(r))
  <1>1. CASE r \in TopicRequests
    <2>1. \A a \in answered : a.origin = "topic" => a.id # 0 /\ a.id # apiCounter + 1
      BY DEF PromiseInv, IdsAreGivenOut, TypeInv, TypeOK
    <2>2. \A a \in answered : a.origin = "topic" => (a.id = reqID'[r] <=> a.id = reqID[r])
      BY <2>1
    <2> QED BY <1>1, <2>2 DEF Accepted, Refused
  <1>2. CASE r \notin TopicRequests
    <2>1. \A a \in answered : a.origin = "jobs" => a.id \in BatchIDs
      BY DEF TruthInv, MessagesHaveOrigin, HasOrigin
    <2>2. \A a \in answered : a.origin = "jobs" => batches'[a.id] = batches[a.id]
      BY <2>1 DEF Grows
    <2> QED BY <1>2, <2>2 DEF Accepted, Refused
  <1> QED BY <1>1, <1>2

\* The leader has said nothing of a job request that is in no batch.
LEMMA NowhereIsUnjudged ==
    ASSUME TruthInv, NEW r \in JobRequests, Nowhere(r)
    PROVE  ~Accepted(r) /\ ~Refused(r)
  <1>1. \A a \in answered : a.origin = "jobs" => a.id \in BatchIDs
    BY DEF TruthInv, MessagesHaveOrigin, HasOrigin
  <1> QED BY <1>1, WorkloadAssumption DEF Accepted, Refused, Nowhere

\* A handler that gives one of the answers of the promise to its own request.
LEMMA AnswerIsPromised ==
    ASSUME NEW r \in Requests, NEW answer \in Promise!Answers,
           StatusOf(r) \in {"idle", "open"}, StatusOf(r)' = answer,
           \A q \in Requests : q # r => http'[q] = http[q],
           \A q \in Requests : (Accepted(q)' <=> Accepted(q)) /\ (Refused(q)' <=> Refused(q)),
           answer = "success" => Accepted(r),
           answer = "refused" => Refused(r),
           answer = "turnedAway" => ~Accepted(r) /\ ~Refused(r)
    PROVE  Promise!Next
  <1>1. \A q \in Requests : q # r => StatusOf(q)' = StatusOf(q)
    BY DEF StatusOf
  <1>2. [q \in Requests |-> StatusOf(q)]' = [[q \in Requests |-> StatusOf(q)] EXCEPT ![r] = answer]
    BY <1>1
  <1>3. Promise!Answer(r, answer)
    BY <1>2 DEF Promise!Answer, Promise!MayBeTold
  <1> QED BY <1>3 DEF Promise!Next

\* What a handler does to the status of its request is promised.
LEMMA HandlerIsPromised ==
    ASSUME NoHashCollision, TypeInv, PlaceInv, TruthInv, PromiseInv, Grows,
           NEW r \in Requests, Handler(r)
    PROVE  [Promise!Next]_(Promise!vars)
  <1> USE DEF TypeInv
  <1>0. /\ UNCHANGED answered
        /\ \A q \in Requests : q # r => http'[q] = http[q]
        /\ \A q \in Requests : \/ reqID'[q] = reqID[q]
                               \/ reqID[q] = 0 /\ reqID'[q] = apiCounter + 1
    <2>1. UNCHANGED answered
      BY DEF Handler, RejectNoLeader, Submit, Enqueue, EnqueueTimeout, Reply, Timeout,
             HandlerShutdown, leaderVars
    <2>2. \A q \in Requests : q # r => http'[q] = http[q] /\ reqID'[q] = reqID[q]
      BY DEF Handler, RejectNoLeader, Submit, Enqueue, EnqueueTimeout, Reply, Timeout,
             HandlerShutdown, TypeOK
    <2>3. reqID'[r] = reqID[r] \/ (reqID[r] = 0 /\ reqID'[r] = apiCounter + 1)
      BY DEF Handler, RejectNoLeader, Submit, Enqueue, EnqueueTimeout, Reply, Timeout,
             HandlerShutdown, TypeOK, PromiseInv, IdsAreGivenOut
    <2> QED BY <2>1, <2>2, <2>3
  <1>1. \A q \in Requests : (Accepted(q)' <=> Accepted(q)) /\ (Refused(q)' <=> Refused(q))
    BY <1>0, SameVerdicts
  <1>2. ASSUME NEW answer \in Promise!Answers, StatusOf(r) \in {"idle", "open"},
               StatusOf(r)' = answer,
               answer = "success" => Accepted(r), answer = "refused" => Refused(r),
               answer = "turnedAway" => ~Accepted(r) /\ ~Refused(r)
        PROVE  [Promise!Next]_(Promise!vars)
    BY <1>0, <1>1, <1>2, AnswerIsPromised
  <1>3. \A q \in JobRequests :
            http[q] \in {"idle", "sending"} \/ respCh[q] = "busy" => ~Accepted(q) /\ ~Refused(q)
    BY NowhereIsUnjudged DEF PlaceInv, TurnedAwayIsNowhere, Requests
  <1>4. CASE RejectNoLeader(r) \/ EnqueueTimeout(r)
    <2>1. http[r] \in {"idle", "sending"} /\ http'[r] = "503"
      BY <1>4 DEF RejectNoLeader, EnqueueTimeout, TypeOK
    <2>2. StatusOf(r) \in {"idle", "open"}
      BY <2>1 DEF StatusOf
    <2>3. StatusOf(r)' = IF r \in JobRequests THEN "turnedAway" ELSE "unknown"
      BY <2>1 DEF StatusOf
    <2> QED BY <1>2, <1>3, <2>1, <2>2, <2>3 DEF Promise!Answers
  <1>5. CASE Submit(r)
    <2>1. http[r] = "idle" /\ http'[r] = "sending"
      BY <1>5 DEF Submit, TypeOK
    <2>2. StatusOf(r) = "idle" /\ StatusOf(r)' = "open"
      BY <2>1 DEF StatusOf
    <2>3. \A q \in Requests : q # r => StatusOf(q)' = StatusOf(q)
      BY <1>0 DEF StatusOf
    <2>4. [q \in Requests |-> StatusOf(q)]' = [[q \in Requests |-> StatusOf(q)] EXCEPT ![r] = "open"]
      BY <2>2, <2>3
    <2>5. Promise!Submit(r)
      BY <1>1, <2>2, <2>4 DEF Promise!Submit
    <2> QED BY <2>5 DEF Promise!Next
  <1>6. CASE Enqueue(r)
    <2>1. http[r] = "sending" /\ http'[r] = "waiting"
      BY <1>6 DEF Enqueue, TypeOK
    <2>2. \A q \in Requests : StatusOf(q)' = StatusOf(q)
      BY <1>0, <2>1 DEF StatusOf
    <2> QED BY <1>1, <2>2 DEF Promise!vars
  <1>7. CASE Reply(r)
    <2>1. /\ http[r] = "waiting" /\ respCh[r] \in Outcome
          /\ http'[r] = IF respCh[r] = "success" THEN "200" ELSE respCh[r]
      BY <1>7 DEF Reply, TypeOK
    <2>2. StatusOf(r) = "open"
      BY <2>1 DEF StatusOf
    <2>3. CASE respCh[r] = "success"
      <3>1. StatusOf(r)' = "success" /\ Accepted(r)
        BY <2>1, <2>3 DEF StatusOf, TruthInv, RepliesAreTrue, IsTrueOf
      <3> QED BY <1>2, <2>2, <3>1 DEF Promise!Answers
    <2>4. CASE respCh[r] = "refused"
      <3>1. StatusOf(r)' = "refused" /\ Refused(r)
        BY <2>1, <2>4 DEF StatusOf, TruthInv, RepliesAreTrue, IsTrueOf
      <3> QED BY <1>2, <2>2, <3>1 DEF Promise!Answers
    <2>5. CASE respCh[r] = "unsent"
      <3>1. StatusOf(r)' = "unknown"
        BY <2>1, <2>5 DEF StatusOf
      <3> QED BY <1>2, <2>2, <3>1 DEF Promise!Answers
    <2>6. CASE respCh[r] = "busy"
      <3>1. r \in JobRequests
        BY <2>6 DEF PromiseInv, TopicsAreNotTurnedAway, Requests
      <3>2. StatusOf(r)' = "turnedAway"
        BY <2>1, <2>6 DEF StatusOf
      <3> QED BY <1>2, <1>3, <2>2, <2>6, <3>1, <3>2 DEF Promise!Answers
    <2> QED BY <2>1, <2>3, <2>4, <2>5, <2>6 DEF Outcome
  <1>8. CASE Timeout(r) \/ HandlerShutdown(r)
    <2>1. /\ http[r] = "waiting"
          /\ \/ http'[r] \in {"504", "empty200"}
             \/ http'[r] = "503" /\ r \in TopicRequests
      BY <1>8 DEF Timeout, HandlerShutdown, TypeOK
    <2>2. StatusOf(r) = "open" /\ StatusOf(r)' = "unknown"
      BY <2>1, WorkloadAssumption DEF StatusOf
    <2> QED BY <1>2, <2>2 DEF Promise!Answers
  <1> QED BY <1>4, <1>5, <1>6, <1>7, <1>8 DEF Handler

\* An answer of the leader judges requests that were sent to it, and none that was
\* turned away.
LEMMA LeaderAnswerIsPromised ==
    ASSUME TypeInv, PlaceInv, TruthInv, PromiseInv, NEW m \in atLeader, LeaderAnswer(m)
    PROVE  Promise!Next
  <1> USE DEF TypeInv
  <1>1. PICK resp \in Verdicts(m) : answered' = answered \union {resp}
    BY DEF LeaderAnswer
  <1>2. UNCHANGED <<http, reqID, batches>>
    BY DEF LeaderAnswer, handlerVars, batchVars
  <1>3. resp.id = m.id /\ resp.origin = m.origin
    BY DEF Verdicts
  <1>4. \A q \in Requests : (Accepted(q) => Accepted(q)') /\ (Refused(q) => Refused(q)')
    BY <1>1, <1>2 DEF Accepted, Refused
  <1>5. ASSUME NEW q \in Requests,
               (Accepted(q)' /\ ~Accepted(q)) \/ (Refused(q)' /\ ~Refused(q))
        PROVE  StatusOf(q) \notin {"idle", "turnedAway"}
    <2>1. CASE q \in TopicRequests
      <3>1. resp.origin = "topic" /\ resp.id = reqID[q]
        BY <1>1, <1>2, <1>5, <2>1 DEF Accepted, Refused
      <3>2. m.origin = "topic" /\ m.id = reqID[q]
        BY <1>3, <3>1
      <3>3. m.id \in 1..apiCounter
        BY <3>2 DEF PromiseInv, IdsAreGivenOut
      <3>4. apiCounter \in Nat
        BY DEF TypeOK
      <3>5. reqID[q] # 0
        BY <3>2, <3>3, <3>4
      <3>6. http[q] # "idle"
        BY <2>1, <3>5 DEF PromiseInv, IdsAreGivenOut, Requests
      <3>7. http[q] # "busy"
        BY <2>1 DEF PromiseInv, TopicsAreNotTurnedAway
      <3> QED BY <2>1, <3>6, <3>7, WorkloadAssumption DEF StatusOf
    <2>2. CASE q \in JobRequests
      <3>1. resp.origin = "jobs" /\ q \in batches[resp.id].reqs
        BY <1>1, <1>2, <1>5, <2>2, WorkloadAssumption DEF Accepted, Refused
      <3>2. resp.id \in BatchIDs
        BY <1>3, <3>1 DEF KnownAtLeader
      <3>3. ~Nowhere(q)
        BY <3>1, <3>2 DEF Nowhere
      <3>4. http[q] \notin {"idle", "busy", "503"}
        BY <2>2, <3>3 DEF PlaceInv, TurnedAwayIsNowhere, Requests
      <3> QED BY <3>4 DEF StatusOf
    <2> QED BY <2>1, <2>2 DEF Requests
  <1>6. \A q \in Requests : StatusOf(q)' = StatusOf(q)
    BY <1>2 DEF StatusOf
  <1>7. Promise!Judge
    BY <1>4, <1>5, <1>6 DEF Promise!Judge
  <1> QED BY <1>7 DEF Promise!Next

\* Every step of ProducerPath is a step of ProducerPromise or leaves it alone.
LEMMA StepIsPromised ==
    ASSUME NoHashCollision, TypeInv, PlaceInv, TruthInv, PromiseInv, [Next]_vars
    PROVE  [Promise!Next]_(Promise!vars)
  <1>0. Grows
    BY NextGrows
  <1>1. ASSUME UNCHANGED <<http, reqID, answered>> PROVE UNCHANGED Promise!vars
    <2>1. \A q \in Requests : (Accepted(q)' <=> Accepted(q)) /\ (Refused(q)' <=> Refused(q))
      BY <1>0, <1>1, SameVerdicts
    <2>2. \A q \in Requests : StatusOf(q)' = StatusOf(q)
      BY <1>1 DEF StatusOf
    <2> QED BY <2>1, <2>2 DEF Promise!vars
  <1>2. ASSUME NEW r \in Requests, Handler(r) PROVE [Promise!Next]_(Promise!vars)
    BY <1>0, <1>2, HandlerIsPromised
  <1>3. ASSUME NEW m \in atLeader, LeaderAnswer(m) PROVE Promise!Next
    BY <1>3, LeaderAnswerIsPromised
  <1>4. CASE \/ Receiver \/ Sender \/ AttemptDelivered \/ HandleResponse \/ Shutdown
             \/ \E t \in Topics : JobBuffer(t)
             \/ UNCHANGED vars
    <2>1. UNCHANGED <<http, reqID, answered>>
      BY <1>4 DEF Receiver, ReceiveJobs, ReceiveTopic, TopicSendOk, TopicSendErr, Sender,
                  TakeBatch, SendBatchOk, SendBatchErr, AttemptDelivered, HandleResponse,
                  RouteToTopicCaller, LookUpBatch, ForwardResponse, Shutdown, JobBuffer,
                  Buffer, Drain, PushBatch, Dispatch, vars, handlerVars, leaderVars
    <2> QED BY <1>1, <2>1
  <1> QED BY <1>2, <1>3, <1>4 DEF Next, Network

\* KeepsPromise: ProducerPath implements ProducerPromise. Every request is answered at
\* most once, success and refusal are the leader's words on that very request, and one
\* that was turned away is never judged, unless the two ID counters clash or two job
\* IDs share a hash.
THEOREM ImplementsProducerPromise ==
    ASSUME NoHashCollision
    PROVE  Spec /\ []NoIdClash => KeepsPromise
  <1>1. Init => Promise!Init
    <2> SUFFICES ASSUME Init PROVE Promise!Init
      OBVIOUS
    <2>1. \A r \in Requests : StatusOf(r) = "idle" /\ ~Accepted(r) /\ ~Refused(r)
      BY DEF Init, StatusOf, Accepted, Refused
    <2> QED BY <2>1 DEF Promise!Init
  <1>2. TypeInv /\ PlaceInv /\ TruthInv /\ PromiseInv /\ [Next]_vars
            => [Promise!Next]_(Promise!vars)
    BY StepIsPromised
  <1> QED
    BY <1>1, <1>2, TypeInvHolds, PlaceInvHolds, TruthInvHolds, PromiseInvHolds, PTL
       DEF Spec, KeepsPromise, Promise!Spec

=============================================================================
