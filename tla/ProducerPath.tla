----------------------------- MODULE ProducerPath -----------------------------
(***************************************************************************)
(* The producer side of one CueProxy instance: the HTTP handlers           *)
(* AddJobHandler and AddTopicHandler (internal/api/api.go), the            *)
(* requestReceiverTask and sendJobsHandler goroutines                      *)
(* (internal/cluster/tasks.go), one JobBuffer goroutine per topic          *)
(* (internal/cluster/job_buffer.go) and the goroutines that run            *)
(* handleResponse, one per stream (internal/cluster/process.go).           *)
(*                                                                         *)
(*  handler --producerCh--> receiver --apiInputCh--> JobBuffer             *)
(*     ^                        |                      |  ^                *)
(*     |                     AddTopic             sendJobsCh               *)
(*     |                        v                      v  |                *)
(*   respCh                   leader <------------- sender |               *)
(*     |                        |                          |               *)
(*     +---- requestMap --- handleResponse --responseInputCh               *)
(*                                                                         *)
(* The Cue leader is external: it may answer a request it received, with   *)
(* any verdict, late or never, and its answers arrive in any order.        *)
(*                                                                         *)
(* A definition named after another with a suffix (RequestMapPut and       *)
(* RequestMapPut_WrongCounter) is a wrong variant of it. Next does not use *)
(* it; substituting it shows that a property notices the mistake.          *)
(***************************************************************************)
EXTENDS Naturals, Sequences, FiniteSets

CONSTANTS
    JobRequests,     \* POST /producer/jobs calls
    TopicRequests,   \* POST /producer/topic calls
    Topics,          \* topics named by the job requests
    NoTopic,         \* a Job.Topic that names no topic with a buffer
    Jobs,            \* job IDs
    TopicOf,         \* AddJobsPayload.Topic of a job request
    JobTopicOf,      \* Topic field of the first job of a job request
    JobsOf,          \* the job IDs of a job request
    JobHash,         \* fnv64a of a job ID
    ApiIdBase,       \* IDs ProxyApi.reqIDCounter gave out before (acks use it too)
    ProducerCap,     \* ProducerReqBufferSize, 10240
    InputCap,        \* capacity of apiInputCh, 1024
    StoreCap,        \* capacity of store, 1024
    SendCap,         \* capacity of sendJobsCh, 128
    RespCap,         \* capacity of responseInputCh, 1024
    MaxAnswers,      \* bound: different answers the leader gives to one message
    MayShutDown      \* whether the behaviours with a shutdown are included

Requests == JobRequests \union TopicRequests
NoReq == "noReq"

ASSUME WorkloadAssumption ==
    /\ JobRequests \intersect TopicRequests = {}
    /\ NoReq \notin Requests
    /\ NoTopic \notin Topics
    /\ TopicOf \in [JobRequests -> Topics]
    /\ JobTopicOf \in [JobRequests -> Topics \union {NoTopic}]
    /\ JobsOf \in [JobRequests -> SUBSET Jobs]
    /\ JobHash \in [Jobs -> Nat]
    /\ ApiIdBase \in Nat
    /\ MayShutDown \in BOOLEAN

ASSUME CapacityAssumption ==
    /\ ProducerCap \in Nat \ {0}
    /\ InputCap \in Nat \ {0}
    /\ StoreCap \in Nat \ {0}
    /\ SendCap \in Nat \ {0}
    /\ RespCap \in Nat \ {0}
    /\ MaxAnswers \in Nat \ {0}

VARIABLES
    http,            \* what the handler of a request is doing, then its answer
    respCh,          \* the one-slot response channel of a request
    reqID,           \* RequestID the API gave to a request, 0 before
    apiCounter,      \* ProxyApi.reqIDCounter
    ctxDone,         \* the context given to ProxyApi is cancelled
    producerCh,      \* channel from the handlers to requestReceiverTask
    receiving,       \* AddTopic request requestReceiverTask is sending
    requestMap,      \* RequestID -> AddTopic request
    buffers,         \* topics in topicJobBuffers
    apiInputCh,      \* per topic: requests for the JobBuffer
    store,           \* per topic: requests of the current window
    bufferedCount,   \* per topic: number of requests drain will take
    wedged,          \* topics whose JobBuffer waits for room in its own store
    waitingMap,      \* per topic: IDs of the batches whose callers wait
    responseInputCh, \* per topic: responses for the JobBuffer
    pending,         \* per topic: batch that drain is pushing, 0 if none
    batches,         \* history: batch i is the one with jobsRequestCounter i
    sendJobsCh,      \* batch IDs on their way to sendJobsHandler
    sending,         \* batch sendJobsHandler is sending, 0 if none
    requestIdToTopic,\* batch ID -> topic, for routing the response
    atLeader,        \* messages the leader has received
    answered,        \* history: the answers the leader has given
    responses,       \* answers whose stream has not been handled yet
    handling         \* handleResponse calls that have read requestIdToTopic

handlerVars == <<http, reqID, apiCounter, ctxDone>>
bufferVars == <<buffers, apiInputCh, store, bufferedCount, wedged>>
batchVars == <<waitingMap, pending, batches>>
leaderVars == <<atLeader, answered, responses>>
vars == <<handlerVars, respCh, producerCh, receiving, requestMap, bufferVars,
          batchVars, responseInputCh, sendJobsCh, sending, requestIdToTopic,
          leaderVars, handling>>

-----------------------------------------------------------------------------
(* Data                                                                    *)

\* A response as the proxy sees it, plus where it came from: the wire carries
\* the ID only, "origin" says which request the leader was answering.
Response == [id : Nat, origin : {"jobs", "topic", "proxy"},
             status : {"success", "error"}, failures : SUBSET Jobs]

\* What a respCh can hold. The error text tells a refusal by the leader, a
\* request the proxy could not send and a full JobBuffer apart.
Outcome == {"success", "refused", "unsent", "busy"}

\* What the producer gets. "200" carries the success body; "empty200" is the
\* answer net/http sends for a handler that returns without writing one.
Final == {"200", "empty200", "refused", "unsent", "busy", "503", "504"}

BatchIDs == 1..Len(batches)

JobsIn(id) == UNION {JobsOf[r] : r \in batches[id].reqs}

\* The select with a default branch: the reply is dropped if the slot is taken.
Offer(ch, r, outcome) == IF ch[r] = "none" THEN [ch EXCEPT ![r] = outcome] ELSE ch

\* The non-blocking sends to responseInputCh: "channel full, drop or log".
OfferResponse(t, resp) ==
    responseInputCh' =
        IF t \in buffers /\ Len(responseInputCh[t]) < RespCap
        THEN [responseInputCh EXCEPT ![t] = Append(@, resp)]
        ELSE responseInputCh

\* jobsRequestCounter.Add(1), shared by all the JobBuffers.
NextBatchID_LoadOnly == Len(batches)
NextBatchID == Len(batches) + 1

RequestMapPut_WrongCounter(id, r) ==
    {e \in requestMap : e.id # NextBatchID} \union {[id |-> NextBatchID, req |-> r]}
RequestMapPut(id, r) == {e \in requestMap : e.id # id} \union {[id |-> id, req |-> r]}
RequestMapDelete(id) == {e \in requestMap : e.id # id}
RequestIdToTopicPut_Forgotten(id, t) == requestIdToTopic
RequestIdToTopicPut(id, t) ==
    {e \in requestIdToTopic : e.id # id} \union {[id |-> id, topic |-> t]}
RequestIdToTopicDelete(id) == {e \in requestIdToTopic : e.id # id}

Init ==
    /\ http = [r \in Requests |-> "idle"]
    /\ respCh = [r \in Requests |-> "none"]
    /\ reqID = [r \in Requests |-> 0]
    /\ apiCounter = ApiIdBase
    /\ ctxDone = FALSE
    /\ producerCh = <<>>
    /\ receiving = NoReq
    /\ requestMap = {}
    /\ buffers = {}
    /\ apiInputCh = [t \in Topics |-> <<>>]
    /\ store = [t \in Topics |-> <<>>]
    /\ bufferedCount = [t \in Topics |-> 0]
    /\ wedged = {}
    /\ waitingMap = [t \in Topics |-> {}]
    /\ responseInputCh = [t \in Topics |-> <<>>]
    /\ pending = [t \in Topics |-> 0]
    /\ batches = <<>>
    /\ sendJobsCh = <<>>
    /\ sending = 0
    /\ requestIdToTopic = {}
    /\ atLeader = {}
    /\ answered = {}
    /\ responses = {}
    /\ handling = {}

-----------------------------------------------------------------------------
(* The HTTP handlers                                                       *)

\* withLeaderCheck: leaderAvailable is FALSE. (Module Leadership models it.)
RejectNoLeader(r) ==
    /\ http[r] = "idle"
    /\ http' = [http EXCEPT ![r] = "503"]
    /\ UNCHANGED <<reqID, apiCounter, ctxDone, respCh, producerCh, receiving,
                   requestMap, bufferVars, batchVars, responseInputCh, sendJobsCh,
                   sending, requestIdToTopic, leaderVars, handling>>

\* The payload is decoded, nextRequestID() is taken, and the handler is about
\* to send on producerCh.
Submit(r) ==
    /\ http[r] = "idle"
    /\ http' = [http EXCEPT ![r] = "sending"]
    /\ apiCounter' = apiCounter + 1
    /\ reqID' = [reqID EXCEPT ![r] = apiCounter + 1]
    /\ UNCHANGED <<ctxDone, respCh, producerCh, receiving, requestMap, bufferVars,
                   batchVars, responseInputCh, sendJobsCh, sending,
                   requestIdToTopic, leaderVars, handling>>

Enqueue(r) ==
    /\ http[r] = "sending"
    /\ Len(producerCh) < ProducerCap
    /\ http' = [http EXCEPT ![r] = "waiting"]
    /\ producerCh' = Append(producerCh, r)
    /\ UNCHANGED <<reqID, apiCounter, ctxDone, respCh, receiving, requestMap,
                   bufferVars, batchVars, responseInputCh, sendJobsCh, sending,
                   requestIdToTopic, leaderVars, handling>>

\* "proxy busy": producerCh stayed full for 5 seconds.
EnqueueTimeout(r) ==
    /\ http[r] = "sending"
    /\ Len(producerCh) = ProducerCap
    /\ http' = [http EXCEPT ![r] = "503"]
    /\ UNCHANGED <<reqID, apiCounter, ctxDone, respCh, producerCh, receiving,
                   requestMap, bufferVars, batchVars, responseInputCh, sendJobsCh,
                   sending, requestIdToTopic, leaderVars, handling>>

Reply(r) ==
    /\ http[r] = "waiting"
    /\ respCh[r] # "none"
    /\ http' = [http EXCEPT ![r] = IF respCh[r] = "success" THEN "200" ELSE respCh[r]]
    /\ respCh' = [respCh EXCEPT ![r] = "none"]
    /\ UNCHANGED <<reqID, apiCounter, ctxDone, producerCh, receiving, requestMap,
                   bufferVars, batchVars, responseInputCh, sendJobsCh, sending,
                   requestIdToTopic, leaderVars, handling>>

Timeout_As503(r) ==
    /\ http[r] = "waiting"
    /\ http' = [http EXCEPT ![r] = "503"]
    /\ UNCHANGED <<reqID, apiCounter, ctxDone, respCh, producerCh, receiving,
                   requestMap, bufferVars, batchVars, responseInputCh, sendJobsCh,
                   sending, requestIdToTopic, leaderVars, handling>>

\* 5 seconds for a topic, 30 for jobs. Nothing tells the cluster agent.
Timeout(r) ==
    /\ http[r] = "waiting"
    /\ http' = [http EXCEPT ![r] = "504"]
    /\ UNCHANGED <<reqID, apiCounter, ctxDone, respCh, producerCh, receiving,
                   requestMap, bufferVars, batchVars, responseInputCh, sendJobsCh,
                   sending, requestIdToTopic, leaderVars, handling>>

\* <-p.ctx.Done(): AddTopicHandler writes 503, AddJobHandler just returns.
HandlerShutdown(r) ==
    /\ ctxDone
    /\ http[r] = "waiting"
    /\ http' = [http EXCEPT ![r] = IF r \in TopicRequests THEN "503" ELSE "empty200"]
    /\ UNCHANGED <<reqID, apiCounter, ctxDone, respCh, producerCh, receiving,
                   requestMap, bufferVars, batchVars, responseInputCh, sendJobsCh,
                   sending, requestIdToTopic, leaderVars, handling>>

\* The process is told to stop. The goroutines leave their loops at their next
\* select, so from here on every step below is possible and none is certain.
Shutdown ==
    /\ MayShutDown
    /\ ~ctxDone
    /\ ctxDone' = TRUE
    /\ UNCHANGED <<http, reqID, apiCounter, respCh, producerCh, receiving,
                   requestMap, bufferVars, batchVars, responseInputCh, sendJobsCh,
                   sending, requestIdToTopic, leaderVars, handling>>

-----------------------------------------------------------------------------
(* requestReceiverTask                                                     *)

\* handleAddJobsRequest and getOrCreateJobBuffer.
ReceiveJobs ==
    /\ receiving = NoReq
    /\ producerCh # <<>>
    /\ Head(producerCh) \in JobRequests
    /\ LET r == Head(producerCh)
           t == TopicOf[r]
       IN  /\ producerCh' = Tail(producerCh)
           /\ buffers' = buffers \union {t}
           /\ IF Len(apiInputCh[t]) < InputCap
              THEN /\ apiInputCh' = [apiInputCh EXCEPT ![t] = Append(@, r)]
                   /\ respCh' = respCh
              ELSE /\ respCh' = Offer(respCh, r, "busy")
                   /\ apiInputCh' = apiInputCh
    /\ UNCHANGED <<handlerVars, receiving, requestMap, store, bufferedCount, wedged,
                   batchVars, responseInputCh, sendJobsCh, sending,
                   requestIdToTopic, leaderVars, handling>>

\* The AddTopic case: the entry is registered before the request is sent.
ReceiveTopic ==
    /\ receiving = NoReq
    /\ producerCh # <<>>
    /\ Head(producerCh) \in TopicRequests
    /\ LET r == Head(producerCh)
       IN  /\ requestMap' = RequestMapPut(reqID[r], r)
           /\ receiving' = r
    /\ producerCh' = Tail(producerCh)
    /\ UNCHANGED <<handlerVars, respCh, bufferVars, batchVars, responseInputCh,
                   sendJobsCh, sending, requestIdToTopic, leaderVars, handling>>

\* sendToLeader returns nil.
TopicSendOk ==
    /\ receiving # NoReq
    /\ atLeader' = atLeader \union {[id |-> reqID[receiving], origin |-> "topic"]}
    /\ receiving' = NoReq
    /\ UNCHANGED <<handlerVars, respCh, producerCh, requestMap, bufferVars,
                   batchVars, responseInputCh, sendJobsCh, sending,
                   requestIdToTopic, answered, responses, handling>>

\* sendToLeader gives up: no leader, no connection, or three attempts failed.
TopicSendErr ==
    /\ receiving # NoReq
    /\ requestMap' = RequestMapDelete(reqID[receiving])
    /\ respCh' = Offer(respCh, receiving, "unsent")
    /\ receiving' = NoReq
    /\ UNCHANGED <<handlerVars, producerCh, bufferVars, batchVars, responseInputCh,
                   sendJobsCh, sending, requestIdToTopic, leaderVars, handling>>

-----------------------------------------------------------------------------
(* The JobBuffer goroutine of topic t. It is at its select unless it is     *)
(* wedged in buffer() or pushing a batch in drain().                        *)

AtSelect(t) == t \in buffers /\ t \notin wedged /\ pending[t] = 0

\* store <- request. With a full store the send never ends, since only this
\* goroutine empties it.
Buffer(t) ==
    /\ AtSelect(t)
    /\ apiInputCh[t] # <<>>
    /\ apiInputCh' = [apiInputCh EXCEPT ![t] = Tail(@)]
    /\ IF Len(store[t]) < StoreCap
       THEN /\ store' = [store EXCEPT ![t] = Append(@, Head(apiInputCh[t]))]
            /\ bufferedCount' = [bufferedCount EXCEPT ![t] = @ + 1]
            /\ UNCHANGED wedged
       ELSE /\ wedged' = wedged \union {t}
            /\ UNCHANGED <<store, bufferedCount>>
    /\ UNCHANGED <<handlerVars, respCh, producerCh, receiving, requestMap, buffers,
                   batchVars, responseInputCh, sendJobsCh, sending,
                   requestIdToTopic, leaderVars, handling>>

\* drain takes bufferedCount requests out of a store that is not empty.
ReadyToDrain_AtTwo(t) == Len(store[t]) >= 2
ReadyToDrain(t) == store[t] # <<>>
Drained(t) == {store[t][i] : i \in 1..bufferedCount[t]}
LeftInStore_OffByOne(t) == SubSeq(store[t], bufferedCount[t], Len(store[t]))
LeftInStore(t) == SubSeq(store[t], bufferedCount[t] + 1, Len(store[t]))

Drain(t) ==
    /\ AtSelect(t)
    /\ ReadyToDrain(t)
    /\ batches' = Append(batches, [topic |-> t, first |-> Head(store[t]),
                                   reqs |-> Drained(t)])
    /\ store' = [store EXCEPT ![t] = LeftInStore(t)]
    /\ bufferedCount' = [bufferedCount EXCEPT ![t] = 0]
    /\ waitingMap' = [waitingMap EXCEPT ![t] = @ \union {NextBatchID}]
    /\ pending' = [pending EXCEPT ![t] = NextBatchID]
    /\ UNCHANGED <<handlerVars, respCh, producerCh, receiving, requestMap, buffers,
                   apiInputCh, wedged, responseInputCh, sendJobsCh, sending,
                   requestIdToTopic, leaderVars, handling>>

\* The blocking send at the end of drain.
PushBatch(t) ==
    /\ pending[t] # 0
    /\ Len(sendJobsCh) < SendCap
    /\ sendJobsCh' = Append(sendJobsCh, pending[t])
    /\ pending' = [pending EXCEPT ![t] = 0]
    /\ UNCHANGED <<handlerVars, respCh, producerCh, receiving, requestMap,
                   bufferVars, waitingMap, batches, responseInputCh, sending,
                   requestIdToTopic, leaderVars, handling>>

\* jobBelongsToClient, over all failures of a response.
OwnFailures(failures, r) ==
    {f \in failures : JobHash[f] \in {JobHash[j] : j \in JobsOf[r]}}

CallerOutcome_NoTopLevelError(resp, r) ==
    IF resp.status = "success" \/ OwnFailures(resp.failures, r) = {}
    THEN "success" ELSE "refused"
CallerOutcome_AllFailures(resp, r) ==
    IF resp.status = "success" THEN "success"
    ELSE IF resp.origin = "proxy" THEN "unsent" ELSE "refused"

\* The reply dispatchResponse gives to one of the callers of a batch.
CallerOutcome(resp, r) ==
    IF resp.status = "success" THEN "success"
    ELSE IF resp.failures = {}
         THEN IF resp.origin = "proxy" THEN "unsent" ELSE "refused"
         ELSE IF OwnFailures(resp.failures, r) # {} THEN "refused" ELSE "success"

\* dispatchResponse.
Dispatch(t) ==
    /\ AtSelect(t)
    /\ responseInputCh[t] # <<>>
    /\ LET resp == Head(responseInputCh[t])
       IN  IF resp.id \in waitingMap[t]
           THEN /\ respCh' = [r \in Requests |->
                       IF r \in batches[resp.id].reqs
                       THEN Offer(respCh, r, CallerOutcome(resp, r))[r]
                       ELSE respCh[r]]
                /\ waitingMap' = [waitingMap EXCEPT ![t] = @ \ {resp.id}]
           ELSE UNCHANGED <<respCh, waitingMap>>
    /\ responseInputCh' = [responseInputCh EXCEPT ![t] = Tail(@)]
    /\ UNCHANGED <<handlerVars, producerCh, receiving, requestMap, bufferVars,
                   pending, batches, sendJobsCh, sending, requestIdToTopic,
                   leaderVars, handling>>

-----------------------------------------------------------------------------
(* sendJobsHandler                                                         *)

\* handleSendJobs up to sendToLeader: the batch is registered under the topic
\* of its first job.
TakeBatch ==
    /\ sending = 0
    /\ sendJobsCh # <<>>
    /\ LET id == Head(sendJobsCh)
       IN  /\ requestIdToTopic' = RequestIdToTopicPut(id, JobTopicOf[batches[id].first])
           /\ sending' = id
    /\ sendJobsCh' = Tail(sendJobsCh)
    /\ UNCHANGED <<handlerVars, respCh, producerCh, receiving, requestMap,
                   bufferVars, batchVars, responseInputCh, leaderVars, handling>>

SendBatchOk ==
    /\ sending # 0
    /\ atLeader' = atLeader \union {[id |-> sending, origin |-> "jobs"]}
    /\ sending' = 0
    /\ UNCHANGED <<handlerVars, respCh, producerCh, receiving, requestMap,
                   bufferVars, batchVars, responseInputCh, sendJobsCh,
                   requestIdToTopic, answered, responses, handling>>

SendBatchErr_Silent ==
    /\ sending # 0
    /\ requestIdToTopic' = RequestIdToTopicDelete(sending)
    /\ sending' = 0
    /\ UNCHANGED <<handlerVars, respCh, producerCh, receiving, requestMap, bufferVars,
                   batchVars, responseInputCh, sendJobsCh, leaderVars, handling>>
SendBatchErr ==
    /\ sending # 0
    /\ requestIdToTopic' = RequestIdToTopicDelete(sending)
    /\ OfferResponse(JobTopicOf[batches[sending].first],
                     [id |-> sending, origin |-> "proxy", status |-> "error",
                      failures |-> {}])
    /\ sending' = 0
    /\ UNCHANGED <<handlerVars, respCh, producerCh, receiving, requestMap,
                   bufferVars, batchVars, sendJobsCh, leaderVars, handling>>

\* An attempt of sendRequestByNodeID reaches the leader although the proxy goes
\* on to retry it, or to report that it could not be sent.
AttemptDelivered ==
    /\ \/ /\ sending # 0
          /\ atLeader' = atLeader \union {[id |-> sending, origin |-> "jobs"]}
       \/ /\ receiving # NoReq
          /\ atLeader' = atLeader \union {[id |-> reqID[receiving], origin |-> "topic"]}
    /\ UNCHANGED <<handlerVars, respCh, producerCh, receiving, requestMap,
                   bufferVars, batchVars, responseInputCh, sendJobsCh, sending,
                   requestIdToTopic, answered, responses, handling>>

-----------------------------------------------------------------------------
(* The leader (external), and handleResponse                               *)

\* The answers the leader may give to message m: all of it done, all of it
\* refused, or some of the jobs of a batch refused.
Verdicts(m) ==
    {[id |-> m.id, origin |-> m.origin, status |-> "success", failures |-> {}]}
    \union
    {[id |-> m.id, origin |-> m.origin, status |-> "error", failures |-> f] :
        f \in IF m.origin = "jobs" THEN SUBSET JobsIn(m.id) ELSE {{}}}

\* A message the proxy sent more than once may be answered more than once.
LeaderAnswer(m) ==
    /\ Cardinality({a \in answered : a.id = m.id /\ a.origin = m.origin}) < MaxAnswers
    /\ \E resp \in Verdicts(m) \ answered :
          /\ answered' = answered \union {resp}
          /\ responses' = responses \union {resp}
    /\ UNCHANGED <<handlerVars, respCh, producerCh, receiving, requestMap,
                   bufferVars, batchVars, responseInputCh, sendJobsCh, sending,
                   requestIdToTopic, atLeader, handling>>

\* AddTopicHandler's reading of the response it is handed.
TopicOutcome(resp) == IF resp.status = "success" THEN "success" ELSE "refused"

\* handleResponse, the requestMap part. The wire carries resp.id, not its
\* origin. The send after the unlock belongs to the step: the receiver's error
\* path is the only other sender on that channel.
RouteToTopicCaller(resp) ==
    /\ \E e \in requestMap :
          /\ e.id = resp.id
          /\ requestMap' = RequestMapDelete(resp.id)
          /\ respCh' = Offer(respCh, e.req, TopicOutcome(resp))
    /\ responses' = responses \ {resp}
    /\ UNCHANGED <<handlerVars, producerCh, receiving, bufferVars, batchVars,
                   responseInputCh, sendJobsCh, sending, requestIdToTopic,
                   atLeader, answered, handling>>

\* handleResponse, the read of requestIdToTopic; an unknown ID is dropped.
LookUpBatch(resp) ==
    /\ \A e \in requestMap : e.id # resp.id
    /\ handling' = handling \union
                   {[resp |-> resp, topic |-> e.topic] :
                       e \in {x \in requestIdToTopic : x.id = resp.id}}
    /\ responses' = responses \ {resp}
    /\ UNCHANGED <<handlerVars, respCh, producerCh, receiving, requestMap,
                   bufferVars, batchVars, responseInputCh, sendJobsCh, sending,
                   requestIdToTopic, atLeader, answered>>

\* handleResponse, the forward to the JobBuffer and the cleanup.
ForwardResponse(h) ==
    /\ OfferResponse(h.topic, h.resp)
    /\ requestIdToTopic' = RequestIdToTopicDelete(h.resp.id)
    /\ handling' = handling \ {h}
    /\ UNCHANGED <<handlerVars, respCh, producerCh, receiving, requestMap,
                   bufferVars, batchVars, sendJobsCh, sending, leaderVars>>

-----------------------------------------------------------------------------

Handler(r) ==
    \/ RejectNoLeader(r) \/ Submit(r) \/ Enqueue(r) \/ EnqueueTimeout(r)
    \/ Reply(r) \/ Timeout(r) \/ HandlerShutdown(r)

Receiver == ReceiveJobs \/ ReceiveTopic \/ TopicSendOk \/ TopicSendErr

JobBuffer(t) == Buffer(t) \/ Drain(t) \/ PushBatch(t) \/ Dispatch(t)

Sender == TakeBatch \/ SendBatchOk \/ SendBatchErr

Network == AttemptDelivered \/ \E m \in atLeader : LeaderAnswer(m)

HandleResponse ==
    \/ \E resp \in responses : RouteToTopicCaller(resp) \/ LookUpBatch(resp)
    \/ \E h \in handling : ForwardResponse(h)

Next ==
    \/ \E r \in Requests : Handler(r)
    \/ Shutdown
    \/ Receiver
    \/ \E t \in Topics : JobBuffer(t)
    \/ Sender
    \/ Network
    \/ HandleResponse

\* The Go scheduler runs every goroutine that can run, and a send returns within
\* its deadline. Nothing is assumed of the leader, of the producers, or of which
\* ready case a select takes.
Fairness ==
    /\ WF_vars(~ctxDone /\ Receiver)
    /\ WF_vars(~ctxDone /\ Sender)
    /\ WF_vars(~ctxDone /\ HandleResponse)
    /\ \A t \in Topics : WF_vars(~ctxDone /\ JobBuffer(t))

Spec == Init /\ [][Next]_vars /\ Fairness

-----------------------------------------------------------------------------
(* Properties                                                              *)

TypeOK ==
    /\ http \in [Requests -> {"idle", "sending", "waiting"} \union Final]
    /\ respCh \in [Requests -> {"none"} \union Outcome]
    /\ reqID \in [Requests -> Nat]
    /\ apiCounter \in Nat
    /\ ctxDone \in BOOLEAN
    /\ producerCh \in Seq(Requests)
    /\ receiving \in TopicRequests \union {NoReq}
    /\ requestMap \subseteq [id : Nat, req : TopicRequests]
    /\ buffers \subseteq Topics
    /\ apiInputCh \in [Topics -> Seq(JobRequests)]
    /\ store \in [Topics -> Seq(JobRequests)]
    /\ bufferedCount \in [Topics -> Nat]
    /\ wedged \subseteq Topics
    /\ batches \in Seq([topic : Topics, first : JobRequests, reqs : SUBSET JobRequests])
    /\ waitingMap \in [Topics -> SUBSET BatchIDs]
    /\ responseInputCh \in [Topics -> Seq(Response)]
    /\ pending \in [Topics -> BatchIDs \union {0}]
    /\ sendJobsCh \in Seq(BatchIDs)
    /\ sending \in BatchIDs \union {0}
    /\ requestIdToTopic \subseteq [id : BatchIDs, topic : Topics \union {NoTopic}]
    /\ atLeader \subseteq [id : Nat, origin : {"jobs", "topic"}]
    /\ answered \subseteq Response
    /\ responses \subseteq Response
    /\ handling \subseteq [resp : Response, topic : Topics \union {NoTopic}]

\* The leader has answered, for request r itself, that it did what r asked.
Accepted(r) ==
    IF r \in TopicRequests
    THEN \E a \in answered : a.origin = "topic" /\ a.id = reqID[r] /\ a.status = "success"
    ELSE \E a \in answered :
            /\ a.origin = "jobs"
            /\ r \in batches[a.id].reqs
            /\ a.status = "success" \/ (a.failures # {} /\ a.failures \intersect JobsOf[r] = {})

\* The leader has answered, for request r itself, that it refuses it.
Refused(r) ==
    IF r \in TopicRequests
    THEN \E a \in answered : a.origin = "topic" /\ a.id = reqID[r] /\ a.status = "error"
    ELSE \E a \in answered :
            /\ a.origin = "jobs"
            /\ r \in batches[a.id].reqs
            /\ a.status = "error"
            /\ a.failures = {} \/ a.failures \intersect JobsOf[r] # {}

\* A producer that reads a success body has its own jobs (or its own topic)
\* accepted by the leader: CallerOutcome, the shared batch and the two ID tables
\* never hand it the verdict on another producer's request.
SuccessIsTrue == \A r \in Requests : http[r] = "200" => Accepted(r)

\* A producer that reads a refusal of the leader had that very request refused.
RefusalIsTrue == \A r \in Requests : http[r] = "refused" => Refused(r)

\* The answers of the handlers in the words of ProducerPromise. A topic request may
\* get its 503 from the shutdown branch, after it was sent.
StatusOf(r) ==
    CASE http[r] = "idle" -> "idle"
      [] http[r] \in {"sending", "waiting"} -> "open"
      [] http[r] = "200" -> "success"
      [] http[r] = "refused" -> "refused"
      [] http[r] = "busy" \/ (http[r] = "503" /\ r \in JobRequests) -> "turnedAway"
      [] OTHER -> "unknown"

Promise == INSTANCE ProducerPromise WITH
    status <- [r \in Requests |-> StatusOf(r)],
    accepted <- {r \in Requests : Accepted(r)},
    refused <- {r \in Requests : Refused(r)}

\* Handlers, JobBuffers, sender and handleResponse together keep the promise: a
\* request is answered once, success and refusal are what the leader said of that
\* very request before, and one that was turned away is never judged afterwards.
KeepsPromise == Promise!Spec

\* "first check if request is for other command types": no answer to an AddJobs
\* batch is taken for the answer to an AddTopic request.
RequestMapTakesOtherCommandsOnly ==
    [][\A resp \in responses : RouteToTopicCaller(resp) => resp.origin # "jobs"]_vars

\* A job request is in at most one place: producerCh, an apiInputCh, a store or
\* exactly one batch. So its jobs reach the leader in one message at most.
Places(r) ==
    Cardinality({i \in DOMAIN producerCh : producerCh[i] = r})
    + Cardinality({i \in DOMAIN apiInputCh[TopicOf[r]] : apiInputCh[TopicOf[r]][i] = r})
    + Cardinality({i \in DOMAIN store[TopicOf[r]] : store[TopicOf[r]][i] = r})
    + Cardinality({i \in BatchIDs : r \in batches[i].reqs})

InOnePlace == \A r \in JobRequests : Places(r) <= 1

\* A producer of jobs told "proxy busy", or 503, may submit them again: they are
\* in no batch and in no queue on the way to one.
BusyMeansDropped ==
    \A r \in JobRequests : http[r] \in {"busy", "503"} => Places(r) = 0

\* drain never waits in the middle of its loop: it takes bufferedCount requests
\* out of the store with blocking receives, and they are there.
DrainNeverBlocks == \A t \in Topics : bufferedCount[t] = Len(store[t])

\* "Register batch for response routing": as long as callers wait for a batch,
\* the batch is on its way to the leader, or the response has a way back.
HasWayBack(t, id) ==
    \/ pending[t] = id
    \/ id \in {sendJobsCh[i] : i \in DOMAIN sendJobsCh}
    \/ [id |-> id, topic |-> t] \in requestIdToTopic
    \/ \E i \in DOMAIN responseInputCh[t] : responseInputCh[t][i].id = id

WaitingBatchIsRoutable == \A t \in Topics : \A id \in waitingMap[t] : HasWayBack(t, id)

\* A job request the handler has queued gets into a batch, or is turned away as
\* busy, or its producer has gone.
QueuedIsBatched ==
    \A r \in JobRequests :
        http[r] = "waiting" ~> \/ ctxDone
                               \/ http[r] \in Final
                               \/ respCh[r] # "none"
                               \/ \E i \in BatchIDs : r \in batches[i].reqs

\* sendJobsHandler is through with batch id, and requestIdToTopic does not lead to its
\* callers: it could not be sent, or an answer was forwarded and "Cleanup" done.
IsSettled(id) ==
    /\ id \in BatchIDs
    /\ \A t \in Topics : pending[t] # id
    /\ id \notin {sendJobsCh[i] : i \in DOMAIN sendJobsCh}
    /\ sending # id
    /\ \A e \in requestIdToTopic : e.id # id

\* Once the leader has answered a batch, or handleSendJobs has failed to send it, also
\* when an attempt had reached the leader, its callers get their replies and the
\* waitingMap entry goes.
AnsweredBatchIsDispatched ==
    \A t \in Topics : \A id \in 1..Cardinality(JobRequests) :
        (IsSettled(id) \/ \E a \in answered : a.origin = "jobs" /\ a.id = id)
            ~> (ctxDone \/ id \notin waitingMap[t])

=============================================================================
