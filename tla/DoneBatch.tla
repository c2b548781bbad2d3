------------------------------ MODULE DoneBatch -------------------------------
(***************************************************************************)
(* The way of a consumer's ack to the leader: the ack branch of            *)
(* WebSocketHandler (internal/api/api.go), handleDoneRequest in the        *)
(* requestReceiverTask goroutine, and the flushDoneCmdsTasks goroutine with *)
(* flushAllTopics and flushTopic (internal/cluster/tasks.go).              *)
(*                                                                         *)
(*   ack --producerCh--> doneCmdBatchBuffer[topic] --Done request--> leader *)
(*                                                                         *)
(* And what happens to it when the proxy is stopped: RunProxy              *)
(* (internal/app/run.go) stops the HTTP server, which does not wait for    *)
(* WebSockets, closes the agent, which cancels its context and closes the  *)
(* connections, and returns without waiting for the agent's goroutines.    *)
(*                                                                         *)
(* The leader is external: it gets the requests that sendToLeader sent.    *)
(* A definition named after another with a suffix is a wrong variant of    *)
(* it, which Next does not use.                                            *)
(***************************************************************************)
EXTENDS Naturals, Sequences, FiniteSets

CONSTANTS
    Jobs,            \* jobs the consumers acknowledge, each once
    Topics,
    NoTopic,
    TopicOf,         \* the topic of a job
    Consumers,       \* WebSocket connections
    ConsumerOf,      \* the connection that acknowledges a job
    ProducerCap,     \* ProducerReqBufferSize, 10240
    MaxFailures,     \* bound: sends that fail
    MayShutDown      \* whether the behaviours with a shutdown are included

ASSUME DoneAssumption ==
    /\ NoTopic \notin Topics
    /\ TopicOf \in [Jobs -> Topics]
    /\ ConsumerOf \in [Jobs -> Consumers]
    /\ ProducerCap \in Nat \ {0}
    /\ MaxFailures \in Nat
    /\ MayShutDown \in BOOLEAN

VARIABLES
    reading,         \* connections whose WebSocketHandler is in its read loop
    ack,             \* per job: what its WebSocketHandler has done about the ack
    producerCh,      \* channel to requestReceiverTask
    receiver,        \* requestReceiverTask: "running" or "exited"
    batch,           \* doneCmdBatchBuffer: per topic, job IDs to send
    known,           \* topics that have an entry in doneCmdBatchBuffer
    flusher,         \* flushDoneCmdsTasks: "idle", "flushing", "final" or "exited"
    toFlush,         \* topics flushAllTopics has still to flush
    sendingTopic,    \* the topic flushTopic is sending, NoTopic if none
    jobsCopy,        \* the job IDs flushTopic is sending
    failures,        \* sends that have failed
    atLeader,        \* jobs whose Done reached the leader
    due,             \* history: acks batched when the last flush began, less those
                     \* whose send has failed since
    phase            \* how far RunProxy has got

receiverVars == <<producerCh, receiver>>
flushVars == <<flusher, toFlush, sendingTopic, jobsCopy>>
vars == <<reading, ack, receiverVars, batch, known, flushVars, failures, atLeader, due,
          phase>>

\* "serving"; "stopping": the context of the API is cancelled; "closing": that of the
\* agent too; "closed": so are the connections; "exited": main has returned.
Phases == <<"serving", "stopping", "closing", "closed", "exited">>

ctxDone == phase \in {"closing", "closed", "exited"}
Running == phase # "exited"

Elements(s) == {s[i] : i \in DOMAIN s}

Init ==
    /\ reading = Consumers
    /\ ack = [j \in Jobs |-> "none"]
    /\ producerCh = <<>>
    /\ receiver = "running"
    /\ batch = [t \in Topics |-> <<>>]
    /\ known = {}
    /\ flusher = "idle"
    /\ toFlush = {}
    /\ sendingTopic = NoTopic
    /\ jobsCopy = <<>>
    /\ failures = 0
    /\ atLeader = {}
    /\ due = {}
    /\ phase = "serving"

-----------------------------------------------------------------------------

\* producerCh has room.
CanQueue_OffByOne == Len(producerCh) <= ProducerCap
CanQueue == Len(producerCh) < ProducerCap

\* The read loop looks at the context before it waits for a message, so that a
\* handler that waits when the proxy is stopped handles one more.
AfterMessage(c) == IF phase = "serving" THEN reading ELSE reading \ {c}

\* An ack message with a topic and a job ID.
AckJob(j) ==
    /\ Running
    /\ ConsumerOf[j] \in reading
    /\ ack[j] = "none"
    /\ CanQueue
    /\ ack' = [ack EXCEPT ![j] = "queued"]
    /\ producerCh' = Append(producerCh, j)
    /\ reading' = AfterMessage(ConsumerOf[j])
    /\ UNCHANGED <<receiver, batch, known, flushVars, failures, atLeader, due, phase>>

\* producerCh stayed full for a second: the Done is given up.
AckTimeout(j) ==
    /\ Running
    /\ ConsumerOf[j] \in reading
    /\ ack[j] = "none"
    /\ ~CanQueue
    /\ ack' = [ack EXCEPT ![j] = "dropped"]
    /\ reading' = AfterMessage(ConsumerOf[j])
    /\ UNCHANGED <<receiverVars, batch, known, flushVars, failures, atLeader, due, phase>>

\* <-p.ctx.Done(): WebSocketHandler returns without its cleanup.
HandlerReturns(c) ==
    /\ Running
    /\ phase # "serving"
    /\ c \in reading
    /\ reading' = reading \ {c}
    /\ UNCHANGED <<ack, receiverVars, batch, known, flushVars, failures, atLeader, due, phase>>

\* handleDoneRequest.
HandleDone ==
    /\ Running
    /\ receiver = "running"
    /\ producerCh # <<>>
    /\ LET j == Head(producerCh)
       IN  /\ batch' = [batch EXCEPT ![TopicOf[j]] = Append(@, j)]
           /\ known' = known \union {TopicOf[j]}
    /\ producerCh' = Tail(producerCh)
    /\ UNCHANGED <<reading, ack, receiver, flushVars, failures, atLeader, due, phase>>

\* A select that finds ctx.Done ready may still take another ready case first.
ReceiverExits ==
    /\ Running
    /\ ctxDone
    /\ receiver = "running"
    /\ receiver' = "exited"
    /\ UNCHANGED <<reading, ack, producerCh, batch, known, flushVars, failures, atLeader, due,
                   phase>>

-----------------------------------------------------------------------------

\* The ticker, or ctx.Done: flushAllTopics copies the topics.
TopicsToFlush_OffByOne == {t \in known : Len(batch[t]) > 1}
TopicsToFlush == known

FlushAllTopics(kind) ==
    /\ Running
    /\ flusher = "idle"
    /\ flusher' = kind
    /\ toFlush' = TopicsToFlush
    /\ UNCHANGED <<reading, ack, receiverVars, batch, known, sendingTopic, jobsCopy, failures,
                   atLeader, phase>>

Tick == FlushAllTopics("flushing") /\ UNCHANGED due
FinalFlush ==
    /\ ctxDone
    /\ FlushAllTopics("final")
    /\ due' = UNION {Elements(batch[t]) : t \in Topics}

\* flushTopic up to sendToLeader: the batch is copied and emptied.
Emptied_Forgotten(t) == batch
Emptied_AllTopics(t) == [u \in Topics |-> <<>>]
Emptied(t) == [batch EXCEPT ![t] = <<>>]

\* len(jobIDs) == 0: flushTopic returns.
NothingToSend_OffByOne(t) == Len(batch[t]) <= 1
NothingToSend(t) == batch[t] = <<>>

FlushTopic(t) ==
    /\ Running
    /\ sendingTopic = NoTopic
    /\ t \in toFlush
    /\ toFlush' = toFlush \ {t}
    /\ IF NothingToSend(t)
       THEN UNCHANGED <<batch, sendingTopic, jobsCopy>>
       ELSE /\ jobsCopy' = batch[t]
            /\ batch' = Emptied(t)
            /\ sendingTopic' = t
    /\ UNCHANGED <<reading, ack, receiverVars, known, flusher, failures, atLeader, due, phase>>

FlushSent ==
    /\ phase \notin {"closed", "exited"}
    /\ sendingTopic # NoTopic
    /\ atLeader' = atLeader \union Elements(jobsCopy)
    /\ sendingTopic' = NoTopic
    /\ jobsCopy' = <<>>
    /\ UNCHANGED <<reading, ack, receiverVars, batch, known, flusher, toFlush, failures, due,
                   phase>>

\* "add back to batch if you want retry": only into an empty batch. An attempt
\* that failed for the proxy may have reached the leader all the same.
AfterFailedSend(t) == IF batch[t] = <<>> THEN [batch EXCEPT ![t] = jobsCopy] ELSE batch

\* The send fails, as it must on a closed connection.
FlushFailed ==
    /\ Running
    /\ sendingTopic # NoTopic
    /\ IF phase = "closed"
       THEN UNCHANGED failures
       ELSE failures < MaxFailures /\ failures' = failures + 1
    /\ batch' = AfterFailedSend(sendingTopic)
    /\ atLeader' \in {atLeader, atLeader \union Elements(jobsCopy)}
    /\ sendingTopic' = NoTopic
    /\ jobsCopy' = <<>>
    /\ due' = due \ Elements(jobsCopy)
    /\ UNCHANGED <<reading, ack, receiverVars, known, flusher, toFlush, phase>>

\* flushAllTopics returns, to the select or, after the last flush, for good.
FlushReturns ==
    /\ Running
    /\ flusher \in {"flushing", "final"}
    /\ toFlush = {}
    /\ sendingTopic = NoTopic
    /\ flusher' = IF flusher = "final" THEN "exited" ELSE "idle"
    /\ UNCHANGED <<reading, ack, receiverVars, batch, known, toFlush, sendingTopic, jobsCopy,
                   failures, atLeader, due, phase>>

-----------------------------------------------------------------------------
(* RunProxy after the signal                                               *)

GoOn(from, to) ==
    /\ phase = from
    /\ phase' = to
    /\ UNCHANGED <<reading, ack, receiverVars, batch, known, flushVars, failures, atLeader, due>>

Signal == MayShutDown /\ GoOn("serving", "stopping")

\* Stop returns, and Close cancels the context of the agent.
StopAndCancel == GoOn("stopping", "closing")
CloseConnections == GoOn("closing", "closed")
Exit == GoOn("closed", "exited")

RunProxy == Signal \/ StopAndCancel \/ CloseConnections \/ Exit

-----------------------------------------------------------------------------

Flusher ==
    \/ Tick \/ FinalFlush \/ FlushSent \/ FlushFailed \/ FlushReturns
    \/ \E t \in Topics : FlushTopic(t)

Next ==
    \/ \E j \in Jobs : AckJob(j) \/ AckTimeout(j)
    \/ \E c \in Consumers : HandlerReturns(c)
    \/ HandleDone
    \/ ReceiverExits
    \/ Flusher
    \/ RunProxy

\* The two goroutines run, and the ticker ticks; consumers need not acknowledge.
Fairness == WF_vars(HandleDone) /\ WF_vars(Flusher)

Spec == Init /\ [][Next]_vars /\ Fairness

-----------------------------------------------------------------------------
(* Properties                                                              *)

TypeOK ==
    /\ reading \subseteq Consumers
    /\ ack \in [Jobs -> {"none", "queued", "dropped"}]
    /\ producerCh \in Seq(Jobs)
    /\ Len(producerCh) <= ProducerCap
    /\ receiver \in {"running", "exited"}
    /\ batch \in [Topics -> Seq(Jobs)]
    /\ known \subseteq Topics
    /\ flusher \in {"idle", "flushing", "final", "exited"}
    /\ toFlush \subseteq Topics
    /\ sendingTopic \in Topics \union {NoTopic}
    /\ jobsCopy \in Seq(Jobs)
    /\ failures \in 0..MaxFailures
    /\ atLeader \subseteq Jobs
    /\ due \subseteq Jobs
    /\ phase \in Elements(Phases)

\* Still in a queue, in a batch or in a send of the running proxy, or known to the
\* leader.
OnItsWay(j) ==
    \/ j \in atLeader
    \/ Running /\ \/ j \in Elements(producerCh)
                  \/ j \in Elements(batch[TopicOf[j]])
                  \/ j \in Elements(jobsCopy)

\* "add back to batch if you want retry": before the process ends an ack is thrown
\* away in one case only, when its send fails after other acks of the topic have come
\* in. The copying, the emptying, the flushes of other topics and the beginning of a
\* shutdown lose none.
LostOnlyWhenOvertaken ==
    [][\A j \in Jobs : (OnItsWay(j) /\ ~OnItsWay(j)') =>
          \/ phase' = "exited"
          \/ /\ FlushFailed
             /\ sendingTopic = TopicOf[j]
             /\ batch[sendingTopic] # <<>>]_vars

\* "Context cancelled - flush all remaining": once flushDoneCmdsTasks has returned,
\* the acks it found in the batch are with the leader, except those whose send failed.
\* (It may be too late for those that requestReceiverTask adds meanwhile, and the
\* process may end before it has returned.)
LastFlushIsComplete == flusher = "exited" => due \subseteq atLeader

\* An ack waits in one place: a failed send that is added back, and acks that
\* come in meanwhile, make no duplicates.
AckInOnePlace ==
    \A j \in Jobs :
        Cardinality({i \in DOMAIN producerCh : producerCh[i] = j})
        + Cardinality({i \in DOMAIN batch[TopicOf[j]] : batch[TopicOf[j]][i] = j})
        + Cardinality({i \in DOMAIN jobsCopy : jobsCopy[i] = j})
        <= 1

\* An ack that was queued reaches the leader, through failed sends too, unless it
\* is one of those thrown away or the proxy is shut down.
QueuedAckArrives ==
    \A j \in Jobs : ack[j] = "queued" ~> (j \in atLeader \/ ctxDone \/ ~OnItsWay(j))

=============================================================================
