------------------------------- MODULE Session --------------------------------
(***************************************************************************)
(* The life of a consumer's websocket: WebSocketHandler                    *)
(* (internal/api/api.go) from the check of the token to the cleanup, and   *)
(* the write loop of its Consumer (internal/api/consumer.go), with the     *)
(* table of tokens of Auth.                                                *)
(*                                                                         *)
(* Router has what the dispatcher does with a consumer, and DoneBatch what *)
(* becomes of an ack and how the handler returns at a shutdown. Here the   *)
(* dispatcher only fills the write channel, and a message of the client    *)
(* leaves the read loop where it is.                                       *)
(***************************************************************************)
EXTENDS Auth, Sequences

CONSTANTS
    Conns,           \* websocket connections, each with its Consumer
    UUIDs,
    UUIDOf,          \* the UUID a client sends in its init message
    After,           \* the connection of the same client before, or NoConn
    TokenOf,
    NoConn,
    MaxInflights,    \* DefaultMaxInflights
    WriteCap,        \* capacity of writeCh (256)
    MaxJobs          \* bound: jobs that come for the topic

ASSUME SessionAssumption ==
    /\ UUIDOf \in [Conns -> UUIDs]
    /\ After \in [Conns -> Conns \union {NoConn}]
    /\ TokenOf \in [Conns -> Tokens]
    /\ NoConn \notin Conns
    /\ MaxInflights \in Nat \ {0}
    /\ WriteCap \in Nat \ {0}
    /\ MaxJobs \in Nat

VARIABLES
    pc,              \* per connection: what its WebSocketHandler does next
    client,          \* external, per connection: its client has not come yet, waits for
                     \* "accepted", has read it, or is gone
    writer,          \* per connection: StartWriteLoop
    writeCh,         \* Consumer.writeCh
    sent,            \* Consumer.LastSentID
    queued,          \* external: jobs for the topic that the dispatcher has not sent
    consumers,       \* ProxyApi.consumers
    consumersByUUID, \* ProxyApi.consumersByUUID
    routed           \* the consumers the router knows

apiVars == <<consumers, consumersByUUID, routed>>
consumerVars == <<writer, writeCh, sent, queued>>
sessionVars == <<pc, client, consumerVars, apiVars>>
vars == <<authVars, sessionVars>>

Init ==
    /\ AuthInit
    /\ pc = [c \in Conns |-> "idle"]
    /\ client = [c \in Conns |-> "away"]
    /\ writer = [c \in Conns |-> "none"]
    /\ writeCh = [c \in Conns |-> <<>>]
    /\ sent = [c \in Conns |-> 0]
    /\ queued = MaxJobs
    /\ consumers = {}
    /\ consumersByUUID = [u \in UUIDs |-> NoConn]
    /\ routed = {}

Gone(c) == client[c] = "gone"

Goto(c, from, to) ==
    /\ pc[c] = from
    /\ pc' = [pc EXCEPT ![c] = to]
    /\ UNCHANGED authVars

-----------------------------------------------------------------------------
(* WebSocketHandler                                                        *)

\* A client opens its connections one after the other.
Comes(c) == client[c] = "away" /\ (After[c] # NoConn => client[After[c]] = "gone")

Admitted(c) == ValidateRole(TokenOf[c], "consumer")

Upgrade(c) ==
    /\ Comes(c)
    /\ Admitted(c)
    /\ Goto(c, "idle", "upgraded")
    /\ client' = [client EXCEPT ![c] = "waiting"]
    /\ UNCHANGED <<consumerVars, apiVars>>

Refuse(c) ==
    /\ Comes(c)
    /\ ~Admitted(c)
    /\ Goto(c, "idle", "refused")
    /\ client' = [client EXCEPT ![c] = "gone"]
    /\ UNCHANGED <<consumerVars, apiVars>>

\* The first message cannot be read, or is not a proper init: the socket is closed.
RejectInit(c) ==
    /\ Goto(c, "upgraded", "refused")
    /\ client' = [client EXCEPT ![c] = "gone"]
    /\ UNCHANGED <<consumerVars, apiVars>>

\* NewConsumer and the two maps. A client that comes back with its UUID takes over
\* the entry of its old connection.
Register(c) ==
    /\ Goto(c, "upgraded", "registered")
    /\ consumers' = consumers \union {c}
    /\ consumersByUUID' = [consumersByUUID EXCEPT ![UUIDOf[c]] = c]
    /\ UNCHANGED <<client, consumerVars, routed>>

AddConsumer(c) ==
    /\ Goto(c, "registered", "routed")
    /\ routed' = routed \union {c}
    /\ UNCHANGED <<client, consumerVars, consumers, consumersByUUID>>

\* "go consumer.StartWriteLoop()"; the variant is the call without go.
StartWriteLoop_NoGo(c) ==
    /\ writer[c] = "none"
    /\ Goto(c, "routed", "routed")
    /\ writer' = [writer EXCEPT ![c] = "running"]
    /\ UNCHANGED <<client, writeCh, sent, queued, apiVars>>
StartWriteLoop(c) ==
    /\ Goto(c, "routed", "accepting")
    /\ writer' = [writer EXCEPT ![c] = "running"]
    /\ UNCHANGED <<client, writeCh, sent, queued, apiVars>>

\* WriteMessage waits for room in writeCh, or for doneCh, which only this handler
\* closes, later.
HasRoom_OffByOne(ch) == Len(ch) =< WriteCap
HasRoom(ch) == Len(ch) < WriteCap

QueueAccepted(c) ==
    /\ HasRoom(writeCh[c])
    /\ Goto(c, "accepting", "reading")
    /\ writeCh' = [writeCh EXCEPT ![c] = Append(@, "accepted")]
    /\ UNCHANGED <<client, writer, sent, queued, apiVars>>

\* ReadJSON fails (a message that is no JSON will do): cleanup, in three steps.
Unmapped_ByID(c) == consumersByUUID
Unmapped(c) == [consumersByUUID EXCEPT ![UUIDOf[c]] = NoConn]

ReadFails(c) ==
    /\ Goto(c, "reading", "unmapped")
    /\ consumers' = consumers \ {c}
    /\ consumersByUUID' = Unmapped(c)
    /\ UNCHANGED <<client, consumerVars, routed>>

RemoveConsumer_IfNotReplaced(c) ==
    /\ Goto(c, "unmapped", "unrouted")
    /\ routed' = IF consumersByUUID[UUIDOf[c]] = NoConn THEN routed \ {c} ELSE routed
    /\ UNCHANGED <<client, consumerVars, consumers, consumersByUUID>>
RemoveConsumer(c) ==
    /\ Goto(c, "unmapped", "unrouted")
    /\ routed' = routed \ {c}
    /\ UNCHANGED <<client, consumerVars, consumers, consumersByUUID>>

Close(c) ==
    /\ Goto(c, "unrouted", "closed")
    /\ client' = [client EXCEPT ![c] = "gone"]
    /\ UNCHANGED <<consumerVars, apiVars>>

-----------------------------------------------------------------------------
(* The dispatcher, the write loop and the client                           *)

\* A routed consumer with a free slot is sent a job, which is dropped when writeCh is
\* full. No ack frees a slot before the read loop; what follows then is in Router.
Dispatch(c) ==
    /\ c \in routed
    /\ sent[c] < MaxInflights
    /\ queued > 0
    /\ queued' = queued - 1
    /\ sent' = [sent EXCEPT ![c] = @ + 1]
    /\ writeCh' = IF HasRoom(writeCh[c])
                  THEN [writeCh EXCEPT ![c] = Append(@, "job")] ELSE writeCh
    /\ UNCHANGED <<authVars, pc, client, writer, apiVars>>

\* A write to a client that has gone may be noticed or not; to a closed socket it
\* fails.
WriteOne(c) ==
    /\ writer[c] = "running"
    /\ writeCh[c] # <<>>
    /\ writeCh' = [writeCh EXCEPT ![c] = Tail(@)]
    /\ client' = IF client[c] = "waiting" /\ Head(writeCh[c]) = "accepted"
                 THEN [client EXCEPT ![c] = "welcomed"] ELSE client
    /\ \/ pc[c] # "closed" /\ writer' = writer
       \/ Gone(c) /\ writer' = [writer EXCEPT ![c] = "ended"]
    /\ UNCHANGED <<authVars, pc, sent, queued, apiVars>>

ClientLeaves(c) ==
    /\ client[c] \in {"waiting", "welcomed"}
    /\ client' = [client EXCEPT ![c] = "gone"]
    /\ UNCHANGED <<authVars, pc, consumerVars, apiVars>>

-----------------------------------------------------------------------------

\* What the handler does without hearing from its client.
HandlerGoesOn(c) ==
    \/ AddConsumer(c) \/ StartWriteLoop(c) \/ QueueAccepted(c)
    \/ Gone(c) /\ ReadFails(c)
    \/ RemoveConsumer(c) \/ Close(c)

WebSocketHandler(c) ==
    \/ Upgrade(c) \/ Refuse(c) \/ RejectInit(c) \/ Register(c)
    \/ AddConsumer(c) \/ StartWriteLoop(c) \/ QueueAccepted(c)
    \/ ReadFails(c) \/ RemoveConsumer(c) \/ Close(c)

Next ==
    \/ AuthNext /\ UNCHANGED sessionVars
    \/ \E c \in Conns :
          WebSocketHandler(c) \/ Dispatch(c) \/ WriteOne(c) \/ ClientLeaves(c)

\* Goroutines run, and a write to a client that is there comes to an end. No client
\* has to come, to send anything or to leave.
Fairness ==
    /\ AuthFairness
    /\ \A c \in Conns : WF_vars(HandlerGoesOn(c)) /\ WF_vars(WriteOne(c))

Spec == Init /\ [][Next]_vars /\ Fairness

-----------------------------------------------------------------------------
(* Properties                                                              *)

TypeOK ==
    /\ AuthTypeOK
    /\ pc \in [Conns -> {"idle", "refused", "upgraded", "registered", "routed",
                         "accepting", "reading", "unmapped", "unrouted", "closed"}]
    /\ client \in [Conns -> {"away", "waiting", "welcomed", "gone"}]
    /\ writer \in [Conns -> {"none", "running", "ended"}]
    /\ \A c \in Conns : /\ writeCh[c] \in Seq({"job", "accepted"})
                        /\ Len(writeCh[c]) =< WriteCap
    /\ sent \in [Conns -> 0..MaxInflights]
    /\ queued \in 0..MaxJobs
    /\ consumers \subseteq Conns
    /\ consumersByUUID \in [UUIDs -> Conns \union {NoConn}]
    /\ routed \subseteq Conns

\* consumersByUUID never leads to a consumer that has been cleaned up, however the
\* connections of a client that comes back overlap: one of them may lose the entry of
\* the other, and a lookup then finds nothing, never a closed connection.
UuidEntryIsLive ==
    \A u \in UUIDs : consumersByUUID[u] \in consumers \union {NoConn}

\* When all clients have stopped coming and going, the router has none that is gone,
\* so that no jobs go to it: whatever its handler was doing when it left, in particular
\* while "accepted" waited for room in a writeCh that the write loop has given up, and
\* although the same client may be back. It takes MaxInflights =< WriteCap, which
\* Validate does not ask for.
GoneConsumerIsRemoved == <>[](\A c \in routed : ~Gone(c))

\* And all that the router has have read "accepted", although jobs may have filled
\* writeCh before it.
AcceptedArrives == <>[](\A c \in routed : client[c] = "welcomed" \/ Gone(c))

\* A connection is let in by the role that the auth file gives to its token, unless
\* a change of the file is still to be loaded or cannot be.
AdmittedByFile ==
    [][\A c \in Conns :
          pc[c] = "idle" /\ pc'[c] = "upgraded" =>
             \/ ReloadDue \/ missed \/ file = Unreadable
             \/ file[TokenOf[c]] \in {"admin", "consumer"}]_vars

=============================================================================
