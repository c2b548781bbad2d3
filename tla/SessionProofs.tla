----------------------------- MODULE SessionProofs ----------------------------
(***************************************************************************)
(* Proofs about Session and Auth, for any set of connections, UUIDs,       *)
(* tokens and versions of the auth file, any number of saves and any       *)
(* capacity: types, the table by UUID, and that an out-of-date table of    *)
(* tokens is about to be reloaded.                                         *)
(*                                                                         *)
(* An invariant of the authenticator (AuthInv), which the handlers leave   *)
(* alone, and one of the handlers (SessionInv), which it leaves alone.     *)
(***************************************************************************)
EXTENDS Session, SequenceTheorems, TLAPS

\* A save makes two events at most, and the second only when it is finished.
EventsBound ==
    /\ events <= 2 * saves
    /\ saving => events < 2 * saves

\* Only a watchFile that is past its start and not dead has a watch and gets events.
WatchIsRead == watch # "none" \/ events > 0 => watcher \in {"waiting", "debouncing", "loaded"}

\* What loadTokens has read, too, is the file or is about to be read again.
LoadedIsFresh ==
    file # Unreadable /\ ~missed =>
        /\ tokens # file => ReloadDue
        /\ watcher = "loaded" /\ loaded # file => events > 0

AuthInv == AuthTypeOK /\ EventsBound /\ WatchIsRead /\ LoadedIsFresh

\* The entry of a UUID is a consumer that came with that UUID and is not cleaned up.
EntryIsOwn ==
    \A u \in UUIDs : consumersByUUID[u] # NoConn =>
        consumersByUUID[u] \in consumers /\ UUIDOf[consumersByUUID[u]] = u

SessionInv ==
    /\ TypeOK
    /\ writeCh \in [Conns -> Seq({"job", "accepted"})]
    /\ EntryIsOwn

-----------------------------------------------------------------------------
(* The authenticator                                                       *)

\* Twice a number.
LEMMA Twice ==
    ASSUME NEW a \in Nat, NEW b \in Nat, a <= b
    PROVE  2 * a \in Nat /\ 2 * b \in Nat /\ 2 * a <= 2 * b /\ 2 * (a + 1) = 2 * a + 2
  OBVIOUS

\* The table is what NewAuthenticator loaded.
LEMMA InitAuthInv == AuthInit => AuthInv
  <1>1. 0 \in 0..2 * MaxSaves /\ 0 <= 2 * 0 /\ 0 \in 0..MaxSaves
    BY AuthAssumption, Twice
  <1> SUFFICES ASSUME AuthInit PROVE AuthInv
    OBVIOUS
  <1>2. AuthTypeOK
    BY <1>1, AuthAssumption DEF AuthInit, AuthTypeOK
  <1>3. EventsBound /\ WatchIsRead /\ LoadedIsFresh
    BY <1>1 DEF AuthInit, EventsBound, WatchIsRead, LoadedIsFresh
  <1> QED BY <1>2, <1>3 DEF AuthInv

\* A change of the file that a watch sees leaves an event behind.
LEMMA FileSystemAuthInv ==
    ASSUME AuthInv, FileSystem
    PROVE  AuthInv'
  <1> USE AuthAssumption DEF AuthInv, watchVars
  <1>1. PICK contents \in Versions \union {Unreadable, EmptyTable} : Change(contents)
    BY DEF FileSystem, Rename, WriteOut, Truncate
  <1>2. /\ saving' \in BOOLEAN /\ watch' \in {"none", watch}
        /\ \/ saves' = saves + 1 /\ ~saving /\ saves < MaxSaves
           \/ saves' = saves /\ saving /\ ~saving'
    <2>1. CASE Truncate
      BY <2>1 DEF Truncate
    <2>2. CASE \E x \in Versions \union {Unreadable} : Rename(x)
      BY <2>2 DEF Rename, AuthTypeOK
    <2>3. CASE \E x \in Versions \union {Unreadable} : WriteOut(x)
      BY <2>3 DEF WriteOut
    <2> QED BY <2>1, <2>2, <2>3 DEF FileSystem
  <1>3. events' = events + 1 \/ (events' = events /\ missed')
    BY <1>1 DEF Change
  <1>4. EventsBound' /\ events' \in 0..2 * MaxSaves /\ saves' \in 0..MaxSaves
    <2>1. events \in Nat /\ saves \in Nat /\ saves' \in Nat /\ saves' <= MaxSaves
      BY <1>2 DEF AuthTypeOK
    <2>2. 2 * saves' \in Nat /\ 2 * saves' <= 2 * MaxSaves /\ 2 * MaxSaves \in Nat
      <3>1. MaxSaves \in Nat
        OBVIOUS
      <3> QED BY ONLY <2>1, <3>1, Twice
    <2>3. events' \in Nat /\ events' <= 2 * saves' /\ (saving' => events' < 2 * saves')
      <3>1. 2 * saves \in Nat /\ 2 * (saves + 1) = 2 * saves + 2
        BY ONLY <2>1, Twice
      <3> QED BY <1>2, <1>3, <2>1, <3>1 DEF EventsBound
    <2>4. events' \in 0..2 * MaxSaves
      BY ONLY <2>2, <2>3
    <2>5. saves' \in 0..MaxSaves
      BY <2>1
    <2> QED BY <2>3, <2>4, <2>5 DEF EventsBound
  <1>5. AuthTypeOK'
    BY <1>1, <1>2, <1>4 DEF AuthTypeOK, Change
  <1>6. WatchIsRead'
    BY <1>1, <1>2 DEF WatchIsRead, Change
  <1>7. LoadedIsFresh'
    BY <1>1, <1>3, <1>4 DEF LoadedIsFresh, Change, ReloadDue, AuthTypeOK
  <1> QED BY <1>4, <1>5, <1>6, <1>7

\* A file that changes after it was read has left an event behind.
LEMMA WatchFileAuthInv ==
    ASSUME AuthInv, WatchFile
    PROVE  AuthInv'
  <1> USE AuthAssumption DEF AuthInv, fileVars
  <1>0. events \in Nat
    BY DEF AuthTypeOK
  <1>1. CASE StartWatching
    BY <1>0, <1>1 DEF StartWatching, AuthTypeOK, EventsBound, WatchIsRead, LoadedIsFresh, ReloadDue
  <1>2. CASE TakeEvent
    BY <1>0, <1>2 DEF TakeEvent, AuthTypeOK, EventsBound, WatchIsRead, LoadedIsFresh, ReloadDue
  <1>3. CASE Load
    BY <1>0, <1>3 DEF Load, AuthTypeOK, EventsBound, WatchIsRead, LoadedIsFresh, ReloadDue
  <1>4. CASE Install
    BY <1>0, <1>4 DEF Install, AfterInstall, AuthTypeOK, EventsBound, WatchIsRead,
       LoadedIsFresh, ReloadDue
  <1> QED BY <1>1, <1>2, <1>3, <1>4 DEF WatchFile

\* Whoever leaves the variables of the authenticator alone keeps its invariant.
LEMMA QuietAuthInv ==
    ASSUME AuthInv, UNCHANGED authVars
    PROVE  AuthInv'
  BY DEF AuthInv, AuthTypeOK, EventsBound, WatchIsRead, LoadedIsFresh, ReloadDue, authVars,
     fileVars, watchVars

\* The handlers do not touch the authenticator.
LEMMA NextAuthInv == AuthInv /\ [Next]_vars => AuthInv'
  <1> SUFFICES ASSUME AuthInv, [Next]_vars PROVE AuthInv'
    OBVIOUS
  <1>1. CASE AuthNext
    BY <1>1, FileSystemAuthInv, WatchFileAuthInv DEF AuthNext
  <1>2. CASE UNCHANGED authVars
    BY <1>2, QuietAuthInv
  <1>3. AuthNext \/ UNCHANGED authVars
    BY DEF Next, vars, WebSocketHandler, Upgrade, Refuse, RejectInit, Register, AddConsumer,
       StartWriteLoop, QueueAccepted, ReadFails, RemoveConsumer, Close, Goto, Dispatch,
       WriteOne, ClientLeaves
  <1> QED BY <1>1, <1>2, <1>3

\* The invariant of the authenticator holds throughout.
LEMMA AuthInvHolds == Spec => []AuthInv
  <1>1. Init => AuthInv
    BY InitAuthInv DEF Init
  <1> QED BY <1>1, NextAuthInv, PTL DEF Spec

\* StaleMeansReloadDue: whenever the table differs from a readable auth file whose last
\* change was seen, a reload is still to come, and watchFile is there to do it: no
\* order of saves, events and the two halves of loadTokens loses the last change.
THEOREM StaleTableIsReloaded ==
    Spec => [](StaleMeansReloadDue /\ (ReloadDue => watcher \notin {"starting", "dead"}))
  <1>1. AuthInv => StaleMeansReloadDue /\ (ReloadDue => watcher \notin {"starting", "dead"})
    BY DEF AuthInv, LoadedIsFresh, WatchIsRead, StaleMeansReloadDue, ReloadDue
  <1> QED BY <1>1, AuthInvHolds, PTL

-----------------------------------------------------------------------------
(* The handlers                                                            *)

\* No client has come.
LEMMA InitSessionInv == Init => SessionInv
  <1> SUFFICES ASSUME Init PROVE SessionInv
    OBVIOUS
  <1> USE SessionAssumption DEF Init
  <1>1. AuthTypeOK
    BY InitAuthInv DEF AuthInv
  <1>2. <<>> \in Seq({"job", "accepted"}) /\ Len(<<>>) = 0
    BY EmptySeq
  <1>3. /\ writeCh \in [Conns -> Seq({"job", "accepted"})]
        /\ \A c \in Conns : Len(writeCh[c]) <= WriteCap
    BY <1>2
  <1>4. EntryIsOwn
    BY DEF EntryIsOwn
  <1> QED BY <1>1, <1>3, <1>4 DEF SessionInv, TypeOK

\* What a step of one connection does to its write channel.
LEMMA WriteChannel ==
    ASSUME SessionInv, NEW c \in Conns,
           \/ UNCHANGED writeCh
           \/ \E m \in {"job", "accepted"} :
                 HasRoom(writeCh[c]) /\ writeCh' = [writeCh EXCEPT ![c] = Append(@, m)]
           \/ writeCh[c] # <<>> /\ writeCh' = [writeCh EXCEPT ![c] = Tail(@)]
    PROVE  /\ writeCh' \in [Conns -> Seq({"job", "accepted"})]
           /\ \A d \in Conns : Len(writeCh'[d]) <= WriteCap
  <1> USE SessionAssumption DEF SessionInv
  <1>0. /\ writeCh[c] \in Seq({"job", "accepted"})
        /\ \A d \in Conns : Len(writeCh[d]) <= WriteCap
    BY DEF TypeOK
  <1>1. CASE UNCHANGED writeCh
    BY <1>0, <1>1
  <1>2. CASE \E m \in {"job", "accepted"} :
                HasRoom(writeCh[c]) /\ writeCh' = [writeCh EXCEPT ![c] = Append(@, m)]
    <2>1. PICK m \in {"job", "accepted"} :
                HasRoom(writeCh[c]) /\ writeCh' = [writeCh EXCEPT ![c] = Append(@, m)]
      BY <1>2
    <2>2. /\ Append(writeCh[c], m) \in Seq({"job", "accepted"})
          /\ Len(Append(writeCh[c], m)) = Len(writeCh[c]) + 1
          /\ Len(writeCh[c]) \in Nat
      BY <1>0, AppendProperties, LenProperties
    <2>3. Len(Append(writeCh[c], m)) <= WriteCap
      BY <2>1, <2>2 DEF HasRoom
    <2> QED BY <1>0, <2>1, <2>2, <2>3
  <1>3. CASE writeCh[c] # <<>> /\ writeCh' = [writeCh EXCEPT ![c] = Tail(@)]
    <2>1. /\ Tail(writeCh[c]) \in Seq({"job", "accepted"})
          /\ Len(Tail(writeCh[c])) = Len(writeCh[c]) - 1
          /\ Len(writeCh[c]) \in Nat
      BY <1>0, <1>3, HeadTailProperties, LenProperties
    <2>2. Len(Tail(writeCh[c])) <= WriteCap
      BY <1>0, <2>1
    <2> QED BY <1>0, <1>3, <2>1, <2>2
  <1> QED BY <1>1, <1>2, <1>3

\* A step of one connection: its handler, the dispatcher, its write loop or its client.
LEMMA ConnectionSessionInv ==
    ASSUME SessionInv, NEW c \in Conns,
           WebSocketHandler(c) \/ Dispatch(c) \/ WriteOne(c) \/ ClientLeaves(c)
    PROVE  SessionInv'
  <1> USE SessionAssumption DEF apiVars, consumerVars
  <1>1. UNCHANGED authVars
    BY DEF WebSocketHandler, Upgrade, Refuse, RejectInit, Register, AddConsumer,
       StartWriteLoop, QueueAccepted, ReadFails, RemoveConsumer, Close, Goto, Dispatch,
       WriteOne, ClientLeaves
  <1>2. AuthTypeOK'
    BY <1>1 DEF SessionInv, TypeOK, AuthTypeOK, authVars, fileVars, watchVars
  <1>3. \/ UNCHANGED writeCh
        \/ \E m \in {"job", "accepted"} :
              HasRoom(writeCh[c]) /\ writeCh' = [writeCh EXCEPT ![c] = Append(@, m)]
        \/ writeCh[c] # <<>> /\ writeCh' = [writeCh EXCEPT ![c] = Tail(@)]
    BY DEF WebSocketHandler, Upgrade, Refuse, RejectInit, Register, AddConsumer,
       StartWriteLoop, QueueAccepted, ReadFails, RemoveConsumer, Close, Goto, Dispatch,
       WriteOne, ClientLeaves
  <1>4. /\ writeCh' \in [Conns -> Seq({"job", "accepted"})]
        /\ \A d \in Conns : Len(writeCh'[d]) <= WriteCap
    BY <1>3, WriteChannel
  <1>5. /\ pc' \in [Conns -> {"idle", "refused", "upgraded", "registered", "routed",
                              "accepting", "reading", "unmapped", "unrouted", "closed"}]
        /\ client' \in [Conns -> {"away", "waiting", "welcomed", "gone"}]
        /\ writer' \in [Conns -> {"none", "running", "ended"}]
    <2> USE DEF SessionInv, TypeOK
    <2>1. CASE WebSocketHandler(c)
      <3>1. \E to \in {"idle", "refused", "upgraded", "registered", "routed", "accepting",
                       "reading", "unmapped", "unrouted", "closed"} :
                pc' = [pc EXCEPT ![c] = to]
        BY <2>1 DEF WebSocketHandler, Upgrade, Refuse, RejectInit, Register, AddConsumer,
           StartWriteLoop, QueueAccepted, ReadFails, RemoveConsumer, Close, Goto
      <3>2. client' = client \/ \E to \in {"waiting", "gone"} : client' = [client EXCEPT ![c] = to]
        BY <2>1 DEF WebSocketHandler, Upgrade, Refuse, RejectInit, Register, AddConsumer,
           StartWriteLoop, QueueAccepted, ReadFails, RemoveConsumer, Close, Goto
      <3>3. writer' = writer \/ writer' = [writer EXCEPT ![c] = "running"]
        BY <2>1 DEF WebSocketHandler, Upgrade, Refuse, RejectInit, Register, AddConsumer,
           StartWriteLoop, QueueAccepted, ReadFails, RemoveConsumer, Close, Goto
      <3>4. pc' \in [Conns -> {"idle", "refused", "upgraded", "registered", "routed",
                               "accepting", "reading", "unmapped", "unrouted", "closed"}]
        BY <3>1
      <3>5. client' \in [Conns -> {"away", "waiting", "welcomed", "gone"}]
        BY <3>2
      <3>6. writer' \in [Conns -> {"none", "running", "ended"}]
        BY <3>3
      <3> QED BY <3>4, <3>5, <3>6
    <2>2. CASE Dispatch(c)
      BY <2>2 DEF Dispatch
    <2>3. CASE WriteOne(c)
      <3>1. /\ UNCHANGED pc
            /\ client' = client \/ client' = [client EXCEPT ![c] = "welcomed"]
            /\ writer' = writer \/ writer' = [writer EXCEPT ![c] = "ended"]
        BY <2>3 DEF WriteOne
      <3>2. client' \in [Conns -> {"away", "waiting", "welcomed", "gone"}]
        BY <3>1
      <3>3. writer' \in [Conns -> {"none", "running", "ended"}]
        BY <3>1
      <3> QED BY <3>1, <3>2, <3>3
    <2>4. CASE ClientLeaves(c)
      BY <2>4 DEF ClientLeaves
    <2> QED BY <2>1, <2>2, <2>3, <2>4
  <1>6. sent' \in [Conns -> 0..MaxInflights] /\ queued' \in 0..MaxJobs
    <2>1. CASE Dispatch(c)
      BY <2>1 DEF Dispatch, SessionInv, TypeOK
    <2>2. CASE UNCHANGED <<sent, queued>>
      BY <2>2 DEF SessionInv, TypeOK
    <2> QED BY <2>1, <2>2 DEF WebSocketHandler, Upgrade, Refuse, RejectInit, Register,
       AddConsumer, StartWriteLoop, QueueAccepted, ReadFails, RemoveConsumer, Close, Goto,
       WriteOne, ClientLeaves
  <1>7. /\ routed' \subseteq Conns
        /\ consumers' \subseteq Conns
        /\ consumersByUUID' \in [UUIDs -> Conns \union {NoConn}]
        /\ EntryIsOwn'
    <2> USE DEF SessionInv, TypeOK, EntryIsOwn
    <2>1. CASE Register(c)
      BY <2>1 DEF Register
    <2>2. CASE ReadFails(c)
      BY <2>2 DEF ReadFails, Unmapped
    <2>3. CASE UNCHANGED <<consumers, consumersByUUID>>
               /\ routed' \in {routed, routed \union {c}, routed \ {c}}
      BY <2>3
    <2> QED BY <2>1, <2>2, <2>3 DEF WebSocketHandler, Upgrade, Refuse, RejectInit,
       AddConsumer, StartWriteLoop, QueueAccepted, RemoveConsumer, Close, Goto, Dispatch,
       WriteOne, ClientLeaves
  <1> QED BY <1>2, <1>4, <1>5, <1>6, <1>7 DEF SessionInv, TypeOK

\* Every step keeps the invariant, the authenticator's because it keeps its types.
LEMMA NextSessionInv == SessionInv /\ AuthInv' /\ [Next]_vars => SessionInv'
  <1> SUFFICES ASSUME SessionInv, AuthInv', [Next]_vars PROVE SessionInv'
    OBVIOUS
  <1>1. CASE UNCHANGED sessionVars
    BY <1>1 DEF SessionInv, TypeOK, EntryIsOwn, AuthInv, sessionVars, consumerVars, apiVars
  <1> QED BY <1>1, ConnectionSessionInv DEF Next, vars

\* The invariant of the handlers holds throughout.
LEMMA SessionInvHolds == Spec => []SessionInv
  BY InitSessionInv, NextSessionInv, AuthInvHolds, PTL DEF Spec

\* TypeOK: writeCh stays within its capacity and a consumer within its slots although
\* the dispatcher and WriteMessage both fill the channel; a save of the auth file
\* makes two events at most.
THEOREM SessionTypes == Spec => []TypeOK
  <1>1. SessionInv => TypeOK
    BY DEF SessionInv
  <1> QED BY <1>1, SessionInvHolds, PTL

\* UuidEntryIsLive: a cleanup removes the entry that leads to its consumer, and an
\* entry that another connection of the client took over leads to that one.
THEOREM UuidEntryStaysLive == Spec => []UuidEntryIsLive
  <1>1. SessionInv => UuidEntryIsLive
    BY DEF SessionInv, EntryIsOwn, UuidEntryIsLive
  <1> QED BY <1>1, SessionInvHolds, PTL

\* AdmittedByFile: the role check lets a connection in by what the auth file says,
\* unless the table is out of date and known to be.
THEOREM AdmissionFollowsFile == Spec => AdmittedByFile
  <1>1. ASSUME AuthInv, SessionInv, Next, NEW c \in Conns, pc[c] = "idle", pc'[c] = "upgraded"
        PROVE  \/ ReloadDue \/ missed \/ file = Unreadable
               \/ file[TokenOf[c]] \in {"admin", "consumer"}
    <2>1. Upgrade(c)
      BY <1>1 DEF Next, WebSocketHandler, Upgrade, Refuse, RejectInit, Register, AddConsumer,
         StartWriteLoop, QueueAccepted, ReadFails, RemoveConsumer, Close, Goto, Dispatch,
         WriteOne, ClientLeaves, sessionVars, SessionInv, TypeOK
    <2>2. tokens[TokenOf[c]] \in {"admin", "consumer"}
      BY <2>1 DEF Upgrade, Admitted, ValidateRole
    <2> QED BY <1>1, <2>2 DEF AuthInv, LoadedIsFresh
  <1>2. AuthInv /\ SessionInv /\ [Next]_vars =>
          [\A c \in Conns :
              pc[c] = "idle" /\ pc'[c] = "upgraded" =>
                 \/ ReloadDue \/ missed \/ file = Unreadable
                 \/ file[TokenOf[c]] \in {"admin", "consumer"}]_vars
    BY <1>1
  <1> QED BY <1>2, AuthInvHolds, SessionInvHolds, PTL DEF Spec, AdmittedByFile

=============================================================================
