------------------------- MODULE PeerSessionsProofs -------------------------
(***************************************************************************)
(* Theorems about the sessions of a controller with its peers: what the    *)
(* controller believes of a peer, which handle it holds, and the count of  *)
(* the holders of a piece, for any peers, pieces and bounds.               *)
(***************************************************************************)
EXTENDS PeerSessions, FiniteSetTheorems, TLAPS

-----------------------------------------------------------------------------
(* Types. *)

\* What the events of a connection are.
LEMMA EventTypes ==
    ASSUME NEW p \in Peers, NEW n \in Nums
    PROVE  /\ Control(p, n) \in Event
           /\ InitState(p) \in Event
           /\ Messages(p) \subseteq Event
<1> USE DEF Event, None
<1>1. Control(p, n) \in Event /\ InitState(p) \in Event
  BY DEF Control, InitState
<1>2. \A c \in BOOLEAN : FieldChoked(p, c) \in Event
  <2>1. FieldChoked(p, TRUE) \in Event /\ FieldChoked(p, FALSE) \in Event
    BY DEF FieldChoked
  <2> QED
    BY <2>1, Zenon
<1>3. \A i \in Pieces : FieldHave(p, i) \in Event
  BY DEF FieldHave
<1>4. \A S \in SUBSET Pieces : FieldBitfield(p, S) \in Event
  BY DEF FieldBitfield
<1> HIDE DEF Event
<1> QED
  BY <1>1, <1>2, <1>3, <1>4, Zenon DEF Messages

\* A message changes a state into a state.
LEMMA SaidType ==
    ASSUME NEW s \in PeerState, NEW p \in Peers, NEW e \in Messages(p)
    PROVE  Said(s, e) \in PeerState
BY DEF PeerState, Messages, FieldChoked, FieldHave, FieldBitfield, Said

\* So does an event.
LEMMA AppliedType ==
    ASSUME NEW s \in PeerState, NEW e \in Event
    PROVE  Applied(s, e) \in PeerState
BY DEF PeerState, Event, Applied

LEMMA AppendType ==
    ASSUME NEW s \in Seq(Event), NEW e \in Event
    PROVE  Append(s, e) \in Seq(Event)
OBVIOUS

LEMMA EmptyCommands == <<>> \in Seq(Command)
OBVIOUS

LEMMA FreshType == Fresh \in PeerState
BY DEF Fresh, PeerState

LEMMA TypeInit == Init => TypeOK
<1> SUFFICES ASSUME Init
             PROVE  TypeOK
    OBVIOUS
<1>1. view \in [Conns -> PeerState]
  BY FreshType DEF Init
<1>2. events \in Seq(Event) /\ inbox \in [Conns -> Seq(Command)]
  BY DEF Init
<1>3. MaxEventsPerCycle \in Nat /\ MaxConns \in Nat /\ MaxMessages \in Nat
  BY SessionBoundsAssumption
<1>4. /\ handle \in [Peers -> Nums \cup {None}]
      /\ control_rx \in [Peers -> Nums \cup {None}]
      /\ started \in [Peers -> 0..MaxConns]
  BY <1>3 DEF Init, None
<1>5. have \in [Pieces -> Nat] /\ state \in [Peers -> PeerState \cup {NoState}]
  BY DEF Init
<1>6. /\ thread \in [Conns -> {"unused", "connecting", "serving", "ended"}]
      /\ writer \in [Conns -> {"none", "starting", "waiting", "ended"}]
      /\ socket \in [Conns -> {"open", "stalled", "shut"}]
      /\ initiated \in [Peers -> {"absent", "never", "recent", "old"}]
  BY DEF Init
<1>7. pc \in Looping /\ count = 0 /\ joining = {} /\ end_game \in BOOLEAN
      /\ msgsLeft = MaxMessages
  BY DEF Init, Looping
<1> QED
  BY <1>1, <1>2, <1>3, <1>4, <1>5, <1>6, <1>7 DEF TypeOK

\* A controller that is gone has nothing.
LEMMA TypeDropped ==
    ASSUME TypeOK, NEW why \in Gone, Dropped(why)
    PROVE  TypeOK'
<1>1. events' \in Seq(Event) /\ have' \in [Pieces -> Nat]
  BY DEF Dropped
<1> QED
  BY <1>1 DEF Dropped, TypeOK, Gone, conns, None

\* A write that ends keeps the types.
LEMMA WriteEndsType ==
    ASSUME TypeOK, NEW p \in Peers, NEW n \in Nums, RequestNext(p, n), WriteEnds(p, n)
    PROVE  TypeOK'
<1> USE DEF control, entries
<1> DEFINE c == <<p, n>>
<1>1. c \in Conns
  BY DEF Conns
<1>2. /\ writer' \in [Conns -> {"none", "starting", "waiting", "ended"}]
      /\ socket' \in [Conns -> {"open", "stalled", "shut"}]
  BY <1>1 DEF WriteEnds, StreamShut, WriterFails, TypeOK
<1>3. inbox' \in [Conns -> Seq(Command)]
  <2>1. inbox[c] \in Seq(Command) /\ inbox[c] # <<>>
    BY <1>1 DEF RequestNext, TypeOK
  <2>2. Tail(inbox[c]) \in Seq(Command) /\ <<>> \in Seq(Command)
    BY <2>1, EmptyCommands
  <2>3. \/ inbox' = [inbox EXCEPT ![c] = Tail(inbox[c])]
        \/ inbox' = [inbox EXCEPT ![c] = <<>>]
    BY DEF WriteEnds, WriterFails
  <2> QED
    BY <1>1, <2>2, <2>3 DEF TypeOK
<1> QED
  BY <1>2, <1>3 DEF WriteEnds, TypeOK

\* Every step keeps the type invariant.
LEMMA TypeNext == TypeOK /\ [Next]_vars => TypeOK'
<1> SUFFICES ASSUME TypeOK, [Next]_vars
             PROVE  TypeOK'
    OBVIOUS
<1> USE SessionBoundsAssumption DEF control, entries, conns, Looping, Closing, Gone
<1>1. CASE ProcessEvent
  <2> DEFINE e == Head(events)
  <2>1. e \in Event /\ events' \in Seq(Event)
    BY <1>1 DEF ProcessEvent, TypeOK
  <2>2. control_rx' \in [Peers -> Nums \cup {None}]
    BY <1>1, <2>1 DEF ProcessEvent, TypeOK, Event
  <2>3. e.peer \in Peers
    BY <2>1 DEF Event
  <2>4. state' \in [Peers -> PeerState \cup {NoState}]
    <3>1. state[e.peer] # NoState => Applied(state[e.peer], e) \in PeerState
      BY <2>1, <2>3, AppliedType DEF TypeOK
    <3>2. \/ state' = state
          \/ \E s \in PeerState \cup {NoState} : state' = [state EXCEPT ![e.peer] = s]
      BY <1>1, <3>1, FreshType DEF ProcessEvent
    <3> QED
      BY <2>3, <3>2 DEF TypeOK
  <2>5. have' \in [Pieces -> Nat]
    <3>1. \/ have' = have
          \/ \E S : have' = [i \in Pieces |-> IF i \in S THEN have[i] + 1 ELSE have[i]]
      BY <1>1 DEF ProcessEvent
    <3> QED
      BY <3>1 DEF TypeOK
  <2>6. count' \in Nat /\ count' <= MaxEventsPerCycle + 1
    BY <1>1 DEF ProcessEvent, TypeOK, InCycle
  <2> QED
    BY <1>1, <2>1, <2>2, <2>4, <2>5, <2>6 DEF ProcessEvent, TypeOK
<1>2. CASE EndEvents
  BY <1>2 DEF EndEvents, TypeOK
<1>3. ASSUME NEW found \in SUBSET Peers, NEW few \in FewLeft, RefreshAndEnqueue(found, few)
      PROVE  TypeOK'
  BY <1>3 DEF RefreshAndEnqueue, RefreshPeers, EnqueuePendingBlocks, TypeOK
<1>4. ASSUME NEW i \in Pieces, NEW tried \in SUBSET Peers, RequestBlock(i, tried)
      PROVE  TypeOK'
  <2>1. inbox' \in [Conns -> Seq(Command)]
    BY <1>4 DEF RequestBlock, TypeOK, Command
  <2> QED
    BY <1>4, <2>1 DEF RequestBlock, TypeOK
<1>5. ASSUME NEW i \in Pieces, NEW chosen \in SUBSET Peers, ConnectPeers(i, chosen)
      PROVE  TypeOK'
  <2>1. \A p \in chosen : started[p] + 1 \in Nums /\ started[p] + 1 \in 0..MaxConns
    BY <1>5 DEF ConnectPeers, Candidates, TypeOK, Nums
  <2> QED
    BY <1>5, <2>1 DEF ConnectPeers, TypeOK
<1>6. CASE EndSchedule
  BY <1>6 DEF EndSchedule, TypeOK
<1>7. ASSUME NEW p \in Peers, CleanupPeer(p)
      PROVE  TypeOK'
  <2>1. inbox' \in [Conns -> Seq(Command)]
    BY <1>7 DEF CleanupPeer, TypeOK, Command
  <2> QED
    BY <1>7, <2>1 DEF CleanupPeer, TypeOK
<1>8. ASSUME NEW p \in Peers, JoinEnds(p)
      PROVE  TypeOK'
  BY <1>8 DEF JoinEnds, TypeOK
<1>9. CASE CleanupEnd \/ Fail
  BY <1>9, TypeDropped DEF CleanupEnd, Fail
<1>10. ASSUME NEW p \in Peers, NEW n \in Nums, WriterStep(p, n)
       PROVE  TypeOK'
  <2> DEFINE c == <<p, n>>
  <2>1. c \in Conns /\ inbox[c] \in Seq(Command) /\ (inbox[c] # <<>> => Tail(inbox[c]) \in Seq(Command))
    BY DEF Conns, TypeOK
  <2>2. CASE WriterStarts(p, n)
    <3>1. writer' \in [Conns -> {"none", "starting", "waiting", "ended"}]
      BY <2>1, <2>2 DEF WriterStarts, TypeOK
    <3>2. events' \in Seq(Event)
      <4>1. Control(p, n) \in Event
        BY EventTypes, Zenon
      <4>2. events' = events \/ events' = Append(events, Control(p, n))
        <5>1. CASE pc \in Gone
          BY <2>2, <5>1, Zenon DEF WriterStarts
        <5>2. CASE pc \notin Gone
          BY <2>2, <5>2, Zenon DEF WriterStarts
        <5> QED
          BY <5>1, <5>2
      <4>3. events \in Seq(Event)
        BY DEF TypeOK
      <4>4. Append(events, Control(p, n)) \in Seq(Event)
        BY <4>1, <4>3, AppendType, Zenon
      <4> QED
        BY <4>2, <4>3, <4>4, Zenon
    <3> QED
      BY <2>2, <3>1, <3>2 DEF WriterStarts, TypeOK
  <2>3. CASE WriteRequest(p, n)
    BY <2>3, WriteEndsType DEF WriteRequest
  <2>4. CASE ShutStream(p, n)
    <3>1. /\ writer' \in [Conns -> {"none", "starting", "waiting", "ended"}]
          /\ socket' \in [Conns -> {"open", "stalled", "shut"}]
      BY <2>1, <2>4 DEF ShutStream, StreamShut, WriterFails, TypeOK
    <3>2. inbox' \in [Conns -> Seq(Command)]
      <4>1. \E q \in Seq(Command) : inbox' = [inbox EXCEPT ![c] = q]
        BY <2>1, <2>4, EmptyCommands DEF ShutStream, WriterFails
      <4> QED
        BY <2>1, <4>1 DEF TypeOK
    <3> QED
      BY <2>4, <3>1, <3>2 DEF ShutStream, TypeOK
  <2>5. CASE WriterEnds(p, n)
    BY <2>1, <2>5 DEF WriterEnds, TypeOK
  <2> QED
    BY <1>10, <2>2, <2>3, <2>4, <2>5 DEF WriterStep
<1>11. ASSUME NEW p \in Peers, NEW n \in Nums, RemoteStep(p, n)
       PROVE  TypeOK'
  <2> DEFINE c == <<p, n>>
  <2>1. c \in Conns
    BY DEF Conns
  <2>2. CASE Connect(p, n)
    BY <2>1, <2>2, EventTypes DEF Connect, TypeOK
  <2>3. CASE ConnectFails(p, n) \/ ListenerEnds(p, n)
    BY <2>1, <2>3 DEF ConnectFails, ListenerEnds, TypeOK
  <2>4. ASSUME NEW e \in Messages(p), Hear(p, n, e)
        PROVE  TypeOK'
    <3>1. view' \in [Conns -> PeerState]
      BY <2>1, <2>4, SaidType DEF Hear, TypeOK
    <3>2. e \in Event
      BY EventTypes
    <3> QED
      BY <2>4, <3>1, <3>2 DEF Hear, TypeOK
  <2>5. CASE WriteStalls(p, n)
    BY <2>1, <2>5 DEF WriteStalls, TypeOK
  <2>6. CASE StallEnds(p, n)
    BY <2>6, WriteEndsType DEF StallEnds
  <2> QED
    BY <1>11, <2>2, <2>3, <2>4, <2>5, <2>6 DEF RemoteStep
<1>12. ASSUME NEW p \in Peers, Age(p)
       PROVE  TypeOK'
  BY <1>12 DEF Age, TypeOK
<1>13. CASE UNCHANGED vars
  BY <1>13 DEF vars, TypeOK
<1> QED
  BY <1>1, <1>2, <1>3, <1>4, <1>5, <1>6, <1>7, <1>8, <1>9, <1>10, <1>11, <1>12, <1>13
     DEF Next, ControllerStep, Stopped

\* Every variable holds a value of its type, and a drain of the events never takes
\* more than one event over MAX_EVENTS_PER_CYCLE (process_bounded_events).
THEOREM TypeCorrect == Spec => []TypeOK
BY TypeInit, TypeNext, PTL DEF Spec

-----------------------------------------------------------------------------
(* The handle of the last connection. *)

\* What a step does to the numbers of connections, to the last one's life and to the
\* entry that holds it.
LEMMA StepOfConnections ==
    ASSUME TypeOK, [Next]_vars, pc' \notin Gone, NEW p \in Peers
    PROVE  \/ /\ started'[p] = started[p]
              /\ started[p] > 0 /\ Live(p, started[p])' => Live(p, started[p])
              /\ \/ handle'[p] = handle[p]
                 \/ handle[p] \in Nums /\ ~Live(p, handle[p])
                 \/ initiated'[p] = "never"
              /\ initiated[p] = "never" => initiated'[p] = "never"
           \/ started'[p] = started[p] + 1 /\ handle'[p] = started'[p]
<1> USE SessionBoundsAssumption DEF control, entries, conns, Looping, Closing, Gone
<1>1. CASE ProcessEvent
  BY <1>1 DEF ProcessEvent, Live
<1>2. CASE EndEvents \/ EndSchedule
  BY <1>2 DEF EndEvents, EndSchedule, Live
<1>3. ASSUME NEW found \in SUBSET Peers, NEW few \in FewLeft, RefreshAndEnqueue(found, few)
      PROVE  /\ UNCHANGED <<started, thread>>
             /\ \/ handle'[p] = handle[p]
                \/ handle[p] \in Nums /\ ~Live(p, handle[p])
                \/ initiated'[p] = "never"
             /\ initiated[p] = "never" => initiated'[p] = "never"
  BY <1>3 DEF RefreshAndEnqueue, RefreshPeers, Finished, TypeOK, Live, None
<1>4. ASSUME NEW i \in Pieces, NEW tried \in SUBSET Peers, RequestBlock(i, tried)
      PROVE  UNCHANGED <<started, thread, handle, initiated>>
  BY <1>4 DEF RequestBlock
<1>5. ASSUME NEW i \in Pieces, NEW chosen \in SUBSET Peers, ConnectPeers(i, chosen)
      PROVE  IF p \in chosen THEN started'[p] = started[p] + 1 /\ handle'[p] = started'[p]
             ELSE /\ started'[p] = started[p] /\ handle'[p] = handle[p]
                  /\ initiated'[p] = initiated[p]
                  /\ started[p] > 0 => thread'[<<p, started[p]>>] = thread[<<p, started[p]>>]
  BY <1>5 DEF ConnectPeers, TypeOK, Conns, Nums
<1>6. ASSUME NEW q \in Peers, CleanupPeer(q)
      PROVE  UNCHANGED <<started, thread, handle, initiated>>
  BY <1>6 DEF CleanupPeer
<1>7. ASSUME NEW q \in Peers, JoinEnds(q)
      PROVE  /\ UNCHANGED <<started, thread, initiated>>
             /\ \/ handle'[p] = handle[p]
                \/ handle[p] \in Nums /\ ~Live(p, handle[p])
  BY <1>7 DEF JoinEnds, Joinable, TypeOK, Live, None
<1>8. ASSUME NEW q \in Peers, NEW n \in Nums, WriterStep(q, n)
      PROVE  UNCHANGED <<started, thread, handle, initiated>>
  BY <1>8 DEF WriterStep, WriterStarts, WriteRequest, WriteEnds, ShutStream, WriterEnds
<1>9. ASSUME NEW q \in Peers, NEW n \in Nums, RemoteStep(q, n)
      PROVE  /\ UNCHANGED <<started, handle, initiated>>
             /\ \A m \in Nums : Live(p, m)' => Live(p, m)
  <2>1. CASE WriteStalls(q, n) \/ StallEnds(q, n)
    BY <2>1 DEF WriteStalls, StallEnds, WriteEnds, Live
  <2>2. CASE \/ Connect(q, n) \/ ConnectFails(q, n) \/ ListenerEnds(q, n)
             \/ \E e \in Messages(q) : Hear(q, n, e)
    BY <2>2 DEF Connect, ConnectFails, Hear, ListenerEnds, TypeOK, Live, Conns
  <2> QED
    BY <1>9, <2>1, <2>2 DEF RemoteStep
<1>10. ASSUME NEW q \in Peers, Age(q)
       PROVE  /\ UNCHANGED <<started, thread, handle>>
              /\ initiated[p] = "never" => initiated'[p] = "never"
  BY <1>10 DEF Age, TypeOK
<1>11. ~CleanupEnd /\ ~Fail
  BY DEF CleanupEnd, Fail, Dropped
<1>12. CASE UNCHANGED vars
  BY <1>12 DEF vars, Live
<1>13. started[p] \in Nat /\ handle[p] \in Nums \cup {None}
  BY DEF TypeOK
<1>14. ASSUME started'[p] = started[p], started[p] > 0,
              \A m \in Nums : Live(p, m)' => Live(p, m)
       PROVE  Live(p, started[p])' => Live(p, started[p])
  BY <1>14 DEF TypeOK, Nums, Live
<1>15. CASE \E q \in Peers, n \in Nums : RemoteStep(q, n)
  BY <1>9, <1>14, <1>15 DEF Live
<1>16. CASE \E i \in Pieces, chosen \in SUBSET Peers : ConnectPeers(i, chosen)
  BY <1>5, <1>13, <1>16 DEF Live
<1>17. CASE \E q \in Peers : JoinEnds(q)
  BY <1>7, <1>17 DEF Live
<1>18. CASE \E found \in SUBSET Peers, few \in FewLeft : RefreshAndEnqueue(found, few)
  BY <1>3, <1>18 DEF Live
<1>19. CASE \/ \E i \in Pieces, tried \in SUBSET Peers : RequestBlock(i, tried)
            \/ \E q \in Peers : CleanupPeer(q)
            \/ \E q \in Peers, n \in Nums : WriterStep(q, n)
            \/ \E q \in Peers : Age(q)
  BY <1>4, <1>6, <1>8, <1>10, <1>19 DEF Live
<1> QED
  BY <1>1, <1>2, <1>11, <1>12, <1>15, <1>16, <1>17, <1>18, <1>19
     DEF Next, ControllerStep, Stopped

\* LastConnectionHeld is inductive by itself: the handle of a connection that lives
\* is only replaced by one of a later connection, or its whole entry is.
LEMMA HeldNext == TypeOK /\ LastConnectionHeld /\ [Next]_vars => LastConnectionHeld'
<1> SUFFICES ASSUME TypeOK, LastConnectionHeld, [Next]_vars, pc' \notin Gone,
                    NEW p \in Peers, started'[p] > 0, Live(p, started[p])'
             PROVE  handle'[p] = started'[p] \/ initiated'[p] = "never"
  BY DEF LastConnectionHeld
<1>1. pc \notin Gone
  <2>1. ASSUME NEW q \in Peers, NEW n \in Nums, WriterStep(q, n) \/ RemoteStep(q, n)
        PROVE  pc' = pc
    BY <2>1 DEF WriterStep, WriterStarts, WriteRequest, WriteEnds, ShutStream, WriterEnds,
       RemoteStep, Connect, ConnectFails, Hear, ListenerEnds, WriteStalls, StallEnds, control
  <2> QED
    BY <2>1 DEF Next, ControllerStep, ProcessEvent, EndEvents, RefreshAndEnqueue,
       RequestBlock, ConnectPeers, EndSchedule, CleanupPeer, JoinEnds, CleanupEnd, Age, Fail,
       Stopped, Gone, Looping, control, vars
<1>2. CASE started'[p] = started[p] + 1 /\ handle'[p] = started'[p]
  BY <1>2
<1>3. CASE /\ started'[p] = started[p]
           /\ started[p] > 0 /\ Live(p, started[p])' => Live(p, started[p])
           /\ \/ handle'[p] = handle[p]
              \/ handle[p] \in Nums /\ ~Live(p, handle[p])
              \/ initiated'[p] = "never"
           /\ initiated[p] = "never" => initiated'[p] = "never"
  BY <1>1, <1>3 DEF LastConnectionHeld
<1> QED
  BY <1>2, <1>3, StepOfConnections

\* The controller keeps the handle of the last connection of a peer while that lives,
\* unless a tracker's answer replaced the entry (schedule, refresh_peers, cleanup).
THEOREM LastHeld == Spec => []LastConnectionHeld
<1>1. Init => LastConnectionHeld
  BY DEF Init, LastConnectionHeld
<1> QED
  BY <1>1, TypeCorrect, HeldNext, PTL DEF Spec

-----------------------------------------------------------------------------
(* The count of a piece. *)

\* The peers the controller believes to have piece i.
Holders(i) == {p \in Peers : state[p] # NoState /\ i \in state[p].bitfield}

\* Adding one peer at most to the holders of a piece adds one at most to their number.
LEMMA OneMoreHolder ==
    ASSUME NEW S \in SUBSET Peers, NEW T \in SUBSET Peers, NEW p,
           T \subseteq S \cup {p}
    PROVE  /\ Cardinality(S) \in Nat
           /\ Cardinality(T) \in Nat
           /\ Cardinality(T) <= Cardinality(S) + 1
           /\ T \subseteq S => Cardinality(T) <= Cardinality(S)
<1>1. IsFiniteSet(S) /\ IsFiniteSet(T)
  BY PeersAssumption, FS_Subset
<1>2. Cardinality(S) \in Nat /\ Cardinality(T) \in Nat
  BY <1>1, FS_CardinalityType
<1>3. /\ IsFiniteSet(S \cup {p})
      /\ Cardinality(S \cup {p}) <= Cardinality(S) + 1
  <2>1. /\ IsFiniteSet(S \cup {p})
        /\ Cardinality(S \cup {p}) = IF p \in S THEN Cardinality(S) ELSE Cardinality(S) + 1
    BY <1>1, FS_AddElement
  <2> QED
    BY <1>2, <2>1
<1>4. Cardinality(T) <= Cardinality(S \cup {p}) /\ Cardinality(S \cup {p}) \in Nat
  BY <1>3, FS_Subset, FS_CardinalityType
<1>5. T \subseteq S => Cardinality(T) <= Cardinality(S)
  BY <1>1, FS_Subset
<1> QED
  BY <1>2, <1>3, <1>4, <1>5

\* Bits of a peer are set by process_event alone, which counts the peer in the piece
\* of every bit it sets.
LEMMA HoldersNext ==
    ASSUME TypeOK, [Next]_vars, NEW i \in Pieces
    PROVE  \/ Holders(i)' \subseteq Holders(i) /\ have'[i] >= have[i]
           \/ Holders(i)' = {}
           \/ /\ \E p : Holders(i)' \subseteq Holders(i) \cup {p}
              /\ have'[i] = have[i] + 1
<1> USE DEF control, entries, conns
<1>1. have[i] \in Nat
  BY DEF TypeOK
<1>2. CASE ProcessEvent
  <2> DEFINE e == Head(events)
             p == e.peer
  <2>1. e \in Event /\ p \in Peers
    <3>1. e \in Event
      BY <1>2 DEF ProcessEvent, TypeOK
    <3> QED
      BY <3>1 DEF Event
  <2>2. CASE e.kind = "control"
    BY <1>1, <1>2, <2>2 DEF ProcessEvent, Holders
  <2>3. CASE e.kind # "control"
    <3>1. state' = [state EXCEPT ![p] = IF @ # NoState THEN Applied(@, e)
                                        ELSE IF e.kind = "init" THEN Fresh
                                        ELSE NoState]
      BY <1>2, <2>3, Zenon DEF ProcessEvent
    <3>2. have' = IF state[p] = NoState THEN have
                  ELSE [j \in Pieces |-> IF j \in Gained(state[p], e)
                                         THEN have[j] + 1 ELSE have[j]]
      BY <1>2, <2>3, Zenon DEF ProcessEvent
    <3>3. Holders(i)' \subseteq Holders(i) \cup {p}
      BY <2>1, <3>1 DEF Holders, TypeOK
    <3>4. CASE state[p] = NoState
      <4>1. state'[p] = NoState \/ state'[p] = Fresh
        BY <2>1, <3>1, <3>4 DEF TypeOK
      <4>2. Holders(i)' \subseteq Holders(i)
        BY <2>1, <3>1, <4>1 DEF Holders, TypeOK, Fresh
      <4> QED
        BY <1>1, <3>2, <3>4, <4>2
    <3>5. CASE state[p] # NoState /\ i \in Gained(state[p], e)
      BY <3>2, <3>3, <3>5
    <3>6. CASE state[p] # NoState /\ i \notin Gained(state[p], e)
      <4>1. have'[i] = have[i]
        BY <3>2, <3>6
      <4>2. state'[p] = Applied(state[p], e) /\ state[p] \in PeerState
        BY <2>1, <3>1, <3>6 DEF TypeOK
      <4>3. i \in Applied(state[p], e).bitfield => i \in state[p].bitfield
        BY <2>1, <3>6, <4>2 DEF Applied, Gained, PeerState
      <4>4. Holders(i)' \subseteq Holders(i)
        BY <2>1, <3>1, <3>6, <4>2, <4>3 DEF Holders, TypeOK
      <4> QED
        BY <1>1, <4>1, <4>4
    <3> QED
      BY <3>4, <3>5, <3>6
  <2> QED
    BY <2>2, <2>3
<1>3. CASE EndEvents \/ EndSchedule
  BY <1>1, <1>3 DEF EndEvents, EndSchedule, Holders
<1>4. ASSUME NEW found \in SUBSET Peers, NEW few \in FewLeft, RefreshAndEnqueue(found, few)
      PROVE  Holders(i)' \subseteq Holders(i) /\ have'[i] >= have[i]
  BY <1>1, <1>4 DEF RefreshAndEnqueue, RefreshPeers, Holders
<1>5. ASSUME NEW j \in Pieces, NEW tried \in SUBSET Peers, RequestBlock(j, tried)
      PROVE  Holders(i)' \subseteq Holders(i) /\ have'[i] >= have[i]
  BY <1>1, <1>5 DEF RequestBlock, Holders
<1>6. ASSUME NEW j \in Pieces, NEW chosen \in SUBSET Peers, ConnectPeers(j, chosen)
      PROVE  Holders(i)' \subseteq Holders(i) /\ have'[i] >= have[i]
  BY <1>1, <1>6 DEF ConnectPeers, Holders
<1>7. ASSUME NEW p \in Peers, CleanupPeer(p)
      PROVE  Holders(i)' \subseteq Holders(i) /\ have'[i] >= have[i]
  BY <1>1, <1>7 DEF CleanupPeer, Holders, TypeOK
<1>8. ASSUME NEW p \in Peers, JoinEnds(p)
      PROVE  Holders(i)' \subseteq Holders(i) /\ have'[i] >= have[i]
  BY <1>1, <1>8 DEF JoinEnds, Holders
<1>9. ASSUME NEW p \in Peers, NEW n \in Nums, WriterStep(p, n) \/ RemoteStep(p, n)
      PROVE  Holders(i)' \subseteq Holders(i) /\ have'[i] >= have[i]
  BY <1>1, <1>9 DEF WriterStep, WriterStarts, WriteRequest, WriteEnds, ShutStream, WriterEnds,
     RemoteStep, Connect, ConnectFails, Hear, ListenerEnds, WriteStalls, StallEnds,
     Holders
<1>10. ASSUME NEW p \in Peers, Age(p)
       PROVE  Holders(i)' \subseteq Holders(i) /\ have'[i] >= have[i]
  BY <1>1, <1>10 DEF Age, Holders
<1>11. CASE CleanupEnd \/ Fail
  BY <1>11 DEF CleanupEnd, Fail, Dropped, Holders
<1>12. CASE UNCHANGED vars
  BY <1>1, <1>12 DEF vars, Holders
<1> QED
  BY <1>2, <1>3, <1>4, <1>5, <1>6, <1>7, <1>8, <1>9, <1>10, <1>11, <1>12
     DEF Next, ControllerStep, Stopped

\* HaveCountsHolders is inductive with the types.
LEMMA CountNext == TypeOK /\ TypeOK' /\ HaveCountsHolders /\ [Next]_vars => HaveCountsHolders'
<1> SUFFICES ASSUME TypeOK, TypeOK', HaveCountsHolders, [Next]_vars, NEW i \in Pieces
             PROVE  Cardinality(Holders(i)') <= have'[i]
  BY DEF HaveCountsHolders, Holders
<1>1. Holders(i) \in SUBSET Peers /\ Holders(i)' \in SUBSET Peers
  BY DEF Holders
<1>2. have[i] \in Nat /\ have'[i] \in Nat
  BY DEF TypeOK
<1>3. Cardinality(Holders(i)) <= have[i]
  BY DEF HaveCountsHolders, Holders
<1>4. CASE Holders(i)' \subseteq Holders(i) /\ have'[i] >= have[i]
  BY <1>1, <1>2, <1>3, <1>4, OneMoreHolder
<1>5. CASE Holders(i)' = {}
  BY <1>2, <1>5, FS_EmptySet
<1>6. CASE (\E p : Holders(i)' \subseteq Holders(i) \cup {p}) /\ have'[i] = have[i] + 1
  BY <1>1, <1>2, <1>3, <1>6, OneMoreHolder
<1> QED
  BY <1>4, <1>5, <1>6, HoldersNext

\* A piece counts at least the peers the controller believes to have it, whatever
\* is repeated, reset or connected again (process_event).
THEOREM HoldersCounted == Spec => []HaveCountsHolders
<1>1. Init => HaveCountsHolders
  <2> SUFFICES ASSUME Init, NEW i \in Pieces
               PROVE  Cardinality(Holders(i)) <= have[i]
    BY DEF HaveCountsHolders, Holders
  <2>1. Holders(i) = {} /\ have[i] = 0
    BY DEF Init, Holders
  <2> QED
    BY <2>1, FS_EmptySet
<1> QED
  BY <1>1, TypeCorrect, CountNext, PTL DEF Spec

-----------------------------------------------------------------------------
(* The belief about a peer. *)

\* Event e is a state event of peer p.
Tells(p, e) == e.peer = p /\ e.kind # "control"

\* Peer::state of p, from s, after the event e: what process_event makes of it.
Told(p, s, e) ==
    IF ~Tells(p, e) THEN s
    ELSE IF s # NoState THEN Applied(s, e)
    ELSE IF e.kind = "init" THEN Fresh
    ELSE NoState

\* No state event of p comes after the j-th of q.
Quiet(p, q, j) == \A k \in 1..Len(q) : j < k => ~Tells(p, q[k])

\* The course the belief about p takes from s when the events of q are handled.
Course(p, s, q, g) ==
    /\ g \in [0..Len(q) -> PeerState \cup {NoState}]
    /\ g[0] = s
    /\ \A k \in 1..Len(q) : g[k] = Told(p, g[k-1], q[k])
    /\ \A j \in 0..Len(q) : Quiet(p, q, j) => g[j] = g[Len(q)]

\* A connection that was not started has done nothing; one that is not made knows
\* nothing of its peer.
Untold(p) ==
    \A n \in Nums :
        /\ n > started[p] => thread[<<p, n>>] = "unused"
        /\ thread[<<p, n>>] \in {"unused", "connecting"} => view[<<p, n>>] = Fresh

\* Before its first connection is made the controller knows nothing of a peer and
\* nothing is on its way.
Unheard(p) ==
    \/ started[p] = 0
    \/ started[p] = 1 /\ thread[<<p, 1>>] = "connecting"
    => state[p] = NoState /\ Quiet(p, events, 0)

\* The first connection reports Init once, and until that is handled there is no
\* belief that could be reset.
OneInit(p) ==
    started[p] = 1 =>
        \A k \in 1..Len(events) :
            events[k].peer = p /\ events[k].kind = "init" =>
                /\ state[p] = NoState
                /\ \A j \in 1..Len(events) :
                       events[j].peer = p /\ events[j].kind = "init" => j = k

\* When all events that wait are handled, the belief is none or the view of the
\* first connection.
Converges(p) ==
    started[p] = 1 =>
        \E g : /\ Course(p, state[p], events, g)
               /\ g[Len(events)] \in {NoState, view[<<p, 1>>]}

BeliefInv(p) == Untold(p) /\ Unheard(p) /\ OneInit(p) /\ Converges(p)

\* An event takes a belief to a belief.
LEMMA ToldType ==
    ASSUME NEW p \in Peers, NEW s \in PeerState \cup {NoState}, NEW e \in Event
    PROVE  Told(p, s, e) \in PeerState \cup {NoState}
<1>1. Fresh \in PeerState
  BY FreshType
<1>2. s # NoState => Applied(s, e) \in PeerState
  BY AppliedType
<1> QED
  BY <1>1, <1>2 DEF Told

\* Another event that waits makes the course one step longer.
LEMMA CourseAppend ==
    ASSUME NEW p \in Peers, NEW s, NEW q \in Seq(Event), NEW g, Course(p, s, q, g),
           NEW e \in Event
    PROVE  \E h : /\ Course(p, s, Append(q, e), h)
                  /\ h[Len(Append(q, e))] = Told(p, g[Len(q)], e)
<1> DEFINE r == Append(q, e)
           last == Told(p, g[Len(q)], e)
           h == [k \in 0..Len(r) |-> IF k <= Len(q) THEN g[k] ELSE last]
<1>1. /\ Len(q) \in Nat
      /\ Len(r) = Len(q) + 1
      /\ r[Len(r)] = e
      /\ \A k \in 1..Len(q) : r[k] = q[k]
  OBVIOUS
<1>2. last \in PeerState \cup {NoState}
  BY <1>1, ToldType DEF Course
<1>3. h \in [0..Len(r) -> PeerState \cup {NoState}]
  BY <1>1, <1>2 DEF Course
<1>4. h[0] = s
  BY <1>1 DEF Course
<1>5. \A k \in 0..Len(q) : h[k] = g[k]
  BY <1>1
<1>6. h[Len(r)] = last
  BY <1>1
<1>7. ASSUME NEW k \in 1..Len(r)
      PROVE  h[k] = Told(p, h[k-1], r[k])
  <2>1. CASE k = Len(r)
    BY <1>1, <1>5, <1>6, <2>1
  <2>2. CASE k # Len(r)
    <3>1. k \in 1..Len(q) /\ k - 1 \in 0..Len(q)
      BY <1>1, <2>2
    <3>2. g[k] = Told(p, g[k-1], q[k])
      BY <3>1 DEF Course
    <3>3. h[k] = g[k] /\ h[k-1] = g[k-1] /\ r[k] = q[k]
      BY <1>1, <1>5, <3>1
    <3> QED
      BY <3>2, <3>3
  <2> QED
    BY <2>1, <2>2
<1>8. ASSUME NEW j \in 0..Len(r), Quiet(p, r, j)
      PROVE  h[j] = h[Len(r)]
  <2>1. CASE j = Len(r)
    BY <2>1
  <2>2. CASE j # Len(r)
    <3>1. j \in 0..Len(q)
      BY <1>1, <2>2
    <3>2. ~Tells(p, e)
      BY <1>1, <1>8, <3>1 DEF Quiet
    <3>3. Quiet(p, q, j)
      BY <1>1, <1>8 DEF Quiet
    <3>4. g[j] = g[Len(q)]
      BY <3>1, <3>3 DEF Course
    <3>5. last = g[Len(q)]
      BY <3>2 DEF Told
    <3> QED
      BY <1>5, <1>6, <3>1, <3>4, <3>5
  <2> QED
    BY <2>1, <2>2
<1>9. Course(p, s, r, h)
  BY <1>3, <1>4, <1>7, <1>8 DEF Course
<1> HIDE DEF h
<1> QED
  BY <1>6, <1>9

\* Handling the first event leaves the rest of the course.
LEMMA CourseTail ==
    ASSUME NEW p \in Peers, NEW s, NEW q \in Seq(Event), q # <<>>, NEW g,
           Course(p, s, q, g)
    PROVE  \E h : /\ Course(p, Told(p, s, Head(q)), Tail(q), h)
                  /\ h[Len(Tail(q))] = g[Len(q)]
<1> DEFINE r == Tail(q)
           h == [k \in 0..Len(r) |-> g[k + 1]]
<1>1. /\ Len(q) \in Nat
      /\ Len(r) = Len(q) - 1
      /\ Len(q) >= 1
      /\ Head(q) = q[1]
      /\ \A k \in 1..Len(r) : r[k] = q[k + 1]
  OBVIOUS
<1>2. h \in [0..Len(r) -> PeerState \cup {NoState}]
  BY <1>1 DEF Course
<1>3. h[0] = Told(p, s, Head(q))
  <2>1. g[1] = Told(p, g[0], q[1]) /\ g[0] = s
    BY <1>1 DEF Course
  <2> QED
    BY <1>1, <2>1
<1>4. ASSUME NEW k \in 1..Len(r)
      PROVE  h[k] = Told(p, h[k-1], r[k])
  <2>1. k + 1 \in 1..Len(q) /\ (k + 1) - 1 = k /\ (k - 1) + 1 = k /\ k - 1 \in 0..Len(r)
    BY <1>1
  <2>2. g[k + 1] = Told(p, g[(k + 1) - 1], q[k + 1])
    BY <2>1 DEF Course
  <2>3. h[k] = g[k + 1] /\ h[k - 1] = g[k]
    BY <1>1, <2>1
  <2> QED
    BY <1>1, <2>1, <2>2, <2>3
<1>5. h[Len(r)] = g[Len(q)]
  BY <1>1
<1>6. ASSUME NEW j \in 0..Len(r), Quiet(p, r, j)
      PROVE  h[j] = h[Len(r)]
  <2>1. Quiet(p, q, j + 1)
    <3> SUFFICES ASSUME NEW k \in 1..Len(q), j + 1 < k
                 PROVE  ~Tells(p, q[k])
      BY DEF Quiet
    <3>1. k - 1 \in 1..Len(r) /\ j < k - 1 /\ (k - 1) + 1 = k
      BY <1>1
    <3>2. ~Tells(p, r[k - 1])
      BY <1>6, <3>1 DEF Quiet
    <3> QED
      BY <1>1, <3>1, <3>2
  <2>2. j + 1 \in 0..Len(q)
    BY <1>1
  <2>3. g[j + 1] = g[Len(q)]
    BY <2>1, <2>2 DEF Course
  <2> QED
    BY <1>5, <2>3
<1>7. Course(p, Told(p, s, Head(q)), r, h)
  BY <1>2, <1>3, <1>4, <1>6 DEF Course
<1> HIDE DEF h
<1> QED
  BY <1>5, <1>7

\* Without an Init on its way no belief comes up.
LEMMA CourseLost ==
    ASSUME NEW p \in Peers, NEW q \in Seq(Event),
           \A k \in 1..Len(q) : ~(q[k].peer = p /\ q[k].kind = "init")
    PROVE  \E h : Course(p, NoState, q, h) /\ h[Len(q)] = NoState
<1> DEFINE h == [k \in 0..Len(q) |-> NoState]
<1>1. Len(q) \in Nat
  OBVIOUS
<1>2. ASSUME NEW k \in 1..Len(q)
      PROVE  h[k] = Told(p, h[k-1], q[k])
  BY <1>1 DEF Told, Tells
<1>3. Course(p, NoState, q, h)
  BY <1>1, <1>2 DEF Course
<1> QED
  BY <1>1, <1>3

\* A step that leaves the events alone, and at most resets the belief or ends a
\* connection.
LEMMA BeliefKept ==
    ASSUME TypeOK, NEW p \in Peers, BeliefInv(p),
           events' = events, started'[p] = started[p],
           state'[p] \in {state[p], NoState},
           \A n \in Nums :
              /\ view'[<<p, n>>] = view[<<p, n>>]
              /\ \/ thread'[<<p, n>>] = thread[<<p, n>>]
                 \/ thread[<<p, n>>] # "unused" /\ thread'[<<p, n>>] = "ended"
    PROVE  BeliefInv(p)'
<1>1. Untold(p)'
  BY DEF BeliefInv, Untold
<1>2. events \in Seq(Event) /\ MaxConns \in Nat /\ started[p] \in 0..MaxConns
  BY SessionBoundsAssumption DEF TypeOK
<1>3. started[p] = 1 => 1 \in Nums
  BY <1>2 DEF Nums
<1>4. Unheard(p)'
  BY <1>3 DEF BeliefInv, Unheard, Quiet
<1>5. OneInit(p)'
  BY DEF BeliefInv, OneInit
<1>6. Converges(p)'
  <2> SUFFICES ASSUME started[p] = 1
               PROVE  \E g : /\ Course(p, state'[p], events, g)
                             /\ g[Len(events)] \in {NoState, view[<<p, 1>>]}
    BY <1>3 DEF Converges, Course, Quiet
  <2>1. CASE state'[p] = state[p]
    BY <2>1 DEF BeliefInv, Converges
  <2>2. CASE state'[p] = NoState /\ state[p] # NoState
    <3>1. \A k \in 1..Len(events) : ~(events[k].peer = p /\ events[k].kind = "init")
      BY <2>2 DEF BeliefInv, OneInit
    <3>2. \E h : Course(p, NoState, events, h) /\ h[Len(events)] = NoState
      BY <1>2, <3>1, CourseLost
    <3> QED
      BY <2>2, <3>2
  <2> QED
    BY <2>1, <2>2
<1> QED
  BY <1>1, <1>4, <1>5, <1>6 DEF BeliefInv

\* An event that waits and is not a state event of the peer.
LEMMA BeliefOthers ==
    ASSUME TypeOK, NEW p \in Peers, BeliefInv(p), NEW e \in Event, ~Tells(p, e),
           events' = Append(events, e), started'[p] = started[p],
           state'[p] = state[p],
           \A n \in Nums : /\ view'[<<p, n>>] = view[<<p, n>>]
                           /\ thread'[<<p, n>>] = thread[<<p, n>>]
    PROVE  BeliefInv(p)'
<1>1. Untold(p)'
  BY DEF BeliefInv, Untold
<1>2. events \in Seq(Event) /\ MaxConns \in Nat /\ started[p] \in 0..MaxConns
  BY SessionBoundsAssumption DEF TypeOK
<1>3. started[p] = 1 => 1 \in Nums
  BY <1>2 DEF Nums
<1>4. /\ Len(events) \in Nat
      /\ Len(events') = Len(events) + 1
      /\ events'[Len(events) + 1] = e
      /\ \A k \in 1..Len(events) : events'[k] = events[k]
  BY <1>2
<1>5. Quiet(p, events, 0) => Quiet(p, events', 0)
  BY <1>4 DEF Quiet
<1>6. Unheard(p)'
  BY <1>3, <1>5 DEF BeliefInv, Unheard, Quiet
<1>7. OneInit(p)'
  BY <1>4 DEF BeliefInv, OneInit, Tells
<1>8. Converges(p)'
  <2> SUFFICES ASSUME started[p] = 1
               PROVE  \E h : /\ Course(p, state[p], events', h)
                             /\ h[Len(events')] \in {NoState, view[<<p, 1>>]}
    BY <1>3 DEF Converges, Course, Quiet
  <2>1. PICK g : /\ Course(p, state[p], events, g)
                 /\ g[Len(events)] \in {NoState, view[<<p, 1>>]}
    BY DEF BeliefInv, Converges
  <2>2. PICK h : /\ Course(p, state[p], events', h)
                 /\ h[Len(events')] = Told(p, g[Len(events)], e)
    BY <1>2, <2>1, CourseAppend
  <2> QED
    BY <2>1, <2>2 DEF Told
<1> QED
  BY <1>1, <1>6, <1>7, <1>8 DEF BeliefInv

\* The first event is handled.
LEMMA BeliefProcess ==
    ASSUME TypeOK, NEW p \in Peers, BeliefInv(p), ProcessEvent
    PROVE  BeliefInv(p)'
<1> DEFINE e == Head(events)
<1>1. events \in Seq(Event) /\ events # <<>> /\ events' = Tail(events)
  BY DEF ProcessEvent, TypeOK
<1>2. e \in Event /\ e = events[1]
  BY <1>1
<1>3. e.peer \in Peers
  BY <1>2 DEF Event
<1>4. state'[p] = Told(p, state[p], e)
  <2>1. CASE e.kind = "control"
    BY <2>1 DEF ProcessEvent, Told, Tells
  <2>2. CASE e.kind # "control"
    <3>1. state' = [state EXCEPT ![e.peer] = IF @ # NoState THEN Applied(@, e)
                                             ELSE IF e.kind = "init" THEN Fresh
                                             ELSE NoState]
      BY <2>2, Zenon DEF ProcessEvent
    <3>2. state \in [Peers -> PeerState \cup {NoState}]
      BY DEF TypeOK
    <3> QED
      BY <1>3, <2>2, <3>1, <3>2 DEF Told, Tells
  <2> QED
    BY <2>1, <2>2
<1>5. UNCHANGED <<started, thread, view>>
  BY DEF ProcessEvent, conns
<1>6. Untold(p)'
  BY <1>5 DEF BeliefInv, Untold
<1>7. /\ Len(events) \in Nat
      /\ Len(events) >= 1
      /\ Len(events') = Len(events) - 1
      /\ \A k \in 1..Len(events') : events'[k] = events[k + 1] /\ k + 1 \in 2..Len(events)
  BY <1>1
<1>8. Quiet(p, events, 0) => Quiet(p, events', 0) /\ ~Tells(p, e)
  BY <1>2, <1>7 DEF Quiet
<1>9. Unheard(p)'
  BY <1>4, <1>5, <1>8 DEF BeliefInv, Unheard, Quiet, Told
<1>10. OneInit(p)'
  <2> SUFFICES ASSUME started[p] = 1, NEW k \in 1..Len(events'),
                      events'[k].peer = p, events'[k].kind = "init"
               PROVE  /\ state'[p] = NoState
                      /\ \A j \in 1..Len(events') :
                            events'[j].peer = p /\ events'[j].kind = "init" => j = k
    BY <1>5 DEF OneInit
  <2>1. /\ state[p] = NoState
        /\ \A j \in 1..Len(events) :
              events[j].peer = p /\ events[j].kind = "init" => j = k + 1
    BY <1>7 DEF BeliefInv, OneInit
  <2>2. ~(e.peer = p /\ e.kind = "init")
    BY <1>2, <1>7, <2>1
  <2>3. state'[p] = NoState
    BY <1>4, <2>1, <2>2 DEF Told, Tells
  <2>4. ASSUME NEW j \in 1..Len(events'), events'[j].peer = p, events'[j].kind = "init"
        PROVE  j = k
    <3>1. j + 1 = k + 1
      BY <1>7, <2>1, <2>4
    <3> QED
      BY <1>7, <3>1
  <2> QED
    BY <2>3, <2>4
<1>11. Converges(p)'
  <2> SUFFICES ASSUME started[p] = 1
               PROVE  \E h : /\ Course(p, state'[p], events', h)
                             /\ h[Len(events')] \in {NoState, view[<<p, 1>>]}
    BY <1>5 DEF Converges, Course, Quiet
  <2>1. PICK g : /\ Course(p, state[p], events, g)
                 /\ g[Len(events)] \in {NoState, view[<<p, 1>>]}
    BY DEF BeliefInv, Converges
  <2>2. PICK h : /\ Course(p, Told(p, state[p], e), events', h)
                 /\ h[Len(events')] = g[Len(events)]
    BY <1>1, <2>1, CourseTail
  <2> QED
    BY <1>4, <2>1, <2>2
<1> QED
  BY <1>6, <1>9, <1>10, <1>11 DEF BeliefInv

\* A connection of the peer is started.
LEMMA BeliefStarted ==
    ASSUME TypeOK, NEW p \in Peers, BeliefInv(p), NEW i \in Pieces,
           NEW chosen \in SUBSET Peers, p \in chosen, ConnectPeers(i, chosen)
    PROVE  BeliefInv(p)'
<1>1. /\ started'[p] = started[p] + 1
      /\ UNCHANGED <<state, events, view>>
      /\ started[p] \in 0..MaxConns /\ started[p] < MaxConns /\ MaxConns \in Nat
  BY SessionBoundsAssumption DEF ConnectPeers, Candidates, TypeOK
<1>2. \A n \in Nums : thread'[<<p, n>>] = IF n = started[p] + 1 THEN "connecting"
                                          ELSE thread[<<p, n>>]
  BY DEF ConnectPeers, Conns
<1>3. started[p] + 1 \in Nums
  BY <1>1 DEF Nums
<1>4. Untold(p)'
  BY <1>1, <1>2, <1>3 DEF BeliefInv, Untold, Nums
<1>5. started'[p] = 1 => started[p] = 0 /\ state[p] = NoState /\ Quiet(p, events, 0)
  BY <1>1 DEF BeliefInv, Unheard
<1>6. Unheard(p)'
  BY <1>1, <1>5 DEF Unheard, Quiet
<1>7. started'[p] = 1 =>
         \A k \in 1..Len(events) : ~(events[k].peer = p /\ events[k].kind = "init")
  BY <1>5 DEF Quiet, Tells, TypeOK
<1>8. OneInit(p)'
  BY <1>1, <1>7 DEF OneInit
<1>9. Converges(p)'
  <2> SUFFICES ASSUME started'[p] = 1
               PROVE  \E h : /\ Course(p, state[p], events, h)
                             /\ h[Len(events)] \in {NoState, view[<<p, 1>>]}
    BY <1>1 DEF Converges, Course, Quiet
  <2>1. \E h : Course(p, NoState, events, h) /\ h[Len(events)] = NoState
    BY <1>7, CourseLost DEF TypeOK
  <2> QED
    BY <1>5, <2>1
<1> QED
  BY <1>4, <1>6, <1>8, <1>9 DEF BeliefInv

\* The connection is made: no belief comes before this Init.
LEMMA BeliefConnect ==
    ASSUME TypeOK, NEW p \in Peers, BeliefInv(p), NEW n \in Nums, Connect(p, n)
    PROVE  BeliefInv(p)'
<1> DEFINE e == InitState(p)
<1>1. /\ events' = Append(events, e)
      /\ UNCHANGED <<started, state, view>>
      /\ thread[<<p, n>>] = "connecting"
      /\ thread' = [thread EXCEPT ![<<p, n>>] = "serving"]
  BY DEF Connect, entries
<1>2. events \in Seq(Event) /\ e \in Event
  BY EventTypes DEF TypeOK
<1>3. /\ started[p] \in 0..MaxConns /\ MaxConns \in Nat
      /\ n <= started[p] /\ n >= 1 /\ n \in Nat
  <2>1. started[p] \in 0..MaxConns /\ MaxConns \in Nat /\ n \in 1..MaxConns
    BY SessionBoundsAssumption DEF TypeOK, Nums
  <2>2. ~(n > started[p])
    BY <1>1 DEF BeliefInv, Untold
  <2> QED
    BY <2>1, <2>2
<1>4. \A m \in Nums : thread'[<<p, m>>] = IF m = n THEN "serving" ELSE thread[<<p, m>>]
  BY <1>1 DEF TypeOK, Conns
<1>5. Untold(p)'
  BY <1>1, <1>3, <1>4 DEF BeliefInv, Untold, Nums
<1>6. started[p] = 1 => n = 1 /\ thread'[<<p, 1>>] = "serving"
  BY <1>3, <1>4
<1>7. Unheard(p)'
  BY <1>1, <1>3, <1>6 DEF Unheard
<1>8. /\ Len(events) \in Nat
      /\ Len(events') = Len(events) + 1
      /\ events'[Len(events) + 1] = e
      /\ \A k \in 1..Len(events) : events'[k] = events[k]
  BY <1>1, <1>2
<1>9. /\ e.peer = p /\ e.kind = "init" /\ Tells(p, e)
  BY DEF InitState, Tells
<1>10. started[p] = 1 => /\ state[p] = NoState
                         /\ Quiet(p, events, 0)
                         /\ view[<<p, 1>>] = Fresh
  BY <1>1, <1>6 DEF BeliefInv, Unheard, Untold
<1>11. started[p] = 1 =>
          \A k \in 1..Len(events) : ~(events[k].peer = p /\ events[k].kind = "init")
  BY <1>10 DEF Quiet, Tells
<1>12. OneInit(p)'
  BY <1>1, <1>8, <1>10, <1>11 DEF OneInit
<1>13. Converges(p)'
  <2> SUFFICES ASSUME started[p] = 1
               PROVE  \E h : /\ Course(p, state[p], events', h)
                             /\ h[Len(events')] \in {NoState, view[<<p, 1>>]}
    BY <1>1 DEF Converges, Course, Quiet
  <2>1. PICK g : Course(p, state[p], events, g)
    BY DEF BeliefInv, Converges
  <2>2. PICK h : /\ Course(p, state[p], events', h)
                 /\ h[Len(events')] = Told(p, g[Len(events)], e)
    BY <1>1, <1>2, <2>1, CourseAppend
  <2>3. g[Len(events)] = NoState
    BY <1>8, <1>10, <2>1 DEF Course
  <2>4. h[Len(events')] = Fresh
    BY <1>9, <2>2, <2>3 DEF Told
  <2> QED
    BY <1>10, <2>2, <2>4
<1> QED
  BY <1>5, <1>7, <1>12, <1>13 DEF BeliefInv

\* A message changes the view as its event will change the belief.
LEMMA BeliefHear ==
    ASSUME TypeOK, NEW p \in Peers, BeliefInv(p), NEW n \in Nums, NEW e \in Messages(p),
           Hear(p, n, e)
    PROVE  BeliefInv(p)'
<1>1. /\ events' = Append(events, e)
      /\ UNCHANGED <<started, state, thread>>
      /\ thread[<<p, n>>] = "serving"
      /\ view' = [view EXCEPT ![<<p, n>>] = Said(@, e)]
  BY DEF Hear, entries
<1>2. events \in Seq(Event) /\ e \in Event
  BY EventTypes DEF TypeOK
<1>3. /\ started[p] \in 0..MaxConns /\ MaxConns \in Nat
      /\ n <= started[p] /\ n >= 1 /\ n \in Nat
  <2>1. started[p] \in 0..MaxConns /\ MaxConns \in Nat /\ n \in 1..MaxConns
    BY SessionBoundsAssumption DEF TypeOK, Nums
  <2>2. ~(n > started[p])
    BY <1>1 DEF BeliefInv, Untold
  <2> QED
    BY <2>1, <2>2
<1>4. \A m \in Nums : view'[<<p, m>>] = IF m = n THEN Said(view[<<p, m>>], e)
                                        ELSE view[<<p, m>>]
  BY <1>1 DEF TypeOK, Conns
<1>5. Untold(p)'
  BY <1>1, <1>4 DEF BeliefInv, Untold
<1>6. started[p] = 1 => n = 1
  BY <1>3
<1>7. Unheard(p)'
  BY <1>1, <1>3, <1>6 DEF Unheard
<1>8. /\ Len(events) \in Nat
      /\ Len(events') = Len(events) + 1
      /\ events'[Len(events) + 1] = e
      /\ \A k \in 1..Len(events) : events'[k] = events[k]
  BY <1>1, <1>2
<1>9. e.peer = p /\ e.kind \in {"choked", "have", "bitfield"} /\ Tells(p, e)
  BY DEF Messages, FieldChoked, FieldHave, FieldBitfield, Tells
<1>10. OneInit(p)'
  BY <1>1, <1>8, <1>9 DEF BeliefInv, OneInit
<1>11. Converges(p)'
  <2> SUFFICES ASSUME started[p] = 1
               PROVE  \E h : /\ Course(p, state[p], events', h)
                             /\ h[Len(events')] \in {NoState, view'[<<p, 1>>]}
    BY <1>1 DEF Converges, Course, Quiet
  <2>1. PICK g : /\ Course(p, state[p], events, g)
                 /\ g[Len(events)] \in {NoState, view[<<p, 1>>]}
    BY DEF BeliefInv, Converges
  <2>2. PICK h : /\ Course(p, state[p], events', h)
                 /\ h[Len(events')] = Told(p, g[Len(events)], e)
    <3>1. Course(p, state[p], events, g)
      BY <2>1
    <3>2. \E h : /\ Course(p, state[p], Append(events, e), h)
                 /\ h[Len(Append(events, e))] = Told(p, g[Len(events)], e)
      BY <1>2, <3>1, CourseAppend
    <3> QED
      BY <1>1, <3>2
  <2>3. view[<<p, 1>>] # NoState /\ view'[<<p, 1>>] = Said(view[<<p, 1>>], e)
    BY <1>3, <1>4, <1>6, PeersAssumption DEF TypeOK, Conns, Nums
  <2>4. CASE g[Len(events)] = NoState
    BY <1>9, <2>2, <2>4 DEF Told
  <2>5. CASE g[Len(events)] = view[<<p, 1>>]
    <3>1. Told(p, view[<<p, 1>>], e) = Applied(view[<<p, 1>>], e)
      BY <1>9, <2>3 DEF Told
    <3>2. Applied(view[<<p, 1>>], e) = Said(view[<<p, 1>>], e)
      BY <1>9 DEF Applied, Said
    <3> QED
      BY <2>2, <2>3, <2>5, <3>1, <3>2
  <2> QED
    BY <2>1, <2>4, <2>5
<1> QED
  BY <1>5, <1>7, <1>10, <1>11 DEF BeliefInv

\* The controller goes.
LEMMA BeliefDropped ==
    ASSUME TypeOK, NEW p \in Peers, BeliefInv(p), NEW why, Dropped(why)
    PROVE  BeliefInv(p)'
<1>1. /\ events' = <<>> /\ state'[p] = NoState
      /\ UNCHANGED <<started, thread, view>>
  BY DEF Dropped, conns
<1>2. Untold(p)'
  BY <1>1 DEF BeliefInv, Untold
<1>3. Unheard(p)' /\ OneInit(p)'
  BY <1>1 DEF Unheard, Quiet, OneInit
<1>4. Converges(p)'
  <2>1. \E h : Course(p, NoState, <<>>, h) /\ h[Len(<<>>)] = NoState
    <3> DEFINE q == <<>>
    <3>1. q \in Seq(Event) /\ \A k \in 1..Len(q) : ~(q[k].peer = p /\ q[k].kind = "init")
      OBVIOUS
    <3> HIDE DEF q
    <3>2. \E h : Course(p, NoState, q, h) /\ h[Len(q)] = NoState
      BY <3>1, CourseLost
    <3> QED
      BY <3>2 DEF q
  <2> QED
    BY <1>1, <2>1 DEF Converges, Course, Quiet
<1> QED
  BY <1>2, <1>3, <1>4 DEF BeliefInv

\* Every step keeps the invariant of the belief.
LEMMA BeliefNext ==
    ASSUME TypeOK, NEW p \in Peers, BeliefInv(p), [Next]_vars
    PROVE  BeliefInv(p)'
<1> DEFINE Same == \A n \in Nums : /\ view'[<<p, n>>] = view[<<p, n>>]
                                   /\ thread'[<<p, n>>] = thread[<<p, n>>]
           Kept == /\ events' = events
                   /\ started'[p] = started[p]
                   /\ state'[p] \in {state[p], NoState}
                   /\ Same
<1> USE DEF control, entries, conns
<1>1. CASE ProcessEvent
  BY <1>1, BeliefProcess
<1>2. CASE EndEvents \/ EndSchedule
  <2>1. Kept
    BY <1>2 DEF EndEvents, EndSchedule
  <2> QED
    BY <2>1, BeliefKept
<1>3. ASSUME NEW found \in SUBSET Peers, NEW few \in FewLeft, RefreshAndEnqueue(found, few)
      PROVE  BeliefInv(p)'
  <2>1. Kept
    BY <1>3 DEF RefreshAndEnqueue, RefreshPeers
  <2> QED
    BY <2>1, BeliefKept
<1>4. ASSUME NEW i \in Pieces, NEW tried \in SUBSET Peers, RequestBlock(i, tried)
      PROVE  BeliefInv(p)'
  <2>1. Kept
    BY <1>4 DEF RequestBlock
  <2> QED
    BY <2>1, BeliefKept
<1>5. ASSUME NEW i \in Pieces, NEW chosen \in SUBSET Peers, ConnectPeers(i, chosen)
      PROVE  BeliefInv(p)'
  <2>1. CASE p \in chosen
    BY <1>5, <2>1, BeliefStarted
  <2>2. CASE p \notin chosen
    <3>1. Kept
      BY <1>5, <2>2 DEF ConnectPeers, Conns
    <3> QED
      BY <3>1, BeliefKept
  <2> QED
    BY <2>1, <2>2
<1>6. ASSUME NEW q \in Peers, CleanupPeer(q) \/ JoinEnds(q)
      PROVE  BeliefInv(p)'
  <2>1. Kept
    BY <1>6 DEF CleanupPeer, JoinEnds, TypeOK
  <2> QED
    BY <2>1, BeliefKept
<1>7. ASSUME NEW q \in Peers, NEW n \in Nums, WriterStep(q, n)
      PROVE  BeliefInv(p)'
  <2>1. UNCHANGED <<started, state, thread, view>>
    BY <1>7 DEF WriterStep, WriterStarts, WriteRequest, WriteEnds, ShutStream, WriterEnds
  <2>2. CASE events' = events
    BY <2>1, <2>2, BeliefKept
  <2>3. CASE events' # events
    <3>1. events' = Append(events, Control(q, n))
      BY <1>7, <2>3 DEF WriterStep, WriterStarts, WriteRequest, WriteEnds, ShutStream, WriterEnds
    <3>2. Control(q, n) \in Event /\ ~Tells(p, Control(q, n))
      BY EventTypes DEF Tells, Control
    <3> QED
      BY <2>1, <3>1, <3>2, BeliefOthers
  <2> QED
    BY <2>2, <2>3
<1>8. ASSUME NEW q \in Peers, NEW n \in Nums, Connect(q, n)
      PROVE  BeliefInv(p)'
  <2>1. CASE q = p
    BY <1>8, <2>1, BeliefConnect
  <2>2. CASE q # p
    <3>1. /\ events' = Append(events, InitState(q))
          /\ started' = started /\ state' = state
          /\ Same
      BY <1>8, <2>2 DEF Connect, TypeOK, Conns
    <3>2. InitState(q) \in Event /\ ~Tells(p, InitState(q))
      BY <2>2, EventTypes DEF Tells, InitState
    <3> QED
      BY <3>1, <3>2, BeliefOthers
  <2> QED
    BY <2>1, <2>2
<1>9. ASSUME NEW q \in Peers, NEW n \in Nums, NEW e \in Messages(q), Hear(q, n, e)
      PROVE  BeliefInv(p)'
  <2>1. CASE q = p
    BY <1>9, <2>1, BeliefHear
  <2>2. CASE q # p
    <3>1. /\ events' = Append(events, e)
          /\ started' = started /\ state' = state
          /\ Same
      BY <1>9, <2>2 DEF Hear, TypeOK, Conns
    <3>2. e \in Event
      BY EventTypes
    <3>3. ~Tells(p, e)
      BY <2>2 DEF Tells, Messages, FieldChoked, FieldHave, FieldBitfield
    <3> QED
      BY <3>1, <3>2, <3>3, BeliefOthers
  <2> QED
    BY <2>1, <2>2
<1>10. ASSUME NEW q \in Peers, NEW n \in Nums, ConnectFails(q, n) \/ ListenerEnds(q, n)
       PROVE  BeliefInv(p)'
  <2>1. /\ events' = events /\ started' = started /\ state' = state /\ view' = view
        /\ thread[<<q, n>>] # "unused"
        /\ thread' = [thread EXCEPT ![<<q, n>>] = "ended"]
    BY <1>10 DEF ConnectFails, ListenerEnds
  <2>2. \A m \in Nums : \/ thread'[<<p, m>>] = thread[<<p, m>>]
                        \/ thread[<<p, m>>] # "unused" /\ thread'[<<p, m>>] = "ended"
    BY <2>1 DEF TypeOK, Conns
  <2> QED
    BY <2>1, <2>2, BeliefKept
<1>14. ASSUME NEW q \in Peers, NEW n \in Nums, WriteStalls(q, n) \/ StallEnds(q, n)
       PROVE  BeliefInv(p)'
  <2>1. Kept
    BY <1>14 DEF WriteStalls, StallEnds, WriteEnds
  <2> QED
    BY <2>1, BeliefKept
<1>11. ASSUME NEW q \in Peers, Age(q)
       PROVE  BeliefInv(p)'
  <2>1. Kept
    BY <1>11 DEF Age
  <2> QED
    BY <2>1, BeliefKept
<1>12. CASE CleanupEnd \/ Fail
  BY <1>12, BeliefDropped DEF CleanupEnd, Fail
<1>13. CASE UNCHANGED vars
  <2>1. Kept
    BY <1>13 DEF vars
  <2> QED
    BY <2>1, BeliefKept
<1> QED
  BY <1>1, <1>2, <1>3, <1>4, <1>5, <1>6, <1>7, <1>8, <1>9, <1>10, <1>11, <1>12, <1>13,
     <1>14
     DEF Next, ControllerStep, RemoteStep, Stopped

AllBeliefs == \A p \in Peers : BeliefInv(p)

\* What the controller believes of a peer it tried once is, when no event of the peer
\* waits, what the connection knows (process_event and peer.rs).
THEOREM BeliefIsView == Spec => []BeliefMatchesView
<1>1. Init => AllBeliefs
  <2> SUFFICES ASSUME Init, NEW p \in Peers
               PROVE  BeliefInv(p)
    BY DEF AllBeliefs
  <2>1. started[p] = 0 /\ state[p] = NoState /\ events = <<>>
    BY DEF Init
  <2>2. Untold(p)
    BY DEF Init, Untold, Conns
  <2> QED
    BY <2>1, <2>2 DEF BeliefInv, Unheard, Quiet, OneInit, Converges
<1>2. TypeOK /\ AllBeliefs /\ [Next]_vars => AllBeliefs'
  BY BeliefNext DEF AllBeliefs
<1>3. TypeOK /\ AllBeliefs => BeliefMatchesView
  <2> SUFFICES ASSUME TypeOK, AllBeliefs, NEW p \in Peers, started[p] = 1,
                      state[p] # NoState, \A k \in 1..Len(events) : events[k].peer # p
               PROVE  state[p] = view[<<p, 1>>]
    BY DEF BeliefMatchesView
  <2>1. PICK g : /\ Course(p, state[p], events, g)
                 /\ g[Len(events)] \in {NoState, view[<<p, 1>>]}
    BY DEF AllBeliefs, BeliefInv, Converges
  <2>2. Quiet(p, events, 0)
    BY DEF Quiet, Tells
  <2>3. Len(events) \in Nat
    BY DEF TypeOK
  <2>4. g[Len(events)] = state[p]
    BY <2>1, <2>2, <2>3 DEF Course
  <2> QED
    BY <2>1, <2>4
<1> QED
  BY <1>1, <1>2, <1>3, TypeCorrect, PTL DEF Spec

=============================================================================
