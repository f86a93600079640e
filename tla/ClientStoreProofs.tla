------------------------- MODULE ClientStoreProofs -------------------------
(***************************************************************************)
(* Theorems about the client: what client.json keeps, and that a lone      *)
(* controller keeps its temporary directory, for any torrents and bounds.  *)
(***************************************************************************)
EXTENDS ClientStore, TLAPS

-----------------------------------------------------------------------------
(* The inductive invariant. *)

\* Between operations client.json holds what the client knows; while it is being
\* saved it holds nothing.
SavedInv ==
    /\ pc \in {"commands", "resume", "events", "threads"} =>
          db_file # "torn" /\ db = known
    /\ pc = "truncate" => db_file # "torn"
    /\ pc = "write" => db_file = "torn"
    /\ pc \in Up => added \subseteq known
    /\ pc = "resume" \/ (pc \in {"truncate", "write"} /\ after = "resume") =>
          adding \in known

ClientInv == TypeOK /\ SavedInv /\ AddedKept

-----------------------------------------------------------------------------
(* Types. *)

\* The type invariant holds initially.
LEMMA TypeInit == Init => TypeOK
BY ClientAssumption DEF Init, TypeOK, Nums, None, Status

\* NoProcess gives its variables values of their types.
LEMMA TypeNoProcess ==
    ASSUME NoProcess
    PROVE  /\ after' \in {"commands", "resume", "events"}
           /\ adding' \in Torrents \cup {Unreadable}
           /\ count' \in 0 .. MaxEventsPerCycle + 1
           /\ handle' \in [Torrents -> Nums \cup {None}]
           /\ state' \in [Torrents -> {"none", "some", "all"}]
           /\ commands' \in Seq(Torrents \cup {Unreadable})
           /\ events' \in Seq(StateEvent)
           /\ ctl' \in [Torrents -> [Nums -> Status]]
BY ClientAssumption DEF NoProcess, Nums, None, Status

\* A controller that gets another status.
LEMMA CtlTyped ==
    ASSUME ctl \in [Torrents -> [Nums -> Status]],
           NEW t \in Torrents, NEW n \in Nums, NEW s \in Status,
           ctl' = [ctl EXCEPT ![t][n] = s]
    PROVE  ctl' \in [Torrents -> [Nums -> Status]]
<1>1. [ctl[t] EXCEPT ![n] = s] \in [Nums -> Status]
  OBVIOUS
<1> QED
  BY <1>1

\* Every step keeps the type invariant; a torrent that is resumed is known.
LEMMA TypeNext == TypeOK /\ SavedInv /\ [Next]_vars => TypeOK'
<1> SUFFICES ASSUME TypeOK, SavedInv, [Next]_vars
             PROVE  TypeOK'
    OBVIOUS
<1> USE ClientAssumption DEF client, channels, disk, history, Up
<1>1. ASSUME Start \/ Crash \/ ResumePanics
      PROVE  TypeOK'
  <2>1. NoProcess /\ pc' \in Up \cup {"off", "refused"} /\ known' \in SUBSET Torrents
    BY <1>1 DEF Start, Crash, ResumePanics, Die, TypeOK, Loaded
  <2>2. /\ UNCHANGED <<disk, added, sent>>
        /\ starts' \in 0..MaxStarts
    BY <1>1 DEF Start, Crash, ResumePanics, Die, TypeOK
  <2> QED
    BY <2>1, <2>2, TypeNoProcess DEF TypeOK
<1>2. ASSUME NEW x \in Torrents \cup {Unreadable}, Send(x)
      PROVE  TypeOK'
  BY <1>2 DEF Send, TypeOK
<1>3. CASE Truncate \/ Write \/ EndCommands \/ EndEvents
  BY <1>3 DEF Truncate, Write, Saved, EndCommands, EndEvents, TypeOK
<1>4. CASE AddTorrent
  <2>1. Head(commands) \in Torrents \cup {Unreadable}
    BY <1>4 DEF AddTorrent, TypeOK
  <2>2. commands' \in Seq(Torrents \cup {Unreadable})
    BY <1>4 DEF AddTorrent, TypeOK
  <2> QED
    BY <1>4, <2>1, <2>2 DEF AddTorrent, Save, TypeOK
<1>5. CASE ResumeTorrent
  <2>1. adding \in Torrents
    BY <1>5 DEF ResumeTorrent, SavedInv, TypeOK
  <2>2. UNCHANGED <<ctl, handle, added>> \/
        \E n \in Nums : /\ ctl' = [ctl EXCEPT ![adding][n] = "starting"]
                        /\ handle' = [handle EXCEPT ![adding] = n]
                        /\ added' = added \cup {adding}
    BY <1>5 DEF ResumeTorrent
  <2>3. /\ ctl' \in [Torrents -> [Nums -> Status]]
        /\ handle' \in [Torrents -> Nums \cup {None}]
        /\ added' \in SUBSET Torrents
    <3>1. CASE UNCHANGED <<ctl, handle, added>>
      BY <3>1 DEF TypeOK
    <3>2. ASSUME NEW n \in Nums, ctl' = [ctl EXCEPT ![adding][n] = "starting"],
                 handle' = [handle EXCEPT ![adding] = n],
                 added' = added \cup {adding}
          PROVE  /\ ctl' \in [Torrents -> [Nums -> Status]]
                 /\ handle' \in [Torrents -> Nums \cup {None}]
                 /\ added' \in SUBSET Torrents
      <4>1. "starting" \in Status
        BY DEF Status
      <4>2. ctl' \in [Torrents -> [Nums -> Status]]
        BY <2>1, <3>2, <4>1, CtlTyped DEF TypeOK
      <4> QED
        BY <2>1, <3>2, <4>2 DEF TypeOK
    <3> QED
      BY <2>2, <3>1, <3>2
  <2> QED
    BY <1>5, <2>3 DEF ResumeTorrent, Save, TypeOK
<1>6. CASE ProcessEvent
  <2> DEFINE e == Head(events)
  <2>1. e \in StateEvent
    BY <1>6 DEF ProcessEvent, TypeOK
  <2>2. events' \in Seq(StateEvent)
    BY <1>6 DEF ProcessEvent, TypeOK
  <2>3. state' \in [Torrents -> {"none", "some", "all"}]
    BY <1>6, <2>1 DEF ProcessEvent, Shown, StateEvent, TypeOK
  <2>4. count' \in 0 .. MaxEventsPerCycle + 1
    BY <1>6 DEF ProcessEvent, InCycle, TypeOK
  <2> QED
    BY <1>6, <2>2, <2>3, <2>4 DEF ProcessEvent, Save, TypeOK
<1>7. CASE UpdateThreads
  BY <1>7 DEF UpdateThreads, TypeOK
<1>8. ASSUME NEW t \in Torrents, NEW n \in Nums, ControllerStep(t, n)
      PROVE  TypeOK'
  <2> USE DEF Ended, Status
  <2>1. ASSUME NEW files \in {"some", "all"}, SendState(t, files)
        PROVE  events' \in Seq(StateEvent)
    <3>1. [torrent |-> t, files |-> files] \in StateEvent
      BY DEF StateEvent
    <3> QED
      BY <2>1, <3>1 DEF SendState, TypeOK
  <2>2. CASE Setup(t, n)
    BY <2>2 DEF Setup, TypeOK
  <2>3. CASE Pass(t, n)
    <3>1. events' \in Seq(StateEvent)
      BY <2>1, <2>3 DEF Pass
    <3>2. ctl' \in [Torrents -> [Nums -> Status]]
      <4>1. CASE UNCHANGED ctl
        BY <4>1 DEF TypeOK
      <4>2. CASE ctl' = [ctl EXCEPT ![t][n] = "cleanup"]
        BY <4>2, CtlTyped DEF TypeOK
      <4> QED
        BY <2>3, <4>1, <4>2 DEF Pass
    <3> QED
      BY <2>3, <3>1, <3>2 DEF Pass, TypeOK
  <2>4. CASE PassPanics(t, n)
    BY <2>4 DEF PassPanics, TypeOK
  <2>5. CASE Fail(t, n)
    BY <2>5 DEF Fail, TypeOK
  <2>6. CASE Cleanup(t, n)
    BY <2>1, <2>6 DEF Cleanup, TypeOK
  <2> QED
    BY <1>8, <2>2, <2>3, <2>4, <2>5, <2>6 DEF ControllerStep
<1>9. CASE UNCHANGED vars
  BY <1>9 DEF vars, TypeOK
<1> QED
  BY <1>1, <1>2, <1>3, <1>4, <1>5, <1>6, <1>7, <1>8, <1>9
     DEF Next, ClientStep, Stopped

-----------------------------------------------------------------------------
(* What client.json keeps. *)

\* The invariant holds initially.
LEMMA ClientInit == Init => ClientInv
BY TypeInit DEF Init, ClientInv, SavedInv, AddedKept, Up

\* Every step keeps the invariant.
LEMMA ClientNext == ClientInv /\ [Next]_vars => ClientInv'
<1> SUFFICES ASSUME ClientInv, [Next]_vars
             PROVE  SavedInv' /\ AddedKept'
    BY TypeNext DEF ClientInv
<1> USE DEF ClientInv, TypeOK, client, channels, disk, history, Up, SavedInv, AddedKept
<1>1. CASE Start
  BY <1>1 DEF Start, Loaded, NoProcess
<1>2. CASE Crash \/ ResumePanics
  BY <1>2 DEF Crash, ResumePanics, Die
<1>3. ASSUME NEW x \in Torrents \cup {Unreadable}, Send(x)
      PROVE  SavedInv' /\ AddedKept'
  BY <1>3 DEF Send
<1>4. CASE Truncate
  BY <1>4 DEF Truncate
<1>5. CASE Write
  BY <1>5 DEF Write, Saved
<1>6. CASE AddTorrent
  BY <1>6 DEF AddTorrent, Save
<1>7. CASE ResumeTorrent
  BY <1>7 DEF ResumeTorrent, Save
<1>8. CASE EndCommands \/ EndEvents \/ UpdateThreads
  BY <1>8 DEF EndCommands, EndEvents, UpdateThreads
<1>9. CASE ProcessEvent
  BY <1>9 DEF ProcessEvent, Save
<1>10. ASSUME NEW t \in Torrents, NEW n \in Nums, ControllerStep(t, n)
       PROVE  SavedInv' /\ AddedKept'
  <2>1. UNCHANGED <<pc, after, adding, known, db_file, db, added>>
    BY <1>10 DEF ControllerStep, Setup, Pass, PassPanics, Fail, Cleanup
  <2> QED
    BY <2>1
<1>11. CASE UNCHANGED vars
  BY <1>11 DEF vars
<1> QED
  BY <1>1, <1>2, <1>3, <1>4, <1>5, <1>6, <1>7, <1>8, <1>9, <1>10, <1>11
     DEF Next, ClientStep, Stopped

\* Every variable of the client keeps its type.
THEOREM TypeCorrect == Spec => []TypeOK
<1>1. ClientInv => TypeOK
  BY DEF ClientInv
<1> QED
  BY <1>1, ClientInit, ClientNext, PTL DEF Spec

\* A torrent that was added once is in client.json as long as it can be read.
THEOREM AddedTorrentsKept == Spec => []AddedKept
<1>1. ClientInv => AddedKept
  BY DEF ClientInv
<1> QED
  BY <1>1, ClientInit, ClientNext, PTL DEF Spec

-----------------------------------------------------------------------------
(* Temporary directories. *)

\* Of the directory of a controller that works: it is there, or another one of the
\* torrent has finished.
OthersEnded(t, n) == \E m \in Nums \ {n} : ctl[t][m] = "ended"

DirectoryInv ==
    \A t \in Torrents, n \in Nums :
        /\ ctl[t][n] = "panicked" => OthersEnded(t, n)
        /\ ctl[t][n] \in {"running", "cleanup"} => tempdir[t] \/ OthersEnded(t, n)

\* Every step keeps the invariant.
LEMMA DirectoryNext == TypeOK /\ DirectoryInv /\ [Next]_vars => DirectoryInv'
<1> SUFFICES ASSUME TypeOK, DirectoryInv, [Next]_vars,
                    NEW t \in Torrents, NEW n \in Nums
             PROVE  /\ ctl'[t][n] = "panicked" => OthersEnded(t, n)'
                    /\ ctl'[t][n] \in {"running", "cleanup"} =>
                          tempdir'[t] \/ OthersEnded(t, n)'
    BY DEF DirectoryInv
<1> USE DEF TypeOK, client, channels, disk, history
<1>1. CASE Start \/ Crash \/ ResumePanics
  BY <1>1 DEF Start, Crash, ResumePanics, Die, NoProcess
<1>2. CASE UNCHANGED <<ctl, tempdir>>
  BY <1>2 DEF DirectoryInv, OthersEnded
<1>3. CASE ResumeTorrent /\ ~(UNCHANGED ctl)
  <2>1. PICK m \in Nums : /\ ctl' = [ctl EXCEPT ![adding][m] = "starting"]
                          /\ ctl[adding][m] = "unused"
    BY <1>3 DEF ResumeTorrent
  <2>2. adding \in Torrents /\ UNCHANGED tempdir
    BY <1>3, <2>1 DEF ResumeTorrent
  <2>3. OthersEnded(t, n) => OthersEnded(t, n)'
    BY <2>1, <2>2 DEF OthersEnded
  <2>4. ctl'[t][n] \in {ctl[t][n], "starting"}
    BY <2>1, <2>2
  <2> QED
    BY <2>2, <2>3, <2>4 DEF DirectoryInv
<1>4. ASSUME NEW u \in Torrents, NEW m \in Nums, ControllerStep(u, m)
      PROVE  /\ ctl'[t][n] = "panicked" => OthersEnded(t, n)'
             /\ ctl'[t][n] \in {"running", "cleanup"} => tempdir'[t] \/ OthersEnded(t, n)'
  <2>1. \A v \in Torrents, k \in Nums : v # u \/ k # m => ctl'[v][k] = ctl[v][k]
    BY <1>4 DEF ControllerStep, Setup, Pass, PassPanics, Fail, Cleanup
  <2>2. ctl[u][m] \in {"starting", "running", "cleanup"}
    BY <1>4 DEF ControllerStep, Setup, Pass, PassPanics, Fail, Cleanup
  <2>3. OthersEnded(t, n) => OthersEnded(t, n)'
    BY <2>1, <2>2 DEF OthersEnded
  <2>4. \/ tempdir'[t] = tempdir[t]
        \/ tempdir'[t]
        \/ u = t /\ Cleanup(u, m)
    <3>1. CASE Setup(u, m) \/ Cleanup(u, m)
      BY <3>1 DEF Setup, Cleanup
    <3>2. CASE Pass(u, m) \/ PassPanics(u, m) \/ Fail(u, m)
      BY <3>2 DEF Pass, PassPanics, Fail
    <3> QED
      BY <1>4, <3>1, <3>2 DEF ControllerStep
  <2>5. CASE u = t /\ m = n
    BY <1>4, <2>3, <2>5
       DEF ControllerStep, Setup, Pass, PassPanics, Fail, Cleanup, DirectoryInv
  <2>6. CASE u # t \/ m # n
    <3>1. ctl'[t][n] = ctl[t][n]
      BY <2>1, <2>6
    <3>2. CASE tempdir'[t] = tempdir[t] \/ tempdir'[t]
      BY <2>3, <3>1, <3>2 DEF DirectoryInv
    <3>3. CASE u = t /\ m # n /\ Cleanup(u, m)
      <4>1. CASE tempdir[t]
        <5>1. ctl'[t][m] = "ended"
          BY <3>3, <4>1 DEF Cleanup
        <5> QED
          BY <3>3, <5>1 DEF OthersEnded
      <4>2. CASE ~tempdir[t]
        <5>1. PICK k \in Nums \ {m} : ctl[t][k] = "ended"
          BY <3>3, <4>2 DEF Cleanup, DirectoryInv, OthersEnded
        <5>2. ctl'[t][k] = "ended"
          BY <2>1, <5>1
        <5> QED
          BY <5>2 DEF OthersEnded
      <4> QED
        BY <4>1, <4>2
    <3> QED
      BY <2>4, <2>6, <3>2, <3>3
  <2> QED
    BY <2>5, <2>6
<1>5. ASSUME \/ \E x \in Torrents \cup {Unreadable} : Send(x)
             \/ ClientStep /\ ~ResumeTorrent /\ ~ResumePanics
             \/ Stopped
             \/ UNCHANGED vars
      PROVE  UNCHANGED <<ctl, tempdir>>
  BY <1>5 DEF Send, ClientStep, Truncate, Write, AddTorrent, EndCommands,
     ProcessEvent, EndEvents, UpdateThreads, Stopped, vars
<1>6. ResumeTorrent => UNCHANGED tempdir
  BY DEF ResumeTorrent
<1> QED
  BY <1>1, <1>2, <1>3, <1>4, <1>5, <1>6 DEF Next, ClientStep

\* A controller that finds its temporary directory gone has lost it to another one of
\* its torrent, which has finished (Controller::setup, cleanup, write_block).
THEOREM DirectoriesLostToFinished == Spec => []LostToFinished
<1>1. Init => DirectoryInv
  BY DEF Init, DirectoryInv
<1>2. DirectoryInv => LostToFinished
  BY DEF DirectoryInv, LostToFinished, OthersEnded
<1> QED
  BY <1>1, <1>2, DirectoryNext, TypeCorrect, PTL DEF Spec

=============================================================================
