---------------------------- MODULE ClientStore ----------------------------
(***************************************************************************)
(* The client (client.rs): the torrents it knows, client.json, the command *)
(* and event loop of its thread, and the torrent controllers it starts.    *)
(*                                                                         *)
(* client.json is truncated and then written, and the process can be       *)
(* killed in between; so saving takes two steps, and `pc' says where the   *)
(* client thread is.  The file and the temporary directories are on disk   *)
(* and survive; everything else is lost with the process.                  *)
(*                                                                         *)
(* A controller is reduced to what the client and the controllers of the   *)
(* same torrent see of it: that it sends its state once per pass, that it  *)
(* makes its temporary directory, works in it and removes it, and how it   *)
(* ends.  The module TorrentStore models the rest.                         *)
(***************************************************************************)
EXTENDS Naturals, Sequences

CONSTANTS
    Torrents,           \* torrent files that can be read
    Unlayable,          \* those of them that Torrent::new panics on
    BadUrls,            \* those with a tracker URL that does not parse
    Unreadable,         \* a path that is no torrent file
    MaxEventsPerCycle,  \* MAX_EVENTS_PER_CYCLE
    MaxStarts,          \* bound: times the process is started
    MaxCommands,        \* bound: commands in a behaviour
    MaxEvents           \* bound: events waiting in the channel

\* Controllers of a torrent in one process, in the order they are started.
Nums == 1..MaxCommands
None == 0

ASSUME ClientAssumption ==
    /\ Unreadable \notin Torrents
    /\ Unlayable \subseteq Torrents
    /\ BadUrls \subseteq Torrents
    /\ {MaxEventsPerCycle, MaxStarts, MaxCommands, MaxEvents} \subseteq Nat

VARIABLES
    \* the client thread
    pc,         \* where it is; "off" or "refused" when there is no process
    after,      \* where it goes on when client.json is saved
    adding,     \* the torrent of the command it is at
    count,      \* events drained in this cycle
    known,      \* ClientState::torrents
    handle,     \* the controller Torrent::handle belongs to
    state,      \* Torrent::state: not known, some files missing, all there
    \* the channels
    commands,
    events,
    \* the torrent controllers
    ctl,
    \* the disk
    db_file,    \* client.json: not there, not parseable, or whole
    db,         \* the torrents it holds
    tempdir,    \* the temporary directory of the torrent exists
    \* history and bounds
    added,      \* torrents an AddTorrent has succeeded for
    starts,
    sent

client   == <<after, adding, count, known, handle, state>>
channels == <<commands, events>>
disk     == <<db_file, db, tempdir>>
history  == <<added, starts, sent>>
vars     == <<pc, client, channels, ctl, disk, history>>

\* ControllerEvent, with a State: whether all files are there.
StateEvent == [torrent : Torrents, files : {"some", "all"}]

Up == {"commands", "resume", "events", "threads", "truncate", "write"}

\* No controller of the torrent but n was started in this process.
Lone(t, n) == \A m \in Nums \ {n} : ctl[t][m] = "unused"

-----------------------------------------------------------------------------
(* The process. *)

NoProcess ==
    /\ after' = "commands"
    /\ adding' = Unreadable
    /\ count' = 0
    /\ handle' = [t \in Torrents |-> None]
    /\ state' = [t \in Torrents |-> "none"]
    /\ commands' = <<>>
    /\ events' = <<>>
    /\ ctl' = [t \in Torrents |-> [n \in Nums |-> "unused"]]

Init ==
    /\ pc = "off"
    /\ after = "commands"
    /\ adding = Unreadable
    /\ count = 0
    /\ known = {}
    /\ handle = [t \in Torrents |-> None]
    /\ state = [t \in Torrents |-> "none"]
    /\ commands = <<>>
    /\ events = <<>>
    /\ ctl = [t \in Torrents |-> [n \in Nums |-> "unused"]]
    /\ db_file = "absent"
    /\ db = {}
    /\ tempdir = [t \in Torrents |-> FALSE]
    /\ added = {}
    /\ starts = 0
    /\ sent = 0

\* init_state: the torrents of client.json, none if there is no such file.
Loaded == db

\* Client::new.  A file that cannot be parsed is an error, which main unwraps.
Start ==
    /\ pc \notin Up
    /\ starts < MaxStarts
    /\ starts' = starts + 1
    /\ NoProcess
    /\ IF db_file = "torn"
       THEN pc' = "refused" /\ known' = {}
       ELSE pc' = "commands" /\ known' = Loaded
    /\ UNCHANGED <<disk, added, sent>>

\* main sends the pairs of its arguments one by one, while the client runs.
Send(x) ==
    /\ pc \in Up
    /\ sent < MaxCommands
    /\ commands' = Append(commands, x)
    /\ sent' = sent + 1
    /\ UNCHANGED <<pc, client, events, ctl, disk, added, starts>>

Die ==
    /\ pc' = "off"
    /\ known' = {}
    /\ NoProcess
    /\ UNCHANGED <<disk, history>>

\* The process is killed.
Crash == pc \in Up /\ Die

-----------------------------------------------------------------------------
(* save_state *)

Save(then) == pc' = "truncate" /\ after' = then

Truncate ==
    /\ pc = "truncate"
    /\ db_file' = "torn"
    /\ db' = {}
    /\ pc' = "write"
    /\ UNCHANGED <<client, channels, ctl, tempdir, history>>

\* Bug: only torrents that run are saved.
SavedBug == {t \in known : handle[t] # None}

Saved == known

Write ==
    /\ pc = "write"
    /\ db_file' = "whole"
    /\ db' = Saved
    /\ pc' = after
    /\ UNCHANGED <<client, channels, ctl, tempdir, history>>

-----------------------------------------------------------------------------
(* Commands. *)

\* add_torrent, up to resume_torrent.  A new torrent is saved before it is
\* resumed; after a path that cannot be read only the state is saved.
AddTorrent ==
    /\ pc = "commands"
    /\ commands # <<>>
    /\ commands' = Tail(commands)
    /\ adding' = Head(commands)
    /\ LET x == Head(commands)
       IN  IF x = Unreadable THEN Save("commands") /\ UNCHANGED known
           ELSE IF x \in known THEN pc' = "resume" /\ UNCHANGED <<after, known>>
           ELSE Save("resume") /\ known' = known \cup {x}
    /\ UNCHANGED <<count, handle, state, events, ctl, disk, history>>

\* resume_torrent: a new controller, whether or not the torrent has one already.
ResumeTorrent ==
    /\ pc = "resume"
    /\ adding \notin Unlayable
    /\ IF adding \in BadUrls
       THEN UNCHANGED <<ctl, handle, added>>
       ELSE \E n \in Nums :
              /\ ctl[adding][n] = "unused"
              /\ \A m \in Nums : m < n => ctl[adding][m] # "unused"
              /\ ctl' = [ctl EXCEPT ![adding][n] = "starting"]
              /\ handle' = [handle EXCEPT ![adding] = n]
              /\ added' = added \cup {adding}
    /\ Save("commands")
    /\ UNCHANGED <<adding, count, known, state, channels, disk, starts, sent>>

\* Torrent::new panics in the client thread; main unwraps its join.
ResumePanics ==
    /\ pc = "resume"
    /\ adding \in Unlayable
    /\ Die

EndCommands ==
    /\ pc = "commands"
    /\ commands = <<>>
    /\ pc' = "events"
    /\ count' = 0
    /\ UNCHANGED <<after, adding, known, handle, state, channels, ctl, disk, history>>

-----------------------------------------------------------------------------
(* Events and threads. *)

\* Bug: the channel is drained until it is empty.
InCycleBug == TRUE

\* The drain goes on.
InCycle == count <= MaxEventsPerCycle

\* Bug: only the first state of a torrent is taken.
ShownBug(e) == IF state[e.torrent] = "none" THEN e.files ELSE state[e.torrent]

\* What the client shows of a torrent after an event.
Shown(e) == e.files

\* process_event, for a state of a controller.
ProcessEvent ==
    /\ pc = "events"
    /\ events # <<>>
    /\ InCycle
    /\ events' = Tail(events)
    /\ state' = [state EXCEPT ![Head(events).torrent] = Shown(Head(events))]
    /\ count' = IF count > MaxEventsPerCycle + 1 THEN count ELSE count + 1
    /\ Save("events")
    /\ UNCHANGED <<adding, known, handle, commands, ctl, disk, history>>

EndEvents ==
    /\ pc = "events"
    /\ events = <<>> \/ ~InCycle
    /\ pc' = "threads"
    /\ UNCHANGED <<client, channels, ctl, disk, history>>

Ended  == {"ended", "failed", "panicked"}
Status == {"unused", "starting", "running", "cleanup"} \cup Ended

\* Finished threads are joined; then the client sleeps for a second.
UpdateThreads ==
    /\ pc = "threads"
    /\ handle' = [t \in Torrents |->
                    IF handle[t] # None /\ ctl[t][handle[t]] \in Ended THEN None
                    ELSE handle[t]]
    /\ pc' = "commands"
    /\ UNCHANGED <<after, adding, count, known, state, channels, ctl, disk, history>>

-----------------------------------------------------------------------------
(* Torrent controllers. *)

\* Controller::setup.  The directory is made if it is not there.
Setup(t, n) ==
    /\ ctl[t][n] = "starting"
    /\ tempdir' = [tempdir EXCEPT ![t] = TRUE]
    /\ ctl' = [ctl EXCEPT ![t][n] = "running"]
    /\ UNCHANGED <<pc, client, channels, db_file, db, history>>

SendState(t, files) ==
    /\ Len(events) < MaxEvents
    /\ events' = Append(events, [torrent |-> t, files |-> files])

\* A pass of the loop: it may store blocks, or finish; it sends the state.
Pass(t, n) ==
    /\ ctl[t][n] = "running"
    /\ \/ SendState(t, "some") /\ UNCHANGED ctl
       \/ SendState(t, "all") /\ ctl' = [ctl EXCEPT ![t][n] = "cleanup"]
    /\ UNCHANGED <<pc, client, commands, disk, history>>

\* A pass that reads or writes a block file panics if the directory is gone.
PassPanics(t, n) ==
    /\ ctl[t][n] = "running"
    /\ ~tempdir[t]
    /\ ctl' = [ctl EXCEPT ![t][n] = "panicked"]
    /\ UNCHANGED <<pc, client, channels, disk, history>>

\* Bug: a controller that fails cleans up.
FailBug(t, n) ==
    /\ ctl[t][n] \in {"starting", "running"}
    /\ ctl' = [ctl EXCEPT ![t][n] = "failed"]
    /\ tempdir' = [tempdir EXCEPT ![t] = FALSE]
    /\ UNCHANGED <<pc, client, channels, db_file, db, history>>

\* The controller ends for another reason, of the data path or of a tracker.
Fail(t, n) ==
    /\ ctl[t][n] \in {"starting", "running"}
    /\ ctl' = [ctl EXCEPT ![t][n] = "failed"]
    /\ UNCHANGED <<pc, client, channels, disk, history>>

\* cleanup: the final state is sent, then the directory is removed; removing it
\* when it is gone panics.
Cleanup(t, n) ==
    /\ ctl[t][n] = "cleanup"
    /\ SendState(t, "all")
    /\ tempdir' = [tempdir EXCEPT ![t] = FALSE]
    /\ ctl' = [ctl EXCEPT ![t][n] = IF tempdir[t] THEN "ended" ELSE "panicked"]
    /\ UNCHANGED <<pc, client, commands, db_file, db, history>>

-----------------------------------------------------------------------------

ClientStep ==
    \/ Truncate
    \/ Write
    \/ AddTorrent
    \/ ResumeTorrent
    \/ ResumePanics
    \/ EndCommands
    \/ ProcessEvent
    \/ EndEvents
    \/ UpdateThreads

ControllerStep(t, n) ==
    \/ Setup(t, n)
    \/ Pass(t, n)
    \/ PassPanics(t, n)
    \/ Fail(t, n)
    \/ Cleanup(t, n)

\* Nobody starts the process again.
Stopped == pc \notin Up /\ starts = MaxStarts /\ UNCHANGED vars

Next ==
    \/ Start
    \/ \E x \in Torrents \cup {Unreadable} : Send(x)
    \/ Crash
    \/ ClientStep
    \/ \E t \in Torrents, n \in Nums : ControllerStep(t, n)
    \/ Stopped

Spec == Init /\ [][Next]_vars

\* The client thread is scheduled.  Nothing is assumed of controllers.
FairSpec == Spec /\ WF_vars(ClientStep)

-----------------------------------------------------------------------------
(* Properties. *)

\* Every variable holds a value of its type.  A drain handles at most one event
\* more than MAX_EVENTS_PER_CYCLE.
TypeOK ==
    /\ pc \in Up \cup {"off", "refused"}
    /\ after \in {"commands", "resume", "events"}
    /\ adding \in Torrents \cup {Unreadable}
    /\ count \in 0 .. MaxEventsPerCycle + 1
    /\ known \in SUBSET Torrents
    /\ handle \in [Torrents -> Nums \cup {None}]
    /\ state \in [Torrents -> {"none", "some", "all"}]
    /\ commands \in Seq(Torrents \cup {Unreadable})
    /\ events \in Seq(StateEvent)
    /\ ctl \in [Torrents -> [Nums -> Status]]
    /\ db_file \in {"absent", "torn", "whole"}
    /\ db \in SUBSET Torrents
    /\ tempdir \in [Torrents -> BOOLEAN]
    /\ added \in SUBSET Torrents
    /\ starts \in 0..MaxStarts
    /\ sent \in 0..MaxCommands

\* A torrent an AddTorrent once succeeded for is in client.json as long as the file
\* can be read, through any later command, event, crash and start.
AddedKept == db_file # "torn" => added \subseteq db

\* Controllers of one torrent work in one temporary directory, and each removes it in
\* the end.  One that finds it gone, and panics, has lost it to another that has
\* finished the download: that two of them run never ends both with files missing
\* (Controller::setup, cleanup, write_block).
LostToFinished ==
    \A t \in Torrents, n \in Nums :
        ctl[t][n] = "panicked" => \E m \in Nums \ {n} : ctl[t][m] = "ended"

\* A command is processed however many events controllers send: the drain of events
\* is bounded, unless the process ends.
CommandsServed == (pc \in Up /\ commands # <<>>) ~> (pc \notin Up \/ commands = <<>>)

\* When the only controller of a torrent has finished, the client comes to show the
\* torrent as complete, also behind events of other torrents.
FinishedShown ==
    \A t \in Torrents :
        (ctl[t][1] = "ended" /\ Lone(t, 1))
            ~> (state[t] = "all" \/ pc \notin Up \/ ~Lone(t, 1))

=============================================================================
