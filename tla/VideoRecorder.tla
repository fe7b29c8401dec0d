---------------------------- MODULE VideoRecorder ----------------------------
(***************************************************************************)
(* storage/video_recorder.cpp with storage/archive_creator_remote.cpp and  *)
(* the commands that start and stop a recording.                           *)
(*                                                                         *)
(* Threads: the main thread, which executes the commands; one task per     *)
(* accepted start; the maintenance thread, which starts new data blocks    *)
(* and collects the results of the tasks; and per source the thread that   *)
(* tells the recorder that the source was lost or found.                   *)
(*                                                                         *)
(* A recording is named by its archiving id; ids are not repeated (the     *)
(* server generates one when the client names none).  A creator is named   *)
(* by its recording: two of one id never exist at once.  The source        *)
(* manager is what VideoSource says of a source: a count, a link to the    *)
(* receiver and a signal.  Playlists, metadata and the ticks that copy     *)
(* them are left out, as is RECORD_ENABLE_RETRANSLATION; the remote        *)
(* archiver (RECORD_ENABLE_REMOTE_ARCHIVER) is the one modelled; it is not *)
(* registered with the process launcher and so never sees a crash, which   *)
(* leaves checkForDiedArchiveCreators nothing to do.  Shutdown is left out. *)
(***************************************************************************)
EXTENDS Naturals, Sequences, FiniteSets

CONSTANTS
    Ids,       \* archiving ids
    Sensors,   \* cameras, each with a url of its own
    Maint,     \* the maintenance thread among those that launch a record
    None,
    Shared,    \* cameras whose source another consumer may hold
    MaxBlocks,    \* bound: data blocks started
    MaxStops,     \* bound: stop commands
    MaxIncidents  \* bound: streams stopped and receivers crashed

ASSUME RecorderAssumption ==
    /\ Maint \notin Ids /\ None \notin Ids \cup Sensors
    /\ Shared \subseteq Sensors
    /\ {MaxBlocks, MaxStops, MaxIncidents} \subseteq Nat

VARIABLES
    creators,  \* m_archiveCreators, in order
    byId,      \* ids in m_archiveCreatorsByArchivingId
    lost,      \* sources with settings in m_archiveSettingsFromLostedSources
    futures,   \* starts in m_recordingStartFutures
    starting,  \* ids in m_recordingsFailedInFuture
    sensorOf,  \* the sensor a recording was started for
    work,      \* step of each thread that launches a record
    dead,      \* those whose request to the receiver cannot be answered
    restart,   \* archiversForRestartSettings of checkForArchiveNewBlock
    main, maint, callback, \* what the other threads are at
    refs,      \* m_referenceCounter of the source, 0 when not published
    linked,    \* its receiver is there and connected
    signal,    \* m_signalExist
    watched,   \* the recorder is one of its observers
    others,    \* another consumer holds it
    wal,       \* open client operations of the write-ahead log
    event,     \* last state event sent about a recording
    down,      \* "no", or what the server crashed at
    blocks, stops, incidents, \* how often the bounded things happened
    stopAsked, \* history: recordings a client asked to stop
    disturbed  \* history: sources whose count went wrong

registryVars == <<creators, byId, lost>>
startVars    == <<futures, starting, sensorOf>>
threadVars   == <<main, maint, callback>>
sourceVars   == <<refs, linked, signal, watched, others>>
clientVars   == <<wal, stopAsked, stops>>
countVars    == <<blocks, incidents>>
vars == <<registryVars, startVars, work, dead, restart, threadVars, sourceVars,
          clientVars, event, down, countVars, disturbed>>

-----------------------------------------------------------------------------
Threads == Ids \cup {Maint}
Steps == {"none", "connect", "provider", "session", "master", "params",
          "insert", "observe", "ok", "failed"}
MainSteps == {"idle", "insert", "journal", "find", "release", "remove",
              "disconnect"}

Init ==
    /\ creators = <<>> /\ byId = {} /\ lost = {}
    /\ futures = {} /\ starting = {} /\ sensorOf = [id \in Ids |-> None]
    /\ work = [t \in Threads |-> "none"] /\ dead = {} /\ restart = <<>>
    /\ main = [step |-> "idle", id |-> None] /\ maint = "idle"
    /\ callback = [s \in Sensors |-> "idle"]
    /\ refs = [s \in Sensors |-> 0]
    /\ linked = [s \in Sensors |-> FALSE]
    /\ signal = [s \in Sensors |-> FALSE]
    /\ watched = [s \in Sensors |-> FALSE]
    /\ others = [s \in Sensors |-> FALSE]
    /\ wal = {} /\ event = [id \in Ids |-> "none"] /\ down = "no"
    /\ blocks = 0 /\ stops = 0 /\ incidents = 0
    /\ stopAsked = {} /\ disturbed = {}

Listed == {creators[i] : i \in DOMAIN creators}
Recorded(s) == {id \in Listed : sensorOf[id] = s}

(* The vector after some recordings were erased from it.                   *)
Without(gone) ==
    LET kept == {i \in DOMAIN creators : creators[i] \notin gone}
        Place(i) == Cardinality({k \in kept : k <= i})
    IN  [j \in 1 .. Cardinality(kept) |->
            creators[CHOOSE i \in kept : Place(i) = j]]

(* m_muArchiverLock is kept over another call in two places, m_sourcesLock *)
(* while the parameters of a stream are waited for.                        *)
ArchiversFree == main.step # "release" /\ maint \notin {"scan", "release"}
SourcesFree == \A t \in Threads : work[t] # "params"

(* m_newDataBlockCreation *)
NewBlock == maint = "release"

(* The recording a thread launches, and its source.                        *)
RecordOf(t) == IF t = Maint THEN Head(restart) ELSE t
SourceOf(t) == sensorOf[RecordOf(t)]

Step(t, to) == work' = [work EXCEPT ![t] = to]
Goto(step) == main' = [main EXCEPT !.step = step]

-----------------------------------------------------------------------------
(* The source manager.                                                     *)

(* connectSource: a published source is connected to again and the result  *)
(* ignored (one without a receiver may come up, counted or not, or not); a *)
(* new one comes up or fails.  The last argument is what is returned.      *)
ConnectSource(s, connected) ==
    /\ SourcesFree
    /\ refs[s] > 0 => connected
    /\ \/ /\ connected
          /\ refs' = [refs EXCEPT ![s] = @ + 1]
          /\ linked' = [linked EXCEPT ![s] = TRUE]
          /\ UNCHANGED disturbed
       \/ /\ ~ connected
          /\ UNCHANGED <<refs, linked, disturbed>>
       \/ /\ connected /\ refs[s] > 0 /\ ~ linked[s]
          /\ linked' \in {linked, [linked EXCEPT ![s] = TRUE]}
          /\ disturbed' = disturbed \cup {s}
          /\ UNCHANGED refs
    /\ UNCHANGED <<signal, watched>>

(* disconnectSource: without a receiver nothing is counted; with the last  *)
(* reference the source goes, and with it its observers.                   *)
Disconnect(s) ==
    /\ SourcesFree
    /\ IF linked[s] /\ refs[s] > 0
       THEN /\ refs' = [refs EXCEPT ![s] = @ - 1]
            /\ IF refs[s] = 1
               THEN /\ linked' = [linked EXCEPT ![s] = FALSE]
                    /\ signal' = [signal EXCEPT ![s] = FALSE]
                    /\ watched' = [watched EXCEPT ![s] = FALSE]
                    /\ dead' = dead \cup {t \in Threads : work[t] = "session"
                                                       /\ SourceOf(t) = s}
               ELSE UNCHANGED <<linked, signal, watched, dead>>
       ELSE UNCHANGED <<refs, linked, signal, watched, dead>>

OtherConsumer(s) ==
    /\ s \in Shared
    /\ others' = [others EXCEPT ![s] = ~ @]
    /\ IF others[s]
       THEN Disconnect(s) /\ UNCHANGED disturbed
       ELSE ConnectSource(s, TRUE) /\ UNCHANGED dead
    /\ UNCHANGED <<registryVars, startVars, work, restart, threadVars,
                   clientVars, event, down, countVars>>

(* A callback is made if the recorder is an observer, and comes to nothing *)
(* while a data block is changed.                                          *)
Notify(s, what) ==
    callback' = IF watched[s] /\ ~ NewBlock
                THEN [callback EXCEPT ![s] = what] ELSE callback

StreamStart(s) ==
    /\ linked[s] /\ ~ signal[s] /\ callback[s] = "idle"
    /\ signal' = [signal EXCEPT ![s] = TRUE]
    /\ Notify(s, "found")
    /\ UNCHANGED <<registryVars, startVars, work, dead, restart, main, maint,
                   refs, linked, watched, others, clientVars, event, down,
                   countVars, disturbed>>

StreamStop(s) ==
    /\ linked[s] /\ signal[s] /\ callback[s] = "idle"
    /\ incidents < MaxIncidents /\ incidents' = incidents + 1
    /\ signal' = [signal EXCEPT ![s] = FALSE]
    /\ Notify(s, "lost")
    /\ UNCHANGED <<registryVars, startVars, work, dead, restart, main, maint,
                   refs, linked, watched, others, clientVars, event, down,
                   blocks, disturbed>>

(* The receiver crashes: requests to it will not be answered.              *)
ReceiverCrash(s) ==
    /\ linked[s] /\ callback[s] = "idle"
    /\ incidents < MaxIncidents /\ incidents' = incidents + 1
    /\ linked' = [linked EXCEPT ![s] = FALSE]
    /\ signal' = [signal EXCEPT ![s] = FALSE]
    /\ disturbed' = disturbed \cup {s}
    /\ dead' = dead \cup {t \in Threads : work[t] \in {"session", "params"}
                                         /\ SourceOf(t) = s}
    /\ IF signal[s] THEN Notify(s, "crashed") ELSE UNCHANGED callback
    /\ UNCHANGED <<registryVars, startVars, work, restart, main, maint, refs,
                   watched, others, clientVars, event, down, blocks>>

(* The source brings a receiver up again by itself.                        *)
Reconnect(s) ==
    /\ refs[s] > 0 /\ ~ linked[s]
    /\ linked' = [linked EXCEPT ![s] = TRUE]
    /\ UNCHANGED <<registryVars, startVars, work, dead, restart, threadVars,
                   refs, signal, watched, others, clientVars, event, down,
                   countVars, disturbed>>

-----------------------------------------------------------------------------
(* launchRecord and ArchiveCreatorRemote::start, run by thread t.          *)

(* mutant: a launch that failed is reported as a success *)
FailsAsSuccess(t) ==
    Step(t, "ok") /\ disturbed' = disturbed \cup {SourceOf(t)}

(* getCommunicatorWithSource, then the use of what it returned: a source   *)
(* that is gone or has no receiver gives a null pointer.                   *)
GetProvider(t) ==
    /\ work[t] = "provider" /\ SourcesFree
    /\ IF linked[SourceOf(t)]
       THEN Step(t, "session") /\ UNCHANGED down
       ELSE down' = "provider" /\ UNCHANGED work
    /\ UNCHANGED <<registryVars, startVars, dead, restart, threadVars,
                   sourceVars, clientVars, event, countVars, disturbed>>

Fails(t) ==
    Step(t, "failed") /\ disturbed' = disturbed \cup {SourceOf(t)}

(* A request is answered by the thread that also makes the callbacks, but  *)
(* for crashes, which the process launcher reports.                        *)
Answered(t) == t \notin dead /\ callback[SourceOf(t)] \in {"idle", "crashed"}

(* getArchiveSessionInfo waits without a timeout; then the archive is      *)
(* marked as begun, which may fail: the source stays connected.            *)
TakeSession(t) ==
    /\ work[t] = "session" /\ Answered(t)
    /\ \/ Step(t, "master") /\ UNCHANGED disturbed
       \/ Fails(t)
    /\ UNCHANGED <<registryVars, startVars, dead, restart, threadVars,
                   sourceVars, clientVars, event, down, countVars>>

(* createMasterPlaylist asks for the parameters of the stream, under       *)
(* m_sourcesLock, and only if there is somebody to ask.                    *)
MasterPlaylist(t) ==
    /\ work[t] = "master" /\ SourcesFree
    /\ IF linked[SourceOf(t)]
       THEN Step(t, "params") /\ UNCHANGED disturbed
       ELSE \/ Step(t, "insert") /\ UNCHANGED disturbed
            \/ Fails(t)
    /\ UNCHANGED <<registryVars, startVars, dead, restart, threadVars,
                   sourceVars, clientVars, event, down, countVars>>

TakeParams(t) ==
    /\ work[t] = "params" /\ Answered(t)
    /\ \/ Step(t, "insert") /\ UNCHANGED disturbed
       \/ Fails(t)
    /\ UNCHANGED <<registryVars, startVars, dead, restart, threadVars,
                   sourceVars, clientVars, event, down, countVars>>

Insert(t) ==
    /\ work[t] = "insert" /\ ArchiversFree
    /\ creators' = Append(creators, RecordOf(t))
    /\ byId' = byId \cup {RecordOf(t)}
    /\ Step(t, IF t = Maint THEN "ok" ELSE "observe")
    /\ UNCHANGED <<lost, startVars, dead, restart, threadVars, sourceVars,
                   clientVars, event, down, countVars, disturbed>>

Launch(t) == \/ GetProvider(t) \/ TakeSession(t) \/ MasterPlaylist(t)
             \/ TakeParams(t) \/ Insert(t)

-----------------------------------------------------------------------------
(* asyncRecordingStart: connectSource, launchRecord, addSourceObserver.    *)

TaskConnect(id) ==
    /\ work[id] = "connect"
    /\ \E connected \in BOOLEAN :
          /\ ConnectSource(sensorOf[id], connected)
          /\ Step(id, IF connected THEN "provider" ELSE "failed")
    /\ UNCHANGED <<registryVars, startVars, dead, restart, threadVars, others,
                   clientVars, event, down, countVars>>

TaskObserve(id) ==
    /\ work[id] = "observe" /\ SourcesFree
    /\ watched' = [watched EXCEPT ![sensorOf[id]] = @ \/ refs[sensorOf[id]] > 0]
    /\ Step(id, "ok")
    /\ UNCHANGED <<registryVars, startVars, dead, restart, threadVars, refs,
                   linked, signal, others, clientVars, event, down, countVars,
                   disturbed>>

Task(id) == TaskConnect(id) \/ Launch(id) \/ TaskObserve(id)

-----------------------------------------------------------------------------
(* The command that starts a recording, and startRecording.                *)

(* mutant: the journal entry is left out *)
InsertInfoOnly ==
    /\ main.step = "insert"
    /\ starting' = starting \cup {main.id}
    /\ Goto("idle")
    /\ UNCHANGED <<registryVars, futures, sensorOf, work, dead, restart, maint,
                   callback, sourceVars, clientVars, event, down, countVars,
                   disturbed>>

(* isSensorAlreadyRecording looks at running recordings only.              *)
Start(id, s) ==
    /\ main.step = "idle" /\ sensorOf[id] = None
    /\ ArchiversFree /\ Recorded(s) = {}
    /\ sensorOf' = [sensorOf EXCEPT ![id] = s]
    /\ futures' = futures \cup {id}
    /\ Step(id, "connect")
    /\ main' = [step |-> "insert", id |-> id]
    /\ UNCHANGED <<registryVars, starting, dead, restart, maint, callback,
                   sourceVars, clientVars, event, down, countVars, disturbed>>

InsertInfo ==
    /\ main.step = "insert"
    /\ starting' = starting \cup {main.id}
    /\ Goto("journal")
    /\ UNCHANGED <<registryVars, futures, sensorOf, work, dead, restart, maint,
                   callback, sourceVars, clientVars, event, down, countVars,
                   disturbed>>

OpenOperation ==
    /\ main.step = "journal"
    /\ wal' = wal \cup {main.id}
    /\ Goto("idle")
    /\ UNCHANGED <<registryVars, startVars, work, dead, restart, maint,
                   callback, sourceVars, stopAsked, stops, event,
                   down, countVars, disturbed>>

-----------------------------------------------------------------------------
(* The command that stops a recording, and stopRecording.                  *)

Stop(id) ==
    /\ main.step = "idle" /\ sensorOf[id] # None /\ stops < MaxStops
    /\ stops' = stops + 1
    /\ wal' = wal \ {id}
    /\ stopAsked' = stopAsked \cup {id}
    /\ main' = [step |-> "find", id |-> id]
    /\ UNCHANGED <<registryVars, startVars, work, dead, restart, maint,
                   callback, sourceVars, event, down, countVars,
                   disturbed>>

(* Found in the map, among the starts, or nowhere.                         *)
StopFind ==
    /\ main.step = "find" /\ ArchiversFree
    /\ \/ main.id \in byId /\ Goto("remove")
       \/ main.id \notin byId /\ main.id \in starting /\ Goto("release")
       \/ main.id \notin byId \cup starting /\ Goto("idle")
    /\ UNCHANGED <<registryVars, startVars, work, dead, restart, maint,
                   callback, sourceVars, clientVars, event, down, countVars,
                   disturbed>>

(* mutant: the start is waited for, with the mutexes held *)
StopStartingWaits ==
    /\ main.step = "release" /\ main.id \notin futures
    /\ Disconnect(sensorOf[main.id])
    /\ disturbed' = disturbed \cup {sensorOf[main.id]}
    /\ Goto("idle")
    /\ UNCHANGED <<registryVars, startVars, work, restart, maint, callback,
                   others, wal, stopAsked, stops, event, down, countVars>>

(* mutant: the recording is only taken from the vector *)
StopRemoveListed ==
    /\ main.step = "remove" /\ ArchiversFree
    /\ creators' = Without({main.id})
    /\ disturbed' = IF main.id \in Listed THEN disturbed
                    ELSE disturbed \cup {sensorOf[main.id]}
    /\ Goto("disconnect")
    /\ UNCHANGED <<byId, lost, startVars, work, dead, restart, maint, callback,
                   sourceVars, clientVars, event, down, countVars>>

(* Still starting, or failed: the source is disconnected, nothing else.    *)
StopStarting ==
    /\ main.step = "release"
    /\ Disconnect(sensorOf[main.id])
    /\ disturbed' = disturbed \cup {sensorOf[main.id]}
    /\ Goto("idle")
    /\ UNCHANGED <<registryVars, startVars, work, restart, maint, callback,
                   others, wal, stopAsked, stops, event, down, countVars>>

StopRemove ==
    /\ main.step = "remove" /\ ArchiversFree
    /\ byId' = byId \ {main.id}
    /\ creators' = Without({main.id})
    /\ disturbed' = IF main.id \in Listed THEN disturbed
                    ELSE disturbed \cup {sensorOf[main.id]}
    /\ Goto("disconnect")
    /\ UNCHANGED <<lost, startVars, work, dead, restart, maint, callback,
                   sourceVars, clientVars, event, down, countVars>>

StopDisconnect ==
    /\ main.step = "disconnect"
    /\ Disconnect(sensorOf[main.id])
    /\ Goto("idle")
    /\ UNCHANGED <<registryVars, startVars, work, restart, maint, callback,
                   others, wal, stopAsked, stops, event, down, countVars,
                   disturbed>>

Command == \/ InsertInfo \/ OpenOperation
           \/ StopFind \/ StopStarting \/ StopRemove \/ StopDisconnect

-----------------------------------------------------------------------------
(* callbackVideoSourceConnection.                                          *)

(* The source was lost.  The id to erase from the map is read through a    *)
(* reference into the vector after its element was erased: by then it is   *)
(* the next creator, or, for the last one, a creator the map keeps alive   *)
(* (if it does not, its memory was freed).                                 *)
SourceLost(s) ==
    /\ callback[s] \in {"lost", "crashed"} /\ ArchiversFree
    /\ LET last == Len(creators)
           erased == {i \in 1 .. last : sensorOf[creators[i]] = s}
       IN  /\ creators' = Without(Recorded(s))
           /\ byId' = byId \ {creators[IF i = last THEN i ELSE i + 1] :
                                   i \in erased}
           /\ lost' = IF erased = {} THEN lost ELSE lost \cup {s}
           /\ event' = [id \in Ids |-> IF id \in Recorded(s) THEN "crushed"
                                       ELSE event[id]]
           /\ disturbed' = IF erased = {} THEN disturbed ELSE disturbed \cup {s}
           /\ \/ UNCHANGED down
              \/ /\ last \in erased /\ creators[last] \notin byId
                 /\ down' = "freed"
    /\ callback' = [callback EXCEPT ![s] = "idle"]
    /\ UNCHANGED <<startVars, work, dead, restart, main, maint, sourceVars,
                   clientVars, countVars>>

(* The source was found: a recording is launched for what was saved, with  *)
(* an empty source: there is no communicator with it.                      *)
SourceFound(s) ==
    /\ callback[s] = "found" /\ ArchiversFree
    /\ IF Recorded(s) = {} /\ s \in lost
       THEN down' = "restore" /\ UNCHANGED callback
       ELSE callback' = [callback EXCEPT ![s] = "idle"] /\ UNCHANGED down
    /\ UNCHANGED <<registryVars, startVars, work, dead, restart, main, maint,
                   sourceVars, clientVars, event, countVars, disturbed>>

-----------------------------------------------------------------------------
(* recordingStartFuturesMaintenance, future by future.                     *)

CollectStarted(id) ==
    /\ maint = "idle" /\ ArchiversFree
    /\ id \in futures /\ work[id] = "ok"
    /\ IF id \in byId
       THEN /\ event' = [event EXCEPT ![id] = "active"]
            /\ starting' = starting \ {id}
            /\ futures' = futures \ {id}
            /\ UNCHANGED down
       ELSE down' = "archiver" /\ UNCHANGED <<event, starting, futures>>
    /\ UNCHANGED <<registryVars, sensorOf, work, dead, restart, threadVars,
                   sourceVars, clientVars, countVars, disturbed>>

(* mutant: no event for a problem outside the archiver *)
CollectFailedSilently(id) ==
    /\ maint = "idle" /\ ArchiversFree
    /\ id \in futures /\ work[id] = "failed"
    /\ futures' = futures \ {id}
    /\ UNCHANGED <<registryVars, starting, sensorOf, work, dead, restart,
                   threadVars, sourceVars, clientVars, event, down, countVars,
                   disturbed>>

(* The entry may not be there yet; systemEnvironment was never set.        *)
CollectFailed(id) ==
    /\ maint = "idle" /\ ArchiversFree
    /\ id \in futures /\ work[id] = "failed"
    /\ futures' = futures \ {id}
    /\ event' = [event EXCEPT ![id] = "crushed"]
    /\ \/ UNCHANGED down
       \/ id \notin starting /\ down' = "entry"
       \/ down' = "environment"
    /\ UNCHANGED <<registryVars, starting, sensorOf, work, dead, restart,
                   threadVars, sourceVars, clientVars, countVars, disturbed>>

-----------------------------------------------------------------------------
(* checkForArchiveNewBlock.                                                *)

BlockBegin ==
    /\ maint = "idle" /\ ArchiversFree /\ creators # <<>> /\ blocks < MaxBlocks
    /\ maint' = "scan"
    /\ UNCHANGED <<registryVars, startVars, work, dead, restart, main,
                   callback, sourceVars, clientVars, event, down, countVars,
                   disturbed>>

(* mutant: the source is not given back *)
BlockKeepsSource ==
    /\ maint = "release" /\ SourcesFree
    /\ maint' = "scan"
    /\ UNCHANGED <<registryVars, startVars, work, dead, restart, main, callback,
                   sourceVars, clientVars, event, down, countVars, disturbed>>

(* An archive is ready: it is stopped and taken from the registry.         *)
BlockReady(id) ==
    /\ maint = "scan" /\ id \in Listed /\ blocks < MaxBlocks
    /\ blocks' = blocks + 1
    /\ creators' = Without({id}) /\ byId' = byId \ {id}
    /\ restart' = Append(restart, id)
    /\ maint' = "release"
    /\ UNCHANGED <<lost, startVars, work, dead, main, callback, sourceVars,
                   clientVars, event, down, incidents, disturbed>>

BlockDisconnect ==
    /\ maint = "release"
    /\ Disconnect(sensorOf[restart[Len(restart)]])
    /\ maint' = "scan"
    /\ UNCHANGED <<registryVars, startVars, work, restart, main, callback,
                   others, clientVars, event, down, countVars, disturbed>>

BlockEnd ==
    /\ \/ maint = "scan" /\ maint' = "restart"
       \/ maint = "restart" /\ restart = <<>> /\ maint' = "idle"
    /\ UNCHANGED <<registryVars, startVars, work, dead, restart, main,
                   callback, sourceVars, clientVars, event, down, countVars,
                   disturbed>>

(* mutant: the next recording finds the step of the last one *)
BlockLaunchedStays ==
    /\ maint = "restart" /\ work[Maint] \in {"ok", "failed"}
    /\ restart # <<>> /\ restart' = Tail(restart)
    /\ UNCHANGED <<registryVars, startVars, work, dead, threadVars, sourceVars,
                   clientVars, event, down, countVars, disturbed>>

(* A recording whose source does not come up again is forgotten.           *)
BlockConnect ==
    /\ maint = "restart" /\ restart # <<>> /\ work[Maint] = "none"
    /\ \E connected \in BOOLEAN :
          /\ ConnectSource(SourceOf(Maint), connected)
          /\ IF connected
             THEN Step(Maint, "provider") /\ UNCHANGED restart
             ELSE restart' = Tail(restart) /\ UNCHANGED work
    /\ UNCHANGED <<registryVars, startVars, dead, threadVars, others,
                   clientVars, event, down, countVars>>

BlockLaunched ==
    /\ maint = "restart" /\ work[Maint] \in {"ok", "failed"}
    /\ Step(Maint, "none")
    /\ restart' = Tail(restart)
    /\ UNCHANGED <<registryVars, startVars, dead, threadVars, sourceVars,
                   clientVars, event, down, countVars, disturbed>>

Collect(id) == CollectStarted(id) \/ CollectFailed(id)

Block == \/ BlockDisconnect \/ BlockEnd \/ BlockConnect \/ Launch(Maint)
         \/ BlockLaunched

-----------------------------------------------------------------------------
Next ==
    /\ down = "no"
    /\ \/ \E id \in Ids : \/ \E s \in Sensors : Start(id, s)
                          \/ Stop(id) \/ Task(id) \/ Collect(id)
       \/ Command
       \/ BlockBegin \/ (\E id \in Ids : BlockReady(id)) \/ Block
       \/ \E s \in Sensors : \/ OtherConsumer(s) \/ StreamStart(s)
                             \/ StreamStop(s) \/ ReceiverCrash(s)
                             \/ Reconnect(s) \/ SourceLost(s) \/ SourceFound(s)

Spec == Init /\ [][Next]_vars

(* Threads run, mutexes are obtained and receivers answer; commands, other *)
(* consumers, data blocks and what happens to streams are not forced.      *)
Fairness ==
    /\ SF_vars(down = "no" /\ Command)
    /\ SF_vars(down = "no" /\ Block)
    /\ \A id \in Ids : /\ SF_vars(down = "no" /\ Task(id))
                       /\ SF_vars(down = "no" /\ Collect(id))
    /\ \A s \in Sensors :
          SF_vars(down = "no" /\ (SourceLost(s) \/ SourceFound(s)))

FairSpec == Spec /\ Fairness

-----------------------------------------------------------------------------
TypeOK ==
    /\ creators \in Seq(Ids) /\ byId \subseteq Ids /\ lost \subseteq Sensors
    /\ futures \subseteq Ids /\ starting \subseteq Ids
    /\ sensorOf \in [Ids -> Sensors \cup {None}]
    /\ work \in [Threads -> Steps] /\ dead \subseteq Threads
    /\ restart \in Seq(Ids)
    /\ main \in [step : MainSteps, id : Ids \cup {None}]
    /\ maint \in {"idle", "scan", "release", "restart"}
    /\ callback \in [Sensors -> {"idle", "lost", "crashed", "found"}]
    /\ refs \in [Sensors -> Nat]
    /\ linked \in [Sensors -> BOOLEAN] /\ signal \in [Sensors -> BOOLEAN]
    /\ watched \in [Sensors -> BOOLEAN] /\ others \in [Sensors -> BOOLEAN]
    /\ wal \subseteq Ids /\ event \in [Ids -> {"none", "active", "crushed"}]
    /\ down \in {"no", "provider", "archiver", "entry", "environment",
                 "restore", "freed"}
    /\ blocks \in 0 .. MaxBlocks /\ stops \in 0 .. MaxStops
    /\ incidents \in 0 .. MaxIncidents
    /\ stopAsked \subseteq Ids
    /\ disturbed \subseteq Sensors
    /\ work[Maint] # "none" \/ maint = "release" => restart # <<>>

(* Two threads and the callbacks add to and take from the vector and the   *)
(* map of creators: until a source is lost they hold the same recordings,  *)
(* each once, so that what is listed can be found and stopped.             *)
RegistryAgrees ==
    lost = {} => byId = Listed /\ Len(creators) = Cardinality(Listed)

(* The recordings that have connected to source s and not given it back.   *)
Launching(t) ==
    work[t] \in {"provider", "session", "master", "params", "insert"}
Holders(s) ==
    {id \in Ids : /\ sensorOf[id] = s
                  /\ \/ id \in Listed \/ Launching(id)
                     \/ main = [step |-> "disconnect", id |-> id]
                     \/ maint = "release" /\ id = restart[Len(restart)]
                     \/ Launching(Maint) /\ id = Head(restart)}

(* Starts, stops and new data blocks in any order keep the reference count *)
(* of a source equal to what holds it.  It goes wrong in five ways only: a *)
(* crash, a lost stream, a launch that fails, a stop during the start and  *)
(* a stop that finds the recording taken away by a new data block.         *)
HoldsAreExact ==
    \A s \in Sensors \ disturbed :
        refs[s] = Cardinality(Holders(s)) + (IF others[s] THEN 1 ELSE 0)

(* The server does not crash over a pointer that is null without a cause:  *)
(* the communicator of a source only goes with its receiver or a count     *)
(* that went wrong, and a recording that started is found when its result  *)
(* is collected unless it was stopped, lost or taken by a new data block.  *)
QuietServerStaysUp ==
    /\ down = "provider" => disturbed # {}
    /\ down = "archiver" => stopAsked # {} \/ lost # {} \/ blocks > 0

(* The journal entry is opened after the start: still, what is recorded    *)
(* and was not asked to stop is resumed after a crash of the server.       *)
RunningIsJournaled ==
    \A id \in Listed : \/ id \in wal \cup stopAsked
                       \/ main.id = id /\ main.step \in {"insert", "journal"}

(* A recording hears of the loss of its source as soon as its start is     *)
(* done, whoever else comes and leaves, until the first new data block     *)
(* (after which nobody registers the recorder with the new source).        *)
WatchedUntilBlock ==
    \A id \in Listed :
        blocks = 0 /\ work[id] = "ok" /\ sensorOf[id] \notin disturbed
            => watched[sensorOf[id]]

(* What records is resumed after a crash of the server, and is told of a   *)
(* lost source, whatever happens between the steps of its start.           *)
RunningIsLookedAfter == RunningIsJournaled /\ WatchedUntilBlock

(* Somebody waits for an answer of a receiver that is gone; or holds       *)
(* m_sourcesLock and waits for a thread that waits for m_muArchiverLock,   *)
(* whose owner waits for m_sourcesLock.                                    *)
LostAnswer == \E t \in dead : work[t] \in {"session", "params"}
LockCycle == /\ main.step = "release" \/ maint = "release"
             /\ \E t \in Threads : work[t] = "params"
                                  /\ ~ Answered(t)
Halted == down # "no" \/ LostAnswer \/ LockCycle

(* Every accepted start is answered with a state event, and every command  *)
(* returns, unless the server crashed or is caught in one of these waits.  *)
StartIsReported ==
    \A id \in Ids : id \in futures ~> event[id] # "none" \/ Halted
CommandReturns == main.step # "idle" ~> main.step = "idle" \/ Halted
=============================================================================
