---------------------------- MODULE ServerLifecycle ----------------------------
(***************************************************************************)
(* video_server.cpp with the parts of the facades it starts, stops and     *)
(* deletes, the commands that start and stop analyses and recordings, and  *)
(* the write-ahead log (external) by which their operations survive the    *)
(* end of the process.                                                     *)
(*                                                                         *)
(* Threads: the main thread (init, command loop, shutdown, destructors),   *)
(* the maintenance threads of the storage engine, the recorder and the     *)
(* analytic manager, one task per start, the timer of the self shutdown,   *)
(* and whoever fills the queue of commands.  The process may be killed at  *)
(* any time.                                                               *)
(*                                                                         *)
(* A start is one step of its task here; what happens inside it, and what  *)
(* a stop does to a start in progress, is in AnalyticManager and           *)
(* VideoRecorder.  A client asks for an operation once, or again when its  *)
(* failure was reported, and stops what runs; requests carry no archiving  *)
(* id, so each start has a fresh one.                                      *)
(***************************************************************************)
EXTENDS Integers, Sequences, FiniteSets, SequencesExt

CONSTANTS Analyses,      \* operations that are start-analyze requests
          Recordings,    \* operations that are start-archive requests
          Configured,    \* those listed in INITIAL_REQUESTS
          NoOp,          \* no operation
          MaxBoots,      \* bound: launches of the process
          MaxKeys,       \* bound: processing and archiving ids
          MaxQueue       \* bound: requests that wait

Ops == Analyses \cup Recordings
Keys == 1 .. MaxKeys

ASSUME LifecycleAssumption ==
    /\ Analyses \cap Recordings = {}
    /\ NoOp \notin Ops
    /\ Configured \subseteq Ops /\ IsFiniteSet(Configured)
    /\ MaxBoots \in Nat \ {0}
    /\ MaxKeys \in Nat /\ MaxQueue \in Nat

VARIABLES
    phase,      \* what the main thread is in
    step,       \* the next step of init or of the shutdown
    byCommand,  \* the shutdown was called by CommandShutdownServer
    cmd,        \* the command being executed and the id it works on
    queue,      \* commands the gateway holds
    threads,    \* maintenance threads that run
    ending,     \* those whose shutdown flag is set
    armed,      \* the handler of SIGINT is connected
    flag,       \* m_shutdownCalled
    job,        \* the operation an id was made for in this process, and how
                \* far its start is
    journal,    \* open entries of the write-ahead log (persistent): an
                \* operation (its request) and the id of its start
    boots,
    lastExit,   \* how the process ended
    wanted,     \* operations a client was promised and has not stopped, and
                \* whose failure was not reported
    asked,      \* operations a client has asked for and did not hear failed
    stopped,    \* operations a client was told are stopped
    lost,       \* operations whose renewal ended before it began: refused, or
                \* the process ended with the command queued or half done
    leftover,   \* operations a failed start of which left an entry
    calm        \* at the begin of the shutdown nothing ran or was starting

procVars == <<phase, step, byCommand, cmd, armed, flag, threads, ending>>
histVars == <<wanted, asked, stopped, lost, leftover, calm>>
vars == <<procVars, queue, job, journal, boots, lastExit, histVars>>

-----------------------------------------------------------------------------
InitOrder == <<"environment", "gateway", "sources", "storage", "recorder",
               "analytic", "handler", "journal">>
MayFail == {"environment", "gateway", "storage", "analytic"}

(* VideoServer::shutdown, each facade's shutdown taken apart where another *)
(* thread can tell the difference.                                         *)
ShutdownOrder ==
    <<"gateway", "retranslator", "analytic", "sources", "storage", "database",
      "recorder", "archivers", "delete gateway", "delete analytic",
      "delete storage", "delete recorder", "delete sources",
      "delete environment", "launcher", "timer">>

Past(s) == /\ phase = "shutdown"
           /\ \E i \in 1 .. Len(ShutdownOrder) : ShutdownOrder[i] = s /\ i < step

AtInit(s)     == phase = "init" /\ InitOrder[step] = s
AtShutdown(s) == phase = "shutdown" /\ ShutdownOrder[step] = s

Command(kind, op, key) == [kind |-> kind, op |-> op, key |-> key]
StartCmd(op) == Command("start", op, 0)
NoCommand == Command("none", NoOp, 0)
CommandsOf(tagged) == [i \in DOMAIN tagged |-> StartCmd(tagged[i][1])]

NoJob == [op |-> NoOp, at |-> "none"]
Uncollected == {"starting", "ok", "failed"}
JobsIn(ops, states) == {k \in Keys : job[k].op \in ops /\ job[k].at \in states}
JobsOf(op) == JobsIn({op}, Uncollected \cup {"up"})

(* Operations whose start is on its way through the command loop.          *)
Pending == {queue[i].op : i \in {j \in DOMAIN queue : queue[j].kind = "start"}}
             \cup (IF cmd.kind = "start" THEN {cmd.op} ELSE {})

(* closeClientOperation *)
Close(k) == {e \in journal : e[2] # k}

Journaled == {e[1] : e \in journal}

Init ==
    /\ phase = "off" /\ step = 1 /\ byCommand = FALSE /\ cmd = NoCommand
    /\ queue = <<>> /\ threads = {} /\ ending = {}
    /\ armed = FALSE /\ flag = FALSE
    /\ job = [k \in Keys |-> NoJob]
    /\ journal = {} /\ boots = 0 /\ lastExit = "none"
    /\ wanted = {} /\ asked = Configured /\ stopped = {} /\ lost = {}
    /\ leftover = {} /\ calm = FALSE

-----------------------------------------------------------------------------
(* The process comes and goes.                                             *)

(* The constructor builds the facades; none of them does anything yet.     *)
Boot ==
    /\ phase = "off" /\ boots < MaxBoots
    /\ phase' = "init" /\ step' = 1
    /\ boots' = boots + 1
    /\ lastExit' = "none"
    /\ calm' = FALSE
    /\ UNCHANGED <<byCommand, cmd, armed, flag, threads, ending, queue,
                   job, journal, wanted, asked, stopped, lost, leftover>>

(* The process ends: memory is gone, the write-ahead log stays.            *)
Exit(how) ==
    /\ phase' = "off" /\ step' = 1 /\ byCommand' = FALSE /\ cmd' = NoCommand
    /\ queue' = <<>> /\ threads' = {} /\ ending' = {}
    /\ armed' = FALSE /\ flag' = FALSE
    /\ job' = [k \in Keys |-> NoJob]
    /\ lastExit' = how
    /\ lost' = lost \cup Pending
    /\ UNCHANGED <<journal, boots, wanted, asked, stopped, leftover, calm>>

Kill == phase # "off" /\ Exit("killed")

-----------------------------------------------------------------------------
(* VideoServer::init.                                                      *)

InitEnvironment ==
    /\ \/ AtInit("environment") \/ AtInit("sources")
    /\ step' = step + 1
    /\ UNCHANGED <<phase, byCommand, cmd, armed, flag, threads, ending,
                   queue, job, journal, boots, lastExit, histVars>>

(* mutant: the interrupted operations are not handed to the gateway *)
GatewayIgnoresJournal ==
    /\ AtInit("gateway")
    /\ \E s \in SetToSeqs({<<o, 0>> : o \in Configured}) : queue' = CommandsOf(s)
    /\ step' = step + 1
    /\ UNCHANGED <<phase, byCommand, cmd, armed, flag, threads, ending,
                   job, journal, boots, lastExit, histVars>>

(* The requests from the configuration and those from the journal are      *)
(* queued; their order is the base class's (external).                     *)
InitGateway ==
    /\ AtInit("gateway")
    /\ \E s \in SetToSeqs({<<o, 0>> : o \in Configured}
                            \cup journal) :
          queue' = CommandsOf(s)
    /\ step' = step + 1
    /\ UNCHANGED <<phase, byCommand, cmd, armed, flag, threads, ending,
                   job, journal, boots, lastExit, histVars>>

(* These three start their maintenance thread last.                        *)
InitThread ==
    /\ \E f \in {"storage", "recorder", "analytic"} :
          AtInit(f) /\ threads' = threads \cup {f}
    /\ step' = step + 1
    /\ UNCHANGED <<phase, byCommand, cmd, armed, flag, ending, queue,
                   job, journal, boots, lastExit, histVars>>

(* The shutdown begins; calm is history.                                   *)
BeginShutdown ==
    /\ phase' = "shutdown" /\ step' = 1
    /\ calm' = (JobsIn(Ops, Uncollected \cup {"up"}) = {})
    /\ UNCHANGED <<cmd, armed, flag, threads, ending, job, journal,
                   boots, lastExit, wanted, asked, stopped, lost, leftover>>

(* main returns; the destructor of VideoServer runs the whole shutdown.    *)
InitFails ==
    /\ \E f \in MayFail : AtInit(f)
    /\ BeginShutdown
    /\ UNCHANGED <<byCommand, queue>>

ConnectHandler ==
    /\ AtInit("handler")
    /\ armed' = TRUE
    /\ step' = step + 1
    /\ UNCHANGED <<phase, byCommand, cmd, flag, threads, ending, queue, job,
                   journal, boots, lastExit, histVars>>

CleanJournal ==
    /\ AtInit("journal")
    /\ journal' = {}
    /\ phase' = "loop" /\ step' = 1
    /\ UNCHANGED <<byCommand, cmd, armed, flag, threads, ending, queue,
                   job, boots, lastExit, histVars>>

-----------------------------------------------------------------------------
(* What reaches the server from outside.                                   *)

Request(c) ==
    /\ phase \in {"loop", "opening", "stopping"}
    /\ Len(queue) < MaxQueue
    /\ queue' = Append(queue, c)
    /\ UNCHANGED <<procVars, job, journal, boots, lastExit>>

ClientStarts(op) ==
    /\ op \notin asked
    /\ Request(StartCmd(op))
    /\ asked' = asked \cup {op}
    /\ UNCHANGED <<wanted, stopped, lost, leftover, calm>>

ClientStops(k) ==
    /\ job[k].at = "up" /\ job[k].op \in wanted
    /\ Request(Command("stop", job[k].op, k))
    /\ wanted' = wanted \ {job[k].op}
    /\ UNCHANGED <<asked, stopped, lost, leftover, calm>>

ClientShutsDown ==
    /\ \A i \in DOMAIN queue : queue[i].kind # "shutdown"
    /\ Request(Command("shutdown", NoOp, 0))
    /\ UNCHANGED histVars

(* SIGINT, which kills before its handler is connected, or the timer of    *)
(* the self shutdown; during the shutdown nobody reads the flag any more.  *)
Interrupt ==
    /\ armed /\ phase # "shutdown"
    /\ flag' = TRUE
    /\ UNCHANGED <<phase, step, byCommand, cmd, armed, threads, ending,
                   queue, job, journal, boots, lastExit, histVars>>

-----------------------------------------------------------------------------
(* VideoServer::launch: one command at a time.                             *)

Fetch(kind) ==
    /\ phase = "loop" /\ ~ flag
    /\ queue # <<>> /\ Head(queue).kind = kind
    /\ queue' = Tail(queue)

(* startAnalyze: isAnotherAnalyzerStarting; isAnalyzerSettingsUnique finds *)
(* no equal settings, since it compares the fresh processing id too.       *)
(* startRecording: isSensorAlreadyRecording looks at registered archivers. *)
Refused(op) ==
    \/ op \in Analyses /\ JobsIn(Analyses, Uncollected) # {}
    \/ op \in Recordings /\ JobsIn({op}, {"ok", "up"}) # {}

(* generateUniqueId: an id that no start, entry or command has.  Bound:    *)
(* MaxKeys ids at a time.                                                  *)
Unused == {k \in Keys : /\ job[k] = NoJob /\ (\A e \in journal : e[2] # k)
                        /\ \A i \in DOMAIN queue : queue[i].key # k}

ExecStart ==
    /\ Fetch("start")
    /\ Unused # {}
    /\ LET op == Head(queue).op
           id == CHOOSE k \in Unused : TRUE
       IN /\ ~ Refused(op)
          /\ job' = [job EXCEPT ![id] = [op |-> op, at |-> "starting"]]
          /\ cmd' = Command("start", op, id)
    /\ phase' = "opening"
    /\ UNCHANGED <<step, byCommand, armed, flag, threads, ending,
                   journal, boots, lastExit, histVars>>

ExecRefused ==
    /\ Fetch("start")
    /\ Refused(Head(queue).op)
    /\ lost' = IF JobsOf(Head(queue).op) = {} THEN lost \cup {Head(queue).op}
                                              ELSE lost
    /\ UNCHANGED <<procVars, job, journal, boots, lastExit, wanted, asked,
                   stopped, leftover, calm>>

(* openOperation and the response.  The start may have failed already, or  *)
(* been stopped by a client who heard of it by its event.                  *)
OpenOperation ==
    /\ phase = "opening"
    /\ journal' = journal \cup {<<cmd.op, cmd.key>>}
    /\ wanted' = IF \/ job[cmd.key] = NoJob
                    \/ Command("stop", cmd.op, cmd.key) \in ToSet(queue)
                 THEN wanted ELSE wanted \cup {cmd.op}
    /\ cmd' = NoCommand /\ phase' = "loop"
    /\ UNCHANGED <<step, byCommand, armed, flag, threads, ending, queue,
                   job, boots, lastExit, asked, stopped, lost,
                   leftover, calm>>

(* The first half of a stop: stopAnalyze, but closeClientOperation for a   *)
(* recording.                                                              *)
ExecStop ==
    /\ Fetch("stop")
    /\ LET c == Head(queue) IN
       /\ cmd' = c
       /\ IF c.op \in Analyses
          THEN job' = [job EXCEPT ![c.key] = NoJob] /\ UNCHANGED journal
          ELSE journal' = Close(c.key) /\ UNCHANGED job
    /\ phase' = "stopping"
    /\ UNCHANGED <<step, byCommand, armed, flag, threads, ending, boots, lastExit, histVars>>

(* mutant: a stopped analysis keeps its entry *)
StopKeepsEntry ==
    /\ phase = "stopping"
    /\ job' = [job EXCEPT ![cmd.key] = NoJob]
    /\ stopped' = stopped \cup {cmd.op}
    /\ cmd' = NoCommand /\ phase' = "loop"
    /\ UNCHANGED <<step, byCommand, armed, flag, threads, ending, queue,
                   journal, boots, lastExit, wanted, asked, lost, leftover, calm>>

(* The second half: closeClientOperation, or stopRecording; the response.  *)
FinishStop ==
    /\ phase = "stopping"
    /\ journal' = Close(cmd.key)
    /\ job' = [job EXCEPT ![cmd.key] = NoJob]
    /\ stopped' = stopped \cup {cmd.op}
    /\ cmd' = NoCommand /\ phase' = "loop"
    /\ UNCHANGED <<step, byCommand, armed, flag, threads, ending, queue,
                   boots, lastExit, wanted, asked, lost, leftover,
                   calm>>

ExecShutdown == Fetch("shutdown") /\ byCommand' = TRUE /\ BeginShutdown

(* launch returns and main destroys the server.                            *)
LeaveLoop ==
    /\ phase = "loop" /\ flag
    /\ BeginShutdown
    /\ UNCHANGED <<byCommand, queue>>

-----------------------------------------------------------------------------
(* Tasks and maintenance threads.                                          *)

TaskEnds(k) ==
    /\ job[k].at = "starting"
    /\ \E r \in {"ok", "failed"} : job' = [job EXCEPT ![k].at = r]
    /\ UNCHANGED <<procVars, queue, journal, boots, lastExit, histVars>>

(* mutant: the entry of a failed start is left open *)
ReportFailureOnly(k) ==
    /\ "analytic" \in threads /\ job[k].op \in Analyses /\ job[k].at = "failed"
    /\ job' = [job EXCEPT ![k] = NoJob]
    /\ wanted' = wanted \ {job[k].op}
    /\ asked' = asked \ {job[k].op}
    /\ leftover' = IF <<job[k].op, k>> \in journal THEN leftover
                                    ELSE leftover \cup {job[k].op}
    /\ UNCHANGED <<procVars, queue, journal, boots, lastExit, stopped, lost,
                   calm>>

(* checkStartResults and recordingStartFuturesMaintenance.                 *)
CollectStarted(k) ==
    /\ \/ "analytic" \in threads /\ job[k].op \in Analyses
       \/ "recorder" \in threads /\ job[k].op \in Recordings
    /\ job[k].at = "ok"
    /\ job' = [job EXCEPT ![k].at = "up"]
    /\ UNCHANGED <<procVars, queue, journal, boots, lastExit, histVars>>

CollectFailedAnalysis(k) ==
    /\ "analytic" \in threads /\ job[k].op \in Analyses /\ job[k].at = "failed"
    /\ job' = [job EXCEPT ![k] = NoJob]
    /\ journal' = Close(k)
    /\ wanted' = wanted \ {job[k].op}
    /\ asked' = asked \ {job[k].op}
    /\ leftover' = IF <<job[k].op, k>> \in journal THEN leftover
                                    ELSE leftover \cup {job[k].op}
    /\ UNCHANGED <<procVars, queue, boots, lastExit, stopped,
                   lost, calm>>

(* The event is sent, then the journal is followed through a pointer that  *)
(* VideoServer::init never set: undefined, and no way to close the entry.  *)
CollectFailedRecording(k) ==
    /\ "recorder" \in threads /\ job[k].op \in Recordings /\ job[k].at = "failed"
    /\ \/ Exit("journal")
       \/ /\ job' = [job EXCEPT ![k] = NoJob]
          /\ wanted' = wanted \ {job[k].op}
          /\ asked' = asked \ {job[k].op}
          /\ leftover' = leftover \cup {job[k].op}
          /\ UNCHANGED <<procVars, queue, journal, boots, lastExit, stopped,
                         lost, calm>>

(* threadShutdown ends the loop after the iteration at hand.               *)
ThreadEnds(t) ==
    /\ t \in threads \cap ending
    /\ threads' = threads \ {t}
    /\ UNCHANGED <<phase, step, byCommand, cmd, armed, flag, ending,
                   queue, job, journal, boots, lastExit, histVars>>

-----------------------------------------------------------------------------
(* VideoServer::shutdown.                                                  *)

(* Steps that touch nothing another thread is seen to use.                 *)
ShutdownStep ==
    /\ \E s \in {"gateway", "retranslator", "sources", "database",
                 "delete gateway", "delete storage", "delete sources",
                 "delete environment", "launcher"} : AtShutdown(s)
    /\ step' = step + 1
    /\ UNCHANGED <<phase, byCommand, cmd, armed, flag, threads, ending,
                   queue, job, journal, boots, lastExit, histVars>>

(* mutant: the flag is set but the thread is not joined *)
FlagWithoutJoin(t) ==
    /\ AtShutdown(t)
    /\ ending' = ending \cup {t} /\ step' = step + 1
    /\ UNCHANGED <<phase, byCommand, cmd, armed, flag, threads, queue,
                   job, journal, boots, lastExit, histVars>>

(* mutant: the thread is joined but not told to end *)
JoinWithoutFlag(t) ==
    /\ AtShutdown(t)
    /\ t \notin threads /\ step' = step + 1
    /\ UNCHANGED <<phase, byCommand, cmd, armed, flag, threads, ending,
                   queue, job, journal, boots, lastExit, histVars>>

(* The flag of the thread is set, then the thread is joined.               *)
StopThread(t) ==
    /\ AtShutdown(t)
    /\ IF t \notin ending THEN ending' = ending \cup {t} /\ UNCHANGED step
       ELSE t \notin threads /\ step' = step + 1 /\ UNCHANGED ending
    /\ UNCHANGED <<phase, byCommand, cmd, armed, flag, threads, queue,
                   job, journal, boots, lastExit, histVars>>

(* The registered recordings are stopped and their sources given back.     *)
StopArchivers ==
    /\ AtShutdown("archivers")
    /\ job' = [k \in Keys |-> IF k \in JobsIn(Recordings, {"ok", "up"})
                              THEN NoJob ELSE job[k]]
    /\ step' = step + 1
    /\ UNCHANGED <<phase, byCommand, cmd, armed, flag, threads, ending,
                   queue, journal, boots, lastExit, histVars>>

(* The futures of a facade are destroyed with it, which waits for tasks;   *)
(* then nobody knows their results.                                        *)
DeleteOwner(s, ops) ==
    /\ AtShutdown(s)
    /\ JobsIn(ops, {"starting"}) = {}
    /\ job' = [k \in Keys |-> IF job[k].op \in ops THEN NoJob ELSE job[k]]
    /\ step' = step + 1
    /\ UNCHANGED <<phase, byCommand, cmd, armed, flag, threads, ending,
                   queue, journal, boots, lastExit, histVars>>

DeleteAnalytic == DeleteOwner("delete analytic", Analyses)
DeleteRecorder == DeleteOwner("delete recorder", Recordings)

(* The shutdown that a command called returns into the loop, which asks    *)
(* the deleted gateway; so would a second shutdown.                        *)
ReturnToLoop == AtShutdown("timer") /\ byCommand /\ Exit("command")

(* mutant: the server is destroyed and the process goes on *)
NeverEnds ==
    /\ AtShutdown("timer") /\ ~ byCommand
    /\ step' = step + 1
    /\ UNCHANGED <<phase, byCommand, cmd, armed, flag, threads, ending,
                   queue, job, journal, boots, lastExit, histVars>>

(* m_selfShutdownFuture is the last member to wait for; it sleeps a while. *)
EndProcess ==
    /\ AtShutdown("timer") /\ ~ byCommand
    /\ Exit("clean")

-----------------------------------------------------------------------------
(* What a thread or a task follows after it was deleted.                   *)

(* mutant: every iteration of the thread uses the retranslator *)
AlwaysUsesRetranslator == "analytic" \in threads

UsesRetranslator ==
    "analytic" \in threads /\ JobsIn(Analyses, {"ok", "up"}) # {}
UsesDatabase ==
    \/ "recorder" \in threads /\ JobsIn(Recordings, {"ok", "up"}) # {}
    \/ JobsIn(Recordings, {"starting"}) # {}
    \/ "analytic" \in threads /\ JobsIn(Analyses, {"ok", "up"}) # {}
UsesGateway == JobsIn(Ops, {"starting"}) # {}
UsesBalancer == JobsIn(Analyses, {"starting"}) # {}

(* processEvents after shutdown deleted the retranslator; writeMetadata    *)
(* after destroyInstance; connectSource after the gateway was deleted;     *)
(* getVideocard while the members after the futures are already destroyed. *)
FollowDeleted ==
    \/ Past("retranslator") /\ UsesRetranslator /\ Exit("retranslator")
    \/ Past("database") /\ UsesDatabase /\ Exit("database")
    \/ Past("delete gateway") /\ UsesGateway /\ Exit("gateway")
    \/ AtShutdown("delete analytic") /\ UsesBalancer /\ Exit("balancer")

-----------------------------------------------------------------------------
InitServer == \/ InitEnvironment \/ InitGateway \/ InitThread \/ InitFails
              \/ ConnectHandler \/ CleanJournal

Loop == \/ ExecStart \/ ExecRefused \/ OpenOperation \/ ExecStop \/ FinishStop
        \/ ExecShutdown \/ LeaveLoop

Shutdown ==
    \/ ShutdownStep \/ (\E t \in {"analytic", "storage", "recorder"} : StopThread(t))
    \/ StopArchivers \/ DeleteAnalytic \/ DeleteRecorder
    \/ ReturnToLoop \/ EndProcess

Thread(k) == \/ TaskEnds(k) \/ CollectStarted(k) \/ CollectFailedAnalysis(k)
             \/ CollectFailedRecording(k)

Outside == \/ (\E o \in Ops : ClientStarts(o)) \/ (\E k \in Keys : ClientStops(k))
           \/ ClientShutsDown \/ Interrupt \/ Kill

Next ==
    \/ Boot \/ InitServer \/ Loop \/ Shutdown \/ FollowDeleted \/ Outside
    \/ \E k \in Keys : Thread(k)
    \/ \E t \in {"analytic", "storage", "recorder"} : ThreadEnds(t)

Spec == Init /\ [][Next]_vars

(* The main thread runs, a start returns and threads iterate;              *)
(* requests, signals, crashes and new processes are not forced.           *)
Fairness ==
    /\ WF_vars(InitServer) /\ WF_vars(Loop) /\ WF_vars(Shutdown)
    /\ \A k \in Keys : WF_vars(TaskEnds(k))
    /\ \A t \in {"analytic", "storage", "recorder"} : WF_vars(ThreadEnds(t))

FairSpec == Spec /\ Fairness

-----------------------------------------------------------------------------
TypeOK ==
    /\ phase \in {"off", "init", "loop", "opening", "stopping", "shutdown"}
    /\ step \in 1 .. Len(ShutdownOrder)
    /\ byCommand \in BOOLEAN /\ armed \in BOOLEAN /\ flag \in BOOLEAN
    /\ calm \in BOOLEAN
    /\ threads \subseteq {"analytic", "storage", "recorder"}
    /\ ending \subseteq {"analytic", "storage", "recorder"}
    /\ job \in [Keys -> {NoJob} \cup [op : Ops, at : Uncollected \cup {"up"}]]
    /\ journal \subseteq Ops \X Keys
    /\ boots \in 0 .. MaxBoots
    /\ wanted \cup asked \cup stopped \cup lost \subseteq Ops
    /\ leftover \subseteq Ops

(* An operation a client was promised survives every end of the process:   *)
(* it is in the write-ahead log, on its way through the command loop, or   *)
(* will come from the configuration, unless its renewal was refused or the *)
(* process ended while the renewal was still queued.                       *)
WantedIsKept ==
    wanted \ lost \subseteq Journaled \cup Pending \cup Configured

(* The log has no entries of its own: in the command loop each belongs to  *)
(* a start that is in progress, runs, or is being stopped, or to one that  *)
(* failed before the command could open its entry.                         *)
EntryHasOwner ==
    phase \in {"loop", "opening", "stopping"} =>
        \A e \in journal : \/ job[e[2]].op = e[1]
                           \/ e[1] \in leftover
                           \/ phase = "stopping" /\ cmd.key = e[2]

(* The write-ahead log holds what has to be renewed and nothing else, at   *)
(* whatever point the process ends.                                        *)
JournalIsExact == WantedIsKept /\ EntryHasOwner

(* What a client was told is stopped does not come back, neither by the    *)
(* recovery nor by a start under way, unless it is configured to or a      *)
(* failed start of it left an entry.                                       *)
StoppedStaysStopped ==
    \A o \in stopped \ (Configured \cup leftover) :
        o \notin Journaled \cup Pending /\ JobsOf(o) = {}

(* One operation has two starts or runs only when the configuration asks   *)
(* for what the log renews too, or a failed start of it left an entry.     *)
RunsOnce ==
    \A o \in Ops \ (Configured \cup leftover) : Cardinality(JobsOf(o)) <= 1

(* Whatever is deleted has no maintenance thread left that could use it,   *)
(* also after an init that failed half way; but the recorder's thread is   *)
(* still there when the sources are shut down and the database goes.       *)
ThreadsEndBeforeDeletes ==
    /\ Past("delete gateway") => threads = {}
    /\ Past("sources") => "analytic" \notin threads
    /\ Past("database") => threads \subseteq {"recorder"}

(* A server that runs nothing and is not told to by the shutdown command   *)
(* gets through its shutdown without following a deleted object.           *)
CalmShutdownIsClean ==
    lastExit \in {"retranslator", "database", "gateway", "balancer"} =>
        ~ calm

(* The signal, or the timer, ends the server, whatever it executes, starts *)
(* or waits for.                                                           *)
SignalEndsServer == (armed /\ flag) ~> (phase = "off")

(* The comment at video_server.cpp:121: the journal is cleared because the *)
(* renewal of the interrupted operations will be started with the commands.*)
(* A server that has executed them all has each promised operation in its  *)
(* log again.                                                              *)
InterruptedAreRenewed ==
    phase = "loop" /\ Pending = {} => wanted \subseteq Journaled \cup Configured
=============================================================================
