----------------------------- MODULE VideoSource -----------------------------
(***************************************************************************)
(* datasource/video_source_remote2.cpp: one video source, that is one      *)
(* video-receiver process shared by its consumers, with the calls          *)
(* SourceManagerFacade makes on it.                                        *)
(*                                                                         *)
(* Threads: the caller of connect (the manager lets in one at a time), the *)
(* thread of attemptsCycle, the thread that repeats the connection after a *)
(* crash ("retry"), the process launcher, which reports crashes, and the   *)
(* network thread of the receiver.  The three threads that try to connect  *)
(* share makeConnectAttempt and its mutex.                                 *)
(*                                                                         *)
(* A receiver is the number of its launch.  PROCESS_LAUNCHER::close kills  *)
(* the process and leaves m_processHandle set (video_source_remote.cpp:399 *)
(* reads it afterwards).  NetworkSplitter::init is taken to succeed.       *)
(***************************************************************************)
EXTENDS Integers, FiniteSets

CONSTANTS
    Retries,       \* connectRetriesTimeoutSec: "immediately" (-1), or "limited"
                   \* (CONNECT_RETRIES_INFINITE, 0, is a limit like any other)
    RecordEnable,  \* RECORD_ENABLE
    MaxLaunches,   \* bound: receivers launched
    MaxHolders,    \* bound: consumers that hold the source at once
    MaxExtra       \* bound: disconnectSource calls by non-holders

ASSUME SourceAssumption ==
    /\ Retries \in {"immediately", "limited"}
    /\ RecordEnable \in BOOLEAN
    /\ MaxLaunches \in Nat \ {0} /\ MaxHolders \in Nat \ {0} /\ MaxExtra \in Nat

VARIABLES
    refs,         \* m_referenceCounter
    handle,       \* m_processHandle, 0 for nullptr
    link,         \* receiver m_remoteSourceCommunicator is connected to, or 0
    signal,       \* m_signalExist
    startArrived, \* m_streamStartEventArrived
    exhausted,    \* m_attemptsExhausted
    cycleActive,  \* m_attemptsCycleActive
    interrupt,    \* m_interruptAttempts
    attempt,      \* step of makeConnectAttempt each thread is at
    mutex,        \* owner of m_mutexAttemptArea
    asked,        \* receiver the stream info was requested from, or 0
    answered,     \* m_callbackMsgStreamData is not empty
    conn,         \* the caller inside connect()
    cycle,        \* step of attemptsCycle
    net,          \* the network thread inside the ET_STREAM_START handler
    launcher,     \* "blocked" while it waits for a retry to finish
    notices,      \* crashes the launcher has not reported yet
    observing,    \* registered as an observer of PROCESS_LAUNCHER
    launches, alive, \* receivers launched so far, those running
    wal,          \* open process events of the write-ahead log
    inTransition, published, \* the manager's map and vector
    holders,      \* connectSource calls that succeeded minus disconnects
    extra         \* disconnectSource calls made by non-holders

objectVars   == <<refs, handle, link, signal, startArrived, exhausted,
                  cycleActive, interrupt>>
attemptVars  == <<attempt, mutex, asked, answered>>
threadVars   == <<conn, cycle, net, launcher>>
processVars  == <<notices, observing, launches, alive, wal>>
managerVars  == <<inTransition, published, holders, extra>>
vars == <<objectVars, attemptVars, threadVars, processVars, managerVars>>

-----------------------------------------------------------------------------
Threads == {"connect", "cycle", "retry"}
AttemptSteps == {"none", "lock", "launch", "establish", "check", "wait", "ask",
                 "answer", "ok", "failed"}
Receivers == 1 .. MaxLaunches

Init ==
    /\ refs = 0 /\ handle = 0 /\ link = 0
    /\ signal = FALSE /\ startArrived = FALSE
    /\ exhausted = FALSE /\ cycleActive = FALSE /\ interrupt = FALSE
    /\ attempt = [t \in Threads |-> "none"]
    /\ mutex = "free" /\ asked = 0 /\ answered = FALSE
    /\ conn = "new" /\ cycle = "none" /\ net = "idle" /\ launcher = "free"
    /\ notices = {} /\ observing = FALSE
    /\ launches = 0 /\ alive = {} /\ wal = {}
    /\ inTransition = FALSE /\ published = FALSE
    /\ holders = 0 /\ extra = 0

(* The manager's map and vector and the creator have let go of the object: *)
(* its destructor has set m_shutdownCalled and waits for its futures.  Its *)
(* own disconnect finds m_referenceCounter at 0 and does nothing.          *)
ShutdownCalled == conn = "idle" /\ ~ inTransition /\ ~ published

Step(t, to) == attempt' = [attempt EXCEPT ![t] = to]

(* mutant: the mutex stays locked *)
FinishKeepsMutex(t, result) == Step(t, result) /\ mutex' = mutex

(* makeConnectAttempt returns: the lock guard releases the mutex.          *)
Finish(t, result) == Step(t, result) /\ mutex' = "free"

-----------------------------------------------------------------------------
(* makeConnectAttempt, run by thread t.                                    *)

AttemptLock(t) ==
    /\ attempt[t] = "lock" /\ mutex = "free"
    /\ mutex' = t
    /\ Step(t, "launch")
    /\ UNCHANGED <<objectVars, asked, answered, threadVars, processVars,
                   managerVars>>

(* mutant: a receiver is launched though one is there *)
LaunchAlways(t) ==
    /\ attempt[t] = "launch" /\ launcher = "free"
    /\ observing' = TRUE
    /\ launches < MaxLaunches /\ launches' = launches + 1
    /\ handle' = launches'
    /\ alive' = alive \cup {launches'} /\ wal' = wal \cup {launches'}
    /\ Step(t, "establish")
    /\ UNCHANGED <<refs, link, signal, startArrived, exhausted, cycleActive,
                   interrupt, mutex, asked, answered, notices, threadVars,
                   managerVars>>

(* launchSourceProcess.  The task is carried out by the launcher thread,   *)
(* for which this one busy-waits.                                          *)
LaunchProcess(t) ==
    /\ attempt[t] = "launch"
    /\ IF handle # 0
       THEN /\ Step(t, "establish")
            /\ UNCHANGED <<mutex, handle, processVars>>
       ELSE /\ launcher = "free"
            /\ observing' = TRUE
            /\ \/ /\ launches < MaxLaunches
                  /\ launches' = launches + 1
                  /\ handle' = launches'
                  /\ alive' = alive \cup {launches'}
                  /\ wal' = wal \cup {launches'}
                  /\ Step(t, "establish")
                  /\ UNCHANGED mutex
               \/ /\ Finish(t, "failed")
                  /\ UNCHANGED <<handle, launches, alive, wal>>
            /\ UNCHANGED notices
    /\ UNCHANGED <<refs, link, signal, startArrived, exhausted, cycleActive,
                   interrupt, asked, answered, threadVars, managerVars>>

(* establishCommunicationWithProcess: the socket is found by the url.      *)
Establish(t) ==
    /\ attempt[t] = "establish"
    /\ \/ link # 0 /\ Step(t, "check") /\ UNCHANGED <<link, mutex>>
       \/ link = 0 /\ link' \in alive /\ Step(t, "check") /\ UNCHANGED mutex
       \/ link = 0 /\ Finish(t, "failed") /\ UNCHANGED link
    /\ UNCHANGED <<refs, handle, signal, startArrived, exhausted, cycleActive,
                   interrupt, asked, answered, threadVars, processVars,
                   managerVars>>

(* waitForStreamStartEvent: a start event that came before the wait only   *)
(* makes it skip the wait.                                                 *)
CheckSignal(t) ==
    /\ attempt[t] = "check"
    /\ \/ signal /\ Finish(t, "ok")
       \/ /\ ~ signal
          /\ Step(t, IF RecordEnable /\ ~ startArrived THEN "wait" ELSE "ask")
          /\ UNCHANGED mutex
    /\ UNCHANGED <<objectVars, asked, answered, threadVars, processVars,
                   managerVars>>

WaitStart(t) ==
    /\ attempt[t] = "wait"
    /\ IF startArrived
       THEN startArrived' = FALSE /\ Finish(t, "ok")
       ELSE Step(t, "ask") /\ UNCHANGED <<startArrived, mutex>>
    /\ UNCHANGED <<refs, handle, link, signal, exhausted, cycleActive,
                   interrupt, asked, answered, threadVars, processVars,
                   managerVars>>

(* getStreamParameters: the wait for the answer has no timeout.            *)
Ask(t) ==
    /\ attempt[t] = "ask"
    /\ IF link = 0
       THEN Finish(t, "failed") /\ UNCHANGED <<asked, answered>>
       ELSE /\ asked' = link /\ answered' = FALSE
            /\ Step(t, "answer")
            /\ UNCHANGED mutex
    /\ UNCHANGED <<objectVars, threadVars, processVars, managerVars>>

(* The caps in the answer may be empty.                                    *)
TakeAnswer(t) ==
    /\ attempt[t] = "answer" /\ answered
    /\ \E result \in {"ok", "failed"} : Finish(t, result)
    /\ UNCHANGED <<objectVars, asked, answered, threadVars, processVars,
                   managerVars>>

Attempt(t) ==
    \/ AttemptLock(t) \/ LaunchProcess(t) \/ Establish(t) \/ CheckSignal(t)
    \/ WaitStart(t) \/ Ask(t) \/ TakeAnswer(t)

(* mutant: the process is not closed *)
DestroyKeepsProcess ==
    link' = 0 /\ wal' = wal \ {handle} /\ alive' = alive /\ observing' = FALSE

(* destroyRecources: m_processHandle and m_signalExist keep their values.  *)
DestroyRecources ==
    /\ link' = 0
    /\ wal' = wal \ {handle}
    /\ alive' = alive \ {handle}
    /\ observing' = FALSE

-----------------------------------------------------------------------------
(* SourceManagerFacade::connectSource and VideoSourceRemote2::connect.     *)

(* connect returns to connectSource.  The creator publishes the source, or *)
(* leaves it in m_videoSourcesInTransitionState; for a published source    *)
(* the result is ignored.                                                  *)
Return(result) ==
    /\ conn' = "idle"
    /\ IF result \/ published
       THEN /\ published' = TRUE
            /\ inTransition' = (inTransition /\ published)
            /\ holders' = holders + 1
       ELSE UNCHANGED <<published, inTransition, holders>>
    /\ UNCHANGED extra

(* The first consumer creates the source.                                  *)
Create ==
    /\ conn = "new"
    /\ inTransition' = TRUE
    /\ conn' = "attempt"
    /\ Step("connect", "lock")
    /\ UNCHANGED <<objectVars, mutex, asked, answered, cycle, net, launcher,
                   processVars, published, holders, extra>>

(* Later consumers connect to it again, under m_sourcesLock.               *)
Share ==
    /\ published /\ conn = "idle" /\ holders < MaxHolders
    /\ IF handle # 0
       THEN /\ refs' = refs + 1
            /\ Return(TRUE)
            /\ UNCHANGED attempt
       ELSE /\ conn' = "attempt"
            /\ Step("connect", "lock")
            /\ UNCHANGED <<refs, managerVars>>
    /\ UNCHANGED <<handle, link, signal, startArrived, exhausted, cycleActive,
                   interrupt, mutex, asked, answered, cycle, net, launcher,
                   processVars>>

(* mutant: the first consumer is not counted *)
ConnectOkUncounted ==
    /\ conn = "attempt" /\ attempt["connect"] = "ok"
    /\ Return(TRUE) /\ Step("connect", "none")
    /\ UNCHANGED <<objectVars, mutex, asked, answered, cycle, net, launcher,
                   processVars>>

ConnectOk ==
    /\ conn = "attempt" /\ attempt["connect"] = "ok"
    /\ refs' = refs + 1
    /\ Return(TRUE)
    /\ Step("connect", "none")
    /\ UNCHANGED <<handle, link, signal, startArrived, exhausted, cycleActive,
                   interrupt, mutex, asked, answered, cycle, net, launcher,
                   processVars>>

(* The first attempt failed: give up, or start the cycle of attempts (the  *)
(* assignment to the future waits for an earlier cycle).                   *)
ConnectFailed ==
    /\ conn = "attempt" /\ attempt["connect"] = "failed"
    /\ Step("connect", "none")
    /\ IF Retries = "immediately"
       THEN Return(FALSE) /\ UNCHANGED <<interrupt, cycle>>
       ELSE /\ cycle = "none"
            /\ interrupt' = FALSE
            /\ cycle' = "begin"
            /\ conn' = "spin"
            /\ UNCHANGED managerVars
    /\ UNCHANGED <<refs, handle, link, signal, startArrived, exhausted,
                   cycleActive, mutex, asked, answered, net, launcher,
                   processVars>>

(* The busy loop of connect; a source that came up this way is not counted. *)
SpinEnds ==
    /\ conn = "spin"
    /\ signal \/ exhausted \/ interrupt
    /\ Return(signal)
    /\ UNCHANGED <<objectVars, attemptVars, cycle, net, launcher, processVars>>

-----------------------------------------------------------------------------
(* attemptsCycle.                                                          *)

CycleBegin ==
    /\ cycle = "begin"
    /\ cycle' = "test" /\ cycleActive' = TRUE
    /\ UNCHANGED <<refs, handle, link, signal, startArrived, exhausted,
                   interrupt, attemptVars, conn, net, launcher, processVars,
                   managerVars>>

(* The loop condition holds: one more attempt.                             *)
CycleAgain ==
    /\ cycle = "test"
    /\ ~ signal /\ ~ interrupt /\ ~ ShutdownCalled
    /\ Step("cycle", "lock")
    /\ cycle' = "attempt"
    /\ UNCHANGED <<objectVars, mutex, asked, answered, conn, net, launcher,
                   processVars, managerVars>>

CycleLeave ==
    /\ cycle = "test"
    /\ signal \/ interrupt \/ ShutdownCalled
    /\ cycle' = "end"
    /\ UNCHANGED <<objectVars, attemptVars, conn, net, launcher, processVars,
                   managerVars>>

(* The time is over, which it may be at any test.                          *)
CycleTimeUp ==
    /\ cycle = "test"
    /\ exhausted' = TRUE
    /\ cycle' = "clean"
    /\ UNCHANGED <<refs, handle, link, signal, startArrived, cycleActive,
                   interrupt, attemptVars, conn, net, launcher, processVars,
                   managerVars>>

CycleResult ==
    /\ cycle = "attempt" /\ attempt["cycle"] \in {"ok", "failed"}
    /\ cycle' = IF attempt["cycle"] = "ok" THEN "end" ELSE "test"
    /\ Step("cycle", "none")
    /\ UNCHANGED <<objectVars, mutex, asked, answered, conn, net, launcher,
                   processVars, managerVars>>

(* The clock is read again after the loop.                                 *)
CycleEnd ==
    /\ cycle = "end"
    /\ exhausted' \in {exhausted, TRUE}
    /\ cycle' = "clean"
    /\ UNCHANGED <<refs, handle, link, signal, startArrived, cycleActive,
                   interrupt, attemptVars, conn, net, launcher, processVars,
                   managerVars>>

CycleClean ==
    /\ cycle = "clean"
    /\ cycle' = "none" /\ cycleActive' = FALSE
    /\ IF signal
       THEN UNCHANGED <<link, wal, alive, observing>>
       ELSE DestroyRecources
    /\ UNCHANGED <<refs, handle, signal, startArrived, exhausted, interrupt,
                   attemptVars, conn, net, launcher, notices, launches,
                   managerVars>>

-----------------------------------------------------------------------------
(* SourceManagerFacade::disconnectSource and VideoSourceRemote2::disconnect. *)

(* mutant: a disconnect that nothing was counted for is not turned away *)
DisconnectUncounted ==
    /\ interrupt' = (interrupt \/ cycleActive)
    /\ IF handle = 0
       THEN UNCHANGED <<refs, link, wal, alive, observing>>
       ELSE refs' = refs - 1 /\ DestroyRecources

(* mutant: the last reference is not told from the others *)
DisconnectAlways ==
    /\ interrupt' = (interrupt \/ cycleActive)
    /\ IF handle = 0 \/ refs = 0
       THEN UNCHANGED <<refs, link, wal, alive, observing>>
       ELSE refs' = refs - 1 /\ DestroyRecources

(* VideoSourceRemote2::disconnect.  What it sends to the receiver has no    *)
(* effect on this state.                                                   *)
Disconnect ==
    /\ interrupt' = (interrupt \/ cycleActive)
    /\ \/ /\ handle = 0 \/ refs = 0
          /\ UNCHANGED <<refs, link, wal, alive, observing>>
       \/ /\ handle # 0 /\ refs > 1
          /\ refs' = refs - 1
          /\ UNCHANGED <<link, wal, alive, observing>>
       \/ /\ handle # 0 /\ refs = 1
          /\ refs' = 0
          /\ DestroyRecources

(* By a consumer that holds the source or, as stopAnalyze may do, by one   *)
(* that does not.  A source is never published and in transition at once.  *)
(* m_sourcesLock keeps the call out while a published source is connected. *)
DisconnectSource ==
    /\ conn # "new"
    /\ published => conn = "idle"
    /\ \/ holders > 0 /\ holders' = holders - 1 /\ UNCHANGED extra
       \/ extra < MaxExtra /\ extra' = extra + 1 /\ UNCHANGED holders
    /\ IF published \/ inTransition
       THEN /\ Disconnect
            /\ published' = (published /\ refs' # 0)
            /\ inTransition' = FALSE
       ELSE UNCHANGED <<refs, interrupt, link, wal, alive, observing, published,
                        inTransition>>
    /\ UNCHANGED <<handle, signal, startArrived, exhausted, cycleActive,
                   attemptVars, threadVars, notices, launches>>

-----------------------------------------------------------------------------
(* callbackNetworkRequest: the ET_STREAM_START handler sets two flags.     *)

StreamStart ==
    /\ link \in alive /\ net = "idle"
    /\ startArrived' = TRUE
    /\ net' = "start"
    /\ UNCHANGED <<refs, handle, link, signal, exhausted, cycleActive,
                   interrupt, attemptVars, conn, cycle, launcher, processVars,
                   managerVars>>

StreamStartSignal ==
    /\ net = "start"
    /\ signal' = TRUE
    /\ net' = "idle"
    /\ UNCHANGED <<refs, handle, link, startArrived, exhausted, cycleActive,
                   interrupt, attemptVars, conn, cycle, launcher, processVars,
                   managerVars>>

StreamStop ==
    /\ link \in alive /\ net = "idle" /\ signal
    /\ signal' = FALSE
    /\ UNCHANGED <<refs, handle, link, startArrived, exhausted, cycleActive,
                   interrupt, attemptVars, threadVars, processVars, managerVars>>

(* AT_STREAMDATA: the answer to the request of getStreamParameters.        *)
ReceiverAnswer ==
    /\ link \in alive /\ asked = link /\ ~ answered
    /\ \E t \in Threads : attempt[t] = "answer"
    /\ answered' = TRUE
    /\ UNCHANGED <<objectVars, attempt, mutex, asked, threadVars, processVars,
                   managerVars>>

-----------------------------------------------------------------------------
(* A receiver crashes; the launcher thread reports it to its observers.    *)

ReceiverCrash(r) ==
    /\ r \in alive
    /\ alive' = alive \ {r}
    /\ notices' = notices \cup {r}
    /\ UNCHANGED <<objectVars, attemptVars, threadVars, observing, launches, wal,
                   managerVars>>

(* callbackProcessCrashed.  The assignment to the future of the retry      *)
(* waits for an earlier retry: the launcher is blocked meanwhile, and the  *)
(* new retry queues for the mutex.                                         *)
CrashNotice(r) ==
    /\ launcher = "free" /\ r \in notices
    /\ notices' = notices \ {r}
    /\ IF observing /\ ~ ShutdownCalled
       THEN /\ link' = 0 /\ handle' = 0 /\ signal' = FALSE
            /\ wal' = wal \ {r}
            /\ IF ~ cycleActive /\ Retries # "immediately"
               THEN IF attempt["retry"] = "none"
                    THEN Step("retry", "lock") /\ UNCHANGED launcher
                    ELSE launcher' = "blocked" /\ UNCHANGED attempt
               ELSE UNCHANGED <<attempt, launcher>>
       ELSE UNCHANGED <<link, handle, signal, wal, attempt, launcher>>
    /\ UNCHANGED <<refs, startArrived, exhausted, cycleActive, interrupt, mutex,
                   asked, answered, conn, cycle, net, observing, launches,
                   alive, managerVars>>

RetryResult ==
    /\ attempt["retry"] \in {"ok", "failed"}
    /\ Step("retry", IF launcher = "blocked" THEN "lock" ELSE "none")
    /\ launcher' = "free"
    /\ UNCHANGED <<objectVars, mutex, asked, answered, conn, cycle, net,
                   processVars, managerVars>>

-----------------------------------------------------------------------------
Connect == Create \/ Share \/ ConnectOk \/ ConnectFailed \/ SpinEnds

Cycle == \/ CycleBegin \/ CycleAgain \/ CycleLeave \/ CycleResult \/ CycleEnd
         \/ CycleClean

Next ==
    \/ Connect \/ DisconnectSource
    \/ \E t \in Threads : Attempt(t)
    \/ Cycle \/ CycleTimeUp
    \/ StreamStart \/ StreamStartSignal \/ StreamStop \/ ReceiverAnswer
    \/ \E r \in Receivers : ReceiverCrash(r) \/ CrashNotice(r)
    \/ RetryResult

Spec == Init /\ [][Next]_vars

(* Threads run, the launcher reports crashes and a living receiver answers; *)
(* consumers, stream events and crashes are not forced.  The clock passes  *)
(* the limit of the cycle, whose every attempt takes a second.             *)
Fairness ==
    /\ WF_vars(ConnectOk \/ ConnectFailed \/ SpinEnds)
    /\ \A t \in Threads : SF_vars(Attempt(t))
    /\ WF_vars(Cycle) /\ SF_vars(CycleTimeUp)
    /\ WF_vars(StreamStartSignal) /\ WF_vars(ReceiverAnswer)
    /\ \A r \in Receivers : WF_vars(CrashNotice(r))
    /\ WF_vars(RetryResult)

FairSpec == Spec /\ Fairness

-----------------------------------------------------------------------------
TypeOK ==
    /\ refs \in Nat /\ handle \in Receivers \cup {0} /\ link \in Receivers \cup {0}
    /\ signal \in BOOLEAN /\ startArrived \in BOOLEAN /\ exhausted \in BOOLEAN
    /\ cycleActive \in BOOLEAN /\ interrupt \in BOOLEAN
    /\ attempt \in [Threads -> AttemptSteps]
    /\ mutex \in Threads \cup {"free"}
    /\ asked \in Receivers \cup {0} /\ answered \in BOOLEAN
    /\ conn \in {"new", "idle", "attempt", "spin"}
    /\ cycle \in {"none", "begin", "test", "attempt", "end", "clean"}
    /\ net \in {"idle", "start"} /\ launcher \in {"free", "blocked"}
    /\ notices \subseteq Receivers /\ observing \in BOOLEAN
    /\ launches \in 0 .. MaxLaunches
    /\ alive \subseteq Receivers /\ wal \subseteq Receivers
    /\ inTransition \in BOOLEAN /\ published \in BOOLEAN
    /\ holders \in 0 .. MaxHolders /\ extra \in 0 .. MaxExtra

(* Three threads may launch the receiver of a source, and crashes, aborted *)
(* connections and cycles tear it down: never do two of them run, so the   *)
(* control socket, which is named by the url alone, has one owner.         *)
AtMostOneReceiver == \A r, q \in alive : r = q

(* The write-ahead log knows every running receiver, so it can be killed   *)
(* after a crash of the server; and it forgets a receiver that is gone,    *)
(* unless the crash is still to be reported.                               *)
LogFollowsReceivers ==
    /\ alive \subseteq wal
    /\ ShutdownCalled \/ wal \ alive \subseteq notices

(* Somebody waits for an answer that cannot come any more.                 *)
LostWaiter ==
    \E t \in Threads : /\ attempt[t] = "answer" /\ ~ answered
                       /\ asked # link \/ asked \notin alive

(* The busy loop of connect has nobody left to end it.                     *)
LostSpin ==
    /\ conn = "spin" /\ cycle = "none" /\ net = "idle"
    /\ ~ (signal \/ exhausted \/ interrupt)

(* The launcher waits for a retry, which waits for the launcher or for the *)
(* mutex of a thread that does.                                            *)
LauncherDeadlock ==
    launcher = "blocked" /\ handle = 0 /\ \E t \in Threads : attempt[t] = "launch"

(* connect returns, whatever happens to the receivers meanwhile, but for   *)
(* these three traps: any other way to hang would be a new one.            *)
ConnectReturns ==
    conn \in {"attempt", "spin"} ~>
        conn = "idle" \/ LostWaiter \/ LostSpin \/ LauncherDeadlock

(* Without retries, until a crash is handled, the count is the number of   *)
(* consumers in whatever order they come and leave ...                     *)
Undisturbed == launches = 1 /\ handle # 0 /\ extra = 0
CountIsExact == Undisturbed /\ published => refs = holders

(* ... so no receiver is closed under a consumer: it only disappears by    *)
(* crashing or when the last consumer leaves.                              *)
ReceiverKeptForHolders ==
    [][\A r \in alive \ alive' :
          Undisturbed => r \in notices' \/ holders' = 0 \/ extra' > 0]_vars

=============================================================================
