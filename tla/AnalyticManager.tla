---------------------------- MODULE AnalyticManager ----------------------------
(***************************************************************************)
(* analyze/analytic_manager_facade.cpp with the start and stop commands    *)
(* that drive it (communication/commands/analyze).                         *)
(*                                                                         *)
(* Threads: the main thread executes client commands one after another;    *)
(* every accepted start runs asyncAnalyzeStart in a std::async task; the   *)
(* maintenance thread collects the results (checkStartResults); a thread   *)
(* of a video source reports that the source was lost.  Two mutexes are    *)
(* involved: m_muStartFutures (muStart) and m_muAnalyzers (muAnalyzers).   *)
(*                                                                         *)
(* The videocards are those of VideocardBalancer, whose state this module  *)
(* shares.                                                                 *)
(***************************************************************************)
EXTENDS Integers, FiniteSets

CONSTANTS Processings, Profiles, Cards, Idxs, MaxPerCard, NoAvailableCards, None,
          Urls              \* source urls of the sensors

VARIABLES cards, byProfile, byProc, reserved, used, profileOf, analyzers,
          holding, aborted  \* see VideocardBalancer

Balancer == INSTANCE VideocardBalancer

ASSUME ManagerAssumption == Balancer!BalancerAssumption

VARIABLES
    urlOf,        \* sourceUrl in the settings of a processing
    task,         \* next step of a processing's asyncAnalyzeStart
    futures,      \* m_analyzeStartFutures: <<kind, processing>>
    failedInFuture, \* m_analyzersFailedInFuture (filled at EVERY start)
    main,         \* what the main thread does next, and for which processing
    maint,        \* the maintenance thread: the result at hand, those left
    muStart,      \* owner of m_muStartFutures between two steps
    muAnalyzers,  \* owner of m_muAnalyzers between two steps
    sourceRefs,   \* connectSource calls that succeeded minus disconnectSource
                  \* calls made for a processing
    observed,     \* urls whose source has this manager as an observer
    journal,      \* operations open in the write-ahead log
    reported,     \* state events sent to the clients, per processing
    eventProcs,   \* processings with a registered event processor
    dead          \* the server crashed on a bad pointer

balancerVars == <<cards, byProfile, byProc, reserved, used, profileOf,
                  analyzers, holding, aborted>>
startVars    == <<urlOf, task, futures, failedInFuture>>
threadVars   == <<main, maint, muStart, muAnalyzers, dead>>
effectVars   == <<sourceRefs, observed, journal, reported, eventProcs>>
vars == <<balancerVars, startVars, threadVars, effectVars>>

-----------------------------------------------------------------------------
TaskSteps == {"none", "connect", "card", "start", "register", "observe",
              "ok", "failed"}
MainSteps == {"idle", "openJournal", "stopCard", "stopRemove",
              "stopDisconnect", "stopFinish", "stopLookup", "failDisconnect",
              "failUnlock"}
MaintSteps == {"idle", "scan", "add"}
FutureKinds == {"start", "resume"}

Idle == [at |-> "idle", proc |-> None]
NoScan == [at |-> "idle", future |-> None, left |-> {}]

(* A start future is ready when its task has returned; a resume future     *)
(* only sleeps one second.                                                 *)
Ready(f) == f[1] = "resume" \/ task[f[2]] \in {"ok", "failed"}

(* The vector or the map behind m_muStartFutures is changed while the      *)
(* maintenance thread iterates: a data race that may bring the server down. *)
RaceOutcomes == IF maint.at = "idle" THEN {dead} ELSE {dead, TRUE}

(* getVideocard (a task) and returnVideocard (the main thread) change the  *)
(* balancer's maps under no common lock: while both are due they may       *)
(* overlap, with the same danger.                                          *)
BalancerOutcomes ==
    IF main.at = "stopCard" /\ (\E q \in Processings : task[q] = "card")
    THEN {dead, TRUE} ELSE {dead}

Init ==
    /\ Balancer!Init
    /\ urlOf = [p \in Processings |-> None]
    /\ task = [p \in Processings |-> "none"]
    /\ futures = {}
    /\ failedInFuture = {}
    /\ main = Idle
    /\ maint = NoScan
    /\ muStart = "free"
    /\ muAnalyzers = "free"
    /\ sourceRefs = [p \in Processings |-> 0]
    /\ observed = {}
    /\ journal = {}
    /\ reported = [p \in Processings |-> {}]
    /\ eventProcs = {}
    /\ dead = FALSE

-----------------------------------------------------------------------------
(* Main thread: CommandAnalyzeStart::exec and CommandAnalyzeStop::exec.    *)

(* mutant: one uncollected start too many is let through *)
IsAnotherOffByOne == Cardinality(futures) > 1

IsAnotherAnalyzerStarting == futures # {}

(* startAnalyze.  The settings carry a fresh processing id, which          *)
(* isAnalyzerSettingsUnique compares too, so it only takes the lock.       *)
(* isAnotherAnalyzerStarting refuses while any future is uncollected.      *)
StartAnalyze(p, u) ==
    /\ main = Idle
    /\ task[p] = "none"
    /\ muAnalyzers = "free"
    /\ muStart = "free"
    /\ ~ IsAnotherAnalyzerStarting
    /\ task' = [task EXCEPT ![p] = "connect"]
    /\ urlOf' = [urlOf EXCEPT ![p] = u]
    /\ futures' = futures \cup {<<"start", p>>}
    /\ failedInFuture' = failedInFuture \cup {p}
    /\ main' = [at |-> "openJournal", proc |-> p]
    /\ dead' \in RaceOutcomes
    /\ UNCHANGED <<balancerVars, effectVars, maint, muStart, muAnalyzers>>

(* The command opens the journal entry after startAnalyze returned, when   *)
(* the task may already have failed and been collected.                    *)
OpenJournal(p) ==
    /\ main = [at |-> "openJournal", proc |-> p]
    /\ journal' = journal \cup {p}
    /\ main' = Idle
    /\ UNCHANGED <<balancerVars, startVars, maint, muStart, muAnalyzers, dead,
                   sourceRefs, observed, reported, eventProcs>>

(* resumeAnalyze of a registered analyzer.  Bound: one uncollected resume  *)
(* future per processing.                                                  *)
ResumeAnalyze(p) ==
    /\ main = Idle
    /\ muAnalyzers = "free"
    /\ muStart = "free"
    /\ p \in analyzers
    /\ <<"resume", p>> \notin futures
    /\ futures' = futures \cup {<<"resume", p>>}
    /\ dead' \in RaceOutcomes
    /\ UNCHANGED <<balancerVars, urlOf, task, failedInFuture, main, maint,
                   muStart, muAnalyzers, effectVars>>

(* mutant: the analyzer is removed before its card is returned *)
StopRemovesFirst(p) ==
    /\ main = Idle /\ task[p] # "none" /\ muAnalyzers = "free"
    /\ main' = [at |-> IF p \in analyzers THEN "stopRemove" ELSE "stopLookup",
                proc |-> p]
    /\ UNCHANGED <<balancerVars, startVars, maint, muStart, muAnalyzers, dead,
                   effectVars>>

(* stopAnalyze: getAnalyzer under m_muAnalyzers decides the branch.        *)
StopAnalyze(p) ==
    /\ main = Idle
    /\ task[p] # "none"
    /\ muAnalyzers = "free"
    /\ main' = [at |-> IF p \in analyzers THEN "stopCard" ELSE "stopLookup",
                proc |-> p]
    /\ UNCHANGED <<balancerVars, startVars, maint, muStart, muAnalyzers, dead,
                   effectVars>>

(* "stop analyzer that runned success": analyzer->stop, returnVideocard,   *)
(* removeAnalyzer, disconnectSource, then the command closes the journal   *)
(* entry and removes the event processor.                                  *)
StopCard(p) ==
    /\ main = [at |-> "stopCard", proc |-> p]
    /\ Balancer!ReturnVideocard(p)
    /\ main' = [main EXCEPT !.at = "stopRemove"]
    /\ dead' \in BalancerOutcomes
    /\ UNCHANGED <<startVars, maint, muStart, muAnalyzers, effectVars>>

StopRemove(p) ==
    /\ main = [at |-> "stopRemove", proc |-> p]
    /\ muAnalyzers = "free"
    /\ analyzers' = analyzers \ {p}
    /\ main' = [main EXCEPT !.at = "stopDisconnect"]
    /\ UNCHANGED <<cards, byProfile, byProc, reserved, used, profileOf, holding,
                   aborted, startVars, maint, muStart, muAnalyzers, dead,
                   effectVars>>

StopDisconnect(p) ==
    /\ main = [at |-> "stopDisconnect", proc |-> p]
    /\ sourceRefs' = [sourceRefs EXCEPT ![p] = @ - 1]
    /\ main' = [main EXCEPT !.at = "stopFinish"]
    /\ UNCHANGED <<balancerVars, startVars, maint, muStart, muAnalyzers, dead,
                   observed, journal, reported, eventProcs>>

StopFinish(p) ==
    /\ main = [at |-> "stopFinish", proc |-> p]
    /\ journal' = journal \ {p}
    /\ eventProcs' = eventProcs \ {p}
    /\ main' = Idle
    /\ UNCHANGED <<balancerVars, startVars, maint, muStart, muAnalyzers, dead,
                   sourceRefs, observed, reported>>

(* mutant: the entry of the start is not erased *)
StopLookupKeeps(p) ==
    /\ main = [at |-> "stopLookup", proc |-> p] /\ muStart = "free"
    /\ main' = IF p \in failedInFuture THEN [main EXCEPT !.at = "failDisconnect"]
               ELSE Idle
    /\ UNCHANGED <<balancerVars, startVars, maint, muStart, muAnalyzers, dead,
                   effectVars>>

(* "stop analyzer that failed while starting": every start is entered in   *)
(* m_analyzersFailedInFuture, so this branch also takes starts still in    *)
(* progress.                                                               *)
StopLookup(p) ==
    /\ main = [at |-> "stopLookup", proc |-> p]
    /\ muStart = "free"
    /\ IF p \in failedInFuture
       THEN /\ failedInFuture' = failedInFuture \ {p}
            /\ main' = [main EXCEPT !.at = "failDisconnect"]
            /\ dead' \in RaceOutcomes
       ELSE main' = Idle /\ UNCHANGED <<failedInFuture, dead>>
    /\ UNCHANGED <<balancerVars, urlOf, task, futures, maint, muStart,
                   muAnalyzers, effectVars>>

(* mutant: the card is taken back as well, though the start may come up *)
FailReturnsCard(p) ==
    /\ main = [at |-> "failDisconnect", proc |-> p]
    /\ Balancer!ReturnVideocard(p)
    /\ sourceRefs' = [sourceRefs EXCEPT ![p] = @ - 1]
    /\ main' = [main EXCEPT !.at = "failUnlock"]
    /\ UNCHANGED <<startVars, maint, muStart, muAnalyzers, dead, observed,
                   journal, reported, eventProcs>>

FailDisconnect(p) ==
    /\ main = [at |-> "failDisconnect", proc |-> p]
    /\ sourceRefs' = [sourceRefs EXCEPT ![p] = @ - 1]
    /\ main' = [main EXCEPT !.at = "failUnlock"]
    /\ UNCHANGED <<balancerVars, startVars, maint, muStart, muAnalyzers, dead,
                   observed, journal, reported, eventProcs>>

(* mutant: the command closes the journal entry of a stop that failed *)
FailClosesJournal(p) ==
    /\ main = [at |-> "failUnlock", proc |-> p]
    /\ muStart' = "free" /\ main' = Idle /\ journal' = journal \ {p}
    /\ UNCHANGED <<balancerVars, startVars, maint, muAnalyzers, dead,
                   sourceRefs, observed, reported, eventProcs>>

(* The mutex was unlocked before disconnectSource and is unlocked again,   *)
(* whoever holds it now.                                                   *)
FailUnlock(p) ==
    /\ main = [at |-> "failUnlock", proc |-> p]
    /\ muStart' = "free"
    /\ main' = Idle
    /\ UNCHANGED <<balancerVars, startVars, maint, muAnalyzers, dead, effectVars>>

-----------------------------------------------------------------------------
(* The std::async task: asyncAnalyzeStart, one action per call.            *)

TaskConnect(p) ==
    /\ task[p] = "connect"
    /\ \/ /\ task' = [task EXCEPT ![p] = "card"]
          /\ sourceRefs' = [sourceRefs EXCEPT ![p] = @ + 1]
       \/ /\ task' = [task EXCEPT ![p] = "failed"]
          /\ UNCHANGED sourceRefs
    /\ UNCHANGED <<balancerVars, urlOf, futures, failedInFuture, threadVars,
                   observed, journal, reported, eventProcs>>

(* getDpfProcessorPtr takes m_muAnalyzers, only if a card has room.  When  *)
(* no card is available the task gives the source back.                    *)
TaskCard(p, prof) ==
    /\ task[p] = "card"
    /\ Balancer!OpenCards(prof) # {} => muAnalyzers = "free"
    /\ Balancer!GetVideocard(p, prof)
    /\ IF used'[p] = NoAvailableCards
       THEN /\ task' = [task EXCEPT ![p] = "failed"]
            /\ sourceRefs' = [sourceRefs EXCEPT ![p] = @ - 1]
       ELSE /\ task' = [task EXCEPT ![p] = "start"]
            /\ UNCHANGED sourceRefs
    /\ dead' \in BalancerOutcomes
    /\ UNCHANGED <<urlOf, futures, failedInFuture, main, maint, muStart,
                   muAnalyzers, observed, journal, reported, eventProcs>>

(* createAnalyzer and analyzer->start: a failure returns neither the card  *)
(* nor the source.                                                         *)
TaskStart(p) ==
    /\ task[p] = "start"
    /\ task' \in {[task EXCEPT ![p] = "register"], [task EXCEPT ![p] = "failed"]}
    /\ UNCHANGED <<balancerVars, urlOf, futures, failedInFuture, threadVars,
                   effectVars>>

TaskRegister(p) ==
    /\ task[p] = "register"
    /\ muAnalyzers = "free"
    /\ analyzers' = analyzers \cup {p}
    /\ task' = [task EXCEPT ![p] = "observe"]
    /\ UNCHANGED <<cards, byProfile, byProc, reserved, used, profileOf, holding,
                   aborted, urlOf, futures, failedInFuture, threadVars,
                   effectVars>>

TaskObserve(p) ==
    /\ task[p] = "observe"
    /\ observed' = observed \cup {urlOf[p]}
    /\ task' = [task EXCEPT ![p] = "ok"]
    /\ UNCHANGED <<balancerVars, urlOf, futures, failedInFuture, threadVars,
                   sourceRefs, journal, reported, eventProcs>>

-----------------------------------------------------------------------------
(* Maintenance thread: checkStartResults holds m_muStartFutures and visits  *)
(* every future once; those that are not ready stay for the next call.     *)

MaintLock ==
    /\ maint = NoScan
    /\ muStart = "free"
    /\ \E f \in futures : Ready(f)
    /\ muStart' = "maint"
    /\ maint' = [at |-> "scan", future |-> None, left |-> futures]
    /\ UNCHANGED <<balancerVars, startVars, main, muAnalyzers, dead, effectVars>>

(* mutant: no event when the entry of the start is gone *)
MaintFailureQuiet(p) ==
    /\ maint.at = "scan" /\ muAnalyzers = "free"
    /\ <<"start", p>> \in maint.left /\ task[p] = "failed"
    /\ maint' = [maint EXCEPT !.left = @ \ {<<"start", p>>}]
    /\ reported' = IF p \in failedInFuture
                   THEN [reported EXCEPT ![p] = @ \cup {"CRUSHED"}] ELSE reported
    /\ journal' = journal \ {p} /\ futures' = futures \ {<<"start", p>>}
    /\ UNCHANGED <<balancerVars, urlOf, task, failedInFuture, main, muStart,
                   muAnalyzers, sourceRefs, observed, eventProcs, dead>>

(* A failed start: nothing is registered, so the CRUSHED event is built    *)
(* from m_analyzersFailedInFuture.find(p)->second, which is end() when a   *)
(* stop has erased the entry; then the journal entry is closed.            *)
MaintFailure(p) ==
    /\ maint.at = "scan"
    /\ muAnalyzers = "free"
    /\ <<"start", p>> \in maint.left
    /\ task[p] = "failed"
    /\ maint' = [maint EXCEPT !.left = @ \ {<<"start", p>>}]
    /\ reported' = [reported EXCEPT ![p] = @ \cup {"CRUSHED"}]
    /\ journal' = journal \ {p}
    /\ futures' = futures \ {<<"start", p>>}
    /\ dead' \in IF p \in failedInFuture THEN {dead} ELSE {dead, TRUE}
    /\ UNCHANGED <<balancerVars, urlOf, task, failedInFuture, main, muStart,
                   muAnalyzers, sourceRefs, observed, eventProcs>>

(* A successful start or a resume: the analyzer is looked up again and     *)
(* dereferenced; it is gone if a stop has removed it meanwhile.            *)
MaintSuccess(p, kind) ==
    /\ maint.at = "scan"
    /\ muAnalyzers = "free"
    /\ <<kind, p>> \in maint.left
    /\ kind = "start" => task[p] = "ok"
    /\ IF p \in analyzers
       THEN /\ reported' = [reported EXCEPT ![p] = @ \cup {"STATE"}]
            /\ maint' = [at |-> "add", future |-> <<kind, p>>, left |-> maint.left]
            /\ UNCHANGED dead
       ELSE dead' = TRUE /\ UNCHANGED <<reported, maint>>
    /\ UNCHANGED <<balancerVars, startVars, main, muStart, muAnalyzers,
                   sourceRefs, observed, journal, eventProcs>>

(* addEventProcessor for the analyzer found before, then its entry and the *)
(* future are erased.                                                      *)
MaintAdd(p, kind) ==
    /\ maint.at = "add" /\ maint.future = <<kind, p>>
    /\ eventProcs' = eventProcs \cup {p}
    /\ failedInFuture' = failedInFuture \ {p}
    /\ futures' = futures \ {<<kind, p>>}
    /\ maint' = [at |-> "scan", future |-> None,
                  left |-> maint.left \ {<<kind, p>>}]
    /\ UNCHANGED <<balancerVars, urlOf, task, main, muStart, muAnalyzers, dead,
                   sourceRefs, observed, journal, reported>>

MaintUnlock ==
    /\ maint.at = "scan"
    /\ \A f \in maint.left : ~ Ready(f)
    /\ muStart' = "free"
    /\ maint' = NoScan
    /\ UNCHANGED <<balancerVars, startVars, main, muAnalyzers, dead, effectVars>>

-----------------------------------------------------------------------------
(* callbackVideoSourceConnection(false, u) takes m_muAnalyzers and, for    *)
(* the first analyzer of that source, calls getAnalyzerStatus, which takes *)
(* the same std::mutex: the thread waits for itself.  Without an analyzer  *)
(* of the source the callback has no effect and is not a step.             *)
SourceLost(u) ==
    /\ u \in observed
    /\ muAnalyzers = "free"
    /\ \E p \in analyzers : urlOf[p] = u
    /\ muAnalyzers' = "callback"
    /\ UNCHANGED <<balancerVars, startVars, main, maint, muStart, dead, effectVars>>

MainNext == \E p \in Processings :
    \/ \E u \in Urls : StartAnalyze(p, u)
    \/ OpenJournal(p) \/ ResumeAnalyze(p) \/ StopAnalyze(p)
    \/ StopCard(p) \/ StopRemove(p) \/ StopDisconnect(p) \/ StopFinish(p)
    \/ StopLookup(p) \/ FailDisconnect(p) \/ FailUnlock(p)

TaskNext(p) ==
    \/ TaskConnect(p)
    \/ \E prof \in Profiles : TaskCard(p, prof)
    \/ TaskStart(p) \/ TaskRegister(p) \/ TaskObserve(p)

MaintNext ==
    \/ MaintLock \/ MaintUnlock
    \/ \E p \in Processings :
          \/ MaintFailure(p)
          \/ \E kind \in FutureKinds : MaintSuccess(p, kind) \/ MaintAdd(p, kind)

Next ==
    /\ ~ dead /\ ~ aborted
    /\ \/ MainNext
       \/ \E p \in Processings : TaskNext(p)
       \/ MaintNext
       \/ \E u \in Urls : SourceLost(u)

Spec == Init /\ [][Next]_vars

(* A started task and the 10 ms loop of the maintenance thread keep        *)
(* running; connectSource is taken to return.                              *)
Fairness ==
    /\ \A p \in Processings : WF_vars(~ dead /\ ~ aborted /\ TaskNext(p))
    /\ WF_vars(~ dead /\ ~ aborted /\ MaintNext)

FairSpec == Spec /\ Fairness

-----------------------------------------------------------------------------
TypeOK ==
    /\ Balancer!TypeOK
    /\ urlOf \in [Processings -> Urls \cup {None}]
    /\ task \in [Processings -> TaskSteps]
    /\ futures \subseteq FutureKinds \X Processings
    /\ failedInFuture \subseteq Processings
    /\ main \in [at : MainSteps, proc : Processings \cup {None}]
    /\ maint \in [at : MaintSteps,
                  future : (FutureKinds \X Processings) \cup {None},
                  left : SUBSET (FutureKinds \X Processings)]
    /\ muStart \in {"free", "maint"}
    /\ muAnalyzers \in {"free", "callback"}
    /\ sourceRefs \in [Processings -> Int]
    /\ observed \subseteq Urls
    /\ journal \subseteq Processings
    /\ reported \in [Processings -> SUBSET {"STATE", "CRUSHED"}]
    /\ eventProcs \subseteq Processings
    /\ dead \in BOOLEAN

(* isAnotherAnalyzerStarting serialises the starts: two tasks are never    *)
(* inside asyncAnalyzeStart at once, so the lock-free getVideocard is not  *)
(* entered by two of them, even after a failing stop broke the mutex.      *)
Starting == {p \in Processings : task[p] \notin {"none", "ok", "failed"}}
AtMostOneStart == \A p, q \in Starting : p = q

(* A registered analyzer holds its videocard until stopAnalyze is between  *)
(* returnVideocard and removeAnalyzer for it; and only a start that failed *)
(* after getVideocard keeps a card without an analyzer.                    *)
RunningHoldsCard ==
    /\ \A p \in analyzers :
          p \in holding \/ main = [at |-> "stopRemove", proc |-> p]
    /\ \A p \in holding \ analyzers : task[p] \in {"start", "register", "failed"}

(* A registered analyzer is in the journal, so a crash of the server would *)
(* have it started again, from the end of its start command on until it is *)
(* removed.                                                                *)
RunningIsJournaled ==
    \A p \in analyzers :
        p \in journal \/ main = [at |-> "openJournal", proc |-> p]

(* A start whose outcome is not yet known to the clients still has its     *)
(* future queued: no result is collected without a state event.            *)
OutcomeIsPending ==
    \A p \in Processings :
        task[p] # "none" /\ reported[p] = {} => <<"start", p>> \in futures

(* Once an analyzer was reported running and its result is collected, its  *)
(* events reach an event processor until it is stopped.                    *)
ReportedHasEventProcessor ==
    \A p \in analyzers :
        "STATE" \in reported[p] =>
            \/ p \in eventProcs
            \/ \E kind \in FutureKinds :
                  maint.at = "add" /\ maint.future = <<kind, p>>

(* The parts of a start that follow analyzer->start(), in the command and  *)
(* in the maintenance thread, are not lost between stops and other results.*)
RunningIsComplete == RunningIsJournaled /\ ReportedHasEventProcessor

(* However often and whenever a processing is stopped, its source is given *)
(* back at most once more than it was taken (the extra one is a stop that  *)
(* comes before the task has the source, or after the task itself gave it  *)
(* back for want of a card).                                               *)
AtMostOneExtraRelease == \A p \in Processings : sourceRefs[p] \in -1 .. 1

(* Starting and stopping analyzers in any interleaving uses the balancer   *)
(* by its protocol: one request per processing, the card returned once and *)
(* only for a registered analyzer.                                         *)
UsesBalancer == Balancer!Spec

(* Every accepted start is answered with a state event, unless the server  *)
(* has crashed or the source-lost callback has locked itself out.          *)
Stuck == dead \/ aborted \/ muAnalyzers = "callback"
StartIsReported ==
    \A p \in Processings : task[p] # "none" ~> reported[p] # {} \/ Stuck

-----------------------------------------------------------------------------
(* What comments and an assertion of the code say; each is checked to be   *)
(* violated by a run of its own.                                           *)

(* analytic_manager_facade.cpp:97, "find all analyzers with same SourceURL *)
(* & notify about CRASH": the callback gets past the first such analyzer.  *)
CrashNotificationReturns == muAnalyzers # "callback"

(* videocard_balancer.cpp:48: a card that is in use has a dpf processor.   *)
UsedCardHasDpfProcessor == ~ aborted
=============================================================================
