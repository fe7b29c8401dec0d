---------------------------- MODULE StorageEngine ----------------------------
(***************************************************************************)
(* The videos of detected objects: storage/storage_engine_facade.cpp (the  *)
(* event processors and their maintenance thread), video_assembler.cpp and *)
(* visitor_internal_event.cpp, with what drives them in the analytic       *)
(* manager: its maintenance thread (processEvents, checkStartResults), the *)
(* plugins, and the commands.  A plugin reports that an object disappeared;*)
(* the assembler of the processing asks the video-receiver of the source   *)
(* for the recorded fragment; the answer comes from the network thread;    *)
(* the thread of the storage engine writes it to the object.               *)
(*                                                                         *)
(* m_muVideoAsm is held by each step on the assemblers, m_muAnalyzers by   *)
(* processEvents as a whole.  A task id stands for its request, its answer *)
(* and the fragment.  Events are sets of objects.                          *)
(***************************************************************************)
EXTENDS Integers

CONSTANTS
    Processings, \* processing ids, each used for one start
    ObjectIds,   \* objects the plugins detect
    MaxTasks,    \* bound: task ids generated
    MaxResults   \* bound: results of one processing not collected yet

ASSUME StorageAssumption == MaxTasks \in Nat /\ MaxResults \in Nat

VARIABLES
    assemblers, \* processings that have an entry in m_videoAssemblers
    byObject,   \* m_assembledVideosByObjectId: task of each object, or 0
    byTask,     \* m_assembledVideosByTaskId: its task ids
    ready,      \* tasks whose SAssembledVideo is ready
    last,       \* task ids generated so far
    asked,      \* tasks the receivers have not answered yet
    stored,     \* task whose fragment is written to each object, or 0
    fresh,      \* processings that were not started yet
    analyzers,  \* m_analyzersByProcessingId
    results,    \* results of starts and resumes in m_analyzeStartFutures
    events,     \* m_accumulatedEvents of each analyzer
    batch,      \* processEvents: the objects left to do of the analyzer
    collecting, \* checkStartResults: its step for the analyzer
    stopping,   \* processing between stopAnalyze and removeEventProcessor
    down        \* the server crashed

videoVars == <<assemblers, byObject, byTask, ready, last, asked, stored>>
managerVars == <<fresh, analyzers, results, events, batch, collecting, stopping>>
vars == <<videoVars, managerVars, down>>

NoVideos == [o \in ObjectIds |-> 0]
NoEvents == [p \in Processings |-> {}]
NoneCollects == [p \in Processings |-> "none"]
Tasks == 1 .. MaxTasks

Init ==
    /\ assemblers = {} /\ byObject = [p \in Processings |-> NoVideos]
    /\ byTask = [p \in Processings |-> {}]
    /\ ready = {} /\ last = 0 /\ asked = {}
    /\ stored = [o \in ObjectIds |-> 0]
    /\ fresh = Processings /\ analyzers = {}
    /\ results = [p \in Processings |-> 0]
    /\ events = NoEvents
    /\ batch = NoEvents /\ collecting = NoneCollects
    /\ stopping = {} /\ down = FALSE

(* The process dies: what is left is what was written.                     *)
Crash ==
    /\ down' = TRUE
    /\ assemblers' = {} /\ byObject' = [p \in Processings |-> NoVideos]
    /\ byTask' = [p \in Processings |-> {}]
    /\ ready' = {} /\ asked' = {}
    /\ fresh' = {} /\ analyzers' = {}
    /\ results' = [p \in Processings |-> 0]
    /\ events' = NoEvents
    /\ batch' = NoEvents /\ collecting' = NoneCollects /\ stopping' = {}
    /\ UNCHANGED <<last, stored>>

-----------------------------------------------------------------------------
(* Starts and resumes, and the plugins.                                    *)

(* asyncAnalyzeStart succeeds; m_muAnalyzers is free.                      *)
StartSucceeds(p) ==
    /\ ~ down /\ batch = NoEvents /\ p \in fresh
    /\ fresh' = fresh \ {p}
    /\ analyzers' = analyzers \cup {p}
    /\ results' = [results EXCEPT ![p] = 1]
    /\ UNCHANGED <<videoVars, events, batch, collecting, stopping, down>>

(* resumeAnalyze: its result is handled like that of a start.              *)
ResumeAnalyze(p) ==
    /\ ~ down /\ batch = NoEvents /\ p \in analyzers /\ stopping = {}
    /\ results[p] < MaxResults
    /\ results' = [results EXCEPT ![p] = @ + 1]
    /\ UNCHANGED <<videoVars, fresh, analyzers, events, batch, collecting,
                   stopping, down>>

(* callbackEventFromSink.                                                  *)
ObjectDisappears(p, o) ==
    /\ ~ down /\ p \in analyzers /\ o \notin events[p] /\ last < MaxTasks
    /\ events' = [events EXCEPT ![p] = @ \cup {o}]
    /\ UNCHANGED <<videoVars, fresh, analyzers, results, batch, collecting,
                   stopping, down>>

-----------------------------------------------------------------------------
(* The maintenance thread of the analytic manager: processEvents.          *)

(* getAccumulatedEvents.  Without an assembler the events are dropped.     *)
TakeEvents(p) ==
    /\ ~ down /\ batch = NoEvents /\ collecting = NoneCollects
    /\ p \in analyzers /\ events[p] # {}
    /\ batch' = [batch EXCEPT ![p] = IF p \in assemblers THEN events[p]
                                                         ELSE {}]
    /\ events' = [events EXCEPT ![p] = {}]
    /\ UNCHANGED <<videoVars, fresh, analyzers, results, collecting, stopping,
                   down>>

Running(p, o) == ~ down /\ o \in batch[p]

Handled(p, o) == batch' = [batch EXCEPT ![p] = @ \ {o}]

(* VideoAssembler::run: insert keeps the entry of an object that is still  *)
(* waited for, while the new task is known to the map of tasks only.       *)
Run(p, o) ==
    /\ Running(p, o) /\ last < MaxTasks
    /\ last' = last + 1
    /\ asked' = asked \cup {last'}
    /\ byObject' = [byObject EXCEPT ![p][o] = IF @ = 0 THEN last' ELSE @]
    /\ byTask' = [byTask EXCEPT ![p] = @ \cup {last'}]
    /\ Handled(p, o)
    /\ UNCHANGED <<assemblers, ready, stored, fresh, analyzers, results,
                   events, collecting, stopping, down>>

(* The object has no lifetime.                                             *)
RunRefused(p, o) ==
    /\ Running(p, o)
    /\ Handled(p, o)
    /\ UNCHANGED <<videoVars, fresh, analyzers, results, events, collecting,
                   stopping, down>>

(* objrepr does not know the object: the null pointer is dereferenced      *)
(* before it is checked.                                                   *)
RunUnknown(p, o) == Running(p, o) /\ Crash

-----------------------------------------------------------------------------
(* The maintenance thread of the analytic manager: checkStartResults, and  *)
(* addEventProcessor of the storage engine.                                *)

(* An analyzer that was stopped meanwhile is a null pointer.               *)
CollectStarted(p) ==
    /\ ~ down /\ batch = NoEvents /\ collecting = NoneCollects /\ results[p] > 0
    /\ IF p \in analyzers
       THEN /\ results' = [results EXCEPT ![p] = @ - 1]
            /\ collecting' = [collecting EXCEPT ![p] = "check"]
            /\ UNCHANGED <<videoVars, fresh, analyzers, events, batch,
                           stopping, down>>
       ELSE Crash

(* m_muVideoAsm is released after the check.  A source that a stop has     *)
(* disconnected, or whose receiver crashed, has no communicator, and init  *)
(* dereferences it.                                                        *)
AddEventProcessor(p) ==
    /\ ~ down /\ collecting[p] = "check"
    /\ \/ /\ collecting' = [collecting EXCEPT ![p] =
                              IF p \in assemblers THEN "none" ELSE "insert"]
          /\ UNCHANGED <<videoVars, fresh, analyzers, results, events, batch,
                         stopping, down>>
       \/ p \notin assemblers /\ Crash

InsertAssembler(p) ==
    /\ ~ down /\ collecting[p] = "insert"
    /\ assemblers' = assemblers \cup {p}
    /\ collecting' = [collecting EXCEPT ![p] = "none"]
    /\ UNCHANGED <<byObject, byTask, ready, last, asked, stored, fresh,
                   analyzers, results, events, batch, stopping, down>>

-----------------------------------------------------------------------------
(* The stop command: stopAnalyze, then removeEventProcessor.               *)

StopAnalyze(p) ==
    /\ ~ down /\ batch = NoEvents /\ stopping = {} /\ p \in analyzers
    /\ analyzers' = analyzers \ {p}
    /\ events' = [events EXCEPT ![p] = {}]
    /\ stopping' = {p}
    /\ UNCHANGED <<videoVars, fresh, results, batch, collecting, down>>

(* mutant: the assembler keeps its videos *)
RemoveKeepsVideos(p) ==
    /\ ~ down /\ p \in stopping
    /\ assemblers' = assemblers \ {p}
    /\ stopping' = {}
    /\ UNCHANGED <<byObject, byTask, ready, last, asked, stored, fresh,
                   analyzers, results, events, batch, collecting, down>>

(* The assembler is destroyed with its two maps.                           *)
RemoveEventProcessor(p) ==
    /\ ~ down /\ p \in stopping
    /\ assemblers' = assemblers \ {p}
    /\ byObject' = [byObject EXCEPT ![p] = NoVideos]
    /\ byTask' = [byTask EXCEPT ![p] = {}]
    /\ ready' = ready \ byTask[p]
    /\ stopping' = {}
    /\ UNCHANGED <<last, asked, stored, fresh, analyzers, results,
                   events, batch, collecting, down>>

-----------------------------------------------------------------------------
(* The video-receiver, which may never answer, and the network thread.     *)

(* callbackNetworkRequest: an answer finds its video by the task id; the   *)
(* assemblers of other processings and of stopped ones do not know it.     *)
Answered(t) ==
    /\ ~ down /\ t \in asked
    /\ asked' = asked \ {t}
    /\ ready' = IF \E p \in assemblers : t \in byTask[p] THEN ready \cup {t}
                                                         ELSE ready
    /\ UNCHANGED <<assemblers, byObject, byTask, last, stored, managerVars,
                   down>>

-----------------------------------------------------------------------------
(* The thread of the storage engine.                                       *)

(* mutant: ready is not looked at *)
WaitingObjects(p) == {o \in ObjectIds : byObject[p][o] # 0}

ReadyObjects(p) == {o \in ObjectIds : byObject[p][o] \in ready}

(* getReadyVideos of one assembler, and the write of each video, which     *)
(* fails without notice, for an empty file for example.                    *)
DeliverReadyVideos(p) ==
    /\ ~ down /\ p \in assemblers /\ ReadyObjects(p) # {}
    /\ \E written \in SUBSET ReadyObjects(p) :
           stored' = [o \in ObjectIds |-> IF o \in written
                          THEN byObject[p][o] ELSE stored[o]]
    /\ byTask' = [byTask EXCEPT ![p] = @ \ {byObject[p][o] :
                                            o \in ReadyObjects(p)}]
    /\ byObject' = [byObject EXCEPT ![p] = [o \in ObjectIds |->
                       IF o \in ReadyObjects(p) THEN 0 ELSE byObject[p][o]]]
    /\ ready' = ready \ {byObject[p][o] : o \in ReadyObjects(p)}
    /\ UNCHANGED <<assemblers, last, asked, managerVars, down>>

-----------------------------------------------------------------------------
Next ==
    \/ \E p \in Processings :
           \/ StartSucceeds(p) \/ ResumeAnalyze(p) \/ TakeEvents(p)
           \/ CollectStarted(p) \/ StopAnalyze(p) \/ RemoveEventProcessor(p)
           \/ DeliverReadyVideos(p) \/ AddEventProcessor(p)
           \/ InsertAssembler(p)
    \/ \E p \in Processings, o \in ObjectIds :
           \/ ObjectDisappears(p, o) \/ Run(p, o) \/ RunRefused(p, o)
           \/ RunUnknown(p, o)
    \/ \E t \in Tasks : Answered(t)

Spec == Init /\ [][Next]_vars

(* The loop of threadAssemblersMaintenance visits every assembler, and     *)
(* nothing holds m_muVideoAsm for ever.                                    *)
FairSpec == Spec /\ \A p \in Processings : WF_vars(DeliverReadyVideos(p))

-----------------------------------------------------------------------------
(* Properties                                                              *)

(* The types.                                                              *)
TypeOK ==
    /\ assemblers \subseteq Processings
    /\ byObject \in [Processings -> [ObjectIds -> {0} \cup Tasks]]
    /\ byTask \in [Processings -> SUBSET Tasks]
    /\ ready \subseteq Tasks /\ asked \subseteq Tasks
    /\ last \in Nat /\ last <= MaxTasks
    /\ stored \in [ObjectIds -> {0} \cup Tasks]
    /\ fresh \subseteq Processings /\ analyzers \subseteq Processings
    /\ results \in [Processings -> Nat]
    /\ events \in [Processings -> SUBSET ObjectIds]
    /\ batch \in [Processings -> SUBSET ObjectIds]
    /\ collecting \in [Processings -> {"none", "check", "insert"}]
    /\ stopping \subseteq Processings
    /\ down \in BOOLEAN

(* The two maps of an assembler agree on every video that is waited for,   *)
(* no task is in two places, and no answer is of a task to come            *)
(* (video_assembler.cpp:143-146 and 163-177).                              *)
VideosAgree ==
    /\ \A p \in Processings, o \in ObjectIds : byObject[p][o] # 0 =>
           p \in assemblers /\ byObject[p][o] \in byTask[p]
    /\ \A p \in Processings, o, n \in ObjectIds :
           byObject[p][o] # 0 /\ byObject[p][o] = byObject[p][n] => o = n
    /\ \A p, q \in Processings : p # q => byTask[p] \cap byTask[q] = {}
    /\ \A t \in ready : t <= last
    /\ \A p \in Processings : \A t \in byTask[p] : t <= last

(* A processing whose events are handled runs and has its assembler until  *)
(* they are (processEvents, stopAnalyze), and only the maintenance thread  *)
(* adds assemblers (addEventProcessor).                                    *)
CallersAgree ==
    /\ analyzers \cap fresh = {} /\ stopping \cap (analyzers \cup fresh) = {}
    /\ \A p \in Processings :
           /\ batch[p] # {} => p \in analyzers \cap assemblers
           /\ collecting[p] = "insert" => p \notin assemblers

(* What the refinement rests on: types, maps that agree, and an order of   *)
(* the callers in which no assembler disappears under its events.          *)
StorageInv == TypeOK /\ VideosAgree /\ CallersAgree

(* The ready videos that an assembler waits for.                           *)
AnsweredRequests ==
    {t \in ready : \E p \in Processings, o \in ObjectIds :
                       byObject[p][o] = t}

(* The event processors as VideoDelivery promises them.                    *)
Delivery == INSTANCE VideoDelivery WITH
    serving  <- assemblers,
    request  <- byObject,
    answered <- AnsweredRequests

(* A video is stored for the object it was requested for, once, while its  *)
(* processing is served, and what the receiver answered does not wait for  *)
(* ever: the two maps of an assembler, the answers that come late or for   *)
(* another assembler, and the objects that disappear again while they are  *)
(* waited for, implement VideoDelivery.                                    *)
ImplementsDelivery == Delivery!Spec

=============================================================================
