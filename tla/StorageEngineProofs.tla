------------------------- MODULE StorageEngineProofs -------------------------
(***************************************************************************)
(* StorageInv is an invariant of StorageEngine, and StorageEngine          *)
(* implements the safety part of VideoDelivery, for any sets of            *)
(* processings and objects and any bounds.                                 *)
(***************************************************************************)
EXTENDS StorageEngine, TLAPS

(* The initial states satisfy the invariant.                               *)
LEMMA InitInv == Init => StorageInv
<1> SUFFICES ASSUME Init PROVE StorageInv
  OBVIOUS
<1> USE StorageAssumption DEF StorageAssumption, Init, NoVideos, NoEvents, NoneCollects
<1>1. TypeOK
  <2>1. byObject \in [Processings -> [ObjectIds -> {0} \cup Tasks]]
    <3>1. NoVideos \in [ObjectIds -> {0} \cup Tasks]
      OBVIOUS
    <3> QED
      BY <3>1
  <2>2. byTask \in [Processings -> SUBSET Tasks]
    OBVIOUS
  <2>3. events \in [Processings -> SUBSET ObjectIds] /\ batch = events
    OBVIOUS
  <2>4. collecting \in [Processings -> {"none", "check", "insert"}]
    OBVIOUS
  <2>5. stored \in [ObjectIds -> {0} \cup Tasks]
    OBVIOUS
  <2>6. results \in [Processings -> Nat]
    OBVIOUS
  <2>7. last \in Nat /\ last <= MaxTasks
    OBVIOUS
  <2>10. down \in BOOLEAN
    BY Zenon
  <2>8. /\ assemblers \subseteq Processings /\ fresh \subseteq Processings
        /\ analyzers \subseteq Processings /\ stopping \subseteq Processings
        /\ ready \subseteq Tasks /\ asked \subseteq Tasks
    OBVIOUS
  <2>9. batch \in [Processings -> SUBSET ObjectIds]
    BY <2>3
  <2> HIDE DEF Init
  <2> QED
    BY <2>1, <2>2, <2>3, <2>4, <2>5, <2>6, <2>7, <2>8, <2>9, <2>10 DEF TypeOK
<1>2. VideosAgree
  BY DEF VideosAgree
<1>3. CallersAgree
  BY DEF CallersAgree
<1> QED
  BY <1>1, <1>2, <1>3 DEF StorageInv

(* A crash leaves a state of the invariant.                                *)
LEMMA CrashInv == StorageInv /\ Crash => StorageInv'
<1> SUFFICES ASSUME TypeOK, Crash PROVE StorageInv'
  BY DEF StorageInv
<1> USE StorageAssumption DEF StorageAssumption, TypeOK, Crash, NoVideos, NoEvents, NoneCollects
<1>1. TypeOK'
  OBVIOUS
<1>2. VideosAgree'
  BY DEF VideosAgree
<1>3. CallersAgree'
  BY DEF CallersAgree
<1> QED
  BY <1>1, <1>2, <1>3 DEF StorageInv

(* Every step that is not a crash keeps the types.                         *)
LEMMA TypeStep == StorageInv /\ [Next]_vars => TypeOK' \/ Crash
<1> SUFFICES ASSUME StorageInv, [Next]_vars, ~ Crash PROVE TypeOK'
  OBVIOUS
<1> USE StorageAssumption DEF StorageAssumption, StorageInv, TypeOK
<1>1. ASSUME NEW p \in Processings, StartSucceeds(p) PROVE TypeOK'
  BY <1>1 DEF StartSucceeds, videoVars
<1>2. ASSUME NEW p \in Processings, ResumeAnalyze(p) PROVE TypeOK'
  BY <1>2 DEF ResumeAnalyze, videoVars
<1>3. ASSUME NEW p \in Processings, TakeEvents(p) PROVE TypeOK'
  BY <1>3 DEF TakeEvents, videoVars
<1>4. ASSUME NEW p \in Processings, CollectStarted(p) PROVE TypeOK'
  <2>1. results' \in [Processings -> Nat]
    BY <1>4 DEF CollectStarted
  <2>2. collecting' \in [Processings -> {"none", "check", "insert"}]
    BY <1>4 DEF CollectStarted
  <2>3. UNCHANGED <<videoVars, fresh, analyzers, events, batch, stopping,
                    down>>
    BY <1>4 DEF CollectStarted
  <2> QED
    BY <2>1, <2>2, <2>3 DEF videoVars
<1>5. ASSUME NEW p \in Processings, StopAnalyze(p) PROVE TypeOK'
  BY <1>5 DEF StopAnalyze, videoVars
<1>6. ASSUME NEW p \in Processings, RemoveEventProcessor(p) PROVE TypeOK'
  <2>1. NoVideos \in [ObjectIds -> {0} \cup Tasks]
    BY DEF NoVideos
  <2>2. byObject' \in [Processings -> [ObjectIds -> {0} \cup Tasks]]
    BY <1>6, <2>1 DEF RemoveEventProcessor
  <2>3. byTask' \in [Processings -> SUBSET Tasks]
    BY <1>6 DEF RemoveEventProcessor
  <2>4. assemblers' \subseteq Processings /\ ready' \subseteq Tasks
    BY <1>6 DEF RemoveEventProcessor
  <2> QED
    BY <1>6, <2>2, <2>3, <2>4 DEF RemoveEventProcessor
<1>7. ASSUME NEW p \in Processings, DeliverReadyVideos(p) PROVE TypeOK'
  BY <1>7 DEF DeliverReadyVideos, ReadyObjects, managerVars
<1>8. ASSUME NEW p \in Processings, AddEventProcessor(p) PROVE TypeOK'
  BY <1>8 DEF AddEventProcessor, videoVars
<1>9. ASSUME NEW p \in Processings, InsertAssembler(p) PROVE TypeOK'
  BY <1>9 DEF InsertAssembler
<1>10. ASSUME NEW p \in Processings, NEW o \in ObjectIds,
              ObjectDisappears(p, o)
       PROVE  TypeOK'
  BY <1>10 DEF ObjectDisappears, videoVars
<1>11. ASSUME NEW p \in Processings, NEW o \in ObjectIds, Run(p, o)
       PROVE  TypeOK'
  <2>1. last' \in Tasks /\ last' \in Nat /\ last' <= MaxTasks
    BY <1>11 DEF Run, Tasks
  <2> QED
    BY <1>11, <2>1 DEF Run, Handled
<1>12. ASSUME NEW p \in Processings, NEW o \in ObjectIds, RunRefused(p, o)
       PROVE  TypeOK'
  BY <1>12 DEF RunRefused, Handled, videoVars
<1>13. ASSUME NEW t \in Tasks, Answered(t) PROVE TypeOK'
  BY <1>13 DEF Answered, managerVars
<1>14. CASE UNCHANGED vars
  BY <1>14 DEF vars, videoVars, managerVars
<1> QED
  BY <1>1, <1>2, <1>3, <1>4, <1>5, <1>6, <1>7, <1>8, <1>9, <1>10, <1>11,
     <1>12, <1>13, <1>14 DEF Next, RunUnknown

(* Every step that is not a crash keeps the order of the callers.          *)
LEMMA CallersStep == StorageInv /\ [Next]_vars => CallersAgree' \/ Crash
<1> SUFFICES ASSUME StorageInv, [Next]_vars, ~ Crash PROVE CallersAgree'
  OBVIOUS
<1> USE DEF StorageInv, TypeOK, CallersAgree
<1>1. ASSUME NEW p \in Processings, StartSucceeds(p) PROVE CallersAgree'
  BY <1>1 DEF StartSucceeds, videoVars
<1>2. ASSUME NEW p \in Processings, ResumeAnalyze(p) PROVE CallersAgree'
  BY <1>2 DEF ResumeAnalyze, videoVars
<1>3. ASSUME NEW p \in Processings, TakeEvents(p) PROVE CallersAgree'
  BY <1>3 DEF TakeEvents, videoVars, NoEvents
<1>4. ASSUME NEW p \in Processings, CollectStarted(p) PROVE CallersAgree'
  BY <1>4 DEF CollectStarted, videoVars, NoEvents
<1>5. ASSUME NEW p \in Processings, StopAnalyze(p) PROVE CallersAgree'
  BY <1>5 DEF StopAnalyze, videoVars, NoEvents
<1>6. ASSUME NEW p \in Processings, RemoveEventProcessor(p)
      PROVE  CallersAgree'
  BY <1>6 DEF RemoveEventProcessor
<1>7. ASSUME NEW p \in Processings, DeliverReadyVideos(p)
      PROVE  CallersAgree'
  BY <1>7 DEF DeliverReadyVideos, managerVars
<1>8. ASSUME NEW p \in Processings, AddEventProcessor(p) PROVE CallersAgree'
  BY <1>8 DEF AddEventProcessor, videoVars
<1>9. ASSUME NEW p \in Processings, InsertAssembler(p) PROVE CallersAgree'
  BY <1>9 DEF InsertAssembler
<1>10. ASSUME NEW p \in Processings, NEW o \in ObjectIds,
              ObjectDisappears(p, o)
       PROVE  CallersAgree'
  BY <1>10 DEF ObjectDisappears, videoVars
<1>11. ASSUME NEW p \in Processings, NEW o \in ObjectIds, Run(p, o)
       PROVE  CallersAgree'
  BY <1>11 DEF Run, Running, Handled
<1>12. ASSUME NEW p \in Processings, NEW o \in ObjectIds, RunRefused(p, o)
       PROVE  CallersAgree'
  BY <1>12 DEF RunRefused, Running, Handled, videoVars
<1>13. ASSUME NEW t \in Tasks, Answered(t) PROVE CallersAgree'
  BY <1>13 DEF Answered, managerVars
<1>14. CASE UNCHANGED vars
  BY <1>14 DEF vars, videoVars, managerVars
<1> QED
  BY <1>1, <1>2, <1>3, <1>4, <1>5, <1>6, <1>7, <1>8, <1>9, <1>10, <1>11,
     <1>12, <1>13, <1>14 DEF Next, RunUnknown

(* Every step that is not a crash keeps the two maps of each assembler in  *)
(* agreement.                                                              *)
LEMMA VideosStep == StorageInv /\ [Next]_vars => VideosAgree' \/ Crash
<1> SUFFICES ASSUME StorageInv, [Next]_vars, ~ Crash PROVE VideosAgree'
  OBVIOUS
<1> USE DEF StorageInv, TypeOK, VideosAgree
<1>1. ASSUME UNCHANGED videoVars PROVE VideosAgree'
  BY <1>1 DEF videoVars
<1>2. ASSUME NEW p \in Processings, RemoveEventProcessor(p)
      PROVE  VideosAgree'
  BY <1>2 DEF RemoveEventProcessor, NoVideos
<1>3. ASSUME NEW p \in Processings, DeliverReadyVideos(p) PROVE VideosAgree'
  <2>1. \A q \in Processings, o \in ObjectIds :
          /\ byObject'[q][o] = 0 \/ byObject'[q][o] = byObject[q][o]
          /\ q = p /\ o \in ReadyObjects(p) => byObject'[q][o] = 0
    BY <1>3 DEF DeliverReadyVideos
  <2>2. \A q \in Processings :
          /\ byTask'[q] \subseteq byTask[q]
          /\ \A t \in byTask[q] \ byTask'[q] :
               q = p /\ \E o \in ReadyObjects(p) : t = byObject[p][o]
    BY <1>3 DEF DeliverReadyVideos
  <2>3. ready' \subseteq ready /\ UNCHANGED <<assemblers, last>>
    BY <1>3 DEF DeliverReadyVideos
  <2>4. \A q \in Processings, o \in ObjectIds : byObject'[q][o] # 0 =>
          q \in assemblers' /\ byObject'[q][o] \in byTask'[q]
    BY <2>1, <2>2, <2>3 DEF ReadyObjects
  <2> QED
    BY <2>1, <2>2, <2>3, <2>4
<1>4. ASSUME NEW p \in Processings, InsertAssembler(p) PROVE VideosAgree'
  BY <1>4 DEF InsertAssembler
<1>5. ASSUME NEW p \in Processings, NEW o \in ObjectIds, Run(p, o)
      PROVE  VideosAgree'
  <2>1. last' = last + 1 /\ UNCHANGED <<assemblers, ready>> /\ p \in assemblers
    BY <1>5 DEF Run, Running, CallersAgree
  <2>2. \A q \in Processings :
          byTask'[q] = byTask[q] \cup (IF q = p THEN {last'} ELSE {})
    BY <1>5 DEF Run
  <2>3. \A q \in Processings, n \in ObjectIds :
          byObject'[q][n] = IF q = p /\ n = o /\ byObject[p][o] = 0 THEN last'
                            ELSE byObject[q][n]
    BY <1>5 DEF Run
  <2>4. \A q \in Processings : last' \notin byTask[q]
    BY <2>1
  <2>5. \A q \in Processings, n \in ObjectIds : byObject'[q][n] # 0 =>
          q \in assemblers' /\ byObject'[q][n] \in byTask'[q]
    BY <2>1, <2>2, <2>3
  <2>6. \A q \in Processings, n \in ObjectIds : byObject[q][n] # last'
    BY <2>1, <2>4
  <2>7. \A q \in Processings, m, n \in ObjectIds :
          byObject'[q][m] # 0 /\ byObject'[q][m] = byObject'[q][n] => m = n
    BY <2>3, <2>6
  <2>8. \A q, r \in Processings : q # r => byTask'[q] \cap byTask'[r] = {}
    BY <2>2, <2>4
  <2>9. /\ \A t \in ready' : t <= last'
        /\ \A q \in Processings : \A t \in byTask'[q] : t <= last'
    BY <2>1, <2>2, SMTT(30) DEF Tasks
  <2> QED
    BY <2>5, <2>7, <2>8, <2>9
<1>6. ASSUME NEW t \in Tasks, Answered(t) PROVE VideosAgree'
  BY <1>6 DEF Answered
<1>7. CASE UNCHANGED vars
  BY <1>1, <1>7 DEF vars
<1>8. ASSUME NEW p \in Processings,
             \/ StartSucceeds(p) \/ ResumeAnalyze(p) \/ TakeEvents(p)
             \/ CollectStarted(p) \/ StopAnalyze(p) \/ AddEventProcessor(p)
             \/ \E o \in ObjectIds : ObjectDisappears(p, o) \/ RunRefused(p, o)
      PROVE  VideosAgree'
  BY <1>1, <1>8
  DEF StartSucceeds, ResumeAnalyze, TakeEvents, CollectStarted, StopAnalyze,
      AddEventProcessor, ObjectDisappears, RunRefused
<1> QED
  BY <1>2, <1>3, <1>4, <1>5, <1>6, <1>7, <1>8 DEF Next, RunUnknown

(* Types, maps and callers agree in every reachable state.                 *)
THEOREM StorageCorrect == Spec => []StorageInv
<1>1. StorageInv /\ [Next]_vars => StorageInv'
  BY TypeStep, CallersStep, VideosStep, CrashInv DEF StorageInv
<1> QED
  BY InitInv, <1>1, PTL DEF Spec

-----------------------------------------------------------------------------
(* The refinement: one lemma for each step of the storage engine.          *)

LEMMA InitRefines == Init => Delivery!Init
  BY DEF Init, Delivery!Init, AnsweredRequests, NoVideos

LEMMA CrashRefines == StorageInv /\ Crash => Delivery!Drop(Processings)
<1> SUFFICES ASSUME StorageInv, Crash PROVE Delivery!Drop(Processings)
  OBVIOUS
<1>1. byObject' = [p \in Processings |-> IF p \in Processings
                     THEN [o \in ObjectIds |-> 0] ELSE byObject[p]]
  BY DEF Crash, NoVideos
<1>2. AnsweredRequests' = {}
  BY DEF Crash, AnsweredRequests
<1>3. AnsweredRequests \subseteq
        UNION {Delivery!Open(p) : p \in Processings}
  BY DEF AnsweredRequests, Delivery!Open, StorageInv, TypeOK, Tasks
<1>4. assemblers' = assemblers \ Processings
  BY DEF Crash, StorageInv, TypeOK
<1> QED
  BY <1>1, <1>2, <1>3, <1>4 DEF Crash, Delivery!Drop

LEMMA InsertRefines ==
  ASSUME StorageInv, NEW p \in Processings, InsertAssembler(p)
  PROVE  Delivery!Serve(p)
BY DEF StorageInv, CallersAgree, InsertAssembler, Delivery!Serve,
       AnsweredRequests

(* The new task is not the answer to anything yet.                         *)
LEMMA RunRefines ==
  ASSUME StorageInv, NEW p \in Processings, NEW o \in ObjectIds, Run(p, o)
  PROVE  Delivery!Ask(p, o) \/ Delivery!AskAgain(p, o)
<1>1. /\ p \in assemblers /\ last < MaxTasks /\ last' = last + 1
      /\ UNCHANGED <<assemblers, ready, stored>>
      /\ byObject' = [byObject EXCEPT ![p][o] = IF @ = 0 THEN last' ELSE @]
  BY DEF Run, Running, StorageInv, CallersAgree
<1>2. last' \notin ready /\ 0 \notin ready
  BY <1>1 DEF StorageInv, TypeOK, VideosAgree, Tasks
<1>3. \A q \in Processings, n \in ObjectIds :
        byObject'[q][n] = IF q = p /\ n = o /\ byObject[p][o] = 0 THEN last'
                          ELSE byObject[q][n]
  BY <1>1 DEF StorageInv, TypeOK
<1>4. AnsweredRequests' = AnsweredRequests
  BY <1>1, <1>2, <1>3 DEF AnsweredRequests
<1>5. CASE byObject[p][o] = 0
  BY <1>1, <1>4, <1>5 DEF Delivery!Ask, StorageInv, TypeOK
<1>6. CASE byObject[p][o] # 0
  <2>1. byObject' = byObject
    BY <1>1, <1>6 DEF StorageInv, TypeOK
  <2> QED
    BY <1>1, <1>4, <1>6, <2>1 DEF Delivery!AskAgain
<1> QED
  BY <1>5, <1>6

(* An answer that no object waits for changes nothing.                     *)
LEMMA AnsweredRefines ==
  ASSUME StorageInv, NEW t \in Tasks, Answered(t)
  PROVE  \/ \E p \in Processings, o \in ObjectIds : Delivery!Answer(p, o)
         \/ UNCHANGED Delivery!vars
<1>1. UNCHANGED <<assemblers, byObject, last, stored>>
  BY DEF Answered
<1>2. t \in Nat \ {0}
  BY DEF Tasks
<1>3. CASE ready' = ready
  BY <1>1, <1>3 DEF AnsweredRequests, Delivery!vars
<1>4. CASE /\ ready' = ready \cup {t}
           /\ \A p \in Processings, o \in ObjectIds : byObject[p][o] # t
  BY <1>1, <1>4 DEF AnsweredRequests, Delivery!vars
<1>5. ASSUME ready' = ready \cup {t},
             NEW p \in Processings, NEW o \in ObjectIds, byObject[p][o] = t
      PROVE  Delivery!Answer(p, o)
  <2>1. AnsweredRequests' = AnsweredRequests \cup {t}
    BY <1>1, <1>5 DEF AnsweredRequests
  <2> QED
    BY <1>1, <1>2, <1>5, <2>1 DEF Delivery!Answer
<1> QED
  BY <1>3, <1>4, <1>5 DEF Answered

(* The videos that are delivered are the answered requests.                *)
LEMMA DeliverRefines ==
  ASSUME StorageInv, NEW p \in Processings, DeliverReadyVideos(p)
  PROVE  Delivery!Close(p)
<1> DEFINE Done == {byObject[p][o] : o \in ReadyObjects(p)}
<1>1. ReadyObjects(p) = {o \in ObjectIds : byObject[p][o] \in AnsweredRequests}
  BY DEF ReadyObjects, AnsweredRequests
<1>2. /\ ready' = ready \ Done
      /\ UNCHANGED <<assemblers, last>>
      /\ ReadyObjects(p) # {}
      /\ byObject' = [byObject EXCEPT ![p] = [o \in ObjectIds |->
            IF o \in ReadyObjects(p) THEN 0 ELSE byObject[p][o]]]
      /\ \E written \in SUBSET ReadyObjects(p) :
            stored' = [o \in ObjectIds |-> IF o \in written
                         THEN byObject[p][o] ELSE stored[o]]
  BY DEF DeliverReadyVideos
<1>3. 0 \notin ready
  BY DEF StorageInv, TypeOK, Tasks
<1>4. \A q \in Processings, n \in ObjectIds :
        byObject'[q][n] = IF q = p /\ n \in ReadyObjects(p) THEN 0
                          ELSE byObject[q][n]
  BY <1>2 DEF StorageInv, TypeOK
<1>5. AnsweredRequests' = AnsweredRequests \ Done
  <2>1. AnsweredRequests' \subseteq AnsweredRequests \ Done
    BY <1>2, <1>3, <1>4 DEF AnsweredRequests
  <2>2. ASSUME NEW t \in AnsweredRequests \ Done PROVE t \in AnsweredRequests'
    <3>1. PICK q \in Processings, n \in ObjectIds : byObject[q][n] = t
      BY <2>2 DEF AnsweredRequests
    <3>2. byObject'[q][n] = t
      BY <1>4, <2>2, <3>1
    <3>3. t \in ready'
      BY <1>2, <2>2 DEF AnsweredRequests
    <3> QED
      BY <3>2, <3>3 DEF AnsweredRequests
  <2> QED
    BY <2>1, <2>2
<1> HIDE DEF Done
<1> QED
  BY <1>1, <1>2, <1>5 DEF Delivery!Close, Done

(* No other assembler knows a task of the one that is removed.             *)
LEMMA RemoveRefines ==
  ASSUME StorageInv, NEW p \in Processings, RemoveEventProcessor(p)
  PROVE  Delivery!Drop({p})
<1>1. /\ assemblers' = assemblers \ {p}
      /\ byObject' = [byObject EXCEPT ![p] = NoVideos]
      /\ ready' = ready \ byTask[p]
      /\ UNCHANGED <<last, stored>>
  BY DEF RemoveEventProcessor
<1>2. 0 \notin ready
  BY DEF StorageInv, TypeOK, Tasks
<1>3. \A q \in Processings, n \in ObjectIds :
        byObject'[q][n] = IF q = p THEN 0 ELSE byObject[q][n]
  BY <1>1 DEF StorageInv, TypeOK, NoVideos
<1>4. Delivery!Open(p) \subseteq byTask[p]
  BY DEF Delivery!Open, StorageInv, VideosAgree
<1>5. AnsweredRequests' \subseteq AnsweredRequests \ Delivery!Open(p)
  BY <1>1, <1>2, <1>3, <1>4 DEF AnsweredRequests
<1>6. ASSUME NEW t \in AnsweredRequests \ Delivery!Open(p)
      PROVE  t \in AnsweredRequests'
  <2>1. PICK q \in Processings, n \in ObjectIds :
          byObject[q][n] = t /\ t \in ready /\ t # 0
    BY <1>2, <1>6 DEF AnsweredRequests
  <2>2. q # p
    BY <1>6, <2>1 DEF Delivery!Open
  <2>3. t \notin byTask[p]
    BY <2>1, <2>2 DEF StorageInv, VideosAgree
  <2> QED
    BY <1>1, <1>3, <2>1, <2>2, <2>3 DEF AnsweredRequests
<1>7. AnsweredRequests' = AnsweredRequests \
        UNION {Delivery!Open(q) : q \in {p}}
  BY <1>5, <1>6
<1>8. byObject' = [q \in Processings |-> IF q \in {p}
                     THEN [o \in ObjectIds |-> 0] ELSE byObject[q]]
  BY <1>1 DEF StorageInv, TypeOK, NoVideos
<1> QED
  BY <1>1, <1>7, <1>8 DEF Delivery!Drop

(* Every step is a step of VideoDelivery or changes nothing in it.         *)
LEMMA StepRefines ==
  StorageInv /\ [Next]_vars => [Delivery!Next]_(Delivery!vars)
<1> SUFFICES ASSUME StorageInv, [Next]_vars
             PROVE  Delivery!Next \/ UNCHANGED Delivery!vars
  OBVIOUS
<1>1. ASSUME UNCHANGED videoVars PROVE UNCHANGED Delivery!vars
  BY <1>1 DEF videoVars, AnsweredRequests, Delivery!vars
<1>2. CASE Crash
  BY <1>2, CrashRefines DEF Delivery!Next
<1>3. ASSUME NEW p \in Processings,
             \/ InsertAssembler(p) \/ RemoveEventProcessor(p)
             \/ DeliverReadyVideos(p) \/ \E o \in ObjectIds : Run(p, o)
      PROVE  Delivery!Next
  BY <1>3, InsertRefines, RemoveRefines, DeliverRefines, RunRefines
  DEF Delivery!Next
<1>4. ASSUME NEW t \in Tasks, Answered(t)
      PROVE  Delivery!Next \/ UNCHANGED Delivery!vars
  BY <1>4, AnsweredRefines DEF Delivery!Next
<1>5. ASSUME NEW p \in Processings, ~ Crash,
             \/ StartSucceeds(p) \/ ResumeAnalyze(p) \/ TakeEvents(p)
             \/ CollectStarted(p) \/ StopAnalyze(p) \/ AddEventProcessor(p)
             \/ \E o \in ObjectIds : ObjectDisappears(p, o) \/ RunRefused(p, o)
      PROVE  UNCHANGED videoVars
  BY <1>5
  DEF StartSucceeds, ResumeAnalyze, TakeEvents, CollectStarted, StopAnalyze,
      AddEventProcessor, ObjectDisappears, RunRefused
<1>6. CASE UNCHANGED vars
  BY <1>1, <1>6 DEF vars
<1> QED
  BY <1>1, <1>2, <1>3, <1>4, <1>5, <1>6 DEF Next, RunUnknown

(* The storage engine implements the safety part of VideoDelivery.         *)
THEOREM StorageRefinesDelivery == Spec => Delivery!Safety
  BY InitRefines, StepRefines, StorageCorrect, PTL DEF Spec, Delivery!Safety
=============================================================================
