------------------------ MODULE AnalyticManagerProofs ------------------------
(***************************************************************************)
(* Proofs about AnalyticManager, for any number of start commands,         *)
(* profiles, cards and urls.                                               *)
(*                                                                         *)
(* The inductive invariant ties the step a start task is at, and the step  *)
(* the main thread is at, to the balancer's registry: it is what makes     *)
(* every use of the balancer a step of Balancer!Spec, whose invariants     *)
(* then hold of the manager without being proved again.                    *)
(***************************************************************************)
EXTENDS AnalyticManager, TLAPS

(* The invariants of the balancer's own specification.                     *)
BP == INSTANCE VideocardBalancerProofs

-----------------------------------------------------------------------------
(* Before getVideocard a start has nothing; from getVideocard until it is  *)
(* registered it has a card, unless the assertion of getVideocard failed; a *)
(* failed start is never registered.                                       *)
TaskInv ==
    /\ task \in [Processings -> TaskSteps]
    /\ used = [p \in Processings |-> used[p]]
    /\ \A p \in Processings :
          /\ task[p] \in {"none", "connect", "card"} =>
                used[p] = None /\ p \notin holding
          /\ task[p] \in {"start", "register"} => p \in holding \/ aborted
          /\ p \in analyzers => task[p] \in {"observe", "ok"}

(* stopAnalyze returns the card of a registered analyzer, then removes it. *)
StopInv ==
    /\ \A p \in Processings :
          /\ main = [at |-> "stopCard", proc |-> p] => p \in analyzers \cap holding
          /\ main = [at |-> "stopRemove", proc |-> p] => p \in analyzers \ holding
    /\ RunningHoldsCard

(* A start in progress has the only start future; a result is collected    *)
(* once its task is over.                                                  *)
FutureInv ==
    /\ \A p \in Starting : <<"start", p>> \in futures
    /\ \A p, q \in Processings :
          <<"start", p>> \in futures /\ <<"start", q>> \in futures => p = q
    /\ \A p \in Processings :
          maint.at = "add" /\ maint.future = <<"start", p>> => task[p] = "ok"

ManagerInv ==
    /\ TaskInv
    /\ StopInv
    /\ FutureInv
    /\ analyzers \subseteq Processings
    /\ holding \subseteq Processings

LEMMA InitManagerInv == Init => ManagerInv
BY DEF Init, Balancer!Init, ManagerInv, TaskInv, StopInv, FutureInv, Starting,
       RunningHoldsCard, TaskSteps, Idle, NoScan

-----------------------------------------------------------------------------
(* Steps that leave the balancer, the tasks, the futures and the analyzer  *)
(* the main thread is at alone.                                            *)
LEMMA QuietStep ==
    ASSUME ManagerInv, UNCHANGED <<balancerVars, task, futures>>,
           \/ main' = main
           \/ /\ main.at # "stopCard" /\ main.at # "stopRemove"
              /\ main'.at # "stopCard" /\ main'.at # "stopRemove",
           maint' = maint \/ maint'.at # "add"
    PROVE  ManagerInv'
<1>1. TaskInv'
  BY DEF ManagerInv, TaskInv, balancerVars
<1>2. StopInv'
  <2>1. CASE main' = main
    BY <2>1 DEF ManagerInv, StopInv, RunningHoldsCard, balancerVars
  <2>2. CASE main' # main
    <3>1. \A p \in Processings :
             /\ main # [at |-> "stopCard", proc |-> p]
             /\ main # [at |-> "stopRemove", proc |-> p]
             /\ main' # [at |-> "stopCard", proc |-> p]
             /\ main' # [at |-> "stopRemove", proc |-> p]
      BY <2>2
    <3>2. QED
      BY <3>1 DEF ManagerInv, StopInv, RunningHoldsCard, balancerVars
  <2>3. QED
    BY <2>1, <2>2
<1>3. FutureInv'
  BY DEF ManagerInv, FutureInv, Starting
<1>4. QED
  BY <1>1, <1>2, <1>3 DEF ManagerInv, balancerVars

LEMMA StartAnalyzeInv ==
    ASSUME ManagerInv, NEW p \in Processings, NEW u \in Urls, StartAnalyze(p, u)
    PROVE  ManagerInv'
<1>1. /\ main = Idle /\ task[p] = "none" /\ futures = {}
      /\ task' = [task EXCEPT ![p] = "connect"]
      /\ futures' = {<<"start", p>>}
      /\ main' = [at |-> "openJournal", proc |-> p]
      /\ UNCHANGED <<balancerVars, maint>>
  BY DEF StartAnalyze, IsAnotherAnalyzerStarting
<1>2. TaskInv'
  BY <1>1 DEF ManagerInv, TaskInv, TaskSteps, balancerVars
<1>3. StopInv'
  BY <1>1 DEF ManagerInv, StopInv, TaskInv, RunningHoldsCard, balancerVars, Idle
<1>4. FutureInv'
  <2>1. Starting' \subseteq {p}
    BY <1>1 DEF ManagerInv, FutureInv, TaskInv, Starting
  <2>2. QED
    BY <1>1, <2>1 DEF ManagerInv, FutureInv, TaskInv
<1>5. QED
  BY <1>1, <1>2, <1>3, <1>4 DEF ManagerInv, balancerVars

LEMMA StopAnalyzeInv ==
    ASSUME ManagerInv, NEW p \in Processings, StopAnalyze(p)
    PROVE  ManagerInv'
<1>1. /\ main = Idle
      /\ main' = [at |-> IF p \in analyzers THEN "stopCard" ELSE "stopLookup",
                  proc |-> p]
      /\ UNCHANGED <<balancerVars, task, futures, maint>>
  BY DEF StopAnalyze, startVars
<1>2. TaskInv' /\ FutureInv'
  BY <1>1 DEF ManagerInv, TaskInv, FutureInv, Starting, balancerVars
<1>3. StopInv'
  BY <1>1 DEF ManagerInv, StopInv, RunningHoldsCard, balancerVars, Idle
<1>4. QED
  BY <1>1, <1>2, <1>3 DEF ManagerInv, balancerVars

LEMMA StopCardInv ==
    ASSUME ManagerInv, NEW p \in Processings, StopCard(p)
    PROVE  ManagerInv'
<1>1. /\ main = [at |-> "stopCard", proc |-> p]
      /\ main' = [at |-> "stopRemove", proc |-> p]
      /\ holding' = holding \ {p}
      /\ UNCHANGED <<used, analyzers, aborted, task, futures, maint>>
  BY DEF StopCard, Balancer!ReturnVideocard, startVars
<1>2. p \in analyzers \cap holding /\ task[p] \in {"observe", "ok"}
  BY <1>1 DEF ManagerInv, StopInv, TaskInv
<1>3. TaskInv' /\ FutureInv'
  BY <1>1, <1>2 DEF ManagerInv, TaskInv, FutureInv, Starting
<1>4. StopInv'
  BY <1>1, <1>2 DEF ManagerInv, StopInv, RunningHoldsCard
<1>5. QED
  BY <1>1, <1>3, <1>4 DEF ManagerInv

LEMMA StopRemoveInv ==
    ASSUME ManagerInv, NEW p \in Processings, StopRemove(p)
    PROVE  ManagerInv'
<1>1. /\ main = [at |-> "stopRemove", proc |-> p]
      /\ main' = [at |-> "stopDisconnect", proc |-> p]
      /\ analyzers' = analyzers \ {p}
      /\ UNCHANGED <<used, holding, aborted, task, futures, maint>>
  BY DEF StopRemove, startVars
<1>2. p \in analyzers \ holding
  BY <1>1 DEF ManagerInv, StopInv
<1>3. TaskInv' /\ FutureInv'
  BY <1>1 DEF ManagerInv, TaskInv, FutureInv, Starting
<1>4. StopInv'
  BY <1>1, <1>2 DEF ManagerInv, StopInv, RunningHoldsCard
<1>5. QED
  BY <1>1, <1>3, <1>4 DEF ManagerInv

LEMMA ResumeAnalyzeInv ==
    ASSUME ManagerInv, NEW p \in Processings, ResumeAnalyze(p)
    PROVE  ManagerInv'
<1>1. /\ futures' = futures \cup {<<"resume", p>>}
      /\ UNCHANGED <<balancerVars, task, main, maint>>
  BY DEF ResumeAnalyze
<1>2. TaskInv' /\ StopInv'
  BY <1>1 DEF ManagerInv, TaskInv, StopInv, RunningHoldsCard, balancerVars
<1>3. FutureInv'
  BY <1>1 DEF ManagerInv, FutureInv, Starting
<1>4. QED
  BY <1>1, <1>2, <1>3 DEF ManagerInv, balancerVars

(* The steps of the main thread.                                           *)
LEMMA MainInv == ASSUME ManagerInv, MainNext PROVE ManagerInv'
<1> PICK p \in Processings :
        \/ \E u \in Urls : StartAnalyze(p, u)
        \/ OpenJournal(p) \/ ResumeAnalyze(p) \/ StopAnalyze(p)
        \/ StopCard(p) \/ StopRemove(p) \/ StopDisconnect(p) \/ StopFinish(p)
        \/ StopLookup(p) \/ FailDisconnect(p) \/ FailUnlock(p)
  BY DEF MainNext
<1>1. CASE \E u \in Urls : StartAnalyze(p, u)
  BY <1>1, StartAnalyzeInv
<1>2. CASE OpenJournal(p)
  BY <1>2, QuietStep DEF OpenJournal, startVars, Idle
<1>3. CASE ResumeAnalyze(p)
  BY <1>3, ResumeAnalyzeInv
<1>4. CASE StopAnalyze(p)
  BY <1>4, StopAnalyzeInv
<1>5. CASE StopCard(p)
  BY <1>5, StopCardInv
<1>6. CASE StopRemove(p)
  BY <1>6, StopRemoveInv
<1>7. CASE StopDisconnect(p)
  BY <1>7, QuietStep DEF StopDisconnect, startVars
<1>8. CASE StopFinish(p)
  BY <1>8, QuietStep DEF StopFinish, startVars, Idle
<1>9. CASE StopLookup(p)
  BY <1>9, QuietStep DEF StopLookup, Idle
<1>10. CASE FailDisconnect(p)
  BY <1>10, QuietStep DEF FailDisconnect, startVars
<1>11. CASE FailUnlock(p)
  BY <1>11, QuietStep DEF FailUnlock, startVars, Idle
<1>12. QED
  BY <1>1, <1>2, <1>3, <1>4, <1>5, <1>6, <1>7, <1>8, <1>9, <1>10, <1>11

-----------------------------------------------------------------------------
(* getVideocard either gives the start a card or fails it (or the server). *)
LEMMA GetVideocardEffect ==
    ASSUME TaskInv, NEW p \in Processings, NEW prof \in Profiles,
           Balancer!GetVideocard(p, prof)
    PROVE  /\ analyzers' = analyzers
           /\ used' = [q \in Processings |-> used'[q]]
           /\ \A q \in Processings \ {p} : used'[q] = used[q]
           /\ aborted => aborted'
           /\ \/ holding' = holding \cup {p}
              \/ holding' = holding /\ (used'[p] = NoAvailableCards \/ aborted')
<1> USE DEF TaskInv
<1>0. analyzers' = analyzers
  BY DEF Balancer!GetVideocard
<1>1. CASE Balancer!ShareCards(p, prof)
  BY <1>0, <1>1 DEF Balancer!ShareCards
<1>2. CASE Balancer!AssertFails(p, prof)
  BY <1>0, <1>2 DEF Balancer!AssertFails
<1>3. CASE Balancer!NewCard(p, prof)
  BY <1>0, <1>3 DEF Balancer!NewCard
<1>4. CASE Balancer!NoCardLeft(p, prof)
  BY <1>0, <1>4 DEF Balancer!NoCardLeft
<1>5. QED
  BY <1>1, <1>2, <1>3, <1>4 DEF Balancer!GetVideocard

LEMMA TaskCardInv ==
    ASSUME ManagerInv, NEW p \in Processings, NEW prof \in Profiles,
           TaskCard(p, prof)
    PROVE  ManagerInv'
<1>1. /\ task[p] = "card" /\ p \notin holding /\ p \notin analyzers
      /\ UNCHANGED <<futures, main, maint>>
      /\ task' = [task EXCEPT ![p] =
                    IF used'[p] = NoAvailableCards THEN "failed" ELSE "start"]
  BY DEF TaskCard, ManagerInv, TaskInv
<1>2. /\ analyzers' = analyzers
      /\ used' = [q \in Processings |-> used'[q]]
      /\ \A q \in Processings \ {p} : used'[q] = used[q]
      /\ aborted => aborted'
      /\ \/ holding' = holding \cup {p}
         \/ holding' = holding /\ (used'[p] = NoAvailableCards \/ aborted')
  BY GetVideocardEffect DEF TaskCard, ManagerInv
<1>3. TaskInv'
  BY <1>1, <1>2 DEF ManagerInv, TaskInv, TaskSteps
<1>4. StopInv'
  BY <1>1, <1>2 DEF ManagerInv, TaskInv, StopInv, RunningHoldsCard
<1>5. FutureInv'
  BY <1>1 DEF ManagerInv, FutureInv, TaskInv, Starting
<1>6. QED
  BY <1>2, <1>3, <1>4, <1>5 DEF ManagerInv

(* The steps of a start task.                                              *)
LEMMA TaskStepInv ==
    ASSUME ManagerInv, ~ aborted, NEW p \in Processings, TaskNext(p)
    PROVE  ManagerInv'
<1>1. CASE TaskConnect(p)
  <2>1. /\ task[p] = "connect" /\ UNCHANGED <<balancerVars, futures, main, maint>>
        /\ task' \in {[task EXCEPT ![p] = "card"], [task EXCEPT ![p] = "failed"]}
    BY <1>1 DEF TaskConnect, threadVars
  <2>2. TaskInv'
    BY <2>1 DEF ManagerInv, TaskInv, TaskSteps, balancerVars
  <2>3. StopInv' /\ FutureInv'
    BY <2>1 DEF ManagerInv, TaskInv, StopInv, FutureInv, RunningHoldsCard,
                Starting, balancerVars
  <2>4. QED
    BY <2>1, <2>2, <2>3 DEF ManagerInv, balancerVars
<1>2. CASE \E prof \in Profiles : TaskCard(p, prof)
  BY <1>2, TaskCardInv
<1>3. CASE TaskStart(p)
  <2>1. /\ task[p] = "start" /\ UNCHANGED <<balancerVars, futures, main, maint>>
        /\ task' \in {[task EXCEPT ![p] = "register"], [task EXCEPT ![p] = "failed"]}
    BY <1>3 DEF TaskStart, threadVars
  <2>2. TaskInv'
    BY <2>1 DEF ManagerInv, TaskInv, TaskSteps, balancerVars
  <2>3. StopInv' /\ FutureInv'
    BY <2>1 DEF ManagerInv, TaskInv, StopInv, FutureInv, RunningHoldsCard,
                Starting, balancerVars
  <2>4. QED
    BY <2>1, <2>2, <2>3 DEF ManagerInv, balancerVars
<1>4. CASE TaskRegister(p)
  <2>1. /\ task[p] = "register" /\ p \in holding
        /\ task' = [task EXCEPT ![p] = "observe"]
        /\ analyzers' = analyzers \cup {p}
        /\ UNCHANGED <<used, holding, aborted, futures, main, maint>>
    BY <1>4 DEF TaskRegister, threadVars, ManagerInv, TaskInv
  <2>2. TaskInv'
    BY <2>1 DEF ManagerInv, TaskInv, TaskSteps
  <2>3. StopInv' /\ FutureInv'
    BY <2>1 DEF ManagerInv, TaskInv, StopInv, FutureInv, RunningHoldsCard, Starting
  <2>4. QED
    BY <2>1, <2>2, <2>3 DEF ManagerInv
<1>5. CASE TaskObserve(p)
  <2>1. /\ task[p] = "observe" /\ UNCHANGED <<balancerVars, futures, main, maint>>
        /\ task' = [task EXCEPT ![p] = "ok"]
    BY <1>5 DEF TaskObserve, threadVars
  <2>2. TaskInv'
    BY <2>1 DEF ManagerInv, TaskInv, TaskSteps, balancerVars
  <2>3. StopInv' /\ FutureInv'
    BY <2>1 DEF ManagerInv, TaskInv, StopInv, FutureInv, RunningHoldsCard,
                Starting, balancerVars
  <2>4. QED
    BY <2>1, <2>2, <2>3 DEF ManagerInv, balancerVars
<1>6. QED
  BY <1>1, <1>2, <1>3, <1>4, <1>5 DEF TaskNext

-----------------------------------------------------------------------------
(* The steps of the maintenance thread: a result is only collected, and    *)
(* its future only erased, when its task is over.                          *)
LEMMA MaintInv == ASSUME ManagerInv, MaintNext PROVE ManagerInv'
<1>1. CASE MaintLock
  BY <1>1, QuietStep DEF MaintLock, startVars
<1>2. CASE MaintUnlock
  BY <1>2, QuietStep DEF MaintUnlock, NoScan, startVars
<1>3. ASSUME NEW p \in Processings, MaintFailure(p)
      PROVE  ManagerInv'
  <2>1. /\ task[p] = "failed" /\ maint.at = "scan"
        /\ maint' = [maint EXCEPT !.left = @ \ {<<"start", p>>}]
        /\ futures' = futures \ {<<"start", p>>}
        /\ UNCHANGED <<balancerVars, task, main>>
    BY <1>3 DEF MaintFailure
  <2>2. TaskInv' /\ StopInv'
    BY <2>1 DEF ManagerInv, TaskInv, StopInv, RunningHoldsCard, balancerVars
  <2>3. FutureInv'
    BY <2>1 DEF ManagerInv, FutureInv, Starting
  <2>4. QED
    BY <2>1, <2>2, <2>3 DEF ManagerInv, balancerVars
<1>4. ASSUME NEW p \in Processings, NEW kind \in FutureKinds, MaintSuccess(p, kind)
      PROVE  ManagerInv'
  <2>1. /\ kind = "start" => task[p] = "ok"
        /\ \/ maint' = maint
           \/ maint'.at = "add" /\ maint'.future = <<kind, p>>
        /\ UNCHANGED <<balancerVars, task, futures, main>>
    BY <1>4 DEF MaintSuccess, startVars
  <2>2. TaskInv' /\ StopInv'
    BY <2>1 DEF ManagerInv, TaskInv, StopInv, RunningHoldsCard, balancerVars
  <2>3. \A q \in Processings :
            maint'.at = "add" /\ maint'.future = <<"start", q>> => task[q] = "ok"
    BY <2>1 DEF ManagerInv, FutureInv
  <2>4. FutureInv'
    BY <2>1, <2>3 DEF ManagerInv, FutureInv, Starting
  <2>5. QED
    BY <2>1, <2>2, <2>4 DEF ManagerInv, balancerVars
<1>5. ASSUME NEW p \in Processings, NEW kind \in FutureKinds, MaintAdd(p, kind)
      PROVE  ManagerInv'
  <2>1. /\ kind = "start" => task[p] = "ok"
        /\ maint'.at = "scan"
        /\ futures' = futures \ {<<kind, p>>}
        /\ UNCHANGED <<balancerVars, task, main>>
    BY <1>5 DEF MaintAdd, ManagerInv, FutureInv
  <2>2. TaskInv' /\ StopInv'
    BY <2>1 DEF ManagerInv, TaskInv, StopInv, RunningHoldsCard, balancerVars
  <2>3. FutureInv'
    BY <2>1 DEF ManagerInv, FutureInv, Starting
  <2>4. QED
    BY <2>1, <2>2, <2>3 DEF ManagerInv, balancerVars
<1>6. QED
  BY <1>1, <1>2, <1>3, <1>4, <1>5 DEF MaintNext

LEMMA ManagerStep == ASSUME ManagerInv, [Next]_vars PROVE ManagerInv'
<1>1. CASE UNCHANGED vars
  <2>1. UNCHANGED <<balancerVars, task, futures, main, maint>>
    BY <1>1 DEF vars, startVars, threadVars
  <2>2. QED
    BY <2>1, QuietStep
<1>2. CASE Next
  <2>1. CASE MainNext
    BY <2>1, MainInv
  <2>2. CASE \E p \in Processings : TaskNext(p)
    BY <1>2, <2>2, TaskStepInv DEF Next
  <2>3. CASE MaintNext
    BY <2>3, MaintInv
  <2>4. CASE \E u \in Urls : SourceLost(u)
    BY <2>4, QuietStep DEF SourceLost, startVars
  <2>5. QED
    BY <1>2, <2>1, <2>2, <2>3, <2>4 DEF Next
<1>3. QED
  BY <1>1, <1>2

THEOREM ManagerInvariance == Spec => []ManagerInv
<1>1. Init => ManagerInv
  BY InitManagerInv
<1>2. ManagerInv /\ [Next]_vars => ManagerInv'
  BY ManagerStep
<1>3. QED
  BY <1>1, <1>2, PTL DEF Spec

-----------------------------------------------------------------------------
(* The threads of the manager, interleaved in any way, use the balancer by *)
(* its protocol: one getVideocard per start, the card returned exactly     *)
(* once and only for a registered analyzer, which is then removed.         *)
LEMMA BalancerStep ==
    ASSUME ManagerInv, [Next]_vars
    PROVE  [Balancer!Next]_(Balancer!vars)
<1>1. CASE UNCHANGED balancerVars
  BY <1>1 DEF balancerVars, Balancer!vars
<1>2. ASSUME NEW p \in Processings, StopCard(p), ~ aborted
      PROVE  Balancer!Next
  <2>1. p \in analyzers \cap holding
    BY <1>2 DEF StopCard, ManagerInv, StopInv
  <2>2. QED
    BY <1>2, <2>1 DEF StopCard, Balancer!Return, Balancer!Next
<1>3. ASSUME NEW p \in Processings, StopRemove(p), ~ aborted
      PROVE  Balancer!Next
  <2>1. p \in analyzers \ holding
    BY <1>3 DEF StopRemove, ManagerInv, StopInv
  <2>2. QED
    BY <1>3, <2>1 DEF StopRemove, Balancer!Remove, Balancer!Next
<1>4. ASSUME NEW p \in Processings, NEW prof \in Profiles, TaskCard(p, prof),
             ~ aborted
      PROVE  Balancer!Next
  <2>1. used[p] = None
    BY <1>4 DEF TaskCard, ManagerInv, TaskInv
  <2>2. QED
    BY <1>4, <2>1 DEF TaskCard, Balancer!Get, Balancer!Next
<1>5. ASSUME NEW p \in Processings, TaskRegister(p), ~ aborted
      PROVE  Balancer!Next
  <2>1. p \in holding \ analyzers
    BY <1>5 DEF TaskRegister, ManagerInv, TaskInv
  <2>2. QED
    BY <1>5, <2>1 DEF TaskRegister, Balancer!Register, Balancer!Next
<1>6. CASE Next /\ MainNext
  BY <1>1, <1>2, <1>3, <1>6
     DEF Next, MainNext, StartAnalyze, OpenJournal, ResumeAnalyze, StopAnalyze,
         StopDisconnect, StopFinish, StopLookup, FailDisconnect, FailUnlock
<1>7. CASE Next /\ \E p \in Processings : TaskNext(p)
  BY <1>1, <1>4, <1>5, <1>7
     DEF Next, TaskNext, TaskConnect, TaskStart, TaskObserve
<1>8. CASE Next /\ (MaintNext \/ \E u \in Urls : SourceLost(u))
  BY <1>1, <1>8 DEF Next, MaintNext, MaintLock, MaintUnlock, MaintFailure,
                    MaintSuccess, MaintAdd, SourceLost
<1>9. CASE UNCHANGED vars
  BY <1>1, <1>9 DEF vars
<1>10. QED
  BY <1>6, <1>7, <1>8, <1>9 DEF Next

THEOREM UsesBalancerProtocol == Spec => UsesBalancer
<1>1. Init => Balancer!Init
  BY DEF Init
<1>2. ManagerInv /\ [Next]_vars => [Balancer!Next]_(Balancer!vars)
  BY BalancerStep
<1>3. QED
  BY <1>1, <1>2, ManagerInvariance, PTL DEF Spec, UsesBalancer, Balancer!Spec

(* Two starts are never inside asyncAnalyzeStart at once.                  *)
THEOREM StartsAreSerial == Spec => []AtMostOneStart
<1>1. ManagerInv => AtMostOneStart
  BY DEF ManagerInv, FutureInv, AtMostOneStart, Starting
<1>2. QED
  BY <1>1, ManagerInvariance, PTL

(* A registered analyzer holds its videocard until stopAnalyze takes it.   *)
THEOREM RunningKeepsCard == Spec => []RunningHoldsCard
<1>1. ManagerInv => RunningHoldsCard
  BY DEF ManagerInv, StopInv
<1>2. QED
  BY <1>1, ManagerInvariance, PTL

-----------------------------------------------------------------------------
(* What the balancer guarantees to callers that keep its protocol it       *)
(* guarantees to the manager.                                              *)
LEMMA SameCardinality == \A S : Balancer!Cardinality(S) = BP!Cardinality(S)
BY DEF Balancer!Cardinality, BP!Cardinality

LEMMA SameGetVideocard ==
    ASSUME NEW p \in Processings, NEW prof \in Profiles,
           Balancer!GetVideocard(p, prof)
    PROVE  BP!GetVideocard(p, prof)
<1>1. \A c : Balancer!HasRoom(c) <=> BP!HasRoom(c)
  BY SameCardinality DEF Balancer!HasRoom, BP!HasRoom
<1>2. Balancer!OpenCards(prof) = BP!OpenCards(prof)
  BY <1>1 DEF Balancer!OpenCards, BP!OpenCards
<1>3. Balancer!Alive = BP!Alive
  BY DEF Balancer!Alive, BP!Alive
<1>4. Balancer!HasDpfProcessor(prof) <=> BP!HasDpfProcessor(prof)
  BY DEF Balancer!HasDpfProcessor, BP!HasDpfProcessor
<1>5. CASE Balancer!ShareCards(p, prof)
  BY <1>2, <1>4, <1>5, ZenonT(60) DEF Balancer!GetVideocard, BP!GetVideocard,
                          Balancer!ShareCards, BP!ShareCards
<1>6. CASE Balancer!AssertFails(p, prof)
  BY <1>2, <1>4, <1>6 DEF Balancer!GetVideocard, BP!GetVideocard,
                          Balancer!AssertFails, BP!AssertFails
<1>7. CASE Balancer!NewCard(p, prof)
  BY <1>2, <1>3, <1>7 DEF Balancer!GetVideocard, BP!GetVideocard,
                          Balancer!NewCard, BP!NewCard
<1>8. CASE Balancer!NoCardLeft(p, prof)
  BY <1>2, <1>8 DEF Balancer!GetVideocard, BP!GetVideocard,
                    Balancer!NoCardLeft, BP!NoCardLeft
<1>9. QED
  BY <1>5, <1>6, <1>7, <1>8 DEF Balancer!GetVideocard

LEMMA SameBalancer ==
    /\ Balancer!Init => BP!Init
    /\ [Balancer!Next]_(Balancer!vars) => [BP!Next]_(BP!vars)
    /\ BP!LoadBounded => Balancer!LoadBounded
<1>1. Balancer!Init => BP!Init
  BY DEF Balancer!Init, BP!Init
<1>2. \A p \in Processings : Balancer!Return(p) => BP!Return(p)
  BY DEF Balancer!Return, Balancer!ReturnVideocard, Balancer!LastOn,
         Balancer!DeleteCard, Balancer!LeaveCard,
         BP!Return, BP!ReturnVideocard, BP!LastOn, BP!DeleteCard, BP!LeaveCard
<1>3. Balancer!Next => BP!Next
  BY <1>2, SameGetVideocard
     DEF Balancer!Next, Balancer!Get, Balancer!Register, Balancer!Remove,
         BP!Next, BP!Get, BP!Register, BP!Remove
<1>4. [Balancer!Next]_(Balancer!vars) => [BP!Next]_(BP!vars)
  BY <1>3 DEF Balancer!vars, BP!vars
<1>5. BP!LoadBounded => Balancer!LoadBounded
  <2> SUFFICES ASSUME BP!LoadBounded, NEW i \in Idxs
               PROVE  Balancer!Cardinality({p \in holding : used[p] = i}) <= MaxPerCard
    BY DEF Balancer!LoadBounded
  <2>1. BP!Cardinality({p \in holding : used[p] = i}) <= MaxPerCard
    BY DEF BP!LoadBounded
  <2>2. QED
    BY <2>1, SameCardinality
<1>6. QED
  BY <1>1, <1>4, <1>5

(* No videocard ever runs more than PROCESSING_MAX_PROCESSINGS_PER_VIDEOCARD *)
(* analyzers, however starts and stops interleave.                         *)
THEOREM ManagerLoadIsBounded == Spec => []Balancer!LoadBounded
<1>1. BP!BalancerAssumption
  BY ManagerAssumption DEF Balancer!BalancerAssumption, BP!BalancerAssumption
<1>2. BP!Spec => []BP!LoadBounded
  BY <1>1, BP!LoadIsBounded, PTL
<1>3. QED
  BY <1>2, UsesBalancerProtocol, SameBalancer, PTL
     DEF UsesBalancer, Balancer!Spec, BP!Spec

-----------------------------------------------------------------------------
(* The types of the manager's own variables.  The steps of one thread      *)
(* leave most of the others' variables alone.                              *)
StartTypes ==
    /\ urlOf \in [Processings -> Urls \cup {None}]
    /\ task \in [Processings -> TaskSteps]
    /\ futures \subseteq FutureKinds \X Processings
    /\ failedInFuture \subseteq Processings
    /\ \A p \in Processings : task[p] # "none" => urlOf[p] \in Urls

ThreadTypes ==
    /\ main \in [at : MainSteps, proc : Processings \cup {None}]
    /\ maint \in [at : MaintSteps,
                  future : (FutureKinds \X Processings) \cup {None},
                  left : SUBSET (FutureKinds \X Processings)]
    /\ muStart \in {"free", "maint"}
    /\ muAnalyzers \in {"free", "callback"}

EffectTypes ==
    /\ sourceRefs \in [Processings -> Int]
    /\ observed \subseteq Urls
    /\ journal \subseteq Processings
    /\ reported \in [Processings -> SUBSET {"STATE", "CRUSHED"}]
    /\ eventProcs \subseteq Processings

DeadType == dead \in BOOLEAN

ManagerTypes == StartTypes /\ ThreadTypes /\ EffectTypes /\ DeadType

LEMMA InitManagerTypes == Init => ManagerTypes
<1>1. Init => DeadType
  BY Zenon DEF Init, DeadType
<1>2. QED
  BY <1>1 DEF Init, ManagerTypes, StartTypes, ThreadTypes, EffectTypes, TaskSteps,
     MainSteps, MaintSteps, Idle, NoScan

(* What a data race may do to the server.                                  *)
LEMMA OutcomesAreBoolean ==
    ASSUME DeadType
    PROVE  RaceOutcomes \subseteq BOOLEAN /\ BalancerOutcomes \subseteq BOOLEAN
BY Zenon DEF DeadType, RaceOutcomes, BalancerOutcomes

LEMMA MainTypes == ASSUME ManagerTypes, MainNext PROVE ManagerTypes'
<1> PICK p \in Processings :
        \/ \E u \in Urls : StartAnalyze(p, u)
        \/ OpenJournal(p) \/ ResumeAnalyze(p) \/ StopAnalyze(p)
        \/ StopCard(p) \/ StopRemove(p) \/ StopDisconnect(p) \/ StopFinish(p)
        \/ StopLookup(p) \/ FailDisconnect(p) \/ FailUnlock(p)
  BY DEF MainNext
<1>1. DeadType'
  <2>1. dead' = dead \/ dead' \in RaceOutcomes \/ dead' \in BalancerOutcomes
    BY DEF StartAnalyze, OpenJournal, ResumeAnalyze, StopAnalyze, StopCard,
       StopRemove, StopDisconnect, StopFinish, StopLookup, FailDisconnect, FailUnlock
  <2>2. QED
    BY <2>1, OutcomesAreBoolean, Zenon DEF ManagerTypes, DeadType
<1>2. StartTypes'
  BY DEF StartAnalyze, OpenJournal, ResumeAnalyze, StopAnalyze, StopCard,
     StopRemove, StopDisconnect, StopFinish, StopLookup, FailDisconnect, FailUnlock,
     startVars, ManagerTypes, StartTypes, TaskSteps, FutureKinds
<1>3. ThreadTypes'
  BY DEF StartAnalyze, OpenJournal, ResumeAnalyze, StopAnalyze, StopCard,
     StopRemove, StopDisconnect, StopFinish, StopLookup, FailDisconnect, FailUnlock,
     ManagerTypes, ThreadTypes, MainSteps, Idle
<1>4. EffectTypes'
  BY DEF StartAnalyze, OpenJournal, ResumeAnalyze, StopAnalyze, StopCard,
     StopRemove, StopDisconnect, StopFinish, StopLookup, FailDisconnect, FailUnlock,
     effectVars, ManagerTypes, EffectTypes
<1>5. QED
  BY <1>1, <1>2, <1>3, <1>4 DEF ManagerTypes

LEMMA TaskTypes ==
    ASSUME ManagerTypes, NEW p \in Processings, TaskNext(p)
    PROVE  ManagerTypes'
<1>1. DeadType'
  <2>1. dead' = dead \/ dead' \in BalancerOutcomes
    BY DEF TaskNext, TaskConnect, TaskCard, TaskStart, TaskRegister, TaskObserve,
       threadVars
  <2>2. QED
    BY <2>1, OutcomesAreBoolean, Zenon DEF ManagerTypes, DeadType
<1>2. StartTypes'
  BY DEF TaskNext, TaskConnect, TaskCard, TaskStart, TaskRegister, TaskObserve,
     ManagerTypes, StartTypes, TaskSteps
<1>3. ThreadTypes'
  BY DEF TaskNext, TaskConnect, TaskCard, TaskStart, TaskRegister, TaskObserve,
     threadVars, ManagerTypes, ThreadTypes
<1>4. EffectTypes'
  <2>1. CASE TaskObserve(p)
    <3>1. urlOf[p] \in Urls
      BY <2>1 DEF TaskObserve, ManagerTypes, StartTypes
    <3>2. QED
      BY <2>1, <3>1 DEF TaskObserve, ManagerTypes, EffectTypes
  <2>2. CASE ~ TaskObserve(p)
    BY <2>2 DEF TaskNext, TaskConnect, TaskCard, TaskStart, TaskRegister,
       effectVars, ManagerTypes, EffectTypes
  <2>3. QED
    BY <2>1, <2>2
<1>5. QED
  BY <1>1, <1>2, <1>3, <1>4 DEF ManagerTypes

LEMMA MaintTypes == ASSUME ManagerTypes, MaintNext PROVE ManagerTypes'
<1>1. DeadType'
  <2>1. dead' = dead \/ dead' \in {dead, TRUE}
    BY DEF MaintNext, MaintLock, MaintUnlock, MaintFailure, MaintSuccess, MaintAdd
  <2>2. QED
    BY <2>1, Zenon DEF ManagerTypes, DeadType
<1>2. StartTypes'
  BY DEF MaintNext, MaintLock, MaintUnlock, MaintFailure, MaintSuccess, MaintAdd,
     startVars, ManagerTypes, StartTypes
<1>3. ThreadTypes'
  <2>1. CASE MaintLock \/ MaintUnlock
    BY <2>1 DEF MaintLock, MaintUnlock, NoScan, ManagerTypes, ThreadTypes, StartTypes,
       MaintSteps
  <2>2. ASSUME NEW p \in Processings, MaintFailure(p) PROVE ThreadTypes'
    BY <2>2 DEF MaintFailure, ManagerTypes, ThreadTypes
  <2>3. ASSUME NEW p \in Processings, NEW kind \in FutureKinds,
               MaintSuccess(p, kind) \/ MaintAdd(p, kind)
        PROVE  ThreadTypes'
    BY <2>3 DEF MaintSuccess, MaintAdd, ManagerTypes, ThreadTypes, MaintSteps
  <2>4. QED
    BY <2>1, <2>2, <2>3 DEF MaintNext
<1>4. EffectTypes'
  <2>1. CASE MaintLock \/ MaintUnlock
    BY <2>1 DEF MaintLock, MaintUnlock, effectVars, ManagerTypes, EffectTypes
  <2>2. ASSUME NEW p \in Processings, NEW kind \in FutureKinds,
               MaintFailure(p) \/ MaintSuccess(p, kind) \/ MaintAdd(p, kind)
        PROVE  EffectTypes'
    <3>1. /\ UNCHANGED <<sourceRefs, observed>> /\ journal' \subseteq journal
          /\ eventProcs' \subseteq eventProcs \cup {p}
          /\ \/ reported' = reported
             \/ reported' = [reported EXCEPT ![p] = @ \cup {"CRUSHED"}]
             \/ reported' = [reported EXCEPT ![p] = @ \cup {"STATE"}]
      BY <2>2 DEF MaintFailure, MaintSuccess, MaintAdd
    <3>2. QED
      BY <3>1 DEF ManagerTypes, EffectTypes
  <2>3. QED
    BY <2>1, <2>2 DEF MaintNext, FutureKinds
<1>5. QED
  BY <1>1, <1>2, <1>3, <1>4 DEF ManagerTypes

LEMMA StepManagerTypes == ManagerTypes /\ [Next]_vars => ManagerTypes'
<1>1. SUFFICES ASSUME ManagerTypes, [Next]_vars PROVE ManagerTypes'
  OBVIOUS
<1>2. CASE UNCHANGED vars
  <2>1. DeadType'
    BY <1>1, <1>2, Zenon DEF vars, threadVars, ManagerTypes, DeadType
  <2>2. QED
    BY <1>1, <1>2, <2>1 DEF vars, startVars, threadVars, effectVars, ManagerTypes,
       StartTypes, ThreadTypes, EffectTypes
<1>3. CASE \E u \in Urls : SourceLost(u)
  <2>1. DeadType'
    BY <1>1, <1>3, Zenon DEF SourceLost, ManagerTypes, DeadType
  <2>2. QED
    BY <1>1, <1>3, <2>1 DEF SourceLost, startVars, effectVars, ManagerTypes,
       StartTypes, ThreadTypes, EffectTypes
<1>4. QED
  BY <1>1, <1>2, <1>3, MainTypes, TaskTypes, MaintTypes DEF Next

LEMMA ManagerTypesInvariant == Spec => []ManagerTypes
<1>1. QED
  BY InitManagerTypes, StepManagerTypes, PTL DEF Spec

(* The manager keeps its types; those of the videocards are the balancer's *)
(* own theorem.                                                            *)
THEOREM ManagerTypeCorrect == Spec => []TypeOK
<1>1. BP!Spec => []BP!TypeOK
  BY ManagerAssumption, BP!TypeCorrect, PTL
  DEF Balancer!BalancerAssumption, BP!BalancerAssumption
<1>2. BP!TypeOK => Balancer!TypeOK
  BY Zenon DEF BP!TypeOK, Balancer!TypeOK, BP!Videocard, Balancer!Videocard
<1>3. ManagerTypes /\ Balancer!TypeOK => TypeOK
  BY Zenon DEF ManagerTypes, StartTypes, ThreadTypes, EffectTypes, DeadType, TypeOK
<1>4. QED
  BY <1>1, <1>2, <1>3, ManagerTypesInvariant, UsesBalancerProtocol, SameBalancer, PTL
     DEF UsesBalancer, Balancer!Spec, BP!Spec

-----------------------------------------------------------------------------
(* What the clients and the journal are told of a start.  A result is only *)
(* forgotten after its event was sent.                                     *)
MainAt(p, s) == main = [at |-> s, proc |-> p]
AddsFor(p) == \E kind \in FutureKinds : maint.at = "add" /\ maint.future = <<kind, p>>

OutcomeInv ==
    /\ OutcomeIsPending
    /\ \A p \in Processings : AddsFor(p) => "STATE" \in reported[p]

(* From its command on, a start that has not failed is in the journal; only *)
(* the stop of a registered analyzer takes it out again, and by then it can *)
(* neither be registered nor reported running any more.                    *)
CompleteInv ==
    \A p \in Processings :
        /\ task[p] \in {"connect", "card", "start", "register"} \/ p \in analyzers =>
              p \in journal \/ MainAt(p, "openJournal")
        /\ "STATE" \in reported[p] => task[p] \in {"observe", "ok"}
        /\ MainAt(p, "stopDisconnect") \/ MainAt(p, "stopFinish") =>
              p \notin analyzers /\ task[p] \in {"observe", "ok"}
        /\ p \in analyzers /\ "STATE" \in reported[p] => p \in eventProcs \/ AddsFor(p)

(* A source is given back by the stop of the registered analyzer, which    *)
(* happens once, and by a stop that finds the start in                     *)
(* m_analyzersFailedInFuture, which erases it.                             *)
StopReleased(p) ==
    IF task[p] \in {"observe", "ok"} /\ p \notin analyzers /\ ~ MainAt(p, "stopDisconnect")
    THEN 1 ELSE 0
FailReleased(p) ==
    IF task[p] = "none" \/ p \in failedInFuture \/ MainAt(p, "failDisconnect")
    THEN 0 ELSE 1
TakenAtMost(p) == IF task[p] \in {"none", "connect"} THEN 0 ELSE 1
TakenAtLeast(p) == IF task[p] \in {"none", "connect", "failed"} THEN 0 ELSE 1

RefsInv ==
    \A p \in Processings :
        /\ sourceRefs[p] \in Int
        /\ sourceRefs[p] <= TakenAtMost(p)
        /\ sourceRefs[p] >= TakenAtLeast(p) - StopReleased(p) - FailReleased(p)
        /\ MainAt(p, "stopLookup") \/ MainAt(p, "failDisconnect") => task[p] # "none"
        /\ MainAt(p, "failDisconnect") => p \notin failedInFuture

EffectInv == OutcomeInv /\ CompleteInv /\ RefsInv

LEMMA InitEffects == Init => EffectInv
BY DEF Init, Balancer!Init, EffectInv, OutcomeInv, OutcomeIsPending, CompleteInv,
       RefsInv, MainAt, AddsFor, StopReleased, FailReleased, TakenAtMost,
       TakenAtLeast, Idle, NoScan

(* Where the main thread is, it is at no other step and for no other start. *)
LEMMA MainAtOne ==
    ASSUME NEW p, NEW s
    PROVE  /\ MainAt(p, s) => \A q, t : MainAt(q, t) <=> q = p /\ t = s
           /\ MainAt(p, s)' => \A q, t : MainAt(q, t)' <=> q = p /\ t = s
           /\ main = Idle => \A q : \A t \in MainSteps \ {"idle"} : ~ MainAt(q, t)
           /\ main' = Idle => \A q : \A t \in MainSteps \ {"idle"} : ~ MainAt(q, t)'
           /\ main' = main => \A q, t : MainAt(q, t)' <=> MainAt(q, t)
BY DEF MainAt, Idle

(* No step of a task or of the main thread collects a result.              *)
LEMMA OutcomeStep ==
    ASSUME ManagerTypes, OutcomeInv, maint' = maint,
           reported' = reported, futures \subseteq futures',
           \A p \in Processings : task[p] = "none" /\ task'[p] # "none" =>
                                     <<"start", p>> \in futures'
    PROVE  OutcomeInv'
BY DEF OutcomeInv, OutcomeIsPending, AddsFor

LEMMA MainOutcome == ASSUME ManagerTypes, OutcomeInv, MainNext PROVE OutcomeInv'
<1> PICK p \in Processings :
        \/ \E u \in Urls : StartAnalyze(p, u)
        \/ OpenJournal(p) \/ ResumeAnalyze(p) \/ StopAnalyze(p)
        \/ StopCard(p) \/ StopRemove(p) \/ StopDisconnect(p) \/ StopFinish(p)
        \/ StopLookup(p) \/ FailDisconnect(p) \/ FailUnlock(p)
  BY DEF MainNext
<1>1. CASE \E u \in Urls : StartAnalyze(p, u)
  <2>1. /\ maint' = maint /\ reported' = reported /\ task' = [task EXCEPT ![p] = "connect"]
        /\ futures' = futures \cup {<<"start", p>>}
    BY <1>1 DEF StartAnalyze, effectVars
  <2>2. QED
    BY <2>1, OutcomeStep DEF ManagerTypes, StartTypes
<1>2. CASE ~ \E u \in Urls : StartAnalyze(p, u)
  <2>1. maint' = maint /\ reported' = reported /\ task' = task /\ futures \subseteq futures'
    BY <1>2 DEF OpenJournal, ResumeAnalyze, StopAnalyze, StopCard, StopRemove,
       StopDisconnect, StopFinish, StopLookup, FailDisconnect, FailUnlock, startVars,
       effectVars
  <2>2. QED
    BY <2>1, OutcomeStep
<1>3. QED
  BY <1>1, <1>2

LEMMA TaskOutcome ==
    ASSUME ManagerTypes, OutcomeInv, NEW p \in Processings, TaskNext(p)
    PROVE  OutcomeInv'
<1>1. maint' = maint /\ reported' = reported /\ futures' = futures
  BY DEF TaskNext, TaskConnect, TaskCard, TaskStart, TaskRegister, TaskObserve,
     threadVars, effectVars
<1>2. \A q \in Processings : task[q] = "none" => task'[q] = "none"
  BY DEF TaskNext, TaskConnect, TaskCard, TaskStart, TaskRegister, TaskObserve,
     ManagerTypes, StartTypes
<1>3. QED
  BY <1>1, <1>2, OutcomeStep

LEMMA MaintOutcome == ASSUME ManagerTypes, OutcomeInv, MaintNext PROVE OutcomeInv'
<1>1. CASE MaintLock \/ MaintUnlock
  BY <1>1 DEF MaintLock, MaintUnlock, NoScan, startVars, effectVars, OutcomeInv,
     OutcomeIsPending, AddsFor
<1>2. ASSUME NEW p \in Processings, MaintFailure(p) PROVE OutcomeInv'
  <2>1. /\ maint.at = "scan" /\ maint'.at = "scan" /\ task' = task
        /\ futures' = futures \ {<<"start", p>>}
        /\ \A q \in Processings : q # p => reported'[q] = reported[q]
        /\ reported'[p] # {}
    BY <1>2 DEF MaintFailure, ManagerTypes, EffectTypes, ThreadTypes
  <2>2. QED
    BY <2>1 DEF OutcomeInv, OutcomeIsPending, AddsFor
<1>3. ASSUME NEW p \in Processings, NEW kind \in FutureKinds, MaintSuccess(p, kind)
      PROVE  OutcomeInv'
  <2>1. /\ maint.at = "scan" /\ task' = task /\ futures' = futures
        /\ \A q \in Processings : reported[q] \subseteq reported'[q]
        /\ \/ maint' = maint
           \/ /\ maint' = [at |-> "add", future |-> <<kind, p>>, left |-> maint.left]
              /\ "STATE" \in reported'[p]
    BY <1>3 DEF MaintSuccess, startVars, ManagerTypes, EffectTypes
  <2>2. QED
    BY <2>1 DEF OutcomeInv, OutcomeIsPending, AddsFor
<1>4. ASSUME NEW p \in Processings, NEW kind \in FutureKinds, MaintAdd(p, kind)
      PROVE  OutcomeInv'
  <2>1. /\ AddsFor(p) /\ maint'.at = "scan" /\ task' = task /\ reported' = reported
        /\ futures' = futures \ {<<kind, p>>}
    BY <1>4 DEF MaintAdd, AddsFor
  <2>2. QED
    BY <2>1 DEF OutcomeInv, OutcomeIsPending, AddsFor
<1>5. QED
  BY <1>1, <1>2, <1>3, <1>4 DEF MaintNext

(* The main thread: a stop takes a start out of the journal only when it   *)
(* cannot be registered any more.                                          *)
LEMMA MainComplete ==
    ASSUME ManagerTypes, ManagerInv, CompleteInv, MainNext
    PROVE  CompleteInv'
<1> PICK p \in Processings :
        \/ \E u \in Urls : StartAnalyze(p, u)
        \/ OpenJournal(p) \/ ResumeAnalyze(p) \/ StopAnalyze(p)
        \/ StopCard(p) \/ StopRemove(p) \/ StopDisconnect(p) \/ StopFinish(p)
        \/ StopLookup(p) \/ FailDisconnect(p) \/ FailUnlock(p)
  BY DEF MainNext
<1>0. reported' = reported /\ \A q : AddsFor(q)' <=> AddsFor(q)
  BY DEF StartAnalyze, OpenJournal, ResumeAnalyze, StopAnalyze, StopCard,
     StopRemove, StopDisconnect, StopFinish, StopLookup, FailDisconnect, FailUnlock,
     effectVars, AddsFor
<1>1. CASE \E u \in Urls : StartAnalyze(p, u)
  <2>1. /\ main = Idle /\ MainAt(p, "openJournal")' /\ task[p] = "none"
        /\ task' = [task EXCEPT ![p] = "connect"]
        /\ UNCHANGED <<analyzers, journal, eventProcs>>
    BY <1>1 DEF StartAnalyze, MainAt, balancerVars, effectVars
  <2>2. \A q \in Processings : q # p => task'[q] = task[q]
    BY <2>1 DEF ManagerTypes, StartTypes
  <2>3. p \notin analyzers /\ "STATE" \notin reported[p]
    BY <2>1 DEF ManagerInv, TaskInv, CompleteInv
  <2>4. \A q : ~ MainAt(q, "openJournal")
    BY <2>1, MainAtOne DEF MainSteps
  <2>5. \A q : ~ MainAt(q, "stopDisconnect")' /\ ~ MainAt(q, "stopFinish")'
    BY <2>1, MainAtOne
  <2>6. QED
    BY <1>0, <2>1, <2>2, <2>3, <2>4, <2>5 DEF CompleteInv
<1>2. CASE OpenJournal(p)
  <2>1. /\ MainAt(p, "openJournal") /\ main' = Idle /\ journal' = journal \cup {p}
        /\ UNCHANGED <<task, analyzers, eventProcs>>
    BY <1>2 DEF OpenJournal, MainAt, balancerVars, startVars
  <2>2. \A q : /\ MainAt(q, "openJournal") => q = p
               /\ ~ MainAt(q, "stopDisconnect")' /\ ~ MainAt(q, "stopFinish")'
    BY <2>1, MainAtOne DEF MainSteps
  <2>3. QED
    BY <1>0, <2>1, <2>2 DEF CompleteInv
<1>3. CASE ResumeAnalyze(p) \/ StopCard(p) \/ StopAnalyze(p) \/ StopLookup(p)
             \/ FailDisconnect(p) \/ FailUnlock(p)
  <2>1. UNCHANGED <<task, analyzers, journal, eventProcs>>
    BY <1>3 DEF ResumeAnalyze, StopCard, StopAnalyze, StopLookup, FailDisconnect,
       FailUnlock, balancerVars, startVars, effectVars, Balancer!ReturnVideocard
  <2>2. \A q : MainAt(q, "openJournal") => MainAt(q, "openJournal")'
    BY <1>3 DEF ResumeAnalyze, StopCard, StopAnalyze, StopLookup, FailDisconnect,
       FailUnlock, MainAt, Idle
  <2>3. \A q : \A s \in {"stopDisconnect", "stopFinish"} : MainAt(q, s)' => MainAt(q, s)
    BY <1>3 DEF ResumeAnalyze, StopCard, StopAnalyze, StopLookup, FailDisconnect,
       FailUnlock, MainAt, Idle
  <2>4. QED
    BY <1>0, <2>1, <2>2, <2>3 DEF CompleteInv
<1>4. CASE StopRemove(p)
  <2>1. /\ main = [at |-> "stopRemove", proc |-> p] /\ MainAt(p, "stopDisconnect")'
        /\ analyzers' = analyzers \ {p} /\ UNCHANGED <<task, journal, eventProcs>>
    BY <1>4 DEF StopRemove, MainAt, startVars, effectVars
  <2>2. task[p] \in {"observe", "ok"}
    BY <2>1 DEF ManagerInv, StopInv, TaskInv
  <2>3. \A q : ~ MainAt(q, "openJournal") /\ ~ MainAt(q, "stopFinish")'
               /\ (MainAt(q, "stopDisconnect")' => q = p)
    BY <2>1, MainAtOne DEF MainAt
  <2>4. QED
    BY <1>0, <2>1, <2>2, <2>3 DEF CompleteInv
<1>5. CASE StopDisconnect(p)
  <2>1. /\ MainAt(p, "stopDisconnect") /\ MainAt(p, "stopFinish")'
        /\ UNCHANGED <<task, analyzers, journal, eventProcs>>
    BY <1>5 DEF StopDisconnect, MainAt, balancerVars, startVars
  <2>2. \A q : /\ ~ MainAt(q, "openJournal") /\ ~ MainAt(q, "stopDisconnect")'
               /\ (MainAt(q, "stopFinish")' => q = p)
    BY <2>1, MainAtOne
  <2>3. QED
    BY <1>0, <2>1, <2>2 DEF CompleteInv
<1>6. CASE StopFinish(p)
  <2>1. /\ MainAt(p, "stopFinish") /\ main' = Idle
        /\ journal' = journal \ {p} /\ eventProcs' = eventProcs \ {p}
        /\ UNCHANGED <<task, analyzers>>
    BY <1>6 DEF StopFinish, MainAt, balancerVars, startVars
  <2>2. p \notin analyzers /\ task[p] \in {"observe", "ok"}
    BY <2>1 DEF CompleteInv
  <2>3. \A q : /\ ~ MainAt(q, "openJournal") /\ ~ MainAt(q, "stopDisconnect")'
               /\ ~ MainAt(q, "stopFinish")'
    BY <2>1, MainAtOne DEF MainSteps
  <2>4. QED
    BY <1>0, <2>1, <2>2, <2>3 DEF CompleteInv
<1>7. QED
  BY <1>1, <1>2, <1>3, <1>4, <1>5, <1>6

(* What the step of a task does to the state the clients can see.          *)
TaskMoves(p) ==
    /\ UNCHANGED <<main, maint, journal, reported, eventProcs>>
    /\ \A q \in Processings : q # p => task'[q] = task[q]
    /\ \/ /\ analyzers' = analyzers
          /\ \/ task[p] = "connect" /\ task'[p] \in {"card", "failed"}
             \/ task[p] = "card" /\ task'[p] \in {"start", "failed"}
             \/ task[p] = "start" /\ task'[p] \in {"register", "failed"}
             \/ task[p] = "observe" /\ task'[p] = "ok"
       \/ /\ analyzers' = analyzers \cup {p}
          /\ task[p] = "register" /\ task'[p] = "observe"

LEMMA TaskStepMoves ==
    ASSUME ManagerTypes, ManagerInv, NEW p \in Processings, TaskNext(p)
    PROVE  TaskMoves(p)
<1>1. CASE TaskConnect(p)
  BY <1>1 DEF TaskConnect, balancerVars, threadVars, ManagerTypes, StartTypes, TaskMoves
<1>2. ASSUME NEW prof \in Profiles, TaskCard(p, prof) PROVE TaskMoves(p)
  <2>1. analyzers' = analyzers
    BY <1>2 DEF TaskCard, Balancer!GetVideocard
  <2>2. QED
    BY <1>2, <2>1 DEF TaskCard, ManagerTypes, StartTypes, TaskMoves
<1>3. CASE TaskStart(p)
  BY <1>3 DEF TaskStart, balancerVars, threadVars, effectVars, ManagerTypes, StartTypes,
     TaskMoves
<1>4. CASE TaskRegister(p)
  BY <1>4 DEF TaskRegister, threadVars, effectVars, ManagerTypes, StartTypes, TaskMoves
<1>5. CASE TaskObserve(p)
  BY <1>5 DEF TaskObserve, balancerVars, threadVars, ManagerTypes, StartTypes, TaskMoves
<1>6. QED
  BY <1>1, <1>2, <1>3, <1>4, <1>5 DEF TaskNext

LEMMA TaskComplete ==
    ASSUME ManagerTypes, ManagerInv, CompleteInv, NEW p \in Processings, TaskNext(p)
    PROVE  CompleteInv'
<1>1. TaskMoves(p)
  BY TaskStepMoves
<1>2. \A q, s : (MainAt(q, s)' <=> MainAt(q, s)) /\ (AddsFor(q)' <=> AddsFor(q))
  BY <1>1 DEF MainAt, AddsFor, TaskMoves
<1>3. task[p] # "observe" => /\ "STATE" \notin reported[p] /\ p \notin analyzers
                            /\ ~ MainAt(p, "stopDisconnect") /\ ~ MainAt(p, "stopFinish")
  BY <1>1 DEF CompleteInv, ManagerInv, TaskInv, TaskMoves
<1>4. QED
  BY <1>1, <1>2, <1>3 DEF CompleteInv, TaskMoves

LEMMA MaintComplete ==
    ASSUME ManagerTypes, ManagerInv, CompleteInv, MaintNext
    PROVE  CompleteInv'
<1>0. /\ UNCHANGED <<task, analyzers, main>> /\ \A q, s : MainAt(q, s)' <=> MainAt(q, s)
  BY DEF MaintNext, MaintLock, MaintUnlock, MaintFailure, MaintSuccess, MaintAdd,
     balancerVars, startVars, MainAt
<1>1. CASE MaintLock \/ MaintUnlock
  <2>1. UNCHANGED <<journal, reported, eventProcs>> /\ \A q : ~ AddsFor(q)
    BY <1>1 DEF MaintLock, MaintUnlock, NoScan, effectVars, AddsFor
  <2>2. QED
    BY <1>0, <2>1 DEF CompleteInv
<1>2. ASSUME NEW p \in Processings, MaintFailure(p) PROVE CompleteInv'
  <2>1. /\ task[p] = "failed" /\ journal' = journal \ {p} /\ eventProcs' = eventProcs
        /\ \A q \in Processings : "STATE" \in reported'[q] <=> "STATE" \in reported[q]
    BY <1>2 DEF MaintFailure, ManagerTypes, EffectTypes
  <2>2. \A q : ~ AddsFor(q)
    BY <1>2 DEF MaintFailure, AddsFor
  <2>3. p \notin analyzers
    BY <2>1 DEF ManagerInv, TaskInv
  <2>4. QED
    BY <1>0, <2>1, <2>2, <2>3 DEF CompleteInv
<1>3. ASSUME NEW p \in Processings, NEW kind \in FutureKinds, MaintSuccess(p, kind)
      PROVE  CompleteInv'
  <2>1. /\ UNCHANGED <<journal, eventProcs>> /\ \A q : ~ AddsFor(q)
        /\ \/ reported' = reported
           \/ /\ p \in analyzers /\ AddsFor(p)'
              /\ \A q \in Processings : q # p => reported'[q] = reported[q]
    BY <1>3 DEF MaintSuccess, AddsFor, ManagerTypes, EffectTypes
  <2>2. p \in analyzers => task[p] \in {"observe", "ok"}
    BY DEF ManagerInv, TaskInv
  <2>3. QED
    BY <1>0, <2>1, <2>2 DEF CompleteInv
<1>4. ASSUME NEW p \in Processings, NEW kind \in FutureKinds, MaintAdd(p, kind)
      PROVE  CompleteInv'
  <2>1. /\ UNCHANGED <<journal, reported>> /\ eventProcs' = eventProcs \cup {p}
        /\ \A q : AddsFor(q) => q = p
    BY <1>4 DEF MaintAdd, AddsFor
  <2>2. QED
    BY <1>0, <2>1 DEF CompleteInv
<1>5. QED
  BY <1>1, <1>2, <1>3, <1>4 DEF MaintNext

(* The counting, with the definitions the steps below unfold.              *)
RefsOf(p) ==
    /\ sourceRefs[p] \in Int
    /\ sourceRefs[p] <= TakenAtMost(p)
    /\ sourceRefs[p] >= TakenAtLeast(p) - StopReleased(p) - FailReleased(p)

(* A step that leaves a start's own part of the state alone.               *)
SameRefsOf(q) ==
    /\ sourceRefs'[q] = sourceRefs[q] /\ task'[q] = task[q]
    /\ q \in analyzers' <=> q \in analyzers
    /\ q \in failedInFuture' <=> q \in failedInFuture
    /\ MainAt(q, "stopDisconnect")' <=> MainAt(q, "stopDisconnect")
    /\ MainAt(q, "failDisconnect")' <=> MainAt(q, "failDisconnect")

LEMMA SameRefs == ASSUME NEW q, RefsOf(q), SameRefsOf(q) PROVE RefsOf(q)'
BY DEF SameRefsOf, RefsOf, StopReleased, FailReleased, TakenAtMost, TakenAtLeast

LEMMA MainRefs ==
    ASSUME ManagerTypes, ManagerInv, CompleteInv, RefsInv, MainNext
    PROVE  RefsInv'
<1> PICK p \in Processings :
        \/ \E u \in Urls : StartAnalyze(p, u)
        \/ OpenJournal(p) \/ ResumeAnalyze(p) \/ StopAnalyze(p)
        \/ StopCard(p) \/ StopRemove(p) \/ StopDisconnect(p) \/ StopFinish(p)
        \/ StopLookup(p) \/ FailDisconnect(p) \/ FailUnlock(p)
  BY DEF MainNext
<1>0. \A q \in Processings :
         /\ RefsOf(q)
         /\ MainAt(q, "stopLookup") \/ MainAt(q, "failDisconnect") => task[q] # "none"
         /\ MainAt(q, "failDisconnect") => q \notin failedInFuture
  BY DEF RefsInv, RefsOf
<1>00. SUFFICES \A q \in Processings :
         /\ RefsOf(q)'
         /\ MainAt(q, "stopLookup")' \/ MainAt(q, "failDisconnect")' => task'[q] # "none"
         /\ MainAt(q, "failDisconnect")' => q \notin failedInFuture'
  BY DEF RefsInv, RefsOf
<1>1. CASE \E u \in Urls : StartAnalyze(p, u)
  <2>1. /\ main = Idle /\ MainAt(p, "openJournal")' /\ task[p] = "none"
        /\ task' = [task EXCEPT ![p] = "connect"]
        /\ failedInFuture' = failedInFuture \cup {p}
        /\ UNCHANGED <<analyzers, sourceRefs>>
    BY <1>1 DEF StartAnalyze, MainAt, balancerVars, effectVars
  <2>2. task'[p] = "connect" /\ \A q \in Processings : q # p => task'[q] = task[q]
    BY <2>1 DEF ManagerTypes, StartTypes
  <2>3. \A q : \A s \in {"stopLookup", "failDisconnect", "stopDisconnect"} :
           ~ MainAt(q, s) /\ ~ MainAt(q, s)'
    BY <2>1, MainAtOne DEF MainSteps
  <2>4. RefsOf(p)'
    BY <1>0, <2>1, <2>2, <2>3 DEF RefsOf, StopReleased, FailReleased, TakenAtMost,
       TakenAtLeast
  <2>5. \A q \in Processings : q # p => RefsOf(q)'
    BY <1>0, <2>1, <2>2, <2>3, SameRefs DEF SameRefsOf
  <2>6. QED
    BY <2>3, <2>4, <2>5
<1>2. CASE OpenJournal(p) \/ ResumeAnalyze(p) \/ StopAnalyze(p) \/ StopCard(p)
             \/ StopFinish(p) \/ FailUnlock(p)
  <2>1. UNCHANGED <<task, analyzers, failedInFuture, sourceRefs>>
    BY <1>2 DEF OpenJournal, ResumeAnalyze, StopAnalyze, StopCard, StopFinish,
       FailUnlock, balancerVars, startVars, effectVars, Balancer!ReturnVideocard
  <2>2. \A q : \A s \in {"failDisconnect", "stopDisconnect"} :
           MainAt(q, s)' <=> MainAt(q, s)
    BY <1>2 DEF OpenJournal, ResumeAnalyze, StopAnalyze, StopCard, StopFinish,
       FailUnlock, MainAt, Idle
  <2>3. \A q \in Processings :
           MainAt(q, "stopLookup")' => MainAt(q, "stopLookup") \/ task[q] # "none"
    BY <1>2 DEF OpenJournal, ResumeAnalyze, StopAnalyze, StopCard, StopFinish,
       FailUnlock, MainAt, Idle
  <2>4. QED
    BY <1>0, <2>1, <2>2, <2>3, SameRefs DEF SameRefsOf
<1>3. CASE StopRemove(p)
  <2>1. /\ MainAt(p, "stopRemove") /\ MainAt(p, "stopDisconnect")'
        /\ analyzers' = analyzers \ {p}
        /\ UNCHANGED <<task, failedInFuture, sourceRefs>>
    BY <1>3 DEF StopRemove, MainAt, startVars, effectVars
  <2>2. p \in analyzers
    BY <2>1 DEF MainAt, ManagerInv, StopInv
  <2>3. \A q : /\ ~ MainAt(q, "failDisconnect") /\ ~ MainAt(q, "stopDisconnect")
               /\ ~ MainAt(q, "failDisconnect")' /\ ~ MainAt(q, "stopLookup")'
               /\ MainAt(q, "stopDisconnect")' <=> q = p
    BY <2>1, MainAtOne
  <2>4. RefsOf(p)'
    <3>1. /\ StopReleased(p) = 0 /\ StopReleased(p)' = 0
          /\ FailReleased(p)' = FailReleased(p)
          /\ TakenAtMost(p)' = TakenAtMost(p) /\ TakenAtLeast(p)' = TakenAtLeast(p)
      BY <2>1, <2>2, <2>3 DEF StopReleased, FailReleased, TakenAtMost, TakenAtLeast
    <3>2. QED
      BY <1>0, <2>1, <3>1 DEF RefsOf
  <2>5. \A q \in Processings : q # p => RefsOf(q)'
    BY <1>0, <2>1, <2>3, SameRefs DEF SameRefsOf
  <2>6. QED
    BY <2>3, <2>4, <2>5
<1>4. CASE StopDisconnect(p)
  <2>1. /\ MainAt(p, "stopDisconnect") /\ MainAt(p, "stopFinish")'
        /\ sourceRefs' = [sourceRefs EXCEPT ![p] = @ - 1]
        /\ UNCHANGED <<task, failedInFuture, analyzers>>
    BY <1>4 DEF StopDisconnect, MainAt, balancerVars, startVars
  <2>2. /\ sourceRefs'[p] = sourceRefs[p] - 1
        /\ \A q \in Processings : q # p => sourceRefs'[q] = sourceRefs[q]
    BY <2>1 DEF ManagerTypes, EffectTypes
  <2>3. p \notin analyzers /\ task[p] \in {"observe", "ok"}
    BY <2>1 DEF CompleteInv
  <2>4. \A q : /\ ~ MainAt(q, "failDisconnect") /\ (MainAt(q, "stopDisconnect") <=> q = p)
               /\ ~ MainAt(q, "failDisconnect")' /\ ~ MainAt(q, "stopLookup")'
               /\ ~ MainAt(q, "stopDisconnect")'
    BY <2>1, MainAtOne
  <2>5. RefsOf(p)'
    BY <1>0, <2>1, <2>2, <2>3, <2>4 DEF RefsOf, StopReleased, FailReleased,
       TakenAtMost, TakenAtLeast
  <2>6. \A q \in Processings : q # p => RefsOf(q)'
    BY <1>0, <2>1, <2>2, <2>4, SameRefs DEF SameRefsOf
  <2>7. QED
    BY <2>4, <2>5, <2>6
<1>5. CASE StopLookup(p)
  <2>1. /\ MainAt(p, "stopLookup") /\ UNCHANGED <<task, analyzers, sourceRefs>>
        /\ \/ /\ p \in failedInFuture /\ failedInFuture' = failedInFuture \ {p}
              /\ MainAt(p, "failDisconnect")'
           \/ main' = Idle /\ failedInFuture' = failedInFuture
    BY <1>5 DEF StopLookup, MainAt, balancerVars, effectVars
  <2>2. \A q : /\ ~ MainAt(q, "failDisconnect") /\ ~ MainAt(q, "stopDisconnect")
               /\ (MainAt(q, "failDisconnect")' => q = p) /\ ~ MainAt(q, "stopLookup")'
               /\ ~ MainAt(q, "stopDisconnect")'
    BY <2>1, MainAtOne DEF MainSteps
  <2>3. RefsOf(p)'
    <3>1. StopReleased(p)' = StopReleased(p) /\ FailReleased(p)' = FailReleased(p)
      <4>1. main' = Idle => ~ MainAt(p, "failDisconnect")'
        BY MainAtOne DEF MainSteps
      <4>2. QED
        BY <2>1, <2>2, <4>1 DEF StopReleased, FailReleased
    <3>2. TakenAtMost(p)' = TakenAtMost(p) /\ TakenAtLeast(p)' = TakenAtLeast(p)
      BY <2>1 DEF TakenAtMost, TakenAtLeast
    <3>3. QED
      BY <1>0, <2>1, <3>1, <3>2 DEF RefsOf
  <2>4. \A q \in Processings : q # p => RefsOf(q)'
    BY <1>0, <2>1, <2>2, SameRefs DEF SameRefsOf
  <2>5. MainAt(p, "failDisconnect")' => p \notin failedInFuture'
    BY <2>1, MainAtOne DEF MainSteps
  <2>6. QED
    BY <1>0, <2>1, <2>2, <2>3, <2>4, <2>5
<1>6. CASE FailDisconnect(p)
  <2>1. /\ MainAt(p, "failDisconnect") /\ MainAt(p, "failUnlock")'
        /\ sourceRefs' = [sourceRefs EXCEPT ![p] = @ - 1]
        /\ UNCHANGED <<task, failedInFuture, analyzers>>
    BY <1>6 DEF FailDisconnect, MainAt, balancerVars, startVars
  <2>2. /\ sourceRefs'[p] = sourceRefs[p] - 1
        /\ \A q \in Processings : q # p => sourceRefs'[q] = sourceRefs[q]
    BY <2>1 DEF ManagerTypes, EffectTypes
  <2>3. \A q : /\ ~ MainAt(q, "stopDisconnect") /\ (MainAt(q, "failDisconnect") <=> q = p)
               /\ ~ MainAt(q, "failDisconnect")' /\ ~ MainAt(q, "stopLookup")'
               /\ ~ MainAt(q, "stopDisconnect")'
    BY <2>1, MainAtOne
  <2>4. RefsOf(p)'
    BY <1>0, <2>1, <2>2, <2>3 DEF RefsOf, StopReleased, FailReleased, TakenAtMost,
       TakenAtLeast
  <2>5. \A q \in Processings : q # p => RefsOf(q)'
    BY <1>0, <2>1, <2>2, <2>3, SameRefs DEF SameRefsOf
  <2>6. QED
    BY <2>3, <2>4, <2>5
<1>7. QED
  BY <1>1, <1>2, <1>3, <1>4, <1>5, <1>6

LEMMA TaskRefs ==
    ASSUME ManagerTypes, ManagerInv, CompleteInv, RefsInv, NEW p \in Processings,
           TaskNext(p)
    PROVE  RefsInv'
<1>1. TaskMoves(p)
  BY TaskStepMoves
<1>2. /\ \A q, s : MainAt(q, s)' <=> MainAt(q, s)
      /\ failedInFuture' = failedInFuture
      /\ task[p] # "none" /\ task'[p] # "none"
  BY <1>1 DEF TaskMoves, MainAt, TaskNext, TaskConnect, TaskCard, TaskStart,
     TaskRegister, TaskObserve
<1>3. \A q \in Processings : RefsOf(q)
  BY DEF RefsInv, RefsOf
<1>4. /\ task[p] = "connect" /\ task'[p] = "card" => sourceRefs'[p] = sourceRefs[p] + 1
      /\ task[p] = "card" /\ task'[p] = "failed" => sourceRefs'[p] = sourceRefs[p] - 1
      /\ task[p] \notin {"connect", "card"} \/ task'[p] \notin {"card", "failed"}
            \/ (task[p] = "connect" /\ task'[p] = "failed")
         => sourceRefs'[p] = sourceRefs[p]
      /\ \A q \in Processings : q # p => sourceRefs'[q] = sourceRefs[q]
  <2>1. CASE TaskConnect(p)
    BY <2>1 DEF TaskConnect, ManagerTypes, StartTypes, EffectTypes
  <2>2. CASE \E prof \in Profiles : TaskCard(p, prof)
    BY <2>2 DEF TaskCard, ManagerTypes, StartTypes, EffectTypes
  <2>3. CASE TaskStart(p) \/ TaskRegister(p) \/ TaskObserve(p)
    BY <2>3 DEF TaskStart, TaskRegister, TaskObserve, effectVars, ManagerTypes,
       StartTypes
  <2>4. QED
    BY <2>1, <2>2, <2>3 DEF TaskNext
<1>5. /\ task[p] # "observe" => p \notin analyzers /\ ~ MainAt(p, "stopDisconnect")
  BY <1>1 DEF TaskMoves, CompleteInv, ManagerInv, TaskInv
<1>6. RefsOf(p)'
  BY <1>1, <1>2, <1>3, <1>4, <1>5
  DEF TaskMoves, RefsOf, StopReleased, FailReleased, TakenAtMost, TakenAtLeast
<1>7. \A q \in Processings : q # p => RefsOf(q)'
  BY <1>1, <1>2, <1>3, <1>4, SameRefs DEF TaskMoves, SameRefsOf
<1>8. QED
  BY <1>1, <1>2, <1>6, <1>7 DEF TaskMoves, RefsInv, RefsOf

(* Collecting a result erases the start's entry, after which a stop finds  *)
(* nothing to give back: the bound is only looser.                         *)
LEMMA MaintRefs == ASSUME RefsInv, MaintNext PROVE RefsInv'
<1>1. /\ UNCHANGED <<task, analyzers, main, sourceRefs>>
      /\ failedInFuture' \subseteq failedInFuture
  BY DEF MaintNext, MaintLock, MaintUnlock, MaintFailure, MaintSuccess, MaintAdd,
     balancerVars, startVars, effectVars
<1>2. \A q, s : MainAt(q, s)' <=> MainAt(q, s)
  BY <1>1 DEF MainAt
<1>3. \A q \in Processings : FailReleased(q)' >= FailReleased(q)
  BY <1>1, <1>2 DEF FailReleased
<1>4. \A q : /\ StopReleased(q)' = StopReleased(q)
             /\ TakenAtMost(q)' = TakenAtMost(q) /\ TakenAtLeast(q)' = TakenAtLeast(q)
  BY <1>1, <1>2 DEF StopReleased, TakenAtMost, TakenAtLeast
<1>5. \A q : /\ StopReleased(q) \in Int /\ FailReleased(q) \in Int
             /\ FailReleased(q)' \in Int /\ TakenAtLeast(q) \in Int
  BY DEF StopReleased, FailReleased, TakenAtLeast
<1>6. QED
  BY <1>1, <1>2, <1>3, <1>4, <1>5 DEF RefsInv

LEMMA EffectStep ==
    ASSUME ManagerTypes, ManagerInv, EffectInv, [Next]_vars
    PROVE  EffectInv'
<1>1. CASE UNCHANGED vars \/ \E u \in Urls : SourceLost(u)
  <2>1. UNCHANGED <<task, futures, failedInFuture, analyzers, main, maint, sourceRefs,
                    journal, reported, eventProcs>>
    BY <1>1 DEF vars, SourceLost, balancerVars, startVars, threadVars, effectVars
  <2>2. \A q, s : (MainAt(q, s)' <=> MainAt(q, s)) /\ (AddsFor(q)' <=> AddsFor(q))
    BY <2>1 DEF MainAt, AddsFor
  <2>3. OutcomeInv' /\ CompleteInv'
    BY <2>1, <2>2 DEF EffectInv, OutcomeInv, OutcomeIsPending, CompleteInv
  <2>4. RefsInv'
    BY <2>1, <2>2 DEF EffectInv, RefsInv, StopReleased, FailReleased, TakenAtMost,
       TakenAtLeast
  <2>5. QED
    BY <2>3, <2>4 DEF EffectInv
<1>2. CASE MainNext
  BY <1>2, MainOutcome, MainComplete, MainRefs DEF EffectInv
<1>3. CASE \E p \in Processings : TaskNext(p)
  BY <1>3, TaskOutcome, TaskComplete, TaskRefs DEF EffectInv
<1>4. CASE MaintNext
  BY <1>4, MaintOutcome, MaintComplete, MaintRefs DEF EffectInv
<1>5. QED
  BY <1>1, <1>2, <1>3, <1>4 DEF Next

LEMMA EffectInvariant == Spec => []EffectInv
<1>1. Init => EffectInv
  BY InitEffects
<1>2. ManagerTypes /\ ManagerInv /\ EffectInv /\ [Next]_vars => EffectInv'
  BY EffectStep
<1>3. QED
  BY <1>1, <1>2, ManagerTypesInvariant, ManagerInvariance, PTL DEF Spec

(* The clients are told how every start ended before its result is         *)
(* forgotten.                                                              *)
THEOREM NoOutcomeIsForgotten == Spec => []OutcomeIsPending
<1>1. EffectInv => OutcomeIsPending
  BY DEF EffectInv, OutcomeInv
<1>2. QED
  BY <1>1, EffectInvariant, PTL

(* What runs is journaled and, once reported, has its event processor,     *)
(* whatever stops and other results come in between.                       *)
THEOREM RunningStaysComplete == Spec => []RunningIsComplete
<1>1. ManagerInv /\ EffectInv => RunningIsJournaled
  BY DEF EffectInv, CompleteInv, RunningIsJournaled, MainAt, ManagerInv
<1>2. ManagerInv /\ EffectInv => ReportedHasEventProcessor
  BY DEF EffectInv, CompleteInv, ReportedHasEventProcessor, AddsFor, ManagerInv
<1>3. QED
  BY <1>1, <1>2, ManagerInvariance, EffectInvariant, PTL DEF RunningIsComplete

(* However a processing is stopped, its source is given back at most once  *)
(* more than it was taken.                                                 *)
THEOREM ReleasesAreBounded == Spec => []AtMostOneExtraRelease
<1>1. ManagerInv /\ EffectInv => AtMostOneExtraRelease
  BY DEF EffectInv, RefsInv, ManagerInv, TaskInv, AtMostOneExtraRelease,
     StopReleased, FailReleased, TakenAtMost, TakenAtLeast
<1>2. QED
  BY <1>1, ManagerInvariance, EffectInvariant, PTL

=============================================================================
