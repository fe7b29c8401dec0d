-------------------------- MODULE VideoSourceProofs --------------------------
(***************************************************************************)
(* Proofs about VideoSource, for any number of launches, consumers and     *)
(* unpaired disconnects.                                                   *)
(*                                                                         *)
(* Two inductive invariants.  ReceiverInv ties every receiver that runs or *)
(* whose crash is not reported yet to m_processHandle: it is why the three *)
(* threads that may launch one never run two.  CountInv, for a server that *)
(* does not retry, follows m_referenceCounter until a crash is handled.    *)
(***************************************************************************)
EXTENDS VideoSource, TLAPS

-----------------------------------------------------------------------------
(* Types.  Only the bound on the consumers needs more than the types: a    *)
(* call that is still to be counted has its place below the bound.         *)
TypeInv ==
    /\ TypeOK
    /\ conn # "idle" => holders < MaxHolders

LEMMA InitType == Init => TypeInv
<1>1. SUFFICES ASSUME Init PROVE TypeInv
  OBVIOUS
<1>2. /\ signal \in BOOLEAN /\ startArrived \in BOOLEAN /\ exhausted \in BOOLEAN
      /\ cycleActive \in BOOLEAN /\ interrupt \in BOOLEAN /\ answered \in BOOLEAN
      /\ observing \in BOOLEAN /\ inTransition \in BOOLEAN
      /\ published \in BOOLEAN
  BY <1>1, Zenon DEF Init
<1>3. QED
  BY <1>1, <1>2, SourceAssumption
  DEF SourceAssumption, Init, TypeInv, TypeOK, Threads, AttemptSteps

LEMMA StepType ==
    ASSUME TypeOK, NEW t \in Threads, NEW s \in AttemptSteps, Step(t, s)
    PROVE  attempt' \in [Threads -> AttemptSteps]
BY DEF TypeOK, Step

LEMMA AttemptType ==
    ASSUME TypeInv, NEW t \in Threads, Attempt(t)
    PROVE  TypeInv'
<1>1. CASE AttemptLock(t)
  <2>1. attempt' \in [Threads -> AttemptSteps]
    BY <1>1, StepType DEF AttemptLock, TypeInv, AttemptSteps
  <2>2. QED
    BY <1>1, <2>1 DEF AttemptLock, TypeInv, TypeOK, objectVars, threadVars,
       processVars, managerVars
<1>2. CASE LaunchProcess(t)
  <2>1. attempt' \in [Threads -> AttemptSteps]
    BY <1>2, StepType DEF LaunchProcess, Finish, TypeInv, AttemptSteps
  <2>2. mutex' \in Threads \cup {"free"}
    BY <1>2 DEF LaunchProcess, Finish, TypeInv, TypeOK
  <2>3. /\ launches' \in 0 .. MaxLaunches /\ handle' \in Receivers \cup {0}
        /\ alive' \subseteq Receivers /\ wal' \subseteq Receivers
        /\ notices' \subseteq Receivers /\ observing' \in BOOLEAN
    <3>1. CASE handle # 0
      BY <1>2, <3>1 DEF LaunchProcess, processVars, TypeInv, TypeOK
    <3>2. CASE handle = 0
      <4>1. observing' \in BOOLEAN /\ notices' = notices
        BY <1>2, <3>2, Zenon DEF LaunchProcess
      <4>2. \/ UNCHANGED <<handle, launches, alive, wal>>
            \/ /\ launches < MaxLaunches /\ launches' = launches + 1
               /\ handle' = launches' /\ alive' = alive \cup {launches'}
               /\ wal' = wal \cup {launches'}
        BY <1>2, <3>2 DEF LaunchProcess
      <4>3. launches < MaxLaunches => launches + 1 \in Receivers
        BY SourceAssumption DEF SourceAssumption, TypeInv, TypeOK, Receivers
      <4>4. launches' \in 0 .. MaxLaunches
        BY <4>2, SourceAssumption DEF SourceAssumption, TypeInv, TypeOK
      <4>5. QED
        BY <4>1, <4>2, <4>3, <4>4 DEF TypeInv, TypeOK
    <3>3. QED
      BY <3>1, <3>2
  <2>4. QED
    BY <1>2, <2>1, <2>2, <2>3
    DEF LaunchProcess, TypeInv, TypeOK, threadVars, managerVars
<1>3. CASE Establish(t)
  <2>1. attempt' \in [Threads -> AttemptSteps]
    BY <1>3, StepType DEF Establish, Finish, TypeInv, AttemptSteps
  <2>2. mutex' \in Threads \cup {"free"} /\ link' \in Receivers \cup {0}
    BY <1>3 DEF Establish, Finish, TypeInv, TypeOK
  <2>3. QED
    BY <1>3, <2>1, <2>2
    DEF Establish, TypeInv, TypeOK, threadVars, processVars, managerVars
<1>4. CASE CheckSignal(t)
  <2>1. attempt' \in [Threads -> AttemptSteps]
    BY <1>4, StepType DEF CheckSignal, Finish, TypeInv, AttemptSteps
  <2>2. mutex' \in Threads \cup {"free"}
    BY <1>4 DEF CheckSignal, Finish, TypeInv, TypeOK
  <2>3. QED
    BY <1>4, <2>1, <2>2
    DEF CheckSignal, TypeInv, TypeOK, objectVars, threadVars, processVars,
        managerVars
<1>5. CASE WaitStart(t)
  <2>1. attempt' \in [Threads -> AttemptSteps]
    BY <1>5, StepType DEF WaitStart, Finish, TypeInv, AttemptSteps
  <2>2. mutex' \in Threads \cup {"free"} /\ startArrived' \in BOOLEAN
    BY <1>5, Zenon DEF WaitStart, Finish, TypeInv, TypeOK
  <2>3. QED
    BY <1>5, <2>1, <2>2
    DEF WaitStart, TypeInv, TypeOK, threadVars, processVars, managerVars
<1>6. CASE Ask(t)
  <2>1. attempt' \in [Threads -> AttemptSteps]
    BY <1>6, StepType DEF Ask, Finish, TypeInv, AttemptSteps
  <2>2. mutex' \in Threads \cup {"free"} /\ asked' \in Receivers \cup {0}
        /\ answered' \in BOOLEAN
    BY <1>6, Zenon DEF Ask, Finish, TypeInv, TypeOK
  <2>3. QED
    BY <1>6, <2>1, <2>2
    DEF Ask, TypeInv, TypeOK, objectVars, threadVars, processVars, managerVars
<1>7. CASE TakeAnswer(t)
  <2>1. attempt' \in [Threads -> AttemptSteps] /\ mutex' \in Threads \cup {"free"}
    BY <1>7, StepType DEF TakeAnswer, Finish, TypeInv, AttemptSteps
  <2>2. QED
    BY <1>7, <2>1
    DEF TakeAnswer, TypeInv, TypeOK, objectVars, threadVars, processVars,
        managerVars
<1>8. QED
  BY <1>1, <1>2, <1>3, <1>4, <1>5, <1>6, <1>7 DEF Attempt

LEMMA ReturnType ==
    ASSUME TypeInv, conn # "idle", NEW result \in BOOLEAN, Return(result)
    PROVE  /\ conn' = "idle" /\ published' \in BOOLEAN /\ inTransition' \in BOOLEAN
           /\ holders' \in 0 .. MaxHolders /\ extra' = extra
<1>1. CASE result \/ published
  <2>1. inTransition' \in BOOLEAN
    BY <1>1, Zenon DEF Return
  <2>2. holders' \in 0 .. MaxHolders
    BY <1>1, SourceAssumption DEF SourceAssumption, Return, TypeInv, TypeOK
  <2>3. QED
    BY <1>1, <2>1, <2>2 DEF Return
<1>2. CASE ~ (result \/ published)
  BY <1>2 DEF Return, TypeInv, TypeOK
<1>3. QED
  BY <1>1, <1>2

LEMMA ConnectType ==
    ASSUME TypeInv, Connect
    PROVE  TypeInv'
<1>t. "connect" \in Threads
  BY DEF Threads
<1>1. CASE Create
  <2>1. attempt' \in [Threads -> AttemptSteps]
    BY <1>1, <1>t, StepType DEF Create, TypeInv, AttemptSteps
  <2>2. QED
    BY <1>1, <2>1 DEF Create, TypeInv, TypeOK, objectVars, processVars
<1>2. CASE Share
  <2>1. attempt' \in [Threads -> AttemptSteps] /\ refs' \in Nat
    <3>1. CASE handle # 0
      BY <1>2, <3>1 DEF Share, TypeInv, TypeOK
    <3>2. CASE handle = 0
      BY <1>2, <3>2, <1>t, StepType DEF Share, TypeInv, TypeOK, AttemptSteps
    <3>3. QED
      BY <3>1, <3>2
  <2>2. /\ conn' \in {"idle", "attempt"}
        /\ published' \in BOOLEAN /\ inTransition' \in BOOLEAN
        /\ holders' \in 0 .. MaxHolders /\ extra' \in 0 .. MaxExtra
        /\ conn' = "attempt" => holders' < MaxHolders
    <3>1. CASE handle # 0
      <4>1. inTransition' \in BOOLEAN
        BY <1>2, <3>1, Zenon DEF Share, Return
      <4>2. QED
        BY <1>2, <3>1, <4>1, SourceAssumption
        DEF SourceAssumption, Share, Return, TypeInv, TypeOK
    <3>2. CASE handle = 0
      BY <1>2, <3>2 DEF Share, managerVars, TypeInv, TypeOK
    <3>3. QED
      BY <3>1, <3>2
  <2>3. QED
    BY <1>2, <2>1, <2>2 DEF Share, TypeInv, TypeOK, processVars
<1>3. CASE ConnectOk
  <2>1. attempt' \in [Threads -> AttemptSteps] /\ refs' \in Nat
    BY <1>3, <1>t, StepType DEF ConnectOk, TypeInv, TypeOK, AttemptSteps
  <2>2. /\ conn' = "idle" /\ published' \in BOOLEAN /\ inTransition' \in BOOLEAN
        /\ holders' \in 0 .. MaxHolders /\ extra' = extra
    BY <1>3, ReturnType DEF ConnectOk
  <2>3. QED
    BY <1>3, <2>1, <2>2 DEF ConnectOk, TypeInv, TypeOK, processVars
<1>4. CASE ConnectFailed
  <2>1. attempt' \in [Threads -> AttemptSteps]
    BY <1>4, <1>t, StepType DEF ConnectFailed, TypeInv, AttemptSteps
  <2>2. CASE Retries = "immediately"
    <3>1. /\ conn' = "idle" /\ published' \in BOOLEAN
          /\ inTransition' \in BOOLEAN /\ holders' \in 0 .. MaxHolders
          /\ extra' = extra /\ interrupt' = interrupt /\ cycle' = cycle
      BY <1>4, <2>2, ReturnType DEF ConnectFailed
    <3>2. QED
      BY <1>4, <2>1, <3>1 DEF ConnectFailed, TypeInv, TypeOK, processVars
  <2>3. CASE Retries # "immediately"
    <3>1. interrupt' \in BOOLEAN
      BY <1>4, <2>3, Zenon DEF ConnectFailed
    <3>2. holders' < MaxHolders
      BY <1>4, <2>3 DEF ConnectFailed, TypeInv, managerVars
    <3>3. QED
      BY <1>4, <2>1, <2>3, <3>1, <3>2
      DEF ConnectFailed, TypeInv, TypeOK, processVars, managerVars
  <2>4. QED
    BY <2>2, <2>3
<1>5. CASE SpinEnds
  <2>1. signal \in BOOLEAN
    BY DEF TypeInv, TypeOK
  <2>2. /\ conn' = "idle" /\ published' \in BOOLEAN /\ inTransition' \in BOOLEAN
        /\ holders' \in 0 .. MaxHolders /\ extra' = extra
    BY <1>5, <2>1, ReturnType DEF SpinEnds
  <2>3. QED
    BY <1>5, <2>2
    DEF SpinEnds, TypeInv, TypeOK, objectVars, attemptVars, processVars
<1>6. QED
  BY <1>1, <1>2, <1>3, <1>4, <1>5 DEF Connect

LEMMA CycleType ==
    ASSUME TypeInv, Cycle \/ CycleTimeUp
    PROVE  TypeInv'
<1>t. "cycle" \in Threads
  BY DEF Threads
<1>1. CASE CycleBegin
  BY <1>1 DEF CycleBegin, TypeInv, TypeOK, attemptVars, processVars, managerVars
<1>2. CASE CycleAgain
  <2>1. attempt' \in [Threads -> AttemptSteps]
    BY <1>2, <1>t, StepType DEF CycleAgain, TypeInv, AttemptSteps
  <2>2. QED
    BY <1>2, <2>1
    DEF CycleAgain, TypeInv, TypeOK, objectVars, processVars, managerVars
<1>3. CASE CycleLeave
  BY <1>3 DEF CycleLeave, TypeInv, TypeOK, objectVars, attemptVars, processVars,
     managerVars
<1>4. CASE CycleResult
  <2>1. attempt' \in [Threads -> AttemptSteps]
    BY <1>4, <1>t, StepType DEF CycleResult, TypeInv, AttemptSteps
  <2>2. QED
    BY <1>4, <2>1
    DEF CycleResult, TypeInv, TypeOK, objectVars, processVars, managerVars
<1>5. CASE CycleEnd
  <2>1. exhausted' \in BOOLEAN
    BY <1>5, Zenon DEF CycleEnd, TypeInv, TypeOK
  <2>2. QED
    BY <1>5, <2>1
    DEF CycleEnd, TypeInv, TypeOK, attemptVars, processVars, managerVars
<1>6. CASE CycleClean
  <2>1. cycleActive' \in BOOLEAN /\ observing' \in BOOLEAN
    BY <1>6, Zenon DEF CycleClean, DestroyRecources, TypeInv, TypeOK
  <2>2. QED
    BY <1>6, <2>1 DEF CycleClean, DestroyRecources, TypeInv, TypeOK, attemptVars,
       managerVars
<1>7. CASE CycleTimeUp
  BY <1>7 DEF CycleTimeUp, TypeInv, TypeOK, attemptVars, processVars, managerVars
<1>8. QED
  BY <1>1, <1>2, <1>3, <1>4, <1>5, <1>6, <1>7 DEF Cycle

LEMMA DisconnectType ==
    ASSUME TypeInv, DisconnectSource
    PROVE  TypeInv'
<1>1. /\ refs' \in Nat /\ link' \in Receivers \cup {0}
      /\ wal' \subseteq Receivers /\ alive' \subseteq Receivers
  BY DEF DisconnectSource, Disconnect, DestroyRecources, TypeInv, TypeOK
<1>2. interrupt' \in BOOLEAN /\ observing' \in BOOLEAN
  BY Zenon DEF DisconnectSource, Disconnect, DestroyRecources, TypeInv, TypeOK
<1>3. published' \in BOOLEAN /\ inTransition' \in BOOLEAN
  BY Zenon DEF DisconnectSource, TypeInv, TypeOK
<1>4. /\ holders' \in 0 .. MaxHolders /\ extra' \in 0 .. MaxExtra
      /\ holders' <= holders
  BY SourceAssumption DEF SourceAssumption, DisconnectSource, TypeInv, TypeOK
<1>5. conn' # "idle" => holders' < MaxHolders
  BY <1>4, SourceAssumption
  DEF SourceAssumption, DisconnectSource, threadVars, TypeInv, TypeOK
<1>6. QED
  BY <1>1, <1>2, <1>3, <1>4, <1>5
  DEF DisconnectSource, attemptVars, threadVars, TypeInv, TypeOK

(* The steps of the receiver, of the network and of the launcher.          *)
LEMMA ReceiverType ==
    ASSUME TypeInv,
           \/ StreamStart \/ StreamStartSignal \/ StreamStop \/ ReceiverAnswer
           \/ RetryResult
           \/ \E r \in Receivers : ReceiverCrash(r) \/ CrashNotice(r)
    PROVE  TypeInv'
<1>t. "retry" \in Threads
  BY DEF Threads
<1>1. CASE StreamStart
  BY <1>1 DEF StreamStart, TypeInv, TypeOK, attemptVars, processVars, managerVars
<1>2. CASE StreamStartSignal
  BY <1>2 DEF StreamStartSignal, TypeInv, TypeOK, attemptVars, processVars,
     managerVars
<1>3. CASE StreamStop
  <2>1. signal' \in BOOLEAN
    BY <1>3, Zenon DEF StreamStop
  <2>2. QED
    BY <1>3, <2>1 DEF StreamStop, TypeInv, TypeOK, attemptVars, threadVars,
       processVars, managerVars
<1>4. CASE ReceiverAnswer
  BY <1>4 DEF ReceiverAnswer, TypeInv, TypeOK, objectVars, threadVars,
     processVars, managerVars
<1>5. CASE RetryResult
  <2>1. attempt' \in [Threads -> AttemptSteps]
    BY <1>5, <1>t, StepType DEF RetryResult, TypeInv, AttemptSteps
  <2>2. QED
    BY <1>5, <2>1
    DEF RetryResult, TypeInv, TypeOK, objectVars, processVars, managerVars
<1>6. CASE \E r \in Receivers : ReceiverCrash(r)
  BY <1>6 DEF ReceiverCrash, TypeInv, TypeOK, objectVars, attemptVars, threadVars,
     managerVars
<1>7. CASE \E r \in Receivers : CrashNotice(r)
  <2>1. attempt' \in [Threads -> AttemptSteps]
    BY <1>7, <1>t, StepType DEF CrashNotice, TypeInv, TypeOK, AttemptSteps
  <2>2. signal' \in BOOLEAN
    BY <1>7, Zenon DEF CrashNotice, TypeInv, TypeOK
  <2>3. QED
    BY <1>7, <2>1, <2>2 DEF CrashNotice, TypeInv, TypeOK, managerVars
<1>8. QED
  BY <1>1, <1>2, <1>3, <1>4, <1>5, <1>6, <1>7

LEMMA StepTypeInv == TypeInv /\ [Next]_vars => TypeInv'
<1>1. CASE UNCHANGED vars
  BY <1>1 DEF vars, objectVars, attemptVars, threadVars, processVars, managerVars,
     TypeInv, TypeOK
<1>2. CASE Next
  BY <1>2, AttemptType, ConnectType, CycleType, DisconnectType, ReceiverType
  DEF Next
<1>3. QED
  BY <1>1, <1>2

LEMMA TypeInvariant == Spec => []TypeInv
<1>1. QED
  BY InitType, StepTypeInv, PTL DEF Spec

(* Every variable keeps its type whatever the order of the threads; in     *)
(* particular m_referenceCounter, which disconnect decrements, never goes  *)
(* below zero, and no more consumers are counted than may connect.         *)
THEOREM SourceTypeOK == Spec => []TypeOK
<1>1. TypeInv => TypeOK
  BY DEF TypeInv
<1>2. QED
  BY <1>1, TypeInvariant, PTL

-----------------------------------------------------------------------------
(* The receivers.  While m_processHandle is null there is neither a running *)
(* receiver nor one whose crash is still to be reported, so the launch that *)
(* finds it null is the only one.                                          *)
HandleInv ==
    /\ alive \cup notices \subseteq {handle}
    /\ alive \cap notices = {}
    /\ handle <= launches

(* The log: a source that observes no process has nothing in it.           *)
WalInv ==
    /\ alive \subseteq wal
    /\ ShutdownCalled \/ wal \subseteq alive \cup notices
    /\ observing \/ ShutdownCalled \/ wal = {}

ReceiverInv == HandleInv /\ WalInv

LEMMA InitReceiver == Init => ReceiverInv
BY DEF Init, ReceiverInv, HandleInv, WalInv

(* Nobody gets hold of a source again that everybody has let go of.        *)
LEMMA ShutdownStable ==
    ASSUME ShutdownCalled, [Next]_vars
    PROVE  ShutdownCalled'
<1>1. conn = "idle" /\ ~ inTransition /\ ~ published
  BY DEF ShutdownCalled
<1>2. CASE Connect
  BY <1>1, <1>2 DEF Connect, Create, Share, ConnectOk, ConnectFailed, SpinEnds
<1>3. CASE DisconnectSource
  BY <1>1, <1>3 DEF DisconnectSource, threadVars, ShutdownCalled
<1>4. CASE \E t \in Threads : Attempt(t)
  BY <1>1, <1>4 DEF Attempt, AttemptLock, LaunchProcess, Establish, CheckSignal,
     WaitStart, Ask, TakeAnswer, threadVars, managerVars, ShutdownCalled
<1>5. CASE Cycle \/ CycleTimeUp
  <2>1. UNCHANGED <<conn, managerVars>>
    BY <1>5, Zenon DEF Cycle, CycleBegin, CycleAgain, CycleLeave, CycleResult,
       CycleEnd, CycleClean, CycleTimeUp
  <2>2. QED
    BY <1>1, <2>1 DEF managerVars, ShutdownCalled
<1>6. CASE StreamStart \/ StreamStartSignal \/ StreamStop \/ ReceiverAnswer
           \/ RetryResult \/ UNCHANGED vars
  BY <1>1, <1>6 DEF StreamStart, StreamStartSignal, StreamStop, ReceiverAnswer,
     RetryResult, vars, threadVars, managerVars, ShutdownCalled
<1>7. CASE \E r \in Receivers : ReceiverCrash(r) \/ CrashNotice(r)
  BY <1>1, <1>7 DEF ReceiverCrash, CrashNotice, threadVars, managerVars,
     ShutdownCalled
<1>8. QED
  BY <1>2, <1>3, <1>4, <1>5, <1>6, <1>7 DEF Next

(* Steps that neither touch the handle nor the processes.                  *)
LEMMA QuietReceiver ==
    ASSUME ReceiverInv, [Next]_vars, UNCHANGED <<handle, processVars>>
    PROVE  ReceiverInv'
BY ShutdownStable DEF ReceiverInv, HandleInv, WalInv, processVars

LEMMA LaunchReceiver ==
    ASSUME TypeOK, ReceiverInv, Next, NEW t \in Threads, LaunchProcess(t)
    PROVE  ReceiverInv'
<1>1. CASE handle # 0
  BY <1>1, QuietReceiver DEF LaunchProcess
<1>2. CASE handle = 0
  <2>1. alive = {} /\ notices = {}
    BY <1>2 DEF TypeOK, Receivers, ReceiverInv, HandleInv
  <2>2. notices' = {} /\ observing'
    BY <1>2, <2>1 DEF LaunchProcess
  <2>3. CASE UNCHANGED <<handle, launches, alive, wal>>
    BY <2>1, <2>2, <2>3, ShutdownStable DEF ReceiverInv, HandleInv, WalInv
  <2>4. CASE /\ launches' = launches + 1 /\ handle' = launches'
             /\ alive' = alive \cup {launches'} /\ wal' = wal \cup {launches'}
    <3>1. HandleInv'
      BY <2>1, <2>2, <2>4 DEF HandleInv, TypeOK
    <3>2. WalInv'
      BY <2>1, <2>2, <2>4, ShutdownStable DEF ReceiverInv, WalInv
    <3>3. QED
      BY <3>1, <3>2 DEF ReceiverInv
  <2>5. QED
    BY <1>2, <2>3, <2>4 DEF LaunchProcess
<1>3. QED
  BY <1>1, <1>2

(* The receiver is closed: it and what the log says of it go together.     *)
LEMMA DestroyReceiver ==
    ASSUME ReceiverInv, Next, DestroyRecources, UNCHANGED <<handle, launches, notices>>
    PROVE  ReceiverInv'
<1>1. HandleInv'
  BY DEF ReceiverInv, HandleInv, DestroyRecources
<1>2. WalInv'
  BY ShutdownStable DEF ReceiverInv, HandleInv, WalInv, DestroyRecources
<1>3. QED
  BY <1>1, <1>2 DEF ReceiverInv

LEMMA CrashReceiver ==
    ASSUME TypeOK, ReceiverInv, Next, NEW r \in Receivers,
           ReceiverCrash(r) \/ CrashNotice(r)
    PROVE  ReceiverInv'
<1>1. CASE ReceiverCrash(r)
  <2>1. HandleInv'
    BY <1>1 DEF ReceiverCrash, ReceiverInv, HandleInv, objectVars
  <2>2. WalInv'
    BY <1>1, ShutdownStable DEF ReceiverCrash, ReceiverInv, WalInv
  <2>3. QED
    BY <2>1, <2>2 DEF ReceiverInv
<1>2. CASE CrashNotice(r)
  <2>1. handle = r /\ notices = {r} /\ alive = {} /\ alive' = {} /\ notices' = {}
    BY <1>2 DEF CrashNotice, ReceiverInv, HandleInv
  <2>2. CASE observing /\ ~ ShutdownCalled
    <3>1. HandleInv'
      BY <1>2, <2>1, <2>2 DEF CrashNotice, HandleInv, TypeOK
    <3>2. WalInv'
      BY <1>2, <2>1, <2>2 DEF CrashNotice, ReceiverInv, WalInv
    <3>3. QED
      BY <3>1, <3>2 DEF ReceiverInv
  <2>3. CASE ~ (observing /\ ~ ShutdownCalled)
    <3>1. UNCHANGED <<handle, wal, launches, observing>>
      BY <1>2, <2>3 DEF CrashNotice
    <3>2. QED
      BY <2>1, <2>3, <3>1, ShutdownStable DEF ReceiverInv, HandleInv, WalInv
  <2>4. QED
    BY <2>2, <2>3
<1>3. QED
  BY <1>1, <1>2

LEMMA StepReceiver == TypeOK /\ ReceiverInv /\ [Next]_vars => ReceiverInv'
<1>1. SUFFICES ASSUME TypeOK, ReceiverInv, [Next]_vars PROVE ReceiverInv'
  OBVIOUS
<1>2. CASE Connect
  BY <1>1, <1>2, QuietReceiver
  DEF Connect, Create, Share, ConnectOk, ConnectFailed, SpinEnds, objectVars
<1>3. CASE DisconnectSource
  <2>1. DestroyRecources \/ UNCHANGED <<link, wal, alive, observing>>
    BY <1>3 DEF DisconnectSource, Disconnect
  <2>2. UNCHANGED <<handle, launches, notices>>
    BY <1>3 DEF DisconnectSource
  <2>3. Next
    BY <1>3 DEF Next
  <2>4. QED
    BY <1>1, <2>1, <2>2, <2>3, DestroyReceiver, QuietReceiver DEF processVars
<1>4. ASSUME NEW t \in Threads, Attempt(t) PROVE ReceiverInv'
  <2>1. Next
    BY <1>4 DEF Next
  <2>2. CASE LaunchProcess(t)
    BY <1>1, <2>1, <2>2, LaunchReceiver
  <2>3. CASE ~ LaunchProcess(t)
    BY <1>1, <1>4, <2>3, QuietReceiver DEF Attempt, AttemptLock, Establish,
       CheckSignal, WaitStart, Ask, TakeAnswer, objectVars
  <2>4. QED
    BY <2>2, <2>3
<1>5. CASE CycleClean
  <2>1. DestroyRecources \/ UNCHANGED <<link, wal, alive, observing>>
    BY <1>5 DEF CycleClean
  <2>2. UNCHANGED <<handle, launches, notices>>
    BY <1>5 DEF CycleClean
  <2>3. Next
    BY <1>5 DEF Next, Cycle
  <2>4. QED
    BY <1>1, <2>1, <2>2, <2>3, DestroyReceiver, QuietReceiver DEF processVars
<1>6. CASE (Cycle /\ ~ CycleClean) \/ CycleTimeUp
  BY <1>1, <1>6, QuietReceiver DEF Cycle, CycleBegin, CycleAgain, CycleLeave,
     CycleResult, CycleEnd, CycleTimeUp, objectVars
<1>7. CASE StreamStart \/ StreamStartSignal \/ StreamStop \/ ReceiverAnswer
           \/ RetryResult \/ UNCHANGED vars
  BY <1>1, <1>7, QuietReceiver DEF StreamStart, StreamStartSignal, StreamStop,
     ReceiverAnswer, RetryResult, vars, objectVars
<1>8. CASE \E r \in Receivers : ReceiverCrash(r) \/ CrashNotice(r)
  <2>1. Next
    BY <1>8 DEF Next
  <2>2. QED
    BY <1>1, <1>8, <2>1, CrashReceiver
<1>9. QED
  BY <1>1, <1>2, <1>3, <1>4, <1>5, <1>6, <1>7, <1>8 DEF Next

LEMMA ReceiverInvariant == Spec => []ReceiverInv
<1>1. QED
  BY InitReceiver, StepReceiver, SourceTypeOK, PTL DEF Spec

(* Whichever of the three threads launches, whatever crashes and whoever   *)
(* tears down, two receivers of a source never run at once.                *)
THEOREM SourceAtMostOneReceiver == Spec => []AtMostOneReceiver
<1>1. ReceiverInv => AtMostOneReceiver
  BY DEF ReceiverInv, HandleInv, AtMostOneReceiver
<1>2. QED
  BY <1>1, ReceiverInvariant, PTL

(* The write-ahead log holds every running receiver, and until the source  *)
(* is destroyed nothing but them and those whose crash is to be reported.  *)
THEOREM SourceLogFollows == Spec => []LogFollowsReceivers
<1>1. ReceiverInv => LogFollowsReceivers
  BY DEF ReceiverInv, WalInv, LogFollowsReceivers
<1>2. QED
  BY <1>1, ReceiverInvariant, PTL

-----------------------------------------------------------------------------
(* The reference counter of a source that does not retry: only connect ever *)
(* makes an attempt.                                                       *)
OnlyConnect ==
    /\ cycle = "none" /\ conn # "spin"
    /\ attempt["cycle"] = "none" /\ attempt["retry"] = "none"

(* Nothing was launched yet: the source is not published, and connect has  *)
(* not got past the launch.                                                *)
BeforeLaunch ==
    /\ ~ published /\ refs = 0 /\ holders = 0 /\ handle = 0
    /\ attempt["connect"] \in {"none", "lock", "launch", "failed"}

(* Up to the first crash that is handled, and the first disconnect nobody  *)
(* is counted for.                                                         *)
Calm == extra = 0 /\ (launches = 0 \/ (launches = 1 /\ handle # 0))

CountInv ==
    /\ OnlyConnect
    /\ conn = "new" => ~ published
    /\ launches = 0 => BeforeLaunch
    /\ Calm => /\ refs = holders
               /\ published \/ holders = 0
               /\ conn = "attempt" => ~ published

LEMMA InitCount == Init => CountInv
BY DEF Init, CountInv, OnlyConnect, BeforeLaunch, Threads

(* Steps that leave the counters, the manager's map and vector and the     *)
(* processes alone, and take no attempt that connect is not making.        *)
LEMMA QuietCount ==
    ASSUME CountInv, OnlyConnect',
           UNCHANGED <<refs, handle, launches, conn, managerVars>>,
           attempt'["connect"] = attempt["connect"] \/ launches > 0
             \/ attempt'["connect"] \in {"none", "lock", "launch", "failed"}
    PROVE  CountInv'
BY DEF CountInv, BeforeLaunch, Calm, managerVars

LEMMA AttemptCount ==
    ASSUME TypeOK, CountInv, NEW t \in Threads, Attempt(t)
    PROVE  CountInv'
<1>1. t = "connect"
  BY DEF CountInv, OnlyConnect, Threads, Attempt, AttemptLock, LaunchProcess,
     Establish, CheckSignal, WaitStart, Ask, TakeAnswer
<1>2. UNCHANGED <<refs, conn, cycle, managerVars>>
  BY DEF Attempt, AttemptLock, LaunchProcess, Establish, CheckSignal, WaitStart,
     Ask, TakeAnswer, objectVars, threadVars
<1>3. PICK s \in AttemptSteps : Step("connect", s)
  BY <1>1 DEF Attempt, AttemptLock, LaunchProcess, Establish, CheckSignal,
     WaitStart, Ask, TakeAnswer, Finish, AttemptSteps
<1>4. OnlyConnect' /\ attempt'["connect"] = s
  BY <1>2, <1>3 DEF CountInv, OnlyConnect, Step, TypeOK, Threads
<1>5. CASE UNCHANGED <<handle, launches>>
  <2>1. launches = 0 => attempt'["connect"] \in {"none", "lock", "launch", "failed"}
    BY <1>1, <1>5, <1>4, <1>3 DEF CountInv, BeforeLaunch, Attempt, AttemptLock,
       LaunchProcess, Establish, CheckSignal, WaitStart, Ask, TakeAnswer, Step,
       Finish, TypeOK, Threads
  <2>2. launches \in Nat
    BY DEF TypeOK
  <2>3. QED
    BY <1>2, <1>4, <1>5, <2>1, <2>2, QuietCount
<1>6. CASE ~ UNCHANGED <<handle, launches>>
  <2>1. LaunchProcess(t)
    BY <1>6 DEF Attempt, AttemptLock, Establish, CheckSignal, WaitStart, Ask,
       TakeAnswer, objectVars, processVars
  <2>2. handle = 0 /\ launches' = launches + 1 /\ handle' = launches'
    BY <1>6, <2>1 DEF LaunchProcess, processVars
  <2>3. launches' # 0 /\ (Calm' => launches = 0 /\ Calm)
    BY <1>2, <2>2 DEF Calm, TypeOK, managerVars
  <2>4. QED
    BY <1>2, <1>4, <2>3 DEF CountInv, BeforeLaunch, managerVars
<1>7. QED
  BY <1>5, <1>6

LEMMA ConnectCount ==
    ASSUME Retries = "immediately", TypeOK, CountInv, Connect
    PROVE  CountInv'
<1>1. CASE Create
  <2>1. OnlyConnect' /\ attempt'["connect"] = "lock"
    BY <1>1 DEF Create, CountInv, OnlyConnect, Step, TypeOK, Threads
  <2>2. QED
    BY <1>1, <2>1
    DEF Create, CountInv, BeforeLaunch, Calm, objectVars, processVars
<1>2. CASE Share
  <2>1. launches # 0 /\ published /\ UNCHANGED <<handle, launches>>
    BY <1>2 DEF Share, CountInv, BeforeLaunch, processVars
  <2>2. OnlyConnect'
    <3>1. UNCHANGED cycle /\ conn' # "spin"
      BY <1>2 DEF Share, Return
    <3>2. attempt'["cycle"] = attempt["cycle"]
          /\ attempt'["retry"] = attempt["retry"]
      BY <1>2 DEF Share, Step, TypeOK, Threads
    <3>3. QED
      BY <3>1, <3>2 DEF CountInv, OnlyConnect
  <2>3. CASE handle # 0
    <3>1. /\ refs' = refs + 1 /\ holders' = holders + 1 /\ published'
          /\ conn' = "idle" /\ extra' = extra
      BY <1>2, <2>3 DEF Share, Return
    <3>2. QED
      BY <2>1, <2>2, <3>1 DEF CountInv, Calm
  <2>4. CASE handle = 0
    <3>1. ~ Calm'
      BY <2>1, <2>4 DEF Calm
    <3>2. conn' # "new"
      BY <1>2, <2>4 DEF Share
    <3>3. QED
      BY <2>1, <2>2, <3>1, <3>2 DEF CountInv
  <2>5. QED
    BY <2>3, <2>4
<1>3. CASE ConnectOk
  <2>1. /\ refs' = refs + 1 /\ holders' = holders + 1 /\ published'
        /\ conn' = "idle" /\ extra' = extra
        /\ UNCHANGED <<handle, launches, cycle>>
    BY <1>3 DEF ConnectOk, Return, processVars
  <2>2. launches # 0
    BY <1>3 DEF ConnectOk, CountInv, BeforeLaunch
  <2>3. OnlyConnect'
    BY <1>3, <2>1 DEF ConnectOk, CountInv, OnlyConnect, Step, TypeOK, Threads
  <2>4. QED
    BY <2>1, <2>2, <2>3 DEF CountInv, Calm
<1>4. CASE ConnectFailed
  <2>1. /\ Return(FALSE) /\ attempt' = [attempt EXCEPT !["connect"] = "none"]
        /\ conn = "attempt"
        /\ UNCHANGED <<refs, handle, launches, cycle>>
    BY <1>4 DEF ConnectFailed, Step, processVars
  <2>2. OnlyConnect' /\ attempt'["connect"] = "none"
    BY <2>1 DEF Return, CountInv, OnlyConnect, TypeOK, Threads
  <2>3. CASE published
    <3>1. ~ Calm /\ launches # 0
      BY <2>1, <2>3 DEF CountInv, BeforeLaunch
    <3>2. ~ Calm' /\ conn' = "idle"
      BY <2>1, <3>1 DEF Calm, Return
    <3>3. QED
      BY <2>1, <2>2, <3>1, <3>2 DEF CountInv
  <2>4. CASE ~ published
    BY <2>1, <2>2, <2>4 DEF Return, CountInv, BeforeLaunch, Calm
  <2>5. QED
    BY <2>3, <2>4
<1>5. CASE SpinEnds
  BY <1>5 DEF SpinEnds, CountInv, OnlyConnect
<1>6. QED
  BY <1>1, <1>2, <1>3, <1>4, <1>5 DEF Connect

LEMMA DisconnectCount ==
    ASSUME TypeOK, CountInv, DisconnectSource
    PROVE  CountInv'
<1>1. UNCHANGED <<handle, launches, conn, cycle, attempt>> /\ conn # "new"
  BY DEF DisconnectSource, attemptVars, threadVars
<1>2. OnlyConnect'
  BY <1>1 DEF CountInv, OnlyConnect
<1>3. CASE holders > 0 /\ holders' = holders - 1 /\ UNCHANGED extra
  <2>1. launches # 0
    BY <1>3 DEF CountInv, BeforeLaunch
  <2>2. CASE Calm
    <3>1. published /\ refs = holders /\ refs # 0 /\ handle # 0
      BY <1>3, <2>1, <2>2 DEF CountInv, Calm
    <3>2. refs' = refs - 1 /\ published' = (refs' # 0) /\ conn = "idle"
      BY <3>1 DEF DisconnectSource, Disconnect, TypeOK
    <3>3. QED
      BY <1>1, <1>2, <1>3, <2>1, <2>2, <3>1, <3>2 DEF CountInv, Calm, TypeOK
  <2>3. CASE ~ Calm
    BY <1>1, <1>2, <1>3, <2>1, <2>3 DEF CountInv, Calm
  <2>4. QED
    BY <2>2, <2>3
<1>4. CASE extra' = extra + 1 /\ UNCHANGED holders
  <2>1. ~ Calm'
    BY <1>4 DEF Calm, TypeOK
  <2>2. launches = 0 => BeforeLaunch'
    BY <1>1, <1>4 DEF CountInv, BeforeLaunch, DisconnectSource, Disconnect
  <2>3. QED
    BY <1>1, <1>2, <2>1, <2>2 DEF CountInv
<1>5. QED
  BY <1>3, <1>4 DEF DisconnectSource

LEMMA CrashCount ==
    ASSUME Retries = "immediately", TypeOK, ReceiverInv, CountInv,
           NEW r \in Receivers, CrashNotice(r)
    PROVE  CountInv'
<1>1. UNCHANGED <<refs, launches, conn, cycle, attempt, managerVars>>
  BY DEF CrashNotice
<1>2. handle = r /\ launches # 0
  BY DEF CrashNotice, ReceiverInv, HandleInv, TypeOK, Receivers
<1>3. CASE handle' = handle
  BY <1>1, <1>3, QuietCount DEF CountInv, OnlyConnect
<1>4. CASE handle' = 0
  BY <1>1, <1>2, <1>4 DEF CountInv, OnlyConnect, Calm, managerVars
<1>5. QED
  BY <1>3, <1>4 DEF CrashNotice

LEMMA StepCount ==
    ASSUME Retries = "immediately"
    PROVE  TypeOK /\ ReceiverInv /\ CountInv /\ [Next]_vars => CountInv'
<1>1. SUFFICES ASSUME TypeOK, ReceiverInv, CountInv, [Next]_vars PROVE CountInv'
  OBVIOUS
<1>2. CASE Connect
  BY <1>1, <1>2, ConnectCount
<1>3. CASE DisconnectSource
  BY <1>1, <1>3, DisconnectCount
<1>4. CASE \E t \in Threads : Attempt(t)
  BY <1>1, <1>4, AttemptCount
<1>5. CASE Cycle \/ CycleTimeUp
  BY <1>1, <1>5 DEF CountInv, OnlyConnect, Cycle, CycleBegin, CycleAgain,
     CycleLeave, CycleResult, CycleEnd, CycleClean, CycleTimeUp
<1>6. CASE RetryResult
  BY <1>1, <1>6 DEF RetryResult, CountInv, OnlyConnect
<1>7. CASE StreamStart \/ StreamStartSignal \/ StreamStop \/ ReceiverAnswer
           \/ UNCHANGED vars \/ \E r \in Receivers : ReceiverCrash(r)
  <2>1. UNCHANGED <<refs, handle, launches, conn, cycle, attempt, managerVars>>
    BY <1>7 DEF StreamStart, StreamStartSignal, StreamStop, ReceiverAnswer,
       ReceiverCrash, vars, objectVars, attemptVars, threadVars, processVars
  <2>2. QED
    BY <1>1, <2>1, QuietCount DEF CountInv, OnlyConnect
<1>8. CASE \E r \in Receivers : CrashNotice(r)
  BY <1>1, <1>8, CrashCount
<1>9. QED
  BY <1>1, <1>2, <1>3, <1>4, <1>5, <1>6, <1>7, <1>8 DEF Next

LEMMA CountInvariant ==
    ASSUME Retries = "immediately"
    PROVE  Spec => []CountInv
<1>1. TypeOK /\ ReceiverInv /\ CountInv /\ [Next]_vars => CountInv'
  BY StepCount
<1>2. QED
  BY <1>1, InitCount, SourceTypeOK, ReceiverInvariant, PTL DEF Spec

(* Without retries, until a crash is handled, m_referenceCounter is the    *)
(* number of consumers of a published source, for any number of them and   *)
(* in any order of their calls.                                            *)
THEOREM SourceCountIsExact ==
    ASSUME Retries = "immediately"
    PROVE  Spec => []CountIsExact
<1>1. CountInv => CountIsExact
  BY DEF CountInv, CountIsExact, Calm, Undisturbed
<1>2. QED
  BY <1>1, CountInvariant, PTL

(* A step that closes the receiver of an undisturbed source is the last    *)
(* consumer's disconnect, a crash, or a disconnect nobody was counted for. *)
LEMMA ReceiverKeptStep ==
    ASSUME Retries = "immediately", TypeOK, ReceiverInv, CountInv, [Next]_vars,
           NEW r \in alive \ alive', Undisturbed
    PROVE  r \in notices' \/ holders' = 0 \/ extra' > 0
<1>1. CASE DisconnectSource
  <2>1. CASE extra' = extra + 1
    BY <2>1 DEF TypeOK
  <2>2. CASE holders > 0 /\ holders' = holders - 1
    <3>1. refs = holders
      BY DEF CountInv, Calm, Undisturbed
    <3>2. refs = 1
      BY <1>1, <2>2, <3>1 DEF DisconnectSource, Disconnect
    <3>3. QED
      BY <2>2, <3>1, <3>2
  <2>3. QED
    BY <1>1, <2>1, <2>2 DEF DisconnectSource
<1>2. CASE \E q \in Receivers : ReceiverCrash(q)
  BY <1>2 DEF ReceiverCrash
<1>3. CASE ~ DisconnectSource /\ ~ \E q \in Receivers : ReceiverCrash(q)
  <2>1. ~ CycleClean
    BY DEF CountInv, OnlyConnect, CycleClean
  <2>2. CASE \E t \in Threads : LaunchProcess(t)
    BY <2>2 DEF LaunchProcess, processVars
  <2>3. CASE ~ \E t \in Threads : LaunchProcess(t)
    <3>1. CASE Connect
      BY <3>1 DEF Connect, Create, Share, ConnectOk, ConnectFailed, SpinEnds,
         processVars
    <3>2. CASE \E t \in Threads : Attempt(t)
      BY <2>3, <3>2 DEF Attempt, AttemptLock, Establish, CheckSignal, WaitStart,
         Ask, TakeAnswer, processVars
    <3>3. CASE Cycle \/ CycleTimeUp
      BY <2>1, <3>3 DEF Cycle, CycleBegin, CycleAgain, CycleLeave, CycleResult,
         CycleEnd, CycleTimeUp, processVars
    <3>4. CASE \/ StreamStart \/ StreamStartSignal \/ StreamStop
               \/ ReceiverAnswer \/ RetryResult \/ UNCHANGED vars
               \/ \E q \in Receivers : CrashNotice(q)
      BY <3>4 DEF StreamStart, StreamStartSignal, StreamStop, ReceiverAnswer,
         RetryResult, CrashNotice, vars, processVars
    <3>5. QED
      BY <1>3, <3>1, <3>2, <3>3, <3>4 DEF Next
  <2>4. QED
    BY <2>2, <2>3
<1>4. QED
  BY <1>1, <1>2, <1>3

(* So the receiver is never closed under a consumer that still holds it:   *)
(* the promise that made VideoSourceRemote2 shareable.                     *)
THEOREM SourceReceiverKept ==
    ASSUME Retries = "immediately"
    PROVE  Spec => ReceiverKeptForHolders
<1>1. TypeOK /\ ReceiverInv /\ CountInv /\ [Next]_vars =>
         [\A r \in alive \ alive' :
            Undisturbed => r \in notices' \/ holders' = 0 \/ extra' > 0]_vars
  BY ReceiverKeptStep
<1>2. QED
  BY <1>1, CountInvariant, SourceTypeOK, ReceiverInvariant, PTL
  DEF Spec, ReceiverKeptForHolders

=============================================================================
