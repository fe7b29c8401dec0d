------------------------ MODULE ServerLifecycleProofs ------------------------
(***************************************************************************)
(* Proofs about ServerLifecycle, for any operations, configuration, number *)
(* of restarts, ids and waiting requests.                                  *)
(*                                                                         *)
(* An operation that is renewed travels: from the write-ahead log to a     *)
(* command in the queue, to a start in progress, to what runs, and back    *)
(* into the log; the invariant says where it may be in each phase of the   *)
(* main thread, so that it is never lost on the way and never there twice. *)
(***************************************************************************)
EXTENDS ServerLifecycle, FiniteSetTheorems, TLAPS

StopCmd(op, key) == Command("stop", op, key)
ShutdownCmd == Command("shutdown", NoOp, 0)
QueueCommands ==
    {StartCmd(o) : o \in Ops} \cup {StopCmd(o, k) : o \in Ops, k \in Keys}
      \cup {ShutdownCmd}

(* What waits in the queue, and what the command loop is executing.        *)
StartQueued(o)   == \E i \in DOMAIN queue : queue[i] = StartCmd(o)
StopQueued(o, k) == \E i \in DOMAIN queue : queue[i] = StopCmd(o, k)
StartTwice(o) ==
    \E i, j \in DOMAIN queue :
        i # j /\ queue[i] = StartCmd(o) /\ queue[j] = StartCmd(o)
Opening(o, k)   == phase = "opening" /\ cmd = Command("start", o, k)
Executing(o, k) == phase = "stopping" /\ cmd = StopCmd(o, k)
Stopping(o, k)  == StopQueued(o, k) \/ Executing(o, k)

-----------------------------------------------------------------------------
(* The order of init and of the shutdown.                                  *)

LEMMA InitOrderFacts ==
    /\ Len(InitOrder) = 8
    /\ \A n \in 1 .. 8 :
          /\ InitOrder[n] = "environment" <=> n = 1
          /\ InitOrder[n] = "gateway" <=> n = 2
          /\ InitOrder[n] = "sources" <=> n = 3
          /\ InitOrder[n] = "storage" <=> n = 4
          /\ InitOrder[n] = "recorder" <=> n = 5
          /\ InitOrder[n] = "analytic" <=> n = 6
          /\ InitOrder[n] = "handler" <=> n = 7
          /\ InitOrder[n] = "journal" <=> n = 8
BY DEF InitOrder

LEMMA ShutdownLength == Len(ShutdownOrder) = 16
BY DEF ShutdownOrder

LEMMA ShutdownOrderFacts ==
    \A n \in 1 .. 16 :
          /\ ShutdownOrder[n] = "gateway" <=> n = 1
          /\ ShutdownOrder[n] = "retranslator" <=> n = 2
          /\ ShutdownOrder[n] = "analytic" <=> n = 3
          /\ ShutdownOrder[n] = "sources" <=> n = 4
          /\ ShutdownOrder[n] = "storage" <=> n = 5
          /\ ShutdownOrder[n] = "database" <=> n = 6
          /\ ShutdownOrder[n] = "recorder" <=> n = 7
          /\ ShutdownOrder[n] = "archivers" <=> n = 8
          /\ ShutdownOrder[n] = "delete gateway" <=> n = 9
          /\ ShutdownOrder[n] = "timer" <=> n = 16
<1>1. /\ ShutdownOrder[1] = "gateway" /\ ShutdownOrder[2] = "retranslator"
      /\ ShutdownOrder[3] = "analytic" /\ ShutdownOrder[4] = "sources"
      /\ ShutdownOrder[5] = "storage" /\ ShutdownOrder[6] = "database"
      /\ ShutdownOrder[7] = "recorder" /\ ShutdownOrder[8] = "archivers"
      /\ ShutdownOrder[9] = "delete gateway"
      /\ ShutdownOrder[10] = "delete analytic"
      /\ ShutdownOrder[11] = "delete storage"
      /\ ShutdownOrder[12] = "delete recorder"
      /\ ShutdownOrder[13] = "delete sources"
      /\ ShutdownOrder[14] = "delete environment"
      /\ ShutdownOrder[15] = "launcher" /\ ShutdownOrder[16] = "timer"
  BY DEF ShutdownOrder
<1>2. SUFFICES ASSUME NEW n \in 1 .. 16
               PROVE  /\ ShutdownOrder[n] = "gateway" <=> n = 1
                      /\ ShutdownOrder[n] = "retranslator" <=> n = 2
                      /\ ShutdownOrder[n] = "analytic" <=> n = 3
                      /\ ShutdownOrder[n] = "sources" <=> n = 4
                      /\ ShutdownOrder[n] = "storage" <=> n = 5
                      /\ ShutdownOrder[n] = "database" <=> n = 6
                      /\ ShutdownOrder[n] = "recorder" <=> n = 7
                      /\ ShutdownOrder[n] = "archivers" <=> n = 8
                      /\ ShutdownOrder[n] = "delete gateway" <=> n = 9
                      /\ ShutdownOrder[n] = "timer" <=> n = 16
  OBVIOUS
<1>3. \/ n = 1 \/ n = 2 \/ n = 3 \/ n = 4 \/ n = 5 \/ n = 6 \/ n = 7 \/ n = 8
      \/ n = 9 \/ n = 10 \/ n = 11 \/ n = 12 \/ n = 13 \/ n = 14 \/ n = 15
      \/ n = 16
  OBVIOUS
<1>4. QED
  BY <1>1, <1>3

-----------------------------------------------------------------------------
(* The queue.                                                              *)

LEMMA CommandFacts ==
    /\ \A o, p : StartCmd(o) = StartCmd(p) => o = p
    /\ \A o, p, k, l : StopCmd(o, k) = StopCmd(p, l) => o = p /\ k = l
    /\ \A o, p, k : StartCmd(o) # StopCmd(p, k)
    /\ \A o : StartCmd(o) # ShutdownCmd
    /\ \A o, k : StopCmd(o, k) # ShutdownCmd
    /\ \A o : StartCmd(o).kind = "start" /\ StartCmd(o).op = o
    /\ \A o, k : /\ StopCmd(o, k).kind = "stop" /\ StopCmd(o, k).op = o
                 /\ StopCmd(o, k).key = k
    /\ ShutdownCmd.kind = "shutdown"
BY DEF StartCmd, StopCmd, ShutdownCmd, Command

(* A command is taken from the front.                                      *)
LEMMA TailFacts ==
    ASSUME queue \in Seq(QueueCommands), queue # <<>>, queue' = Tail(queue)
    PROVE  /\ queue' \in Seq(QueueCommands) /\ Head(queue) \in QueueCommands
           /\ \A o : /\ StartQueued(o)' => StartQueued(o)
                     /\ StartQueued(o) => StartQueued(o)' \/ Head(queue) = StartCmd(o)
                     /\ StartTwice(o)' => StartTwice(o)
                     /\ Head(queue) = StartCmd(o) => StartQueued(o)
                     /\ Head(queue) = StartCmd(o) /\ StartQueued(o)' => StartTwice(o)
           /\ \A o, k : /\ StopQueued(o, k)' => StopQueued(o, k)
                        /\ Head(queue) = StopCmd(o, k) => StopQueued(o, k)
<1>1. /\ Len(queue) \in Nat \ {0} /\ DOMAIN queue = 1 .. Len(queue)
      /\ queue' \in Seq(QueueCommands) /\ Head(queue) \in QueueCommands
      /\ Head(queue) = queue[1]
  OBVIOUS
<1>2. DOMAIN queue' = 1 .. Len(queue) - 1
      /\ \A i \in DOMAIN queue' : queue'[i] = queue[i + 1] /\ i + 1 \in DOMAIN queue
                                   /\ i + 1 # 1
  BY <1>1
<1>3. \A i \in DOMAIN queue : i # 1 => i - 1 \in DOMAIN queue' /\ queue'[i - 1] = queue[i]
  BY <1>1, <1>2
<1>4. 1 \in DOMAIN queue /\ \A i, j \in DOMAIN queue' : i # j => i + 1 # j + 1
  BY <1>1, <1>2
<1>5. ASSUME NEW o
      PROVE  /\ StartQueued(o)' => StartQueued(o)
             /\ StartQueued(o) => StartQueued(o)' \/ Head(queue) = StartCmd(o)
             /\ StartTwice(o)' => StartTwice(o)
             /\ Head(queue) = StartCmd(o) => StartQueued(o)
             /\ Head(queue) = StartCmd(o) /\ StartQueued(o)' => StartTwice(o)
  <2>1. StartQueued(o)' => StartQueued(o)
    BY <1>2 DEF StartQueued
  <2>2. StartQueued(o) => StartQueued(o)' \/ Head(queue) = StartCmd(o)
    BY <1>1, <1>3 DEF StartQueued
  <2>3. StartTwice(o)' => StartTwice(o)
    <3>1. SUFFICES ASSUME StartTwice(o)' PROVE StartTwice(o)
      OBVIOUS
    <3>2. PICK i \in DOMAIN queue', j \in DOMAIN queue' :
             i # j /\ queue'[i] = StartCmd(o) /\ queue'[j] = StartCmd(o)
      BY <3>1 DEF StartTwice
    <3>3. /\ i + 1 \in DOMAIN queue /\ j + 1 \in DOMAIN queue /\ i + 1 # j + 1
          /\ queue[i + 1] = StartCmd(o) /\ queue[j + 1] = StartCmd(o)
      BY <3>2, <1>2, <1>4
    <3>4. QED
      BY <3>3 DEF StartTwice
  <2>4. Head(queue) = StartCmd(o) => StartQueued(o)
    BY <1>1, <1>4 DEF StartQueued
  <2>5. Head(queue) = StartCmd(o) /\ StartQueued(o)' => StartTwice(o)
    BY <1>1, <1>2, <1>4 DEF StartQueued, StartTwice
  <2>6. QED
    BY <2>1, <2>2, <2>3, <2>4, <2>5
<1>6. ASSUME NEW o, NEW k
      PROVE  /\ StopQueued(o, k)' => StopQueued(o, k)
             /\ Head(queue) = StopCmd(o, k) => StopQueued(o, k)
  BY <1>1, <1>2, <1>4 DEF StopQueued
<1>7. QED
  BY <1>1, <1>5, <1>6

(* A command is put at the end.                                            *)
LEMMA AppendFacts ==
    ASSUME queue \in Seq(QueueCommands), NEW c \in QueueCommands,
           queue' = Append(queue, c)
    PROVE  /\ queue' \in Seq(QueueCommands)
           /\ \A o : /\ StartQueued(o)' <=> StartQueued(o) \/ c = StartCmd(o)
                     /\ StartTwice(o)' =>
                           StartTwice(o) \/ (c = StartCmd(o) /\ StartQueued(o))
           /\ \A o, k : StopQueued(o, k)' <=> StopQueued(o, k) \/ c = StopCmd(o, k)
<1> DEFINE n == Len(queue) + 1
<1>1. Len(queue) \in Nat /\ DOMAIN queue = 1 .. Len(queue)
  OBVIOUS
<1>2. /\ queue' \in Seq(QueueCommands)
      /\ DOMAIN queue' = DOMAIN queue \cup {n} /\ n \notin DOMAIN queue
      /\ queue'[n] = c /\ \A i \in DOMAIN queue : queue'[i] = queue[i]
  BY <1>1
<1>. HIDE DEF n
<1>3. QED
  BY <1>2 DEF StartQueued, StartTwice, StopQueued

-----------------------------------------------------------------------------
(* Types.  The log is finite, so it can be put into the queue; the command *)
(* being executed is the one the phase says.                               *)
CmdInv ==
    /\ phase = "opening" => \E o \in Ops, k \in Keys : cmd = Command("start", o, k)
    /\ phase = "stopping" => \E o \in Ops, k \in Keys : cmd = StopCmd(o, k)
    /\ phase \notin {"opening", "stopping"} => cmd = NoCommand

TypeInv ==
    /\ TypeOK
    /\ queue \in Seq(QueueCommands)
    /\ IsFiniteSet(journal)
    /\ phase = "init" => step \in 1 .. 8
    /\ CmdInv

Jobs == {NoJob} \cup [op : Ops, at : Uncollected \cup {"up"}]

LEMMA InitTypes == Init => TypeInv
<1>1. SUFFICES ASSUME Init PROVE TypeInv
  OBVIOUS
<1>2. byCommand \in BOOLEAN /\ armed \in BOOLEAN /\ flag \in BOOLEAN
      /\ calm \in BOOLEAN
  BY <1>1, Zenon DEF Init
<1>3. IsFiniteSet(journal)
  BY <1>1, FS_EmptySet DEF Init
<1>4. CmdInv
  BY <1>1 DEF Init, CmdInv
<1>5. job \in [Keys -> Jobs]
  BY <1>1 DEF Init, Jobs
<1>6. step \in 1 .. Len(ShutdownOrder) /\ boots \in 0 .. MaxBoots
  BY <1>1, ShutdownLength, LifecycleAssumption DEF Init, LifecycleAssumption
<1>7. QED
  BY <1>1, <1>2, <1>3, <1>4, <1>5, <1>6, LifecycleAssumption
  DEF LifecycleAssumption, Init, TypeInv, TypeOK, Jobs

LEMMA ExitTypes ==
    ASSUME TypeInv, NEW how, Exit(how)
    PROVE  TypeInv'
<1>1. byCommand' \in BOOLEAN /\ armed' \in BOOLEAN /\ flag' \in BOOLEAN
      /\ calm' \in BOOLEAN
  BY Zenon DEF Exit, TypeInv, TypeOK
<1>2. CmdInv'
  BY DEF Exit, CmdInv
<1>3. job' \in [Keys -> Jobs]
  BY DEF Exit, Jobs
<1>4. step' \in 1 .. Len(ShutdownOrder)
  BY ShutdownLength DEF Exit
<1>5. Pending \subseteq Ops
  <2>1. \A i \in DOMAIN queue : queue[i].kind = "start" => queue[i].op \in Ops
    BY CommandFacts DEF TypeInv, QueueCommands
  <2>2. cmd.kind = "start" => cmd.op \in Ops
    BY DEF TypeInv, CmdInv, NoCommand, Command, StopCmd
  <2>3. QED
    BY <2>1, <2>2 DEF Pending
<1>6. QED
  BY <1>1, <1>2, <1>3, <1>4, <1>5 DEF Exit, TypeInv, TypeOK, Jobs

LEMMA BootTypes ==
    ASSUME TypeInv, Boot
    PROVE  TypeInv'
<1>1. calm' \in BOOLEAN
  BY Zenon DEF Boot
<1>2. step' \in 1 .. Len(ShutdownOrder) /\ step' \in 1 .. 8
  BY ShutdownLength DEF Boot
<1>3. boots' \in 0 .. MaxBoots
  BY LifecycleAssumption DEF LifecycleAssumption, Boot, TypeInv, TypeOK
<1>4. CmdInv'
  BY DEF Boot, TypeInv, CmdInv
<1>5. QED
  BY <1>1, <1>2, <1>3, <1>4 DEF Boot, TypeInv, TypeOK

(* The configured requests and the entries of the log, in any order: each  *)
(* entry becomes a command, and no command is there twice but one that is  *)
(* both configured and in the log, or has two entries.                     *)
LEMMA GatewayQueue ==
    ASSUME TypeInv, InitGateway
    PROVE  /\ queue' \in Seq(QueueCommands)
           /\ \A o, k : ~ StopQueued(o, k)'
           /\ \A e \in journal : StartQueued(e[1])'
           /\ \A o : StartQueued(o)' => o \in Configured \/ \E k \in Keys : <<o, k>> \in journal
           /\ \A o : StartTwice(o)' =>
                 \/ o \in Configured
                 \/ \E k, j \in Keys : k # j /\ <<o, k>> \in journal /\ <<o, j>> \in journal
<1> DEFINE C == {<<o, 0>> : o \in Configured}
           S == C \cup journal
           D == 1 .. Cardinality(S)
<1>1. IsFiniteSet(C)
  <2>1. [o \in Configured |-> <<o, 0>>] \in Surjection(Configured, C)
    BY DEF Surjection
  <2>2. QED
    BY <2>1, FS_Surjection, LifecycleAssumption DEF LifecycleAssumption
<1>2. IsFiniteSet(S)
  BY <1>1, FS_Union DEF TypeInv
<1>3. IsFiniteSet(D) /\ Cardinality(D) = Cardinality(S) /\ Cardinality(S) \in Nat
  BY <1>2, FS_CardinalityType, FS_Interval
<1>4. PICK s \in SetToSeqs(S) : queue' = CommandsOf(s)
  BY DEF InitGateway
<1>5. s \in [D -> S] /\ \A i, j \in D : i # j => s[i] # s[j]
  BY <1>4 DEF SetToSeqs
<1>6. \A x \in S : \E i \in D : s[i] = x
  <2>1. s \in Injection(D, S)
    BY <1>5 DEF Injection, IsInjective
  <2>2. s \in Surjection(D, S)
    BY <2>1, <1>2, <1>3, FS_Injection
  <2>3. QED
    BY <2>2 DEF Surjection
<1>7. \A x \in S : x[1] \in Ops /\ (x \in C => x[1] \in Configured)
                 /\ (x \in journal => x = <<x[1], x[2]>> /\ x[2] \in Keys)
  BY LifecycleAssumption DEF LifecycleAssumption, TypeInv, TypeOK
<1>8. DOMAIN queue' = D /\ \A i \in D : queue'[i] = StartCmd(s[i][1])
  BY <1>4, <1>5 DEF CommandsOf
<1>9. queue' \in Seq(QueueCommands)
  <2>1. queue' = [i \in D |-> StartCmd(s[i][1])]
    BY <1>4, <1>5 DEF CommandsOf
  <2>2. \A i \in D : StartCmd(s[i][1]) \in QueueCommands
    BY <1>5, <1>7 DEF QueueCommands
  <2>3. QED
    BY <2>1, <2>2, <1>3
<1>. HIDE DEF S, D, C
<1>10. \A o, k : ~ StopQueued(o, k)'
  BY <1>8, CommandFacts DEF StopQueued
<1>11. \A e \in journal : StartQueued(e[1])'
  BY <1>6, <1>8 DEF StartQueued, S
<1>12. ASSUME NEW o, StartQueued(o)'
       PROVE  o \in Configured \/ \E k \in Keys : <<o, k>> \in journal
  <2>1. PICK i \in D : queue'[i] = StartCmd(o)
    BY <1>12, <1>8 DEF StartQueued
  <2>2. s[i] \in S /\ s[i][1] = o
    BY <2>1, <1>5, <1>8, CommandFacts
  <2>3. QED
    BY <2>2, <1>7 DEF S
<1>13. ASSUME NEW o, StartTwice(o)', o \notin Configured
       PROVE  \E k, j \in Keys : k # j /\ <<o, k>> \in journal /\ <<o, j>> \in journal
  <2>1. PICK i \in D, j \in D : i # j /\ queue'[i] = StartCmd(o) /\ queue'[j] = StartCmd(o)
    BY <1>13, <1>8 DEF StartTwice
  <2>2. s[i] \in S /\ s[i][1] = o /\ s[j] \in S /\ s[j][1] = o /\ s[i] # s[j]
    BY <2>1, <1>5, <1>8, CommandFacts
  <2>3. /\ s[i] \in journal /\ s[i] = <<o, s[i][2]>> /\ s[i][2] \in Keys
        /\ s[j] \in journal /\ s[j] = <<o, s[j][2]>> /\ s[j][2] \in Keys
    BY <2>2, <1>7, <1>13 DEF S
  <2>4. s[i][2] # s[j][2]
    BY <2>2, <2>3
  <2>5. QED
    BY <2>3, <2>4
<1>14. QED
  BY <1>9, <1>10, <1>11, <1>12, <1>13

LEMMA InitServerTypes ==
    ASSUME TypeInv, InitServer
    PROVE  TypeInv'
<1>1. phase = "init" /\ step \in 1 .. 8 /\ cmd = NoCommand
  BY DEF InitServer, InitEnvironment, InitGateway, InitThread, InitFails,
     ConnectHandler, CleanJournal, AtInit, TypeInv, CmdInv
<1>2. step # 8 => step + 1 \in 1 .. 8 /\ step + 1 \in 1 .. Len(ShutdownOrder)
  BY <1>1, ShutdownLength
<1>3. 1 \in 1 .. Len(ShutdownOrder)
  BY ShutdownLength
<1>4. CASE InitEnvironment
  <2>1. step # 8
    BY <1>1, <1>4, InitOrderFacts DEF InitEnvironment, AtInit
  <2>2. QED
    BY <1>1, <1>2, <1>4, <2>1
    DEF InitEnvironment, TypeInv, TypeOK, CmdInv, histVars
<1>5. CASE InitGateway
  <2>1. step # 8
    BY <1>1, <1>5, InitOrderFacts DEF InitGateway, AtInit
  <2>2. queue' \in Seq(QueueCommands)
    BY <1>5, GatewayQueue
  <2>3. QED
    BY <1>1, <1>2, <1>5, <2>1, <2>2
    DEF InitGateway, TypeInv, TypeOK, CmdInv, histVars
<1>6. CASE InitThread
  <2>1. step # 8
    BY <1>1, <1>6, InitOrderFacts DEF InitThread, AtInit
  <2>2. QED
    BY <1>1, <1>2, <1>6, <2>1
    DEF InitThread, TypeInv, TypeOK, CmdInv, histVars
<1>7. CASE InitFails
  <2>1. calm' \in BOOLEAN
    BY <1>7, Zenon DEF InitFails, BeginShutdown
  <2>2. QED
    BY <1>1, <1>3, <1>7, <2>1
    DEF InitFails, BeginShutdown, TypeInv, TypeOK, CmdInv, histVars
<1>8. CASE ConnectHandler
  <2>1. step # 8
    BY <1>1, <1>8, InitOrderFacts DEF ConnectHandler, AtInit
  <2>2. QED
    BY <1>1, <1>2, <1>8, <2>1
    DEF ConnectHandler, TypeInv, TypeOK, CmdInv, histVars
<1>9. CASE CleanJournal
  <2>1. IsFiniteSet(journal')
    BY <1>9, FS_EmptySet DEF CleanJournal
  <2>2. QED
    BY <1>1, <1>3, <1>9, <2>1
    DEF CleanJournal, TypeInv, TypeOK, CmdInv, histVars
<1>10. QED
  BY <1>4, <1>5, <1>6, <1>7, <1>8, <1>9 DEF InitServer

(* A start gets an id nobody uses.                                         *)
LEMMA ExecStartFacts ==
    ASSUME TypeInv, ExecStart
    PROVE  \E op \in Ops, id \in Keys :
              /\ Head(queue) = StartCmd(op)
              /\ job[id] = NoJob /\ \A e \in journal : e[2] # id
              /\ \A o : ~ StopQueued(o, id)
              /\ job' = [job EXCEPT ![id] = [op |-> op, at |-> "starting"]]
              /\ cmd' = Command("start", op, id)
<1> DEFINE op == Head(queue).op
           id == CHOOSE k \in Unused : TRUE
<1>1. Head(queue) \in QueueCommands /\ Head(queue).kind = "start"
  BY TailFacts DEF TypeInv, ExecStart, Fetch
<1>2. op \in Ops /\ Head(queue) = StartCmd(op)
  BY <1>1, CommandFacts DEF QueueCommands
<1>3. Unused # {}
  BY DEF ExecStart
<1>4. id \in Unused
  BY <1>3
<1>5. /\ job' = [job EXCEPT ![id] = [op |-> op, at |-> "starting"]]
      /\ cmd' = Command("start", op, id)
  BY DEF ExecStart
<1>. HIDE DEF op, id
<1>6. \A o : ~ StopQueued(o, id)
  BY <1>4, CommandFacts DEF Unused, StopQueued
<1>7. QED
  BY <1>2, <1>4, <1>5, <1>6 DEF Unused

LEMMA LoopTypes ==
    ASSUME TypeInv, Loop
    PROVE  TypeInv'
<1>1. 1 \in 1 .. Len(ShutdownOrder)
  BY ShutdownLength
<1>2. CASE ExecStart
  <2>1. PICK op \in Ops, id \in Keys :
              /\ job' = [job EXCEPT ![id] = [op |-> op, at |-> "starting"]]
              /\ cmd' = Command("start", op, id)
    BY <1>2, ExecStartFacts
  <2>2. queue' \in Seq(QueueCommands)
    BY <1>2, TailFacts DEF TypeInv, ExecStart, Fetch
  <2>3. job' \in [Keys -> Jobs]
    BY <2>1 DEF TypeInv, TypeOK, Jobs, Uncollected
  <2>4. CmdInv' /\ phase' = "opening"
    BY <1>2, <2>1 DEF ExecStart, CmdInv
  <2>5. QED
    BY <1>2, <2>2, <2>3, <2>4 DEF ExecStart, TypeInv, TypeOK, Jobs, histVars
<1>3. CASE ExecRefused
  <2>1. queue' \in Seq(QueueCommands) /\ Head(queue) \in QueueCommands
    BY <1>3, TailFacts DEF TypeInv, ExecRefused, Fetch
  <2>2. lost' \subseteq Ops
    BY <1>3, <2>1, CommandFacts
    DEF ExecRefused, Fetch, QueueCommands, TypeInv, TypeOK
  <2>3. QED
    BY <1>3, <2>1, <2>2 DEF ExecRefused, TypeInv, TypeOK, CmdInv, procVars
<1>4. CASE OpenOperation
  <2>1. PICK o \in Ops, k \in Keys : cmd = Command("start", o, k)
    BY <1>4 DEF OpenOperation, TypeInv, CmdInv
  <2>2. cmd.op = o /\ cmd.key = k
    BY <2>1 DEF Command
  <2>3. IsFiniteSet(journal')
    BY <1>4, FS_AddElement DEF OpenOperation, TypeInv
  <2>4. wanted' \subseteq Ops /\ journal' \subseteq Ops \X Keys
    BY <1>4, <2>2 DEF OpenOperation, TypeInv, TypeOK
  <2>5. QED
    BY <1>4, <2>3, <2>4 DEF OpenOperation, TypeInv, TypeOK, CmdInv
<1>5. CASE ExecStop
  <2>1. queue' \in Seq(QueueCommands) /\ Head(queue) \in QueueCommands
    BY <1>5, TailFacts DEF TypeInv, ExecStop, Fetch
  <2>2. PICK o \in Ops, k \in Keys : Head(queue) = StopCmd(o, k)
    BY <1>5, <2>1, CommandFacts DEF ExecStop, Fetch, QueueCommands
  <2>3. job' \in [Keys -> Jobs]
    BY <1>5 DEF ExecStop, TypeInv, TypeOK, Jobs
  <2>4. journal' \subseteq journal /\ IsFiniteSet(journal')
    <3>1. journal' \subseteq journal
      BY <1>5 DEF ExecStop, Close
    <3>2. QED
      BY <3>1, FS_Subset DEF TypeInv
  <2>5. CmdInv'
    BY <1>5, <2>2 DEF ExecStop, CmdInv
  <2>6. QED
    BY <1>5, <2>1, <2>3, <2>4, <2>5 DEF ExecStop, TypeInv, TypeOK, Jobs, histVars
<1>6. CASE FinishStop
  <2>1. PICK o \in Ops, k \in Keys : cmd = StopCmd(o, k)
    BY <1>6 DEF FinishStop, TypeInv, CmdInv
  <2>2. stopped' \subseteq Ops
    BY <1>6, <2>1, CommandFacts DEF FinishStop, TypeInv, TypeOK
  <2>3. job' \in [Keys -> Jobs]
    BY <1>6 DEF FinishStop, TypeInv, TypeOK, Jobs
  <2>4. journal' \subseteq journal /\ IsFiniteSet(journal')
    <3>1. journal' \subseteq journal
      BY <1>6 DEF FinishStop, Close
    <3>2. QED
      BY <3>1, FS_Subset DEF TypeInv
  <2>5. QED
    BY <1>6, <2>2, <2>3, <2>4 DEF FinishStop, TypeInv, TypeOK, CmdInv, Jobs
<1>7. CASE ExecShutdown
  <2>1. calm' \in BOOLEAN /\ byCommand' \in BOOLEAN
    BY <1>7, Zenon DEF ExecShutdown, BeginShutdown
  <2>2. queue' \in Seq(QueueCommands)
    BY <1>7, TailFacts DEF TypeInv, ExecShutdown, Fetch
  <2>3. CmdInv'
    BY <1>7 DEF ExecShutdown, Fetch, BeginShutdown, TypeInv, CmdInv
  <2>4. QED
    BY <1>1, <1>7, <2>1, <2>2, <2>3 DEF ExecShutdown, BeginShutdown, TypeInv, TypeOK
<1>8. CASE LeaveLoop
  <2>1. calm' \in BOOLEAN
    BY <1>8, Zenon DEF LeaveLoop, BeginShutdown
  <2>2. CmdInv'
    BY <1>8 DEF LeaveLoop, BeginShutdown, TypeInv, CmdInv
  <2>3. QED
    BY <1>1, <1>8, <2>1, <2>2 DEF LeaveLoop, BeginShutdown, TypeInv, TypeOK
<1>9. QED
  BY <1>2, <1>3, <1>4, <1>5, <1>6, <1>7, <1>8 DEF Loop

LEMMA ShutdownTypes ==
    ASSUME TypeInv, Shutdown \/ FollowDeleted
    PROVE  TypeInv'
<1>1. CASE FollowDeleted \/ ReturnToLoop \/ EndProcess
  BY <1>1, ExitTypes DEF FollowDeleted, ReturnToLoop, EndProcess
<1>2. CASE ~ (FollowDeleted \/ ReturnToLoop \/ EndProcess)
  <2>1. /\ phase = "shutdown" /\ ShutdownOrder[step] # "timer"
        /\ UNCHANGED <<phase, byCommand, cmd, armed, flag, threads, queue, journal,
                      boots, lastExit, histVars>>
        /\ step' = step \/ step' = step + 1
    BY <1>2 DEF Shutdown, ShutdownStep, StopThread, StopArchivers, DeleteAnalytic,
       DeleteRecorder, DeleteOwner, AtShutdown
  <2>2. step \in 1 .. 16 /\ step # 16
    BY <2>1, ShutdownOrderFacts, ShutdownLength DEF TypeInv, TypeOK
  <2>3. step' \in 1 .. Len(ShutdownOrder)
    BY <2>1, <2>2, ShutdownLength
  <2>4. ending' \subseteq {"analytic", "storage", "recorder"}
    BY <1>2 DEF Shutdown, ShutdownStep, StopThread, StopArchivers, DeleteAnalytic,
       DeleteRecorder, DeleteOwner, TypeInv, TypeOK
  <2>5. job' \in [Keys -> Jobs]
    BY <1>2 DEF Shutdown, ShutdownStep, StopThread, StopArchivers, DeleteAnalytic,
       DeleteRecorder, DeleteOwner, TypeInv, TypeOK, Jobs
  <2>6. QED
    BY <2>1, <2>3, <2>4, <2>5 DEF TypeInv, TypeOK, CmdInv, Jobs, histVars
<1>3. QED
  BY <1>1, <1>2

LEMMA OutsideTypes ==
    ASSUME TypeInv, Outside
    PROVE  TypeInv'
<1>1. ASSUME NEW o \in Ops, ClientStarts(o) PROVE TypeInv'
  <2>1. queue' \in Seq(QueueCommands)
    BY <1>1, AppendFacts DEF ClientStarts, Request, TypeInv, QueueCommands
  <2>2. QED
    BY <1>1, <2>1 DEF ClientStarts, Request, TypeInv, TypeOK, CmdInv, procVars
<1>2. ASSUME NEW k \in Keys, ClientStops(k) PROVE TypeInv'
  <2>1. job[k].op \in Ops
    BY <1>2 DEF ClientStops, TypeInv, TypeOK
  <2>2. queue' \in Seq(QueueCommands)
    BY <1>2, <2>1, AppendFacts
    DEF ClientStops, Request, TypeInv, QueueCommands, StopCmd
  <2>3. QED
    BY <1>2, <2>2 DEF ClientStops, Request, TypeInv, TypeOK, CmdInv, procVars
<1>3. CASE ClientShutsDown
  <2>1. queue' \in Seq(QueueCommands)
    BY <1>3, AppendFacts
    DEF ClientShutsDown, Request, TypeInv, QueueCommands, ShutdownCmd
  <2>2. QED
    BY <1>3, <2>1
    DEF ClientShutsDown, Request, TypeInv, TypeOK, CmdInv, procVars, histVars
<1>4. CASE Interrupt
  BY <1>4 DEF Interrupt, TypeInv, TypeOK, CmdInv, histVars
<1>5. CASE Kill
  BY <1>5, ExitTypes DEF Kill
<1>6. QED
  BY <1>1, <1>2, <1>3, <1>4, <1>5 DEF Outside

LEMMA ThreadTypes ==
    ASSUME TypeInv, NEW k \in Keys, Thread(k)
    PROVE  TypeInv'
<1>1. CASE TaskEnds(k)
  <2>1. job' \in [Keys -> Jobs]
    <3>1. PICK r \in {"ok", "failed"} : job' = [job EXCEPT ![k].at = r]
      BY <1>1 DEF TaskEnds
    <3>2. job[k] \in [op : Ops, at : Uncollected \cup {"up"}]
      BY <1>1 DEF TaskEnds, TypeInv, TypeOK, NoJob
    <3>3. [job[k] EXCEPT !.at = r] \in Jobs
      BY <3>2 DEF Jobs, Uncollected
    <3>4. QED
      BY <3>1, <3>3 DEF TypeInv, TypeOK, Jobs
  <2>2. QED
    BY <1>1, <2>1 DEF TaskEnds, TypeInv, TypeOK, CmdInv, Jobs, procVars, histVars
<1>2. CASE CollectStarted(k)
  <2>1. job' \in [Keys -> Jobs]
    <3>1. job' = [job EXCEPT ![k].at = "up"]
      BY <1>2 DEF CollectStarted
    <3>2. job[k] \in [op : Ops, at : Uncollected \cup {"up"}]
      BY <1>2 DEF CollectStarted, TypeInv, TypeOK, NoJob
    <3>3. [job[k] EXCEPT !.at = "up"] \in Jobs
      BY <3>2 DEF Jobs, Uncollected
    <3>4. QED
      BY <3>1, <3>3 DEF TypeInv, TypeOK, Jobs
  <2>2. QED
    BY <1>2, <2>1
    DEF CollectStarted, TypeInv, TypeOK, CmdInv, Jobs, procVars, histVars
<1>3. CASE CollectFailedAnalysis(k)
  <2>1. job[k].op \in Ops
    BY <1>3 DEF CollectFailedAnalysis, Ops
  <2>2. job' \in [Keys -> Jobs]
    BY <1>3 DEF CollectFailedAnalysis, TypeInv, TypeOK, Jobs
  <2>3. journal' \subseteq journal /\ IsFiniteSet(journal')
    <3>1. journal' \subseteq journal
      BY <1>3 DEF CollectFailedAnalysis, Close
    <3>2. QED
      BY <3>1, FS_Subset DEF TypeInv
  <2>4. wanted' \cup asked' \cup leftover' \subseteq Ops
    BY <1>3, <2>1 DEF CollectFailedAnalysis, TypeInv, TypeOK
  <2>5. QED
    BY <1>3, <2>2, <2>3, <2>4
    DEF CollectFailedAnalysis, TypeInv, TypeOK, CmdInv, Jobs, procVars
<1>4. CASE CollectFailedRecording(k)
  <2>1. CASE Exit("journal")
    BY <2>1, ExitTypes
  <2>2. CASE ~ Exit("journal")
    <3>1. job[k].op \in Ops
      BY <1>4 DEF CollectFailedRecording, Ops
    <3>2. job' \in [Keys -> Jobs]
      BY <1>4, <2>2 DEF CollectFailedRecording, TypeInv, TypeOK, Jobs
    <3>3. wanted' \cup asked' \cup leftover' \subseteq Ops
      BY <1>4, <2>2, <3>1 DEF CollectFailedRecording, TypeInv, TypeOK
    <3>4. QED
      BY <1>4, <2>2, <3>2, <3>3
      DEF CollectFailedRecording, TypeInv, TypeOK, CmdInv, Jobs, procVars
  <2>3. QED
    BY <2>1, <2>2
<1>5. QED
  BY <1>1, <1>2, <1>3, <1>4 DEF Thread

LEMMA StepTypes == TypeInv /\ [Next]_vars => TypeInv'
<1>1. SUFFICES ASSUME TypeInv, [Next]_vars PROVE TypeInv'
  OBVIOUS
<1>2. CASE UNCHANGED vars
  BY <1>1, <1>2 DEF vars, procVars, histVars, TypeInv, TypeOK, CmdInv
<1>3. CASE \E t \in {"analytic", "storage", "recorder"} : ThreadEnds(t)
  BY <1>1, <1>3 DEF ThreadEnds, TypeInv, TypeOK, CmdInv, histVars
<1>4. QED
  BY <1>1, <1>2, <1>3, BootTypes, InitServerTypes, LoopTypes, ShutdownTypes,
     OutsideTypes, ThreadTypes DEF Next

LEMMA TypesInvariant == Spec => []TypeInv
<1>1. QED
  BY InitTypes, StepTypes, PTL DEF Spec

(* Every variable keeps its type: the main thread never runs past the last *)
(* step of init or of the shutdown, and every entry of the log belongs to  *)
(* an operation and an id.                                                 *)
THEOREM LifecycleTypeOK == Spec => []TypeOK
<1>1. TypeInv => TypeOK
  BY DEF TypeInv
<1>2. QED
  BY <1>1, TypesInvariant, PTL

-----------------------------------------------------------------------------
(* Each maintenance thread is joined at its own step of the shutdown, and  *)
(* threads are only started by init, which no shutdown returns to.         *)
ThreadInv ==
    phase = "shutdown" =>
        /\ step > 3 => "analytic" \notin threads
        /\ step > 5 => "storage" \notin threads
        /\ step > 7 => "recorder" \notin threads

LEMMA StepThreads == TypeInv /\ ThreadInv /\ [Next]_vars => ThreadInv'
<1>1. SUFFICES ASSUME TypeInv, ThreadInv, [Next]_vars, phase' = "shutdown"
               PROVE  ThreadInv'
  BY DEF ThreadInv
<1>2. step \in 1 .. 16
  BY <1>1, ShutdownLength DEF TypeInv, TypeOK
<1>3. CASE phase # "shutdown"
  <2>1. BeginShutdown
    BY <1>1, <1>3 DEF Next, Boot, InitServer, InitEnvironment, InitGateway,
       InitThread, InitFails, ConnectHandler, CleanJournal, Loop, ExecStart,
       ExecRefused, OpenOperation, ExecStop, FinishStop, ExecShutdown, LeaveLoop,
       Shutdown, ShutdownStep, StopThread, StopArchivers, DeleteAnalytic,
       DeleteRecorder, DeleteOwner, ReturnToLoop, EndProcess, FollowDeleted, Outside,
       ClientStarts, ClientStops, ClientShutsDown, Request, Interrupt, Kill, Exit,
       Thread, TaskEnds, CollectStarted, CollectFailedAnalysis,
       CollectFailedRecording, ThreadEnds, procVars, vars
  <2>2. QED
    BY <2>1 DEF BeginShutdown, ThreadInv
<1>4. CASE phase = "shutdown"
  <2>1. CASE Shutdown
    <3>1. threads' = threads /\ phase' = phase
      BY <1>1, <2>1 DEF Shutdown, ShutdownStep, StopThread, StopArchivers,
         DeleteAnalytic, DeleteRecorder, DeleteOwner, ReturnToLoop, EndProcess, Exit
    <3>2. \/ step' = step
          \/ step' = step + 1 /\ step \notin {3, 5, 7}
          \/ \E t \in {"analytic", "storage", "recorder"} :
                AtShutdown(t) /\ t \notin threads /\ step' = step + 1
      <4>1. \/ step' = step + 1 /\ ShutdownOrder[step] \notin
                                     {"analytic", "storage", "recorder"}
            \/ step' = step
            \/ \E t \in {"analytic", "storage", "recorder"} :
                  AtShutdown(t) /\ t \notin threads /\ step' = step + 1
        BY <1>1, <2>1 DEF Shutdown, ShutdownStep, StopThread, StopArchivers,
           DeleteAnalytic, DeleteRecorder, DeleteOwner, ReturnToLoop, EndProcess,
           Exit, AtShutdown
      <4>2. QED
        BY <4>1, <1>2, ShutdownOrderFacts
    <3>3. ASSUME NEW t \in {"analytic", "storage", "recorder"},
                 AtShutdown(t), t \notin threads
          PROVE  \/ step = 3 /\ t = "analytic"
                 \/ step = 5 /\ t = "storage"
                 \/ step = 7 /\ t = "recorder"
      BY <3>3, <1>2, ShutdownOrderFacts DEF AtShutdown
    <3>4. CASE step' = step
      BY <3>1, <3>4, <1>1 DEF ThreadInv
    <3>5. CASE step' = step + 1 /\ step \notin {3, 5, 7}
      BY <3>1, <3>5, <1>1, <1>2 DEF ThreadInv
    <3>6. CASE \E t \in {"analytic", "storage", "recorder"} :
                  AtShutdown(t) /\ t \notin threads /\ step' = step + 1
      BY <3>1, <3>3, <3>6, <1>1, <1>2, <1>4 DEF ThreadInv
    <3>7. QED
      BY <3>2, <3>4, <3>5, <3>6
  <2>2. CASE ~ Shutdown
    <3>1. step' = step /\ threads' \subseteq threads
      BY <1>1, <1>4, <2>2 DEF Next, Boot, InitServer, InitEnvironment, InitGateway,
         InitThread, InitFails, ConnectHandler, CleanJournal, AtInit, Loop, ExecStart,
         ExecRefused, OpenOperation, ExecStop, FinishStop, ExecShutdown, LeaveLoop,
         Fetch, FollowDeleted, Outside, ClientStarts, ClientStops, ClientShutsDown,
         Request, Interrupt, Kill, Exit, Thread, TaskEnds, CollectStarted,
         CollectFailedAnalysis, CollectFailedRecording, ThreadEnds, procVars, vars
    <3>2. QED
      BY <1>1, <1>4, <3>1 DEF ThreadInv
  <2>3. QED
    BY <2>1, <2>2
<1>5. QED
  BY <1>3, <1>4

LEMMA ThreadsInvariant == Spec => []ThreadInv
<1>1. Init => ThreadInv
  BY DEF Init, ThreadInv
<1>2. QED
  BY <1>1, StepThreads, TypesInvariant, PTL DEF Spec

(* However init ended and whatever ran, no facade is deleted while a       *)
(* maintenance thread runs, and only the recorder's is left when the       *)
(* database goes.                                                          *)
THEOREM ThreadsEndFirst == Spec => []ThreadsEndBeforeDeletes
<1>1. TypeInv /\ ThreadInv => ThreadsEndBeforeDeletes
  <2>1. SUFFICES ASSUME TypeInv, ThreadInv PROVE ThreadsEndBeforeDeletes
    OBVIOUS
  <2>2. step \in Nat
    BY <2>1, ShutdownLength DEF TypeInv, TypeOK
  <2>3. threads \subseteq {"analytic", "storage", "recorder"}
    BY <2>1 DEF TypeInv, TypeOK
  <2>4. Past("delete gateway") => threads = {}
    <3>1. SUFFICES ASSUME Past("delete gateway") PROVE threads = {}
      OBVIOUS
    <3>2. phase = "shutdown" /\ 9 < step
      BY <3>1, ShutdownLength, ShutdownOrderFacts, ZenonT(40) DEF Past
    <3>3. step > 3 /\ step > 5 /\ step > 7
      BY <2>2, <3>2
    <3>4. QED
      BY <2>1, <2>3, <3>2, <3>3 DEF ThreadInv
  <2>5. Past("sources") => "analytic" \notin threads
    <3>1. SUFFICES ASSUME Past("sources") PROVE "analytic" \notin threads
      OBVIOUS
    <3>2. phase = "shutdown" /\ 4 < step
      BY <3>1, ShutdownLength, ShutdownOrderFacts, ZenonT(40) DEF Past
    <3>3. step > 3
      BY <2>2, <3>2
    <3>4. QED
      BY <2>1, <3>2, <3>3 DEF ThreadInv
  <2>6. Past("database") => threads \subseteq {"recorder"}
    <3>1. SUFFICES ASSUME Past("database") PROVE threads \subseteq {"recorder"}
      OBVIOUS
    <3>2. phase = "shutdown" /\ 6 < step
      BY <3>1, ShutdownLength, ShutdownOrderFacts, ZenonT(40) DEF Past
    <3>3. step > 3 /\ step > 5
      BY <2>2, <3>2
    <3>4. QED
      BY <2>1, <2>3, <3>2, <3>3 DEF ThreadInv
  <2>7. QED
    BY <2>4, <2>5, <2>6, Zenon DEF ThreadsEndBeforeDeletes
<1>2. QED
  BY <1>1, ThreadsInvariant, TypesInvariant, PTL

-----------------------------------------------------------------------------
(* A calm shutdown has no operation, and nothing starts one during it.     *)
CalmInv ==
    /\ phase # "off" => lastExit = "none"
    /\ phase = "shutdown" /\ calm => \A k \in Keys : job[k] = NoJob
    /\ lastExit \in {"retranslator", "database", "gateway", "balancer"} => ~ calm

LEMMA JobIsNone ==
    ASSUME TypeInv, NEW k \in Keys
    PROVE  job[k] = NoJob <=> ~ (job[k].op \in Ops /\ job[k].at \in Uncollected \cup {"up"})
BY LifecycleAssumption DEF LifecycleAssumption, TypeInv, TypeOK, NoJob

LEMMA StepCalm == TypeInv /\ CalmInv /\ [Next]_vars => CalmInv'
<1>1. SUFFICES ASSUME TypeInv, CalmInv, [Next]_vars PROVE CalmInv'
  OBVIOUS
<1>2. ASSUME phase # "off", NEW how, Exit(how),
             how \in {"retranslator", "database", "gateway", "balancer"} => ~ calm
      PROVE  CalmInv'
  BY <1>2 DEF Exit, CalmInv
<1>3. CASE FollowDeleted
  <2>1. phase = "shutdown" /\ \E k \in Keys : job[k] # NoJob
    <3>1. phase = "shutdown"
      BY <1>3 DEF FollowDeleted, Past, AtShutdown
    <3>2. \/ JobsIn(Analyses, {"ok", "up"}) # {}
          \/ JobsIn(Recordings, {"ok", "up"}) # {}
          \/ JobsIn(Recordings, {"starting"}) # {}
          \/ JobsIn(Ops, {"starting"}) # {}
          \/ JobsIn(Analyses, {"starting"}) # {}
      BY <1>3 DEF FollowDeleted, UsesRetranslator, UsesDatabase, UsesGateway,
         UsesBalancer
    <3>3. QED
      BY <3>1, <3>2 DEF JobsIn, NoJob
  <2>2. ~ calm
    BY <1>1, <2>1 DEF CalmInv
  <2>3. QED
    BY <1>2, <1>3, <2>1, <2>2 DEF FollowDeleted
<1>4. CASE Kill \/ ReturnToLoop \/ EndProcess
  BY <1>2, <1>4 DEF Kill, ReturnToLoop, EndProcess, AtShutdown
<1>6. CASE BeginShutdown
  <2>1. phase # "off"
    BY <1>1, <1>6 DEF Next, Boot, InitServer, InitEnvironment, InitGateway,
       InitThread, InitFails, ConnectHandler, CleanJournal, AtInit, Loop, ExecStart,
       ExecRefused, OpenOperation, ExecStop, FinishStop, ExecShutdown, LeaveLoop, Fetch,
       Shutdown, ShutdownStep, StopThread, StopArchivers, DeleteAnalytic,
       DeleteRecorder, DeleteOwner, ReturnToLoop, EndProcess, FollowDeleted, Outside,
       ClientStarts, ClientStops, ClientShutsDown, Request, Interrupt, Kill, Exit,
       Thread, TaskEnds, CollectStarted, CollectFailedAnalysis,
       CollectFailedRecording, ThreadEnds, BeginShutdown, procVars, vars
  <2>2. calm' => \A k \in Keys : job[k] = NoJob
    BY <1>1, <1>6, JobIsNone DEF BeginShutdown, JobsIn
  <2>3. QED
    BY <1>1, <1>6, <2>1, <2>2 DEF BeginShutdown, CalmInv
<1>7. CASE Boot
  BY <1>7 DEF Boot, CalmInv
<1>8. CASE Shutdown /\ ~ ReturnToLoop /\ ~ EndProcess
  <2>1. UNCHANGED <<phase, calm, lastExit>>
        /\ \A k \in Keys : job'[k] \in {job[k], NoJob}
    BY <1>1, <1>8 DEF Shutdown, ShutdownStep, StopThread, StopArchivers,
       DeleteAnalytic, DeleteRecorder, DeleteOwner, histVars
  <2>2. QED
    BY <1>1, <2>1 DEF CalmInv
<1>9. CASE InitServer \/ Loop
  <2>1. \/ BeginShutdown
        \/ phase' # "shutdown" /\ UNCHANGED <<calm, lastExit>> /\ phase # "off"
    BY <1>9 DEF InitServer, InitEnvironment, InitGateway, InitThread, InitFails,
       ConnectHandler, CleanJournal, AtInit, Loop, ExecStart, ExecRefused,
       OpenOperation, ExecStop, FinishStop, ExecShutdown, LeaveLoop, Fetch, procVars,
       histVars
  <2>2. QED
    BY <1>1, <1>6, <2>1 DEF CalmInv
<1>10. CASE \/ (Outside /\ ~ Kill) \/ UNCHANGED vars
            \/ \E t \in {"analytic", "storage", "recorder"} : ThreadEnds(t)
  BY <1>1, <1>10 DEF Outside, ClientStarts, ClientStops, ClientShutsDown, Request,
     Interrupt, ThreadEnds, procVars, histVars, vars, CalmInv
<1>11. ASSUME NEW k \in Keys, Thread(k), ~ Exit("journal") PROVE CalmInv'
  <2>1. job[k] # NoJob /\ UNCHANGED <<phase, calm, lastExit>>
    BY <1>11 DEF Thread, TaskEnds, CollectStarted, CollectFailedAnalysis,
       CollectFailedRecording, procVars, histVars, NoJob
  <2>2. QED
    BY <1>1, <2>1 DEF CalmInv
<1>12. ASSUME NEW k \in Keys, Thread(k), Exit("journal") PROVE CalmInv'
  BY <1>1, <1>2, <1>12 DEF Exit, CalmInv
<1>13. QED
  BY <1>1, <1>3, <1>4, <1>7, <1>8, <1>9, <1>10, <1>11, <1>12 DEF Next

LEMMA CalmInvariant == Spec => []CalmInv
<1>1. Init => CalmInv
  BY DEF Init, CalmInv
<1>2. QED
  BY <1>1, StepCalm, TypesInvariant, PTL DEF Spec

(* A server with nothing running or starting when its shutdown begins gets *)
(* through it, from whatever state: the deleted objects it could follow    *)
(* are all followed for an operation.                                      *)
THEOREM CalmShutdown == Spec => []CalmShutdownIsClean
<1>1. CalmInv => CalmShutdownIsClean
  BY DEF CalmInv, CalmShutdownIsClean
<1>2. QED
  BY <1>1, CalmInvariant, PTL

-----------------------------------------------------------------------------
(* Where an operation may be.                                              *)

Serving == {"loop", "opening", "stopping"}

(* Until the gateway is up there is nothing in memory; from then until the *)
(* log is cleaned each of its entries is in the queue too.                 *)
BootInv ==
    /\ phase \in {"off", "init"} =>
          \A k \in Keys : job[k] = NoJob /\ \A o \in Ops : ~ Stopping(o, k)
    /\ phase = "off" \/ (phase = "init" /\ step <= 2) => queue = <<>>
    /\ phase = "init" /\ step > 2 => \A e \in journal : StartQueued(e[1])

(* An entry in use has an owner; the entry of a start that is being opened *)
(* is not there yet, and if that start has failed it will be left over.    *)
EntryInv ==
    /\ phase \in Serving =>
          \A e \in journal : \/ job[e[2]].op = e[1]
                             \/ e[1] \in leftover
                             \/ Executing(e[1], e[2])
    /\ \A e \in journal : job[e[2]] = NoJob \/ job[e[2]].op = e[1]
    /\ \A o \in Ops, k \in Keys : Opening(o, k) =>
          /\ job[k].op = o \/ (job[k] = NoJob /\ o \in leftover)
          /\ \A e \in journal : e[2] # k

(* The id of a stop stays the id of what is stopped.                       *)
StopInv ==
    \A o \in Ops, k \in Keys : Stopping(o, k) =>
        /\ \A e \in journal : e[2] = k => e[1] = o
        /\ job[k] \in {NoJob, [op |-> o, at |-> "up"]}
        /\ \A q \in Ops : Opening(q, k) => q = o

(* A wanted operation is in an entry that nobody is about to close, is     *)
(* being opened, or waits in the queue for its first start.                *)
WantedInv ==
    /\ \A o \in wanted \ (lost \cup Configured) :
          \/ \E k \in Keys : <<o, k>> \in journal /\ ~ Stopping(o, k)
          \/ \E k \in Keys : Opening(o, k)
          \/ StartQueued(o) /\ \A k \in Keys : job[k].op # o
    /\ \A o \in Ops, k \in Keys : Opening(o, k) /\ Stopping(o, k) => o \notin wanted

(* An operation is in one place at a time, with one id, and only when it   *)
(* was asked for; a stopped one is nowhere.                                *)
OnceOf(o) ==
    /\ ~ StartTwice(o)
    /\ \A k, j \in Keys : job[k].op = o /\ job[j].op = o => k = j
    /\ \A k, j \in Keys : <<o, k>> \in journal /\ job[j].op = o => j = k
    /\ \A k, j \in Keys : <<o, k>> \in journal /\ <<o, j>> \in journal => j = k
    /\ \A k, j \in Keys :
          Stopping(o, k) /\ (job[j].op = o \/ <<o, j>> \in journal) => j = k
    /\ StartQueued(o) =>
          \A k \in Keys : /\ job[k].op # o /\ ~ Opening(o, k) /\ ~ Stopping(o, k)
                          /\ phase \in Serving => <<o, k>> \notin journal
    /\ o \notin asked =>
          /\ ~ StartQueued(o)
          /\ \A k \in Keys : /\ job[k].op # o /\ ~ Opening(o, k)
                             /\ ~ Stopping(o, k) /\ <<o, k>> \notin journal
    /\ o \in stopped =>
          /\ o \in asked /\ ~ StartQueued(o)
          /\ \A k \in Keys : /\ job[k].op # o /\ ~ Opening(o, k)
                             /\ <<o, k>> \notin journal

OnceInv == \A o \in Ops \ (Configured \cup leftover) : OnceOf(o)

LogInv == BootInv /\ EntryInv /\ StopInv /\ WantedInv /\ OnceInv

LEMMA EmptyQueue ==
    queue = <<>> => \A o, k : ~ StartQueued(o) /\ ~ StartTwice(o) /\ ~ StopQueued(o, k)
BY DEF StartQueued, StartTwice, StopQueued

(* The end of the process empties the queue of the next state.             *)
LEMMA EmptyQueueAfter ==
    queue' = <<>> =>
        \A o, k : ~ StartQueued(o)' /\ ~ StartTwice(o)' /\ ~ StopQueued(o, k)'
BY DEF StartQueued, StartTwice, StopQueued

LEMMA SameQueue ==
    queue' = queue =>
        \A o, k : /\ StartQueued(o)' <=> StartQueued(o)
                  /\ StartTwice(o)' <=> StartTwice(o)
                  /\ StopQueued(o, k)' <=> StopQueued(o, k)
BY DEF StartQueued, StartTwice, StopQueued

LEMMA NoJobFacts == NoJob.op = NoOp /\ NoJob.at = "none" /\ NoOp \notin Ops
BY LifecycleAssumption DEF LifecycleAssumption, NoJob

LEMMA InitLog == Init => LogInv
<1>1. SUFFICES ASSUME Init PROVE LogInv
  OBVIOUS
<1>2. /\ queue = <<>> /\ journal = {} /\ wanted = {} /\ stopped = {} /\ leftover = {}
      /\ phase = "off" /\ \A k \in Keys : job[k] = NoJob
  BY <1>1 DEF Init
<1>3. \A o, k : /\ ~ StartQueued(o) /\ ~ StartTwice(o) /\ ~ Opening(o, k)
                /\ ~ Stopping(o, k) /\ ~ Executing(o, k)
  BY <1>2, EmptyQueue DEF Opening, Stopping, Executing
<1>4. QED
  BY <1>2, <1>3, NoJobFacts
  DEF LogInv, BootInv, EntryInv, StopInv, WantedInv, OnceInv, OnceOf, Serving

(* Steps that leave alone what the invariant is about, or only take the    *)
(* main thread from boot or loop to somewhere nothing is executed.         *)
LEMMA QuietLog ==
    ASSUME LogInv, BootInv',
           UNCHANGED <<cmd, queue, job, journal, wanted, lost, asked, stopped, leftover>>,
           \/ phase' = phase
           \/ phase \notin {"opening", "stopping"} /\ phase' \in {"init", "shutdown"}
    PROVE  LogInv'
<1>1. \A o, k : /\ StartQueued(o)' <=> StartQueued(o)
                /\ StartTwice(o)' <=> StartTwice(o)
                /\ StopQueued(o, k)' <=> StopQueued(o, k)
  BY SameQueue
<1>2. \A o, k : /\ Opening(o, k)' <=> Opening(o, k)
                /\ Executing(o, k)' <=> Executing(o, k)
                /\ Stopping(o, k)' <=> Stopping(o, k)
  BY <1>1 DEF Opening, Executing, Stopping
<1>3. phase' \in Serving => phase \in Serving
  BY DEF Serving
<1>4. EntryInv'
  BY <1>2, <1>3 DEF LogInv, EntryInv
<1>5. StopInv'
  BY <1>2 DEF LogInv, StopInv
<1>6. WantedInv'
  BY <1>1, <1>2 DEF LogInv, WantedInv
<1>7. OnceInv'
  BY <1>1, <1>2, <1>3 DEF LogInv, OnceInv, OnceOf
<1>8. QED
  BY <1>4, <1>5, <1>6, <1>7 DEF LogInv

LEMMA PendingFacts ==
    ASSUME TypeInv, NEW o \in Ops
    PROVE  o \in Pending <=> StartQueued(o) \/ \E k \in Keys : Opening(o, k)
<1>1. \A i \in DOMAIN queue : queue[i] \in QueueCommands
  BY DEF TypeInv
<1>2. \A i \in DOMAIN queue :
         queue[i].kind = "start" /\ queue[i].op = o <=> queue[i] = StartCmd(o)
  BY <1>1, CommandFacts DEF QueueCommands
<1>3. (\E i \in {j \in DOMAIN queue : queue[j].kind = "start"} : queue[i].op = o)
         <=> StartQueued(o)
  BY <1>2 DEF StartQueued
<1>4. cmd.kind = "start" /\ cmd.op = o <=> \E k \in Keys : Opening(o, k)
  BY DEF TypeInv, CmdInv, Opening, StopCmd, NoCommand, Command
<1>5. QED
  BY <1>3, <1>4 DEF Pending

LEMMA EntryKey == TypeInv => \A e \in journal : e[1] \in Ops /\ e[2] \in Keys
BY DEF TypeInv, TypeOK

LEMMA ExitLog ==
    ASSUME TypeInv, LogInv, NEW how, Exit(how)
    PROVE  LogInv'
<1>1. /\ phase' = "off" /\ queue' = <<>> /\ \A k \in Keys : job'[k] = NoJob
      /\ lost' = lost \cup Pending
      /\ UNCHANGED <<journal, wanted, asked, stopped, leftover>>
  BY DEF Exit
<1>2. \A o, k : /\ ~ StartQueued(o)' /\ ~ StartTwice(o)' /\ ~ StopQueued(o, k)'
                /\ ~ Opening(o, k)' /\ ~ Stopping(o, k)'
  BY <1>1, EmptyQueueAfter DEF Opening, Executing, Stopping
<1>3. BootInv' /\ EntryInv' /\ StopInv'
  BY <1>1, <1>2, EntryKey DEF BootInv, EntryInv, StopInv, Serving
<1>4. WantedInv'
  <2>1. ASSUME NEW o \in wanted' \ (lost' \cup Configured)
        PROVE  \E k \in Keys : <<o, k>> \in journal
    <3>1. o \in Ops /\ o \notin Pending /\ o \in wanted \ (lost \cup Configured)
      BY <1>1, <2>1 DEF TypeInv, TypeOK
    <3>2. QED
      BY <3>1, PendingFacts DEF LogInv, WantedInv
  <2>2. QED
    BY <1>1, <1>2, <2>1 DEF WantedInv
<1>5. OnceInv'
  BY <1>1, <1>2, NoJobFacts DEF LogInv, OnceInv, OnceOf, Serving
<1>6. QED
  BY <1>3, <1>4, <1>5 DEF LogInv

LEMMA GatewayLog ==
    ASSUME TypeInv, LogInv, InitGateway
    PROVE  LogInv'
<1>1. /\ phase = "init" /\ phase' = "init" /\ step = 2 /\ step' = 3
      /\ UNCHANGED <<cmd, job, journal, wanted, lost, asked, stopped, leftover>>
  BY InitOrderFacts DEF InitGateway, AtInit, TypeInv, histVars
<1>2. /\ \A o, k : ~ StopQueued(o, k)'
      /\ \A e \in journal : StartQueued(e[1])'
      /\ \A o : StartQueued(o)' => o \in Configured \/ \E k \in Keys : <<o, k>> \in journal
      /\ \A o : StartTwice(o)' =>
            \/ o \in Configured
            \/ \E k, j \in Keys : k # j /\ <<o, k>> \in journal /\ <<o, j>> \in journal
  BY GatewayQueue
<1>3. /\ queue = <<>> /\ \A k \in Keys : job[k] = NoJob
      /\ \A o, k : ~ StartQueued(o) /\ ~ Opening(o, k)
      /\ \A o, k : ~ Opening(o, k)' /\ ~ Executing(o, k)' /\ ~ Stopping(o, k)'
  <2>1. queue = <<>> /\ \A k \in Keys : job[k] = NoJob
    BY <1>1 DEF LogInv, BootInv
  <2>2. QED
    BY <1>1, <1>2, <2>1, EmptyQueue DEF Opening, Executing, Stopping
<1>4. BootInv'
  BY <1>1, <1>2, <1>3 DEF BootInv
<1>5. EntryInv' /\ StopInv'
  BY <1>1, <1>3, EntryKey DEF EntryInv, StopInv, Serving
<1>6. WantedInv'
  BY <1>1, <1>3 DEF LogInv, WantedInv
<1>7. OnceInv'
  BY <1>1, <1>2, <1>3, NoJobFacts, ZenonT(60) DEF LogInv, OnceInv, OnceOf, Serving
<1>8. QED
  BY <1>4, <1>5, <1>6, <1>7 DEF LogInv

LEMMA CleanJournalLog ==
    ASSUME TypeInv, LogInv, CleanJournal
    PROVE  LogInv'
<1>1. /\ phase = "init" /\ phase' = "loop" /\ step = 8 /\ journal' = {}
      /\ UNCHANGED <<cmd, queue, job, wanted, lost, asked, stopped, leftover>>
  BY InitOrderFacts DEF CleanJournal, AtInit, TypeInv, histVars
<1>2. /\ \A k \in Keys : job[k] = NoJob /\ \A o \in Ops : ~ Stopping(o, k)
      /\ \A e \in journal : StartQueued(e[1])
  BY <1>1 DEF LogInv, BootInv
<1>3. \A o, k : /\ StartQueued(o)' <=> StartQueued(o)
                /\ StartTwice(o)' <=> StartTwice(o)
                /\ StopQueued(o, k)' <=> StopQueued(o, k)
                /\ ~ Opening(o, k) /\ ~ Opening(o, k)'
                /\ ~ Executing(o, k) /\ ~ Executing(o, k)'
                /\ Stopping(o, k)' <=> Stopping(o, k)
  BY <1>1, SameQueue DEF Opening, Executing, Stopping
<1>4. BootInv' /\ EntryInv' /\ StopInv'
  <2>1. BootInv'
    BY <1>1 DEF BootInv
  <2>2. EntryInv'
    BY <1>1, <1>3 DEF EntryInv
  <2>3. StopInv'
    BY <1>2, <1>3 DEF StopInv
  <2>4. QED
    BY <2>1, <2>2, <2>3
<1>5. WantedInv'
  <2>1. ASSUME NEW o \in wanted \ (lost \cup Configured) PROVE StartQueued(o)
    BY <1>2, <1>3, <2>1 DEF LogInv, WantedInv
  <2>2. wanted \subseteq Ops
    BY DEF TypeInv, TypeOK
  <2>3. QED
    BY <1>1, <1>2, <1>3, <2>1, <2>2, NoJobFacts DEF WantedInv
<1>6. OnceInv'
  BY <1>1, <1>2, <1>3, NoJobFacts DEF LogInv, OnceInv, OnceOf
<1>7. QED
  BY <1>4, <1>5, <1>6 DEF LogInv

LEMMA InitServerLog ==
    ASSUME TypeInv, LogInv, InitServer
    PROVE  LogInv'
<1>1. CASE InitGateway
  BY <1>1, GatewayLog
<1>2. CASE CleanJournal
  BY <1>2, CleanJournalLog
<1>3. CASE InitEnvironment \/ InitThread \/ ConnectHandler
  <2>1. /\ phase = "init" /\ phase' = phase /\ step \in 1 .. 8 /\ step # 2
        /\ step' = step + 1
        /\ UNCHANGED <<cmd, queue, job, journal, wanted, lost, asked, stopped, leftover>>
    <3>1. /\ phase = "init" /\ phase' = phase /\ step \in 1 .. 8 /\ step' = step + 1
          /\ UNCHANGED <<cmd, queue, job, journal, wanted, lost, asked, stopped,
                         leftover>>
      BY <1>3 DEF InitEnvironment, InitThread, ConnectHandler, AtInit, TypeInv,
         histVars
    <3>2. InitOrder[step] # "gateway"
      BY <1>3 DEF InitEnvironment, InitThread, ConnectHandler, AtInit
    <3>3. QED
      BY <3>1, <3>2, InitOrderFacts
  <2>2. BootInv'
    <3>1. step' <= 2 => step <= 2
      BY <2>1
    <3>2. step' > 2 => step > 2
      BY <2>1
    <3>3. \A o, k : /\ StartQueued(o)' <=> StartQueued(o)
                    /\ Stopping(o, k)' <=> Stopping(o, k)
      BY <2>1, SameQueue DEF Executing, Stopping
    <3>4. QED
      BY <2>1, <3>1, <3>2, <3>3 DEF LogInv, BootInv
  <2>3. QED
    BY <2>1, <2>2, QuietLog
<1>4. CASE InitFails
  <2>1. /\ phase = "init" /\ phase' = "shutdown"
        /\ UNCHANGED <<cmd, queue, job, journal, wanted, lost, asked, stopped, leftover>>
    BY <1>4 DEF InitFails, AtInit, BeginShutdown
  <2>2. BootInv'
    BY <2>1 DEF BootInv
  <2>3. QED
    BY <2>1, <2>2, QuietLog
<1>5. QED
  BY <1>1, <1>2, <1>3, <1>4 DEF InitServer

(* In service BootInv asks for nothing.                                    *)
LEMMA ServingBoot == phase' \notin {"off", "init"} => BootInv'
BY DEF BootInv

LEMMA ClientStartsLog ==
    ASSUME TypeInv, LogInv, NEW op \in Ops, ClientStarts(op)
    PROVE  LogInv'
<1>1. /\ phase \in Serving /\ phase' = phase /\ op \notin asked
      /\ asked' = asked \cup {op}
      /\ UNCHANGED <<cmd, job, journal, wanted, lost, stopped, leftover>>
  BY DEF ClientStarts, Request, procVars, Serving
<1>2. /\ \A o : /\ StartQueued(o)' <=> StartQueued(o) \/ o = op
                /\ StartTwice(o)' => StartTwice(o) \/ (o = op /\ StartQueued(o))
      /\ \A o, k : StopQueued(o, k)' <=> StopQueued(o, k)
  BY AppendFacts, CommandFacts
  DEF ClientStarts, Request, TypeInv, QueueCommands
<1>3. \A o, k : /\ Opening(o, k)' <=> Opening(o, k)
                /\ Executing(o, k)' <=> Executing(o, k)
                /\ Stopping(o, k)' <=> Stopping(o, k)
  BY <1>1, <1>2 DEF Opening, Executing, Stopping
<1>4. BootInv' /\ EntryInv' /\ StopInv'
  BY <1>1, <1>3, ServingBoot DEF LogInv, EntryInv, StopInv, Serving
<1>5. WantedInv'
  BY <1>1, <1>2, <1>3 DEF LogInv, WantedInv
<1>6. OnceInv'
  BY <1>1, <1>2, <1>3 DEF LogInv, OnceInv, OnceOf
<1>7. QED
  BY <1>4, <1>5, <1>6 DEF LogInv

LEMMA ClientStopsLog ==
    ASSUME TypeInv, LogInv, NEW key \in Keys, ClientStops(key)
    PROVE  LogInv'
<1> DEFINE op == job[key].op
<1>1. /\ phase \in Serving /\ phase' = phase /\ wanted' = wanted \ {op}
      /\ UNCHANGED <<cmd, job, journal, asked, lost, stopped, leftover>>
  BY DEF ClientStops, Request, procVars, Serving
<1>2. op \in Ops /\ job[key] = [op |-> op, at |-> "up"]
  BY NoJobFacts DEF ClientStops, TypeInv, TypeOK
<1>3. /\ \A o : /\ StartQueued(o)' <=> StartQueued(o)
                /\ StartTwice(o)' => StartTwice(o)
      /\ \A o, k : StopQueued(o, k)' <=> StopQueued(o, k) \/ (o = op /\ k = key)
  <2>1. StopCmd(op, key) \in QueueCommands /\ queue' = Append(queue, StopCmd(op, key))
    BY <1>2 DEF ClientStops, Request, QueueCommands, StopCmd
  <2>2. QED
    BY <2>1, AppendFacts, CommandFacts DEF TypeInv
<1>. HIDE DEF op
<1>4. \A o, k : /\ Opening(o, k)' <=> Opening(o, k)
                /\ Executing(o, k)' <=> Executing(o, k)
                /\ Stopping(o, k)' <=> Stopping(o, k) \/ (o = op /\ k = key)
  BY <1>1, <1>3 DEF Opening, Executing, Stopping
<1>5. job[key].op = op /\ job[key] # NoJob
  BY <1>2, NoJobFacts
<1>6. BootInv' /\ EntryInv'
  BY <1>1, <1>4, ServingBoot DEF LogInv, EntryInv, Serving
<1>7. StopInv'
  <2>1. \A e \in journal : e[2] = key => e[1] = op
    BY <1>5 DEF LogInv, EntryInv
  <2>2. \A q \in Ops : Opening(q, key) => q = op
    BY <1>5 DEF LogInv, EntryInv
  <2>3. QED
    BY <1>1, <1>2, <1>4, <2>1, <2>2 DEF LogInv, StopInv
<1>8. WantedInv'
  BY <1>1, <1>3, <1>4 DEF LogInv, WantedInv
<1>9. OnceInv'
  BY <1>1, <1>3, <1>4, <1>5 DEF LogInv, OnceInv, OnceOf
<1>10. QED
  BY <1>6, <1>7, <1>8, <1>9 DEF LogInv

LEMMA OutsideLog ==
    ASSUME TypeInv, LogInv, Outside
    PROVE  LogInv'
<1>1. CASE ClientShutsDown
  <2>1. /\ phase \in Serving /\ phase' = phase
        /\ UNCHANGED <<cmd, job, journal, wanted, asked, lost, stopped, leftover>>
    BY <1>1 DEF ClientShutsDown, Request, procVars, histVars, Serving
  <2>2. /\ \A o : /\ StartQueued(o)' <=> StartQueued(o)
                  /\ StartTwice(o)' => StartTwice(o)
        /\ \A o, k : StopQueued(o, k)' <=> StopQueued(o, k)
    <3>1. ShutdownCmd \in QueueCommands /\ queue' = Append(queue, ShutdownCmd)
      BY <1>1 DEF ClientShutsDown, Request, QueueCommands, ShutdownCmd
    <3>2. QED
      BY <3>1, AppendFacts, CommandFacts DEF TypeInv
  <2>3. \A o, k : /\ Opening(o, k)' <=> Opening(o, k)
                  /\ Executing(o, k)' <=> Executing(o, k)
                  /\ Stopping(o, k)' <=> Stopping(o, k)
    BY <2>1, <2>2 DEF Opening, Executing, Stopping
  <2>4. BootInv' /\ EntryInv' /\ StopInv'
    BY <2>1, <2>3, ServingBoot DEF LogInv, EntryInv, StopInv, Serving
  <2>5. WantedInv' /\ OnceInv'
    BY <2>1, <2>2, <2>3 DEF LogInv, WantedInv, OnceInv, OnceOf
  <2>6. QED
    BY <2>4, <2>5 DEF LogInv
<1>2. CASE Interrupt
  <2>1. UNCHANGED <<phase, step, cmd, queue, job, journal, wanted, lost, asked, stopped,
                    leftover>>
    BY <1>2 DEF Interrupt, histVars
  <2>2. BootInv'
    BY <2>1, SameQueue DEF LogInv, BootInv, Stopping, Executing
  <2>3. QED
    BY <2>1, <2>2, QuietLog
<1>3. CASE Kill
  BY <1>3, ExitLog DEF Kill
<1>4. QED
  BY <1>1, <1>2, <1>3, ClientStartsLog, ClientStopsLog DEF Outside

-----------------------------------------------------------------------------
(* The command loop takes a command: what is queued, twice queued or being *)
(* stopped afterwards was so before, and all but the command is still in   *)
(* the queue.                                                              *)
LEMMA FetchFacts ==
    ASSUME TypeInv, NEW kind, Fetch(kind)
    PROVE  /\ phase = "loop" /\ Head(queue) \in QueueCommands
           /\ Head(queue).kind = kind
           /\ \A o : /\ StartQueued(o)' => StartQueued(o)
                     /\ StartQueued(o) => StartQueued(o)' \/ Head(queue) = StartCmd(o)
                     /\ StartTwice(o)' => StartTwice(o)
                     /\ Head(queue) = StartCmd(o) => StartQueued(o)
                     /\ Head(queue) = StartCmd(o) /\ StartQueued(o)' => StartTwice(o)
           /\ \A o, k : /\ StopQueued(o, k)' => StopQueued(o, k)
                        /\ Head(queue) = StopCmd(o, k) => StopQueued(o, k)
                        /\ ~ Opening(o, k) /\ ~ Executing(o, k)
                        /\ Stopping(o, k) <=> StopQueued(o, k)
BY TailFacts DEF Fetch, TypeInv, Opening, Executing, Stopping

LEMMA ExecStartLog ==
    ASSUME TypeInv, LogInv, ExecStart
    PROVE  LogInv'
<1>1. PICK op \in Ops, id \in Keys :
              /\ Head(queue) = StartCmd(op)
              /\ job[id] = NoJob /\ \A e \in journal : e[2] # id
              /\ \A o : ~ StopQueued(o, id)
              /\ job' = [job EXCEPT ![id] = [op |-> op, at |-> "starting"]]
              /\ cmd' = Command("start", op, id)
  BY ExecStartFacts
<1>2. /\ phase = "loop"
      /\ \A o : /\ StartQueued(o)' => StartQueued(o)
                /\ StartQueued(o) => StartQueued(o)' \/ o = op
                /\ StartTwice(o)' => StartTwice(o)
      /\ StartQueued(op) /\ (StartQueued(op)' => StartTwice(op))
      /\ \A o, k : /\ StopQueued(o, k)' => StopQueued(o, k)
                   /\ ~ Opening(o, k) /\ ~ Executing(o, k)
                   /\ Stopping(o, k) <=> StopQueued(o, k)
  BY <1>1, FetchFacts, CommandFacts DEF ExecStart
<1>3. /\ phase' = "opening"
      /\ UNCHANGED <<journal, wanted, asked, lost, stopped, leftover>>
  BY DEF ExecStart, histVars
<1>4. /\ \A o, k : Opening(o, k)' <=> o = op /\ k = id
      /\ \A o, k : ~ Executing(o, k)'
      /\ \A o, k : Stopping(o, k)' => Stopping(o, k) /\ k # id
  BY <1>1, <1>2, <1>3 DEF Opening, Executing, Stopping, Command
<1>5. /\ job'[id].op = op /\ job'[id] # NoJob
      /\ \A k \in Keys : k # id => job'[k] = job[k]
      /\ job[id].op \notin Ops
  BY <1>1, NoJobFacts DEF TypeInv, TypeOK
<1>6. BootInv'
  BY <1>3, ServingBoot
<1>7. EntryInv'
  <2>1. \A e \in journal : e[2] \in Keys /\ e[2] # id /\ job'[e[2]] = job[e[2]]
    BY <1>1, <1>5, EntryKey
  <2>2. QED
    BY <1>1, <1>2, <1>3, <1>4, <1>5, <2>1 DEF LogInv, EntryInv, Serving
<1>8. StopInv'
  BY <1>3, <1>4, <1>5 DEF LogInv, StopInv
<1>9. WantedInv'
  BY <1>2, <1>3, <1>4, <1>5 DEF LogInv, WantedInv
<1>10. OnceInv'
  <2>1. ASSUME NEW o \in Ops \ (Configured \cup leftover), o # op
        PROVE  \A k \in Keys : job'[k].op = o <=> job[k].op = o
    BY <2>1, <1>5
  <2>2. phase \in Serving /\ phase' \in Serving
    BY <1>2, <1>3 DEF Serving
  <2>3. ASSUME op \notin Configured \cup leftover
        PROVE  /\ ~ StartQueued(op)' /\ op \in asked /\ op \notin stopped
               /\ \A k \in Keys : /\ job'[k].op = op <=> k = id
                                  /\ <<op, k>> \notin journal /\ ~ Stopping(op, k)
    BY <2>3, <1>2, <1>5, <2>2 DEF LogInv, OnceInv, OnceOf
  <2>4. ASSUME NEW o \in Ops \ (Configured \cup leftover), o # op PROVE OnceOf(o)'
    BY <1>2, <1>3, <1>4, <2>1, <2>2, <2>4 DEF LogInv, OnceInv, OnceOf
  <2>5. ASSUME op \notin Configured \cup leftover PROVE OnceOf(op)'
    BY <1>2, <1>3, <1>4, <2>3, <2>5 DEF LogInv, OnceInv, OnceOf
  <2>6. QED
    BY <1>3, <2>4, <2>5 DEF OnceInv
<1>11. QED
  BY <1>6, <1>7, <1>8, <1>9, <1>10 DEF LogInv

LEMMA ExecRefusedLog ==
    ASSUME TypeInv, LogInv, ExecRefused
    PROVE  LogInv'
<1>1. Fetch("start") /\ phase' = phase
      /\ UNCHANGED <<cmd, job, journal, wanted, asked, stopped, leftover>>
      /\ lost' = IF JobsOf(Head(queue).op) = {} THEN lost \cup {Head(queue).op}
                                                ELSE lost
  BY DEF ExecRefused, procVars
<1>2. PICK op \in Ops : Head(queue) = StartCmd(op)
  BY <1>1, FetchFacts, CommandFacts DEF QueueCommands
<1>3. /\ phase = "loop"
      /\ \A o : /\ StartQueued(o)' => StartQueued(o)
                /\ StartQueued(o) => StartQueued(o)' \/ o = op
                /\ StartTwice(o)' => StartTwice(o)
      /\ \A o, k : /\ StopQueued(o, k)' => StopQueued(o, k)
                   /\ ~ Opening(o, k) /\ ~ Executing(o, k)
                   /\ Stopping(o, k) <=> StopQueued(o, k)
  BY <1>1, <1>2, FetchFacts, CommandFacts
<1>4. \A o, k : /\ ~ Opening(o, k)' /\ ~ Executing(o, k)'
                /\ Stopping(o, k)' => Stopping(o, k)
  BY <1>1, <1>3 DEF Opening, Executing, Stopping
<1>5. lost \subseteq lost' /\ (op \in lost' \/ \E k \in Keys : job[k].op = op)
  BY <1>1, <1>2, CommandFacts DEF JobsOf, JobsIn
<1>6. BootInv' /\ EntryInv' /\ StopInv'
  BY <1>1, <1>3, <1>4, ServingBoot DEF LogInv, EntryInv, StopInv
<1>7. WantedInv'
  BY <1>1, <1>3, <1>4, <1>5 DEF LogInv, WantedInv
<1>8. OnceInv'
  BY <1>1, <1>3, <1>4 DEF LogInv, OnceInv, OnceOf
<1>9. QED
  BY <1>6, <1>7, <1>8 DEF LogInv

LEMMA OpenOperationLog ==
    ASSUME TypeInv, LogInv, OpenOperation
    PROVE  LogInv'
<1>1. PICK op \in Ops, id \in Keys : cmd = Command("start", op, id)
  BY DEF OpenOperation, TypeInv, CmdInv
<1>2. cmd.op = op /\ cmd.key = id
  BY <1>1 DEF Command
<1>3. /\ phase = "opening" /\ phase' = "loop" /\ cmd' = NoCommand
      /\ journal' = journal \cup {<<op, id>>}
      /\ UNCHANGED <<queue, job, asked, lost, stopped, leftover>>
  BY <1>2 DEF OpenOperation
<1>4. /\ wanted' \subseteq wanted \cup {op}
      /\ StopQueued(op, id) => wanted' = wanted
  BY <1>2 DEF OpenOperation, StopQueued, StopCmd, ToSet
<1>5. /\ \A o : /\ StartQueued(o)' <=> StartQueued(o)
                /\ StartTwice(o)' <=> StartTwice(o)
      /\ \A o, k : /\ StopQueued(o, k)' <=> StopQueued(o, k)
                   /\ Opening(o, k) <=> o = op /\ k = id
                   /\ ~ Executing(o, k)
                   /\ Stopping(o, k) <=> StopQueued(o, k)
                   /\ ~ Opening(o, k)' /\ ~ Executing(o, k)'
                   /\ Stopping(o, k)' <=> StopQueued(o, k)
  BY <1>1, <1>3, SameQueue DEF Opening, Executing, Stopping, Command
<1>6. /\ job[id].op = op \/ (job[id] = NoJob /\ op \in leftover)
      /\ \A e \in journal : e[2] # id
  BY <1>5 DEF LogInv, EntryInv
<1>7. BootInv'
  BY <1>3, ServingBoot
<1>8. EntryInv'
  BY <1>3, <1>5, <1>6 DEF LogInv, EntryInv, Serving
<1>9. StopInv'
  BY <1>3, <1>5 DEF LogInv, StopInv
<1>10. WantedInv'
  <2>1. ASSUME NEW o \in wanted' \ (lost \cup Configured), o # op
        PROVE  \/ \E k \in Keys : <<o, k>> \in journal' /\ ~ Stopping(o, k)'
               \/ StartQueued(o)' /\ \A k \in Keys : job'[k].op # o
    BY <2>1, <1>3, <1>4, <1>5 DEF LogInv, WantedInv
  <2>2. op \in wanted' => <<op, id>> \in journal' /\ ~ Stopping(op, id)'
    BY <1>3, <1>4, <1>5 DEF LogInv, WantedInv
  <2>3. QED
    BY <2>1, <2>2, <1>3, <1>5 DEF WantedInv
<1>11. OnceInv'
  <2>1. phase \in Serving /\ phase' \in Serving
    BY <1>3 DEF Serving
  <2>2. ASSUME NEW o \in Ops \ (Configured \cup leftover), o # op PROVE OnceOf(o)'
    BY <1>3, <1>5, <2>1, <2>2 DEF LogInv, OnceInv, OnceOf
  <2>3. ASSUME op \notin Configured \cup leftover PROVE OnceOf(op)'
    <3>1. OnceOf(op) /\ job[id].op = op
      BY <1>6, <2>3 DEF LogInv, OnceInv
    <3>2. ~ StartQueued(op) /\ op \in asked /\ op \notin stopped
      BY <3>1 DEF OnceOf
    <3>3. \A k \in Keys : <<op, k>> \in journal' <=> k = id
      BY <1>3, <1>6, <3>1 DEF OnceOf
    <3>4. \A k \in Keys : (job[k].op = op \/ Stopping(op, k)) => k = id
      BY <3>1 DEF OnceOf
    <3>5. QED
      BY <1>3, <1>5, <3>1, <3>2, <3>3, <3>4 DEF OnceOf
  <2>4. QED
    BY <1>3, <2>2, <2>3 DEF OnceInv
<1>12. QED
  BY <1>7, <1>8, <1>9, <1>10, <1>11 DEF LogInv

LEMMA ExecStopLog ==
    ASSUME TypeInv, LogInv, ExecStop
    PROVE  LogInv'
<1>1. Fetch("stop") /\ phase' = "stopping" /\ cmd' = Head(queue)
      /\ UNCHANGED <<wanted, asked, lost, stopped, leftover>>
  BY DEF ExecStop, histVars
<1>2. PICK op \in Ops, key \in Keys : Head(queue) = StopCmd(op, key)
  BY <1>1, FetchFacts, CommandFacts DEF QueueCommands
<1>3. /\ \/ job' = [job EXCEPT ![key] = NoJob] /\ journal' = journal
         \/ journal' = {e \in journal : e[2] # key} /\ job' = job
  BY <1>2, CommandFacts DEF ExecStop, Close
<1>4. /\ phase = "loop"
      /\ \A o : /\ StartQueued(o)' <=> StartQueued(o)
                /\ StartTwice(o)' => StartTwice(o)
      /\ \A o, k : /\ StopQueued(o, k)' => StopQueued(o, k)
                   /\ ~ Opening(o, k) /\ ~ Executing(o, k)
                   /\ Stopping(o, k) <=> StopQueued(o, k)
      /\ StopQueued(op, key)
  BY <1>1, <1>2, FetchFacts, CommandFacts
<1>5. \A o, k : /\ ~ Opening(o, k)'
                /\ Executing(o, k)' <=> o = op /\ k = key
                /\ Stopping(o, k)' => Stopping(o, k)
  BY <1>1, <1>2, <1>4, CommandFacts DEF Opening, Executing, Stopping
<1>6. /\ \A e \in journal : e[2] = key => e[1] = op
      /\ job[key] \in {NoJob, [op |-> op, at |-> "up"]}
  BY <1>4 DEF LogInv, StopInv
<1>7. /\ journal' \subseteq journal /\ \A e \in journal : e[2] # key => e \in journal'
      /\ \A k \in Keys : /\ job'[k] \in {job[k], NoJob}
                         /\ k # key => job'[k] = job[k]
      /\ \A e \in journal' : e[2] = key => job' = [job EXCEPT ![key] = NoJob]
  BY <1>3 DEF TypeInv, TypeOK
<1>8. \A k \in Keys, o \in Ops : job'[k].op = o => job[k].op = o
  BY <1>7, NoJobFacts
<1>9. BootInv'
  BY <1>1, ServingBoot
<1>10. EntryInv'
  <2>1. ASSUME NEW e \in journal'
        PROVE  \/ job'[e[2]].op = e[1] \/ e[1] \in leftover
               \/ Executing(e[1], e[2])'
    BY <2>1, <1>4, <1>5, <1>6, <1>7, EntryKey DEF LogInv, EntryInv, Serving
  <2>2. ASSUME NEW e \in journal' PROVE job'[e[2]] = NoJob \/ job'[e[2]].op = e[1]
    BY <2>2, <1>7, EntryKey DEF LogInv, EntryInv
  <2>3. QED
    BY <1>1, <1>5, <2>1, <2>2 DEF EntryInv
<1>11. StopInv'
  BY <1>5, <1>7 DEF LogInv, StopInv
<1>12. WantedInv'
  <2>1. wanted \subseteq Ops
    BY DEF TypeInv, TypeOK
  <2>2. ASSUME NEW o \in wanted \ (lost \cup Configured),
               NEW k \in Keys, <<o, k>> \in journal, ~ Stopping(o, k)
        PROVE  <<o, k>> \in journal' /\ ~ Stopping(o, k)'
    BY <2>1, <2>2, <1>4, <1>5, <1>6, <1>7
  <2>3. QED
    BY <1>1, <1>4, <1>5, <1>8, <2>1, <2>2 DEF LogInv, WantedInv
<1>13. OnceInv'
  <2>1. phase \in Serving /\ phase' \in Serving
    BY <1>1, <1>4 DEF Serving
  <2>2. QED
    BY <1>1, <1>4, <1>5, <1>7, <1>8, <2>1 DEF LogInv, OnceInv, OnceOf
<1>14. QED
  BY <1>9, <1>10, <1>11, <1>12, <1>13 DEF LogInv

LEMMA FinishStopLog ==
    ASSUME TypeInv, LogInv, FinishStop
    PROVE  LogInv'
<1>1. PICK op \in Ops, key \in Keys : cmd = StopCmd(op, key)
  BY DEF FinishStop, TypeInv, CmdInv
<1>2. cmd.op = op /\ cmd.key = key
  BY <1>1, CommandFacts
<1>3. /\ phase = "stopping" /\ phase' = "loop" /\ cmd' = NoCommand
      /\ journal' = {e \in journal : e[2] # key}
      /\ job' = [job EXCEPT ![key] = NoJob]
      /\ stopped' = stopped \cup {op}
      /\ UNCHANGED <<queue, wanted, asked, lost, leftover>>
  BY <1>2 DEF FinishStop, Close
<1>4. /\ \A o : /\ StartQueued(o)' <=> StartQueued(o)
                /\ StartTwice(o)' <=> StartTwice(o)
      /\ \A o, k : /\ StopQueued(o, k)' <=> StopQueued(o, k)
                   /\ ~ Opening(o, k) /\ ~ Opening(o, k)'
                   /\ Executing(o, k) <=> o = op /\ k = key
                   /\ ~ Executing(o, k)'
                   /\ Stopping(o, k)' => Stopping(o, k)
      /\ Stopping(op, key)
  BY <1>1, <1>3, SameQueue, CommandFacts DEF Opening, Executing, Stopping
<1>5. /\ \A e \in journal : e[2] = key => e[1] = op
      /\ \A k \in Keys : job'[k] = IF k = key THEN NoJob ELSE job[k]
  BY <1>3, <1>4 DEF LogInv, StopInv, TypeInv, TypeOK
<1>6. \A k \in Keys, o \in Ops : job'[k].op = o => job[k].op = o /\ k # key
  BY <1>5, NoJobFacts
<1>7. BootInv'
  BY <1>3, ServingBoot
<1>8. EntryInv'
  BY <1>3, <1>4, <1>5, EntryKey DEF LogInv, EntryInv, Serving
<1>9. StopInv'
  BY <1>3, <1>4, <1>5 DEF LogInv, StopInv
<1>10. WantedInv'
  <2>1. wanted \subseteq Ops
    BY DEF TypeInv, TypeOK
  <2>2. ASSUME NEW o \in wanted \ (lost \cup Configured),
               NEW k \in Keys, <<o, k>> \in journal, ~ Stopping(o, k)
        PROVE  <<o, k>> \in journal' /\ ~ Stopping(o, k)'
    BY <2>1, <2>2, <1>3, <1>4, <1>5
  <2>3. QED
    BY <1>3, <1>4, <1>6, <2>1, <2>2 DEF LogInv, WantedInv
<1>11. OnceInv'
  <2>1. phase \in Serving /\ phase' \in Serving
    BY <1>3 DEF Serving
  <2>2. ASSUME NEW o \in Ops \ (Configured \cup leftover), o # op PROVE OnceOf(o)'
    BY <1>3, <1>4, <1>6, <2>1, <2>2 DEF LogInv, OnceInv, OnceOf
  <2>3. ASSUME op \notin Configured \cup leftover PROVE OnceOf(op)'
    <3>1. OnceOf(op)
      BY <2>3 DEF LogInv, OnceInv
    <3>2. op \in asked /\ ~ StartQueued(op)
      BY <1>4, <3>1 DEF OnceOf
    <3>3. \A k \in Keys : job'[k].op # op /\ <<op, k>> \notin journal'
      BY <1>3, <1>4, <1>6, <3>1 DEF OnceOf
    <3>4. \A k \in Keys : Stopping(op, k)' => Stopping(op, k)
      BY <1>4
    <3>5. QED
      BY <1>3, <1>4, <3>1, <3>2, <3>3, <3>4 DEF OnceOf
  <2>4. QED
    BY <1>3, <2>2, <2>3 DEF OnceInv
<1>12. QED
  BY <1>7, <1>8, <1>9, <1>10, <1>11 DEF LogInv

LEMMA LoopLog ==
    ASSUME TypeInv, LogInv, Loop
    PROVE  LogInv'
<1>1. CASE ExecShutdown
  <2>1. Fetch("shutdown") /\ phase' = "shutdown"
        /\ UNCHANGED <<cmd, job, journal, wanted, asked, lost, stopped, leftover>>
    BY <1>1 DEF ExecShutdown, BeginShutdown
  <2>2. /\ phase = "loop"
        /\ \A o : /\ StartQueued(o)' <=> StartQueued(o)
                  /\ StartTwice(o)' => StartTwice(o)
        /\ \A o, k : /\ StopQueued(o, k)' => StopQueued(o, k)
                     /\ ~ Opening(o, k) /\ ~ Executing(o, k)
                     /\ Stopping(o, k) <=> StopQueued(o, k)
    BY <2>1, FetchFacts, CommandFacts
  <2>3. \A o, k : /\ ~ Opening(o, k)' /\ ~ Executing(o, k)'
                  /\ Stopping(o, k)' => Stopping(o, k)
    BY <2>1, <2>2 DEF Opening, Executing, Stopping
  <2>4. BootInv' /\ EntryInv' /\ StopInv'
    BY <2>1, <2>2, <2>3, ServingBoot DEF LogInv, EntryInv, StopInv, Serving
  <2>5. WantedInv' /\ OnceInv'
    BY <2>1, <2>2, <2>3 DEF LogInv, WantedInv, OnceInv, OnceOf, Serving
  <2>6. QED
    BY <2>4, <2>5 DEF LogInv
<1>2. CASE LeaveLoop
  <2>1. /\ phase = "loop" /\ phase' = "shutdown"
        /\ UNCHANGED <<cmd, queue, job, journal, wanted, lost, asked, stopped, leftover>>
    BY <1>2 DEF LeaveLoop, BeginShutdown
  <2>2. QED
    BY <2>1, QuietLog, ServingBoot
<1>3. QED
  BY <1>1, <1>2, ExecStartLog, ExecRefusedLog, OpenOperationLog, ExecStopLog,
     FinishStopLog DEF Loop

-----------------------------------------------------------------------------
(* Outside the service nothing is executed, so that nothing has to be true *)
(* of it: a step of the shutdown only makes starts disappear.              *)
LEMMA DropLog ==
    ASSUME TypeInv, LogInv, phase = "shutdown", phase' = "shutdown",
           \A k \in Keys : job'[k] \in {job[k], NoJob},
           UNCHANGED <<cmd, queue, journal, wanted, asked, lost, stopped, leftover>>
    PROVE  LogInv'
<1>1. \A o, k : /\ StartQueued(o)' <=> StartQueued(o)
                /\ StartTwice(o)' <=> StartTwice(o)
                /\ ~ Opening(o, k) /\ ~ Opening(o, k)'
                /\ ~ Executing(o, k) /\ ~ Executing(o, k)'
                /\ Stopping(o, k)' <=> Stopping(o, k)
  BY SameQueue DEF Opening, Executing, Stopping
<1>2. \A k \in Keys, o \in Ops : job'[k].op = o => job[k].op = o
  BY NoJobFacts
<1>3. BootInv' /\ EntryInv' /\ StopInv'
  BY <1>1, ServingBoot, EntryKey DEF LogInv, EntryInv, StopInv, Serving
<1>4. WantedInv'
  <2>1. wanted \subseteq Ops
    BY DEF TypeInv, TypeOK
  <2>2. QED
    BY <1>1, <1>2, <2>1 DEF LogInv, WantedInv
<1>5. OnceInv'
  BY <1>1, <1>2, ZenonT(60) DEF LogInv, OnceInv, OnceOf
<1>6. QED
  BY <1>3, <1>4, <1>5 DEF LogInv

LEMMA ShutdownLog ==
    ASSUME TypeInv, LogInv, Shutdown \/ FollowDeleted
    PROVE  LogInv'
<1>1. CASE FollowDeleted \/ ReturnToLoop \/ EndProcess
  BY <1>1, ExitLog DEF FollowDeleted, ReturnToLoop, EndProcess
<1>2. CASE \/ ShutdownStep \/ \E t \in {"analytic", "storage", "recorder"} : StopThread(t)
  <2>1. /\ phase = "shutdown" /\ phase' = "shutdown" /\ job' = job
        /\ UNCHANGED <<cmd, queue, journal, wanted, asked, lost, stopped, leftover>>
    BY <1>2 DEF ShutdownStep, StopThread, AtShutdown, histVars
  <2>2. QED
    BY <2>1, DropLog
<1>3. CASE StopArchivers \/ DeleteAnalytic \/ DeleteRecorder
  <2>1. /\ phase = "shutdown" /\ phase' = "shutdown"
        /\ \A k \in Keys : job'[k] \in {job[k], NoJob}
        /\ UNCHANGED <<cmd, queue, journal, wanted, asked, lost, stopped, leftover>>
    BY <1>3 DEF StopArchivers, DeleteAnalytic, DeleteRecorder, DeleteOwner,
       AtShutdown, histVars
  <2>2. QED
    BY <2>1, DropLog
<1>4. QED
  BY <1>1, <1>2, <1>3 DEF Shutdown

(* A start that goes on is the start it was; none that is being stopped    *)
(* goes on.                                                                *)
LEMMA ProgressLog ==
    ASSUME TypeInv, LogInv, NEW k \in Keys, NEW r, job[k].at \in {"starting", "ok"},
           job' = [job EXCEPT ![k].at = r],
           UNCHANGED <<phase, step, cmd, queue, journal, wanted, asked, lost, stopped,
                       leftover>>
    PROVE  LogInv'
<1>1. \A o, l : /\ StartQueued(o)' <=> StartQueued(o)
                /\ StartTwice(o)' <=> StartTwice(o)
                /\ Opening(o, l)' <=> Opening(o, l)
                /\ Executing(o, l)' <=> Executing(o, l)
                /\ Stopping(o, l)' <=> Stopping(o, l)
  BY SameQueue DEF Opening, Executing, Stopping
<1>2. job[k] # NoJob /\ job[k].op \in Ops
  BY NoJobFacts DEF TypeInv, TypeOK
<1>3. job'[k].op = job[k].op /\ \A l \in Keys : l # k => job'[l] = job[l]
  BY <1>2 DEF TypeInv, TypeOK
<1>4. \A l \in Keys : job'[l].op = job[l].op
  BY <1>3
<1>5. \A o \in Ops : ~ Stopping(o, k)
  BY DEF LogInv, StopInv, NoJob
<1>6. BootInv'
  BY <1>2, ServingBoot DEF LogInv, BootInv
<1>7. EntryInv'
  <2>1. \A l \in Keys : job[l] = NoJob => job'[l] = NoJob
    BY <1>2, <1>3
  <2>2. QED
    BY <1>1, <1>4, <2>1, EntryKey DEF LogInv, EntryInv
<1>8. StopInv'
  BY <1>1, <1>3, <1>5 DEF LogInv, StopInv
<1>9. WantedInv' /\ OnceInv'
  BY <1>1, <1>4 DEF LogInv, WantedInv, OnceInv, OnceOf
<1>10. QED
  BY <1>6, <1>7, <1>8, <1>9 DEF LogInv

(* What a start that failed leaves behind.                                 *)
LEMMA FailedLog ==
    ASSUME TypeInv, LogInv, NEW k \in Keys, NEW o \in Ops,
           job[k].op = o, job[k].at = "failed",
           job' = [job EXCEPT ![k] = NoJob],
           wanted' = wanted \ {o}, asked' = asked \ {o},
           \/ /\ journal' = {e \in journal : e[2] # k}
              /\ leftover' = IF <<o, k>> \in journal THEN leftover ELSE leftover \cup {o}
           \/ journal' = journal /\ leftover' = leftover \cup {o},
           UNCHANGED <<phase, step, cmd, queue, lost, stopped>>
    PROVE  LogInv'
<1>1. \A p, l : /\ StartQueued(p)' <=> StartQueued(p)
                /\ StartTwice(p)' <=> StartTwice(p)
                /\ Opening(p, l)' <=> Opening(p, l)
                /\ Executing(p, l)' <=> Executing(p, l)
                /\ Stopping(p, l)' <=> Stopping(p, l)
  BY SameQueue DEF Opening, Executing, Stopping
<1>2. /\ job[k] # NoJob
      /\ \A l \in Keys : job'[l] = IF l = k THEN NoJob ELSE job[l]
      /\ \A l \in Keys, p \in Ops : job'[l].op = p => job[l].op = p /\ l # k
  <2>1. \A l \in Keys : job'[l] = IF l = k THEN NoJob ELSE job[l]
    BY DEF TypeInv, TypeOK
  <2>2. QED
    BY <2>1, NoJobFacts
<1>3. /\ \A p \in Ops : ~ Stopping(p, k)
      /\ \A e \in journal : e[2] = k => e[1] = o
      /\ \A p \in Ops : Opening(p, k) => p = o /\ \A e \in journal : e[2] # k
  <2>1. \A p \in Ops : ~ Stopping(p, k)
    BY <1>2 DEF LogInv, StopInv
  <2>2. QED
    BY <1>2, <2>1 DEF LogInv, EntryInv
<1>4. /\ journal' \subseteq journal /\ leftover \subseteq leftover'
      /\ \A e \in journal : e[2] # k => e \in journal'
      /\ \A e \in journal' : e[2] = k => o \in leftover'
      /\ <<o, k>> \notin journal => o \in leftover'
      /\ o \notin leftover' => \A e \in journal' : e[2] # k
  BY EntryKey
<1>5. BootInv'
  BY <1>2, ServingBoot DEF LogInv, BootInv
<1>6. EntryInv'
  <2>1. ASSUME NEW e \in journal', phase \in Serving
        PROVE  job'[e[2]].op = e[1] \/ e[1] \in leftover' \/ Executing(e[1], e[2])
    BY <2>1, <1>2, <1>3, <1>4, EntryKey DEF LogInv, EntryInv
  <2>2. ASSUME NEW e \in journal' PROVE job'[e[2]] = NoJob \/ job'[e[2]].op = e[1]
    BY <2>2, <1>2, <1>4, EntryKey DEF LogInv, EntryInv
  <2>3. ASSUME NEW p \in Ops, NEW l \in Keys, Opening(p, l)
        PROVE  /\ job'[l].op = p \/ (job'[l] = NoJob /\ p \in leftover')
               /\ \A e \in journal' : e[2] # l
    <3>1. \A e \in journal : e[2] # l
      BY <2>3 DEF LogInv, EntryInv
    <3>2. CASE l = k
      BY <3>1, <3>2, <2>3, <1>2, <1>3, <1>4
    <3>3. CASE l # k
      BY <3>1, <3>3, <2>3, <1>2, <1>4 DEF LogInv, EntryInv
    <3>4. QED
      BY <3>2, <3>3
  <2>4. QED
    BY <1>1, <2>1, <2>2, <2>3 DEF EntryInv
<1>7. StopInv'
  BY <1>1, <1>2, <1>4 DEF LogInv, StopInv
<1>8. WantedInv'
  <2>1. wanted \subseteq Ops
    BY DEF TypeInv, TypeOK
  <2>2. ASSUME NEW p \in wanted' \ (lost \cup Configured),
               NEW l \in Keys, <<p, l>> \in journal
        PROVE  <<p, l>> \in journal'
    BY <2>2, <1>3, <1>4
  <2>3. QED
    BY <1>1, <1>2, <2>1, <2>2 DEF LogInv, WantedInv
<1>9. OnceInv'
  <2>1. ASSUME NEW p \in Ops \ (Configured \cup leftover'), p # o PROVE OnceOf(p)'
    <3>1. OnceOf(p) /\ (p \in asked' <=> p \in asked)
      BY <2>1, <1>4 DEF LogInv, OnceInv
    <3>2. QED
      BY <1>1, <1>2, <1>4, <3>1 DEF OnceOf
  <2>2. ASSUME o \notin Configured \cup leftover' PROVE OnceOf(o)'
    <3>1. OnceOf(o) /\ o \notin leftover /\ <<o, k>> \in journal
      BY <2>2, <1>4 DEF LogInv, OnceInv
    <3>2. ~ StartQueued(o) /\ ~ StartTwice(o) /\ o \notin stopped
      BY <3>1 DEF OnceOf
    <3>3. \A l \in Keys : <<o, l>> \notin journal' /\ job'[l].op # o
      BY <1>2, <1>4, <2>2, <3>1 DEF OnceOf
    <3>4. \A l \in Keys : ~ Opening(o, l)
      BY <1>3, <3>1 DEF LogInv, EntryInv, OnceOf
    <3>5. \A l \in Keys : ~ Stopping(o, l)
      BY <1>3, <3>1 DEF OnceOf
    <3>6. QED
      BY <1>1, <3>2, <3>3, <3>4, <3>5 DEF OnceOf
  <2>3. QED
    BY <2>1, <2>2 DEF OnceInv
<1>10. QED
  BY <1>5, <1>6, <1>7, <1>8, <1>9 DEF LogInv

LEMMA ThreadLog ==
    ASSUME TypeInv, LogInv, NEW k \in Keys, Thread(k)
    PROVE  LogInv'
<1>1. CASE TaskEnds(k) \/ CollectStarted(k)
  BY <1>1, ProgressLog DEF TaskEnds, CollectStarted, procVars, histVars
<1>2. CASE CollectFailedAnalysis(k) \/ CollectFailedRecording(k)
  <2>1. CASE \E how : Exit(how)
    BY <2>1, ExitLog
  <2>2. CASE ~ \E how : Exit(how)
    <3>1. job[k].op \in Ops /\ job[k].at = "failed"
      BY <1>2, NoJobFacts DEF CollectFailedAnalysis, CollectFailedRecording, Ops
    <3>2. QED
      BY <1>2, <2>2, <3>1, FailedLog
      DEF CollectFailedAnalysis, CollectFailedRecording, procVars, Close
  <2>3. QED
    BY <2>1, <2>2
<1>3. QED
  BY <1>1, <1>2 DEF Thread

LEMMA StepLog == TypeInv /\ LogInv /\ [Next]_vars => LogInv'
<1>1. SUFFICES ASSUME TypeInv, LogInv, [Next]_vars PROVE LogInv'
  OBVIOUS
<1>2. CASE Boot
  <2>1. /\ phase = "off" /\ phase' = "init" /\ step' = 1
        /\ UNCHANGED <<cmd, queue, job, journal, wanted, lost, asked, stopped, leftover>>
    BY <1>2 DEF Boot
  <2>2. \A o, k : Stopping(o, k)' <=> Stopping(o, k)
    BY <2>1, SameQueue DEF Executing, Stopping
  <2>3. BootInv'
    BY <1>1, <2>1, <2>2 DEF LogInv, BootInv
  <2>4. QED
    BY <1>1, <2>1, <2>3, QuietLog
<1>3. CASE (\E t \in {"analytic", "storage", "recorder"} : ThreadEnds(t)) \/ UNCHANGED vars
  <2>1. UNCHANGED <<phase, step, cmd, queue, job, journal, wanted, lost, asked, stopped,
                    leftover>>
    BY <1>3 DEF ThreadEnds, vars, procVars, histVars
  <2>2. \A o, k : Stopping(o, k)' <=> Stopping(o, k)
    BY <2>1, SameQueue DEF Executing, Stopping
  <2>3. \A o : StartQueued(o)' <=> StartQueued(o)
    BY <2>1, SameQueue
  <2>4. BootInv'
    BY <1>1, <2>1, <2>2, <2>3 DEF LogInv, BootInv
  <2>5. QED
    BY <1>1, <2>1, <2>4, QuietLog
<1>4. QED
  BY <1>1, <1>2, <1>3, InitServerLog, LoopLog, ShutdownLog, OutsideLog, ThreadLog
  DEF Next

LEMMA LogInvariant == Spec => [](TypeInv /\ LogInv)
<1>1. Init => TypeInv /\ LogInv
  BY InitTypes, InitLog
<1>2. TypeInv /\ LogInv /\ [Next]_vars => (TypeInv /\ LogInv)'
  BY StepTypes, StepLog
<1>3. QED
  BY <1>1, <1>2, PTL DEF Spec

(* What a client was promised is in the write-ahead log, on its way there  *)
(* or configured, at whatever point the process ends, and every entry of   *)
(* the log has an owner.                                                   *)
THEOREM PromisesAreKept == Spec => []JournalIsExact
<1>1. TypeInv /\ LogInv => JournalIsExact
  <2>1. SUFFICES ASSUME TypeInv, LogInv PROVE JournalIsExact
    OBVIOUS
  <2>2. WantedIsKept
    <3>1. SUFFICES ASSUME NEW o \in wanted \ lost, o \notin Configured
                   PROVE  o \in Journaled \cup Pending
      BY DEF WantedIsKept
    <3>2. o \in Ops
      BY <2>1, <3>1 DEF TypeInv, TypeOK
    <3>3. \/ \E k \in Keys : <<o, k>> \in journal
          \/ \E k \in Keys : Opening(o, k)
          \/ StartQueued(o)
      BY <2>1, <3>1 DEF LogInv, WantedInv
    <3>4. (\E k \in Keys : <<o, k>> \in journal) => o \in Journaled
      <4>1. ASSUME NEW k \in Keys, <<o, k>> \in journal PROVE o \in Journaled
        <5>1. <<o, k>>[1] = o
          OBVIOUS
        <5>2. QED
          BY <4>1, <5>1 DEF Journaled
      <4>2. QED
        BY <4>1
    <3>5. QED
      BY <2>1, <3>2, <3>3, <3>4, PendingFacts
  <2>3. EntryHasOwner
    <3>1. \A o, k : Executing(o, k) => phase = "stopping" /\ cmd.key = k
      BY CommandFacts DEF Executing
    <3>2. QED
      BY <2>1, <3>1 DEF LogInv, EntryInv, EntryHasOwner, Serving
  <2>4. QED
    BY <2>2, <2>3 DEF JournalIsExact
<1>2. QED
  BY <1>1, LogInvariant, PTL

(* What a client was told is stopped stays stopped, over any number of     *)
(* crashes and recoveries.                                                 *)
THEOREM StopIsFinal == Spec => []StoppedStaysStopped
<1>1. TypeInv /\ LogInv => StoppedStaysStopped
  <2>1. SUFFICES ASSUME TypeInv, LogInv,
                        NEW o \in stopped \ (Configured \cup leftover)
                 PROVE  o \notin Journaled \cup Pending /\ JobsOf(o) = {}
    BY DEF StoppedStaysStopped
  <2>2. o \in Ops
    BY <2>1 DEF TypeInv, TypeOK
  <2>3. /\ ~ StartQueued(o)
        /\ \A k \in Keys : job[k].op # o /\ ~ Opening(o, k) /\ <<o, k>> \notin journal
    BY <2>1, <2>2 DEF LogInv, OnceInv, OnceOf
  <2>4. o \notin Pending
    BY <2>1, <2>2, <2>3, PendingFacts
  <2>5. \A e \in journal : e = <<e[1], e[2]>> /\ e[2] \in Keys
    BY <2>1 DEF TypeInv, TypeOK
  <2>6. o \notin Journaled
    BY <2>3, <2>5 DEF Journaled
  <2>7. JobsOf(o) = {}
    BY <2>3 DEF JobsOf, JobsIn
  <2>8. QED
    BY <2>4, <2>6, <2>7
<1>2. QED
  BY <1>1, LogInvariant, PTL

(* The recovery never starts an operation beside itself.                   *)
THEOREM OneStartEach == Spec => []RunsOnce
<1>1. TypeInv /\ LogInv => RunsOnce
  <2>1. SUFFICES ASSUME TypeInv, LogInv, NEW o \in Ops \ (Configured \cup leftover)
                 PROVE  Cardinality(JobsOf(o)) <= 1
    BY DEF RunsOnce
  <2>2. \A k, j \in JobsOf(o) : k = j
    BY <2>1 DEF LogInv, OnceInv, OnceOf, JobsOf, JobsIn
  <2>3. CASE JobsOf(o) = {}
    BY <2>3, FS_EmptySet
  <2>4. CASE JobsOf(o) # {}
    <3>1. PICK k : JobsOf(o) = {k}
      BY <2>2, <2>4
    <3>2. Cardinality(JobsOf(o)) = 1
      BY <3>1, FS_Singleton
    <3>3. QED
      BY <3>2
  <2>5. QED
    BY <2>3, <2>4
<1>2. QED
  BY <1>1, LogInvariant, PTL

=============================================================================
