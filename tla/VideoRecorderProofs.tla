------------------------- MODULE VideoRecorderProofs -------------------------
(***************************************************************************)
(* Proofs about VideoRecorder, for any recordings, cameras and bounds.     *)
(*                                                                         *)
(* A recording is, from its connection on, in one place that holds its     *)
(* source: the vector, a launch, a stop that has removed it, or a new data *)
(* block.  PlaceInv says that these places do not overlap, and so makes    *)
(* the counts exact; everything else is about what happened before.        *)
(***************************************************************************)
EXTENDS VideoRecorder, FiniteSetTheorems, SequenceTheorems, TLAPS

(* A sequence without repetition, and what it holds.                       *)
Once(s) == \A i, j \in DOMAIN s : s[i] = s[j] => i = j
Elements(s) == {s[i] : i \in DOMAIN s}

(* The recordings that wait for their next data block.                     *)
Waiting == {restart[i] : i \in DOMAIN restart}

Started == {id \in Ids : sensorOf[id] # None}

(* Each step of the threads has its own.                                   *)
StepInv ==
    /\ work[Maint] \notin {"connect", "observe"}
    /\ maint # "restart" => work[Maint] = "none"
    /\ maint = "idle" => restart = <<>>
    /\ main.step # "idle" => main.id \in Started
    /\ \A id \in Ids : work[id] # "none" => id \in Started
    /\ IsFiniteSet(Started)

(* A recording is listed once, and waits once; one that is listed or waits *)
(* was inserted by its start.  It is both only between its insertion and   *)
(* the end of its new data block.                                          *)
Inserted == {id \in Ids : work[id] \in {"observe", "ok"}}
PlaceInv ==
    /\ Once(creators) /\ Once(restart)
    /\ Listed \cup byId \cup Waiting \subseteq Inserted
    /\ main.step \in {"remove", "disconnect"} => main.id \in Inserted
    /\ \A id \in Listed \cap Waiting : id = Head(restart) /\ work[Maint] = "ok"
    /\ main.step = "disconnect" /\ sensorOf[main.id] \notin disturbed =>
          /\ main.id \notin Listed
          /\ main.id \in Waiting => main.id = Head(restart) /\ work[Maint] = "ok"

(* The count of a source that nothing disturbed, which has its receiver.   *)
Others(s) == IF others[s] THEN 1 ELSE 0
CountOf(s) == /\ refs[s] = Cardinality(Holders(s)) + Others(s)
              /\ refs[s] > 0 => linked[s]
HoldInv == \A s \in Sensors \ disturbed : CountOf(s)

(* Who was not stopped, lost or taken by a new data block is in the map.   *)
CalmInv ==
    /\ main.step \in {"find", "release", "remove", "disconnect"} => stopAsked # {}
    /\ restart # <<>> => blocks > 0
    /\ lost = {} => byId = Listed
    /\ lost = {} /\ stopAsked = {} /\ blocks = 0 => Inserted \subseteq byId

(* The entry of the journal.                                               *)
JournalInv ==
    \A id \in Started : \/ id \in wal \cup stopAsked
                        \/ main.id = id /\ main.step \in {"insert", "journal"}

RecorderInv ==
    /\ TypeOK /\ StepInv /\ PlaceInv /\ HoldInv /\ CalmInv /\ JournalInv
    /\ WatchedUntilBlock /\ QuietServerStaysUp

-----------------------------------------------------------------------------
(* Sequences.                                                              *)

(* The places of the elements of a finite set of numbers.                  *)
LEMMA PlaceFacts ==
    ASSUME NEW K, K \subseteq Int, IsFiniteSet(K)
    PROVE  /\ \A i \in K : Cardinality({k \in K : k <= i}) \in 1 .. Cardinality(K)
           /\ \A i, j \in K :
                 Cardinality({k \in K : k <= i}) = Cardinality({k \in K : k <= j}) => i = j
           /\ \A p \in 1 .. Cardinality(K) :
                 \E i \in K : Cardinality({k \in K : k <= i}) = p
<1> DEFINE Below(i) == {k \in K : k <= i}
           N == Cardinality(K)
           place == [i \in K |-> Cardinality(Below(i))]
<1>1. N \in Nat
  BY FS_CardinalityType
<1>2. \A i \in K : /\ IsFiniteSet(Below(i)) /\ Cardinality(Below(i)) \in Nat
                   /\ Cardinality(Below(i)) <= N
  BY FS_Subset, FS_CardinalityType
<1>3. \A i \in K : Cardinality(Below(i)) # 0
  <2>1. \A i \in K : i \in Below(i)
    OBVIOUS
  <2>2. QED
    BY <1>2, <2>1, FS_EmptySet
<1>4. ASSUME NEW i \in K, NEW j \in K, i < j
      PROVE  Cardinality(Below(i)) # Cardinality(Below(j))
  <2>1. Below(i) \subseteq Below(j) /\ j \in Below(j) /\ j \notin Below(i)
    <3>1. i \in Int /\ j \in Int
      OBVIOUS
    <3>2. \A k \in K : k \in Int /\ (k <= i => k <= j)
      BY <1>4, <3>1
    <3>3. j <= j /\ ~ (j <= i)
      BY <1>4, <3>1
    <3>4. QED
      BY <3>2, <3>3
  <2>2. IsFiniteSet(Below(j)) /\ Below(i) # Below(j)
    BY <1>2, <2>1
  <2>. HIDE DEF Below
  <2>3. Cardinality(Below(j)) = Cardinality(Below(i)) => Below(j) = Below(i)
    BY <2>1, <2>2, FS_Subset
  <2>4. QED
    BY <2>2, <2>3
<1>5. \A i, j \in K : Cardinality(Below(i)) = Cardinality(Below(j)) => i = j
  <2>1. SUFFICES ASSUME NEW i \in K, NEW j \in K, i # j
                 PROVE  Cardinality(Below(i)) # Cardinality(Below(j))
    OBVIOUS
  <2>2. i < j \/ j < i
    BY <2>1
  <2>3. QED
    BY <1>4, <2>2
<1>6. \A i \in K : Cardinality(Below(i)) \in 1 .. N
  BY <1>1, <1>2, <1>3
<1>. HIDE DEF Below, N
<1>7. place \in [K -> 1 .. N] /\ \A i \in K : place[i] = Cardinality(Below(i))
  BY <1>6
<1>8. place \in Injection(K, 1 .. N)
  BY <1>5, <1>7 DEF Injection, IsInjective
<1>9. IsFiniteSet(1 .. N) /\ Cardinality(1 .. N) = N
  <2>1. Cardinality(1 .. N) = IF 1 > N THEN 0 ELSE N - 1 + 1
    BY <1>1, FS_Interval
  <2>2. QED
    BY <1>1, <2>1, FS_Interval
<1>10. place \in Surjection(K, 1 .. N)
  BY <1>8, <1>9, FS_Injection DEF N
<1>11. \A p \in 1 .. N : \E i \in K : place[i] = p
  BY <1>10 DEF Surjection
<1>12. \A p \in 1 .. N : \E i \in K : Cardinality(Below(i)) = p
  BY <1>7, <1>11
<1>13. QED
  BY <1>5, <1>6, <1>12 DEF Below, N

(* Erasing recordings from the vector leaves the others, each once.        *)
LEMMA WithoutFacts ==
    ASSUME NEW gone, creators \in Seq(Ids), Once(creators)
    PROVE  /\ Without(gone) \in Seq(Ids) /\ Once(Without(gone))
           /\ Elements(Without(gone)) = Listed \ gone
<1> DEFINE kept == {i \in DOMAIN creators : creators[i] \notin gone}
           Place(i) == Cardinality({k \in kept : k <= i})
           N == Cardinality(kept)
           at == [p \in 1 .. N |-> CHOOSE i \in kept : Place(i) = p]
           W == Without(gone)
<1>1. DOMAIN creators = 1 .. Len(creators) /\ Len(creators) \in Nat
      /\ \A i \in DOMAIN creators : creators[i] \in Ids
  OBVIOUS
<1>2. kept \subseteq Int /\ IsFiniteSet(kept)
  <2>1. IsFiniteSet(DOMAIN creators)
    BY <1>1, FS_Interval
  <2>2. kept \in SUBSET DOMAIN creators
    OBVIOUS
  <2>3. QED
    BY <1>1, <2>1, <2>2, FS_Subset
<1>3. N \in Nat
  BY <1>2, FS_CardinalityType
<1>4. W = [p \in 1 .. N |-> creators[at[p]]]
  BY DEF Without
<1>. HIDE DEF kept, W
<1>5. /\ \A i \in kept : Place(i) \in 1 .. N
      /\ \A i, j \in kept : Place(i) = Place(j) => i = j
      /\ \A p \in 1 .. N : \E i \in kept : Place(i) = p
  BY <1>2, PlaceFacts
<1>. HIDE DEF Place
<1>6. \A p \in 1 .. N : at[p] \in kept /\ Place(at[p]) = p
  BY <1>5
<1>7. \A i \in kept : at[Place(i)] = i
  BY <1>5, <1>6
<1>. HIDE DEF at, N
<1>8. W \in [1 .. N -> Ids] /\ DOMAIN W = 1 .. N /\ \A p \in 1 .. N : W[p] = creators[at[p]]
  BY <1>1, <1>4, <1>6 DEF kept
<1>9. W \in Seq(Ids)
  BY <1>3, <1>8, SeqDef
<1>10. Once(W)
  <2>1. SUFFICES ASSUME NEW p \in 1 .. N, NEW q \in 1 .. N, W[p] = W[q] PROVE p = q
    BY <1>8 DEF Once
  <2>2. at[p] = at[q]
    BY <1>6, <1>8, <2>1 DEF Once, kept
  <2>3. QED
    BY <1>6, <2>2
<1>11. Elements(W) = Listed \ gone
  <2>1. \A p \in 1 .. N : W[p] \in Listed \ gone
    BY <1>6, <1>8 DEF Listed, kept
  <2>2. ASSUME NEW c \in Listed \ gone PROVE c \in Elements(W)
    <3>1. PICK i \in DOMAIN creators : creators[i] = c
      BY DEF Listed
    <3>2. i \in kept
      BY <2>2, <3>1 DEF kept
    <3>3. Place(i) \in 1 .. N /\ W[Place(i)] = c
      BY <1>5, <1>7, <1>8, <3>1, <3>2
    <3>4. QED
      BY <1>8, <3>3 DEF Elements
  <2>3. QED
    BY <1>8, <2>1, <2>2 DEF Elements
<1>12. QED
  BY <1>9, <1>10, <1>11 DEF W

(* An element that is not there can be appended.                           *)
LEMMA AppendOnce ==
    ASSUME NEW s \in Seq(Ids), NEW e \in Ids, Once(s), e \notin Elements(s)
    PROVE  LET a == Append(s, e) IN
           /\ a \in Seq(Ids) /\ Once(a) /\ Elements(a) = Elements(s) \cup {e}
           /\ a # <<>> /\ a[Len(a)] = e
           /\ s # <<>> => Head(a) = Head(s)
<1> DEFINE a == Append(s, e)
<1>1. /\ a \in Seq(Ids) /\ Len(a) = Len(s) + 1 /\ a # <<>>
      /\ a[Len(s) + 1] = e /\ \A i \in 1 .. Len(s) : a[i] = s[i]
      /\ s # <<>> => Head(a) = Head(s)
  BY AppendProperties, HeadTailAppend
<1>2. /\ DOMAIN a = 1 .. Len(s) + 1 /\ DOMAIN s = 1 .. Len(s) /\ Len(s) \in Nat
      /\ \A i \in DOMAIN s : s[i] \in Elements(s)
  BY <1>1, LenProperties DEF Elements
<1>. HIDE DEF a
<1>3. \A i \in DOMAIN a : i \in DOMAIN s \/ (i = Len(s) + 1 /\ a[i] = e)
  BY <1>1, <1>2
<1>4. \A i \in DOMAIN s : i \in DOMAIN a /\ a[i] = s[i]
  BY <1>1, <1>2
<1>5. Len(s) + 1 \in DOMAIN a
  BY <1>2
<1>6. Once(a)
  BY <1>2, <1>3, <1>4 DEF Once
<1>7. Elements(a) = Elements(s) \cup {e}
  BY <1>1, <1>3, <1>4, <1>5 DEF Elements
<1>8. a[Len(a)] = e
  BY <1>1
<1>9. QED
  BY <1>1, <1>6, <1>7, <1>8 DEF a

(* The first one is taken.                                                 *)
LEMMA TailOnce ==
    ASSUME NEW s \in Seq(Ids), s # <<>>, Once(s)
    PROVE  /\ Tail(s) \in Seq(Ids) /\ Once(Tail(s)) /\ Head(s) \in Elements(s)
           /\ Elements(Tail(s)) = Elements(s) \ {Head(s)}
<1> DEFINE t == Tail(s)
<1>1. /\ t \in Seq(Ids) /\ Len(t) = Len(s) - 1 /\ \A i \in 1 .. Len(t) : t[i] = s[i + 1]
      /\ Len(s) \in Nat \ {0} /\ Head(s) = s[1]
  BY HeadTailProperties, EmptySeq
<1>2. DOMAIN t = 1 .. Len(s) - 1 /\ DOMAIN s = 1 .. Len(s)
  BY <1>1, LenProperties
<1>. HIDE DEF t
<1>3. \A i \in DOMAIN t : i + 1 \in DOMAIN s /\ i \in Nat /\ t[i] = s[i + 1]
  BY <1>1, <1>2
<1>4. 1 \in DOMAIN s
  BY <1>1, <1>2
<1>5. Once(t)
  BY <1>3 DEF Once
<1>6. \A i \in DOMAIN t : t[i] \in Elements(s) \ {Head(s)}
  BY <1>1, <1>3, <1>4 DEF Once, Elements
<1>7. \A i \in DOMAIN s : i = 1 \/ (i - 1 \in DOMAIN t /\ t[i - 1] = s[i])
  BY <1>1, <1>2
<1>8. Elements(t) = Elements(s) \ {Head(s)}
  BY <1>1, <1>6, <1>7 DEF Elements
<1>9. QED
  BY <1>1, <1>4, <1>5, <1>8 DEF t, Elements

(* As many positions as elements.                                          *)
LEMMA OnceLen ==
    ASSUME NEW s \in Seq(Ids), Once(s)
    PROVE  IsFiniteSet(Elements(s)) /\ Len(s) = Cardinality(Elements(s))
<1>1. DOMAIN s = 1 .. Len(s) /\ Len(s) \in Nat
  BY LenProperties
<1>2. IsFiniteSet(1 .. Len(s)) /\ Cardinality(1 .. Len(s)) = Len(s)
  <2>1. PICK n \in Nat : n = Len(s)
    BY <1>1
  <2>2. IsFiniteSet(1 .. n)
    BY FS_Interval
  <2>3. Cardinality(1 .. n) = IF 1 > n THEN 0 ELSE n - 1 + 1
    BY FS_Interval
  <2>4. Cardinality(1 .. n) = n
    BY <2>3
  <2>5. QED
    BY <2>1, <2>2, <2>4
<1> DEFINE f == [i \in 1 .. Len(s) |-> s[i]]
<1>3. f \in Bijection(1 .. Len(s), Elements(s))
  BY <1>1 DEF Once, Elements, Bijection, Injection, IsInjective, Surjection
<1>4. ExistsBijection(1 .. Len(s), Elements(s))
  BY <1>3 DEF ExistsBijection
<1>5. QED
  BY <1>2, <1>4, FS_Bijection

-----------------------------------------------------------------------------
(* Type correctness.                                                       *)

(* The state of a source keeps its type.                                   *)
LEMMA ConnectType ==
    ASSUME TypeOK, NEW s \in Sensors, NEW connected \in BOOLEAN,
           ConnectSource(s, connected)
    PROVE  /\ refs' \in [Sensors -> Nat] /\ linked' \in [Sensors -> BOOLEAN]
           /\ signal' \in [Sensors -> BOOLEAN] /\ watched' \in [Sensors -> BOOLEAN]
           /\ disturbed' \subseteq Sensors
<1>1. refs' = [refs EXCEPT ![s] = @ + 1] \/ refs' = refs
  BY DEF ConnectSource
<1>2. linked' = [linked EXCEPT ![s] = TRUE] \/ linked' = linked
  BY DEF ConnectSource
<1>3. disturbed' = disturbed \cup {s} \/ disturbed' = disturbed
  BY DEF ConnectSource
<1>4. refs \in [Sensors -> Nat] /\ linked \in [Sensors -> BOOLEAN]
      /\ signal \in [Sensors -> BOOLEAN] /\ watched \in [Sensors -> BOOLEAN]
      /\ disturbed \subseteq Sensors
  BY DEF TypeOK
<1>5. signal' = signal /\ watched' = watched
  BY DEF ConnectSource
<1>6. refs' \in [Sensors -> Nat]
  BY <1>1, <1>4
<1>7. linked' \in [Sensors -> BOOLEAN]
  BY <1>2, <1>4
<1>8. QED
  BY <1>3, <1>4, <1>5, <1>6, <1>7

LEMMA DisconnectType ==
    ASSUME TypeOK, NEW s \in Sensors, Disconnect(s)
    PROVE  /\ refs' \in [Sensors -> Nat] /\ linked' \in [Sensors -> BOOLEAN]
           /\ signal' \in [Sensors -> BOOLEAN] /\ watched' \in [Sensors -> BOOLEAN]
           /\ dead' \subseteq Threads
<1>1. (refs[s] > 0 /\ refs' = [refs EXCEPT ![s] = @ - 1]) \/ refs' = refs
  BY DEF Disconnect
<1>2. linked' = [linked EXCEPT ![s] = FALSE] \/ linked' = linked
  BY DEF Disconnect
<1>3. signal' = [signal EXCEPT ![s] = FALSE] \/ signal' = signal
  BY DEF Disconnect
<1>4. watched' = [watched EXCEPT ![s] = FALSE] \/ watched' = watched
  BY DEF Disconnect
<1>5. refs \in [Sensors -> Nat] /\ linked \in [Sensors -> BOOLEAN]
      /\ signal \in [Sensors -> BOOLEAN] /\ watched \in [Sensors -> BOOLEAN]
      /\ dead \subseteq Threads
  BY DEF TypeOK
<1>6. dead' \subseteq Threads
  BY <1>5 DEF Disconnect
<1>7. refs' \in [Sensors -> Nat]
  BY <1>1, <1>5
<1>8. linked' \in [Sensors -> BOOLEAN] /\ signal' \in [Sensors -> BOOLEAN]
      /\ watched' \in [Sensors -> BOOLEAN]
  BY <1>2, <1>3, <1>4, <1>5
<1>9. QED
  BY <1>6, <1>7, <1>8


(* What is listed, waits or was stopped was started for a source.          *)
LEMMA StartedFacts ==
    ASSUME TypeOK, StepInv, PlaceInv
    PROVE  /\ Listed = Elements(creators) /\ Waiting = Elements(restart)
           /\ Once(creators) /\ Once(restart)
           /\ Listed \subseteq Started /\ Waiting \subseteq Started
           /\ \A id \in Started : id \in Ids /\ sensorOf[id] \in Sensors
           /\ restart # <<>> => /\ Head(restart) \in Waiting
                                /\ restart[Len(restart)] \in Waiting
<1>1. creators \in Seq(Ids) /\ restart \in Seq(Ids)
  BY DEF TypeOK
<1>2. Listed \subseteq Ids /\ Waiting \subseteq Ids
  BY <1>1 DEF Listed, Waiting
<1>3. Listed \cup Waiting \subseteq Inserted
  BY DEF PlaceInv
<1>4. Inserted \subseteq Started
  BY DEF StepInv, Inserted
<1>5. \A id \in Started : id \in Ids /\ sensorOf[id] \in Sensors
  BY DEF TypeOK, Started
<1>6. restart # <<>> => Head(restart) \in Waiting /\ restart[Len(restart)] \in Waiting
  <2>1. SUFFICES ASSUME restart # <<>>
                 PROVE  Head(restart) \in Waiting /\ restart[Len(restart)] \in Waiting
    OBVIOUS
  <2>2. /\ DOMAIN restart = 1 .. Len(restart) /\ Len(restart) \in Nat /\ Len(restart) # 0
        /\ Head(restart) = restart[1]
    BY <1>1, <2>1, HeadTailProperties, EmptySeq, LenProperties
  <2>3. 1 \in DOMAIN restart /\ Len(restart) \in DOMAIN restart
    BY <2>2
  <2>4. QED
    BY <2>2, <2>3 DEF Waiting
<1>7. Once(creators) /\ Once(restart)
  BY DEF PlaceInv
<1>8. Listed = Elements(creators) /\ Waiting = Elements(restart)
  BY DEF Listed, Waiting, Elements
<1>9. QED
  BY <1>2, <1>3, <1>4, <1>5, <1>6, <1>7, <1>8

(* A thread that launches has a recording, which was started.              *)
LEMMA ThreadRecord ==
    ASSUME TypeOK, StepInv, PlaceInv, NEW t \in Threads, work[t] # "none"
    PROVE  /\ RecordOf(t) \in Started /\ RecordOf(t) \in Ids /\ SourceOf(t) \in Sensors
           /\ t = Maint => /\ RecordOf(t) = Head(restart) /\ restart # <<>>
                           /\ RecordOf(t) \in Waiting /\ maint = "restart"
           /\ t # Maint => RecordOf(t) = t /\ t \in Ids
<1>1. CASE t = Maint
  <2>1. restart # <<>> /\ maint = "restart"
    BY <1>1 DEF TypeOK, StepInv
  <2>2. RecordOf(t) = Head(restart) /\ SourceOf(t) = sensorOf[Head(restart)]
    BY <1>1 DEF RecordOf, SourceOf
  <2>3. QED
    BY <1>1, <2>1, <2>2, StartedFacts
<1>2. CASE t # Maint
  <2>1. t \in Ids /\ RecordOf(t) = t /\ SourceOf(t) = sensorOf[t]
    BY <1>2 DEF RecordOf, SourceOf, Threads
  <2>2. t \in Started
    BY <2>1 DEF StepInv
  <2>3. QED
    BY <1>2, <2>1, <2>2, StartedFacts
<1>3. QED
  BY <1>1, <1>2

(* The step of one thread changes.                                         *)
LEMMA StepType ==
    ASSUME TypeOK, NEW t \in Threads, NEW to \in Steps, Step(t, to)
    PROVE  /\ work' \in [Threads -> Steps] /\ work'[t] = to
           /\ \A u \in Threads \ {t} : work'[u] = work[u]
<1>1. work \in [Threads -> Steps]
  BY DEF TypeOK
<1>2. work' = [work EXCEPT ![t] = to]
  BY DEF Step
<1>3. QED
  BY <1>1, <1>2

LEMMA GotoType ==
    ASSUME TypeOK, NEW step \in MainSteps, Goto(step)
    PROVE  /\ main' \in [step : MainSteps, id : Ids \cup {None}]
           /\ main'.step = step /\ main'.id = main.id
<1>1. main \in [step : MainSteps, id : Ids \cup {None}]
  BY DEF TypeOK
<1>2. main' = [main EXCEPT !.step = step]
  BY DEF Goto
<1>3. QED
  BY <1>1, <1>2

LEMMA TypeStart ==
    ASSUME TypeOK, StepInv, PlaceInv, NEW id \in Ids, NEW s \in Sensors, Start(id, s)
    PROVE  TypeOK' /\ StepInv'
<1>1. Step(id, "connect") /\ id \in Threads /\ "connect" \in Steps /\ id # Maint
  BY RecorderAssumption DEF Start, Threads, Steps, RecorderAssumption
<1>2. /\ work' \in [Threads -> Steps] /\ work'[id] = "connect"
      /\ \A u \in Threads \ {id} : work'[u] = work[u]
  BY <1>1, StepType
<1>3. sensorOf' \in [Ids -> Sensors \cup {None}] /\ sensorOf'[id] = s
      /\ \A o \in Ids \ {id} : sensorOf'[o] = sensorOf[o]
  BY DEF Start, TypeOK
<1>4. s # None
  BY RecorderAssumption DEF RecorderAssumption
<1>5. Started' = Started \cup {id}
  BY <1>3, <1>4 DEF Started
<1>6. Maint \in Threads /\ work'[Maint] = work[Maint]
  BY <1>1, <1>2 DEF Threads
<1>7. main' = [step |-> "insert", id |-> id] /\ "insert" \in MainSteps
  BY DEF Start, MainSteps
<1>8. TypeOK'
  BY <1>2, <1>3, <1>6, <1>7 DEF Start, TypeOK, registryVars, sourceVars, clientVars, countVars
<1>9. IsFiniteSet(Started')
  BY <1>5, FS_AddElement DEF StepInv
<1>10. \A o \in Ids : work'[o] # "none" => o \in Started'
  BY <1>2, <1>5 DEF StepInv, Threads
<1>11. StepInv'
  BY <1>5, <1>6, <1>7, <1>9, <1>10 DEF StepInv, Start
<1>12. QED
  BY <1>8, <1>11

(* A step of the main thread.                                              *)
LEMMA TypeMain ==
    ASSUME TypeOK, StepInv, PlaceInv,
           (\E id \in Ids : Stop(id)) \/ InsertInfo \/ OpenOperation \/ StopFind \/ StopRemove
    PROVE  TypeOK' /\ StepInv'
<1>1. CASE \E id \in Ids : Stop(id)
  <2>1. PICK id \in Ids : Stop(id)
    BY <1>1
  <2>2. main' = [step |-> "find", id |-> id] /\ "find" \in MainSteps /\ id \in Started
    BY <2>1 DEF Stop, MainSteps, Started
  <2>3. stops' \in 0 .. MaxStops
    BY <2>1, RecorderAssumption DEF Stop, TypeOK, RecorderAssumption
  <2>4. TypeOK'
    BY <2>1, <2>2, <2>3
       DEF Stop, TypeOK, registryVars, startVars, sourceVars, countVars
  <2>5. StepInv'
    BY <2>1, <2>2 DEF Stop, StepInv, Started, startVars
  <2>6. QED
    BY <2>4, <2>5
<1>2. CASE InsertInfo
  <2>1. Goto("journal") /\ "journal" \in MainSteps
    BY <1>2 DEF InsertInfo, MainSteps
  <2>2. /\ main' \in [step : MainSteps, id : Ids \cup {None}]
        /\ main'.step = "journal" /\ main'.id = main.id
    BY <2>1, GotoType
  <2>3. main.id \in Started /\ main.id \in Ids
    BY <1>2, StartedFacts DEF InsertInfo, StepInv
  <2>4. TypeOK'
    BY <1>2, <2>2, <2>3 DEF InsertInfo, TypeOK, registryVars, sourceVars, clientVars, countVars
  <2>5. StepInv'
    BY <1>2, <2>2, <2>3 DEF InsertInfo, StepInv, Started
  <2>6. QED
    BY <2>4, <2>5
<1>3. CASE OpenOperation
  <2>1. Goto("idle") /\ "idle" \in MainSteps
    BY <1>3 DEF OpenOperation, MainSteps
  <2>2. /\ main' \in [step : MainSteps, id : Ids \cup {None}]
        /\ main'.step = "idle" /\ main'.id = main.id
    BY <2>1, GotoType
  <2>3. main.id \in Started /\ main.id \in Ids
    BY <1>3, StartedFacts DEF OpenOperation, StepInv
  <2>4. TypeOK'
    BY <1>3, <2>2, <2>3 DEF OpenOperation, TypeOK, registryVars, startVars, sourceVars, countVars
  <2>5. StepInv'
    BY <1>3, <2>2 DEF OpenOperation, StepInv, Started, startVars
  <2>6. QED
    BY <2>4, <2>5
<1>4. CASE StopFind
  <2>1. PICK to \in {"remove", "release", "idle"} : Goto(to)
    BY <1>4 DEF StopFind
  <2>2. /\ main' \in [step : MainSteps, id : Ids \cup {None}]
        /\ main'.step = to /\ main'.id = main.id
    BY <2>1, GotoType DEF MainSteps
  <2>3. main.id \in Started
    BY <1>4 DEF StopFind, StepInv
  <2>4. TypeOK'
    BY <1>4, <2>2
       DEF StopFind, TypeOK, registryVars, startVars, sourceVars, clientVars, countVars
  <2>5. StepInv'
    BY <1>4, <2>2, <2>3 DEF StopFind, StepInv, Started, startVars
  <2>6. QED
    BY <2>4, <2>5
<1>5. CASE StopRemove
  <2>1. Goto("disconnect") /\ "disconnect" \in MainSteps
    BY <1>5 DEF StopRemove, MainSteps
  <2>2. /\ main' \in [step : MainSteps, id : Ids \cup {None}]
        /\ main'.step = "disconnect" /\ main'.id = main.id
    BY <2>1, GotoType
  <2>3. main.id \in Started /\ main.id \in Ids /\ sensorOf[main.id] \in Sensors
    BY <1>5, StartedFacts DEF StopRemove, StepInv
  <2>4. creators' \in Seq(Ids)
    BY <1>5, StartedFacts, WithoutFacts DEF StopRemove, TypeOK
  <2>5. byId' \subseteq Ids /\ disturbed' \subseteq Sensors
    BY <1>5, <2>3 DEF StopRemove, TypeOK
  <2>6. TypeOK'
    BY <1>5, <2>2, <2>4, <2>5
       DEF StopRemove, TypeOK, startVars, sourceVars, clientVars, countVars
  <2>7. StepInv'
    BY <1>5, <2>2, <2>3 DEF StopRemove, StepInv, Started, startVars
  <2>8. QED
    BY <2>6, <2>7
<1>6. QED
  BY <1>1, <1>2, <1>3, <1>4, <1>5

(* A step that gives a source back, or another consumer's.                 *)
LEMMA TypeDisconnect ==
    ASSUME TypeOK, StepInv, PlaceInv,
           StopStarting \/ StopDisconnect \/ BlockDisconnect
           \/ (\E s \in Sensors : OtherConsumer(s))
    PROVE  TypeOK' /\ StepInv'
<1>1. CASE StopStarting \/ StopDisconnect
  <2>1. Goto("idle") /\ "idle" \in MainSteps
    BY <1>1 DEF StopStarting, StopDisconnect, MainSteps
  <2>2. /\ main' \in [step : MainSteps, id : Ids \cup {None}]
        /\ main'.step = "idle" /\ main'.id = main.id
    BY <2>1, GotoType
  <2>3. sensorOf[main.id] \in Sensors
    BY <1>1, StartedFacts DEF StopStarting, StopDisconnect, StepInv
  <2>4. Disconnect(sensorOf[main.id])
    BY <1>1 DEF StopStarting, StopDisconnect
  <2>5. /\ refs' \in [Sensors -> Nat] /\ linked' \in [Sensors -> BOOLEAN]
        /\ signal' \in [Sensors -> BOOLEAN] /\ watched' \in [Sensors -> BOOLEAN]
        /\ dead' \subseteq Threads
    BY <2>3, <2>4, DisconnectType
  <2>6. disturbed' \subseteq Sensors
    BY <1>1, <2>3 DEF StopStarting, StopDisconnect, TypeOK
  <2>7. TypeOK'
    BY <1>1, <2>2, <2>5, <2>6
       DEF StopStarting, StopDisconnect, TypeOK, registryVars, startVars, clientVars, countVars
  <2>8. StepInv'
    BY <1>1, <2>2 DEF StopStarting, StopDisconnect, StepInv, Started, startVars
  <2>9. QED
    BY <2>7, <2>8
<1>2. CASE BlockDisconnect
  <2>1. restart # <<>>
    BY <1>2 DEF BlockDisconnect, TypeOK
  <2>2. sensorOf[restart[Len(restart)]] \in Sensors
    BY <2>1, StartedFacts
  <2>3. Disconnect(sensorOf[restart[Len(restart)]])
    BY <1>2 DEF BlockDisconnect
  <2>4. /\ refs' \in [Sensors -> Nat] /\ linked' \in [Sensors -> BOOLEAN]
        /\ signal' \in [Sensors -> BOOLEAN] /\ watched' \in [Sensors -> BOOLEAN]
        /\ dead' \subseteq Threads
    BY <2>2, <2>3, DisconnectType
  <2>5. TypeOK'
    BY <1>2, <2>1, <2>4
       DEF BlockDisconnect, TypeOK, registryVars, startVars, clientVars, countVars
  <2>6. StepInv'
    BY <1>2 DEF BlockDisconnect, StepInv, Started, startVars
  <2>7. QED
    BY <2>5, <2>6
<1>3. CASE \E s \in Sensors : OtherConsumer(s)
  <2>1. PICK s \in Sensors : OtherConsumer(s)
    BY <1>3
  <2>2. /\ refs' \in [Sensors -> Nat] /\ linked' \in [Sensors -> BOOLEAN]
        /\ signal' \in [Sensors -> BOOLEAN] /\ watched' \in [Sensors -> BOOLEAN]
        /\ dead' \subseteq Threads /\ disturbed' \subseteq Sensors
    <3>1. CASE others[s]
      <4>1. Disconnect(s) /\ disturbed' = disturbed
        BY <2>1, <3>1 DEF OtherConsumer
      <4>2. QED
        BY <4>1, DisconnectType DEF TypeOK
    <3>2. CASE ~ others[s]
      <4>1. ConnectSource(s, TRUE) /\ dead' = dead
        BY <2>1, <3>2 DEF OtherConsumer
      <4>2. QED
        BY <4>1, ConnectType DEF TypeOK
    <3>3. QED
      BY <3>1, <3>2
  <2>3. others' \in [Sensors -> BOOLEAN]
    <3>1. others \in [Sensors -> BOOLEAN] /\ others' = [others EXCEPT ![s] = ~ @]
      BY <2>1 DEF OtherConsumer, TypeOK
    <3>2. QED
      BY <3>1
  <2>4. TypeOK'
    BY <2>1, <2>2, <2>3
       DEF OtherConsumer, TypeOK, registryVars, startVars, threadVars, clientVars, countVars
  <2>5. StepInv'
    BY <2>1 DEF OtherConsumer, StepInv, Started, startVars, threadVars
  <2>6. QED
    BY <2>4, <2>5
<1>4. QED
  BY <1>1, <1>2, <1>3

(* What happens to a stream, and what the recorder is told of it.          *)
LEMMA TypeStream ==
    ASSUME TypeOK, StepInv, PlaceInv, NEW s \in Sensors,
           \/ StreamStart(s) \/ StreamStop(s) \/ ReceiverCrash(s) \/ Reconnect(s)
           \/ SourceLost(s) \/ SourceFound(s)
    PROVE  TypeOK' /\ StepInv'
<1> DEFINE Calls == {"idle", "lost", "crashed", "found"}
<1>1. /\ linked \in [Sensors -> BOOLEAN] /\ signal \in [Sensors -> BOOLEAN]
      /\ callback \in [Sensors -> Calls] /\ disturbed \subseteq Sensors
      /\ incidents \in 0 .. MaxIncidents
  BY DEF TypeOK
<1>2. ASSUME NEW what \in Calls, Notify(s, what) PROVE callback' \in [Sensors -> Calls]
  <2>1. callback' = [callback EXCEPT ![s] = what] \/ callback' = callback
    BY <1>2 DEF Notify
  <2>2. QED
    BY <1>1, <2>1
<1>3. \A b \in BOOLEAN : /\ [linked EXCEPT ![s] = b] \in [Sensors -> BOOLEAN]
                         /\ [signal EXCEPT ![s] = b] \in [Sensors -> BOOLEAN]
  BY <1>1
<1>4. [callback EXCEPT ![s] = "idle"] \in [Sensors -> Calls]
  BY <1>1
<1>5. incidents < MaxIncidents => incidents + 1 \in 0 .. MaxIncidents
  BY <1>1, RecorderAssumption DEF RecorderAssumption
<1>6. CASE StreamStart(s)
  <2>1. signal' \in [Sensors -> BOOLEAN]
    BY <1>3, <1>6 DEF StreamStart
  <2>2. callback' \in [Sensors -> Calls]
    BY <1>2, <1>6 DEF StreamStart
  <2>3. TypeOK'
    BY <1>6, <2>1, <2>2 DEF StreamStart, TypeOK, registryVars, startVars, clientVars, countVars
  <2>4. StepInv'
    BY <1>6 DEF StreamStart, StepInv, Started, startVars
  <2>5. QED
    BY <2>3, <2>4
<1>7. CASE StreamStop(s)
  <2>1. signal' \in [Sensors -> BOOLEAN] /\ incidents' \in 0 .. MaxIncidents
    BY <1>3, <1>5, <1>7 DEF StreamStop
  <2>2. callback' \in [Sensors -> Calls]
    BY <1>2, <1>7 DEF StreamStop
  <2>3. TypeOK'
    BY <1>7, <2>1, <2>2 DEF StreamStop, TypeOK, registryVars, startVars, clientVars
  <2>4. StepInv'
    BY <1>7 DEF StreamStop, StepInv, Started, startVars
  <2>5. QED
    BY <2>3, <2>4
<1>8. CASE ReceiverCrash(s)
  <2>1. /\ signal' \in [Sensors -> BOOLEAN] /\ linked' \in [Sensors -> BOOLEAN]
        /\ incidents' \in 0 .. MaxIncidents
    BY <1>3, <1>5, <1>8 DEF ReceiverCrash
  <2>2. callback' \in [Sensors -> Calls]
    BY <1>1, <1>2, <1>8 DEF ReceiverCrash
  <2>3. disturbed' \subseteq Sensors /\ dead' \subseteq Threads
    BY <1>8 DEF ReceiverCrash, TypeOK
  <2>4. TypeOK'
    BY <1>8, <2>1, <2>2, <2>3 DEF ReceiverCrash, TypeOK, registryVars, startVars, clientVars
  <2>5. StepInv'
    BY <1>8 DEF ReceiverCrash, StepInv, Started, startVars
  <2>6. QED
    BY <2>4, <2>5
<1>9. CASE Reconnect(s)
  <2>1. linked' \in [Sensors -> BOOLEAN]
    BY <1>3, <1>9 DEF Reconnect
  <2>2. TypeOK'
    BY <1>9, <2>1
       DEF Reconnect, TypeOK, registryVars, startVars, threadVars, clientVars, countVars
  <2>3. StepInv'
    BY <1>9 DEF Reconnect, StepInv, Started, startVars, threadVars
  <2>4. QED
    BY <2>2, <2>3
<1>10. CASE SourceLost(s)
  <2>1. creators' \in Seq(Ids)
    BY <1>10, StartedFacts, WithoutFacts DEF SourceLost, TypeOK
  <2>2. byId' \subseteq Ids /\ lost' \subseteq Sensors /\ disturbed' \subseteq Sensors
    BY <1>10 DEF SourceLost, TypeOK
  <2>3. event' \in [Ids -> {"none", "active", "crushed"}]
    <3>1. event \in [Ids -> {"none", "active", "crushed"}]
      BY DEF TypeOK
    <3>2. event' = [id \in Ids |-> IF id \in Recorded(s) THEN "crushed" ELSE event[id]]
      BY <1>10 DEF SourceLost
    <3>3. QED
      BY <3>1, <3>2
  <2>4. callback' \in [Sensors -> Calls]
    BY <1>4, <1>10 DEF SourceLost
  <2>5. down' = down \/ down' = "freed"
    BY <1>10 DEF SourceLost
  <2>6. UNCHANGED <<startVars, work, dead, restart, main, maint, sourceVars,
                    clientVars, countVars>>
    BY <1>10 DEF SourceLost
  <2>7. TypeOK'
    BY <2>1, <2>2, <2>3, <2>4, <2>5, <2>6
       DEF TypeOK, startVars, sourceVars, clientVars, countVars
  <2>8. StepInv'
    BY <2>6 DEF StepInv, Started, startVars
  <2>9. QED
    BY <2>7, <2>8
<1>11. CASE SourceFound(s)
  <2>1. callback' \in [Sensors -> Calls]
    BY <1>1, <1>4, <1>11 DEF SourceFound
  <2>2. down' = down \/ down' = "restore"
    BY <1>11 DEF SourceFound
  <2>3. TypeOK'
    BY <1>11, <2>1, <2>2
       DEF SourceFound, TypeOK, registryVars, startVars, sourceVars, clientVars, countVars
  <2>4. StepInv'
    BY <1>11 DEF SourceFound, StepInv, Started, startVars
  <2>5. QED
    BY <2>3, <2>4
<1>12. QED
  BY <1>6, <1>7, <1>8, <1>9, <1>10, <1>11

(* Where a launch, a start or a new data block gets to.                    *)
LEMMA TypeLaunch ==
    ASSUME TypeOK, StepInv, PlaceInv, NEW t \in Threads, Launch(t)
    PROVE  TypeOK' /\ StepInv'
<1>1. work[t] # "none"
  BY DEF Launch, GetProvider, TakeSession, MasterPlaylist, TakeParams, Insert
<1>2. /\ RecordOf(t) \in Started /\ RecordOf(t) \in Ids /\ SourceOf(t) \in Sensors
      /\ t = Maint => maint = "restart" /\ restart # <<>>
      /\ t # Maint => t \in Started
  BY <1>1, ThreadRecord
<1>3. CASE /\ GetProvider(t) /\ ~ linked[SourceOf(t)]
  <2>1. TypeOK'
    BY <1>3 DEF GetProvider, TypeOK, registryVars, startVars, threadVars,
                sourceVars, clientVars, countVars
  <2>2. StepInv'
    BY <1>3 DEF GetProvider, StepInv, Started, startVars, threadVars
  <2>3. QED
    BY <2>1, <2>2
<1>4. CASE ~ (GetProvider(t) /\ ~ linked[SourceOf(t)])
  <2>1. PICK to \in Steps \ {"none", "connect"} :
          Step(t, to) /\ (to = "observe" => t # Maint)
    BY <1>4 DEF Launch, GetProvider, TakeSession, MasterPlaylist, TakeParams, Insert,
                Fails, Steps
  <2>2. /\ work' \in [Threads -> Steps] /\ work'[t] = to
        /\ \A u \in Threads \ {t} : work'[u] = work[u]
    BY <2>1, StepType
  <2>3. disturbed' \subseteq Sensors
    BY <1>2, <1>4 DEF Launch, GetProvider, TakeSession, MasterPlaylist, TakeParams, Insert,
                Fails, TypeOK
  <2>4. creators' \in Seq(Ids) /\ byId' \subseteq Ids
    <3>1. CASE creators' = creators /\ byId' = byId
      BY <3>1 DEF TypeOK
    <3>2. CASE creators' = Append(creators, RecordOf(t)) /\ byId' = byId \cup {RecordOf(t)}
      BY <1>2, <3>2 DEF TypeOK
    <3>3. QED
      BY <1>4, <3>1, <3>2 DEF Launch, GetProvider, TakeSession, MasterPlaylist, TakeParams,
                Insert, registryVars
  <2>5. UNCHANGED <<lost, startVars, dead, restart, threadVars, sourceVars,
                    clientVars, event, down, countVars>>
    BY <1>4 DEF Launch, GetProvider, TakeSession, MasterPlaylist, TakeParams, Insert,
                registryVars
  <2>6. Maint \in Threads /\ work'[Maint] \in Steps /\ Ids \subseteq Threads
    BY <2>2 DEF Threads
  <2>7. work'[Maint] # "none" \/ maint = "release" => restart # <<>>
    BY <1>2, <2>2, <2>6 DEF TypeOK
  <2>8. TypeOK'
    BY <2>2, <2>3, <2>4, <2>5, <2>7
       DEF TypeOK, startVars, threadVars, sourceVars, clientVars, countVars
  <2>9. work'[Maint] \notin {"connect", "observe"} /\ (maint # "restart" => work'[Maint] = "none")
    BY <1>2, <2>1, <2>2, <2>6 DEF StepInv
  <2>10. \A id \in Ids : work'[id] # "none" => id \in Started
    BY <1>2, <2>2, <2>6, RecorderAssumption DEF StepInv, RecorderAssumption
  <2>11. StepInv'
    BY <2>5, <2>9, <2>10 DEF StepInv, Started, startVars, threadVars
  <2>12. QED
    BY <2>8, <2>11
<1>5. QED
  BY <1>3, <1>4

LEMMA TypeTask ==
    ASSUME TypeOK, StepInv, PlaceInv, NEW id \in Ids, TaskConnect(id) \/ TaskObserve(id)
    PROVE  TypeOK' /\ StepInv'
<1>1. id \in Threads /\ id # Maint /\ Ids \subseteq Threads /\ Maint \in Threads
  BY RecorderAssumption DEF Threads, RecorderAssumption
<1>2. work[id] # "none"
  BY DEF TaskConnect, TaskObserve
<1>3. id \in Started /\ sensorOf[id] \in Sensors
  BY <1>1, <1>2, ThreadRecord, StartedFacts
<1>4. PICK to \in {"provider", "failed", "ok"} : Step(id, to)
  BY DEF TaskConnect, TaskObserve
<1>5. /\ work' \in [Threads -> Steps] /\ work'[id] = to
      /\ \A u \in Threads \ {id} : work'[u] = work[u]
  BY <1>1, <1>4, StepType DEF Steps
<1>6. /\ refs' \in [Sensors -> Nat] /\ linked' \in [Sensors -> BOOLEAN]
      /\ signal' \in [Sensors -> BOOLEAN] /\ watched' \in [Sensors -> BOOLEAN]
      /\ disturbed' \subseteq Sensors
  <2>1. CASE TaskConnect(id)
    <3>1. PICK connected \in BOOLEAN : ConnectSource(sensorOf[id], connected)
      BY <2>1 DEF TaskConnect
    <3>2. QED
      BY <1>3, <3>1, ConnectType
  <2>2. CASE TaskObserve(id)
    <3>1. watched \in [Sensors -> BOOLEAN]
      BY DEF TypeOK
    <3>2. watched' = [watched EXCEPT ![sensorOf[id]] = @ \/ refs[sensorOf[id]] > 0]
      BY <2>2 DEF TaskObserve
    <3>3. watched' \in [Sensors -> BOOLEAN]
      BY <3>1, <3>2
    <3>4. QED
      BY <2>2, <3>3 DEF TaskObserve, TypeOK
  <2>3. QED
    BY <2>1, <2>2
<1>7. UNCHANGED <<registryVars, startVars, dead, restart, threadVars, others,
                  clientVars, event, down, countVars>>
  BY DEF TaskConnect, TaskObserve
<1>8. work'[Maint] = work[Maint]
  BY <1>1, <1>5
<1>9. TypeOK'
  BY <1>5, <1>6, <1>7, <1>8
     DEF TypeOK, registryVars, startVars, threadVars, clientVars, countVars
<1>10. \A o \in Ids : work'[o] # "none" => o \in Started
  BY <1>1, <1>3, <1>5 DEF StepInv
<1>11. StepInv'
  BY <1>7, <1>8, <1>10 DEF StepInv, Started, startVars, threadVars
<1>12. QED
  BY <1>9, <1>11

(* Collecting the results.                                                 *)
LEMMA TypeCollect ==
    ASSUME TypeOK, StepInv, PlaceInv, NEW id \in Ids, Collect(id)
    PROVE  TypeOK' /\ StepInv'
<1>1. event \in [Ids -> {"none", "active", "crushed"}]
  BY DEF TypeOK
<1>2. event' \in {event, [event EXCEPT ![id] = "active"], [event EXCEPT ![id] = "crushed"]}
  BY DEF Collect, CollectStarted, CollectFailed
<1>3. event' \in [Ids -> {"none", "active", "crushed"}]
  BY <1>1, <1>2
<1>4. down' \in {down, "archiver", "entry", "environment"}
  BY DEF Collect, CollectStarted, CollectFailed
<1>5. futures' \subseteq futures /\ starting' \subseteq starting
  BY DEF Collect, CollectStarted, CollectFailed
<1>6. UNCHANGED <<registryVars, sensorOf, work, dead, restart, threadVars,
                  sourceVars, clientVars, countVars, disturbed>>
  BY DEF Collect, CollectStarted, CollectFailed
<1>7. TypeOK'
  BY <1>3, <1>4, <1>5, <1>6
     DEF TypeOK, registryVars, threadVars, sourceVars, clientVars, countVars
<1>8. StepInv'
  BY <1>6 DEF StepInv, Started, threadVars
<1>9. QED
  BY <1>7, <1>8

(* A new data block.                                                       *)
LEMMA TypeBlock ==
    ASSUME TypeOK, StepInv, PlaceInv,
           \/ BlockBegin \/ BlockEnd \/ (\E id \in Ids : BlockReady(id))
           \/ BlockConnect \/ BlockLaunched
    PROVE  TypeOK' /\ StepInv'
<1>1. Maint \in Threads /\ Ids \subseteq Threads /\ Maint \notin Ids
  BY RecorderAssumption DEF Threads, RecorderAssumption
<1>2. CASE BlockBegin \/ BlockEnd
  <2>1. /\ maint' \in {"scan", "restart", "idle"}
        /\ maint' # "restart" => work[Maint] = "none"
        /\ maint' = "idle" => restart = <<>>
    BY <1>2 DEF BlockBegin, BlockEnd, TypeOK, StepInv
  <2>2. UNCHANGED <<registryVars, startVars, work, dead, restart, main,
                    callback, sourceVars, clientVars, event, down, countVars,
                    disturbed>>
    BY <1>2 DEF BlockBegin, BlockEnd
  <2>3. TypeOK'
    BY <2>1, <2>2 DEF TypeOK, registryVars, startVars, sourceVars, clientVars, countVars
  <2>4. StepInv'
    BY <2>1, <2>2 DEF StepInv, Started, startVars
  <2>5. QED
    BY <2>3, <2>4
<1>3. CASE \E id \in Ids : BlockReady(id)
  <2>1. PICK id \in Ids : BlockReady(id)
    BY <1>3
  <2>2. creators' \in Seq(Ids) /\ byId' \subseteq Ids
    BY <2>1, StartedFacts, WithoutFacts DEF BlockReady, TypeOK
  <2>3. restart' \in Seq(Ids) /\ restart' # <<>>
    <3>1. restart \in Seq(Ids) /\ restart' = Append(restart, id)
      BY <2>1 DEF BlockReady, TypeOK
    <3>2. QED
      BY <3>1, AppendProperties
  <2>4. blocks' \in 0 .. MaxBlocks
    BY <2>1, RecorderAssumption DEF BlockReady, TypeOK, RecorderAssumption
  <2>5. maint = "scan" /\ maint' = "release"
        /\ UNCHANGED <<lost, startVars, work, dead, main, callback, sourceVars,
                       clientVars, event, down, incidents, disturbed>>
    BY <2>1 DEF BlockReady
  <2>6. TypeOK'
    BY <2>2, <2>3, <2>4, <2>5 DEF TypeOK, startVars, sourceVars, clientVars
  <2>7. StepInv'
    BY <2>5 DEF StepInv, Started, startVars
  <2>8. QED
    BY <2>6, <2>7
<1>4. CASE BlockConnect
  <2>1. restart # <<>> /\ maint = "restart" /\ work[Maint] = "none"
    BY <1>4 DEF BlockConnect
  <2>2. Head(restart) \in Waiting /\ SourceOf(Maint) = sensorOf[Head(restart)]
    BY <2>1, StartedFacts DEF SourceOf, RecordOf
  <2>3. SourceOf(Maint) \in Sensors
    BY <2>2, StartedFacts
  <2>4. PICK connected \in BOOLEAN :
          /\ ConnectSource(SourceOf(Maint), connected)
          /\ IF connected
             THEN Step(Maint, "provider") /\ UNCHANGED restart
             ELSE restart' = Tail(restart) /\ UNCHANGED work
    BY <1>4 DEF BlockConnect
  <2>5. /\ refs' \in [Sensors -> Nat] /\ linked' \in [Sensors -> BOOLEAN]
        /\ signal' \in [Sensors -> BOOLEAN] /\ watched' \in [Sensors -> BOOLEAN]
        /\ disturbed' \subseteq Sensors
    BY <2>3, <2>4, ConnectType
  <2>6. UNCHANGED <<registryVars, startVars, dead, threadVars, others,
                    clientVars, event, down, countVars>>
    BY <1>4 DEF BlockConnect
  <2>7. CASE connected
    <3>1. /\ work' \in [Threads -> Steps] /\ work'[Maint] = "provider"
          /\ \A u \in Threads \ {Maint} : work'[u] = work[u]
      BY <1>1, <2>4, <2>7, StepType DEF Steps
    <3>2. restart' = restart
      BY <2>4, <2>7
    <3>3. TypeOK'
      BY <2>1, <2>5, <2>6, <3>1, <3>2
         DEF TypeOK, registryVars, startVars, threadVars, clientVars, countVars
    <3>4. \A id \in Ids : work'[id] = work[id]
      BY <1>1, <3>1
    <3>5. StepInv'
      BY <2>1, <2>6, <3>1, <3>2, <3>4 DEF StepInv, Started, startVars, threadVars
    <3>6. QED
      BY <3>3, <3>5
  <2>8. CASE ~ connected
    <3>1. restart' = Tail(restart) /\ work' = work
      BY <2>4, <2>8
    <3>2. restart' \in Seq(Ids)
      BY <2>1, <3>1, HeadTailProperties DEF TypeOK
    <3>3. TypeOK'
      BY <2>1, <2>5, <2>6, <3>1, <3>2
         DEF TypeOK, registryVars, startVars, threadVars, clientVars, countVars
    <3>4. StepInv'
      BY <2>1, <2>6, <3>1 DEF StepInv, Started, startVars, threadVars
    <3>5. QED
      BY <3>3, <3>4
  <2>9. QED
    BY <2>7, <2>8
<1>5. CASE BlockLaunched
  <2>1. /\ maint = "restart" /\ Step(Maint, "none") /\ restart' = Tail(restart)
        /\ restart # <<>>
        /\ UNCHANGED <<registryVars, startVars, dead, threadVars, sourceVars,
                       clientVars, event, down, countVars, disturbed>>
    BY <1>5 DEF BlockLaunched, TypeOK
  <2>2. /\ work' \in [Threads -> Steps] /\ work'[Maint] = "none"
        /\ \A u \in Threads \ {Maint} : work'[u] = work[u]
    BY <1>1, <2>1, StepType DEF Steps
  <2>3. restart' \in Seq(Ids)
    BY <2>1, HeadTailProperties DEF TypeOK
  <2>4. TypeOK'
    BY <2>1, <2>2, <2>3
       DEF TypeOK, registryVars, startVars, threadVars, sourceVars, clientVars, countVars
  <2>5. \A id \in Ids : work'[id] = work[id]
    BY <1>1, <2>2
  <2>6. StepInv'
    BY <2>1, <2>2, <2>5 DEF StepInv, Started, startVars, threadVars
  <2>7. QED
    BY <2>4, <2>6
<1>6. QED
  BY <1>2, <1>3, <1>4, <1>5

-----------------------------------------------------------------------------
(* The places of a recording.                                              *)

(* Most steps only bring a start or a new data block further.              *)
LEMMA PlaceQuiet ==
    ASSUME TypeOK, StepInv, PlaceInv,
           UNCHANGED <<creators, byId, restart>>,
           Inserted \subseteq Inserted',
           work[Maint] = "ok" => work'[Maint] = "ok",
           \/ main' = main /\ UNCHANGED sensorOf
           \/ main'.step \notin {"remove", "disconnect"},
           disturbed \subseteq disturbed'
    PROVE  PlaceInv'
<1>1. Listed' = Listed /\ Waiting' = Waiting
  BY DEF Listed, Waiting
<1>2. Listed \cup byId \cup Waiting \subseteq Ids
  BY StartedFacts DEF TypeOK, Started
<1>3. Listed' \cup byId' \cup Waiting' \subseteq Inserted'
  BY <1>1, <1>2 DEF PlaceInv
<1>4. main'.step \in {"remove", "disconnect"} => main.id \in Inserted' /\ main' = main
  <2>1. main.step \in {"remove", "disconnect"} => main.id \in Ids
    BY StartedFacts DEF StepInv
  <2>2. QED
    BY <2>1 DEF PlaceInv
<1>5. QED
  BY <1>1, <1>3, <1>4 DEF PlaceInv

(* Recordings are erased from the vector.                                  *)
LEMMA PlaceErase ==
    ASSUME TypeOK, StepInv, PlaceInv, NEW gone, creators' = Without(gone)
    PROVE  Once(creators') /\ Listed' = Listed \ gone
<1>1. /\ Without(gone) \in Seq(Ids) /\ Once(Without(gone))
      /\ Elements(Without(gone)) = Listed \ gone
  BY StartedFacts, WithoutFacts DEF TypeOK
<1>2. Listed' = Elements(creators')
  BY DEF Listed, Elements
<1>3. QED
  BY <1>1, <1>2

LEMMA PlaceStop ==
    ASSUME TypeOK, StepInv, PlaceInv, StopFind \/ StopRemove
    PROVE  PlaceInv'
<1>1. main.step # "idle" /\ main.id \in Ids
  BY StartedFacts DEF StepInv, StopFind, StopRemove
<1>2. CASE StopFind
  <2>1. PICK to \in {"remove", "release", "idle"} : Goto(to) /\ (to = "remove" => main.id \in byId)
    BY <1>2 DEF StopFind
  <2>2. main'.step = to /\ main'.id = main.id
    BY <2>1, GotoType DEF MainSteps
  <2>3. UNCHANGED <<creators, byId, restart, work, disturbed>>
    BY <1>2 DEF StopFind, registryVars
  <2>4. Listed' = Listed /\ Waiting' = Waiting /\ Inserted' = Inserted
    BY <2>3 DEF Listed, Waiting, Inserted
  <2>5. main'.step \in {"remove", "disconnect"} => main'.id \in Inserted
    BY <2>1, <2>2 DEF PlaceInv
  <2>6. main'.step # "disconnect"
    BY <2>2
  <2>7. QED
    BY <2>3, <2>4, <2>5, <2>6 DEF PlaceInv
<1>3. CASE StopRemove
  <2>1. /\ Goto("disconnect") /\ main.step = "remove" /\ byId' = byId \ {main.id}
        /\ creators' = Without({main.id})
        /\ disturbed' = IF main.id \in Listed THEN disturbed
                        ELSE disturbed \cup {sensorOf[main.id]}
        /\ UNCHANGED <<sensorOf, work, restart>>
    BY <1>3 DEF StopRemove, startVars
  <2>2. main'.step = "disconnect" /\ main'.id = main.id
    BY <2>1, GotoType DEF MainSteps
  <2>3. Once(creators') /\ Listed' = Listed \ {main.id}
    BY <2>1, PlaceErase
  <2>4. Waiting' = Waiting /\ Inserted' = Inserted
    BY <2>1 DEF Waiting, Inserted
  <2>5. sensorOf[main.id] \notin disturbed' => main.id \in Listed
    BY <2>1
  <2>6. Listed' \cup byId' \cup Waiting' \subseteq Inserted'
    BY <2>1, <2>3, <2>4 DEF PlaceInv
  <2>7. main.id \in Inserted'
    BY <2>1, <2>4 DEF PlaceInv
  <2>8. \A id \in Listed \cap Waiting : id = Head(restart) /\ work[Maint] = "ok"
    BY DEF PlaceInv
  <2>9. \A id \in Listed' \cap Waiting' : id = Head(restart') /\ work'[Maint] = "ok"
    BY <2>1, <2>3, <2>4, <2>8
  <2>10. sensorOf'[main'.id] \notin disturbed' =>
          /\ main'.id \notin Listed'
          /\ main'.id \in Waiting' => main'.id = Head(restart') /\ work'[Maint] = "ok"
    BY <2>1, <2>2, <2>3, <2>4, <2>5, <2>8
  <2>11. Once(restart')
    BY <2>1, StartedFacts
  <2>12. QED
    BY <2>2, <2>3, <2>6, <2>7, <2>9, <2>10, <2>11 DEF PlaceInv
<1>4. QED
  BY <1>2, <1>3

LEMMA PlaceLost ==
    ASSUME TypeOK, StepInv, PlaceInv, NEW s \in Sensors, SourceLost(s)
    PROVE  PlaceInv'
<1>1. /\ creators' = Without(Recorded(s)) /\ byId' \subseteq byId
      /\ disturbed \subseteq disturbed'
      /\ UNCHANGED <<sensorOf, work, restart, main>>
  BY DEF SourceLost, startVars
<1>2. Once(creators') /\ Listed' \subseteq Listed
  BY <1>1, PlaceErase
<1>3. Waiting' = Waiting /\ Inserted' = Inserted
  BY <1>1 DEF Waiting, Inserted
<1>4. Listed' \cup byId' \cup Waiting' \subseteq Inserted'
  BY <1>1, <1>2, <1>3 DEF PlaceInv
<1>5. main'.step \in {"remove", "disconnect"} => main'.id \in Inserted'
  BY <1>1, <1>3 DEF PlaceInv
<1>6. \A id \in Listed' \cap Waiting' : id = Head(restart') /\ work'[Maint] = "ok"
  BY <1>1, <1>2, <1>3 DEF PlaceInv
<1>7. main'.step = "disconnect" /\ sensorOf'[main'.id] \notin disturbed' =>
        /\ main'.id \notin Listed'
        /\ main'.id \in Waiting' => main'.id = Head(restart') /\ work'[Maint] = "ok"
  BY <1>1, <1>2, <1>3 DEF PlaceInv
<1>8. Once(restart')
  BY <1>1, StartedFacts
<1>9. QED
  BY <1>2, <1>4, <1>5, <1>6, <1>7, <1>8 DEF PlaceInv

LEMMA PlaceInsert ==
    ASSUME TypeOK, StepInv, PlaceInv, NEW t \in Threads, Insert(t)
    PROVE  /\ PlaceInv' /\ Listed' = Listed \cup {RecordOf(t)}
           /\ RecordOf(t) \notin Listed
<1> DEFINE r == RecordOf(t)
<1>1. /\ work[t] = "insert" /\ creators' = Append(creators, r) /\ byId' = byId \cup {r}
      /\ UNCHANGED <<sensorOf, restart, main, disturbed>>
      /\ Step(t, IF t = Maint THEN "ok" ELSE "observe")
  BY DEF Insert, startVars, threadVars
<1>2. /\ work'[t] = (IF t = Maint THEN "ok" ELSE "observe")
      /\ \A u \in Threads \ {t} : work'[u] = work[u]
  BY <1>1, StepType DEF Steps
<1>3. /\ r \in Ids
      /\ t = Maint => r = Head(restart) /\ r \in Waiting
      /\ t # Maint => r = t
  BY <1>1, ThreadRecord
<1>. HIDE DEF r
<1>4. Listed \cup byId \cup Waiting \subseteq Ids /\ Ids \subseteq Threads /\ Maint \in Threads
      /\ Maint \notin Ids
  BY StartedFacts, RecorderAssumption DEF TypeOK, Started, Threads, RecorderAssumption
<1>5. t # Maint => t \notin Inserted
  BY <1>1 DEF Inserted
<1>6. r \notin Listed
  <2>1. CASE t = Maint
    BY <1>1, <1>3, <2>1 DEF PlaceInv
  <2>2. CASE t # Maint
    BY <1>3, <1>5, <2>2 DEF PlaceInv
  <2>3. QED
    BY <2>1, <2>2
<1>7. /\ creators' \in Seq(Ids) /\ Once(creators')
      /\ Elements(creators') = Elements(creators) \cup {r}
  BY <1>1, <1>3, <1>6, StartedFacts, AppendOnce DEF TypeOK
<1>8. Listed' = Listed \cup {r} /\ Waiting' = Waiting
  BY <1>1, <1>7, StartedFacts DEF Listed, Waiting, Elements
<1>9. Inserted \subseteq Inserted'
  BY <1>1, <1>2, <1>4 DEF Inserted
<1>10. r \in Inserted'
  <2>1. CASE t = Maint
    <3>1. r \in Inserted
      BY <1>3, <2>1 DEF PlaceInv
    <3>2. QED
      BY <1>3, <1>9, <3>1
  <2>2. CASE t # Maint
    BY <1>2, <1>3, <2>2 DEF Inserted
  <2>3. QED
    BY <2>1, <2>2
<1>11. Listed' \cup byId' \cup Waiting' \subseteq Inserted'
  <2>1. \A id \in Listed \cup byId \cup Waiting : id \in Inserted /\ id \in Ids
    BY <1>4 DEF PlaceInv
  <2>2. QED
    BY <1>1, <1>8, <1>9, <1>10, <2>1
<1>12. main'.step \in {"remove", "disconnect"} => main'.id \in Inserted'
  <2>1. main.step \in {"remove", "disconnect"} => main.id \in Inserted /\ main.id \in Ids
    BY StartedFacts DEF PlaceInv, StepInv
  <2>2. QED
    BY <1>1, <1>9, <2>1
<1>13. \A id \in Listed' \cap Waiting' : id = Head(restart') /\ work'[Maint] = "ok"
  <2>1. SUFFICES ASSUME NEW id \in Listed' \cap Waiting'
                 PROVE  id = Head(restart) /\ work'[Maint] = "ok"
    BY <1>1
  <2>2. CASE id \in Listed
    <3>1. id = Head(restart) /\ work[Maint] = "ok"
      BY <1>8, <2>2 DEF PlaceInv
    <3>2. QED
      BY <1>1, <1>2, <1>4, <3>1
  <2>3. CASE id = r
    <3>1. t = Maint
      BY <1>3, <1>5, <1>8, <2>3 DEF PlaceInv
    <3>2. QED
      BY <1>2, <1>3, <2>3, <3>1
  <2>4. QED
    BY <1>8, <2>2, <2>3
<1>14. main'.step = "disconnect" /\ sensorOf'[main'.id] \notin disturbed' =>
        /\ main'.id \notin Listed'
        /\ main'.id \in Waiting' => main'.id = Head(restart') /\ work'[Maint] = "ok"
  <2>1. SUFFICES ASSUME main.step = "disconnect", sensorOf[main.id] \notin disturbed
                 PROVE  /\ main.id \notin Listed'
                        /\ main.id \in Waiting' => main.id = Head(restart) /\ work'[Maint] = "ok"
    BY <1>1
  <2>2. /\ main.id \notin Listed /\ main.id \in Inserted
        /\ main.id \in Waiting => main.id = Head(restart) /\ work[Maint] = "ok"
    BY <2>1 DEF PlaceInv
  <2>3. main.id # r
    BY <1>1, <1>3, <1>5, <2>2
  <2>4. QED
    BY <1>1, <1>2, <1>4, <1>8, <2>2, <2>3
<1>15. Once(restart')
  BY <1>1, StartedFacts
<1>16. PlaceInv'
  BY <1>7, <1>11, <1>12, <1>13, <1>14, <1>15 DEF PlaceInv
<1>17. QED
  BY <1>6, <1>8, <1>16 DEF r

LEMMA PlaceReady ==
    ASSUME TypeOK, StepInv, PlaceInv, NEW id \in Ids, BlockReady(id)
    PROVE  /\ PlaceInv' /\ Listed' = Listed \ {id} /\ restart'[Len(restart')] = id
           /\ work[Maint] = "none"
<1>1. /\ maint = "scan" /\ id \in Listed /\ creators' = Without({id}) /\ byId' = byId \ {id}
      /\ restart' = Append(restart, id)
      /\ UNCHANGED <<sensorOf, work, main, disturbed>>
  BY DEF BlockReady, startVars
<1>2. work[Maint] = "none"
  BY <1>1 DEF StepInv
<1>3. Listed \cap Waiting = {}
  BY <1>2 DEF PlaceInv
<1>4. /\ Once(restart') /\ Elements(restart') = Elements(restart) \cup {id}
      /\ restart'[Len(restart')] = id
  BY <1>1, <1>3, StartedFacts, AppendOnce DEF TypeOK
<1>5. Once(creators') /\ Listed' = Listed \ {id}
  BY <1>1, PlaceErase
<1>6. Waiting' = Waiting \cup {id}
  BY <1>4, StartedFacts DEF Waiting, Elements
<1>7. Inserted' = Inserted
  BY <1>1 DEF Inserted
<1>8. Listed' \cup byId' \cup Waiting' \subseteq Inserted'
  BY <1>1, <1>5, <1>6, <1>7 DEF PlaceInv
<1>9. main'.step \in {"remove", "disconnect"} => main'.id \in Inserted'
  BY <1>1, <1>7 DEF PlaceInv
<1>10. Listed' \cap Waiting' = {}
  BY <1>3, <1>5, <1>6
<1>11. main'.step = "disconnect" /\ sensorOf'[main'.id] \notin disturbed' =>
        main'.id \notin Listed' /\ main'.id \notin Waiting'
  BY <1>1, <1>2, <1>5, <1>6 DEF PlaceInv
<1>12. PlaceInv'
  BY <1>4, <1>5, <1>8, <1>9, <1>10, <1>11 DEF PlaceInv
<1>13. QED
  BY <1>2, <1>4, <1>5, <1>12

(* The first waiting recording is let go.                                  *)
LEMMA PlaceNext ==
    ASSUME TypeOK, StepInv, PlaceInv, restart # <<>>, restart' = Tail(restart),
           \A id \in Ids : work'[id] = work[id],
           UNCHANGED <<creators, byId, sensorOf, main>>, disturbed \subseteq disturbed'
    PROVE  PlaceInv'
<1>1. /\ Once(restart') /\ Elements(restart') = Elements(restart) \ {Head(restart)}
  BY StartedFacts, TailOnce DEF TypeOK
<1>2. Waiting' = Waiting \ {Head(restart)} /\ Listed' = Listed
  BY <1>1, StartedFacts DEF Waiting, Listed, Elements
<1>3. Listed \cup byId \cup Waiting \subseteq Ids
  BY StartedFacts DEF TypeOK, Started
<1>4. Inserted' = Inserted
  BY DEF Inserted
<1>5. Listed' \cup byId' \cup Waiting' \subseteq Inserted'
  BY <1>2, <1>3, <1>4 DEF PlaceInv
<1>6. main'.step \in {"remove", "disconnect"} => main'.id \in Inserted'
  <2>1. main.step \in {"remove", "disconnect"} => main.id \in Inserted /\ main.id \in Ids
    BY StartedFacts DEF PlaceInv, StepInv
  <2>2. QED
    BY <1>4, <2>1
<1>7. Listed' \cap Waiting' = {}
  BY <1>2 DEF PlaceInv
<1>8. main'.step = "disconnect" /\ sensorOf'[main'.id] \notin disturbed' =>
        main'.id \notin Listed' /\ main'.id \notin Waiting'
  BY <1>2 DEF PlaceInv
<1>9. Once(creators')
  BY StartedFacts
<1>10. QED
  BY <1>1, <1>5, <1>6, <1>7, <1>8, <1>9 DEF PlaceInv

LEMMA PlaceStep ==
    ASSUME TypeOK, StepInv, PlaceInv, Next
    PROVE  PlaceInv'
<1>1. Maint \in Threads /\ Ids \subseteq Threads /\ Maint \notin Ids
  BY RecorderAssumption DEF Threads, RecorderAssumption
<1>2. ASSUME NEW id \in Ids, NEW s \in Sensors, Start(id, s) PROVE PlaceInv'
  <2>1. Step(id, "connect") /\ "connect" \in Steps
    BY <1>2 DEF Start, Steps
  <2>2. \A u \in Threads \ {id} : work'[u] = work[u]
    BY <1>1, <2>1, StepType
  <2>3. id \notin Inserted
    BY <1>2 DEF StepInv, Inserted, Started, Start
  <2>4. Inserted \subseteq Inserted' /\ work'[Maint] = work[Maint]
    BY <1>1, <2>2, <2>3 DEF Inserted
  <2>5. UNCHANGED <<creators, byId, restart, disturbed>> /\ main'.step = "insert"
    BY <1>2 DEF Start, registryVars
  <2>6. QED
    BY <2>4, <2>5, PlaceQuiet
<1>3. CASE \/ \E id \in Ids : Stop(id) \/ Collect(id)
           \/ InsertInfo \/ OpenOperation \/ StopStarting \/ StopDisconnect
           \/ BlockBegin \/ BlockEnd \/ BlockDisconnect
           \/ \E s \in Sensors : \/ OtherConsumer(s) \/ StreamStart(s) \/ StreamStop(s)
                                 \/ ReceiverCrash(s) \/ Reconnect(s) \/ SourceFound(s)
  <2>1. UNCHANGED <<creators, byId, restart, sensorOf, work>> /\ disturbed \subseteq disturbed'
    BY <1>3 DEF Stop, Collect, CollectStarted, CollectFailed, InsertInfo, OpenOperation,
                StopStarting, StopDisconnect, BlockBegin, BlockEnd, BlockDisconnect,
                OtherConsumer, ConnectSource, StreamStart, StreamStop, ReceiverCrash,
                Reconnect, SourceFound, registryVars, startVars
  <2>2. main' = main \/ \E to \in {"find", "journal", "idle"} : main'.step = to
    <3>1. CASE InsertInfo
      BY <3>1, GotoType DEF InsertInfo, MainSteps
    <3>2. CASE OpenOperation \/ StopStarting \/ StopDisconnect
      BY <3>2, GotoType DEF OpenOperation, StopStarting, StopDisconnect, MainSteps
    <3>3. CASE \E id \in Ids : Stop(id)
      BY <3>3 DEF Stop
    <3>4. QED
      BY <1>3, <3>1, <3>2, <3>3
         DEF Collect, CollectStarted, CollectFailed, BlockBegin, BlockEnd, BlockDisconnect,
             OtherConsumer, StreamStart, StreamStop, ReceiverCrash, Reconnect, SourceFound,
             threadVars
  <2>3. Inserted' = Inserted
    BY <2>1 DEF Inserted
  <2>4. main' = main \/ main'.step \notin {"remove", "disconnect"}
    BY <2>2
  <2>5. QED
    BY <2>1, <2>3, <2>4, PlaceQuiet
<1>4. CASE \/ \E t \in Threads : Launch(t) /\ ~ Insert(t)
           \/ \E id \in Ids : TaskConnect(id) \/ TaskObserve(id)
           \/ BlockConnect /\ restart' = restart
  <2>1. UNCHANGED <<creators, byId, restart, sensorOf, main>> /\ disturbed \subseteq disturbed'
    BY <1>4 DEF Launch, GetProvider, TakeSession, MasterPlaylist, TakeParams, Fails,
                TaskConnect, TaskObserve, BlockConnect, ConnectSource, registryVars,
                startVars, threadVars
  <2>2. \/ work' = work
        \/ \E t \in Threads, to \in Steps :
              /\ Step(t, to) /\ (t \in Inserted => to = "ok") /\ (t = Maint => work[t] # "ok")
    <3>1. CASE \E t \in Threads : Launch(t) /\ ~ Insert(t)
      BY <3>1 DEF Launch, GetProvider, TakeSession, MasterPlaylist, TakeParams, Fails,
                  Steps, Inserted
    <3>2. CASE \E id \in Ids : TaskConnect(id) \/ TaskObserve(id)
      BY <1>1, <3>2 DEF TaskConnect, TaskObserve, Steps, Inserted
    <3>3. CASE BlockConnect
      BY <1>1, <3>3 DEF BlockConnect, Steps, Inserted
    <3>4. QED
      BY <1>4, <3>1, <3>2, <3>3
  <2>3. Inserted \subseteq Inserted' /\ (work[Maint] = "ok" => work'[Maint] = "ok")
    <3>1. CASE work' = work
      BY <3>1 DEF Inserted
    <3>2. CASE work' # work
      <4>1. PICK t \in Threads, to \in Steps :
              /\ Step(t, to) /\ (t \in Inserted => to = "ok") /\ (t = Maint => work[t] # "ok")
        BY <2>2, <3>2
      <4>2. work'[t] = to /\ \A u \in Threads \ {t} : work'[u] = work[u]
        BY <4>1, StepType
      <4>3. QED
        BY <1>1, <4>1, <4>2 DEF Inserted
    <3>3. QED
      BY <3>1, <3>2
  <2>4. QED
    BY <2>1, <2>3, PlaceQuiet
<1>5. CASE BlockLaunched \/ (BlockConnect /\ restart' # restart)
  <2>1. restart # <<>> /\ restart' = Tail(restart)
    BY <1>1, <1>5 DEF BlockLaunched, BlockConnect, TypeOK
  <2>2. UNCHANGED <<creators, byId, sensorOf, main>> /\ disturbed \subseteq disturbed'
    BY <1>5 DEF BlockLaunched, BlockConnect, ConnectSource, registryVars, startVars, threadVars
  <2>3. \A id \in Ids : work'[id] = work[id]
    <3>1. CASE BlockLaunched
      <4>1. Step(Maint, "none") /\ "none" \in Steps
        BY <3>1 DEF BlockLaunched, Steps
      <4>2. QED
        BY <1>1, <4>1, StepType
    <3>2. CASE BlockConnect /\ restart' # restart
      BY <3>2 DEF BlockConnect
    <3>3. QED
      BY <1>5, <3>1, <3>2
  <2>4. QED
    BY <2>1, <2>2, <2>3, PlaceNext
<1>6. QED
  BY <1>1, <1>2, <1>3, <1>4, <1>5, PlaceStop, PlaceLost, PlaceInsert, PlaceReady
     DEF Next, Task, Command, Block, Launch

-----------------------------------------------------------------------------
(* What holds a source.                                                    *)

Busy == {t \in Threads : Launching(t)}
Holding ==
    {id \in Ids : \/ id \in Listed \/ id \in Busy
                  \/ main.step = "disconnect" /\ id = main.id
                  \/ maint = "release" /\ id = restart[Len(restart)]
                  \/ Maint \in Busy /\ id = Head(restart)}

HoldFacts ==
    /\ Holding \subseteq Started /\ IsFiniteSet(Holding)
    /\ \A s \in Sensors : Holders(s) = {id \in Holding : sensorOf[id] = s}

LEMMA HoldFactsHold == TypeOK /\ StepInv /\ PlaceInv => HoldFacts
<1>. SUFFICES ASSUME TypeOK, StepInv, PlaceInv PROVE HoldFacts
  OBVIOUS
<1>1. Holding \subseteq Started
  <2>1. maint = "release" \/ Maint \in Busy => restart # <<>>
    BY DEF TypeOK, Busy, Launching
  <2>2. \A id \in Ids : id \in Busy => id \in Started
    BY DEF StepInv, Busy, Launching
  <2>3. main.step = "disconnect" => main.id \in Started
    BY DEF StepInv
  <2>4. QED
    BY <2>1, <2>2, <2>3, StartedFacts DEF Holding
<1>2. IsFiniteSet(Holding)
  BY <1>1, FS_Subset DEF StepInv
<1>3. ASSUME NEW s \in Sensors PROVE Holders(s) = {id \in Holding : sensorOf[id] = s}
  <2>1. \A id \in Ids : main = [step |-> "disconnect", id |-> id]
                          <=> main.step = "disconnect" /\ id = main.id
    BY DEF TypeOK
  <2>2. \A t \in Threads : t \in Busy <=> Launching(t)
    BY DEF Busy
  <2>3. Ids \subseteq Threads /\ Maint \in Threads
    BY DEF Threads
  <2>4. \A id \in Ids : sensorOf[id] = s => (id \in Holders(s) <=> id \in Holding)
    BY <2>1, <2>2, <2>3 DEF Holders, Holding
  <2>5. \A id \in Holders(s) : id \in Ids /\ sensorOf[id] = s
    BY DEF Holders
  <2>6. Holding \subseteq Ids
    BY DEF Holding
  <2>7. QED
    BY <2>4, <2>5, <2>6
<1>4. QED
  BY <1>1, <1>2, <1>3 DEF HoldFacts

LEMMA HoldFactsAfter == TypeOK' /\ StepInv' /\ PlaceInv' => HoldFacts'
  BY HoldFactsHold, PTL

(* A source whose holders and count stay.                                  *)
LEMMA HoldKept ==
    ASSUME HoldFacts, HoldFacts', HoldInv, disturbed \subseteq disturbed',
           NEW s \in Sensors \ disturbed',
           \A id \in Ids : (id \in Holding' /\ sensorOf'[id] = s)
                             <=> (id \in Holding /\ sensorOf[id] = s),
           refs'[s] = refs[s], linked[s] => linked'[s], others'[s] = others[s]
    PROVE  CountOf(s)'
<1>1. Holding \subseteq Ids /\ Holding' \subseteq Ids
  BY DEF Holding
<1>2. Holders(s)' = Holders(s)
  <2>1. Holders(s)' = {id \in Holding' : sensorOf'[id] = s}
    BY DEF HoldFacts
  <2>2. Holders(s) = {id \in Holding : sensorOf[id] = s}
    BY DEF HoldFacts
  <2>3. QED
    BY <1>1, <2>1, <2>2
<1>3. CountOf(s)
  BY DEF HoldInv
<1>4. QED
  BY <1>2, <1>3 DEF CountOf, Others

(* One holder more and one less.                                           *)
LEMMA HoldMore ==
    ASSUME HoldFacts, HoldFacts', HoldInv, disturbed \subseteq disturbed',
           NEW x \in Ids, sensorOf[x] \in Sensors \ disturbed', UNCHANGED sensorOf,
           x \notin Holding, x \in Holding',
           \A id \in Ids \ {x} : id \in Holding' <=> id \in Holding,
           others' = others, TypeOK,
           refs'[sensorOf[x]] = refs[sensorOf[x]] + 1, linked'[sensorOf[x]]
    PROVE  CountOf(sensorOf[x])'
<1>1. PICK s \in Sensors \ disturbed' : s = sensorOf[x]
  OBVIOUS
<1>2. Holders(s)' = {id \in Holding' : sensorOf'[id] = s}
  BY DEF HoldFacts
<1>3. Holders(s) = {id \in Holding : sensorOf[id] = s} /\ IsFiniteSet(Holding)
  BY DEF HoldFacts
<1>4. Holding \subseteq Ids /\ Holding' \subseteq Ids
  BY DEF Holding
<1>5. Holders(s)' = Holders(s) \cup {x} /\ x \notin Holders(s)
  BY <1>1, <1>2, <1>3, <1>4
<1>6. IsFiniteSet(Holders(s))
  BY <1>3, FS_Subset
<1>7. Cardinality(Holders(s)') = Cardinality(Holders(s)) + 1 /\ Cardinality(Holders(s)) \in Nat
  BY <1>5, <1>6, FS_AddElement, FS_CardinalityType
<1>8. CountOf(s)
  BY DEF HoldInv
<1>9. CountOf(s)'
  BY <1>1, <1>7, <1>8 DEF CountOf, Others, TypeOK
<1>10. QED
  BY <1>1, <1>9

LEMMA HoldLess ==
    ASSUME HoldFacts, HoldFacts', HoldInv, disturbed \subseteq disturbed',
           NEW x \in Ids, sensorOf[x] \in Sensors \ disturbed', UNCHANGED sensorOf,
           x \in Holding, x \notin Holding',
           \A id \in Ids \ {x} : id \in Holding' <=> id \in Holding,
           others' = others, TypeOK, Disconnect(sensorOf[x])
    PROVE  CountOf(sensorOf[x])'
<1>1. PICK s \in Sensors \ disturbed' : s = sensorOf[x]
  OBVIOUS
<1>2. Holders(s)' = {id \in Holding' : sensorOf'[id] = s}
  BY DEF HoldFacts
<1>3. Holders(s) = {id \in Holding : sensorOf[id] = s} /\ IsFiniteSet(Holding)
  BY DEF HoldFacts
<1>4. Holding \subseteq Ids /\ Holding' \subseteq Ids
  BY DEF Holding
<1>5. Holders(s)' = Holders(s) \ {x} /\ x \in Holders(s)
  BY <1>1, <1>2, <1>3, <1>4
<1>6. IsFiniteSet(Holders(s))
  BY <1>3, FS_Subset
<1>7. /\ Cardinality(Holders(s)') = Cardinality(Holders(s)) - 1
      /\ Cardinality(Holders(s)) \in Nat /\ Cardinality(Holders(s)') \in Nat
  BY <1>5, <1>6, FS_RemoveElement, FS_CardinalityType
<1>8. CountOf(s)
  BY DEF HoldInv
<1>9. Others(s) \in Nat /\ Others(s)' = Others(s)
  BY DEF Others
<1>10. refs[s] > 0 /\ linked[s]
  BY <1>7, <1>8, <1>9 DEF CountOf
<1>11. refs'[s] = refs[s] - 1 /\ (refs[s] # 1 => linked' = linked)
  <2>1. refs \in [Sensors -> Nat]
    BY DEF TypeOK
  <2>2. QED
    BY <1>1, <1>10, <2>1 DEF Disconnect
<1>12. refs[s] \in Nat
  BY DEF TypeOK
<1>13. CountOf(s)'
  BY <1>7, <1>8, <1>9, <1>10, <1>11, <1>12 DEF CountOf
<1>14. QED
  BY <1>1, <1>13

(* The count of another source does not change.                            *)
LEMMA OtherSource ==
    ASSUME TypeOK, NEW x \in Sensors, NEW s \in Sensors, s # x,
           Disconnect(x) \/ (\E connected \in BOOLEAN : ConnectSource(x, connected))
    PROVE  refs'[s] = refs[s] /\ linked'[s] = linked[s] /\ watched'[s] = watched[s]
<1>1. refs \in [Sensors -> Nat] /\ linked \in [Sensors -> BOOLEAN]
      /\ watched \in [Sensors -> BOOLEAN]
  BY DEF TypeOK
<1>2. /\ refs' \in {refs, [refs EXCEPT ![x] = @ - 1], [refs EXCEPT ![x] = @ + 1]}
      /\ linked' \in {linked, [linked EXCEPT ![x] = FALSE], [linked EXCEPT ![x] = TRUE]}
      /\ watched' \in {watched, [watched EXCEPT ![x] = FALSE]}
  BY DEF Disconnect, ConnectSource
<1>3. refs'[s] = refs[s]
  BY <1>1, <1>2
<1>4. linked'[s] = linked[s]
  BY <1>1, <1>2
<1>5. watched'[s] = watched[s]
  BY <1>1, <1>2
<1>6. QED
  BY <1>3, <1>4, <1>5

(* Who connects holds nothing yet.                                         *)
LEMMA ConnectCounts ==
    ASSUME TypeOK, HoldFacts, HoldFacts', HoldInv, NEW x \in Ids, sensorOf[x] \in Sensors,
           UNCHANGED <<sensorOf, others>>, ConnectSource(sensorOf[x], TRUE),
           sensorOf[x] \notin disturbed => x \notin Holding,
           Holding' = Holding \cup {x}
    PROVE  HoldInv'
<1>1. SUFFICES ASSUME NEW s \in Sensors \ disturbed' PROVE CountOf(s)'
  BY DEF HoldInv
<1>2. disturbed \subseteq disturbed'
  BY DEF ConnectSource
<1>3. CASE s # sensorOf[x]
  <2>1. refs'[s] = refs[s] /\ linked'[s] = linked[s]
    BY <1>3, OtherSource
  <2>2. \A id \in Ids : (id \in Holding' /\ sensorOf'[id] = s)
                          <=> (id \in Holding /\ sensorOf[id] = s)
    BY <1>3
  <2>3. QED
    BY <1>2, <2>1, <2>2, HoldKept
<1>4. CASE s = sensorOf[x]
  <2>1. CountOf(s)
    BY <1>2 DEF HoldInv
  <2>2. /\ refs' = [refs EXCEPT ![s] = @ + 1] /\ linked' = [linked EXCEPT ![s] = TRUE]
    BY <1>4, <2>1 DEF ConnectSource, CountOf
  <2>3. refs'[s] = refs[s] + 1 /\ linked'[s]
    BY <2>2 DEF TypeOK
  <2>4. x \notin Holding /\ x \in Holding'
        /\ \A id \in Ids \ {x} : id \in Holding' <=> id \in Holding
    BY <1>2, <1>4
  <2>5. CountOf(sensorOf[x])'
    BY <1>2, <1>4, <2>3, <2>4, HoldMore
  <2>6. QED
    BY <1>4, <2>5
<1>5. QED
  BY <1>3, <1>4

(* Who disconnects holds it no longer.                                     *)
LEMMA DisconnectCounts ==
    ASSUME TypeOK, HoldFacts, HoldFacts', HoldInv, NEW x \in Ids, sensorOf[x] \in Sensors,
           UNCHANGED <<sensorOf, others, disturbed>>, Disconnect(sensorOf[x]),
           x \in Holding,
           sensorOf[x] \notin disturbed => x \notin Holding',
           \A id \in Ids \ {x} : id \in Holding' <=> id \in Holding
    PROVE  HoldInv'
<1>1. SUFFICES ASSUME NEW s \in Sensors \ disturbed' PROVE CountOf(s)'
  BY DEF HoldInv
<1>2. disturbed \subseteq disturbed'
  OBVIOUS
<1>3. CASE s # sensorOf[x]
  <2>1. refs'[s] = refs[s] /\ linked'[s] = linked[s]
    BY <1>3, OtherSource
  <2>2. \A id \in Ids : (id \in Holding' /\ sensorOf'[id] = s)
                          <=> (id \in Holding /\ sensorOf[id] = s)
    BY <1>3
  <2>3. QED
    BY <1>2, <2>1, <2>2, HoldKept
<1>4. CASE s = sensorOf[x]
  <2>1. x \notin Holding'
    BY <1>2, <1>4
  <2>2. CountOf(sensorOf[x])'
    BY <1>2, <1>4, <2>1, HoldLess
  <2>3. QED
    BY <1>4, <2>2
<1>5. QED
  BY <1>3, <1>4

(* Nobody's hold, and no count, changes but of sources that are disturbed. *)
LEMMA NothingCounts ==
    ASSUME HoldFacts, HoldFacts', HoldInv, disturbed \subseteq disturbed',
           UNCHANGED sensorOf, Holding' = Holding,
           \A s \in Sensors \ disturbed' :
              /\ refs'[s] = refs[s] /\ (linked[s] => linked'[s]) /\ others'[s] = others[s]
    PROVE  HoldInv'
<1>1. SUFFICES ASSUME NEW s \in Sensors \ disturbed' PROVE CountOf(s)'
  BY DEF HoldInv
<1>2. \A id \in Ids : (id \in Holding' /\ sensorOf'[id] = s)
                          <=> (id \in Holding /\ sensorOf[id] = s)
  OBVIOUS
<1>3. refs'[s] = refs[s] /\ (linked[s] => linked'[s]) /\ others'[s] = others[s]
  BY <1>1
<1>4. QED
  BY <1>2, <1>3, HoldKept

-----------------------------------------------------------------------------
(* The counts follow the holders, action by action.                        *)

LEMMA HoldStart ==
    ASSUME TypeOK, StepInv, PlaceInv, HoldFacts, HoldFacts', HoldInv,
           NEW id \in Ids, NEW s0 \in Sensors, Start(id, s0)
    PROVE  HoldInv'
<1>1. Maint \in Threads /\ Ids \subseteq Threads /\ Maint \notin Ids
  BY RecorderAssumption DEF Threads, RecorderAssumption
<1>2. Step(id, "connect") /\ "connect" \in Steps
  BY DEF Start, Steps
<1>3. work'[id] = "connect" /\ \A u \in Threads \ {id} : work'[u] = work[u]
  BY <1>1, <1>2, StepType
<1>4. work[id] = "none" /\ id \notin Started
  BY DEF StepInv, Started, Start
<1>5. Busy' = Busy
  BY <1>1, <1>3, <1>4 DEF Busy, Launching
<1>6. /\ main.step = "idle" /\ main'.step = "insert"
      /\ UNCHANGED <<creators, maint, restart, refs, linked, others, disturbed>>
  BY DEF Start, registryVars, sourceVars
<1>7. Holding' = Holding
  BY <1>5, <1>6 DEF Holding, Listed
<1>8. \A o \in Ids \ {id} : sensorOf'[o] = sensorOf[o]
  BY DEF Start, TypeOK
<1>9. id \notin Holding
  BY <1>4 DEF HoldFacts
<1>10. SUFFICES ASSUME NEW s \in Sensors \ disturbed' PROVE CountOf(s)'
  BY DEF HoldInv
<1>11. \A o \in Ids : (o \in Holding' /\ sensorOf'[o] = s) <=> (o \in Holding /\ sensorOf[o] = s)
  BY <1>7, <1>8, <1>9
<1>12. QED
  BY <1>6, <1>11, HoldKept

(* Steps that neither hold nor count.                                      *)
LEMMA HoldOthers ==
    ASSUME TypeOK, StepInv, PlaceInv, HoldFacts, HoldFacts', HoldInv,
           \/ \E id \in Ids : Stop(id) \/ Collect(id) \/ TaskObserve(id)
           \/ InsertInfo \/ OpenOperation \/ StopFind
           \/ BlockBegin \/ BlockEnd \/ BlockLaunched
           \/ \E s \in Sensors : \/ StreamStart(s) \/ StreamStop(s) \/ ReceiverCrash(s)
                                 \/ Reconnect(s) \/ SourceFound(s)
    PROVE  HoldInv'
<1>1. Maint \in Threads /\ Ids \subseteq Threads /\ Maint \notin Ids
  BY RecorderAssumption DEF Threads, RecorderAssumption
<1>2. UNCHANGED <<creators, sensorOf, others, refs>> /\ disturbed \subseteq disturbed'
  BY DEF Stop, Collect, CollectStarted, CollectFailed, TaskObserve, InsertInfo, OpenOperation,
         StopFind, BlockBegin, BlockEnd, BlockLaunched, StreamStart, StreamStop, ReceiverCrash,
         Reconnect, SourceFound, registryVars, startVars, sourceVars
<1>3. \A s \in Sensors \ disturbed' : linked[s] => linked'[s]
  <2>1. CASE \E x \in Sensors : ReceiverCrash(x)
    <3>1. PICK x \in Sensors : ReceiverCrash(x)
      BY <2>1
    <3>2. linked' = [linked EXCEPT ![x] = FALSE] /\ x \in disturbed'
      BY <3>1 DEF ReceiverCrash
    <3>3. QED
      BY <3>2 DEF TypeOK
  <2>2. CASE \E x \in Sensors : Reconnect(x)
    <3>1. PICK x \in Sensors : linked' = [linked EXCEPT ![x] = TRUE]
      BY <2>2 DEF Reconnect
    <3>2. QED
      BY <3>1 DEF TypeOK
  <2>3. CASE linked' = linked
    BY <2>3
  <2>4. QED
    BY <2>1, <2>2, <2>3
       DEF Stop, Collect, CollectStarted, CollectFailed, TaskObserve, InsertInfo, OpenOperation,
           StopFind, BlockBegin, BlockEnd, BlockLaunched, StreamStart, StreamStop,
           SourceFound, sourceVars
<1>4. Busy' = Busy
  <2>1. CASE work' = work
    BY <2>1 DEF Busy, Launching
  <2>2. CASE \E id \in Ids : TaskObserve(id)
    <3>1. PICK id \in Ids : work[id] = "observe" /\ Step(id, "ok")
      BY <2>2 DEF TaskObserve
    <3>2. work'[id] = "ok" /\ \A u \in Threads \ {id} : work'[u] = work[u]
      BY <1>1, <3>1, StepType DEF Steps
    <3>3. QED
      BY <1>1, <3>1, <3>2 DEF Busy, Launching
  <2>3. CASE BlockLaunched
    <3>1. work[Maint] \in {"ok", "failed"} /\ Step(Maint, "none")
      BY <2>3 DEF BlockLaunched
    <3>2. work'[Maint] = "none" /\ \A u \in Threads \ {Maint} : work'[u] = work[u]
      BY <1>1, <3>1, StepType DEF Steps
    <3>3. QED
      BY <1>1, <3>1, <3>2 DEF Busy, Launching
  <2>4. QED
    BY <2>1, <2>2, <2>3
       DEF Stop, Collect, CollectStarted, CollectFailed, InsertInfo, OpenOperation,
           StopFind, BlockBegin, BlockEnd, StreamStart, StreamStop, ReceiverCrash,
           Reconnect, SourceFound
<1>5. main' = main \/ (main.step # "disconnect" /\ main'.step # "disconnect")
  <2>1. CASE InsertInfo \/ OpenOperation \/ StopFind
    <3>1. PICK to \in {"journal", "idle", "remove", "release"} : Goto(to)
      BY <2>1 DEF InsertInfo, OpenOperation, StopFind
    <3>2. main'.step = to
      BY <3>1, GotoType DEF MainSteps
    <3>3. QED
      BY <2>1, <3>2 DEF InsertInfo, OpenOperation, StopFind
  <2>2. CASE \E id \in Ids : Stop(id)
    BY <2>2 DEF Stop
  <2>3. QED
    BY <2>1, <2>2
       DEF Collect, CollectStarted, CollectFailed, TaskObserve, BlockBegin, BlockEnd,
           BlockLaunched, StreamStart, StreamStop, ReceiverCrash, Reconnect, SourceFound,
           threadVars
<1>6. \/ maint' = maint /\ restart' = restart
      \/ /\ maint # "release" /\ maint' # "release"
         /\ Maint \in Busy => restart' = restart
  <2>1. CASE BlockBegin \/ BlockEnd
    BY <2>1 DEF BlockBegin, BlockEnd
  <2>2. CASE BlockLaunched
    <3>1. maint = "restart" /\ maint' = maint /\ ~ Launching(Maint)
      BY <2>2 DEF BlockLaunched, threadVars, Launching
    <3>2. QED
      BY <3>1 DEF Busy
  <2>3. QED
    BY <2>1, <2>2
       DEF Stop, Collect, CollectStarted, CollectFailed, TaskObserve, InsertInfo, OpenOperation,
           StopFind, StreamStart, StreamStop, ReceiverCrash, Reconnect, SourceFound, threadVars
<1>7. Holding' = Holding
  BY <1>2, <1>4, <1>5, <1>6 DEF Holding, Listed
<1>8. QED
  BY <1>2, <1>3, <1>7, NothingCounts

(* A launch holds its source until it is listed; one that fails leaves it. *)
LEMMA HoldLaunch ==
    ASSUME TypeOK, StepInv, PlaceInv, HoldFacts, HoldFacts', HoldInv,
           NEW t \in Threads, Launch(t)
    PROVE  HoldInv'
<1>1. Maint \in Threads /\ Ids \subseteq Threads /\ Maint \notin Ids
  BY RecorderAssumption DEF Threads, RecorderAssumption
<1>2. /\ UNCHANGED <<sensorOf, main, maint, restart, refs, linked, others>>
      /\ disturbed \subseteq disturbed'
  BY DEF Launch, GetProvider, TakeSession, MasterPlaylist, TakeParams, Insert, Fails,
         startVars, threadVars, sourceVars
<1>3. work[t] # "none" /\ t \in Busy
  BY DEF Launch, GetProvider, TakeSession, MasterPlaylist, TakeParams, Insert, Busy, Launching
<1>4. /\ RecordOf(t) \in Started /\ RecordOf(t) \in Ids
      /\ t = Maint => RecordOf(t) = Head(restart) /\ maint = "restart"
      /\ t # Maint => RecordOf(t) = t
  BY <1>3, ThreadRecord
<1>5. \A u \in Threads \ {t} : u \in Busy' <=> u \in Busy
  <2>1. CASE work' = work
    BY <2>1 DEF Busy, Launching
  <2>2. CASE work' # work
    <3>1. PICK to \in Steps : Step(t, to)
      BY <2>2 DEF Launch, GetProvider, TakeSession, MasterPlaylist, TakeParams, Insert,
                  Fails, Steps
    <3>2. \A u \in Threads \ {t} : work'[u] = work[u]
      BY <3>1, StepType
    <3>3. QED
      BY <3>2 DEF Busy, Launching
  <2>3. QED
    BY <2>1, <2>2
<1>6. CASE Insert(t)
  <2>1. Listed' = Listed \cup {RecordOf(t)}
    BY <1>6, PlaceInsert
  <2>2. t \notin Busy'
    <3>1. PICK to \in {"ok", "observe"} : Step(t, to)
      BY <1>6 DEF Insert
    <3>2. work'[t] = to
      BY <3>1, StepType DEF Steps
    <3>3. QED
      BY <3>2 DEF Busy, Launching
  <2>3. \A id \in Ids : id \in Holding' <=> id \in Holding
    <3>1. CASE t = Maint
      BY <1>1, <1>2, <1>3, <1>4, <1>5, <2>1, <2>2, <3>1 DEF Holding
    <3>2. CASE t # Maint
      BY <1>1, <1>2, <1>3, <1>4, <1>5, <2>1, <2>2, <3>2 DEF Holding
    <3>3. QED
      BY <3>1, <3>2
  <2>4. Holding' = Holding
    BY <2>3 DEF Holding
  <2>5. QED
    BY <1>2, <2>4, NothingCounts
<1>7. CASE Fails(t) /\ ~ Insert(t)
  <2>1. Listed' = Listed /\ disturbed' = disturbed \cup {SourceOf(t)}
    BY <1>7 DEF Launch, GetProvider, TakeSession, MasterPlaylist, TakeParams, Fails,
                registryVars, Listed
  <2>2. SourceOf(t) = sensorOf[RecordOf(t)]
    BY DEF SourceOf
  <2>3. \A id \in Ids \ {RecordOf(t)} : id \in Holding' <=> id \in Holding
    <3>1. CASE t = Maint
      BY <1>1, <1>2, <1>4, <1>5, <2>1, <3>1 DEF Holding
    <3>2. CASE t # Maint
      BY <1>1, <1>2, <1>4, <1>5, <2>1, <3>2 DEF Holding
    <3>3. QED
      BY <3>1, <3>2
  <2>4. SUFFICES ASSUME NEW s \in Sensors \ disturbed' PROVE CountOf(s)'
    BY DEF HoldInv
  <2>5. \A id \in Ids : (id \in Holding' /\ sensorOf'[id] = s)
                          <=> (id \in Holding /\ sensorOf[id] = s)
    BY <1>2, <2>1, <2>2, <2>3
  <2>6. QED
    BY <1>2, <2>5, HoldKept
<1>8. CASE ~ Fails(t) /\ ~ Insert(t)
  <2>1. Listed' = Listed
    BY <1>8 DEF Launch, GetProvider, TakeSession, MasterPlaylist, TakeParams, registryVars, Listed
  <2>2. t \in Busy'
    <3>1. CASE work' = work
      BY <1>3, <3>1 DEF Busy, Launching
    <3>2. CASE work' # work
      <4>1. PICK to \in {"session", "master", "params", "insert"} : Step(t, to)
        BY <1>8, <3>2 DEF Launch, GetProvider, TakeSession, MasterPlaylist, TakeParams
      <4>2. work'[t] = to
        BY <4>1, StepType DEF Steps
      <4>3. QED
        BY <4>2 DEF Busy, Launching
    <3>3. QED
      BY <3>1, <3>2
  <2>3. Busy' = Busy
    BY <1>3, <1>5, <2>2 DEF Busy
  <2>4. Holding' = Holding
    BY <1>2, <2>1, <2>3 DEF Holding
  <2>5. QED
    BY <1>2, <2>4, NothingCounts
<1>9. QED
  BY <1>6, <1>7, <1>8

LEMMA HoldTask ==
    ASSUME TypeOK, StepInv, PlaceInv, HoldFacts, HoldFacts', HoldInv,
           NEW id \in Ids, TaskConnect(id)
    PROVE  HoldInv'
<1>1. Maint \in Threads /\ Ids \subseteq Threads /\ Maint \notin Ids
  BY RecorderAssumption DEF Threads, RecorderAssumption
<1>2. UNCHANGED <<creators, sensorOf, main, maint, restart, others>> /\ work[id] = "connect"
  BY DEF TaskConnect, registryVars, startVars, threadVars
<1>3. PICK connected \in BOOLEAN :
        /\ ConnectSource(sensorOf[id], connected)
        /\ Step(id, IF connected THEN "provider" ELSE "failed")
  BY DEF TaskConnect
<1>4. /\ work'[id] = (IF connected THEN "provider" ELSE "failed")
      /\ \A u \in Threads \ {id} : work'[u] = work[u]
  BY <1>1, <1>3, StepType DEF Steps
<1>5. sensorOf[id] \in Sensors
  BY <1>1, <1>2, ThreadRecord, StartedFacts
<1>6. id \notin Holding
  <2>1. id \notin Busy /\ id \notin Inserted
    BY <1>2 DEF Busy, Launching, Inserted
  <2>2. id \notin Listed \cup Waiting
    BY <2>1 DEF PlaceInv
  <2>3. maint = "release" \/ Maint \in Busy => restart # <<>>
    BY DEF TypeOK, Busy, Launching
  <2>4. main.step = "disconnect" => id # main.id
    BY <2>1 DEF PlaceInv
  <2>5. QED
    BY <2>1, <2>2, <2>3, <2>4, StartedFacts DEF Holding
<1>7. CASE connected
  <2>1. ConnectSource(sensorOf[id], TRUE) /\ work'[id] = "provider"
    BY <1>3, <1>4, <1>7
  <2>2. id \in Busy' /\ \A u \in Threads \ {id} : u \in Busy' <=> u \in Busy
    BY <1>1, <1>4, <2>1 DEF Busy, Launching
  <2>3. Holding' = Holding \cup {id}
    BY <1>1, <1>2, <2>2 DEF Holding, Listed
  <2>4. QED
    BY <1>2, <1>5, <1>6, <2>1, <2>3, ConnectCounts
<1>8. CASE ~ connected
  <2>1. UNCHANGED <<refs, linked, disturbed>>
    BY <1>3, <1>8 DEF ConnectSource
  <2>2. work'[id] = "failed"
    BY <1>4, <1>8
  <2>3. Busy' = Busy
    BY <1>1, <1>2, <1>4, <2>2 DEF Busy, Launching
  <2>4. Holding' = Holding
    BY <1>2, <2>3 DEF Holding, Listed
  <2>5. QED
    BY <1>2, <2>1, <2>4, NothingCounts
<1>9. QED
  BY <1>7, <1>8

LEMMA HoldConsumer ==
    ASSUME TypeOK, HoldFacts, HoldFacts', HoldInv, NEW x \in Sensors, OtherConsumer(x)
    PROVE  HoldInv'
<1>1. UNCHANGED <<creators, sensorOf, work, main, maint, restart>>
      /\ disturbed \subseteq disturbed'
  BY DEF OtherConsumer, registryVars, startVars, threadVars, ConnectSource
<1>2. Holding' = Holding
  BY <1>1 DEF Holding, Listed, Busy, Launching
<1>3. others' = [others EXCEPT ![x] = ~ @] /\ others \in [Sensors -> BOOLEAN]
  BY DEF OtherConsumer, TypeOK
<1>4. others'[x] = (~ others[x]) /\ \A s \in Sensors \ {x} : others'[s] = others[s]
  BY <1>3
<1>5. SUFFICES ASSUME NEW s \in Sensors \ disturbed' PROVE CountOf(s)'
  BY DEF HoldInv
<1>6. Disconnect(x) \/ ConnectSource(x, TRUE)
  BY DEF OtherConsumer
<1>7. CASE s # x
  <2>1. refs'[s] = refs[s] /\ linked'[s] = linked[s]
    BY <1>6, <1>7, OtherSource
  <2>2. QED
    BY <1>1, <1>2, <1>4, <1>7, <2>1, HoldKept
<1>8. CASE s = x
  <2>1. Holders(s)' = Holders(s) /\ IsFiniteSet(Holders(s))
    <3>1. Holders(s) = {id \in Holding : sensorOf[id] = s}
      BY DEF HoldFacts
    <3>2. Holders(s)' = {id \in Holding' : sensorOf'[id] = s}
      BY DEF HoldFacts
    <3>3. IsFiniteSet(Holders(s))
      BY <3>1, FS_Subset DEF HoldFacts
    <3>4. QED
      BY <1>1, <1>2, <3>1, <3>2, <3>3
  <2>2. Cardinality(Holders(s)) \in Nat
    BY <2>1, FS_CardinalityType
  <2>3. CountOf(s)
    BY <1>1 DEF HoldInv
  <2>4. refs \in [Sensors -> Nat] /\ linked \in [Sensors -> BOOLEAN]
    BY DEF TypeOK
  <2>5. CASE others[x]
    <3>1. Disconnect(x)
      BY <2>5 DEF OtherConsumer
    <3>2. refs[x] > 0 /\ linked[x] /\ refs[x] = Cardinality(Holders(s)) + 1
      BY <1>8, <2>2, <2>3, <2>5 DEF CountOf, Others
    <3>3. refs'[x] = refs[x] - 1 /\ (refs[x] # 1 => linked' = linked)
      BY <2>4, <3>1, <3>2 DEF Disconnect
    <3>4. ~ others'[x]
      BY <1>4, <2>5
    <3>5. QED
      BY <1>8, <2>1, <2>2, <2>3, <2>4, <3>2, <3>3, <3>4 DEF CountOf, Others
  <2>6. CASE ~ others[x]
    <3>1. ConnectSource(x, TRUE)
      BY <2>6 DEF OtherConsumer
    <3>2. refs' = [refs EXCEPT ![x] = @ + 1] /\ linked' = [linked EXCEPT ![x] = TRUE]
      BY <1>8, <2>3, <3>1 DEF ConnectSource, CountOf
    <3>3. refs'[x] = refs[x] + 1 /\ linked'[x]
      BY <2>4, <3>2
    <3>4. others'[x]
      BY <1>4, <2>6
    <3>5. QED
      BY <1>8, <2>1, <2>2, <2>3, <2>4, <2>6, <3>3, <3>4 DEF CountOf, Others
  <2>7. QED
    BY <2>5, <2>6
<1>9. QED
  BY <1>7, <1>8

LEMMA HoldStop ==
    ASSUME TypeOK, StepInv, PlaceInv, HoldFacts, HoldFacts', HoldInv,
           StopStarting \/ StopRemove \/ StopDisconnect
    PROVE  HoldInv'
<1>1. UNCHANGED <<sensorOf, work, maint, restart, others>>
  BY DEF StopStarting, StopRemove, StopDisconnect, startVars, sourceVars
<1>2. Busy' = Busy
  BY <1>1 DEF Busy, Launching
<1>3. main.id \in Started /\ main.id \in Ids /\ sensorOf[main.id] \in Sensors
  BY StartedFacts DEF StopStarting, StopRemove, StopDisconnect, StepInv
<1>4. PICK to \in {"idle", "disconnect"} : /\ Goto(to)
                                           /\ to = "disconnect" <=> StopRemove
  BY DEF StopStarting, StopRemove, StopDisconnect, Goto
<1>5. main'.step = to /\ main'.id = main.id
  BY <1>4, GotoType DEF MainSteps
<1>6. CASE StopStarting
  <2>1. /\ creators' = creators /\ main.step = "release" /\ Disconnect(sensorOf[main.id])
        /\ disturbed' = disturbed \cup {sensorOf[main.id]} /\ ~ StopRemove
    BY <1>6 DEF StopStarting, StopRemove, registryVars
  <2>2. Holding' = Holding
    BY <1>1, <1>2, <1>4, <1>5, <2>1 DEF Holding, Listed
  <2>3. \A s \in Sensors \ disturbed' :
          refs'[s] = refs[s] /\ (linked[s] => linked'[s]) /\ others'[s] = others[s]
    BY <1>1, <1>3, <2>1, OtherSource
  <2>4. disturbed \subseteq disturbed'
    BY <2>1
  <2>5. QED
    BY <1>1, <2>2, <2>3, <2>4, NothingCounts
<1>7. CASE StopRemove
  <2>1. /\ creators' = Without({main.id}) /\ main.step = "remove"
        /\ UNCHANGED <<refs, linked>>
        /\ disturbed' = IF main.id \in Listed THEN disturbed
                        ELSE disturbed \cup {sensorOf[main.id]}
    BY <1>7 DEF StopRemove, sourceVars
  <2>2. Listed' = Listed \ {main.id}
    BY <2>1, PlaceErase
  <2>3. main'.step = "disconnect"
    BY <1>4, <1>5, <1>7
  <2>4. SUFFICES ASSUME NEW s \in Sensors \ disturbed' PROVE CountOf(s)'
    BY DEF HoldInv
  <2>5. \A id \in Ids \ {main.id} : id \in Holding' <=> id \in Holding
    BY <1>1, <1>2, <1>5, <2>1, <2>2, <2>3 DEF Holding
  <2>6. main.id \in Listed => main.id \in Holding /\ main.id \in Holding'
    BY <1>3, <1>5, <2>3 DEF Holding
  <2>7. main.id \notin Listed => sensorOf[main.id] # s
    BY <2>1
  <2>8. \A id \in Ids : (id \in Holding' /\ sensorOf'[id] = s)
                          <=> (id \in Holding /\ sensorOf[id] = s)
    BY <1>1, <2>5, <2>6, <2>7
  <2>9. disturbed \subseteq disturbed'
    BY <2>1
  <2>10. QED
    BY <1>1, <2>1, <2>8, <2>9, HoldKept
<1>8. CASE StopDisconnect
  <2>1. /\ UNCHANGED <<creators, disturbed>> /\ main.step = "disconnect"
        /\ Disconnect(sensorOf[main.id]) /\ ~ StopRemove
    BY <1>8 DEF StopDisconnect, StopRemove, registryVars
  <2>2. main'.step = "idle"
    BY <1>4, <1>5, <2>1
  <2>3. main.id \in Holding
    BY <1>3, <2>1 DEF Holding
  <2>4. \A id \in Ids \ {main.id} : id \in Holding' <=> id \in Holding
    BY <1>1, <1>2, <2>1, <2>2 DEF Holding, Listed
  <2>5. ASSUME sensorOf[main.id] \notin disturbed PROVE main.id \notin Holding'
    <3>1. /\ main.id \notin Listed /\ main.id \in Inserted
          /\ main.id \in Waiting => main.id = Head(restart) /\ work[Maint] = "ok"
      BY <2>1, <2>5 DEF PlaceInv
    <3>2. main.id \notin Busy /\ (work[Maint] = "ok" => Maint \notin Busy)
      BY <3>1 DEF Inserted, Busy, Launching
    <3>3. maint = "release" => work[Maint] = "none"
      BY DEF StepInv
    <3>4. maint = "release" \/ Maint \in Busy => restart # <<>>
      BY DEF TypeOK, Busy, Launching
    <3>5. maint = "release" => main.id # restart[Len(restart)]
      BY <3>1, <3>3, <3>4, StartedFacts
    <3>6. Maint \in Busy => main.id # Head(restart)
      BY <3>1, <3>2, <3>4, StartedFacts
    <3>7. QED
      BY <1>1, <1>2, <2>1, <2>2, <3>1, <3>2, <3>5, <3>6 DEF Holding, Listed
  <2>6. QED
    BY <1>1, <1>3, <2>1, <2>3, <2>4, <2>5, DisconnectCounts
<1>9. QED
  BY <1>6, <1>7, <1>8

LEMMA HoldLost ==
    ASSUME TypeOK, StepInv, PlaceInv, HoldFacts, HoldFacts', HoldInv,
           NEW x \in Sensors, SourceLost(x)
    PROVE  HoldInv'
<1>1. /\ UNCHANGED <<sensorOf, work, main, maint, restart, refs, linked, others>>
      /\ creators' = Without(Recorded(x))
  BY DEF SourceLost, startVars, sourceVars
<1>2. Listed' = Listed \ Recorded(x)
  BY <1>1, PlaceErase
<1>3. PICK erased : /\ erased = {i \in 1 .. Len(creators) : sensorOf[creators[i]] = x}
                    /\ disturbed' = IF erased = {} THEN disturbed ELSE disturbed \cup {x}
  BY DEF SourceLost
<1>4. erased = {} => Recorded(x) = {}
  <2>1. DOMAIN creators = 1 .. Len(creators)
    BY DEF TypeOK
  <2>2. QED
    BY <1>3, <2>1 DEF Recorded, Listed
<1>5. \A id \in Recorded(x) : sensorOf[id] = x
  BY DEF Recorded
<1>6. Busy' = Busy
  BY <1>1 DEF Busy, Launching
<1>7. SUFFICES ASSUME NEW s \in Sensors \ disturbed' PROVE CountOf(s)'
  BY DEF HoldInv
<1>8. \A id \in Ids : sensorOf[id] = s => id \notin Recorded(x)
  BY <1>3, <1>4, <1>5
<1>9. \A id \in Ids : sensorOf[id] = s => (id \in Holding' <=> id \in Holding)
  BY <1>1, <1>2, <1>6, <1>8 DEF Holding
<1>10. disturbed \subseteq disturbed'
  BY <1>3
<1>11. QED
  BY <1>1, <1>9, <1>10, HoldKept

LEMMA HoldBlock ==
    ASSUME TypeOK, StepInv, PlaceInv, HoldFacts, HoldFacts', HoldInv,
           (\E id \in Ids : BlockReady(id)) \/ BlockDisconnect \/ BlockConnect
    PROVE  HoldInv'
<1>1. Maint \in Threads /\ Ids \subseteq Threads /\ Maint \notin Ids
  BY RecorderAssumption DEF Threads, RecorderAssumption
<1>2. UNCHANGED <<sensorOf, main, others>>
  BY DEF BlockReady, BlockDisconnect, BlockConnect, startVars, threadVars, sourceVars
<1>3. CASE \E id \in Ids : BlockReady(id)
  <2>1. PICK id \in Ids : BlockReady(id)
    BY <1>3
  <2>2. /\ Listed' = Listed \ {id} /\ restart'[Len(restart')] = id
        /\ work[Maint] = "none"
    BY <2>1, PlaceReady
  <2>3. /\ maint = "scan" /\ maint' = "release" /\ id \in Listed
        /\ UNCHANGED <<work, refs, linked, disturbed>>
    BY <2>1 DEF BlockReady, sourceVars
  <2>4. Busy' = Busy /\ Maint \notin Busy
    BY <2>2, <2>3 DEF Busy, Launching
  <2>5. \A o \in Ids : o \in Holding' <=> o \in Holding
    BY <1>2, <2>2, <2>3, <2>4 DEF Holding
  <2>6. Holding' = Holding
    BY <2>5 DEF Holding
  <2>7. QED
    BY <1>2, <2>3, <2>6, NothingCounts
<1>4. CASE BlockDisconnect
  <2>1. /\ maint = "release" /\ maint' = "scan"
        /\ UNCHANGED <<creators, work, restart, disturbed>>
        /\ Disconnect(sensorOf[restart[Len(restart)]])
    BY <1>4 DEF BlockDisconnect, registryVars
  <2>2. restart # <<>> /\ work[Maint] = "none"
    BY <2>1 DEF TypeOK, StepInv
  <2>3. PICK id \in Started : id = restart[Len(restart)] /\ id \in Waiting
    BY <2>2, StartedFacts
  <2>4. id \in Ids /\ sensorOf[id] \in Sensors
    BY StartedFacts
  <2>5. Busy' = Busy /\ Maint \notin Busy
    BY <2>1, <2>2 DEF Busy, Launching
  <2>6. id \in Holding
    BY <2>1, <2>3, <2>4 DEF Holding
  <2>7. \A o \in Ids \ {id} : o \in Holding' <=> o \in Holding
    BY <1>2, <2>1, <2>3, <2>5 DEF Holding, Listed
  <2>8. ASSUME sensorOf[id] \notin disturbed PROVE id \notin Holding'
    <3>1. id \notin Listed /\ id \in Inserted
      BY <2>2, <2>3 DEF PlaceInv
    <3>2. id \notin Busy
      BY <3>1 DEF Inserted, Busy, Launching
    <3>3. main.step = "disconnect" => id # main.id
      BY <2>2, <2>3, <2>8 DEF PlaceInv
    <3>4. QED
      BY <1>2, <2>1, <2>5, <3>1, <3>2, <3>3 DEF Holding, Listed
  <2>9. QED
    BY <1>2, <2>1, <2>3, <2>4, <2>6, <2>7, <2>8, DisconnectCounts
<1>5. CASE BlockConnect
  <2>1. /\ maint = "restart" /\ restart # <<>> /\ work[Maint] = "none" /\ maint' = maint
        /\ creators' = creators
    BY <1>5 DEF BlockConnect, registryVars, threadVars
  <2>2. PICK id \in Started : id = Head(restart) /\ id \in Waiting
    BY <2>1, StartedFacts
  <2>3. id \in Ids /\ sensorOf[id] \in Sensors /\ SourceOf(Maint) = sensorOf[id]
    BY <2>2, StartedFacts DEF SourceOf, RecordOf
  <2>4. PICK connected \in BOOLEAN :
          /\ ConnectSource(sensorOf[id], connected)
          /\ IF connected
             THEN Step(Maint, "provider") /\ UNCHANGED restart
             ELSE restart' = Tail(restart) /\ UNCHANGED work
    BY <1>5, <2>3 DEF BlockConnect
  <2>5. Maint \notin Busy
    BY <2>1 DEF Busy, Launching
  <2>6. CASE connected
    <3>1. Step(Maint, "provider") /\ restart' = restart /\ ConnectSource(sensorOf[id], TRUE)
      BY <2>4, <2>6
    <3>2. work'[Maint] = "provider" /\ \A u \in Threads \ {Maint} : work'[u] = work[u]
      BY <1>1, <3>1, StepType DEF Steps
    <3>3. Maint \in Busy' /\ \A u \in Threads \ {Maint} : u \in Busy' <=> u \in Busy
      BY <1>1, <3>2 DEF Busy, Launching
    <3>4. \A o \in Ids : o \in Holding' <=> o \in Holding \/ o = id
      BY <1>1, <1>2, <2>1, <2>2, <2>5, <3>1, <3>3 DEF Holding, Listed
    <3>5. Holding' = Holding \cup {id}
      BY <2>3, <3>4 DEF Holding
    <3>6. ASSUME sensorOf[id] \notin disturbed PROVE id \notin Holding
      <4>1. id \notin Listed /\ id \in Inserted
        BY <2>1, <2>2 DEF PlaceInv
      <4>2. id \notin Busy
        BY <4>1 DEF Inserted, Busy, Launching
      <4>3. main.step = "disconnect" => id # main.id
        BY <2>1, <2>2, <3>6 DEF PlaceInv
      <4>4. QED
        BY <2>1, <2>5, <4>1, <4>2, <4>3 DEF Holding
    <3>7. QED
      BY <1>2, <2>3, <3>1, <3>5, <3>6, ConnectCounts
  <2>7. CASE ~ connected
    <3>1. work' = work /\ UNCHANGED <<refs, linked, disturbed>>
      BY <2>4, <2>7 DEF ConnectSource
    <3>2. Busy' = Busy
      BY <3>1 DEF Busy, Launching
    <3>3. Holding' = Holding
      BY <1>2, <2>1, <2>5, <3>2 DEF Holding, Listed
    <3>4. QED
      BY <1>2, <3>1, <3>3, NothingCounts
  <2>8. QED
    BY <2>6, <2>7
<1>6. QED
  BY <1>3, <1>4, <1>5

LEMMA HoldStep ==
    ASSUME TypeOK, StepInv, PlaceInv, HoldFacts, HoldFacts', HoldInv, Next
    PROVE  HoldInv'
<1>1. Maint \in Threads /\ Ids \subseteq Threads
  BY DEF Threads
<1>2. QED
  BY <1>1, HoldStart, HoldOthers, HoldLaunch, HoldTask, HoldConsumer, HoldStop, HoldLost,
     HoldBlock
     DEF Next, Task, Command, Block

LEMMA TypeStep ==
    ASSUME TypeOK, StepInv, PlaceInv, Next
    PROVE  TypeOK' /\ StepInv'
<1>1. Maint \in Threads /\ Ids \subseteq Threads
  BY DEF Threads
<1>2. QED
  BY <1>1, TypeStart, TypeMain, TypeDisconnect, TypeStream, TypeLaunch, TypeTask, TypeCollect,
     TypeBlock
     DEF Next, Task, Command, Block

-----------------------------------------------------------------------------
(* The past: the registry, the journal, the observer.                      *)

(* Only an insertion ends a launch well.                                   *)
LEMMA InsertedStays ==
    ASSUME TypeOK, StepInv, Next, \A t \in Threads : ~ Insert(t)
    PROVE  Inserted' \subseteq Inserted
<1>1. Maint \in Threads /\ Ids \subseteq Threads /\ Maint \notin Ids
  BY RecorderAssumption DEF Threads, RecorderAssumption
<1>2. CASE work' = work
  BY <1>2 DEF Inserted
<1>3. CASE work' # work
  <2>1. \E t \in Threads, to \in Steps :
           /\ Step(t, to) /\ (to \in {"observe", "ok"} => t \in Inserted)
    <3>1. CASE \E t \in Threads : Launch(t)
      BY <1>3, <3>1 DEF Launch, GetProvider, TakeSession, MasterPlaylist, TakeParams, Fails,
                        Steps
    <3>2. CASE \E id \in Ids : TaskConnect(id)
      BY <1>1, <3>2 DEF TaskConnect, Steps
    <3>3. CASE \E id \in Ids : TaskObserve(id)
      BY <1>1, <3>3 DEF TaskObserve, Inserted, Steps
    <3>4. CASE BlockConnect \/ BlockLaunched
      BY <1>1, <1>3, <3>4 DEF BlockConnect, BlockLaunched, Steps
    <3>5. CASE \E id \in Ids, s \in Sensors : Start(id, s)
      BY <1>1, <3>5 DEF Start, Steps
    <3>6. QED
      BY <1>1, <1>3, <3>1, <3>2, <3>3, <3>4, <3>5
         DEF Next, Task, Command, Block, Stop, Collect, CollectStarted, CollectFailed,
             InsertInfo, OpenOperation, StopFind, StopStarting, StopRemove, StopDisconnect,
             BlockBegin, BlockReady, BlockDisconnect, BlockEnd, OtherConsumer, StreamStart,
             StreamStop, ReceiverCrash, Reconnect, SourceLost, SourceFound
  <2>2. PICK t \in Threads, to \in Steps :
           /\ Step(t, to) /\ (to \in {"observe", "ok"} => t \in Inserted)
    BY <2>1
  <2>3. work'[t] = to /\ \A u \in Threads \ {t} : work'[u] = work[u]
    BY <2>2, StepType
  <2>4. QED
    BY <1>1, <2>2, <2>3 DEF Inserted
<1>4. QED
  BY <1>2, <1>3

(* Who changes the registry, the commands asked and the blocks.            *)
LEMMA CalmFrame ==
    ASSUME TypeOK, StepInv, PlaceInv, Next
    PROVE  /\ stopAsked \subseteq stopAsked' /\ blocks' >= blocks
           /\ restart' # <<>> => restart # <<>> \/ blocks' > 0
           /\ main'.step \in {"find", "release", "remove", "disconnect"} =>
                 \/ main.step \in {"find", "release", "remove", "disconnect"}
                 \/ stopAsked' # {}
           /\ \/ UNCHANGED <<creators, byId, lost>>
              \/ \E t \in Threads : Insert(t)
              \/ StopRemove \/ (\E id \in Ids : BlockReady(id))
              \/ \E s \in Sensors : SourceLost(s)
<1>1. Maint \in Threads /\ Ids \subseteq Threads
  BY DEF Threads
<1>2. blocks \in Nat
  BY RecorderAssumption DEF TypeOK, RecorderAssumption
<1>3. CASE \E id \in Ids : Stop(id)
  BY <1>2, <1>3 DEF Stop, registryVars, countVars
<1>4. CASE \E id \in Ids : BlockReady(id)
  <2>1. UNCHANGED <<stopAsked, main>> /\ blocks' = blocks + 1
    BY <1>4 DEF BlockReady, clientVars
  <2>2. QED
    BY <1>2, <1>4, <2>1
<1>5. CASE InsertInfo \/ OpenOperation
  <2>1. main'.step \in {"journal", "idle"}
    BY <1>5, GotoType DEF InsertInfo, OpenOperation, MainSteps
  <2>2. QED
    BY <1>2, <1>5, <2>1 DEF InsertInfo, OpenOperation, registryVars, clientVars, countVars
<1>6. CASE StopFind \/ StopStarting \/ StopRemove \/ StopDisconnect
  <2>1. /\ main.step \in {"find", "release", "remove", "disconnect"}
        /\ UNCHANGED <<stopAsked, blocks, restart>>
        /\ UNCHANGED <<creators, byId, lost>> \/ StopRemove
    BY <1>6 DEF StopFind, StopStarting, StopRemove, StopDisconnect, registryVars,
                clientVars, countVars
  <2>2. QED
    BY <1>2, <2>1
<1>7. CASE BlockConnect \/ BlockLaunched
  <2>1. restart # <<>>
    BY <1>7 DEF BlockConnect, BlockLaunched, TypeOK
  <2>2. QED
    BY <1>2, <1>7, <2>1 DEF BlockConnect, BlockLaunched, registryVars, threadVars, clientVars,
                            countVars
<1>8. CASE \E id \in Ids, s \in Sensors : Start(id, s)
  BY <1>2, <1>8 DEF Start, registryVars, clientVars, countVars
<1>9. CASE \E t \in Threads : Launch(t)
  BY <1>2, <1>9 DEF Launch, GetProvider, TakeSession, MasterPlaylist, TakeParams, Insert,
                    registryVars, threadVars, clientVars, countVars
<1>10. CASE \E id \in Ids : TaskConnect(id) \/ TaskObserve(id) \/ Collect(id)
  BY <1>2, <1>10 DEF TaskConnect, TaskObserve, Collect, CollectStarted, CollectFailed,
                     registryVars, threadVars, clientVars, countVars
<1>11. CASE BlockBegin \/ BlockEnd \/ BlockDisconnect
  BY <1>2, <1>11 DEF BlockBegin, BlockEnd, BlockDisconnect, registryVars, clientVars, countVars
<1>12. CASE \E s \in Sensors : \/ OtherConsumer(s) \/ StreamStart(s) \/ StreamStop(s)
                               \/ ReceiverCrash(s) \/ Reconnect(s) \/ SourceLost(s)
                               \/ SourceFound(s)
  <2>1. UNCHANGED <<stopAsked, main, blocks, restart>>
    BY <1>12 DEF OtherConsumer, StreamStart, StreamStop, ReceiverCrash, Reconnect,
                 SourceLost, SourceFound, threadVars, clientVars, countVars
  <2>2. UNCHANGED <<creators, byId, lost>> \/ \E s \in Sensors : SourceLost(s)
    <3>1. CASE \E s \in Sensors : SourceLost(s)
      BY <3>1
    <3>2. CASE ~ \E s \in Sensors : SourceLost(s)
      BY <1>12, <3>2 DEF OtherConsumer, StreamStart, StreamStop, ReceiverCrash, Reconnect,
                         SourceFound, registryVars
    <3>3. QED
      BY <3>1, <3>2
  <2>3. QED
    BY <1>2, <2>1, <2>2
<1>13. \/ \E id \in Ids, s \in Sensors : Start(id, s)
       \/ \E id \in Ids : Stop(id) \/ TaskConnect(id) \/ TaskObserve(id) \/ Collect(id)
                                \/ BlockReady(id)
       \/ \E t \in Threads : Launch(t)
       \/ InsertInfo \/ OpenOperation \/ StopFind \/ StopStarting \/ StopRemove
       \/ StopDisconnect
       \/ BlockBegin \/ BlockEnd \/ BlockDisconnect \/ BlockConnect \/ BlockLaunched
       \/ \E s \in Sensors : \/ OtherConsumer(s) \/ StreamStart(s) \/ StreamStop(s)
                              \/ ReceiverCrash(s) \/ Reconnect(s) \/ SourceLost(s)
                              \/ SourceFound(s)
  BY <1>1 DEF Next, Task, Command, Block
<1>14. QED
  BY <1>3, <1>4, <1>5, <1>6, <1>7, <1>8, <1>9, <1>10, <1>11, <1>12, <1>13

LEMMA CalmStep ==
    ASSUME TypeOK, StepInv, PlaceInv, CalmInv, Next
    PROVE  CalmInv'
<1>1. /\ stopAsked \subseteq stopAsked' /\ blocks' >= blocks
      /\ restart' # <<>> => restart # <<>> \/ blocks' > 0
      /\ main'.step \in {"find", "release", "remove", "disconnect"} =>
            \/ main.step \in {"find", "release", "remove", "disconnect"}
            \/ stopAsked' # {}
  BY CalmFrame
<1>2. blocks \in Nat /\ blocks' \in Nat
  BY TypeStep, RecorderAssumption DEF TypeOK, RecorderAssumption
<1>3. main'.step \in {"find", "release", "remove", "disconnect"} => stopAsked' # {}
  BY <1>1 DEF CalmInv
<1>4. restart' # <<>> => blocks' > 0
  BY <1>1, <1>2 DEF CalmInv
<1>5. stopAsked' = {} /\ blocks' = 0 => stopAsked = {} /\ blocks = 0
  BY <1>1, <1>2
<1>6. CASE UNCHANGED <<creators, byId, lost>> /\ \A t \in Threads : ~ Insert(t)
  <2>1. Listed' = Listed /\ Inserted' \subseteq Inserted
    BY <1>6, InsertedStays DEF Listed
  <2>2. QED
    BY <1>3, <1>4, <1>5, <1>6, <2>1 DEF CalmInv
<1>7. CASE \E t \in Threads : Insert(t)
  <2>1. PICK t \in Threads : Insert(t)
    BY <1>7
  <2>2. /\ Listed' = Listed \cup {RecordOf(t)} /\ byId' = byId \cup {RecordOf(t)}
        /\ lost' = lost
    BY <2>1, PlaceInsert DEF Insert
  <2>3. Inserted' \subseteq Inserted \cup {RecordOf(t)}
    <3>1. PICK to \in Steps : Step(t, to)
      BY <2>1 DEF Insert, Steps
    <3>2. \A u \in Threads \ {t} : work'[u] = work[u]
      BY <3>1, StepType
    <3>3. t # Maint => RecordOf(t) = t
      BY DEF RecordOf
    <3>4. Ids \subseteq Threads /\ Maint \notin Ids
      BY RecorderAssumption DEF Threads, RecorderAssumption
    <3>5. QED
      BY <3>2, <3>3, <3>4 DEF Inserted
  <2>4. QED
    BY <1>3, <1>4, <1>5, <2>2, <2>3 DEF CalmInv
<1>8. CASE StopRemove
  <2>1. /\ creators' = Without({main.id}) /\ byId' = byId \ {main.id} /\ lost' = lost
        /\ stopAsked' = stopAsked /\ main.step = "remove"
    BY <1>8 DEF StopRemove, clientVars
  <2>2. Listed' = Listed \ {main.id}
    BY <2>1, PlaceErase
  <2>3. stopAsked' # {}
    BY <2>1 DEF CalmInv
  <2>4. QED
    BY <1>3, <1>4, <2>1, <2>2, <2>3 DEF CalmInv
<1>9. CASE \E id \in Ids : BlockReady(id)
  <2>1. PICK id \in Ids : BlockReady(id)
    BY <1>9
  <2>2. Listed' = Listed \ {id} /\ byId' = byId \ {id} /\ lost' = lost /\ blocks' = blocks + 1
    BY <2>1, PlaceReady DEF BlockReady
  <2>3. QED
    BY <1>2, <1>3, <1>4, <2>2 DEF CalmInv
<1>10. CASE \E s \in Sensors : SourceLost(s)
  <2>1. PICK s \in Sensors : SourceLost(s)
    BY <1>10
  <2>2. creators' = Without(Recorded(s)) /\ work' = work
    BY <2>1 DEF SourceLost
  <2>3. Listed' = Listed \ Recorded(s) /\ Inserted' = Inserted
    BY <2>2, PlaceErase DEF Inserted
  <2>4. PICK erased : /\ erased = {i \in 1 .. Len(creators) : sensorOf[creators[i]] = s}
                      /\ byId' = byId \ {creators[IF i = Len(creators) THEN i ELSE i + 1] :
                                             i \in erased}
                      /\ lost' = IF erased = {} THEN lost ELSE lost \cup {s}
    BY <2>1 DEF SourceLost
  <2>5. CASE erased = {}
    <3>1. byId' = byId /\ lost' = lost
      BY <2>4, <2>5
    <3>2. DOMAIN creators = 1 .. Len(creators)
      BY DEF TypeOK
    <3>3. Recorded(s) = {}
      BY <2>4, <2>5, <3>2 DEF Recorded, Listed
    <3>4. QED
      BY <1>3, <1>4, <1>5, <2>3, <3>1, <3>3 DEF CalmInv
  <2>6. CASE erased # {}
    <3>1. lost' # {}
      BY <2>4, <2>6
    <3>2. QED
      BY <1>3, <1>4, <3>1 DEF CalmInv
  <2>7. QED
    BY <2>5, <2>6
<1>11. QED
  BY <1>6, <1>7, <1>8, <1>9, <1>10, CalmFrame

LEMMA JournalStep ==
    ASSUME TypeOK, StepInv, PlaceInv, JournalInv, Next
    PROVE  JournalInv'
<1>1. Maint \in Threads /\ Ids \subseteq Threads
  BY DEF Threads
<1>2. ASSUME NEW id \in Ids, NEW s \in Sensors, Start(id, s) PROVE JournalInv'
  <2>1. /\ main.step = "idle" /\ main'.step = "insert" /\ main'.id = id
        /\ UNCHANGED <<wal, stopAsked>>
    BY <1>2 DEF Start, clientVars
  <2>2. sensorOf' = [sensorOf EXCEPT ![id] = s]
    BY <1>2 DEF Start
  <2>3. Started' \subseteq Started \cup {id}
    BY <2>2 DEF Started, TypeOK
  <2>4. QED
    BY <2>1, <2>3 DEF JournalInv
<1>3. ASSUME NEW id \in Ids, Stop(id) PROVE JournalInv'
  BY <1>3 DEF Stop, JournalInv, Started, startVars
<1>4. CASE InsertInfo
  <2>1. main'.step = "journal" /\ main'.id = main.id
    BY <1>4, GotoType DEF InsertInfo, MainSteps
  <2>2. QED
    BY <1>4, <2>1 DEF InsertInfo, JournalInv, Started, clientVars
<1>5. CASE OpenOperation
  BY <1>5 DEF OpenOperation, JournalInv, Started, startVars
<1>6. CASE StopFind \/ StopStarting \/ StopRemove \/ StopDisconnect
  <2>1. main.step \notin {"insert", "journal"} /\ UNCHANGED <<sensorOf, wal, stopAsked>>
    BY <1>6 DEF StopFind, StopStarting, StopRemove, StopDisconnect, startVars, clientVars
  <2>2. QED
    BY <2>1 DEF JournalInv, Started
<1>7. CASE UNCHANGED <<sensorOf, wal, stopAsked, main>>
  BY <1>7 DEF JournalInv, Started
<1>8. ASSUME NEW t \in Threads, Launch(t) PROVE JournalInv'
  BY <1>7, <1>8 DEF Launch, GetProvider, TakeSession, MasterPlaylist, TakeParams, Insert,
                    startVars, threadVars, clientVars
<1>9. CASE BlockConnect \/ BlockLaunched \/ BlockBegin \/ BlockEnd \/ BlockDisconnect
           \/ \E id \in Ids : \/ TaskConnect(id) \/ TaskObserve(id) \/ Collect(id)
                              \/ BlockReady(id)
  BY <1>7, <1>9 DEF BlockConnect, BlockLaunched, BlockBegin, BlockEnd, BlockDisconnect,
                    TaskConnect, TaskObserve, Collect, CollectStarted, CollectFailed,
                    BlockReady, startVars, threadVars, clientVars
<1>10. CASE \E s \in Sensors : \/ OtherConsumer(s) \/ StreamStart(s) \/ StreamStop(s)
                               \/ ReceiverCrash(s) \/ Reconnect(s) \/ SourceLost(s)
                               \/ SourceFound(s)
  BY <1>7, <1>10 DEF OtherConsumer, StreamStart, StreamStop, ReceiverCrash, Reconnect,
                     SourceLost, SourceFound, startVars, threadVars, clientVars
<1>11. QED
  BY <1>1, <1>2, <1>3, <1>4, <1>5, <1>6, <1>8, <1>9, <1>10 DEF Next, Task, Command, Block

(* The source of who holds it is there.                                    *)
HeldCounted ==
    \A id \in Holding : sensorOf[id] \notin disturbed =>
        refs[sensorOf[id]] > 0 /\ linked[sensorOf[id]]

LEMMA HeldCountedHolds == TypeOK /\ StepInv /\ PlaceInv /\ HoldInv => HeldCounted
<1>. SUFFICES ASSUME TypeOK, StepInv, PlaceInv, HoldInv, NEW id \in Holding,
                     sensorOf[id] \notin disturbed
              PROVE  refs[sensorOf[id]] > 0 /\ linked[sensorOf[id]]
  BY DEF HeldCounted
<1>1. HoldFacts
  BY HoldFactsHold
<1>2. PICK s \in Sensors \ disturbed : s = sensorOf[id]
  BY <1>1, StartedFacts DEF HoldFacts
<1>3. Holders(s) = {o \in Holding : sensorOf[o] = s} /\ IsFiniteSet(Holding)
  BY <1>1 DEF HoldFacts
<1>4. id \in Holders(s) /\ IsFiniteSet(Holders(s))
  BY <1>2, <1>3, FS_Subset
<1>5. Cardinality(Holders(s)) \in Nat /\ Cardinality(Holders(s)) # 0
  BY <1>4, FS_EmptySet, FS_CardinalityType
<1>6. CountOf(s)
  BY DEF HoldInv
<1>7. QED
  BY <1>2, <1>5, <1>6 DEF CountOf, Others

LEMMA HeldCountedAfter == TypeOK' /\ StepInv' /\ PlaceInv' /\ HoldInv' => HeldCounted'
  BY HeldCountedHolds, PTL

(* An observer goes with the source only.                                  *)
LEMMA WatchedStays ==
    ASSUME TypeOK, StepInv, PlaceInv, Next, NEW s \in Sensors, watched[s], refs'[s] > 0
    PROVE  watched'[s]
<1>1. watched \in [Sensors -> BOOLEAN] /\ refs \in [Sensors -> Nat]
  BY DEF TypeOK
<1>2. ASSUME NEW x \in Sensors, Disconnect(x) PROVE watched'[s]
  <2>1. CASE s # x
    BY <1>2, <2>1, OtherSource
  <2>2. CASE s = x
    <3>1. refs[s] # 1 \/ ~ linked[s]
      BY <1>1, <1>2, <2>2 DEF Disconnect
    <3>2. watched' = watched
      BY <1>2, <2>2, <3>1 DEF Disconnect
    <3>3. QED
      BY <3>2
  <2>3. QED
    BY <2>1, <2>2
<1>3. CASE watched' = watched
  BY <1>3
<1>4. CASE StopStarting \/ StopDisconnect
  <2>1. Disconnect(sensorOf[main.id]) /\ sensorOf[main.id] \in Sensors
    BY <1>4, StartedFacts DEF StopStarting, StopDisconnect, StepInv
  <2>2. QED
    BY <1>2, <2>1
<1>5. CASE BlockDisconnect
  <2>1. restart # <<>> /\ Disconnect(sensorOf[restart[Len(restart)]])
    BY <1>5 DEF BlockDisconnect, TypeOK
  <2>2. QED
    BY <1>2, <2>1, StartedFacts
<1>6. CASE \E x \in Sensors : OtherConsumer(x)
  <2>1. PICK x \in Sensors : OtherConsumer(x)
    BY <1>6
  <2>2. Disconnect(x) \/ watched' = watched
    BY <2>1 DEF OtherConsumer, ConnectSource
  <2>3. QED
    BY <1>2, <1>3, <2>2
<1>7. CASE \E id \in Ids : TaskObserve(id)
  <2>1. PICK id \in Ids :
          watched' = [watched EXCEPT ![sensorOf[id]] = @ \/ refs[sensorOf[id]] > 0]
    BY <1>7 DEF TaskObserve
  <2>2. QED
    BY <1>1, <2>1
<1>8. CASE \/ \E id \in Ids : \/ \E x \in Sensors : Start(id, x)
                              \/ Stop(id) \/ TaskConnect(id) \/ Collect(id) \/ BlockReady(id)
           \/ \E t \in Threads : Launch(t)
           \/ InsertInfo \/ OpenOperation \/ StopFind \/ StopRemove
           \/ BlockBegin \/ BlockEnd \/ BlockConnect \/ BlockLaunched
           \/ \E x \in Sensors : \/ StreamStart(x) \/ StreamStop(x) \/ ReceiverCrash(x)
                                 \/ Reconnect(x) \/ SourceLost(x) \/ SourceFound(x)
  <2>1. CASE \/ \E id \in Ids : \/ \E x \in Sensors : Start(id, x)
                                \/ Stop(id) \/ TaskConnect(id) \/ Collect(id) \/ BlockReady(id)
             \/ InsertInfo \/ OpenOperation \/ StopFind \/ StopRemove
             \/ BlockBegin \/ BlockEnd \/ BlockConnect \/ BlockLaunched
    <3>1. watched' = watched
      BY <2>1 DEF Start, Stop, TaskConnect, ConnectSource, Collect, CollectStarted,
                  CollectFailed, BlockReady, InsertInfo, OpenOperation, StopFind, StopRemove,
                  BlockBegin, BlockEnd, BlockConnect, BlockLaunched, sourceVars
    <3>2. QED
      BY <1>3, <3>1
  <2>2. CASE \E t \in Threads : Launch(t)
    <3>1. watched' = watched
      BY <2>2 DEF Launch, GetProvider, TakeSession, MasterPlaylist, TakeParams, Insert, sourceVars
    <3>2. QED
      BY <1>3, <3>1
  <2>3. CASE \E x \in Sensors : \/ StreamStart(x) \/ StreamStop(x) \/ ReceiverCrash(x)
                                \/ Reconnect(x) \/ SourceLost(x) \/ SourceFound(x)
    <3>1. watched' = watched
      BY <2>3 DEF StreamStart, StreamStop, ReceiverCrash, Reconnect, SourceLost, SourceFound,
                  sourceVars
    <3>2. QED
      BY <1>3, <3>1
  <2>4. QED
    BY <1>8, <2>1, <2>2, <2>3
<1>9. Maint \in Threads /\ Ids \subseteq Threads
  BY DEF Threads
<1>10. QED
  BY <1>4, <1>5, <1>6, <1>7, <1>8, <1>9 DEF Next, Task, Command, Block

(* Who is done now was before, or has just begun to observe.               *)
LEMMA OkBefore ==
    ASSUME TypeOK, StepInv, PlaceInv, Next, NEW id \in Ids, work'[id] = "ok"
    PROVE  (work[id] = "ok" /\ sensorOf'[id] = sensorOf[id]) \/ TaskObserve(id)
<1>1. Maint \in Threads /\ Ids \subseteq Threads /\ Maint \notin Ids
  BY RecorderAssumption DEF Threads, RecorderAssumption
<1>2. CASE work' = work /\ sensorOf' = sensorOf
  BY <1>2
<1>3. ASSUME NEW t \in Threads, NEW to \in Steps, Step(t, to), to # "ok" \/ t = Maint,
             sensorOf' = sensorOf
      PROVE  work[id] = "ok" /\ sensorOf'[id] = sensorOf[id]
  <2>1. work'[t] = to /\ \A u \in Threads \ {t} : work'[u] = work[u]
    BY <1>3, StepType
  <2>2. QED
    BY <1>1, <1>3, <2>1
<1>4. CASE \E o \in Ids, s \in Sensors : Start(o, s)
  <2>1. PICK o \in Ids, s \in Sensors : Start(o, s)
    BY <1>4
  <2>2. Step(o, "connect") /\ sensorOf' = [sensorOf EXCEPT ![o] = s]
    BY <2>1 DEF Start
  <2>3. work'[o] = "connect" /\ \A u \in Threads \ {o} : work'[u] = work[u]
    BY <1>1, <2>2, StepType DEF Steps
  <2>4. QED
    BY <1>1, <2>2, <2>3 DEF TypeOK
<1>5. CASE \E o \in Ids : TaskObserve(o)
  <2>1. PICK o \in Ids : TaskObserve(o)
    BY <1>5
  <2>2. Step(o, "ok") /\ sensorOf' = sensorOf
    BY <2>1 DEF TaskObserve, startVars
  <2>3. \A u \in Threads \ {o} : work'[u] = work[u]
    BY <1>1, <2>2, StepType DEF Steps
  <2>4. QED
    BY <1>1, <2>1, <2>2, <2>3
<1>6. CASE \/ \E t \in Threads : Launch(t)
           \/ \E o \in Ids : TaskConnect(o)
           \/ BlockConnect \/ BlockLaunched
  <2>1. sensorOf' = sensorOf
    BY <1>6 DEF Launch, GetProvider, TakeSession, MasterPlaylist, TakeParams, Insert,
                TaskConnect, BlockConnect, BlockLaunched, startVars
  <2>2. \/ work' = work
        \/ \E t \in Threads, to \in Steps : Step(t, to) /\ (to # "ok" \/ t = Maint)
    <3>1. CASE \E t \in Threads : Launch(t)
      BY <3>1 DEF Launch, GetProvider, TakeSession, MasterPlaylist, TakeParams, Insert, Fails,
                  Steps
    <3>2. CASE \/ \E o \in Ids : TaskConnect(o)
               \/ BlockConnect \/ BlockLaunched
      BY <1>1, <3>2 DEF TaskConnect, BlockConnect, BlockLaunched, Steps
    <3>3. QED
      BY <1>6, <3>1, <3>2
  <2>3. QED
    BY <1>2, <1>3, <2>1, <2>2
<1>7. CASE \/ \E o \in Ids : Stop(o) \/ Collect(o) \/ BlockReady(o)
           \/ Command \/ BlockBegin \/ BlockEnd \/ BlockDisconnect
           \/ \E s \in Sensors : \/ OtherConsumer(s) \/ StreamStart(s) \/ StreamStop(s)
                                 \/ ReceiverCrash(s) \/ Reconnect(s) \/ SourceLost(s)
                                 \/ SourceFound(s)
  <2>1. work' = work /\ sensorOf' = sensorOf
    BY <1>7 DEF Stop, Collect, CollectStarted, CollectFailed, BlockReady, Command,
                InsertInfo, OpenOperation, StopFind, StopStarting, StopRemove, StopDisconnect,
                BlockBegin, BlockEnd, BlockDisconnect, OtherConsumer, StreamStart, StreamStop,
                ReceiverCrash, Reconnect, SourceLost, SourceFound, startVars
  <2>2. QED
    BY <1>2, <2>1
<1>8. QED
  BY <1>1, <1>4, <1>5, <1>6, <1>7 DEF Next, Task, Block

LEMMA WatchStep ==
    ASSUME TypeOK, StepInv, PlaceInv, CalmInv, TypeOK', HeldCounted', WatchedUntilBlock,
           disturbed \subseteq disturbed', Next
    PROVE  WatchedUntilBlock'
<1>1. SUFFICES ASSUME NEW id \in Listed', blocks' = 0, work'[id] = "ok",
                      sensorOf'[id] \notin disturbed'
               PROVE  watched'[sensorOf'[id]]
  BY DEF WatchedUntilBlock
<1>2. id \in Ids
  BY DEF TypeOK, Listed
<1>3. blocks = 0
  <2>1. blocks' >= blocks
    BY CalmFrame
  <2>2. blocks \in Nat
    BY RecorderAssumption DEF TypeOK, RecorderAssumption
  <2>3. QED
    BY <1>1, <2>1, <2>2
<1>4. id \in Holding'
  BY <1>2 DEF Holding
<1>5. refs'[sensorOf'[id]] > 0
  BY <1>1, <1>4 DEF HeldCounted
<1>6. CASE TaskObserve(id)
  <2>1. /\ watched' = [watched EXCEPT ![sensorOf[id]] = @ \/ refs[sensorOf[id]] > 0]
        /\ refs' = refs /\ sensorOf' = sensorOf /\ work[id] = "observe"
    BY <1>6 DEF TaskObserve, startVars
  <2>2. id \in Started
    BY <1>2, <2>1 DEF StepInv
  <2>3. sensorOf[id] \in Sensors
    BY <2>2, StartedFacts
  <2>4. QED
    BY <1>5, <2>1, <2>3 DEF TypeOK
<1>7. CASE ~ TaskObserve(id)
  <2>1. work[id] = "ok" /\ sensorOf'[id] = sensorOf[id]
    BY <1>1, <1>2, <1>7, OkBefore
  <2>2. id \in Listed
    <3>1. CASE \E t \in Threads : Insert(t)
      <4>1. PICK t \in Threads : Insert(t)
        BY <3>1
      <4>2. Listed' = Listed \cup {RecordOf(t)}
        BY <4>1, PlaceInsert
      <4>3. work[t] = "insert"
        BY <4>1 DEF Insert
      <4>4. restart = <<>>
        BY <1>3 DEF CalmInv
      <4>5. t # Maint
        BY <4>3, <4>4 DEF TypeOK
      <4>6. RecordOf(t) = t /\ id # t
        BY <2>1, <4>3, <4>5 DEF RecordOf
      <4>7. QED
        BY <4>2, <4>6
    <3>2. CASE StopRemove
      <4>1. creators' = Without({main.id})
        BY <3>2 DEF StopRemove
      <4>2. QED
        BY <4>1, PlaceErase
    <3>3. CASE \E o \in Ids : BlockReady(o)
      BY <3>3, PlaceReady
    <3>4. CASE \E s \in Sensors : SourceLost(s)
      <4>1. PICK s \in Sensors : creators' = Without(Recorded(s))
        BY <3>4 DEF SourceLost
      <4>2. QED
        BY <4>1, PlaceErase
    <3>5. CASE creators' = creators
      BY <3>5 DEF Listed
    <3>6. QED
      BY <3>1, <3>2, <3>3, <3>4, <3>5, CalmFrame
  <2>3. sensorOf[id] \notin disturbed
    BY <1>1, <2>1
  <2>4. watched[sensorOf[id]]
    BY <1>3, <2>1, <2>2, <2>3 DEF WatchedUntilBlock
  <2>5. sensorOf[id] \in Sensors
    BY <2>2, StartedFacts
  <2>6. QED
    BY <1>5, <2>1, <2>4, <2>5, WatchedStays
<1>8. QED
  BY <1>6, <1>7

LEMMA QuietStep ==
    ASSUME TypeOK, StepInv, PlaceInv, CalmInv, HeldCounted, Next
    PROVE  QuietServerStaysUp'
<1>1. down = "no"
  BY DEF Next
<1>2. Maint \in Threads /\ Ids \subseteq Threads
  BY DEF Threads
<1>3. ASSUME NEW t \in Threads, GetProvider(t) PROVE QuietServerStaysUp'
  <2>1. CASE linked[SourceOf(t)]
    BY <1>1, <1>3, <2>1 DEF GetProvider, QuietServerStaysUp
  <2>2. CASE ~ linked[SourceOf(t)]
    <3>1. down' = "provider" /\ disturbed' = disturbed /\ work[t] = "provider"
      BY <1>3, <2>2 DEF GetProvider
    <3>2. t \in Busy
      BY <3>1 DEF Busy, Launching
    <3>3. /\ RecordOf(t) \in Ids
          /\ t = Maint => RecordOf(t) = Head(restart)
          /\ t # Maint => RecordOf(t) = t
      BY <3>1, ThreadRecord
    <3>4. RecordOf(t) \in Holding /\ SourceOf(t) = sensorOf[RecordOf(t)]
      BY <3>2, <3>3 DEF Holding, SourceOf
    <3>5. disturbed # {}
      BY <2>2, <3>4 DEF HeldCounted
    <3>6. QED
      BY <3>1, <3>5 DEF QuietServerStaysUp
  <2>3. QED
    BY <2>1, <2>2
<1>4. ASSUME NEW id \in Ids, CollectStarted(id) PROVE QuietServerStaysUp'
  <2>1. CASE id \in byId
    BY <1>1, <1>4, <2>1 DEF CollectStarted, QuietServerStaysUp
  <2>2. CASE id \notin byId
    <3>1. down' = "archiver" /\ work[id] = "ok" /\ UNCHANGED <<lost, stopAsked, blocks>>
      BY <1>4, <2>2 DEF CollectStarted, registryVars, clientVars, countVars
    <3>2. id \in Inserted
      BY <3>1 DEF Inserted
    <3>3. lost # {} \/ stopAsked # {} \/ blocks # 0
      BY <2>2, <3>2 DEF CalmInv
    <3>4. blocks \in Nat
      BY RecorderAssumption DEF TypeOK, RecorderAssumption
    <3>5. QED
      BY <3>1, <3>3, <3>4 DEF QuietServerStaysUp
  <2>3. QED
    BY <2>1, <2>2
<1>5. CASE down' \notin {"provider", "archiver"}
  BY <1>5 DEF QuietServerStaysUp
<1>6. CASE \/ \E id \in Ids : \/ \E x \in Sensors : Start(id, x)
                              \/ Stop(id) \/ TaskConnect(id) \/ TaskObserve(id)
                              \/ CollectFailed(id) \/ BlockReady(id)
           \/ \E t \in Threads : \/ TakeSession(t) \/ MasterPlaylist(t) \/ TakeParams(t)
                                 \/ Insert(t)
           \/ Command
           \/ BlockBegin \/ BlockEnd \/ BlockDisconnect \/ BlockConnect \/ BlockLaunched
           \/ \E x \in Sensors : \/ OtherConsumer(x) \/ StreamStart(x) \/ StreamStop(x)
                                 \/ ReceiverCrash(x) \/ Reconnect(x) \/ SourceLost(x)
                                 \/ SourceFound(x)
  <2>1. down' \in {down, "entry", "environment", "freed", "restore"}
    BY <1>6 DEF Start, Stop, TaskConnect, TaskObserve, CollectFailed, BlockReady, TakeSession,
                MasterPlaylist, TakeParams, Insert, Command, InsertInfo, OpenOperation, StopFind,
                StopStarting, StopRemove, StopDisconnect, BlockBegin, BlockEnd, BlockDisconnect,
                BlockConnect, BlockLaunched, OtherConsumer, StreamStart, StreamStop,
                ReceiverCrash, Reconnect, SourceLost, SourceFound
  <2>2. QED
    BY <1>1, <1>5, <2>1
<1>7. QED
  BY <1>2, <1>3, <1>4, <1>6 DEF Next, Task, Block, Launch, Collect

LEMMA DisturbedStays ==
    ASSUME Next PROVE disturbed \subseteq disturbed'
<1>1. Maint \in Threads /\ Ids \subseteq Threads
  BY DEF Threads
<1>2. CASE \E t \in Threads : Launch(t)
  BY <1>2 DEF Launch, GetProvider, TakeSession, MasterPlaylist, TakeParams, Insert, Fails
<1>3. CASE \E s \in Sensors : \/ OtherConsumer(s) \/ StreamStart(s) \/ StreamStop(s)
                              \/ ReceiverCrash(s) \/ Reconnect(s) \/ SourceLost(s)
                              \/ SourceFound(s)
  BY <1>3 DEF OtherConsumer, ConnectSource, StreamStart, StreamStop, ReceiverCrash, Reconnect,
              SourceLost, SourceFound
<1>4. CASE \/ \E id \in Ids : \/ \E x \in Sensors : Start(id, x)
                              \/ Stop(id) \/ TaskConnect(id) \/ TaskObserve(id)
                              \/ Collect(id) \/ BlockReady(id)
           \/ Command
           \/ BlockBegin \/ BlockEnd \/ BlockDisconnect \/ BlockConnect \/ BlockLaunched
  BY <1>4 DEF Start, Stop, TaskConnect, ConnectSource, TaskObserve, Collect, CollectStarted,
              CollectFailed, BlockReady, Command, InsertInfo, OpenOperation, StopFind,
              StopStarting, StopRemove, StopDisconnect, BlockBegin, BlockEnd, BlockDisconnect,
              BlockConnect, BlockLaunched
<1>5. QED
  BY <1>1, <1>2, <1>3, <1>4 DEF Next, Task, Block

-----------------------------------------------------------------------------
(* The invariant.                                                          *)

LEMMA RecorderInit ==
    ASSUME Init PROVE RecorderInv
<1>1. Maint \in Threads /\ None \notin Ids \cup Sensors
      /\ 0 \in 0 .. MaxBlocks /\ 0 \in 0 .. MaxStops /\ 0 \in 0 .. MaxIncidents
  BY RecorderAssumption DEF Threads, RecorderAssumption
<1>2. TypeOK
  BY <1>1 DEF Init, TypeOK, Steps, MainSteps
<1>3. Started = {} /\ Listed = {} /\ Waiting = {} /\ Inserted = {}
  <2>1. Ids \subseteq Threads
    BY DEF Threads
  <2>2. Started = {} /\ Inserted = {}
    BY <2>1 DEF Init, Started, Inserted
  <2>3. DOMAIN creators = {} /\ DOMAIN restart = {}
    BY DEF Init
  <2>4. QED
    BY <2>2, <2>3 DEF Listed, Waiting
<1>4. StepInv
  <2>1. \A id \in Ids : work[id] = "none"
    BY DEF Init, Threads
  <2>2. QED
    BY <1>1, <1>3, <2>1, FS_EmptySet DEF Init, StepInv
<1>5. PlaceInv
  <2>1. Once(creators) /\ Once(restart)
    BY DEF Init, Once
  <2>2. QED
    BY <1>3, <2>1 DEF Init, PlaceInv
<1>6. HoldInv
  <2>1. SUFFICES ASSUME NEW s \in Sensors PROVE CountOf(s)
    BY DEF HoldInv
  <2>2. HoldFacts
    BY <1>2, <1>4, <1>5, HoldFactsHold
  <2>3. Holding = {}
    BY <1>3, <2>2 DEF HoldFacts
  <2>4. Holders(s) = {}
    BY <2>2, <2>3 DEF HoldFacts
  <2>5. refs[s] = 0 /\ ~ others[s]
    BY DEF Init
  <2>6. QED
    BY <2>4, <2>5, FS_EmptySet DEF CountOf, Others
<1>7. CalmInv
  BY <1>3 DEF Init, CalmInv
<1>8. JournalInv /\ WatchedUntilBlock
  BY <1>3 DEF JournalInv, WatchedUntilBlock
<1>9. QuietServerStaysUp
  BY DEF Init, QuietServerStaysUp
<1>10. QED
  BY <1>2, <1>4, <1>5, <1>6, <1>7, <1>8, <1>9 DEF RecorderInv

LEMMA RecorderStutter ==
    ASSUME RecorderInv, UNCHANGED vars PROVE RecorderInv'
<1>1. UNCHANGED <<creators, byId, lost, futures, starting, sensorOf, work, dead, restart, main,
                  maint, callback, refs, linked, signal, watched, others, wal, stopAsked, stops,
                  event, down, blocks, incidents, disturbed>>
  BY DEF vars, registryVars, startVars, threadVars, sourceVars, clientVars, countVars
<1>2. TypeOK' /\ StepInv' /\ PlaceInv'
  BY <1>1 DEF RecorderInv, TypeOK, StepInv, PlaceInv, Started, Inserted, Listed, Waiting
<1>3. HoldInv'
  BY <1>1 DEF RecorderInv, HoldInv, CountOf, Holders, Others, Listed, Launching
<1>4. CalmInv' /\ JournalInv' /\ WatchedUntilBlock' /\ QuietServerStaysUp'
  BY <1>1 DEF RecorderInv, CalmInv, JournalInv, WatchedUntilBlock, QuietServerStaysUp,
              Started, Inserted, Listed
<1>5. QED
  BY <1>2, <1>3, <1>4 DEF RecorderInv

LEMMA RecorderNext ==
    ASSUME RecorderInv, Next PROVE RecorderInv'
<1>1. TypeOK /\ StepInv /\ PlaceInv /\ HoldInv /\ CalmInv /\ JournalInv /\ WatchedUntilBlock
  BY DEF RecorderInv
<1>2. TypeOK' /\ StepInv'
  BY <1>1, TypeStep
<1>3. PlaceInv'
  BY <1>1, PlaceStep
<1>4. HoldFacts /\ HoldFacts'
  BY <1>1, <1>2, <1>3, HoldFactsHold, HoldFactsAfter
<1>5. HoldInv'
  BY <1>1, <1>4, HoldStep
<1>6. HeldCounted /\ HeldCounted'
  BY <1>1, <1>2, <1>3, <1>5, HeldCountedHolds, HeldCountedAfter
<1>7. CalmInv' /\ JournalInv'
  BY <1>1, CalmStep, JournalStep
<1>8. WatchedUntilBlock'
  BY <1>1, <1>2, <1>6, DisturbedStays, WatchStep
<1>9. QuietServerStaysUp'
  BY <1>1, <1>6, QuietStep
<1>10. QED
  BY <1>2, <1>3, <1>5, <1>7, <1>8, <1>9 DEF RecorderInv

LEMMA RecorderInvariant == Spec => []RecorderInv
<1>1. Init => RecorderInv
  BY RecorderInit
<1>2. RecorderInv /\ [Next]_vars => RecorderInv'
  BY RecorderNext, RecorderStutter
<1>3. QED
  BY <1>1, <1>2, PTL DEF Spec

-----------------------------------------------------------------------------
(* The vector, the map, the threads of the starts, of the commands and of  *)
(* the data blocks and the sources keep their types; in particular the     *)
(* maintenance thread has something to restart whenever it acts on its     *)
(* last or first element (checkForArchiveNewBlock).                        *)
THEOREM RecorderTypeOK == Spec => []TypeOK
<1>1. RecorderInv => TypeOK
  BY DEF RecorderInv
<1>2. QED
  BY <1>1, RecorderInvariant, PTL

(* Until a source is lost the vector and the map of VideoRecorder hold the *)
(* same recordings, and the vector holds each once, whatever commands,     *)
(* starts and data blocks come between.                                    *)
THEOREM RecorderRegistryAgrees == Spec => []RegistryAgrees
<1>1. RecorderInv => RegistryAgrees
  <2>1. SUFFICES ASSUME RecorderInv PROVE RegistryAgrees
    OBVIOUS
  <2>2. Listed = Elements(creators) /\ Once(creators) /\ creators \in Seq(Ids)
    BY <2>1, StartedFacts DEF RecorderInv, TypeOK
  <2>3. Len(creators) = Cardinality(Listed)
    BY <2>2, OnceLen
  <2>4. QED
    BY <2>1, <2>3 DEF RecorderInv, CalmInv, RegistryAgrees
<1>2. QED
  BY <1>1, RecorderInvariant, PTL

(* The reference count of a source is the number of recordings that hold   *)
(* it, but for the five ways that disturb it: connectSource and            *)
(* disconnectSource are called once each by whoever holds it.              *)
THEOREM RecorderHoldsAreExact == Spec => []HoldsAreExact
<1>1. RecorderInv => HoldsAreExact
  BY DEF RecorderInv, HoldInv, CountOf, Others, HoldsAreExact
<1>2. QED
  BY <1>1, RecorderInvariant, PTL

(* The null pointers of launchRecord and of the collection of the starts   *)
(* are only met after a disturbance, a stop, a loss or a data block.       *)
THEOREM RecorderQuietStaysUp == Spec => []QuietServerStaysUp
<1>1. RecorderInv => QuietServerStaysUp
  BY DEF RecorderInv
<1>2. QED
  BY <1>1, RecorderInvariant, PTL

(* What is listed and not asked to stop is in the journal or about to be,  *)
(* and hears of the loss of its source until the first data block.         *)
THEOREM RecorderLookedAfter == Spec => []RunningIsLookedAfter
<1>1. RecorderInv => RunningIsLookedAfter
  <2>1. SUFFICES ASSUME RecorderInv PROVE RunningIsLookedAfter
    OBVIOUS
  <2>2. Listed \subseteq Started
    BY <2>1, StartedFacts DEF RecorderInv
  <2>3. RunningIsJournaled
    BY <2>1, <2>2 DEF RecorderInv, JournalInv, RunningIsJournaled
  <2>4. QED
    BY <2>1, <2>3 DEF RecorderInv, RunningIsLookedAfter
<1>2. QED
  BY <1>1, RecorderInvariant, PTL

(* The source of a recording that is being launched, runs, is being        *)
(* stopped or is between two blocks has its receiver, unless it was        *)
(* disturbed: nobody else's disconnectSource ends it under that recording. *)
THEOREM RecorderHeldIsConnected == Spec => []HeldCounted
<1>1. RecorderInv => HeldCounted
  BY HeldCountedHolds DEF RecorderInv
<1>2. QED
  BY <1>1, RecorderInvariant, PTL

=============================================================================
