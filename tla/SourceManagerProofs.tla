------------------------- MODULE SourceManagerProofs -------------------------
(***************************************************************************)
(* Proofs about SourceManager, for any urls, consumers, objects and range  *)
(* of ports.                                                               *)
(*                                                                         *)
(* An object is in the hands of the thread that creates it until it is     *)
(* published; from then on its count is the number of those who hold the   *)
(* source: consumers, the launched retranslation, and launches that have   *)
(* connected and not ended.  Two consumers that create the source at once  *)
(* are recorded in miscounted and leftover, and nothing is claimed of      *)
(* their source from then on.                                              *)
(***************************************************************************)
EXTENDS SourceManager, FiniteSetTheorems, SequenceTheorems, WellFoundedInduction,
        TLAPS

(* The jobs of a thread.                                                   *)
ConnectJob(op, u, at, n) == [op |-> op, url |-> u, at |-> at, object |-> n]
StartJobs == [op : {"launch", "restore"}, url : Urls, at : {"start"}, port : Slots,
              playable : BOOLEAN, raced : BOOLEAN]

(* What a thread may be doing: creating a source, connecting or publishing *)
(* the object it made, on the way of a launch, starting a retranslator, or *)
(* at the second half of a disconnection.                                  *)
JobType(t) ==
    \/ thread[t] = Idle
    \/ /\ t \in Consumers
       /\ \E op \in {"use", "launch"}, u \in Urls : thread[t] = Job(op, u, "create")
    \/ /\ t \in Consumers
       /\ \E op \in {"use", "launch"}, u \in Urls, n \in Objects,
             at \in {"connect", "publish"} : thread[t] = ConnectJob(op, u, at, n)
    \/ /\ t \in Consumers
       /\ \E u \in Urls, at \in {"observe", "choose"} : thread[t] = Job("launch", u, at)
    \/ /\ thread[t] \in StartJobs
       /\ thread[t].op = "restore" <=> t = Retry
    \/ \E op \in {"leave", "stop"}, u \in Urls :
          /\ thread[t] = Job(op, u, "abort")
          /\ t \in Consumers /\ (op = "stop" => t = Main)

(* A thread that owns an object made it and has not published it.          *)
Owns(t, n) == (At(t, "connect") \/ At(t, "publish")) /\ thread[t].object = n
Live(n) == n \in Sources \/ \E t \in Consumers : Owns(t, n)

-----------------------------------------------------------------------------
(* Ports.                                                                  *)

LEMMA Least ==
    ASSUME NEW S, S \subseteq Nat, S # {}
    PROVE  \E m \in S : \A x \in S : m <= x
<1> DEFINE R == {ss \in Nat \X Nat : ss[1] < ss[2]}
<1>1. IsWellFoundedOn(R, Nat)
  BY NatLessThanWellFounded DEF OpToRel
<1>. HIDE DEF R
<1>2. PICK m \in S : \A x \in S : <<x, m>> \notin R
  BY <1>1, WFMin
<1>3. ASSUME NEW x \in S PROVE m <= x
  <2>1. ~ (x < m)
    BY <1>2 DEF R
  <2>2. QED
    BY <2>1
<1>4. QED
  BY <1>3

(* The search for a pair ends at the first one that is free, at the latest *)
(* at the one behind the range.                                            *)
LEMMA FreePortFacts ==
    /\ FreePort \in Slots
    /\ FreePort > RangeEnd \/ \A r \in rtsp : r.port # FreePort
<1> DEFINE Free == {p \in Slots : p > RangeEnd \/ \A r \in rtsp : r.port # p}
<1>1. RangeBegin \in Nat /\ RangeEnd \in Nat /\ RangeBegin <= RangeEnd
  BY ManagerAssumption DEF ManagerAssumption
<1>2. Free \subseteq Nat
  BY <1>1 DEF Slots
<1>3. Free # {}
  <2>1. RangeEnd + 1 \in Slots \/ RangeEnd + 2 \in Slots
    BY <1>1 DEF Slots
  <2>2. RangeEnd + 1 > RangeEnd /\ RangeEnd + 2 > RangeEnd
    BY <1>1
  <2>3. QED
    BY <2>1, <2>2
<1>4. PICK p \in Free : \A q \in Free : p <= q
  BY <1>2, <1>3, Least
<1>5. \A q \in Slots : q < p => \E r \in rtsp : r.port = q
  <2>1. SUFFICES ASSUME NEW q \in Slots, q < p PROVE q \notin Free
    OBVIOUS
  <2>2. q \in Int /\ p \in Int
    BY <1>1 DEF Slots
  <2>3. QED
    BY <1>4, <2>1, <2>2
<1>6. QED
  BY <1>4, <1>5 DEF FreePort

(* Two different pairs do not overlap.                                     *)
LEMMA SlotFacts ==
    \A p, q \in Slots : /\ p \in Nat /\ p <= RangeEnd + 2
                        /\ p # q => p >= q + 2 \/ q >= p + 2
<1>1. RangeBegin \in Nat /\ RangeEnd \in Nat
  BY ManagerAssumption DEF ManagerAssumption
<1>2. QED
  BY <1>1 DEF Slots

-----------------------------------------------------------------------------
(* Types.  An object is in the hands of at most one thread, and of none    *)
(* once it is published; it is counted from its connection on.             *)
ThreadTypes ==
    /\ thread = [t \in Threads |-> thread[t]]
    /\ \A t \in Threads : JobType(t)

ObjectTypes ==
    /\ url \in Seq(Urls) /\ refs \in [Objects -> 0 .. MaxRefs]
    /\ running \subseteq Objects /\ observing \subseteq Objects
    /\ published \in Seq({0} \cup Objects)
    /\ transition \in [Urls -> {0} \cup Objects]

OwnerInv ==
    /\ \A t \in Consumers, n \in Objects : Owns(t, n) =>
          /\ url[n] = thread[t].url /\ n \notin Sources
          /\ \A o \in Consumers : Owns(o, n) => o = t
          /\ At(t, "connect") => refs[n] = 0
    /\ \A u \in Urls : transition[u] # 0 =>
          url[transition[u]] = u /\ transition[u] \notin Sources

RtspTypes ==
    \A r \in rtsp : r.url \in Urls /\ r.port \in Slots /\ r.raced \in BOOLEAN

ClientTypes ==
    /\ saved \in [Urls -> {"none", "kept", "empty"}]
    /\ held \in [Urls -> Nat] /\ wanted \subseteq Urls

TypeInv == ThreadTypes /\ ObjectTypes /\ OwnerInv /\ RtspTypes /\ ClientTypes

(* A step of one thread.                                                   *)
Becomes(t, job) ==
    thread'[t] = job /\ \A o \in Threads \ {t} : thread'[o] = thread[o]

LEMMA BecomesFacts ==
    ASSUME ThreadTypes, NEW t \in Threads, NEW job, thread' = [thread EXCEPT ![t] = job]
    PROVE  Becomes(t, job) /\ thread' = [o \in Threads |-> thread'[o]]
BY DEF ThreadTypes, Becomes

LEMMA ThreadSets == Consumers \subseteq Threads /\ Main \in Consumers /\ Retry \in Threads
                    /\ Retry \notin Consumers
BY ManagerAssumption DEF ManagerAssumption, Consumers, Threads

LEMMA ObjectFacts ==
    ObjectTypes => /\ Objects = 1 .. Len(url) /\ Len(url) \in Nat
                   /\ \A n \in Objects : url[n] \in Urls /\ n # 0 /\ n \in Nat
                   /\ Sources \subseteq Objects /\ 0 \notin Sources
                   /\ \A u : Published(u) \subseteq Sources
                   /\ DOMAIN published = 1 .. Len(published) /\ Len(published) \in Nat
<1>1. SUFFICES ASSUME ObjectTypes
               PROVE  /\ Objects = 1 .. Len(url) /\ Len(url) \in Nat
                      /\ \A n \in Objects : url[n] \in Urls /\ n # 0 /\ n \in Nat
                      /\ Sources \subseteq Objects /\ 0 \notin Sources
                      /\ \A u : Published(u) \subseteq Sources
                      /\ DOMAIN published = 1 .. Len(published) /\ Len(published) \in Nat
  OBVIOUS
<1>2. Objects = 1 .. Len(url) /\ Len(url) \in Nat
  BY <1>1 DEF ObjectTypes, Objects
<1>3. \A n \in Objects : url[n] \in Urls /\ n # 0 /\ n \in Nat
  BY <1>1, <1>2 DEF ObjectTypes
<1>4. DOMAIN published = 1 .. Len(published) /\ Len(published) \in Nat
      /\ \A i \in DOMAIN published : published[i] \in {0} \cup Objects
  BY <1>1 DEF ObjectTypes
<1>5. Sources \subseteq Objects /\ 0 \notin Sources
  BY <1>4 DEF Sources
<1>6. QED
  BY <1>2, <1>3, <1>4, <1>5 DEF Published

(* A job, taken apart.                                                     *)
LEMMA JobFacts ==
    /\ \A op, u, at : /\ Job(op, u, at) # Idle /\ Job(op, u, at).op = op
                      /\ Job(op, u, at).url = u /\ Job(op, u, at).at = at
    /\ \A op, u, at, n : /\ ConnectJob(op, u, at, n) # Idle
                         /\ ConnectJob(op, u, at, n).op = op
                         /\ ConnectJob(op, u, at, n).url = u
                         /\ ConnectJob(op, u, at, n).at = at
                         /\ ConnectJob(op, u, at, n).object = n
    /\ \A job \in StartJobs :
          /\ job # Idle /\ job.at = "start" /\ job.op \in {"launch", "restore"}
          /\ job.url \in Urls /\ job.port \in Slots
          /\ job.playable \in BOOLEAN /\ job.raced \in BOOLEAN
<1>1. \A op, u, at : DOMAIN Job(op, u, at) # DOMAIN Idle
  BY DEF Job, Idle
<1>2. \A op, u, at, n : DOMAIN ConnectJob(op, u, at, n) # DOMAIN Idle
  BY DEF ConnectJob, Idle
<1>3. \A job \in StartJobs :
         /\ DOMAIN job # DOMAIN Idle
         /\ job.at = "start" /\ job.op \in {"launch", "restore"}
         /\ job.url \in Urls /\ job.port \in Slots
         /\ job.playable \in BOOLEAN /\ job.raced \in BOOLEAN
  BY DEF StartJobs, Idle
<1>4. QED
  BY <1>1, <1>2, <1>3 DEF Job, ConnectJob

LEMMA RacedJob ==
    ASSUME NEW job \in StartJobs
    PROVE  LET new == [job EXCEPT !.raced = TRUE] IN
           /\ new \in StartJobs /\ new.raced = TRUE
           /\ new.op = job.op /\ new.url = job.url /\ new.port = job.port
           /\ new.playable = job.playable
BY DEF StartJobs

LEMMA JobAt ==
    ASSUME NEW t, JobType(t), thread[t] # Idle
    PROVE  /\ At(t, "create") =>
                 /\ t \in Consumers
                 /\ \E op \in {"use", "launch"}, u \in Urls : thread[t] = Job(op, u, "create")
           /\ \A s \in {"connect", "publish"} : At(t, s) =>
                 /\ t \in Consumers
                 /\ \E op \in {"use", "launch"}, u \in Urls, n \in Objects :
                       thread[t] = ConnectJob(op, u, s, n)
           /\ \A s \in {"observe", "choose"} : At(t, s) =>
                 t \in Consumers /\ \E u \in Urls : thread[t] = Job("launch", u, s)
           /\ At(t, "start") =>
                 thread[t] \in StartJobs /\ (thread[t].op = "restore" <=> t = Retry)
           /\ At(t, "abort") =>
                 /\ t \in Consumers
                 /\ \E op \in {"leave", "stop"}, u \in Urls :
                       thread[t] = Job(op, u, "abort") /\ (op = "stop" => t = Main)
           /\ thread[t].url \in Urls
BY JobFacts DEF JobType, At

-----------------------------------------------------------------------------
(* What the steps do to the sources and to their thread.                   *)

LEMMA SameSources ==
    ASSUME published' = published, url' = url
    PROVE  /\ Objects' = Objects /\ Sources' = Sources
           /\ \A u : Published(u)' = Published(u)
BY DEF Objects, Sources, Published

LEMMA ConnectedFacts ==
    ASSUME ThreadTypes, NEW t \in Threads, NEW u, NEW op \in {"use", "launch"},
           Connected(t, op, u)
    PROVE  \/ /\ op = "launch" /\ thread' = [thread EXCEPT ![t] = Job(op, u, "observe")]
              /\ Becomes(t, Job(op, u, "observe")) /\ held' = held
           \/ /\ op = "use" /\ thread' = [thread EXCEPT ![t] = Idle]
              /\ Becomes(t, Idle) /\ held' = [held EXCEPT ![u] = @ + 1]
<1>1. CASE op = "launch"
  <2>1. thread' = [thread EXCEPT ![t] = Job(op, u, "observe")] /\ held' = held
    BY <1>1 DEF Connected
  <2>2. QED
    BY <1>1, <2>1, BecomesFacts
<1>2. CASE op = "use"
  <2>1. thread' = [thread EXCEPT ![t] = Idle] /\ held' = [held EXCEPT ![u] = @ + 1]
    BY <1>2 DEF Connected, Return
  <2>2. QED
    BY <1>2, <2>1, BecomesFacts
<1>3. QED
  BY <1>1, <1>2

LEMMA ShareFacts ==
    ASSUME TypeInv, NEW t \in Consumers, NEW u \in Urls, NEW op \in {"use", "launch"},
           Share(t, op, u)
    PROVE  /\ thread[t] = Idle /\ Connected(t, op, u)
           /\ \E n \in Published(u) :
                 n \in Objects /\ refs[n] < MaxRefs
                 /\ refs' = [refs EXCEPT ![n] = refs[n] + 1]
<1> DEFINE P(i) == i \in DOMAIN published /\ published[i] \in Published(u)
           first == CHOOSE i \in DOMAIN published :
                       /\ published[i] \in Published(u)
                       /\ \A j \in 1 .. i - 1 : published[j] \notin Published(u)
<1>0. ObjectTypes
  BY DEF TypeInv
<1>1. PICK n \in Published(u) : TRUE
  BY DEF Share
<1>2. PICK k \in DOMAIN published : published[k] = n
  BY <1>1 DEF Published, Sources
<1>3. DOMAIN published \subseteq Nat
  BY <1>0, ObjectFacts
<1>4. PICK i \in {j \in DOMAIN published : P(j)} : \A j \in {j \in DOMAIN published : P(j)} : i <= j
  <2>1. {j \in DOMAIN published : P(j)} # {}
    BY <1>1, <1>2
  <2>2. QED
    BY <1>3, <2>1, Least
<1>5. \A j \in 1 .. i - 1 : published[j] \notin Published(u)
  <2>1. SUFFICES ASSUME NEW j \in 1 .. i - 1, published[j] \in Published(u) PROVE FALSE
    OBVIOUS
  <2>2. j \in DOMAIN published /\ i \in Nat
    BY <1>0, <1>4, ObjectFacts
  <2>3. i <= j
    BY <1>4, <2>1, <2>2
  <2>4. QED
    BY <2>1, <2>2, <2>3
<1>6. published[first] \in Published(u)
  BY <1>4, <1>5
<1>7. published[first] \in Objects
  BY <1>0, <1>6, ObjectFacts
<1>8. refs[published[first]] < MaxRefs
      /\ refs' = [refs EXCEPT ![published[first]] = refs[published[first]] + 1]
  BY DEF Share
<1>9. thread[t] = Idle /\ Connected(t, op, u)
  BY DEF Share, Calls
<1>. HIDE DEF first
<1>10. QED
  BY <1>6, <1>7, <1>8, <1>9

LEMMA CreateFacts ==
    ASSUME TypeInv, NEW t \in Consumers, Create(t)
    PROVE  LET n == Len(url) + 1 IN
           /\ n \notin Objects /\ n \in Nat \ {0} /\ Objects' = Objects \cup {n}
           /\ \E u \in Urls, op \in {"use", "launch"} :
                 /\ thread[t] = Job(op, u, "create") /\ thread[t].url = u
                 /\ thread' = [thread EXCEPT ![t] = ConnectJob(op, u, "connect", n)]
                 /\ url'[n] = u /\ url' \in Seq(Urls)
                 /\ transition' = [transition EXCEPT ![u] = IF @ = 0 THEN n ELSE @]
           /\ \A m \in Objects : url'[m] = url[m] /\ refs'[m] = refs[m]
           /\ refs'[n] = 0 /\ refs' \in [Objects' -> 0 .. MaxRefs]
           /\ Sources' = Sources /\ \A u : Published(u)' = Published(u)
<1> DEFINE n == Len(url) + 1
<1>1. ObjectTypes /\ ThreadTypes /\ t \in Threads
  BY ThreadSets DEF TypeInv
<1>2. thread[t] # Idle /\ At(t, "create")
  BY DEF Create, At
<1>3. PICK u \in Urls, op \in {"use", "launch"} : thread[t] = Job(op, u, "create")
  BY <1>1, <1>2, JobAt DEF ThreadTypes
<1>4. thread[t].url = u /\ thread[t].op = op
  BY <1>3, JobFacts
<1>5. url' = Append(url, u) /\ refs' = Append(refs, 0) /\ published' = published
  BY <1>4 DEF Create
<1>6. Objects = 1 .. Len(url) /\ Len(url) \in Nat /\ n \notin Objects /\ n \in Nat \ {0}
  BY <1>1, ObjectFacts
<1>7. url' \in Seq(Urls) /\ Len(url') = n /\ url'[n] = u /\ \A m \in Objects : url'[m] = url[m]
  BY <1>1, <1>5, <1>6 DEF ObjectTypes
<1>8. Objects' = Objects \cup {n}
  BY <1>6, <1>7 DEF Objects
<1>9. refs \in Seq(0 .. MaxRefs) /\ Len(refs) = Len(url)
  <2>1. refs \in [1 .. Len(url) -> 0 .. MaxRefs]
    BY <1>1, <1>6 DEF ObjectTypes
  <2>2. refs \in Seq(0 .. MaxRefs)
    BY <1>6, <2>1, SeqDef
  <2>3. QED
    BY <1>6, <2>1, <2>2, LenProperties
<1>10. refs' \in Seq(0 .. MaxRefs) /\ Len(refs') = n /\ refs'[n] = 0
       /\ \A m \in Objects : refs'[m] = refs[m]
  <2>1. MaxRefs \in Nat
    BY ManagerAssumption DEF ManagerAssumption
  <2>2. 0 \in 0 .. MaxRefs
    BY <2>1
  <2>3. QED
    BY <1>5, <1>6, <1>9, <2>2
<1>11. refs' \in [Objects' -> 0 .. MaxRefs]
  <2>1. Objects' = 1 .. n
    BY <1>6, <1>8
  <2>2. refs' \in [1 .. Len(refs') -> 0 .. MaxRefs]
    BY <1>10, LenProperties
  <2>3. QED
    BY <1>10, <2>1, <2>2
<1>12. thread' = [thread EXCEPT ![t] = ConnectJob(op, u, "connect", n)]
  BY <1>4 DEF Create, ConnectJob
<1>13. transition' = [transition EXCEPT ![u] = IF @ = 0 THEN n ELSE @]
  BY <1>4 DEF Create
<1>14. Sources' = Sources
  BY <1>5 DEF Sources
<1>15. \A v : Published(v)' = Published(v)
  <2>1. Sources \subseteq Objects
    BY <1>1, ObjectFacts
  <2>2. QED
    BY <1>7, <1>14, <2>1 DEF Published
<1>16. QED
  BY <1>3, <1>4, <1>6, <1>7, <1>8, <1>10, <1>11, <1>12, <1>13, <1>14, <1>15

(* A thread that connects or publishes an object.                          *)
LEMMA OwnerFacts ==
    ASSUME TypeInv, NEW t \in Consumers, NEW s \in {"connect", "publish"}, At(t, s)
    PROVE  \E op \in {"use", "launch"}, u \in Urls, n \in Objects :
              /\ thread[t] = ConnectJob(op, u, s, n) /\ thread[t] # Idle
              /\ thread[t].url = u /\ thread[t].op = op /\ thread[t].object = n
              /\ Owns(t, n) /\ url[n] = u /\ n \notin Sources
              /\ \A o \in Consumers : Owns(o, n) => o = t
              /\ s = "connect" => refs[n] = 0
<1>1. t \in Threads /\ ThreadTypes /\ OwnerInv
  BY ThreadSets DEF TypeInv
<1>2. thread[t] # Idle
  BY DEF At
<1>3. PICK op \in {"use", "launch"}, u \in Urls, n \in Objects : thread[t] = ConnectJob(op, u, s, n)
  BY <1>1, <1>2, JobAt DEF ThreadTypes
<1>4. thread[t].url = u /\ thread[t].op = op /\ thread[t].object = n
  BY <1>3, JobFacts
<1>5. Owns(t, n)
  BY <1>4 DEF Owns
<1>6. /\ url[n] = u /\ n \notin Sources
      /\ \A o \in Consumers : Owns(o, n) => o = t
      /\ s = "connect" => refs[n] = 0
  BY <1>1, <1>4, <1>5 DEF OwnerInv
<1>7. QED
  BY <1>2, <1>3, <1>4, <1>5, <1>6

LEMMA AppendSources ==
    ASSUME ObjectTypes, NEW n \in Objects, published' = Append(published, n), url' = url
    PROVE  /\ published' \in Seq({0} \cup Objects)
           /\ Sources' = Sources \cup {n}
           /\ Published(url[n])' = Published(url[n]) \cup {n}
           /\ \A v : v # url[n] => Published(v)' = Published(v)
<1>1. published \in Seq({0} \cup Objects) /\ n # 0
  BY ObjectFacts DEF ObjectTypes
<1>2. published' \in Seq({0} \cup Objects) /\ Len(published') = Len(published) + 1
      /\ published'[Len(published) + 1] = n
      /\ \A i \in 1 .. Len(published) : published'[i] = published[i]
  BY <1>1
<1>3. DOMAIN published = 1 .. Len(published) /\ DOMAIN published' = 1 .. Len(published')
      /\ Len(published) \in Nat
  BY <1>1, <1>2, LenProperties
<1>4. \A i \in DOMAIN published : i \in DOMAIN published' /\ published'[i] = published[i]
  BY <1>2, <1>3
<1>5. Len(published) + 1 \in DOMAIN published'
      /\ \A i \in DOMAIN published' : i \in DOMAIN published \/ i = Len(published) + 1
  BY <1>2, <1>3
<1>6. Sources' = Sources \cup {n}
  BY <1>1, <1>2, <1>4, <1>5 DEF Sources
<1>7. QED
  BY <1>2, <1>6 DEF Published

(* What a disconnection does to the objects of its source.                 *)
LEMMA UnpublishFacts ==
    ASSUME ObjectTypes, NEW u \in Urls, Unpublish(u), url' = url
    PROVE  /\ Objects' = Objects /\ published' \in Seq({0} \cup Objects)
           /\ Sources' = {n \in Sources : n \notin Published(u) \/ refs[n] > 1}
           /\ Published(u)' = {n \in Published(u) : refs[n] > 1}
           /\ \A v : v # u => Published(v)' = Published(v)
           /\ refs' \in [Objects -> 0 .. MaxRefs]
           /\ \A n \in Objects :
                 refs'[n] = IF n \in Published(u) /\ refs[n] > 0 THEN refs[n] - 1 ELSE refs[n]
           /\ observing' \subseteq observing
           /\ \A n \in observing \cap Sources' : n \in observing'
<1> DEFINE Left(n) == n \notin Published(u) \/ Released(n) # 0
<1>1. MaxRefs \in Nat /\ \A n \in Objects : refs[n] \in 0 .. MaxRefs
  BY ManagerAssumption DEF ManagerAssumption, ObjectTypes
<1>2. Objects' = Objects /\ Published(u) \subseteq Sources
      /\ Sources \subseteq Objects /\ 0 \notin Sources
  BY ObjectFacts DEF Objects
<1>3. /\ refs' = [n \in Objects |-> IF n \in Published(u) THEN Released(n) ELSE refs[n]]
      /\ published' = [i \in DOMAIN published |->
                          IF Left(published[i]) THEN published[i] ELSE 0]
      /\ observing' = {n \in observing : Left(n)}
  BY DEF Unpublish
<1>4. \A n \in Objects : Released(n) \in 0 .. MaxRefs
                         /\ Released(n) = IF refs[n] > 0 THEN refs[n] - 1 ELSE refs[n]
  BY <1>1 DEF Released
<1>5. /\ refs' \in [Objects -> 0 .. MaxRefs]
      /\ \A n \in Objects :
            refs'[n] = IF n \in Published(u) /\ refs[n] > 0 THEN refs[n] - 1 ELSE refs[n]
  BY <1>1, <1>3, <1>4
<1>6. \A n \in Objects : Left(n) <=> (n \notin Published(u) \/ refs[n] > 1)
  BY <1>1, <1>2, <1>4
<1>7. published' \in Seq({0} \cup Objects)
  <2>1. published \in Seq({0} \cup Objects)
    BY DEF ObjectTypes
  <2>2. published \in [1 .. Len(published) -> {0} \cup Objects] /\ Len(published) \in Nat
        /\ DOMAIN published = 1 .. Len(published)
    BY <2>1, LenProperties
  <2>3. published' \in [1 .. Len(published) -> {0} \cup Objects]
    BY <1>3, <2>2
  <2>4. QED
    BY <2>2, <2>3, SeqDef
<1>. HIDE DEF Left
<1>8. Sources' = {n \in Sources : Left(n)}
  BY <1>3 DEF Sources
<1>9. Sources' = {n \in Sources : n \notin Published(u) \/ refs[n] > 1}
  BY <1>2, <1>6, <1>8
<1>10. Published(u)' = {n \in Published(u) : refs[n] > 1}
       /\ \A v : v # u => Published(v)' = Published(v)
  BY <1>9 DEF Published
<1>11. observing' \subseteq observing /\ \A n \in observing \cap Sources' : n \in observing'
  BY <1>3, <1>8
<1>12. QED
  BY <1>2, <1>5, <1>7, <1>9, <1>10, <1>11

-----------------------------------------------------------------------------
(* The types are invariant.                                                *)

LEMMA ThreadStep ==
    ASSUME ThreadTypes, NEW t \in Threads, NEW job,
           thread' = [thread EXCEPT ![t] = job],
           Objects \subseteq Objects', JobType(t)'
    PROVE  ThreadTypes' /\ Becomes(t, job)
<1>1. Becomes(t, job) /\ thread' = [o \in Threads |-> thread'[o]]
  BY BecomesFacts
<1>2. ASSUME NEW o \in Threads, o # t PROVE JobType(o)'
  <2>1. JobType(o) /\ thread'[o] = thread[o]
    BY <1>1, <1>2 DEF ThreadTypes, Becomes
  <2>2. QED
    BY <2>1 DEF JobType
<1>3. QED
  BY <1>1, <1>2 DEF ThreadTypes

(* The owners and the types of the threads survive a step that makes no    *)
(* owner and publishes nothing.                                            *)
LEMMA OwnerStep ==
    ASSUME TypeInv, Objects' = Objects, url' = url, Sources' \subseteq Sources,
           \A o \in Consumers, n \in Objects : Owns(o, n)' =>
              thread'[o] = thread[o] /\ (n \notin Sources /\ refs[n] = 0 => refs'[n] = 0),
           \A u \in Urls : transition'[u] = transition[u] \/ transition'[u] = 0
    PROVE  OwnerInv'
<1>1. OwnerInv /\ ObjectTypes
  BY DEF TypeInv
<1>2. ASSUME NEW t \in Consumers, NEW n \in Objects, Owns(t, n)'
      PROVE  /\ url'[n] = thread'[t].url /\ n \notin Sources'
             /\ \A o \in Consumers : Owns(o, n)' => o = t
             /\ At(t, "connect")' => refs'[n] = 0
  <2>1. \A o \in Consumers : Owns(o, n)' => thread'[o] = thread[o] /\ Owns(o, n)
    BY DEF Owns, At
  <2>2. thread'[t] = thread[t] /\ Owns(t, n)
    BY <1>2, <2>1
  <2>3. At(t, "connect")' <=> At(t, "connect")
    BY <2>2 DEF At
  <2>4. QED
    BY <1>1, <1>2, <2>1, <2>2, <2>3 DEF OwnerInv
<1>3. ASSUME NEW u \in Urls, transition'[u] # 0
      PROVE  url'[transition'[u]] = u /\ transition'[u] \notin Sources'
  BY <1>1, <1>3 DEF OwnerInv
<1>4. QED
  BY <1>2, <1>3 DEF OwnerInv

(* A thread whose new job has no object owns none.                         *)
LEMMA NoOwner ==
    ASSUME NEW t, NEW job, Becomes(t, job),
           job = Idle \/ job.at \notin {"connect", "publish"}
    PROVE  /\ \A n : ~ Owns(t, n)'
           /\ \A o \in Threads \ {t} : \A n : Owns(o, n)' = Owns(o, n) /\ thread'[o] = thread[o]
BY DEF Becomes, Owns, At

LEMMA QuietOwners ==
    ASSUME TypeInv, Objects' = Objects, url' = url, Sources' \subseteq Sources,
           NEW t \in Threads, NEW job, Becomes(t, job),
           job = Idle \/ job.at \notin {"connect", "publish"},
           \A n \in Objects : n \notin Sources /\ refs[n] = 0 => refs'[n] = 0,
           \A u \in Urls : transition'[u] = transition[u] \/ transition'[u] = 0
    PROVE  OwnerInv'
<1>1. \A o \in Consumers, n \in Objects : Owns(o, n)' => thread'[o] = thread[o]
  BY NoOwner, ThreadSets
<1>2. QED
  BY <1>1, OwnerStep

LEMMA ConnectedTypes ==
    ASSUME TypeInv, NEW t \in Consumers, NEW u \in Urls, NEW op \in {"use", "launch"},
           Connected(t, op, u), Objects' = Objects
    PROVE  /\ ThreadTypes' /\ held' \in [Urls -> Nat]
           /\ \E job : Becomes(t, job) /\ (job = Idle \/ job.at = "observe")
<1>1. ThreadTypes /\ t \in Threads /\ held \in [Urls -> Nat]
  BY ThreadSets DEF TypeInv, ClientTypes
<1>2. CASE /\ thread' = [thread EXCEPT ![t] = Job("launch", u, "observe")] /\ held' = held
  <2>1. thread'[t] = Job("launch", u, "observe")
    BY <1>1, <1>2 DEF ThreadTypes
  <2>2. JobType(t)'
    BY <2>1 DEF JobType
  <2>3. ThreadTypes' /\ Becomes(t, Job("launch", u, "observe"))
    BY <1>1, <1>2, <2>2, ThreadStep
  <2>4. Job("launch", u, "observe").at = "observe"
    BY JobFacts
  <2>5. QED
    BY <1>1, <1>2, <2>3, <2>4
<1>3. CASE thread' = [thread EXCEPT ![t] = Idle] /\ held' = [held EXCEPT ![u] = @ + 1]
  <2>1. thread'[t] = Idle
    BY <1>1, <1>3 DEF ThreadTypes
  <2>2. JobType(t)'
    BY <2>1 DEF JobType
  <2>3. ThreadTypes' /\ Becomes(t, Idle)
    BY <1>1, <1>3, <2>2, ThreadStep
  <2>4. held' \in [Urls -> Nat]
    BY <1>1, <1>3
  <2>5. QED
    BY <2>3, <2>4
<1>4. QED
  BY <1>1, <1>2, <1>3, ConnectedFacts

LEMMA ShareTypes ==
    ASSUME TypeInv, NEW t \in Consumers, NEW u \in Urls, NEW op \in {"use", "launch"},
           Share(t, op, u)
    PROVE  TypeInv'
<1>1. /\ url' = url /\ running' = running /\ observing' = observing
      /\ published' = published /\ transition' = transition
      /\ rtsp' = rtsp /\ saved' = saved /\ wanted' = wanted
  BY DEF Share, history
<1>2. Objects' = Objects /\ Sources' = Sources
  BY <1>1, SameSources
<1>3. PICK n \in Published(u) : n \in Objects /\ refs[n] < MaxRefs
                                /\ refs' = [refs EXCEPT ![n] = refs[n] + 1]
  BY ShareFacts
<1>4. MaxRefs \in Nat /\ refs \in [Objects -> 0 .. MaxRefs] /\ n \in Sources
  BY <1>3, ManagerAssumption DEF ManagerAssumption, TypeInv, ObjectTypes, Published
<1>5. refs' \in [Objects -> 0 .. MaxRefs] /\ \A m \in Objects : m # n => refs'[m] = refs[m]
  BY <1>3, <1>4
<1>6. Connected(t, op, u)
  BY ShareFacts
<1>7. ThreadTypes' /\ held' \in [Urls -> Nat]
      /\ \E job : Becomes(t, job) /\ (job = Idle \/ job.at = "observe")
  BY <1>2, <1>6, ConnectedTypes
<1>8. OwnerInv'
  BY <1>1, <1>2, <1>4, <1>5, <1>7, QuietOwners, ThreadSets
<1>9. ObjectTypes'
  BY <1>1, <1>2, <1>5 DEF TypeInv, ObjectTypes
<1>10. RtspTypes' /\ ClientTypes'
  BY <1>1, <1>7 DEF TypeInv, RtspTypes, ClientTypes
<1>11. QED
  BY <1>7, <1>8, <1>9, <1>10 DEF TypeInv

LEMMA NotFoundTypes ==
    ASSUME TypeInv, NEW t \in Consumers, NEW u \in Urls, NEW op \in {"use", "launch"},
           NotFound(t, op, u)
    PROVE  TypeInv'
<1>1. UNCHANGED <<url, refs, running, observing, published, transition, rtsp, saved, held, wanted>>
  BY DEF NotFound, objectVars, clientVars
<1>2. Objects' = Objects /\ Sources' = Sources
  BY <1>1, SameSources
<1>3. ThreadTypes /\ t \in Threads /\ thread' = [thread EXCEPT ![t] = Job(op, u, "create")]
  BY ThreadSets DEF NotFound, TypeInv
<1>4. thread'[t] = Job(op, u, "create")
  BY <1>3 DEF ThreadTypes
<1>5. JobType(t)'
  BY <1>4 DEF JobType
<1>6. ThreadTypes' /\ Becomes(t, Job(op, u, "create"))
  BY <1>2, <1>3, <1>5, ThreadStep
<1>7. Job(op, u, "create").at = "create"
  BY JobFacts
<1>8. OwnerInv'
  BY <1>1, <1>2, <1>3, <1>6, <1>7, QuietOwners
<1>9. ObjectTypes' /\ RtspTypes' /\ ClientTypes'
  BY <1>1, <1>2 DEF TypeInv, ObjectTypes, RtspTypes, ClientTypes
<1>10. QED
  BY <1>6, <1>8, <1>9 DEF TypeInv

LEMMA CreateTypes ==
    ASSUME TypeInv, NEW t \in Consumers, Create(t)
    PROVE  TypeInv'
<1> DEFINE n == Len(url) + 1
<1>1. UNCHANGED <<running, observing, published, rtsp, saved, held, wanted>>
  BY DEF Create
<1>2. /\ n \notin Objects /\ n # 0 /\ Objects' = Objects \cup {n}
      /\ \A m \in Objects : url'[m] = url[m] /\ refs'[m] = refs[m]
      /\ refs'[n] = 0 /\ refs' \in [Objects' -> 0 .. MaxRefs]
      /\ Sources' = Sources
  BY CreateFacts
<1>3. PICK u \in Urls, op \in {"use", "launch"} :
         /\ thread[t] = Job(op, u, "create")
         /\ thread' = [thread EXCEPT ![t] = ConnectJob(op, u, "connect", n)]
         /\ url'[n] = u /\ url' \in Seq(Urls)
         /\ transition' = [transition EXCEPT ![u] = IF @ = 0 THEN n ELSE @]
  BY CreateFacts
<1>. HIDE DEF n
<1>4. ThreadTypes /\ ObjectTypes /\ OwnerInv /\ t \in Threads
  BY ThreadSets DEF TypeInv
<1>5. thread'[t] = ConnectJob(op, u, "connect", n)
  BY <1>3, <1>4 DEF ThreadTypes
<1>6. JobType(t)'
  <2>1. n \in Objects'
    BY <1>2
  <2>2. QED
    BY <1>5, <2>1 DEF JobType
<1>7. ThreadTypes' /\ Becomes(t, ConnectJob(op, u, "connect", n))
  BY <1>2, <1>3, <1>4, <1>6, ThreadStep
<1>8. Sources \subseteq Objects /\ n \notin Sources
  BY <1>2, <1>4, ObjectFacts
<1>9. \A o \in Consumers : o # t => thread'[o] = thread[o] /\ \A m : Owns(o, m) => m \in Objects
  <2>1. SUFFICES ASSUME NEW o \in Consumers, o # t
                 PROVE  thread'[o] = thread[o] /\ \A m : Owns(o, m) => m \in Objects
    OBVIOUS
  <2>2. thread'[o] = thread[o]
    BY <1>7, <2>1, ThreadSets DEF Becomes
  <2>3. ASSUME NEW s \in {"connect", "publish"}, At(o, s) PROVE thread[o].object \in Objects
    BY <2>3, OwnerFacts
  <2>4. QED
    BY <2>2, <2>3 DEF Owns
<1>10. \A m : Owns(t, m)' => m = n
  BY <1>5, JobFacts DEF Owns
<1>11. ASSUME NEW o \in Consumers, NEW m \in Objects', Owns(o, m)'
       PROVE  /\ url'[m] = thread'[o].url /\ m \notin Sources'
              /\ \A oo \in Consumers : Owns(oo, m)' => oo = o
              /\ At(o, "connect")' => refs'[m] = 0
  <2>1. CASE o = t
    <3>1. m = n /\ thread'[o].url = u
      BY <1>5, <1>10, <1>11, <2>1, JobFacts
    <3>2. \A oo \in Consumers : Owns(oo, m)' => oo = o
      BY <1>2, <1>9, <2>1, <3>1 DEF Owns, At
    <3>3. QED
      BY <1>2, <1>3, <1>8, <3>1, <3>2
  <2>2. CASE o # t
    <3>1. Owns(o, m) /\ (At(o, "connect")' <=> At(o, "connect"))
      BY <1>9, <1>11, <2>2 DEF Owns, At
    <3>2. m \in Objects /\ m # n
      BY <1>2, <1>9, <2>2, <3>1
    <3>3. \A oo \in Consumers : Owns(oo, m)' => oo # t /\ Owns(oo, m)
      BY <1>9, <1>10, <3>2 DEF Owns, At
    <3>4. QED
      BY <1>2, <1>4, <1>9, <2>2, <3>1, <3>2, <3>3 DEF OwnerInv
  <2>3. QED
    BY <2>1, <2>2
<1>12. ASSUME NEW v \in Urls, transition'[v] # 0
       PROVE  url'[transition'[v]] = v /\ transition'[v] \notin Sources'
  <2>1. transition \in [Urls -> {0} \cup Objects]
    BY <1>4 DEF ObjectTypes
  <2>2. CASE transition'[v] = transition[v]
    BY <1>2, <1>4, <1>12, <2>1, <2>2 DEF OwnerInv
  <2>3. CASE transition'[v] # transition[v]
    <3>1. v = u /\ transition'[v] = n
      BY <1>3, <2>1, <2>3
    <3>2. QED
      BY <1>2, <1>3, <1>8, <3>1
  <2>4. QED
    BY <2>2, <2>3
<1>13. OwnerInv'
  BY <1>11, <1>12 DEF OwnerInv
<1>14. ObjectTypes'
  <2>1. published' \in Seq({0} \cup Objects')
    <3>1. published \in Seq({0} \cup Objects) /\ {0} \cup Objects \subseteq {0} \cup Objects'
      BY <1>2, <1>4 DEF ObjectTypes
    <3>2. published \in Seq({0} \cup Objects')
      BY <3>1, SeqMonotonic
    <3>3. QED
      BY <1>1, <3>2
  <2>2. transition' \in [Urls -> {0} \cup Objects']
    BY <1>2, <1>3, <1>4 DEF ObjectTypes
  <2>3. running' \subseteq Objects' /\ observing' \subseteq Objects'
    BY <1>1, <1>2, <1>4 DEF ObjectTypes
  <2>4. QED
    BY <1>2, <1>3, <2>1, <2>2, <2>3 DEF ObjectTypes
<1>15. RtspTypes' /\ ClientTypes'
  BY <1>1 DEF TypeInv, RtspTypes, ClientTypes
<1>16. QED
  BY <1>7, <1>13, <1>14, <1>15 DEF TypeInv

LEMMA ConnectOkTypes ==
    ASSUME TypeInv, NEW t \in Consumers, ConnectOk(t)
    PROVE  /\ TypeInv'
           /\ \E op \in {"use", "launch"}, u \in Urls, n \in Objects :
                 /\ thread[t] = ConnectJob(op, u, "connect", n) /\ Owns(t, n)
                 /\ url[n] = u /\ refs[n] = 0 /\ n \notin Sources
                 /\ thread' = [thread EXCEPT ![t] = ConnectJob(op, u, "publish", n)]
                 /\ Becomes(t, ConnectJob(op, u, "publish", n))
                 /\ refs' = [refs EXCEPT ![n] = 1] /\ running' = running \cup {n}
<1>1. UNCHANGED <<url, observing, published, transition, rtsp, saved, held, wanted>>
      /\ At(t, "connect")
  BY DEF ConnectOk, clientVars
<1>2. Objects' = Objects /\ Sources' = Sources
  BY <1>1, SameSources
<1>3. PICK op \in {"use", "launch"}, u \in Urls, n \in Objects :
         /\ thread[t] = ConnectJob(op, u, "connect", n)
         /\ thread[t].object = n /\ Owns(t, n) /\ url[n] = u /\ n \notin Sources
         /\ \A o \in Consumers : Owns(o, n) => o = t
         /\ refs[n] = 0
  BY <1>1, OwnerFacts
<1>4. ThreadTypes /\ ObjectTypes /\ OwnerInv /\ t \in Threads
  BY ThreadSets DEF TypeInv
<1>5. thread' = [thread EXCEPT ![t] = ConnectJob(op, u, "publish", n)]
  <2>1. thread' = [thread EXCEPT ![t] = [thread[t] EXCEPT !.at = "publish"]]
    BY DEF ConnectOk, Goto
  <2>2. [thread[t] EXCEPT !.at = "publish"] = ConnectJob(op, u, "publish", n)
    BY <1>3 DEF ConnectJob
  <2>3. QED
    BY <2>1, <2>2
<1>6. thread'[t] = ConnectJob(op, u, "publish", n)
  BY <1>4, <1>5 DEF ThreadTypes
<1>7. JobType(t)'
  BY <1>2, <1>6 DEF JobType
<1>8. ThreadTypes' /\ Becomes(t, ConnectJob(op, u, "publish", n))
  BY <1>2, <1>4, <1>5, <1>7, ThreadStep
<1>9. refs' = [refs EXCEPT ![n] = 1] /\ running' = running \cup {n}
  <2>1. refs' = [refs EXCEPT ![n] = refs[n] + 1] /\ running' = running \cup {n}
    BY <1>3 DEF ConnectOk
  <2>2. refs[n] + 1 = 1
    BY <1>3
  <2>3. QED
    BY <2>1, <2>2
<1>10. refs \in [Objects -> 0 .. MaxRefs] /\ 1 \in 0 .. MaxRefs
  BY <1>4, ManagerAssumption DEF ManagerAssumption, ObjectTypes
<1>11. \A m \in Objects : m # n => refs'[m] = refs[m]
  BY <1>9, <1>10
<1>12. ObjectTypes'
  BY <1>1, <1>2, <1>4, <1>9, <1>10 DEF ObjectTypes
<1>13. \A o \in Consumers : \A m : (Owns(o, m)' <=> Owns(o, m)) /\ thread'[o].url = thread[o].url
  <2>1. SUFFICES ASSUME NEW o \in Consumers, NEW m
                 PROVE  (Owns(o, m)' <=> Owns(o, m)) /\ thread'[o].url = thread[o].url
    OBVIOUS
  <2>2. CASE o = t
    BY <1>3, <1>6, <2>2, JobFacts DEF Owns, At
  <2>3. CASE o # t
    <3>1. thread'[o] = thread[o]
      BY <1>8, <2>3, ThreadSets DEF Becomes
    <3>2. QED
      BY <3>1 DEF Owns, At
  <2>4. QED
    BY <2>2, <2>3
<1>14. \A o \in Consumers : At(o, "connect")' => o # t /\ At(o, "connect")
  <2>1. ~ At(t, "connect")'
    BY <1>6, JobFacts DEF At
  <2>2. \A o \in Consumers : o # t => thread'[o] = thread[o]
    BY <1>8, ThreadSets DEF Becomes
  <2>3. QED
    BY <2>1, <2>2 DEF At
<1>15. OwnerInv'
  BY <1>1, <1>2, <1>3, <1>4, <1>11, <1>13, <1>14 DEF OwnerInv
<1>16. RtspTypes' /\ ClientTypes'
  BY <1>1 DEF TypeInv, RtspTypes, ClientTypes
<1>17. QED
  BY <1>3, <1>5, <1>8, <1>9, <1>12, <1>15, <1>16 DEF TypeInv

LEMMA ConnectFailsTypes ==
    ASSUME TypeInv, NEW t \in Consumers, ConnectFails(t)
    PROVE  /\ TypeInv' /\ Becomes(t, Idle) /\ thread' = [thread EXCEPT ![t] = Idle]
           /\ \E op \in {"use", "launch"}, u \in Urls, n \in Objects :
                 /\ thread[t] = ConnectJob(op, u, "connect", n) /\ Owns(t, n) /\ url[n] = u
                 /\ \/ running' = running /\ leftover' = leftover
                    \/ running' = running \cup {n} /\ leftover' = leftover \cup {u}
<1>1. UNCHANGED <<url, refs, observing, published, transition, rtsp, saved, held, wanted>>
      /\ At(t, "connect")
  BY DEF ConnectFails
<1>2. Objects' = Objects /\ Sources' = Sources
  BY <1>1, SameSources
<1>3. PICK op \in {"use", "launch"}, u \in Urls, n \in Objects :
         /\ thread[t] = ConnectJob(op, u, "connect", n) /\ thread[t].url = u
         /\ thread[t].object = n /\ Owns(t, n) /\ url[n] = u
  BY <1>1, OwnerFacts
<1>4. ThreadTypes /\ ObjectTypes /\ t \in Threads
  BY ThreadSets DEF TypeInv
<1>5. thread' = [thread EXCEPT ![t] = Idle]
  BY DEF ConnectFails, Return
<1>6. JobType(t)'
  BY <1>4, <1>5 DEF JobType, ThreadTypes
<1>7. ThreadTypes' /\ Becomes(t, Idle)
  BY <1>2, <1>4, <1>5, <1>6, ThreadStep
<1>8. \/ running' = running /\ leftover' = leftover
      \/ running' = running \cup {n} /\ leftover' = leftover \cup {u}
  BY <1>3 DEF ConnectFails
<1>9. OwnerInv'
  BY <1>1, <1>2, <1>4, <1>7, QuietOwners
<1>10. ObjectTypes' /\ RtspTypes' /\ ClientTypes'
  BY <1>1, <1>2, <1>8 DEF TypeInv, ObjectTypes, RtspTypes, ClientTypes
<1>11. QED
  BY <1>3, <1>5, <1>7, <1>8, <1>9, <1>10 DEF TypeInv

LEMMA PublishTypes ==
    ASSUME TypeInv, NEW t \in Consumers, Publish(t)
    PROVE  /\ TypeInv'
           /\ \E op \in {"use", "launch"}, u \in Urls, n \in Objects :
                 /\ thread[t] = ConnectJob(op, u, "publish", n) /\ Owns(t, n)
                 /\ url[n] = u /\ n \notin Sources
                 /\ Connected(t, op, u)
                 /\ Sources' = Sources \cup {n}
                 /\ Published(u)' = Published(u) \cup {n}
                 /\ \A v : v # u => Published(v)' = Published(v)
<1>1. UNCHANGED <<url, refs, running, observing, rtsp, saved, wanted>> /\ At(t, "publish")
  BY DEF Publish
<1>2. Objects' = Objects
  BY <1>1 DEF Objects
<1>3. PICK op \in {"use", "launch"}, u \in Urls, n \in Objects :
         /\ thread[t] = ConnectJob(op, u, "publish", n) /\ thread[t].url = u
         /\ thread[t].op = op /\ thread[t].object = n /\ Owns(t, n) /\ url[n] = u
         /\ n \notin Sources /\ \A o \in Consumers : Owns(o, n) => o = t
  BY <1>1, OwnerFacts
<1>4. ThreadTypes /\ ObjectTypes /\ OwnerInv /\ t \in Threads
  BY ThreadSets DEF TypeInv
<1>5. Connected(t, op, u) /\ published' = Append(published, n)
      /\ transition' = [transition EXCEPT ![u] = 0]
  BY <1>3 DEF Publish
<1>6. /\ published' \in Seq({0} \cup Objects)
      /\ Sources' = Sources \cup {n}
      /\ Published(u)' = Published(u) \cup {n}
      /\ \A v : v # u => Published(v)' = Published(v)
  BY <1>1, <1>3, <1>4, <1>5, AppendSources
<1>7. PICK job : Becomes(t, job) /\ (job = Idle \/ job.at = "observe")
  BY <1>2, <1>5, ConnectedTypes
<1>8. ThreadTypes' /\ held' \in [Urls -> Nat]
  BY <1>2, <1>5, ConnectedTypes
<1>9. \A o \in Consumers : \A m : Owns(o, m)' => o # t /\ Owns(o, m) /\ thread'[o] = thread[o]
  BY <1>7, NoOwner, ThreadSets
<1>10. ASSUME NEW o \in Consumers, NEW m \in Objects, Owns(o, m)'
       PROVE  /\ url'[m] = thread'[o].url /\ m \notin Sources'
              /\ \A oo \in Consumers : Owns(oo, m)' => oo = o
              /\ At(o, "connect")' => refs'[m] = 0
  <2>1. o # t /\ Owns(o, m) /\ thread'[o] = thread[o]
    BY <1>9, <1>10
  <2>2. m # n
    BY <1>3, <2>1
  <2>3. At(o, "connect")' <=> At(o, "connect")
    BY <2>1 DEF At
  <2>4. QED
    BY <1>1, <1>4, <1>6, <1>9, <2>1, <2>2, <2>3 DEF OwnerInv
<1>11. ASSUME NEW v \in Urls, transition'[v] # 0
       PROVE  url'[transition'[v]] = v /\ transition'[v] \notin Sources'
  <2>1. v # u /\ transition'[v] = transition[v]
    BY <1>4, <1>5, <1>11 DEF ObjectTypes
  <2>2. url[transition[v]] = v /\ transition[v] \notin Sources
    BY <1>4, <1>11, <2>1 DEF OwnerInv
  <2>3. QED
    BY <1>1, <1>3, <1>6, <2>1, <2>2
<1>12. OwnerInv'
  BY <1>2, <1>10, <1>11 DEF OwnerInv
<1>13. ObjectTypes'
  BY <1>1, <1>2, <1>4, <1>5, <1>6 DEF ObjectTypes
<1>14. RtspTypes' /\ ClientTypes'
  BY <1>1, <1>8 DEF TypeInv, RtspTypes, ClientTypes
<1>15. QED
  BY <1>3, <1>5, <1>6, <1>8, <1>12, <1>13, <1>14 DEF TypeInv

Disconnected(t, op, u) ==
    /\ thread[t] = Idle /\ Becomes(t, Job(op, u, "abort"))
    /\ Unpublish(u) /\ url' = url /\ rtsp' = rtsp /\ saved' = saved
    /\ running' = running \ {n \in Published(u) : refs[n] = 1}

LEMMA DisconnectTypes ==
    ASSUME TypeInv, NEW t \in Consumers, NEW u \in Urls, NEW op \in {"leave", "stop"},
           op = "stop" => t = Main, Disconnect(t, op, u),
           held' \in [Urls -> Nat], wanted' \subseteq Urls
    PROVE  TypeInv' /\ Disconnected(t, op, u)
<1>1. UNCHANGED <<url, transition, rtsp, saved>> /\ Unpublish(u) /\ thread[t] = Idle
  BY DEF Disconnect
<1>2. ThreadTypes /\ ObjectTypes /\ t \in Threads
  BY ThreadSets DEF TypeInv
<1>3. /\ Objects' = Objects /\ published' \in Seq({0} \cup Objects)
      /\ Sources' \subseteq Sources
      /\ refs' \in [Objects -> 0 .. MaxRefs]
      /\ \A n \in Objects :
            refs'[n] = IF n \in Published(u) /\ refs[n] > 0 THEN refs[n] - 1 ELSE refs[n]
      /\ observing' \subseteq observing
  BY <1>1, <1>2, UnpublishFacts
<1>4. thread' = [thread EXCEPT ![t] = Job(op, u, "abort")]
      /\ running' = running \ {n \in Published(u) : refs[n] = 1}
  BY DEF Disconnect, Closed
<1>5. thread'[t] = Job(op, u, "abort")
  BY <1>2, <1>4 DEF ThreadTypes
<1>6. JobType(t)'
  BY <1>5 DEF JobType
<1>7. ThreadTypes' /\ Becomes(t, Job(op, u, "abort"))
  BY <1>2, <1>3, <1>4, <1>6, ThreadStep
<1>8. Job(op, u, "abort").at = "abort"
  BY JobFacts
<1>9. \A n \in Objects : n \notin Sources /\ refs[n] = 0 => refs'[n] = 0
  BY <1>3 DEF Published
<1>10. OwnerInv'
  BY <1>1, <1>2, <1>3, <1>7, <1>8, <1>9, QuietOwners
<1>11. ObjectTypes' /\ RtspTypes' /\ ClientTypes'
  BY <1>1, <1>2, <1>3, <1>4 DEF TypeInv, ObjectTypes, RtspTypes, ClientTypes
<1>12. QED
  BY <1>1, <1>4, <1>7, <1>10, <1>11 DEF TypeInv, Disconnected

LEMMA AbortTypes ==
    ASSUME TypeInv, NEW t \in Consumers, Abort(t)
    PROVE  /\ TypeInv' /\ Becomes(t, Idle) /\ thread' = [thread EXCEPT ![t] = Idle]
           /\ \E op \in {"leave", "stop"}, u \in Urls :
                 /\ thread[t] = Job(op, u, "abort") /\ (op = "stop" => t = Main)
                 /\ rtsp' = IF op = "stop" THEN {r \in rtsp : r.url # u} ELSE rtsp
                 /\ \/ refs' = refs /\ running' = running /\ UNCHANGED history
                    \/ \E n \in Objects :
                          /\ url[n] = u /\ n \notin Sources
                          /\ refs' = [refs EXCEPT ![n] = Released(n)]
                          /\ running' = IF refs[n] = 1 THEN running \ {n} ELSE running
                          /\ Miscount(u, refs[n] = 1)
<1>1. UNCHANGED <<url, observing, published, saved, held, wanted>> /\ At(t, "abort")
  BY DEF Abort
<1>2. Objects' = Objects /\ Sources' = Sources
  BY <1>1, SameSources
<1>3. ThreadTypes /\ ObjectTypes /\ OwnerInv /\ t \in Threads /\ thread[t] # Idle
  BY <1>1, ThreadSets DEF TypeInv, At
<1>4. PICK op \in {"leave", "stop"}, u \in Urls :
         thread[t] = Job(op, u, "abort") /\ (op = "stop" => t = Main)
  BY <1>1, <1>3, JobAt DEF ThreadTypes
<1>5. thread[t].url = u /\ thread[t].op = op
  BY <1>4, JobFacts
<1> DEFINE n == transition[u]
<1>6. /\ thread' = [thread EXCEPT ![t] = Idle]
      /\ rtsp' = IF op = "stop" THEN {r \in rtsp : r.url # u} ELSE rtsp
      /\ IF n = 0 THEN UNCHANGED <<refs, running, transition, history>>
         ELSE /\ refs' = [refs EXCEPT ![n] = Released(n)]
              /\ running' = IF Closed(n) THEN running \ {n} ELSE running
              /\ transition' = [transition EXCEPT ![u] = 0]
              /\ Miscount(u, Closed(n))
  BY <1>5 DEF Abort, Return
<1>7. JobType(t)'
  BY <1>3, <1>6 DEF JobType, ThreadTypes
<1>8. ThreadTypes' /\ Becomes(t, Idle)
  BY <1>2, <1>3, <1>6, <1>7, ThreadStep
<1>9. n \in {0} \cup Objects /\ (n # 0 => url[n] = u /\ n \notin Sources)
  BY <1>3 DEF ObjectTypes, OwnerInv
<1>10. \A m \in Objects : Released(m) \in 0 .. MaxRefs /\ (refs[m] = 0 => Released(m) = 0)
  <2>1. MaxRefs \in Nat /\ \A m \in Objects : refs[m] \in 0 .. MaxRefs
    BY <1>3, ManagerAssumption DEF ManagerAssumption, ObjectTypes
  <2>2. QED
    BY <2>1 DEF Released
<1>11. refs' \in [Objects -> 0 .. MaxRefs] /\ running' \subseteq running
       /\ \A m \in Objects : refs[m] = 0 => refs'[m] = 0
  <2>1. CASE n = 0
    BY <1>3, <1>6, <2>1 DEF ObjectTypes
  <2>2. CASE n # 0
    <3>1. n \in Objects /\ refs' = [refs EXCEPT ![n] = Released(n)]
      BY <1>6, <1>9, <2>2
    <3>2. running' \subseteq running
      BY <1>6, <2>2
    <3>3. QED
      BY <1>3, <1>10, <3>1, <3>2 DEF ObjectTypes
  <2>3. QED
    BY <2>1, <2>2
<1>12. transition' \in [Urls -> {0} \cup Objects]
       /\ \A v \in Urls : transition'[v] = transition[v] \/ transition'[v] = 0
  BY <1>3, <1>6 DEF ObjectTypes
<1>13. OwnerInv'
  BY <1>1, <1>2, <1>3, <1>8, <1>11, <1>12, QuietOwners
<1>14. ObjectTypes' /\ ClientTypes'
  BY <1>1, <1>2, <1>3, <1>11, <1>12 DEF TypeInv, ObjectTypes, ClientTypes
<1>15. RtspTypes'
  BY <1>6 DEF TypeInv, RtspTypes
<1>16. \/ refs' = refs /\ running' = running /\ UNCHANGED history
       \/ \E m \in Objects :
             /\ url[m] = u /\ m \notin Sources
             /\ refs' = [refs EXCEPT ![m] = Released(m)]
             /\ running' = IF refs[m] = 1 THEN running \ {m} ELSE running
             /\ Miscount(u, refs[m] = 1)
  BY <1>6, <1>9 DEF Closed
<1>17. QED
  BY <1>4, <1>6, <1>8, <1>13, <1>14, <1>15, <1>16 DEF TypeInv

LEMMA ObserveTypes ==
    ASSUME TypeInv, NEW t \in Consumers, Observe(t)
    PROVE  /\ TypeInv'
           /\ \E u \in Urls :
                 /\ thread[t] = Job("launch", u, "observe") /\ thread[t].url = u
                 /\ thread' = [thread EXCEPT ![t] = Job("launch", u, "choose")]
                 /\ Becomes(t, Job("launch", u, "choose"))
                 /\ observing' = observing \cup Published(u)
<1>1. UNCHANGED <<url, refs, running, published, transition, rtsp, saved, held, wanted>>
      /\ At(t, "observe")
  BY DEF Observe, clientVars
<1>2. Objects' = Objects /\ Sources' = Sources
  BY <1>1, SameSources
<1>3. ThreadTypes /\ ObjectTypes /\ t \in Threads /\ thread[t] # Idle
  BY <1>1, ThreadSets DEF TypeInv, At
<1>4. PICK u \in Urls : thread[t] = Job("launch", u, "observe")
  BY <1>1, <1>3, JobAt DEF ThreadTypes
<1>5. thread[t].url = u
  BY <1>4, JobFacts
<1>6. thread' = [thread EXCEPT ![t] = Job("launch", u, "choose")]
  <2>1. [thread[t] EXCEPT !.at = "choose"] = Job("launch", u, "choose")
    BY <1>4 DEF Job
  <2>2. thread' = [thread EXCEPT ![t] = [thread[t] EXCEPT !.at = "choose"]]
    BY DEF Observe, Goto
  <2>3. QED
    BY <2>1, <2>2
<1>7. thread'[t] = Job("launch", u, "choose")
  BY <1>3, <1>6 DEF ThreadTypes
<1>8. JobType(t)'
  BY <1>7 DEF JobType
<1>9. ThreadTypes' /\ Becomes(t, Job("launch", u, "choose"))
  BY <1>2, <1>3, <1>6, <1>8, ThreadStep
<1>10. Job("launch", u, "choose").at = "choose"
  BY JobFacts
<1>11. OwnerInv'
  BY <1>1, <1>2, <1>3, <1>9, <1>10, QuietOwners
<1>12. observing' = observing \cup Published(u) /\ Published(u) \subseteq Objects
  BY <1>3, <1>5, ObjectFacts DEF Observe
<1>13. ObjectTypes' /\ RtspTypes' /\ ClientTypes'
  BY <1>1, <1>2, <1>12 DEF TypeInv, ObjectTypes, RtspTypes, ClientTypes
<1>14. QED
  BY <1>4, <1>5, <1>6, <1>9, <1>11, <1>12, <1>13 DEF TypeInv

(* The job of a thread that has chosen a pair of ports.                    *)
LEMMA ChosenFacts ==
    ASSUME NEW op \in {"launch", "restore"}, NEW u \in Urls
    PROVE  /\ Chosen(op, u) \in StartJobs /\ Chosen(op, u) # Idle
           /\ Chosen(op, u).playable <=> (u \in Supported /\ Published(u) # {})
           /\ Chosen(op, u).op = op /\ Chosen(op, u).at = "start"
           /\ Chosen(op, u).url = u /\ Chosen(op, u).port = FreePort
           /\ ~ Chosen(op, u).raced
<1> DEFINE playable == u \in Supported /\ Published(u) # {}
<1>1. playable \in BOOLEAN /\ FreePort \in Slots
  BY FreePortFacts
<1>2. Chosen(op, u) = [op |-> op, url |-> u, at |-> "start", port |-> FreePort,
                       playable |-> playable, raced |-> FALSE]
  BY DEF Chosen
<1>3. /\ Chosen(op, u).op = op /\ Chosen(op, u).at = "start"
      /\ Chosen(op, u).url = u /\ Chosen(op, u).port = FreePort
  BY <1>2
<1>4. Chosen(op, u).playable = playable
  BY DEF Chosen
<1>5. ~ Chosen(op, u).raced
  BY <1>2
<1>6. Chosen(op, u) \in StartJobs
  <2>. HIDE DEF playable
  <2>1. QED
    BY <1>1, <1>2 DEF StartJobs
<1>7. QED
  BY <1>3, <1>4, <1>5, <1>6, JobFacts

LEMMA ChooseTypes ==
    ASSUME TypeInv, NEW t \in Consumers, Choose(t)
    PROVE  /\ TypeInv'
           /\ \E u \in Urls :
                 /\ thread[t] = Job("launch", u, "choose") /\ thread[t].url = u
                 /\ Miscount(u, Retranslated(u))
                 /\ LET job == IF Retranslated(u) THEN Idle ELSE Chosen("launch", u) IN
                    thread' = [thread EXCEPT ![t] = job] /\ Becomes(t, job)
<1>1. UNCHANGED <<url, refs, running, observing, published, transition, rtsp, saved, held, wanted>>
      /\ At(t, "choose")
  BY DEF Choose, objectVars
<1>2. Objects' = Objects /\ Sources' = Sources
  BY <1>1, SameSources
<1>3. ThreadTypes /\ ObjectTypes /\ t \in Threads /\ thread[t] # Idle
  BY <1>1, ThreadSets DEF TypeInv, At
<1>4. PICK u \in Urls : thread[t] = Job("launch", u, "choose")
  BY <1>1, <1>3, JobAt DEF ThreadTypes
<1>5. thread[t].url = u
  BY <1>4, JobFacts
<1> DEFINE job == IF Retranslated(u) THEN Idle ELSE Chosen("launch", u)
<1>6. thread' = [thread EXCEPT ![t] = job] /\ Miscount(u, Retranslated(u))
  BY <1>5 DEF Choose, Return
<1>7. job = Idle \/ (job.at \notin {"connect", "publish"}
                     /\ job \in StartJobs /\ job.op = "launch")
  BY ChosenFacts
<1>. HIDE DEF job
<1>8. thread'[t] = job
  BY <1>3, <1>6 DEF ThreadTypes
<1>9. JobType(t)'
  <2>1. CASE job = Idle
    BY <1>8, <2>1 DEF JobType
  <2>2. CASE job \in StartJobs /\ job.op = "launch"
    BY <1>8, <2>2, ThreadSets DEF JobType
  <2>3. QED
    BY <1>7, <2>1, <2>2
<1>10. ThreadTypes' /\ Becomes(t, job)
  BY <1>2, <1>3, <1>6, <1>9, ThreadStep
<1>11. OwnerInv'
  BY <1>1, <1>2, <1>3, <1>7, <1>10, QuietOwners
<1>12. ObjectTypes' /\ RtspTypes' /\ ClientTypes'
  BY <1>1, <1>2 DEF TypeInv, ObjectTypes, RtspTypes, ClientTypes
<1>13. QED
  BY <1>4, <1>5, <1>6, <1>10, <1>11, <1>12 DEF TypeInv, job

(* The other threads that are starting a retranslator notice only that     *)
(* they were not alone.                                                    *)
LEMMA StartFacts ==
    ASSUME TypeInv, NEW t \in Threads, StartRetranslator(t)
    PROVE  /\ thread[t] \in StartJobs /\ (thread[t].op = "restore" <=> t = Retry)
           /\ At(t, "start")
           /\ thread'[t] = Idle
           /\ \A o \in Threads \ {t} :
                 \/ thread'[o] = thread[o] /\ ~ At(o, "start")
                 \/ /\ At(o, "start") /\ At(o, "start")' /\ thread'[o].raced = TRUE
                    /\ thread'[o].op = thread[o].op /\ thread'[o].url = thread[o].url
                    /\ thread'[o].port = thread[o].port
                    /\ thread'[o].playable = thread[o].playable
                    /\ JobType(o)'
           /\ thread' = [o \in Threads |-> thread'[o]]
<1>1. ThreadTypes /\ At(t, "start") /\ thread[t] # Idle
  BY DEF TypeInv, StartRetranslator, At
<1>2. thread[t] \in StartJobs /\ (thread[t].op = "restore" <=> t = Retry)
  BY <1>1, JobAt DEF ThreadTypes
<1>5. thread' = [o \in Threads |->
                    CASE o = t -> Idle
                      [] o \in Starting(t) -> [thread[o] EXCEPT !.raced = TRUE]
                      [] OTHER -> thread[o]]
  BY DEF StartRetranslator
<1>6. \A o \in Starting(t) : o \in Threads /\ o # t
  BY DEF Starting
<1>7. /\ thread'[t] = Idle
      /\ \A o \in Threads \ {t} :
            thread'[o] = IF o \in Starting(t) THEN [thread[o] EXCEPT !.raced = TRUE]
                                              ELSE thread[o]
  BY <1>5, <1>6
<1>8. thread' = [o \in Threads |-> thread'[o]]
  BY <1>5
<1>9. ASSUME NEW o \in Threads \ {t}, At(o, "start")
      PROVE  /\ At(o, "start")' /\ thread'[o].raced = TRUE
             /\ thread'[o].op = thread[o].op /\ thread'[o].url = thread[o].url
             /\ thread'[o].port = thread[o].port
             /\ thread'[o].playable = thread[o].playable
             /\ JobType(o)'
  <2>1. thread'[o] = [thread[o] EXCEPT !.raced = TRUE]
    BY <1>7, <1>9 DEF Starting
  <2>2. JobType(o) /\ thread[o] # Idle
    BY <1>1, <1>9 DEF ThreadTypes, At
  <2>3. thread[o] \in StartJobs /\ (thread[o].op = "restore" <=> o = Retry)
    BY <1>9, <2>2, JobAt
  <2>4. /\ thread'[o] \in StartJobs /\ thread'[o].raced = TRUE
        /\ thread'[o].op = thread[o].op /\ thread'[o].url = thread[o].url
        /\ thread'[o].port = thread[o].port
        /\ thread'[o].playable = thread[o].playable
    BY <2>1, <2>3, RacedJob
  <2>5. JobType(o)'
    BY <2>3, <2>4 DEF JobType
  <2>6. At(o, "start")'
    BY <2>4, JobFacts DEF At
  <2>7. QED
    BY <2>4, <2>5, <2>6
<1>10. \A o \in Threads \ {t} : ~ At(o, "start") => thread'[o] = thread[o]
  BY <1>7 DEF Starting
<1>11. QED
  BY <1>1, <1>2, <1>7, <1>8, <1>9, <1>10

LEMMA StartTypes ==
    ASSUME TypeInv, NEW t \in Threads, StartRetranslator(t)
    PROVE  TypeInv'
<1>1. UNCHANGED <<url, refs, running, observing, published, transition, saved, held>>
  BY DEF StartRetranslator, objectVars
<1>2. Objects' = Objects /\ Sources' = Sources
  BY <1>1, SameSources
<1> DEFINE new == [url |-> thread[t].url, port |-> thread[t].port,
                   raced |-> thread[t].raced \/ Starting(t) # {}]
<1>3. /\ rtsp' = rtsp \cup {new} \/ rtsp' = rtsp
      /\ wanted' = wanted \cup {thread[t].url} \/ wanted' = wanted
      /\ thread[t].url \in Urls /\ thread[t].port \in Slots
  BY StartFacts, JobFacts DEF StartRetranslator
<1>4. /\ thread'[t] = Idle /\ thread' = [o \in Threads |-> thread'[o]]
      /\ \A o \in Threads \ {t} : \/ thread'[o] = thread[o]
                                  \/ At(o, "start")' /\ JobType(o)'
  BY StartFacts
<1>5. ASSUME NEW o \in Threads PROVE JobType(o)'
  <2>1. CASE o = t
    BY <1>4, <2>1 DEF JobType
  <2>2. CASE o # t /\ thread'[o] = thread[o]
    BY <1>2, <2>2 DEF TypeInv, ThreadTypes, JobType
  <2>3. QED
    BY <1>4, <2>1, <2>2
<1>6. ThreadTypes'
  BY <1>4, <1>5 DEF ThreadTypes
<1>7. \A o \in Consumers, n \in Objects : Owns(o, n)' => thread'[o] = thread[o]
  BY <1>4, ThreadSets DEF Owns, At
<1>8. OwnerInv'
  BY <1>1, <1>2, <1>7, OwnerStep
<1>9. ObjectTypes'
  BY <1>1, <1>2 DEF TypeInv, ObjectTypes
<1>10. RtspTypes'
  <2>1. (thread[t].raced \/ Starting(t) # {}) \in BOOLEAN
    OBVIOUS
  <2>2. new.url = thread[t].url /\ new.port = thread[t].port
        /\ new.raced = (thread[t].raced \/ Starting(t) # {})
    BY Zenon
  <2>3. new.raced \in BOOLEAN
    BY <2>1, <2>2, Zenon
  <2>. HIDE DEF new
  <2>4. QED
    BY <1>3, <2>2, <2>3 DEF TypeInv, RtspTypes
<1>11. ClientTypes'
  BY <1>1, <1>3 DEF TypeInv, ClientTypes
<1>12. QED
  BY <1>6, <1>8, <1>9, <1>10, <1>11 DEF TypeInv

LEMMA LoseTypes ==
    ASSUME TypeInv, NEW n \in Objects, Lose(n)
    PROVE  TypeInv'
<1>1. UNCHANGED <<url, refs, observing, published, transition, thread, held, wanted>>
      /\ running' \subseteq running
  BY DEF Lose, clientVars
<1>2. Objects' = Objects /\ Sources' = Sources
  BY <1>1, SameSources
<1>3. rtsp' \subseteq rtsp /\ saved' \in [Urls -> {"none", "kept", "empty"}]
  <2>1. saved \in [Urls -> {"none", "kept", "empty"}]
    BY DEF TypeInv, ClientTypes
  <2>2. CASE n \in observing
    BY <2>1, <2>2 DEF Lose
  <2>3. CASE n \notin observing
    BY <2>1, <2>3 DEF Lose
  <2>4. QED
    BY <2>2, <2>3
<1>4. ThreadTypes'
  BY <1>1, <1>2 DEF TypeInv, ThreadTypes, JobType
<1>5. OwnerInv'
  BY <1>1, <1>2, OwnerStep
<1>6. ObjectTypes' /\ RtspTypes' /\ ClientTypes'
  BY <1>1, <1>2, <1>3 DEF TypeInv, ObjectTypes, RtspTypes, ClientTypes
<1>7. QED
  BY <1>4, <1>5, <1>6 DEF TypeInv

LEMMA ComeBackTypes ==
    ASSUME TypeInv, NEW n \in Objects, ComeBack(n)
    PROVE  /\ TypeInv'
           /\ \A o \in Consumers : thread'[o] = thread[o]
           /\ \/ /\ n \notin observing \/ Retranslated(url[n])
                 /\ saved' = saved /\ thread' = thread
              \/ /\ n \in observing /\ ~ Retranslated(url[n]) /\ saved[url[n]] = "kept"
                 /\ saved' = saved /\ Becomes(Retry, Chosen("restore", url[n]))
              \/ /\ n \in observing /\ ~ Retranslated(url[n]) /\ saved[url[n]] # "kept"
                 /\ saved' = [saved EXCEPT ![url[n]] = "empty"] /\ thread' = thread
<1> DEFINE u == url[n]
<1>1. UNCHANGED <<url, refs, observing, published, transition, rtsp, held, wanted>>
      /\ running' = running \cup {n}
  BY DEF ComeBack, clientVars
<1>2. Objects' = Objects /\ Sources' = Sources
  BY <1>1, SameSources
<1>3. ThreadTypes /\ ObjectTypes /\ u \in Urls /\ saved \in [Urls -> {"none", "kept", "empty"}]
  BY ObjectFacts DEF TypeInv, ClientTypes
<1>4. \/ /\ n \notin observing \/ Retranslated(u)
         /\ saved' = saved /\ thread' = thread
      \/ /\ n \in observing /\ ~ Retranslated(u) /\ saved[u] = "kept"
         /\ saved' = saved /\ thread' = [thread EXCEPT ![Retry] = Chosen("restore", u)]
      \/ /\ n \in observing /\ ~ Retranslated(u) /\ saved[u] # "kept"
         /\ saved' = [saved EXCEPT ![u] = "empty"] /\ thread' = thread
  BY DEF ComeBack
<1>5. CASE \/ /\ n \notin observing \/ Retranslated(u)
              /\ saved' = saved /\ thread' = thread
           \/ /\ n \in observing /\ ~ Retranslated(u) /\ saved[u] # "kept"
              /\ saved' = [saved EXCEPT ![u] = "empty"] /\ thread' = thread
  <2>1. ThreadTypes'
    BY <1>2, <1>3, <1>5 DEF ThreadTypes, JobType
  <2>2. OwnerInv'
    BY <1>1, <1>2, <1>5, OwnerStep
  <2>3. saved' \in [Urls -> {"none", "kept", "empty"}]
    BY <1>3, <1>5
  <2>4. ObjectTypes' /\ RtspTypes' /\ ClientTypes'
    BY <1>1, <1>2, <2>3 DEF TypeInv, ObjectTypes, RtspTypes, ClientTypes
  <2>5. QED
    BY <2>1, <2>2, <2>4, <1>5 DEF TypeInv
<1>6. CASE /\ saved' = saved /\ thread' = [thread EXCEPT ![Retry] = Chosen("restore", u)]
           /\ n \in observing /\ ~ Retranslated(u) /\ saved[u] = "kept"
  <2>1. Retry \in Threads /\ Retry \notin Consumers
    BY ThreadSets
  <2>2. thread'[Retry] = Chosen("restore", u)
    BY <1>3, <1>6, <2>1 DEF ThreadTypes
  <2>3. /\ Chosen("restore", u).at = "start" /\ Chosen("restore", u).op = "restore"
        /\ Chosen("restore", u) \in StartJobs
    BY <1>3, ChosenFacts
  <2>4. JobType(Retry)'
    BY <2>2, <2>3 DEF JobType
  <2>5. ThreadTypes' /\ Becomes(Retry, Chosen("restore", u))
    BY <1>2, <1>3, <1>6, <2>1, <2>4, ThreadStep
  <2>6. OwnerInv'
    BY <1>1, <1>2, <2>1, <2>3, <2>5, QuietOwners
  <2>7. ObjectTypes' /\ RtspTypes' /\ ClientTypes'
    BY <1>1, <1>2, <1>6 DEF TypeInv, ObjectTypes, RtspTypes, ClientTypes
  <2>8. \A o \in Consumers : thread'[o] = thread[o]
    BY <2>1, <2>5, ThreadSets DEF Becomes
  <2>9. QED
    BY <1>6, <2>5, <2>6, <2>7, <2>8 DEF TypeInv
<1>7. QED
  BY <1>4, <1>5, <1>6

LEMMA LeaveTypes ==
    ASSUME TypeInv, NEW t \in Consumers, NEW u \in Urls, Leave(t, u)
    PROVE  TypeInv' /\ Disconnected(t, "leave", u)
<1>1. Disconnect(t, "leave", u) /\ wanted' = wanted /\ held[u] > 0
      /\ held' = [held EXCEPT ![u] = held[u] - 1]
  BY DEF Leave
<1>2. held' \in [Urls -> Nat] /\ wanted' \subseteq Urls
  BY <1>1 DEF TypeInv, ClientTypes
<1>3. QED
  BY <1>1, <1>2, DisconnectTypes

LEMMA StopTypes ==
    ASSUME TypeInv, NEW u \in Urls, StopRetranslation(u)
    PROVE  TypeInv' /\ Disconnected(Main, "stop", u)
<1>1. Disconnect(Main, "stop", u) /\ wanted' = wanted \ {u} /\ held' = held
  BY DEF StopRetranslation
<1>2. held' \in [Urls -> Nat] /\ wanted' \subseteq Urls
  BY <1>1 DEF TypeInv, ClientTypes
<1>3. QED
  BY <1>1, <1>2, DisconnectTypes, ThreadSets

(* The steps, one by one.                                                  *)
LEMMA NextSteps ==
    ASSUME Next
    PROVE  \/ \E t \in Consumers, u \in Urls, op \in {"use", "launch"} :
                 Share(t, op, u) \/ NotFound(t, op, u)
           \/ \E t \in Consumers, u \in Urls : Leave(t, u)
           \/ \E t \in Consumers :
                 \/ Create(t) \/ ConnectOk(t) \/ ConnectFails(t) \/ Publish(t)
                 \/ Abort(t) \/ Observe(t) \/ Choose(t)
           \/ \E t \in Threads : StartRetranslator(t)
           \/ \E u \in Urls : StopRetranslation(u)
           \/ \E n \in Objects : Lose(n) \/ ComeBack(n)
BY DEF Next, Operations

LEMMA TypeInvStep == TypeInv /\ [Next]_vars => TypeInv'
<1>1. SUFFICES ASSUME TypeInv, [Next]_vars PROVE TypeInv'
  OBVIOUS
<1>2. CASE UNCHANGED vars
  <2>1. UNCHANGED <<url, refs, running, observing, published, transition, rtsp, saved,
                    thread, held, wanted>>
    BY <1>2 DEF vars, objectVars, clientVars
  <2>2. Objects' = Objects /\ Sources' = Sources
    BY <2>1, SameSources
  <2>3. ThreadTypes'
    BY <1>1, <2>1, <2>2 DEF TypeInv, ThreadTypes, JobType
  <2>4. OwnerInv'
    BY <1>1, <2>1, <2>2, OwnerStep
  <2>5. ObjectTypes' /\ RtspTypes' /\ ClientTypes'
    BY <1>1, <2>1, <2>2 DEF TypeInv, ObjectTypes, RtspTypes, ClientTypes
  <2>6. QED
    BY <2>3, <2>4, <2>5 DEF TypeInv
<1>3. CASE Next
  BY <1>1, <1>3, NextSteps, ShareTypes, NotFoundTypes, LeaveTypes, CreateTypes, ConnectOkTypes,
     ConnectFailsTypes, PublishTypes, AbortTypes, ObserveTypes, ChooseTypes, StartTypes,
     StopTypes, LoseTypes, ComeBackTypes
<1>4. QED
  BY <1>1, <1>2, <1>3

LEMMA TypeInvInit == Init => TypeInv
<1>1. SUFFICES ASSUME Init PROVE TypeInv
  OBVIOUS
<1>2. /\ url = <<>> /\ refs = <<>> /\ running = {} /\ observing = {}
      /\ published = <<>> /\ transition = [u \in Urls |-> 0]
      /\ rtsp = {} /\ saved = [u \in Urls |-> "none"]
      /\ thread = [t \in Threads |-> Idle]
      /\ held = [u \in Urls |-> 0] /\ wanted = {}
  BY <1>1 DEF Init
<1>3. Objects = {} /\ url \in Seq(Urls)
  BY <1>2 DEF Objects
<1>4. ThreadTypes
  BY <1>2 DEF ThreadTypes, JobType
<1>5. ObjectTypes
  <2>1. refs \in [Objects -> 0 .. MaxRefs]
    BY <1>2, <1>3
  <2>2. published \in Seq({0} \cup Objects)
    BY <1>2
  <2>3. transition \in [Urls -> {0} \cup Objects]
    BY <1>2
  <2>4. QED
    BY <1>2, <1>3, <2>1, <2>2, <2>3 DEF ObjectTypes
<1>6. OwnerInv
  BY <1>2, <1>3 DEF OwnerInv
<1>7. RtspTypes /\ ClientTypes
  BY <1>2 DEF RtspTypes, ClientTypes
<1>8. QED
  BY <1>4, <1>5, <1>6, <1>7 DEF TypeInv

-----------------------------------------------------------------------------
(* Receivers.  Unless something is left behind, a receiver that runs       *)
(* belongs to a counted object that is published or has an owner, and a    *)
(* source has one such object.                                             *)
ReceiversLive ==
    \A n \in running : url[n] \notin leftover => refs[n] > 0 /\ Live(n)
OneLive ==
    \A n, m \in Objects :
        Live(n) /\ Live(m) /\ url[n] = url[m] /\ url[n] \notin leftover => n = m
RecvInv == ReceiversLive /\ OneLive

(* A step after which nothing is live that was not.                        *)
LEMMA OneLiveKept ==
    ASSUME OneLive, Objects' = Objects, url' = url, leftover \subseteq leftover',
           \A n \in Objects : Live(n)' => Live(n)
    PROVE  OneLive'
BY DEF OneLive

LEMMA SameOwners ==
    ASSUME NEW t \in Threads, NEW job, Becomes(t, job),
           job = Idle \/ job.at \notin {"connect", "publish"},
           thread[t] = Idle \/ thread[t].at \notin {"connect", "publish"}
    PROVE  \A o \in Consumers : \A n : Owns(o, n)' <=> Owns(o, n)
BY ThreadSets DEF Becomes, Owns, At

LEMMA SameLive ==
    ASSUME \A o \in Consumers : \A n : Owns(o, n)' <=> Owns(o, n)
    PROVE  /\ Sources' = Sources => \A n : Live(n)' <=> Live(n)
           /\ Sources' \subseteq Sources => \A n : Live(n)' => Live(n)
BY DEF Live

(* A step that leaves the objects and the owners as they are.              *)
LEMMA RecvQuiet ==
    ASSUME TypeInv, RecvInv, url' = url, Objects' = Objects, Sources' = Sources,
           leftover' = leftover, running' \subseteq running,
           \A n \in Objects : refs[n] > 0 => refs'[n] > 0,
           \A o \in Consumers : \A n : Owns(o, n)' <=> Owns(o, n)
    PROVE  RecvInv'
<1>1. \A n : Live(n)' <=> Live(n)
  BY SameLive
<1>2. running \subseteq Objects
  BY DEF TypeInv, ObjectTypes
<1>3. ReceiversLive'
  BY <1>1, <1>2 DEF RecvInv, ReceiversLive
<1>4. OneLive'
  BY <1>1, OneLiveKept DEF RecvInv
<1>5. QED
  BY <1>3, <1>4 DEF RecvInv

LEMMA RecvShare ==
    ASSUME TypeInv, RecvInv, NEW t \in Consumers, NEW u \in Urls, NEW op \in {"use", "launch"},
           Share(t, op, u)
    PROVE  RecvInv'
<1>1. url' = url /\ running' = running /\ published' = published /\ leftover' = leftover
  BY DEF Share, history
<1>2. Objects' = Objects /\ Sources' = Sources
  BY <1>1, SameSources
<1>3. thread[t] = Idle /\ Connected(t, op, u)
  BY ShareFacts
<1>4. PICK job : Becomes(t, job) /\ (job = Idle \/ job.at = "observe")
  BY <1>2, <1>3, ConnectedTypes
<1>5. \A o \in Consumers : \A n : Owns(o, n)' <=> Owns(o, n)
  BY <1>3, <1>4, SameOwners, ThreadSets
<1>6. \A n \in Objects : refs[n] > 0 => refs'[n] > 0
  <2>1. PICK n \in Objects : refs' = [refs EXCEPT ![n] = refs[n] + 1]
    BY ShareFacts
  <2>2. refs \in [Objects -> 0 .. MaxRefs] /\ MaxRefs \in Nat
    BY ManagerAssumption DEF ManagerAssumption, TypeInv, ObjectTypes
  <2>3. QED
    BY <2>1, <2>2
<1>7. QED
  BY <1>1, <1>2, <1>5, <1>6, RecvQuiet

LEMMA RecvCreate ==
    ASSUME TypeInv, RecvInv, NEW t \in Consumers, Create(t)
    PROVE  RecvInv'
<1> DEFINE n == Len(url) + 1
<1>1. /\ n \notin Objects /\ Objects' = Objects \cup {n} /\ Sources' = Sources
      /\ \A m \in Objects : url'[m] = url[m] /\ refs'[m] = refs[m]
  BY CreateFacts
<1>2. PICK u \in Urls, op \in {"use", "launch"} :
         /\ thread[t] = Job(op, u, "create") /\ thread[t].url = u
         /\ thread' = [thread EXCEPT ![t] = ConnectJob(op, u, "connect", n)]
         /\ url'[n] = u
  BY CreateFacts
<1>. HIDE DEF n
<1>3. ThreadTypes /\ ObjectTypes /\ OwnerInv /\ t \in Threads /\ running' = running
  BY ThreadSets DEF TypeInv, Create
<1>4. Becomes(t, ConnectJob(op, u, "connect", n))
  BY <1>2, <1>3, BecomesFacts
<1>5. \A m \in Objects : Live(m)' <=> Live(m)
  <2>1. \A o \in Consumers, m \in Objects : Owns(o, m)' <=> Owns(o, m)
    <3>1. \A m \in Objects : ~ Owns(t, m)' /\ ~ Owns(t, m)
      BY <1>1, <1>2, <1>4, JobFacts DEF Becomes, Owns, At
    <3>2. \A o \in Consumers : o # t => thread'[o] = thread[o]
      BY <1>4, ThreadSets DEF Becomes
    <3>3. QED
      BY <3>1, <3>2 DEF Owns, At
  <2>2. QED
    BY <1>1, <2>1 DEF Live
<1>6. leftover \subseteq leftover'
      /\ (u \notin leftover' => /\ Published(u) = {}
                                /\ \A o \in Consumers \ {t} : ~ Creating(o, u))
  BY <1>2 DEF Create, history
<1>7. ReceiversLive'
  BY <1>1, <1>3, <1>5, <1>6 DEF RecvInv, ReceiversLive, ObjectTypes
<1>8. u \notin leftover' => \A m \in Objects : Live(m) => url[m] # u
  <2>1. SUFFICES ASSUME u \notin leftover', NEW m \in Objects, Live(m), url[m] = u PROVE FALSE
    OBVIOUS
  <2>2. m \notin Sources
    BY <1>6, <2>1 DEF Published
  <2>3. PICK o \in Consumers : Owns(o, m)
    BY <2>1, <2>2 DEF Live
  <2>4. o # t
    BY <1>2, <2>3, JobFacts DEF Owns, At
  <2>5. thread[o].url = u
    BY <1>3, <2>1, <2>3 DEF OwnerInv
  <2>6. Creating(o, u)
    BY <2>3, <2>5 DEF Creating, Owns
  <2>7. QED
    BY <1>6, <2>1, <2>4, <2>6
<1>9. OneLive'
  BY <1>1, <1>2, <1>5, <1>6, <1>8 DEF RecvInv, OneLive
<1>10. QED
  BY <1>7, <1>9 DEF RecvInv

LEMMA RecvConnect ==
    ASSUME TypeInv, RecvInv, NEW t \in Consumers, ConnectOk(t) \/ ConnectFails(t) \/ Publish(t)
    PROVE  RecvInv'
<1>1. ObjectTypes /\ ThreadTypes /\ OwnerInv /\ t \in Threads
      /\ refs \in [Objects -> 0 .. MaxRefs]
  BY ThreadSets DEF TypeInv, ObjectTypes
<1>2. CASE ConnectOk(t)
  <2>1. PICK op \in {"use", "launch"}, u \in Urls, n \in Objects :
           /\ thread[t] = ConnectJob(op, u, "connect", n) /\ Owns(t, n)
           /\ Becomes(t, ConnectJob(op, u, "publish", n))
           /\ refs' = [refs EXCEPT ![n] = 1] /\ running' = running \cup {n}
    BY <1>2, ConnectOkTypes
  <2>2. url' = url /\ published' = published /\ leftover' = leftover
    BY <1>2 DEF ConnectOk, clientVars, history
  <2>3. Objects' = Objects /\ Sources' = Sources
    BY <2>2, SameSources
  <2>4. \A o \in Consumers : \A m : Owns(o, m)' <=> Owns(o, m)
    <3>1. \A m : Owns(t, m)' <=> m = n
      BY <2>1, JobFacts DEF Becomes, Owns, At
    <3>2. \A m : Owns(t, m) <=> m = n
      BY <2>1, JobFacts DEF Owns
    <3>3. \A o \in Consumers : o # t => thread'[o] = thread[o]
      BY <2>1, ThreadSets DEF Becomes
    <3>4. QED
      BY <3>1, <3>2, <3>3 DEF Owns, At
  <2>5. \A m : Live(m)' <=> Live(m)
    BY <2>3, <2>4, SameLive
  <2>6. Live(n)' /\ refs'[n] > 0 /\ \A m \in Objects : m # n => refs'[m] = refs[m]
    BY <1>1, <2>1, <2>5 DEF Live
  <2>7. ReceiversLive'
    BY <1>1, <2>1, <2>2, <2>5, <2>6 DEF RecvInv, ReceiversLive, ObjectTypes
  <2>8. OneLive'
    BY <2>2, <2>3, <2>5, OneLiveKept DEF RecvInv
  <2>9. QED
    BY <2>7, <2>8 DEF RecvInv
<1>3. CASE ConnectFails(t)
  <2>1. PICK op \in {"use", "launch"}, u \in Urls, n \in Objects :
           /\ thread[t] = ConnectJob(op, u, "connect", n) /\ Owns(t, n) /\ url[n] = u
           /\ \/ running' = running /\ leftover' = leftover
              \/ running' = running \cup {n} /\ leftover' = leftover \cup {u}
    BY <1>3, ConnectFailsTypes
  <2>2. url' = url /\ published' = published /\ refs' = refs /\ Becomes(t, Idle)
    BY <1>3, ConnectFailsTypes DEF ConnectFails
  <2>3. Objects' = Objects /\ Sources' = Sources
    BY <2>2, SameSources
  <2>4. refs[n] = 0
    BY <1>1, <2>1, JobFacts DEF OwnerInv, At
  <2>5. \A o \in Consumers : \A m : Owns(o, m)' <=> Owns(o, m) /\ m # n
    <3>1. \A m : ~ Owns(t, m)' /\ (Owns(t, m) => m = n)
      BY <2>1, <2>2, JobFacts DEF Becomes, Owns, At
    <3>2. \A o \in Consumers : o # t => thread'[o] = thread[o] /\ ~ Owns(o, n)
      BY <1>1, <2>1, <2>2, ThreadSets DEF Becomes, OwnerInv
    <3>3. QED
      BY <3>1, <3>2 DEF Owns, At
  <2>6. \A m : (Live(m)' => Live(m)) /\ (Live(m) /\ m # n => Live(m)')
    BY <2>3, <2>5 DEF Live
  <2>7. ReceiversLive'
    BY <1>1, <2>1, <2>2, <2>4, <2>6 DEF RecvInv, ReceiversLive, ObjectTypes
  <2>8. OneLive'
    BY <2>1, <2>2, <2>3, <2>6, OneLiveKept DEF RecvInv
  <2>9. QED
    BY <2>7, <2>8 DEF RecvInv
<1>4. CASE Publish(t)
  <2>1. PICK op \in {"use", "launch"}, u \in Urls, n \in Objects :
           /\ thread[t] = ConnectJob(op, u, "publish", n) /\ Owns(t, n)
           /\ Connected(t, op, u) /\ Sources' = Sources \cup {n}
    BY <1>4, PublishTypes
  <2>2. url' = url /\ refs' = refs /\ running' = running /\ leftover' = leftover
    BY <1>4 DEF Publish, history
  <2>3. Objects' = Objects
    BY <2>2 DEF Objects
  <2>4. PICK job : Becomes(t, job) /\ (job = Idle \/ job.at = "observe")
    BY <2>1, <2>3, ConnectedTypes
  <2>5. \A o \in Consumers : \A m : Owns(o, m)' <=> Owns(o, m) /\ m # n
    <3>1. \A m : ~ Owns(t, m)' /\ (Owns(t, m) => m = n)
      BY <2>1, <2>4, JobFacts DEF Becomes, Owns, At
    <3>2. \A o \in Consumers : o # t => thread'[o] = thread[o] /\ ~ Owns(o, n)
      BY <1>1, <2>1, <2>4, ThreadSets DEF Becomes, OwnerInv
    <3>3. QED
      BY <3>1, <3>2 DEF Owns, At
  <2>6. \A m : Live(m)' <=> Live(m)
    BY <2>1, <2>5 DEF Live
  <2>7. ReceiversLive'
    BY <1>1, <2>2, <2>6 DEF RecvInv, ReceiversLive
  <2>8. OneLive'
    BY <2>2, <2>3, <2>6, OneLiveKept DEF RecvInv
  <2>9. QED
    BY <2>7, <2>8 DEF RecvInv
<1>5. QED
  BY <1>2, <1>3, <1>4

LEMMA RecvDisconnect ==
    ASSUME TypeInv, RecvInv, NEW t \in Consumers, NEW u \in Urls, NEW op \in {"leave", "stop"},
           Disconnected(t, op, u), leftover' = leftover
    PROVE  RecvInv'
<1>1. ObjectTypes /\ t \in Threads /\ refs \in [Objects -> 0 .. MaxRefs] /\ url' = url
      /\ Unpublish(u) /\ thread[t] = Idle /\ Becomes(t, Job(op, u, "abort"))
      /\ running' = running \ {n \in Published(u) : refs[n] = 1}
  BY ThreadSets DEF TypeInv, ObjectTypes, Disconnected
<1>2. /\ Objects' = Objects
      /\ Sources' = {n \in Sources : n \notin Published(u) \/ refs[n] > 1}
      /\ \A n \in Objects :
            refs'[n] = IF n \in Published(u) /\ refs[n] > 0 THEN refs[n] - 1 ELSE refs[n]
  BY <1>1, UnpublishFacts
<1>3. \A o \in Consumers : \A n : Owns(o, n)' <=> Owns(o, n)
  <2>1. Job(op, u, "abort").at = "abort"
    BY JobFacts
  <2>2. QED
    BY <1>1, <2>1, SameOwners
<1>4. \A n : Live(n)' => Live(n)
  BY <1>2, <1>3, SameLive
<1>5. ASSUME NEW n \in running', url'[n] \notin leftover'
      PROVE  refs'[n] > 0 /\ Live(n)'
  <2>1. n \in running /\ n \in Objects /\ refs[n] > 0 /\ Live(n)
    BY <1>1, <1>5 DEF RecvInv, ReceiversLive, ObjectTypes
  <2>2. n \notin Published(u) \/ refs[n] > 1
    BY <1>1, <1>5, <2>1
  <2>3. refs[n] \in Nat
    BY <1>1, <2>1
  <2>4. refs'[n] > 0
    BY <1>2, <2>1, <2>2, <2>3
  <2>5. n \in Sources => n \in Sources'
    BY <1>2, <2>2
  <2>6. QED
    BY <1>3, <2>1, <2>4, <2>5 DEF Live
<1>6. OneLive'
  BY <1>1, <1>2, <1>4, OneLiveKept DEF RecvInv
<1>7. QED
  BY <1>5, <1>6 DEF RecvInv, ReceiversLive

LEMMA RecvAbort ==
    ASSUME TypeInv, RecvInv, NEW t \in Consumers, Abort(t)
    PROVE  RecvInv'
<1>1. PICK op \in {"leave", "stop"}, u \in Urls :
         /\ thread[t] = Job(op, u, "abort")
         /\ \/ refs' = refs /\ running' = running /\ UNCHANGED history
            \/ \E n \in Objects :
                  /\ refs' = [refs EXCEPT ![n] = Released(n)]
                  /\ running' = IF refs[n] = 1 THEN running \ {n} ELSE running
                  /\ Miscount(u, refs[n] = 1)
  BY AbortTypes
<1>2. url' = url /\ published' = published /\ Becomes(t, Idle)
  BY AbortTypes DEF Abort
<1>3. Objects' = Objects /\ Sources' = Sources
  BY <1>2, SameSources
<1>4. leftover' = leftover
  BY <1>1 DEF Miscount, history
<1>5. \A o \in Consumers : \A n : Owns(o, n)' <=> Owns(o, n)
  <2>1. thread[t].at = "abort"
    BY <1>1, JobFacts
  <2>2. QED
    BY <1>2, <2>1, SameOwners, ThreadSets
<1>6. \A n : Live(n)' <=> Live(n)
  BY <1>3, <1>5, SameLive
<1>7. \A n \in running' : n \in running /\ (refs[n] > 0 => refs'[n] > 0)
  <2>1. refs \in [Objects -> 0 .. MaxRefs] /\ running \subseteq Objects
    BY DEF TypeInv, ObjectTypes
  <2>2. CASE refs' = refs /\ running' = running
    BY <2>2
  <2>3. ASSUME NEW n \in Objects, refs' = [refs EXCEPT ![n] = Released(n)],
               running' = IF refs[n] = 1 THEN running \ {n} ELSE running
        PROVE  \A m \in running' : m \in running /\ (refs[m] > 0 => refs'[m] > 0)
    <3>1. refs'[n] = Released(n) /\ \A m \in Objects : m # n => refs'[m] = refs[m]
      BY <2>1, <2>3
    <3>2. refs[n] \in Nat
      BY <2>1, ManagerAssumption DEF ManagerAssumption
    <3>3. refs[n] > 0 /\ refs[n] # 1 => Released(n) > 0
      BY <3>2 DEF Released
    <3>4. QED
      BY <2>1, <2>3, <3>1, <3>3
  <2>4. QED
    BY <1>1, <2>2, <2>3
<1>8. ReceiversLive'
  BY <1>2, <1>4, <1>6, <1>7 DEF RecvInv, ReceiversLive
<1>9. OneLive'
  BY <1>2, <1>3, <1>4, <1>6, OneLiveKept DEF RecvInv
<1>10. QED
  BY <1>8, <1>9 DEF RecvInv

LEMMA RecvStep == TypeInv /\ RecvInv /\ [Next]_vars => RecvInv'
<1>1. SUFFICES ASSUME TypeInv, RecvInv, [Next]_vars PROVE RecvInv'
  OBVIOUS
<1>2. CASE UNCHANGED vars
  <2>1. UNCHANGED <<url, refs, running, published, thread, leftover>>
    BY <1>2 DEF vars, objectVars, clientVars, history
  <2>2. Objects' = Objects /\ Sources' = Sources
    BY <2>1, SameSources
  <2>3. \A o \in Consumers : \A n : Owns(o, n)' <=> Owns(o, n)
    BY <2>1 DEF Owns, At
  <2>4. QED
    BY <1>1, <2>1, <2>2, <2>3, RecvQuiet
<1>3. ASSUME NEW t \in Consumers, NEW u \in Urls, NEW op \in {"use", "launch"}, NotFound(t, op, u)
      PROVE  RecvInv'
  <2>1. UNCHANGED <<url, refs, running, published, leftover>> /\ thread[t] = Idle
        /\ thread' = [thread EXCEPT ![t] = Job(op, u, "create")]
    BY <1>3 DEF NotFound, Calls, objectVars, clientVars, history
  <2>2. Objects' = Objects /\ Sources' = Sources
    BY <2>1, SameSources
  <2>3. Becomes(t, Job(op, u, "create")) /\ Job(op, u, "create").at = "create"
    <3>1. ThreadTypes /\ t \in Threads
      BY <1>1, ThreadSets DEF TypeInv
    <3>2. Becomes(t, Job(op, u, "create"))
      BY <2>1, <3>1, BecomesFacts
    <3>3. QED
      BY <3>2, JobFacts
  <2>4. \A o \in Consumers : \A n : Owns(o, n)' <=> Owns(o, n)
    BY <2>1, <2>3, SameOwners, ThreadSets
  <2>5. QED
    BY <1>1, <2>1, <2>2, <2>4, RecvQuiet
<1>4. ASSUME NEW t \in Consumers, Observe(t) PROVE RecvInv'
  <2>1. UNCHANGED <<url, refs, running, published, leftover>>
    BY <1>4 DEF Observe, clientVars, history
  <2>2. Objects' = Objects /\ Sources' = Sources
    BY <2>1, SameSources
  <2>3. PICK u \in Urls : thread[t] = Job("launch", u, "observe")
                          /\ Becomes(t, Job("launch", u, "choose"))
    BY <1>1, <1>4, ObserveTypes
  <2>4. \A o \in Consumers : \A n : Owns(o, n)' <=> Owns(o, n)
    BY <2>3, JobFacts, SameOwners, ThreadSets
  <2>5. QED
    BY <1>1, <2>1, <2>2, <2>4, RecvQuiet
<1>5. ASSUME NEW t \in Consumers, Choose(t) PROVE RecvInv'
  <2>1. PICK u \in Urls :
           /\ thread[t] = Job("launch", u, "choose") /\ Miscount(u, Retranslated(u))
           /\ Becomes(t, IF Retranslated(u) THEN Idle ELSE Chosen("launch", u))
    BY <1>1, <1>5, ChooseTypes
  <2>2. UNCHANGED <<url, refs, running, published, leftover>>
    BY <1>5, <2>1 DEF Choose, objectVars, Miscount
  <2>3. Objects' = Objects /\ Sources' = Sources
    BY <2>2, SameSources
  <2>4. thread[t].at = "choose" /\ Chosen("launch", u).at = "start"
    BY <2>1, JobFacts, ChosenFacts
  <2>5. \A o \in Consumers : \A n : Owns(o, n)' <=> Owns(o, n)
    BY <2>1, <2>4, SameOwners, ThreadSets
  <2>6. QED
    BY <1>1, <2>2, <2>3, <2>5, RecvQuiet
<1>6. ASSUME NEW t \in Threads, StartRetranslator(t) PROVE RecvInv'
  <2>1. UNCHANGED <<url, refs, running, published, leftover>>
    BY <1>6 DEF StartRetranslator, objectVars, Miscount
  <2>2. Objects' = Objects /\ Sources' = Sources
    BY <2>1, SameSources
  <2>3. \A o \in Consumers : \A n : Owns(o, n)' <=> Owns(o, n)
    <3>1. /\ At(t, "start") /\ thread'[t] = Idle
          /\ \A o \in Threads \ {t} :
                \/ thread'[o] = thread[o]
                \/ At(o, "start") /\ At(o, "start")'
      BY <1>1, <1>6, StartFacts
    <3>2. QED
      BY <3>1, ThreadSets DEF Owns, At
  <2>4. QED
    BY <1>1, <2>1, <2>2, <2>3, RecvQuiet
<1>7. ASSUME NEW n \in Objects, Lose(n) PROVE RecvInv'
  <2>1. UNCHANGED <<url, refs, published, leftover, thread>> /\ running' \subseteq running
    BY <1>7 DEF Lose, clientVars, history
  <2>2. Objects' = Objects /\ Sources' = Sources
    BY <2>1, SameSources
  <2>3. \A o \in Consumers : \A m : Owns(o, m)' <=> Owns(o, m)
    BY <2>1 DEF Owns, At
  <2>4. QED
    BY <1>1, <2>1, <2>2, <2>3, RecvQuiet
<1>8. ASSUME NEW n \in Objects, ComeBack(n) PROVE RecvInv'
  <2>1. UNCHANGED <<url, refs, published, leftover>> /\ running' = running \cup {n}
        /\ n \in Sources /\ refs[n] > 0
    BY <1>8 DEF ComeBack, clientVars, history
  <2>2. Objects' = Objects /\ Sources' = Sources
    BY <2>1, SameSources
  <2>3. \A o \in Consumers : thread'[o] = thread[o]
    BY <1>1, <1>8, ComeBackTypes
  <2>4. \A o \in Consumers : \A m : Owns(o, m)' <=> Owns(o, m)
    BY <2>3 DEF Owns, At
  <2>5. \A m : Live(m)' <=> Live(m)
    BY <2>2, <2>4, SameLive
  <2>6. ReceiversLive'
    BY <1>1, <2>1, <2>5 DEF RecvInv, ReceiversLive, Live
  <2>7. OneLive'
    BY <1>1, <2>1, <2>2, <2>5, OneLiveKept DEF RecvInv
  <2>8. QED
    BY <2>6, <2>7 DEF RecvInv
<1>9. ASSUME NEW t \in Consumers, NEW u \in Urls, Leave(t, u) PROVE RecvInv'
  BY <1>1, <1>9, LeaveTypes, RecvDisconnect DEF Leave, history
<1>10. ASSUME NEW u \in Urls, StopRetranslation(u) PROVE RecvInv'
  BY <1>1, <1>10, StopTypes, RecvDisconnect, ThreadSets DEF StopRetranslation, Miscount
<1>11. CASE Next
  BY <1>1, <1>3, <1>4, <1>5, <1>6, <1>7, <1>8, <1>9, <1>10, <1>11, NextSteps, RecvShare,
     RecvCreate, RecvConnect, RecvAbort
<1>12. QED
  BY <1>1, <1>2, <1>11

(* A set whose elements are all equal.                                     *)
LEMMA AtMostOne ==
    ASSUME NEW S, \A x, y \in S : x = y
    PROVE  /\ IsFiniteSet(S) /\ Cardinality(S) \in {0, 1}
           /\ Cardinality(S) = 0 <=> S = {}
<1>1. CASE S = {}
  BY <1>1, FS_EmptySet
<1>2. CASE S # {}
  <2>1. PICK x : S = {x}
    BY <1>2
  <2>2. IsFiniteSet({x}) /\ Cardinality({x}) = 1
    BY FS_Singleton
  <2>3. QED
    BY <2>1, <2>2
<1>3. QED
  BY <1>1, <1>2

LEMMA RecvImplies == TypeInv /\ RecvInv => OneReceiver
<1>1. SUFFICES ASSUME TypeInv, RecvInv, NEW u \in Urls, u \notin leftover
               PROVE  Cardinality({n \in running : url[n] = u}) <= 1
  BY DEF OneReceiver
<1>2. running \subseteq Objects
  BY <1>1 DEF TypeInv, ObjectTypes
<1>3. \A n, m \in {k \in running : url[k] = u} : n = m
  BY <1>1, <1>2 DEF RecvInv, ReceiversLive, OneLive
<1>4. Cardinality({n \in running : url[n] = u}) \in {0, 1}
  BY <1>3, AtMostOne
<1>5. QED
  BY <1>4

-----------------------------------------------------------------------------
(* Ports.  A pair that is chosen is free, so a retranslator gets one that  *)
(* another has or gets only if both were being started at once, or behind  *)
(* the range.                                                              *)
Meets(t) ==
    \A r \in rtsp : r.port = thread[t].port /\ r.port <= RangeEnd =>
                       r.raced /\ thread[t].raced
PortInv ==
    /\ \A t \in Threads : At(t, "start") => Meets(t)
    /\ \A r, s \in rtsp : r.url # s.url /\ r.port = s.port /\ r.port <= RangeEnd =>
                             r.raced /\ s.raced

LEMMA PortQuiet ==
    ASSUME PortInv, rtsp' \subseteq rtsp, NEW t \in Threads, NEW job, Becomes(t, job),
           job = Idle \/ job.at # "start"
    PROVE  PortInv'
<1>1. ASSUME NEW o \in Threads, At(o, "start")' PROVE Meets(o)'
  <2>1. o # t /\ thread'[o] = thread[o]
    BY <1>1 DEF Becomes, At
  <2>2. Meets(o)
    BY <1>1, <2>1 DEF PortInv, At
  <2>3. QED
    BY <2>1, <2>2 DEF Meets
<1>2. QED
  BY <1>1 DEF PortInv

LEMMA PortChosen ==
    ASSUME TypeInv, PortInv, rtsp' = rtsp, NEW t \in Threads, NEW u \in Urls,
           NEW op \in {"launch", "restore"}, Becomes(t, Chosen(op, u))
    PROVE  PortInv'
<1>1. ASSUME NEW o \in Threads, At(o, "start")' PROVE Meets(o)'
  <2>1. CASE o # t
    <3>1. thread'[o] = thread[o]
      BY <2>1 DEF Becomes
    <3>2. Meets(o)
      BY <1>1, <3>1 DEF PortInv, At
    <3>3. QED
      BY <3>1, <3>2 DEF Meets
  <2>2. CASE o = t
    <3>1. thread'[o].port = FreePort
      BY <2>2, ChosenFacts DEF Becomes
    <3>2. FreePort \in Nat /\ RangeEnd \in Nat
      BY FreePortFacts, SlotFacts, ManagerAssumption DEF ManagerAssumption
    <3>3. QED
      BY <3>1, <3>2, FreePortFacts DEF Meets
  <2>3. QED
    BY <2>1, <2>2
<1>2. QED
  BY <1>1 DEF PortInv

LEMMA PortStart ==
    ASSUME TypeInv, PortInv, NEW t \in Threads, StartRetranslator(t)
    PROVE  PortInv'
<1> DEFINE new == [url |-> thread[t].url, port |-> thread[t].port,
                   raced |-> thread[t].raced \/ Starting(t) # {}]
<1>1. rtsp' = rtsp \/ rtsp' = rtsp \cup {new}
  BY DEF StartRetranslator
<1>2. /\ At(t, "start") /\ thread'[t] = Idle
      /\ \A o \in Threads \ {t} :
            \/ thread'[o] = thread[o] /\ ~ At(o, "start")
            \/ At(o, "start") /\ thread'[o].raced = TRUE /\ thread'[o].port = thread[o].port
  BY StartFacts
<1>3. new.port = thread[t].port /\ new.raced = (thread[t].raced \/ Starting(t) # {})
  BY Zenon
<1>. HIDE DEF new
<1>4. \A o \in Threads \ {t} : At(o, "start")' => At(o, "start") /\ Starting(t) # {}
  BY <1>2 DEF Starting, At
<1>5. ASSUME NEW o \in Threads, At(o, "start")' PROVE Meets(o)'
  <2>1. o # t /\ At(o, "start") /\ Starting(t) # {}
    BY <1>2, <1>4, <1>5 DEF At
  <2>2. thread'[o].raced = TRUE /\ thread'[o].port = thread[o].port
    BY <1>2, <2>1
  <2>3. Meets(o)
    BY <2>1 DEF PortInv
  <2>4. new.raced
    BY <1>3, <2>1
  <2>5. QED
    BY <1>1, <2>2, <2>3, <2>4 DEF Meets
<1>6. Meets(t)
  BY <1>2 DEF PortInv
<1>7. \A s \in rtsp : s.port = new.port /\ s.port <= RangeEnd => s.raced /\ new.raced
  BY <1>3, <1>6 DEF Meets
<1>8. \A r, s \in rtsp' : r.url # s.url /\ r.port = s.port /\ r.port <= RangeEnd =>
                             r.raced /\ s.raced
  BY <1>1, <1>7 DEF PortInv
<1>9. QED
  BY <1>5, <1>8 DEF PortInv

LEMMA PortStep == TypeInv /\ PortInv /\ [Next]_vars => PortInv'
<1>1. SUFFICES ASSUME TypeInv, PortInv, [Next]_vars PROVE PortInv'
  OBVIOUS
<1>2. ThreadTypes /\ Consumers \subseteq Threads /\ Main \in Consumers /\ Retry \in Threads
  BY <1>1, ThreadSets DEF TypeInv
<1>3. ASSUME thread' = thread, rtsp' \subseteq rtsp PROVE PortInv'
  BY <1>1, <1>3 DEF PortInv, Meets, At
<1>4. ASSUME NEW t \in Consumers, NEW u \in Urls, NEW op \in {"use", "launch"},
             Share(t, op, u) \/ NotFound(t, op, u)
      PROVE  PortInv'
  <2>1. CASE Share(t, op, u)
    <3>1. Connected(t, op, u) /\ rtsp' = rtsp /\ Objects' = Objects
      BY <2>1 DEF Share, Objects
    <3>2. PICK job : Becomes(t, job) /\ (job = Idle \/ job.at = "observe")
      BY <1>1, <3>1, ConnectedTypes
    <3>3. QED
      BY <1>1, <1>2, <3>1, <3>2, PortQuiet
  <2>2. CASE NotFound(t, op, u)
    <3>1. thread' = [thread EXCEPT ![t] = Job(op, u, "create")] /\ rtsp' = rtsp
      BY <2>2 DEF NotFound
    <3>2. Becomes(t, Job(op, u, "create"))
      BY <1>2, <3>1, BecomesFacts
    <3>3. Job(op, u, "create").at = "create"
      BY JobFacts
    <3>4. QED
      BY <1>1, <1>2, <3>1, <3>2, <3>3, PortQuiet
  <2>3. QED
    BY <1>4, <2>1, <2>2
<1>5. ASSUME NEW t \in Consumers, Create(t) PROVE PortInv'
  <2>1. PICK u \in Urls, op \in {"use", "launch"} :
           thread' = [thread EXCEPT ![t] = ConnectJob(op, u, "connect", Len(url) + 1)]
    BY <1>1, <1>5, CreateFacts
  <2>2. Becomes(t, ConnectJob(op, u, "connect", Len(url) + 1))
    BY <1>2, <2>1, BecomesFacts
  <2>3. rtsp' = rtsp /\ ConnectJob(op, u, "connect", Len(url) + 1).at = "connect"
    BY <1>5, JobFacts DEF Create
  <2>4. QED
    BY <1>1, <1>2, <2>2, <2>3, PortQuiet
<1>6. ASSUME NEW t \in Consumers, ConnectOk(t) PROVE PortInv'
  <2>1. PICK op, u, n : Becomes(t, ConnectJob(op, u, "publish", n))
    BY <1>1, <1>6, ConnectOkTypes
  <2>2. rtsp' = rtsp /\ ConnectJob(op, u, "publish", n).at = "publish"
    BY <1>6, JobFacts DEF ConnectOk
  <2>3. QED
    BY <1>1, <1>2, <2>1, <2>2, PortQuiet
<1>7. ASSUME NEW t \in Consumers, ConnectFails(t) \/ Abort(t) PROVE PortInv'
  <2>1. Becomes(t, Idle)
    BY <1>1, <1>7, ConnectFailsTypes, AbortTypes
  <2>2. rtsp' \subseteq rtsp
    BY <1>7 DEF ConnectFails, Abort
  <2>3. QED
    BY <1>1, <1>2, <2>1, <2>2, PortQuiet
<1>8. ASSUME NEW t \in Consumers, Publish(t) PROVE PortInv'
  <2>1. PICK op \in {"use", "launch"}, u \in Urls : Connected(t, op, u)
    BY <1>1, <1>8, PublishTypes
  <2>2. rtsp' = rtsp /\ Objects' = Objects
    BY <1>8 DEF Publish, Objects
  <2>3. PICK job : Becomes(t, job) /\ (job = Idle \/ job.at = "observe")
    BY <1>1, <2>1, <2>2, ConnectedTypes
  <2>4. QED
    BY <1>1, <1>2, <2>2, <2>3, PortQuiet
<1>9. ASSUME NEW t \in Consumers, Observe(t) PROVE PortInv'
  <2>1. PICK u \in Urls : Becomes(t, Job("launch", u, "choose"))
    BY <1>1, <1>9, ObserveTypes
  <2>2. rtsp' = rtsp /\ Job("launch", u, "choose").at = "choose"
    BY <1>9, JobFacts DEF Observe
  <2>3. QED
    BY <1>1, <1>2, <2>1, <2>2, PortQuiet
<1>10. ASSUME NEW t \in Consumers, Choose(t) PROVE PortInv'
  <2>1. PICK u \in Urls : Becomes(t, IF Retranslated(u) THEN Idle ELSE Chosen("launch", u))
    BY <1>1, <1>10, ChooseTypes
  <2>2. rtsp' = rtsp
    BY <1>10 DEF Choose
  <2>3. CASE Becomes(t, Idle)
    BY <1>1, <1>2, <2>2, <2>3, PortQuiet
  <2>4. CASE Becomes(t, Chosen("launch", u))
    BY <1>1, <1>2, <2>2, <2>4, PortChosen
  <2>5. QED
    BY <2>1, <2>3, <2>4
<1>11. ASSUME NEW n \in Objects, Lose(n) PROVE PortInv'
  <2>1. thread' = thread /\ rtsp' \subseteq rtsp
    BY <1>11 DEF Lose
  <2>2. QED
    BY <1>3, <2>1
<1>12. ASSUME NEW n \in Objects, ComeBack(n) PROVE PortInv'
  <2>1. rtsp' = rtsp /\ (thread' = thread \/ Becomes(Retry, Chosen("restore", url[n])))
    BY <1>1, <1>12, ComeBackTypes DEF ComeBack
  <2>2. url[n] \in Urls
    BY <1>1, ObjectFacts DEF TypeInv
  <2>3. QED
    BY <1>1, <1>2, <1>3, <2>1, <2>2, PortChosen
<1>13. ASSUME NEW t \in Consumers, NEW u \in Urls, NEW op \in {"leave", "stop"},
              Disconnected(t, op, u)
       PROVE  PortInv'
  <2>1. Becomes(t, Job(op, u, "abort")) /\ rtsp' = rtsp /\ Job(op, u, "abort").at = "abort"
    BY <1>13, JobFacts DEF Disconnected
  <2>2. QED
    BY <1>1, <1>2, <2>1, PortQuiet
<1>14. ASSUME UNCHANGED vars PROVE PortInv'
  BY <1>3, <1>14 DEF vars
<1>15. CASE Next
  BY <1>1, <1>2, <1>4, <1>5, <1>6, <1>7, <1>8, <1>9, <1>10, <1>11, <1>12, <1>13, <1>15,
     NextSteps, PortStart, LeaveTypes, StopTypes
<1>16. QED
  BY <1>1, <1>14, <1>15

LEMMA PortImplies == TypeInv /\ PortInv => PairsDisjoint
<1>1. SUFFICES ASSUME TypeInv, PortInv, NEW r \in rtsp, NEW s \in rtsp
               PROVE  /\ r.port <= RangeEnd + 2
                      /\ r.url # s.url /\ r.port <= RangeEnd /\ ~ (r.raced /\ s.raced) =>
                             r.port >= s.port + 2 \/ s.port >= r.port + 2
  BY DEF PairsDisjoint
<1>2. r.port \in Slots /\ s.port \in Slots
  BY <1>1 DEF TypeInv, RtspTypes
<1>3. QED
  BY <1>1, <1>2, SlotFacts DEF PortInv

-----------------------------------------------------------------------------
(* Bounds.  A consumer that is about to create an object, or to hold a     *)
(* source, is counted in advance.                                          *)
Creators == {o \in Consumers : At(o, "create")}
Takers(u) ==
    {o \in Consumers : /\ At(o, "create") \/ At(o, "connect") \/ At(o, "publish")
                       /\ thread[o].op = "use" /\ thread[o].url = u}
BoundInv ==
    /\ Len(url) + Cardinality(Creators) <= MaxObjects
    /\ \A u \in Urls : held[u] + Cardinality(Takers(u)) <= MaxHeld + Cardinality(Consumers)

LEMMA FiniteConsumers ==
    /\ IsFiniteSet(Consumers) /\ Cardinality(Consumers) \in Nat
    /\ \A S \in SUBSET Consumers :
          /\ IsFiniteSet(S) /\ Cardinality(S) \in Nat
          /\ Cardinality(S) <= Cardinality(Consumers)
<1>1. IsFiniteSet(Workers)
  BY ManagerAssumption DEF ManagerAssumption
<1>2. IsFiniteSet(Workers \cup {Main})
  BY <1>1, FS_AddElement
<1>3. Consumers = Workers \cup {Main}
  BY DEF Consumers
<1>4. IsFiniteSet(Consumers)
  BY <1>2, <1>3
<1>5. QED
  BY <1>4, FS_Subset, FS_CardinalityType

LEMMA SetFacts ==
    ASSUME NEW S \in SUBSET Consumers
    PROVE  /\ \A T \in SUBSET S : Cardinality(T) <= Cardinality(S)
           /\ \A t \in Consumers :
                 /\ t \notin S => Cardinality(S \cup {t}) = Cardinality(S) + 1
                 /\ t \in S => Cardinality(S \ {t}) = Cardinality(S) - 1
<1>1. IsFiniteSet(S)
  BY FiniteConsumers
<1>2. \A T \in SUBSET S : Cardinality(T) <= Cardinality(S)
  BY <1>1, FS_Subset
<1>3. ASSUME NEW t \in Consumers
      PROVE  /\ t \notin S => Cardinality(S \cup {t}) = Cardinality(S) + 1
             /\ t \in S => Cardinality(S \ {t}) = Cardinality(S) - 1
  BY <1>1, FS_AddElement, FS_RemoveElement
<1>4. QED
  BY <1>2, <1>3

LEMMA BoundQuiet ==
    ASSUME TypeInv, BoundInv, url' = url, held' \in [Urls -> Nat],
           \A u \in Urls : held'[u] <= held[u],
           Creators' \subseteq Creators, \A u \in Urls : Takers(u)' \subseteq Takers(u)
    PROVE  BoundInv'
<1>1. held \in [Urls -> Nat] /\ MaxObjects \in Nat /\ MaxHeld \in Nat /\ Len(url) \in Nat
  BY ManagerAssumption, ObjectFacts DEF ManagerAssumption, TypeInv, ClientTypes
<1>2. Creators \subseteq Consumers /\ \A u \in Urls : Takers(u) \subseteq Consumers
  BY DEF Creators, Takers
<1>3. /\ Cardinality(Creators') <= Cardinality(Creators)
      /\ Cardinality(Creators) \in Nat /\ Cardinality(Creators') \in Nat
  BY <1>2, SetFacts, FiniteConsumers
<1>4. Len(url') + Cardinality(Creators') <= MaxObjects
  BY <1>1, <1>3 DEF BoundInv
<1>5. ASSUME NEW u \in Urls
      PROVE  held'[u] + Cardinality(Takers(u)') <= MaxHeld + Cardinality(Consumers)
  <2>1. /\ Cardinality(Takers(u)') <= Cardinality(Takers(u))
        /\ Cardinality(Takers(u)) \in Nat /\ Cardinality(Takers(u)') \in Nat
    BY <1>2, SetFacts, FiniteConsumers
  <2>2. held[u] + Cardinality(Takers(u)) <= MaxHeld + Cardinality(Consumers)
    BY DEF BoundInv
  <2>3. held[u] \in Nat /\ held'[u] \in Nat /\ held'[u] <= held[u]
        /\ Cardinality(Consumers) \in Nat
    BY <1>1, FiniteConsumers
  <2>4. QED
    BY <1>1, <2>1, <2>2, <2>3
<1>6. QED
  BY <1>4, <1>5 DEF BoundInv

(* Nobody is counted in advance who was not.                               *)
LEMMA BoundSets ==
    ASSUME NEW t \in Threads, NEW job, Becomes(t, job),
           job = Idle \/ job.at \notin {"create", "connect", "publish"}
    PROVE  /\ Creators' = Creators \ {t}
           /\ \A u : Takers(u)' = Takers(u) \ {t}
<1>1. /\ thread'[t] = job /\ \A o \in Consumers \ {t} : thread'[o] = thread[o]
  BY ThreadSets DEF Becomes
<1>2. QED
  BY <1>1 DEF Creators, Takers, At

(* The answer of connectSource.                                            *)
LEMMA BoundConnected ==
    ASSUME TypeInv, BoundInv, NEW t \in Consumers, NEW u \in Urls, NEW op \in {"use", "launch"},
           Connected(t, op, u), url' = url,
           op = "use" => t \in Takers(u) \/ held[u] < MaxHeld
    PROVE  BoundInv'
<1>1. ThreadTypes /\ t \in Threads /\ held \in [Urls -> Nat] /\ MaxObjects \in Nat
      /\ MaxHeld \in Nat /\ Len(url) \in Nat
  BY ThreadSets, ManagerAssumption, ObjectFacts DEF ManagerAssumption, TypeInv, ClientTypes
<1>2. CASE op = "launch"
  <2>1. Becomes(t, Job(op, u, "observe")) /\ held' = held
    BY <1>1, <1>2, ConnectedFacts
  <2>2. Job(op, u, "observe").at = "observe"
    BY JobFacts
  <2>3. Creators' \subseteq Creators /\ \A v \in Urls : Takers(v)' \subseteq Takers(v)
    BY <1>1, <2>1, <2>2, BoundSets
  <2>4. QED
    BY <1>1, <2>1, <2>3, BoundQuiet
<1>3. CASE op = "use"
  <2>1. Becomes(t, Idle) /\ held' = [held EXCEPT ![u] = held[u] + 1]
    BY <1>1, <1>3, ConnectedFacts
  <2>2. Creators' \subseteq Creators /\ \A v \in Urls : Takers(v)' = Takers(v) \ {t}
    BY <1>1, <2>1, BoundSets
  <2>3. Len(url') + Cardinality(Creators') <= MaxObjects
    <3>1. /\ Cardinality(Creators') <= Cardinality(Creators)
          /\ Cardinality(Creators) \in Nat /\ Cardinality(Creators') \in Nat
      BY <2>2, SetFacts, FiniteConsumers DEF Creators
    <3>2. QED
      BY <1>1, <3>1 DEF BoundInv
  <2>4. ASSUME NEW v \in Urls
        PROVE  held'[v] + Cardinality(Takers(v)') <= MaxHeld + Cardinality(Consumers)
    <3>1. Takers(v) \in SUBSET Consumers /\ Takers(v)' \in SUBSET Consumers
      BY DEF Takers
    <3>2. /\ Cardinality(Takers(v)) \in Nat /\ Cardinality(Takers(v)') \in Nat
          /\ Cardinality(Takers(v)') <= Cardinality(Consumers) /\ Cardinality(Consumers) \in Nat
          /\ Cardinality(Takers(v)') <= Cardinality(Takers(v))
          /\ t \in Takers(v) => Cardinality(Takers(v)') = Cardinality(Takers(v)) - 1
      BY <2>2, <3>1, SetFacts, FiniteConsumers
    <3>3. held[v] + Cardinality(Takers(v)) <= MaxHeld + Cardinality(Consumers)
      BY DEF BoundInv
    <3>4. held[v] \in Nat /\ held'[v] = IF v = u THEN held[v] + 1 ELSE held[v]
      BY <1>1, <2>1
    <3>5. CASE v = u
      BY <1>1, <1>3, <3>2, <3>3, <3>4, <3>5
    <3>6. CASE v # u
      BY <1>1, <3>2, <3>3, <3>4, <3>6
    <3>7. QED
      BY <3>5, <3>6
  <2>5. QED
    BY <2>3, <2>4 DEF BoundInv
<1>4. QED
  BY <1>2, <1>3

LEMMA BoundNotFound ==
    ASSUME TypeInv, BoundInv, NEW t \in Consumers, NEW u \in Urls, NEW op \in {"use", "launch"},
           NotFound(t, op, u)
    PROVE  BoundInv'
<1>1. /\ url' = url /\ held' = held /\ thread[t] = Idle
      /\ thread' = [thread EXCEPT ![t] = Job(op, u, "create")]
      /\ Len(url) + Cardinality(Creators) < MaxObjects
      /\ op = "use" => held[u] < MaxHeld
  BY DEF NotFound, Calls, objectVars, clientVars, Creators
<1>2. ThreadTypes /\ t \in Threads /\ held \in [Urls -> Nat] /\ MaxObjects \in Nat
      /\ MaxHeld \in Nat /\ Len(url) \in Nat
  BY ThreadSets, ManagerAssumption, ObjectFacts DEF ManagerAssumption, TypeInv, ClientTypes
<1>3. Becomes(t, Job(op, u, "create"))
  BY <1>1, <1>2, BecomesFacts
<1>4. /\ thread'[t] # Idle /\ thread'[t].at = "create"
      /\ thread'[t].op = op /\ thread'[t].url = u
      /\ \A o \in Consumers \ {t} : thread'[o] = thread[o]
  BY <1>3, JobFacts, ThreadSets DEF Becomes
<1>5. /\ Creators' = Creators \cup {t} /\ t \notin Creators
      /\ \A v : t \notin Takers(v)
      /\ \A v : Takers(v)' = IF op = "use" /\ v = u THEN Takers(v) \cup {t} ELSE Takers(v)
  BY <1>1, <1>4 DEF Creators, Takers, At
<1>6. Len(url') + Cardinality(Creators') <= MaxObjects
  <2>1. Creators \in SUBSET Consumers
    BY DEF Creators
  <2>2. Cardinality(Creators') = Cardinality(Creators) + 1 /\ Cardinality(Creators) \in Nat
    BY <1>5, <2>1, SetFacts, FiniteConsumers
  <2>3. QED
    BY <1>1, <1>2, <2>2
<1>7. ASSUME NEW v \in Urls
      PROVE  held'[v] + Cardinality(Takers(v)') <= MaxHeld + Cardinality(Consumers)
  <2>1. held[v] + Cardinality(Takers(v)) <= MaxHeld + Cardinality(Consumers)
    BY DEF BoundInv
  <2>2. CASE op = "use" /\ v = u
    <3>1. Takers(v)' \in SUBSET Consumers
      BY DEF Takers
    <3>2. Cardinality(Takers(v)') <= Cardinality(Consumers)
          /\ Cardinality(Takers(v)') \in Nat /\ Cardinality(Consumers) \in Nat
      BY <3>1, FiniteConsumers
    <3>3. held'[v] \in Nat /\ held'[v] < MaxHeld
      BY <1>1, <1>2, <2>2
    <3>4. QED
      BY <1>2, <3>2, <3>3
  <2>3. CASE ~ (op = "use" /\ v = u)
    <3>1. Takers(v)' = Takers(v)
      BY <1>5, <2>3
    <3>2. QED
      BY <1>1, <2>1, <3>1
  <2>4. QED
    BY <2>2, <2>3
<1>8. QED
  BY <1>6, <1>7 DEF BoundInv

LEMMA BoundCreate ==
    ASSUME TypeInv, BoundInv, NEW t \in Consumers, Create(t)
    PROVE  BoundInv'
<1> DEFINE n == Len(url) + 1
<1>1. PICK u \in Urls, op \in {"use", "launch"} :
         /\ thread[t] = Job(op, u, "create")
         /\ thread' = [thread EXCEPT ![t] = ConnectJob(op, u, "connect", n)]
  BY CreateFacts
<1>2. url' = Append(url, thread[t].url) /\ held' = held /\ thread[t].url = u
  BY <1>1, JobFacts DEF Create
<1>3. url \in Seq(Urls) /\ Len(url) \in Nat /\ ThreadTypes /\ t \in Threads /\ MaxObjects \in Nat
  BY ObjectFacts, ThreadSets, ManagerAssumption DEF ManagerAssumption, TypeInv, ObjectTypes
<1>4. Len(url') = Len(url) + 1
  BY <1>2, <1>3
<1>5. Becomes(t, ConnectJob(op, u, "connect", n))
  BY <1>1, <1>3, BecomesFacts
<1>. HIDE DEF n
<1>6. /\ thread'[t] # Idle /\ thread'[t].at = "connect"
      /\ thread'[t].op = op /\ thread'[t].url = u
      /\ \A o \in Consumers \ {t} : thread'[o] = thread[o]
  BY <1>5, JobFacts, ThreadSets DEF Becomes
<1>7. thread[t] # Idle /\ thread[t].at = "create" /\ thread[t].op = op
  BY <1>1, JobFacts
<1>8. /\ Creators' = Creators \ {t} /\ t \in Creators
      /\ \A v : Takers(v)' = Takers(v)
  BY <1>2, <1>6, <1>7 DEF Creators, Takers, At
<1>9. Len(url') + Cardinality(Creators') <= MaxObjects
  <2>1. Creators \in SUBSET Consumers
    BY DEF Creators
  <2>2. Cardinality(Creators') = Cardinality(Creators) - 1 /\ Cardinality(Creators) \in Nat
    BY <1>8, <2>1, SetFacts, FiniteConsumers
  <2>3. QED
    BY <1>3, <1>4, <2>2 DEF BoundInv
<1>10. QED
  BY <1>2, <1>8, <1>9 DEF BoundInv

LEMMA BoundStep == TypeInv /\ BoundInv /\ [Next]_vars => BoundInv'
<1>1. SUFFICES ASSUME TypeInv, BoundInv, [Next]_vars PROVE BoundInv'
  OBVIOUS
<1>2. ThreadTypes /\ Consumers \subseteq Threads /\ Main \in Consumers /\ Retry \in Threads
      /\ held \in [Urls -> Nat] /\ \A v \in Urls : held[v] <= held[v]
  BY <1>1, ThreadSets DEF TypeInv, ClientTypes
<1>3. ASSUME url' = url, held' = held, \A o \in Consumers : thread'[o] = thread[o]
      PROVE  BoundInv'
  BY <1>1, <1>2, <1>3, BoundQuiet DEF Creators, Takers, At
<1>4. ASSUME url' = url, held' = held, NEW t \in Threads, NEW job, Becomes(t, job),
             job = Idle \/ job.at \notin {"create", "connect", "publish"}
      PROVE  BoundInv'
  <2>1. Creators' \subseteq Creators /\ \A v \in Urls : Takers(v)' \subseteq Takers(v)
    BY <1>4, BoundSets
  <2>2. QED
    BY <1>1, <1>2, <1>4, <2>1, BoundQuiet
<1>5. ASSUME NEW t \in Consumers, NEW u \in Urls, NEW op \in {"use", "launch"}, Share(t, op, u)
      PROVE  BoundInv'
  <2>1. Connected(t, op, u) /\ url' = url /\ (op = "use" => held[u] < MaxHeld)
    BY <1>5 DEF Share, Calls
  <2>2. QED
    BY <1>1, <2>1, BoundConnected
<1>6. ASSUME NEW t \in Consumers, ConnectOk(t) PROVE BoundInv'
  <2>1. PICK op, u, n : thread[t] = ConnectJob(op, u, "connect", n)
                        /\ Becomes(t, ConnectJob(op, u, "publish", n))
    BY <1>1, <1>6, ConnectOkTypes
  <2>2. /\ thread[t] # Idle /\ thread[t].at = "connect" /\ thread'[t] # Idle
        /\ thread'[t].at = "publish" /\ thread'[t].op = thread[t].op
        /\ thread'[t].url = thread[t].url
        /\ \A o \in Consumers \ {t} : thread'[o] = thread[o]
    BY <2>1, JobFacts, ThreadSets DEF Becomes
  <2>3. Creators' = Creators /\ \A v : Takers(v)' = Takers(v)
    BY <2>2 DEF Creators, Takers, At
  <2>4. url' = url /\ held' = held
    BY <1>6 DEF ConnectOk, clientVars
  <2>5. QED
    BY <1>1, <1>2, <2>3, <2>4, BoundQuiet
<1>7. ASSUME NEW t \in Consumers, ConnectFails(t) \/ Abort(t) PROVE BoundInv'
  <2>1. Becomes(t, Idle)
    BY <1>1, <1>7, ConnectFailsTypes, AbortTypes
  <2>2. url' = url /\ held' = held
    BY <1>7 DEF ConnectFails, Abort
  <2>3. QED
    BY <1>2, <1>4, <2>1, <2>2
<1>8. ASSUME NEW t \in Consumers, Publish(t) PROVE BoundInv'
  <2>1. PICK op \in {"use", "launch"}, u \in Urls, n \in Objects :
           thread[t] = ConnectJob(op, u, "publish", n) /\ Connected(t, op, u)
    BY <1>1, <1>8, PublishTypes
  <2>2. op = "use" => t \in Takers(u)
    BY <2>1, JobFacts DEF Takers, At
  <2>3. url' = url
    BY <1>8 DEF Publish
  <2>4. QED
    BY <1>1, <2>1, <2>2, <2>3, BoundConnected
<1>9. ASSUME NEW t \in Consumers, Observe(t) PROVE BoundInv'
  <2>1. PICK u \in Urls : Becomes(t, Job("launch", u, "choose"))
    BY <1>1, <1>9, ObserveTypes
  <2>2. url' = url /\ held' = held /\ Job("launch", u, "choose").at = "choose"
    BY <1>9, JobFacts DEF Observe, clientVars
  <2>3. QED
    BY <1>2, <1>4, <2>1, <2>2
<1>10. ASSUME NEW t \in Consumers, Choose(t) PROVE BoundInv'
  <2>1. PICK u \in Urls : Becomes(t, IF Retranslated(u) THEN Idle ELSE Chosen("launch", u))
    BY <1>1, <1>10, ChooseTypes
  <2>2. url' = url /\ held' = held /\ Chosen("launch", u).at = "start"
    BY <1>10, ChosenFacts DEF Choose, objectVars
  <2>3. QED
    BY <1>2, <1>4, <2>1, <2>2
<1>11. ASSUME NEW t \in Threads, StartRetranslator(t) PROVE BoundInv'
  <2>1. url' = url /\ held' = held
    BY <1>11 DEF StartRetranslator, objectVars
  <2>2. /\ thread'[t] = Idle
        /\ \A o \in Threads \ {t} : \/ thread'[o] = thread[o]
                                    \/ At(o, "start") /\ At(o, "start")'
    BY <1>1, <1>11, StartFacts
  <2>3. Creators' \subseteq Creators /\ \A v \in Urls : Takers(v)' \subseteq Takers(v)
    BY <1>2, <2>2 DEF Creators, Takers, At
  <2>4. QED
    BY <1>1, <1>2, <2>1, <2>3, BoundQuiet
<1>12. ASSUME NEW n \in Objects, Lose(n) \/ ComeBack(n) PROVE BoundInv'
  <2>1. url' = url /\ held' = held
    BY <1>12 DEF Lose, ComeBack, clientVars
  <2>2. \A o \in Consumers : thread'[o] = thread[o]
    BY <1>1, <1>12, ComeBackTypes DEF Lose
  <2>3. QED
    BY <1>3, <2>1, <2>2
<1>13. ASSUME NEW t \in Consumers, NEW u \in Urls, Leave(t, u) PROVE BoundInv'
  <2>1. /\ Becomes(t, Job("leave", u, "abort")) /\ url' = url
        /\ Job("leave", u, "abort").at = "abort"
    BY <1>1, <1>13, LeaveTypes, JobFacts DEF Disconnected
  <2>2. held[u] > 0 /\ held' = [held EXCEPT ![u] = held[u] - 1]
    BY <1>13 DEF Leave
  <2>3. held' \in [Urls -> Nat] /\ \A v \in Urls : held'[v] <= held[v]
    BY <1>2, <2>2
  <2>4. Creators' \subseteq Creators /\ \A v \in Urls : Takers(v)' \subseteq Takers(v)
    BY <1>2, <2>1, BoundSets
  <2>5. QED
    BY <1>1, <2>1, <2>3, <2>4, BoundQuiet
<1>14. ASSUME NEW u \in Urls, StopRetranslation(u) PROVE BoundInv'
  <2>1. /\ Becomes(Main, Job("stop", u, "abort")) /\ url' = url /\ held' = held
        /\ Job("stop", u, "abort").at = "abort"
    BY <1>1, <1>14, StopTypes, JobFacts DEF Disconnected, StopRetranslation
  <2>2. QED
    BY <1>2, <1>4, <2>1
<1>15. CASE UNCHANGED vars
  BY <1>3, <1>15 DEF vars, objectVars, clientVars
<1>16. CASE Next
  BY <1>1, <1>5, <1>6, <1>7, <1>8, <1>9, <1>10, <1>11, <1>12, <1>13, <1>14, <1>16,
     NextSteps, BoundNotFound, BoundCreate
<1>17. QED
  BY <1>1, <1>15, <1>16

LEMMA TypeImplies == TypeInv /\ BoundInv => TypeOK
<1>1. SUFFICES ASSUME TypeInv, BoundInv PROVE TypeOK
  OBVIOUS
<1>2. Len(url) \in Nat /\ MaxObjects \in Nat /\ MaxHeld \in Nat /\ Sources \subseteq Objects
  BY <1>1, ObjectFacts, ManagerAssumption DEF ManagerAssumption, TypeInv
<1>3. Len(url) <= MaxObjects
  <2>1. Cardinality(Creators) \in Nat
    BY FiniteConsumers DEF Creators
  <2>2. QED
    BY <1>1, <1>2, <2>1 DEF BoundInv
<1>4. held \in [Urls -> 0 .. MaxHeld + Cardinality(Consumers)]
  <2>1. ASSUME NEW u \in Urls PROVE held[u] \in 0 .. MaxHeld + Cardinality(Consumers)
    <3>1. Cardinality(Takers(u)) \in Nat /\ Cardinality(Consumers) \in Nat
      BY FiniteConsumers DEF Takers
    <3>2. held[u] \in Nat /\ held[u] + Cardinality(Takers(u)) <= MaxHeld + Cardinality(Consumers)
      BY <1>1 DEF TypeInv, ClientTypes, BoundInv
    <3>3. QED
      BY <1>2, <3>1, <3>2
  <2>2. QED
    BY <1>1, <2>1 DEF TypeInv, ClientTypes
<1>5. \A r \in rtsp : r.url \in Urls /\ r.port \in Nat /\ r.raced \in BOOLEAN
  BY <1>1, SlotFacts DEF TypeInv, RtspTypes
<1>6. QED
  BY <1>1, <1>2, <1>3, <1>4, <1>5 DEF TypeOK, TypeInv, ObjectTypes, ClientTypes

-----------------------------------------------------------------------------
(* Counts.  Those who hold a source: the consumers, its retranslation, and *)
(* the launches that have connected and not ended.                         *)
Launches(t, u) ==
    /\ At(t, "observe") \/ At(t, "choose") \/ (At(t, "start") /\ thread[t].op = "launch")
    /\ thread[t].url = u
Launching(u) == {t \in Consumers : Launches(t, u)}
Wants(u) == IF u \in wanted THEN 1 ELSE 0
Holders(u) == held[u] + Wants(u) + Cardinality(Launching(u))

(* What holds of a source whose count was not disturbed: it is published   *)
(* once, and only while it is held; its creator is alone.                  *)
CountOf(u) ==
    /\ \A n \in Published(u) : refs[n] = Holders(u)
    /\ Published(u) = {} <=> Holders(u) = 0
    /\ \A n, m \in Published(u) : n = m
    /\ \A t \in Consumers, n \in Objects : Owns(t, n) /\ url[n] = u =>
          /\ Published(u) = {}
          /\ \A o \in Consumers, m \in Objects : Owns(o, m) /\ url[m] = u => o = t
          /\ At(t, "publish") => refs[n] = 1
CountInv == \A u \in Urls : u \notin miscounted => CountOf(u)

LEMMA HolderTypes ==
    ASSUME TypeInv, NEW u \in Urls
    PROVE  /\ held[u] \in Nat /\ Wants(u) \in {0, 1} /\ Cardinality(Launching(u)) \in Nat
           /\ Launching(u) \in SUBSET Consumers /\ IsFiniteSet(Launching(u))
           /\ Holders(u) \in Nat
<1>1. Launching(u) \in SUBSET Consumers
  BY DEF Launching
<1>2. Cardinality(Launching(u)) \in Nat /\ IsFiniteSet(Launching(u))
  BY <1>1, FiniteConsumers
<1>3. held[u] \in Nat /\ Wants(u) \in {0, 1}
  BY DEF TypeInv, ClientTypes, Wants
<1>4. QED
  BY <1>1, <1>2, <1>3 DEF Holders

LEMMA SameHolders ==
    ASSUME NEW u, held'[u] = held[u], u \in wanted' <=> u \in wanted,
           \A o \in Consumers : Launches(o, u)' <=> Launches(o, u)
    PROVE  Holders(u)' = Holders(u)
<1>1. Launching(u)' = Launching(u)
  BY DEF Launching
<1>2. QED
  BY <1>1 DEF Holders, Wants

(* A step that is not about source u, or changes nothing that is counted.  *)
LEMMA CountKept ==
    ASSUME NEW u \in Urls, CountOf(u), url' = url, Objects' = Objects,
           Published(u)' = Published(u), Holders(u)' = Holders(u),
           \A n \in Published(u) : refs'[n] = refs[n],
           \A t \in Consumers, n \in Objects : Owns(t, n)' /\ url[n] = u =>
              Owns(t, n) /\ (At(t, "publish")' => At(t, "publish") /\ refs'[n] = refs[n])
    PROVE  CountOf(u)'
BY DEF CountOf

(* A thread that neither launches nor owns, before and after.              *)
LEMMA Bystander ==
    ASSUME NEW t \in Threads, NEW job, Becomes(t, job),
           job = Idle \/ job.at \in {"create", "abort"},
           thread[t] = Idle \/ thread[t].at \in {"create", "abort"}
    PROVE  /\ \A o \in Consumers : \A u : Launches(o, u)' <=> Launches(o, u)
           /\ \A o \in Consumers : \A n : Owns(o, n)' => Owns(o, n) /\ thread'[o] = thread[o]
<1>1. thread'[t] = job /\ \A o \in Consumers \ {t} : thread'[o] = thread[o]
  BY ThreadSets DEF Becomes
<1>2. \A u : ~ Launches(t, u) /\ ~ Launches(t, u)'
  BY <1>1 DEF Launches, At
<1>3. \A n : ~ Owns(t, n)'
  BY <1>1 DEF Owns, At
<1>4. \A o \in Consumers \ {t} : \A u : Launches(o, u)' <=> Launches(o, u)
  BY <1>1 DEF Launches, At
<1>5. \A o \in Consumers \ {t} : \A n : Owns(o, n)' => Owns(o, n) /\ thread'[o] = thread[o]
  BY <1>1 DEF Owns, At
<1>6. QED
  BY <1>2, <1>3, <1>4, <1>5

(* connectSource has answered: one more holds the source.                  *)
LEMMA OneMoreHolds ==
    ASSUME TypeInv, NEW t \in Consumers, NEW u \in Urls, NEW op \in {"use", "launch"},
           Connected(t, op, u), wanted' = wanted, \A v : ~ Launches(t, v)
    PROVE  /\ Holders(u)' = Holders(u) + 1
           /\ \A v \in Urls : v # u => Holders(v)' = Holders(v)
           /\ \A o \in Consumers : \A n :
                 Owns(o, n)' => o # t /\ Owns(o, n) /\ thread'[o] = thread[o]
<1>1. ThreadTypes /\ t \in Threads /\ held \in [Urls -> Nat]
  BY ThreadSets DEF TypeInv, ClientTypes
<1>2. \A v \in Urls : Holders(v) \in Nat /\ held[v] \in Nat /\ Wants(v) \in {0, 1}
         /\ IsFiniteSet(Launching(v)) /\ Cardinality(Launching(v)) \in Nat
  BY HolderTypes
<1>3. \A v : Wants(v)' = Wants(v)
  BY DEF Wants
<1>4. \A v : t \notin Launching(v)
  BY DEF Launching
<1>5. CASE op = "launch"
  <2>1. Becomes(t, Job("launch", u, "observe")) /\ held' = held
    BY <1>1, <1>5, ConnectedFacts
  <2>2. /\ thread'[t] # Idle /\ thread'[t].at = "observe" /\ thread'[t].url = u
        /\ \A o \in Consumers \ {t} : thread'[o] = thread[o]
    BY <2>1, JobFacts, ThreadSets DEF Becomes
  <2>3. \A v : Launches(t, v)' <=> v = u
    BY <2>2 DEF Launches, At
  <2>4. \A o \in Consumers \ {t} : \A v : Launches(o, v)' <=> Launches(o, v)
    BY <2>2 DEF Launches, At
  <2>5. \A v : Launching(v)' = IF v = u THEN Launching(v) \cup {t} ELSE Launching(v)
    BY <2>3, <2>4 DEF Launching
  <2>6. Cardinality(Launching(u)') = Cardinality(Launching(u)) + 1
    BY <1>2, <1>4, <2>5, FS_AddElement
  <2>7. Holders(u)' = Holders(u) + 1
    BY <1>2, <1>3, <2>1, <2>6 DEF Holders
  <2>8. \A v \in Urls : v # u => Holders(v)' = Holders(v)
    BY <1>3, <2>1, <2>5 DEF Holders
  <2>9. \A o \in Consumers : \A n : Owns(o, n)' => o # t /\ Owns(o, n) /\ thread'[o] = thread[o]
    BY <2>2 DEF Owns, At
  <2>10. QED
    BY <2>7, <2>8, <2>9
<1>6. CASE op = "use"
  <2>1. Becomes(t, Idle) /\ held' = [held EXCEPT ![u] = held[u] + 1]
    BY <1>1, <1>6, ConnectedFacts
  <2>2. thread'[t] = Idle /\ \A o \in Consumers \ {t} : thread'[o] = thread[o]
    BY <2>1, ThreadSets DEF Becomes
  <2>3. \A o \in Consumers : \A v : Launches(o, v)' <=> Launches(o, v)
    <3>1. \A v : ~ Launches(t, v)'
      BY <2>2 DEF Launches, At
    <3>2. \A o \in Consumers \ {t} : \A v : Launches(o, v)' <=> Launches(o, v)
      BY <2>2 DEF Launches, At
    <3>3. QED
      BY <3>1, <3>2
  <2>4. \A v : Launching(v)' = Launching(v)
    BY <2>3 DEF Launching
  <2>5. held'[u] = held[u] + 1 /\ \A v \in Urls : v # u => held'[v] = held[v]
    BY <1>1, <2>1
  <2>6. Holders(u)' = Holders(u) + 1
    BY <1>2, <1>3, <2>4, <2>5 DEF Holders
  <2>7. \A v \in Urls : v # u => Holders(v)' = Holders(v)
    BY <1>3, <2>4, <2>5 DEF Holders
  <2>8. \A o \in Consumers : \A n : Owns(o, n)' => o # t /\ Owns(o, n) /\ thread'[o] = thread[o]
    BY <2>2 DEF Owns, At
  <2>9. QED
    BY <2>6, <2>7, <2>8
<1>7. QED
  BY <1>5, <1>6

LEMMA CountShare ==
    ASSUME TypeInv, CountInv, NEW t \in Consumers, NEW u \in Urls, NEW op \in {"use", "launch"},
           Share(t, op, u)
    PROVE  CountInv'
<1>1. UNCHANGED <<url, published, wanted, miscounted>> /\ thread[t] = Idle /\ Connected(t, op, u)
  BY ShareFacts DEF Share, history
<1>2. Objects' = Objects /\ \A v : Published(v)' = Published(v)
  BY <1>1, SameSources
<1>3. \A v : ~ Launches(t, v)
  BY <1>1 DEF Launches, At
<1>4. /\ Holders(u)' = Holders(u) + 1
      /\ \A v \in Urls : v # u => Holders(v)' = Holders(v)
      /\ \A o \in Consumers : \A n : Owns(o, n)' => o # t /\ Owns(o, n) /\ thread'[o] = thread[o]
  BY <1>1, <1>3, OneMoreHolds
<1>5. PICK n \in Published(u) : n \in Objects /\ refs' = [refs EXCEPT ![n] = refs[n] + 1]
  BY ShareFacts
<1>6. refs'[n] = refs[n] + 1 /\ \A m \in Objects : m # n => refs'[m] = refs[m]
  BY <1>5 DEF TypeInv, ObjectTypes
<1>7. \A v : Published(v) \subseteq Objects
  BY ObjectFacts DEF TypeInv
<1>8. ASSUME NEW v \in Urls, v \notin miscounted' PROVE CountOf(v)'
  <2>1. CountOf(v)
    BY <1>1, <1>8 DEF CountInv
  <2>2. CASE v = u
    <3>1. Published(u) = {n} /\ refs[n] = Holders(u)
      BY <1>5, <2>1, <2>2 DEF CountOf
    <3>2. refs'[n] = Holders(u)' /\ Holders(u)' # 0
      <4>1. Holders(u) \in Nat
        BY HolderTypes
      <4>2. QED
        BY <1>4, <1>6, <3>1, <4>1
    <3>3. \A o \in Consumers, m \in Objects : ~ (Owns(o, m)' /\ url'[m] = u)
      BY <1>1, <1>4, <2>1, <2>2, <3>1 DEF CountOf
    <3>4. QED
      BY <1>2, <2>2, <3>1, <3>2, <3>3 DEF CountOf
  <2>3. CASE v # u
    <3>1. \A m \in Published(v) : refs'[m] = refs[m]
      BY <1>5, <1>6, <1>7, <2>3 DEF Published
    <3>2. \A o \in Consumers, m \in Objects : Owns(o, m)' /\ url[m] = v =>
             Owns(o, m) /\ (At(o, "publish")' => At(o, "publish") /\ refs'[m] = refs[m])
      BY <1>4, <1>5, <1>6, <2>3 DEF At, Published
    <3>3. QED
      BY <1>1, <1>2, <1>4, <2>1, <2>3, <3>1, <3>2, CountKept
  <2>4. QED
    BY <2>2, <2>3
<1>9. QED
  BY <1>8 DEF CountInv

LEMMA CountPublish ==
    ASSUME TypeInv, CountInv, NEW t \in Consumers, Publish(t)
    PROVE  CountInv'
<1>1. PICK op \in {"use", "launch"}, u \in Urls, n \in Objects :
         /\ thread[t] = ConnectJob(op, u, "publish", n) /\ Owns(t, n)
         /\ url[n] = u /\ Connected(t, op, u)
         /\ Published(u)' = Published(u) \cup {n}
         /\ \A v : v # u => Published(v)' = Published(v)
  BY PublishTypes
<1>2. UNCHANGED <<url, refs, wanted, miscounted>> /\ Objects' = Objects
  BY DEF Publish, history, Objects
<1>3. thread[t].at = "publish" /\ At(t, "publish")
  BY <1>1, JobFacts DEF At
<1>4. \A v : ~ Launches(t, v)
  BY <1>3 DEF Launches, At
<1>5. /\ Holders(u)' = Holders(u) + 1
      /\ \A v \in Urls : v # u => Holders(v)' = Holders(v)
      /\ \A o \in Consumers : \A m : Owns(o, m)' => o # t /\ Owns(o, m) /\ thread'[o] = thread[o]
  BY <1>1, <1>2, <1>4, OneMoreHolds
<1>6. ASSUME NEW v \in Urls, v \notin miscounted' PROVE CountOf(v)'
  <2>1. CountOf(v)
    BY <1>2, <1>6 DEF CountInv
  <2>2. CASE v = u
    <3>1. /\ Published(u) = {} /\ refs[n] = 1
          /\ \A o \in Consumers, m \in Objects : Owns(o, m) /\ url[m] = u => o = t
      BY <1>1, <1>3, <2>1, <2>2 DEF CountOf
    <3>2. Holders(u) = 0 /\ Published(u)' = {n}
      BY <1>1, <2>1, <2>2, <3>1 DEF CountOf
    <3>3. Holders(u)' = 1 /\ refs'[n] = 1
      BY <1>2, <1>5, <3>1, <3>2
    <3>4. \A o \in Consumers, m \in Objects : ~ (Owns(o, m)' /\ url'[m] = u)
      BY <1>2, <1>5, <3>1
    <3>5. QED
      BY <1>2, <2>2, <3>2, <3>3, <3>4 DEF CountOf
  <2>3. CASE v # u
    <3>1. \A o \in Consumers, m \in Objects : Owns(o, m)' /\ url[m] = v =>
             Owns(o, m) /\ (At(o, "publish")' => At(o, "publish") /\ refs'[m] = refs[m])
      BY <1>2, <1>5 DEF At
    <3>2. QED
      BY <1>1, <1>2, <1>5, <2>1, <2>3, <3>1, CountKept
  <2>4. QED
    BY <2>2, <2>3
<1>7. QED
  BY <1>6 DEF CountInv

LEMMA CountCreate ==
    ASSUME TypeInv, CountInv, NEW t \in Consumers, Create(t)
    PROVE  CountInv'
<1> DEFINE n == Len(url) + 1
<1>1. /\ n \notin Objects /\ Objects' = Objects \cup {n} /\ Sources' = Sources
      /\ \A m \in Objects : url'[m] = url[m] /\ refs'[m] = refs[m]
      /\ \A v : Published(v)' = Published(v)
  BY CreateFacts
<1>2. PICK u \in Urls, op \in {"use", "launch"} :
         /\ thread[t] = Job(op, u, "create") /\ thread[t].url = u
         /\ thread' = [thread EXCEPT ![t] = ConnectJob(op, u, "connect", n)]
         /\ url'[n] = u
  BY CreateFacts
<1>. HIDE DEF n
<1>3. ThreadTypes /\ ObjectTypes /\ OwnerInv /\ t \in Threads /\ held' = held /\ wanted' = wanted
  BY ThreadSets DEF TypeInv, Create
<1>4. Becomes(t, ConnectJob(op, u, "connect", n))
  BY <1>2, <1>3, BecomesFacts
<1>5. /\ thread'[t] # Idle /\ thread'[t].at = "connect" /\ thread'[t].object = n
      /\ \A o \in Consumers \ {t} : thread'[o] = thread[o]
      /\ thread[t].at = "create"
  BY <1>2, <1>4, JobFacts, ThreadSets DEF Becomes
<1>6. \A o \in Consumers : \A v : Launches(o, v)' <=> Launches(o, v)
  <2>1. \A v : ~ Launches(t, v) /\ ~ Launches(t, v)'
    BY <1>5 DEF Launches, At
  <2>2. \A o \in Consumers \ {t} : \A v : Launches(o, v)' <=> Launches(o, v)
    BY <1>5 DEF Launches, At
  <2>3. QED
    BY <2>1, <2>2
<1>7. \A v \in Urls : Holders(v)' = Holders(v)
  BY <1>3, <1>6, SameHolders
<1>8. \A o \in Consumers : \A m : Owns(o, m)' =>
         \/ o = t /\ m = n /\ ~ At(o, "publish")'
         \/ o # t /\ Owns(o, m) /\ (At(o, "publish")' <=> At(o, "publish"))
  <2>1. \A m : Owns(t, m)' => m = n
    BY <1>5 DEF Owns
  <2>2. ~ At(t, "publish")'
    BY <1>5 DEF At
  <2>3. \A o \in Consumers \ {t} : \A m :
           Owns(o, m)' => Owns(o, m) /\ (At(o, "publish")' <=> At(o, "publish"))
    BY <1>5 DEF Owns, At
  <2>4. QED
    BY <2>1, <2>2, <2>3
<1>9. \A o \in Consumers : \A m : Owns(o, m) => m \in Objects
  <2>1. ASSUME NEW o \in Consumers, NEW s \in {"connect", "publish"}, At(o, s)
        PROVE  thread[o].object \in Objects
    BY <2>1, OwnerFacts
  <2>2. QED
    BY <2>1 DEF Owns
<1>10. miscounted \subseteq miscounted'
       /\ (u \notin miscounted' => /\ Published(u) = {}
                                   /\ \A o \in Consumers \ {t} : ~ Creating(o, u))
  BY <1>2 DEF Create, history
<1>11. ASSUME NEW v \in Urls, v \notin miscounted' PROVE CountOf(v)'
  <2>1. CountOf(v)
    BY <1>10, <1>11 DEF CountInv
  <2>2. \A m \in Published(v)' : refs'[m] = Holders(v)'
    BY <1>1, <1>3, <1>7, <2>1, ObjectFacts DEF CountOf
  <2>3. /\ Published(v)' = {} <=> Holders(v)' = 0
        /\ \A l, m \in Published(v)' : l = m
    BY <1>1, <1>7, <2>1 DEF CountOf
  <2>4. ASSUME NEW o \in Consumers, NEW m \in Objects', Owns(o, m)', url'[m] = v
        PROVE  /\ Published(v)' = {}
               /\ \A oo \in Consumers, l \in Objects' : Owns(oo, l)' /\ url'[l] = v => oo = o
               /\ At(o, "publish")' => refs'[m] = 1
    <3>1. CASE v = u
      <4>1. ASSUME NEW oo \in Consumers, NEW l \in Objects', Owns(oo, l)', url'[l] = u, oo # t
            PROVE  FALSE
        <5>1. Owns(oo, l)
          BY <1>8, <4>1
        <5>2. l \in Objects
          BY <1>9, <5>1
        <5>3. thread[oo].url = u
          BY <1>1, <1>3, <4>1, <5>1, <5>2 DEF OwnerInv
        <5>4. Creating(oo, u)
          BY <5>1, <5>3 DEF Creating, Owns
        <5>5. QED
          BY <1>10, <1>11, <3>1, <4>1, <5>4
      <4>2. o = t
        BY <2>4, <3>1, <4>1
      <4>3. ~ At(o, "publish")'
        BY <1>5, <4>2 DEF At
      <4>4. QED
        BY <1>1, <1>10, <1>11, <3>1, <4>1, <4>2, <4>3
    <3>2. CASE v # u
      <4>1. ASSUME NEW oo \in Consumers, NEW l \in Objects', Owns(oo, l)', url'[l] = v
            PROVE  /\ Owns(oo, l) /\ l \in Objects /\ url[l] = v
                   /\ At(oo, "publish")' <=> At(oo, "publish")
        <5>1. l # n
          BY <1>2, <3>2, <4>1
        <5>2. QED
          BY <1>1, <1>8, <4>1, <5>1
      <4>2. Owns(o, m) /\ m \in Objects /\ url[m] = v /\ (At(o, "publish")' <=> At(o, "publish"))
        BY <2>4, <4>1
      <4>3. /\ Published(v) = {}
            /\ \A oo \in Consumers, l \in Objects : Owns(oo, l) /\ url[l] = v => oo = o
            /\ At(o, "publish") => refs[m] = 1
        BY <2>1, <4>2 DEF CountOf
      <4>4. QED
        BY <1>1, <4>1, <4>2, <4>3
    <3>3. QED
      BY <3>1, <3>2
  <2>5. QED
    BY <2>2, <2>3, <2>4 DEF CountOf
<1>12. QED
  BY <1>11 DEF CountInv

LEMMA CountConnect ==
    ASSUME TypeInv, CountInv, NEW t \in Consumers, ConnectOk(t) \/ ConnectFails(t)
    PROVE  CountInv'
<1>1. UNCHANGED <<url, published, held, wanted, miscounted>>
  BY DEF ConnectOk, ConnectFails, clientVars, history
<1>2. Objects' = Objects /\ Sources' = Sources /\ \A v : Published(v)' = Published(v)
  BY <1>1, SameSources
<1>3. PICK op \in {"use", "launch"}, u \in Urls, n \in Objects :
         /\ thread[t] = ConnectJob(op, u, "connect", n) /\ Owns(t, n) /\ n \notin Sources
         /\ \/ Becomes(t, ConnectJob(op, u, "publish", n)) /\ refs' = [refs EXCEPT ![n] = 1]
            \/ Becomes(t, Idle) /\ refs' = refs
  <2>1. CASE ConnectOk(t)
    BY <2>1, ConnectOkTypes
  <2>2. CASE ConnectFails(t)
    <3>1. At(t, "connect") /\ refs' = refs /\ Becomes(t, Idle)
      BY <2>2, ConnectFailsTypes DEF ConnectFails
    <3>2. QED
      BY <3>1, OwnerFacts
  <2>3. QED
    BY <2>1, <2>2
<1>4. /\ \A o \in Consumers \ {t} : thread'[o] = thread[o]
      /\ thread[t].at = "connect" /\ thread[t].object = n
  BY <1>3, JobFacts, ThreadSets DEF Becomes
<1>5. \/ thread'[t] = Idle
      \/ thread'[t].at = "publish" /\ thread'[t].object = n /\ refs'[n] = 1
  <2>1. refs \in [Objects -> 0 .. MaxRefs]
    BY DEF TypeInv, ObjectTypes
  <2>2. QED
    BY <1>3, <2>1, JobFacts DEF Becomes
<1>6. \A m \in Objects : m # n => refs'[m] = refs[m]
  BY <1>3 DEF TypeInv, ObjectTypes
<1>7. \A o \in Consumers : \A v : Launches(o, v)' <=> Launches(o, v)
  <2>1. \A v : ~ Launches(t, v) /\ ~ Launches(t, v)'
    BY <1>4, <1>5 DEF Launches, At
  <2>2. \A o \in Consumers \ {t} : \A v : Launches(o, v)' <=> Launches(o, v)
    BY <1>4 DEF Launches, At
  <2>3. QED
    BY <2>1, <2>2
<1>8. \A v \in Urls : Holders(v)' = Holders(v)
  BY <1>1, <1>7, SameHolders
<1>9. \A o \in Consumers : \A m : Owns(o, m)' =>
         \/ o = t /\ m = n /\ Owns(t, n) /\ refs'[m] = 1
         \/ o # t /\ Owns(o, m) /\ (At(o, "publish")' <=> At(o, "publish"))
  <2>1. \A m : Owns(t, m)' => m = n /\ refs'[m] = 1
    BY <1>5 DEF Owns, At
  <2>2. \A o \in Consumers \ {t} : \A m :
           Owns(o, m)' => Owns(o, m) /\ (At(o, "publish")' <=> At(o, "publish"))
    BY <1>4 DEF Owns, At
  <2>3. QED
    BY <1>3, <2>1, <2>2
<1>10. \A o \in Consumers \ {t} : \A m : Owns(o, m) => m # n
  BY <1>3 DEF TypeInv, OwnerInv
<1>11. ASSUME NEW v \in Urls, v \notin miscounted' PROVE CountOf(v)'
  <2>1. CountOf(v)
    BY <1>1, <1>11 DEF CountInv
  <2>2. \A m \in Published(v) : refs'[m] = refs[m]
    BY <1>3, <1>6, ObjectFacts DEF TypeInv, Published
  <2>3. ASSUME NEW o \in Consumers, NEW m \in Objects, Owns(o, m)', url'[m] = v
        PROVE  /\ Published(v)' = {}
               /\ \A oo \in Consumers, l \in Objects : Owns(oo, l)' /\ url'[l] = v => oo = o
               /\ At(o, "publish")' => refs'[m] = 1
    <3>1. Owns(o, m) /\ url[m] = v
      BY <1>1, <1>9, <2>3
    <3>2. /\ Published(v) = {}
          /\ \A oo \in Consumers, l \in Objects : Owns(oo, l) /\ url[l] = v => oo = o
          /\ At(o, "publish") => refs[m] = 1
      BY <2>1, <3>1 DEF CountOf
    <3>3. \A oo \in Consumers, l \in Objects : Owns(oo, l)' /\ url'[l] = v => oo = o
      BY <1>1, <1>9, <3>2
    <3>4. At(o, "publish")' => refs'[m] = 1
      BY <1>6, <1>9, <1>10, <2>3, <3>2
    <3>5. QED
      BY <1>2, <3>2, <3>3, <3>4
  <2>4. QED
    BY <1>2, <1>8, <2>1, <2>2, <2>3 DEF CountOf
<1>12. QED
  BY <1>11 DEF CountInv

(* One holder less.                                                        *)
LEMMA CountDisconnect ==
    ASSUME TypeInv, CountInv, NEW t \in Consumers, NEW u \in Urls, NEW op \in {"leave", "stop"},
           Disconnected(t, op, u), miscounted \subseteq miscounted',
           u \notin miscounted' => Holders(u)' = Holders(u) - 1 /\ Holders(u) > 0,
           \A v \in Urls : v # u => Holders(v)' = Holders(v)
    PROVE  CountInv'
<1>1. ObjectTypes /\ t \in Threads /\ url' = url /\ refs \in [Objects -> 0 .. MaxRefs]
      /\ Unpublish(u) /\ thread[t] = Idle /\ Becomes(t, Job(op, u, "abort"))
  BY ThreadSets DEF TypeInv, ObjectTypes, Disconnected
<1>2. /\ Objects' = Objects
      /\ Published(u)' = {n \in Published(u) : refs[n] > 1}
      /\ \A v : v # u => Published(v)' = Published(v)
      /\ \A n \in Objects :
            refs'[n] = IF n \in Published(u) /\ refs[n] > 0 THEN refs[n] - 1 ELSE refs[n]
  BY <1>1, UnpublishFacts
<1>3. \A o \in Consumers : \A n : Owns(o, n)' => Owns(o, n) /\ thread'[o] = thread[o]
  <2>1. Job(op, u, "abort").at = "abort"
    BY JobFacts
  <2>2. QED
    BY <1>1, <2>1, Bystander
<1>4. \A v : Published(v) \subseteq Objects /\ Published(v) \subseteq Sources
  BY <1>1, ObjectFacts
<1>5. ASSUME NEW v \in Urls, v \notin miscounted' PROVE CountOf(v)'
  <2>1. CountOf(v)
    BY <1>5 DEF CountInv
  <2>2. CASE v = u
    <3>1. Holders(u)' = Holders(u) - 1 /\ Holders(u) > 0 /\ Holders(u) \in Nat
      BY <1>5, <2>2, HolderTypes
    <3>2. PICK n \in Published(u) : TRUE
      BY <2>1, <2>2, <3>1 DEF CountOf
    <3>3. Published(u) = {n} /\ refs[n] = Holders(u) /\ n \in Objects
      BY <1>4, <2>1, <2>2, <3>2 DEF CountOf
    <3>4. refs'[n] = Holders(u)'
      BY <1>2, <3>1, <3>3
    <3>5. Published(u)' = {} <=> Holders(u)' = 0
      BY <1>2, <3>1, <3>3
    <3>6. \A m \in Published(u)' : m = n
      BY <1>2, <3>3
    <3>7. \A o \in Consumers, m \in Objects : ~ (Owns(o, m)' /\ url'[m] = u)
      BY <1>1, <1>3, <2>1, <2>2, <3>3 DEF CountOf
    <3>8. QED
      BY <1>2, <2>2, <3>4, <3>5, <3>6, <3>7 DEF CountOf
  <2>3. CASE v # u
    <3>1. \A m \in Objects : url[m] = v => refs'[m] = refs[m]
      BY <1>2, <2>3 DEF Published
    <3>2. \A m \in Published(v) : refs'[m] = refs[m]
      BY <1>4, <3>1 DEF Published
    <3>3. \A o \in Consumers, m \in Objects : Owns(o, m)' /\ url[m] = v =>
             Owns(o, m) /\ (At(o, "publish")' => At(o, "publish") /\ refs'[m] = refs[m])
      BY <1>3, <3>1 DEF At
    <3>4. QED
      BY <1>1, <1>2, <1>5, <2>1, <2>3, <3>2, <3>3, CountKept
  <2>4. QED
    BY <2>2, <2>3
<1>6. QED
  BY <1>5 DEF CountInv

LEMMA CountLeave ==
    ASSUME TypeInv, CountInv, NEW t \in Consumers, NEW u \in Urls, Leave(t, u)
    PROVE  CountInv'
<1>1. Disconnected(t, "leave", u) /\ UNCHANGED <<wanted, miscounted>> /\ held[u] > 0
      /\ held' = [held EXCEPT ![u] = held[u] - 1]
  BY LeaveTypes DEF Leave, history
<1>2. \A o \in Consumers : \A v : Launches(o, v)' <=> Launches(o, v)
  <2>1. thread[t] = Idle /\ Becomes(t, Job("leave", u, "abort")) /\ t \in Threads
        /\ Job("leave", u, "abort").at = "abort"
    BY <1>1, JobFacts, ThreadSets DEF Disconnected
  <2>2. QED
    BY <2>1, Bystander
<1>3. \A v : Launching(v)' = Launching(v) /\ Wants(v)' = Wants(v)
  BY <1>1, <1>2 DEF Launching, Wants
<1>4. held'[u] = held[u] - 1 /\ \A v \in Urls : v # u => held'[v] = held[v]
  BY <1>1 DEF TypeInv, ClientTypes
<1>5. Holders(u)' = Holders(u) - 1 /\ Holders(u) > 0
  <2>1. held[u] \in Nat /\ Wants(u) \in {0, 1} /\ Cardinality(Launching(u)) \in Nat
    BY HolderTypes
  <2>2. QED
    BY <1>1, <1>3, <1>4, <2>1 DEF Holders
<1>6. \A v \in Urls : v # u => Holders(v)' = Holders(v)
  BY <1>3, <1>4 DEF Holders
<1>7. QED
  BY <1>1, <1>5, <1>6, CountDisconnect

LEMMA CountStop ==
    ASSUME TypeInv, CountInv, NEW u \in Urls, StopRetranslation(u)
    PROVE  CountInv'
<1>1. Disconnected(Main, "stop", u) /\ held' = held /\ wanted' = wanted \ {u}
      /\ Main \in Consumers /\ Main \in Threads
  BY StopTypes, ThreadSets DEF StopRetranslation
<1>2. miscounted' = IF u \notin wanted THEN miscounted \cup {u} ELSE miscounted
  BY DEF StopRetranslation, Miscount
<1>3. \A o \in Consumers : \A v : Launches(o, v)' <=> Launches(o, v)
  <2>1. thread[Main] = Idle /\ Becomes(Main, Job("stop", u, "abort"))
        /\ Job("stop", u, "abort").at = "abort"
    BY <1>1, JobFacts DEF Disconnected
  <2>2. QED
    BY <1>1, <2>1, Bystander
<1>4. \A v : Launching(v)' = Launching(v)
  BY <1>3 DEF Launching
<1>5. ASSUME u \in wanted PROVE Holders(u)' = Holders(u) - 1 /\ Holders(u) > 0
  <2>1. held[u] \in Nat /\ Cardinality(Launching(u)) \in Nat
    BY HolderTypes
  <2>2. Wants(u) = 1 /\ Wants(u)' = 0
    BY <1>1, <1>5 DEF Wants
  <2>3. QED
    BY <1>1, <1>4, <2>1, <2>2 DEF Holders
<1>6. \A v \in Urls : v # u => Holders(v)' = Holders(v)
  BY <1>1, <1>3, SameHolders
<1>7. QED
  BY <1>1, <1>2, <1>5, <1>6, CountDisconnect

LEMMA CountAbort ==
    ASSUME TypeInv, CountInv, NEW t \in Consumers, Abort(t)
    PROVE  CountInv'
<1>1. PICK op \in {"leave", "stop"}, u \in Urls :
         /\ thread[t] = Job(op, u, "abort")
         /\ \/ refs' = refs /\ UNCHANGED history
            \/ \E n \in Objects :
                  /\ url[n] = u /\ n \notin Sources
                  /\ refs' = [refs EXCEPT ![n] = Released(n)]
                  /\ Miscount(u, refs[n] = 1)
  BY AbortTypes
<1>2. UNCHANGED <<url, published, held, wanted>> /\ Becomes(t, Idle) /\ t \in Threads
  BY AbortTypes, ThreadSets DEF Abort
<1>3. Objects' = Objects /\ \A v : Published(v)' = Published(v) /\ Published(v) \subseteq Sources
  BY <1>2, SameSources DEF Published
<1>4. /\ \A o \in Consumers : \A v : Launches(o, v)' <=> Launches(o, v)
      /\ \A o \in Consumers : \A m : Owns(o, m)' => Owns(o, m) /\ thread'[o] = thread[o]
  <2>1. thread[t].at = "abort"
    BY <1>1, JobFacts
  <2>2. QED
    BY <1>2, <2>1, Bystander
<1>5. \A v \in Urls : Holders(v)' = Holders(v)
  BY <1>2, <1>4, SameHolders
<1>6. miscounted \subseteq miscounted'
  BY <1>1 DEF history, Miscount
<1>7. ASSUME NEW v \in Urls, v \notin miscounted' PROVE CountOf(v)'
  <2>1. CountOf(v)
    BY <1>6, <1>7 DEF CountInv
  <2>2. /\ \A m \in Published(v) : refs'[m] = refs[m]
        /\ \A m \in Objects : url[m] = v /\ refs[m] = 1 => refs'[m] = refs[m]
    <3>1. CASE refs' = refs
      BY <3>1
    <3>2. ASSUME NEW n \in Objects, url[n] = u, n \notin Sources,
                 refs' = [refs EXCEPT ![n] = Released(n)], Miscount(u, refs[n] = 1)
          PROVE  /\ \A m \in Published(v) : refs'[m] = refs[m]
                 /\ \A m \in Objects : url[m] = v /\ refs[m] = 1 => refs'[m] = refs[m]
      <4>1. \A m \in Objects : m # n => refs'[m] = refs[m]
        BY <3>2 DEF TypeInv, ObjectTypes
      <4>2. url[n] = v => refs[n] # 1
        BY <1>7, <3>2 DEF Miscount
      <4>3. QED
        BY <1>3, <3>2, <4>1, <4>2, ObjectFacts DEF TypeInv
    <3>3. QED
      BY <1>1, <3>1, <3>2
  <2>3. \A o \in Consumers, m \in Objects : Owns(o, m)' /\ url[m] = v =>
           Owns(o, m) /\ (At(o, "publish")' => At(o, "publish") /\ refs'[m] = refs[m])
    BY <1>4, <2>1, <2>2 DEF CountOf, At
  <2>4. QED
    BY <1>2, <1>3, <1>5, <1>7, <2>1, <2>2, <2>3, CountKept
<1>8. QED
  BY <1>7 DEF CountInv

LEMMA CountQuiet ==
    ASSUME TypeInv, CountInv, url' = url, published' = published, refs' = refs,
           held' = held, wanted' = wanted, miscounted \subseteq miscounted',
           \A v \in Urls : v \notin miscounted' =>
              \A o \in Consumers : Launches(o, v)' <=> Launches(o, v),
           \A o \in Consumers : \A n : Owns(o, n)' => Owns(o, n) /\ thread'[o] = thread[o]
    PROVE  CountInv'
<1>1. Objects' = Objects /\ \A v : Published(v)' = Published(v)
  BY SameSources
<1>2. ASSUME NEW v \in Urls, v \notin miscounted' PROVE CountOf(v)'
  <2>1. CountOf(v)
    BY <1>2 DEF CountInv
  <2>2. Holders(v)' = Holders(v)
    BY <1>2, SameHolders
  <2>3. \A o \in Consumers, m \in Objects : Owns(o, m)' /\ url[m] = v =>
           Owns(o, m) /\ (At(o, "publish")' => At(o, "publish") /\ refs'[m] = refs[m])
    BY DEF At
  <2>4. QED
    BY <1>1, <1>2, <2>1, <2>2, <2>3, CountKept
<1>3. QED
  BY <1>2 DEF CountInv

LEMMA CountLaunch ==
    ASSUME TypeInv, CountInv, NEW t \in Consumers, Observe(t) \/ Choose(t)
    PROVE  CountInv'
<1>1. CASE Observe(t)
  <2>1. PICK u \in Urls : /\ thread[t] = Job("launch", u, "observe")
                          /\ Becomes(t, Job("launch", u, "choose"))
    BY <1>1, ObserveTypes
  <2>2. UNCHANGED <<url, refs, published, held, wanted, miscounted>>
    BY <1>1 DEF Observe, clientVars, history
  <2>3. /\ thread[t] # Idle /\ thread[t].at = "observe" /\ thread[t].url = u
        /\ thread'[t] # Idle /\ thread'[t].at = "choose" /\ thread'[t].url = u
        /\ \A o \in Consumers \ {t} : thread'[o] = thread[o]
    BY <2>1, JobFacts, ThreadSets DEF Becomes
  <2>4. \A o \in Consumers : \A v : Launches(o, v)' <=> Launches(o, v)
    <3>1. \A v : Launches(t, v)' <=> Launches(t, v)
      BY <2>3 DEF Launches, At
    <3>2. \A o \in Consumers \ {t} : \A v : Launches(o, v)' <=> Launches(o, v)
      BY <2>3 DEF Launches, At
    <3>3. QED
      BY <3>1, <3>2
  <2>5. \A o \in Consumers : \A n : Owns(o, n)' => Owns(o, n) /\ thread'[o] = thread[o]
    BY <2>3 DEF Owns, At
  <2>6. QED
    BY <2>2, <2>4, <2>5, CountQuiet
<1>2. CASE Choose(t)
  <2>1. PICK u \in Urls :
           /\ thread[t] = Job("launch", u, "choose") /\ Miscount(u, Retranslated(u))
           /\ Becomes(t, IF Retranslated(u) THEN Idle ELSE Chosen("launch", u))
    BY <1>2, ChooseTypes
  <2>2. UNCHANGED <<url, refs, published, held, wanted>>
    BY <1>2 DEF Choose, objectVars
  <2>3. /\ thread[t] # Idle /\ thread[t].at = "choose" /\ thread[t].url = u
        /\ \A o \in Consumers \ {t} : thread'[o] = thread[o]
        /\ thread'[t] = IF Retranslated(u) THEN Idle ELSE Chosen("launch", u)
    BY <2>1, JobFacts, ThreadSets DEF Becomes
  <2>4. /\ Chosen("launch", u) # Idle /\ Chosen("launch", u).at = "start"
        /\ Chosen("launch", u).op = "launch" /\ Chosen("launch", u).url = u
    BY ChosenFacts
  <2>5. miscounted \subseteq miscounted' /\ (u \notin miscounted' => ~ Retranslated(u))
    BY <2>1 DEF Miscount
  <2>6. \A v \in Urls : v \notin miscounted' =>
           \A o \in Consumers : Launches(o, v)' <=> Launches(o, v)
    <3>1. \A v \in Urls : v # u \/ ~ Retranslated(u) => (Launches(t, v)' <=> Launches(t, v))
      BY <2>3, <2>4 DEF Launches, At
    <3>2. \A o \in Consumers \ {t} : \A v : Launches(o, v)' <=> Launches(o, v)
      BY <2>3 DEF Launches, At
    <3>3. QED
      BY <2>5, <3>1, <3>2
  <2>7. \A o \in Consumers : \A n : Owns(o, n)' => Owns(o, n) /\ thread'[o] = thread[o]
    BY <2>3, <2>4 DEF Owns, At
  <2>8. QED
    BY <2>2, <2>5, <2>6, <2>7, CountQuiet
<1>3. QED
  BY <1>1, <1>2

(* What a start does to the launches: its own ends.                        *)
LEMMA StartLaunches ==
    ASSUME TypeInv, NEW t \in Threads, StartRetranslator(t)
    PROVE  /\ \A o \in Consumers \ {t} : \A v : Launches(o, v)' <=> Launches(o, v)
           /\ \A v : ~ Launches(t, v)'
           /\ \A v : Launches(t, v) <=> thread[t].op = "launch" /\ thread[t].url = v
           /\ thread[t].op = "launch" => t \in Consumers
           /\ thread[t].op # "launch" => t = Retry
           /\ \A o \in Consumers : \A n : Owns(o, n)' => Owns(o, n) /\ thread'[o] = thread[o]
<1>1. /\ thread[t] \in StartJobs /\ (thread[t].op = "restore" <=> t = Retry)
      /\ At(t, "start") /\ thread'[t] = Idle
      /\ \A o \in Threads \ {t} :
            \/ thread'[o] = thread[o] /\ ~ At(o, "start")
            \/ /\ At(o, "start") /\ At(o, "start")'
               /\ thread'[o].op = thread[o].op /\ thread'[o].url = thread[o].url
  BY StartFacts
<1>2. \A o \in Consumers \ {t} : \A v : Launches(o, v)' <=> Launches(o, v)
  BY <1>1, ThreadSets DEF Launches, At
<1>3. \A v : ~ Launches(t, v)'
  BY <1>1 DEF Launches, At
<1>4. \A v : Launches(t, v) <=> thread[t].op = "launch" /\ thread[t].url = v
  BY <1>1 DEF Launches, At
<1>5. thread[t].op \in {"launch", "restore"}
  BY <1>1, JobFacts
<1>6. t \in Consumers \/ t = Retry
  BY DEF Threads
<1>7. \A o \in Consumers : \A n : Owns(o, n)' => Owns(o, n) /\ thread'[o] = thread[o]
  BY <1>1, ThreadSets DEF Owns, At
<1>8. QED
  BY <1>1, <1>2, <1>3, <1>4, <1>5, <1>6, <1>7, ThreadSets

LEMMA CountStart ==
    ASSUME TypeInv, CountInv, NEW t \in Threads, StartRetranslator(t)
    PROVE  CountInv'
<1>1. UNCHANGED <<url, refs, published, held>>
  BY DEF StartRetranslator, objectVars
<1>2. Objects' = Objects /\ \A v : Published(v)' = Published(v)
  BY <1>1, SameSources
<1> DEFINE u == thread[t].url
<1>3. /\ wanted' = IF thread[t].op = "launch" THEN wanted \cup {u} ELSE wanted
      /\ miscounted' = IF thread[t].op = "launch" /\ (u \in wanted \/ Stopping(u))
                       THEN miscounted \cup {u} ELSE miscounted
  BY DEF StartRetranslator, Miscount
<1>4. /\ \A o \in Consumers \ {t} : \A v : Launches(o, v)' <=> Launches(o, v)
      /\ \A v : ~ Launches(t, v)'
      /\ \A v : Launches(t, v) <=> thread[t].op = "launch" /\ u = v
      /\ thread[t].op = "launch" => t \in Consumers
      /\ thread[t].op # "launch" => t = Retry
      /\ \A o \in Consumers : \A n : Owns(o, n)' => Owns(o, n) /\ thread'[o] = thread[o]
  BY StartLaunches
<1>. HIDE DEF u
<1>5. ASSUME NEW v \in Urls, v \notin miscounted' PROVE CountOf(v)'
  <2>1. CountOf(v)
    BY <1>3, <1>5 DEF CountInv
  <2>2. Holders(v)' = Holders(v)
    <3>1. CASE thread[t].op = "launch" /\ v = u
      <4>1. t \in Launching(v) /\ Launching(v)' = Launching(v) \ {t}
        BY <1>4, <3>1 DEF Launching
      <4>2. Cardinality(Launching(v)') = Cardinality(Launching(v)) - 1
            /\ Cardinality(Launching(v)) \in Nat /\ held[v] \in Nat
        BY <4>1, HolderTypes, FS_RemoveElement
      <4>3. Wants(v) = 0 /\ Wants(v)' = 1
        BY <1>3, <1>5, <3>1 DEF Wants
      <4>4. QED
        BY <1>1, <4>2, <4>3 DEF Holders
    <3>2. CASE ~ (thread[t].op = "launch" /\ v = u)
      <4>1. v \in wanted' <=> v \in wanted
        BY <1>3, <3>2
      <4>2. \A o \in Consumers : Launches(o, v)' <=> Launches(o, v)
        BY <1>4, <3>2
      <4>3. QED
        BY <1>1, <4>1, <4>2, SameHolders
    <3>3. QED
      BY <3>1, <3>2
  <2>3. \A o \in Consumers, m \in Objects : Owns(o, m)' /\ url[m] = v =>
           Owns(o, m) /\ (At(o, "publish")' => At(o, "publish") /\ refs'[m] = refs[m])
    BY <1>1, <1>4 DEF At
  <2>4. QED
    BY <1>1, <1>2, <1>5, <2>1, <2>2, <2>3, CountKept
<1>6. QED
  BY <1>5 DEF CountInv

LEMMA CountStep == TypeInv /\ CountInv /\ [Next]_vars => CountInv'
<1>1. SUFFICES ASSUME TypeInv, CountInv, [Next]_vars PROVE CountInv'
  OBVIOUS
<1>2. ASSUME UNCHANGED <<url, refs, published, held, wanted, miscounted>>,
             \A o \in Consumers : thread'[o] = thread[o]
      PROVE  CountInv'
  <2>1. \A o \in Consumers : \A v : Launches(o, v)' <=> Launches(o, v)
    BY <1>2 DEF Launches, At
  <2>2. \A o \in Consumers : \A n : Owns(o, n)' => Owns(o, n) /\ thread'[o] = thread[o]
    BY <1>2 DEF Owns, At
  <2>3. QED
    BY <1>1, <1>2, <2>1, <2>2, CountQuiet
<1>3. ASSUME NEW t \in Consumers, NEW u \in Urls, NEW op \in {"use", "launch"}, NotFound(t, op, u)
      PROVE  CountInv'
  <2>1. UNCHANGED <<url, refs, published, held, wanted, miscounted>> /\ thread[t] = Idle
        /\ thread' = [thread EXCEPT ![t] = Job(op, u, "create")]
    BY <1>3 DEF NotFound, Calls, objectVars, clientVars, history
  <2>2. ThreadTypes /\ t \in Threads
    BY <1>1, ThreadSets DEF TypeInv
  <2>3. Becomes(t, Job(op, u, "create"))
    BY <2>1, <2>2, BecomesFacts
  <2>4. Job(op, u, "create").at = "create"
    BY JobFacts
  <2>5. /\ \A o \in Consumers : \A v : Launches(o, v)' <=> Launches(o, v)
        /\ \A o \in Consumers : \A n : Owns(o, n)' => Owns(o, n) /\ thread'[o] = thread[o]
    BY <2>1, <2>2, <2>3, <2>4, Bystander
  <2>6. QED
    BY <1>1, <2>1, <2>5, CountQuiet
<1>4. ASSUME NEW n \in Objects, Lose(n) \/ ComeBack(n) PROVE CountInv'
  <2>1. UNCHANGED <<url, refs, published, held, wanted, miscounted>>
    BY <1>4 DEF Lose, ComeBack, clientVars, history
  <2>2. \A o \in Consumers : thread'[o] = thread[o]
    BY <1>1, <1>4, ComeBackTypes DEF Lose
  <2>3. QED
    BY <1>2, <2>1, <2>2
<1>5. CASE UNCHANGED vars
  BY <1>2, <1>5 DEF vars, objectVars, clientVars, history
<1>6. CASE Next
  BY <1>1, <1>3, <1>4, <1>6, NextSteps, CountShare, CountCreate, CountConnect, CountPublish,
     CountLeave, CountStop, CountAbort, CountLaunch, CountStart
<1>7. QED
  BY <1>1, <1>5, <1>6

LEMMA CountImplies == TypeInv /\ CountInv => RefsFollowHolders
<1>1. SUFFICES ASSUME TypeInv, CountInv, NEW u \in Urls, Settled(u), u \notin miscounted
               PROVE  LET holders == held[u] + (IF u \in wanted THEN 1 ELSE 0) IN
                      /\ Cardinality(Published(u)) = (IF holders > 0 THEN 1 ELSE 0)
                      /\ \A n \in Published(u) : refs[n] = holders
  BY DEF RefsFollowHolders
<1>2. CountOf(u)
  BY <1>1 DEF CountInv
<1>3. Launching(u) = {}
  BY <1>1, ThreadSets DEF Launching, Launches, Settled, At
<1>4. Cardinality(Launching(u)) = 0
  BY <1>3, FS_EmptySet
<1>5. held[u] \in Nat /\ Wants(u) \in {0, 1} /\ Wants(u) = IF u \in wanted THEN 1 ELSE 0
  BY <1>1, HolderTypes DEF Wants
<1>6. Holders(u) = held[u] + Wants(u)
  BY <1>4, <1>5 DEF Holders
<1>7. Cardinality(Published(u)) \in {0, 1} /\ (Cardinality(Published(u)) = 0 <=> Published(u) = {})
  BY <1>2, AtMostOne DEF CountOf
<1>8. /\ \A n \in Published(u) : refs[n] = Holders(u)
      /\ Published(u) = {} <=> Holders(u) = 0
  BY <1>2 DEF CountOf
<1>9. Cardinality(Published(u)) = (IF Holders(u) > 0 THEN 1 ELSE 0)
  BY <1>5, <1>6, <1>7, <1>8
<1>10. QED
  BY <1>5, <1>6, <1>8, <1>9

-----------------------------------------------------------------------------
(* Retranslations.  What the retranslator of a source whose count was not  *)
(* disturbed depends on between the operations.                            *)
Restoring(u) == At(Retry, "start") /\ thread[Retry].url = u /\ thread[Retry].playable
Past(t, u) == Launches(t, u) /\ ~ At(t, "observe")

FollowOf(u) ==
    /\ u \in wanted /\ Published(u) \cap running # {} =>
          Retranslated(u) \/ u \notin Supported \/ saved[u] = "empty" \/ Restoring(u)
    /\ Retranslated(u) => u \in wanted \/ saved[u] = "kept" \/ Stopping(u)
    /\ u \in wanted \/ (\E t \in Consumers : Past(t, u)) => Published(u) \subseteq observing
    /\ Stopping(u) => u \notin wanted
    /\ \A t \in Consumers : Past(t, u) /\ At(t, "start") /\ u \in Supported =>
          thread[t].playable

(* A restored retranslator is one whose parameters were kept.              *)
RestoresKept == At(Retry, "start") => saved[thread[Retry].url] = "kept"

FollowInv == RestoresKept /\ \A u \in Urls : u \notin miscounted => FollowOf(u)

(* A launch of the next state that goes on from where it was.              *)
GoesOn(t, u) ==
    Past(t, u)' => /\ Past(t, u)
                   /\ At(t, "start")' => At(t, "start") /\ thread'[t].playable = thread[t].playable

LEMMA FollowKept ==
    ASSUME NEW u, FollowOf(u), u \in wanted' <=> u \in wanted,
           Retranslated(u)' <=> Retranslated(u), saved'[u] = saved[u],
           Restoring(u) => Restoring(u)', Stopping(u)' <=> Stopping(u),
           \A t \in Consumers : GoesOn(t, u),
           \/ /\ Published(u)' \subseteq Published(u)
              /\ \A n \in Published(u)' : (n \in running' => n \in running)
                                          /\ (n \in observing => n \in observing')
           \/ u \notin wanted /\ \A t \in Consumers : ~ Launches(t, u)
    PROVE  FollowOf(u)'
<1>1. u \in wanted' /\ Published(u)' \cap running' # {} =>
          Retranslated(u)' \/ u \notin Supported \/ saved'[u] = "empty" \/ Restoring(u)'
  BY DEF FollowOf
<1>2. Retranslated(u)' => u \in wanted' \/ saved'[u] = "kept" \/ Stopping(u)'
  BY DEF FollowOf
<1>3. u \in wanted' \/ (\E t \in Consumers : Past(t, u)') => Published(u)' \subseteq observing'
  <2>1. u \in wanted' \/ (\E t \in Consumers : Past(t, u)') =>
           u \in wanted \/ \E t \in Consumers : Past(t, u)
    BY DEF GoesOn
  <2>2. QED
    BY <2>1 DEF FollowOf, Past
<1>4. Stopping(u)' => u \notin wanted'
  BY DEF FollowOf
<1>5. \A t \in Consumers : Past(t, u)' /\ At(t, "start")' /\ u \in Supported => thread'[t].playable
  BY DEF FollowOf, GoesOn
<1>6. QED
  BY <1>1, <1>2, <1>3, <1>4, <1>5 DEF FollowOf

(* A step of a thread that does not get on with a launch.                  *)
LEMMA Unlaunched ==
    ASSUME NEW t \in Consumers, NEW job, Becomes(t, job),
           job = Idle \/ job.at \notin {"choose", "start"}
    PROVE  /\ \A o \in Consumers : \A u : GoesOn(o, u)
           /\ \A u : Restoring(u)' <=> Restoring(u)
           /\ thread'[Retry] = thread[Retry]
<1>1. /\ thread'[t] = job /\ \A o \in Consumers \ {t} : thread'[o] = thread[o]
      /\ thread'[Retry] = thread[Retry]
  BY ThreadSets DEF Becomes
<1>2. \A u : ~ Past(t, u)'
  BY <1>1 DEF Past, Launches, At
<1>3. \A o \in Consumers \ {t} : \A u : GoesOn(o, u)
  BY <1>1 DEF GoesOn, Past, Launches, At
<1>4. \A u : Restoring(u)' <=> Restoring(u)
  BY <1>1 DEF Restoring, At
<1>5. QED
  BY <1>1, <1>2, <1>3, <1>4 DEF GoesOn

Stops(job) == job # Idle /\ job.op = "stop" /\ job.at = "abort"

LEMMA SameStopping ==
    ASSUME NEW t \in Threads, NEW job, Becomes(t, job), ~ Stops(job), ~ Stops(thread[t])
    PROVE  \A u : Stopping(u)' <=> Stopping(u)
<1>1. \A u : Stops(Job("stop", u, "abort"))
  BY JobFacts DEF Stops
<1>2. CASE t = Main
  BY <1>1, <1>2 DEF Becomes, Stopping
<1>3. CASE t # Main
  <2>1. thread'[Main] = thread[Main]
    BY <1>3, ThreadSets DEF Becomes
  <2>2. QED
    BY <2>1 DEF Stopping
<1>4. QED
  BY <1>2, <1>3

(* Most steps of the consumers.                                            *)
LEMMA FollowQuiet ==
    ASSUME TypeInv, FollowInv, NEW t \in Consumers, NEW job, Becomes(t, job),
           job = Idle \/ job.at \notin {"choose", "start"},
           ~ Stops(job), ~ Stops(thread[t]),
           rtsp' = rtsp, saved' = saved, wanted' = wanted, miscounted \subseteq miscounted',
           \A u \in Urls : u \notin miscounted' =>
              \/ /\ Published(u)' \subseteq Published(u)
                 /\ \A n \in Published(u)' : (n \in running' => n \in running)
                                             /\ (n \in observing => n \in observing')
              \/ u \notin wanted /\ \A o \in Consumers : ~ Launches(o, u)
    PROVE  FollowInv'
<1>1. t \in Threads
  BY ThreadSets
<1>2. /\ \A o \in Consumers : \A u : GoesOn(o, u)
      /\ \A u : Restoring(u)' <=> Restoring(u)
      /\ thread'[Retry] = thread[Retry]
      /\ \A u : Stopping(u)' <=> Stopping(u)
  BY <1>1, Unlaunched, SameStopping
<1>3. \A u : Retranslated(u)' <=> Retranslated(u)
  BY DEF Retranslated
<1>4. ASSUME NEW u \in Urls, u \notin miscounted' PROVE FollowOf(u)'
  <2>1. FollowOf(u)
    BY <1>4 DEF FollowInv
  <2>2. QED
    BY <1>2, <1>3, <1>4, <2>1, FollowKept
<1>5. RestoresKept'
  BY <1>2 DEF FollowInv, RestoresKept, At
<1>6. QED
  BY <1>4, <1>5 DEF FollowInv

LEMMA FollowShare ==
    ASSUME TypeInv, FollowInv, NEW t \in Consumers, NEW u \in Urls,
           NEW op \in {"use", "launch"}, Share(t, op, u) \/ NotFound(t, op, u)
    PROVE  FollowInv'
<1>1. UNCHANGED <<url, running, observing, published, rtsp, saved, wanted, miscounted>>
      /\ thread[t] = Idle
  BY DEF Share, NotFound, Calls, objectVars, clientVars, history
<1>2. Objects' = Objects /\ \A v : Published(v)' = Published(v)
  BY <1>1, SameSources
<1>3. \E job : Becomes(t, job) /\ (job = Idle \/ job.at \in {"observe", "create"})
  <2>1. CASE Share(t, op, u)
    <3>1. Connected(t, op, u)
      BY <2>1 DEF Share
    <3>2. QED
      BY <1>2, <3>1, ConnectedTypes
  <2>2. CASE NotFound(t, op, u)
    <3>1. ThreadTypes /\ t \in Threads /\ thread' = [thread EXCEPT ![t] = Job(op, u, "create")]
      BY <2>2, ThreadSets DEF TypeInv, NotFound
    <3>2. Becomes(t, Job(op, u, "create"))
      BY <3>1, BecomesFacts
    <3>3. QED
      BY <3>2, JobFacts
  <2>3. QED
    BY <2>1, <2>2
<1>4. PICK job : Becomes(t, job) /\ (job = Idle \/ job.at \in {"observe", "create"})
  BY <1>3
<1>5. ~ Stops(job) /\ ~ Stops(thread[t])
  BY <1>1, <1>4 DEF Stops
<1>6. QED
  BY <1>1, <1>2, <1>4, <1>5, FollowQuiet

LEMMA FollowCreate ==
    ASSUME TypeInv, FollowInv, NEW t \in Consumers, Create(t)
    PROVE  FollowInv'
<1> DEFINE n == Len(url) + 1
<1>1. PICK u \in Urls, op \in {"use", "launch"} :
         /\ thread[t] = Job(op, u, "create")
         /\ thread' = [thread EXCEPT ![t] = ConnectJob(op, u, "connect", n)]
  BY CreateFacts
<1>2. \A v : Published(v)' = Published(v)
  BY CreateFacts
<1>3. UNCHANGED <<running, observing, rtsp, saved, wanted>> /\ miscounted \subseteq miscounted'
  BY DEF Create, history
<1>4. ThreadTypes /\ t \in Threads
  BY ThreadSets DEF TypeInv
<1>5. Becomes(t, ConnectJob(op, u, "connect", n))
  BY <1>1, <1>4, BecomesFacts
<1>6. ConnectJob(op, u, "connect", n).at = "connect" /\ thread[t].at = "create"
  BY <1>1, JobFacts
<1>. HIDE DEF n
<1>7. ~ Stops(ConnectJob(op, u, "connect", n)) /\ ~ Stops(thread[t])
  BY <1>6 DEF Stops
<1>8. QED
  BY <1>2, <1>3, <1>5, <1>6, <1>7, FollowQuiet

LEMMA FollowConnect ==
    ASSUME TypeInv, FollowInv, NEW t \in Consumers, ConnectOk(t) \/ ConnectFails(t)
    PROVE  FollowInv'
<1>1. UNCHANGED <<url, observing, published, rtsp, saved, wanted, miscounted>> /\ At(t, "connect")
  BY DEF ConnectOk, ConnectFails, clientVars, history
<1>2. \A v : Published(v)' = Published(v) /\ Published(v) \subseteq Sources
  BY <1>1, SameSources DEF Published
<1>3. thread[t].at = "connect"
  BY <1>1 DEF At
<1>4. \E job, n : /\ Becomes(t, job) /\ (job = Idle \/ job.at = "publish")
                  /\ n \notin Sources /\ running' \subseteq running \cup {n}
  <2>1. CASE ConnectOk(t)
    <3>1. PICK op \in {"use", "launch"}, u \in Urls, n \in Objects :
             /\ n \notin Sources /\ Becomes(t, ConnectJob(op, u, "publish", n))
             /\ running' = running \cup {n}
      BY <2>1, ConnectOkTypes
    <3>2. QED
      BY <3>1, JobFacts
  <2>2. CASE ConnectFails(t)
    <3>1. PICK op \in {"use", "launch"}, u \in Urls, n \in Objects :
             /\ Owns(t, n) /\ (running' = running \/ running' = running \cup {n})
      BY <2>2, ConnectFailsTypes
    <3>2. n \notin Sources
      BY <3>1 DEF TypeInv, OwnerInv
    <3>3. Becomes(t, Idle)
      BY <2>2, ConnectFailsTypes
    <3>4. QED
      BY <3>1, <3>2, <3>3
  <2>3. QED
    BY <2>1, <2>2
<1>5. PICK job, n : /\ Becomes(t, job) /\ (job = Idle \/ job.at = "publish")
                    /\ n \notin Sources /\ running' \subseteq running \cup {n}
  BY <1>4
<1>6. ~ Stops(job) /\ ~ Stops(thread[t])
  BY <1>3, <1>5 DEF Stops
<1>7. \A v \in Urls : \A m \in Published(v)' : m \in running' => m \in running
  BY <1>2, <1>5
<1>8. QED
  BY <1>1, <1>2, <1>5, <1>6, <1>7, FollowQuiet

(* A source that is published anew has no holder yet.                      *)
LEMMA FollowPublish ==
    ASSUME TypeInv, CountInv, FollowInv, NEW t \in Consumers, Publish(t)
    PROVE  FollowInv'
<1>1. PICK op \in {"use", "launch"}, u \in Urls, n \in Objects :
         /\ thread[t] = ConnectJob(op, u, "publish", n) /\ Owns(t, n)
         /\ url[n] = u /\ Connected(t, op, u)
         /\ \A v : v # u => Published(v)' = Published(v)
  BY PublishTypes
<1>2. UNCHANGED <<running, observing, rtsp, saved, wanted, miscounted>> /\ Objects' = Objects
  BY DEF Publish, history, Objects
<1>3. PICK job : Becomes(t, job) /\ (job = Idle \/ job.at = "observe")
  BY <1>1, <1>2, ConnectedTypes
<1>4. ~ Stops(job) /\ ~ Stops(thread[t])
  <2>1. thread[t].at = "publish"
    BY <1>1, JobFacts
  <2>2. QED
    BY <1>3, <2>1 DEF Stops
<1>5. u \notin miscounted' => u \notin wanted /\ \A o \in Consumers : ~ Launches(o, u)
  <2>1. SUFFICES ASSUME u \notin miscounted
                 PROVE  u \notin wanted /\ \A o \in Consumers : ~ Launches(o, u)
    BY <1>2
  <2>2. Holders(u) = 0
    BY <1>1, <2>1 DEF CountInv, CountOf
  <2>3. /\ held[u] \in Nat /\ Wants(u) \in {0, 1} /\ Cardinality(Launching(u)) \in Nat
        /\ IsFiniteSet(Launching(u))
    BY HolderTypes
  <2>4. Wants(u) = 0 /\ Cardinality(Launching(u)) = 0
    BY <2>2, <2>3 DEF Holders
  <2>5. Launching(u) = {}
    BY <2>3, <2>4, FS_EmptySet
  <2>6. QED
    BY <2>4, <2>5 DEF Wants, Launching
<1>6. \A v \in Urls : v \notin miscounted' =>
         \/ /\ Published(v)' \subseteq Published(v)
            /\ \A m \in Published(v)' : (m \in running' => m \in running)
                                        /\ (m \in observing => m \in observing')
         \/ v \notin wanted /\ \A o \in Consumers : ~ Launches(o, v)
  BY <1>1, <1>2, <1>5
<1>7. QED
  BY <1>2, <1>3, <1>4, <1>6, FollowQuiet

(* What a disconnection leaves is still running and observed.              *)
LEMMA DisconnectKeeps ==
    ASSUME TypeInv, NEW t \in Consumers, NEW u \in Urls, NEW op \in {"leave", "stop"},
           Disconnected(t, op, u)
    PROVE  \A v : /\ Published(v)' \subseteq Published(v)
                  /\ \A n \in Published(v)' : (n \in running' => n \in running)
                                              /\ (n \in observing => n \in observing')
<1>1. ObjectTypes /\ Unpublish(u) /\ url' = url /\ running' \subseteq running
  BY DEF TypeInv, Disconnected
<1>2. /\ Published(u)' = {n \in Published(u) : refs[n] > 1}
      /\ \A v : v # u => Published(v)' = Published(v)
      /\ \A n \in observing \cap Sources' : n \in observing'
  BY <1>1, UnpublishFacts
<1>3. \A v : Published(v)' \subseteq Published(v) /\ Published(v)' \subseteq Sources'
  BY <1>2 DEF Published
<1>4. QED
  BY <1>1, <1>2, <1>3

LEMMA FollowLeave ==
    ASSUME TypeInv, FollowInv, NEW t \in Consumers, NEW u \in Urls, Leave(t, u)
    PROVE  FollowInv'
<1>1. Disconnected(t, "leave", u) /\ UNCHANGED <<wanted, miscounted>>
  BY LeaveTypes DEF Leave, history
<1>2. /\ thread[t] = Idle /\ Becomes(t, Job("leave", u, "abort"))
      /\ rtsp' = rtsp /\ saved' = saved
  BY <1>1 DEF Disconnected
<1>3. Job("leave", u, "abort").at = "abort" /\ Job("leave", u, "abort").op = "leave"
  BY JobFacts
<1>4. ~ Stops(Job("leave", u, "abort")) /\ ~ Stops(thread[t])
  BY <1>2, <1>3 DEF Stops
<1>5. \A v \in Urls : /\ Published(v)' \subseteq Published(v)
                      /\ \A n \in Published(v)' : (n \in running' => n \in running)
                                                  /\ (n \in observing => n \in observing')
  BY <1>1, DisconnectKeeps
<1>6. QED
  BY <1>1, <1>2, <1>3, <1>4, <1>5, FollowQuiet

LEMMA FollowStop ==
    ASSUME TypeInv, FollowInv, NEW u \in Urls, StopRetranslation(u)
    PROVE  FollowInv'
<1>1. Disconnected(Main, "stop", u) /\ wanted' = wanted \ {u} /\ Main \in Consumers
  BY StopTypes, ThreadSets DEF StopRetranslation
<1>2. miscounted' = IF u \notin wanted THEN miscounted \cup {u} ELSE miscounted
  BY DEF StopRetranslation, Miscount
<1>3. /\ thread[Main] = Idle /\ Becomes(Main, Job("stop", u, "abort"))
      /\ rtsp' = rtsp /\ saved' = saved
  BY <1>1 DEF Disconnected
<1>4. Job("stop", u, "abort").at = "abort"
  BY JobFacts
<1>5. /\ \A o \in Consumers : \A v : GoesOn(o, v)
      /\ \A v : Restoring(v)' <=> Restoring(v)
      /\ thread'[Retry] = thread[Retry]
  BY <1>1, <1>3, <1>4, Unlaunched
<1>6. \A v : /\ Published(v)' \subseteq Published(v)
             /\ \A n \in Published(v)' : (n \in running' => n \in running)
                                         /\ (n \in observing => n \in observing')
  BY <1>1, DisconnectKeeps
<1>7. \A v : ~ Stopping(v)
  BY <1>3, JobFacts DEF Stopping
<1>8. \A v : Stopping(v)' <=> v = u
  <2>1. thread'[Main] = Job("stop", u, "abort")
    BY <1>3 DEF Becomes
  <2>2. \A v : Job("stop", u, "abort") = Job("stop", v, "abort") => v = u
    BY JobFacts
  <2>3. QED
    BY <2>1, <2>2 DEF Stopping
<1>9. \A v : Retranslated(v)' <=> Retranslated(v)
  BY <1>3 DEF Retranslated
<1>10. ASSUME NEW v \in Urls, v \notin miscounted' PROVE FollowOf(v)'
  <2>1. FollowOf(v)
    BY <1>2, <1>10 DEF FollowInv
  <2>2. CASE v = u
    <3>1. u \in wanted /\ u \notin wanted' /\ Stopping(u)'
      BY <1>1, <1>2, <1>8, <1>10, <2>2
    <3>2. (\E o \in Consumers : Past(o, u)') => Published(u)' \subseteq observing'
      BY <1>5, <1>6, <2>1, <2>2 DEF GoesOn, FollowOf
    <3>3. \A o \in Consumers : Past(o, u)' /\ At(o, "start")' /\ u \in Supported =>
             thread'[o].playable
      BY <1>5, <2>1, <2>2 DEF GoesOn, FollowOf
    <3>4. QED
      BY <2>2, <3>1, <3>2, <3>3 DEF FollowOf
  <2>3. CASE v # u
    <3>1. v \in wanted' <=> v \in wanted
      BY <1>1, <2>3
    <3>2. QED
      BY <1>3, <1>5, <1>6, <1>7, <1>8, <1>9, <2>1, <2>3, <3>1, FollowKept
  <2>4. QED
    BY <2>2, <2>3
<1>11. RestoresKept'
  BY <1>3, <1>5 DEF FollowInv, RestoresKept, At
<1>12. QED
  BY <1>10, <1>11 DEF FollowInv

LEMMA FollowAbort ==
    ASSUME TypeInv, FollowInv, NEW t \in Consumers, Abort(t)
    PROVE  FollowInv'
<1>1. PICK op \in {"leave", "stop"}, u \in Urls :
         /\ thread[t] = Job(op, u, "abort") /\ (op = "stop" => t = Main)
         /\ rtsp' = IF op = "stop" THEN {r \in rtsp : r.url # u} ELSE rtsp
         /\ running' \subseteq running /\ miscounted \subseteq miscounted'
  <2>1. PICK op \in {"leave", "stop"}, u \in Urls :
           /\ thread[t] = Job(op, u, "abort") /\ (op = "stop" => t = Main)
           /\ rtsp' = IF op = "stop" THEN {r \in rtsp : r.url # u} ELSE rtsp
           /\ \/ refs' = refs /\ running' = running /\ UNCHANGED history
              \/ \E n \in Objects :
                    /\ running' = IF refs[n] = 1 THEN running \ {n} ELSE running
                    /\ Miscount(u, refs[n] = 1)
    BY AbortTypes
  <2>2. running' \subseteq running /\ miscounted \subseteq miscounted'
    BY <2>1 DEF Miscount, history
  <2>3. QED
    BY <2>1, <2>2
<1>2. UNCHANGED <<url, observing, published, saved, wanted>> /\ Becomes(t, Idle)
  BY AbortTypes DEF Abort
<1>3. \A v : Published(v)' = Published(v)
  BY <1>2, SameSources
<1>4. thread[t].op = op /\ thread[t].at = "abort" /\ ~ Stops(Idle)
  BY <1>1, JobFacts DEF Stops
<1>5. CASE op = "leave"
  <2>1. ~ Stops(thread[t]) /\ rtsp' = rtsp
    BY <1>1, <1>4, <1>5 DEF Stops
  <2>2. QED
    BY <1>1, <1>2, <1>3, <1>4, <2>1, FollowQuiet
<1>6. CASE op = "stop"
  <2>1. t = Main /\ rtsp' = {r \in rtsp : r.url # u} /\ thread[Main] = Job("stop", u, "abort")
    BY <1>1, <1>6
  <2>2. \A v : Stopping(v) <=> v = u
    <3>1. \A v : Job("stop", u, "abort") = Job("stop", v, "abort") => v = u
      BY JobFacts
    <3>2. QED
      BY <2>1, <3>1 DEF Stopping
  <2>3. \A v : ~ Stopping(v)'
    <3>1. thread'[Main] = Idle
      BY <1>2, <2>1 DEF Becomes
    <3>2. QED
      BY <3>1, JobFacts DEF Stopping
  <2>4. ~ Retranslated(u)' /\ \A v : v # u => (Retranslated(v)' <=> Retranslated(v))
    BY <2>1 DEF Retranslated
  <2>5. /\ \A o \in Consumers : \A v : GoesOn(o, v)
        /\ \A v : Restoring(v)' <=> Restoring(v)
        /\ thread'[Retry] = thread[Retry]
    BY <1>2, Unlaunched
  <2>6. ASSUME NEW v \in Urls, v \notin miscounted' PROVE FollowOf(v)'
    <3>1. FollowOf(v)
      BY <1>1, <2>6 DEF FollowInv
    <3>2. CASE v = u
      <4>1. u \notin wanted
        BY <2>2, <3>1, <3>2 DEF FollowOf
      <4>2. (\E o \in Consumers : Past(o, u)') => Published(u)' \subseteq observing'
        BY <1>2, <1>3, <2>5, <3>1, <3>2 DEF GoesOn, FollowOf
      <4>3. \A o \in Consumers : Past(o, u)' /\ At(o, "start")' /\ u \in Supported =>
               thread'[o].playable
        BY <2>5, <3>1, <3>2 DEF GoesOn, FollowOf
      <4>4. QED
        BY <1>2, <2>3, <2>4, <3>2, <4>1, <4>2, <4>3 DEF FollowOf
    <3>3. CASE v # u
      BY <1>1, <1>2, <1>3, <2>2, <2>3, <2>4, <2>5, <3>1, <3>3, FollowKept
    <3>4. QED
      BY <3>2, <3>3
  <2>7. RestoresKept'
    BY <1>2, <2>5 DEF FollowInv, RestoresKept, At
  <2>8. QED
    BY <2>6, <2>7 DEF FollowInv
<1>7. QED
  BY <1>5, <1>6

LEMMA FollowObserve ==
    ASSUME TypeInv, FollowInv, NEW t \in Consumers, Observe(t)
    PROVE  FollowInv'
<1>1. PICK u \in Urls :
         /\ thread[t] = Job("launch", u, "observe")
         /\ Becomes(t, Job("launch", u, "choose"))
         /\ observing' = observing \cup Published(u)
  BY ObserveTypes
<1>2. UNCHANGED <<url, running, published, rtsp, saved, wanted, miscounted>>
  BY DEF Observe, clientVars, history
<1>3. \A v : Published(v)' = Published(v)
  BY <1>2, SameSources
<1>4. /\ thread[t].at = "observe" /\ thread[t].url = u
      /\ thread'[t].at = "choose" /\ thread'[t].url = u
      /\ Job("launch", u, "choose").at = "choose"
      /\ \A o \in Consumers \ {t} : thread'[o] = thread[o]
      /\ thread'[Retry] = thread[Retry] /\ t \in Threads
  BY <1>1, JobFacts, ThreadSets DEF Becomes
<1>5. \A v : Stopping(v)' <=> Stopping(v)
  <2>1. ~ Stops(Job("launch", u, "choose")) /\ ~ Stops(thread[t])
    BY <1>4 DEF Stops
  <2>2. QED
    BY <1>1, <1>4, <2>1, SameStopping
<1>6. \A v : (Restoring(v)' <=> Restoring(v)) /\ (Retranslated(v)' <=> Retranslated(v))
  BY <1>2, <1>4 DEF Restoring, At, Retranslated
<1>7. /\ \A o \in Consumers : \A v : o # t \/ v # u => GoesOn(o, v)
      /\ ~ At(t, "start")'
  BY <1>4 DEF GoesOn, Past, Launches, At
<1>8. ASSUME NEW v \in Urls, v \notin miscounted' PROVE FollowOf(v)'
  <2>1. FollowOf(v)
    BY <1>2, <1>8 DEF FollowInv
  <2>2. CASE v = u
    <3>1. Published(u)' \subseteq observing'
      BY <1>1, <1>3
    <3>2. \A o \in Consumers : Past(o, u)' /\ At(o, "start")' /\ u \in Supported =>
             thread'[o].playable
      BY <1>7, <2>1, <2>2 DEF GoesOn, FollowOf
    <3>3. QED
      BY <1>2, <1>3, <1>5, <1>6, <2>1, <2>2, <3>1, <3>2 DEF FollowOf
  <2>3. CASE v # u
    BY <1>1, <1>2, <1>3, <1>5, <1>6, <1>7, <2>1, <2>3, FollowKept
  <2>4. QED
    BY <2>2, <2>3
<1>9. RestoresKept'
  BY <1>2, <1>4 DEF FollowInv, RestoresKept, At
<1>10. QED
  BY <1>8, <1>9 DEF FollowInv

(* A launch that is on its way holds its source, which is published.       *)
LEMMA LaunchPublished ==
    ASSUME TypeInv, CountInv, NEW t \in Consumers, NEW u \in Urls, Launches(t, u),
           u \notin miscounted
    PROVE  Published(u) # {}
<1>1. CountOf(u)
  BY DEF CountInv
<1>2. t \in Launching(u) /\ IsFiniteSet(Launching(u)) /\ Cardinality(Launching(u)) \in Nat
      /\ held[u] \in Nat /\ Wants(u) \in {0, 1}
  BY HolderTypes DEF Launching
<1>3. Cardinality(Launching(u)) # 0
  BY <1>2, FS_EmptySet
<1>4. Holders(u) # 0
  BY <1>2, <1>3 DEF Holders
<1>5. QED
  BY <1>1, <1>4 DEF CountOf

LEMMA FollowChoose ==
    ASSUME TypeInv, CountInv, FollowInv, NEW t \in Consumers, Choose(t)
    PROVE  FollowInv'
<1>1. PICK u \in Urls :
         /\ thread[t] = Job("launch", u, "choose") /\ Miscount(u, Retranslated(u))
         /\ Becomes(t, IF Retranslated(u) THEN Idle ELSE Chosen("launch", u))
  BY ChooseTypes
<1>2. UNCHANGED <<url, running, observing, published, rtsp, saved, wanted>>
  BY DEF Choose, objectVars
<1>3. \A v : Published(v)' = Published(v)
  BY <1>2, SameSources
<1>4. miscounted \subseteq miscounted' /\ (u \notin miscounted' => ~ Retranslated(u))
  BY <1>1 DEF Miscount
<1>5. /\ thread[t] # Idle /\ thread[t].at = "choose" /\ thread[t].url = u
      /\ thread[t].op = "launch"
      /\ \A o \in Consumers \ {t} : thread'[o] = thread[o]
      /\ thread'[t] = IF Retranslated(u) THEN Idle ELSE Chosen("launch", u)
      /\ thread'[Retry] = thread[Retry] /\ t \in Threads
  BY <1>1, JobFacts, ThreadSets DEF Becomes
<1>6. /\ Chosen("launch", u) # Idle /\ Chosen("launch", u).at = "start"
      /\ Chosen("launch", u).op = "launch" /\ Chosen("launch", u).url = u
      /\ Chosen("launch", u).playable <=> (u \in Supported /\ Published(u) # {})
  BY ChosenFacts
<1>7. \A v : Stopping(v)' <=> Stopping(v)
  <2>1. ~ Stops(Chosen("launch", u)) /\ ~ Stops(Idle) /\ ~ Stops(thread[t])
    BY <1>5, <1>6 DEF Stops
  <2>2. QED
    BY <1>1, <1>5, <2>1, SameStopping
<1>8. \A v : (Restoring(v)' <=> Restoring(v)) /\ (Retranslated(v)' <=> Retranslated(v))
  BY <1>2, <1>5 DEF Restoring, At, Retranslated
<1>9. \A o \in Consumers \ {t} : \A v : GoesOn(o, v)
  BY <1>5 DEF GoesOn, Past, Launches, At
<1>10. \A v : v # u => GoesOn(t, v)
  BY <1>5, <1>6 DEF GoesOn, Past, Launches, At
<1>11. Launches(t, u) /\ Past(t, u)
  BY <1>5 DEF Launches, Past, At
<1>12. ASSUME NEW v \in Urls, v \notin miscounted' PROVE FollowOf(v)'
  <2>1. FollowOf(v) /\ v \notin miscounted
    BY <1>4, <1>12 DEF FollowInv
  <2>2. CASE v = u
    <3>1. ~ Retranslated(u) /\ Published(u) # {}
      BY <1>4, <1>11, <1>12, <2>1, <2>2, LaunchPublished
    <3>2. Published(u) \subseteq observing
      BY <1>11, <2>1, <2>2 DEF FollowOf
    <3>3. u \in Supported => thread'[t].playable
      BY <1>5, <1>6, <3>1
    <3>4. \A o \in Consumers : Past(o, u)' /\ At(o, "start")' /\ u \in Supported =>
             thread'[o].playable
      BY <1>9, <2>1, <2>2, <3>3 DEF GoesOn, FollowOf
    <3>5. QED
      BY <1>2, <1>3, <1>7, <1>8, <2>1, <2>2, <3>2, <3>4 DEF FollowOf
  <2>3. CASE v # u
    BY <1>2, <1>3, <1>7, <1>8, <1>9, <1>10, <2>1, <2>3, FollowKept
  <2>4. QED
    BY <2>2, <2>3
<1>13. RestoresKept'
  BY <1>2, <1>5 DEF FollowInv, RestoresKept, At
<1>14. QED
  BY <1>12, <1>13 DEF FollowInv

(* A start adds a retranslator of its source when there is a stream.       *)
LEMMA StartRtsp ==
    ASSUME NEW t \in Threads, StartRetranslator(t), NEW u, u = thread[t].url
    PROVE  /\ \A v : Retranslated(v) => Retranslated(v)'
           /\ \A v : Retranslated(v)' => Retranslated(v) \/ (v = u /\ thread[t].playable)
           /\ thread[t].playable => Retranslated(u)'
<1> DEFINE new == [url |-> thread[t].url, port |-> thread[t].port,
                   raced |-> thread[t].raced \/ Starting(t) # {}]
<1>1. new.url = u
  OBVIOUS
<1>2. rtsp' = IF thread[t].playable THEN rtsp \cup {new} ELSE rtsp
  BY DEF StartRetranslator
<1>. HIDE DEF new
<1>3. CASE thread[t].playable
  <2>1. rtsp' = rtsp \cup {new}
    BY <1>2, <1>3
  <2>2. QED
    BY <1>1, <1>3, <2>1 DEF Retranslated
<1>4. CASE ~ thread[t].playable
  <2>1. rtsp' = rtsp
    BY <1>2, <1>4
  <2>2. QED
    BY <1>4, <2>1 DEF Retranslated
<1>5. QED
  BY <1>3, <1>4

LEMMA FollowStart ==
    ASSUME TypeInv, FollowInv, NEW t \in Threads, StartRetranslator(t)
    PROVE  FollowInv'
<1>0. PICK u \in Urls : u = thread[t].url
  BY StartFacts, JobFacts
<1>1. UNCHANGED <<url, running, observing, published, saved>>
  BY DEF StartRetranslator, objectVars
<1>2. \A v : Published(v)' = Published(v)
  BY <1>1, SameSources
<1>3. /\ wanted' = IF thread[t].op = "launch" THEN wanted \cup {u} ELSE wanted
      /\ miscounted' = IF thread[t].op = "launch" /\ (u \in wanted \/ Stopping(u))
                       THEN miscounted \cup {u} ELSE miscounted
  BY <1>0 DEF StartRetranslator, Miscount
<1>4. /\ At(t, "start") /\ thread'[t] = Idle
      /\ \A o \in Threads \ {t} :
            \/ thread'[o] = thread[o] /\ ~ At(o, "start")
            \/ /\ At(o, "start") /\ At(o, "start")'
               /\ thread'[o].op = thread[o].op /\ thread'[o].url = thread[o].url
               /\ thread'[o].playable = thread[o].playable
  BY StartFacts
<1>5. /\ \A v : Launches(t, v) <=> thread[t].op = "launch" /\ u = v
      /\ thread[t].op = "launch" => t \in Consumers
      /\ thread[t].op # "launch" => t = Retry
  BY <1>0, StartLaunches
<1>7. /\ \A v : Retranslated(v) => Retranslated(v)'
      /\ \A v : Retranslated(v)' => Retranslated(v) \/ (v = u /\ thread[t].playable)
      /\ thread[t].playable => Retranslated(u)'
  BY <1>0, StartRtsp
<1>8. \A v : Stopping(v)' <=> Stopping(v)
  <2>1. \A v : ~ At(Main, "start") \/ ~ Stopping(v)
    BY JobFacts DEF At, Stopping
  <2>2. \A v : ~ At(Main, "start")' \/ ~ Stopping(v)'
    BY JobFacts DEF At, Stopping
  <2>3. CASE t = Main
    <3>1. \A v : ~ Stopping(v)'
      BY <1>4, <2>3, JobFacts DEF Stopping
    <3>2. QED
      BY <1>4, <2>1, <2>3, <3>1
  <2>4. CASE t # Main
    BY <1>4, <2>1, <2>2, <2>4, ThreadSets DEF Stopping
  <2>5. QED
    BY <2>3, <2>4
<1>9. \A o \in Consumers : \A v : GoesOn(o, v)
  <2>1. \A v : ~ Past(t, v)'
    BY <1>4 DEF Past, Launches, At
  <2>2. ASSUME NEW o \in Consumers, o # t, NEW v PROVE GoesOn(o, v)
    <3>1. CASE thread'[o] = thread[o]
      BY <3>1 DEF GoesOn, Past, Launches, At
    <3>2. CASE /\ At(o, "start") /\ At(o, "start")'
               /\ thread'[o].op = thread[o].op /\ thread'[o].url = thread[o].url
               /\ thread'[o].playable = thread[o].playable
      BY <3>2 DEF GoesOn, Past, Launches, At
    <3>3. QED
      BY <1>4, <2>2, <3>1, <3>2, ThreadSets
  <2>3. QED
    BY <2>1, <2>2 DEF GoesOn
<1>10. \A v : Restoring(v) => Restoring(v)' \/ (t = Retry /\ v = u /\ thread[t].playable)
  <2>1. CASE t = Retry
    BY <1>0, <2>1 DEF Restoring
  <2>2. CASE t # Retry
    <3>1. \/ thread'[Retry] = thread[Retry] /\ ~ At(Retry, "start")
          \/ /\ At(Retry, "start") /\ At(Retry, "start")'
             /\ thread'[Retry].url = thread[Retry].url
             /\ thread'[Retry].playable = thread[Retry].playable
      BY <1>4, <2>2, ThreadSets
    <3>2. QED
      BY <3>1 DEF Restoring
  <2>3. QED
    BY <2>1, <2>2
<1>11. ASSUME NEW v \in Urls, v \notin miscounted' PROVE FollowOf(v)'
  <2>1. FollowOf(v)
    BY <1>3, <1>11 DEF FollowInv
  <2>2. \A o \in Consumers : Past(o, v)' /\ At(o, "start")' /\ v \in Supported =>
           thread'[o].playable
    BY <1>9, <2>1 DEF GoesOn, FollowOf
  <2>3. (\E o \in Consumers : Past(o, v)') => Published(v)' \subseteq observing'
    <3>1. (\E o \in Consumers : Past(o, v)') => \E o \in Consumers : Past(o, v)
      BY <1>9 DEF GoesOn
    <3>2. QED
      BY <1>1, <1>2, <2>1, <3>1 DEF FollowOf
  <2>4. CASE v = u /\ thread[t].op = "launch"
    <3>1. t \in Consumers /\ Launches(t, v) /\ v \notin wanted /\ ~ Stopping(v)
      BY <1>3, <1>5, <1>11, <2>4
    <3>2. Past(t, v)
      BY <1>4, <3>1 DEF Past, At
    <3>3. Published(v) \subseteq observing /\ (v \in Supported => thread[t].playable)
      BY <1>4, <2>1, <3>1, <3>2 DEF FollowOf
    <3>4. v \in wanted' /\ ~ Stopping(v)' /\ (Retranslated(v)' \/ v \notin Supported)
      BY <1>3, <1>7, <1>8, <2>4, <3>1, <3>3
    <3>5. Published(v)' \subseteq observing'
      BY <1>1, <1>2, <3>3
    <3>6. QED
      BY <2>2, <3>4, <3>5 DEF FollowOf
  <2>5. CASE v = u /\ thread[t].op # "launch"
    <3>1. wanted' = wanted /\ saved'[v] = saved[v] /\ saved[v] = "kept"
      BY <1>0, <1>1, <1>3, <1>4, <1>5, <2>5 DEF FollowInv, RestoresKept
    <3>2. Published(v)' = Published(v) /\ running' = running /\ observing' = observing
      BY <1>1, <1>2
    <3>3. v \in wanted /\ Published(v) \cap running # {} =>
             Retranslated(v)' \/ v \notin Supported \/ saved[v] = "empty" \/ Restoring(v)'
      BY <1>7, <1>10, <2>1, <2>5 DEF FollowOf
    <3>4. /\ v \in wanted => Published(v) \subseteq observing
          /\ Stopping(v)' => v \notin wanted
      BY <1>8, <2>1 DEF FollowOf
    <3>5. QED
      BY <2>2, <2>3, <3>1, <3>2, <3>3, <3>4 DEF FollowOf
  <2>6. CASE v # u
    <3>1. v \in wanted' <=> v \in wanted
      BY <1>3, <2>6
    <3>2. Retranslated(v)' <=> Retranslated(v)
      BY <1>7, <2>6
    <3>3. Restoring(v) => Restoring(v)'
      BY <1>10, <2>6
    <3>4. saved'[v] = saved[v] /\ Published(v)' = Published(v)
          /\ running' = running /\ observing' = observing
      BY <1>1, <1>2
    <3>5. QED
      BY <1>8, <1>9, <2>1, <3>1, <3>2, <3>3, <3>4, FollowKept
  <2>7. QED
    BY <2>4, <2>5, <2>6
<1>12. RestoresKept'
  <2>1. At(Retry, "start")' => At(Retry, "start") /\ thread'[Retry].url = thread[Retry].url
    <3>1. CASE t = Retry
      BY <1>4, <3>1 DEF At
    <3>2. CASE t # Retry
      BY <1>4, <3>2, ThreadSets DEF At
    <3>3. QED
      BY <3>1, <3>2
  <2>2. QED
    BY <1>1, <2>1 DEF FollowInv, RestoresKept
<1>13. QED
  BY <1>11, <1>12 DEF FollowInv

(* The steps of the threads are not those of the receivers.                *)
LEMMA SameThreads ==
    ASSUME \A o \in Consumers : thread'[o] = thread[o]
    PROVE  /\ \A o \in Consumers : \A v : GoesOn(o, v)
           /\ \A v : Stopping(v)' <=> Stopping(v)
<1>1. \A o \in Consumers : \A v : GoesOn(o, v)
  BY DEF GoesOn, Past, Launches, At
<1>2. thread'[Main] = thread[Main]
  BY ThreadSets
<1>3. QED
  BY <1>1, <1>2 DEF Stopping

(* What the properties of one source do not depend on.                     *)
LEMMA FollowOther ==
    ASSUME NEW v, FollowOf(v), wanted' = wanted, Published(v)' = Published(v),
           observing' = observing, \A m \in Published(v) : m \in running' => m \in running,
           Retranslated(v)' <=> Retranslated(v), saved'[v] = saved[v],
           Restoring(v) => Restoring(v)', \A o \in Consumers : thread'[o] = thread[o]
    PROVE  FollowOf(v)'
<1>1. /\ \A o \in Consumers : GoesOn(o, v)
      /\ Stopping(v)' <=> Stopping(v)
  BY SameThreads
<1>2. /\ Published(v)' \subseteq Published(v)
      /\ \A m \in Published(v)' : (m \in running' => m \in running)
                                  /\ (m \in observing => m \in observing')
  OBVIOUS
<1>3. QED
  BY <1>1, <1>2, FollowKept

LEMMA FollowLose ==
    ASSUME TypeInv, CountInv, FollowInv, NEW n \in Objects, Lose(n)
    PROVE  FollowInv'
<1>0. ObjectTypes /\ saved \in [Urls -> {"none", "kept", "empty"}]
  BY DEF TypeInv, ClientTypes
<1>1. PICK u \in Urls : u = url[n]
  BY <1>0, ObjectFacts
<1>2. UNCHANGED <<url, observing, published, thread, wanted, miscounted>>
      /\ running' = running \ {n} /\ n \in Sources
  BY DEF Lose, clientVars, history
<1>3. \A v : Published(v)' = Published(v)
  BY <1>2, SameSources
<1>4. \/ /\ n \in observing /\ rtsp' = {r \in rtsp : r.url # u}
         /\ saved' = [saved EXCEPT ![u] = IF Retranslated(u) /\ saved[u] = "none"
                                          THEN "kept" ELSE saved[u]]
      \/ n \notin observing /\ rtsp' = rtsp /\ saved' = saved
  BY <1>1 DEF Lose
<1>5. /\ \A v : v # u => (Retranslated(v)' <=> Retranslated(v))
      /\ \A v \in Urls : v # u => saved'[v] = saved[v]
      /\ \A v \in Urls : saved[v] = "kept" => saved'[v] = "kept"
      /\ Retranslated(u)' => n \notin observing /\ Retranslated(u) /\ saved' = saved
  BY <1>0, <1>4 DEF Retranslated
<1>6. \A v : Restoring(v)' <=> Restoring(v)
  BY <1>2 DEF Restoring, At
<1>7. ASSUME NEW v \in Urls, v \notin miscounted' PROVE FollowOf(v)'
  <2>1. FollowOf(v) /\ CountOf(v)
    BY <1>2, <1>7 DEF FollowInv, CountInv
  <2>2. CASE v # u
    BY <1>2, <1>3, <1>5, <1>6, <2>1, <2>2, FollowOther
  <2>3. CASE v = u
    <3>1. n \in Published(v)
      BY <1>1, <1>2, <2>3 DEF Published
    <3>2. Published(v)' \cap running' = {}
      BY <1>2, <1>3, <2>1, <3>1 DEF CountOf
    <3>3. Retranslated(v)' => v \in wanted \/ saved'[v] = "kept" \/ Stopping(v)
      BY <1>5, <2>1, <2>3 DEF FollowOf
    <3>4. /\ \A o \in Consumers : GoesOn(o, v)
          /\ Stopping(v)' <=> Stopping(v)
      BY <1>2, SameThreads
    <3>5. (\E o \in Consumers : Past(o, v)') => \E o \in Consumers : Past(o, v)
      BY <3>4 DEF GoesOn
    <3>6. v \in wanted' \/ (\E o \in Consumers : Past(o, v)') => Published(v)' \subseteq observing'
      BY <1>2, <1>3, <2>1, <3>5 DEF FollowOf
    <3>7. \A o \in Consumers : Past(o, v)' /\ At(o, "start")' /\ v \in Supported =>
             thread'[o].playable
      BY <2>1, <3>4 DEF GoesOn, FollowOf
    <3>8. Stopping(v)' => v \notin wanted'
      BY <1>2, <2>1, <3>4 DEF FollowOf
    <3>9. QED
      BY <1>2, <3>2, <3>3, <3>4, <3>6, <3>7, <3>8 DEF FollowOf
  <2>4. QED
    BY <2>2, <2>3
<1>8. RestoresKept'
  <2>1. At(Retry, "start") => thread[Retry].url \in Urls
    BY JobAt, ThreadSets DEF TypeInv, ThreadTypes, At
  <2>2. At(Retry, "start")' => At(Retry, "start") /\ thread'[Retry].url = thread[Retry].url
    BY <1>2 DEF At
  <2>3. At(Retry, "start") => saved[thread[Retry].url] = "kept"
    BY DEF FollowInv, RestoresKept
  <2>4. QED
    BY <1>5, <2>1, <2>2, <2>3 DEF RestoresKept
<1>9. QED
  BY <1>7, <1>8 DEF FollowInv

LEMMA FollowComeBack ==
    ASSUME TypeInv, FollowInv, NEW n \in Objects, ComeBack(n)
    PROVE  FollowInv'
<1>0. ObjectTypes /\ saved \in [Urls -> {"none", "kept", "empty"}]
  BY DEF TypeInv, ClientTypes
<1>1. PICK u \in Urls : u = url[n]
  BY <1>0, ObjectFacts
<1>2. UNCHANGED <<url, observing, published, rtsp, wanted, miscounted>>
      /\ running' = running \cup {n} /\ n \in Sources /\ thread[Retry] = Idle
  BY DEF ComeBack, clientVars, history
<1>3. \A v : Published(v)' = Published(v)
  BY <1>2, SameSources
<1>4. \A o \in Consumers : thread'[o] = thread[o]
  BY ComeBackTypes
<1>5. \/ /\ n \notin observing \/ Retranslated(u)
         /\ saved' = saved /\ thread' = thread
      \/ /\ n \in observing /\ ~ Retranslated(u) /\ saved[u] = "kept"
         /\ saved' = saved /\ Becomes(Retry, Chosen("restore", u))
      \/ /\ n \in observing /\ ~ Retranslated(u) /\ saved[u] # "kept"
         /\ saved' = [saved EXCEPT ![u] = "empty"] /\ thread' = thread
  BY <1>1, ComeBackTypes
<1>6. \A v : Retranslated(v)' <=> Retranslated(v)
  BY <1>2 DEF Retranslated
<1>7. \A v : ~ Restoring(v)
  BY <1>2 DEF Restoring, At
<1>8. n \in Published(u) /\ \A v : v # u => n \notin Published(v)
  BY <1>1, <1>2 DEF Published
<1>9. /\ thread'[Retry] = Idle
         \/ /\ thread'[Retry] = Chosen("restore", u) /\ saved[u] = "kept"
            /\ ~ Retranslated(u) /\ saved' = saved
      /\ saved'[u] = saved[u] \/ (saved'[u] = "empty" /\ ~ Retranslated(u))
      /\ \A v \in Urls : v # u => saved'[v] = saved[v]
  BY <1>0, <1>2, <1>5 DEF Becomes
<1>10. ASSUME NEW v \in Urls, v \notin miscounted' PROVE FollowOf(v)'
  <2>1. FollowOf(v)
    BY <1>2, <1>10 DEF FollowInv
  <2>2. CASE v # u
    <3>1. \A m \in Published(v) : m \in running' => m \in running
      BY <1>2, <1>8, <2>2
    <3>2. QED
      BY <1>2, <1>3, <1>4, <1>6, <1>7, <1>9, <2>1, <2>2, <3>1, FollowOther
  <2>3. CASE v = u
    <3>1. v \in wanted => n \in observing
      BY <1>8, <2>1, <2>3 DEF FollowOf
    <3>2. v \in wanted => Retranslated(v) \/ saved'[v] = "empty"
                          \/ thread'[Retry] = Chosen("restore", v)
      BY <1>0, <1>5, <2>3, <3>1 DEF Becomes
    <3>3. thread'[Retry] = Chosen("restore", v) => Restoring(v)' \/ v \notin Supported
      <4>1. /\ Chosen("restore", v) # Idle /\ Chosen("restore", v).at = "start"
            /\ Chosen("restore", v).url = v
            /\ Chosen("restore", v).playable <=> (v \in Supported /\ Published(v) # {})
        BY ChosenFacts
      <4>2. QED
        BY <1>8, <2>3, <4>1 DEF Restoring, At
    <3>4. v \in wanted => Retranslated(v)' \/ v \notin Supported \/ saved'[v] = "empty"
                          \/ Restoring(v)'
      BY <1>6, <3>2, <3>3
    <3>5. /\ \A o \in Consumers : GoesOn(o, v)
          /\ Stopping(v)' <=> Stopping(v)
      BY <1>4, SameThreads
    <3>6. Retranslated(v)' => v \in wanted \/ saved'[v] = "kept" \/ Stopping(v)'
      BY <1>6, <1>9, <2>1, <2>3, <3>5 DEF FollowOf
    <3>7. (\E o \in Consumers : Past(o, v)') => \E o \in Consumers : Past(o, v)
      BY <3>5 DEF GoesOn
    <3>8. v \in wanted' \/ (\E o \in Consumers : Past(o, v)') => Published(v)' \subseteq observing'
      BY <1>2, <1>3, <2>1, <3>7 DEF FollowOf
    <3>9. \A o \in Consumers : Past(o, v)' /\ At(o, "start")' /\ v \in Supported =>
             thread'[o].playable
      BY <2>1, <3>5 DEF GoesOn, FollowOf
    <3>10. Stopping(v)' => v \notin wanted'
      BY <1>2, <2>1, <3>5 DEF FollowOf
    <3>11. QED
      BY <1>2, <3>4, <3>6, <3>8, <3>9, <3>10 DEF FollowOf
  <2>4. QED
    BY <2>2, <2>3
<1>11. RestoresKept'
  <2>1. CASE thread'[Retry] = Idle
    BY <2>1 DEF RestoresKept, At
  <2>2. CASE thread'[Retry] = Chosen("restore", u) /\ saved[u] = "kept" /\ saved' = saved
    <3>1. Chosen("restore", u).url = u
      BY ChosenFacts
    <3>2. QED
      BY <2>2, <3>1 DEF RestoresKept
  <2>3. QED
    BY <1>9, <2>1, <2>2
<1>12. QED
  BY <1>10, <1>11 DEF FollowInv

LEMMA FollowStep == TypeInv /\ CountInv /\ FollowInv /\ [Next]_vars => FollowInv'
<1>1. SUFFICES ASSUME TypeInv, CountInv, FollowInv, [Next]_vars PROVE FollowInv'
  OBVIOUS
<1>2. CASE UNCHANGED vars
  <2>1. UNCHANGED <<url, published, running, observing, rtsp, saved, thread, wanted, miscounted>>
    BY <1>2 DEF vars, objectVars, clientVars, history
  <2>2. \A v : Published(v)' = Published(v)
    BY <2>1, SameSources
  <2>3. \A v : (Restoring(v)' <=> Restoring(v)) /\ (Retranslated(v)' <=> Retranslated(v))
    BY <2>1 DEF Restoring, At, Retranslated
  <2>4. ASSUME NEW v \in Urls, v \notin miscounted' PROVE FollowOf(v)'
    <3>1. FollowOf(v)
      BY <1>1, <2>1, <2>4 DEF FollowInv
    <3>2. QED
      BY <2>1, <2>2, <2>3, <3>1, FollowOther
  <2>5. RestoresKept'
    BY <1>1, <2>1 DEF FollowInv, RestoresKept, At
  <2>6. QED
    BY <2>4, <2>5 DEF FollowInv
<1>3. CASE Next
  BY <1>1, <1>3, NextSteps, FollowShare, FollowLeave, FollowCreate, FollowConnect, FollowPublish,
     FollowAbort, FollowObserve, FollowChoose, FollowStart, FollowStop, FollowLose, FollowComeBack
<1>4. QED
  BY <1>1, <1>2, <1>3

LEMMA FollowImplies == FollowInv => RetranslatorFollowsClient
<1>1. SUFFICES ASSUME FollowInv, NEW u \in Urls, Settled(u), u \notin miscounted
               PROVE  /\ u \in wanted /\ Published(u) \cap running # {} =>
                            Retranslated(u) \/ u \notin Supported \/ saved[u] = "empty"
                      /\ Retranslated(u) => u \in wanted \/ saved[u] = "kept"
  BY DEF RetranslatorFollowsClient
<1>2. FollowOf(u)
  BY <1>1 DEF FollowInv
<1>3. ~ Restoring(u)
  BY <1>1, ThreadSets DEF Settled, Restoring, At
<1>4. ~ Stopping(u)
  BY <1>1, ThreadSets, JobFacts DEF Settled, Stopping
<1>5. QED
  BY <1>2, <1>3, <1>4 DEF FollowOf

-----------------------------------------------------------------------------
(* The theorems.                                                           *)

(* Nothing happens before the first call.                                  *)
LEMMA InitFacts ==
    ASSUME Init
    PROVE  /\ url = <<>> /\ Objects = {} /\ running = {} /\ rtsp = {} /\ wanted = {}
           /\ \A u : Published(u) = {}
           /\ \A t \in Threads : thread[t] = Idle
           /\ \A u \in Urls : held[u] = 0
<1>1. /\ url = <<>> /\ running = {} /\ rtsp = {} /\ wanted = {} /\ published = <<>>
      /\ thread = [t \in Threads |-> Idle] /\ held = [u \in Urls |-> 0]
  BY DEF Init
<1>2. Objects = {}
  BY <1>1 DEF Objects
<1>3. DOMAIN published = {}
  BY <1>1
<1>4. \A u : Published(u) = {}
  BY <1>3 DEF Published, Sources
<1>5. QED
  BY <1>1, <1>2, <1>4

LEMMA InvariantsInit == Init => RecvInv /\ PortInv /\ BoundInv /\ CountInv /\ FollowInv
<1>1. SUFFICES ASSUME Init PROVE RecvInv /\ PortInv /\ BoundInv /\ CountInv /\ FollowInv
  OBVIOUS
<1>2. /\ url = <<>> /\ Objects = {} /\ running = {} /\ rtsp = {} /\ wanted = {}
      /\ \A u : Published(u) = {}
      /\ \A t \in Threads : thread[t] = Idle
      /\ \A u \in Urls : held[u] = 0
  BY <1>1, InitFacts
<1>3. \A t \in Threads : \A step : ~ At(t, step)
  BY <1>2 DEF At
<1>4. RecvInv
  BY <1>2 DEF RecvInv, ReceiversLive, OneLive
<1>5. PortInv
  BY <1>2, <1>3 DEF PortInv
<1>6. BoundInv
  <2>1. Creators = {} /\ \A u : Takers(u) = {}
    BY <1>3, ThreadSets DEF Creators, Takers
  <2>2. Cardinality({}) = 0
    BY FS_EmptySet
  <2>3. Len(url) = 0
    BY <1>2
  <2>4. Cardinality(Creators) = 0 /\ \A u : Cardinality(Takers(u)) = 0
    BY <2>1, <2>2
  <2>5. Cardinality(Consumers) \in Nat
    BY FiniteConsumers
  <2>6. MaxObjects \in Nat /\ MaxHeld \in Nat
    BY ManagerAssumption DEF ManagerAssumption
  <2>7. QED
    BY <1>2, <2>3, <2>4, <2>5, <2>6 DEF BoundInv
<1>7. CountInv
  <2>1. \A u : Launching(u) = {}
    BY <1>3, ThreadSets DEF Launching, Launches
  <2>2. Cardinality({}) = 0
    BY FS_EmptySet
  <2>3. \A u : Cardinality(Launching(u)) = 0
    BY <2>1, <2>2
  <2>4. \A u : Wants(u) = 0
    BY <1>2 DEF Wants
  <2>5. \A u \in Urls : Holders(u) = 0
    BY <1>2, <2>3, <2>4 DEF Holders
  <2>6. QED
    BY <1>2, <2>5 DEF CountInv, CountOf
<1>8. FollowInv
  <2>1. RestoresKept
    BY <1>3, ThreadSets DEF RestoresKept
  <2>2. \A t \in Consumers : \A u : ~ Past(t, u)
    BY <1>3, ThreadSets DEF Past, Launches
  <2>3. \A u : ~ Stopping(u)
    BY <1>2, ThreadSets, JobFacts DEF Stopping
  <2>4. \A u : ~ Retranslated(u)
    BY <1>2 DEF Retranslated
  <2>5. ASSUME NEW u \in Urls PROVE FollowOf(u)
    BY <1>2, <2>2, <2>3, <2>4 DEF FollowOf
  <2>6. QED
    BY <2>1, <2>5 DEF FollowInv
<1>9. QED
  BY <1>4, <1>5, <1>6, <1>7, <1>8

LEMMA TypeInvariant == Spec => []TypeInv
<1>1. QED
  BY TypeInvInit, TypeInvStep, PTL DEF Spec

LEMMA CountInvariant == Spec => []CountInv
<1>1. Init => CountInv
  BY InvariantsInit
<1>2. QED
  BY <1>1, CountStep, TypeInvariant, PTL DEF Spec

(* Ids of objects, jobs, counts and parameters stay what they are, and no  *)
(* count exceeds its bound, for any number of sources and threads.         *)
THEOREM SourcesTypeOK == Spec => []TypeOK
<1>1. Init => BoundInv
  BY InvariantsInit
<1>2. Spec => []BoundInv
  BY <1>1, BoundStep, TypeInvariant, PTL DEF Spec
<1>3. QED
  BY <1>2, TypeImplies, TypeInvariant, PTL

(* connectSource and the callbacks never leave two receivers of one source *)
(* running, unless two consumers created it at once or a connection failed *)
(* and left its receiver behind.                                           *)
THEOREM SourcesOneReceiver == Spec => []OneReceiver
<1>1. Init => RecvInv
  BY InvariantsInit
<1>2. Spec => []RecvInv
  BY <1>1, RecvStep, TypeInvariant, PTL DEF Spec
<1>3. QED
  BY <1>2, RecvImplies, TypeInvariant, PTL

(* createRetranslator gives two sources pairs of ports that share no port, *)
(* unless they were started at once or the range was exhausted.            *)
THEOREM SourcesPairsDisjoint == Spec => []PairsDisjoint
<1>1. Init => PortInv
  BY InvariantsInit
<1>2. Spec => []PortInv
  BY <1>1, PortStep, TypeInvariant, PTL DEF Spec
<1>3. QED
  BY <1>2, PortImplies, TypeInvariant, PTL

(* Between operations the count of a source is the number of its holders,  *)
(* and a source nobody holds is gone, in every interleaving of any number  *)
(* of consumers, until one of the recorded four things disturbs it.        *)
THEOREM SourcesRefsFollow == Spec => []RefsFollowHolders
<1>1. QED
  BY CountImplies, TypeInvariant, CountInvariant, PTL

(* Between operations a source is retranslated if the client's last word   *)
(* on it was a launch, and is not if it was a stop, through any outages,   *)
(* with the exceptions RetranslatorFollowsClient names.                    *)
THEOREM SourcesFollowClient == Spec => []RetranslatorFollowsClient
<1>1. Init => FollowInv
  BY InvariantsInit
<1>2. Spec => []FollowInv
  BY <1>1, FollowStep, TypeInvariant, CountInvariant, PTL DEF Spec
<1>3. QED
  BY <1>2, FollowImplies, PTL

=============================================================================
