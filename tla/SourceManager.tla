---------------------------- MODULE SourceManager ----------------------------
(***************************************************************************)
(* datasource/source_manager_facade.cpp and the parts of                   *)
(* datasource/video_retranslator.cpp that keep state: the sources the      *)
(* consumers share, their retranslators, and the UDP ports of these.       *)
(*                                                                         *)
(* Analyses and recordings connect and disconnect a source; a client, or   *)
(* the maintenance thread of the recorder (video_recorder.cpp:205),        *)
(* launches its retranslation.  connectSource is not serialised: the queue *)
(* for it is cut off by the return of source_manager_facade.cpp:384, and   *)
(* nothing locks the map of sources in transition and the list of          *)
(* retranslators.  One source object is modelled in detail in VideoSource; *)
(* here it is its count, its receiver and its observer.                    *)
(*                                                                         *)
(* The numbers of the RTSP servers only grow and are left out, and so are  *)
(* the interfaces: the retranslators of a source share its pair of ports.  *)
(* What the races on the containers themselves do is left out.             *)
(***************************************************************************)
EXTENDS Integers, FiniteSets, Sequences

CONSTANTS
    Urls,        \* urls of the sensors
    Used,        \* those analyses and recordings use as well
    Failing,     \* those whose receiver may fail to start, or crash
    Supported,   \* those whose encoding OUTPUT_ENCODINGS_FROM_RTP has
    Main,        \* the thread that executes the commands
    Workers,     \* start tasks and threads of the recorder
    Retry,       \* the thread that reports that a source is back
    RecordEnableRetranslation, \* RECORD_ENABLE_RETRANSLATION
    RangeBegin, RangeEnd, \* RTSP_SERVER_OUTGOING_UDP_PORT_RANGE_*
    MaxObjects,  \* bound: source objects created
    MaxHeld,     \* bound: consumers that hold a source at once
    MaxRefs      \* bound: the count of a source

Consumers == {Main} \cup Workers
Threads == Consumers \cup {Retry}

ASSUME ManagerAssumption ==
    /\ Supported \subseteq Urls /\ Used \subseteq Urls
    /\ Failing \subseteq Urls
    /\ IsFiniteSet(Workers) /\ Main \notin Workers /\ Retry \notin Consumers
    /\ RecordEnableRetranslation \in BOOLEAN
    /\ RangeBegin \in Nat /\ RangeEnd \in Nat /\ RangeBegin <= RangeEnd
    /\ MaxObjects \in Nat \ {0} /\ MaxHeld \in Nat \ {0}
    /\ MaxRefs \in Nat \ {0}

VARIABLES
    url,        \* url of each source object created so far
    refs,       \* its getReferenceCount()
    running,    \* objects whose receiver runs
    observing,  \* objects the manager is an observer of
    published,  \* m_videoSources, 0 where an object was erased
    transition, \* m_videoSourcesInTransitionState, 0 where it has no entry
    rtsp,       \* m_retranslators
    saved,      \* m_sourceParametersFromDiedRetranslators
    thread,     \* what each thread does
    held,       \* consumers that connected a source and did not disconnect it
    wanted,     \* urls whose last launch or stop was a launch that succeeded
    miscounted, \* sources whose count was disturbed in one of the known ways
    leftover    \* sources that may have a receiver of another object

objectVars == <<url, refs, running, observing, published, transition>>
history == <<miscounted, leftover>>
clientVars == <<held, wanted, history>>
vars == <<objectVars, rtsp, saved, thread, clientVars>>

Objects == DOMAIN url
Sources == {published[i] : i \in DOMAIN published} \ {0}
Published(u) == {n \in Sources : url[n] = u}

Idle == [op |-> "idle"]
Job(op, u, at) == [op |-> op, url |-> u, at |-> at]
At(t, step) == thread[t] # Idle /\ thread[t].at = step
Goto(t, step) == thread' = [thread EXCEPT ![t].at = step]
Return(t) == thread' = [thread EXCEPT ![t] = Idle]

Init ==
    /\ url = <<>> /\ refs = <<>> /\ running = {} /\ observing = {}
    /\ published = <<>> /\ transition = [u \in Urls |-> 0]
    /\ rtsp = {} /\ saved = [u \in Urls |-> "none"]
    /\ thread = [t \in Threads |-> Idle]
    /\ held = [u \in Urls |-> 0] /\ wanted = {}
    /\ miscounted = {} /\ leftover = {}

Miscount(u, condition) ==
    /\ miscounted' = IF condition THEN miscounted \cup {u} ELSE miscounted
    /\ UNCHANGED leftover

-----------------------------------------------------------------------------
(* connectSource.                                                          *)

(* The consumer that called connectSource has its answer: launchRetrans-   *)
(* lation goes on to register its observer, the others are done.           *)
Connected(t, op, u) ==
    IF op = "launch"
    THEN /\ thread' = [thread EXCEPT ![t] = Job(op, u, "observe")]
         /\ UNCHANGED held
    ELSE /\ Return(t)
         /\ held' = [held EXCEPT ![u] = @ + 1]

Calls(t, op, u) ==
    /\ thread[t] = Idle
    /\ op = "use" => t # Main /\ u \in Used /\ held[u] < MaxHeld
    /\ op = "launch" => t = Main \/ RecordEnableRetranslation

(* mutant: the second consumer is not counted *)
ShareUncounted(t, op, u) ==
    /\ Calls(t, op, u) /\ Published(u) # {}
    /\ Connected(t, op, u)
    /\ UNCHANGED <<objectVars, rtsp, saved, wanted, history>>

(* The source is there: the first object with its url is counted up.       *)
Share(t, op, u) ==
    LET first == CHOOSE i \in DOMAIN published :
                    /\ published[i] \in Published(u)
                    /\ \A j \in 1 .. i - 1 : published[j] \notin Published(u)
    IN
    /\ Calls(t, op, u) /\ Published(u) # {}
    /\ refs[published[first]] < MaxRefs
    /\ refs' = [refs EXCEPT ![published[first]] = @ + 1]
    /\ Connected(t, op, u)
    /\ UNCHANGED <<url, running, observing, published, transition, rtsp,
                   saved, wanted, history>>

(* It is not: m_sourcesLock is released before an object is created.       *)
NotFound(t, op, u) ==
    /\ Calls(t, op, u) /\ Published(u) = {}
    /\ Len(url) + Cardinality({o \in Consumers : At(o, "create")}) < MaxObjects
    /\ thread' = [thread EXCEPT ![t] = Job(op, u, "create")]
    /\ UNCHANGED <<objectVars, rtsp, saved, clientVars>>

Creating(t, u) == \E step \in {"create", "connect", "publish"} :
                      At(t, step) /\ thread[t].url = u

(* insert leaves an entry of another creator, or of a connection that      *)
(* failed, as it is.                                                       *)
Create(t) ==
    LET u == thread[t].url  n == Len(url) + 1 IN
    /\ At(t, "create")
    /\ url' = Append(url, u) /\ refs' = Append(refs, 0)
    /\ transition' = [transition EXCEPT ![u] = IF @ = 0 THEN n ELSE @]
    /\ thread' = [thread EXCEPT ![t] =
                     [op |-> @.op, url |-> u, at |-> "connect", object |-> n]]
    /\ IF \/ \E other \in Consumers \ {t} : Creating(other, u)
          \/ Published(u) # {}
       THEN /\ miscounted' = miscounted \cup {u}
            /\ leftover' = leftover \cup {u}
       ELSE UNCHANGED history
    /\ UNCHANGED <<running, observing, published, rtsp, saved, held, wanted>>

(* connect of the new object, which launches the receiver.                 *)
ConnectOk(t) ==
    /\ At(t, "connect")
    /\ refs' = [refs EXCEPT ![thread[t].object] = @ + 1]
    /\ running' = running \cup {thread[t].object}
    /\ Goto(t, "publish")
    /\ UNCHANGED <<url, observing, published, transition, rtsp, saved,
                   clientVars>>

(* The object stays in transition; its receiver may have been launched     *)
(* before the stream failed to start.                                      *)
ConnectFails(t) ==
    /\ At(t, "connect") /\ thread[t].url \in Failing
    /\ \/ UNCHANGED <<running, leftover>>
       \/ /\ running' = running \cup {thread[t].object}
          /\ leftover' = leftover \cup {thread[t].url}
    /\ Return(t)
    /\ UNCHANGED <<url, refs, observing, published, transition, rtsp, saved,
                   held, wanted, miscounted>>

(* The entry is erased by its url, whosever it is.                         *)
Publish(t) ==
    LET u == thread[t].url IN
    /\ At(t, "publish")
    /\ published' = Append(published, thread[t].object)
    /\ transition' = [transition EXCEPT ![u] = 0]
    /\ Connected(t, thread[t].op, u)
    /\ UNCHANGED <<url, refs, running, observing, rtsp, saved, wanted,
                   history>>

-----------------------------------------------------------------------------
(* disconnectSource.                                                       *)

(* disconnect of one object: the receiver is closed when nobody is left.   *)
Closed(n) == refs[n] = 1

(* mutant: an object that is not connected is counted down *)
ReleasedUnchecked(n) == refs[n] - 1

Released(n) == IF refs[n] = 0 THEN 0 ELSE refs[n] - 1

Unpublish(u) ==
    LET Left(n) == n \notin Published(u) \/ Released(n) # 0 IN
    /\ refs' = [n \in Objects |-> IF n \in Published(u) THEN Released(n)
                                                         ELSE refs[n]]
    /\ published' = [i \in DOMAIN published |->
                        IF Left(published[i]) THEN published[i] ELSE 0]
    /\ observing' = {n \in observing : Left(n)}

(* mutant: the source is erased and its receiver is not closed *)
LeaveReceiver(t, op, u) ==
    /\ thread[t] = Idle
    /\ Unpublish(u)
    /\ thread' = [thread EXCEPT ![t] = Job(op, u, "abort")]
    /\ UNCHANGED <<url, running, transition, rtsp, saved>>

(* Every object of the url is disconnected; those nobody uses are erased.  *)
Disconnect(t, op, u) ==
    /\ thread[t] = Idle
    /\ Unpublish(u)
    /\ running' = running \ {n \in Published(u) : Closed(n)}
    /\ thread' = [thread EXCEPT ![t] = Job(op, u, "abort")]
    /\ UNCHANGED <<url, transition, rtsp, saved>>

(* A consumer that holds the source gives it back.                         *)
Leave(t, u) ==
    /\ held[u] > 0
    /\ held' = [held EXCEPT ![u] = @ - 1]
    /\ Disconnect(t, "leave", u)
    /\ UNCHANGED <<wanted, history>>

(* stopRetranslation.  The source is disconnected even when it is not      *)
(* retranslated.                                                           *)
StopRetranslation(u) ==
    /\ wanted' = wanted \ {u}
    /\ Miscount(u, u \notin wanted)
    /\ Disconnect(Main, "stop", u)
    /\ UNCHANGED held

(* mutant: the retranslator of a stopped retranslation stays *)
AbortOnly(t) ==
    /\ At(t, "abort") /\ Return(t)
    /\ transition' = [transition EXCEPT ![thread[t].url] = 0]
    /\ UNCHANGED <<url, refs, running, observing, published, rtsp, saved,
                   clientVars>>

(* The source in transition is disconnected, which closes it between its   *)
(* connection and its publication, and is without effect otherwise (the    *)
(* end of its attempts is a ConnectFails); it is forgotten.  A stop then   *)
(* erases the retranslators of the url.                                    *)
Abort(t) ==
    LET u == thread[t].url  n == transition[u] IN
    /\ At(t, "abort")
    /\ IF n = 0
       THEN UNCHANGED <<refs, running, transition, history>>
       ELSE /\ refs' = [refs EXCEPT ![n] = Released(n)]
            /\ running' = IF Closed(n) THEN running \ {n} ELSE running
            /\ transition' = [transition EXCEPT ![u] = 0]
            /\ Miscount(u, Closed(n))
    /\ rtsp' = IF thread[t].op = "stop" THEN {r \in rtsp : r.url # u} ELSE rtsp
    /\ Return(t)
    /\ UNCHANGED <<url, observing, published, saved, held, wanted>>

-----------------------------------------------------------------------------
(* createRetranslator.                                                     *)

(* The search for a free pair of ports (144-165): by two from the begin of *)
(* the range, past its end when every pair is taken.                       *)
(* mutant: the search goes by one *)
FreePortByOne ==
    CHOOSE p \in RangeBegin .. RangeEnd + 1 :
        /\ p > RangeEnd \/ \A r \in rtsp : r.port # p
        /\ \A q \in RangeBegin .. p - 1 : \E r \in rtsp : r.port = q

Slots == {p \in RangeBegin .. RangeEnd + 2 : (p - RangeBegin) % 2 = 0}

FreePort ==
    CHOOSE p \in Slots :
        /\ p > RangeEnd \/ \A r \in rtsp : r.port # p
        /\ \A q \in Slots : q < p => \E r \in rtsp : r.port = q

Retranslated(u) == \E r \in rtsp : r.url = u

(* The pair is chosen and the parameters of the stream are read from the   *)
(* source (144-203); the retranslator is started later.                    *)
Chosen(op, u) ==
    [op |-> op, url |-> u, at |-> "start", port |-> FreePort,
     playable |-> u \in Supported /\ Published(u) # {}, raced |-> FALSE]

(* launchRetranslation registers the manager with the source.              *)
Observe(t) ==
    /\ At(t, "observe")
    /\ observing' = observing \cup Published(thread[t].url)
    /\ Goto(t, "choose")
    /\ UNCHANGED <<url, refs, running, published, transition, rtsp, saved,
                   clientVars>>

(* A source that has a retranslator keeps it, and the launch fails: its    *)
(* connectSource is not undone.                                            *)
Choose(t) ==
    LET u == thread[t].url IN
    /\ At(t, "choose")
    /\ IF Retranslated(u)
       THEN Return(t)
       ELSE thread' = [thread EXCEPT ![t] = Chosen("launch", u)]
    /\ Miscount(u, Retranslated(u))
    /\ UNCHANGED <<objectVars, rtsp, saved, held, wanted>>

Stopping(u) == thread[Main] = Job("stop", u, "abort")
Starting(t) == {o \in Threads \ {t} : At(o, "start")}

(* VideoRetranslator::start fails without an encoding of the stream; the   *)
(* launch succeeds all the same.                                           *)
StartRetranslator(t) ==
    LET job == thread[t] IN
    /\ At(t, "start")
    /\ rtsp' = IF job.playable
               THEN rtsp \cup {[url |-> job.url, port |-> job.port,
                                raced |-> job.raced \/ Starting(t) # {}]}
               ELSE rtsp
    /\ wanted' = IF job.op = "launch" THEN wanted \cup {job.url} ELSE wanted
    /\ Miscount(job.url, job.op = "launch" /\ (\/ job.url \in wanted
                                               \/ Stopping(job.url)))
    /\ thread' = [o \in Threads |->
                     CASE o = t -> Idle
                       [] o \in Starting(t) -> [thread[o] EXCEPT !.raced = TRUE]
                       [] OTHER -> thread[o]]
    /\ UNCHANGED <<objectVars, saved, held>>

-----------------------------------------------------------------------------
(* callbackVideoSourceConnection.                                          *)

(* The receiver of a source crashed: its retranslators go, their           *)
(* parameters are kept unless the map has an entry for the url.            *)
Lose(n) ==
    LET u == url[n] IN
    /\ n \in Sources /\ n \in running /\ url[n] \in Failing
    /\ running' = running \ {n}
    /\ IF n \in observing
       THEN /\ rtsp' = {r \in rtsp : r.url # u}
            /\ saved' = [saved EXCEPT ![u] =
                            IF Retranslated(u) /\ @ = "none" THEN "kept" ELSE @]
       ELSE UNCHANGED <<rtsp, saved>>
    /\ UNCHANGED <<url, refs, observing, published, transition, thread,
                   clientVars>>

(* It is back.  operator[] gives a url that has no parameters empty ones,  *)
(* from which no retranslator starts.                                      *)
ComeBack(n) ==
    LET u == url[n] IN
    /\ n \in Sources /\ n \notin running /\ refs[n] > 0
    /\ thread[Retry] = Idle
    /\ running' = running \cup {n}
    /\ IF n \notin observing \/ Retranslated(u)
       THEN UNCHANGED <<saved, thread>>
       ELSE IF saved[u] = "kept"
       THEN /\ thread' = [thread EXCEPT ![Retry] = Chosen("restore", u)]
            /\ UNCHANGED saved
       ELSE /\ saved' = [saved EXCEPT ![u] = "empty"]
            /\ UNCHANGED thread
    /\ UNCHANGED <<url, refs, observing, published, transition, rtsp,
                   clientVars>>

-----------------------------------------------------------------------------
Operations(t) ==
    \/ \E u \in Urls, op \in {"use", "launch"} :
           Share(t, op, u) \/ NotFound(t, op, u)
    \/ \E u \in Urls : Leave(t, u)
    \/ Create(t)
    \/ ConnectOk(t) \/ ConnectFails(t) \/ Publish(t)
    \/ Abort(t) \/ Observe(t) \/ Choose(t)

Next ==
    \/ \E t \in Consumers : Operations(t)
    \/ \E t \in Threads : StartRetranslator(t)
    \/ \E u \in Urls : StopRetranslation(u)
    \/ \E n \in Objects : Lose(n) \/ ComeBack(n)

Spec == Init /\ [][Next]_vars

-----------------------------------------------------------------------------
(* Properties                                                              *)

(* The types.                                                              *)
TypeOK ==
    /\ url \in Seq(Urls) /\ Len(url) <= MaxObjects
    /\ refs \in [Objects -> 0 .. MaxRefs]
    /\ running \subseteq Objects /\ observing \subseteq Objects
    /\ Sources \subseteq Objects
    /\ transition \in [Urls -> {0} \cup Objects]
    /\ \A r \in rtsp : r.url \in Urls /\ r.port \in Nat /\ r.raced \in BOOLEAN
    /\ saved \in [Urls -> {"none", "kept", "empty"}]
    /\ held \in [Urls -> 0 .. MaxHeld + Cardinality(Consumers)]
    /\ wanted \subseteq Urls

(* No thread is inside an operation on the source.                         *)
Settled(u) == \A t \in Threads : thread[t] # Idle => thread[t].url # u

(* Between operations a source is there once and is counted for exactly    *)
(* the consumers that hold it, its retranslation included, and it is gone  *)
(* when nobody holds it (connectSource, disconnectSource).  Four things    *)
(* break that: two consumers that create the source at once; a stop of a   *)
(* retranslation that was not launched, which disconnects a consumer; a    *)
(* launch refused because there is a retranslator, and a second launch     *)
(* that succeeds because there is none, which stay connected.              *)
RefsFollowHolders ==
    \A u \in Urls :
        LET holders == held[u] + (IF u \in wanted THEN 1 ELSE 0) IN
        Settled(u) /\ u \notin miscounted =>
            /\ Cardinality(Published(u)) = (IF holders > 0 THEN 1 ELSE 0)
            /\ \A n \in Published(u) : refs[n] = holders

(* Two receivers of one source, which would share its sockets, run only    *)
(* after a connection failed and left its receiver behind, or two          *)
(* consumers created the source at once.                                   *)
OneReceiver ==
    \A u \in Urls :
        u \notin leftover =>
            Cardinality({n \in running : url[n] = u}) <= 1

(* Retranslators of two sources never share a port, unless the range was   *)
(* exhausted, which the search does not notice, or they were started at    *)
(* the same time; and a pair leaves the range by no more than its own two  *)
(* ports.                                                                  *)
PairsDisjoint ==
    \A r, s \in rtsp :
        /\ r.port <= RangeEnd + 2
        /\ r.url # s.url /\ r.port <= RangeEnd /\ ~ (r.raced /\ s.raced) =>
               r.port >= s.port + 2 \/ s.port >= r.port + 2

(* A source that was launched and runs is retranslated, and one that was   *)
(* stopped is not, also after outages (callbackVideoSourceConnection),     *)
(* with these exceptions: the encoding is not supported; the source came   *)
(* back once without a retranslator, which leaves empty parameters behind  *)
(* for good; a source that lost its retranslator once gets it back after   *)
(* every outage, stopped or not; the count of the source was disturbed.    *)
RetranslatorFollowsClient ==
    \A u \in Urls : Settled(u) /\ u \notin miscounted =>
        /\ u \in wanted /\ Published(u) \cap running # {} =>
               Retranslated(u) \/ u \notin Supported \/ saved[u] = "empty"
        /\ Retranslated(u) => u \in wanted \/ saved[u] = "kept"
=============================================================================
