---------------------------- MODULE VideoDelivery ----------------------------
(***************************************************************************)
(* What the event processors of the storage engine promise: while a        *)
(* processing is served, an object that disappeared has at most one open   *)
(* request for its video; the video stored for an object is the answer to  *)
(* an open request for this object, which is closed by that; and a request *)
(* that was answered is closed.                                            *)
(***************************************************************************)
EXTENDS Integers

CONSTANTS
    Processings, \* processing ids
    ObjectIds,   \* ids of objects in objrepr
    MaxTasks     \* bound: task ids generated

VARIABLES
    serving,     \* processings that have an event processor
    request,     \* open request of a processing for an object, or 0
    answered,    \* open requests the receiver answered
    last,        \* task ids generated so far
    stored       \* request whose video each object has, or 0

vars == <<serving, request, answered, last, stored>>

Tasks == 1 .. MaxTasks

Init ==
    /\ serving = {}
    /\ request = [p \in Processings |-> [o \in ObjectIds |-> 0]]
    /\ answered = {} /\ last = 0
    /\ stored = [o \in ObjectIds |-> 0]

Open(p) == {request[p][o] : o \in ObjectIds} \ {0}

Serve(p) ==
    /\ p \notin serving /\ serving' = serving \cup {p}
    /\ UNCHANGED <<request, answered, last, stored>>

Ask(p, o) ==
    /\ p \in serving /\ request[p][o] = 0 /\ last < MaxTasks
    /\ last' = last + 1
    /\ request' = [request EXCEPT ![p][o] = last']
    /\ UNCHANGED <<serving, answered, stored>>

(* An object with an open request is not asked for again; the task id that *)
(* was generated is lost.                                                  *)
AskAgain(p, o) ==
    /\ p \in serving /\ request[p][o] # 0 /\ last < MaxTasks
    /\ last' = last + 1
    /\ UNCHANGED <<serving, request, answered, stored>>

Answer(p, o) ==
    /\ request[p][o] # 0
    /\ answered' = answered \cup {request[p][o]}
    /\ UNCHANGED <<serving, request, last, stored>>

(* The answered requests of a processing are closed; some of their videos  *)
(* cannot be written and are lost.                                         *)
Close(p) ==
    LET ready == {o \in ObjectIds : request[p][o] \in answered} IN
    /\ ready # {}
    /\ \E written \in SUBSET ready :
           stored' = [o \in ObjectIds |-> IF o \in written THEN request[p][o]
                                                           ELSE stored[o]]
    /\ request' = [request EXCEPT ![p] = [o \in ObjectIds |->
                      IF o \in ready THEN 0 ELSE request[p][o]]]
    /\ answered' = answered \ {request[p][o] : o \in ready}
    /\ UNCHANGED <<serving, last>>

(* A processing that is not served any more, or all of them in a crash.    *)
Drop(ps) ==
    /\ serving' = serving \ ps
    /\ request' = [p \in Processings |-> IF p \in ps
                      THEN [o \in ObjectIds |-> 0] ELSE request[p]]
    /\ answered' = answered \ UNION {Open(p) : p \in ps}
    /\ UNCHANGED <<last, stored>>

Next ==
    \/ \E p \in Processings : Serve(p) \/ Close(p) \/ Drop({p})
    \/ \E p \in Processings, o \in ObjectIds :
           Ask(p, o) \/ AskAgain(p, o) \/ Answer(p, o)
    \/ Drop(Processings)

Safety == Init /\ [][Next]_vars

Spec == Safety /\ \A p \in Processings : WF_vars(Close(p))
=============================================================================
