-------------------------- MODULE VideocardBalancer --------------------------
(***************************************************************************)
(* analyze/videocard_balancer.cpp: which videocard an analyzer runs on.    *)
(*                                                                         *)
(* The balancer keeps heap objects (SVideocard), each standing for one     *)
(* index that SYSTEM_MONITOR has reserved, in two maps: a multimap from    *)
(* profile to cards and a map from processing to card.  Raw pointers are   *)
(* modelled as addresses that are reused after `delete'.  The class takes  *)
(* no lock; each of its two operations is one step here, and the callers   *)
(* that may overlap are in AnalyticManager.                                *)
(***************************************************************************)
EXTENDS Integers, FiniteSets

CONSTANTS
    Processings,   \* TProcessingId, unique per start command
    Profiles,      \* TProfileId
    Cards,         \* addresses an SVideocard can be allocated at
    Idxs,          \* videocard indices SYSTEM_MONITOR hands out
    MaxPerCard,    \* PROCESSING_MAX_PROCESSINGS_PER_VIDEOCARD
    NoAvailableCards, \* SystemMonitor::NO_AVAILABLE_CARDS
    None           \* absent map entry, unallocated memory

ASSUME BalancerAssumption ==
    /\ MaxPerCard \in Nat \ {0}
    /\ NoAvailableCards \notin Idxs
    /\ None \notin Cards \cup Profiles \cup Idxs \cup {NoAvailableCards}
    /\ None \notin [idx : Idxs, profileId : Profiles, procs : SUBSET Processings]

VARIABLES
    cards,      \* the heap: address -> SVideocard, None where nothing is allocated
    byProfile,  \* m_videocardsByProfileId, a multimap: profile -> addresses
    byProc,     \* m_videocardsByProcessingId: processing -> address
    reserved,   \* indices taken from SYSTEM_MONITOR and not released
    used,       \* usedVideocardIdx in the settings of a processing's analyzer
    profileOf,  \* profileId in the settings of a processing's analyzer
    analyzers,  \* m_settings.analyzers: the registry of running analyzers
    holding,    \* processings that got a card and did not return it
    aborted     \* the assertion in getVideocard has terminated the server

vars == <<cards, byProfile, byProc, reserved, used, profileOf, analyzers,
          holding, aborted>>

-----------------------------------------------------------------------------
Videocard == [idx : Idxs, profileId : Profiles, procs : SUBSET Processings]

Alive == {c \in Cards : cards[c] # None}

(* mutant: one place too many on a card *)
HasRoomOffByOne(c) == Cardinality(cards[c].procs) <= MaxPerCard

HasRoom(c) == Cardinality(cards[c].procs) < MaxPerCard

OpenCards(prof) == {c \in byProfile[prof] : HasRoom(c)}

(* getDpfProcessorPtr finds some registered analyzer of the profile. *)
HasDpfProcessor(prof) == \E q \in analyzers : profileOf[q] = prof

Init ==
    /\ cards = [c \in Cards |-> None]
    /\ byProfile = [prof \in Profiles |-> {}]
    /\ byProc = [p \in Processings |-> None]
    /\ reserved = {}
    /\ used = [p \in Processings |-> None]
    /\ profileOf = [p \in Processings |-> None]
    /\ analyzers = {}
    /\ holding = {}
    /\ aborted = FALSE

-----------------------------------------------------------------------------
(* getVideocard.  The loop over the profile's cards has no break: the      *)
(* processing enters every card with room, the returned index is that of   *)
(* the last card visited and byProc keeps the first (map::insert does not  *)
(* overwrite).  The order of an unordered_multimap is unspecified.         *)

(* mutant: only the card that gets the map entry is charged *)
ShareFirstOnly(p, prof) ==
    /\ OpenCards(prof) # {} /\ HasDpfProcessor(prof)
    /\ \E first, last \in OpenCards(prof) :
          /\ byProc' = [byProc EXCEPT ![p] = IF @ = None THEN first ELSE @]
          /\ used' = [used EXCEPT ![p] = cards[last].idx]
          /\ cards' = [cards EXCEPT ![first].procs = @ \cup {p}]
    /\ holding' = holding \cup {p}
    /\ UNCHANGED <<byProfile, reserved, aborted>>

ShareCards(p, prof) ==
    /\ OpenCards(prof) # {}
    /\ HasDpfProcessor(prof)
    /\ \E first, last \in OpenCards(prof) :
          /\ (first = last) => (OpenCards(prof) = {first})
          /\ byProc' = [byProc EXCEPT ![p] = IF @ = None THEN first ELSE @]
          /\ used' = [used EXCEPT ![p] = cards[last].idx]
    /\ cards' = [c \in Cards |->
                    IF c \in OpenCards(prof)
                    THEN [cards[c] EXCEPT !.procs = @ \cup {p}]
                    ELSE cards[c]]
    /\ holding' = holding \cup {p}
    /\ UNCHANGED <<byProfile, reserved, aborted>>

(* assert( _dpfProcessorPtr && "dpf processor from used card is NULL" ) *)
AssertFails(p, prof) ==
    /\ OpenCards(prof) # {}
    /\ ~ HasDpfProcessor(prof)
    /\ aborted' = TRUE
    /\ UNCHANGED <<cards, byProfile, byProc, reserved, used, holding>>

NewCard(p, prof) ==
    /\ OpenCards(prof) = {}
    /\ \E i \in Idxs \ reserved, c \in Cards \ Alive :
          /\ reserved' = reserved \cup {i}
          /\ cards' = [cards EXCEPT ![c] =
                          [idx |-> i, profileId |-> prof, procs |-> {p}]]
          /\ byProfile' = [byProfile EXCEPT ![prof] = @ \cup {c}]
          /\ byProc' = [byProc EXCEPT ![p] = IF @ = None THEN c ELSE @]
          /\ used' = [used EXCEPT ![p] = i]
    /\ holding' = holding \cup {p}
    /\ UNCHANGED aborted

(* mutant: NO_AVAILABLE_CARDS is taken for an index *)
NoCardUnchecked(p, prof) ==
    /\ OpenCards(prof) = {} /\ Idxs \subseteq reserved
    /\ \E c \in Cards \ Alive :
          /\ cards' = [cards EXCEPT ![c] = [idx |-> NoAvailableCards,
                                           profileId |-> prof, procs |-> {p}]]
          /\ byProc' = [byProc EXCEPT ![p] = c]
    /\ used' = [used EXCEPT ![p] = NoAvailableCards]
    /\ UNCHANGED <<byProfile, reserved, holding, aborted>>

NoCardLeft(p, prof) ==
    /\ OpenCards(prof) = {}
    /\ Idxs \subseteq reserved
    /\ used' = [used EXCEPT ![p] = NoAvailableCards]
    /\ UNCHANGED <<cards, byProfile, byProc, reserved, holding, aborted>>

GetVideocard(p, prof) ==
    /\ \/ ShareCards(p, prof)
       \/ AssertFails(p, prof)
       \/ NewCard(p, prof)
       \/ NoCardLeft(p, prof)
    /\ profileOf' = [profileOf EXCEPT ![p] = prof]
    /\ UNCHANGED analyzers

(* returnVideocard.  Only the card byProc names loses the processing; when *)
(* it is empty it is deleted and multimap::erase(key) drops ALL cards of   *)
(* the profile.  byProc keeps its entry when the card is not empty.        *)
LastOn(c, p) == cards[c].procs \ {p} = {}

(* mutant: the deleted card stays in the profile map *)
DeleteKeepsProfile(c, p) ==
    /\ reserved' = reserved \ {cards[c].idx}
    /\ byProc' = [byProc EXCEPT ![p] = None]
    /\ cards' = [cards EXCEPT ![c] = None]
    /\ UNCHANGED byProfile

(* mutant: releaseVideoCardIdx is not called *)
DeleteKeepsIndex(c, p) ==
    /\ byProc' = [byProc EXCEPT ![p] = None]
    /\ byProfile' = [byProfile EXCEPT ![cards[c].profileId] = {}]
    /\ cards' = [cards EXCEPT ![c] = None]
    /\ UNCHANGED reserved

DeleteCard(c, p) ==
    /\ reserved' = reserved \ {cards[c].idx}
    /\ byProc' = [byProc EXCEPT ![p] = None]
    /\ byProfile' = [byProfile EXCEPT ![cards[c].profileId] = {}]
    /\ cards' = [cards EXCEPT ![c] = None]

LeaveCard(c, p) ==
    /\ cards' = [cards EXCEPT ![c].procs = @ \ {p}]
    /\ UNCHANGED <<byProfile, byProc, reserved>>

ReturnVideocard(p) ==
    /\ \/ byProc[p] = None /\ UNCHANGED <<cards, byProfile, byProc, reserved>>
       \/ byProc[p] # None /\ LastOn(byProc[p], p) /\ DeleteCard(byProc[p], p)
       \/ byProc[p] # None /\ ~ LastOn(byProc[p], p) /\ LeaveCard(byProc[p], p)
    /\ holding' = holding \ {p}
    /\ UNCHANGED <<used, profileOf, analyzers, aborted>>

-----------------------------------------------------------------------------
(* The callers: asyncAnalyzeStart asks once per processing and registers   *)
(* the analyzer if it starts; stopAnalyze returns the card of a registered *)
(* analyzer and then removes it.  A start that fails keeps its card.       *)

Get(p) ==
    /\ used[p] = None
    /\ \E prof \in Profiles : GetVideocard(p, prof)

Register(p) ==
    /\ p \in holding \ analyzers
    /\ analyzers' = analyzers \cup {p}
    /\ UNCHANGED <<cards, byProfile, byProc, reserved, used, profileOf,
                   holding, aborted>>

Return(p) ==
    /\ p \in analyzers \cap holding
    /\ ReturnVideocard(p)

Remove(p) ==
    /\ p \in analyzers \ holding
    /\ analyzers' = analyzers \ {p}
    /\ UNCHANGED <<cards, byProfile, byProc, reserved, used, profileOf,
                   holding, aborted>>

Next ==
    /\ ~ aborted
    /\ \E p \in Processings : Get(p) \/ Register(p) \/ Return(p) \/ Remove(p)

Spec == Init /\ [][Next]_vars

-----------------------------------------------------------------------------
(* The maps, the heap and the settings keep their types, and every address *)
(* stored anywhere is one the balancer allocated.                          *)
TypeOK ==
    /\ cards \in [Cards -> Videocard \cup {None}]
    /\ byProfile \in [Profiles -> SUBSET Cards]
    /\ byProc \in [Processings -> Cards \cup {None}]
    /\ reserved \subseteq Idxs
    /\ used \in [Processings -> Idxs \cup {None, NoAvailableCards}]
    /\ profileOf \in [Processings -> Profiles \cup {None}]
    /\ analyzers \subseteq Processings
    /\ holding \subseteq Processings
    /\ aborted \in BOOLEAN

(* The loop of getVideocard never follows a pointer to a deleted card: the *)
(* profile map only has live cards of that profile (returnVideocard erases *)
(* by profile before it deletes).                                          *)
NoFreedCardInProfileMap ==
    \A prof \in Profiles : \A c \in byProfile[prof] :
        c \in Alive /\ cards[c].profileId = prof

(* returnVideocard never touches a deleted card: as long as a processing   *)
(* holds a card, byProc names a live one that has the processing in it,    *)
(* whatever the other processings on that card returned.                   *)
HeldCardIsLive ==
    \A p \in holding : byProc[p] \in Alive /\ p \in cards[byProc[p]].procs

(* The card an analyzer was told to run on stays reserved and charged for  *)
(* it until it returns it, also when it was entered into several cards and *)
(* the one it will be returned to is another.                              *)
UsedCardIsCharged ==
    \A p \in holding : \E c \in Alive :
        cards[c].idx = used[p] /\ p \in cards[c].procs

(* Two live cards never stand for the same index, and an index is reserved *)
(* exactly while a live card stands for it (no double release).            *)
ReservedIsLive ==
    /\ \A c, d \in Alive : cards[c].idx = cards[d].idx => c = d
    /\ reserved = {cards[c].idx : c \in Alive}

(* Nothing is deleted under its users, and nothing that lives on after its *)
(* profile was erased is released twice (videocard_balancer.cpp:96-103).   *)
PointersAreLive == HeldCardIsLive /\ ReservedIsLive

(* "max processings per card": no videocard ever runs more analyzers than  *)
(* PROCESSING_MAX_PROCESSINGS_PER_VIDEOCARD.                               *)
LoadBounded ==
    \A i \in Idxs : Cardinality({p \in holding : used[p] = i}) <= MaxPerCard
=============================================================================
