----------------------- MODULE VideocardBalancerProofs -----------------------
(* Proofs about VideocardBalancer, for any number of processings,          *)
(* profiles, cards and places per card.                                    *)
EXTENDS VideocardBalancer, FiniteSetTheorems, TLAPS

(* Every live card is charged with a finite number of processings, at most *)
(* MaxPerCard; ghosts left behind by returnVideocard count.                *)
CapacityOK ==
    \A c \in Alive : /\ IsFiniteSet(cards[c].procs)
                     /\ Cardinality(cards[c].procs) <= MaxPerCard

(* A processing that never asked for a card has no entry in byProc, so the *)
(* map::insert of its own getVideocard is the one that decides.            *)
FreshIsUnmapped ==
    \A p \in Processings : used[p] = None => byProc[p] = None

BalancerInv ==
    /\ TypeOK
    /\ NoFreedCardInProfileMap
    /\ HeldCardIsLive
    /\ UsedCardIsCharged
    /\ ReservedIsLive
    /\ CapacityOK
    /\ FreshIsUnmapped
-----------------------------------------------------------------------------
(* Initially no card exists, so every part of the invariant holds.         *)
LEMMA InitInv == Init => BalancerInv
<1> SUFFICES ASSUME Init PROVE BalancerInv
    OBVIOUS
<1>1. Alive = {}
    BY DEF Init, Alive
<1>2. TypeOK
    BY DEF Init, TypeOK
<1>3. QED
    BY <1>1, <1>2 DEF Init, BalancerInv, NoFreedCardInProfileMap,
       HeldCardIsLive, UsedCardIsCharged, ReservedIsLive, CapacityOK,
       FreshIsUnmapped

(* A card with room stays within MaxPerCard when one processing enters it. *)
LEMMA OneMoreFits ==
    ASSUME NEW S, NEW x, IsFiniteSet(S), Cardinality(S) < MaxPerCard
    PROVE  IsFiniteSet(S \cup {x}) /\ Cardinality(S \cup {x}) <= MaxPerCard
<1>1. Cardinality(S) \in Nat
    BY FS_CardinalityType
<1>2. /\ IsFiniteSet(S \cup {x})
      /\ Cardinality(S \cup {x}) =
            IF x \in S THEN Cardinality(S) ELSE Cardinality(S) + 1
    BY FS_AddElement
<1>3. QED
    BY <1>1, <1>2, BalancerAssumption

(* Taking a share of all cards with room keeps the invariant: the cards    *)
(* that grow had room, and both the first and the last of them are live.   *)
LEMMA ShareCardsInv ==
    ASSUME BalancerInv, NEW p \in Processings, NEW prof \in Profiles,
           used[p] = None, ShareCards(p, prof),
           profileOf' = [profileOf EXCEPT ![p] = prof], UNCHANGED analyzers
    PROVE  BalancerInv'
<1> USE BalancerAssumption
<1> DEFINE grown == OpenCards(prof)
<1>1. PICK first \in grown, last \in grown :
          /\ byProc' = [byProc EXCEPT ![p] = IF @ = None THEN first ELSE @]
          /\ used' = [used EXCEPT ![p] = cards[last].idx]
    BY DEF ShareCards
<1>2. grown \subseteq Alive /\ \A c \in grown : c \in Cards /\ HasRoom(c)
    BY DEF BalancerInv, NoFreedCardInProfileMap, OpenCards, Alive, TypeOK
<1>3. /\ \A c \in Alive : cards[c] \in Videocard
      /\ None \notin Videocard
    BY DEF BalancerInv, TypeOK, Alive, Videocard
<1>4. \A c \in Alive :
          /\ cards'[c] \in Videocard
          /\ cards'[c].idx = cards[c].idx
          /\ cards'[c].profileId = cards[c].profileId
          /\ cards'[c].procs = IF c \in grown THEN cards[c].procs \cup {p}
                                              ELSE cards[c].procs
    BY <1>2, <1>3 DEF ShareCards, Videocard, Alive
<1>5. \A c \in Cards \ Alive : cards'[c] = None
    BY <1>2 DEF ShareCards, Alive
<1>6. Alive' = Alive
    BY <1>3, <1>4, <1>5 DEF Alive
<1>7. TypeOK'
  <2>1. cards' \in [Cards -> Videocard \cup {None}]
    BY <1>4, <1>5 DEF ShareCards, Alive
  <2>2. byProc' \in [Processings -> Cards \cup {None}]
    BY <1>1, <1>2 DEF BalancerInv, TypeOK
  <2>3. used' \in [Processings -> Idxs \cup {None, NoAvailableCards}]
    BY <1>1, <1>2, <1>3 DEF BalancerInv, TypeOK, Videocard
  <2>4. QED
    BY <2>1, <2>2, <2>3 DEF BalancerInv, TypeOK, ShareCards
<1>8. NoFreedCardInProfileMap'
    BY <1>4, <1>6 DEF BalancerInv, NoFreedCardInProfileMap, ShareCards
<1>9. FreshIsUnmapped'
  <2>1. used'[p] # None
    BY <1>1, <1>2, <1>3 DEF BalancerInv, TypeOK, Videocard
  <2>2. QED
    BY <1>1, <2>1 DEF BalancerInv, FreshIsUnmapped, TypeOK
<1>10. \A q \in holding' : q # p => q \in holding
    BY DEF ShareCards
<1>11. HeldCardIsLive'
  <2> SUFFICES ASSUME NEW q \in holding'
               PROVE  byProc'[q] \in Alive /\ q \in cards'[byProc'[q]].procs
    BY <1>6 DEF HeldCardIsLive
  <2>1. CASE q = p
    <3>1. byProc'[p] = first
      BY <1>1 DEF BalancerInv, FreshIsUnmapped, TypeOK
    <3>2. first \in Alive /\ p \in cards'[first].procs
      BY <1>2, <1>4
    <3>3. QED
      BY <2>1, <3>1, <3>2
  <2>2. CASE q # p
    <3>1. q \in holding /\ q \in Processings
      BY <1>10, <2>2 DEF BalancerInv, TypeOK
    <3>2. byProc[q] \in Alive /\ q \in cards[byProc[q]].procs
      BY <3>1 DEF BalancerInv, HeldCardIsLive
    <3>3. byProc'[q] = byProc[q]
      BY <1>1, <2>2, <3>1 DEF BalancerInv, TypeOK
    <3>4. QED
      BY <1>4, <3>2, <3>3
  <2>3. QED
    BY <2>1, <2>2
<1>12. UsedCardIsCharged'
  <2> SUFFICES ASSUME NEW q \in holding'
               PROVE  \E c \in Alive : cards'[c].idx = used'[q]
                                       /\ q \in cards'[c].procs
    BY <1>6 DEF UsedCardIsCharged
  <2>1. CASE q = p
    <3>1. last \in Alive /\ p \in cards'[last].procs
      BY <1>2, <1>4
    <3>2. used'[p] = cards'[last].idx
      BY <1>1, <1>4, <3>1 DEF BalancerInv, TypeOK
    <3>3. QED
      BY <2>1, <3>1, <3>2
  <2>2. CASE q # p
    <3>1. q \in holding /\ q \in Processings
      BY <1>10, <2>2 DEF BalancerInv, TypeOK
    <3>2. PICK c \in Alive : cards[c].idx = used[q] /\ q \in cards[c].procs
      BY <3>1 DEF BalancerInv, UsedCardIsCharged
    <3>3. used'[q] = used[q]
      BY <1>1, <2>2, <3>1 DEF BalancerInv, TypeOK
    <3>4. QED
      BY <1>4, <3>2, <3>3
  <2>3. QED
    BY <2>1, <2>2
<1>13. ReservedIsLive'
  <2>1. \A c \in Alive : cards'[c].idx = cards[c].idx
    BY <1>4
  <2>2. reserved' = reserved
    BY DEF ShareCards
  <2>3. {cards'[c].idx : c \in Alive'} = {cards[c].idx : c \in Alive}
    BY <1>6, <2>1
  <2>4. QED
    BY <1>6, <2>1, <2>2, <2>3 DEF BalancerInv, ReservedIsLive
<1>14. CapacityOK'
  <2> SUFFICES ASSUME NEW c \in Alive
               PROVE  /\ IsFiniteSet(cards'[c].procs)
                      /\ Cardinality(cards'[c].procs) <= MaxPerCard
    BY <1>6 DEF CapacityOK
  <2>1. /\ IsFiniteSet(cards[c].procs)
        /\ Cardinality(cards[c].procs) <= MaxPerCard
        /\ Cardinality(cards[c].procs) \in Nat
    BY FS_CardinalityType DEF BalancerInv, CapacityOK
  <2>2. CASE c \in grown
    <3>1. Cardinality(cards[c].procs) < MaxPerCard
      BY <1>2, <2>2 DEF HasRoom
    <3>2. /\ IsFiniteSet(cards[c].procs \cup {p})
          /\ Cardinality(cards[c].procs \cup {p}) <= MaxPerCard
      BY <2>1, <3>1, OneMoreFits
    <3>3. QED
      BY <1>4, <2>2, <3>2
  <2>3. CASE c \notin grown
    BY <1>4, <2>1, <2>3
  <2>4. QED
    BY <2>2, <2>3
<1>15. QED
    BY <1>7, <1>8, <1>9, <1>11, <1>12, <1>13, <1>14 DEF BalancerInv

(* Allocating a card for a free index keeps the invariant: neither the     *)
(* address nor the index belongs to a live card.                           *)
LEMMA NewCardInv ==
    ASSUME BalancerInv, NEW p \in Processings, NEW prof \in Profiles,
           used[p] = None, NewCard(p, prof),
           profileOf' = [profileOf EXCEPT ![p] = prof], UNCHANGED analyzers
    PROVE  BalancerInv'
<1> USE BalancerAssumption
<1>1. PICK i \in Idxs \ reserved, n \in Cards \ Alive :
          /\ reserved' = reserved \cup {i}
          /\ cards' = [cards EXCEPT ![n] =
                          [idx |-> i, profileId |-> prof, procs |-> {p}]]
          /\ byProfile' = [byProfile EXCEPT ![prof] = @ \cup {n}]
          /\ byProc' = [byProc EXCEPT ![p] = IF @ = None THEN n ELSE @]
          /\ used' = [used EXCEPT ![p] = i]
    BY DEF NewCard
<1>2. [idx |-> i, profileId |-> prof, procs |-> {p}] \in Videocard
    BY <1>1 DEF Videocard
<1>3. cards'[n] = [idx |-> i, profileId |-> prof, procs |-> {p}]
    BY <1>1 DEF BalancerInv, TypeOK
<1>4. \A c \in Cards \ {n} : cards'[c] = cards[c]
    BY <1>1 DEF BalancerInv, TypeOK
<1>5. None \notin Videocard
    BY DEF Videocard
<1>6. Alive' = Alive \cup {n} /\ n \notin Alive
    BY <1>1, <1>2, <1>3, <1>4, <1>5 DEF Alive
<1>7. /\ cards'[n].idx = i /\ cards'[n].profileId = prof
      /\ cards'[n].procs = {p}
      /\ \A c \in Alive : cards'[c] = cards[c]
    BY <1>3, <1>4, <1>6 DEF Alive
<1>8. TypeOK'
  <2>1. cards' \in [Cards -> Videocard \cup {None}]
    BY <1>1, <1>2 DEF BalancerInv, TypeOK
  <2>2. QED
    BY <1>1, <2>1 DEF BalancerInv, TypeOK, NewCard
<1>9. NoFreedCardInProfileMap'
    BY <1>1, <1>6, <1>7 DEF BalancerInv, NoFreedCardInProfileMap, TypeOK
<1>10. FreshIsUnmapped'
    BY <1>1 DEF BalancerInv, FreshIsUnmapped, TypeOK
<1>11. holding' = holding \cup {p} /\ holding \subseteq Processings
    BY DEF NewCard, BalancerInv, TypeOK
<1>12. HeldCardIsLive'
  <2>1. byProc'[p] = n
    BY <1>1 DEF BalancerInv, FreshIsUnmapped, TypeOK
  <2>2. \A q \in holding \ {p} : byProc'[q] = byProc[q]
    BY <1>1, <1>11 DEF BalancerInv, TypeOK
  <2>3. \A q \in holding : byProc[q] \in Alive /\ q \in cards[byProc[q]].procs
    BY DEF BalancerInv, HeldCardIsLive
  <2>4. QED
    BY <1>6, <1>7, <1>11, <2>1, <2>2, <2>3 DEF HeldCardIsLive
<1>13. UsedCardIsCharged'
  <2> SUFFICES ASSUME NEW q \in holding'
               PROVE  \E c \in Alive' : cards'[c].idx = used'[q]
                                        /\ q \in cards'[c].procs
    BY DEF UsedCardIsCharged
  <2>1. CASE q = p
    BY <1>1, <1>6, <1>7, <2>1 DEF BalancerInv, TypeOK
  <2>2. CASE q # p
    <3>1. q \in holding /\ used'[q] = used[q]
      BY <1>1, <1>11, <2>2 DEF BalancerInv, TypeOK
    <3>2. PICK c \in Alive : cards[c].idx = used[q] /\ q \in cards[c].procs
      BY <3>1 DEF BalancerInv, UsedCardIsCharged
    <3>3. QED
      BY <1>6, <1>7, <3>1, <3>2
  <2>3. QED
    BY <2>1, <2>2
<1>14. ReservedIsLive'
  <2>1. /\ \A c, d \in Alive : cards[c].idx = cards[d].idx => c = d
        /\ reserved = {cards[c].idx : c \in Alive}
    BY DEF BalancerInv, ReservedIsLive
  <2>2. {cards'[c].idx : c \in Alive'} = {cards[c].idx : c \in Alive} \cup {i}
    <3>1. \A c \in Alive' : cards'[c].idx = IF c = n THEN i ELSE cards[c].idx
      BY <1>6, <1>7
    <3>2. QED
      BY <1>6, <3>1
  <2>3. \A c, d \in Alive' : cards'[c].idx = cards'[d].idx => c = d
    BY <1>1, <1>6, <1>7, <2>1
  <2>4. QED
    BY <1>1, <2>1, <2>2, <2>3 DEF ReservedIsLive
<1>15. CapacityOK'
  <2>1. IsFiniteSet({p}) /\ Cardinality({p}) = 1
    BY FS_Singleton
  <2>2. \A c \in Alive : /\ IsFiniteSet(cards[c].procs)
                         /\ Cardinality(cards[c].procs) <= MaxPerCard
    BY DEF BalancerInv, CapacityOK
  <2>3. IsFiniteSet(cards'[n].procs) /\ Cardinality(cards'[n].procs) = 1
    BY <1>7, <2>1, Zenon
  <2>4. 1 <= MaxPerCard
    OBVIOUS
  <2>5. \A c \in Alive : cards'[c].procs = cards[c].procs
    BY <1>7
  <2>6. QED
    BY <1>6, <2>2, <2>3, <2>4, <2>5, Zenon DEF CapacityOK
<1>16. QED
    BY <1>8, <1>9, <1>10, <1>12, <1>13, <1>14, <1>15 DEF BalancerInv

(* Neither a refusal nor a failed assertion touches a card.                *)
LEMMA NoCardInv ==
    ASSUME BalancerInv, NEW p \in Processings, NEW prof \in Profiles,
           used[p] = None, p \notin holding,
           NoCardLeft(p, prof) \/ AssertFails(p, prof),
           profileOf' = [profileOf EXCEPT ![p] = prof], UNCHANGED analyzers
    PROVE  BalancerInv'
<1>1. /\ UNCHANGED <<cards, byProfile, byProc, reserved, holding>>
      /\ used' = used \/ used' = [used EXCEPT ![p] = NoAvailableCards]
      /\ aborted' \in BOOLEAN
    BY DEF NoCardLeft, AssertFails, BalancerInv, TypeOK
<1>2. Alive' = Alive
    BY <1>1 DEF Alive
<1>3. TypeOK'
    BY <1>1 DEF BalancerInv, TypeOK
<1>4. \A q \in Processings : used'[q] = None => used[q] = None
    BY <1>1, BalancerAssumption DEF BalancerInv, TypeOK
<1>5. \A q \in holding : used'[q] = used[q]
    BY <1>1 DEF BalancerInv, TypeOK
<1>6. UsedCardIsCharged'
    BY <1>1, <1>2, <1>5 DEF BalancerInv, UsedCardIsCharged
<1>7. FreshIsUnmapped'
    BY <1>1, <1>4 DEF BalancerInv, FreshIsUnmapped
<1>8. /\ NoFreedCardInProfileMap'
      /\ HeldCardIsLive'
      /\ ReservedIsLive'
      /\ CapacityOK'
    BY <1>1, <1>2 DEF BalancerInv, NoFreedCardInProfileMap, HeldCardIsLive,
       ReservedIsLive, CapacityOK
<1>9. QED
    BY <1>3, <1>6, <1>7, <1>8 DEF BalancerInv

(* Returning a card keeps the invariant: a card is deleted only when its   *)
(* last processing leaves it, so no other holder can be charged to it.     *)
LEMMA ReturnInv ==
    ASSUME BalancerInv, NEW p \in Processings, p \in holding,
           ReturnVideocard(p)
    PROVE  BalancerInv'
<1> USE BalancerAssumption
<1> DEFINE b    == byProc[p]
           left == cards[b].procs \ {p}
<1>1. b \in Alive /\ p \in cards[b].procs /\ b # None
    BY DEF BalancerInv, HeldCardIsLive, Alive
<1>2. /\ \A c \in Alive : cards[c] \in Videocard
      /\ None \notin Videocard
      /\ holding' = holding \ {p} /\ holding \subseteq Processings
    BY DEF BalancerInv, TypeOK, Alive, Videocard, ReturnVideocard
<1>3. /\ UNCHANGED <<used, profileOf, analyzers, aborted>>
      /\ \/ /\ left = {}
            /\ reserved' = reserved \ {cards[b].idx}
            /\ byProc' = [byProc EXCEPT ![p] = None]
            /\ byProfile' = [byProfile EXCEPT ![cards[b].profileId] = {}]
            /\ cards' = [cards EXCEPT ![b] = None]
         \/ /\ left # {}
            /\ cards' = [cards EXCEPT ![b].procs = left]
            /\ UNCHANGED <<byProfile, byProc, reserved>>
    BY <1>1 DEF ReturnVideocard, LastOn, DeleteCard, LeaveCard
<1>4. /\ \A c, d \in Alive : cards[c].idx = cards[d].idx => c = d
      /\ reserved = {cards[c].idx : c \in Alive}
    BY DEF BalancerInv, ReservedIsLive
<1>5. \A c \in Alive : /\ IsFiniteSet(cards[c].procs)
                       /\ Cardinality(cards[c].procs) <= MaxPerCard
    BY DEF BalancerInv, CapacityOK
<1>6. \A q \in Processings \ {p} : byProc'[q] = byProc[q]
    BY <1>3 DEF BalancerInv, TypeOK
<1>7. FreshIsUnmapped'
    BY <1>3 DEF BalancerInv, FreshIsUnmapped, TypeOK
<1>8. CASE left = {}
  <2>1. /\ reserved' = reserved \ {cards[b].idx}
        /\ byProc' = [byProc EXCEPT ![p] = None]
        /\ byProfile' = [byProfile EXCEPT ![cards[b].profileId] = {}]
        /\ cards' = [cards EXCEPT ![b] = None]
    BY <1>3, <1>8
  <2>2. Alive' = Alive \ {b} /\ \A c \in Alive \ {b} : cards'[c] = cards[c]
    BY <2>1 DEF BalancerInv, TypeOK, Alive
  <2>3. cards[b].profileId \in Profiles
    BY <1>1, <1>2 DEF Videocard
  <2>4. TypeOK'
    BY <1>2, <1>3, <2>1, <2>3 DEF BalancerInv, TypeOK
  <2>5. NoFreedCardInProfileMap'
    <3> SUFFICES ASSUME NEW prof \in Profiles, NEW c \in byProfile'[prof]
                 PROVE  c \in Alive' /\ cards'[c].profileId = prof
      BY DEF NoFreedCardInProfileMap
    <3>1. prof # cards[b].profileId /\ c \in byProfile[prof]
      BY <2>1, <2>3 DEF BalancerInv, TypeOK
    <3>2. c \in Alive /\ cards[c].profileId = prof
      BY <3>1 DEF BalancerInv, NoFreedCardInProfileMap
    <3>3. QED
      BY <2>2, <3>1, <3>2
  <2>6. HeldCardIsLive'
    <3> SUFFICES ASSUME NEW q \in holding \ {p}
                 PROVE  byProc'[q] \in Alive' /\ q \in cards'[byProc'[q]].procs
      BY <1>2 DEF HeldCardIsLive
    <3>1. byProc[q] \in Alive /\ q \in cards[byProc[q]].procs
      BY DEF BalancerInv, HeldCardIsLive
    <3>2. byProc[q] # b
      BY <1>8, <3>1
    <3>3. QED
      BY <1>2, <1>6, <2>2, <3>1, <3>2
  <2>7. UsedCardIsCharged'
    <3> SUFFICES ASSUME NEW q \in holding \ {p}
                 PROVE  \E c \in Alive' : cards'[c].idx = used'[q]
                                          /\ q \in cards'[c].procs
      BY <1>2 DEF UsedCardIsCharged
    <3>1. PICK c \in Alive : cards[c].idx = used[q] /\ q \in cards[c].procs
      BY DEF BalancerInv, UsedCardIsCharged
    <3>2. c # b
      BY <1>8, <3>1
    <3>3. QED
      BY <1>3, <2>2, <3>1, <3>2
  <2>8. ReservedIsLive'
    <3>1. {cards'[c].idx : c \in Alive'} = {cards[c].idx : c \in Alive \ {b}}
      BY <2>2
    <3>2. {cards[c].idx : c \in Alive \ {b}} = reserved \ {cards[b].idx}
      BY <1>1, <1>4
    <3>3. \A c, d \in Alive' : cards'[c].idx = cards'[d].idx => c = d
      BY <1>4, <2>2
    <3>4. reserved' = {cards'[c].idx : c \in Alive'}
      BY <2>1, <3>1, <3>2
    <3>5. QED
      BY <3>3, <3>4 DEF ReservedIsLive
  <2>9. CapacityOK'
    BY <1>5, <2>2 DEF CapacityOK
  <2>10. QED
    BY <1>7, <2>4, <2>5, <2>6, <2>7, <2>8, <2>9 DEF BalancerInv
<1>9. CASE left # {}
  <2>1. /\ cards' = [cards EXCEPT ![b].procs = left]
        /\ UNCHANGED <<byProfile, byProc, reserved>>
    BY <1>3, <1>9
  <2>2. /\ cards'[b] \in Videocard
        /\ cards'[b].idx = cards[b].idx
        /\ cards'[b].profileId = cards[b].profileId
        /\ cards'[b].procs = cards[b].procs \ {p}
    BY <1>1, <1>2, <2>1 DEF BalancerInv, TypeOK, Alive, Videocard
  <2>3. \A c \in Cards \ {b} : cards'[c] = cards[c]
    BY <2>1 DEF BalancerInv, TypeOK
  <2>4. Alive' = Alive
    BY <1>1, <1>2, <2>2, <2>3 DEF Alive
  <2>5. \A c \in Alive : /\ cards'[c].idx = cards[c].idx
                         /\ cards'[c].profileId = cards[c].profileId
                         /\ cards[c].procs \ {p} \subseteq cards'[c].procs
    BY <2>2, <2>3 DEF Alive
  <2>6. TypeOK'
    <3>1. cards' \in [Cards -> Videocard \cup {None}]
      BY <2>1, <2>2, <2>3 DEF BalancerInv, TypeOK
    <3>2. QED
      BY <1>2, <1>3, <2>1, <3>1 DEF BalancerInv, TypeOK
  <2>7. NoFreedCardInProfileMap'
    BY <2>1, <2>4, <2>5 DEF BalancerInv, NoFreedCardInProfileMap
  <2>8. HeldCardIsLive'
    <3> SUFFICES ASSUME NEW q \in holding \ {p}
                 PROVE  byProc'[q] \in Alive' /\ q \in cards'[byProc'[q]].procs
      BY <1>2 DEF HeldCardIsLive
    <3>1. byProc[q] \in Alive /\ q \in cards[byProc[q]].procs
      BY DEF BalancerInv, HeldCardIsLive
    <3>2. QED
      BY <2>1, <2>4, <2>5, <3>1
  <2>9. UsedCardIsCharged'
    <3> SUFFICES ASSUME NEW q \in holding \ {p}
                 PROVE  \E c \in Alive' : cards'[c].idx = used'[q]
                                          /\ q \in cards'[c].procs
      BY <1>2 DEF UsedCardIsCharged
    <3>1. PICK c \in Alive : cards[c].idx = used[q] /\ q \in cards[c].procs
      BY DEF BalancerInv, UsedCardIsCharged
    <3>2. QED
      BY <1>3, <2>4, <2>5, <3>1
  <2>10. ReservedIsLive'
    <3>1. {cards'[c].idx : c \in Alive'} = {cards[c].idx : c \in Alive}
      BY <2>4, <2>5
    <3>2. QED
      BY <1>4, <2>1, <2>4, <2>5, <3>1 DEF ReservedIsLive
  <2>11. CapacityOK'
    <3>1. /\ IsFiniteSet(cards[b].procs \ {p})
          /\ Cardinality(cards[b].procs \ {p}) <= Cardinality(cards[b].procs)
      BY <1>1, <1>5, FS_Subset
    <3>2. /\ Cardinality(cards[b].procs \ {p}) \in Nat
          /\ Cardinality(cards[b].procs) \in Nat
      BY <1>1, <1>5, <3>1, FS_CardinalityType
    <3>3. IsFiniteSet(cards'[b].procs) /\ Cardinality(cards'[b].procs) <= MaxPerCard
      BY <1>1, <1>5, <2>2, <3>1, <3>2
    <3>4. \A c \in Alive \ {b} : cards'[c] = cards[c]
      BY <2>3 DEF Alive
    <3>5. QED
      BY <1>5, <2>4, <3>3, <3>4 DEF CapacityOK
  <2>12. QED
    BY <1>7, <2>6, <2>7, <2>8, <2>9, <2>10, <2>11 DEF BalancerInv
<1>10. QED
    BY <1>8, <1>9

(* The registry is not read by any part of the invariant but its type.     *)
LEMMA RegistryInv ==
    ASSUME BalancerInv, NEW p \in Processings, Register(p) \/ Remove(p)
    PROVE  BalancerInv'
<1>1. /\ UNCHANGED <<cards, byProfile, byProc, reserved, used, profileOf,
                     holding, aborted>>
      /\ analyzers' \subseteq Processings
    BY DEF Register, Remove, BalancerInv, TypeOK
<1>2. Alive' = Alive
    BY <1>1 DEF Alive
<1>3. QED
    BY <1>1, <1>2 DEF BalancerInv, TypeOK, NoFreedCardInProfileMap,
       HeldCardIsLive, UsedCardIsCharged, ReservedIsLive, CapacityOK,
       FreshIsUnmapped

(* Every step of the balancer and its callers keeps the invariant.         *)
LEMMA StepInv == BalancerInv /\ [Next]_vars => BalancerInv'
<1> SUFFICES ASSUME BalancerInv, [Next]_vars PROVE BalancerInv'
    OBVIOUS
<1>1. ASSUME NEW p \in Processings, Get(p) PROVE BalancerInv'
  <2>1. PICK prof \in Profiles : GetVideocard(p, prof)
    BY <1>1 DEF Get
  <2>2. used[p] = None
    BY <1>1 DEF Get
  <2>3. p \notin holding
    <3> SUFFICES ASSUME p \in holding PROVE FALSE
      OBVIOUS
    <3>1. PICK c \in Alive : cards[c].idx = used[p]
      BY DEF BalancerInv, UsedCardIsCharged
    <3>2. cards[c].idx \in Idxs
      BY DEF BalancerInv, TypeOK, Alive, Videocard
    <3>3. QED
      BY <2>2, <3>1, <3>2, BalancerAssumption
  <2>4. CASE ShareCards(p, prof)
    BY <2>1, <2>2, <2>4, ShareCardsInv DEF GetVideocard
  <2>5. CASE NewCard(p, prof)
    BY <2>1, <2>2, <2>5, NewCardInv DEF GetVideocard
  <2>6. CASE NoCardLeft(p, prof) \/ AssertFails(p, prof)
    BY <2>1, <2>2, <2>3, <2>6, NoCardInv DEF GetVideocard
  <2>7. QED
    BY <2>1, <2>4, <2>5, <2>6 DEF GetVideocard
<1>2. ASSUME NEW p \in Processings, Return(p) PROVE BalancerInv'
    BY <1>2, ReturnInv DEF Return
<1>3. ASSUME NEW p \in Processings, Register(p) \/ Remove(p) PROVE BalancerInv'
    BY <1>3, RegistryInv
<1>4. CASE UNCHANGED vars
  <2>1. Alive' = Alive
    BY <1>4 DEF vars, Alive
  <2>2. QED
    BY <1>4, <2>1 DEF vars, BalancerInv, TypeOK, NoFreedCardInProfileMap,
       HeldCardIsLive, UsedCardIsCharged, ReservedIsLive, CapacityOK,
       FreshIsUnmapped
<1>5. QED
    BY <1>1, <1>2, <1>3, <1>4 DEF Next

(* The invariant holds throughout every behaviour.                         *)
LEMMA Invariance == Spec => []BalancerInv
<1>1. QED
    BY InitInv, StepInv, PTL DEF Spec

-----------------------------------------------------------------------------
(* The balancer's maps, heap and settings keep their types.                *)
THEOREM TypeCorrect == Spec => []TypeOK
<1>1. BalancerInv => TypeOK
    BY DEF BalancerInv
<1>2. QED
    BY <1>1, Invariance, PTL

(* getVideocard follows no pointer to a deleted SVideocard: the entries of  *)
(* a profile are erased with its card.                                     *)
THEOREM NoDanglingCard == Spec => []NoFreedCardInProfileMap
<1>1. BalancerInv => NoFreedCardInProfileMap
    BY DEF BalancerInv
<1>2. QED
    BY <1>1, Invariance, PTL

(* Neither does returnVideocard (processing map), although its entries are *)
(* never erased and addresses are reused, and no index of SYSTEM_MONITOR   *)
(* is released twice or kept for a card that is gone.                      *)
THEOREM PointersStayLive == Spec => []PointersAreLive
<1>1. BalancerInv => PointersAreLive
    BY DEF BalancerInv, PointersAreLive
<1>2. QED
    BY <1>1, Invariance, PTL

(* The card an analyzer runs on stays charged for it until it is returned. *)
THEOREM CardStaysCharged == Spec => []UsedCardIsCharged
<1>1. BalancerInv => UsedCardIsCharged
    BY DEF BalancerInv
<1>2. QED
    BY <1>1, Invariance, PTL

(* No videocard ever runs more than MaxPerCard analyzers.                  *)
THEOREM LoadIsBounded == Spec => []LoadBounded
<1>1. ASSUME BalancerInv PROVE LoadBounded
  <2> SUFFICES ASSUME NEW i \in Idxs
               PROVE  Cardinality({p \in holding : used[p] = i}) <= MaxPerCard
    BY DEF LoadBounded
  <2> DEFINE users == {p \in holding : used[p] = i}
  <2>1. CASE users = {}
    BY <2>1, FS_EmptySet, BalancerAssumption
  <2>2. CASE users # {}
    <3>1. PICK q \in users : TRUE
      BY <2>2
    <3>2. PICK c \in Alive : cards[c].idx = i
      BY <1>1, <3>1 DEF BalancerInv, UsedCardIsCharged
    <3>3. users \subseteq cards[c].procs
      BY <1>1, <3>2 DEF BalancerInv, UsedCardIsCharged, ReservedIsLive
    <3>4. /\ IsFiniteSet(cards[c].procs)
          /\ Cardinality(cards[c].procs) <= MaxPerCard
      BY <1>1 DEF BalancerInv, CapacityOK
    <3>5. IsFiniteSet(users) /\ Cardinality(users) <= Cardinality(cards[c].procs)
      BY <3>3, <3>4, FS_Subset
    <3>6. Cardinality(users) \in Nat /\ Cardinality(cards[c].procs) \in Nat
      BY <3>4, <3>5, FS_CardinalityType
    <3>7. QED
      BY <3>4, <3>5, <3>6, BalancerAssumption
  <2>3. QED
    BY <2>1, <2>2
<1>2. QED
    BY <1>1, Invariance, PTL
=============================================================================
