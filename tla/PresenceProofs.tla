---------------------------- MODULE PresenceProofs ----------------------------
(***************************************************************************)
(* What the presence service promises, in one process and over Redis, for  *)
(* any number of windows, companions, calls, instances and revisions.      *)
(***************************************************************************)
EXTENDS PresenceStores, SequenceTheorems, TLAPS

-----------------------------------------------------------------------------
(* The store in memory *)

Records == Recs \cup {None}
Stores == [entries : [Mains -> [rec : Records, left : Int]],
           leases : [Companions -> Int], revision : Nat]
Emissions == [state : [active : Records, revision : Nat], by : Emitter]

PresenceTypes ==
  /\ store \in Stores
  /\ reads \in [Calls -> [sid : Mains \cup {None}, rec : Records, lag : Int]]
  /\ \A c \in Calls : reads[c] # NoRead => reads[c].sid \in Mains /\ reads[c].rec \in Recs
  /\ waiting \in Seq(Emissions)
  /\ conn \in [Sockets -> {"new", "open", "closed"}]
  /\ seen \in [Companions -> Int] /\ shown \in [Companions -> Records]
  /\ clean \subseteq Companions

Settled(S) == Held(S) = Fresh(S)

\* The counter was raised since the last reset when there is an entry.
HeldCounts == Held(store) # {} => store.revision > 0

NewAreBlank == \A k \in Companions : conn[k] = "new" => seen[k] = -1

\* A state fits the store: it is not newer, and of the same revision only if it names
\* the active record, unless an entry waits to expire.
Fits(st, S) ==
  /\ st.revision <= S.revision
  /\ st.revision = S.revision /\ Settled(S) => st.active = Active(S, Held(S))

\* Since the last reset, what waits to be sent fits; what a companion applied fits;
\* and what it has not applied waits to be sent.
QueueFits == clean # {} => \A n \in 1..Len(waiting) : Fits(waiting[n].state, store)

Following ==
  \A k \in clean : conn[k] = "open" /\ seen[k] >= 0 =>
    /\ seen[k] <= store.revision
    /\ seen[k] = store.revision /\ Settled(store) => shown[k] = Active(store, Held(store))
    /\ seen[k] < store.revision => waiting # << >>

PresenceInv == PresenceTypes /\ HeldCounts /\ NewAreBlank /\ QueueFits /\ Following

-----------------------------------------------------------------------------
\* The active record depends on the records and the order of the times left.
LEMMA ActiveShift ==
  ASSUME NEW S \in Stores, NEW T \in Stores, NEW A \in SUBSET Mains, NEW shift \in Int,
         \A i \in A : T.entries[i].rec = S.entries[i].rec /\ T.entries[i].left = S.entries[i].left - shift
  PROVE  Active(T, A) = Active(S, A)
  <1> DEFINE focused(R) == {i \in A : R.entries[i].rec.focus > 0}
             candidates(R) == IF focused(R) # {} THEN focused(R) ELSE A
             primary(R, i) == IF focused(R) # {} THEN R.entries[i].rec.focus ELSE R.entries[i].left
             atLeast(R, i, j) ==
               \/ primary(R, i) > primary(R, j)
               \/ /\ primary(R, i) = primary(R, j)
                  /\ \/ R.entries[i].left > R.entries[j].left
                     \/ R.entries[i].left = R.entries[j].left /\ Rank[i] >= Rank[j]
             winners(R) == {i \in candidates(R) : \A j \in candidates(R) : atLeast(R, i, j)}
  <1>1. \A i \in A : S.entries[i].left \in Int /\ T.entries[i].left \in Int
    BY DEF Stores
  <1>2. focused(T) = focused(S)
    OBVIOUS
  <1>3. candidates(T) = candidates(S) /\ candidates(S) \subseteq A
    BY <1>2
  <1>4. \A i, j \in A : atLeast(T, i, j) <=> atLeast(S, i, j)
    <2>1. CASE focused(S) # {}
      <3>1. \A i \in A : primary(T, i) = primary(S, i)
        BY <1>2, <2>1
      <3> HIDE DEF focused, primary
      <3> QED
        BY <1>1, <3>1
    <2>2. CASE focused(S) = {}
      <3>1. \A i \in A : primary(T, i) = T.entries[i].left /\ primary(S, i) = S.entries[i].left
        BY <1>2, <2>2
      <3> HIDE DEF focused, primary
      <3> QED
        BY <1>1, <3>1
    <2> QED
      BY <2>1, <2>2
  <1> HIDE DEF focused, candidates, primary, atLeast
  <1>5. winners(T) = winners(S) /\ winners(S) \subseteq A
    BY <1>3, <1>4
  <1>6. \A R : Active(R, A) = IF winners(R) = {} THEN None ELSE R.entries[CHOOSE i \in winners(R) : TRUE].rec
    BY DEF Active, focused, candidates, primary, atLeast
  <1> HIDE DEF winners
  <1>7. CASE winners(S) = {}
    BY <1>5, <1>6, <1>7
  <1>8. CASE winners(S) # {}
    <2> DEFINE w == CHOOSE i \in winners(S) : TRUE
    <2>1. w \in A
      BY <1>5, <1>8
    <2>2. Active(S, A) = S.entries[w].rec /\ Active(T, A) = T.entries[w].rec
      BY <1>5, <1>6, <1>8
    <2> QED
      BY <2>1, <2>2
  <1> QED
    BY <1>7, <1>8

\* The active record is a record or none.
LEMMA ActiveType ==
  ASSUME NEW S \in Stores, NEW A \in SUBSET Mains
  PROVE  Active(S, A) \in Records
  <1> DEFINE focused == {i \in A : S.entries[i].rec.focus > 0}
             candidates == IF focused # {} THEN focused ELSE A
  <1>1. candidates \subseteq A
    OBVIOUS
  <1>2. \E W \in SUBSET candidates : Active(S, A) = IF W = {} THEN None ELSE S.entries[CHOOSE i \in W : TRUE].rec
    <2> DEFINE primary(i) == IF focused # {} THEN S.entries[i].rec.focus ELSE S.entries[i].left
               atLeast(i, j) ==
                 \/ primary(i) > primary(j)
                 \/ /\ primary(i) = primary(j)
                    /\ \/ S.entries[i].left > S.entries[j].left
                       \/ S.entries[i].left = S.entries[j].left /\ Rank[i] >= Rank[j]
               winners == {i \in candidates : \A j \in candidates : atLeast(i, j)}
    <2>1. Active(S, A) = IF winners = {} THEN None ELSE S.entries[CHOOSE i \in winners : TRUE].rec
      BY DEF Active
    <2>2. winners \in SUBSET candidates
      OBVIOUS
    <2> HIDE DEF winners
    <2> QED
      BY <2>1, <2>2
  <1> HIDE DEF candidates
  <1>3. PICK W \in SUBSET candidates : Active(S, A) = IF W = {} THEN None ELSE S.entries[CHOOSE i \in W : TRUE].rec
    BY <1>2
  <1>4. W # {} => (CHOOSE i \in W : TRUE) \in Mains
    BY <1>1
  <1> QED
    BY <1>3, <1>4 DEF Stores, Records

\* Two stores with the same entries agree on who is held, fresh and active.
LEMMA SameEntries ==
  ASSUME NEW S \in Stores, NEW T \in Stores, T.entries = S.entries
  PROVE  /\ Held(T) = Held(S) /\ Fresh(T) = Fresh(S) /\ (Settled(T) <=> Settled(S))
         /\ Active(T, Held(T)) = Active(S, Held(S))
  <1>1. Held(T) = Held(S) /\ Held(S) \in SUBSET Mains
    BY DEF Held
  <1>2. Fresh(T) = Fresh(S)
    BY <1>1 DEF Fresh
  <1>3. \A i \in Held(S) : S.entries[i].left \in Int
    BY <1>1 DEF Stores
  <1>4. \A i \in Held(S) : T.entries[i].rec = S.entries[i].rec /\ T.entries[i].left = S.entries[i].left - 0
    BY <1>3
  <1>5. Active(T, Held(S)) = Active(S, Held(S))
    BY <1>1, <1>4, ActiveShift
  <1> QED
    BY <1>1, <1>2, <1>5 DEF Settled

\* What dropping an idle store changes: the counter, when nothing is held.
LEMMA DropFacts ==
  ASSUME NEW S \in Stores
  PROVE  /\ DropIdle(S) \in Stores /\ DropIdle(S).entries = S.entries /\ DropIdle(S).leases = S.leases
         /\ \/ DropIdle(S).revision = S.revision
            \/ DropIdle(S).revision = 0 /\ Held(S) = {} /\ \A k \in Companions : S.leases[k] = 0
  BY DEF DropIdle, Stores

\* What removing entries changes: it raises the counter if one was held.
LEMMA WithoutFacts ==
  ASSUME NEW S \in Stores, NEW I
  PROVE  /\ Without(S, I) \in Stores /\ Without(S, I).leases = S.leases
         /\ \/ Without(S, I) = S
            \/ Without(S, I).revision = S.revision + 1 /\ Held(S) # {}
  <1>1. NoEntry \in [rec : Records, left : Int]
    BY DEF NoEntry, Records
  <1>2. CASE I \cap Held(S) = {}
    BY <1>2 DEF Without
  <1>3. CASE I \cap Held(S) # {}
    <2> DEFINE new == [i \in Mains |-> IF i \in I THEN NoEntry ELSE S.entries[i]]
    <2>1. new \in [Mains -> [rec : Records, left : Int]]
      BY <1>1 DEF Stores
    <2>2. Without(S, I) = [S EXCEPT !.entries = new, !.revision = S.revision + 1]
      BY <1>3 DEF Without, Stores
    <2> HIDE DEF new
    <2>3. S.revision + 1 \in Nat
      BY DEF Stores
    <2> QED
      BY <1>3, <2>1, <2>2, <2>3 DEF Stores
  <1> QED
    BY <1>2, <1>3

\* What an update changes: its entry, and the counter by one.
LEMMA UpdateFacts ==
  ASSUME NEW S \in Stores, NEW i \in Mains, NEW rec \in Recs, NEW lag \in Int
  PROVE  /\ StoreUpdate(S, i, rec, lag) \in Stores /\ StoreUpdate(S, i, rec, lag).leases = S.leases
         /\ StoreUpdate(S, i, rec, lag).revision = S.revision + 1
         /\ i \in Held(StoreUpdate(S, i, rec, lag))
  <1> DEFINE new == [j \in Mains |-> IF j = i THEN [rec |-> rec, left |-> TTL - lag]
                                     ELSE IF S.entries[j].left + lag <= 0 THEN NoEntry
                                     ELSE S.entries[j]]
  <1>1. NoEntry \in [rec : Records, left : Int] /\ TTL - lag \in Int
    BY PresenceAssumption DEF NoEntry, Records
  <1>2. new \in [Mains -> [rec : Records, left : Int]] /\ new[i].rec = rec
    BY <1>1 DEF Stores, Records
  <1>3. StoreUpdate(S, i, rec, lag) = [S EXCEPT !.entries = new, !.revision = S.revision + 1]
    BY DEF StoreUpdate, Stores
  <1> HIDE DEF new
  <1>4. S.revision + 1 \in Nat /\ rec # None
    BY PresenceAssumption DEF Stores
  <1> QED
    BY <1>2, <1>3, <1>4 DEF Stores, Held

-----------------------------------------------------------------------------
\* T follows the store: one operation leads from the one to the other.
Succeeds(T) ==
  /\ T \in Stores
  /\ T.revision >= store.revision
  /\ Held(T) # {} => T.revision > 0
  /\ Held(T) = {} /\ T.revision > store.revision => store.revision > 0
  /\ T.revision = store.revision => T.entries = store.entries

\* E is T, the counter possibly reset because nothing is held.
Dropped(T, E) ==
  /\ E \in Stores /\ E.entries = T.entries
  /\ E.revision = T.revision \/ (E.revision = 0 /\ Held(T) = {})

\* A store, and the store without its idle user, are dropped forms of it.
LEMMA DropDropped ==
  ASSUME NEW T \in Stores
  PROVE  Dropped(T, T) /\ Dropped(T, DropIdle(T))
  BY DropFacts DEF Dropped

\* Dropping again is still a dropped form.
LEMMA DropTwice ==
  ASSUME NEW T \in Stores, NEW D, Dropped(T, D)
  PROVE  Dropped(T, DropIdle(D))
  <1>1. D \in Stores /\ Held(D) = Held(T)
    BY SameEntries DEF Dropped
  <1> QED
    BY <1>1, DropFacts DEF Dropped

\* Once the store is committed, either the counter was reset and no companion is
\* clean, or what was right of the store is right of the new one.
LEMMA CommitFacts ==
  ASSUME PresenceInv, NEW T, Succeeds(T), NEW E, Dropped(T, E), Commit(E)
  PROVE  /\ store' = E /\ store' \in Stores /\ HeldCounts' /\ clean' \subseteq clean
         /\ clean' # {} =>
              /\ clean' = clean /\ E.revision = T.revision
              /\ \A st : Fits(st, T) => Fits(st, E)
              /\ \A st \in [active : Records, revision : Nat] : Fits(st, store) => Fits(st, T)
  <1>1. store' = E /\ store' \in Stores /\ store \in Stores /\ T \in Stores
    BY DEF Commit, Dropped, Succeeds, PresenceInv, PresenceTypes
  <1>2. E.revision \in Nat /\ T.revision \in Nat /\ store.revision \in Nat
    BY <1>1 DEF Stores
  <1>3. /\ Held(E) = Held(T) /\ (Settled(E) <=> Settled(T))
        /\ Active(E, Held(E)) = Active(T, Held(T))
    BY <1>1, SameEntries DEF Dropped
  <1>4. Held(E) # {} => E.revision > 0
    BY <1>3 DEF Dropped, Succeeds
  <1>5. HeldCounts'
    <2>1. HeldCounts' <=> (Held(store') # {} => store'.revision > 0)
      BY DEF HeldCounts, Held
    <2> QED
      BY <1>1, <1>4, <2>1
  <1>6. clean' \subseteq clean
    BY DEF Commit
  <1>7. ASSUME clean' # {}
        PROVE  clean' = clean /\ E.revision = T.revision
    <2>1. E.revision >= store.revision /\ clean' = clean
      BY <1>1, <1>2, <1>7 DEF Commit
    <2> QED
      BY <1>2, <2>1 DEF Dropped, Succeeds
  <1>8. ASSUME clean' # {}, NEW st, Fits(st, T)
        PROVE  Fits(st, E)
    BY <1>3, <1>7, <1>8 DEF Fits
  <1>9. ASSUME clean' # {}, NEW st \in [active : Records, revision : Nat], Fits(st, store)
        PROVE  Fits(st, T)
    <2>1. st.revision \in Nat /\ st.revision <= T.revision
      BY <1>2, <1>9 DEF Fits, Succeeds
    <2>2. CASE st.revision = T.revision
      <3>1. st.revision = store.revision /\ T.entries = store.entries
        BY <1>2, <1>9, <2>1, <2>2 DEF Fits, Succeeds
      <3>2. (Settled(T) <=> Settled(store)) /\ Active(T, Held(T)) = Active(store, Held(store))
        BY <1>1, <3>1, SameEntries
      <3> QED
        BY <1>9, <2>1, <3>1, <3>2 DEF Fits
    <2> QED
      BY <2>1, <2>2 DEF Fits
  <1> QED
    BY <1>1, <1>5, <1>6, <1>7, <1>8, <1>9

\* Connections only close, and the shape of the other variables is kept.
Closes ==
  /\ conn' \in [Sockets -> {"new", "open", "closed"}]
  /\ \A k \in Sockets : (conn'[k] = "open" => conn[k] = "open") /\ (conn'[k] = "new" => conn[k] = "new")

ReadsKept ==
  /\ reads' \in [Calls -> [sid : Mains \cup {None}, rec : Records, lag : Int]]
  /\ \A c \in Calls : reads'[c] # NoRead => reads'[c].sid \in Mains /\ reads'[c].rec \in Recs

\* A commit that nobody is told of changes no entry.
LEMMA CommitStep ==
  ASSUME PresenceInv, NEW T, Succeeds(T), T.revision = store.revision, NEW E, Dropped(T, E), Commit(E),
         Closes, ReadsKept, UNCHANGED <<waiting, seen, shown>>
  PROVE  PresenceInv'
  <1>1. /\ store' = E /\ store' \in Stores /\ HeldCounts' /\ clean' \subseteq clean
        /\ clean' # {} =>
              /\ clean' = clean /\ E.revision = T.revision
              /\ \A st : Fits(st, T) => Fits(st, E)
              /\ \A st \in [active : Records, revision : Nat] : Fits(st, store) => Fits(st, T)
    BY CommitFacts
  <1>2. PresenceTypes'
    BY <1>1 DEF PresenceInv, PresenceTypes, Closes, ReadsKept
  <1>3. NewAreBlank'
    BY DEF PresenceInv, NewAreBlank, Closes, Sockets
  <1>4. ASSUME clean' # {}
        PROVE  \A n \in 1..Len(waiting) : Fits(waiting[n].state, E)
    <2>1. \A n \in 1..Len(waiting) : waiting[n] \in Emissions
      BY ElementOfSeq DEF PresenceInv, PresenceTypes
    <2>2. \A n \in 1..Len(waiting) : waiting[n].state \in [active : Records, revision : Nat]
      BY <2>1 DEF Emissions
    <2> QED
      BY <1>1, <1>4, <2>2 DEF PresenceInv, QueueFits
  <1>5. QueueFits'
    <2>1. QueueFits' <=> (clean' # {} => \A n \in 1..Len(waiting') : Fits(waiting'[n].state, store'))
      BY DEF QueueFits, Fits, Settled, Held, Fresh, Active
    <2> QED
      BY <1>1, <1>4, <2>1
  <1>6. Following'
    <2> SUFFICES ASSUME NEW k \in clean', conn'[k] = "open", seen'[k] >= 0
                 PROVE  /\ seen'[k] <= store'.revision
                        /\ seen'[k] = store'.revision /\ Settled(store)' => shown'[k] = Active(store, Held(store))'
                        /\ seen'[k] < store'.revision => waiting' # << >>
      BY DEF Following
    <2>1. k \in clean /\ k \in Companions /\ conn[k] = "open" /\ clean' # {}
      BY <1>1 DEF Closes, Sockets, PresenceInv, PresenceTypes
    <2>2. /\ seen[k] <= store.revision
          /\ seen[k] = store.revision /\ Settled(store) => shown[k] = Active(store, Held(store))
          /\ seen[k] < store.revision => waiting # << >>
      BY <2>1 DEF PresenceInv, Following
    <2>3. E.revision = store.revision /\ E.entries = store.entries
      BY <1>1, <2>1 DEF Succeeds, Dropped
    <2>4. store \in Stores /\ E \in Stores
      BY <1>1 DEF PresenceInv, PresenceTypes
    <2>5. (Settled(E) <=> Settled(store)) /\ Active(E, Held(E)) = Active(store, Held(store))
      BY <2>3, <2>4, SameEntries
    <2>6. Settled(store)' <=> Settled(E)
      BY <1>1 DEF Settled, Held, Fresh
    <2>7. Active(store, Held(store))' = Active(E, Held(E))
      BY <1>1 DEF Active, Held
    <2> QED
      BY <1>1, <2>2, <2>3, <2>5, <2>6, <2>7
  <1> QED
    BY <1>1, <1>2, <1>3, <1>5, <1>6 DEF PresenceInv

\* What is sent while companions are clean carries the revision of the store and, if
\* no entry waits to expire, its active record.
LEMMA SendStep ==
  ASSUME PresenceInv, NEW T, Succeeds(T), NEW D, Dropped(T, D),
         NEW st \in [active : Records, revision : Nat], clean # {} => Fits(st, T), NEW by, Send(D, st, by),
         Closes, ReadsKept, waiting' = << >> \/ (waiting # << >> /\ waiting' = Tail(waiting))
  PROVE  PresenceInv'
  <1> DEFINE E == DropIdle(D)
             latest == StateOf(D, Fresh(D))
             ordered == IF latest.revision > st.revision THEN latest ELSE st
  <1>1. T \in Stores /\ D \in Stores /\ E \in Stores /\ Dropped(T, E)
    BY DropTwice DEF Succeeds, Dropped
  <1>2. Commit(E)
    BY DEF Send
  <1> HIDE DEF E
  <1>3. /\ store' = E /\ store' \in Stores /\ HeldCounts' /\ clean' \subseteq clean
        /\ clean' # {} =>
              /\ clean' = clean /\ E.revision = T.revision
              /\ \A s : Fits(s, T) => Fits(s, E)
              /\ \A s \in [active : Records, revision : Nat] : Fits(s, store) => Fits(s, T)
    BY <1>1, <1>2, CommitFacts
  <1>4. ordered \in [active : Records, revision : Nat]
    <2>1. Fresh(D) \in SUBSET Mains
      BY DEF Fresh, Held
    <2>2. Active(D, Fresh(D)) \in Records /\ D.revision \in Nat
      BY <1>1, <2>1, ActiveType DEF Stores
    <2> QED
      BY <2>2 DEF StateOf
  <1>5. /\ seen' = [k \in Companions |-> IF Applies(k, ordered) THEN ordered.revision ELSE seen[k]]
        /\ shown' = [k \in Companions |-> IF Applies(k, ordered) THEN ordered.active ELSE shown[k]]
    BY DEF Send
  <1>6. clean' # {} => ordered.revision = T.revision /\ (Settled(T) => ordered.active = Active(T, Held(T)))
    <2> SUFFICES ASSUME clean' # {}
                 PROVE  ordered.revision = T.revision /\ (Settled(T) => ordered.active = Active(T, Held(T)))
      OBVIOUS
    <2>1. E.revision = T.revision /\ Fits(st, T)
      BY <1>3
    <2>2. D.revision = T.revision
      <3>1. E.revision = D.revision \/ E.revision = 0
        BY <1>1, DropFacts DEF E
      <3> QED
        BY <2>1, <3>1 DEF Dropped
    <2>3. /\ Held(D) = Held(T) /\ Fresh(D) = Fresh(T) /\ (Settled(D) <=> Settled(T))
          /\ Active(D, Held(D)) = Active(T, Held(T))
      BY <1>1, SameEntries DEF Dropped
    <2>4. latest.revision = T.revision /\ (Settled(T) => latest.active = Active(T, Held(T)))
      BY <2>2, <2>3 DEF StateOf, Settled
    <2>5. st.revision \in Nat /\ T.revision \in Nat
      BY <1>1 DEF Stores
    <2> HIDE DEF latest
    <2>6. CASE T.revision > st.revision
      BY <2>4, <2>6
    <2>7. CASE ~(T.revision > st.revision)
      BY <2>1, <2>4, <2>5, <2>7 DEF Fits
    <2> QED
      BY <2>6, <2>7
  <1> HIDE DEF latest, ordered
  <1>7. seen' \in [Companions -> Int] /\ shown' \in [Companions -> Records]
    BY <1>4, <1>5 DEF PresenceInv, PresenceTypes
  <1>8. /\ waiting' \in Seq(Emissions)
        /\ \A n \in 1..Len(waiting') : \E m \in 1..Len(waiting) : waiting'[n] = waiting[m]
    <2>1. waiting \in Seq(Emissions)
      BY DEF PresenceInv, PresenceTypes
    <2>2. CASE waiting' = << >>
      BY <2>2
    <2>3. CASE waiting # << >> /\ waiting' = Tail(waiting)
      <3>1. waiting' \in Seq(Emissions) /\ Len(waiting') = Len(waiting) - 1
            /\ \A n \in 1..Len(waiting') : waiting'[n] = waiting[n + 1]
        BY <2>1, <2>3, HeadTailProperties
      <3>2. Len(waiting) \in Nat
        BY <2>1
      <3> QED
        BY <3>1, <3>2
    <2> QED
      BY <2>2, <2>3
  <1>9. PresenceTypes'
    BY <1>3, <1>7, <1>8 DEF PresenceInv, PresenceTypes, Closes, ReadsKept
  <1>10. NewAreBlank'
    <2> SUFFICES ASSUME NEW k \in Companions, conn'[k] = "new"
                 PROVE  seen'[k] = -1
      BY DEF NewAreBlank
    <2>1. conn[k] = "new"
      BY DEF Closes, Sockets
    <2> QED
      BY <1>5, <2>1 DEF Applies, PresenceInv, NewAreBlank
  <1>11. ASSUME clean' # {}, NEW n \in 1..Len(waiting')
         PROVE  Fits(waiting'[n].state, E)
    <2>1. PICK m \in 1..Len(waiting) : waiting'[n] = waiting[m]
      BY <1>8
    <2>2. waiting[m] \in Emissions
      BY ElementOfSeq DEF PresenceInv, PresenceTypes
    <2>3. waiting[m].state \in [active : Records, revision : Nat]
      BY <2>2 DEF Emissions
    <2>4. Fits(waiting[m].state, store)
      BY <1>3, <1>11 DEF PresenceInv, QueueFits
    <2> QED
      BY <1>3, <1>11, <2>1, <2>3, <2>4
  <1>12. QueueFits'
    <2>1. QueueFits' <=> (clean' # {} => \A n \in 1..Len(waiting') : Fits(waiting'[n].state, store'))
      BY DEF QueueFits, Fits, Settled, Held, Fresh, Active
    <2> QED
      BY <1>3, <1>11, <2>1
  <1>13. Following'
    <2> SUFFICES ASSUME NEW k \in clean', conn'[k] = "open", seen'[k] >= 0
                 PROVE  /\ seen'[k] <= store'.revision
                        /\ seen'[k] = store'.revision /\ Settled(store)' => shown'[k] = Active(store, Held(store))'
                        /\ seen'[k] < store'.revision => waiting' # << >>
      BY DEF Following
    <2>1. k \in clean /\ k \in Companions /\ conn[k] = "open" /\ clean' # {}
      BY <1>3 DEF Closes, Sockets, PresenceInv, PresenceTypes
    <2>2. Settled(store)' <=> Settled(E)
      BY <1>3 DEF Settled, Held, Fresh
    <2>3. Active(store, Held(store))' = Active(E, Held(E))
      BY <1>3 DEF Active, Held
    <2>4. (Settled(E) <=> Settled(T)) /\ Active(E, Held(E)) = Active(T, Held(T))
      BY <1>1, SameEntries DEF Dropped
    <2>5. store'.revision = T.revision /\ T.revision \in Nat /\ store.revision \in Nat /\ seen[k] \in Int
      BY <1>1, <1>3, <2>1 DEF Stores, PresenceInv, PresenceTypes
    <2> SUFFICES seen'[k] = T.revision /\ (Settled(T) => shown'[k] = Active(T, Held(T)))
      BY <2>2, <2>3, <2>4, <2>5
    <2>6. CASE Applies(k, ordered)
      BY <1>5, <1>6, <2>1, <2>6
    <2>7. CASE ~Applies(k, ordered)
      <3>1. seen'[k] = seen[k] /\ shown'[k] = shown[k]
        BY <1>5, <2>1, <2>7
      <3>2. T.revision <= seen[k]
        BY <1>6, <2>1, <2>5, <2>7 DEF Applies
      <3>3. /\ seen[k] <= store.revision
            /\ seen[k] = store.revision /\ Settled(store) => shown[k] = Active(store, Held(store))
        BY <2>1, <3>1 DEF PresenceInv, Following
      <3>4. seen[k] = T.revision /\ T.revision = store.revision /\ T.entries = store.entries
        BY <2>5, <3>2, <3>3 DEF Succeeds
      <3>5. store \in Stores
        BY DEF PresenceInv, PresenceTypes
      <3>6. (Settled(T) <=> Settled(store)) /\ Active(T, Held(T)) = Active(store, Held(store))
        BY <1>1, <3>4, <3>5, SameEntries
      <3> QED
        BY <3>1, <3>3, <3>4, <3>6
    <2> QED
      BY <2>6, <2>7
  <1> QED
    BY <1>3, <1>9, <1>10, <1>12, <1>13 DEF PresenceInv

\* A state of the new store is sent at once or waits.
LEMMA EmitStep ==
  ASSUME PresenceInv, NEW T, Succeeds(T), NEW D, Dropped(T, D), NEW A \in SUBSET Mains,
         Settled(T) => A = Held(T), NEW by \in Emitter, Emit(D, StateOf(T, A), by), Closes, ReadsKept
  PROVE  PresenceInv'
  <1> DEFINE st == StateOf(T, A)
             e == [state |-> st, by |-> by]
  <1>1. T \in Stores /\ store \in Stores /\ T.revision \in Nat /\ store.revision \in Nat
    BY DEF Succeeds, PresenceInv, PresenceTypes, Stores
  <1>2. st \in [active : Records, revision : Nat] /\ Fits(st, T)
    BY <1>1, ActiveType DEF StateOf, Fits
  <1>3. CASE lock = "free" /\ waiting = << >> /\ Send(D, st, by) /\ UNCHANGED waiting
    <2> HIDE DEF st
    <2> QED
      BY <1>2, <1>3, SendStep
  <1>4. CASE /\ waiting' = Append(waiting, e) /\ Commit(D)
             /\ UNCHANGED <<lock, seen, shown>>
    <2> HIDE DEF st
    <2>1. /\ store' = D /\ store' \in Stores /\ HeldCounts' /\ clean' \subseteq clean
          /\ clean' # {} =>
              /\ clean' = clean /\ D.revision = T.revision
              /\ \A s : Fits(s, T) => Fits(s, D)
              /\ \A s \in [active : Records, revision : Nat] : Fits(s, store) => Fits(s, T)
      BY <1>4, CommitFacts
    <2>2. e \in Emissions /\ waiting \in Seq(Emissions)
      BY <1>2 DEF Emissions, PresenceInv, PresenceTypes
    <2>3. /\ waiting' \in Seq(Emissions) /\ Len(waiting') = Len(waiting) + 1
          /\ \A n \in 1..Len(waiting) : waiting'[n] = waiting[n]
          /\ waiting'[Len(waiting) + 1] = e /\ Len(waiting) \in Nat
      BY <1>4, <2>2, AppendProperties
    <2>4. PresenceTypes'
      BY <1>4, <2>1, <2>3 DEF PresenceInv, PresenceTypes, Closes, ReadsKept
    <2>5. NewAreBlank'
      BY <1>4 DEF PresenceInv, NewAreBlank, Closes, Sockets
    <2>6. ASSUME clean' # {}, NEW n \in 1..Len(waiting')
          PROVE  Fits(waiting'[n].state, D)
      <3>1. CASE n \in 1..Len(waiting)
        <4>1. waiting[n] \in Emissions
          BY <2>2, <3>1, ElementOfSeq
        <4>2. waiting[n].state \in [active : Records, revision : Nat]
          BY <4>1 DEF Emissions
        <4>3. Fits(waiting[n].state, store)
          BY <2>1, <2>6, <3>1 DEF PresenceInv, QueueFits
        <4> QED
          BY <2>1, <2>3, <2>6, <3>1, <4>2, <4>3
      <3>2. CASE n = Len(waiting) + 1
        BY <1>2, <2>1, <2>3, <2>6, <3>2
      <3> QED
        BY <2>3, <3>1, <3>2
    <2>7. QueueFits'
      <3>1. QueueFits' <=> (clean' # {} => \A n \in 1..Len(waiting') : Fits(waiting'[n].state, store'))
        BY DEF QueueFits, Fits, Settled, Held, Fresh, Active
      <3> QED
        BY <2>1, <2>6, <3>1
    <2>8. Following'
      <3> SUFFICES ASSUME NEW k \in clean', conn'[k] = "open", seen'[k] >= 0
                   PROVE  /\ seen'[k] <= store'.revision
                          /\ seen'[k] = store'.revision /\ Settled(store)' => shown'[k] = Active(store, Held(store))'
                          /\ seen'[k] < store'.revision => waiting' # << >>
        BY DEF Following
      <3>1. k \in clean /\ k \in Companions /\ conn[k] = "open" /\ clean' # {}
        BY <2>1 DEF Closes, Sockets, PresenceInv, PresenceTypes
      <3>2. Settled(store)' <=> Settled(D)
        BY <2>1 DEF Settled, Held, Fresh
      <3>3. Active(store, Held(store))' = Active(D, Held(D))
        BY <2>1 DEF Active, Held
      <3>4. (Settled(D) <=> Settled(T)) /\ Active(D, Held(D)) = Active(T, Held(T))
        BY <1>1, <2>1, SameEntries DEF Dropped
      <3>5. store'.revision = T.revision /\ seen'[k] = seen[k] /\ shown'[k] = shown[k] /\ seen[k] \in Int
        BY <1>4, <2>1, <3>1 DEF PresenceInv, PresenceTypes
      <3>6. waiting' # << >>
        BY <2>3
      <3>7. /\ seen[k] <= store.revision
            /\ seen[k] = store.revision /\ Settled(store) => shown[k] = Active(store, Held(store))
        BY <3>1, <3>5 DEF PresenceInv, Following
      <3>8. seen[k] <= T.revision
        BY <1>1, <3>5, <3>7 DEF Succeeds
      <3>9. seen[k] = T.revision /\ Settled(T) => shown[k] = Active(T, Held(T))
        <4> SUFFICES ASSUME seen[k] = T.revision, Settled(T)
                     PROVE  shown[k] = Active(T, Held(T))
          OBVIOUS
        <4>1. seen[k] = store.revision /\ T.entries = store.entries
          BY <1>1, <3>5, <3>7 DEF Succeeds
        <4>2. (Settled(T) <=> Settled(store)) /\ Active(T, Held(T)) = Active(store, Held(store))
          BY <1>1, <4>1, SameEntries
        <4> QED
          BY <3>7, <4>1, <4>2
      <3> QED
        BY <3>2, <3>3, <3>4, <3>5, <3>6, <3>8, <3>9
    <2> QED
      BY <2>1, <2>4, <2>5, <2>7, <2>8 DEF PresenceInv
  <1> QED
    BY <1>3, <1>4 DEF Emit

-----------------------------------------------------------------------------
(* The operations *)

\* The store is a successor of itself.
LEMMA StoreSucceeds ==
  ASSUME PresenceInv
  PROVE  Succeeds(store)
  BY DEF PresenceInv, PresenceTypes, HeldCounts, Succeeds, Stores

\* Removing entries gives a successor.
LEMMA WithoutSucceeds ==
  ASSUME PresenceInv, NEW I
  PROVE  Succeeds(Without(store, I))
  <1>1. store \in Stores /\ store.revision \in Nat
    BY DEF PresenceInv, PresenceTypes, Stores
  <1>2. /\ Without(store, I) \in Stores
        /\ \/ Without(store, I) = store
           \/ Without(store, I).revision = store.revision + 1 /\ Held(store) # {}
    BY <1>1, WithoutFacts
  <1>3. CASE Without(store, I) = store
    BY <1>3, StoreSucceeds
  <1>4. CASE Without(store, I).revision = store.revision + 1 /\ Held(store) # {}
    BY <1>1, <1>2, <1>4 DEF Succeeds, PresenceInv, HeldCounts
  <1> QED
    BY <1>2, <1>3, <1>4

\* Renewing or ending a lease gives a successor of the same revision.
LEMMA LeaseSucceeds ==
  ASSUME PresenceInv, NEW k \in Companions, NEW l \in Int
  PROVE  /\ Succeeds([store EXCEPT !.leases[k] = l])
         /\ [store EXCEPT !.leases[k] = l].revision = store.revision
  <1> DEFINE T == [store EXCEPT !.leases[k] = l]
  <1>1. store \in Stores /\ store.revision \in Nat
    BY DEF PresenceInv, PresenceTypes, Stores
  <1>2. T \in Stores /\ T.revision = store.revision /\ T.entries = store.entries
    BY <1>1 DEF Stores
  <1> HIDE DEF T
  <1>3. Held(T) = Held(store)
    BY <1>1, <1>2, SameEntries
  <1>4. Succeeds(T)
    BY <1>1, <1>2, <1>3 DEF Succeeds, PresenceInv, HeldCounts
  <1> QED
    BY <1>2, <1>4 DEF T

\* An update gives a successor.
LEMMA UpdateSucceeds ==
  ASSUME PresenceInv, NEW i \in Mains, NEW rec \in Recs, NEW lag \in Int
  PROVE  Succeeds(StoreUpdate(store, i, rec, lag))
  <1>1. store \in Stores /\ store.revision \in Nat
    BY DEF PresenceInv, PresenceTypes, Stores
  <1>2. /\ StoreUpdate(store, i, rec, lag) \in Stores
        /\ StoreUpdate(store, i, rec, lag).revision = store.revision + 1
        /\ i \in Held(StoreUpdate(store, i, rec, lag))
    BY <1>1, UpdateFacts
  <1> HIDE DEF StoreUpdate
  <1> QED
    BY <1>1, <1>2 DEF Succeeds

\* Steps that leave sockets or reads alone.
LEMMA SameConn ==
  ASSUME PresenceInv
  PROVE  (UNCHANGED conn => Closes) /\ (UNCHANGED reads => ReadsKept)
         /\ \A c \in Calls : reads' = [reads EXCEPT ![c] = NoRead] => ReadsKept
  <1>1. UNCHANGED conn => Closes
    BY DEF PresenceInv, PresenceTypes, Closes
  <1>2. UNCHANGED reads => ReadsKept
    BY DEF PresenceInv, PresenceTypes, ReadsKept
  <1>3. NoRead \in [sid : Mains \cup {None}, rec : Records, lag : Int]
    BY DEF NoRead, Records
  <1>4. ASSUME NEW c \in Calls, reads' = [reads EXCEPT ![c] = NoRead]
        PROVE  ReadsKept
    BY <1>3, <1>4 DEF PresenceInv, PresenceTypes, ReadsKept
  <1> QED
    BY <1>1, <1>2, <1>4

\* An update keeps the invariant.
LEMMA UpdateFinishStep ==
  ASSUME PresenceInv, NEW c \in Calls, UpdateFinish(c)
  PROVE  PresenceInv'
  <1> DEFINE S == StoreUpdate(store, reads[c].sid, reads[c].rec, reads[c].lag)
  <1>1. reads[c].sid \in Mains /\ reads[c].rec \in Recs /\ reads[c].lag \in Int
    BY DEF UpdateFinish, PresenceInv, PresenceTypes
  <1>2. Succeeds(S)
    BY <1>1, UpdateSucceeds
  <1>3. Emit(S, StateOf(S, Held(S)), "handler") /\ Closes /\ ReadsKept
    BY SameConn DEF UpdateFinish
  <1> HIDE DEF S
  <1>4. Dropped(S, S) /\ Held(S) \in SUBSET Mains
    BY <1>2, DropDropped DEF Succeeds, Held
  <1> QED
    BY <1>2, <1>3, <1>4, EmitStep DEF Emitter

\* A clear keeps the invariant.
LEMMA ClearStep ==
  ASSUME PresenceInv, NEW i \in Mains, Clear(i)
  PROVE  PresenceInv'
  <1> DEFINE S == Without(store, {i})
  <1>1. Succeeds(S)
    BY WithoutSucceeds
  <1>2. Emit(DropIdle(S), StateOf(S, Held(S)), "handler") /\ Closes /\ ReadsKept
    BY SameConn DEF Clear
  <1> HIDE DEF S
  <1>3. Dropped(S, DropIdle(S)) /\ Held(S) \in SUBSET Mains
    BY <1>1, DropDropped DEF Succeeds, Held
  <1> QED
    BY <1>1, <1>2, <1>3, EmitStep DEF Emitter

\* A subscription keeps the invariant.
LEMMA SubscribeStep ==
  ASSUME PresenceInv, NEW k \in Companions, Subscribe(k)
  PROVE  PresenceInv'
  <1> DEFINE S == StoreSubscribe(store, k)
  <1>1. Succeeds(S)
    BY LeaseSucceeds, PresenceAssumption DEF StoreSubscribe
  <1>2. Emit(S, StateOf(S, Fresh(S)), "handler") /\ Closes /\ ReadsKept
    BY SameConn DEF Subscribe
  <1> HIDE DEF S
  <1>3. Dropped(S, S) /\ Fresh(S) \in SUBSET Mains /\ (Settled(S) => Fresh(S) = Held(S))
    BY <1>1, DropDropped DEF Succeeds, Held, Fresh, Settled
  <1> QED
    BY <1>1, <1>2, <1>3, EmitStep DEF Emitter

\* A failed subscription keeps the invariant.
LEMMA SubscribeFailStep ==
  ASSUME PresenceInv, NEW k \in Companions, SubscribeFail(k)
  PROVE  PresenceInv'
  <1> DEFINE S == [store EXCEPT !.leases[k] = 0]
  <1>1. Succeeds(S) /\ S.revision = store.revision
    BY LeaseSucceeds
  <1>2. Commit(DropIdle(S)) /\ Closes /\ ReadsKept /\ UNCHANGED <<waiting, seen, shown>>
    BY SameConn DEF SubscribeFail
  <1> HIDE DEF S
  <1>3. Dropped(S, DropIdle(S))
    BY <1>1, DropDropped DEF Succeeds
  <1> QED
    BY <1>1, <1>2, <1>3, CommitStep

\* A disconnect keeps the invariant.
LEMMA DisconnectStep ==
  ASSUME PresenceInv, NEW i \in Sockets, Disconnect(i)
  PROVE  PresenceInv'
  <1> DEFINE S == IF i \in Companions THEN [store EXCEPT !.leases[i] = 0] ELSE Without(store, {i})
  <1>1. Succeeds(S)
    BY WithoutSucceeds, LeaseSucceeds
  <1>2. Closes /\ ReadsKept
    <2>1. conn \in [Sockets -> {"new", "open", "closed"}] /\ conn' = [conn EXCEPT ![i] = "closed"]
      BY DEF Disconnect, PresenceInv, PresenceTypes
    <2>2. Closes
      BY <2>1 DEF Closes
    <2> QED
      BY <2>2, SameConn DEF Disconnect
  <1>3. \/ Emit(DropIdle(S), StateOf(S, Held(S)), "handler")
        \/ i \notin Held(store) /\ Commit(DropIdle(S)) /\ UNCHANGED <<waiting, seen, shown>>
    BY DEF Disconnect
  <1>4. i \notin Held(store) => S.revision = store.revision
    BY LeaseSucceeds DEF Without
  <1> HIDE DEF S
  <1>5. Dropped(S, DropIdle(S)) /\ Held(S) \in SUBSET Mains
    BY <1>1, DropDropped DEF Succeeds, Held
  <1>6. CASE Emit(DropIdle(S), StateOf(S, Held(S)), "handler")
    BY <1>1, <1>2, <1>5, <1>6, EmitStep DEF Emitter
  <1>7. CASE i \notin Held(store) /\ Commit(DropIdle(S)) /\ UNCHANGED <<waiting, seen, shown>>
    BY <1>1, <1>2, <1>4, <1>5, <1>7, CommitStep
  <1> QED
    BY <1>3, <1>6, <1>7

\* The expiry loop keeps the invariant.
LEMMA ExpireStep ==
  ASSUME PresenceInv, Expire
  PROVE  PresenceInv'
  <1> DEFINE S == Without(store, Held(store) \ Fresh(store))
  <1>1. Succeeds(S) /\ Succeeds(store)
    BY WithoutSucceeds, StoreSucceeds
  <1>2. Closes /\ ReadsKept
    BY SameConn DEF Expire
  <1>3. \/ Emit(DropIdle(S), StateOf(S, Held(S)), "loop")
        \/ Commit(DropIdle(store)) /\ UNCHANGED <<waiting, seen, shown>>
    BY DEF Expire
  <1> HIDE DEF S
  <1>4. Dropped(S, DropIdle(S)) /\ Held(S) \in SUBSET Mains /\ Dropped(store, DropIdle(store))
    BY <1>1, DropDropped DEF Succeeds, Held
  <1>5. CASE Emit(DropIdle(S), StateOf(S, Held(S)), "loop")
    BY <1>1, <1>2, <1>4, <1>5, EmitStep DEF Emitter
  <1>6. CASE Commit(DropIdle(store)) /\ UNCHANGED <<waiting, seen, shown>>
    BY <1>1, <1>2, <1>4, <1>6, CommitStep
  <1> QED
    BY <1>3, <1>5, <1>6

\* The send of the first waiting state keeps the invariant.
LEMMA EmitNextStep ==
  ASSUME PresenceInv, EmitNext
  PROVE  PresenceInv'
  <1> DEFINE st == Head(waiting).state
  <1>1. waiting # << >> /\ Send(store, st, Head(waiting).by) /\ waiting' = Tail(waiting) /\ Closes /\ ReadsKept
    BY SameConn DEF EmitNext
  <1>2. Succeeds(store) /\ Dropped(store, store)
    BY StoreSucceeds, DropDropped DEF Succeeds
  <1>3. Head(waiting) = waiting[1] /\ 1 \in 1..Len(waiting) /\ waiting \in Seq(Emissions)
    BY <1>1 DEF PresenceInv, PresenceTypes
  <1>4. waiting[1] \in Emissions
    BY <1>3, ElementOfSeq
  <1>5. st \in [active : Records, revision : Nat]
    BY <1>3, <1>4 DEF Emissions
  <1>6. clean # {} => Fits(st, store)
    BY <1>3 DEF PresenceInv, QueueFits
  <1> HIDE DEF st
  <1> QED
    BY <1>1, <1>2, <1>5, <1>6, SendStep

\* A new socket keeps the invariant.
LEMMA ConnectStep ==
  ASSUME PresenceInv, NEW i \in Sockets, Connect(i)
  PROVE  PresenceInv'
  <1>1. /\ conn[i] = "new" /\ conn' = [conn EXCEPT ![i] = "open"]
        /\ UNCHANGED <<store, reads, waiting, seen, shown>>
        /\ \/ clean' = clean
           \/ clean' = clean \cup {i} /\ i \in Companions /\ waiting = << >>
    BY DEF Connect
  <1>2. conn \in [Sockets -> {"new", "open", "closed"}] /\ clean \subseteq Companions
    BY DEF PresenceInv, PresenceTypes
  <1>3. PresenceTypes' /\ HeldCounts'
    BY <1>1, <1>2 DEF PresenceInv, PresenceTypes, HeldCounts, Held
  <1>4. NewAreBlank'
    BY <1>1, <1>2 DEF PresenceInv, NewAreBlank, Sockets
  <1>5. QueueFits'
    <2>1. QueueFits' <=> (clean' # {} => \A n \in 1..Len(waiting) : Fits(waiting[n].state, store))
      BY <1>1 DEF QueueFits, Fits, Settled, Held, Fresh, Active
    <2> QED
      BY <1>1, <2>1 DEF PresenceInv, QueueFits
  <1>6. Following'
    <2>1. Following' <=>
            \A k \in clean' : conn'[k] = "open" /\ seen[k] >= 0 =>
              /\ seen[k] <= store.revision
              /\ seen[k] = store.revision /\ Settled(store) => shown[k] = Active(store, Held(store))
              /\ seen[k] < store.revision => waiting # << >>
      BY <1>1 DEF Following, Settled, Held, Fresh, Active
    <2>2. ASSUME NEW k \in clean', conn'[k] = "open", seen[k] >= 0
          PROVE  k \in clean /\ conn[k] = "open"
      <3>1. k \in Sockets /\ k \in Companions
        BY <1>1, <1>2 DEF Sockets
      <3>2. k # i
        BY <1>1, <2>2, <3>1 DEF PresenceInv, NewAreBlank
      <3> QED
        BY <1>1, <1>2, <2>2, <3>1, <3>2
    <2> QED
      BY <2>1, <2>2 DEF PresenceInv, Following
  <1> QED
    BY <1>3, <1>4, <1>5, <1>6 DEF PresenceInv

\* Time moves every entry by the same amount: the active record stays.
LEMMA TickStep ==
  ASSUME PresenceInv, Tick
  PROVE  PresenceInv'
  <1> DEFINE new == [i \in Mains |-> IF i \in Held(store)
                                     THEN [store.entries[i] EXCEPT !.left = store.entries[i].left - 1]
                                     ELSE NoEntry]
             left == [k \in Companions |-> IF store.leases[k] > 0 THEN store.leases[k] - 1 ELSE 0]
             T == [store EXCEPT !.entries = new, !.leases = left]
  <1>1. store \in Stores
    BY DEF PresenceInv, PresenceTypes
  <1>2. store' = T /\ UNCHANGED <<conn, waiting, seen, shown, clean>>
    BY DEF Tick
  <1>3. /\ \A i \in Mains : store.entries[i] \in [rec : Records, left : Int]
        /\ NoEntry \in [rec : Records, left : Int] /\ store.leases \in [Companions -> Int]
    BY <1>1 DEF Stores, NoEntry, Records
  <1>4. \A i \in Mains : new[i] \in [rec : Records, left : Int]
    <2> SUFFICES ASSUME NEW i \in Mains
                 PROVE  new[i] \in [rec : Records, left : Int]
      OBVIOUS
    <2>1. store.entries[i].left \in Int
      BY <1>3
    <2> QED
      BY <1>3, <2>1
  <1>5. /\ \A i \in Held(store) : new[i].rec = store.entries[i].rec /\ new[i].left = store.entries[i].left - 1
        /\ \A i \in Mains \ Held(store) : new[i].rec = None
    BY <1>3 DEF Held, NoEntry
  <1>6. left \in [Companions -> Int]
    BY <1>3
  <1>7. new \in [Mains -> [rec : Records, left : Int]]
    BY <1>4
  <1> HIDE DEF new, left
  <1>8. T \in Stores /\ T.entries = new /\ T.revision = store.revision
    BY <1>1, <1>6, <1>7 DEF Stores
  <1> HIDE DEF T
  <1>9. Held(T) = Held(store)
    BY <1>5, <1>8 DEF Held
  <1>10. Active(T, Held(store)) = Active(store, Held(store))
    <2>1. Held(store) \in SUBSET Mains
      BY DEF Held
    <2> QED
      BY <1>1, <1>5, <1>8, <2>1, ActiveShift
  <1>11. Settled(T) => Settled(store)
    <2> SUFFICES ASSUME Settled(T), NEW i \in Held(store)
                 PROVE  store.entries[i].left > 0
      BY DEF Settled, Fresh
    <2>1. T.entries[i].left > 0
      BY <1>9 DEF Settled, Fresh
    <2>2. store.entries[i].left \in Int
      BY <1>3 DEF Held
    <2> QED
      BY <1>5, <1>8, <2>1, <2>2
  <1>12. ReadsKept
    <2>1. reads' = [c \in Calls |-> IF reads[c] = NoRead THEN NoRead ELSE [reads[c] EXCEPT !.lag = reads[c].lag + 1]]
      BY DEF Tick
    <2>2. /\ reads \in [Calls -> [sid : Mains \cup {None}, rec : Records, lag : Int]]
          /\ NoRead \in [sid : Mains \cup {None}, rec : Records, lag : Int]
      BY DEF PresenceInv, PresenceTypes, NoRead, Records
    <2>3. ASSUME NEW c \in Calls
          PROVE  /\ reads'[c] \in [sid : Mains \cup {None}, rec : Records, lag : Int]
                 /\ reads'[c] # NoRead => reads'[c].sid \in Mains /\ reads'[c].rec \in Recs
      <3>1. CASE reads[c] = NoRead
        BY <2>1, <2>2, <3>1
      <3>2. CASE reads[c] # NoRead
        <4>1. reads'[c] = [reads[c] EXCEPT !.lag = reads[c].lag + 1] /\ reads[c].lag + 1 \in Int
          BY <2>1, <2>2, <3>2
        <4>2. reads[c].sid \in Mains /\ reads[c].rec \in Recs
          BY <3>2 DEF PresenceInv, PresenceTypes
        <4> QED
          BY <2>2, <4>1, <4>2
      <3> QED
        BY <3>1, <3>2
    <2> QED
      BY <2>1, <2>3 DEF ReadsKept
  <1>13. PresenceTypes'
    BY <1>2, <1>8, <1>12 DEF PresenceInv, PresenceTypes, ReadsKept
  <1>14. HeldCounts'
    <2>1. HeldCounts' <=> (Held(T) # {} => T.revision > 0)
      BY <1>2 DEF HeldCounts, Held
    <2> QED
      BY <1>8, <1>9, <2>1 DEF PresenceInv, HeldCounts
  <1>15. NewAreBlank'
    BY <1>2 DEF PresenceInv, NewAreBlank
  <1>16. QueueFits'
    <2>1. QueueFits' <=> (clean # {} => \A n \in 1..Len(waiting) : Fits(waiting[n].state, T))
      BY <1>2 DEF QueueFits, Fits, Settled, Held, Fresh, Active
    <2>2. \A n \in 1..Len(waiting) : Fits(waiting[n].state, store) => Fits(waiting[n].state, T)
      BY <1>8, <1>9, <1>10, <1>11 DEF Fits
    <2> QED
      BY <2>1, <2>2 DEF PresenceInv, QueueFits
  <1>17. Following'
    <2>1. Following' <=>
            \A k \in clean : conn[k] = "open" /\ seen[k] >= 0 =>
              /\ seen[k] <= T.revision
              /\ seen[k] = T.revision /\ Settled(T) => shown[k] = Active(T, Held(T))
              /\ seen[k] < T.revision => waiting # << >>
      BY <1>2 DEF Following, Settled, Held, Fresh, Active
    <2> QED
      BY <1>8, <1>9, <1>10, <1>11, <2>1 DEF PresenceInv, Following
  <1> QED
    BY <1>13, <1>14, <1>15, <1>16, <1>17 DEF PresenceInv

\* Reads that start or end keep the invariant.
LEMMA FrameStep ==
  ASSUME PresenceInv, ReadsKept, UNCHANGED <<conn, store, waiting, seen, shown, clean>>
  PROVE  PresenceInv'
  <1>1. PresenceTypes' /\ HeldCounts' /\ NewAreBlank'
    BY DEF PresenceInv, PresenceTypes, ReadsKept, HeldCounts, NewAreBlank, Held
  <1>2. QueueFits' <=> QueueFits
    BY DEF QueueFits, Fits, Settled, Held, Fresh, Active
  <1>3. Following' <=> Following
    BY DEF Following, Settled, Held, Fresh, Active
  <1> QED
    BY <1>1, <1>2, <1>3 DEF PresenceInv

\* The invariant of the presence service, whatever windows and companions do.
THEOREM PresenceInductive == Spec => []PresenceInv
  <1>1. Init => PresenceInv
    <2> SUFFICES ASSUME Init
                 PROVE  PresenceInv
      OBVIOUS
    <2>1. store \in Stores /\ Held(store) = {}
      BY DEF Init, Stores, NoEntry, Records, Held
    <2>2. PresenceTypes
      BY <2>1 DEF Init, PresenceTypes, NoRead, Records, Sockets
    <2>3. HeldCounts /\ NewAreBlank /\ QueueFits /\ Following
      BY <2>1 DEF Init, HeldCounts, NewAreBlank, QueueFits, Following, Sockets
    <2> QED
      BY <2>2, <2>3 DEF PresenceInv
  <1>2. PresenceInv /\ [Next]_vars => PresenceInv'
    <2> SUFFICES ASSUME PresenceInv, [Next]_vars
                 PROVE  PresenceInv'
      OBVIOUS
    <2>1. ASSUME NEW i \in Sockets, Connect(i) \/ Disconnect(i)
          PROVE  PresenceInv'
      BY <2>1, ConnectStep, DisconnectStep
    <2>2. ASSUME NEW c \in Calls, NEW i \in Mains, NEW rec \in Recs, UpdateStart(c, i, rec)
          PROVE  PresenceInv'
      <3>1. ReadsKept
        BY <2>2 DEF UpdateStart, PresenceInv, PresenceTypes, ReadsKept, Records
      <3> QED
        BY <2>2, <3>1, FrameStep DEF UpdateStart
    <2>3. ASSUME NEW c \in Calls, UpdateFinish(c) \/ UpdateDenied(c)
          PROVE  PresenceInv'
      <3>1. CASE UpdateFinish(c)
        BY <3>1, UpdateFinishStep
      <3>2. CASE UpdateDenied(c)
        BY <3>2, FrameStep, SameConn DEF UpdateDenied
      <3> QED
        BY <2>3, <3>1, <3>2
    <2>4. ASSUME NEW i \in Mains, Clear(i)
          PROVE  PresenceInv'
      BY <2>4, ClearStep
    <2>5. ASSUME NEW k \in Companions, Subscribe(k) \/ SubscribeFail(k)
          PROVE  PresenceInv'
      BY <2>5, SubscribeStep, SubscribeFailStep
    <2>6. CASE Expire
      BY <2>6, ExpireStep
    <2>7. CASE EmitDone
      BY <2>7, FrameStep, SameConn DEF EmitDone
    <2>8. CASE EmitNext
      BY <2>8, EmitNextStep
    <2>9. CASE Tick
      BY <2>9, TickStep
    <2>10. CASE UNCHANGED vars
      BY <2>10, FrameStep, SameConn DEF vars
    <2> QED
      BY <2>1, <2>2, <2>3, <2>4, <2>5, <2>6, <2>7, <2>8, <2>9, <2>10 DEF Next
  <1> QED
    BY <1>1, <1>2, PTL DEF Spec

\* Once nothing waits to be sent or to expire, every companion connected since the
\* last reset of the counter shows the store's active record.
THEOREM CompanionsAgree == Spec => []QuietCompanionsAgree
  <1>1. PresenceInv => QuietCompanionsAgree
    <2> SUFFICES ASSUME PresenceInv, NEW k \in clean, Quiet, conn[k] = "open", seen[k] >= 0
                 PROVE  shown[k] = Active(store, Held(store))
      BY DEF QuietCompanionsAgree
    <2>1. /\ seen[k] <= store.revision
          /\ seen[k] = store.revision /\ Settled(store) => shown[k] = Active(store, Held(store))
          /\ seen[k] < store.revision => waiting # << >>
      BY DEF PresenceInv, Following
    <2>2. seen[k] \in Int /\ store.revision \in Nat
      BY DEF PresenceInv, PresenceTypes, Stores
    <2> QED
      BY <2>1, <2>2 DEF Quiet, Settled
  <1> QED
    BY <1>1, PresenceInductive, PTL

-----------------------------------------------------------------------------
\* The counter goes back only where no companion holds a lease.
LEMMA CommitKeeps ==
  ASSUME NEW S \in Stores, NEW T \in Stores, T.revision >= S.revision,
         store = S, store' = T \/ store' = DropIdle(T) \/ store' = DropIdle(DropIdle(T)),
         NEW k \in Companions, store'.leases[k] > 0
  PROVE  store'.revision >= store.revision
  <1>1. /\ DropIdle(T) \in Stores /\ DropIdle(T).leases = T.leases
        /\ (DropIdle(T).revision = T.revision \/ T.leases[k] = 0)
    BY DropFacts
  <1>2. /\ DropIdle(DropIdle(T)).leases = T.leases
        /\ (DropIdle(DropIdle(T)).revision = DropIdle(T).revision \/ T.leases[k] = 0)
    BY <1>1, DropFacts
  <1> QED
    BY <1>1, <1>2

\* An emission writes its store, perhaps without its idle user.
LEMMA EmitCommits ==
  ASSUME NEW D, NEW st, NEW by, Emit(D, st, by)
  PROVE  store' = D \/ store' = DropIdle(D)
  BY DEF Emit, Send, Commit

\* The revision counter never goes back while a companion keeps its lease.
THEOREM RevisionIsKept == Spec => LeaseKeepsRevision
  <1>1. PresenceInv /\ [Next]_vars =>
          [\A k \in Companions :
             store.leases[k] > 0 /\ store'.leases[k] > 0 => store'.revision >= store.revision]_vars
    <2> SUFFICES ASSUME PresenceInv, [Next]_vars, NEW k \in Companions, store'.leases[k] > 0
                 PROVE  store'.revision >= store.revision
      OBVIOUS
    <2>1. store \in Stores /\ store.revision \in Nat /\ store.revision >= store.revision
      BY DEF PresenceInv, PresenceTypes, Stores
    <2>2. \A T : Succeeds(T) => T \in Stores /\ T.revision >= store.revision
      BY DEF Succeeds
    <2>3. CASE UNCHANGED store
      BY <2>1, <2>3
    <2>4. ASSUME NEW T, Succeeds(T), store' = T \/ store' = DropIdle(T) \/ store' = DropIdle(DropIdle(T))
          PROVE  store'.revision >= store.revision
      BY <2>1, <2>2, <2>4, CommitKeeps
    <2>5. ASSUME NEW i \in Sockets, Connect(i) \/ Disconnect(i)
          PROVE  store'.revision >= store.revision
      <3>1. CASE Connect(i)
        BY <2>3, <3>1 DEF Connect
      <3>2. CASE Disconnect(i)
        <4> DEFINE S == IF i \in Companions THEN [store EXCEPT !.leases[i] = 0] ELSE Without(store, {i})
        <4>1. Succeeds(S)
          BY WithoutSucceeds, LeaseSucceeds
        <4>2. \/ Emit(DropIdle(S), StateOf(S, Held(S)), "handler")
              \/ Commit(DropIdle(S))
          BY <3>2 DEF Disconnect
        <4> HIDE DEF S
        <4>3. store' = DropIdle(S) \/ store' = DropIdle(DropIdle(S))
          BY <4>2, EmitCommits DEF Commit
        <4> QED
          BY <2>4, <4>1, <4>3
      <3> QED
        BY <2>5, <3>1, <3>2
    <2>6. ASSUME NEW c \in Calls, UpdateFinish(c)
          PROVE  store'.revision >= store.revision
      <3> DEFINE S == StoreUpdate(store, reads[c].sid, reads[c].rec, reads[c].lag)
      <3>1. reads[c].sid \in Mains /\ reads[c].rec \in Recs /\ reads[c].lag \in Int
        BY <2>6 DEF UpdateFinish, PresenceInv, PresenceTypes
      <3>2. Succeeds(S) /\ Emit(S, StateOf(S, Held(S)), "handler")
        BY <2>6, <3>1, UpdateSucceeds DEF UpdateFinish
      <3> HIDE DEF S
      <3> QED
        BY <2>4, <3>2, EmitCommits
    <2>7. ASSUME NEW i \in Mains, Clear(i)
          PROVE  store'.revision >= store.revision
      <3> DEFINE S == Without(store, {i})
      <3>1. Succeeds(S) /\ Emit(DropIdle(S), StateOf(S, Held(S)), "handler")
        BY <2>7, WithoutSucceeds DEF Clear
      <3> HIDE DEF S
      <3> QED
        BY <2>4, <3>1, EmitCommits
    <2>8. ASSUME NEW j \in Companions, Subscribe(j) \/ SubscribeFail(j)
          PROVE  store'.revision >= store.revision
      <3> DEFINE S(l) == [store EXCEPT !.leases[j] = l]
      <3>1. \A l \in Int : Succeeds(S(l))
        BY LeaseSucceeds
      <3>2. \/ Emit(S(TTL), StateOf(S(TTL), Fresh(S(TTL))), "handler")
            \/ Commit(DropIdle(S(0)))
        BY <2>8 DEF Subscribe, SubscribeFail, StoreSubscribe
      <3> HIDE DEF S
      <3>3. store' = S(TTL) \/ store' = DropIdle(S(TTL)) \/ store' = DropIdle(S(0))
        BY <3>2, EmitCommits DEF Commit
      <3>4. Succeeds(S(TTL)) /\ Succeeds(S(0))
        BY <3>1, PresenceAssumption
      <3> QED
        BY <2>4, <3>3, <3>4
    <2>9. CASE Expire
      <3> DEFINE S == Without(store, Held(store) \ Fresh(store))
      <3>1. Succeeds(S) /\ Succeeds(store)
        BY WithoutSucceeds, StoreSucceeds
      <3>2. Emit(DropIdle(S), StateOf(S, Held(S)), "loop") \/ Commit(DropIdle(store))
        BY <2>9 DEF Expire
      <3> HIDE DEF S
      <3>3. store' = DropIdle(S) \/ store' = DropIdle(DropIdle(S)) \/ store' = DropIdle(store)
        BY <3>2, EmitCommits DEF Commit
      <3> QED
        BY <2>4, <3>1, <3>3
    <2>10. CASE EmitNext
      <3>1. store' = DropIdle(store)
        BY <2>10 DEF EmitNext, Send, Commit
      <3> QED
        BY <2>4, <3>1, StoreSucceeds
    <2>11. CASE Tick
      BY <2>1, <2>11 DEF Tick, Stores
    <2> QED
      BY <2>3, <2>5, <2>6, <2>7, <2>8, <2>9, <2>10, <2>11
         DEF Next, UpdateStart, UpdateDenied, EmitDone, vars
  <1> QED
    BY <1>1, PresenceInductive, PTL DEF Spec, LeaseKeepsRevision

-----------------------------------------------------------------------------
(* The emissions over Redis *)

EmissionTypes ==
  /\ rev \in Nat /\ last \in Nat /\ last <= rev
  /\ key \in [by : Redis!Emitters \cup {Nobody}, left : Int]
  /\ em \in [Redis!Emitters -> [pc : {"idle", "waiting", "locked", "read", "emitted", "ended", "down"},
                                mine : Nat, seen : Nat, age : Nat]]
  /\ \A e \in Redis!Emitters : em[e].mine <= rev /\ em[e].seen <= rev

\* Whoever is in its section owns the key, which lives longer than the section takes.
KeyOwned(e) ==
  Redis!InSection(e) => key.by = e /\ key.left + em[e].age = LockTtl /\ em[e].age <= MaxHold

\* What it has read is as new as what was emitted last.
ReadIsLatest(e) == em[e].pc = "read" => em[e].seen >= last

EmissionInv == EmissionTypes /\ \A e \in Redis!Emitters : KeyOwned(e) /\ ReadIsLatest(e)

\* The newer of two revisions
LEMMA MaxOfTwo ==
  ASSUME NEW a \in Nat, NEW b \in Nat
  PROVE  Redis!Max({a, b}) \in {a, b} /\ Redis!Max({a, b}) >= a /\ Redis!Max({a, b}) >= b
  <1>1. \E x \in {a, b} : \A y \in {a, b} : x >= y
    <2>1. CASE a >= b
      BY <2>1
    <2>2. CASE b >= a
      BY <2>2
    <2> QED
      BY <2>1, <2>2
  <1>2. Redis!Max({a, b}) = CHOOSE x \in {a, b} : \A y \in {a, b} : x >= y
    BY DEF Redis!Max
  <1> QED
    BY <1>1, <1>2

\* An emitter that leaves the others alone and holds the key by itself
LEMMA OneEmits ==
  ASSUME EmissionInv, EmissionTypes', NEW e \in Redis!Emitters,
         \A f \in Redis!Emitters \ {e} : em'[f] = em[f],
         KeyOwned(e)', ReadIsLatest(e)',
         \A f \in Redis!Emitters \ {e} : Redis!InSection(f) => UNCHANGED <<key, last>>
  PROVE  EmissionInv'
  <1> SUFFICES ASSUME NEW f \in Redis!Emitters
               PROVE  KeyOwned(f)' /\ ReadIsLatest(f)'
    BY DEF EmissionInv, Redis!Emitters
  <1>1. CASE f = e
    BY <1>1
  <1>2. CASE f # e
    <2>1. em'[f] = em[f] /\ (Redis!InSection(f) => UNCHANGED <<key, last>>)
      BY <1>2
    <2> QED
      BY <2>1 DEF EmissionInv, KeyOwned, ReadIsLatest, Redis!InSection
  <1> QED
    BY <1>1, <1>2

\* Only the owner of the key is in its section.
LEMMA AloneInSection ==
  ASSUME EmissionInv, NEW e \in Redis!Emitters, Redis!InSection(e), NEW f \in Redis!Emitters, Redis!InSection(f)
  PROVE  f = e
  BY DEF EmissionInv, KeyOwned

\* An emitter begins to wait, gives up or is told the state.
LEMMA OutsideStep ==
  ASSUME EmissionInv, NEW e \in Redis!Emitters, NEW r, em' = [em EXCEPT ![e] = r],
         r \in [pc : {"idle", "waiting", "ended"}, mine : Nat, seen : Nat, age : Nat],
         rev' \in Nat, rev' >= rev, r.mine <= rev', r.seen <= rev', UNCHANGED <<key, last>>
  PROVE  EmissionInv'
  <1>1. em'[e] = r /\ \A f \in Redis!Emitters \ {e} : em'[f] = em[f]
    BY DEF EmissionInv, EmissionTypes
  <1>2. em' \in [Redis!Emitters -> [pc : {"idle", "waiting", "locked", "read", "emitted", "ended", "down"},
                                    mine : Nat, seen : Nat, age : Nat]]
    BY DEF EmissionInv, EmissionTypes
  <1>3. \A f \in Redis!Emitters : em'[f].mine <= rev' /\ em'[f].seen <= rev'
    <2> SUFFICES ASSUME NEW f \in Redis!Emitters
                 PROVE  em'[f].mine <= rev' /\ em'[f].seen <= rev'
      OBVIOUS
    <2>1. CASE f = e
      BY <1>1, <2>1
    <2>2. CASE f # e
      BY <1>1, <2>2 DEF EmissionInv, EmissionTypes
    <2> QED
      BY <2>1, <2>2
  <1>4. EmissionTypes'
    BY <1>2, <1>3 DEF EmissionInv, EmissionTypes, Redis!Emitters
  <1>5. KeyOwned(e)' /\ ReadIsLatest(e)'
    BY <1>1 DEF KeyOwned, ReadIsLatest, Redis!InSection
  <1> QED
    BY <1>1, <1>4, <1>5, OneEmits

\* An instance ends or starts.
LEMMA InstanceStep ==
  ASSUME EmissionInv, NEW n, NEW pc \in {"idle", "down"}, UNCHANGED <<rev, key, last>>,
         em' = [e \in Redis!Emitters |-> IF Node[e] = n THEN [pc |-> pc, mine |-> 0, seen |-> 0, age |-> 0] ELSE em[e]]
  PROVE  EmissionInv'
  <1>1. EmissionTypes'
    BY DEF EmissionInv, EmissionTypes, Redis!Emitters
  <1>2. ASSUME NEW f \in Redis!Emitters
        PROVE  KeyOwned(f)' /\ ReadIsLatest(f)'
    <2>1. CASE Node[f] = n
      BY <2>1 DEF KeyOwned, ReadIsLatest, Redis!InSection
    <2>2. CASE Node[f] # n
      <3>1. em'[f] = em[f]
        BY <2>2
      <3> QED
        BY <3>1 DEF EmissionInv, KeyOwned, ReadIsLatest, Redis!InSection
    <2> QED
      BY <2>1, <2>2
  <1> QED
    BY <1>1, <1>2 DEF EmissionInv, Redis!Emitters

\* An emission is over before the key expires.
LEMMA EmissionTick ==
  ASSUME Redis!EmissionAssumption, EmissionInv, Redis!Tick
  PROVE  EmissionInv'
  <1> DEFINE older(e) == [pc |-> em[e].pc, mine |-> em[e].mine, seen |-> em[e].seen, age |-> em[e].age + 1]
  <1>1. UNCHANGED <<rev, last>>
    BY DEF Redis!Tick
  <1>2. /\ LockTtl \in Nat /\ MaxHold \in Nat /\ MaxHold < LockTtl
        /\ key \in [by : Redis!Emitters \cup {Nobody}, left : Int]
        /\ em \in [Redis!Emitters -> [pc : {"idle", "waiting", "locked", "read", "emitted", "ended", "down"},
                                      mine : Nat, seen : Nat, age : Nat]]
    BY DEF EmissionInv, EmissionTypes, Redis!EmissionAssumption
  <1>3. ASSUME NEW f \in Redis!Emitters
        PROVE  em'[f] = IF em[f].pc = "waiting" \/ Redis!InSection(f) THEN older(f) ELSE em[f]
    <2>1. em'[f] = IF em[f].pc = "waiting" \/ Redis!InSection(f)
                   THEN [em[f] EXCEPT !.age = em[f].age + 1] ELSE em[f]
      BY DEF Redis!Tick
    <2>2. [em[f] EXCEPT !.age = em[f].age + 1] = older(f)
      BY <1>2
    <2> QED
      BY <2>1, <2>2
  <1>4. ASSUME NEW f \in Redis!Emitters
        PROVE  /\ em'[f] \in [pc : {"idle", "waiting", "locked", "read", "emitted", "ended", "down"},
                              mine : Nat, seen : Nat, age : Nat]
               /\ em'[f].pc = em[f].pc /\ em'[f].mine = em[f].mine /\ em'[f].seen = em[f].seen
               /\ Redis!InSection(f) => em'[f].age = em[f].age + 1
    <2>1. em[f] \in [pc : {"idle", "waiting", "locked", "read", "emitted", "ended", "down"},
                     mine : Nat, seen : Nat, age : Nat] /\ em[f].age + 1 \in Nat
      BY <1>2
    <2>2. CASE em[f].pc = "waiting" \/ Redis!InSection(f)
      <3>1. em'[f] = older(f)
        BY <1>3, <2>2
      <3> QED
        BY <2>1, <3>1
    <2>3. CASE ~(em[f].pc = "waiting" \/ Redis!InSection(f))
      <3>1. em'[f] = em[f]
        BY <1>3, <2>3
      <3> QED
        BY <2>1, <2>3, <3>1
    <2> QED
      BY <2>2, <2>3
  <1>5. key' = IF key.left = 1 THEN Redis!Free ELSE [key EXCEPT !.left = key.left - 1]
    BY DEF Redis!Tick
  <1>6. key # Redis!Free
    BY DEF Redis!Tick
  <1>7. DOMAIN em' = Redis!Emitters
    BY DEF Redis!Tick
  <1>8. em' = [f \in Redis!Emitters |-> em'[f]]
    BY DEF Redis!Tick
  <1> HIDE DEF older
  <1>9. em' \in [Redis!Emitters -> [pc : {"idle", "waiting", "locked", "read", "emitted", "ended", "down"},
                                    mine : Nat, seen : Nat, age : Nat]]
    BY <1>4, <1>8
  <1>10. \A f \in Redis!Emitters : em'[f].mine <= rev' /\ em'[f].seen <= rev'
    BY <1>1, <1>4 DEF EmissionInv, EmissionTypes
  <1>11. ASSUME NEW f \in Redis!Emitters
         PROVE  KeyOwned(f)' /\ ReadIsLatest(f)'
    <2>1. ReadIsLatest(f)'
      BY <1>1, <1>4 DEF EmissionInv, ReadIsLatest
    <2>2. Redis!InSection(f)' <=> Redis!InSection(f)
      BY <1>4 DEF Redis!InSection
    <2>3. ASSUME Redis!InSection(f)
          PROVE  key'.by = f /\ key'.left + em'[f].age = LockTtl /\ em'[f].age <= MaxHold
      <3>1. em[f].age < MaxHold /\ em[f].age \in Nat
        BY <1>2, <2>3 DEF Redis!Tick
      <3>2. key.by = f /\ key.left + em[f].age = LockTtl /\ key.left \in Nat
        BY <1>2, <2>3 DEF EmissionInv, KeyOwned
      <3>3. key' = [key EXCEPT !.left = key.left - 1] /\ key.left > 1
        BY <1>2, <1>5, <3>1, <3>2
      <3>4. key'.by = f /\ key'.left = key.left - 1
        BY <1>2, <3>2, <3>3
      <3>5. em'[f].age = em[f].age + 1
        BY <1>4, <2>3
      <3>6. LockTtl \in Nat /\ MaxHold \in Nat
        BY <1>2
      <3>7. em'[f].age <= MaxHold
        BY <3>1, <3>5, <3>6
      <3>8. key'.left + em'[f].age = LockTtl
        BY <3>1, <3>2, <3>4, <3>5, <3>6
      <3> QED
        BY <3>4, <3>7, <3>8
    <2> QED
      BY <2>1, <2>2, <2>3 DEF KeyOwned
  <1>12. key' \in [by : Redis!Emitters \cup {Nobody}, left : Int]
    <2>1. CASE key.left = 1
      BY <1>5, <2>1 DEF Redis!Free
    <2>2. CASE key.left # 1
      <3>1. key.left - 1 \in Int /\ key' = [key EXCEPT !.left = key.left - 1]
        BY <1>2, <1>5, <2>2
      <3> QED
        BY <1>2, <3>1
    <2> QED
      BY <2>1, <2>2
  <1> QED
    BY <1>1, <1>9, <1>10, <1>11, <1>12 DEF EmissionInv, EmissionTypes, Redis!Emitters

\* The steps under the lock keep the invariant.
LEMMA SectionStep ==
  ASSUME Redis!EmissionAssumption, EmissionInv, NEW e \in Redis!Emitters,
         Redis!Acquire(e) \/ Redis!ReadState(e) \/ Redis!Emit(e) \/ Redis!Release(e)
  PROVE  EmissionInv'
  <1> DEFINE Pcs == {"idle", "waiting", "locked", "read", "emitted", "ended", "down"}
             Ems == [pc : Pcs, mine : Nat, seen : Nat, age : Nat]
  <1>1. /\ em \in [Redis!Emitters -> Ems] /\ rev \in Nat /\ last \in Nat /\ last <= rev
        /\ key \in [by : Redis!Emitters \cup {Nobody}, left : Int] /\ UNCHANGED rev
        /\ LockTtl \in Nat /\ MaxHold \in Nat
    BY DEF EmissionInv, EmissionTypes, Redis!EmissionAssumption, Redis!Acquire, Redis!ReadState,
           Redis!Emit, Redis!Release
  <1>2. em[e] \in Ems /\ em[e].mine <= rev /\ em[e].seen <= rev /\ KeyOwned(e) /\ ReadIsLatest(e)
    BY <1>1 DEF EmissionInv, EmissionTypes
  <1> HIDE DEF Ems
  <1>3. ASSUME NEW r \in Ems, em' = [em EXCEPT ![e] = r], r.mine <= rev, r.seen <= rev,
               last' \in Nat, last' <= rev, key' \in [by : Redis!Emitters \cup {Nobody}, left : Int]
        PROVE  EmissionTypes' /\ em'[e] = r /\ \A f \in Redis!Emitters \ {e} : em'[f] = em[f]
    <2>1. em'[e] = r /\ (\A f \in Redis!Emitters \ {e} : em'[f] = em[f]) /\ em' \in [Redis!Emitters -> Ems]
      BY <1>1, <1>3
    <2>2. \A f \in Redis!Emitters : em'[f].mine <= rev' /\ em'[f].seen <= rev'
      BY <1>1, <1>3, <2>1 DEF EmissionInv, EmissionTypes
    <2> QED
      BY <1>1, <1>3, <2>1, <2>2 DEF EmissionTypes, Ems, Redis!Emitters
  <1>4. CASE Redis!Acquire(e)
    <2> DEFINE r == [em[e] EXCEPT !.pc = "locked", !.age = 0]
    <2>1. /\ em' = [em EXCEPT ![e] = r] /\ key' = [by |-> e, left |-> LockTtl] /\ UNCHANGED last
          /\ key.by = Nobody
      BY <1>1, <1>4 DEF Redis!Acquire, Redis!IsFree
    <2>2. r \in Ems /\ r.mine = em[e].mine /\ r.seen = em[e].seen /\ r.pc = "locked" /\ r.age = 0
      BY <1>2 DEF Ems
    <2> HIDE DEF r
    <2>0. /\ r.mine <= rev /\ r.seen <= rev /\ last' \in Nat /\ last' <= rev
          /\ key' \in [by : Redis!Emitters \cup {Nobody}, left : Int]
      BY <1>1, <1>2, <2>1, <2>2
    <2>3. EmissionTypes' /\ em'[e] = r /\ \A f \in Redis!Emitters \ {e} : em'[f] = em[f]
      BY <1>3, <2>0, <2>1, <2>2
    <2>4. KeyOwned(e)' /\ ReadIsLatest(e)'
      BY <1>1, <2>1, <2>2, <2>3 DEF KeyOwned, ReadIsLatest
    <2>5. \A f \in Redis!Emitters : ~Redis!InSection(f)
      BY <2>1 DEF EmissionInv, KeyOwned, Redis!EmissionAssumption
    <2> QED
      BY <2>3, <2>4, <2>5, OneEmits
  <1>5. CASE Redis!ReadState(e)
    <2> DEFINE r == [em[e] EXCEPT !.pc = "read", !.seen = rev]
    <2>1. em' = [em EXCEPT ![e] = r] /\ UNCHANGED <<key, last>> /\ em[e].pc = "locked"
      BY <1>1, <1>5 DEF Redis!ReadState
    <2>2. r \in Ems /\ r.mine = em[e].mine /\ r.seen = rev /\ r.pc = "read" /\ r.age = em[e].age
      BY <1>1, <1>2 DEF Ems
    <2> HIDE DEF r
    <2>0. /\ r.mine <= rev /\ r.seen <= rev /\ last' \in Nat /\ last' <= rev
          /\ key' \in [by : Redis!Emitters \cup {Nobody}, left : Int]
      BY <1>1, <1>2, <2>1, <2>2
    <2>3. EmissionTypes' /\ em'[e] = r /\ \A f \in Redis!Emitters \ {e} : em'[f] = em[f]
      BY <1>3, <2>0, <2>1, <2>2
    <2>4. Redis!InSection(e)
      BY <2>1 DEF Redis!InSection
    <2>5. KeyOwned(e)' /\ ReadIsLatest(e)'
      BY <1>1, <1>2, <2>1, <2>2, <2>3, <2>4 DEF KeyOwned, ReadIsLatest
    <2> QED
      BY <2>1, <2>3, <2>5, OneEmits
  <1>6. CASE Redis!Emit(e)
    <2> DEFINE r == [em[e] EXCEPT !.pc = "emitted"]
    <2>1. /\ em' = [em EXCEPT ![e] = r] /\ UNCHANGED key /\ em[e].pc = "read"
          /\ last' = Redis!Max({em[e].mine, em[e].seen})
      BY <1>1, <1>6 DEF Redis!Emit
    <2>2. r \in Ems /\ r.mine = em[e].mine /\ r.seen = em[e].seen /\ r.pc = "emitted" /\ r.age = em[e].age
      BY <1>1, <1>2 DEF Ems
    <2> HIDE DEF r
    <2>3. em[e].mine \in Nat /\ em[e].seen \in Nat
      BY <1>2 DEF Ems
    <2>4. last' \in Nat /\ last' <= rev
      BY <1>2, <2>1, <2>3, MaxOfTwo
    <2>5. EmissionTypes' /\ em'[e] = r /\ \A f \in Redis!Emitters \ {e} : em'[f] = em[f]
      BY <1>1, <1>2, <1>3, <2>1, <2>2, <2>4
    <2>6. Redis!InSection(e)
      BY <2>1 DEF Redis!InSection
    <2>7. KeyOwned(e)' /\ ReadIsLatest(e)'
      BY <1>1, <1>2, <2>1, <2>2, <2>5, <2>6 DEF KeyOwned, ReadIsLatest
    <2>8. \A f \in Redis!Emitters \ {e} : ~Redis!InSection(f)
      BY <2>6, AloneInSection
    <2> QED
      BY <2>5, <2>7, <2>8, OneEmits
  <1>7. CASE Redis!Release(e)
    <2> DEFINE r == Redis!Idle
    <2>1. /\ em' = [em EXCEPT ![e] = r] /\ UNCHANGED last /\ em[e].pc = "emitted"
          /\ key' = IF key.by = e THEN Redis!Free ELSE key
      BY <1>1, <1>7 DEF Redis!Release
    <2>2. r \in Ems /\ r.mine = 0 /\ r.seen = 0 /\ r.pc = "idle"
      BY DEF Ems, Redis!Idle
    <2>3. key' \in [by : Redis!Emitters \cup {Nobody}, left : Int]
      BY <1>1, <2>1 DEF Redis!Free
    <2> HIDE DEF r
    <2>0. r.mine <= rev /\ r.seen <= rev /\ last' \in Nat /\ last' <= rev
      BY <1>1, <2>1, <2>2
    <2>4. EmissionTypes' /\ em'[e] = r /\ \A f \in Redis!Emitters \ {e} : em'[f] = em[f]
      BY <1>3, <2>0, <2>1, <2>2, <2>3
    <2>5. KeyOwned(e)' /\ ReadIsLatest(e)'
      BY <2>2, <2>4 DEF KeyOwned, ReadIsLatest, Redis!InSection
    <2>6. Redis!InSection(e)
      BY <2>1 DEF Redis!InSection
    <2>7. \A f \in Redis!Emitters \ {e} : ~Redis!InSection(f)
      BY <2>6, AloneInSection
    <2> QED
      BY <2>4, <2>5, <2>7, OneEmits
  <1> QED
    BY <1>4, <1>5, <1>6, <1>7

\* A handler that changed the store keeps the invariant.
LEMMA ChangedStep ==
  ASSUME EmissionInv, NEW e \in Redis!Emitters, NEW becomes, Redis!Changed(e, becomes)
  PROVE  EmissionInv'
  <1> DEFINE r == [pc |-> "waiting", mine |-> rev + 1, seen |-> 0, age |-> 0]
  <1>1. rev \in Nat
    BY DEF EmissionInv, EmissionTypes
  <1>2. em' = [em EXCEPT ![e] = r] /\ rev' = rev + 1 /\ UNCHANGED <<key, last>>
    BY DEF Redis!Changed
  <1>3. /\ r \in [pc : {"idle", "waiting", "ended"}, mine : Nat, seen : Nat, age : Nat]
        /\ r.mine = rev + 1 /\ r.seen = 0
    BY <1>1
  <1> HIDE DEF r
  <1>4. rev' \in Nat /\ rev' >= rev /\ r.mine <= rev' /\ r.seen <= rev'
    BY <1>1, <1>2, <1>3
  <1> QED
    BY <1>2, <1>3, <1>4, OutsideStep

\* The invariant of the emission over Redis: the key's owner alone is in the section,
\* and what it read is the latest state.
THEOREM EmissionInductive == Redis!EmissionAssumption /\ Redis!Spec => []EmissionInv
  <1> SUFFICES ASSUME Redis!EmissionAssumption
               PROVE  Redis!Spec => []EmissionInv
    OBVIOUS
  <1>1. Redis!Init => EmissionInv
    BY DEF Redis!Init, Redis!Idle, Redis!Free, EmissionInv, EmissionTypes, KeyOwned, ReadIsLatest, Redis!InSection
  <1>2. EmissionInv /\ [Redis!Next]_(Redis!vars) => EmissionInv'
    <2> SUFFICES ASSUME EmissionInv, [Redis!Next]_(Redis!vars)
                 PROVE  EmissionInv'
      OBVIOUS
    <2>1. ASSUME NEW h \in Handlers, Redis!Update(h) \/ Redis!Clear(h) \/ Redis!Subscribe(h)
          PROVE  EmissionInv'
      <3>1. h \in Redis!Emitters /\ rev \in Nat
        BY DEF Redis!Emitters, EmissionInv, EmissionTypes
      <3>2. CASE Redis!Update(h) \/ Redis!Clear(h)
        BY <3>1, <3>2, ChangedStep DEF Redis!Update, Redis!Clear
      <3>3. CASE Redis!Subscribe(h)
        <4> DEFINE r == [pc |-> "waiting", mine |-> rev, seen |-> 0, age |-> 0]
        <4>1. em' = [em EXCEPT ![h] = r] /\ UNCHANGED <<rev, key, last>>
          BY <3>3 DEF Redis!Subscribe
        <4>2. /\ r \in [pc : {"idle", "waiting", "ended"}, mine : Nat, seen : Nat, age : Nat]
              /\ r.mine = rev /\ r.seen = 0
          BY <3>1
        <4> HIDE DEF r
        <4>3. rev' \in Nat /\ rev' >= rev /\ r.mine <= rev' /\ r.seen <= rev'
          BY <3>1, <4>1, <4>2
        <4> QED
          BY <3>1, <4>1, <4>2, <4>3, OutsideStep
      <3> QED
        BY <2>1, <3>2, <3>3
    <2>2. ASSUME NEW l \in Loops, Redis!Expire(l)
          PROVE  EmissionInv'
      <3>1. l \in Redis!Emitters
        BY DEF Redis!Emitters
      <3> QED
        BY <2>2, <3>1, ChangedStep DEF Redis!Expire
    <2>3. ASSUME NEW e \in Redis!Emitters, Redis!EmissionStep(e)
          PROVE  EmissionInv'
      <3>1. CASE Redis!TimeOut(e)
        <4> DEFINE r == [pc |-> IF e \in Loops THEN "ended" ELSE "idle", mine |-> 0, seen |-> 0, age |-> 0]
        <4>1. [Redis!Idle EXCEPT !.pc = IF e \in Loops THEN "ended" ELSE "idle"] = r
          BY DEF Redis!Idle
        <4>2. em' = [em EXCEPT ![e] = r] /\ UNCHANGED <<rev, key, last>>
          BY <3>1, <4>1 DEF Redis!TimeOut
        <4>3. /\ r \in [pc : {"idle", "waiting", "ended"}, mine : Nat, seen : Nat, age : Nat]
              /\ r.mine = 0 /\ r.seen = 0
          OBVIOUS
        <4> HIDE DEF r
        <4>4. rev' \in Nat /\ rev' >= rev /\ r.mine <= rev' /\ r.seen <= rev'
          BY <4>2, <4>3 DEF EmissionInv, EmissionTypes
        <4> QED
          BY <4>2, <4>3, <4>4, OutsideStep
      <3> QED
        BY <2>3, <3>1, SectionStep DEF Redis!EmissionStep
    <2>4. ASSUME NEW e \in Redis!Emitters, Redis!Crash(Node[e]) \/ Redis!Restart(Node[e])
          PROVE  EmissionInv'
      <3>1. [Redis!Idle EXCEPT !.pc = "down"] = [pc |-> "down", mine |-> 0, seen |-> 0, age |-> 0]
        BY DEF Redis!Idle
      <3>2. CASE Redis!Crash(Node[e])
        BY <3>1, <3>2, InstanceStep DEF Redis!Crash
      <3>3. CASE Redis!Restart(Node[e])
        BY <3>3, InstanceStep DEF Redis!Restart, Redis!Idle
      <3> QED
        BY <2>4, <3>2, <3>3
    <2>5. CASE Redis!GoStale \/ UNCHANGED Redis!vars
      BY <2>5 DEF Redis!GoStale, Redis!vars, EmissionInv, EmissionTypes, KeyOwned, ReadIsLatest,
                  Redis!InSection, Redis!Emitters
    <2>6. CASE Redis!Tick
      BY <2>6, EmissionTick
    <2> QED
      BY <2>1, <2>2, <2>3, <2>4, <2>5, <2>6 DEF Redis!Next
  <1> QED
    BY <1>1, <1>2, PTL DEF Redis!Spec

\* Whichever instances crash, time out or wait for each other, the room never sees an
\* older state after a newer one.
THEOREM StatesAreEmittedInOrder == Redis!EmissionAssumption /\ Redis!Spec => EmittedInOrder
  <1> SUFFICES ASSUME Redis!EmissionAssumption
               PROVE  Redis!Spec => EmittedInOrder
    OBVIOUS
  <1>1. EmissionInv /\ [Redis!Next]_(Redis!vars) => [last' >= last]_(Redis!vars)
    <2> SUFFICES ASSUME EmissionInv, Redis!Next
                 PROVE  last' >= last
      OBVIOUS
    <2>1. last \in Nat
      BY DEF EmissionInv, EmissionTypes
    <2>2. ASSUME NEW e \in Redis!Emitters, Redis!Emit(e)
          PROVE  last' >= last
      <3>1. em[e].mine \in Nat /\ em[e].seen \in Nat
        BY DEF EmissionInv, EmissionTypes
      <3>2. em[e].seen >= last /\ last' = Redis!Max({em[e].mine, em[e].seen})
        BY <2>2 DEF Redis!Emit, EmissionInv, ReadIsLatest
      <3>3. last' \in Nat /\ last' >= em[e].seen
        BY <3>1, <3>2, MaxOfTwo
      <3> QED
        BY <2>1, <3>1, <3>2, <3>3
    <2>3. ASSUME UNCHANGED last
          PROVE  last' >= last
      BY <2>1, <2>3
    <2>4. ASSUME NEW h \in Handlers, Redis!Update(h) \/ Redis!Clear(h) \/ Redis!Subscribe(h)
          PROVE  UNCHANGED last
      BY <2>4 DEF Redis!Update, Redis!Clear, Redis!Changed, Redis!Subscribe
    <2>5. ASSUME NEW l \in Loops, Redis!Expire(l)
          PROVE  UNCHANGED last
      BY <2>5 DEF Redis!Expire, Redis!Changed
    <2>6. ASSUME NEW e \in Redis!Emitters, Redis!EmissionStep(e)
          PROVE  last' >= last
      <3>1. Redis!Emit(e) \/ UNCHANGED last
        BY <2>6 DEF Redis!EmissionStep, Redis!Acquire, Redis!TimeOut, Redis!ReadState, Redis!Release
      <3> QED
        BY <2>2, <2>3, <3>1
    <2>7. ASSUME NEW e \in Redis!Emitters, Redis!Crash(Node[e]) \/ Redis!Restart(Node[e])
          PROVE  UNCHANGED last
      BY <2>7 DEF Redis!Crash, Redis!Restart
    <2>8. ASSUME Redis!GoStale \/ Redis!Tick
          PROVE  UNCHANGED last
      BY <2>8 DEF Redis!GoStale, Redis!Tick
    <2> QED
      BY <2>3, <2>4, <2>5, <2>6, <2>7, <2>8 DEF Redis!Next
  <1> QED
    BY <1>1, EmissionInductive, PTL DEF Redis!Spec, EmittedInOrder, Redis!EmittedInOrder

===============================================================================
