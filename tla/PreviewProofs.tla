---------------------------- MODULE PreviewProofs ----------------------------
(***************************************************************************)
(* Proofs about the preview worker, for every number of slots and keys.    *)
(***************************************************************************)
EXTENDS PreviewWorker, FiniteSetTheorems, WellFoundedInduction, TLAPS

\* The fetch under way is for a slot.
FetchInv == worker = "fetching" => job.slot \in Slots

\* The inductive invariant.
Inv == TypeOK /\ FetchInv /\ NoRequestIsLost /\ DataIsForKey

----------------------------------------------------------------------------
(* The slot that a preview gets                                            *)

\* Among some slots there is one for which a number is least.
LEMMA LeastSlot ==
    ASSUME NEW S \in SUBSET Slots, S # {}, NEW f \in [Slots -> Nat]
    PROVE  \E i \in S : \A j \in S : f[i] <= f[j]
  <1> DEFINE T == {1 .. f[i] : i \in S}
  <1>1. T # {} /\ T \subseteq FiniteSubsetsOf(Nat)
    <2>1. ASSUME NEW i \in S
          PROVE  1 .. f[i] \in FiniteSubsetsOf(Nat)
      <3>1. f[i] \in Nat
        OBVIOUS
      <3>2. IsFiniteSet(1 .. f[i])
        BY <3>1, FS_Interval
      <3>3. 1 .. f[i] \in SUBSET Nat
        BY <3>1
      <3> QED
        BY <3>2, <3>3 DEF FiniteSubsetsOf
    <2> QED
      BY <2>1
  <1>2. PICK x \in T : \A y \in T : ~(<<y, x>> \in StrictSubsetOrdering(Nat))
    <2> HIDE DEF T
    <2> QED
      BY <1>1, FS_StrictSubsetOrderingWellFounded, WFMin
  <1>3. PICK i \in S : x = 1 .. f[i]
    OBVIOUS
  <1>4. ASSUME NEW j \in S, f[j] < f[i]
        PROVE  FALSE
    <2>1. 1 .. f[j] \in T
      OBVIOUS
    <2>2. f[i] \in Nat /\ f[j] \in Nat
      OBVIOUS
    <2>3. f[i] \in 1 .. f[i] /\ f[i] \notin 1 .. f[j] /\ 1 .. f[j] \subseteq 1 .. f[i]
      BY <1>4, <2>2
    <2>4. 1 .. f[j] \in SUBSET Nat /\ 1 .. f[i] \in SUBSET Nat
      BY <2>2
    <2> QED
      BY <1>2, <1>3, <2>1, <2>3, <2>4 DEF StrictSubsetOrdering
  <1> QED
    BY <1>3, <1>4

\* The first and the last of some slots are among them.
LEMMA MinAndMaxOfSlots ==
    ASSUME NEW S \in SUBSET Slots, S # {}
    PROVE  Min(S) \in S /\ Max(S) \in S
  <1>1. SlotCount \in Nat /\ Slots \subseteq Nat
    BY SlotAssumption DEF Slots
  <1>2. PICK i \in S : \A j \in S : i <= j
    <2> DEFINE f == [k \in Slots |-> k]
    <2>1. f \in [Slots -> Nat] /\ \A k \in Slots : f[k] = k
      BY <1>1
    <2> HIDE DEF f
    <2>2. PICK i \in S : \A j \in S : f[i] <= f[j]
      BY <2>1, LeastSlot
    <2> QED
      BY <2>1, <2>2
  <1>3. PICK m \in S : \A j \in S : m >= j
    <2> DEFINE f == [k \in Slots |-> SlotCount - k]
    <2>1. f \in [Slots -> Nat] /\ \A k \in Slots : f[k] = SlotCount - k
      BY <1>1 DEF Slots
    <2> HIDE DEF f
    <2>2. PICK l \in S : \A j \in S : f[l] <= f[j]
      BY <2>1, LeastSlot
    <2>3. \A j \in S : SlotCount - l <= SlotCount - j /\ j \in Nat
      BY <1>1, <2>1, <2>2
    <2>4. l \in Nat
      BY <1>1
    <2>5. \A j \in S : l >= j
      BY <1>1, <2>3, <2>4
    <2> QED
      BY <2>5
  <1> QED
    BY <1>2, <1>3 DEF Min, Max

\* A key gets a slot: one that holds it, or if none does, the oldest.
LEMMA SlotForIsASlot ==
    ASSUME TypeOK, NEW key
    PROVE  /\ SlotFor(key) \in Slots
           /\ Holding(key) # {} => SlotFor(key) \in Holding(key)
  <1>1. Holding(key) \in SUBSET Slots /\ Unused \in SUBSET Slots
    BY DEF Holding, Unused
  <1>2. Oldest \in Slots
    <2>1. PICK f \in [Slots -> Nat] : f = [i \in Slots |-> slots[i].when]
      BY DEF TypeOK, Slot
    <2>2. PICK S \in SUBSET Slots :
            S = {i \in Slots : \A j \in Slots : slots[i].when <= slots[j].when}
      OBVIOUS
    <2>3. S # {}
      <3>1. Slots # {}
        BY SlotAssumption DEF Slots
      <3>2. PICK i \in Slots : \A j \in Slots : f[i] <= f[j]
        BY <3>1, LeastSlot
      <3> QED
        BY <2>1, <2>2, <3>2
    <2>4. Oldest = IF Unused # {} THEN Max(Unused) ELSE Min(S)
      BY <2>2 DEF Oldest
    <2> QED
      BY <1>1, <2>3, <2>4, MinAndMaxOfSlots
  <1> QED
    BY <1>1, <1>2, MinAndMaxOfSlots DEF SlotFor

----------------------------------------------------------------------------
(* The two threads                                                         *)

SameData(s, t) == s.used = t.used /\ s.key = t.key /\ s.data = t.data

\* Setting the pending flag of a slot leaves the rest of it as it was.
LEMMA PendingSet ==
    ASSUME NEW s \in [Slots -> Slot], NEW i \in Slots, NEW b \in BOOLEAN,
           NEW n, n = [s EXCEPT ![i].pending = b]
    PROVE  /\ n \in [Slots -> Slot] /\ n[i].pending = b /\ SameData(n[i], s[i])
           /\ \A j \in Slots \ {i} : n[j] = s[j]
  <1>1. PICK r : r = [s[i] EXCEPT !.pending = b]
    OBVIOUS
  <1>2. r \in Slot /\ r.pending = b /\ SameData(r, s[i])
    <2>1. s[i] \in Slot
      OBVIOUS
    <2> QED
      BY <1>1, <2>1 DEF Slot, SameData
  <1>3. n = [s EXCEPT ![i] = r]
    BY <1>1
  <1> QED
    BY <1>2, <1>3

\* The head of the worker's loop: a wanted slot that it takes is in flight.
LEMMA LoopTakes ==
    ASSUME Loop, want \in Slots \cup {NoSlot}, slots' \in [Slots -> Slot],
           job \in [slot : Slots \cup {NoSlot}, key : Keys, provider : 1 .. MaxProviders],
           pvGeo \in 1 .. MaxProviders
    PROVE  /\ worker' \in {"gone", "waiting", "fetching"}
           /\ busy' = (worker' = "fetching")
           /\ want' \in Slots \cup {NoSlot}
           /\ job' \in [slot : Slots \cup {NoSlot}, key : Keys,
                        provider : 1 .. MaxProviders]
           /\ worker' # "fetching" => want' = want
           /\ worker' = "fetching" => /\ want \in Slots /\ want' = NoSlot
                                      /\ job'.slot = want
                                      /\ job'.key = slots'[want].key
  <1>1. CASE stop \/ want = NoSlot
    BY <1>1 DEF Loop
  <1>2. CASE ~stop /\ want # NoSlot
    <2>1. want \in Slots /\ slots'[want] \in Slot
      BY <1>2
    <2>2. slots'[want].key \in Keys
      BY <2>1 DEF Slot
    <2>3. /\ worker' = "fetching" /\ busy' = TRUE /\ want' = NoSlot
          /\ job' = [slot |-> want, key |-> slots'[want].key, provider |-> pvGeo]
      BY <1>2 DEF Loop
    <2>4. PICK k \in Keys : k = slots'[want].key
      BY <2>2
    <2>5. job' = [slot |-> want, key |-> k, provider |-> pvGeo]
      BY <2>3, <2>4
    <2>6. job' \in [slot : Slots \cup {NoSlot}, key : Keys, provider : 1 .. MaxProviders]
      BY <2>1, <2>5
    <2>7. job'.slot = want /\ job'.key = slots'[want].key
      BY <2>4, <2>5
    <2>8. busy' = (worker' = "fetching")
      BY <2>3
    <2> QED
      BY <2>1, <2>3, <2>6, <2>7, <2>8
  <1> QED
    BY <1>1, <1>2

\* Starting, or woken up: the slots stay, and a wanted one is taken out.
LEMMA WorkerStartsStays ==
    ASSUME Inv, WorkerStarts
    PROVE  Inv'
  <1>1. /\ UNCHANGED <<slots, stop, pvGeo, now, ui, visible, provider>>
        /\ worker = "ready" /\ Loop
    BY DEF WorkerStarts, user
  <1>2. TypeOK
    BY DEF Inv
  <1>3. /\ worker' \in {"gone", "waiting", "fetching"}
        /\ busy' = (worker' = "fetching")
        /\ want' \in Slots \cup {NoSlot}
        /\ job' \in [slot : Slots \cup {NoSlot}, key : Keys, provider : 1 .. MaxProviders]
        /\ worker' # "fetching" => want' = want
        /\ worker' = "fetching" => /\ want \in Slots /\ want' = NoSlot
                                   /\ job'.slot = want /\ job'.key = slots'[want].key
    BY <1>1, <1>2, LoopTakes DEF TypeOK
  <1>4. TypeOK'
    BY <1>1, <1>2, <1>3 DEF TypeOK
  <1>5. FetchInv' /\ DataIsForKey'
    BY <1>1, <1>3 DEF FetchInv, DataIsForKey, Inv
  <1>6. NoRequestIsLost'
    BY <1>1, <1>3 DEF NoRequestIsLost, InFlight, Inv
  <1> QED
    BY <1>4, <1>5, <1>6 DEF Inv

\* A fetch ends: its slot takes the result if it still holds the key, and is no
\* longer pending; if it holds another key, it is wanted.
LEMMA FetchedStays ==
    ASSUME Inv, NEW ok \in BOOLEAN, Fetched(ok)
    PROVE  Inv'
  <1> DEFINE j == job.slot
  <1>1. /\ UNCHANGED <<stop, pvGeo, ui, visible, provider>>
        /\ worker = "fetching" /\ now' = now + 1 /\ Loop
    BY DEF Fetched, user
  <1>2. /\ TypeOK /\ j \in Slots /\ now \in Nat
        /\ slots \in [Slots -> Slot] /\ slots[j] \in Slot
        /\ job.key \in Keys /\ job.provider \in 0 .. MaxProviders
    BY <1>1 DEF Inv, FetchInv, TypeOK
  <1>3. /\ slots' \in [Slots -> Slot]
        /\ \A i \in Slots : /\ slots'[i].used = slots[i].used
                            /\ slots'[i].key = slots[i].key
                            /\ i # j \/ ~Accepts => slots'[i] = slots[i]
        /\ Accepts => /\ ~slots'[j].pending
                      /\ slots'[j].data.ok => \/ slots'[j].data.key = job.key
                                              \/ slots'[j].data = slots[j].data
    <2>1. CASE ~Accepts
      BY <1>2, <2>1 DEF Fetched
    <2>2. CASE Accepts
      <3>1. PICK d : d = IF ok THEN [key |-> job.key, ok |-> TRUE,
                                     provider |-> job.provider]
                         ELSE slots[j].data
        OBVIOUS
      <3>2. d \in Data /\ (d.key = job.key \/ d = slots[j].data)
        BY <1>2, <3>1 DEF Slot, Data
      <3>3. PICK r : r = [slots[j] EXCEPT !.pending = FALSE, !.old = FALSE,
                                          !.when = now + 1, !.data = d]
        OBVIOUS
      <3>4. /\ r \in Slot /\ ~r.pending /\ r.data = d
            /\ r.used = slots[j].used /\ r.key = slots[j].key
        <4>1. PICK w \in Nat : w = now + 1
          BY <1>2
        <4>2. r = [used |-> slots[j].used, key |-> slots[j].key, pending |-> FALSE,
                   old |-> FALSE, when |-> w, data |-> d]
          BY <1>2, <3>3, <4>1 DEF Slot
        <4>3. slots[j].used \in BOOLEAN /\ slots[j].key \in Keys
          BY <1>2 DEF Slot
        <4> QED
          BY <3>2, <4>2, <4>3 DEF Slot
      <3>5. slots' = [slots EXCEPT ![j] = r]
        BY <1>2, <2>2, <3>1, <3>3 DEF Fetched
      <3> QED
        BY <1>2, <2>2, <3>2, <3>4, <3>5
    <2> QED
      BY <2>1, <2>2
  <1>4. /\ worker' \in {"gone", "waiting", "fetching"}
        /\ busy' = (worker' = "fetching")
        /\ want' \in Slots \cup {NoSlot}
        /\ job' \in [slot : Slots \cup {NoSlot}, key : Keys, provider : 1 .. MaxProviders]
        /\ worker' # "fetching" => want' = want
        /\ worker' = "fetching" => /\ want \in Slots /\ want' = NoSlot
                                   /\ job'.slot = want /\ job'.key = slots'[want].key
    BY <1>1, <1>2, <1>3, LoopTakes DEF TypeOK
  <1>5. TypeOK'
    BY <1>1, <1>2, <1>3, <1>4 DEF TypeOK
  <1>6. FetchInv'
    BY <1>4 DEF FetchInv
  <1>7. DataIsForKey'
    BY <1>3 DEF DataIsForKey, Inv, Accepts
  <1>8. NoRequestIsLost'
    <2> SUFFICES ASSUME NEW i \in Slots, slots'[i].used, slots'[i].pending
                 PROVE  want' = i \/ InFlight(i)'
      BY DEF NoRequestIsLost
    <2>1. want = i
      <3>1. slots[i].used /\ slots[i].pending /\ ~(i = j /\ Accepts)
        BY <1>3
      <3>2. ~InFlight(i)
        BY <3>1 DEF InFlight, Accepts
      <3> QED
        BY <3>1, <3>2 DEF Inv, NoRequestIsLost
    <2> QED
      BY <1>4, <2>1 DEF InFlight
  <1> QED
    BY <1>5, <1>6, <1>7, <1>8 DEF Inv

\* The slot a key is given when no slot holds it, or no key at the start.
LEMMA ClearedSlot ==
    ASSUME NEW used \in BOOLEAN, NEW key \in Keys
    PROVE  /\ Cleared(used, key) \in Slot
           /\ Cleared(used, key).pending = FALSE /\ Cleared(used, key).when = 0
           /\ Cleared(used, key).used = used /\ Cleared(used, key).data.ok = FALSE
  <1>1. NoData \in Data /\ NoData.ok = FALSE
    BY BoundsAssumption DEF NoData, Data, Keys
  <1>2. PICK d \in Data : d = NoData
    BY <1>1
  <1> QED
    BY <1>1, <1>2 DEF Slot, Cleared

\* What preview_get does to the slots: one slot may be given to the key, its
\* flag set, and the one wanted before is put back.
LEMMA PreviewGetDoes ==
    ASSUME TypeOK, NEW key \in Keys, NEW force \in BOOLEAN, PreviewGet(key, force)
    PROVE  \E i \in Slots, found \in [Slots -> Slot] :
             /\ \A k \in Slots \ {i} : found[k] = slots[k]
             /\ \/ found[i] = slots[i]
                \/ found[i].pending = FALSE /\ found[i].data.ok = FALSE /\ want' = i
             /\ \/ slots' = found /\ want' = want /\ worker' = worker
                \/ /\ slots' \in [Slots -> Slot]
                   /\ want' = i /\ Signal
                   /\ \A k \in Slots : SameData(slots'[k], found[k])
                   /\ \A k \in Slots \ {i} :
                        slots'[k].pending => found[k].pending /\ k # want
  <1>1. PICK i \in Slots : /\ i = SlotFor(key)
                           /\ Holding(key) # {} => i \in Holding(key)
    BY SlotForIsASlot
  <1> DEFINE isNew == Holding(key) = {}
             fresh == Cleared(TRUE, key)
  <1>2. SlotCount \in Nat
    BY SlotAssumption
  <1>3. /\ fresh \in Slot /\ fresh.pending = FALSE /\ fresh.when = 0
        /\ fresh.data.ok = FALSE
    BY ClearedSlot
  <1>4. slots \in [Slots -> Slot] /\ want \in Slots \cup {NoSlot}
    BY DEF TypeOK
  <1>5. PICK found \in [Slots -> Slot] :
          found = IF isNew THEN [slots EXCEPT ![i] = fresh] ELSE slots
    BY <1>3, <1>4
  <1>6. PICK queued \in Slots \cup {NoSlot} :
          queued = IF isNew /\ want = i THEN NoSlot ELSE want
    BY <1>4
  <1>7. PICK stale : stale = (found[i].when = 0 \/ found[i].old)
    OBVIOUS
  <1>8. IF (force \/ stale) /\ ~(found[i].pending /\ ~force)
        THEN /\ slots' = [Unqueue(found, i, queued) EXCEPT ![i].pending = TRUE]
             /\ want' = i
             /\ Signal
        ELSE slots' = found /\ want' = queued /\ worker' = worker
    BY <1>1, <1>5, <1>6, <1>7 DEF PreviewGet
  <1> HIDE DEF isNew, fresh
  <1>9. /\ \A k \in Slots \ {i} : found[k] = slots[k]
        /\ isNew => found[i] = fresh
        /\ ~isNew => found[i] = slots[i]
    BY <1>4, <1>5
  <1>10. CASE (force \/ stale) /\ ~(found[i].pending /\ ~force)
    <2>1. PICK put \in [Slots -> Slot] :
            /\ put = Unqueue(found, i, queued)
            /\ \A k \in Slots : SameData(put[k], found[k])
            /\ \A k \in Slots \ {i} : put[k].pending => found[k].pending /\ k # want
      <3>1. CASE queued # NoSlot /\ queued # i
        <4>1. PICK b \in BOOLEAN : b = FALSE
          OBVIOUS
        <4>2. PICK n : n = [found EXCEPT ![queued].pending = b]
          OBVIOUS
        <4>3. queued \in Slots /\ queued = want
          BY <1>6, <3>1
        <4>4. /\ n \in [Slots -> Slot] /\ n[queued].pending = b
              /\ SameData(n[queued], found[queued])
              /\ \A k \in Slots \ {queued} : n[k] = found[k]
          BY <4>1, <4>2, <4>3, PendingSet
        <4>5. n = Unqueue(found, i, queued)
          BY <3>1, <4>1, <4>2 DEF Unqueue
        <4> QED
          BY <4>1, <4>2, <4>3, <4>4, <4>5 DEF SameData
      <3>2. CASE ~(queued # NoSlot /\ queued # i)
        <4>1. found = Unqueue(found, i, queued)
          BY <3>2 DEF Unqueue
        <4>2. \A k \in Slots \ {i} : k # want
          BY <1>2, <1>6, <3>2 DEF NoSlot, Slots
        <4> QED
          BY <4>1, <4>2 DEF SameData
      <3> QED
        BY <3>1, <3>2
    <2>2. slots' = [put EXCEPT ![i].pending = TRUE] /\ want' = i /\ Signal
      BY <1>8, <1>10, <2>1
    <2>3. /\ slots' \in [Slots -> Slot] /\ SameData(slots'[i], put[i])
          /\ \A k \in Slots \ {i} : slots'[k] = put[k]
      <3>1. PICK b \in BOOLEAN : b = TRUE
        OBVIOUS
      <3>2. slots' = [put EXCEPT ![i].pending = b]
        BY <2>2, <3>1
      <3> QED
        BY <3>2, PendingSet
    <2>4. /\ \A k \in Slots : SameData(slots'[k], found[k])
          /\ \A k \in Slots \ {i} : slots'[k].pending => found[k].pending /\ k # want
      BY <2>1, <2>3 DEF SameData
    <2> WITNESS i \in Slots, found \in [Slots -> Slot]
    <2> QED
      BY <1>3, <1>9, <2>2, <2>3, <2>4
  <1>11. CASE ~((force \/ stale) /\ ~(found[i].pending /\ ~force))
    <2>1. ~isNew
      BY <1>3, <1>7, <1>9, <1>11
    <2> QED
      BY <1>6, <1>8, <1>9, <1>11, <2>1
  <1> QED
    BY <1>10, <1>11

\* Looking at a preview, with or without asking for a new one.
LEMMA PreviewGetStays ==
    ASSUME Inv, NEW key \in Keys, NEW force \in BOOLEAN, PreviewGet(key, force),
           UNCHANGED <<ui, visible, provider>>
    PROVE  Inv'
  <1>1. TypeOK /\ slots \in [Slots -> Slot] /\ SlotCount \in Nat
    BY SlotAssumption DEF Inv, TypeOK
  <1>2. pvGeo' = provider /\ UNCHANGED <<busy, stop, job, now>>
    BY DEF PreviewGet
  <1>3. PICK i \in Slots, found \in [Slots -> Slot] :
          /\ \A k \in Slots \ {i} : found[k] = slots[k]
          /\ \/ found[i] = slots[i]
             \/ found[i].pending = FALSE /\ found[i].data.ok = FALSE /\ want' = i
          /\ \/ slots' = found /\ want' = want /\ worker' = worker
             \/ /\ slots' \in [Slots -> Slot]
                /\ want' = i /\ Signal
                /\ \A k \in Slots : SameData(slots'[k], found[k])
                /\ \A k \in Slots \ {i} :
                     slots'[k].pending => found[k].pending /\ k # want
    BY <1>1, PreviewGetDoes
  <1>4. /\ worker' \in {"ready", "waiting", "fetching", "gone"}
        /\ worker' = "fetching" <=> worker = "fetching"
    BY <1>1, <1>3 DEF Signal, TypeOK
  <1>5. /\ slots' \in [Slots -> Slot] /\ want' \in Slots \cup {NoSlot}
        /\ \A k \in Slots : SameData(slots'[k], found[k])
    BY <1>1, <1>3 DEF TypeOK, SameData
  <1>6. TypeOK'
    BY <1>1, <1>2, <1>4, <1>5 DEF TypeOK
  <1>7. FetchInv'
    BY <1>2, <1>4 DEF Inv, FetchInv
  <1>8. DataIsForKey'
    <2> SUFFICES ASSUME NEW k \in Slots, slots'[k].used, slots'[k].data.ok
                 PROVE  slots'[k].data.key = slots'[k].key
      BY DEF DataIsForKey
    <2>1. found[k].used /\ found[k].data.ok /\ SameData(slots'[k], found[k])
      BY <1>5 DEF SameData
    <2>2. found[k] = slots[k]
      BY <1>3, <2>1
    <2> QED
      BY <2>1, <2>2 DEF Inv, DataIsForKey, SameData
  <1>9. NoRequestIsLost'
    <2> SUFFICES ASSUME NEW k \in Slots, slots'[k].used, slots'[k].pending, want' # k
                 PROVE  InFlight(k)'
      BY DEF NoRequestIsLost
    <2>1. /\ found[k].used /\ found[k].pending /\ want # k
          /\ SameData(slots'[k], found[k])
      <3>1. found[k].pending /\ want # k
        BY <1>3
      <3>2. SameData(slots'[k], found[k])
        BY <1>5
      <3> QED
        BY <3>1, <3>2 DEF SameData
    <2>2. found[k] = slots[k]
      BY <1>3, <2>1
    <2>3. InFlight(k)
      BY <2>1, <2>2 DEF Inv, NoRequestIsLost
    <2> QED
      BY <1>2, <1>4, <2>1, <2>2, <2>3 DEF InFlight, SameData
  <1> QED
    BY <1>6, <1>7, <1>8, <1>9 DEF Inv

\* What else the user and time do.
LEMMA OtherStepsStay ==
    ASSUME Inv,
           \/ ChangeProvider \/ Quit \/ Join
           \/ \E key \in Keys : Move(key)
           \/ \E i \in Slots : Expire(i)
    PROVE  Inv'
  <1>1. TypeOK /\ slots \in [Slots -> Slot]
    BY DEF Inv, TypeOK
  <1>2. UNCHANGED <<want, busy, pvGeo, job, now>>
    BY DEF ChangeProvider, Quit, Join, Move, Expire, pv, thread
  <1>3. /\ worker' \in {"ready", "waiting", "fetching", "gone"}
        /\ worker' = "fetching" <=> worker = "fetching"
    BY <1>1 DEF ChangeProvider, Quit, Join, Move, Expire, pv, thread, Signal, TypeOK
  <1>4. /\ slots' \in [Slots -> Slot]
        /\ \A k \in Slots : /\ slots'[k].used => slots[k].used
                            /\ slots'[k].key = slots[k].key
                            /\ slots'[k].pending = slots[k].pending
                            /\ slots'[k].data = slots[k].data
    <2>1. CASE slots' = slots
      BY <1>1, <2>1
    <2>2. CASE ChangeProvider
      <3>1. ASSUME NEW s \in Slot
            PROVE  LET t == [s EXCEPT !.used = FALSE] IN
                   /\ t \in Slot /\ ~t.used /\ t.key = s.key
                   /\ t.pending = s.pending /\ t.data = s.data
        BY DEF Slot
      <3>2. /\ slots' \in [Slots -> Slot]
            /\ \A k \in Slots : \/ slots'[k] = slots[k]
                                \/ slots'[k] = [slots[k] EXCEPT !.used = FALSE]
        BY <1>1, <2>2, <3>1 DEF ChangeProvider
      <3> QED
        BY <1>1, <3>1, <3>2
    <2>3. ASSUME NEW i \in Slots, Expire(i)
          PROVE  /\ slots' \in [Slots -> Slot]
                 /\ \A k \in Slots : /\ slots'[k].used => slots[k].used
                                     /\ slots'[k].key = slots[k].key
                                     /\ slots'[k].pending = slots[k].pending
                                     /\ slots'[k].data = slots[k].data
      <3>1. PICK r : r = [slots[i] EXCEPT !.old = TRUE]
        OBVIOUS
      <3>2. /\ r \in Slot /\ r.used = slots[i].used /\ r.key = slots[i].key
            /\ r.pending = slots[i].pending /\ r.data = slots[i].data
        <4>1. slots[i] \in Slot
          BY <1>1
        <4> QED
          BY <3>1, <4>1 DEF Slot
      <3>3. slots' = [slots EXCEPT ![i] = r]
        BY <2>3, <3>1 DEF Expire
      <3> QED
        BY <1>1, <3>2, <3>3
    <2> QED
      BY <2>1, <2>2, <2>3 DEF Quit, Join, Move, pv
  <1>5. /\ stop' \in BOOLEAN /\ ui' \in {"running", "joining", "exited"}
        /\ visible' \in Keys /\ provider' \in 1 .. MaxProviders
    <2>1. stop' \in BOOLEAN /\ ui' \in {"running", "joining", "exited"}
      BY <1>1 DEF ChangeProvider, Quit, Join, Move, Expire, pv, TypeOK
    <2>2. visible' \in Keys
      BY <1>1 DEF ChangeProvider, Quit, Join, Move, Expire, TypeOK
    <2>3. \/ provider' = provider
          \/ provider < MaxProviders /\ provider' = provider + 1
      BY DEF ChangeProvider, Quit, Join, Move, Expire
    <2>4. provider' \in 1 .. MaxProviders
      BY <1>1, <2>3, BoundsAssumption DEF TypeOK
    <2> QED
      BY <2>1, <2>2, <2>4
  <1>6. TypeOK'
    BY <1>1, <1>2, <1>3, <1>4, <1>5 DEF TypeOK
  <1>7. FetchInv' /\ DataIsForKey'
    BY <1>2, <1>3, <1>4 DEF Inv, FetchInv, DataIsForKey
  <1>8. NoRequestIsLost'
    BY <1>2, <1>3, <1>4 DEF Inv, NoRequestIsLost, InFlight
  <1> QED
    BY <1>6, <1>7, <1>8 DEF Inv

\* Every slot is unused at the start.
LEMMA InitIsRight == Init => Inv
  <1> SUFFICES ASSUME Init PROVE Inv
    OBVIOUS
  <1>1. PICK s \in Slot : s = Cleared(FALSE, GeoKey) /\ s.used = FALSE
    BY ClearedSlot DEF Keys
  <1>2. slots = [i \in Slots |-> s] /\ slots \in [Slots -> Slot]
    BY <1>1 DEF Init
  <1>3. TypeOK
    <2>1. provider \in 1 .. MaxProviders /\ pvGeo \in 1 .. MaxProviders
      BY BoundsAssumption DEF Init
    <2>2. job \in [slot : Slots \cup {NoSlot}, key : Keys, provider : 1 .. MaxProviders]
      BY BoundsAssumption DEF Init, Keys
    <2>3. busy = (worker = "fetching")
      BY DEF Init
    <2> QED
      BY <1>2, <2>1, <2>2, <2>3 DEF Init, TypeOK
  <1>4. FetchInv /\ NoRequestIsLost /\ DataIsForKey
    BY <1>1, <1>2 DEF Init, FetchInv, NoRequestIsLost, DataIsForKey
  <1> QED
    BY <1>3, <1>4 DEF Inv

\* The invariant holds in every reachable state.
LEMMA InvIsInvariant == Spec => []Inv
  <1>1. Inv /\ [Next]_vars => Inv'
    <2> SUFFICES ASSUME Inv, [Next]_vars PROVE Inv'
      OBVIOUS
    <2>1. CASE UNCHANGED vars
      BY <2>1 DEF vars, pv, thread, user, Inv, TypeOK, FetchInv, NoRequestIsLost,
                  InFlight, DataIsForKey
    <2>2. CASE Draw \/ Refresh
      <3>1. visible \in Keys
        BY DEF Inv, TypeOK
      <3> QED
        BY <2>2, <3>1, PreviewGetStays DEF Draw, Refresh, user
    <2>3. CASE WorkerStep
      BY <2>3, WorkerStartsStays, FetchedStays DEF WorkerStep
    <2> QED
      BY <2>1, <2>2, <2>3, OtherStepsStay DEF Next
  <1> QED
    BY InitIsRight, <1>1, PTL DEF Spec

\* Type correctness; busy says exactly that a fetch is under way.
THEOREM TypeCorrect == Spec => []TypeOK
  BY InvIsInvariant, PTL DEF Inv

\* However slots are given away, refreshed and forgotten while the worker
\* fetches, no preview waits for a fetch that nobody is going to make.
THEOREM RequestsAreKept == Spec => []NoRequestIsLost
  BY InvIsInvariant, PTL DEF Inv

\* A result that comes late never ends up under another location.
THEOREM DataIsOfTheKey == Spec => []DataIsForKey
  BY InvIsInvariant, PTL DEF Inv
=============================================================================
