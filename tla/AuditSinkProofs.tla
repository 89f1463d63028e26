--------------------------- MODULE AuditSinkProofs ---------------------------
(***************************************************************************)
(* Proofs about AuditSink, for any number of goroutines, subjects and      *)
(* events and any limits of the buffer and of a batch.                     *)
(***************************************************************************)
EXTENDS AuditSink, FiniteSetTheorems, TLAPS

-----------------------------------------------------------------------------
(* Facts about the helpers.                                                *)

\* The numbers up to b are b.
LEMMA UpTo == \A b \in Nat : IsFiniteSet(1..b) /\ Cardinality(1..b) = b
  BY FS_Interval

\* Oldest takes at most n events, at least one if there is one, and none that
\* is younger than one it leaves.
LEMMA OldestFirst ==
    ASSUME NEW S, IsFiniteSet(S), \A i \in S : i \in Nat, NEW n \in Nat \ {0}
    PROVE  /\ Oldest(S, n) \subseteq S
           /\ Cardinality(Oldest(S, n)) <= n
           /\ S # {} => Oldest(S, n) # {}
           /\ \A i \in Oldest(S, n), j \in S \ Oldest(S, n) : i < j
<1> DEFINE Before(i) == {j \in S : j < i}
           rank == [i \in S |-> Cardinality(Before(i))]
<1>1. Oldest(S, n) \subseteq S
  BY DEF Oldest
<1>2. \A i \in S : /\ IsFiniteSet(Before(i)) /\ Cardinality(Before(i)) \in Nat
                   /\ Cardinality(Before(i)) < Cardinality(S)
  <2>1. ASSUME NEW i \in S
        PROVE  IsFiniteSet(Before(i)) /\ Cardinality(Before(i)) \in Nat
    BY FS_Subset, FS_CardinalityType
  <2>2. ASSUME NEW i \in S PROVE Cardinality(Before(i)) < Cardinality(S)
    <3>1. Before(i) \subseteq S /\ i \notin Before(i)
      OBVIOUS
    <3>2. Cardinality(S) \in Nat
      BY FS_CardinalityType
    <3>3. Before(i) # S
      BY <3>1
    <3> QED
      BY <2>1, <3>1, <3>2, <3>3, FS_Subset
  <2> QED
    BY <2>1, <2>2
<1>3. ASSUME NEW i \in S, NEW k \in S, i < k
      PROVE  Cardinality(Before(i)) < Cardinality(Before(k))
  <2>1. Before(i) \subseteq Before(k)
    BY <1>3
  <2>2. i \in Before(k) /\ i \notin Before(i)
    BY <1>3
  <2>3. Before(k) # Before(i)
    BY <2>2, Zenon
  <2>4. IsFiniteSet(Before(k))
    BY <1>2
  <2> HIDE DEF Before
  <2>5. /\ Cardinality(Before(i)) <= Cardinality(Before(k))
        /\ Cardinality(Before(i)) # Cardinality(Before(k))
    BY <2>1, <2>3, <2>4, FS_Subset
  <2>6. Cardinality(Before(i)) \in Nat /\ Cardinality(Before(k)) \in Nat
    BY <1>2
  <2> QED
    BY <2>5, <2>6
<1>4. ASSUME NEW i \in S, NEW k \in S, rank[i] = rank[k] PROVE i = k
  <2>1. Cardinality(Before(i)) = Cardinality(Before(k)) /\ i \in Nat /\ k \in Nat
    BY <1>4
  <2>2. Cardinality(Before(i)) \in Nat
    BY <1>2
  <2>3. ~(i < k) /\ ~(k < i)
    BY <1>3, <2>1, <2>2
  <2> QED
    BY <2>1, <2>3
<1>5. Cardinality(Oldest(S, n)) <= n
  <2> DEFINE f == [i \in Oldest(S, n) |-> Cardinality(Before(i))]
  <2>1. \A i \in Oldest(S, n) : f[i] \in 0..(n - 1) /\ f[i] = rank[i]
    BY <1>1, <1>2 DEF Oldest
  <2>2. f \in Injection(Oldest(S, n), 0..(n - 1))
    <3>1. f \in [Oldest(S, n) -> 0..(n - 1)]
      BY <2>1
    <3> HIDE DEF f, rank
    <3> QED
      BY <1>1, <1>4, <2>1, <3>1 DEF Injection, IsInjective
  <2>3. IsFiniteSet(0..(n - 1)) /\ Cardinality(0..(n - 1)) = n
    BY FS_Interval
  <2> HIDE DEF f
  <2> QED
    BY <2>2, <2>3, FS_Injection
\* If no event came first, the ranks of the events would be too few.
<1>6. ASSUME S # {} PROVE Oldest(S, n) # {}
  <2> DEFINE c == Cardinality(S)
  <2>1. SUFFICES ASSUME \A i \in S : rank[i] # 0 PROVE FALSE
    BY DEF Oldest
  <2>2. c \in Nat /\ c # 0
    BY <1>6, FS_CardinalityType, FS_EmptySet
  <2>3. \A i \in S : rank[i] \in 1..(c - 1)
    BY <1>2, <2>1, <2>2, SMTT(20)
  <2>4. rank \in Injection(S, 1..(c - 1))
    <3>1. rank \in [S -> 1..(c - 1)]
      BY <2>3
    <3> HIDE DEF rank
    <3> QED
      BY <1>4, <3>1 DEF Injection, IsInjective
  <2>5. IsFiniteSet(1..(c - 1)) /\ Cardinality(1..(c - 1)) = c - 1
    <3>1. c - 1 \in Nat
      BY <2>2
    <3> QED
      BY <3>1, UpTo
  <2> HIDE DEF rank
  <2>6. c <= c - 1
    BY <2>4, <2>5, FS_Injection
  <2> QED
    BY <2>2, <2>6
<1>7. ASSUME NEW i \in Oldest(S, n), NEW j \in S \ Oldest(S, n)
      PROVE  i < j
  <2>1. Cardinality(Before(i)) < n /\ ~(Cardinality(Before(j)) < n)
    BY DEF Oldest
  <2>2. i \in S /\ i \in Nat /\ j \in Nat
    BY <1>1
  <2>3. CASE j < i
    BY <1>2, <1>3, <2>1, <2>2, <2>3
  <2>4. CASE j = i
    BY <2>4
  <2> QED
    BY <2>2, <2>3, <2>4
<1> QED
  BY <1>1, <1>5, <1>6, <1>7

\* No events have no bytes.
LEMMA NoBytes == \A evs : Bytes({}, evs) = {} /\ SizeOf({}, evs) = 0
  BY FS_EmptySet DEF Bytes, SizeOf

\* One more event adds its own bytes to those of the others.
LEMMA BytesAdd ==
    ASSUME NEW evs \in Seq(Events), NEW e \in Events,
           NEW S \in SUBSET (1..Len(evs)), IsFiniteSet(Bytes(S, evs))
    PROVE  LET n == Len(evs) + 1
               grown == Append(evs, e)
           IN  /\ Bytes(S, grown) = Bytes(S, evs)
               /\ IsFiniteSet(Bytes(S \cup {n}, grown))
               /\ SizeOf(S \cup {n}, grown) = SizeOf(S, evs) + e.size
<1> DEFINE n == Len(evs) + 1
           grown == Append(evs, e)
           new == {n} \X (1..e.size)
<1>1. e.size \in Nat
  BY SinkAssumption DEF Events
<1>2. grown[n] = e /\ \A i \in S : grown[i] = evs[i] /\ i # n
  OBVIOUS
<1>3. Bytes(S, grown) = Bytes(S, evs)
  BY <1>2 DEF Bytes
<1>4. Bytes(S \cup {n}, grown) = Bytes(S, grown) \cup new
  BY <1>2 DEF Bytes
<1>5. Bytes(S, grown) \cap new = {}
  BY <1>2 DEF Bytes
<1>6. IsFiniteSet(new) /\ Cardinality(new) = e.size
  <2>1. IsFiniteSet(1..e.size) /\ Cardinality(1..e.size) = e.size
    BY <1>1, UpTo
  <2>2. IsFiniteSet({n}) /\ Cardinality({n}) = 1
    BY FS_Singleton
  <2> DEFINE one == {n}
             upTo == 1..e.size
  <2> HIDE DEF one, upTo
  <2>3. IsFiniteSet(new) /\ Cardinality(new) = 1 * e.size
    <3>1. IsFiniteSet(one) /\ IsFiniteSet(upTo)
      BY <2>1, <2>2 DEF one, upTo
    <3>2. IsFiniteSet(one \X upTo) /\ Cardinality(one \X upTo) = Cardinality(one) * Cardinality(upTo)
      BY <3>1, FS_Product
    <3> QED
      BY <2>1, <2>2, <3>2 DEF one, upTo
  <2> QED
    BY <1>1, <2>3
<1>7. Cardinality(Bytes(S, evs)) \in Nat
  BY FS_CardinalityType
<1>8. /\ IsFiniteSet(Bytes(S, evs) \cup new)
      /\ Cardinality(Bytes(S, evs) \cup new) = Cardinality(Bytes(S, evs)) + e.size
  <2> HIDE DEF new
  <2>1. Cardinality(Bytes(S, evs) \cap new) = 0
    BY <1>3, <1>5, FS_EmptySet
  <2>2. /\ IsFiniteSet(Bytes(S, evs) \cup new)
        /\ Cardinality(Bytes(S, evs) \cup new) =
             Cardinality(Bytes(S, evs)) + Cardinality(new) - Cardinality(Bytes(S, evs) \cap new)
    BY <1>6, FS_Union, Zenon
  <2>3. Cardinality(new) = e.size
    BY <1>6
  <2> QED
    BY <1>1, <1>7, <2>1, <2>2, <2>3
<1> QED
  BY <1>3, <1>4, <1>8 DEF SizeOf
\* The bytes of some events are among those of all.
LEMMA BytesSubset ==
    ASSUME NEW evs, NEW N, NEW S \in SUBSET N, IsFiniteSet(Bytes(N, evs))
    PROVE  IsFiniteSet(Bytes(S, evs)) /\ SizeOf(S, evs) \in Nat
<1>1. Bytes(S, evs) \subseteq Bytes(N, evs)
  BY DEF Bytes
<1>2. IsFiniteSet(Bytes(S, evs))
  BY <1>1, FS_Subset
<1> QED
  BY <1>2, FS_CardinalityType DEF SizeOf

-----------------------------------------------------------------------------
(* The inductive invariant.                                                *)

\* What has been taken out is older than what is still in the buffer.
BatchFirst == \A i \in batch, j \in pending : i < j

FullSeen ==
    IsFull(pending, size) => \/ wake
                             \/ \E a \in Adders : adder[a] = "kick"
                             \/ pc # "select"

\* How far the shutdown and the loop are: when the loop is told to stop the
\* workers have left, and after its last flush only receivers add events.
Stopping ==
    /\ batch # {} => pc = "publish"
    /\ stage \in {"stopping", "closed"} => \A w \in Workers : adder[w] = "exit"
    /\ last => stage \in {"stopping", "closed"}
    /\ pc = "exit" => last /\ \A i \in pending : events[i].by \in Receivers
    /\ stage = "closed" => pc = "exit"

Inv ==
    /\ TypeOK
    /\ IsFiniteSet(Bytes(Numbers, events))
    /\ Conserved
    /\ BatchFirst
    /\ FullSeen
    /\ Stopping

\* The sink starts empty.
LEMMA InvInit == Init => Inv
<1> SUFFICES ASSUME Init PROVE Inv
  OBVIOUS
<1> USE DEF Init
<1>1. Numbers = {}
  BY DEF Numbers
<1>2. IsFiniteSet({}) /\ Cardinality({}) = 0
  BY FS_EmptySet
<1>3. TypeOK
  <2>1. events \in Seq(Events) /\ pending \subseteq Numbers /\ batch \subseteq Numbers
    OBVIOUS
  <2>2. adder \in [Adders -> {"idle", "kick", "exit"}]
    OBVIOUS
  <2>3. Cardinality(pending) <= MaxPending /\ Cardinality(batch) <= MaxItems
    BY <1>2, SinkAssumption
  <2> QED
    BY <2>1, <2>2, <2>3 DEF TypeOK
<1>4. IsFiniteSet(Bytes(Numbers, events))
  BY <1>1, <1>2, NoBytes
<1>5. Conserved
  <2>1. size = SizeOf(pending, events)
    BY NoBytes
  <2>2. LossCounted
    BY <1>1, <1>2 DEF LossCounted
  <2> QED
    BY <1>1, <2>1, <2>2 DEF Conserved, OnePlace, SubjectOrder
<1>6. BatchFirst /\ FullSeen /\ Stopping
  BY <1>2, SinkAssumption DEF BatchFirst, FullSeen, Stopping, IsFull
<1> QED
  BY <1>3, <1>4, <1>5, <1>6 DEF Inv

\* The events are numbered from one on, and the sets of them are finite.
LEMMA Finite ==
    ASSUME TypeOK
    PROVE  /\ Len(events) \in Nat
           /\ Numbers = 1..Len(events) /\ IsFiniteSet(Numbers)
           /\ \A i \in Numbers : i \in Nat
           /\ \A S \in SUBSET Numbers : IsFiniteSet(S) /\ Cardinality(S) \in Nat
<1>1. Len(events) \in Nat /\ Numbers = 1..Len(events)
  BY DEF TypeOK, Numbers
<1>2. IsFiniteSet(Numbers)
  BY <1>1, UpTo
<1>3. \A S \in SUBSET Numbers : IsFiniteSet(S) /\ Cardinality(S) \in Nat
  BY <1>2, FS_Subset, FS_CardinalityType
<1> QED
  BY <1>1, <1>2, <1>3

-----------------------------------------------------------------------------
(* Add.                                                                    *)

\* Store at the limit drops exactly one event, and below it none.
LEMMA StoreOutcome ==
    ASSUME Inv, NEW evs, NEW n, n = Len(events) + 1, Store(pending \cup {n}, evs)
    PROVE  \/ /\ pending' = pending \cup {n}
              /\ Cardinality(pending') <= MaxPending
              /\ size' = size + evs[Len(evs)].size
              /\ dropped' = dropped
           \/ /\ \E m \in pending \cup {n} : pending' = (pending \cup {n}) \ {m}
              /\ Cardinality(pending') = MaxPending
              /\ size' = SizeOf(pending', evs)
              /\ dropped' = dropped + 1
<1> DEFINE grown == pending \cup {n}
<1>1. n \in Nat /\ n \notin pending /\ \A i \in grown : i \in Nat
  BY Finite DEF Inv, TypeOK
<1>2. /\ IsFiniteSet(pending) /\ Cardinality(pending) \in Nat
      /\ Cardinality(pending) <= MaxPending
  BY Finite DEF Inv, TypeOK
<1>3. IsFiniteSet(grown) /\ Cardinality(grown) = Cardinality(pending) + 1
  BY <1>1, <1>2, FS_AddElement
<1>4. MaxPending \in Nat
  BY SinkAssumption
<1>5. CASE ~(Cardinality(grown) - MaxPending > 0)
  <2>1. Cardinality(grown) <= MaxPending
    BY <1>2, <1>3, <1>4, <1>5
  <2> QED
    BY <1>5, <2>1 DEF Store
<1>6. CASE Cardinality(grown) - MaxPending > 0
  <2>1. Cardinality(grown) - MaxPending = 1
    BY <1>2, <1>3, <1>4, <1>6
  <2>2. PICK m : Oldest(grown, 1) = {m}
    <3>1. /\ Oldest(grown, 1) \subseteq grown
          /\ Cardinality(Oldest(grown, 1)) <= 1
          /\ Oldest(grown, 1) # {}
      <4>1. grown # {}
        OBVIOUS
      <4>2. 1 \in Nat \ {0}
        OBVIOUS
      <4> HIDE DEF grown
      <4> QED
        BY <1>1, <1>3, <4>1, <4>2, OldestFirst, Zenon
    <3>2. IsFiniteSet(Oldest(grown, 1)) /\ Cardinality(Oldest(grown, 1)) \in Nat
      BY <1>3, <3>1, FS_Subset, FS_CardinalityType
    <3>3. Cardinality(Oldest(grown, 1)) = 1
      <4>1. Cardinality(Oldest(grown, 1)) # 0
        BY <3>1, <3>2, FS_EmptySet, Zenon
      <4> QED
        BY <3>1, <3>2, <4>1
    <3> QED
      BY <3>2, <3>3, FS_Singleton
  <2>3. m \in grown
    BY <2>2 DEF Oldest
  <2>4. Cardinality(grown \ {m}) = MaxPending
    <3>1. Cardinality(grown \ {m}) = Cardinality(grown) - 1
      <4> HIDE DEF grown
      <4> QED
        BY <1>3, <2>3, FS_RemoveElement
    <3> QED
      BY <1>2, <1>3, <1>4, <2>1, <3>1
  <2>5. /\ pending' = grown \ {m} /\ dropped' = dropped + 1
        /\ size' = SizeOf(pending', evs)
    BY <1>6, <2>1, <2>2 DEF Store
  <2> QED
    BY <2>3, <2>4, <2>5
<1> QED
  BY <1>5, <1>6
\* Add keeps the invariant: what is new is the youngest event, a full buffer
\* has its wake-up on the way, and a worker that has left adds nothing.
LEMMA AddStep ==
    ASSUME Inv, NEW a \in Adders, NEW s \in Subjects, NEW b \in Sizes, Add(a, s, b)
    PROVE  Inv'
<1> DEFINE n == Len(events) + 1
           e == [subject |-> s, size |-> b, by |-> a]
<1> USE DEF Inv
<1>1. e \in Events /\ b \in Nat
  BY SinkAssumption DEF Events
<1>2. /\ events \in Seq(Events) /\ events' = Append(events, e)
      /\ n \in Nat /\ Numbers = 1..Len(events) /\ Len(events) \in Nat
  BY Finite DEF Add, TypeOK
<1>3. /\ events' \in Seq(Events) /\ Len(events') = n
      /\ Numbers' = Numbers \cup {n} /\ n \notin Numbers
      /\ events'[n] = e /\ \A i \in Numbers : events'[i] = events[i] /\ i < n
  BY <1>1, <1>2 DEF Numbers
<1>4. /\ pending \subseteq Numbers /\ batch \subseteq Numbers /\ out \subseteq Numbers
      /\ UNCHANGED <<wake, batch, out, pc, last, stage>>
  BY DEF Add, TypeOK
<1>5. Bytes(Numbers, events) = Bytes(Numbers, events') /\ IsFiniteSet(Bytes(Numbers, events)')
  <2>1. Numbers \in SUBSET (1..Len(events))
    BY <1>2
  <2> QED
    BY <1>1, <1>2, <1>3, <2>1, BytesAdd
<1>6. \/ /\ pending' = pending \cup {n}
         /\ Cardinality(pending') <= MaxPending
         /\ size' = size + b
         /\ dropped' = dropped
      \/ /\ \E m \in pending \cup {n} : pending' = (pending \cup {n}) \ {m}
         /\ Cardinality(pending') = MaxPending
         /\ size' = SizeOf(pending', events')
         /\ dropped' = dropped + 1
  <2>1. Store(pending \cup {n}, events') /\ events'[Len(events')].size = b
    BY <1>3 DEF Add
  <2> HIDE DEF n
  <2> QED
    BY <2>1, StoreOutcome DEF n
<1>7. pending' \subseteq pending \cup {n}
  BY <1>6
<1>8. size' = SizeOf(pending', events') /\ size' \in Nat
  <2>1. pending' \in SUBSET (Numbers')
    BY <1>3, <1>4, <1>7
  <2>2. SizeOf(pending', events') \in Nat
    BY <1>5, <2>1, BytesSubset
  <2>3. SizeOf(pending \cup {n}, events') = SizeOf(pending, events) + b
    <3>1. pending \in SUBSET (1..Len(events)) /\ IsFiniteSet(Bytes(pending, events))
      BY <1>2, <1>4, BytesSubset
    <3> QED
      BY <1>1, <1>2, <3>1, BytesAdd
  <2> QED
    BY <1>6, <2>2, <2>3 DEF Conserved
<1>9. TypeOK'
  <2>1. Cardinality(pending') <= MaxPending /\ dropped' \in Nat
    BY <1>6, SinkAssumption DEF TypeOK
  <2>2. adder' \in [Adders -> {"idle", "kick", "exit"}]
    BY DEF Add, TypeOK
  <2> QED
    BY <1>3, <1>4, <1>7, <1>8, <2>1, <2>2 DEF TypeOK
<1>10. OnePlace' /\ SubjectOrder'
  <2>1. OnePlace'
    BY <1>3, <1>4, <1>7 DEF Conserved, OnePlace
  <2>2. SUFFICES ASSUME NEW i \in Numbers', NEW j \in Numbers', i < j,
                        events'[i].subject = events'[j].subject, j \in out
                 PROVE  i \notin pending' \cup batch
    BY <1>4, <2>1 DEF SubjectOrder
  <2>3. j \in Numbers /\ j < n /\ i \in Numbers /\ i < n
    <3>1. j \in Numbers /\ j < n /\ i \in Nat /\ j \in Nat
      BY <1>2, <1>3, <1>4, <2>2
    <3> QED
      BY <1>2, <1>3, <2>2, <3>1
  <2>4. i \notin pending \cup batch
    BY <1>3, <2>2, <2>3 DEF Conserved, SubjectOrder
  <2> QED
    BY <1>3, <1>7, <2>3, <2>4
<1>11. LossCounted'
  <2> DEFINE held == pending \cup batch \cup out
             held2 == pending' \cup batch \cup out
  <2>1. dropped = Cardinality(Numbers \ held) /\ OnePlace
    BY DEF Conserved, LossCounted
  <2>2. dropped' = Cardinality(Numbers' \ held2)
    <3>1. CASE pending' = pending \cup {n} /\ dropped' = dropped
      <4>1. Numbers' \ held2 = Numbers \ held
        BY <1>3, <3>1
      <4> QED
        BY <2>1, <3>1, <4>1
    <3>2. ASSUME NEW m \in pending \cup {n}, pending' = (pending \cup {n}) \ {m},
                 dropped' = dropped + 1
          PROVE  dropped' = Cardinality(Numbers' \ held2)
      <4>1. Numbers' \ held2 = (Numbers \ held) \cup {m} /\ m \notin Numbers \ held
        BY <1>3, <1>4, <2>1, <3>2 DEF OnePlace
      <4>2. IsFiniteSet(Numbers \ held)
        BY Finite
      <4>3. Cardinality((Numbers \ held) \cup {m}) = Cardinality(Numbers \ held) + 1
        BY <4>1, <4>2, FS_AddElement
      <4> QED
        BY <2>1, <3>2, <4>1, <4>3
    <3> QED
      BY <1>6, <3>1, <3>2
  <2> QED
    BY <1>4, <2>2 DEF LossCounted
<1>12. BatchFirst'
  BY <1>3, <1>4, <1>7 DEF BatchFirst
<1>13. FullSeen'
  BY <1>4 DEF FullSeen, Add, TypeOK
<1>14. Stopping'
  <2>1. \A w \in Workers : adder[w] = "exit" => w # a /\ adder'[w] = "exit"
    BY DEF Add, TypeOK, Adders
  <2>2. ASSUME pc = "exit", NEW i \in pending' PROVE events'[i].by \in Receivers
    <3>1. a \in Receivers
      BY <2>1, <2>2 DEF Stopping, Adders
    <3> QED
      BY <1>3, <1>4, <1>7, <2>2, <3>1 DEF Stopping
  <2> QED
    BY <1>4, <2>1, <2>2 DEF Stopping
<1> QED
  BY <1>5, <1>8, <1>9, <1>10, <1>11, <1>12, <1>13, <1>14 DEF Conserved

-----------------------------------------------------------------------------
(* The loop.                                                               *)

\* flush takes the oldest events out of the buffer.
LEMMA TakeStep == ASSUME Inv, Take PROVE Inv'
<1> USE DEF Inv
<1>1. /\ UNCHANGED <<events, dropped, wake, out, last, adder, stage>>
      /\ pc' = "publish" /\ pc = "flush" /\ batch = {} /\ Numbers' = Numbers
  BY DEF Take, Stopping, Numbers
<1>2. /\ batch' \subseteq pending
      /\ Cardinality(batch') <= MaxItems
      /\ \A i \in batch', j \in pending \ batch' : i < j
  <2>1. IsFiniteSet(pending) /\ \A i \in pending : i \in Nat
    BY Finite DEF TypeOK
  <2> QED
    BY <2>1, SinkAssumption, OldestFirst DEF Take, Taken
<1>3. pending' = pending \ batch'
  BY DEF Take
<1>4. size' = SizeOf(pending', events') /\ size' \in Nat
  <2>1. pending' \in SUBSET Numbers
    BY <1>3 DEF TypeOK
  <2> QED
    BY <1>1, <2>1, BytesSubset DEF Take
<1>5. TypeOK'
  <2>1. Cardinality(pending') <= MaxPending
    <3>1. IsFiniteSet(pending) /\ pending' \subseteq pending
      BY <1>3, Finite DEF TypeOK
    <3>2. Cardinality(pending') <= Cardinality(pending) /\ Cardinality(pending') \in Nat
      BY <3>1, FS_Subset, FS_CardinalityType
    <3>3. Cardinality(pending) \in Nat
      BY <3>1, FS_CardinalityType
    <3> QED
      BY <3>2, <3>3, SinkAssumption DEF TypeOK
  <2> QED
    BY <1>1, <1>2, <1>3, <1>4, <2>1 DEF TypeOK
<1>6. OnePlace' /\ SubjectOrder' /\ LossCounted'
  <2>1. pending' \cup batch' = pending \cup batch
    BY <1>1, <1>2, <1>3
  <2>2. OnePlace'
    BY <1>1, <1>2, <1>3 DEF Conserved, OnePlace
  <2>3. SubjectOrder' /\ LossCounted'
    BY <1>1, <2>1 DEF Conserved, SubjectOrder, LossCounted
  <2> QED
    BY <2>2, <2>3
<1>7. BatchFirst' /\ FullSeen' /\ Stopping'
  BY <1>1, <1>2, <1>3 DEF BatchFirst, FullSeen, Stopping
<1> QED
  BY <1>1, <1>4, <1>5, <1>6, <1>7 DEF Conserved

\* send hands every event of one subject to the bus.
LEMMA SendStep == ASSUME Inv, Send PROVE Inv'
<1> USE DEF Inv
<1>1. /\ UNCHANGED <<events, pending, size, dropped, wake, last, adder, stage>>
      /\ pc = "publish" /\ pc' = IF batch' = {} THEN "flush" ELSE "publish"
      /\ Numbers' = Numbers
  BY DEF Send, Numbers
<1>2. PICK sub : Group = {i \in batch : events[i].subject = sub}
  BY DEF Group
<1>3. batch' = batch \ Group /\ out' = out \cup Group
  BY DEF Send
<1>4. TypeOK'
  <2>1. Cardinality(batch') <= MaxItems
    <3>1. IsFiniteSet(batch) /\ batch' \subseteq batch
      BY <1>3, Finite DEF TypeOK
    <3>2. Cardinality(batch') <= Cardinality(batch) /\ Cardinality(batch') \in Nat
      BY <3>1, FS_Subset, FS_CardinalityType
    <3>3. Cardinality(batch) \in Nat
      BY <3>1, FS_CardinalityType
    <3> QED
      BY <3>2, <3>3, SinkAssumption DEF TypeOK
  <2> QED
    BY <1>1, <1>2, <1>3, <2>1 DEF TypeOK
<1>5. OnePlace'
  BY <1>1, <1>2, <1>3 DEF Conserved, OnePlace
<1>6. LossCounted'
  <2>1. pending' \cup batch' \cup out' = pending \cup batch \cup out
    BY <1>1, <1>2, <1>3
  <2> QED
    BY <1>1, <2>1 DEF Conserved, LossCounted
<1>7. SubjectOrder'
  BY <1>1, <1>2, <1>3, Finite DEF Conserved, SubjectOrder, BatchFirst, TypeOK
<1>8. BatchFirst' /\ FullSeen' /\ Stopping'
  BY <1>1, <1>3 DEF BatchFirst, FullSeen, Stopping
<1> QED
  BY <1>1, <1>4, <1>5, <1>6, <1>7, <1>8 DEF Conserved
-----------------------------------------------------------------------------
(* The other steps, and the theorems.                                      *)

\* A step that leaves the buffer and the batch alone: wake-ups, the select of
\* the loop, a flush that finds nothing, the shutdown.
LEMMA ControlStep ==
    ASSUME Inv,
           \/ \E a \in Adders : Kick(a)
           \/ Select \/ Flushed
           \/ Terminate
           \/ \E w \in Workers : WorkerExit(w)
           \/ CloseSink \/ CloseReturns
           \/ UNCHANGED vars
    PROVE  Inv'
<1> USE DEF Inv
<1>1. UNCHANGED <<events, pending, size, dropped, batch, out>> /\ Numbers' = Numbers
  BY DEF Kick, Select, Flushed, Terminate, WorkerExit, CloseSink, CloseReturns, vars, Numbers
<1>2. TypeOK'
  BY <1>1 DEF Kick, Select, OnWake, OnTick, OnStop, Flushed, Terminate, WorkerExit,
              CloseSink, CloseReturns, vars, TypeOK
<1>3. Conserved' /\ BatchFirst' /\ IsFiniteSet(Bytes(Numbers, events))'
  BY <1>1 DEF Conserved, OnePlace, LossCounted, SubjectOrder, BatchFirst, Bytes
<1>4. FullSeen' /\ Stopping'
  <2>1. ASSUME NEW a \in Adders, Kick(a) PROVE FullSeen' /\ Stopping'
    BY <1>1, <2>1 DEF Kick, FullSeen, Stopping, TypeOK, Adders
  <2>2. CASE Select
    BY <1>1, <2>2 DEF Select, OnWake, OnTick, OnStop, FullSeen, Stopping
  <2>3. CASE Flushed
    <3>1. ~IsFull(pending, size)
      BY <2>3, NoBytes, FS_EmptySet, SinkAssumption DEF Flushed, IsFull, Conserved
    <3> QED
      BY <1>1, <2>3, <3>1 DEF Flushed, FullSeen, IsFull, Stopping
  <2>4. CASE Terminate
    BY <1>1, <2>4 DEF Terminate, FullSeen, Stopping
  <2>5. ASSUME NEW w \in Workers, WorkerExit(w) PROVE FullSeen' /\ Stopping'
    BY <1>1, <2>5 DEF WorkerExit, FullSeen, Stopping, TypeOK, Adders
  <2>6. CASE CloseSink \/ CloseReturns
    BY <1>1, <2>6 DEF CloseSink, CloseReturns, FullSeen, Stopping
  <2>7. CASE UNCHANGED vars
    BY <2>7 DEF vars, FullSeen, Stopping
  <2> QED
    BY <2>1, <2>2, <2>3, <2>4, <2>5, <2>6, <2>7
<1> QED
  BY <1>2, <1>3, <1>4

\* Every step keeps the invariant.
LEMMA InvStep == ASSUME Inv, [Next]_vars PROVE Inv'
  BY AddStep, TakeStep, SendStep, ControlStep DEF Next, LoopStep

\* The invariant holds in every reachable state.
LEMMA Invariance == Spec => []Inv
  BY InvInit, InvStep, PTL DEF Spec

\* The buffer and a batch stay within maxPending and maxItems, and every
\* variable has its type.
THEOREM TypeCorrect == Spec => []TypeOK
<1>1. Inv => TypeOK
  BY DEF Inv
<1> QED
  BY <1>1, Invariance, PTL

\* Whatever Add, the cut at the limit, flush and send do in any order, no event
\* is lost without being counted or handed over twice, the events of a subject
\* leave in the order of the calls, and Sink.size is the size of the buffer.
THEOREM NothingLostUncounted == Spec => []Conserved
<1>1. Inv => Conserved
  BY DEF Inv
<1> QED
  BY <1>1, Invariance, PTL

\* A full buffer always has a wake-up in the channel or on its way, or the loop
\* at it; and when Close has returned, every event of a worker is out.
THEOREM CloseFlushesWorkers == Spec => []Flushes
<1>1. Inv => Flushes
  BY DEF Inv, FullSeen, IsFull, Stopping, Flushes
<1> QED
  BY <1>1, Invariance, PTL
=============================================================================
