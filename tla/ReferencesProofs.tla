--------------------------- MODULE ReferencesProofs ---------------------------
(***************************************************************************)
(* Theorems about References and their proofs, for any number of calls.     *)
(***************************************************************************)
EXTENDS References, SequenceTheorems, TLAPS

-----------------------------------------------------------------------------
(* Types *)

ValueType == [status : {"pending", "plain", "resolved", "failed", "created"},
              disposals : Nat, waiters : Seq(JobType)]
CollectionType == [value : DOMAIN values, members : SUBSET DOMAIN acquisitions]
AcquisitionType == [status : {"asked", "granted", "held", "released", "failed"}, value : DOMAIN values]

LEMMA TypeParts ==
    TypeOK <=> /\ values \in Seq(ValueType) /\ collections \in Seq(CollectionType)
               /\ acquisitions \in Seq(AcquisitionType) /\ jobs \in Seq(JobType)
               /\ pending \in 0 .. Len(values) /\ current \in 0 .. Len(values)
               /\ known \in BOOLEAN /\ careful \in BOOLEAN
               /\ references \in 0 .. Len(collections)
               /\ clears \in 0 .. MaxClears /\ cleared \subseteq DOMAIN values
BY DEF TypeOK, ValueType, CollectionType, AcquisitionType

LEMMA TypePartsAfter ==
    ASSUME values' \in Seq(ValueType'), collections' \in Seq(CollectionType'),
           acquisitions' \in Seq(AcquisitionType'), jobs' \in Seq(JobType'),
           pending' \in 0 .. Len(values'), current' \in 0 .. Len(values'),
           known' \in BOOLEAN, careful' \in BOOLEAN,
           references' \in 0 .. Len(collections'),
           clears' \in 0 .. MaxClears, cleared' \subseteq DOMAIN values'
    PROVE  TypeOK'
BY DEF TypeOK, ValueType, CollectionType, AcquisitionType

\* A type that is made of places in values and acquisitions grows with them.
Grows == DOMAIN values \subseteq DOMAIN values' /\ DOMAIN acquisitions \subseteq DOMAIN acquisitions'

LEMMA JobsStayTyped ==
    ASSUME Grows
    PROVE  JobType \subseteq JobType' /\ Seq(JobType) \subseteq Seq(JobType')
<1>1. JobType \subseteq JobType'
  BY DEF Grows, JobType
<1> QED BY <1>1, SeqMonotonic

LEMMA TypesGrow ==
    ASSUME Grows
    PROVE  /\ Seq(JobType) \subseteq Seq(JobType')
           /\ Seq(ValueType) \subseteq Seq(ValueType')
           /\ Seq(CollectionType) \subseteq Seq(CollectionType')
           /\ Seq(AcquisitionType) \subseteq Seq(AcquisitionType')
<1>1. Seq(JobType) \subseteq Seq(JobType')
  BY JobsStayTyped
<1>2. ValueType \subseteq ValueType'
  BY <1>1 DEF ValueType
<1>3. CollectionType \subseteq CollectionType' /\ AcquisitionType \subseteq AcquisitionType'
  BY DEF Grows, CollectionType, AcquisitionType
<1> QED BY <1>1, <1>2, <1>3, SeqMonotonic

\* What the type says of each place.
LEMMA Places ==
    ASSUME TypeOK
    PROVE  /\ Len(values) \in Nat /\ DOMAIN values = 1 .. Len(values)
           /\ Len(collections) \in Nat /\ DOMAIN collections = 1 .. Len(collections)
           /\ Len(acquisitions) \in Nat /\ DOMAIN acquisitions = 1 .. Len(acquisitions)
           /\ Len(jobs) \in Nat /\ DOMAIN jobs = 1 .. Len(jobs)
           /\ \A v \in DOMAIN values : values[v] \in ValueType
           /\ \A c \in DOMAIN collections : collections[c] \in CollectionType
           /\ \A a \in DOMAIN acquisitions : acquisitions[a] \in AcquisitionType
           /\ \A i \in DOMAIN jobs : jobs[i] \in JobType
<1>1. /\ values \in Seq(ValueType) /\ collections \in Seq(CollectionType)
      /\ acquisitions \in Seq(AcquisitionType) /\ jobs \in Seq(JobType)
  BY TypeParts
<1> QED BY <1>1, LenProperties, ElementOfSeq

\* The places that are the same with the same domains.
LEMMA SamePlaces ==
    ASSUME TypeOK, DOMAIN values' = DOMAIN values, DOMAIN acquisitions' = DOMAIN acquisitions
    PROVE  JobType' = JobType /\ ValueType' = ValueType /\ CollectionType' = CollectionType
           /\ AcquisitionType' = AcquisitionType
BY DEF JobType, ValueType, CollectionType, AcquisitionType

-----------------------------------------------------------------------------
LEMMA InitTyped == ASSUME Init PROVE TypeOK
<1> USE ReferenceAssumption
<1>1. \A S : Len(<<>>) = 0 /\ <<>> \in Seq(S)
  BY EmptySeq
<1>2. /\ values \in Seq(ValueType) /\ collections \in Seq(CollectionType)
      /\ acquisitions \in Seq(AcquisitionType) /\ jobs \in Seq(JobType)
      /\ Len(values) = 0 /\ Len(collections) = 0
  BY <1>1 DEF Init
<1>3. /\ pending = 0 /\ current = 0 /\ references = 0 /\ clears = 0 /\ cleared = {}
      /\ known \in BOOLEAN /\ careful \in BOOLEAN
  BY DEF Init
<1>4. 0 \in 0 .. MaxClears
  OBVIOUS
<1> QED BY <1>2, <1>3, <1>4, TypeParts

LEMMA StatusTyped ==
    ASSUME TypeOK, NEW a \in DOMAIN acquisitions,
           NEW s \in {"asked", "granted", "held", "released", "failed"},
           acquisitions' = [acquisitions EXCEPT ![a].status = s]
    PROVE  /\ acquisitions' \in Seq(AcquisitionType)
           /\ Len(acquisitions') = Len(acquisitions) /\ DOMAIN acquisitions' = DOMAIN acquisitions
           /\ \A b \in DOMAIN acquisitions :
                 acquisitions'[b] = [status |-> IF b = a THEN s ELSE acquisitions[b].status,
                                     value |-> acquisitions[b].value]
<1>1. acquisitions \in Seq(AcquisitionType) /\ a \in 1 .. Len(acquisitions)
  BY TypeParts, Places
<1> DEFINE e == [acquisitions[a] EXCEPT !.status = s]
<1>2. e \in AcquisitionType
  BY Places DEF AcquisitionType
<1>3. acquisitions' = [acquisitions EXCEPT ![a] = e]
  BY <1>1
<1>4. /\ acquisitions' \in Seq(AcquisitionType) /\ Len(acquisitions') = Len(acquisitions)
      /\ \A j \in 1 .. Len(acquisitions) : acquisitions'[j] = IF j = a THEN e ELSE acquisitions[j]
  <2> HIDE DEF e
  <2> QED BY <1>1, <1>2, <1>3, ExceptSeq
<1>5. DOMAIN acquisitions' = DOMAIN acquisitions
  BY <1>1, <1>3
<1>6. \A b \in DOMAIN acquisitions :
         acquisitions'[b] = [status |-> IF b = a THEN s ELSE acquisitions[b].status,
                             value |-> acquisitions[b].value]
  BY <1>4, Places DEF AcquisitionType
<1> QED BY <1>4, <1>5, <1>6

\* What the disposal of a value does, place by place.
Disposed(v, colls) ==
    /\ values' \in Seq(ValueType) /\ DOMAIN values' = DOMAIN values
    /\ collections' \in Seq(CollectionType) /\ DOMAIN collections' = DOMAIN collections
    /\ Len(collections') = Len(collections)
    /\ Len(values') = Len(values)
    /\ \A w \in DOMAIN values :
          /\ values'[w].status = values[w].status /\ values'[w].waiters = values[w].waiters
          /\ w # v => values'[w].disposals = values[w].disposals
    /\ values'[v].disposals = values[v].disposals
                                + IF \E c \in CollectionsOf(v) : colls[c].members # {} THEN 2 ELSE 1
    /\ \A c \in DOMAIN collections :
          /\ collections'[c].value = collections[c].value
          /\ collections'[c].members = IF c \in CollectionsOf(v) THEN {} ELSE colls[c].members

LEMMA DisposalTyped ==
    ASSUME TypeOK, NEW v \in DOMAIN values, NEW colls \in Seq(CollectionType),
           Len(colls) = Len(collections),
           \A c \in DOMAIN collections : colls[c].value = collections[c].value,
           DisposeValue(v, colls)
    PROVE  /\ Disposed(v, colls)
           /\ current' \in 0 .. Len(values) /\ references' \in 0 .. Len(collections)
           /\ known' \in BOOLEAN
<1> DEFINE wrapped == CollectionsOf(v)
           n == IF \E c \in wrapped : colls[c].members # {} THEN 2 ELSE 1
           e == [values[v] EXCEPT !.disposals = @ + n]
<1>1. values \in Seq(ValueType) /\ v \in 1 .. Len(values) /\ values[v] \in ValueType
  BY TypeParts, Places
<1>2. e \in ValueType /\ n \in {1, 2}
  <2>1. n \in {1, 2}
    OBVIOUS
  <2>2. values[v].disposals + n \in Nat
    <3> HIDE DEF n
    <3> QED BY <1>1, <2>1 DEF ValueType
  <2>3. e = [status |-> values[v].status, disposals |-> values[v].disposals + n,
             waiters |-> values[v].waiters]
    <3> HIDE DEF n
    <3> QED BY <1>1 DEF ValueType
  <2> QED
    <3> HIDE DEF n
    <3> QED BY <1>1, <2>1, <2>2, <2>3 DEF ValueType
<1>3. values' = [values EXCEPT ![v] = e]
  BY <1>1 DEF DisposeValue
<1>4. /\ values' \in Seq(ValueType) /\ Len(values') = Len(values)
      /\ \A j \in 1 .. Len(values) : values'[j] = IF j = v THEN e ELSE values[j]
  <2> HIDE DEF e
  <2> QED BY <1>1, <1>2, <1>3, ExceptSeq
<1>5. DOMAIN values' = DOMAIN values
  BY <1>1, <1>3
<1>6. /\ e.status = values[v].status /\ e.waiters = values[v].waiters
      /\ e.disposals = values[v].disposals + n
  BY <1>1 DEF ValueType
<1>7. DOMAIN colls = DOMAIN collections /\ DOMAIN colls = 1 .. Len(collections)
      /\ Len(collections) \in Nat /\ \A c \in DOMAIN colls : colls[c] \in CollectionType
  BY Places, LenProperties, ElementOfSeq
<1>8. collections' = [c \in 1 .. Len(collections) |->
           IF c \in wrapped THEN [colls[c] EXCEPT !.members = {}] ELSE colls[c]]
  BY <1>7 DEF DisposeValue
<1>9. \A c \in 1 .. Len(collections) :
         /\ collections'[c] \in CollectionType
         /\ collections'[c].value = collections[c].value
         /\ collections'[c].members = IF c \in wrapped THEN {} ELSE colls[c].members
  BY <1>7, <1>8 DEF CollectionType
<1>10. collections' \in Seq(CollectionType) /\ Len(collections') = Len(collections)
       /\ DOMAIN collections' = DOMAIN collections
  <2>1. collections' \in [1 .. Len(collections) -> CollectionType]
    BY <1>8, <1>9
  <2>2. collections' \in Seq(CollectionType)
    BY <2>1, <1>7, SeqDef
  <2>3. DOMAIN collections' = 1 .. Len(collections)
    BY <1>8
  <2>4. Len(collections') \in Nat /\ DOMAIN collections' = 1 .. Len(collections')
    BY <2>2, LenProperties
  <2>5. Len(collections') = Len(collections)
    <3> DEFINE m == Len(collections')
               k == Len(collections)
    <3> HIDE DEF m, k
    <3>1. m \in Nat /\ k \in Nat /\ 1 .. m = 1 .. k => m = k
      OBVIOUS
    <3> QED BY <3>1, <2>3, <2>4, <1>7 DEF m, k
  <2> QED BY <2>2, <2>3, <2>5, <1>7
<1>11. Disposed(v, colls)
  <2> HIDE DEF e
  <2> QED BY <1>1, <1>4, <1>5, <1>6, <1>7, <1>9, <1>10 DEF Disposed
<1>12. IF wrapped = {} THEN UNCHANGED <<current, known, references>>
       ELSE current' = 0 /\ known' = FALSE /\ references' = 0
  BY DEF DisposeValue
<1> HIDE DEF wrapped
<1>13. current' \in 0 .. Len(values) /\ references' \in 0 .. Len(collections)
  <2>1. /\ current \in 0 .. Len(values) /\ references \in 0 .. Len(collections)
        /\ Len(values) \in Nat /\ Len(collections) \in Nat
    BY TypeParts, Places
  <2>2. 0 \in 0 .. Len(values) /\ 0 \in 0 .. Len(collections)
    BY <2>1
  <2> QED BY <1>12, <2>1, <2>2
<1>14. known' \in BOOLEAN
  BY <1>12, TypeParts, Zenon
<1> QED BY <1>11, <1>13, <1>14

-----------------------------------------------------------------------------
\* The collections without the reference of a.
Without(a) == [c \in DOMAIN collections |-> [collections[c] EXCEPT !.members = @ \ {a}]]

LEMMA WithoutTyped ==
    ASSUME TypeOK, NEW a
    PROVE  /\ Without(a) \in Seq(CollectionType) /\ Len(Without(a)) = Len(collections)
           /\ DOMAIN Without(a) = DOMAIN collections
           /\ \A c \in DOMAIN collections :
                 /\ Without(a)[c].value = collections[c].value
                 /\ Without(a)[c].members = collections[c].members \ {a}
<1> DEFINE left == Without(a)
<1>1. DOMAIN collections = 1 .. Len(collections) /\ Len(collections) \in Nat
      /\ \A c \in DOMAIN collections : collections[c] \in CollectionType
  BY Places
<1>2. \A c \in DOMAIN collections :
         /\ left[c] \in CollectionType /\ left[c].value = collections[c].value
         /\ left[c].members = collections[c].members \ {a}
  BY <1>1 DEF CollectionType, Without
<1>3. left \in [1 .. Len(collections) -> CollectionType]
  BY <1>1, <1>2 DEF Without
<1>4. left \in Seq(CollectionType)
  BY <1>1, <1>3, SeqDef
<1>5. Len(left) = Len(collections)
  <2> DEFINE m == Len(left)
             k == Len(collections)
  <2>1. m \in Nat /\ DOMAIN left = 1 .. m
    BY <1>4, LenProperties
  <2>2. DOMAIN left = 1 .. k
    BY <1>3
  <2> HIDE DEF m, k
  <2>3. m \in Nat /\ k \in Nat /\ 1 .. m = 1 .. k => m = k
    OBVIOUS
  <2> QED BY <2>1, <2>2, <2>3, <1>1 DEF m, k
<1> QED BY <1>2, <1>4, <1>5 DEF Without

\* A release either only takes the reference out of its collection or disposes the value.
Released(a) ==
    /\ acquisitions[a].status = "held"
    /\ acquisitions' \in Seq(AcquisitionType)
    /\ Len(acquisitions') = Len(acquisitions) /\ DOMAIN acquisitions' = DOMAIN acquisitions
    /\ \A b \in DOMAIN acquisitions :
          acquisitions'[b] = [status |-> IF b = a THEN "released" ELSE acquisitions[b].status,
                              value |-> acquisitions[b].value]
    /\ \/ /\ \A c \in DOMAIN collections :
                a \in collections[c].members => collections[c].members \ {a} # {}
          /\ collections' = Without(a)
          /\ UNCHANGED <<values, current, known, references>>
       \/ \E c \in DOMAIN collections :
             /\ a \in collections[c].members /\ collections[c].members \ {a} = {}
             /\ DisposeValue(collections[c].value, Without(a))
    /\ UNCHANGED <<pending, jobs, clears, cleared, careful>>

LEMMA ReleaseDone ==
    ASSUME TypeOK, NEW a \in DOMAIN acquisitions, Release(a)
    PROVE  Released(a)
<1> DEFINE in == {c \in DOMAIN collections : a \in collections[c].members}
           emptied == {c \in in : Without(a)[c].members = {}}
<1>1. /\ acquisitions[a].status = "held"
      /\ acquisitions' = [acquisitions EXCEPT ![a].status = "released"]
      /\ IF emptied = {}
         THEN collections' = Without(a) /\ UNCHANGED <<values, current, known, references>>
         ELSE \E c \in emptied : DisposeValue(collections[c].value, Without(a))
      /\ UNCHANGED <<pending, jobs, clears, cleared, careful>>
  BY DEF Release, Without
<1>2. emptied = {c \in DOMAIN collections : a \in collections[c].members /\ collections[c].members \ {a} = {}}
  BY WithoutTyped
<1> HIDE DEF in, emptied
<1>3. /\ acquisitions' \in Seq(AcquisitionType)
      /\ Len(acquisitions') = Len(acquisitions) /\ DOMAIN acquisitions' = DOMAIN acquisitions
      /\ \A b \in DOMAIN acquisitions :
          acquisitions'[b] = [status |-> IF b = a THEN "released" ELSE acquisitions[b].status,
                              value |-> acquisitions[b].value]
  BY <1>1, StatusTyped
<1> QED BY <1>1, <1>2, <1>3 DEF Released

LEMMA ReleaseTyped ==
    ASSUME TypeOK, NEW a \in DOMAIN acquisitions, Release(a)
    PROVE  TypeOK'
<1>1. Released(a)
  BY ReleaseDone
<1>2. CASE collections' = Without(a) /\ UNCHANGED <<values, current, known, references>>
  <2>1. /\ JobType' = JobType /\ ValueType' = ValueType /\ CollectionType' = CollectionType
        /\ AcquisitionType' = AcquisitionType
    BY <1>1, <1>2, SamePlaces DEF Released
  <2> QED BY <2>1, <1>1, <1>2, WithoutTyped, TypeParts, TypePartsAfter DEF Released
<1>3. ASSUME NEW c \in DOMAIN collections, NEW v, v = collections[c].value, DisposeValue(v, Without(a))
      PROVE  TypeOK'
  <2>1. v \in DOMAIN values
    BY <1>3, Places DEF CollectionType
  <2>2. /\ Disposed(v, Without(a))
        /\ current' \in 0 .. Len(values) /\ references' \in 0 .. Len(collections) /\ known' \in BOOLEAN
    <3>1. /\ Without(a) \in Seq(CollectionType) /\ Len(Without(a)) = Len(collections)
          /\ \A d \in DOMAIN collections : Without(a)[d].value = collections[d].value
      BY WithoutTyped
    <3> QED BY <1>3, <2>1, <3>1, DisposalTyped
  <2>3. /\ JobType' = JobType /\ ValueType' = ValueType /\ CollectionType' = CollectionType
        /\ AcquisitionType' = AcquisitionType
    BY <1>1, <2>2, SamePlaces DEF Released, Disposed
  <2>4. UNCHANGED <<pending, jobs, clears, cleared, careful>> /\ acquisitions' \in Seq(AcquisitionType)
    BY <1>1 DEF Released
  <2>5. /\ values' \in Seq(ValueType) /\ collections' \in Seq(CollectionType)
        /\ Len(values') = Len(values) /\ Len(collections') = Len(collections)
        /\ DOMAIN values' = DOMAIN values
    BY <2>2 DEF Disposed
  <2> QED BY <2>2, <2>3, <2>4, <2>5, TypeParts, TypePartsAfter
<1> QED BY <1>1, <1>2, <1>3 DEF Released

LEMMA DisposedByCallTyped ==
    ASSUME TypeOK, NEW v \in DOMAIN values, DisposedByCall(v)
    PROVE  TypeOK'
<1>1. /\ Disposed(v, collections)
      /\ current' \in 0 .. Len(values) /\ references' \in 0 .. Len(collections) /\ known' \in BOOLEAN
  <2>1. collections \in Seq(CollectionType)
    BY TypeParts
  <2> QED BY <2>1, DisposalTyped DEF DisposedByCall
<1>2. /\ clears' \in 0 .. MaxClears /\ cleared' \subseteq DOMAIN values /\ careful' \in BOOLEAN
      /\ UNCHANGED <<pending, acquisitions, jobs>>
  BY TypeParts, ReferenceAssumption DEF DisposedByCall
<1>3. /\ JobType' = JobType /\ ValueType' = ValueType /\ CollectionType' = CollectionType
      /\ AcquisitionType' = AcquisitionType
  BY <1>1, <1>2, SamePlaces DEF Disposed
<1>4. /\ values' \in Seq(ValueType) /\ collections' \in Seq(CollectionType)
      /\ Len(values') = Len(values) /\ Len(collections') = Len(collections)
      /\ DOMAIN values' = DOMAIN values
  BY <1>1 DEF Disposed
<1> QED BY <1>1, <1>2, <1>3, <1>4, TypeParts, TypePartsAfter

-----------------------------------------------------------------------------
(* Sequences, place by place *)

Lengthened(s, t, x) ==
    /\ Len(s) \in Nat /\ DOMAIN s = 1 .. Len(s)
    /\ Len(t) = Len(s) + 1 /\ DOMAIN t = 1 .. Len(s) + 1
    /\ \A i \in DOMAIN s : t[i] = s[i]
    /\ t[Len(s) + 1] = x

Shortened(s, t) ==
    /\ Len(s) \in Nat \ {0} /\ DOMAIN s = 1 .. Len(s)
    /\ DOMAIN t = 1 .. Len(s) - 1
    /\ \A i \in DOMAIN t : i + 1 \in DOMAIN s /\ t[i] = s[i + 1]
    /\ \A i \in DOMAIN s : i # 1 => i - 1 \in DOMAIN t /\ t[i - 1] = s[i]

\* The first of s is gone and x is the last.
Turned(s, t, x) ==
    /\ Len(s) \in Nat \ {0} /\ DOMAIN s = 1 .. Len(s) /\ DOMAIN t = DOMAIN s
    /\ \A i \in DOMAIN t : i # Len(s) => i + 1 \in DOMAIN s /\ t[i] = s[i + 1]
    /\ \A i \in DOMAIN s : i # 1 => i - 1 \in DOMAIN t /\ t[i - 1] = s[i]
    /\ t[Len(s)] = x

LEMMA AppendPlaces ==
    ASSUME NEW S, NEW s \in Seq(S), NEW x \in S, NEW t, t = Append(s, x)
    PROVE  t \in Seq(S) /\ Lengthened(s, t, x)
<1>1. Len(s) \in Nat /\ DOMAIN s = 1 .. Len(s)
  BY LenProperties
<1>2. /\ t \in Seq(S) /\ Len(t) = Len(s) + 1
      /\ \A i \in 1 .. Len(s) : t[i] = s[i]
      /\ t[Len(s) + 1] = x
  BY AppendProperties
<1>3. DOMAIN t = 1 .. Len(s) + 1
  BY <1>2, LenProperties
<1> QED BY <1>1, <1>2, <1>3 DEF Lengthened

LEMMA TailPlaces ==
    ASSUME NEW S, NEW s \in Seq(S), s # <<>>, NEW t, t = Tail(s)
    PROVE  t \in Seq(S) /\ Shortened(s, t) /\ Head(s) = s[1]
<1>1. Len(s) \in Nat \ {0} /\ DOMAIN s = 1 .. Len(s)
  BY LenProperties, EmptySeq
<1>2. /\ t \in Seq(S) /\ Len(t) = Len(s) - 1
      /\ \A i \in 1 .. Len(t) : t[i] = s[i + 1]
  BY HeadTailProperties
<1>3. DOMAIN t = 1 .. Len(s) - 1
  BY <1>2, LenProperties
<1>4. \A i \in DOMAIN t : i + 1 \in DOMAIN s /\ t[i] = s[i + 1]
  BY <1>1, <1>2, <1>3
<1>5. ASSUME NEW i \in DOMAIN s, i # 1 PROVE i - 1 \in DOMAIN t /\ t[i - 1] = s[i]
  <2>1. i - 1 \in DOMAIN t /\ (i - 1) + 1 = i
    BY <1>1, <1>3, <1>5
  <2> QED BY <2>1, <1>4
<1> QED BY <1>1, <1>2, <1>3, <1>4, <1>5 DEF Shortened

LEMMA TurnPlaces ==
    ASSUME NEW S, NEW s \in Seq(S), s # <<>>, NEW x \in S, NEW t, t = Append(Tail(s), x)
    PROVE  t \in Seq(S) /\ Turned(s, t, x) /\ Head(s) = s[1]
<1> SUFFICES ASSUME NEW u, u = Tail(s) PROVE t \in Seq(S) /\ Turned(s, t, x) /\ Head(s) = s[1]
  OBVIOUS
<1>1. u \in Seq(S) /\ Shortened(s, u) /\ Head(s) = s[1]
  BY TailPlaces
<1>2. t \in Seq(S) /\ Lengthened(u, t, x)
  BY <1>1, AppendPlaces
<1>3. Len(u) = Len(s) - 1
  BY <1>1, HeadTailProperties
<1>4. Len(s) \in Nat \ {0} /\ DOMAIN s = 1 .. Len(s) /\ DOMAIN u = 1 .. Len(s) - 1
  BY <1>1 DEF Shortened
<1>5. Len(u) + 1 = Len(s)
  BY <1>3, <1>4
<1>6. DOMAIN t = DOMAIN s /\ t[Len(s)] = x
  BY <1>2, <1>4, <1>5 DEF Lengthened
<1>7. ASSUME NEW i \in DOMAIN t, i # Len(s) PROVE i + 1 \in DOMAIN s /\ t[i] = s[i + 1]
  <2>1. i \in DOMAIN u
    BY <1>4, <1>6, <1>7
  <2> QED BY <2>1, <1>1, <1>2 DEF Shortened, Lengthened
<1>8. ASSUME NEW i \in DOMAIN s, i # 1 PROVE i - 1 \in DOMAIN t /\ t[i - 1] = s[i]
  <2>1. i - 1 \in DOMAIN u /\ u[i - 1] = s[i]
    BY <1>1, <1>8 DEF Shortened
  <2>2. i - 1 \in DOMAIN t
    BY <2>1, <1>4, <1>6
  <2> QED BY <2>1, <2>2, <1>2 DEF Lengthened
<1> QED BY <1>1, <1>2, <1>4, <1>6, <1>7, <1>8 DEF Turned

-----------------------------------------------------------------------------
(* Acquisitions keep the types *)

\* What doAcquire does, place by place.
Joined(a, v) ==
    /\ collections' \in Seq(CollectionType')
    /\ references' # 0 /\ references' \in DOMAIN collections'
    /\ Len(collections') \in Nat /\ DOMAIN collections' = 1 .. Len(collections')
    /\ DOMAIN collections \subseteq DOMAIN collections'
    /\ \A c \in DOMAIN collections' : c # references' => c \in DOMAIN collections
    /\ \A c \in DOMAIN collections :
          /\ collections'[c].value = collections[c].value
          /\ collections'[c].members = IF c = references THEN collections[c].members \cup {a}
                                       ELSE collections[c].members
    /\ references # 0 => references' = references
    /\ references = 0 => /\ references' \notin DOMAIN collections
                         /\ collections'[references'].value = v
                         /\ collections'[references'].members = {a}

LEMMA JoinPlaces ==
    ASSUME TypeOK, Grows, NEW a \in DOMAIN acquisitions', NEW v \in DOMAIN values', DoAcquire(a, v)
    PROVE  Joined(a, v)
<1>1. /\ collections \in Seq(CollectionType') /\ references \in 0 .. Len(collections)
      /\ Len(collections) \in Nat /\ DOMAIN collections = 1 .. Len(collections)
  BY TypesGrow, TypeParts, Places
<1>2. \A c \in DOMAIN collections : collections[c] \in CollectionType'
  BY <1>1, ElementOfSeq
<1>3. CASE references # 0
  <2> DEFINE e == [collections[references] EXCEPT !.members = @ \cup {a}]
  <2>1. references \in 1 .. Len(collections)
    BY <1>1, <1>3
  <2>2. /\ e \in CollectionType' /\ e.value = collections[references].value
        /\ e.members = collections[references].members \cup {a}
    BY <2>1, <1>1, <1>2 DEF CollectionType
  <2>3. collections' = [collections EXCEPT ![references] = e] /\ references' = references
    BY <1>3, <2>1, <1>1 DEF DoAcquire
  <2> HIDE DEF e
  <2>4. /\ collections' \in Seq(CollectionType') /\ Len(collections') = Len(collections)
        /\ \A j \in 1 .. Len(collections) :
              collections'[j] = IF j = references THEN e ELSE collections[j]
    BY <1>1, <2>1, <2>2, <2>3, ExceptSeq
  <2>5. DOMAIN collections' = DOMAIN collections
    BY <1>1, <2>4, LenProperties
  <2> QED BY <1>1, <1>3, <2>1, <2>2, <2>3, <2>4, <2>5 DEF Joined
<1>4. CASE references = 0
  <2> DEFINE e == [value |-> v, members |-> {a}]
  <2>1. e \in CollectionType' /\ e.value = v /\ e.members = {a}
    BY DEF CollectionType
  <2>2. collections' = Append(collections, e) /\ references' = Len(collections) + 1
    BY <1>4 DEF DoAcquire
  <2> HIDE DEF e
  <2>3. collections' \in Seq(CollectionType') /\ Lengthened(collections, collections', e)
    BY <1>1, <2>1, <2>2, AppendPlaces
  <2>4. /\ Len(collections') = Len(collections) + 1
        /\ DOMAIN collections' = 1 .. Len(collections) + 1
        /\ \A i \in DOMAIN collections : collections'[i] = collections[i]
        /\ collections'[references'] = e
    BY <2>2, <2>3 DEF Lengthened
  <2>5. /\ references' # 0 /\ references' \in DOMAIN collections' /\ references' \notin DOMAIN collections
        /\ Len(collections') \in Nat /\ DOMAIN collections \subseteq DOMAIN collections'
        /\ \A c \in DOMAIN collections' : c # references' => c \in DOMAIN collections
    BY <2>2, <2>4, <1>1
  <2>6. \A c \in DOMAIN collections : c # references
    BY <1>1, <1>4
  <2> QED BY <1>4, <2>1, <2>3, <2>4, <2>5, <2>6 DEF Joined
<1> QED BY <1>3, <1>4

LEMMA AskPlaces ==
    ASSUME TypeOK, DOMAIN values \subseteq DOMAIN values', NEW s \in {"asked", "granted"},
           NEW v \in DOMAIN values', NEW r, r = [status |-> s, value |-> v],
           acquisitions' = Append(acquisitions, r)
    PROVE  /\ Grows
           /\ acquisitions' \in Seq(AcquisitionType')
           /\ Lengthened(acquisitions, acquisitions', r)
           /\ Len(acquisitions) + 1 \in DOMAIN acquisitions'
<1>1. AcquisitionType \subseteq AcquisitionType' /\ acquisitions \in Seq(AcquisitionType)
  BY TypeParts DEF AcquisitionType
<1>2. acquisitions \in Seq(AcquisitionType')
  BY <1>1, SeqMonotonic
<1>3. r \in AcquisitionType'
  BY DEF AcquisitionType
<1>4. acquisitions' \in Seq(AcquisitionType') /\ Lengthened(acquisitions, acquisitions', r)
  BY <1>2, <1>3, AppendPlaces
<1>5. Grows /\ Len(acquisitions) + 1 \in DOMAIN acquisitions'
  BY <1>4 DEF Grows, Lengthened
<1> QED BY <1>4, <1>5

LEMMA QueuePlaces ==
    ASSUME TypeOK, Grows, NEW t \in {"create", "follow", "adopt", "acquire", "deliver"},
           NEW a \in DOMAIN acquisitions', NEW v \in DOMAIN values',
           jobs' = Append(jobs, Job(t, a, v))
    PROVE  jobs' \in Seq(JobType') /\ Lengthened(jobs, jobs', Job(t, a, v))
<1>1. jobs \in Seq(JobType')
  BY TypesGrow, TypeParts
<1>2. Job(t, a, v) \in JobType'
  BY DEF Job, JobType
<1> QED BY <1>1, <1>2, AppendPlaces

LEMMA AcquireExistingTyped ==
    ASSUME TypeOK, AcquireExisting(Len(acquisitions) + 1), UNCHANGED <<clears, cleared>>
    PROVE  /\ TypeOK'
           /\ Joined(Len(acquisitions) + 1, current)
           /\ Lengthened(jobs, jobs', Job("deliver", Len(acquisitions) + 1, current))
           /\ Lengthened(acquisitions, acquisitions', [status |-> "granted", value |-> current])
<1> SUFFICES ASSUME NEW a, a = Len(acquisitions) + 1, NEW v, v = current
             PROVE  /\ TypeOK' /\ Joined(a, v) /\ Lengthened(jobs, jobs', Job("deliver", a, v))
                    /\ Lengthened(acquisitions, acquisitions', [status |-> "granted", value |-> v])
  OBVIOUS
<1>1. v \in DOMAIN values /\ UNCHANGED <<values, pending, current, known, careful>>
  BY TypeParts, Places DEF AcquireExisting
<1>2. Grows /\ acquisitions' \in Seq(AcquisitionType') /\ a \in DOMAIN acquisitions'
      /\ Lengthened(acquisitions, acquisitions', [status |-> "granted", value |-> v])
  BY <1>1, AskPlaces DEF AcquireExisting
<1>3. jobs' \in Seq(JobType') /\ Lengthened(jobs, jobs', Job("deliver", a, v))
  BY <1>1, <1>2, QueuePlaces DEF AcquireExisting
<1>4. Joined(a, v)
  BY <1>1, <1>2, JoinPlaces DEF AcquireExisting
<1>5. values' \in Seq(ValueType') /\ collections' \in Seq(CollectionType') /\ references' \in 0 .. Len(collections')
  BY <1>1, <1>2, <1>4, TypesGrow, TypeParts DEF Joined
<1>6. TypeOK'
  BY <1>1, <1>2, <1>3, <1>5, TypeParts, TypePartsAfter
<1> QED BY <1>2, <1>3, <1>4, <1>6

\* The job of an acquisition that finds the value v being created.
Finds(v) == IF values[v].status = "plain" THEN "acquire" ELSE "follow"

LEMMA AcquirePendingTyped ==
    ASSUME TypeOK, AcquirePending(Len(acquisitions) + 1), UNCHANGED <<clears, cleared>>
    PROVE  /\ TypeOK'
           /\ Lengthened(jobs, jobs', Job(Finds(pending), Len(acquisitions) + 1, pending))
           /\ Lengthened(acquisitions, acquisitions', [status |-> "asked", value |-> pending])
<1> SUFFICES ASSUME NEW a, a = Len(acquisitions) + 1, NEW v, v = pending, NEW t, t = Finds(v)
             PROVE  /\ TypeOK' /\ Lengthened(jobs, jobs', Job(t, a, v))
                    /\ Lengthened(acquisitions, acquisitions', [status |-> "asked", value |-> v])
  OBVIOUS
<1>1. v \in DOMAIN values /\ UNCHANGED <<values, pending, current, known, references, collections>>
  BY TypeParts, Places DEF AcquirePending
<1>2. Grows /\ acquisitions' \in Seq(AcquisitionType') /\ a \in DOMAIN acquisitions'
      /\ Lengthened(acquisitions, acquisitions', [status |-> "asked", value |-> v])
  BY <1>1, AskPlaces DEF AcquirePending
<1>3. jobs' \in Seq(JobType') /\ Lengthened(jobs, jobs', Job(t, a, v))
  <2>1. jobs' = Append(jobs, Job(t, a, v)) /\ t \in {"create", "follow", "adopt", "acquire", "deliver"}
    BY DEF AcquirePending, Finds
  <2> QED BY <1>1, <1>2, <2>1, QueuePlaces
<1>4. values' \in Seq(ValueType') /\ collections' \in Seq(CollectionType')
  BY <1>1, <1>2, TypesGrow, TypeParts
<1>5. careful' \in BOOLEAN
  BY DEF AcquirePending
<1>6. TypeOK'
  BY <1>1, <1>2, <1>3, <1>4, <1>5, TypeParts, TypePartsAfter
<1> QED BY <1>2, <1>3, <1>6

FirstWaiter(a, v) == [NewValue("pending") EXCEPT !.waiters = <<Job("create", a, v)>>]

\* What a call of the factory does with an acquisition a and the value v.
Made(a, v, nv) ==
    /\ Lengthened(values, values', nv)
    /\ Lengthened(acquisitions, acquisitions', [status |-> "asked", value |-> v])
    /\ UNCHANGED <<current, references, collections, careful>>
    /\ \/ nv = FirstWaiter(a, v) /\ pending' = v /\ known' = TRUE /\ UNCHANGED jobs
       \/ /\ nv = NewValue("plain") /\ pending' = v /\ known' = TRUE
          /\ Lengthened(jobs, jobs', Job("create", a, v))
       \/ /\ nv = NewValue("failed") /\ UNCHANGED <<pending, known>>
          /\ Lengthened(jobs, jobs', Job("acquire", a, v))

LEMMA AcquireNewTyped ==
    ASSUME TypeOK, AcquireNew(Len(acquisitions) + 1), UNCHANGED <<clears, cleared>>
    PROVE  /\ TypeOK'
           /\ \E nv : Made(Len(acquisitions) + 1, Len(values) + 1, nv)
<1> SUFFICES ASSUME NEW a, a = Len(acquisitions) + 1, NEW v, v = Len(values) + 1
             PROVE  TypeOK' /\ \E nv : Made(a, v, nv)
  OBVIOUS
<1> DEFINE Jobs1(nv) ==
             \/ /\ nv = FirstWaiter(a, v) /\ pending' = v /\ known' = TRUE /\ UNCHANGED jobs
             \/ /\ nv = NewValue("plain") /\ pending' = v /\ known' = TRUE
                /\ jobs' = Append(jobs, Job("create", a, v))
             \/ /\ nv = NewValue("failed") /\ UNCHANGED <<pending, known>>
                /\ jobs' = Append(jobs, Job("acquire", a, v))
<1>1. PICK nv : values' = Append(values, nv) /\ Jobs1(nv)
  BY DEF AcquireNew, FirstWaiter
<1>2. /\ acquisitions' = Append(acquisitions, [status |-> "asked", value |-> v])
      /\ UNCHANGED <<current, references, collections, careful>>
  BY DEF AcquireNew
<1>3. values \in Seq(ValueType \cup {nv})
  <2>1. ValueType \subseteq ValueType \cup {nv}
    OBVIOUS
  <2> QED BY <2>1, TypeParts, SeqMonotonic
<1>4. Lengthened(values, values', nv)
  BY <1>1, <1>3, AppendPlaces
<1>5. v \in DOMAIN values' /\ DOMAIN values \subseteq DOMAIN values' /\ Len(values') = Len(values) + 1
      /\ Len(values) \in Nat
  BY <1>4 DEF Lengthened
<1>6. Grows /\ acquisitions' \in Seq(AcquisitionType') /\ a \in DOMAIN acquisitions'
      /\ Lengthened(acquisitions, acquisitions', [status |-> "asked", value |-> v])
  BY <1>2, <1>5, AskPlaces
<1>7. /\ jobs \in Seq(JobType') /\ values \in Seq(ValueType') /\ collections \in Seq(CollectionType')
  BY <1>6, TypesGrow, TypeParts
<1>8. nv \in ValueType'
  <2>1. \A s \in {"pending", "plain", "failed"} :
            NewValue(s) = [status |-> s, disposals |-> 0, waiters |-> <<>>]
    BY DEF NewValue
  <2>2. <<>> \in Seq(JobType') /\ <<Job("create", a, v)>> \in Seq(JobType')
    <3>1. Job("create", a, v) \in JobType'
      BY <1>5, <1>6 DEF Job, JobType
    <3> QED BY <3>1, EmptySeq
  <2>3. FirstWaiter(a, v) = [status |-> "pending", disposals |-> 0, waiters |-> <<Job("create", a, v)>>]
    BY DEF FirstWaiter, NewValue
  <2>4. ValueType' = [status : {"pending", "plain", "resolved", "failed", "created"},
                      disposals : Nat, waiters : Seq(JobType')]
    BY DEF ValueType
  <2>5. \A T : \A ws \in T : \A s \in {"pending", "plain", "failed"} :
           [status |-> s, disposals |-> 0, waiters |-> ws]
              \in [status : {"pending", "plain", "resolved", "failed", "created"}, disposals : Nat, waiters : T]
    OBVIOUS
  <2>6. \A ws \in Seq(JobType') : \A s \in {"pending", "plain", "failed"} :
           [status |-> s, disposals |-> 0, waiters |-> ws] \in ValueType'
    BY <2>4, <2>5
  <2>7. NewValue("plain") \in ValueType' /\ NewValue("failed") \in ValueType'
    BY <2>1, <2>2, <2>6
  <2>8. FirstWaiter(a, v) \in ValueType'
    BY <2>2, <2>3, <2>6
  <2> QED BY <1>1, <2>7, <2>8
<1>9. values' \in Seq(ValueType')
  BY <1>1, <1>7, <1>8, AppendPlaces
<1>10. jobs' \in Seq(JobType') /\ pending' \in 0 .. Len(values') /\ known' \in BOOLEAN
  <2>1. CASE UNCHANGED jobs /\ pending' = v /\ known' = TRUE
    BY <2>1, <1>5, <1>7
  <2>2. CASE jobs' = Append(jobs, Job("create", a, v)) /\ pending' = v /\ known' = TRUE
    BY <2>2, <1>5, <1>6, QueuePlaces
  <2>3. CASE jobs' = Append(jobs, Job("acquire", a, v)) /\ UNCHANGED <<pending, known>>
    <3>1. pending' \in 0 .. Len(values')
      BY <2>3, <1>5, TypeParts
    <3>2. jobs' \in Seq(JobType')
      BY <2>3, <1>5, <1>6, QueuePlaces
    <3>3. known' \in BOOLEAN
      BY <2>3, TypeParts, Zenon
    <3> QED BY <3>1, <3>2, <3>3
  <2> QED BY <1>1, <2>1, <2>2, <2>3
<1>11. TypeOK'
  <2>1. current' \in 0 .. Len(values') /\ references' \in 0 .. Len(collections')
        /\ clears' \in 0 .. MaxClears /\ cleared' \subseteq DOMAIN values'
    BY <1>2, <1>5, TypeParts
  <2>2. careful' \in BOOLEAN
    BY <1>2, TypeParts, Zenon
  <2> QED BY <1>2, <1>6, <1>7, <1>9, <1>10, <2>1, <2>2, TypePartsAfter
<1>12. Made(a, v, nv)
  <2>1. CASE nv = FirstWaiter(a, v) /\ pending' = v /\ known' = TRUE /\ UNCHANGED jobs
    BY <2>1, <1>2, <1>4, <1>6 DEF Made
  <2>2. CASE /\ nv = NewValue("plain") /\ pending' = v /\ known' = TRUE
             /\ jobs' = Append(jobs, Job("create", a, v))
    BY <2>2, <1>2, <1>4, <1>5, <1>6, QueuePlaces DEF Made
  <2>3. CASE /\ nv = NewValue("failed") /\ UNCHANGED <<pending, known>>
             /\ jobs' = Append(jobs, Job("acquire", a, v))
    BY <2>3, <1>2, <1>4, <1>5, <1>6, QueuePlaces DEF Made
  <2> QED BY <1>1, <2>1, <2>2, <2>3
<1> QED BY <1>11, <1>12

\* A value changes its status and its waiters, and nothing else does.
Becomes(v, s, ws) ==
    /\ values' \in Seq(ValueType) /\ DOMAIN values' = DOMAIN values /\ Len(values') = Len(values)
    /\ \A w \in DOMAIN values :
          /\ values'[w].disposals = values[w].disposals
          /\ w # v => values'[w].status = values[w].status /\ values'[w].waiters = values[w].waiters
    /\ values'[v].status = s
    /\ values'[v].waiters = ws

LEMMA BecomesPlaces ==
    ASSUME TypeOK, NEW v \in DOMAIN values,
           NEW s \in {"pending", "plain", "resolved", "failed", "created"}, NEW ws \in Seq(JobType),
           \/ values' = [values EXCEPT ![v].status = s, ![v].waiters = ws]
           \/ values' = [values EXCEPT ![v].status = s] /\ ws = values[v].waiters
           \/ values' = [values EXCEPT ![v].waiters = ws] /\ s = values[v].status
    PROVE  Becomes(v, s, ws)
<1>1. values \in Seq(ValueType) /\ v \in 1 .. Len(values) /\ DOMAIN values = 1 .. Len(values)
      /\ \A w \in DOMAIN values : values[w] \in ValueType
  BY TypeParts, Places
<1> DEFINE e == [status |-> s, disposals |-> values[v].disposals, waiters |-> ws]
<1>2. e \in ValueType /\ e.status = s /\ e.disposals = values[v].disposals /\ e.waiters = ws
  BY <1>1 DEF ValueType
<1>3. values' = [values EXCEPT ![v] = e]
  BY <1>1 DEF ValueType
<1> HIDE DEF e
<1>4. /\ values' \in Seq(ValueType) /\ Len(values') = Len(values)
      /\ \A j \in 1 .. Len(values) : values'[j] = IF j = v THEN e ELSE values[j]
  BY <1>1, <1>2, <1>3, ExceptSeq
<1>5. DOMAIN values' = DOMAIN values
  BY <1>1, <1>4, LenProperties
<1> QED BY <1>1, <1>2, <1>4, <1>5 DEF Becomes

LEMMA SettleTyped ==
    ASSUME TypeOK, NEW v \in DOMAIN values, Settle(v)
    PROVE  /\ TypeOK'
           /\ Becomes(v, "resolved", <<>>) \/ Becomes(v, "failed", <<>>)
           /\ DOMAIN jobs' = 1 .. Len(jobs) + Len(values[v].waiters)
           /\ \A i \in DOMAIN jobs' :
                 jobs'[i] = IF i <= Len(jobs) THEN jobs[i] ELSE values[v].waiters[i - Len(jobs)]
<1>1. UNCHANGED <<pending, current, known, references, collections, acquisitions, clears, cleared, careful>>
  BY DEF Settle
<1>2. Becomes(v, "resolved", <<>>) \/ Becomes(v, "failed", <<>>)
  <2>1. <<>> \in Seq(JobType)
    BY EmptySeq
  <2> QED BY <2>1, BecomesPlaces DEF Settle
<1>3. jobs \in Seq(JobType) /\ values[v].waiters \in Seq(JobType)
  BY TypeParts, Places DEF ValueType
<1> DEFINE ws == values[v].waiters
<1>4. jobs' = jobs \o ws
  BY DEF Settle
<1> HIDE DEF ws
<1>5. /\ jobs' \in Seq(JobType) /\ Len(jobs') = Len(jobs) + Len(ws)
      /\ \A i \in 1 .. Len(jobs) + Len(ws) : jobs'[i] = IF i <= Len(jobs) THEN jobs[i] ELSE ws[i - Len(jobs)]
  BY <1>3, <1>4, ConcatProperties DEF ws
<1>6. DOMAIN jobs' = 1 .. Len(jobs) + Len(ws)
  BY <1>5, LenProperties
<1>7. DOMAIN values' = DOMAIN values /\ values' \in Seq(ValueType) /\ Len(values') = Len(values)
  BY <1>2 DEF Becomes
<1>8. JobType' = JobType /\ ValueType' = ValueType /\ CollectionType' = CollectionType
      /\ AcquisitionType' = AcquisitionType
  BY <1>1, <1>7, SamePlaces
<1>9. TypeOK'
  BY <1>1, <1>5, <1>7, <1>8, TypeParts, TypePartsAfter
<1> QED BY <1>2, <1>5, <1>6, <1>9 DEF ws

-----------------------------------------------------------------------------
(* The jobs keep the types *)

TheJob == Head(jobs)

LEMMA TheJobTyped ==
    ASSUME TypeOK, jobs # <<>>
    PROVE  /\ TheJob = jobs[1] /\ 1 \in DOMAIN jobs /\ TheJob \in JobType
           /\ TheJob.value \in DOMAIN values /\ TheJob.acquisition \in DOMAIN acquisitions
           /\ TheJob.type \in {"create", "follow", "adopt", "acquire", "deliver"}
<1>1. jobs \in Seq(JobType)
  BY TypeParts
<1>2. TheJob = jobs[1] /\ Len(jobs) \in Nat \ {0} /\ DOMAIN jobs = 1 .. Len(jobs)
  BY <1>1, TailPlaces DEF TheJob, Shortened
<1>3. 1 \in DOMAIN jobs /\ jobs[1] \in JobType
  BY <1>2, Places
<1> QED BY <1>2, <1>3 DEF JobType

Next1(t) == Job(t, TheJob.acquisition, TheJob.value)

LEMMA NextJobTyped ==
    ASSUME TypeOK, jobs # <<>>, NEW t \in {"create", "follow", "adopt", "acquire", "deliver"}
    PROVE  /\ Next1(t) \in JobType /\ [TheJob EXCEPT !.type = t] = Next1(t)
           /\ jobs' = Append(Tail(jobs), Next1(t)) =>
                 jobs' \in Seq(JobType) /\ Turned(jobs, jobs', Next1(t))
<1>1. Next1(t) \in JobType
  BY TheJobTyped DEF Next1, Job, JobType
<1>2. [TheJob EXCEPT !.type = t] = Next1(t)
  BY TheJobTyped DEF Next1, Job, JobType
<1>3. jobs \in Seq(JobType)
  BY TypeParts
<1> QED BY <1>1, <1>2, <1>3, TurnPlaces

\* The type of the new state, when no place was added to values or acquisitions.
LEMMA TypeKept ==
    ASSUME TypeOK, DOMAIN values' = DOMAIN values, DOMAIN acquisitions' = DOMAIN acquisitions,
           Len(values') = Len(values),
           values' \in Seq(ValueType), collections' \in Seq(CollectionType),
           acquisitions' \in Seq(AcquisitionType), jobs' \in Seq(JobType),
           pending' \in 0 .. Len(values), current' \in 0 .. Len(values), known' \in BOOLEAN,
           references' \in 0 .. Len(collections'), UNCHANGED <<clears, cleared, careful>>
    PROVE  TypeOK'
<1>1. /\ JobType' = JobType /\ ValueType' = ValueType /\ CollectionType' = CollectionType
      /\ AcquisitionType' = AcquisitionType
  BY SamePlaces
<1>2. careful' \in BOOLEAN
  BY TypeParts, Zenon
<1> QED BY <1>1, <1>2, TypeParts, TypePartsAfter

LEMMA CreateTyped ==
    ASSUME TypeOK, jobs # <<>>, Create(TheJob), UNCHANGED <<clears, cleared, careful>>
    PROVE  /\ TypeOK'
           /\ Turned(jobs, jobs', Next1("acquire"))
           /\ values[TheJob.value].status # "failed" =>
                 Becomes(TheJob.value, "created", values[TheJob.value].waiters)
<1> SUFFICES ASSUME NEW v, v = TheJob.value
             PROVE  /\ TypeOK' /\ Turned(jobs, jobs', Next1("acquire"))
                    /\ values[v].status # "failed" => Becomes(v, "created", values[v].waiters)
  OBVIOUS
<1>1. v \in DOMAIN values /\ DOMAIN values = 1 .. Len(values) /\ Len(values) \in Nat
      /\ values[v].waiters \in Seq(JobType)
  BY TheJobTyped, Places DEF ValueType
<1>2. jobs' \in Seq(JobType) /\ Turned(jobs, jobs', Next1("acquire"))
  BY NextJobTyped DEF Create, Next1
<1>3. pending' = 0 /\ UNCHANGED <<references, collections, acquisitions>>
  BY DEF Create
<1>4. /\ values' \in Seq(ValueType) /\ DOMAIN values' = DOMAIN values /\ Len(values') = Len(values)
      /\ values[v].status # "failed" => Becomes(v, "created", values[v].waiters)
      /\ current' \in 0 .. Len(values)
      /\ known' \in BOOLEAN
  <2>1. CASE values[v].status = "failed"
    BY <2>1, TypeParts DEF Create
  <2>2. CASE values[v].status # "failed"
    <3>1. Becomes(v, "created", values[v].waiters)
      <4>1. values' = [values EXCEPT ![v].status = "created"]
        BY <2>2 DEF Create
      <4>2. \A ws \in Seq(JobType) : ws = values[v].waiters => Becomes(v, "created", ws)
        BY <4>1, <1>1, BecomesPlaces
      <4> QED BY <4>2, <1>1
    <3>2. current' = v
      BY <2>2 DEF Create
    <3>3. known' \in BOOLEAN
      <4>1. UNCHANGED known
        BY <2>2 DEF Create
      <4> QED BY <4>1, TypeParts, Zenon
    <3> QED BY <3>1, <3>2, <3>3, <1>1 DEF Becomes
  <2> QED BY <2>1, <2>2
<1>5. TypeOK'
  <2>1. pending' \in 0 .. Len(values) /\ collections' \in Seq(CollectionType)
        /\ acquisitions' \in Seq(AcquisitionType) /\ references' \in 0 .. Len(collections')
    BY <1>1, <1>3, TypeParts
  <2> QED BY <1>2, <1>3, <1>4, <2>1, TypeKept
<1> QED BY <1>2, <1>4, <1>5

LEMMA FollowTyped ==
    ASSUME TypeOK, jobs # <<>>, Follow(TheJob), UNCHANGED <<clears, cleared, careful>>
    PROVE  /\ TypeOK'
           /\ IF values[TheJob.value].status = "pending"
              THEN /\ Shortened(jobs, jobs')
                   /\ \E ws \in Seq(JobType) :
                        /\ Lengthened(values[TheJob.value].waiters, ws, Next1("adopt"))
                        /\ Becomes(TheJob.value, "pending", ws)
              ELSE Turned(jobs, jobs', Next1("adopt")) /\ UNCHANGED values
<1> SUFFICES ASSUME NEW v, v = TheJob.value, NEW j, j = Next1("adopt")
             PROVE  /\ TypeOK'
                    /\ IF values[v].status = "pending"
                       THEN /\ Shortened(jobs, jobs')
                            /\ \E ws \in Seq(JobType) : Lengthened(values[v].waiters, ws, j) /\ Becomes(v, "pending", ws)
                       ELSE Turned(jobs, jobs', j) /\ UNCHANGED values
  OBVIOUS
<1>1. v \in DOMAIN values /\ DOMAIN values = 1 .. Len(values) /\ Len(values) \in Nat
      /\ values[v].waiters \in Seq(JobType)
  BY TheJobTyped, Places DEF ValueType
<1>2. j \in JobType /\ [TheJob EXCEPT !.type = "adopt"] = j
  BY NextJobTyped
<1>3. UNCHANGED <<pending, current, known, references, collections, acquisitions>>
  BY DEF Follow
<1>4. CASE values[v].status = "pending"
  <2> DEFINE ws == Append(values[v].waiters, j)
  <2>1. ws \in Seq(JobType) /\ Lengthened(values[v].waiters, ws, j)
    BY <1>1, <1>2, AppendPlaces
  <2>2. values' = [values EXCEPT ![v].waiters = ws] /\ jobs' = Tail(jobs)
    BY <1>1, <1>2, <1>4 DEF Follow
  <2> HIDE DEF ws
  <2>3. Becomes(v, "pending", ws)
    BY <1>1, <1>4, <2>1, <2>2, BecomesPlaces
  <2>4. jobs' \in Seq(JobType) /\ Shortened(jobs, jobs')
    BY <2>2, TypeParts, TailPlaces
  <2>5. TypeOK'
    <3>1. values' \in Seq(ValueType) /\ DOMAIN values' = DOMAIN values /\ Len(values') = Len(values)
      BY <2>3 DEF Becomes
    <3>2. known' \in BOOLEAN
      BY <1>3, TypeParts, Zenon
    <3> QED BY <1>3, <2>4, <3>1, <3>2, TypeParts, TypeKept
  <2> QED BY <1>4, <2>1, <2>3, <2>4, <2>5
<1>5. CASE values[v].status # "pending"
  <2>1. jobs' = Append(Tail(jobs), j) /\ UNCHANGED values
    BY <1>2, <1>5 DEF Follow
  <2>2. jobs' \in Seq(JobType) /\ Turned(jobs, jobs', j)
    BY <2>1, NextJobTyped
  <2>3. TypeOK'
    <3>1. known' \in BOOLEAN
      BY <1>3, TypeParts, Zenon
    <3> QED BY <1>3, <2>1, <2>2, <3>1, TypeParts, TypeKept
  <2> QED BY <1>5, <2>1, <2>2, <2>3
<1> QED BY <1>4, <1>5

LEMMA AdoptTyped ==
    ASSUME TypeOK, jobs # <<>>, Adopt(TheJob), UNCHANGED <<clears, cleared, careful>>
    PROVE  TypeOK' /\ Turned(jobs, jobs', Next1("acquire"))
<1>1. UNCHANGED <<values, pending, current, known, references, collections, acquisitions>>
      /\ jobs' = Append(Tail(jobs), Next1("acquire"))
  BY NextJobTyped DEF Adopt
<1>2. jobs' \in Seq(JobType) /\ Turned(jobs, jobs', Next1("acquire"))
  BY <1>1, NextJobTyped
<1>3. known' \in BOOLEAN
  BY <1>1, TypeParts, Zenon
<1> QED BY <1>1, <1>2, <1>3, TypeParts, TypeKept

\* One acquisition changes its status.
Turns(a, s) ==
    /\ acquisitions' \in Seq(AcquisitionType)
    /\ Len(acquisitions') = Len(acquisitions) /\ DOMAIN acquisitions' = DOMAIN acquisitions
    /\ \A b \in DOMAIN acquisitions :
          acquisitions'[b] = [status |-> IF b = a THEN s ELSE acquisitions[b].status,
                              value |-> acquisitions[b].value]

LEMMA AcquireCreatedTyped ==
    ASSUME TypeOK, jobs # <<>>, AcquireCreated(TheJob), UNCHANGED <<clears, cleared, careful>>
    PROVE  /\ TypeOK'
           /\ Turned(jobs, jobs', Next1("deliver"))
           /\ values[TheJob.value].status # "failed" =>
                 /\ Joined(TheJob.acquisition, TheJob.value)
                 /\ Turns(TheJob.acquisition, "granted")
<1> SUFFICES ASSUME NEW v, v = TheJob.value, NEW a, a = TheJob.acquisition
             PROVE  /\ TypeOK' /\ Turned(jobs, jobs', Next1("deliver"))
                    /\ values[v].status # "failed" => Joined(a, v) /\ Turns(a, "granted")
  OBVIOUS
<1>1. v \in DOMAIN values /\ a \in DOMAIN acquisitions
  BY TheJobTyped
<1>2. UNCHANGED <<values, pending, current, known>> /\ jobs' = Append(Tail(jobs), Next1("deliver"))
  BY NextJobTyped DEF AcquireCreated
<1>3. jobs' \in Seq(JobType) /\ Turned(jobs, jobs', Next1("deliver"))
  BY <1>2, NextJobTyped
<1>4. known' \in BOOLEAN
  BY <1>2, TypeParts, Zenon
<1>5. CASE values[v].status = "failed"
  <2>1. UNCHANGED <<references, collections, acquisitions>>
    BY <1>5 DEF AcquireCreated
  <2> QED BY <1>2, <1>3, <1>4, <1>5, <2>1, TypeParts, TypeKept
<1>6. CASE values[v].status # "failed"
  <2>1. DoAcquire(a, v) /\ acquisitions' = [acquisitions EXCEPT ![a].status = "granted"]
    BY <1>6 DEF AcquireCreated
  <2>2. Turns(a, "granted")
    BY <2>1, <1>1, StatusTyped DEF Turns
  <2>3. acquisitions' \in Seq(AcquisitionType) /\ DOMAIN acquisitions' = DOMAIN acquisitions
    BY <2>2 DEF Turns
  <2>4. Grows
    BY <2>3, <1>2 DEF Grows
  <2>5. Joined(a, v)
    BY <2>1, <2>3, <2>4, <1>1, <1>2, JoinPlaces
  <2>6. CollectionType' = CollectionType
    BY <2>3, <1>2, SamePlaces
  <2>7. collections' \in Seq(CollectionType) /\ references' \in 0 .. Len(collections')
    BY <2>5, <2>6 DEF Joined
  <2> QED BY <1>2, <1>3, <1>4, <2>2, <2>3, <2>5, <2>7, TypeParts, TypeKept
<1> QED BY <1>5, <1>6, <1>3

LEMMA DeliverTyped ==
    ASSUME TypeOK, jobs # <<>>, Deliver(TheJob), UNCHANGED <<clears, cleared, careful>>
    PROVE  /\ TypeOK'
           /\ Shortened(jobs, jobs')
           /\ Turns(TheJob.acquisition, IF values[TheJob.value].status = "failed" THEN "failed" ELSE "held")
<1> SUFFICES ASSUME NEW a, a = TheJob.acquisition,
                    NEW s, s = IF values[TheJob.value].status = "failed" THEN "failed" ELSE "held"
             PROVE  TypeOK' /\ Shortened(jobs, jobs') /\ Turns(a, s)
  OBVIOUS
<1>1. UNCHANGED <<values, pending, current, known, references, collections>> /\ jobs' = Tail(jobs)
      /\ acquisitions' = [acquisitions EXCEPT ![a].status = s]
  BY DEF Deliver
<1>2. a \in DOMAIN acquisitions /\ s \in {"asked", "granted", "held", "released", "failed"}
  BY TheJobTyped
<1>3. Turns(a, s)
  BY <1>1, <1>2, StatusTyped DEF Turns
<1>4. jobs' \in Seq(JobType) /\ Shortened(jobs, jobs')
  BY <1>1, TypeParts, TailPlaces
<1>5. known' \in BOOLEAN
  BY <1>1, TypeParts, Zenon
<1>6. acquisitions' \in Seq(AcquisitionType) /\ DOMAIN acquisitions' = DOMAIN acquisitions
  BY <1>3 DEF Turns
<1> QED BY <1>1, <1>3, <1>4, <1>5, <1>6, TypeParts, TypeKept

-----------------------------------------------------------------------------
(* The type invariant *)

LEMMA UserTyped ==
    ASSUME TypeOK, NEW a \in DOMAIN acquisitions, User(a)
    PROVE  TypeOK'
<1>1. CASE Release(a)
  BY <1>1, ReleaseTyped
<1>2. CASE DisposeObject(a)
  <2>1. \A v \in DOMAIN values : v = acquisitions[a].value => TypeOK'
    BY <1>2, DisposedByCallTyped DEF DisposeObject
  <2>2. acquisitions[a].value \in DOMAIN values
    BY Places DEF AcquisitionType
  <2> QED BY <2>1, <2>2
<1> QED BY <1>1, <1>2 DEF User

LEMMA ClearTyped == ASSUME TypeOK, Clear PROVE TypeOK'
<1>1. \A v \in DOMAIN values : v = current => TypeOK'
  BY DisposedByCallTyped DEF Clear
<1>2. current \in DOMAIN values
  BY TypeParts, Places DEF Clear
<1> QED BY <1>1, <1>2

LEMMA AcquireTyped == ASSUME TypeOK, Acquire PROVE TypeOK'
BY AcquireExistingTyped, AcquirePendingTyped, AcquireNewTyped DEF Acquire

LEMMA RunJobCases ==
    ASSUME RunJob
    PROVE  /\ jobs # <<>> /\ UNCHANGED <<clears, cleared, careful>>
           /\ \/ TheJob.type = "create" /\ Create(TheJob)
              \/ TheJob.type = "follow" /\ Follow(TheJob)
              \/ TheJob.type = "adopt" /\ Adopt(TheJob)
              \/ TheJob.type = "acquire" /\ AcquireCreated(TheJob)
              \/ TheJob.type = "deliver" /\ Deliver(TheJob)
BY DEF RunJob, TheJob

LEMMA RunJobTyped == ASSUME TypeOK, RunJob PROVE TypeOK'
BY RunJobCases, CreateTyped, FollowTyped, AdoptTyped, AcquireCreatedTyped, DeliverTyped

LEMMA NextKeepsTypes == TypeOK /\ [Next]_vars => TypeOK'
<1> SUFFICES ASSUME TypeOK, [Next]_vars PROVE TypeOK'
  OBVIOUS
<1>1. CASE Next
  <2>1. ASSUME NEW v \in DOMAIN values, Settle(v) PROVE TypeOK'
    BY <2>1, SettleTyped
  <2> QED BY <1>1, <2>1, AcquireTyped, ClearTyped, RunJobTyped, UserTyped DEF Next
<1>2. CASE UNCHANGED vars
  BY <1>2 DEF vars, TypeOK, JobType
<1> QED BY <1>1, <1>2

\* Every variable of a reference collection has its type, however many references are
\* acquired, released and cleared and in whatever order the factory settles.
THEOREM TypeCorrect == Spec => []TypeOK
BY InitTyped, NextKeepsTypes, PTL DEF Spec

-----------------------------------------------------------------------------
(* The inductive invariant *)

\* A job is a step of the one acquisition it names, which has no other; and there is at
\* most one creation, that of the value that is pending.
JobsKnown ==
    \A i \in DOMAIN jobs :
        LET a == jobs[i].acquisition
            v == jobs[i].value
        IN  /\ acquisitions[a].value = v
            /\ jobs[i].type # "deliver" => acquisitions[a].status = "asked"
            /\ jobs[i].type = "deliver" /\ values[v].status # "failed" => acquisitions[a].status = "granted"
            /\ jobs[i].type = "create" => v = pending
            /\ \A j \in DOMAIN jobs : jobs[j].acquisition = a => i = j
            /\ \A j \in DOMAIN jobs : jobs[i].type = "create" /\ jobs[j].type = "create" => i = j

\* Only the pending value can have acquisitions that wait for its promise: the one that
\* called the factory, which is the first, and those that adopt its result.
WaitersKnown ==
    \A v \in DOMAIN values :
        /\ values[v].status \in {"pending", "plain", "resolved"} => v = pending
        /\ values[v].status # "pending" => values[v].waiters = <<>>
        /\ values[v].status = "pending" =>
             /\ Len(values[v].waiters) > 0
             /\ \A i \in DOMAIN values[v].waiters :
                  LET w == values[v].waiters[i]
                  IN  /\ w.value = v
                      /\ w.type = IF i = 1 THEN "create" ELSE "adopt"
                      /\ acquisitions[w.acquisition].value = v
                      /\ acquisitions[w.acquisition].status = "asked"
                      /\ \A j \in DOMAIN jobs : jobs[j].acquisition # w.acquisition
                      /\ \A j \in DOMAIN values[v].waiters :
                            values[v].waiters[j].acquisition = w.acquisition => i = j

\* The creation of v is queued; what is in front of it will be behind it in time, and
\* nobody gets a reference before it.
CreationQueued(v) ==
    \E i \in DOMAIN jobs :
        /\ jobs[i].type = "create" /\ jobs[i].value = v
        /\ values[v].status # "failed" =>
             \A j \in DOMAIN jobs : jobs[j].value = v =>
                /\ j < i => jobs[j].type = "follow"
                /\ j > i => jobs[j].type \in {"adopt", "acquire"}

\* The pending value is not created yet, and its creation is queued once it is settled.
Creation ==
    pending # 0 =>
        /\ values[pending].status # "created"
        /\ values[pending].status = "pending" =>
              \A j \in DOMAIN jobs : jobs[j].value = pending => jobs[j].type = "follow"
        /\ values[pending].status # "pending" => CreationQueued(pending)

(* The acquisitions of v reach doAcquire one after the other, and each is told of its
   reference a job later. Nobody can release v before all have reached it: either the
   first has not reached it yet and the adoptions are all in front of it, or somebody
   will be told only after all of them. *)
AllGranted(v) == \A j \in DOMAIN jobs : jobs[j].value = v => jobs[j].type = "deliver"

FirstComing(v) ==
    /\ \A a \in DOMAIN acquisitions : acquisitions[a].value = v => acquisitions[a].status # "held"
    /\ \E i \in DOMAIN jobs :
          /\ jobs[i].type = "acquire" /\ jobs[i].value = v
          /\ \A j \in DOMAIN jobs : jobs[j].value = v =>
                /\ j < i => jobs[j].type # "deliver"
                /\ j > i => jobs[j].type \in {"acquire", "deliver"}
                /\ jobs[j].type \in {"adopt", "acquire", "deliver"}
LastGranted(v) ==
    \E i \in DOMAIN jobs :
        /\ jobs[i].type = "deliver" /\ jobs[i].value = v
        /\ \A j \in DOMAIN jobs : jobs[j].value = v =>
              jobs[j].type = "deliver" \/ (jobs[j].type = "acquire" /\ j < i)

\* A value that was created is that of the key as long as it is not disposed; a value that
\* is disposed has no acquisition that is still to reach it.
Lives ==
    \A v \in DOMAIN values :
        values[v].status = "created" =>
            IF values[v].disposals = 0
            THEN /\ v = current
                 /\ FirstComing(v) \/ (references # 0 /\ (LastGranted(v) \/ AllGranted(v)))
            ELSE AllGranted(v)

\* The maps agree, and the references of the key belong to its value.
Keys ==
    /\ current # 0 => Alive(current) /\ pending = 0
    /\ known <=> (current # 0 \/ pending # 0)
    /\ references # 0 =>
          /\ current # 0
          /\ collections[references].value = current
          /\ collections[references].members # {}

\* Only the references of the key have members: acquisitions that were granted.
Members ==
    \A c \in DOMAIN collections : \A a \in collections[c].members :
        /\ c = references
        /\ acquisitions[a].value = current
        /\ acquisitions[a].status \in {"granted", "held"}

\* Whoever was granted a reference is among them, or its value was disposed by a call.
Grants ==
    \A a \in DOMAIN acquisitions : acquisitions[a].status \in {"granted", "held"} =>
        LET v == acquisitions[a].value
        IN  /\ values[v].status = "created"
            /\ Alive(v) => references # 0 /\ a \in collections[references].members
            /\ Alive(v) \/ v \in cleared

\* A value is disposed once, and once more only by a call.
Disposals ==
    \A v \in DOMAIN values :
        /\ values[v].disposals <= IF v \in cleared THEN 2 ELSE 1
        /\ values[v].status # "created" => values[v].disposals = 0

\* The references are in order.
Good == JobsKnown /\ WaitersKnown /\ Creation /\ Lives /\ Keys /\ Members /\ Grants /\ Disposals

\* The order of the jobs matters only as long as everybody is careful.
Inv == TypeOK /\ (careful => Good)

LEMMA GoodAtFirst == ASSUME Init PROVE Good
BY DEF Init, Good, JobsKnown, WaitersKnown, Creation, Lives, Keys, Members, Grants, Disposals

-----------------------------------------------------------------------------
(* Disposal *)

\* Nothing moves but statuses of acquisitions that were held, and disposals.
Quiet ==
    /\ UNCHANGED <<jobs, pending>>
    /\ DOMAIN values' = DOMAIN values /\ DOMAIN acquisitions' = DOMAIN acquisitions
    /\ \A w \in DOMAIN values :
          values'[w].status = values[w].status /\ values'[w].waiters = values[w].waiters
    /\ \A b \in DOMAIN acquisitions :
          /\ acquisitions'[b].value = acquisitions[b].value
          /\ acquisitions'[b].status = acquisitions[b].status
                \/ (acquisitions[b].status = "held" /\ acquisitions'[b].status = "released")

LEMMA JobTypes ==
    ASSUME TypeOK, NEW i \in DOMAIN jobs
    PROVE  /\ jobs[i].type \in {"create", "follow", "adopt", "acquire", "deliver"}
           /\ jobs[i].acquisition \in DOMAIN acquisitions /\ jobs[i].value \in DOMAIN values
BY Places DEF JobType

LEMMA WaiterTypes ==
    ASSUME TypeOK, NEW v \in DOMAIN values
    PROVE  /\ Len(values[v].waiters) \in Nat /\ DOMAIN values[v].waiters = 1 .. Len(values[v].waiters)
           /\ \A i \in DOMAIN values[v].waiters :
                /\ values[v].waiters[i].acquisition \in DOMAIN acquisitions
                /\ values[v].waiters[i].value \in DOMAIN values
<1>1. values[v].waiters \in Seq(JobType)
  BY Places DEF ValueType
<1>2. Len(values[v].waiters) \in Nat /\ DOMAIN values[v].waiters = 1 .. Len(values[v].waiters)
  BY <1>1, LenProperties
<1>3. \A i \in DOMAIN values[v].waiters : values[v].waiters[i] \in JobType
  BY <1>1, <1>2, ElementOfSeq
<1> QED BY <1>2, <1>3 DEF JobType

LEMMA QuietKeeps ==
    ASSUME TypeOK, Good, Quiet
    PROVE  JobsKnown' /\ WaitersKnown' /\ Creation'
<1>1. JobsKnown'
  BY JobTypes DEF Good, JobsKnown, Quiet
<1>2. WaitersKnown'
  BY WaiterTypes DEF Good, WaitersKnown, Quiet
<1>3. Creation'
  <2>1. pending # 0 => pending \in DOMAIN values
    BY TypeParts, Places
  <2>2. \A v \in DOMAIN values : CreationQueued(v) => CreationQueued(v)'
    BY DEF CreationQueued, Quiet
  <2>3. UNCHANGED <<jobs, pending>> /\ (pending # 0 => values'[pending].status = values[pending].status)
    BY <2>1 DEF Quiet
  <2> QED BY <2>1, <2>2, <2>3 DEF Good, Creation
<1> QED BY <1>1, <1>2, <1>3

LEMMA QuietOrder ==
    ASSUME TypeOK, Quiet, NEW v \in DOMAIN values
    PROVE  /\ AllGranted(v) => AllGranted(v)'
           /\ FirstComing(v) => FirstComing(v)'
           /\ LastGranted(v) => LastGranted(v)'
<1>1. AllGranted(v) => AllGranted(v)'
  BY DEF AllGranted, Quiet
<1>2. FirstComing(v) => FirstComing(v)'
  BY DEF FirstComing, Quiet
<1>3. LastGranted(v) => LastGranted(v)'
  BY DEF LastGranted, Quiet
<1> QED BY <1>1, <1>2, <1>3

\* The value of the key is disposed, with the collections colls, and with at most one member left.
LEMMA ValueGone ==
    ASSUME TypeOK, Good, current # 0, references # 0, AllGranted(current), Quiet,
           NEW colls, Disposed(current, colls), DisposeValue(current, colls),
           \A c \in DOMAIN collections : colls[c].members \subseteq collections[c].members,
           \/ current \in cleared'
           \/ \A c \in DOMAIN collections : colls[c].members = {},
           cleared \subseteq cleared',
           \A b \in DOMAIN acquisitions :
               acquisitions[b].value = current /\ acquisitions'[b].status \in {"granted", "held"}
                  => current \in cleared'
    PROVE  Good'
<1> SUFFICES ASSUME NEW v, v = current PROVE Good'
  OBVIOUS
<1>1. v \in DOMAIN values /\ references \in DOMAIN collections /\ 0 \notin DOMAIN collections
      /\ DOMAIN collections' = DOMAIN collections
  BY TypeParts, Places DEF Disposed
<1>2. /\ Alive(v) /\ pending = 0 /\ collections[references].value = v
      /\ \A w \in DOMAIN values : Alive(w) => w = v
  BY <1>1 DEF Good, Keys, Lives, Alive
<1>3. current' = 0 /\ known' = FALSE /\ references' = 0 /\ UNCHANGED pending
  BY <1>1, <1>2 DEF DisposeValue, CollectionsOf, Quiet
<1>4. JobsKnown' /\ WaitersKnown' /\ Creation'
  BY QuietKeeps
<1>5. /\ values'[v].disposals \in {1, 2}
      /\ v \notin cleared' => values'[v].disposals = 1
      /\ \A w \in DOMAIN values : w # v => values'[w].disposals = values[w].disposals
      /\ \A w \in DOMAIN values : values'[w].status = values[w].status
      /\ DOMAIN values' = DOMAIN values
  <2>1. values[v].disposals = 0
    BY <1>2 DEF Alive
  <2>2. v \notin cleared' => ~ \E c \in CollectionsOf(v) : colls[c].members # {}
    BY DEF CollectionsOf
  <2> QED BY <2>1, <2>2 DEF Disposed
<1>6. \A w \in DOMAIN values' : ~Alive(w)'
  BY <1>2, <1>5 DEF Alive
<1>7. Lives'
  <2> SUFFICES ASSUME NEW w \in DOMAIN values, values'[w].status = "created"
               PROVE  AllGranted(w)'
    BY <1>5, <1>6 DEF Lives, Alive
  <2>1. AllGranted(w)
    <3>1. CASE w = v
      BY <3>1
    <3>2. CASE w # v
      <4>1. values[w].status = "created" /\ values[w].disposals # 0
        BY <1>2, <1>5, <3>2 DEF Alive
      <4> QED BY <4>1 DEF Good, Lives
    <3> QED BY <3>1, <3>2
  <2> QED BY <2>1, QuietOrder
<1>8. Keys'
  BY <1>2, <1>3 DEF Keys
<1>9. Members'
  <2> SUFFICES ASSUME NEW c \in DOMAIN collections, collections'[c].members # {} PROVE FALSE
    BY <1>1 DEF Members
  <2>1. colls[c].members # {} /\ c \notin CollectionsOf(v)
    BY DEF Disposed
  <2>2. collections[c].members # {}
    BY <2>1
  <2>3. c = references
    BY <2>2 DEF Good, Members
  <2> QED BY <1>2, <2>1, <2>3 DEF CollectionsOf
<1>10. Grants'
  <2> SUFFICES ASSUME NEW b \in DOMAIN acquisitions, acquisitions'[b].status \in {"granted", "held"},
                      NEW w, w = acquisitions[b].value
               PROVE  values'[w].status = "created" /\ w \in cleared' /\ w \in DOMAIN values
    BY <1>6 DEF Grants, Quiet
  <2>1. w \in DOMAIN values
    BY Places DEF AcquisitionType
  <2>2. acquisitions[b].status \in {"granted", "held"}
    BY DEF Quiet
  <2>3. values[w].status = "created" /\ (Alive(w) \/ w \in cleared)
    BY <2>2 DEF Good, Grants
  <2>4. w \in cleared'
    BY <1>2, <2>1, <2>3
  <2> QED BY <1>5, <2>1, <2>3, <2>4
<1>11. Disposals'
  <2> SUFFICES ASSUME NEW w \in DOMAIN values
               PROVE  /\ values'[w].disposals <= IF w \in cleared' THEN 2 ELSE 1
                      /\ values'[w].status # "created" => values'[w].disposals = 0
    BY <1>5 DEF Disposals
  <2>1. CASE w = v
    BY <2>1, <1>2, <1>5 DEF Alive
  <2>2. CASE w # v
    <3>1. values[w].disposals \in Nat
      BY Places DEF ValueType
    <3> QED BY <2>2, <3>1, <1>5 DEF Good, Disposals
  <2> QED BY <2>1, <2>2
<1> QED BY <1>4, <1>7, <1>8, <1>9, <1>10, <1>11 DEF Good

LEMMA ReleaseKeeps ==
    ASSUME TypeOK, Good, NEW a \in DOMAIN acquisitions, Release(a)
    PROVE  Good'
<1>1. Released(a)
  BY ReleaseDone
<1>2. CASE /\ \A c \in DOMAIN collections :
                a \in collections[c].members => collections[c].members \ {a} # {}
           /\ collections' = Without(a)
           /\ UNCHANGED <<values, current, known, references>>
  <2>1. Quiet /\ UNCHANGED <<values, current, known, references, cleared, pending, jobs>>
    BY <1>1, <1>2 DEF Quiet, Released
  <2>2. DOMAIN collections' = DOMAIN collections
        /\ \A c \in DOMAIN collections : /\ collections'[c].value = collections[c].value
                                         /\ collections'[c].members = collections[c].members \ {a}
    BY <1>2, WithoutTyped
  <2>3. JobsKnown' /\ WaitersKnown' /\ Creation'
    BY <2>1, QuietKeeps
  <2>4. Lives'
    <3>1. \A v \in DOMAIN values : /\ AllGranted(v) => AllGranted(v)'
                                   /\ FirstComing(v) => FirstComing(v)'
                                   /\ LastGranted(v) => LastGranted(v)'
      BY <2>1, QuietOrder
    <3> QED BY <2>1, <3>1 DEF Good, Lives
  <2>5. Keys'
    <3>1. references # 0 => references \in DOMAIN collections
      BY TypeParts, Places
    <3>2. references # 0 => collections'[references].members # {} /\ collections'[references].value = current
      BY <1>2, <2>2, <3>1 DEF Good, Keys
    <3> QED BY <2>1, <3>2 DEF Good, Keys, Alive
  <2>6. Members'
    <3> SUFFICES ASSUME NEW c \in DOMAIN collections, NEW b \in collections[c].members, b # a
                 PROVE  /\ c = references /\ acquisitions'[b].value = current
                        /\ acquisitions'[b].status \in {"granted", "held"}
      BY <2>1, <2>2 DEF Members
    <3>1. b \in DOMAIN acquisitions
      BY Places DEF CollectionType
    <3> QED BY <3>1, <1>1 DEF Good, Members, Released
  <2>7. Grants'
    <3> SUFFICES ASSUME NEW b \in DOMAIN acquisitions, acquisitions'[b].status \in {"granted", "held"},
                        NEW v, v = acquisitions[b].value
                 PROVE  /\ values[v].status = "created"
                        /\ Alive(v) => references # 0 /\ b \in collections'[references].members
                        /\ Alive(v) \/ v \in cleared
      BY <1>1, <2>1 DEF Grants, Released, Alive
    <3>1. b # a /\ acquisitions[b].status \in {"granted", "held"}
      BY <1>1 DEF Released
    <3>2. references # 0 => references \in DOMAIN collections
      BY TypeParts, Places
    <3> QED BY <3>1, <3>2, <2>2 DEF Good, Grants
  <2>8. Disposals'
    BY <2>1 DEF Good, Disposals
  <2> QED BY <2>3, <2>4, <2>5, <2>6, <2>7, <2>8 DEF Good
<1>3. ASSUME NEW c \in DOMAIN collections, a \in collections[c].members,
             collections[c].members \ {a} = {}, NEW v, v = collections[c].value,
             NEW colls, colls = Without(a), DisposeValue(v, colls)
      PROVE  Good'
  <2>1. v \in DOMAIN values /\ 0 \notin DOMAIN collections
    BY <1>3, Places DEF CollectionType
  <2>2. /\ c = references /\ references # 0 /\ v = current /\ acquisitions[a].value = current
        /\ acquisitions[a].status = "held" /\ current # 0 /\ current \in DOMAIN values /\ Alive(current)
    BY <1>1, <1>3, <2>1 DEF Good, Members, Keys, Released
  <2>3. /\ colls \in Seq(CollectionType) /\ Len(colls) = Len(collections)
        /\ DOMAIN colls = DOMAIN collections
        /\ \A d \in DOMAIN collections : /\ colls[d].value = collections[d].value
                                         /\ colls[d].members = collections[d].members \ {a}
    BY <1>3, WithoutTyped
  <2>4. Disposed(v, colls)
    BY <1>3, <2>1, <2>3, DisposalTyped
  <2>5. Quiet
    BY <1>1, <2>4 DEF Quiet, Released, Disposed
  <2>6. AllGranted(current)
    <3>1. ~FirstComing(current)
      BY <2>2 DEF FirstComing
    <3>2. ASSUME LastGranted(current) PROVE FALSE
      <4>1. PICK i \in DOMAIN jobs : jobs[i].type = "deliver" /\ jobs[i].value = current
        BY <3>2 DEF LastGranted
      <4>2. ASSUME NEW b, b = jobs[i].acquisition PROVE FALSE
        <5>1. b \in DOMAIN acquisitions /\ acquisitions[b].value = current /\ acquisitions[b].status = "granted"
          BY <2>2, <4>1, <4>2, JobTypes DEF Good, JobsKnown, Alive
        <5>2. b \in collections[references].members
          BY <2>2, <5>1 DEF Good, Grants
        <5> QED BY <1>3, <2>2, <5>1, <5>2
      <4> QED BY <4>2
    <3> QED BY <3>1, <3>2, <2>2 DEF Good, Lives, Alive
  <2>7. \A d \in DOMAIN collections : colls[d].members = {}
    BY <1>3, <2>2, <2>3 DEF Good, Members
  <2>8. ASSUME NEW b \in DOMAIN acquisitions, acquisitions[b].value = current,
               acquisitions'[b].status \in {"granted", "held"}
        PROVE  FALSE
    <3>1. b # a /\ acquisitions[b].status \in {"granted", "held"}
      BY <1>1, <2>8 DEF Released
    <3>2. b \in collections[references].members
      BY <2>2, <2>8, <3>1 DEF Good, Grants
    <3> QED BY <1>3, <2>2, <3>1, <3>2
  <2>9. UNCHANGED cleared
    BY <1>1 DEF Released
  <2> QED BY <1>3, <2>2, <2>3, <2>4, <2>5, <2>6, <2>7, <2>8, <2>9, ValueGone
<1> QED BY <1>1, <1>2, <1>3 DEF Released

LEMMA DisposedByCallKeeps ==
    ASSUME TypeOK, Good, NEW v \in DOMAIN values, Alive(v), DisposedByCall(v), careful'
    PROVE  Good'
<1>1. /\ v = current /\ current # 0 /\ Coming(v) = {} /\ cleared' = cleared \cup {v}
      /\ UNCHANGED <<pending, acquisitions, jobs>> /\ DisposeValue(v, collections)
  <2>1. 0 \notin DOMAIN values
    BY Places
  <2> QED BY <2>1 DEF Good, Lives, Alive, DisposedByCall
<1>2. \A j \in DOMAIN jobs : ~(jobs[j].type = "acquire" /\ jobs[j].value = v)
  BY <1>1 DEF Coming
<1>3. references # 0 /\ AllGranted(v)
  <2>1. ~FirstComing(v)
    BY <1>2 DEF FirstComing
  <2>2. LastGranted(v) => AllGranted(v)
    BY <1>2 DEF LastGranted, AllGranted
  <2> QED BY <2>1, <2>2, <1>1 DEF Good, Lives, Alive
<1>4. Disposed(v, collections)
  <2>1. collections \in Seq(CollectionType)
    BY TypeParts
  <2> QED BY <2>1, <1>1, DisposalTyped
<1>5. Quiet
  BY <1>1, <1>4 DEF Quiet, Disposed
<1> QED BY <1>1, <1>3, <1>4, <1>5, ValueGone

LEMMA ClearKeeps ==
    ASSUME TypeOK, Good, Clear, careful'
    PROVE  Good'
<1> SUFFICES ASSUME NEW v, v = current PROVE Good'
  OBVIOUS
<1>1. v \in DOMAIN values
  BY TypeParts, Places DEF Clear
<1>2. Alive(v)
  BY DEF Good, Keys, Clear
<1> QED BY <1>1, <1>2, DisposedByCallKeeps DEF Clear

LEMMA DisposeObjectKeeps ==
    ASSUME TypeOK, Good, NEW a \in DOMAIN acquisitions, DisposeObject(a), careful'
    PROVE  Good'
<1> SUFFICES ASSUME NEW v, v = acquisitions[a].value PROVE Good'
  OBVIOUS
<1>1. v \in DOMAIN values
  BY Places DEF AcquisitionType
<1> QED BY <1>1, DisposedByCallKeeps DEF DisposeObject

-----------------------------------------------------------------------------
(* Acquisition *)

\* All acquisitions but a stay as they are.
OthersStay(a) ==
    /\ DOMAIN acquisitions \subseteq DOMAIN acquisitions'
    /\ \A b \in DOMAIN acquisitions' : b # a =>
          /\ b \in DOMAIN acquisitions
          /\ acquisitions'[b].status = acquisitions[b].status
          /\ acquisitions'[b].value = acquisitions[b].value

LEMMA JoinKeeps ==
    ASSUME TypeOK, Good, current # 0, NEW a \in DOMAIN acquisitions', Joined(a, current), OthersStay(a),
           UNCHANGED <<values, pending, current, known, cleared>>,
           acquisitions'[a].status = "granted", acquisitions'[a].value = current
    PROVE  references' # 0 /\ Keys' /\ Members' /\ Grants' /\ Disposals'
<1>1. references # 0 => references \in DOMAIN collections
  BY TypeParts, Places
<1>2. 0 \notin DOMAIN collections /\ current \in DOMAIN values
  BY TypeParts, Places
<1>3. \A v \in DOMAIN values : Alive(v) => v = current
  BY DEF Good, Lives, Alive
<1>4. /\ references' # 0 /\ collections'[references'].value = current
      /\ a \in collections'[references'].members
      /\ \A c \in DOMAIN collections' : c # references' => c \in DOMAIN collections /\ c # references
      /\ \A c \in DOMAIN collections : c # references => collections'[c].members = collections[c].members
      /\ references # 0 =>
            references' = references
            /\ collections'[references].members = collections[references].members \cup {a}
      /\ references = 0 => collections'[references'].members = {a}
  BY <1>1, <1>2 DEF Joined, Good, Keys
<1>5. Keys'
  BY <1>4 DEF Good, Keys, Alive
<1>6. Members'
  <2> SUFFICES ASSUME NEW c \in DOMAIN collections', NEW b \in collections'[c].members
               PROVE  /\ c = references' /\ acquisitions'[b].value = current
                      /\ acquisitions'[b].status \in {"granted", "held"}
    BY DEF Members
  <2>1. c = references'
    <3> SUFFICES ASSUME c # references' PROVE FALSE
      OBVIOUS
    <3>1. c \in DOMAIN collections /\ c # references /\ b \in collections[c].members
      BY <1>4
    <3> QED BY <3>1 DEF Good, Members
  <2>2. CASE b = a
    BY <2>1, <2>2
  <2>3. CASE b # a
    <3>1. references # 0 /\ b \in collections[references].members
      BY <2>1, <2>3, <1>4
    <3>2. b \in DOMAIN acquisitions
      BY <3>1, <1>1, Places DEF CollectionType
    <3>3. acquisitions[b].value = current /\ acquisitions[b].status \in {"granted", "held"}
      BY <3>1, <1>1 DEF Good, Members
    <3> QED BY <2>1, <2>3, <3>2, <3>3 DEF OthersStay
  <2> QED BY <2>2, <2>3
<1>7. Grants'
  <2> SUFFICES ASSUME NEW b \in DOMAIN acquisitions', acquisitions'[b].status \in {"granted", "held"},
                      NEW v, v = acquisitions'[b].value
               PROVE  /\ values[v].status = "created"
                      /\ Alive(v) => references' # 0 /\ b \in collections'[references'].members
                      /\ Alive(v) \/ v \in cleared
    BY DEF Grants, Alive
  <2>1. CASE b = a
    BY <2>1, <1>4 DEF Good, Keys, Alive
  <2>2. CASE b # a
    <3>1. b \in DOMAIN acquisitions /\ acquisitions[b].status \in {"granted", "held"} /\ acquisitions[b].value = v
      BY <2>2 DEF OthersStay
    <3>2. /\ values[v].status = "created"
          /\ Alive(v) => references # 0 /\ b \in collections[references].members
          /\ Alive(v) \/ v \in cleared
      BY <3>1 DEF Good, Grants
    <3> QED BY <3>2, <1>4
  <2> QED BY <2>1, <2>2
<1>8. Disposals'
  BY DEF Good, Disposals
<1> QED BY <1>4, <1>5, <1>6, <1>7, <1>8

\* A job for the value v is added: the order of the jobs of other values is the same.
LEMMA OtherOrder ==
    ASSUME TypeOK, NEW x, Lengthened(jobs, jobs', x), NEW a, OthersStay(a),
           a \in DOMAIN acquisitions' => acquisitions'[a].status # "held",
           NEW v \in DOMAIN values, x.value # v
    PROVE  /\ AllGranted(v) => AllGranted(v)'
           /\ FirstComing(v) => FirstComing(v)'
           /\ LastGranted(v) => LastGranted(v)'
<1>1. \A j \in DOMAIN jobs' : jobs'[j].value = v => j \in DOMAIN jobs /\ jobs'[j] = jobs[j]
  BY DEF Lengthened
<1>2. \A j \in DOMAIN jobs : j \in DOMAIN jobs' /\ jobs'[j] = jobs[j]
  BY DEF Lengthened
<1>3. AllGranted(v) => AllGranted(v)'
  BY <1>1 DEF AllGranted
<1>4. FirstComing(v) => FirstComing(v)'
  BY <1>1, <1>2 DEF FirstComing, OthersStay
<1>5. LastGranted(v) => LastGranted(v)'
  BY <1>1, <1>2 DEF LastGranted
<1> QED BY <1>3, <1>4, <1>5

\* A granted acquisition of v joins the queue.
LEMMA DeliveryLast ==
    ASSUME TypeOK, NEW x, Lengthened(jobs, jobs', x), NEW a, OthersStay(a),
           a \in DOMAIN acquisitions' => acquisitions'[a].status # "held",
           NEW v \in DOMAIN values, x.type = "deliver"
    PROVE  /\ AllGranted(v) => AllGranted(v)'
           /\ FirstComing(v) => FirstComing(v)'
           /\ LastGranted(v) => LastGranted(v)'
<1>1. \A j \in DOMAIN jobs' : (j \in DOMAIN jobs /\ jobs'[j] = jobs[j]) \/ (jobs'[j].type = "deliver" /\ j = Len(jobs) + 1)
  BY DEF Lengthened
<1>2. \A j \in DOMAIN jobs : j \in DOMAIN jobs' /\ jobs'[j] = jobs[j] /\ j < Len(jobs) + 1
  BY DEF Lengthened
<1>3. AllGranted(v) => AllGranted(v)'
  BY <1>1 DEF AllGranted
<1>4. FirstComing(v) => FirstComing(v)'
  <2> SUFFICES ASSUME FirstComing(v) PROVE FirstComing(v)'
    OBVIOUS
  <2>1. \A b \in DOMAIN acquisitions' : acquisitions'[b].value = v => acquisitions'[b].status # "held"
    BY DEF FirstComing, OthersStay
  <2>2. PICK i \in DOMAIN jobs :
          /\ jobs[i].type = "acquire" /\ jobs[i].value = v
          /\ \A j \in DOMAIN jobs : jobs[j].value = v =>
                /\ j < i => jobs[j].type # "deliver"
                /\ j > i => jobs[j].type \in {"acquire", "deliver"}
                /\ jobs[j].type \in {"adopt", "acquire", "deliver"}
    BY DEF FirstComing
  <2>3. ~(Len(jobs) + 1 < i) /\ i \in DOMAIN jobs' /\ jobs'[i] = jobs[i]
    BY <1>2, Places
  <2> QED BY <2>1, <2>2, <2>3, <1>1 DEF FirstComing
<1>5. LastGranted(v) => LastGranted(v)'
  BY <1>1, <1>2 DEF LastGranted
<1> QED BY <1>3, <1>4, <1>5

LEMMA AcquireExistingKeeps ==
    ASSUME TypeOK, Good, AcquireExisting(Len(acquisitions) + 1), UNCHANGED <<clears, cleared>>
    PROVE  Good'
<1> SUFFICES ASSUME NEW a, a = Len(acquisitions) + 1, NEW x, x = Job("deliver", a, current) PROVE Good'
  OBVIOUS
<1>1. /\ Joined(a, current) /\ Lengthened(jobs, jobs', x)
      /\ Lengthened(acquisitions, acquisitions', [status |-> "granted", value |-> current])
  BY AcquireExistingTyped
<1>2. current # 0 /\ UNCHANGED <<values, pending, current, known, careful, cleared>>
  BY DEF AcquireExisting
<1>3. /\ OthersStay(a) /\ a \in DOMAIN acquisitions' /\ a \notin DOMAIN acquisitions
      /\ acquisitions'[a].status = "granted" /\ acquisitions'[a].value = current
      /\ \A b \in DOMAIN acquisitions : /\ b \in DOMAIN acquisitions'
                                        /\ acquisitions'[b].status = acquisitions[b].status
                                        /\ acquisitions'[b].value = acquisitions[b].value
  BY <1>1 DEF Lengthened, OthersStay
<1>4. references' # 0 /\ Keys' /\ Members' /\ Grants' /\ Disposals'
  BY <1>1, <1>2, <1>3, JoinKeeps
<1>5. x.type = "deliver" /\ x.acquisition = a /\ x.value = current
  BY DEF Job
<1>6. pending = 0 /\ current \in DOMAIN values
  BY <1>2, TypeParts, Places DEF Good, Keys
<1>7. \A i \in DOMAIN jobs' : (i \in DOMAIN jobs /\ jobs'[i] = jobs[i]) \/ (i = Len(jobs) + 1 /\ jobs'[i] = x)
  BY <1>1 DEF Lengthened
<1>8. JobsKnown'
  BY <1>2, <1>3, <1>5, <1>7, JobTypes DEF Good, JobsKnown
<1>9. WaitersKnown'
  <2>1. \A v \in DOMAIN values : values[v].status # "pending"
    BY <1>6, Places DEF Good, WaitersKnown
  <2> QED BY <2>1, <1>2 DEF Good, WaitersKnown
<1>10. Creation'
  BY <1>2, <1>6 DEF Creation
<1>11. Lives'
  <2>1. \A v \in DOMAIN values : /\ AllGranted(v) => AllGranted(v)'
                                 /\ FirstComing(v) => FirstComing(v)'
                                 /\ LastGranted(v) => LastGranted(v)'
    BY <1>1, <1>3, <1>5, DeliveryLast
  <2> QED BY <2>1, <1>2, <1>4 DEF Good, Lives
<1> QED BY <1>4, <1>8, <1>9, <1>10, <1>11 DEF Good

LEMMA AcquirePendingKeeps ==
    ASSUME TypeOK, Good, AcquirePending(Len(acquisitions) + 1), UNCHANGED <<clears, cleared>>, careful'
    PROVE  Good'
<1> SUFFICES ASSUME NEW a, a = Len(acquisitions) + 1, NEW p, p = pending,
                    NEW x, x = Job(Finds(p), a, p) PROVE Good'
  OBVIOUS
<1>1. /\ Lengthened(jobs, jobs', x)
      /\ Lengthened(acquisitions, acquisitions', [status |-> "asked", value |-> p])
  BY AcquirePendingTyped
<1>2. /\ current = 0 /\ pending # 0 /\ values[p].status # "resolved"
      /\ UNCHANGED <<values, pending, current, known, references, collections, cleared>>
  BY DEF AcquirePending
<1>3. /\ OthersStay(a) /\ a \in DOMAIN acquisitions' /\ a \notin DOMAIN acquisitions
      /\ acquisitions'[a].status = "asked" /\ acquisitions'[a].value = p
      /\ \A b \in DOMAIN acquisitions : /\ b \in DOMAIN acquisitions'
                                        /\ acquisitions'[b].status = acquisitions[b].status
                                        /\ acquisitions'[b].value = acquisitions[b].value
  BY <1>1 DEF Lengthened, OthersStay
<1>4. /\ x.type = (IF values[p].status = "plain" THEN "acquire" ELSE "follow")
      /\ x.acquisition = a /\ x.value = p
  BY DEF Job, Finds
<1>5. p \in DOMAIN values /\ values[p].status # "created" /\ 0 \notin DOMAIN values
  BY <1>2, TypeParts, Places DEF Good, Creation
<1>6. /\ \A i \in DOMAIN jobs' : (i \in DOMAIN jobs /\ jobs'[i] = jobs[i]) \/ (i = Len(jobs) + 1 /\ jobs'[i] = x)
      /\ \A i \in DOMAIN jobs : i \in DOMAIN jobs' /\ jobs'[i] = jobs[i] /\ i < Len(jobs) + 1
      /\ Len(jobs) \in Nat /\ DOMAIN jobs = 1 .. Len(jobs)
  BY <1>1 DEF Lengthened
<1>7. JobsKnown'
  BY <1>2, <1>3, <1>4, <1>6, JobTypes DEF Good, JobsKnown
<1>8. WaitersKnown'
  <2> SUFFICES ASSUME NEW v \in DOMAIN values, values[v].status = "pending", NEW i \in DOMAIN values[v].waiters,
                      NEW b, b = values[v].waiters[i].acquisition
               PROVE  /\ acquisitions'[b].value = v /\ acquisitions'[b].status = "asked"
                      /\ \A j \in DOMAIN jobs' : jobs'[j].acquisition # b
    BY <1>2 DEF Good, WaitersKnown
  <2>1. b \in DOMAIN acquisitions
    BY WaiterTypes
  <2>2. /\ acquisitions[b].value = v /\ acquisitions[b].status = "asked"
        /\ \A j \in DOMAIN jobs : jobs[j].acquisition # b
    BY DEF Good, WaitersKnown
  <2> QED BY <2>1, <2>2, <1>3, <1>4, <1>6
<1>9. Creation'
  <2>1. values[p].status = "pending" => \A j \in DOMAIN jobs' : jobs'[j].value = p => jobs'[j].type = "follow"
    BY <1>2, <1>4, <1>6 DEF Good, Creation
  <2>2. values[p].status # "pending" => CreationQueued(p)'
    <3> SUFFICES ASSUME values[p].status # "pending" PROVE CreationQueued(p)'
      OBVIOUS
    <3>1. values[p].status \in {"plain", "failed"}
      BY <1>2, <1>5, Places DEF ValueType
    <3>2. CreationQueued(p)
      BY <1>2 DEF Good, Creation
    <3>3. PICK i \in DOMAIN jobs :
            /\ jobs[i].type = "create" /\ jobs[i].value = p
            /\ values[p].status # "failed" =>
                 \A j \in DOMAIN jobs : jobs[j].value = p =>
                    /\ j < i => jobs[j].type = "follow"
                    /\ j > i => jobs[j].type \in {"adopt", "acquire"}
      BY <3>2 DEF CreationQueued
    <3>4. i \in DOMAIN jobs' /\ jobs'[i] = jobs[i] /\ ~(Len(jobs) + 1 < i)
      BY <1>6
    <3>5. values[p].status = "plain" => x.type = "acquire"
      BY <1>4
    <3>6. values[p].status # "failed" =>
            \A j \in DOMAIN jobs' : jobs'[j].value = p =>
                /\ j < i => jobs'[j].type = "follow"
                /\ j > i => jobs'[j].type \in {"adopt", "acquire"}
      BY <1>6, <3>1, <3>3, <3>4, <3>5
    <3> QED BY <1>2, <3>3, <3>4, <3>6 DEF CreationQueued
  <2> QED BY <1>2, <1>5, <2>1, <2>2 DEF Creation
<1>10. Lives'
  <2> SUFFICES ASSUME NEW v \in DOMAIN values, values[v].status = "created"
               PROVE  values[v].disposals # 0 /\ AllGranted(v)'
    BY <1>2 DEF Lives
  <2>1. values[v].disposals # 0 /\ AllGranted(v)
    BY <1>2, <1>5 DEF Good, Lives
  <2>2. v # p
    BY <1>5
  <2> QED BY <2>1, <2>2, <1>1, <1>3, <1>4, OtherOrder
<1>11. Keys'
  BY <1>2 DEF Good, Keys, Alive
<1>12. Members'
  <2>1. references = 0 /\ 0 \notin DOMAIN collections
    BY <1>2, Places DEF Good, Keys
  <2> QED BY <2>1, <1>2 DEF Good, Members
<1>13. Grants'
  BY <1>2, <1>3 DEF Good, Grants, Alive, OthersStay
<1>14. Disposals'
  BY <1>2 DEF Good, Disposals
<1> QED BY <1>7, <1>8, <1>9, <1>10, <1>11, <1>12, <1>13, <1>14 DEF Good

LEMMA AcquireNewKeeps ==
    ASSUME TypeOK, Good, AcquireNew(Len(acquisitions) + 1), UNCHANGED <<clears, cleared>>
    PROVE  Good'
<1> SUFFICES ASSUME NEW a, a = Len(acquisitions) + 1, NEW v, v = Len(values) + 1 PROVE Good'
  OBVIOUS
<1>1. PICK nv : Made(a, v, nv)
  BY AcquireNewTyped
<1>2. /\ current = 0 /\ pending = 0 /\ UNCHANGED <<current, references, collections, cleared>>
  BY DEF AcquireNew
<1>3. /\ OthersStay(a) /\ a \in DOMAIN acquisitions' /\ a \notin DOMAIN acquisitions
      /\ acquisitions'[a].status = "asked" /\ acquisitions'[a].value = v
      /\ \A b \in DOMAIN acquisitions : /\ b \in DOMAIN acquisitions'
                                        /\ acquisitions'[b].status = acquisitions[b].status
                                        /\ acquisitions'[b].value = acquisitions[b].value
  BY <1>1 DEF Lengthened, OthersStay, Made
<1>4. /\ DOMAIN values' = DOMAIN values \cup {v} /\ v \notin DOMAIN values /\ values'[v] = nv
      /\ \A w \in DOMAIN values : values'[w] = values[w]
      /\ 0 \notin DOMAIN values /\ v # 0
  BY <1>1 DEF Lengthened, Made
<1>5. nv.disposals = 0 /\ nv.status \in {"pending", "plain", "failed"}
  BY <1>1 DEF Made, FirstWaiter, NewValue
<1>6. /\ references = 0 /\ known = FALSE /\ 0 \notin DOMAIN collections
      /\ \A w \in DOMAIN values : /\ values[w].status \notin {"pending", "plain", "resolved"}
                                  /\ ~Alive(w)
                                  /\ values[w].waiters = <<>>
                                  /\ values[w].status = "created" => AllGranted(w)
  <2>1. \A w \in DOMAIN values : w # 0
    BY <1>4
  <2>2. references = 0
    BY <1>2 DEF Good, Keys
  <2>3. known = FALSE
    BY <1>2, TypeParts DEF Good, Keys
  <2>4. 0 \notin DOMAIN collections
    BY Places
  <2> QED BY <2>1, <2>2, <2>3, <2>4, <1>2 DEF Good, WaitersKnown, Lives, Alive
<1>7. \A i \in DOMAIN jobs : jobs[i].type # "create" /\ jobs[i].value # v /\ jobs[i].acquisition # a
  BY <1>2, <1>3, <1>4, JobTypes DEF Good, JobsKnown
<1>8. \/ nv = FirstWaiter(a, v) /\ pending' = v /\ known' = TRUE /\ UNCHANGED jobs
      \/ \E x : /\ Lengthened(jobs, jobs', x) /\ x.acquisition = a /\ x.value = v
                /\ \/ x.type = "create" /\ nv = NewValue("plain") /\ pending' = v /\ known' = TRUE
                   \/ x.type = "acquire" /\ nv = NewValue("failed") /\ pending' = 0 /\ known' = FALSE
  BY <1>1, <1>2, <1>6 DEF Made, Job
<1>9. Lives' /\ Members' /\ Grants' /\ Disposals'
  <2>1. \A w \in DOMAIN values : AllGranted(w) => AllGranted(w)'
    <3>1. \A w \in DOMAIN values : w # v
      BY <1>4
    <3> QED BY <1>8, <3>1 DEF AllGranted, Lengthened
  <2>2. Lives'
    <3> SUFFICES ASSUME NEW w \in DOMAIN values', values'[w].status = "created"
                 PROVE  values'[w].disposals # 0 /\ AllGranted(w)'
      BY DEF Lives
    <3>1. w \in DOMAIN values /\ values[w].status = "created" /\ values'[w].disposals = values[w].disposals
      BY <1>4, <1>5
    <3> QED BY <3>1, <2>1, <1>6 DEF Alive
  <2>3. Members'
    BY <1>2, <1>6 DEF Good, Members
  <2>4. Grants'
    <3> SUFFICES ASSUME NEW b \in DOMAIN acquisitions, acquisitions[b].status \in {"granted", "held"},
                        NEW w, w = acquisitions[b].value
                 PROVE  /\ w \in DOMAIN values /\ values'[w].status = "created"
                        /\ ~Alive(w)' /\ w \in cleared
      BY <1>2, <1>3 DEF Grants, OthersStay
    <3>1. w \in DOMAIN values
      BY Places DEF AcquisitionType
    <3> QED BY <3>1, <1>4, <1>6 DEF Good, Grants, Alive
  <2>5. Disposals'
    <3> SUFFICES ASSUME NEW w \in DOMAIN values'
                 PROVE  /\ values'[w].disposals <= IF w \in cleared' THEN 2 ELSE 1
                        /\ values'[w].status # "created" => values'[w].disposals = 0
      BY DEF Disposals
    <3>1. CASE w = v
      BY <3>1, <1>4, <1>5
    <3>2. CASE w # v
      BY <3>2, <1>2, <1>4 DEF Good, Disposals
    <3> QED BY <3>1, <3>2
  <2> QED BY <2>2, <2>3, <2>4, <2>5
<1>10. CASE nv = FirstWaiter(a, v) /\ pending' = v /\ known' = TRUE /\ UNCHANGED jobs
  <2>1. JobsKnown'
    BY <1>3, <1>4, <1>7, <1>10, JobTypes DEF Good, JobsKnown
  <2>2. /\ nv.status = "pending" /\ nv.waiters = <<Job("create", a, v)>>
        /\ Len(nv.waiters) = 1 /\ DOMAIN nv.waiters = {1}
    <3>1. nv = [status |-> "pending", disposals |-> 0, waiters |-> <<Job("create", a, v)>>]
      BY <1>10 DEF FirstWaiter, NewValue
    <3> QED BY <3>1
  <2>3. nv.waiters[1].value = v /\ nv.waiters[1].type = "create" /\ nv.waiters[1].acquisition = a
    BY <2>2 DEF Job
  <2>4. WaitersKnown'
    <3>1. \A w \in DOMAIN values : values'[w].status \notin {"pending", "plain", "resolved"} /\ values'[w].waiters = <<>>
      BY <1>4, <1>6
    <3>2. \A j \in DOMAIN jobs' : jobs'[j].acquisition # a
      BY <1>7, <1>10
    <3> QED BY <3>1, <3>2, <2>2, <2>3, <1>3, <1>4, <1>10 DEF WaitersKnown
  <2>5. Creation'
    BY <2>2, <1>4, <1>7, <1>10 DEF Creation
  <2>6. Keys'
    BY <1>2, <1>6, <1>10, <1>4 DEF Keys
  <2> QED BY <1>9, <2>1, <2>4, <2>5, <2>6 DEF Good
<1>11. ASSUME NEW x, Lengthened(jobs, jobs', x), x.acquisition = a, x.value = v,
              \/ x.type = "create" /\ nv = NewValue("plain") /\ pending' = v /\ known' = TRUE
              \/ x.type = "acquire" /\ nv = NewValue("failed") /\ pending' = 0 /\ known' = FALSE
       PROVE  Good'
  <2>1. /\ \A i \in DOMAIN jobs' : (i \in DOMAIN jobs /\ jobs'[i] = jobs[i]) \/ (i = Len(jobs) + 1 /\ jobs'[i] = x)
        /\ Len(jobs) + 1 \in DOMAIN jobs' /\ jobs'[Len(jobs) + 1] = x
    BY <1>11 DEF Lengthened
  <2>2. nv.waiters = <<>> /\ nv.status \in {"plain", "failed"} /\ (nv.status = "plain" <=> x.type = "create")
    BY <1>11 DEF NewValue
  <2>3. JobsKnown'
    <3>1. \A i \in DOMAIN jobs : jobs[i].value \in DOMAIN values /\ jobs[i].acquisition \in DOMAIN acquisitions
      BY JobTypes
    <3> QED BY <1>3, <1>4, <1>7, <1>11, <2>1, <3>1 DEF Good, JobsKnown
  <2>4. WaitersKnown'
    <3>1. \A w \in DOMAIN values : values'[w].status \notin {"pending", "plain", "resolved"} /\ values'[w].waiters = <<>>
      BY <1>4, <1>6
    <3>2. nv.status = "plain" => pending' = v
      BY <1>11, <2>2
    <3> QED BY <3>1, <3>2, <2>2, <1>4 DEF WaitersKnown
  <2>5. Creation'
    <3> SUFFICES ASSUME pending' # 0 PROVE Creation'
      BY DEF Creation
    <3>1. pending' = v /\ x.type = "create" /\ nv.status = "plain"
      BY <1>11, <2>2
    <3>2. \A j \in DOMAIN jobs' : jobs'[j].value = v => j = Len(jobs) + 1
      BY <2>1, <1>7
    <3>3. Len(jobs) + 1 \in Nat
      BY Places
    <3>4. CreationQueued(v)'
      BY <1>11, <2>1, <3>1, <3>2, <3>3 DEF CreationQueued
    <3> QED BY <3>1, <3>4, <1>4 DEF Creation
  <2>6. Keys'
    BY <1>2, <1>6, <1>4, <1>11 DEF Keys
  <2> QED BY <1>9, <2>3, <2>4, <2>5, <2>6 DEF Good
<1> QED BY <1>8, <1>10, <1>11

LEMMA SettleKeeps ==
    ASSUME TypeOK, Good, NEW v \in DOMAIN values, Settle(v)
    PROVE  Good'
<1> DEFINE ws == values[v].waiters
           n == Len(jobs)
<1>1. /\ Becomes(v, "resolved", <<>>) \/ Becomes(v, "failed", <<>>)
      /\ DOMAIN jobs' = 1 .. n + Len(ws)
      /\ \A i \in DOMAIN jobs' : jobs'[i] = IF i <= n THEN jobs[i] ELSE ws[i - n]
  BY SettleTyped
<1>2. /\ values[v].status = "pending"
      /\ UNCHANGED <<pending, current, known, references, collections, acquisitions, cleared>>
  BY DEF Settle
<1>3. /\ DOMAIN values' = DOMAIN values /\ values'[v].status \in {"resolved", "failed"} /\ values'[v].waiters = <<>>
      /\ values'[v].disposals = values[v].disposals
      /\ \A w \in DOMAIN values : w # v =>
            /\ values'[w].status = values[w].status /\ values'[w].waiters = values[w].waiters
            /\ values'[w].disposals = values[w].disposals
  BY <1>1 DEF Becomes
<1>4. /\ v = pending /\ v # 0 /\ current = 0 /\ references = 0
      /\ Len(ws) > 0
      /\ \A i \in DOMAIN ws :
            /\ ws[i].value = v /\ ws[i].type = (IF i = 1 THEN "create" ELSE "adopt")
            /\ acquisitions[ws[i].acquisition].value = v
            /\ acquisitions[ws[i].acquisition].status = "asked"
            /\ \A j \in DOMAIN jobs : jobs[j].acquisition # ws[i].acquisition
            /\ \A j \in DOMAIN ws : ws[j].acquisition = ws[i].acquisition => i = j
  <2>1. v = pending /\ v # 0
    BY <1>2, Places DEF Good, WaitersKnown
  <2> QED BY <2>1, <1>2 DEF Good, WaitersKnown, Keys
<1>5. /\ Len(ws) \in Nat /\ DOMAIN ws = 1 .. Len(ws) /\ n \in Nat /\ DOMAIN jobs = 1 .. n
      /\ \A i \in DOMAIN ws : ws[i].acquisition \in DOMAIN acquisitions
  BY WaiterTypes, Places
<1> HIDE DEF ws, n
<1>6. \A i \in DOMAIN jobs' : \/ i \in DOMAIN jobs /\ i <= n /\ jobs'[i] = jobs[i]
                              \/ i - n \in DOMAIN ws /\ i > n /\ jobs'[i] = ws[i - n]
  BY <1>1, <1>5
<1>7. \A i \in DOMAIN jobs : jobs[i].value = v => jobs[i].type = "follow"
  BY <1>2, <1>4 DEF Good, Creation
<1>8. \A i \in DOMAIN jobs : jobs[i].type # "create"
  BY <1>4, <1>7 DEF Good, JobsKnown
<1>9. JobsKnown'
  <2> SUFFICES ASSUME NEW i \in DOMAIN jobs', NEW a, a = jobs'[i].acquisition, NEW u, u = jobs'[i].value
               PROVE  /\ acquisitions[a].value = u
                      /\ jobs'[i].type # "deliver" => acquisitions[a].status = "asked"
                      /\ jobs'[i].type = "deliver" /\ values'[u].status # "failed" => acquisitions[a].status = "granted"
                      /\ jobs'[i].type = "create" => u = pending
                      /\ \A j \in DOMAIN jobs' : jobs'[j].acquisition = a => i = j
                      /\ \A j \in DOMAIN jobs' : jobs'[i].type = "create" /\ jobs'[j].type = "create" => i = j
    BY <1>2 DEF JobsKnown
  <2>1. CASE i \in DOMAIN jobs /\ i <= n /\ jobs'[i] = jobs[i]
    <3>1. u \in DOMAIN values
      BY <2>1, JobTypes
    <3>2. /\ acquisitions[a].value = u
          /\ jobs[i].type # "deliver" => acquisitions[a].status = "asked"
          /\ jobs[i].type = "deliver" /\ values[u].status # "failed" => acquisitions[a].status = "granted"
          /\ \A j \in DOMAIN jobs : jobs[j].acquisition = a => i = j
      BY <2>1 DEF Good, JobsKnown
    <3>3. jobs[i].type = "deliver" => u # v
      BY <2>1, <1>7
    <3>4. \A j \in DOMAIN jobs' : jobs'[j].acquisition = a => i = j
      BY <2>1, <3>2, <1>4, <1>6
    <3> QED BY <2>1, <3>1, <3>2, <3>3, <3>4, <1>3, <1>8
  <2>2. CASE i - n \in DOMAIN ws /\ i > n /\ jobs'[i] = ws[i - n]
    <3> SUFFICES ASSUME NEW k, k = i - n
                 PROVE  /\ acquisitions[a].value = u
                        /\ jobs'[i].type # "deliver" => acquisitions[a].status = "asked"
                        /\ jobs'[i].type = "deliver" /\ values'[u].status # "failed" => acquisitions[a].status = "granted"
                        /\ jobs'[i].type = "create" => u = pending
                        /\ \A j \in DOMAIN jobs' : jobs'[j].acquisition = a => i = j
                        /\ \A j \in DOMAIN jobs' : jobs'[i].type = "create" /\ jobs'[j].type = "create" => i = j
      OBVIOUS
    <3>1. k \in DOMAIN ws /\ jobs'[i] = ws[k] /\ u = v /\ a = ws[k].acquisition
          /\ jobs'[i].type = (IF k = 1 THEN "create" ELSE "adopt")
      BY <2>2, <1>4
    <3>2. i = k + n /\ k \in Nat
      BY <2>2, <3>1, <1>1, <1>5
    <3>3. \A j \in DOMAIN jobs' : jobs'[j].acquisition = a => i = j
      <4> SUFFICES ASSUME NEW j \in DOMAIN jobs', jobs'[j].acquisition = a PROVE i = j
        OBVIOUS
      <4>1. ~(j \in DOMAIN jobs /\ jobs'[j] = jobs[j])
        BY <3>1, <1>4
      <4>2. j - n \in DOMAIN ws /\ jobs'[j] = ws[j - n]
        BY <4>1, <1>6
      <4>3. j - n = k
        BY <4>2, <3>1, <1>4
      <4> QED BY <4>3, <3>2, <1>1, <1>5
    <3>4. \A j \in DOMAIN jobs' : jobs'[i].type = "create" /\ jobs'[j].type = "create" => i = j
      <4> SUFFICES ASSUME NEW j \in DOMAIN jobs', jobs'[i].type = "create", jobs'[j].type = "create" PROVE i = j
        OBVIOUS
      <4>1. j - n \in DOMAIN ws /\ jobs'[j] = ws[j - n]
        BY <1>6, <1>8
      <4>2. j - n = 1 /\ k = 1
        BY <4>1, <3>1, <1>4
      <4> QED BY <4>2, <3>2, <1>1, <1>5
    <3> QED BY <3>1, <3>3, <3>4, <1>4
  <2> QED BY <2>1, <2>2, <1>6
<1>10. WaitersKnown'
  <2> SUFFICES ASSUME NEW w \in DOMAIN values
               PROVE  /\ values'[w].status \in {"pending", "plain", "resolved"} => w = pending
                      /\ values'[w].status # "pending" /\ values'[w].waiters = <<>>
    BY <1>2, <1>3 DEF WaitersKnown
  <2> QED BY <1>3, <1>4 DEF Good, WaitersKnown
<1>11. Creation'
  <2> SUFFICES CreationQueued(v)'
    BY <1>2, <1>3, <1>4 DEF Creation
  <2>1. n + 1 \in DOMAIN jobs' /\ jobs'[n + 1] = ws[1] /\ 1 \in DOMAIN ws /\ n + 1 \in Nat
    <3>1. n + 1 \in DOMAIN jobs' /\ 1 \in DOMAIN ws /\ ~(n + 1 <= n) /\ (n + 1) - n = 1
      BY <1>1, <1>4, <1>5
    <3> QED BY <3>1, <1>1, <1>5
  <2>2. jobs'[n + 1].type = "create" /\ jobs'[n + 1].value = v
    BY <2>1, <1>4
  <2>3. \A j \in DOMAIN jobs' : jobs'[j].value = v =>
            /\ j < n + 1 => jobs'[j].type = "follow"
            /\ j > n + 1 => jobs'[j].type \in {"adopt", "acquire"}
    <3> SUFFICES ASSUME NEW j \in DOMAIN jobs', jobs'[j].value = v
                 PROVE  /\ j < n + 1 => jobs'[j].type = "follow"
                        /\ j > n + 1 => jobs'[j].type \in {"adopt", "acquire"}
      OBVIOUS
    <3>1. CASE j \in DOMAIN jobs /\ j <= n /\ jobs'[j] = jobs[j]
      <4>1. ~(j > n + 1)
        BY <3>1, <1>5
      <4> QED BY <3>1, <4>1, <1>7
    <3>2. CASE j - n \in DOMAIN ws /\ j > n /\ jobs'[j] = ws[j - n]
      <4>1. ~(j < n + 1) /\ (j > n + 1 => j - n # 1)
        BY <3>2, <1>1, <1>5
      <4> QED BY <3>2, <4>1, <1>4
    <3> QED BY <3>1, <3>2, <1>6
  <2> QED BY <2>1, <2>2, <2>3 DEF CreationQueued
<1>12. \A w \in DOMAIN values : w # v /\ AllGranted(w) => AllGranted(w)'
  BY <1>4, <1>6 DEF AllGranted
<1>13. Lives'
  <2> SUFFICES ASSUME NEW w \in DOMAIN values, values'[w].status = "created"
               PROVE  values'[w].disposals # 0 /\ AllGranted(w)'
    BY <1>3 DEF Lives
  <2>1. w # v /\ w # 0
    BY <1>3, Places
  <2>2. values[w].disposals # 0 /\ AllGranted(w)
    BY <2>1, <1>3, <1>4 DEF Good, Lives
  <2> QED BY <2>1, <2>2, <1>3, <1>12
<1>14. Keys'
  BY <1>2, <1>4 DEF Good, Keys
<1>15. Members'
  BY <1>2 DEF Good, Members
<1>16. Grants'
  <2> SUFFICES ASSUME NEW b \in DOMAIN acquisitions, acquisitions[b].status \in {"granted", "held"},
                      NEW w, w = acquisitions[b].value
               PROVE  /\ values'[w].status = "created"
                      /\ Alive(w)' => references # 0 /\ b \in collections[references].members
                      /\ Alive(w)' \/ w \in cleared
    BY <1>2 DEF Grants
  <2>1. w \in DOMAIN values
    BY Places DEF AcquisitionType
  <2>2. /\ values[w].status = "created"
        /\ Alive(w) => references # 0 /\ b \in collections[references].members
        /\ Alive(w) \/ w \in cleared
    BY DEF Good, Grants
  <2>3. w # v
    BY <2>2, <1>2
  <2> QED BY <2>1, <2>2, <2>3, <1>3 DEF Alive
<1>17. Disposals'
  <2> SUFFICES ASSUME NEW w \in DOMAIN values
               PROVE  /\ values'[w].disposals <= IF w \in cleared' THEN 2 ELSE 1
                      /\ values'[w].status # "created" => values'[w].disposals = 0
    BY <1>3 DEF Disposals
  <2>1. values'[w].disposals = values[w].disposals
    BY <1>3
  <2>2. values'[w].status # "created" => values[w].status # "created"
    BY <1>2, <1>3
  <2> QED BY <2>1, <2>2, <1>2 DEF Good, Disposals
<1> QED BY <1>9, <1>10, <1>11, <1>13, <1>14, <1>15, <1>16, <1>17 DEF Good

-----------------------------------------------------------------------------
(* A job is run *)

\* The first job is gone; x may be the last one now.
Shifted(x) ==
    /\ Len(jobs) \in Nat \ {0} /\ DOMAIN jobs = 1 .. Len(jobs) /\ DOMAIN jobs' \subseteq DOMAIN jobs
    /\ \A j \in DOMAIN jobs' : \/ j + 1 \in DOMAIN jobs /\ jobs'[j] = jobs[j + 1]
                               \/ j = Len(jobs) /\ jobs'[j] = x
    /\ \A i \in DOMAIN jobs : i # 1 => i - 1 \in DOMAIN jobs' /\ jobs'[i - 1] = jobs[i]

LEMMA TurnedShifts == ASSUME NEW x, Turned(jobs, jobs', x) PROVE Shifted(x)
BY DEF Turned, Shifted

LEMMA ShortenedShifts == ASSUME NEW x, Shortened(jobs, jobs') PROVE Shifted(x)
BY DEF Shortened, Shifted

\* Of values and acquisitions, only those of the job change.
OnlyIts ==
    /\ DOMAIN values' = DOMAIN values /\ DOMAIN acquisitions' = DOMAIN acquisitions
    /\ \A w \in DOMAIN values :
          /\ values'[w].disposals = values[w].disposals
          /\ w # TheJob.value => values'[w].status = values[w].status /\ values'[w].waiters = values[w].waiters
    /\ \A b \in DOMAIN acquisitions :
          /\ acquisitions'[b].value = acquisitions[b].value
          /\ b # TheJob.acquisition => acquisitions'[b].status = acquisitions[b].status

LEMMA OtherShift ==
    ASSUME TypeOK, Good, jobs # <<>>, NEW x, Shifted(x), x.value = TheJob.value, OnlyIts,
           NEW v \in DOMAIN values, v # TheJob.value
    PROVE  /\ AllGranted(v) => AllGranted(v)'
           /\ FirstComing(v) => FirstComing(v)'
           /\ LastGranted(v) => LastGranted(v)'
           /\ CreationQueued(v) => CreationQueued(v)'
<1>1. TheJob = jobs[1] /\ 1 \in DOMAIN jobs
  BY TheJobTyped
<1>2. /\ \A j \in DOMAIN jobs' : jobs'[j].value = v => j + 1 \in DOMAIN jobs /\ jobs'[j] = jobs[j + 1]
      /\ \A i \in DOMAIN jobs : jobs[i].value = v => i - 1 \in DOMAIN jobs' /\ jobs'[i - 1] = jobs[i]
      /\ DOMAIN jobs \subseteq Nat /\ DOMAIN jobs' \subseteq Nat
  BY <1>1 DEF Shifted
<1>3. AllGranted(v) => AllGranted(v)'
  BY <1>2 DEF AllGranted
<1>4. FirstComing(v) => FirstComing(v)'
  <2> SUFFICES ASSUME FirstComing(v) PROVE FirstComing(v)'
    OBVIOUS
  <2>1. acquisitions[TheJob.acquisition].value = TheJob.value
    BY <1>1 DEF Good, JobsKnown
  <2>2. \A a \in DOMAIN acquisitions' : acquisitions'[a].value = v => acquisitions'[a].status # "held"
    BY <2>1 DEF FirstComing, OnlyIts
  <2>3. PICK i \in DOMAIN jobs :
          /\ jobs[i].type = "acquire" /\ jobs[i].value = v
          /\ \A j \in DOMAIN jobs : jobs[j].value = v =>
                /\ j < i => jobs[j].type # "deliver"
                /\ j > i => jobs[j].type \in {"acquire", "deliver"}
                /\ jobs[j].type \in {"adopt", "acquire", "deliver"}
    BY DEF FirstComing
  <2>4. i - 1 \in DOMAIN jobs' /\ jobs'[i - 1] = jobs[i]
    BY <2>3, <1>2
  <2>5. \A j \in DOMAIN jobs' : jobs'[j].value = v =>
                /\ j < i - 1 => jobs'[j].type # "deliver"
                /\ j > i - 1 => jobs'[j].type \in {"acquire", "deliver"}
                /\ jobs'[j].type \in {"adopt", "acquire", "deliver"}
    <3> SUFFICES ASSUME NEW j \in DOMAIN jobs', jobs'[j].value = v
                 PROVE  /\ j < i - 1 => jobs'[j].type # "deliver"
                        /\ j > i - 1 => jobs'[j].type \in {"acquire", "deliver"}
                        /\ jobs'[j].type \in {"adopt", "acquire", "deliver"}
      OBVIOUS
    <3>1. j + 1 \in DOMAIN jobs /\ jobs'[j] = jobs[j + 1]
      BY <1>2
    <3>2. (j < i - 1 => j + 1 < i) /\ (j > i - 1 => j + 1 > i)
      BY <1>2
    <3> QED BY <2>3, <3>1, <3>2
  <2> QED BY <2>2, <2>3, <2>4, <2>5 DEF FirstComing
<1>5. LastGranted(v) => LastGranted(v)'
  <2> SUFFICES ASSUME LastGranted(v) PROVE LastGranted(v)'
    OBVIOUS
  <2>1. PICK i \in DOMAIN jobs :
          /\ jobs[i].type = "deliver" /\ jobs[i].value = v
          /\ \A j \in DOMAIN jobs : jobs[j].value = v =>
                jobs[j].type = "deliver" \/ (jobs[j].type = "acquire" /\ j < i)
    BY DEF LastGranted
  <2>2. i - 1 \in DOMAIN jobs' /\ jobs'[i - 1] = jobs[i]
    BY <2>1, <1>2
  <2>3. ASSUME NEW j \in DOMAIN jobs', jobs'[j].value = v
        PROVE  jobs'[j].type = "deliver" \/ (jobs'[j].type = "acquire" /\ j < i - 1)
    <3>1. j + 1 \in DOMAIN jobs /\ jobs'[j] = jobs[j + 1]
      BY <1>2, <2>3
    <3>2. j + 1 < i => j < i - 1
      BY <1>2
    <3> QED BY <2>1, <2>3, <3>1, <3>2
  <2> QED BY <2>1, <2>2, <2>3 DEF LastGranted
<1>6. CreationQueued(v) => CreationQueued(v)'
  <2> SUFFICES ASSUME CreationQueued(v) PROVE CreationQueued(v)'
    OBVIOUS
  <2>1. PICK i \in DOMAIN jobs :
          /\ jobs[i].type = "create" /\ jobs[i].value = v
          /\ values[v].status # "failed" =>
               \A j \in DOMAIN jobs : jobs[j].value = v =>
                  /\ j < i => jobs[j].type = "follow"
                  /\ j > i => jobs[j].type \in {"adopt", "acquire"}
    BY DEF CreationQueued
  <2>2. i - 1 \in DOMAIN jobs' /\ jobs'[i - 1] = jobs[i] /\ values'[v].status = values[v].status
    BY <2>1, <1>2 DEF OnlyIts
  <2>3. ASSUME values[v].status # "failed", NEW j \in DOMAIN jobs', jobs'[j].value = v
        PROVE  /\ j < i - 1 => jobs'[j].type = "follow"
               /\ j > i - 1 => jobs'[j].type \in {"adopt", "acquire"}
    <3>1. j + 1 \in DOMAIN jobs /\ jobs'[j] = jobs[j + 1]
      BY <1>2, <2>3
    <3>2. (j < i - 1 => j + 1 < i) /\ (j > i - 1 => j + 1 > i)
      BY <1>2
    <3> QED BY <2>1, <2>3, <3>1, <3>2
  <2> QED BY <2>1, <2>2, <2>3 DEF CreationQueued
<1> QED BY <1>3, <1>4, <1>5, <1>6

LEMMA ShiftKnown ==
    ASSUME TypeOK, Good, jobs # <<>>, NEW x, Shifted(x), OnlyIts,
           x.value = TheJob.value, x.acquisition = TheJob.acquisition, x.type # "create",
           pending' = pending \/ TheJob.type = "create",
           values'[TheJob.value].status = "failed" <=> values[TheJob.value].status = "failed",
           x \in {jobs'[j] : j \in DOMAIN jobs'} =>
              /\ x.type # "deliver" => acquisitions'[x.acquisition].status = "asked"
              /\ x.type = "deliver" /\ values[x.value].status # "failed"
                    => acquisitions'[x.acquisition].status = "granted"
    PROVE  JobsKnown'
<1>1. TheJob = jobs[1] /\ 1 \in DOMAIN jobs /\ TheJob.value \in DOMAIN values
      /\ TheJob.acquisition \in DOMAIN acquisitions
  BY TheJobTyped
<1> SUFFICES ASSUME NEW i \in DOMAIN jobs', NEW a, a = jobs'[i].acquisition, NEW u, u = jobs'[i].value
             PROVE  /\ acquisitions'[a].value = u
                    /\ jobs'[i].type # "deliver" => acquisitions'[a].status = "asked"
                    /\ jobs'[i].type = "deliver" /\ values'[u].status # "failed" => acquisitions'[a].status = "granted"
                    /\ jobs'[i].type = "create" => u = pending'
                    /\ \A j \in DOMAIN jobs' : jobs'[j].acquisition = a => i = j
                    /\ \A j \in DOMAIN jobs' : jobs'[i].type = "create" /\ jobs'[j].type = "create" => i = j
  BY DEF JobsKnown
<1>2. \A j \in DOMAIN jobs : jobs[j].acquisition = TheJob.acquisition => j = 1
  BY <1>1 DEF Good, JobsKnown
<1>3. \A j \in DOMAIN jobs' : j \in Nat /\ j + 1 # 1
  BY DEF Shifted
<1>4. CASE i + 1 \in DOMAIN jobs /\ jobs'[i] = jobs[i + 1]
  <2> SUFFICES ASSUME NEW k, k = i + 1
               PROVE  /\ acquisitions'[a].value = u
                      /\ jobs'[i].type # "deliver" => acquisitions'[a].status = "asked"
                      /\ jobs'[i].type = "deliver" /\ values'[u].status # "failed" => acquisitions'[a].status = "granted"
                      /\ jobs'[i].type = "create" => u = pending'
                      /\ \A j \in DOMAIN jobs' : jobs'[j].acquisition = a => i = j
                      /\ \A j \in DOMAIN jobs' : jobs'[i].type = "create" /\ jobs'[j].type = "create" => i = j
    OBVIOUS
  <2>1. k \in DOMAIN jobs /\ k # 1 /\ jobs'[i] = jobs[k] /\ a # TheJob.acquisition
        /\ a \in DOMAIN acquisitions /\ u \in DOMAIN values
    BY <1>2, <1>3, <1>4, JobTypes
  <2>2. /\ acquisitions[a].value = u
        /\ jobs[k].type # "deliver" => acquisitions[a].status = "asked"
        /\ jobs[k].type = "deliver" /\ values[u].status # "failed" => acquisitions[a].status = "granted"
        /\ jobs[k].type = "create" => u = pending
        /\ \A j \in DOMAIN jobs : jobs[j].acquisition = a => k = j
        /\ \A j \in DOMAIN jobs : jobs[k].type = "create" /\ jobs[j].type = "create" => k = j
    BY <2>1 DEF Good, JobsKnown
  <2>3. acquisitions'[a].value = u /\ acquisitions'[a].status = acquisitions[a].status
        /\ (values'[u].status = "failed" <=> values[u].status = "failed")
    BY <2>1, <2>2 DEF OnlyIts
  <2>4. jobs[k].type = "create" => TheJob.type # "create"
    BY <1>1, <2>1, <2>2
  <2>5. \A j \in DOMAIN jobs' : jobs'[j].acquisition = a => i = j
    <3> SUFFICES ASSUME NEW j \in DOMAIN jobs', jobs'[j].acquisition = a PROVE i = j
      OBVIOUS
    <3>1. j + 1 \in DOMAIN jobs /\ jobs'[j] = jobs[j + 1]
      BY <2>1 DEF Shifted
    <3>2. j + 1 = k
      BY <2>2, <3>1
    <3> QED BY <3>2, <1>3
  <2>6. \A j \in DOMAIN jobs' : jobs'[i].type = "create" /\ jobs'[j].type = "create" => i = j
    <3> SUFFICES ASSUME NEW j \in DOMAIN jobs', jobs'[i].type = "create", jobs'[j].type = "create" PROVE i = j
      OBVIOUS
    <3>1. j + 1 \in DOMAIN jobs /\ jobs'[j] = jobs[j + 1]
      BY DEF Shifted
    <3>2. j + 1 = k
      BY <2>1, <2>2, <3>1
    <3> QED BY <3>2, <1>3
  <2> QED BY <2>1, <2>2, <2>3, <2>4, <2>5, <2>6
<1>5. CASE i = Len(jobs) /\ jobs'[i] = x
  <2>1. acquisitions'[a].value = u
    BY <1>1, <1>5 DEF Good, JobsKnown, OnlyIts
  <2>2. /\ x.type # "deliver" => acquisitions'[a].status = "asked"
        /\ x.type = "deliver" /\ values'[u].status # "failed" => acquisitions'[a].status = "granted"
    BY <1>5
  <2>3. \A j \in DOMAIN jobs' : jobs'[j].acquisition = a => i = j
    <3> SUFFICES ASSUME NEW j \in DOMAIN jobs', jobs'[j].acquisition = a PROVE i = j
      OBVIOUS
    <3>1. ~(j + 1 \in DOMAIN jobs /\ jobs'[j] = jobs[j + 1])
      BY <1>2, <1>3, <1>5
    <3> QED BY <3>1, <1>5 DEF Shifted
  <2> QED BY <1>5, <2>1, <2>2, <2>3
<1> QED BY <1>4, <1>5 DEF Shifted

LEMMA ShiftWaiters ==
    ASSUME TypeOK, Good, jobs # <<>>, NEW x, Shifted(x), OnlyIts,
           x.acquisition = TheJob.acquisition, UNCHANGED <<values, pending>>
    PROVE  WaitersKnown'
<1>1. TheJob = jobs[1] /\ 1 \in DOMAIN jobs
  BY TheJobTyped
<1> SUFFICES ASSUME NEW v \in DOMAIN values, values[v].status = "pending", NEW i \in DOMAIN values[v].waiters,
                    NEW b, b = values[v].waiters[i].acquisition
             PROVE  /\ acquisitions'[b].value = v /\ acquisitions'[b].status = "asked"
                    /\ \A j \in DOMAIN jobs' : jobs'[j].acquisition # b
  BY DEF Good, WaitersKnown
<1>2. b \in DOMAIN acquisitions
  BY WaiterTypes
<1>3. /\ acquisitions[b].value = v /\ acquisitions[b].status = "asked"
      /\ \A j \in DOMAIN jobs : jobs[j].acquisition # b
  BY DEF Good, WaitersKnown
<1> QED BY <1>1, <1>2, <1>3 DEF OnlyIts, Shifted

\* The value of the job is created, has not been disposed and is that of the key, if
\* the job is about to get a reference to it.
LEMMA ComesToCurrent ==
    ASSUME TypeOK, Good, jobs # <<>>, TheJob.type \in {"adopt", "acquire"},
           values[TheJob.value].status # "failed"
    PROVE  /\ TheJob.value = current /\ current # 0 /\ Alive(TheJob.value)
           /\ FirstComing(TheJob.value) \/ (references # 0 /\ LastGranted(TheJob.value))
<1> SUFFICES ASSUME NEW v, v = TheJob.value
             PROVE  v = current /\ current # 0 /\ Alive(v) /\ (FirstComing(v) \/ (references # 0 /\ LastGranted(v)))
  OBVIOUS
<1>1. TheJob = jobs[1] /\ 1 \in DOMAIN jobs /\ v \in DOMAIN values /\ v # 0
      /\ values[v].status \in {"pending", "plain", "resolved", "failed", "created"}
  BY TheJobTyped, Places DEF ValueType
<1>2. values[v].status # "pending"
  BY <1>1 DEF Good, WaitersKnown, Creation
<1>3. values[v].status \notin {"plain", "resolved"}
  <2> SUFFICES ASSUME values[v].status \in {"plain", "resolved"} PROVE FALSE
    OBVIOUS
  <2>1. CreationQueued(v)
    BY <1>1 DEF Good, WaitersKnown, Creation
  <2>2. PICK i \in DOMAIN jobs :
            /\ jobs[i].type = "create" /\ jobs[i].value = v
            /\ \A j \in DOMAIN jobs : jobs[j].value = v => (j < i => jobs[j].type = "follow")
    BY <2>1 DEF CreationQueued
  <2>3. i # 1 /\ 1 < i
    BY <1>1, <2>2, Places
  <2> QED BY <1>1, <2>2, <2>3
<1>4. values[v].status = "created" /\ ~AllGranted(v)
  BY <1>1, <1>2, <1>3 DEF AllGranted
<1> QED BY <1>1, <1>4 DEF Good, Lives, Alive

LEMMA CreateKeeps ==
    ASSUME TypeOK, Good, jobs # <<>>, TheJob.type = "create", Create(TheJob),
           UNCHANGED <<clears, cleared, careful>>
    PROVE  Good'
<1> SUFFICES ASSUME NEW v, v = TheJob.value, NEW x, x = Next1("acquire") PROVE Good'
  OBVIOUS
<1>1. /\ TheJob = jobs[1] /\ 1 \in DOMAIN jobs /\ v \in DOMAIN values /\ v # 0
      /\ TheJob.acquisition \in DOMAIN acquisitions
  BY TheJobTyped, Places
<1>2. /\ Turned(jobs, jobs', x)
      /\ values[v].status # "failed" => Becomes(v, "created", values[v].waiters)
  BY CreateTyped
<1>3. /\ x.type = "acquire" /\ x.value = v /\ x.acquisition = TheJob.acquisition /\ Shifted(x)
  BY <1>2, TurnedShifts DEF Next1, Job
<1>4. /\ v = pending /\ current = 0 /\ references = 0 /\ values[v].status \in {"plain", "resolved", "failed"}
      /\ \A i \in DOMAIN jobs : jobs[i].type = "create" => i = 1
      /\ acquisitions[TheJob.acquisition].status = "asked"
      /\ CreationQueued(v)
  <2>1. v = pending /\ \A i \in DOMAIN jobs : jobs[i].type = "create" => i = 1
    BY <1>1 DEF Good, JobsKnown
  <2>2. current = 0 /\ references = 0
    BY <1>1, <2>1 DEF Good, Keys
  <2>3. values[v].status \notin {"created", "pending"} /\ CreationQueued(v)
    BY <1>1, <2>1 DEF Good, Creation
  <2>4. values[v].status \in {"plain", "resolved", "failed"}
    BY <2>3, <1>1, Places DEF ValueType
  <2> QED BY <2>1, <2>2, <2>3, <2>4, <1>1 DEF Good, JobsKnown
<1>5. /\ pending' = 0 /\ UNCHANGED <<references, collections, acquisitions, cleared>>
      /\ values[v].status = "failed" => known' = FALSE /\ UNCHANGED <<values, current>>
      /\ values[v].status # "failed" => known' = known /\ current' = v /\ values'[v].status = "created"
  BY <1>2 DEF Create, Becomes
<1>6. /\ OnlyIts /\ DOMAIN values' = DOMAIN values /\ values'[v].waiters = <<>>
      /\ values'[v].disposals = 0
      /\ values'[v].status = "failed" <=> values[v].status = "failed"
  <2>1. values[v].waiters = <<>> /\ values[v].disposals = 0
    BY <1>1, <1>4 DEF Good, WaitersKnown, Disposals
  <2>2. CASE values[v].status = "failed"
    BY <2>1, <2>2, <1>5 DEF OnlyIts
  <2>3. CASE values[v].status # "failed"
    BY <2>1, <2>3, <1>1, <1>2, <1>5 DEF OnlyIts, Becomes
  <2> QED BY <2>2, <2>3
<1>7. JobsKnown'
  BY <1>3, <1>4, <1>5, <1>6, ShiftKnown
<1>8. WaitersKnown'
  <2> SUFFICES ASSUME NEW w \in DOMAIN values
               PROVE  values'[w].status \notin {"pending", "plain", "resolved"} /\ values'[w].waiters = <<>>
    BY <1>6 DEF WaitersKnown
  <2>1. CASE w = v
    BY <2>1, <1>4, <1>5, <1>6
  <2>2. CASE w # v
    BY <2>2, <1>4, <1>6 DEF Good, WaitersKnown, OnlyIts
  <2> QED BY <2>1, <2>2
<1>9. Creation'
  BY <1>5 DEF Creation
<1>10. \A w \in DOMAIN values : ~Alive(w)
  <2>1. \A w \in DOMAIN values : w # 0
    BY Places
  <2> QED BY <2>1, <1>4 DEF Good, Lives, Alive
<1>11. \A w \in DOMAIN values : w # v => (Alive(w) <=> Alive(w)')
  BY <1>6 DEF OnlyIts, Alive
<1>12. Lives'
  <2> SUFFICES ASSUME NEW w \in DOMAIN values, values'[w].status = "created"
               PROVE  IF values'[w].disposals = 0
                      THEN w = current' /\ FirstComing(w)'
                      ELSE AllGranted(w)'
    BY <1>6 DEF Lives
  <2>1. CASE w # v
    <3>1. values[w].status = "created" /\ values'[w].disposals = values[w].disposals /\ values[w].disposals # 0
      BY <2>1, <1>6, <1>10 DEF OnlyIts, Alive
    <3>2. AllGranted(w)
      BY <3>1 DEF Good, Lives
    <3>3. AllGranted(w)'
      BY <2>1, <3>2, <1>3, <1>6, OtherShift
    <3> QED BY <3>1, <3>3
  <2>2. CASE w = v
    <3>1. values[v].status # "failed" /\ current' = v /\ values'[v].disposals = 0
      BY <2>2, <1>5, <1>6
    <3>2. \A j \in DOMAIN jobs : jobs[j].value = v /\ j > 1 => jobs[j].type \in {"adopt", "acquire"}
      <4>1. PICK i \in DOMAIN jobs :
              /\ jobs[i].type = "create"
              /\ \A j \in DOMAIN jobs : jobs[j].value = v => (j > i => jobs[j].type \in {"adopt", "acquire"})
        BY <3>1, <1>4 DEF CreationQueued
      <4> QED BY <4>1, <1>4
    <3>3. \A a \in DOMAIN acquisitions' : acquisitions'[a].value = v => acquisitions'[a].status # "held"
      BY <1>4, <1>5 DEF Good, Grants
    <3>4. /\ Len(jobs) \in DOMAIN jobs' /\ jobs'[Len(jobs)] = x
          /\ \A j \in DOMAIN jobs' : ~(j > Len(jobs))
      BY <1>2 DEF Turned
    <3>5. \A j \in DOMAIN jobs' : jobs'[j].value = v => jobs'[j].type \in {"adopt", "acquire"}
      <4> SUFFICES ASSUME NEW j \in DOMAIN jobs', jobs'[j].value = v PROVE jobs'[j].type \in {"adopt", "acquire"}
        OBVIOUS
      <4>1. CASE jobs'[j] = x
        BY <4>1, <1>3
      <4>2. CASE j + 1 \in DOMAIN jobs /\ jobs'[j] = jobs[j + 1]
        <5>1. j + 1 > 1
          BY <1>3 DEF Shifted
        <5> QED BY <4>2, <5>1, <3>2
      <4> QED BY <4>1, <4>2, <1>3 DEF Shifted
    <3>6. FirstComing(v)'
      BY <3>3, <3>4, <3>5, <1>3 DEF FirstComing
    <3> QED BY <2>2, <3>1, <3>6
  <2> QED BY <2>1, <2>2
<1>13. Keys'
  <2>1. CASE values[v].status = "failed"
    BY <2>1, <1>4, <1>5 DEF Keys
  <2>2. CASE values[v].status # "failed"
    <3>1. known' = TRUE
      BY <2>2, <1>1, <1>4, <1>5, TypeParts DEF Good, Keys
    <3>2. Alive(v)'
      BY <2>2, <1>5, <1>6 DEF Alive
    <3> QED BY <2>2, <3>1, <3>2, <1>1, <1>4, <1>5 DEF Keys
  <2> QED BY <2>1, <2>2
<1>14. Members'
  <2>1. 0 \notin DOMAIN collections
    BY Places
  <2> QED BY <2>1, <1>4, <1>5 DEF Good, Members
<1>15. Grants'
  <2> SUFFICES ASSUME NEW b \in DOMAIN acquisitions, acquisitions[b].status \in {"granted", "held"},
                      NEW w, w = acquisitions[b].value
               PROVE  values'[w].status = "created" /\ ~Alive(w)' /\ w \in cleared
    BY <1>5 DEF Grants
  <2>1. w \in DOMAIN values
    BY Places DEF AcquisitionType
  <2>2. values[w].status = "created" /\ w # v /\ w \in cleared
    BY <2>1, <1>4, <1>10 DEF Good, Grants
  <2> QED BY <2>1, <2>2, <1>6, <1>10, <1>11 DEF OnlyIts
<1>16. Disposals'
  <2> SUFFICES ASSUME NEW w \in DOMAIN values
               PROVE  /\ values'[w].disposals <= IF w \in cleared THEN 2 ELSE 1
                      /\ values'[w].status # "created" => values'[w].disposals = 0
    BY <1>5, <1>6 DEF Disposals
  <2>1. CASE w = v
    BY <2>1, <1>6
  <2>2. CASE w # v
    BY <2>2, <1>6 DEF Good, Disposals, OnlyIts
  <2> QED BY <2>1, <2>2
<1> QED BY <1>7, <1>8, <1>9, <1>12, <1>13, <1>14, <1>15, <1>16 DEF Good

\* What stays the same when the maps, the collections and the values do.
StillKept == UNCHANGED <<pending, current, known, references, collections, acquisitions, cleared>>

LEMMA KeptParts ==
    ASSUME TypeOK, Good, StillKept, OnlyIts, values'[TheJob.value].status = values[TheJob.value].status
    PROVE  Keys' /\ Members' /\ Grants' /\ Disposals'
<1>1. DOMAIN values' = DOMAIN values /\ \A w \in DOMAIN values : /\ values'[w].status = values[w].status
                                                                  /\ values'[w].disposals = values[w].disposals
  BY DEF OnlyIts
<1>2. \A w \in DOMAIN values : Alive(w)' <=> Alive(w)
  BY <1>1 DEF Alive
<1>3. current # 0 => current \in DOMAIN values
  BY TypeParts, Places
<1>4. Keys'
  BY <1>2, <1>3 DEF Good, Keys, StillKept
<1>5. Members'
  BY DEF Good, Members, StillKept
<1>6. Grants'
  <2>1. \A b \in DOMAIN acquisitions : acquisitions[b].value \in DOMAIN values
    BY Places DEF AcquisitionType
  <2> QED BY <2>1, <1>1, <1>2 DEF Good, Grants, StillKept
<1>7. Disposals'
  BY <1>1 DEF Good, Disposals, StillKept
<1> QED BY <1>4, <1>5, <1>6, <1>7

\* A job that follows another acquisition is about a value that is not created.
LEMMA FollowsNone ==
    ASSUME TypeOK, Good, jobs # <<>>, TheJob.type = "follow"
    PROVE  values[TheJob.value].status # "created"
<1>1. TheJob = jobs[1] /\ 1 \in DOMAIN jobs /\ TheJob.value \in DOMAIN values
  BY TheJobTyped
<1>2. /\ ~FirstComing(TheJob.value) /\ ~LastGranted(TheJob.value) /\ ~AllGranted(TheJob.value)
  BY <1>1 DEF FirstComing, LastGranted, AllGranted
<1> QED BY <1>1, <1>2 DEF Good, Lives

LEMMA FollowKeeps ==
    ASSUME TypeOK, Good, jobs # <<>>, TheJob.type = "follow", Follow(TheJob),
           UNCHANGED <<clears, cleared, careful>>
    PROVE  Good'
<1> SUFFICES ASSUME NEW v, v = TheJob.value, NEW x, x = Next1("adopt") PROVE Good'
  OBVIOUS
<1>1. /\ TheJob = jobs[1] /\ 1 \in DOMAIN jobs /\ v \in DOMAIN values /\ v # 0
      /\ TheJob.acquisition \in DOMAIN acquisitions
  BY TheJobTyped, Places
<1>2. x.type = "adopt" /\ x.value = v /\ x.acquisition = TheJob.acquisition
  BY DEF Next1, Job
<1>3. StillKept /\ UNCHANGED <<pending, current, references, acquisitions>>
  BY DEF Follow, StillKept
<1>4. IF values[v].status = "pending"
      THEN /\ Shortened(jobs, jobs')
           /\ \E ws \in Seq(JobType) : Lengthened(values[v].waiters, ws, x) /\ Becomes(v, "pending", ws)
      ELSE Turned(jobs, jobs', x) /\ UNCHANGED values
  BY FollowTyped
<1>5. Shifted(x) /\ OnlyIts /\ values'[v].status = values[v].status /\ DOMAIN values' = DOMAIN values
  <2>1. CASE values[v].status = "pending"
    BY <2>1, <1>3, <1>4, ShortenedShifts DEF OnlyIts, Becomes
  <2>2. CASE values[v].status # "pending"
    BY <2>2, <1>3, <1>4, TurnedShifts DEF OnlyIts
  <2> QED BY <2>1, <2>2
<1>6. values[v].status # "created"
  BY FollowsNone
<1>7. acquisitions[TheJob.acquisition].status = "asked" /\ acquisitions[TheJob.acquisition].value = v
  BY <1>1 DEF Good, JobsKnown
<1>8. JobsKnown'
  BY <1>2, <1>3, <1>5, <1>7, ShiftKnown
<1>9. WaitersKnown'
  <2>1. CASE values[v].status # "pending"
    BY <2>1, <1>2, <1>3, <1>4, <1>5, ShiftWaiters
  <2>2. CASE values[v].status = "pending"
    <3> DEFINE old == values[v].waiters
    <3>1. PICK ws \in Seq(JobType) : Lengthened(old, ws, x) /\ Becomes(v, "pending", ws)
      BY <2>2, <1>4
    <3>2. v = pending /\ \A w \in DOMAIN values : w # v => values[w].status \notin {"pending", "plain", "resolved"}
      BY <2>2, <1>1 DEF Good, WaitersKnown
    <3>3. /\ Len(old) > 0
          /\ \A i \in DOMAIN old :
               /\ old[i].value = v /\ old[i].type = (IF i = 1 THEN "create" ELSE "adopt")
               /\ acquisitions[old[i].acquisition].value = v
               /\ acquisitions[old[i].acquisition].status = "asked"
               /\ \A j \in DOMAIN jobs : jobs[j].acquisition # old[i].acquisition
               /\ \A j \in DOMAIN old : old[j].acquisition = old[i].acquisition => i = j
      BY <2>2, <1>1 DEF Good, WaitersKnown
    <3> HIDE DEF old
    <3>4. \A j \in DOMAIN jobs' : jobs'[j].acquisition # TheJob.acquisition
                                  /\ j + 1 \in DOMAIN jobs /\ jobs'[j] = jobs[j + 1]
      <4>1. \A j \in DOMAIN jobs' : j + 1 \in DOMAIN jobs /\ jobs'[j] = jobs[j + 1] /\ j + 1 # 1
        BY <2>2, <1>4 DEF Shortened
      <4> QED BY <4>1, <1>1 DEF Good, JobsKnown
    <3>5. /\ Len(ws) > 0 /\ Len(ws) = Len(old) + 1 /\ Len(old) \in Nat /\ Len(old) + 1 # 1
          /\ \A i \in DOMAIN ws : \/ i \in DOMAIN old /\ ws[i] = old[i] /\ i # Len(old) + 1
                                  \/ i = Len(old) + 1 /\ ws[i] = x
      BY <3>1, <3>3 DEF Lengthened
    <3>6. \A i \in DOMAIN ws :
               /\ ws[i].value = v /\ ws[i].type = (IF i = 1 THEN "create" ELSE "adopt")
               /\ acquisitions[ws[i].acquisition].value = v
               /\ acquisitions[ws[i].acquisition].status = "asked"
               /\ \A j \in DOMAIN jobs' : jobs'[j].acquisition # ws[i].acquisition
               /\ \A j \in DOMAIN ws : ws[j].acquisition = ws[i].acquisition => i = j
      <4> SUFFICES ASSUME NEW i \in DOMAIN ws
                   PROVE  /\ ws[i].value = v /\ ws[i].type = (IF i = 1 THEN "create" ELSE "adopt")
                          /\ acquisitions[ws[i].acquisition].value = v
                          /\ acquisitions[ws[i].acquisition].status = "asked"
                          /\ \A j \in DOMAIN jobs' : jobs'[j].acquisition # ws[i].acquisition
                          /\ \A j \in DOMAIN ws : ws[j].acquisition = ws[i].acquisition => i = j
        OBVIOUS
      <4>1. CASE i \in DOMAIN old /\ ws[i] = old[i]
        BY <4>1, <3>3, <3>4, <3>5, <1>1, <1>2
      <4>2. CASE i = Len(old) + 1 /\ ws[i] = x
        BY <4>2, <3>3, <3>4, <3>5, <1>1, <1>2, <1>7
      <4> QED BY <4>1, <4>2, <3>5
    <3>7. /\ values'[v].status = "pending" /\ values'[v].waiters = ws
          /\ \A w \in DOMAIN values : w # v => values'[w].status = values[w].status /\ values'[w].waiters = values[w].waiters
      BY <3>1 DEF Becomes
    <3>8. \A w \in DOMAIN values : w # v => values[w].waiters = <<>>
      BY <3>2 DEF Good, WaitersKnown
    <3> QED BY <3>2, <3>5, <3>6, <3>7, <3>8, <1>3, <1>5, SMTT(30) DEF WaitersKnown
  <2> QED BY <2>1, <2>2
<1>10. Creation'
  <2> SUFFICES ASSUME pending # 0 PROVE Creation'
    BY <1>3 DEF Creation
  <2>1. pending \in DOMAIN values /\ values'[pending].status = values[pending].status
    BY <1>5, TypeParts, Places DEF OnlyIts
  <2>2. ASSUME values[pending].status = "pending", NEW j \in DOMAIN jobs', jobs'[j].value = pending
        PROVE  jobs'[j].type = "follow"
    <3>1. j + 1 \in DOMAIN jobs /\ jobs'[j] = jobs[j + 1]
      <4>1. CASE v = pending
        BY <4>1, <2>2, <1>4 DEF Shortened
      <4>2. CASE v # pending
        BY <4>2, <2>2, <1>2, <1>5 DEF Shifted
      <4> QED BY <4>1, <4>2
    <3> QED BY <3>1, <2>2 DEF Good, Creation
  <2>3. ASSUME values[pending].status # "pending" PROVE CreationQueued(pending)'
    <3>1. CreationQueued(pending)
      BY <2>3 DEF Good, Creation
    <3>2. CASE v # pending
      <4> SUFFICES ASSUME NEW p, p = pending PROVE CreationQueued(p)'
        BY <1>3 DEF CreationQueued
      <4> QED BY <3>1, <3>2, <2>1, <1>2, <1>5, OtherShift
    <3>3. CASE v = pending
      <4>1. PICK i \in DOMAIN jobs :
              /\ jobs[i].type = "create" /\ jobs[i].value = v
              /\ values[v].status # "failed" =>
                   \A j \in DOMAIN jobs : jobs[j].value = v =>
                      /\ j < i => jobs[j].type = "follow"
                      /\ j > i => jobs[j].type \in {"adopt", "acquire"}
        BY <3>1, <3>3 DEF CreationQueued
      <4>2. Turned(jobs, jobs', x)
        BY <2>3, <3>3, <1>4
      <4>3. i # 1 /\ i \in Nat /\ i - 1 \in DOMAIN jobs' /\ jobs'[i - 1] = jobs[i] /\ ~(Len(jobs) < i - 1)
        BY <4>1, <4>2, <1>1 DEF Turned
      <4>4. ASSUME values[v].status # "failed", NEW j \in DOMAIN jobs', jobs'[j].value = v
            PROVE  /\ j < i - 1 => jobs'[j].type = "follow"
                   /\ j > i - 1 => jobs'[j].type \in {"adopt", "acquire"}
        <5>1. CASE j + 1 \in DOMAIN jobs /\ jobs'[j] = jobs[j + 1]
          <6>1. (j < i - 1 => j + 1 < i) /\ (j > i - 1 => j + 1 > i)
            BY <4>2, <4>3 DEF Turned
          <6> QED BY <4>1, <4>4, <5>1, <6>1
        <5>2. CASE j = Len(jobs) /\ jobs'[j] = x
          BY <5>2, <4>3, <1>2
        <5> QED BY <5>1, <5>2, <1>5 DEF Shifted
      <4> QED BY <4>1, <4>3, <4>4, <3>3, <1>3, <1>5 DEF CreationQueued
    <3> QED BY <3>2, <3>3
  <2> QED BY <2>1, <2>2, <2>3, <1>3 DEF Good, Creation
<1>11. Lives'
  <2> SUFFICES ASSUME NEW w \in DOMAIN values, values'[w].status = "created"
               PROVE  IF values'[w].disposals = 0
                      THEN /\ w = current'
                           /\ FirstComing(w)' \/ (references' # 0 /\ (LastGranted(w)' \/ AllGranted(w)'))
                      ELSE AllGranted(w)'
    BY <1>5 DEF Lives
  <2>1. w # v /\ values[w].status = "created" /\ values'[w].disposals = values[w].disposals
    BY <1>5, <1>6 DEF OnlyIts
  <2>2. /\ AllGranted(w) => AllGranted(w)'
        /\ FirstComing(w) => FirstComing(w)'
        /\ LastGranted(w) => LastGranted(w)'
    BY <2>1, <1>2, <1>5, OtherShift
  <2> QED BY <2>1, <2>2, <1>3 DEF Good, Lives
<1>12. Keys' /\ Members' /\ Grants' /\ Disposals'
  BY <1>3, <1>5, KeptParts
<1> QED BY <1>8, <1>9, <1>10, <1>11, <1>12 DEF Good

LEMMA AdoptKeeps ==
    ASSUME TypeOK, Good, jobs # <<>>, TheJob.type = "adopt", Adopt(TheJob),
           UNCHANGED <<clears, cleared, careful>>
    PROVE  Good'
<1> SUFFICES ASSUME NEW v, v = TheJob.value, NEW x, x = Next1("acquire") PROVE Good'
  OBVIOUS
<1>1. /\ TheJob = jobs[1] /\ 1 \in DOMAIN jobs /\ v \in DOMAIN values
      /\ TheJob.acquisition \in DOMAIN acquisitions
  BY TheJobTyped
<1>2. x.type = "acquire" /\ x.value = v /\ x.acquisition = TheJob.acquisition
  BY DEF Next1, Job
<1>3. StillKept /\ UNCHANGED <<values, pending, current, references, acquisitions>>
  BY DEF Adopt, StillKept
<1>4. Turned(jobs, jobs', x) /\ Shifted(x) /\ OnlyIts
  BY <1>3, AdoptTyped, TurnedShifts DEF OnlyIts
<1>5. acquisitions[TheJob.acquisition].status = "asked"
  BY <1>1 DEF Good, JobsKnown
<1>6. JobsKnown'
  BY <1>2, <1>3, <1>4, <1>5, ShiftKnown
<1>7. WaitersKnown'
  BY <1>2, <1>3, <1>4, ShiftWaiters
<1>8. values[v].status # "failed" =>
         v = current /\ current # 0 /\ Alive(v) /\ (FirstComing(v) \/ (references # 0 /\ LastGranted(v)))
  BY ComesToCurrent
<1>9. Creation'
  <2> SUFFICES ASSUME NEW p, p = pending, p # 0 PROVE Creation'
    BY <1>3 DEF Creation
  <2>1. p \in DOMAIN values
    BY TypeParts, Places
  <2>2. CASE p # v
    <3>1. values[p].status = "pending" => \A j \in DOMAIN jobs' : jobs'[j].value = p => jobs'[j].type = "follow"
      BY <2>2, <1>2, <1>4 DEF Good, Creation, Shifted
    <3>2. values[p].status # "pending" => CreationQueued(p)'
      BY <2>1, <2>2, <1>2, <1>4, OtherShift DEF Good, Creation
    <3> QED BY <3>1, <3>2, <1>3 DEF Good, Creation, CreationQueued
  <2>3. CASE p = v
    <3>1. values[v].status = "failed"
      BY <2>3, <1>8 DEF Good, Keys
    <3>2. PICK i \in DOMAIN jobs : jobs[i].type = "create" /\ jobs[i].value = v
      BY <2>3, <3>1 DEF Good, Creation, CreationQueued
    <3>3. i - 1 \in DOMAIN jobs' /\ jobs'[i - 1] = jobs[i]
      BY <3>2, <1>1, <1>4 DEF Shifted
    <3> QED BY <2>3, <3>1, <3>2, <3>3, <1>3 DEF Creation, CreationQueued
  <2> QED BY <2>2, <2>3
<1>10. FirstComing(v) => FirstComing(v)'
  <2> SUFFICES ASSUME FirstComing(v) PROVE FirstComing(v)'
    OBVIOUS
  <2>1. PICK i \in DOMAIN jobs :
          /\ jobs[i].type = "acquire" /\ jobs[i].value = v
          /\ \A j \in DOMAIN jobs : jobs[j].value = v =>
                /\ j < i => jobs[j].type # "deliver"
                /\ j > i => jobs[j].type \in {"acquire", "deliver"}
                /\ jobs[j].type \in {"adopt", "acquire", "deliver"}
    BY DEF FirstComing
  <2>2. i # 1 /\ i \in Nat /\ i - 1 \in DOMAIN jobs' /\ jobs'[i - 1] = jobs[i]
    BY <2>1, <1>1, <1>4 DEF Turned
  <2>3. ASSUME NEW j \in DOMAIN jobs', jobs'[j].value = v
        PROVE  /\ j < i - 1 => jobs'[j].type # "deliver"
               /\ j > i - 1 => jobs'[j].type \in {"acquire", "deliver"}
               /\ jobs'[j].type \in {"adopt", "acquire", "deliver"}
    <3>1. CASE j + 1 \in DOMAIN jobs /\ jobs'[j] = jobs[j + 1]
      <4>1. (j < i - 1 => j + 1 < i) /\ (j > i - 1 => j + 1 > i)
        BY <2>2, <1>4 DEF Turned
      <4> QED BY <2>1, <2>3, <3>1, <4>1
    <3>2. CASE j = Len(jobs) /\ jobs'[j] = x
      BY <3>2, <1>2
    <3> QED BY <3>1, <3>2, <1>4 DEF Shifted
  <2>4. \A a \in DOMAIN acquisitions' : acquisitions'[a].value = v => acquisitions'[a].status # "held"
    BY <1>3 DEF FirstComing
  <2> QED BY <2>1, <2>2, <2>3, <2>4 DEF FirstComing
<1>11. ~AllGranted(v) /\ ~LastGranted(v)
  BY <1>1 DEF AllGranted, LastGranted
<1>12. Lives'
  <2> SUFFICES ASSUME NEW w \in DOMAIN values, values[w].status = "created"
               PROVE  IF values[w].disposals = 0
                      THEN w = current /\ (FirstComing(w)' \/ (references # 0 /\ (LastGranted(w)' \/ AllGranted(w)')))
                      ELSE AllGranted(w)'
    BY <1>3 DEF Lives
  <2>1. CASE w = v
    BY <2>1, <1>8, <1>10, <1>11 DEF Good, Lives
  <2>2. CASE w # v
    <3>1. /\ AllGranted(w) => AllGranted(w)'
          /\ FirstComing(w) => FirstComing(w)'
          /\ LastGranted(w) => LastGranted(w)'
      BY <2>2, <1>2, <1>4, OtherShift
    <3> QED BY <3>1 DEF Good, Lives
  <2> QED BY <2>1, <2>2
<1>13. Keys' /\ Members' /\ Grants' /\ Disposals'
  BY <1>3, <1>4, KeptParts
<1> QED BY <1>6, <1>7, <1>9, <1>12, <1>13 DEF Good

\* The reference of an acquisition whose value failed.
LEMMA AcquireFailedKeeps ==
    ASSUME TypeOK, Good, jobs # <<>>, TheJob.type = "acquire", AcquireCreated(TheJob),
           UNCHANGED <<clears, cleared, careful>>, values[TheJob.value].status = "failed"
    PROVE  Good'
<1> SUFFICES ASSUME NEW v, v = TheJob.value, NEW x, x = Next1("deliver") PROVE Good'
  OBVIOUS
<1>1. /\ TheJob = jobs[1] /\ 1 \in DOMAIN jobs /\ v \in DOMAIN values
  BY TheJobTyped
<1>2. x.type = "deliver" /\ x.value = v /\ x.acquisition = TheJob.acquisition
  BY DEF Next1, Job
<1>3. StillKept /\ UNCHANGED <<values, pending, current, references, acquisitions>>
  BY DEF AcquireCreated, StillKept
<1>4. Shifted(x) /\ OnlyIts
  BY <1>3, AcquireCreatedTyped, TurnedShifts DEF OnlyIts
<1>5. JobsKnown'
  BY <1>2, <1>3, <1>4, ShiftKnown
<1>6. WaitersKnown'
  BY <1>2, <1>3, <1>4, ShiftWaiters
<1>7. Creation'
  <2> SUFFICES ASSUME NEW p, p = pending, p # 0 PROVE Creation'
    BY <1>3 DEF Creation
  <2>1. p \in DOMAIN values
    BY TypeParts, Places
  <2>2. CASE p # v
    <3>1. values[p].status = "pending" => \A j \in DOMAIN jobs' : jobs'[j].value = p => jobs'[j].type = "follow"
      BY <2>2, <1>2, <1>4 DEF Good, Creation, Shifted
    <3>2. values[p].status # "pending" => CreationQueued(p)'
      BY <2>1, <2>2, <1>2, <1>4, OtherShift DEF Good, Creation
    <3> QED BY <3>1, <3>2, <1>3 DEF Good, Creation, CreationQueued
  <2>3. CASE p = v
    <3>1. PICK i \in DOMAIN jobs : jobs[i].type = "create" /\ jobs[i].value = v
      BY <2>3 DEF Good, Creation, CreationQueued
    <3>2. i - 1 \in DOMAIN jobs' /\ jobs'[i - 1] = jobs[i]
      BY <3>1, <1>1, <1>4 DEF Shifted
    <3> QED BY <2>3, <3>1, <3>2, <1>3 DEF Creation, CreationQueued
  <2> QED BY <2>2, <2>3
<1>8. Lives'
  <2> SUFFICES ASSUME NEW w \in DOMAIN values, values[w].status = "created"
               PROVE  IF values[w].disposals = 0
                      THEN w = current /\ (FirstComing(w)' \/ (references # 0 /\ (LastGranted(w)' \/ AllGranted(w)')))
                      ELSE AllGranted(w)'
    BY <1>3 DEF Lives
  <2>1. /\ AllGranted(w) => AllGranted(w)'
        /\ FirstComing(w) => FirstComing(w)'
        /\ LastGranted(w) => LastGranted(w)'
    BY <1>2, <1>4, OtherShift
  <2> QED BY <2>1 DEF Good, Lives
<1>9. Keys' /\ Members' /\ Grants' /\ Disposals'
  BY <1>3, <1>4, KeptParts
<1> QED BY <1>5, <1>6, <1>7, <1>8, <1>9 DEF Good

LEMMA AcquireCreatedKeeps ==
    ASSUME TypeOK, Good, jobs # <<>>, TheJob.type = "acquire", AcquireCreated(TheJob),
           UNCHANGED <<clears, cleared, careful>>, values[TheJob.value].status # "failed"
    PROVE  Good'
<1> SUFFICES ASSUME NEW v, v = TheJob.value, NEW x, x = Next1("deliver"), NEW a, a = TheJob.acquisition PROVE Good'
  OBVIOUS
<1>1. /\ TheJob = jobs[1] /\ 1 \in DOMAIN jobs /\ v \in DOMAIN values /\ a \in DOMAIN acquisitions
  BY TheJobTyped
<1>2. x.type = "deliver" /\ x.value = v /\ x.acquisition = a
  BY DEF Next1, Job
<1>3. UNCHANGED <<values, pending, current, known, cleared>>
  BY DEF AcquireCreated
<1>4. Turned(jobs, jobs', x) /\ Shifted(x) /\ Joined(a, v) /\ Turns(a, "granted")
  BY AcquireCreatedTyped, TurnedShifts
<1>5. /\ v = current /\ current # 0 /\ Alive(v)
      /\ FirstComing(v) \/ (references # 0 /\ LastGranted(v))
  BY ComesToCurrent
<1>6. acquisitions[a].status = "asked" /\ acquisitions[a].value = v
  BY <1>1 DEF Good, JobsKnown
<1>7. /\ OnlyIts /\ OthersStay(a) /\ a \in DOMAIN acquisitions'
      /\ acquisitions'[a].status = "granted" /\ acquisitions'[a].value = v
      /\ \A b \in DOMAIN acquisitions' : b # a => acquisitions'[b].status = acquisitions[b].status
      /\ DOMAIN acquisitions' = DOMAIN acquisitions
  BY <1>1, <1>3, <1>4, <1>6 DEF OnlyIts, OthersStay, Turns
<1>8. references' # 0 /\ Keys' /\ Members' /\ Grants' /\ Disposals'
  BY <1>3, <1>4, <1>5, <1>7, JoinKeeps
<1>9. JobsKnown'
  BY <1>2, <1>3, <1>4, <1>7, ShiftKnown
<1>10. WaitersKnown'
  BY <1>2, <1>3, <1>4, <1>7, ShiftWaiters
<1>11. Creation'
  BY <1>3, <1>5 DEF Good, Keys, Creation
<1>12. FirstComing(v)' \/ LastGranted(v)'
  <2>1. CASE FirstComing(v)
    <3>1. PICK i \in DOMAIN jobs :
            /\ jobs[i].type = "acquire" /\ jobs[i].value = v
            /\ \A j \in DOMAIN jobs : jobs[j].value = v =>
                  /\ j < i => jobs[j].type # "deliver"
                  /\ j > i => jobs[j].type \in {"acquire", "deliver"}
                  /\ jobs[j].type \in {"adopt", "acquire", "deliver"}
      BY <2>1 DEF FirstComing
    <3>2. CASE i = 1
      <4>1. /\ Len(jobs) \in DOMAIN jobs' /\ jobs'[Len(jobs)] = x
            /\ \A j \in DOMAIN jobs' : j \in Nat /\ j <= Len(jobs) /\ Len(jobs) \in Nat
        BY <1>4 DEF Turned
      <4>2. ASSUME NEW j \in DOMAIN jobs', jobs'[j].value = v
            PROVE  jobs'[j].type = "deliver" \/ (jobs'[j].type = "acquire" /\ j < Len(jobs))
        <5>1. CASE j = Len(jobs)
          BY <5>1, <4>1, <1>2
        <5>2. CASE j # Len(jobs)
          <6>1. j + 1 \in DOMAIN jobs /\ jobs'[j] = jobs[j + 1] /\ j < Len(jobs) /\ j + 1 > 1
            BY <5>2, <4>1, <1>4 DEF Turned
          <6> QED BY <6>1, <3>1, <3>2, <4>2
        <5> QED BY <5>1, <5>2
      <4> QED BY <4>1, <4>2, <1>2 DEF LastGranted
    <3>3. CASE i # 1
      <4>1. i \in Nat /\ i - 1 \in DOMAIN jobs' /\ jobs'[i - 1] = jobs[i] /\ ~(Len(jobs) < i - 1)
        BY <3>1, <3>3, <1>4 DEF Turned
      <4>2. ASSUME NEW j \in DOMAIN jobs', jobs'[j].value = v
            PROVE  /\ j < i - 1 => jobs'[j].type # "deliver"
                   /\ j > i - 1 => jobs'[j].type \in {"acquire", "deliver"}
                   /\ jobs'[j].type \in {"adopt", "acquire", "deliver"}
        <5>1. CASE j + 1 \in DOMAIN jobs /\ jobs'[j] = jobs[j + 1]
          <6>1. (j < i - 1 => j + 1 < i) /\ (j > i - 1 => j + 1 > i)
            BY <4>1, <1>4 DEF Turned
          <6> QED BY <3>1, <4>2, <5>1, <6>1
        <5>2. CASE j = Len(jobs) /\ jobs'[j] = x
          BY <5>2, <4>1, <1>2
        <5> QED BY <5>1, <5>2, <1>4 DEF Shifted
      <4>3. \A b \in DOMAIN acquisitions' : acquisitions'[b].value = v => acquisitions'[b].status # "held"
        BY <2>1, <1>7 DEF FirstComing, OthersStay
      <4> QED BY <3>1, <4>1, <4>2, <4>3 DEF FirstComing
    <3> QED BY <3>2, <3>3
  <2>2. CASE LastGranted(v)
    <3>1. PICK i \in DOMAIN jobs :
            /\ jobs[i].type = "deliver" /\ jobs[i].value = v
            /\ \A j \in DOMAIN jobs : jobs[j].value = v =>
                  jobs[j].type = "deliver" \/ (jobs[j].type = "acquire" /\ j < i)
      BY <2>2 DEF LastGranted
    <3>2. i # 1 /\ i \in Nat /\ i - 1 \in DOMAIN jobs' /\ jobs'[i - 1] = jobs[i]
      BY <3>1, <1>1, <1>4 DEF Turned
    <3>3. ASSUME NEW j \in DOMAIN jobs', jobs'[j].value = v
          PROVE  jobs'[j].type = "deliver" \/ (jobs'[j].type = "acquire" /\ j < i - 1)
      <4>1. CASE j + 1 \in DOMAIN jobs /\ jobs'[j] = jobs[j + 1]
        <5>1. j + 1 < i => j < i - 1
          BY <3>2, <1>4 DEF Turned
        <5> QED BY <3>1, <3>3, <4>1, <5>1
      <4>2. CASE j = Len(jobs) /\ jobs'[j] = x
        BY <4>2, <1>2
      <4> QED BY <4>1, <4>2, <1>4 DEF Shifted
    <3> QED BY <3>1, <3>2, <3>3 DEF LastGranted
  <2> QED BY <2>1, <2>2, <1>5
<1>13. Lives'
  <2> SUFFICES ASSUME NEW w \in DOMAIN values, values[w].status = "created"
               PROVE  IF values[w].disposals = 0
                      THEN w = current /\ (FirstComing(w)' \/ LastGranted(w)')
                      ELSE AllGranted(w)'
    BY <1>3, <1>8 DEF Lives
  <2>1. CASE w = v
    BY <2>1, <1>5, <1>12 DEF Alive
  <2>2. CASE w # v
    <3>1. AllGranted(w) => AllGranted(w)'
      BY <2>2, <1>2, <1>4, <1>7, OtherShift
    <3> QED BY <2>2, <3>1, <1>5 DEF Good, Lives
  <2> QED BY <2>1, <2>2
<1> QED BY <1>8, <1>9, <1>10, <1>11, <1>13 DEF Good

LEMMA DeliverKeeps ==
    ASSUME TypeOK, Good, jobs # <<>>, TheJob.type = "deliver", Deliver(TheJob),
           UNCHANGED <<clears, cleared, careful>>
    PROVE  Good'
<1> SUFFICES ASSUME NEW v, v = TheJob.value, NEW a, a = TheJob.acquisition,
                    NEW s, s = IF values[v].status = "failed" THEN "failed" ELSE "held" PROVE Good'
  OBVIOUS
<1>1. /\ TheJob = jobs[1] /\ 1 \in DOMAIN jobs /\ v \in DOMAIN values /\ a \in DOMAIN acquisitions
  BY TheJobTyped
<1>2. UNCHANGED <<values, pending, current, known, references, collections, cleared>>
  BY DEF Deliver
<1>3. Shortened(jobs, jobs') /\ Turns(a, s)
  BY DeliverTyped
<1>4. /\ acquisitions[a].value = v
      /\ values[v].status # "failed" => acquisitions[a].status = "granted"
      /\ \A j \in DOMAIN jobs : jobs[j].acquisition = a => j = 1
  BY <1>1 DEF Good, JobsKnown
<1>5. /\ \A b \in DOMAIN acquisitions : /\ acquisitions'[b].value = acquisitions[b].value
                                        /\ b # a => acquisitions'[b].status = acquisitions[b].status
      /\ DOMAIN acquisitions' = DOMAIN acquisitions
      /\ acquisitions'[a].status = s /\ acquisitions'[a].value = v
  BY <1>1, <1>3, <1>4 DEF Turns
<1>6. OnlyIts
  BY <1>2, <1>5 DEF OnlyIts
<1>7. PICK x : x = Next1("adopt")
  OBVIOUS
<1>8. Shifted(x) /\ x.value = v /\ x.acquisition = a /\ x.type = "adopt"
  BY <1>3, <1>7, ShortenedShifts DEF Next1, Job
<1>9. \A j \in DOMAIN jobs' : j + 1 \in DOMAIN jobs /\ jobs'[j] = jobs[j + 1] /\ j + 1 # 1
                              /\ jobs'[j].acquisition # a /\ j \in Nat
  BY <1>3, <1>4 DEF Shortened
<1>10. JobsKnown'
  BY <1>2, <1>6, <1>8, <1>9, ShiftKnown
<1>11. WaitersKnown'
  BY <1>2, <1>6, <1>8, ShiftWaiters
<1>12. Creation'
  <2> SUFFICES ASSUME NEW p, p = pending, p # 0 PROVE Creation'
    BY <1>2 DEF Creation
  <2>1. p \in DOMAIN values
    BY TypeParts, Places
  <2>2. CASE p # v
    <3>1. values[p].status = "pending" => \A j \in DOMAIN jobs' : jobs'[j].value = p => jobs'[j].type = "follow"
      BY <2>2, <1>9 DEF Good, Creation
    <3>2. values[p].status # "pending" => CreationQueued(p)'
      BY <2>1, <2>2, <1>6, <1>8, OtherShift DEF Good, Creation
    <3> QED BY <3>1, <3>2, <1>2 DEF Good, Creation, CreationQueued
  <2>3. CASE p = v
    <3>1. values[v].status \notin {"created", "pending"} /\ CreationQueued(v)
      BY <2>3, <1>1 DEF Good, Creation
    <3>2. values[v].status = "failed"
      BY <1>1, <1>4, <3>1 DEF Good, Grants
    <3>3. PICK i \in DOMAIN jobs : jobs[i].type = "create" /\ jobs[i].value = v
      BY <3>1 DEF CreationQueued
    <3>4. i - 1 \in DOMAIN jobs' /\ jobs'[i - 1] = jobs[i]
      BY <3>3, <1>1, <1>3 DEF Shortened
    <3> QED BY <2>3, <3>2, <3>3, <3>4, <1>2 DEF Creation, CreationQueued
  <2> QED BY <2>2, <2>3
<1>13. Lives'
  <2> SUFFICES ASSUME NEW w \in DOMAIN values, values[w].status = "created"
               PROVE  IF values[w].disposals = 0
                      THEN w = current /\ (FirstComing(w)' \/ (references # 0 /\ (LastGranted(w)' \/ AllGranted(w)')))
                      ELSE AllGranted(w)'
    BY <1>2 DEF Lives
  <2>1. CASE w # v
    <3>1. /\ AllGranted(w) => AllGranted(w)'
          /\ FirstComing(w) => FirstComing(w)'
          /\ LastGranted(w) => LastGranted(w)'
      BY <2>1, <1>6, <1>8, OtherShift
    <3> QED BY <3>1 DEF Good, Lives
  <2>2. CASE w = v
    <3>1. ~FirstComing(v)
      <4> SUFFICES ASSUME FirstComing(v) PROVE FALSE
        OBVIOUS
      <4>1. PICK i \in DOMAIN jobs : jobs[i].type = "acquire"
                                     /\ \A j \in DOMAIN jobs : jobs[j].value = v /\ j < i => jobs[j].type # "deliver"
        BY DEF FirstComing
      <4>2. i # 1 /\ 1 < i
        BY <4>1, <1>1, Places
      <4> QED BY <4>1, <4>2, <1>1
    <3>2. AllGranted(v) => AllGranted(v)'
      BY <1>9 DEF AllGranted
    <3>3. LastGranted(v) => LastGranted(v)' \/ AllGranted(v)'
      <4> SUFFICES ASSUME LastGranted(v) PROVE LastGranted(v)' \/ AllGranted(v)'
        OBVIOUS
      <4>1. PICK i \in DOMAIN jobs :
              /\ jobs[i].type = "deliver" /\ jobs[i].value = v
              /\ \A j \in DOMAIN jobs : jobs[j].value = v =>
                    jobs[j].type = "deliver" \/ (jobs[j].type = "acquire" /\ j < i)
        BY DEF LastGranted
      <4>2. \A j \in DOMAIN jobs' : jobs'[j].value = v =>
                jobs'[j].type = "deliver" \/ (jobs'[j].type = "acquire" /\ j + 1 < i)
        BY <4>1, <1>9
      <4>3. CASE i = 1
        <5>1. \A j \in DOMAIN jobs' : ~(j + 1 < i)
          BY <4>3, <1>9
        <5> QED BY <4>2, <5>1 DEF AllGranted
      <4>4. CASE i # 1
        <5>1. i \in Nat /\ i - 1 \in DOMAIN jobs' /\ jobs'[i - 1] = jobs[i]
          BY <4>4, <1>3 DEF Shortened
        <5>2. \A j \in DOMAIN jobs' : j + 1 < i => j < i - 1
          BY <5>1, <1>9
        <5> QED BY <4>1, <4>2, <5>1, <5>2 DEF LastGranted
      <4> QED BY <4>3, <4>4
    <3> QED BY <2>2, <3>1, <3>2, <3>3 DEF Good, Lives
  <2> QED BY <2>1, <2>2
<1>14. \A b \in DOMAIN acquisitions : acquisitions'[b].status \in {"granted", "held"}
                                        => acquisitions[b].status \in {"granted", "held"}
  BY <1>4, <1>5
<1>15. \A b \in DOMAIN acquisitions : acquisitions[b].status \in {"granted", "held"}
                                        => acquisitions'[b].status \in {"granted", "held"}
  <2>1. acquisitions[a].status \in {"granted", "held"} => values[v].status = "created"
    BY <1>1, <1>4 DEF Good, Grants
  <2> QED BY <2>1, <1>4, <1>5
<1>16. Keys' /\ Disposals'
  BY <1>2 DEF Good, Keys, Disposals, Alive
<1>17. Members'
  <2>1. \A c \in DOMAIN collections : collections[c].members \subseteq DOMAIN acquisitions
    BY Places DEF CollectionType
  <2> QED BY <2>1, <1>2, <1>5, <1>15 DEF Good, Members
<1>18. Grants'
  BY <1>2, <1>5, <1>14 DEF Good, Grants, Alive
<1> QED BY <1>10, <1>11, <1>12, <1>13, <1>16, <1>17, <1>18 DEF Good

-----------------------------------------------------------------------------
-----------------------------------------------------------------------------
(* The steps together *)

\* Nobody becomes careful again.
LEMMA CarefulBefore == ASSUME TypeOK, [Next]_vars, careful' PROVE careful
<1>1. ASSUME NEW v, DisposedByCall(v) PROVE careful
  BY <1>1, Zenon DEF DisposedByCall
<1>2. CASE Acquire
  <2>1. ASSUME NEW a, AcquirePending(a) PROVE careful
    BY <2>1, Zenon DEF AcquirePending
  <2>2. ASSUME NEW a, AcquireExisting(a) \/ AcquireNew(a) PROVE careful' = careful
    BY <2>2 DEF AcquireExisting, AcquireNew
  <2> QED BY <1>2, <2>1, <2>2 DEF Acquire
<1>3. CASE Clear
  BY <1>3, <1>1 DEF Clear
<1>4. CASE RunJob
  BY <1>4, RunJobCases
<1>5. ASSUME NEW v \in DOMAIN values, Settle(v) PROVE careful
  BY <1>5 DEF Settle
<1>6. ASSUME NEW a \in DOMAIN acquisitions, User(a) PROVE careful
  <2>1. CASE Release(a)
    BY <2>1 DEF Release
  <2>2. CASE DisposeObject(a)
    BY <2>2, <1>1 DEF DisposeObject
  <2> QED BY <1>6, <2>1, <2>2 DEF User
<1>7. CASE UNCHANGED vars
  BY <1>7 DEF vars
<1> QED BY <1>2, <1>3, <1>4, <1>5, <1>6, <1>7 DEF Next

LEMMA AcquireKeeps == ASSUME TypeOK, Good, Acquire, careful' PROVE Good'
BY AcquireExistingKeeps, AcquirePendingKeeps, AcquireNewKeeps DEF Acquire

LEMMA RunJobKeeps == ASSUME TypeOK, Good, RunJob PROVE Good'
BY RunJobCases, CreateKeeps, FollowKeeps, AdoptKeeps, AcquireFailedKeeps, AcquireCreatedKeeps, DeliverKeeps

LEMMA StutterKeeps == ASSUME Good, UNCHANGED vars PROVE Good'
<1> USE DEF vars
<1>1. \A v : /\ FirstComing(v)' = FirstComing(v) /\ LastGranted(v)' = LastGranted(v)
             /\ AllGranted(v)' = AllGranted(v) /\ CreationQueued(v)' = CreationQueued(v)
             /\ Alive(v)' = Alive(v)
  BY DEF FirstComing, LastGranted, AllGranted, CreationQueued, Alive
<1>2. JobsKnown' /\ WaitersKnown' /\ Creation'
  BY <1>1 DEF Good, JobsKnown, WaitersKnown, Creation
<1>3. Lives' /\ Keys' /\ Members' /\ Grants' /\ Disposals'
  BY <1>1 DEF Good, Lives, Keys, Members, Grants, Disposals
<1> QED BY <1>2, <1>3 DEF Good

LEMMA NextKeepsInv == Inv /\ [Next]_vars => Inv'
<1> SUFFICES ASSUME Inv, [Next]_vars PROVE Inv'
  OBVIOUS
<1>1. TypeOK /\ TypeOK'
  BY NextKeepsTypes DEF Inv
<1> SUFFICES ASSUME careful' PROVE Good'
  BY <1>1 DEF Inv
<1>2. Good
  BY <1>1, CarefulBefore DEF Inv
<1>3. ASSUME NEW v \in DOMAIN values, Settle(v) PROVE Good'
  BY <1>1, <1>2, <1>3, SettleKeeps
<1>4. ASSUME NEW a \in DOMAIN acquisitions, User(a) PROVE Good'
  BY <1>1, <1>2, <1>4, ReleaseKeeps, DisposeObjectKeeps DEF User
<1>5. UNCHANGED vars => Good'
  BY <1>2, StutterKeeps
<1> QED BY <1>1, <1>2, <1>3, <1>4, <1>5, AcquireKeeps, ClearKeeps, RunJobKeeps DEF Next

LEMMA InvAtFirst == Init => Inv
BY InitTyped, GoodAtFirst DEF Inv

\* The inductive invariant of a reference collection: as long as nobody does what it does
\* not cope with, the jobs of one value reach it in the order that keeps it alive, whatever
\* the number of acquisitions and of calls of clear.
THEOREM ReferencesInvariant == Spec => []Inv
BY InvAtFirst, NextKeepsInv, PTL DEF Spec

-----------------------------------------------------------------------------
(* What follows from it *)

LEMMA InvKeeps == Inv => KeptForItsUsers
BY DEF Inv, Good, Grants, KeptForItsUsers

LEMMA InvDisposesOnce == Inv => DisposedOnce
BY DEF Inv, Good, Disposals, DisposedOnce

LEMMA InvLeaksNothing == Inv => NothingLeaks
<1> SUFFICES ASSUME TypeOK, Good, NEW v \in DOMAIN values, Alive(v)
             PROVE  /\ current = v /\ pending = 0 /\ known
                    /\ \/ Coming(v) # {}
                       \/ references # 0 /\ collections[references].value = v
                             /\ collections[references].members # {}
  BY DEF Inv, NothingLeaks
<1>1. v = current /\ (FirstComing(v) \/ references # 0)
  BY DEF Good, Lives, Alive
<1>2. v # 0
  BY Places
<1>3. /\ pending = 0 /\ known
      /\ references # 0 => collections[references].value = v /\ collections[references].members # {}
  BY <1>1, <1>2 DEF Good, Keys
<1>4. FirstComing(v) => Coming(v) # {}
  BY DEF FirstComing, Coming
<1> QED BY <1>1, <1>3, <1>4

LEMMA InvMapsAgree == Inv => MapsAgree
<1> SUFFICES ASSUME TypeOK, Good
             PROVE  /\ known <=> (current # 0 \/ pending # 0)
                    /\ pending # 0 => \/ values[pending].status = "pending"
                                      \/ \E i \in DOMAIN jobs : jobs[i].type = "create" /\ jobs[i].value = pending
                    /\ references # 0 => collections[references].value = current
  BY DEF Inv, MapsAgree
<1>1. pending # 0 => \/ values[pending].status = "pending"
                     \/ \E i \in DOMAIN jobs : jobs[i].type = "create" /\ jobs[i].value = pending
  BY DEF Good, Creation, CreationQueued
<1> QED BY <1>1 DEF Good, Keys

\* Whoever has a reference, or is about to be handed one, has a value that is not disposed,
\* unless somebody disposed it in spite of its users: also when the last reference is
\* released while other acquisitions of the same value are between two of their promises.
\* It holds up to the first step that `careful' excludes: an acquisition between the
\* settling of the factory's promise and the continuation of the creation, or a disposal
\* while a reference is on its way; after the former the value can be disposed under a user.
THEOREM ValuesKeptForUsers == Spec => []KeptForItsUsers
BY InvKeeps, ReferencesInvariant, PTL

\* A value that is not disposed is the one the next user gets, its key is listed, and it
\* has a user or will have one: none is left behind, however its users come and go.
THEOREM NoValueLeaks == Spec => []NothingLeaks
BY InvLeaksNothing, ReferencesInvariant, PTL

\* A value is disposed by its last user, once, and once more only when clear or somebody's
\* own call disposed it before; one that is not created is never disposed.
THEOREM ValuesDisposedOnce == Spec => []DisposedOnce
BY InvDisposesOnce, ReferencesInvariant, PTL

\* Keys, values, pending values and collections of references agree: a key is listed while
\* it has a value or one is made, and what is waited for is under way, also after the
\* factory has failed.
THEOREM CollectionMapsAgree == Spec => []MapsAgree
BY InvMapsAgree, ReferencesInvariant, PTL

=============================================================================
