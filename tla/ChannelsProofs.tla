----------------------------- MODULE ChannelsProofs -----------------------------
(***************************************************************************)
(* Theorems about Channels and their proofs, for any number of services,    *)
(* connections, channels and messages.                                      *)
(***************************************************************************)
EXTENDS Channels, SequenceTheorems, FiniteSetTheorems, TLAPS

-----------------------------------------------------------------------------
(* Types *)

ChannelType == [path : Paths, status : {"opening", "ready", "closed"}]
ReplyType == [kind : {"ready", "close"}, id : Ids]
ServedType == [id : Ids, path : Paths]
SessionType == [status : {"none", "open", "closed"}, served : SUBSET ServedType, up : Seq(Messages)]

LEMMA TypeParts ==
    TypeOK <=> /\ socket \in {"connecting", "open", "fallback"} /\ errors \in Nat
               /\ requested \subseteq Paths
               /\ waiting \in Seq(Paths) /\ activators \in Seq(Paths)
               /\ channels \in Seq(ChannelType)
               /\ session \in SessionType
               /\ down \in Seq(ReplyType)
               /\ posts \subseteq Messages
               /\ breaks \in 0 .. MaxBreaks /\ closes \in 0 .. MaxCloses /\ losses \in 0 .. MaxLosses
BY DEF TypeOK, ChannelType, ReplyType, ServedType, SessionType

LEMMA TypePartsAfter ==
    ASSUME socket' \in {"connecting", "open", "fallback"}, errors' \in Nat,
           requested' \subseteq Paths,
           waiting' \in Seq(Paths), activators' \in Seq(Paths),
           channels' \in Seq(ChannelType),
           session' \in SessionType',
           down' \in Seq(ReplyType'),
           posts' \subseteq Messages',
           breaks' \in 0 .. MaxBreaks, closes' \in 0 .. MaxCloses, losses' \in 0 .. MaxLosses
    PROVE  TypeOK'
BY DEF TypeOK, ChannelType, ReplyType, ServedType, SessionType

\* What is made of channels stays when there are more.
LEMMA TypesGrow ==
    ASSUME Ids \subseteq Ids'
    PROVE  /\ Messages \subseteq Messages' /\ Seq(Messages) \subseteq Seq(Messages')
           /\ Seq(ReplyType) \subseteq Seq(ReplyType')
           /\ ServedType \subseteq ServedType'
           /\ SessionType \subseteq SessionType'
<1>1. Messages \subseteq Messages'
  BY DEF Messages
<1>2. ReplyType \subseteq ReplyType'
  BY DEF ReplyType
<1>3. ServedType \subseteq ServedType'
  BY DEF ServedType
<1>4. Seq(Messages) \subseteq Seq(Messages') /\ Seq(ReplyType) \subseteq Seq(ReplyType')
  BY <1>1, <1>2, SeqMonotonic
<1>5. SessionType \subseteq SessionType'
  BY <1>3, <1>4 DEF SessionType
<1> QED BY <1>1, <1>3, <1>4, <1>5

LEMMA Places ==
    ASSUME TypeOK
    PROVE  /\ Len(channels) \in Nat /\ Ids = 1 .. Len(channels)
           /\ Len(waiting) \in Nat /\ DOMAIN waiting = 1 .. Len(waiting)
           /\ Len(activators) \in Nat /\ DOMAIN activators = 1 .. Len(activators)
           /\ Len(down) \in Nat /\ DOMAIN down = 1 .. Len(down)
           /\ Len(session.up) \in Nat /\ DOMAIN session.up = 1 .. Len(session.up)
           /\ \A i \in Ids : channels[i] \in ChannelType
           /\ \A j \in DOMAIN waiting : waiting[j] \in Paths
           /\ \A j \in DOMAIN activators : activators[j] \in Paths
           /\ \A j \in DOMAIN down : down[j] \in ReplyType
           /\ \A j \in DOMAIN session.up : session.up[j] \in Messages
           /\ session.served \subseteq ServedType
           /\ session.status \in {"none", "open", "closed"}
<1>1. /\ channels \in Seq(ChannelType) /\ waiting \in Seq(Paths) /\ activators \in Seq(Paths)
      /\ down \in Seq(ReplyType) /\ session \in SessionType
  BY TypeParts
<1>2. session.up \in Seq(Messages) /\ session.served \subseteq ServedType /\ session.status \in {"none", "open", "closed"}
  BY <1>1 DEF SessionType
<1>3. /\ Len(channels) \in Nat /\ Ids = 1 .. Len(channels)
      /\ \A i \in Ids : channels[i] \in ChannelType
  BY <1>1, LenProperties, ElementOfSeq DEF Ids
<1>4. /\ Len(waiting) \in Nat /\ DOMAIN waiting = 1 .. Len(waiting)
      /\ \A j \in DOMAIN waiting : waiting[j] \in Paths
  BY <1>1, LenProperties, ElementOfSeq
<1>5. /\ Len(activators) \in Nat /\ DOMAIN activators = 1 .. Len(activators)
      /\ \A j \in DOMAIN activators : activators[j] \in Paths
  BY <1>1, LenProperties, ElementOfSeq
<1>6. /\ Len(down) \in Nat /\ DOMAIN down = 1 .. Len(down)
      /\ \A j \in DOMAIN down : down[j] \in ReplyType
  BY <1>1, LenProperties, ElementOfSeq
<1>7. /\ Len(session.up) \in Nat /\ DOMAIN session.up = 1 .. Len(session.up)
      /\ \A j \in DOMAIN session.up : session.up[j] \in Messages
  BY <1>2, LenProperties, ElementOfSeq
<1> QED BY <1>2, <1>3, <1>4, <1>5, <1>6, <1>7

-----------------------------------------------------------------------------
(* Sequences, place by place *)

SetOf(s) == {s[j] : j \in DOMAIN s}

\* t is s with u behind it.
Joined(s, u, t) ==
    /\ DOMAIN s = 1 .. Len(s) /\ DOMAIN u = 1 .. Len(u) /\ Len(s) \in Nat /\ Len(u) \in Nat
    /\ Len(t) = Len(s) + Len(u) /\ DOMAIN t = 1 .. Len(s) + Len(u)
    /\ \A i \in DOMAIN s : i \in DOMAIN t /\ t[i] = s[i]
    /\ \A j \in DOMAIN u : Len(s) + j \in DOMAIN t /\ t[Len(s) + j] = u[j]
    /\ \A i \in DOMAIN t : i \in DOMAIN s \/ \E j \in DOMAIN u : i = Len(s) + j

LEMMA ConcatPlaces ==
    ASSUME NEW S, NEW s \in Seq(S), NEW u \in Seq(S), NEW t, t = s \o u
    PROVE  t \in Seq(S) /\ Joined(s, u, t)
<1>1. /\ Len(s) \in Nat /\ DOMAIN s = 1 .. Len(s) /\ Len(u) \in Nat /\ DOMAIN u = 1 .. Len(u)
  BY LenProperties
<1>2. /\ t \in Seq(S) /\ Len(t) = Len(s) + Len(u)
      /\ \A i \in 1 .. Len(s) + Len(u) : t[i] = IF i <= Len(s) THEN s[i] ELSE u[i - Len(s)]
  BY ConcatProperties
<1>3. DOMAIN t = 1 .. Len(s) + Len(u)
  BY <1>2, LenProperties
<1>4. \A i \in DOMAIN s : i \in DOMAIN t /\ t[i] = s[i]
  BY <1>1, <1>2, <1>3
<1>5. ASSUME NEW j \in DOMAIN u PROVE Len(s) + j \in DOMAIN t /\ t[Len(s) + j] = u[j]
  <2>1. Len(s) + j \in DOMAIN t /\ ~(Len(s) + j <= Len(s)) /\ Len(s) + j - Len(s) = j
    BY <1>1, <1>3
  <2> QED BY <2>1, <1>2, <1>3
<1>6. ASSUME NEW i \in DOMAIN t, i \notin DOMAIN s PROVE \E j \in DOMAIN u : i = Len(s) + j
  <2>1. i - Len(s) \in DOMAIN u /\ i = Len(s) + (i - Len(s))
    BY <1>1, <1>3, <1>6
  <2> QED BY <2>1
<1> QED BY <1>1, <1>2, <1>3, <1>4, <1>5, <1>6 DEF Joined

\* What is at the places of t is what is at those of s and u.
LEMMA JoinedSet ==
    ASSUME NEW s, NEW u, NEW t, Joined(s, u, t)
    PROVE  SetOf(t) = SetOf(s) \cup SetOf(u)
<1>1. \A i \in DOMAIN t : t[i] \in {s[k] : k \in DOMAIN s} \cup {u[j] : j \in DOMAIN u}
  BY DEF Joined
<1>2. \A i \in DOMAIN s : s[i] \in {t[k] : k \in DOMAIN t}
  BY DEF Joined
<1>3. \A j \in DOMAIN u : u[j] \in {t[k] : k \in DOMAIN t}
  BY DEF Joined
<1> QED BY <1>1, <1>2, <1>3 DEF SetOf

\* No two places of s are the same.
Different(s) == \A i, k \in DOMAIN s : s[i] = s[k] => i = k

LEMMA JoinedDifferent ==
    ASSUME NEW s, NEW u, NEW t, Joined(s, u, t), Different(s), Different(u),
           \A i \in DOMAIN s : \A j \in DOMAIN u : s[i] # u[j]
    PROVE  Different(t)
<1> SUFFICES ASSUME NEW i \in DOMAIN t, NEW k \in DOMAIN t, t[i] = t[k] PROVE i = k
  BY DEF Different
<1>1. CASE i \in DOMAIN s /\ k \in DOMAIN s
  BY <1>1 DEF Joined, Different
<1>2. CASE i \in DOMAIN s /\ k \notin DOMAIN s
  BY <1>2 DEF Joined
<1>3. CASE i \notin DOMAIN s /\ k \in DOMAIN s
  BY <1>3 DEF Joined
<1>4. CASE i \notin DOMAIN s /\ k \notin DOMAIN s
  BY <1>4 DEF Joined, Different
<1> QED BY <1>1, <1>2, <1>3, <1>4

\* t is s without its first.
Shortened(s, t) ==
    /\ 1 \in DOMAIN s /\ DOMAIN s \subseteq Nat
    /\ \A i \in DOMAIN t : i \in Nat /\ i + 1 \in DOMAIN s /\ i + 1 # 1 /\ t[i] = s[i + 1]
    /\ \A i \in DOMAIN s : i # 1 => i - 1 \in DOMAIN t /\ t[i - 1] = s[i]

LEMMA TailPlaces ==
    ASSUME NEW S, NEW s \in Seq(S), s # <<>>, NEW t, t = Tail(s)
    PROVE  t \in Seq(S) /\ Shortened(s, t) /\ Head(s) = s[1] /\ Head(s) \in S
<1>1. Len(s) \in Nat \ {0} /\ DOMAIN s = 1 .. Len(s)
  BY LenProperties, EmptySeq
<1>2. /\ t \in Seq(S) /\ Len(t) = Len(s) - 1 /\ Head(s) \in S
      /\ \A i \in 1 .. Len(t) : t[i] = s[i + 1]
  BY HeadTailProperties
<1>3. DOMAIN t = 1 .. Len(s) - 1
  BY <1>2, LenProperties
<1>4. \A i \in DOMAIN t : i \in Nat /\ i + 1 \in DOMAIN s /\ i + 1 # 1 /\ t[i] = s[i + 1]
  BY <1>1, <1>2, <1>3
<1>5. ASSUME NEW i \in DOMAIN s, i # 1 PROVE i - 1 \in DOMAIN t /\ t[i - 1] = s[i]
  <2>1. i - 1 \in DOMAIN t /\ (i - 1) + 1 = i
    BY <1>1, <1>3, <1>5
  <2> QED BY <2>1, <1>4
<1> QED BY <1>1, <1>2, <1>4, <1>5 DEF Shortened

\* Of a sequence whose places differ, what is left is everything but the first.
LEMMA ShortenedSet ==
    ASSUME NEW s, NEW t, Shortened(s, t), Different(s)
    PROVE  SetOf(t) = SetOf(s) \ {s[1]} /\ Different(t)
<1>1. ASSUME NEW i \in DOMAIN t PROVE t[i] \in {s[k] : k \in DOMAIN s} \ {s[1]}
  BY DEF Shortened, Different
<1>2. ASSUME NEW i \in DOMAIN s, s[i] # s[1] PROVE s[i] \in {t[k] : k \in DOMAIN t}
  BY <1>2 DEF Shortened
<1>3. ASSUME NEW i \in DOMAIN t, NEW k \in DOMAIN t, t[i] = t[k] PROVE i = k
  <2>1. i \in Nat /\ k \in Nat /\ i + 1 \in DOMAIN s /\ k + 1 \in DOMAIN s /\ s[i + 1] = s[k + 1]
    BY <1>3 DEF Shortened
  <2> QED BY <2>1 DEF Different
<1> QED BY <1>1, <1>2, <1>3 DEF Different, SetOf

-----------------------------------------------------------------------------
(* The channels that are opened again *)

\* paths are those of ids, each once: h says whose is at a place.
Whose(paths, ids, h) ==
    /\ h \in [DOMAIN paths -> ids]
    /\ \A j \in DOMAIN paths : paths[j] = channels[h[j]].path
    /\ \A j, k \in DOMAIN paths : h[j] = h[k] => j = k
    /\ \A i \in ids : \E j \in DOMAIN paths : h[j] = i

Lists(paths, ids) == paths \in Seq(Paths) /\ \E h : Whose(paths, ids, h)

\* The place of i among ids.
PlaceIn(ids, i) == Cardinality({k \in ids : k <= i})

LEMMA PlacesInOrder ==
    ASSUME NEW ids, ids \subseteq Nat, IsFiniteSet(ids), NEW n, n = Cardinality(ids)
    PROVE  /\ n \in Nat
           /\ \A j \in 1 .. n : \E i \in ids : PlaceIn(ids, i) = j
           /\ \A i \in ids : PlaceIn(ids, i) \in 1 .. n
           /\ \A i, k \in ids : PlaceIn(ids, i) = PlaceIn(ids, k) => i = k
<1>1. n \in Nat
  BY FS_CardinalityType
<1>2. ASSUME NEW i \in ids
      PROVE  IsFiniteSet({k \in ids : k <= i}) /\ PlaceIn(ids, i) \in 1 .. n
  <2>1. {k \in ids : k <= i} \in SUBSET ids /\ i \in {k \in ids : k <= i}
    OBVIOUS
  <2>2. IsFiniteSet({k \in ids : k <= i}) /\ Cardinality({k \in ids : k <= i}) <= n
    BY <2>1, FS_Subset
  <2>3. Cardinality({k \in ids : k <= i}) \in Nat /\ Cardinality({k \in ids : k <= i}) # 0
    BY <2>1, <2>2, FS_CardinalityType, FS_EmptySet
  <2> QED BY <2>2, <2>3, <1>1 DEF PlaceIn
<1>3. ASSUME NEW i \in ids, NEW k \in ids, i < k PROVE PlaceIn(ids, i) # PlaceIn(ids, k)
  <2> SUFFICES ASSUME NEW s, s = {m \in ids : m <= i}, NEW t, t = {m \in ids : m <= k}
               PROVE  Cardinality(s) # Cardinality(t)
    BY DEF PlaceIn
  <2>1. i \in Nat /\ k \in Nat
    OBVIOUS
  <2>2. \A m \in s : m \in t
    BY <1>3, <2>1
  <2>3. s \in SUBSET t /\ s # t
    <3>1. s \subseteq t
      BY <2>2
    <3>2. k \in t /\ k \notin s
      BY <1>3, <2>1
    <3> QED BY <3>1, <3>2
  <2>4. IsFiniteSet(t)
    BY <1>2
  <2> QED BY <2>3, <2>4, FS_Subset
<1>4. \A i, k \in ids : PlaceIn(ids, i) = PlaceIn(ids, k) => i = k
  <2> SUFFICES ASSUME NEW i \in ids, NEW k \in ids, i # k PROVE PlaceIn(ids, i) # PlaceIn(ids, k)
    OBVIOUS
  <2>1. i < k \/ k < i
    OBVIOUS
  <2> QED BY <2>1, <1>3
<1> SUFFICES ASSUME NEW place, place = [i \in ids |-> PlaceIn(ids, i)]
             PROVE  \A j \in 1 .. n : \E i \in ids : PlaceIn(ids, i) = j
  BY <1>1, <1>2, <1>4
<1>5. place \in Injection(ids, 1 .. n)
  BY <1>2, <1>4 DEF Injection, IsInjective
<1>6. IsFiniteSet(1 .. n) /\ Cardinality(1 .. n) = n
  BY <1>1, FS_Interval
<1>7. place \in Surjection(ids, 1 .. n)
  BY <1>5, <1>6, FS_Injection
<1> QED BY <1>7 DEF Surjection

LEMMA PathsOfIds ==
    ASSUME TypeOK, NEW ids, ids \subseteq Ids
    PROVE  Lists(PathsOf(ids), ids)
<1> SUFFICES ASSUME NEW n, n = Cardinality(ids),
                    NEW h, h = [j \in 1 .. n |-> CHOOSE i \in ids : PlaceIn(ids, i) = j],
                    NEW paths, paths = PathsOf(ids)
             PROVE  Lists(paths, ids)
  OBVIOUS
<1>1. ids \subseteq Nat /\ IsFiniteSet(ids)
  <2>1. IsFiniteSet(Ids) /\ Ids \subseteq Nat
    <3>1. Len(channels) \in Int /\ Ids = 1 .. Len(channels)
      BY Places
    <3>2. IsFiniteSet(1 .. Len(channels))
      BY <3>1, FS_Interval
    <3> QED BY <3>1, <3>2
  <2> QED BY <2>1, FS_Subset
<1>2. /\ n \in Nat
      /\ \A j \in 1 .. n : \E i \in ids : PlaceIn(ids, i) = j
      /\ \A i \in ids : PlaceIn(ids, i) \in 1 .. n
      /\ \A i, k \in ids : PlaceIn(ids, i) = PlaceIn(ids, k) => i = k
  BY <1>1, PlacesInOrder
<1>3. \A j \in 1 .. n : h[j] \in ids /\ PlaceIn(ids, h[j]) = j
  BY <1>2
<1>4. paths = [j \in 1 .. n |-> channels[h[j]].path]
  BY DEF PathsOf, PlaceIn
<1>5. \A i \in ids : channels[i].path \in Paths
  BY Places DEF ChannelType
<1>6. DOMAIN paths = 1 .. n /\ \A j \in 1 .. n : paths[j] = channels[h[j]].path /\ paths[j] \in Paths
  BY <1>3, <1>4, <1>5
<1>7. paths \in [1 .. n -> Paths]
  BY <1>4, <1>6
<1>8. paths \in Seq(Paths)
  BY <1>2, <1>7, SeqDef
<1>9. h \in [1 .. n -> ids] /\ (\A i \in ids : \E j \in 1 .. n : h[j] = i)
  <2>1. \A i \in ids : h[PlaceIn(ids, i)] = i
    BY <1>2, <1>3
  <2> QED BY <1>2, <1>3, <2>1
<1>10. \A j, k \in 1 .. n : h[j] = h[k] => j = k
  BY <1>3
<1>11. Whose(paths, ids, h)
  BY <1>6, <1>9, <1>10 DEF Whose
<1> QED BY <1>8, <1>11 DEF Lists

\* Channels that ask for another one when they are closed.
Asking(ids) == {i \in ids : Live(i) /\ channels[i].path \notin Once}

LEMMA ReconnectingLists ==
    ASSUME TypeOK, NEW ids, ids \subseteq Ids
    PROVE  Lists(Reconnecting(ids), Asking(ids))
BY PathsOfIds DEF Reconnecting, Asking

\* The channels are those of after, and one more for each of the paths.
Extends(after, paths) ==
    /\ channels' \in Seq(ChannelType) /\ Ids \subseteq Ids'
    /\ DOMAIN after = Ids
    /\ \A i \in Ids : channels'[i] = after[i]
    /\ \A j \in DOMAIN paths : /\ Len(channels) + j \in Ids' /\ Len(channels) + j \notin Ids
                               /\ channels'[Len(channels) + j] = [path |-> paths[j], status |-> "opening"]
    /\ \A i \in Ids' : i \in Ids \/ \E j \in DOMAIN paths : i = Len(channels) + j

\* The same, field by field.
Extended(n, after, paths) ==
    /\ Ids \subseteq Ids' /\ DOMAIN after = Ids
    /\ \A i \in Ids : channels'[i] = after[i]
    /\ \A j \in DOMAIN paths : /\ n + j \in Ids' /\ n + j \notin Ids
                               /\ channels'[n + j].path = paths[j]
                               /\ channels'[n + j].status = "opening"
    /\ \A i \in Ids' : \/ i \in Ids
                        \/ \E j \in DOMAIN paths : /\ i = n + j
                                                   /\ channels'[i].path = paths[j]
                                                   /\ channels'[i].status = "opening"

LEMMA ExtendsFields ==
    ASSUME NEW after, NEW paths, Extends(after, paths), NEW n, n = Len(channels)
    PROVE  Extended(n, after, paths)
<1>1. /\ Ids \subseteq Ids' /\ DOMAIN after = Ids
      /\ \A i \in Ids : channels'[i] = after[i]
      /\ \A i \in Ids' : i \in Ids \/ \E j \in DOMAIN paths : i = n + j
  BY DEF Extends
<1>2. ASSUME NEW j \in DOMAIN paths, NEW m, m = n + j
      PROVE  /\ m \in Ids' /\ m \notin Ids
             /\ channels'[m].path = paths[j] /\ channels'[m].status = "opening"
  <2>1. m \in Ids' /\ m \notin Ids /\ channels'[m] = [path |-> paths[j], status |-> "opening"]
    BY <1>2 DEF Extends
  <2> QED BY <2>1
<1> QED BY <1>1, <1>2 DEF Extended

LEMMA OpenedExtends ==
    ASSUME TypeOK, NEW after \in Seq(ChannelType), Len(after) = Len(channels),
           NEW paths \in Seq(Paths), channels' = Opened(after, paths)
    PROVE  Extends(after, paths)
<1> SUFFICES ASSUME NEW new, new = [i \in DOMAIN paths |-> [path |-> paths[i], status |-> "opening"]]
             PROVE  Extends(after, paths)
  OBVIOUS
<1>1. Len(paths) \in Nat /\ DOMAIN paths = 1 .. Len(paths) /\ \A j \in DOMAIN paths : paths[j] \in Paths
  BY LenProperties, ElementOfSeq
<1>2. \A j \in DOMAIN paths : new[j] \in ChannelType
  BY <1>1 DEF ChannelType
<1>3. new \in Seq(ChannelType) /\ DOMAIN new = DOMAIN paths
  <2>1. new \in [1 .. Len(paths) -> ChannelType]
    BY <1>1, <1>2
  <2> QED BY <2>1, <1>1, SeqDef
<1>4. channels' \in Seq(ChannelType) /\ Joined(after, new, channels')
  BY <1>3, ConcatPlaces DEF Opened
<1>5. DOMAIN after = Ids /\ Ids = 1 .. Len(channels) /\ Len(after) = Len(channels)
  BY Places, LenProperties
<1>7. Ids' = DOMAIN channels'
  BY DEF Ids
<1>6. \A j \in DOMAIN paths : Len(channels) + j \notin Ids
  BY <1>1, Places
<1>8. \A j \in DOMAIN paths : new[j] = [path |-> paths[j], status |-> "opening"]
  OBVIOUS
<1>9. /\ Ids \subseteq Ids'
      /\ \A i \in Ids : channels'[i] = after[i]
      /\ \A j \in DOMAIN paths : Len(channels) + j \in Ids' /\ channels'[Len(channels) + j] = new[j]
      /\ \A i \in Ids' : i \in Ids \/ \E j \in DOMAIN paths : i = Len(channels) + j
  <2>1. /\ \A i \in DOMAIN after : i \in DOMAIN channels' /\ channels'[i] = after[i]
        /\ \A j \in DOMAIN new : Len(after) + j \in DOMAIN channels' /\ channels'[Len(after) + j] = new[j]
        /\ \A i \in DOMAIN channels' : i \in DOMAIN after \/ \E j \in DOMAIN new : i = Len(after) + j
    BY <1>4 DEF Joined
  <2> HIDE DEF Ids
  <2> QED BY <2>1, <1>3, <1>5, <1>7
<1> QED BY <1>4, <1>5, <1>6, <1>8, <1>9 DEF Extends

\* What is sent for them.
Openings(paths) ==
    {[kind |-> "open", id |-> Len(channels) + j, path |-> paths[j]] : j \in DOMAIN paths}

LEMMA OpenMessagesAre ==
    ASSUME TypeOK, NEW after, Len(after) = Len(channels), NEW paths \in Seq(Paths), Extends(after, paths),
           NEW msgs, msgs = OpenMessages(after, paths)
    PROVE  /\ msgs \in Seq(Messages') /\ Different(msgs) /\ DOMAIN msgs = DOMAIN paths
           /\ \A j \in DOMAIN msgs : msgs[j] = [kind |-> "open", id |-> Len(channels) + j, path |-> paths[j]]
           /\ {msgs[j] : j \in DOMAIN msgs} = Openings(paths)
<1>1. Len(paths) \in Nat /\ DOMAIN paths = 1 .. Len(paths) /\ \A j \in DOMAIN paths : paths[j] \in Paths
  BY LenProperties, ElementOfSeq
<1>2. /\ DOMAIN msgs = 1 .. Len(paths)
      /\ \A j \in 1 .. Len(paths) : msgs[j] = [kind |-> "open", id |-> Len(channels) + j, path |-> paths[j]]
  BY <1>1 DEF OpenMessages
<1>3. \A j \in 1 .. Len(paths) : msgs[j] \in Messages'
  <2> SUFFICES ASSUME NEW j \in 1 .. Len(paths) PROVE msgs[j] \in Messages'
    OBVIOUS
  <2>1. Len(channels) + j \in Ids' /\ paths[j] \in Paths
    BY <1>1 DEF Extends
  <2> QED BY <2>1, <1>2 DEF Messages
<1>4. msgs \in Seq(Messages')
  <2>1. msgs \in [1 .. Len(paths) -> Messages']
    BY <1>1, <1>3 DEF OpenMessages
  <2> QED BY <2>1, <1>1, SeqDef
<1>5. Different(msgs)
  <2> SUFFICES ASSUME NEW i \in DOMAIN msgs, NEW k \in DOMAIN msgs, msgs[i] = msgs[k] PROVE i = k
    BY DEF Different
  <2>1. Len(channels) + i = Len(channels) + k
    BY <1>2
  <2> QED BY <2>1, <1>1, <1>2, Places
<1>6. {msgs[j] : j \in DOMAIN msgs} = Openings(paths)
  BY <1>1, <1>2 DEF Openings
<1> QED BY <1>1, <1>2, <1>4, <1>5, <1>6

-----------------------------------------------------------------------------
(* What the steps of the frontend do *)

LEMMA AppendPlaces ==
    ASSUME NEW S, NEW s \in Seq(S), NEW x \in S, NEW t, t = Append(s, x)
    PROVE  t \in Seq(S) /\ Joined(s, <<x>>, t)
<1>1. Len(s) \in Nat /\ DOMAIN s = 1 .. Len(s)
  BY LenProperties
<1>2. /\ t \in Seq(S) /\ Len(t) = Len(s) + 1
      /\ \A i \in 1 .. Len(s) : t[i] = s[i]
      /\ t[Len(s) + 1] = x
  BY AppendProperties
<1>3. DOMAIN t = 1 .. Len(s) + 1
  BY <1>2, LenProperties
<1>4. DOMAIN <<x>> = 1 .. 1 /\ Len(<<x>>) = 1 /\ <<x>>[1] = x
  OBVIOUS
<1>5. \A j \in DOMAIN <<x>> : Len(s) + j \in DOMAIN t /\ t[Len(s) + j] = <<x>>[j]
  BY <1>1, <1>2, <1>3, <1>4
<1>6. \A i \in DOMAIN t : i \in DOMAIN s \/ \E j \in DOMAIN <<x>> : i = Len(s) + j
  BY <1>1, <1>3, <1>4
<1> QED BY <1>1, <1>2, <1>3, <1>4, <1>5, <1>6 DEF Joined

Sends(msgs) ==
    /\ session'.served = session.served /\ session'.status = session.status
    /\ IF socket = "fallback"
       THEN posts' = posts \cup SetOf(msgs) /\ session' = session
       ELSE /\ posts' = posts
            /\ session.status = "open" => Joined(session.up, msgs, session'.up)
            /\ session.status # "open" => session' = session

LEMMA SendTyped ==
    ASSUME TypeOK, Ids \subseteq Ids', NEW msgs \in Seq(Messages'), Send(msgs)
    PROVE  session' \in SessionType' /\ posts' \subseteq Messages' /\ Sends(msgs)
<1>1. session \in SessionType' /\ posts \subseteq Messages'
  BY TypeParts, TypesGrow
<1>2. CASE socket = "fallback"
  <2>1. posts' = posts \cup SetOf(msgs) /\ session' = session
    BY <1>2 DEF Send, SetOf
  <2>2. SetOf(msgs) \subseteq Messages'
    BY LenProperties, ElementOfSeq DEF SetOf
  <2> QED BY <1>1, <1>2, <2>1, <2>2 DEF Sends
<1>3. CASE socket # "fallback" /\ session.status # "open"
  BY <1>1, <1>3 DEF Send, Sends
<1>4. CASE socket # "fallback" /\ session.status = "open"
  <2>1. session' = [session EXCEPT !.up = session.up \o msgs] /\ posts' = posts
    BY <1>4 DEF Send
  <2>2. session.up \in Seq(Messages')
    BY <1>1 DEF SessionType
  <2>3. session.up \o msgs \in Seq(Messages') /\ Joined(session.up, msgs, session.up \o msgs)
    BY <2>2, ConcatPlaces
  <2>4. session'.up = session.up \o msgs /\ session'.served = session.served /\ session'.status = session.status
    BY <1>1, <2>1 DEF SessionType
  <2>5. session' \in SessionType'
    BY <1>1, <2>1, <2>3 DEF SessionType
  <2> QED BY <1>1, <1>4, <2>1, <2>3, <2>4, <2>5 DEF Sends
<1> QED BY <1>2, <1>3, <1>4

LEMMA AfterTyped ==
    ASSUME TypeOK, NEW after \in [Ids -> ChannelType]
    PROVE  after \in Seq(ChannelType) /\ Len(after) = Len(channels)
<1>1. Len(channels) \in Nat /\ Ids = 1 .. Len(channels)
  BY Places
<1>2. after \in Seq(ChannelType)
  BY <1>1, SeqDef
<1>3. Len(after) \in Nat /\ 1 .. Len(after) = 1 .. Len(channels)
  BY <1>1, <1>2, LenProperties
<1> QED BY <1>1, <1>2, <1>3

\* The messages that open channels and, before them, those of others.
Opens(others, after, paths) ==
    /\ Extends(after, paths)
    /\ \E msgs : /\ Sends(msgs) /\ SetOf(msgs) = others \cup Openings(paths)
                 /\ Different(msgs)

LEMMA OpensTyped ==
    ASSUME TypeOK, NEW after \in [Ids -> ChannelType], NEW paths \in Seq(Paths),
           channels' = Opened(after, paths), Send(OpenMessages(after, paths))
    PROVE  /\ Opens({}, after, paths) /\ channels' \in Seq(ChannelType) /\ Ids \subseteq Ids'
           /\ session' \in SessionType' /\ posts' \subseteq Messages'
<1>1. after \in Seq(ChannelType) /\ Len(after) = Len(channels)
  BY AfterTyped
<1>2. Extends(after, paths)
  BY <1>1, OpenedExtends
<1>3. channels' \in Seq(ChannelType) /\ Ids \subseteq Ids'
  BY <1>2 DEF Extends
<1> SUFFICES ASSUME NEW msgs, msgs = OpenMessages(after, paths)
             PROVE  Opens({}, after, paths) /\ session' \in SessionType' /\ posts' \subseteq Messages'
  BY <1>3
<1>4. msgs \in Seq(Messages') /\ Different(msgs) /\ SetOf(msgs) = Openings(paths)
  BY <1>1, <1>2, OpenMessagesAre DEF SetOf
<1>5. session' \in SessionType' /\ posts' \subseteq Messages' /\ Sends(msgs)
  BY <1>3, <1>4, SendTyped
<1> QED BY <1>2, <1>4, <1>5 DEF Opens

LEMMA RequestTyped ==
    ASSUME TypeOK, NEW p \in Paths, Request(p)
    PROVE  /\ TypeOK'
           /\ IF socket = "connecting"
              THEN /\ Joined(waiting, <<p>>, waiting') /\ Joined(activators, <<p>>, activators')
                   /\ UNCHANGED <<channels, session, posts>>
              ELSE Opens({}, channels, <<p>>) /\ UNCHANGED <<waiting, activators>>
<1>1. requested' \subseteq Paths
  BY TypeParts DEF Request
<1>2. UNCHANGED <<socket, errors, down, counts>>
  BY DEF Request
<1>3. <<p>> \in Seq(Paths)
  OBVIOUS
<1>4. CASE socket = "connecting"
  <2>1. /\ waiting' = Append(waiting, p) /\ activators' = Append(activators, p)
        /\ UNCHANGED <<channels, session, posts>>
    BY <1>4 DEF Request
  <2>2. /\ waiting' \in Seq(Paths) /\ Joined(waiting, <<p>>, waiting')
        /\ activators' \in Seq(Paths) /\ Joined(activators, <<p>>, activators')
    BY <2>1, TypeParts, AppendPlaces
  <2>3. Ids' = Ids /\ SessionType' = SessionType /\ Messages' = Messages /\ ReplyType' = ReplyType
    BY <2>1 DEF Ids, SessionType, ServedType, Messages, ReplyType
  <2>4. TypeOK'
    BY <1>1, <1>2, <2>1, <2>2, <2>3, TypeParts, TypePartsAfter DEF counts
  <2> QED BY <1>4, <2>1, <2>2, <2>4
<1>5. CASE socket # "connecting"
  <2>1. /\ channels' = Opened(channels, <<p>>) /\ Send(OpenMessages(channels, <<p>>))
        /\ UNCHANGED <<waiting, activators>>
    BY <1>5 DEF Request
  <2>2. channels \in [Ids -> ChannelType]
    BY TypeParts, LenProperties DEF Ids
  <2>3. /\ Opens({}, channels, <<p>>) /\ channels' \in Seq(ChannelType) /\ Ids \subseteq Ids'
        /\ session' \in SessionType' /\ posts' \subseteq Messages'
    BY <1>3, <2>1, <2>2, OpensTyped
  <2>4. down' \in Seq(ReplyType')
    BY <1>2, <2>3, TypeParts, TypesGrow
  <2>5. TypeOK'
    BY <1>1, <1>2, <2>1, <2>3, <2>4, TypeParts, TypePartsAfter DEF counts
  <2> QED BY <1>5, <2>1, <2>3, <2>5
<1> QED BY <1>4, <1>5

LEMMA SocketOpensTyped ==
    ASSUME TypeOK, SocketOpens
    PROVE  /\ TypeOK' /\ Extends(channels, waiting)
           /\ SetOf(session'.up) = Openings(waiting) /\ Different(session'.up)
           /\ session'.status = "open" /\ session'.served = {}
<1> SUFFICES ASSUME NEW msgs, msgs = OpenMessages(channels, waiting)
             PROVE  /\ TypeOK' /\ Extends(channels, waiting)
                    /\ SetOf(session'.up) = Openings(waiting) /\ Different(session'.up)
                    /\ session'.status = "open" /\ session'.served = {}
  OBVIOUS
<1>1. /\ socket' = "open" /\ channels' = Opened(channels, waiting) /\ waiting' = <<>>
      /\ session' = [NewSession EXCEPT !.up = msgs]
      /\ UNCHANGED <<errors, requested, activators, down, posts, counts>>
  BY DEF SocketOpens
<1>2. channels \in Seq(ChannelType) /\ waiting \in Seq(Paths)
  BY TypeParts
<1>3. Extends(channels, waiting)
  BY <1>1, <1>2, OpenedExtends
<1>4. msgs \in Seq(Messages') /\ Different(msgs) /\ SetOf(msgs) = Openings(waiting)
  BY <1>2, <1>3, OpenMessagesAre DEF SetOf
<1>5. session' = [status |-> "open", served |-> {}, up |-> msgs]
  BY <1>1 DEF NewSession, NoSession
<1>6. session' \in SessionType'
  BY <1>4, <1>5 DEF SessionType
<1>7. channels' \in Seq(ChannelType) /\ Ids \subseteq Ids'
  BY <1>3 DEF Extends
<1>8. down' \in Seq(ReplyType') /\ posts' \subseteq Messages'
  BY <1>1, <1>7, TypeParts, TypesGrow
<1>9. TypeOK'
  BY <1>1, <1>6, <1>7, <1>8, TypeParts, TypePartsAfter, EmptySeq DEF counts
<1> QED BY <1>3, <1>4, <1>5, <1>9

LEMMA AllClosedTyped ==
    ASSUME TypeOK
    PROVE  /\ AllClosed \in [Ids -> ChannelType]
           /\ \A i \in Ids : AllClosed[i].path = channels[i].path /\ AllClosed[i].status = "closed"
<1>1. \A i \in Ids : [channels[i] EXCEPT !.status = "closed"] = [path |-> channels[i].path, status |-> "closed"]
                     /\ channels[i].path \in Paths
  BY Places DEF ChannelType
<1> QED BY <1>1 DEF AllClosed, Ids, ChannelType

LEMMA BrokenCounted == ASSUME TypeOK, Broken PROVE breaks' \in 0 .. MaxBreaks
<1>1. breaks \in 0 .. MaxBreaks /\ MaxBreaks \in Nat
  BY TypeParts, ChannelAssumption
<1>2. CASE Lost
  BY <1>1, <1>2 DEF Broken
<1>3. CASE ~Lost
  BY <1>1, <1>3 DEF Broken
<1> QED BY <1>2, <1>3

LEMMA SocketDownTyped ==
    ASSUME TypeOK, NEW error \in BOOLEAN, SocketDown(error)
    PROVE  /\ TypeOK' /\ session' = NoSession /\ down' = <<>> /\ requested' = requested /\ losses' = losses
           /\ socket # "fallback" /\ (socket = "open" \/ error)
           /\ \E again : /\ Lists(again, Asking(Ids)) /\ Joined(activators, again, activators')
                         /\ \/ /\ socket' = "fallback" /\ waiting' = <<>>
                               /\ Extends(AllClosed, activators')
                               /\ posts' = Openings(activators')
                            \/ /\ socket' = "connecting" /\ Joined(waiting, again, waiting')
                               /\ Extends(AllClosed, <<>>) /\ posts' = posts
<1> SUFFICES ASSUME NEW again, again = Reconnecting(Ids)
             PROVE  /\ TypeOK' /\ session' = NoSession /\ down' = <<>> /\ requested' = requested /\ losses' = losses
                    /\ socket # "fallback" /\ (socket = "open" \/ error)
                    /\ Lists(again, Asking(Ids)) /\ Joined(activators, again, activators')
                    /\ \/ /\ socket' = "fallback" /\ waiting' = <<>>
                          /\ Extends(AllClosed, activators')
                          /\ posts' = Openings(activators')
                       \/ /\ socket' = "connecting" /\ Joined(waiting, again, waiting')
                          /\ Extends(AllClosed, <<>>) /\ posts' = posts
  OBVIOUS
<1>1. /\ session' = NoSession /\ down' = <<>> /\ activators' = activators \o again
      /\ UNCHANGED <<requested, closes, losses>>
      /\ errors' = IF error THEN errors + 1 ELSE errors
      /\ socket # "fallback" /\ (socket = "open" \/ error)
  BY DEF SocketDown, Ids
<1>2. Lists(again, Asking(Ids)) /\ again \in Seq(Paths)
  BY ReconnectingLists DEF Lists
<1>3. activators' \in Seq(Paths) /\ Joined(activators, again, activators')
  BY <1>1, <1>2, TypeParts, ConcatPlaces
<1>4. AllClosed \in Seq(ChannelType) /\ Len(AllClosed) = Len(channels) /\ DOMAIN AllClosed = Ids
  BY AllClosedTyped, AfterTyped
<1>5. breaks' \in 0 .. MaxBreaks
  <2>1. Broken
    BY DEF SocketDown
  <2> QED BY <2>1, BrokenCounted
<1>6. errors' \in Nat
  BY <1>1, TypeParts
<1>7. session' \in SessionType' /\ down' \in Seq(ReplyType')
  BY <1>1, EmptySeq DEF NoSession, SessionType
<1>8. ASSUME socket' \in {"connecting", "fallback"}, channels' \in Seq(ChannelType),
             waiting' \in Seq(Paths), posts' \subseteq Messages'
      PROVE  TypeOK'
  BY <1>1, <1>3, <1>5, <1>6, <1>7, <1>8, TypeParts, TypePartsAfter
<1>9. CASE error /\ errors' >= MaxAttempts
  <2> SUFFICES ASSUME NEW msgs, msgs = OpenMessages(channels, activators')
               PROVE  /\ TypeOK' /\ socket' = "fallback" /\ waiting' = <<>>
                      /\ Extends(AllClosed, activators') /\ posts' = Openings(activators')
    BY <1>1, <1>2, <1>3
  <2>1. /\ socket' = "fallback" /\ waiting' = <<>> /\ channels' = Opened(AllClosed, activators')
        /\ posts' = SetOf(msgs)
    BY <1>9 DEF SocketDown, SetOf
  <2>2. Extends(AllClosed, activators')
    BY <2>1, <1>3, <1>4, OpenedExtends
  <2>3. msgs = OpenMessages(AllClosed, activators')
    BY <1>4 DEF OpenMessages
  <2>4. msgs \in Seq(Messages') /\ SetOf(msgs) = Openings(activators')
    BY <2>2, <2>3, <1>3, <1>4, OpenMessagesAre DEF SetOf
  <2>5. SetOf(msgs) \subseteq Messages'
    BY <2>4, LenProperties, ElementOfSeq DEF SetOf
  <2>6. channels' \in Seq(ChannelType)
    BY <2>2 DEF Extends
  <2>7. waiting' \in Seq(Paths)
    BY <2>1, EmptySeq
  <2> QED BY <2>1, <2>2, <2>4, <2>5, <2>6, <2>7, <1>8
<1>10. CASE ~(error /\ errors' >= MaxAttempts)
  <2>1. /\ socket' = "connecting" /\ waiting' = waiting \o again /\ channels' = AllClosed /\ posts' = posts
    BY <1>10 DEF SocketDown, Ids
  <2>2. waiting' \in Seq(Paths) /\ Joined(waiting, again, waiting')
    BY <2>1, <1>2, TypeParts, ConcatPlaces
  <2>3. Ids' = Ids
    BY <2>1, <1>4 DEF Ids
  <2>4. Extends(AllClosed, <<>>)
    BY <2>1, <2>3, <1>4 DEF Extends
  <2>5. posts' \subseteq Messages'
    BY <2>1, <2>3, TypeParts, TypesGrow
  <2> QED BY <2>1, <2>2, <2>4, <2>5, <1>1, <1>2, <1>3, <1>4, <1>8
<1> QED BY <1>9, <1>10

\* The channels the messages are about.
Got(msgs, kind) == {msgs[j].id : j \in {n \in DOMAIN msgs : msgs[n].kind = kind}}

Handled(msgs) ==
    \E after, again :
        /\ Opens({}, after, again) /\ Lists(again, Asking(Got(msgs, "close")))
        /\ \A i \in Ids :
              /\ after[i].path = channels[i].path
              /\ after[i].status = IF Live(i) /\ i \in Got(msgs, "close") THEN "closed"
                                   ELSE IF Live(i) /\ i \in Got(msgs, "ready") THEN "ready"
                                   ELSE channels[i].status

LEMMA HandleTyped ==
    ASSUME TypeOK, NEW msgs \in Seq(ReplyType), Handle(msgs)
    PROVE  /\ Handled(msgs) /\ channels' \in Seq(ChannelType) /\ Ids \subseteq Ids'
           /\ session' \in SessionType' /\ posts' \subseteq Messages'
<1> SUFFICES ASSUME NEW after, after = [i \in DOMAIN channels |->
                        IF Live(i) /\ i \in Got(msgs, "close") THEN [channels[i] EXCEPT !.status = "closed"]
                        ELSE IF Live(i) /\ i \in Got(msgs, "ready") THEN [channels[i] EXCEPT !.status = "ready"]
                        ELSE channels[i]],
                    NEW again, again = Reconnecting(Got(msgs, "close"))
             PROVE  /\ Handled(msgs) /\ channels' \in Seq(ChannelType) /\ Ids \subseteq Ids'
                    /\ session' \in SessionType' /\ posts' \subseteq Messages'
  OBVIOUS
<1>1. channels' = Opened(after, again) /\ Send(OpenMessages(after, again))
  BY DEF Handle, Got
<1>2. \A i \in Ids :
         /\ after[i] \in ChannelType /\ after[i].path = channels[i].path
         /\ after[i].status = IF Live(i) /\ i \in Got(msgs, "close") THEN "closed"
                              ELSE IF Live(i) /\ i \in Got(msgs, "ready") THEN "ready"
                              ELSE channels[i].status
  <2> SUFFICES ASSUME NEW i \in Ids
               PROVE  /\ after[i] \in ChannelType /\ after[i].path = channels[i].path
                      /\ after[i].status = IF Live(i) /\ i \in Got(msgs, "close") THEN "closed"
                                           ELSE IF Live(i) /\ i \in Got(msgs, "ready") THEN "ready"
                                           ELSE channels[i].status
    OBVIOUS
  <2>1. channels[i] \in ChannelType
    BY Places
  <2>2. after[i] = IF Live(i) /\ i \in Got(msgs, "close") THEN [channels[i] EXCEPT !.status = "closed"]
                   ELSE IF Live(i) /\ i \in Got(msgs, "ready") THEN [channels[i] EXCEPT !.status = "ready"]
                   ELSE channels[i]
    BY DEF Ids
  <2> HIDE DEF Live, Got
  <2> QED BY <2>1, <2>2 DEF ChannelType
<1>3. after \in [Ids -> ChannelType]
  BY <1>2 DEF Ids
<1>4. Got(msgs, "close") \subseteq Ids
  <2>1. \A j \in DOMAIN msgs : msgs[j] \in ReplyType
    BY LenProperties, ElementOfSeq
  <2>2. \A j \in DOMAIN msgs : msgs[j].id \in Ids
    BY <2>1 DEF ReplyType
  <2> QED BY <2>2 DEF Got
<1>5. Lists(again, Asking(Got(msgs, "close"))) /\ again \in Seq(Paths)
  BY <1>4, ReconnectingLists DEF Lists
<1>6. /\ Opens({}, after, again) /\ channels' \in Seq(ChannelType) /\ Ids \subseteq Ids'
      /\ session' \in SessionType' /\ posts' \subseteq Messages'
  BY <1>1, <1>3, <1>5, OpensTyped
<1> QED BY <1>2, <1>5, <1>6 DEF Handled

LEMMA FrontReceivesTyped ==
    ASSUME TypeOK, FrontReceives
    PROVE  TypeOK' /\ Handled(<<Head(down)>>) /\ Shortened(down, down') /\ Head(down) = down[1]
           /\ UNCHANGED <<socket, requested, waiting, activators, losses>> /\ socket = "open" /\ down # <<>>
<1>1. /\ socket = "open" /\ down # <<>> /\ Handle(<<Head(down)>>) /\ down' = Tail(down) /\ errors' = 0
      /\ UNCHANGED <<socket, requested, waiting, activators, counts>>
  BY DEF FrontReceives
<1>2. down' \in Seq(ReplyType) /\ Shortened(down, down') /\ Head(down) = down[1] /\ Head(down) \in ReplyType
  BY <1>1, TypeParts, TailPlaces
<1>3. <<Head(down)>> \in Seq(ReplyType)
  BY <1>2
<1>4. /\ Handled(<<Head(down)>>) /\ channels' \in Seq(ChannelType) /\ Ids \subseteq Ids'
      /\ session' \in SessionType' /\ posts' \subseteq Messages'
  BY <1>1, <1>3, HandleTyped
<1>5. down' \in Seq(ReplyType')
  BY <1>2, <1>4, TypesGrow
<1>6. TypeOK'
  BY <1>1, <1>4, <1>5, TypeParts, TypePartsAfter DEF counts
<1> QED BY <1>1, <1>2, <1>4, <1>6 DEF counts

LEMMA PollTyped ==
    ASSUME TypeOK, Poll
    PROVE  TypeOK' /\ Handled(down) /\ down' = <<>>
           /\ UNCHANGED <<socket, requested, waiting, activators, losses>> /\ socket = "fallback"
<1>1. /\ socket = "fallback" /\ Handle(down) /\ down' = <<>>
      /\ UNCHANGED <<socket, errors, requested, waiting, activators, counts>>
  BY DEF Poll
<1>2. /\ Handled(down) /\ channels' \in Seq(ChannelType) /\ Ids \subseteq Ids'
      /\ session' \in SessionType' /\ posts' \subseteq Messages'
  BY <1>1, TypeParts, HandleTyped
<1>3. down' \in Seq(ReplyType')
  BY <1>1, EmptySeq
<1>4. TypeOK'
  BY <1>1, <1>2, <1>3, TypeParts, TypePartsAfter DEF counts
<1> QED BY <1>1, <1>2, <1>4 DEF counts

ClosingOf(i) == [kind |-> "close", id |-> i]

LEMMA ClosingTyped ==
    ASSUME TypeOK, NEW i \in Ids, NEW after \in [Ids -> ChannelType], NEW paths \in Seq(Paths),
           channels' = Opened(after, paths), Send(<<ClosingOf(i)>> \o OpenMessages(after, paths))
    PROVE  /\ Opens({ClosingOf(i)}, after, paths) /\ channels' \in Seq(ChannelType) /\ Ids \subseteq Ids'
           /\ session' \in SessionType' /\ posts' \subseteq Messages'
<1>1. after \in Seq(ChannelType) /\ Len(after) = Len(channels)
  BY AfterTyped
<1>2. Extends(after, paths)
  BY <1>1, OpenedExtends
<1>3. channels' \in Seq(ChannelType) /\ Ids \subseteq Ids'
  BY <1>2 DEF Extends
<1> SUFFICES ASSUME NEW rest, rest = OpenMessages(after, paths), NEW x, x = ClosingOf(i),
                    NEW all, all = <<x>> \o rest
             PROVE  Opens({x}, after, paths) /\ session' \in SessionType' /\ posts' \subseteq Messages'
  BY <1>3
<1>4. /\ rest \in Seq(Messages') /\ Different(rest) /\ SetOf(rest) = Openings(paths)
      /\ \A j \in DOMAIN rest : rest[j].kind = "open"
  <2>1. /\ rest \in Seq(Messages') /\ Different(rest) /\ SetOf(rest) = Openings(paths)
        /\ \A j \in DOMAIN rest : rest[j] = [kind |-> "open", id |-> Len(channels) + j, path |-> paths[j]]
    BY <1>1, <1>2, OpenMessagesAre DEF SetOf
  <2> QED BY <2>1
<1>5. x \in Messages' /\ x.kind = "close"
  BY <1>3 DEF ClosingOf, Messages
<1>6. <<x>> \in Seq(Messages') /\ SetOf(<<x>>) = {x} /\ Different(<<x>>)
  BY <1>5 DEF SetOf, Different
<1>7. all \in Seq(Messages') /\ Joined(<<x>>, rest, all)
  BY <1>4, <1>6, ConcatPlaces
<1>8. \A j \in DOMAIN <<x>> : \A k \in DOMAIN rest : <<x>>[j] # rest[k]
  BY <1>4, <1>5
<1>9. Different(all)
  BY <1>4, <1>6, <1>7, <1>8, JoinedDifferent
<1>10. SetOf(all) = {x} \cup Openings(paths)
  <2>1. SetOf(all) = SetOf(<<x>>) \cup SetOf(rest)
    BY <1>7, JoinedSet
  <2> QED BY <2>1, <1>4, <1>6
<1>11. session' \in SessionType' /\ posts' \subseteq Messages' /\ Sends(all)
  BY <1>3, <1>7, SendTyped
<1> QED BY <1>2, <1>9, <1>10, <1>11 DEF Opens

LEMMA FrontClosesTyped ==
    ASSUME TypeOK, NEW i \in Ids, FrontCloses(i)
    PROVE  /\ TypeOK' /\ channels[i].status = "ready"
           /\ UNCHANGED <<socket, requested, waiting, activators, down, losses>>
           /\ \E after, again :
                 /\ Opens({ClosingOf(i)}, after, again) /\ Lists(again, Asking({i}))
                 /\ \A k \in Ids : /\ after[k].path = channels[k].path
                                   /\ after[k].status = IF k = i THEN "closed" ELSE channels[k].status
<1> SUFFICES ASSUME NEW after, after = [channels EXCEPT ![i].status = "closed"],
                    NEW again, again = Reconnecting({i})
             PROVE  /\ TypeOK'
                    /\ Opens({ClosingOf(i)}, after, again) /\ Lists(again, Asking({i}))
                    /\ \A k \in Ids : /\ after[k].path = channels[k].path
                                      /\ after[k].status = IF k = i THEN "closed" ELSE channels[k].status
  BY DEF FrontCloses
<1>1. /\ closes < MaxCloses /\ closes' = closes + 1
      /\ channels' = Opened(after, again) /\ Send(<<ClosingOf(i)>> \o OpenMessages(after, again))
      /\ UNCHANGED <<socket, errors, requested, waiting, activators, down, breaks, losses>>
  BY DEF FrontCloses, ClosingOf
<1>2. \A k \in Ids :
         /\ after[k] \in ChannelType /\ after[k].path = channels[k].path
         /\ after[k].status = IF k = i THEN "closed" ELSE channels[k].status
  <2>1. \A k \in Ids : /\ channels[k] \in ChannelType
                       /\ after[k] = IF k = i THEN [channels[k] EXCEPT !.status = "closed"] ELSE channels[k]
    BY Places DEF Ids
  <2>2. \A k \in Ids : /\ channels[k].path \in Paths
                       /\ [channels[k] EXCEPT !.status = "closed"] = [path |-> channels[k].path, status |-> "closed"]
    BY <2>1 DEF ChannelType
  <2>3. ASSUME NEW k \in Ids, k # i
        PROVE  after[k] \in ChannelType /\ after[k].path = channels[k].path /\ after[k].status = channels[k].status
    BY <2>1, <2>3
  <2>4. after[i] \in ChannelType /\ after[i].path = channels[i].path /\ after[i].status = "closed"
    BY <2>1, <2>2 DEF ChannelType
  <2> QED BY <2>3, <2>4
<1>3. after \in [Ids -> ChannelType]
  <2>1. after = [k \in Ids |-> after[k]]
    BY TypeParts, LenProperties DEF Ids
  <2> QED BY <1>2, <2>1
<1>4. Lists(again, Asking({i})) /\ again \in Seq(Paths)
  BY ReconnectingLists DEF Lists
<1>5. /\ Opens({ClosingOf(i)}, after, again) /\ channels' \in Seq(ChannelType) /\ Ids \subseteq Ids'
      /\ session' \in SessionType' /\ posts' \subseteq Messages'
  BY <1>1, <1>3, <1>4, ClosingTyped
<1>6. down' \in Seq(ReplyType') /\ closes' \in 0 .. MaxCloses
  <2>1. closes \in 0 .. MaxCloses /\ MaxCloses \in Nat /\ down \in Seq(ReplyType)
    BY TypeParts, ChannelAssumption
  <2>2. down' \in Seq(ReplyType')
    BY <1>1, <1>5, <2>1, TypesGrow
  <2> QED BY <1>1, <2>1, <2>2
<1>7. TypeOK'
  BY <1>1, <1>5, <1>6, TypeParts, TypePartsAfter
<1> QED BY <1>2, <1>4, <1>5, <1>7

-----------------------------------------------------------------------------
(* What the steps of the backend do *)

\* A message is answered or not, and its channel is served or not.
Answers(msg, kinds) ==
    IF kinds = {} THEN down' = down
    ELSE \E kind \in kinds : Joined(down, <<[kind |-> kind, id |-> msg.id]>>, down')

Serves(served, msg) ==
    \/ /\ msg.kind = "open" /\ Answers(msg, {"ready"})
       /\ session'.served = served \cup {[id |-> msg.id, path |-> msg.path]}
    \/ /\ msg.kind = "open" /\ Answers(msg, {"close"})
       /\ session'.served = served
    \/ /\ msg.kind = "close" /\ Answers(msg, {})
       /\ session'.served = {c \in served : c.id # msg.id}

LEMMA ServeTyped ==
    ASSUME TypeOK, NEW known \in SessionType, NEW msg \in Messages, Serve(known, msg)
    PROVE  /\ session' \in SessionType /\ down' \in Seq(ReplyType) /\ closes' \in 0 .. MaxCloses
           /\ session'.status = known.status /\ session'.up = known.up
           /\ Serves(known.served, msg)
<1>1. msg.id \in Ids /\ (msg.kind = "open" => msg.path \in Paths)
  BY DEF Messages
<1>2. known = [status |-> known.status, served |-> known.served, up |-> known.up]
      /\ known.status \in {"none", "open", "closed"} /\ known.served \subseteq ServedType /\ known.up \in Seq(Messages)
  BY DEF SessionType
<1>3. down \in Seq(ReplyType) /\ closes \in 0 .. MaxCloses
  BY TypeParts
<1>4. ASSUME NEW kind \in {"ready", "close"}, Reply(kind, msg.id)
      PROVE  down' \in Seq(ReplyType) /\ Answers(msg, {kind})
  <2>1. [kind |-> kind, id |-> msg.id] \in ReplyType
    BY <1>1 DEF ReplyType
  <2>2. down' \in Seq(ReplyType) /\ Joined(down, <<[kind |-> kind, id |-> msg.id]>>, down')
    <3>1. down' = Append(down, [kind |-> kind, id |-> msg.id])
      BY <1>4 DEF Reply
    <3> SUFFICES ASSUME NEW r \in ReplyType, down' = Append(down, r)
                 PROVE  down' \in Seq(ReplyType) /\ Joined(down, <<r>>, down')
      BY <3>1, <2>1
    <3> QED BY <1>3, AppendPlaces
  <2> QED BY <2>2 DEF Answers
<1>5. CASE /\ msg.kind = "open"
           /\ session' = [known EXCEPT !.served = @ \cup {[id |-> msg.id, path |-> msg.path]}]
           /\ Reply("ready", msg.id) /\ UNCHANGED closes
  <2>1. /\ session'.served = known.served \cup {[id |-> msg.id, path |-> msg.path]}
        /\ session'.status = known.status /\ session'.up = known.up
    BY <1>5, <1>2
  <2>2. [id |-> msg.id, path |-> msg.path] \in ServedType
    BY <1>1, <1>5 DEF ServedType
  <2>3. session' \in SessionType
    BY <1>5, <1>2, <2>2 DEF SessionType
  <2> QED BY <1>3, <1>4, <1>5, <2>1, <2>3 DEF Serves
<1>6. CASE /\ msg.kind = "open" /\ closes < MaxCloses /\ closes' = closes + 1
           /\ session' = known /\ Reply("close", msg.id)
  <2>1. closes' \in 0 .. MaxCloses
    BY <1>3, <1>6, ChannelAssumption
  <2> QED BY <2>1, <1>4, <1>6 DEF Serves
<1>7. CASE /\ msg.kind = "close"
           /\ session' = [known EXCEPT !.served = {c \in @ : c.id # msg.id}]
           /\ UNCHANGED <<down, closes>>
  <2>1. /\ session'.served = {c \in known.served : c.id # msg.id}
        /\ session'.status = known.status /\ session'.up = known.up
    BY <1>7, <1>2
  <2>2. session' \in SessionType
    BY <1>7, <1>2 DEF SessionType
  <2>3. Answers(msg, {})
    BY <1>7 DEF Answers
  <2> QED BY <1>3, <1>7, <2>1, <2>2, <2>3 DEF Serves
<1> QED BY <1>5, <1>6, <1>7 DEF Serve

LEMMA FrontStays ==
    ASSUME TypeOK, UNCHANGED front, session' \in SessionType, down' \in Seq(ReplyType), posts' \subseteq Messages,
           breaks' \in 0 .. MaxBreaks, closes' \in 0 .. MaxCloses, losses' \in 0 .. MaxLosses
    PROVE  TypeOK'
<1>1. Ids' = Ids /\ SessionType' = SessionType /\ Messages' = Messages /\ ReplyType' = ReplyType
  BY DEF front, Ids, SessionType, ServedType, Messages, ReplyType
<1> QED BY <1>1, TypeParts, TypePartsAfter DEF front

LEMMA BackReceivesTyped ==
    ASSUME TypeOK, BackReceives
    PROVE  /\ TypeOK' /\ UNCHANGED <<front, posts, losses>> /\ session'.status = session.status
           /\ Shortened(session.up, session'.up) /\ session.up[1] \in Messages
           /\ Serves(session.served, session.up[1])
<1> SUFFICES ASSUME NEW rest, rest = Tail(session.up),
                    NEW known, known = [session EXCEPT !.up = rest],
                    NEW msg, msg = session.up[1]
             PROVE  /\ TypeOK' /\ UNCHANGED <<front, posts, losses>> /\ session'.status = session.status
                    /\ Shortened(session.up, session'.up) /\ msg \in Messages
                    /\ Serves(session.served, msg)
  OBVIOUS
<1>1. session.up # <<>> /\ Serve(known, Head(session.up)) /\ UNCHANGED <<front, posts, breaks, losses>>
  BY DEF BackReceives
<1>2. session \in SessionType /\ session.up \in Seq(Messages)
  BY TypeParts DEF SessionType
<1>3. rest \in Seq(Messages) /\ Shortened(session.up, rest) /\ Head(session.up) = msg /\ msg \in Messages
  BY <1>1, <1>2, TailPlaces
<1>4. /\ known \in SessionType /\ known.up = rest /\ known.served = session.served
      /\ known.status = session.status
  BY <1>2, <1>3 DEF SessionType
<1>5. /\ session' \in SessionType /\ down' \in Seq(ReplyType) /\ closes' \in 0 .. MaxCloses
      /\ session'.status = known.status /\ session'.up = known.up
      /\ Serves(known.served, msg)
  BY <1>1, <1>3, <1>4, ServeTyped
<1>6. TypeOK'
  BY <1>1, <1>5, TypeParts, FrontStays
<1> QED BY <1>1, <1>3, <1>4, <1>5, <1>6

LEMMA PostArrivesTyped ==
    ASSUME TypeOK, NEW msg \in posts, PostArrives(msg)
    PROVE  /\ TypeOK' /\ UNCHANGED <<front, losses>> /\ posts' = posts \ {msg} /\ msg \in Messages
           /\ session'.status = (IF session = NoSession THEN "open" ELSE session.status)
           /\ session'.up = session.up
           /\ Serves(session.served, msg)
<1> SUFFICES ASSUME NEW known, known = IF session = NoSession THEN NewSession ELSE session
             PROVE  /\ TypeOK' /\ UNCHANGED <<front, losses>> /\ posts' = posts \ {msg} /\ msg \in Messages
                    /\ session'.status = (IF session = NoSession THEN "open" ELSE session.status)
                    /\ session'.up = session.up
                    /\ Serves(session.served, msg)
  OBVIOUS
<1>1. /\ posts' = posts \ {msg} /\ Serve(known, msg) /\ UNCHANGED <<front, breaks, losses>>
  BY DEF PostArrives
<1>2. session \in SessionType /\ msg \in Messages
  BY TypeParts
<1>3. /\ known \in SessionType /\ known.up = session.up /\ known.served = session.served
      /\ known.status = IF session = NoSession THEN "open" ELSE session.status
  BY <1>2, EmptySeq DEF SessionType, NewSession, NoSession
<1>4. /\ session' \in SessionType /\ down' \in Seq(ReplyType) /\ closes' \in 0 .. MaxCloses
      /\ session'.status = known.status /\ session'.up = known.up
      /\ Serves(known.served, msg)
  BY <1>1, <1>2, <1>3, ServeTyped
<1>5. TypeOK'
  BY <1>1, <1>4, TypeParts, FrontStays
<1> QED BY <1>1, <1>2, <1>3, <1>4, <1>5

LEMMA NoSessionTyped == NoSession \in SessionType /\ [NoSession EXCEPT !.status = "closed"] \in SessionType
BY EmptySeq DEF NoSession, SessionType

LEMMA BackLosesTyped ==
    ASSUME TypeOK, BackLoses
    PROVE  /\ TypeOK' /\ UNCHANGED <<front, down, posts, losses>> /\ socket = "open"
           /\ session' = [NoSession EXCEPT !.status = "closed"]
<1>1. breaks' \in 0 .. MaxBreaks
  BY TypeParts, ChannelAssumption DEF BackLoses
<1> QED BY <1>1, TypeParts, FrontStays, NoSessionTyped DEF BackLoses

LEMMA LossyTyped == ASSUME TypeOK, Lossy PROVE losses' \in 0 .. MaxLosses /\ losses' # 0
                                               /\ UNCHANGED <<front, breaks, closes>> /\ socket = "fallback"
BY TypeParts, ChannelAssumption DEF Lossy

LEMMA LossTyped ==
    ASSUME TypeOK, PollLost \/ AdapterDropped \/ \E msg \in posts : PostLost(msg)
    PROVE  /\ TypeOK' /\ losses' # 0 /\ UNCHANGED front /\ socket = "fallback"
           /\ session' \in {session, NoSession} /\ posts' \subseteq posts
<1>1. CASE PollLost
  BY <1>1, LossyTyped, TypeParts, FrontStays, EmptySeq DEF PollLost
<1>2. CASE AdapterDropped
  BY <1>2, LossyTyped, TypeParts, FrontStays, EmptySeq, NoSessionTyped DEF AdapterDropped
<1>3. ASSUME NEW msg \in posts, PostLost(msg)
      PROVE  /\ TypeOK' /\ losses' # 0 /\ UNCHANGED front /\ socket = "fallback"
             /\ session' \in {session, NoSession} /\ posts' \subseteq posts
  BY <1>3, LossyTyped, TypeParts, FrontStays DEF PostLost
<1> QED BY <1>1, <1>2, <1>3

-----------------------------------------------------------------------------
(* The type invariant *)

LEMMA InitTyped == Init => TypeOK
BY ChannelAssumption, EmptySeq DEF Init, TypeOK, NoSession

LEMMA NextKeepsTypes == TypeOK /\ [Next]_vars => TypeOK'
<1> SUFFICES ASSUME TypeOK, [Next]_vars PROVE TypeOK'
  OBVIOUS
<1>1. ASSUME NEW p \in Paths, Request(p) PROVE TypeOK'
  BY <1>1, RequestTyped
<1>2. ASSUME NEW error \in BOOLEAN, SocketDown(error) PROVE TypeOK'
  BY <1>2, SocketDownTyped
<1>3. ASSUME NEW i \in DOMAIN channels, FrontCloses(i) PROVE TypeOK'
  BY <1>3, FrontClosesTyped DEF Ids
<1>4. ASSUME NEW msg \in posts, PostArrives(msg) PROVE TypeOK'
  BY <1>4, PostArrivesTyped
<1>5. CASE SocketOpens \/ FrontReceives \/ Poll \/ BackReceives \/ BackLoses
  BY <1>5, SocketOpensTyped, FrontReceivesTyped, PollTyped, BackReceivesTyped, BackLosesTyped
<1>6. CASE PollLost \/ AdapterDropped \/ \E msg \in posts : PostLost(msg)
  BY <1>6, LossTyped
<1>7. CASE UNCHANGED vars
  BY <1>7 DEF vars, front, counts, TypeOK, Ids, Messages
<1> QED BY <1>1, <1>2, <1>3, <1>4, <1>5, <1>6, <1>7 DEF Next, Frontend, Backend, Http

\* Every variable of the channels has its type, however many services are asked for,
\* connections break and messages are on their way.
THEOREM TypeCorrect == Spec => []TypeOK
BY InitTyped, NextKeepsTypes, PTL DEF Spec

-----------------------------------------------------------------------------
(* Every service that was asked for has its channel, and no other *)

Listed(p) == \E j \in DOMAIN waiting : waiting[j] = p
HasChannel(p) == \E i \in Ids : Live(i) /\ channels[i].path = p

\* Channels and listeners are for services that were asked for, and whoever listens to
\* the socket listens to the fallback.
Asked ==
    /\ \A i \in Ids : channels[i].path \in requested
    /\ \A j \in DOMAIN waiting : /\ waiting[j] \in requested
                                 /\ \E k \in DOMAIN activators : activators[k] = waiting[j]
    /\ \A k \in DOMAIN activators : activators[k] \in requested

\* Nobody listens to a socket that is open or given up, and none has a channel while
\* there is no connection.
Connected ==
    /\ socket # "connecting" => \A p \in Paths : ~Listed(p)
    /\ socket = "connecting" => \A i \in Ids : ~Live(i)

NoneForgotten == \A p \in requested \ Once : HasChannel(p) \/ Listed(p)

NoneTwice ==
    socket # "fallback" =>
        /\ \A i, k \in Ids : Live(i) /\ Live(k) /\ channels[i].path = channels[k].path => i = k
        /\ \A j, k \in DOMAIN waiting : waiting[j] = waiting[k] => j = k
        /\ \A p \in Paths : ~(HasChannel(p) /\ Listed(p))

Front == Asked /\ Connected /\ NoneForgotten /\ NoneTwice

LEMMA FrontAtFirst == ASSUME Init PROVE Front
BY DEF Init, Front, Asked, Connected, NoneForgotten, NoneTwice, Ids, Listed

\* Channels were closed and those that ask for it are opened again.
Reopened(gone, after, again) ==
    /\ Extends(after, again) /\ Lists(again, Asking(gone))
    /\ \A i \in Ids : /\ after[i].path = channels[i].path
                      /\ after[i].status # "closed" <=> Live(i) /\ i \notin gone

\* The channel a new one stands for.
LEMMA ReopenedFrom ==
    ASSUME TypeOK, NEW gone, gone \subseteq Ids, NEW after, NEW again, Reopened(gone, after, again)
    PROVE  \E from \in [Ids' -> Ids] :
              /\ \A i \in Ids' : /\ channels'[i].path = channels[from[i]].path
                                 /\ Live(i)' => Live(from[i])
              /\ \A i, k \in Ids' : Live(i)' /\ Live(k)' /\ from[i] = from[k] => i = k
              /\ \A i \in Ids : Live(i) /\ channels[i].path \notin Once => \E k \in Ids' : Live(k)' /\ from[k] = i
<1> SUFFICES ASSUME NEW n, n = Len(channels)
             PROVE  \E from \in [Ids' -> Ids] :
                       /\ \A i \in Ids' : /\ channels'[i].path = channels[from[i]].path
                                          /\ Live(i)' => Live(from[i])
                       /\ \A i, k \in Ids' : Live(i)' /\ Live(k)' /\ from[i] = from[k] => i = k
                       /\ \A i \in Ids : Live(i) /\ channels[i].path \notin Once => \E k \in Ids' : Live(k)' /\ from[k] = i
  OBVIOUS
<1>1. PICK h : Whose(again, Asking(gone), h)
  BY DEF Reopened, Lists
<1>2. /\ \A j \in DOMAIN again : /\ h[j] \in Ids /\ h[j] \in gone /\ Live(h[j]) /\ again[j] = channels[h[j]].path
      /\ \A j, k \in DOMAIN again : h[j] = h[k] => j = k
      /\ \A i \in gone : Live(i) /\ channels[i].path \notin Once => \E j \in DOMAIN again : h[j] = i
  BY <1>1 DEF Whose, Asking
<1>3. /\ Len(channels) \in Nat /\ Ids = 1 .. Len(channels) /\ DOMAIN again \subseteq Nat
  BY Places, LenProperties DEF Reopened, Lists
<1>4. /\ Ids \subseteq Ids'
      /\ \A i \in Ids : channels'[i].path = channels[i].path /\ (Live(i)' <=> Live(i) /\ i \notin gone)
      /\ \A j \in DOMAIN again : /\ n + j \in Ids' /\ n + j \notin Ids
                                 /\ channels'[n + j].path = again[j]
                                 /\ Live(n + j)'
      /\ \A i \in Ids' : i \in Ids \/ \E j \in DOMAIN again : i = n + j
  <2>1. Extended(n, after, again)
    BY ExtendsFields DEF Reopened
  <2>2. \A i \in Ids : /\ after[i].path = channels[i].path
                       /\ after[i].status # "closed" <=> Live(i) /\ i \notin gone
    BY DEF Reopened
  <2> QED BY <2>1, <2>2 DEF Extended, Live
<1> DEFINE from == [i \in Ids' |-> IF i \in Ids THEN i ELSE h[i - n]]
<1>5. /\ \A i \in Ids : i \in Ids' /\ from[i] = i
      /\ \A j \in DOMAIN again : from[n + j] = h[j]
  BY <1>3, <1>4
<1>6. from \in [Ids' -> Ids]
  <2>1. ASSUME NEW i \in Ids' PROVE from[i] \in Ids
    <3>1. CASE i \in Ids
      BY <3>1, <1>5
    <3>2. CASE i \notin Ids
      <4>1. PICK j \in DOMAIN again : i = n + j
        BY <3>2, <1>4
      <4> QED BY <4>1, <1>2, <1>5
    <3> QED BY <3>1, <3>2
  <2>2. from = [i \in Ids' |-> from[i]]
    BY DEF from
  <2> HIDE DEF from
  <2> QED BY <2>1, <2>2
<1> HIDE DEF from
<1>7. \A i \in Ids' : channels'[i].path = channels[from[i]].path /\ (Live(i)' => Live(from[i]))
  BY <1>2, <1>4, <1>5
<1>8. \A i, k \in Ids' : Live(i)' /\ Live(k)' /\ from[i] = from[k] => i = k
  <2> SUFFICES ASSUME NEW i \in Ids', NEW k \in Ids', Live(i)', Live(k)', from[i] = from[k] PROVE i = k
    OBVIOUS
  <2>1. CASE i \in Ids /\ k \in Ids
    BY <2>1, <1>5
  <2>2. CASE i \in Ids /\ k \notin Ids
    BY <2>2, <1>2, <1>4, <1>5
  <2>3. CASE i \notin Ids /\ k \in Ids
    BY <2>3, <1>2, <1>4, <1>5
  <2>4. CASE i \notin Ids /\ k \notin Ids
    BY <2>4, <1>2, <1>4, <1>5
  <2> QED BY <2>1, <2>2, <2>3, <2>4
<1>9. \A i \in Ids : Live(i) /\ channels[i].path \notin Once => \E k \in Ids' : Live(k)' /\ from[k] = i
  <2> SUFFICES ASSUME NEW i \in Ids, Live(i), channels[i].path \notin Once
               PROVE  \E k \in Ids' : Live(k)' /\ from[k] = i
    OBVIOUS
  <2>1. CASE i \in gone
    <3>1. PICK j \in DOMAIN again : h[j] = i
      BY <2>1, <1>2
    <3>2. n + j \in Ids' /\ Live(n + j)' /\ from[n + j] = i
      BY <3>1, <1>4, <1>5
    <3> QED BY <3>2
  <2>2. CASE i \notin gone
    BY <2>2, <1>4, <1>5
  <2> QED BY <2>1, <2>2
<1> QED BY <1>6, <1>7, <1>8, <1>9

LEMMA ReopenKeeps ==
    ASSUME TypeOK, Front, socket # "connecting", UNCHANGED <<socket, requested, waiting, activators>>,
           NEW gone, gone \subseteq Ids, NEW after, NEW again, Reopened(gone, after, again)
    PROVE  Front'
<1>1. PICK from \in [Ids' -> Ids] :
              /\ \A i \in Ids' : /\ channels'[i].path = channels[from[i]].path
                                 /\ Live(i)' => Live(from[i])
              /\ \A i, k \in Ids' : Live(i)' /\ Live(k)' /\ from[i] = from[k] => i = k
              /\ \A i \in Ids : Live(i) /\ channels[i].path \notin Once => \E k \in Ids' : Live(k)' /\ from[k] = i
  BY ReopenedFrom
<1>2. \A p \in Paths : ~Listed(p) /\ ~Listed(p)'
  BY DEF Front, Connected, Listed
<1>3. Asked'
  BY <1>1 DEF Front, Asked
<1>4. Connected'
  BY <1>2 DEF Connected
<1>5. NoneForgotten'
  <2> SUFFICES ASSUME NEW p \in requested \ Once PROVE HasChannel(p)'
    BY DEF NoneForgotten
  <2>1. p \in Paths
    BY TypeParts
  <2>2. PICK i \in Ids : Live(i) /\ channels[i].path = p
    BY <2>1, <1>2 DEF Front, NoneForgotten, HasChannel
  <2>3. PICK k \in Ids' : Live(k)' /\ from[k] = i
    BY <2>2, <1>1
  <2>4. channels'[k].path = p
    BY <2>2, <2>3, <1>1
  <2> QED BY <2>3, <2>4 DEF HasChannel
<1>6. NoneTwice'
  <2> SUFFICES ASSUME socket # "fallback"
               PROVE  /\ \A i, k \in Ids' : Live(i)' /\ Live(k)' /\ channels'[i].path = channels'[k].path => i = k
                      /\ \A j, k \in DOMAIN waiting : waiting[j] = waiting[k] => j = k
    BY <1>2 DEF NoneTwice
  <2>1. \A i, k \in Ids : Live(i) /\ Live(k) /\ channels[i].path = channels[k].path => i = k
    BY DEF Front, NoneTwice
  <2> QED BY <2>1, <1>1 DEF Front, NoneTwice
<1> QED BY <1>3, <1>4, <1>5, <1>6 DEF Front

\* A channel or a listener is found for every path of a sequence that is new.
LEMMA SocketOpensKeeps ==
    ASSUME TypeOK, Front, SocketOpens
    PROVE  Front'
<1> SUFFICES ASSUME NEW n, n = Len(channels) PROVE Front'
  OBVIOUS
<1>1. /\ socket = "connecting" /\ socket' = "open" /\ waiting' = <<>>
      /\ UNCHANGED <<requested, activators>>
  BY DEF SocketOpens
<1>2. Extends(channels, waiting)
  BY SocketOpensTyped
<1>3. /\ n \in Nat /\ Ids = 1 .. n /\ Ids \subseteq Ids' /\ DOMAIN waiting \subseteq Nat
      /\ \A i \in Ids : channels'[i] = channels[i]
      /\ \A j \in DOMAIN waiting : /\ n + j \in Ids' /\ n + j \notin Ids
                                   /\ channels'[n + j].path = waiting[j]
                                   /\ channels'[n + j].status = "opening"
      /\ \A i \in Ids' : \/ i \in Ids
                          \/ \E j \in DOMAIN waiting : i = n + j /\ channels'[i].path = waiting[j]
  <2>1. Extended(n, channels, waiting)
    BY <1>2, ExtendsFields
  <2>2. n \in Nat /\ Ids = 1 .. n /\ DOMAIN waiting \subseteq Nat
    BY Places
  <2> QED BY <2>1, <2>2 DEF Extended
<1>4. \A i \in Ids : ~Live(i) /\ ~Live(i)'
  BY <1>1, <1>3 DEF Front, Connected, Live
<1>5. \A i \in Ids' : Live(i)' => \E j \in DOMAIN waiting : i = n + j /\ channels'[i].path = waiting[j]
  BY <1>3, <1>4
<1>6. \A p \in Paths : ~Listed(p)'
  BY <1>1 DEF Listed
<1>7. Asked'
  BY <1>1, <1>3 DEF Front, Asked
<1>8. Connected'
  BY <1>1, <1>6 DEF Connected
<1>9. NoneForgotten'
  <2> SUFFICES ASSUME NEW p \in requested \ Once PROVE HasChannel(p)'
    BY <1>1 DEF NoneForgotten
  <2>1. PICK j \in DOMAIN waiting : waiting[j] = p
    BY <1>4 DEF Front, NoneForgotten, HasChannel, Listed
  <2> SUFFICES ASSUME NEW k, k = n + j PROVE HasChannel(p)'
    OBVIOUS
  <2>2. k \in Ids' /\ Live(k)' /\ channels'[k].path = p
    BY <2>1, <1>3 DEF Live
  <2> QED BY <2>2 DEF HasChannel
<1>10. NoneTwice'
  <2>1. \A j, k \in DOMAIN waiting : waiting[j] = waiting[k] => j = k
    BY <1>1 DEF Front, NoneTwice
  <2>2. \A i, k \in Ids' : Live(i)' /\ Live(k)' /\ channels'[i].path = channels'[k].path => i = k
    BY <2>1, <1>5
  <2> QED BY <2>2, <1>1, <1>6 DEF NoneTwice
<1> QED BY <1>7, <1>8, <1>9, <1>10 DEF Front

\* All channels are closed: the paths of those that ask for it wait for the socket, or
\* everybody who ever waited opens a channel of the fallback.
LEMMA SocketDownKeeps ==
    ASSUME TypeOK, Front, NEW error \in BOOLEAN, SocketDown(error)
    PROVE  Front'
<1>1. PICK again : /\ Lists(again, Asking(Ids)) /\ Joined(activators, again, activators')
                   /\ \/ /\ socket' = "fallback" /\ waiting' = <<>>
                         /\ Extends(AllClosed, activators')
                      \/ /\ socket' = "connecting" /\ Joined(waiting, again, waiting')
                         /\ Extends(AllClosed, <<>>)
  BY SocketDownTyped
<1>2. requested' = requested /\ socket # "fallback"
  BY SocketDownTyped
<1>3. PICK h : Whose(again, Asking(Ids), h)
  BY <1>1 DEF Lists
<1>4. /\ \A j \in DOMAIN again : /\ h[j] \in Ids /\ Live(h[j]) /\ again[j] = channels[h[j]].path
      /\ \A j, k \in DOMAIN again : h[j] = h[k] => j = k
      /\ \A i \in Ids : Live(i) /\ channels[i].path \notin Once => \E j \in DOMAIN again : again[j] = channels[i].path
  BY <1>3 DEF Whose, Asking
<1>5. \A i \in Ids : AllClosed[i].path = channels[i].path /\ AllClosed[i].status = "closed"
  BY AllClosedTyped
<1>6. \A j \in DOMAIN again : again[j] \in requested
  BY <1>4 DEF Front, Asked
<1>7. \A k \in DOMAIN activators' : activators'[k] \in requested
  BY <1>1, <1>6 DEF Joined, Front, Asked
<1>8. \A j \in DOMAIN again : \E k \in DOMAIN activators' : activators'[k] = again[j]
  BY <1>1 DEF Joined
<1>9. \A k \in DOMAIN activators : \E m \in DOMAIN activators' : activators'[m] = activators[k]
  BY <1>1 DEF Joined
<1>10. \A p \in requested \ Once : \E k \in DOMAIN activators' : activators'[k] = p
  <2> SUFFICES ASSUME NEW p \in requested \ Once PROVE \E k \in DOMAIN activators' : activators'[k] = p
    OBVIOUS
  <2>1. CASE HasChannel(p)
    <3>1. \E j \in DOMAIN again : again[j] = p
      BY <2>1, <1>4 DEF HasChannel
    <3> QED BY <3>1, <1>8
  <2>2. CASE Listed(p)
    <3>1. \E k \in DOMAIN activators : activators[k] = p
      BY <2>2 DEF Front, Asked, Listed
    <3> QED BY <3>1, <1>9
  <2> QED BY <2>1, <2>2 DEF Front, NoneForgotten
<1>11. CASE socket' = "fallback" /\ waiting' = <<>> /\ Extends(AllClosed, activators')
  <2> SUFFICES ASSUME NEW n, n = Len(channels) PROVE Front'
    OBVIOUS
  <2>1. /\ \A i \in Ids : channels'[i] = AllClosed[i]
        /\ \A j \in DOMAIN activators' : /\ n + j \in Ids'
                                         /\ channels'[n + j].path = activators'[j]
                                         /\ channels'[n + j].status = "opening"
        /\ \A i \in Ids' : \/ i \in Ids
                            \/ \E j \in DOMAIN activators' : i = n + j /\ channels'[i].path = activators'[j]
    BY <1>11, ExtendsFields DEF Extended
  <2>2. Asked'
    <3>1. \A i \in Ids' : channels'[i].path \in requested
      BY <2>1, <1>5, <1>7 DEF Front, Asked
    <3> QED BY <3>1, <1>2, <1>7, <1>11 DEF Asked
  <2>3. Connected' /\ NoneTwice'
    BY <1>11 DEF Connected, Listed, NoneTwice
  <2>4. NoneForgotten'
    <3> SUFFICES ASSUME NEW p \in requested \ Once PROVE HasChannel(p)'
      BY <1>2 DEF NoneForgotten
    <3>1. PICK j \in DOMAIN activators' : activators'[j] = p
      BY <1>10
    <3> SUFFICES ASSUME NEW k, k = n + j PROVE HasChannel(p)'
      OBVIOUS
    <3>2. k \in Ids' /\ Live(k)' /\ channels'[k].path = p
      BY <2>1, <3>1 DEF Live
    <3> QED BY <3>2 DEF HasChannel
  <2> QED BY <2>2, <2>3, <2>4 DEF Front
<1>12. CASE socket' = "connecting" /\ Joined(waiting, again, waiting') /\ Extends(AllClosed, <<>>)
  <2>1. Ids' = Ids /\ \A i \in Ids : channels'[i] = AllClosed[i]
    <3>1. DOMAIN <<>> = {}
      OBVIOUS
    <3> SUFFICES ASSUME NEW none, none = <<>>, NEW n, n = Len(channels)
                 PROVE  Ids' = Ids /\ \A i \in Ids : channels'[i] = AllClosed[i]
      OBVIOUS
    <3>2. Extended(n, AllClosed, none)
      BY <1>12, ExtendsFields
    <3> QED BY <3>1, <3>2 DEF Extended
  <2>2. \A i \in Ids' : ~Live(i)' /\ channels'[i].path = channels[i].path
    BY <2>1, <1>5 DEF Live
  <2>3. /\ \A j \in DOMAIN waiting' : \/ j \in DOMAIN waiting /\ waiting'[j] = waiting[j]
                                      \/ \E k \in DOMAIN again : j = Len(waiting) + k /\ waiting'[j] = again[k]
        /\ \A j \in DOMAIN waiting : j \in DOMAIN waiting' /\ waiting'[j] = waiting[j]
        /\ \A k \in DOMAIN again : \E j \in DOMAIN waiting' : waiting'[j] = again[k]
    BY <1>12 DEF Joined
  <2>4. Asked'
    <3>1. \A j \in DOMAIN waiting' : waiting'[j] \in requested
      BY <2>3, <1>6 DEF Front, Asked
    <3>2. \A j \in DOMAIN waiting' : \E k \in DOMAIN activators' : activators'[k] = waiting'[j]
      BY <2>3, <1>8, <1>9 DEF Front, Asked
    <3>3. \A i \in Ids' : channels'[i].path \in requested
      BY <2>1, <2>2 DEF Front, Asked
    <3> QED BY <3>1, <3>2, <3>3, <1>2, <1>7 DEF Asked
  <2>5. Connected'
    BY <1>12, <2>2 DEF Connected
  <2>6. NoneForgotten'
    <3> SUFFICES ASSUME NEW p \in requested \ Once PROVE Listed(p)'
      BY <1>2 DEF NoneForgotten
    <3>1. CASE HasChannel(p)
      <4>1. \E j \in DOMAIN again : again[j] = p
        BY <3>1, <1>4 DEF HasChannel
      <4> QED BY <4>1, <2>3 DEF Listed
    <3>2. CASE Listed(p)
      BY <3>2, <2>3 DEF Listed
    <3> QED BY <3>1, <3>2 DEF Front, NoneForgotten
  <2>7. NoneTwice'
    <3>1. \A j, k \in DOMAIN again : again[j] = again[k] => j = k
      BY <1>2, <1>4 DEF Front, NoneTwice
    <3>2. \A j \in DOMAIN waiting : \A k \in DOMAIN again : waiting[j] # again[k]
      <4> SUFFICES ASSUME NEW j \in DOMAIN waiting, NEW k \in DOMAIN again, waiting[j] = again[k] PROVE FALSE
        OBVIOUS
      <4>1. Listed(again[k]) /\ HasChannel(again[k])
        BY <1>4 DEF Listed, HasChannel
      <4>2. again[k] \in Paths
        BY <1>6, TypeParts
      <4> QED BY <4>1, <4>2, <1>2 DEF Front, NoneTwice
    <3>3. Different(waiting')
      <4>1. Different(waiting) /\ Different(again)
        BY <3>1, <1>2 DEF Front, NoneTwice, Different
      <4> QED BY <4>1, <3>2, <1>12, JoinedDifferent
    <3> QED BY <3>3, <2>2 DEF NoneTwice, HasChannel, Different
  <2> QED BY <2>4, <2>5, <2>6, <2>7 DEF Front
<1> QED BY <1>1, <1>11, <1>12

LEMMA RequestKeeps ==
    ASSUME TypeOK, Front, NEW p \in Paths, Request(p)
    PROVE  Front'
<1>1. p \notin requested /\ requested' = requested \cup {p} /\ socket' = socket
  BY DEF Request
<1>2. \A i \in Ids : channels[i].path # p
  BY <1>1 DEF Front, Asked
<1>3. \A j \in DOMAIN waiting : waiting[j] # p
  BY <1>1 DEF Front, Asked
<1> SUFFICES ASSUME NEW one, one = <<p>>, NEW n, n = Len(channels) PROVE Front'
  OBVIOUS
<1>4. DOMAIN one = {1} /\ one[1] = p /\ Different(one)
  BY DEF Different
<1>5. CASE socket = "connecting"
  <2>1. /\ Joined(waiting, one, waiting') /\ Joined(activators, one, activators') /\ channels' = channels
    BY <1>5, RequestTyped
  <2>2. /\ \A j \in DOMAIN waiting' : (j \in DOMAIN waiting /\ waiting'[j] = waiting[j]) \/ waiting'[j] = p
        /\ \A j \in DOMAIN waiting : j \in DOMAIN waiting' /\ waiting'[j] = waiting[j]
        /\ \E j \in DOMAIN waiting' : waiting'[j] = p
    BY <2>1, <1>4 DEF Joined
  <2>3. /\ \A j \in DOMAIN activators' : (j \in DOMAIN activators /\ activators'[j] = activators[j]) \/ activators'[j] = p
        /\ \A j \in DOMAIN activators : j \in DOMAIN activators' /\ activators'[j] = activators[j]
        /\ \E j \in DOMAIN activators' : activators'[j] = p
    BY <2>1, <1>4 DEF Joined
  <2>4. Ids' = Ids /\ \A i \in Ids : Live(i)' <=> Live(i)
    BY <2>1 DEF Ids, Live
  <2>5. Asked'
    <3>1. \A i \in Ids' : channels'[i].path \in requested'
      BY <2>1, <2>4, <1>1 DEF Front, Asked
    <3>2. \A j \in DOMAIN waiting' : waiting'[j] \in requested'
      BY <2>2, <1>1 DEF Front, Asked
    <3>3. \A j \in DOMAIN waiting' : \E k \in DOMAIN activators' : activators'[k] = waiting'[j]
      BY <2>2, <2>3 DEF Front, Asked
    <3>4. \A k \in DOMAIN activators' : activators'[k] \in requested'
      BY <2>3, <1>1 DEF Front, Asked
    <3> QED BY <3>1, <3>2, <3>3, <3>4 DEF Asked
  <2>6. Connected'
    BY <2>4, <1>1, <1>5 DEF Connected, Front
  <2>7. NoneForgotten'
    BY <2>1, <2>2, <2>4, <1>1 DEF NoneForgotten, Front, HasChannel, Listed
  <2>8. NoneTwice'
    <3>1. Different(waiting')
      BY <2>1, <1>3, <1>4, <1>5, JoinedDifferent DEF Front, NoneTwice, Different
    <3>2. \A i \in Ids' : ~Live(i)'
      BY <2>4, <1>5 DEF Front, Connected
    <3> QED BY <3>1, <3>2 DEF NoneTwice, HasChannel, Different
  <2> QED BY <2>5, <2>6, <2>7, <2>8 DEF Front
<1>6. CASE socket # "connecting"
  <2>1. Extended(n, channels, one) /\ UNCHANGED <<waiting, activators>>
    BY <1>6, RequestTyped, ExtendsFields DEF Opens
  <2>2. \A q \in Paths : ~Listed(q) /\ ~Listed(q)'
    BY <2>1, <1>6 DEF Front, Connected, Listed
  <2>3. /\ \A i \in Ids : i \in Ids' /\ channels'[i] = channels[i] /\ (Live(i)' <=> Live(i))
        /\ \A i \in Ids' : i \in Ids \/ (i = n + 1 /\ channels'[i].path = p)
        /\ \E i \in Ids' : channels'[i].path = p /\ Live(i)'
    <3> SUFFICES ASSUME NEW m, m = n + 1
                 PROVE  /\ \A i \in Ids : i \in Ids' /\ channels'[i] = channels[i] /\ (Live(i)' <=> Live(i))
                        /\ \A i \in Ids' : i \in Ids \/ (i = m /\ channels'[i].path = p)
                        /\ m \in Ids' /\ channels'[m].path = p /\ Live(m)'
      OBVIOUS
    <3> QED BY <2>1, <1>4 DEF Extended, Live
  <2>4. Asked'
    BY <2>1, <2>3, <1>1 DEF Front, Asked
  <2>5. Connected'
    BY <2>2, <1>1, <1>6 DEF Connected
  <2>6. NoneForgotten'
    <3> SUFFICES ASSUME NEW q \in requested' \ Once PROVE HasChannel(q)'
      BY DEF NoneForgotten
    <3>1. CASE q = p
      BY <3>1, <2>3 DEF HasChannel
    <3>2. CASE q # p
      <4>1. q \in requested /\ q \in Paths
        BY <3>2, <1>1, TypeParts
      <4>2. HasChannel(q)
        BY <4>1, <2>2 DEF Front, NoneForgotten
      <4> QED BY <4>2, <2>3 DEF HasChannel
    <3> QED BY <3>1, <3>2
  <2>7. NoneTwice'
    <3> SUFFICES ASSUME socket # "fallback"
                 PROVE  /\ \A i, k \in Ids' : Live(i)' /\ Live(k)' /\ channels'[i].path = channels'[k].path => i = k
                        /\ \A j, k \in DOMAIN waiting : waiting[j] = waiting[k] => j = k
      BY <2>1, <2>2, <1>1 DEF NoneTwice
    <3>1. \A i, k \in Ids : Live(i) /\ Live(k) /\ channels[i].path = channels[k].path => i = k
      BY DEF Front, NoneTwice
    <3> QED BY <3>1, <2>3, <1>2 DEF Front, NoneTwice
  <2> QED BY <2>4, <2>5, <2>6, <2>7 DEF Front
<1> QED BY <1>5, <1>6

LEMMA GotIds == ASSUME TypeOK, NEW msgs \in Seq(ReplyType), NEW kind PROVE Got(msgs, kind) \subseteq Ids
<1>1. \A j \in DOMAIN msgs : msgs[j] \in ReplyType
  BY LenProperties, ElementOfSeq
<1>2. \A j \in DOMAIN msgs : msgs[j].id \in Ids
  BY <1>1 DEF ReplyType
<1> QED BY <1>2 DEF Got

LEMMA HandledReopens ==
    ASSUME TypeOK, NEW msgs \in Seq(ReplyType), Handled(msgs)
    PROVE  \E after, again : Reopened(Got(msgs, "close"), after, again)
<1> SUFFICES ASSUME NEW gone, gone = Got(msgs, "close"), NEW got, got = Got(msgs, "ready")
             PROVE  \E after, again : Reopened(gone, after, again)
  OBVIOUS
<1>1. PICK after, again :
        /\ Opens({}, after, again) /\ Lists(again, Asking(gone))
        /\ \A i \in Ids :
              /\ after[i].path = channels[i].path
              /\ after[i].status = IF Live(i) /\ i \in gone THEN "closed"
                                   ELSE IF Live(i) /\ i \in got THEN "ready"
                                   ELSE channels[i].status
  BY DEF Handled
<1>2. \A i \in Ids : after[i].status # "closed" <=> Live(i) /\ i \notin gone
  BY <1>1 DEF Live
<1> QED BY <1>1, <1>2 DEF Reopened, Opens

LEMMA HandledKeeps ==
    ASSUME TypeOK, Front, socket # "connecting", UNCHANGED <<socket, requested, waiting, activators>>,
           NEW msgs \in Seq(ReplyType), Handled(msgs)
    PROVE  Front'
BY HandledReopens, GotIds, ReopenKeeps

LEMMA FrontClosesKeeps ==
    ASSUME TypeOK, Front, NEW i \in Ids, FrontCloses(i)
    PROVE  Front'
<1>1. channels[i].status = "ready" /\ UNCHANGED <<socket, requested, waiting, activators>>
  BY FrontClosesTyped
<1>2. PICK after, again :
                 /\ Opens({ClosingOf(i)}, after, again) /\ Lists(again, Asking({i}))
                 /\ \A k \in Ids : /\ after[k].path = channels[k].path
                                   /\ after[k].status = IF k = i THEN "closed" ELSE channels[k].status
  BY FrontClosesTyped
<1>3. socket # "connecting"
  BY <1>1 DEF Front, Connected, Live
<1>4. Reopened({i}, after, again)
  BY <1>1, <1>2 DEF Reopened, Opens, Live
<1> QED BY <1>1, <1>3, <1>4, ReopenKeeps

LEMMA FrontUnchanged == ASSUME Front, UNCHANGED front PROVE Front'
BY DEF front, Front, Asked, Connected, NoneForgotten, NoneTwice, HasChannel, Listed, Live, Ids

LEMMA NextKeepsFront == TypeOK /\ Front /\ [Next]_vars => Front'
<1> SUFFICES ASSUME TypeOK, Front, [Next]_vars PROVE Front'
  OBVIOUS
<1>1. ASSUME NEW p \in Paths, Request(p) PROVE Front'
  BY <1>1, RequestKeeps
<1>2. ASSUME NEW error \in BOOLEAN, SocketDown(error) PROVE Front'
  BY <1>2, SocketDownKeeps
<1>3. ASSUME NEW i \in DOMAIN channels, FrontCloses(i) PROVE Front'
  BY <1>3, FrontClosesKeeps DEF Ids
<1>4. ASSUME NEW msg \in posts, PostArrives(msg) PROVE Front'
  BY <1>4, PostArrivesTyped, FrontUnchanged
<1>5. CASE FrontReceives
  <2>1. /\ Handled(<<Head(down)>>) /\ Head(down) = down[1] /\ socket = "open" /\ down # <<>>
        /\ UNCHANGED <<socket, requested, waiting, activators>>
    BY <1>5, FrontReceivesTyped
  <2>2. Head(down) \in ReplyType
    BY <2>1, TypeParts, HeadTailProperties
  <2>3. <<Head(down)>> \in Seq(ReplyType)
    BY <2>2
  <2> QED BY <2>1, <2>3, HandledKeeps
<1>6. CASE Poll
  BY <1>6, PollTyped, TypeParts, HandledKeeps
<1>7. CASE BackReceives \/ BackLoses
  BY <1>7, BackReceivesTyped, BackLosesTyped, FrontUnchanged
<1>8. CASE PollLost \/ AdapterDropped \/ \E msg \in posts : PostLost(msg)
  BY <1>8, LossTyped, FrontUnchanged
<1>9. CASE UNCHANGED vars
  BY <1>9, FrontUnchanged DEF vars
<1> QED BY <1>1, <1>2, <1>3, <1>4, <1>5, <1>6, <1>7, <1>8, <1>9, SocketOpensKeeps DEF Next, Frontend, Backend, Http

\* What the frontend has of the services it was asked for: each path has its channel or its
\* listener, through every order of connecting, closing and giving up.
THEOREM FrontInvariant == Spec => [](TypeOK /\ Front)
<1>1. Init => TypeOK /\ Front
  BY InitTyped, FrontAtFirst
<1>2. (TypeOK /\ Front) /\ [Next]_vars => (TypeOK /\ Front)'
  BY NextKeepsTypes, NextKeepsFront
<1> QED BY <1>1, <1>2, PTL DEF Spec

\* A set that has no two elements has none or one.
LEMMA AtMostOne ==
    ASSUME NEW S, \A x, y \in S : x = y
    PROVE  /\ IsFiniteSet(S) /\ Cardinality(S) \in {0, 1}
           /\ S # {} => Cardinality(S) = 1 /\ (S = {} => Cardinality(S) = 0)
<1>1. CASE S = {}
  BY <1>1, FS_EmptySet
<1>2. CASE S # {}
  <2>1. PICK x : x \in S
    BY <1>2
  <2>2. S = {x}
    BY <2>1
  <2> QED BY <2>2, <1>2, FS_Singleton
<1> QED BY <1>1, <1>2

LEMMA FrontAsksOnce == TypeOK /\ Front => AskedForOnce
<1> SUFFICES ASSUME TypeOK, Front, NEW p \in requested,
                    NEW A, A = {i \in Ids : Live(i) /\ channels[i].path = p},
                    NEW B, B = {j \in DOMAIN waiting : waiting[j] = p}
             PROVE  /\ p \notin Once => Cardinality(A) + Cardinality(B) >= 1
                    /\ socket # "fallback" => Cardinality(A) + Cardinality(B) <= 1
  BY DEF AskedForOnce
<1>1. IsFiniteSet(A) /\ IsFiniteSet(B)
  <2>1. IsFiniteSet(Ids) /\ IsFiniteSet(DOMAIN waiting)
    <3>1. /\ Len(channels) \in Nat /\ Ids = 1 .. Len(channels)
          /\ Len(waiting) \in Nat /\ DOMAIN waiting = 1 .. Len(waiting)
      BY Places
    <3>2. IsFiniteSet(1 .. Len(channels)) /\ IsFiniteSet(1 .. Len(waiting))
      <4>1. \A n \in Nat : IsFiniteSet(1 .. n)
        BY FS_Interval
      <4> QED BY <3>1, <4>1
    <3> QED BY <3>1, <3>2
  <2> QED BY <2>1, FS_Subset
<1>2. /\ Cardinality(A) \in Nat /\ (Cardinality(A) = 0 <=> A = {})
      /\ Cardinality(B) \in Nat /\ (Cardinality(B) = 0 <=> B = {})
  BY <1>1, FS_CardinalityType, FS_EmptySet
<1>3. (HasChannel(p) <=> A # {}) /\ (Listed(p) <=> B # {})
  BY DEF HasChannel, Listed
<1>4. ASSUME p \notin Once PROVE Cardinality(A) + Cardinality(B) >= 1
  <2>1. A # {} \/ B # {}
    BY <1>3, <1>4 DEF Front, NoneForgotten
  <2> QED BY <2>1, <1>2
<1>5. ASSUME socket # "fallback" PROVE Cardinality(A) + Cardinality(B) <= 1
  <2>1. p \in Paths
    BY TypeParts
  <2>2. A = {} \/ B = {}
    BY <2>1, <1>3, <1>5 DEF Front, NoneTwice
  <2>3. (\A x, y \in A : x = y) /\ (\A x, y \in B : x = y)
    BY <1>5 DEF Front, NoneTwice
  <2>4. Cardinality(A) \in {0, 1} /\ Cardinality(B) \in {0, 1}
    BY <2>3, AtMostOne
  <2> QED BY <2>2, <2>4, <1>2
<1> QED BY <1>4, <1>5

\* A service that was asked for is never forgotten, and while the socket is used there is
\* one channel for it or one listener that will open it, whatever was closed in between.
THEOREM ServicesAskedForOnce == Spec => []AskedForOnce
BY FrontInvariant, FrontAsksOnce, PTL

-----------------------------------------------------------------------------
(* Both sides of a connection *)

Said == SetOf(down)
IsServed(i) == [id |-> i, path |-> channels[i].path] \in session.served

\* A connection that is gone has no messages on their way to the backend, which serves
\* nothing; requests are for the fallback.
Modes ==
    /\ socket = "connecting" => session = NoSession /\ down = <<>>
    /\ socket = "open" => session.status # "none"
    /\ socket # "fallback" => posts = {}
    /\ session.up # <<>> => socket = "open" /\ session.status = "open"
    /\ session.served # {} => session.status = "open"
    /\ session.status = "closed" => socket = "open"

\* Of a channel there is one message on its way, and only while it waits for an answer or
\* has just been closed.
AllSent ==
    \A m \in Sent :
       /\ m.kind = "open" => /\ channels[m.id].status = "opening" /\ channels[m.id].path = m.path
                             /\ \A c \in session.served : c.id # m.id
       /\ m.kind = "close" => channels[m.id].status = "closed"
       /\ \A n \in Sent : m.id = n.id => m = n
       /\ \A r \in Said : r.id # m.id

AllSaid ==
    \A r \in Said :
       /\ channels[r.id].status = "opening"
       /\ r.kind = "ready" => IsServed(r.id) \/ Lost
       /\ r.kind = "close" => \A c \in session.served : c.id # r.id
       /\ \A q \in Said : q.id = r.id => q = r

AllServed ==
    \A c \in session.served :
       /\ channels[c.id].path = c.path
       /\ channels[c.id].status = "closed" => ClosingOf(c.id) \in Sent
       /\ channels[c.id].status = "opening" => [kind |-> "ready", id |-> c.id] \in Said

AllAnswered ==
    \A i \in Ids :
       /\ channels[i].status = "ready" => IsServed(i) \/ Lost
       /\ channels[i].status = "opening" => \/ \E m \in Sent : m.id = i
                                            \/ \E r \in Said : r.id = i
                                            \/ Lost

Talk == AllSent /\ AllSaid /\ AllServed /\ AllAnswered

\* Messages on their way differ.
Queues == Different(session.up) /\ Different(down)

Agreement == Modes /\ (losses = 0 => Talk /\ Queues)

LEMMA AgreementAtFirst == ASSUME Init PROVE Agreement
BY DEF Init, Agreement, Modes, Talk, AllSent, AllSaid, AllServed, AllAnswered, Queues, Said, Sent, SetOf,
       NoSession, Different, Ids

\* Messages and answers are about channels there are.
LEMMA MessageTypes ==
    ASSUME TypeOK
    PROVE  /\ \A m \in Sent : m \in Messages /\ m.id \in Ids /\ m.kind \in {"open", "close"}
           /\ \A r \in Said : r.id \in Ids /\ r.kind \in {"ready", "close"} /\ r = [kind |-> r.kind, id |-> r.id]
           /\ \A c \in session.served : c.id \in Ids /\ c = [id |-> c.id, path |-> c.path]
<1>1. \A m \in Sent : m \in Messages
  BY TypeParts, Places DEF Sent
<1>2. \A m \in Messages : m.id \in Ids /\ m.kind \in {"open", "close"}
  BY DEF Messages
<1>3. \A r \in Said : r \in ReplyType
  BY Places DEF Said, SetOf
<1>4. \A c \in session.served : c \in ServedType
  BY Places
<1>5. \A r \in ReplyType : r.id \in Ids /\ r.kind \in {"ready", "close"} /\ r = [kind |-> r.kind, id |-> r.id]
  BY DEF ReplyType
<1>6. \A c \in ServedType : c.id \in Ids /\ c = [id |-> c.id, path |-> c.path]
  BY DEF ServedType
<1> QED BY <1>1, <1>2, <1>3, <1>4, <1>5, <1>6

\* What the frontend does to the talk: it takes answers in, closes channels and opens others.
Turn(in, closed, after, paths) ==
    /\ in \subseteq Said /\ closed \subseteq Ids
    /\ Said' = Said \ in
    /\ session'.served = session.served /\ (Lost' <=> Lost)
    /\ Extended(Len(channels), after, paths)
    /\ \A i \in closed : channels[i].status = "ready" /\ after[i].status = "closed"
    /\ \A r \in in : after[r.id].status = IF r.kind = "ready" THEN "ready" ELSE "closed"
    /\ \A i \in Ids : /\ after[i].path = channels[i].path
                      /\ i \notin closed /\ (\A r \in in : r.id # i) => after[i].status = channels[i].status
    /\ Sent' = IF Lost THEN {} ELSE Sent \cup {ClosingOf(i) : i \in closed} \cup Openings(paths)

LEMMA TurnKeeps ==
    ASSUME TypeOK, Modes, Talk, NEW in, NEW closed, NEW after, NEW paths, Turn(in, closed, after, paths)
    PROVE  Talk'
<1> SUFFICES ASSUME NEW n, n = Len(channels), NEW new, new = Openings(paths),
                    NEW off, off = {ClosingOf(i) : i \in closed}
             PROVE  Talk'
  OBVIOUS
<1>1. /\ in \subseteq Said /\ closed \subseteq Ids /\ Said' = Said \ in
      /\ session'.served = session.served /\ (Lost' <=> Lost)
      /\ Sent' = IF Lost THEN {} ELSE Sent \cup off \cup new
      /\ Extended(n, after, paths)
  BY DEF Turn
<1>2. /\ \A m \in Sent : m \in Messages /\ m.id \in Ids /\ m.kind \in {"open", "close"}
      /\ \A r \in Said : r.id \in Ids /\ r.kind \in {"ready", "close"} /\ r = [kind |-> r.kind, id |-> r.id]
      /\ \A c \in session.served : c.id \in Ids /\ c = [id |-> c.id, path |-> c.path]
  BY MessageTypes
<1>3. \A i \in Ids : channels'[i].path = channels[i].path
  BY <1>1 DEF Turn, Extended
<1>4. /\ \A i \in closed : channels[i].status = "ready" /\ channels'[i].status = "closed"
      /\ \A r \in in : channels'[r.id].status = IF r.kind = "ready" THEN "ready" ELSE "closed"
      /\ \A i \in Ids : i \notin closed /\ (\A r \in in : r.id # i) => channels'[i].status = channels[i].status
  BY <1>1, <1>2 DEF Turn, Extended
<1>5. \A m \in new : /\ m.kind = "open" /\ m.id \in Ids' /\ m.id \notin Ids
                     /\ channels'[m.id].status = "opening" /\ channels'[m.id].path = m.path
                     /\ \A k \in new : m.id = k.id => m = k
  <2>1. \A m \in new : \E j \in DOMAIN paths : m = [kind |-> "open", id |-> n + j, path |-> paths[j]]
    BY DEF Openings
  <2> SUFFICES ASSUME NEW m \in new
               PROVE  /\ m.kind = "open" /\ m.id \in Ids' /\ m.id \notin Ids
                      /\ channels'[m.id].status = "opening" /\ channels'[m.id].path = m.path
                      /\ \A k \in new : m.id = k.id => m = k
    OBVIOUS
  <2>2. PICK j \in DOMAIN paths : m = [kind |-> "open", id |-> n + j, path |-> paths[j]]
    BY <2>1
  <2>3. m.kind = "open" /\ m.id = n + j /\ m.path = paths[j]
    BY <2>2
  <2>4. /\ m.id \in Ids' /\ m.id \notin Ids
        /\ channels'[m.id].status = "opening" /\ channels'[m.id].path = m.path
    BY <2>3, <1>1 DEF Extended
  <2>5. ASSUME NEW k \in new, m.id = k.id PROVE m = k
    <3>1. PICK l \in DOMAIN paths : k = [kind |-> "open", id |-> n + l, path |-> paths[l]]
      BY <2>1
    <3>2. k.id = n + l /\ k.path = paths[l] /\ k.kind = "open"
      BY <3>1
    <3>3. k.path = channels'[k.id].path
      BY <3>2, <1>1 DEF Extended
    <3>4. n + l = n + j /\ paths[l] = paths[j]
      BY <3>2, <3>3, <2>3, <2>4, <2>5
    <3> QED BY <3>1, <3>4, <2>2
  <2> QED BY <2>3, <2>4, <2>5
<1>6. \A i \in Ids' : i \notin Ids => /\ channels'[i].status = "opening"
                                      /\ \E m \in new : m.id = i
  <2> SUFFICES ASSUME NEW i \in Ids', i \notin Ids
               PROVE  channels'[i].status = "opening" /\ \E m \in new : m.id = i
    OBVIOUS
  <2>1. PICK j \in DOMAIN paths : i = n + j /\ channels'[i].status = "opening"
    BY <1>1 DEF Extended
  <2>2. [kind |-> "open", id |-> n + j, path |-> paths[j]] \in new
    BY DEF Openings
  <2>3. [kind |-> "open", id |-> n + j, path |-> paths[j]].id = i
    BY <2>1
  <2> QED BY <2>1, <2>2, <2>3
<1>7. \A m \in off : m.kind = "close" /\ m.id \in closed /\ m = ClosingOf(m.id)
  BY DEF ClosingOf
<1>8. \A i \in closed : ClosingOf(i) \in off
  OBVIOUS
<1>9. \A i \in Ids : IsServed(i)' <=> IsServed(i)
  BY <1>1, <1>3 DEF IsServed
<1> HIDE DEF Lost
<1>10. AllSent'
  <2> SUFFICES ASSUME ~Lost, NEW m \in Sent \cup off \cup new
               PROVE  /\ m.kind = "open" => /\ channels'[m.id].status = "opening" /\ channels'[m.id].path = m.path
                                            /\ \A c \in session.served : c.id # m.id
                      /\ m.kind = "close" => channels'[m.id].status = "closed"
                      /\ \A k \in Sent \cup off \cup new : m.id = k.id => m = k
                      /\ \A r \in Said \ in : r.id # m.id
    BY <1>1 DEF AllSent
  <2>1. CASE m \in Sent
    <3>1. \A r \in Said : r.id # m.id
      BY <2>1 DEF Talk, AllSent
    <3>2. m.id \notin closed
      BY <2>1, <1>2, <1>4 DEF Talk, AllSent
    <3>3. channels'[m.id].status = channels[m.id].status
      BY <2>1, <3>1, <3>2, <1>1, <1>2, <1>4
    <3>4. \A k \in off \cup new : m.id # k.id
      BY <2>1, <3>2, <1>2, <1>5, <1>7
    <3> QED BY <2>1, <3>1, <3>3, <3>4, <1>2, <1>3 DEF Talk, AllSent
  <2>2. CASE m \in off
    <3>1. m.id \in closed /\ m.id \in Ids /\ channels[m.id].status = "ready"
      BY <2>2, <1>1, <1>4, <1>7
    <3>2. \A r \in Said : r.id # m.id
      BY <3>1 DEF Talk, AllSaid
    <3>3. \A k \in Sent : m.id # k.id
      BY <3>1, <1>2 DEF Talk, AllSent
    <3>4. \A k \in new : m.id # k.id
      BY <3>1, <1>5
    <3>5. \A k \in off : m.id = k.id => m = k
      BY <2>2, <1>7
    <3> QED BY <2>2, <3>1, <3>2, <3>3, <3>4, <3>5, <1>4, <1>7
  <2>3. CASE m \in new
    <3>1. \A k \in Sent \cup off : m.id # k.id
      BY <2>3, <1>1, <1>2, <1>5, <1>7
    <3> QED BY <2>3, <3>1, <1>2, <1>5
  <2> QED BY <2>1, <2>2, <2>3
<1>11. AllSaid'
  <2> SUFFICES ASSUME NEW r \in Said, r \notin in
               PROVE  /\ channels'[r.id].status = "opening"
                      /\ r.kind = "ready" => IsServed(r.id)' \/ Lost
                      /\ r.kind = "close" => \A c \in session.served : c.id # r.id
                      /\ \A q \in Said \ in : q.id = r.id => q = r
    BY <1>1 DEF AllSaid
  <2>1. r.id \notin closed /\ \A q \in in : q.id # r.id
    BY <1>1, <1>4 DEF Talk, AllSaid
  <2>2. channels'[r.id].status = channels[r.id].status
    BY <2>1, <1>2, <1>4
  <2> QED BY <2>2, <1>2, <1>9 DEF Talk, AllSaid
<1>12. AllServed'
  <2> SUFFICES ASSUME NEW c \in session.served
               PROVE  /\ channels'[c.id].path = c.path
                      /\ channels'[c.id].status = "closed" => ClosingOf(c.id) \in Sent'
                      /\ channels'[c.id].status = "opening" => [kind |-> "ready", id |-> c.id] \in Said \ in
    BY <1>1 DEF AllServed
  <2>1. ~Lost
    BY DEF Lost, Modes
  <2>2. CASE c.id \in closed
    BY <2>1, <2>2, <1>1, <1>2, <1>3, <1>4, <1>8 DEF Talk, AllServed
  <2>3. CASE \E r \in in : r.id = c.id
    <3>1. PICK r \in in : r.id = c.id
      BY <2>3
    <3>2. r.kind = "ready"
      BY <3>1, <1>1, <1>2 DEF Talk, AllSaid
    <3> QED BY <3>1, <3>2, <1>2, <1>3, <1>4 DEF Talk, AllServed
  <2>4. CASE c.id \notin closed /\ \A r \in in : r.id # c.id
    <3>1. channels'[c.id].status = channels[c.id].status
      BY <2>4, <1>2, <1>4
    <3>2. channels[c.id].status = "opening" => [kind |-> "ready", id |-> c.id] \in Said \ in
      BY <2>4 DEF Talk, AllServed
    <3> QED BY <2>1, <3>1, <3>2, <1>1, <1>2, <1>3 DEF Talk, AllServed
  <2> QED BY <2>2, <2>3, <2>4
<1>13. AllAnswered'
  <2> SUFFICES ASSUME NEW i \in Ids', ~Lost
               PROVE  /\ channels'[i].status = "ready" => IsServed(i)'
                      /\ channels'[i].status = "opening" => \/ \E m \in Sent \cup off \cup new : m.id = i
                                                            \/ \E r \in Said \ in : r.id = i
    BY <1>1 DEF AllAnswered
  <2>1. CASE i \notin Ids
    BY <2>1, <1>6
  <2>2. CASE i \in closed
    BY <2>2, <1>4
  <2>3. CASE \E r \in in : r.id = i
    <3>1. PICK r \in in : r.id = i
      BY <2>3
    <3>2. r.kind = "ready" => IsServed(i)
      BY <3>1, <1>1 DEF Talk, AllSaid
    <3> QED BY <3>1, <3>2, <1>1, <1>2, <1>4, <1>9
  <2>4. CASE i \in Ids /\ i \notin closed /\ \A r \in in : r.id # i
    <3>1. channels'[i].status = channels[i].status
      BY <2>4, <1>4
    <3> QED BY <2>4, <3>1, <1>9 DEF Talk, AllAnswered
  <2> QED BY <2>1, <2>2, <2>3, <2>4
<1> QED BY <1>10, <1>11, <1>12, <1>13 DEF Talk

\* What was sent is told apart from what opens channels.
LEMMA OpeningsAreNew ==
    ASSUME TypeOK, NEW after, NEW paths, Extends(after, paths)
    PROVE  \A m \in Openings(paths) : m \notin Sent /\ m.kind = "open" /\ m.id \notin Ids
<1> SUFFICES ASSUME NEW n, n = Len(channels),
                    NEW new, new = {[kind |-> "open", id |-> n + j, path |-> paths[j]] : j \in DOMAIN paths}
             PROVE  \A m \in new : m \notin Sent /\ m.kind = "open" /\ m.id \notin Ids
  BY DEF Openings
<1>1. \A j \in DOMAIN paths : n + j \notin Ids
  BY ExtendsFields DEF Extended
<1>2. \A m \in new : m.kind = "open" /\ m.id \notin Ids
  BY <1>1
<1> QED BY <1>2, MessageTypes

\* After a step of the frontend the messages it has sent are those from before and its new ones.
LEMMA OpensSent ==
    ASSUME TypeOK, Modes, socket # "connecting", socket' = socket,
           NEW others, NEW after, NEW paths, Opens(others, after, paths)
    PROVE  /\ Sent' = IF Lost THEN {} ELSE Sent \cup others \cup Openings(paths)
           /\ session'.served = session.served /\ (Lost' <=> Lost)
           /\ Modes'
           /\ Different(session.up) /\ (\A m \in others : m \notin Sent) => Different(session'.up)
<1>1. PICK msgs : Sends(msgs) /\ SetOf(msgs) = others \cup Openings(paths) /\ Different(msgs)
  BY DEF Opens
<1>2. session'.served = session.served /\ session'.status = session.status
  BY <1>1 DEF Sends
<1>3. Extends(after, paths)
  BY DEF Opens
<1>4. \A m \in Openings(paths) : m \notin Sent
  BY <1>3, OpeningsAreNew
<1>5. socket \in {"open", "fallback"} /\ session.status \in {"none", "open", "closed"}
  BY TypeParts, Places
<1> HIDE DEF Openings
<1>6. CASE socket = "fallback"
  <2>1. posts' = posts \cup SetOf(msgs) /\ session' = session
    BY <1>1, <1>6 DEF Sends
  <2>2. ~Lost /\ session.up = <<>> /\ Different(session'.up)
    BY <1>6, <2>1 DEF Lost, Modes, Different
  <2>3. Sent' = Sent \cup others \cup Openings(paths)
    BY <1>1, <1>6, <2>1 DEF Sent
  <2>4. Modes'
    BY <1>6, <2>1 DEF Modes
  <2> QED BY <1>2, <2>2, <2>3, <2>4 DEF Lost
<1>7. CASE socket = "open" /\ session.status = "open"
  <2>1. posts' = posts /\ Joined(session.up, msgs, session'.up)
    BY <1>1, <1>7 DEF Sends
  <2>2. SetOf(session'.up) = SetOf(session.up) \cup SetOf(msgs)
    BY <2>1, JoinedSet
  <2>3. Sent' = SetOf(session'.up) /\ Sent = SetOf(session.up)
    BY <1>7 DEF Sent, SetOf
  <2>4. Sent' = Sent \cup others \cup Openings(paths)
    BY <1>1, <2>2, <2>3
  <2>5. Modes'
    BY <1>2, <1>7, <2>1 DEF Modes
  <2>6. ASSUME Different(session.up), \A m \in others : m \notin Sent
        PROVE  Different(session'.up)
    <3>1. \A j \in DOMAIN msgs : msgs[j] \notin Sent
      BY <1>1, <1>4, <2>6 DEF SetOf
    <3>2. \A i \in DOMAIN session.up : session.up[i] \in Sent
      BY <2>3 DEF SetOf
    <3> QED BY <1>1, <2>1, <2>6, <3>1, <3>2, JoinedDifferent
  <2> QED BY <1>2, <1>7, <2>4, <2>5, <2>6 DEF Lost
<1>8. CASE socket = "open" /\ session.status # "open"
  <2>1. posts' = posts /\ session' = session
    BY <1>1, <1>8 DEF Sends
  <2>2. Lost /\ session.up = <<>> /\ Different(session'.up)
    BY <1>5, <1>8, <2>1 DEF Lost, Modes, Different
  <2>3. Sent' = {}
    BY <1>8, <2>1, <2>2 DEF Sent
  <2>4. Modes'
    BY <1>8, <2>1, <2>2 DEF Modes
  <2> QED BY <1>2, <2>2, <2>3, <2>4 DEF Lost
<1> QED BY <1>5, <1>6, <1>7, <1>8

\* A step of the frontend is a turn.
LEMMA OpensTurn ==
    ASSUME TypeOK, Modes, socket # "connecting", socket' = socket,
           NEW in, in \subseteq Said, Said' = Said \ in,
           NEW closed, closed \subseteq Ids,
           NEW after, NEW paths, Opens({ClosingOf(i) : i \in closed}, after, paths),
           \A i \in closed : channels[i].status = "ready" /\ after[i].status = "closed",
           \A r \in in : after[r.id].status = IF r.kind = "ready" THEN "ready" ELSE "closed",
           \A i \in Ids : /\ after[i].path = channels[i].path
                          /\ i \notin closed /\ (\A r \in in : r.id # i) => after[i].status = channels[i].status
    PROVE  Turn(in, closed, after, paths)
<1>1. Extended(Len(channels), after, paths)
  BY ExtendsFields DEF Opens
<1>2. /\ Sent' = IF Lost THEN {} ELSE Sent \cup {ClosingOf(i) : i \in closed} \cup Openings(paths)
      /\ session'.served = session.served /\ (Lost' <=> Lost)
  BY OpensSent
<1> QED BY <1>1, <1>2 DEF Turn

LEMMA AgreementStays ==
    ASSUME Agreement, UNCHANGED <<socket, channels, session, down, posts, losses>>
    PROVE  Agreement'
<1>1. Said' = Said /\ Sent' = Sent /\ Ids' = Ids
  BY DEF Said, Sent, Ids, SetOf
<1>2. Modes' /\ (Queues => Queues')
  BY DEF Agreement, Modes, Queues, Different
<1>3. AllSent => AllSent'
  BY <1>1 DEF AllSent
<1>4. AllSaid => AllSaid'
  BY <1>1 DEF AllSaid, IsServed, Lost
<1>5. AllServed => AllServed'
  BY <1>1 DEF AllServed, ClosingOf
<1>6. AllAnswered => AllAnswered'
  BY <1>1 DEF AllAnswered, IsServed, Lost
<1> QED BY <1>2, <1>3, <1>4, <1>5, <1>6 DEF Agreement, Talk

LEMMA RequestAgrees ==
    ASSUME TypeOK, Agreement, NEW p \in Paths, Request(p)
    PROVE  Agreement'
<1>1. socket' = socket /\ down' = down /\ losses' = losses
  BY DEF Request, counts
<1>2. CASE socket = "connecting"
  <2>1. UNCHANGED <<channels, session, posts>>
    BY <1>2, RequestTyped
  <2> QED BY <1>1, <2>1, AgreementStays
<1>3. CASE socket # "connecting"
  <2>1. Opens({}, channels, <<p>>)
    BY <1>3, RequestTyped
  <2>2. Modes' /\ (Different(session.up) => Different(session'.up))
    BY <1>1, <1>3, <2>1, OpensSent DEF Agreement
  <2>3. ASSUME Talk PROVE Talk'
    <3>1. Said' = Said \ {}
      BY <1>1 DEF Said, SetOf
    <3>2. {ClosingOf(i) : i \in {}} = {}
      OBVIOUS
    <3>3. Turn({}, {}, channels, <<p>>)
      BY <1>1, <1>3, <2>1, <3>1, <3>2, OpensTurn DEF Agreement
    <3> QED BY <2>3, <3>3, TurnKeeps DEF Agreement
  <2> QED BY <1>1, <2>2, <2>3 DEF Agreement, Queues, Different
<1> QED BY <1>2, <1>3

LEMMA FrontClosesAgrees ==
    ASSUME TypeOK, Front, Agreement, NEW i \in Ids, FrontCloses(i)
    PROVE  Agreement'
<1>1. /\ channels[i].status = "ready"
      /\ UNCHANGED <<socket, down, losses>>
  BY FrontClosesTyped
<1>2. PICK after, again :
         /\ Opens({ClosingOf(i)}, after, again) /\ Lists(again, Asking({i}))
         /\ \A k \in Ids : /\ after[k].path = channels[k].path
                           /\ after[k].status = IF k = i THEN "closed" ELSE channels[k].status
  BY FrontClosesTyped
<1>3. socket # "connecting"
  BY <1>1 DEF Front, Connected, Live
<1>4. {ClosingOf(k) : k \in {i}} = {ClosingOf(i)}
  OBVIOUS
<1>5. Modes' /\ (Different(session.up) /\ ClosingOf(i) \notin Sent => Different(session'.up))
  BY <1>1, <1>2, <1>3, OpensSent DEF Agreement
<1>6. ASSUME Talk PROVE Talk'
  <2>1. Said' = Said \ {}
    BY <1>1 DEF Said, SetOf
  <2>2. Turn({}, {i}, after, again)
    BY <1>1, <1>2, <1>3, <1>4, <2>1, OpensTurn DEF Agreement
  <2> QED BY <1>6, <2>2, TurnKeeps DEF Agreement
<1>7. Talk => ClosingOf(i) \notin Sent
  BY <1>1 DEF Talk, AllSent, ClosingOf
<1> QED BY <1>1, <1>5, <1>6, <1>7 DEF Agreement, Queues, Different

\* The frontend takes in some of what it was told.
LEMMA HandledAgrees ==
    ASSUME TypeOK, Agreement, socket # "connecting", socket' = socket, losses' = losses,
           NEW msgs \in Seq(ReplyType), Handled(msgs),
           NEW in, in = SetOf(msgs), in \subseteq Said,
           Queues => Said' = Said \ in /\ Different(down')
    PROVE  Agreement'
<1> SUFFICES ASSUME NEW gone, gone = Got(msgs, "close"),
                    NEW got, got = Got(msgs, "ready")
             PROVE  Agreement'
  OBVIOUS
<1>1. PICK after, again :
        /\ Opens({}, after, again)
        /\ \A i \in Ids :
              /\ after[i].path = channels[i].path
              /\ after[i].status = IF Live(i) /\ i \in gone THEN "closed"
                                   ELSE IF Live(i) /\ i \in got THEN "ready"
                                   ELSE channels[i].status
  BY DEF Handled
<1>2. /\ \A i : i \in gone <=> \E r \in in : r.kind = "close" /\ r.id = i
      /\ \A i : i \in got <=> \E r \in in : r.kind = "ready" /\ r.id = i
  BY DEF Got, SetOf
<1>3. Modes' /\ (Different(session.up) => Different(session'.up))
  BY <1>1, OpensSent DEF Agreement
<1>4. ASSUME Talk, Queues PROVE Talk'
  <2>1. \A r \in in : r.id \in Ids /\ r.kind \in {"ready", "close"}
    BY MessageTypes
  <2>2. \A r \in in : Live(r.id) /\ \A q \in in : q.id = r.id => q = r
    BY <1>4 DEF Talk, AllSaid, Live
  <2>3. \A r \in in : after[r.id].status = IF r.kind = "ready" THEN "ready" ELSE "closed"
    <3> SUFFICES ASSUME NEW r \in in
                 PROVE  after[r.id].status = IF r.kind = "ready" THEN "ready" ELSE "closed"
      OBVIOUS
    <3>1. CASE r.kind = "close"
      BY <3>1, <1>1, <1>2, <2>1, <2>2
    <3>2. CASE r.kind = "ready"
      <4>1. r.id \notin gone /\ r.id \in got
        BY <3>2, <1>2, <2>2
      <4> QED BY <3>2, <4>1, <1>1, <2>1, <2>2
    <3> QED BY <3>1, <3>2, <2>1
  <2>4. \A i \in Ids : (\A r \in in : r.id # i) => after[i].status = channels[i].status
    BY <1>1, <1>2
  <2>5. {ClosingOf(k) : k \in {}} = {}
    OBVIOUS
  <2>6. Said' = Said \ in
    BY <1>4
  <2> HIDE DEF Said, Lost
  <2>7. Turn(in, {}, after, again)
    BY <1>1, <2>3, <2>4, <2>5, <2>6, OpensTurn DEF Agreement
  <2> QED BY <1>4, <2>7, TurnKeeps DEF Agreement
<1> QED BY <1>3, <1>4 DEF Agreement, Queues

LEMMA FrontReceivesAgrees == ASSUME TypeOK, Agreement, FrontReceives PROVE Agreement'
<1> SUFFICES ASSUME NEW r, r = Head(down), NEW msgs, msgs = <<r>> PROVE Agreement'
  OBVIOUS
<1>1. /\ Handled(msgs) /\ Shortened(down, down') /\ r = down[1]
      /\ UNCHANGED <<socket, losses>> /\ socket = "open"
  BY FrontReceivesTyped
<1>2. 1 \in DOMAIN down
  BY <1>1 DEF Shortened
<1>3. r \in ReplyType /\ r \in Said
  BY <1>1, <1>2, Places DEF Said, SetOf
<1>4. msgs \in Seq(ReplyType) /\ SetOf(msgs) = {r}
  BY <1>3 DEF SetOf
<1>5. Queues => Said' = Said \ {r} /\ Different(down')
  BY <1>1, ShortenedSet DEF Queues, Said
<1> QED BY <1>1, <1>3, <1>4, <1>5, HandledAgrees

LEMMA PollAgrees == ASSUME TypeOK, Agreement, Poll PROVE Agreement'
<1>1. Handled(down) /\ down' = <<>> /\ UNCHANGED <<socket, losses>> /\ socket = "fallback"
  BY PollTyped
<1>2. down \in Seq(ReplyType) /\ SetOf(down) = Said
  BY TypeParts DEF Said
<1>3. Said' = {} /\ Different(down')
  BY <1>1 DEF Said, SetOf, Different
<1> QED BY <1>1, <1>2, <1>3, HandledAgrees

LEMMA SocketOpensAgrees == ASSUME TypeOK, Agreement, SocketOpens PROVE Agreement'
<1>1. /\ socket = "connecting" /\ socket' = "open"
      /\ UNCHANGED <<down, posts, losses>>
  BY DEF SocketOpens, counts
<1>2. /\ Extends(channels, waiting)
      /\ SetOf(session'.up) = Openings(waiting) /\ Different(session'.up)
      /\ session'.status = "open" /\ session'.served = {}
  BY SocketOpensTyped
<1>3. session = NoSession /\ down = <<>> /\ posts = {}
  BY <1>1 DEF Agreement, Modes
<1>4. session.served = {} /\ ~Lost /\ ~Lost' /\ Sent = {}
  BY <1>1, <1>2, <1>3 DEF NoSession, Lost, Sent
<1>5. Sent' = Openings(waiting)
  BY <1>1, <1>2 DEF Sent, SetOf
<1>6. Modes'
  BY <1>1, <1>2, <1>3 DEF Modes
<1>7. Queues'
  BY <1>1, <1>2, <1>3 DEF Queues, Different
<1>8. Extended(Len(channels), channels, waiting)
  BY <1>2, ExtendsFields
<1>9. Said = {} /\ Said' = {}
  BY <1>1, <1>3 DEF Said, SetOf
<1> HIDE DEF Said, Lost
<1>10. Turn({}, {}, channels, waiting)
  BY <1>2, <1>4, <1>5, <1>8, <1>9 DEF Turn
<1> QED BY <1>1, <1>6, <1>7, <1>10, TurnKeeps DEF Agreement

\* A connection is gone with all that was said, and with it every channel; others may be opened.
LEMMA FreshStart ==
    ASSUME TypeOK, session' = NoSession, down' = <<>>,
           NEW paths, Extends(AllClosed, paths), Sent' = Openings(paths)
    PROVE  Talk' /\ Queues'
<1> SUFFICES ASSUME NEW n, n = Len(channels), NEW new, new = Openings(paths)
             PROVE  Talk' /\ Queues'
  OBVIOUS
<1>1. Extended(n, AllClosed, paths)
  BY ExtendsFields
<1>2. \A i \in Ids : channels'[i].status = "closed"
  BY <1>1, AllClosedTyped DEF Extended
<1>3. \A m \in new : \E j \in DOMAIN paths : m = [kind |-> "open", id |-> n + j, path |-> paths[j]]
  BY DEF Openings
<1>4. \A j \in DOMAIN paths : [kind |-> "open", id |-> n + j, path |-> paths[j]] \in new
  BY DEF Openings
<1>5. Said' = {} /\ session'.served = {} /\ ~Lost' /\ Sent' = new
  BY DEF Said, SetOf, NoSession, Lost
<1>6. \A m \in new : /\ m.kind = "open"
                     /\ channels'[m.id].status = "opening" /\ channels'[m.id].path = m.path
                     /\ \A k \in new : m.id = k.id => m = k
  <2> SUFFICES ASSUME NEW m \in new
               PROVE  /\ m.kind = "open"
                      /\ channels'[m.id].status = "opening" /\ channels'[m.id].path = m.path
                      /\ \A k \in new : m.id = k.id => m = k
    OBVIOUS
  <2>1. PICK j \in DOMAIN paths : m = [kind |-> "open", id |-> n + j, path |-> paths[j]]
    BY <1>3
  <2>2. m.kind = "open" /\ m.id = n + j /\ m.path = paths[j]
    BY <2>1
  <2>3. channels'[m.id].status = "opening" /\ channels'[m.id].path = m.path
    BY <2>2, <1>1 DEF Extended
  <2>4. ASSUME NEW k \in new, m.id = k.id PROVE m = k
    <3>1. PICK l \in DOMAIN paths : k = [kind |-> "open", id |-> n + l, path |-> paths[l]]
      BY <1>3
    <3>2. k.id = n + l /\ k.path = paths[l]
      BY <3>1
    <3>3. k.path = channels'[k.id].path
      BY <3>2, <1>1 DEF Extended
    <3>4. n + l = n + j /\ paths[l] = paths[j]
      BY <3>2, <3>3, <2>2, <2>3, <2>4
    <3> QED BY <3>1, <3>4, <2>1
  <2> QED BY <2>2, <2>3, <2>4
<1>7. AllSent'
  BY <1>5, <1>6 DEF AllSent
<1>8. AllSaid' /\ AllServed'
  BY <1>5 DEF AllSaid, AllServed
<1>9. AllAnswered'
  <2> SUFFICES ASSUME NEW i \in Ids'
               PROVE  /\ channels'[i].status = "ready" => IsServed(i)' \/ Lost'
                      /\ channels'[i].status = "opening" => \E m \in new : m.id = i
    BY <1>5 DEF AllAnswered
  <2>1. CASE i \in Ids
    BY <2>1, <1>2
  <2>2. CASE i \notin Ids
    <3>1. PICK j \in DOMAIN paths : i = n + j /\ channels'[i].status = "opening"
      BY <2>2, <1>1 DEF Extended
    <3>2. [kind |-> "open", id |-> n + j, path |-> paths[j]].id = i
      BY <3>1
    <3> QED BY <1>4, <3>1, <3>2
  <2> QED BY <2>1, <2>2
<1>10. Queues'
  BY DEF Queues, Different, NoSession
<1> QED BY <1>7, <1>8, <1>9, <1>10 DEF Talk

LEMMA SocketDownAgrees ==
    ASSUME TypeOK, Agreement, NEW error \in BOOLEAN, SocketDown(error)
    PROVE  Agreement'
<1>1. session' = NoSession /\ down' = <<>> /\ losses' = losses /\ socket # "fallback"
  BY SocketDownTyped
<1>2. posts = {}
  BY <1>1 DEF Agreement, Modes
<1>3. \/ /\ socket' = "fallback"
         /\ Extends(AllClosed, activators') /\ posts' = Openings(activators')
      \/ socket' = "connecting" /\ Extends(AllClosed, <<>>) /\ posts' = posts
  BY SocketDownTyped
<1>4. CASE socket' = "fallback" /\ Extends(AllClosed, activators') /\ posts' = Openings(activators')
  <2>1. Sent' = Openings(activators')
    BY <1>4 DEF Sent
  <2> QED BY <1>1, <1>4, <2>1, FreshStart DEF Agreement, Modes, NoSession
<1>5. CASE socket' = "connecting" /\ Extends(AllClosed, <<>>) /\ posts' = posts
  <2>1. Sent' = Openings(<<>>)
    BY <1>1, <1>5 DEF Sent, Openings, NoSession
  <2> QED BY <1>1, <1>2, <1>5, <2>1, FreshStart DEF Agreement, Modes, NoSession
<1> QED BY <1>3, <1>4, <1>5

\* The backend takes a message in and answers it.
LEMMA ServesAgrees ==
    ASSUME TypeOK, Modes, Talk, ~Lost, ~Lost', Different(down), UNCHANGED front,
           NEW msg \in Sent, Sent' = Sent \ {msg}, Serves(session.served, msg)
    PROVE  Talk' /\ Different(down')
<1> SUFFICES ASSUME NEW c, c = [id |-> msg.id, path |-> msg.path],
                    NEW served, served = session.served,
                    NEW after, after = session'.served
             PROVE  Talk' /\ Different(down')
  OBVIOUS
<1>1. channels' = channels /\ Ids' = Ids
  BY DEF front, Ids
<1>2. /\ \A m \in Sent : m \in Messages /\ m.id \in Ids /\ m.kind \in {"open", "close"}
      /\ \A r \in Said : r.id \in Ids /\ r.kind \in {"ready", "close"} /\ r = [kind |-> r.kind, id |-> r.id]
      /\ \A d \in served : d.id \in Ids /\ d = [id |-> d.id, path |-> d.path]
  BY MessageTypes
<1>3. \A i : IsServed(i)' <=> [id |-> i, path |-> channels[i].path] \in after
  BY <1>1 DEF IsServed
<1>4. \A i : IsServed(i) <=> [id |-> i, path |-> channels[i].path] \in served
  BY DEF IsServed
<1>5. \A m \in Sent : m # msg => m.id # msg.id
  BY DEF Talk, AllSent
<1>6. \A r \in Said : r.id # msg.id
  BY DEF Talk, AllSent
<1>7. c.id = msg.id /\ c.path = msg.path
  OBVIOUS
<1>12. \A i : ClosingOf(i).kind = "close" /\ ClosingOf(i).id = i
  BY DEF ClosingOf
<1> HIDE DEF Lost, Said, Sent
<1>8. ASSUME NEW kind \in {"ready", "close"}, Joined(down, <<[kind |-> kind, id |-> msg.id]>>, down')
      PROVE  Said' = Said \cup {[kind |-> kind, id |-> msg.id]} /\ Different(down')
  <2> SUFFICES ASSUME NEW r, r = [kind |-> kind, id |-> msg.id]
               PROVE  Said' = Said \cup {r} /\ Different(down')
    OBVIOUS
  <2>1. Joined(down, <<r>>, down') /\ SetOf(<<r>>) = {r} /\ Different(<<r>>)
    BY <1>8 DEF SetOf, Different
  <2>2. \A j \in DOMAIN down : down[j] # r
    BY <1>6 DEF Said, SetOf
  <2>3. Different(down')
    BY <2>1, <2>2, JoinedDifferent
  <2>4. Said' = Said \cup {r}
    BY <2>1, JoinedSet DEF Said
  <2> QED BY <2>3, <2>4
<1>9. CASE msg.kind = "open" /\ Answers(msg, {"ready"}) /\ after = served \cup {c}
  <2>1. Joined(down, <<[kind |-> "ready", id |-> msg.id]>>, down')
    BY <1>9 DEF Answers
  <2> SUFFICES ASSUME NEW r, r = [kind |-> "ready", id |-> msg.id]
               PROVE  Talk' /\ Different(down')
    OBVIOUS
  <2>2. Said' = Said \cup {r} /\ Different(down') /\ r.id = msg.id /\ r.kind = "ready"
    BY <1>8, <2>1
  <2>3. channels[msg.id].status = "opening" /\ channels[msg.id].path = msg.path /\ \A d \in served : d.id # msg.id
    BY <1>9 DEF Talk, AllSent
  <2>4. IsServed(msg.id)' /\ \A i : IsServed(i) => IsServed(i)'
    BY <1>3, <1>4, <1>9, <2>3
  <2>5. AllSent'
    BY <1>1, <1>2, <1>5, <1>7, <1>9, <2>2 DEF Talk, AllSent
  <2>6. AllSaid'
    BY <1>1, <1>2, <1>6, <1>7, <1>9, <2>2, <2>3, <2>4 DEF Talk, AllSaid
  <2>7. AllServed'
    <3> SUFFICES ASSUME NEW d \in served \cup {c}
                 PROVE  /\ channels[d.id].path = d.path
                        /\ channels[d.id].status = "closed" => ClosingOf(d.id) \in Sent \ {msg}
                        /\ channels[d.id].status = "opening" => [kind |-> "ready", id |-> d.id] \in Said \cup {r}
      BY <1>1, <1>9, <2>2 DEF AllServed
    <3>1. CASE d = c
      BY <3>1, <1>7, <2>3
    <3>2. CASE d \in served
      BY <3>2, <1>9, <1>12 DEF Talk, AllServed
    <3> QED BY <3>1, <3>2
  <2>8. AllAnswered'
    BY <1>1, <1>5, <2>2, <2>4 DEF Talk, AllAnswered
  <2> QED BY <2>2, <2>5, <2>6, <2>7, <2>8 DEF Talk
<1>10. CASE msg.kind = "open" /\ Answers(msg, {"close"}) /\ after = served
  <2>1. Joined(down, <<[kind |-> "close", id |-> msg.id]>>, down')
    BY <1>10 DEF Answers
  <2> SUFFICES ASSUME NEW r, r = [kind |-> "close", id |-> msg.id]
               PROVE  Talk' /\ Different(down')
    OBVIOUS
  <2>2. Said' = Said \cup {r} /\ Different(down') /\ r.id = msg.id /\ r.kind = "close"
    BY <1>8, <2>1
  <2>3. channels[msg.id].status = "opening" /\ \A d \in served : d.id # msg.id
    BY <1>10 DEF Talk, AllSent
  <2>4. \A i : IsServed(i) <=> IsServed(i)'
    BY <1>3, <1>4, <1>10
  <2>5. AllSent'
    BY <1>1, <1>5, <1>10, <2>2 DEF Talk, AllSent
  <2>6. AllSaid'
    BY <1>1, <1>6, <1>10, <2>2, <2>3, <2>4 DEF Talk, AllSaid
  <2>7. AllServed'
    BY <1>1, <1>10, <1>12, <2>2, <2>3 DEF Talk, AllServed
  <2>8. AllAnswered'
    BY <1>1, <1>5, <2>2, <2>4 DEF Talk, AllAnswered
  <2> QED BY <2>2, <2>5, <2>6, <2>7, <2>8 DEF Talk
<1>11. CASE msg.kind = "close" /\ Answers(msg, {}) /\ after = {d \in served : d.id # msg.id}
  <2>1. Said' = Said /\ Different(down')
    BY <1>11 DEF Answers, Said, SetOf, Different
  <2>2. channels[msg.id].status = "closed"
    BY <1>11 DEF Talk, AllSent
  <2>3. \A i : i # msg.id => (IsServed(i) <=> IsServed(i)')
    BY <1>3, <1>4, <1>11
  <2>4. AllSent'
    BY <1>1, <1>5, <1>11, <2>1 DEF Talk, AllSent
  <2>5. AllSaid'
    BY <1>1, <1>6, <1>11, <2>1, <2>3 DEF Talk, AllSaid
  <2>6. AllServed'
    <3> SUFFICES ASSUME NEW d \in served, d.id # msg.id
                 PROVE  /\ channels[d.id].path = d.path
                        /\ channels[d.id].status = "closed" => ClosingOf(d.id) \in Sent \ {msg}
                        /\ channels[d.id].status = "opening" => [kind |-> "ready", id |-> d.id] \in Said
      BY <1>1, <1>11, <2>1 DEF AllServed
    <3> QED BY <1>12 DEF Talk, AllServed
  <2>7. AllAnswered'
    BY <1>1, <1>5, <2>1, <2>2, <2>3 DEF Talk, AllAnswered
  <2> QED BY <2>1, <2>4, <2>5, <2>6, <2>7 DEF Talk
<1> QED BY <1>9, <1>10, <1>11 DEF Serves

LEMMA BackReceivesAgrees == ASSUME TypeOK, Agreement, BackReceives PROVE Agreement'
<1> SUFFICES ASSUME NEW msg, msg = session.up[1] PROVE Agreement'
  OBVIOUS
<1>1. /\ UNCHANGED <<front, posts, losses>> /\ session'.status = session.status
      /\ Shortened(session.up, session'.up)
      /\ Serves(session.served, msg)
  BY BackReceivesTyped
<1>2. socket' = socket
  BY <1>1 DEF front
<1>3. 1 \in DOMAIN session.up /\ session.up # <<>>
  BY <1>1 DEF BackReceives, Shortened
<1>4. socket = "open" /\ session.status = "open" /\ posts = {}
  BY <1>3 DEF Agreement, Modes
<1>5. ~Lost /\ ~Lost' /\ Sent = SetOf(session.up) /\ Sent' = SetOf(session'.up)
  BY <1>1, <1>2, <1>4 DEF Lost, Sent, SetOf
<1>6. Modes'
  BY <1>1, <1>2, <1>4 DEF Modes
<1>7. ASSUME Talk, Queues PROVE Talk' /\ Queues'
  <2>1. Sent' = Sent \ {msg} /\ Different(session'.up)
    BY <1>1, <1>5, <1>7, ShortenedSet DEF Queues
  <2>2. msg \in Sent
    BY <1>3, <1>5 DEF SetOf
  <2>3. Talk' /\ Different(down')
    BY <1>1, <1>5, <1>7, <2>1, <2>2, ServesAgrees DEF Agreement, Queues
  <2> QED BY <2>1, <2>3 DEF Queues
<1> QED BY <1>1, <1>6, <1>7 DEF Agreement

LEMMA PostArrivesAgrees == ASSUME TypeOK, Agreement, NEW msg \in posts, PostArrives(msg) PROVE Agreement'
<1>1. /\ UNCHANGED <<front, losses>> /\ posts' = posts \ {msg}
      /\ session'.status = (IF session = NoSession THEN "open" ELSE session.status)
      /\ session'.up = session.up
      /\ Serves(session.served, msg)
  BY PostArrivesTyped
<1>2. socket' = socket /\ socket = "fallback"
  BY <1>1, TypeParts DEF front, Agreement, Modes
<1>3. ~Lost /\ ~Lost' /\ Sent = posts /\ Sent' = posts'
  BY <1>1, <1>2 DEF Lost, Sent, Agreement, Modes
<1>4. session.up = <<>>
  BY <1>2 DEF Agreement, Modes
<1>5. session'.status = "open"
  <2>1. session \in SessionType
    BY TypeParts
  <2>2. session.status = "none" => session = NoSession
    BY <1>4, <2>1 DEF SessionType, NoSession, Agreement, Modes
  <2>3. session.status # "closed"
    BY <1>2 DEF Agreement, Modes
  <2> QED BY <1>1, <2>1, <2>2, <2>3 DEF SessionType
<1>6. Modes'
  BY <1>1, <1>2, <1>4, <1>5 DEF Modes
<1>7. ASSUME Talk, Queues PROVE Talk' /\ Queues'
  <2>1. Sent' = Sent \ {msg} /\ msg \in Sent
    BY <1>1, <1>3
  <2>2. Talk' /\ Different(down')
    BY <1>1, <1>3, <1>7, <2>1, ServesAgrees DEF Agreement, Queues
  <2> QED BY <1>1, <1>7, <2>2 DEF Queues
<1> QED BY <1>1, <1>6, <1>7 DEF Agreement

\* The backend closes every channel and what the frontend sends is lost.
LEMMA BackLosesAgrees == ASSUME TypeOK, Agreement, BackLoses PROVE Agreement'
<1>1. /\ UNCHANGED <<front, down, posts, losses>> /\ socket = "open"
      /\ session' = [NoSession EXCEPT !.status = "closed"]
  BY BackLosesTyped
<1>2. socket' = socket /\ channels' = channels /\ Ids' = Ids /\ Said' = Said /\ posts = {}
  BY <1>1 DEF front, Ids, Said, SetOf, Agreement, Modes
<1>3. session'.served = {} /\ session'.up = <<>> /\ session'.status = "closed" /\ Lost'
  BY <1>1 DEF NoSession, Lost
<1>4. Modes'
  BY <1>1, <1>2, <1>3 DEF Modes
<1>5. Sent' = {}
  BY <1>1, <1>2, <1>3 DEF Sent
<1> HIDE DEF Lost
<1>6. ASSUME Talk PROVE Talk'
  BY <1>2, <1>3, <1>5, <1>6 DEF Talk, AllSent, AllSaid, AllServed, AllAnswered
<1>7. Queues => Queues'
  BY <1>1, <1>3 DEF Queues, Different
<1> QED BY <1>1, <1>4, <1>6, <1>7 DEF Agreement

LEMMA LossAgrees ==
    ASSUME TypeOK, Agreement, PollLost \/ AdapterDropped \/ \E msg \in posts : PostLost(msg)
    PROVE  Agreement'
<1>1. /\ losses' # 0 /\ UNCHANGED front /\ socket = "fallback"
      /\ session' \in {session, NoSession}
  BY LossTyped
<1>2. Modes'
  BY <1>1 DEF Agreement, Modes, NoSession, front
<1> QED BY <1>1, <1>2 DEF Agreement

LEMMA NextKeepsAgreement == TypeOK /\ Front /\ Agreement /\ [Next]_vars => Agreement'
<1> SUFFICES ASSUME TypeOK, Front, Agreement, [Next]_vars PROVE Agreement'
  OBVIOUS
<1>1. ASSUME NEW p \in Paths, Request(p) PROVE Agreement'
  BY <1>1, RequestAgrees
<1>2. ASSUME NEW error \in BOOLEAN, SocketDown(error) PROVE Agreement'
  BY <1>2, SocketDownAgrees
<1>3. ASSUME NEW i \in DOMAIN channels, FrontCloses(i) PROVE Agreement'
  BY <1>3, FrontClosesAgrees DEF Ids
<1>4. ASSUME NEW msg \in posts, PostArrives(msg) PROVE Agreement'
  BY <1>4, PostArrivesAgrees
<1>5. CASE SocketOpens \/ FrontReceives \/ Poll \/ BackReceives \/ BackLoses
  BY <1>5, SocketOpensAgrees, FrontReceivesAgrees, PollAgrees, BackReceivesAgrees, BackLosesAgrees
<1>6. CASE PollLost \/ AdapterDropped \/ \E msg \in posts : PostLost(msg)
  BY <1>6, LossAgrees
<1>7. CASE UNCHANGED vars
  BY <1>7, AgreementStays DEF vars, front, counts
<1> QED BY <1>1, <1>2, <1>3, <1>4, <1>5, <1>6, <1>7 DEF Next, Frontend, Backend, Http

\* The frontend and the backend take each other at their words: of a channel there is at
\* most one message on its way, an opening one while the backend does not serve the channel,
\* an answer while the frontend waits for it, a closing one when the channel is closed; and
\* whoever waits has such a message. A connection that breaks takes its messages with it.
\* (All this until an HTTP request is lost.)
THEOREM ChannelsInvariant == Spec => [](TypeOK /\ Front /\ Agreement)
<1>1. Init => TypeOK /\ Front /\ Agreement
  BY InitTyped, FrontAtFirst, AgreementAtFirst
<1>2. TypeOK /\ Front /\ Agreement /\ [Next]_vars => (TypeOK /\ Front /\ Agreement)'
  BY NextKeepsTypes, NextKeepsFront, NextKeepsAgreement
<1> QED BY <1>1, <1>2, PTL DEF Spec

LEMMA AgreementAgrees == TypeOK /\ Agreement => ChannelsAgree
<1> SUFFICES ASSUME TypeOK, Agreement, losses = 0 PROVE ChannelsAgree
  BY DEF ChannelsAgree
<1>1. Talk
  BY DEF Agreement
<1>2. /\ \A m \in Sent : m \in Messages /\ m.id \in Ids /\ m.kind \in {"open", "close"}
      /\ \A r \in Said : r.id \in Ids /\ r.kind \in {"ready", "close"} /\ r = [kind |-> r.kind, id |-> r.id]
      /\ \A c \in session.served : c.id \in Ids /\ c = [id |-> c.id, path |-> c.path]
  BY MessageTypes
<1>3. \A c \in session.served :
         \/ Live(c.id) /\ channels[c.id].path = c.path
         \/ [kind |-> "close", id |-> c.id] \in Sent
  BY <1>1 DEF Talk, AllServed, Live, ClosingOf
<1>4. \A r \in Said : Told(r.kind, r.id)
  BY <1>2 DEF Said, SetOf, Told
<1> HIDE DEF Lost
<1>5. ASSUME NEW i \in Ids, channels[i].status = "opening"
      PROVE  \/ [kind |-> "open", id |-> i, path |-> channels[i].path] \in Sent
             \/ IsServed(i) /\ Told("ready", i)
             \/ Told("close", i)
             \/ Lost
  <2>1. CASE \E m \in Sent : m.id = i
    <3>1. PICK m \in Sent : m.id = i
      BY <2>1
    <3>2. m.kind = "open" /\ m.path = channels[i].path
      BY <3>1, <1>1, <1>2, <1>5 DEF Talk, AllSent
    <3>3. m = [kind |-> "open", id |-> i, path |-> channels[i].path]
      BY <3>1, <3>2, <1>2 DEF Messages
    <3> QED BY <3>3
  <2>2. CASE \E r \in Said : r.id = i
    <3>1. PICK r \in Said : r.id = i
      BY <2>2
    <3>2. Told(r.kind, i) /\ r.kind \in {"ready", "close"}
      BY <3>1, <1>2, <1>4
    <3>3. r.kind = "ready" => IsServed(i) \/ Lost
      BY <3>1, <1>1 DEF Talk, AllSaid
    <3> QED BY <3>2, <3>3
  <2> QED BY <2>1, <2>2, <1>1, <1>5 DEF Talk, AllAnswered
<1>6. \A i \in Ids : channels[i].status = "ready" => IsServed(i) \/ Lost
  BY <1>1 DEF Talk, AllAnswered
<1> QED BY <1>3, <1>5, <1>6 DEF ChannelsAgree, IsServed

\* Both sides agree on the channels of a connection, up to the messages on their way, as
\* long as no HTTP request is lost.
THEOREM BothSidesAgree == Spec => []ChannelsAgree
BY ChannelsInvariant, AgreementAgrees, PTL
=============================================================================
