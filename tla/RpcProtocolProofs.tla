-------------------------- MODULE RpcProtocolProofs --------------------------
(***************************************************************************)
(* Theorems about RpcProtocol and their proofs, for any number of calls,    *)
(* cancellations and disposals.                                             *)
(***************************************************************************)
EXTENDS RpcProtocol, FiniteSetTheorems, SequenceTheorems, TLAPS

-----------------------------------------------------------------------------
(* Roads: sequences of batches *)

Batches(in, under, out) == <<in>> \o under \o <<out>>

Contents(road) == UNION {{road[b][i] : i \in DOMAIN road[b]} : b \in DOMAIN road}

\* A request and a reply are sent once, and a cancellation is behind its request.
Ordered(road) ==
    \A b, c \in DOMAIN road : \A i \in DOMAIN road[b], j \in DOMAIN road[c] :
        road[b][i].id = road[c][j].id =>
            /\ road[b][i].type = road[c][j].type /\ road[b][i].type # "cancel" => b = c /\ i = j
            /\ road[b][i].type = "cancel" /\ road[c][j].type = "request" => c < b \/ (c = b /\ j < i)

AreBatches(road, M, in, under, out) ==
    /\ road \in Seq(Seq(M))
    /\ Len(under) \in Nat
    /\ DOMAIN road = 1 .. Len(under) + 2
    /\ road[1] = in
    /\ \A b \in 1 .. Len(under) : road[b + 1] = under[b]
    /\ road[Len(under) + 2] = out

LEMMA BatchesAre ==
    ASSUME NEW M, NEW in \in Seq(M), NEW under \in Seq(Seq(M)), NEW out \in Seq(M)
    PROVE  AreBatches(Batches(in, under, out), M, in, under, out)
<1> DEFINE first == <<in>> \o under
<1>1. <<in>> \in Seq(Seq(M)) /\ <<out>> \in Seq(Seq(M)) /\ Len(<<in>>) = 1 /\ Len(<<out>>) = 1
      /\ <<in>>[1] = in /\ <<out>>[1] = out
  OBVIOUS
<1>2. Len(under) \in Nat
  BY LenProperties
<1>3. /\ first \in Seq(Seq(M))
      /\ Len(first) = 1 + Len(under)
      /\ \A b \in 1 .. 1 + Len(under) : first[b] = IF b <= 1 THEN <<in>>[b] ELSE under[b - 1]
  BY <1>1, ConcatProperties
<1> HIDE DEF first
<1>4. LET road == first \o <<out>>
      IN  /\ road \in Seq(Seq(M))
          /\ Len(road) = 2 + Len(under)
          /\ \A b \in 1 .. 2 + Len(under) :
                road[b] = IF b <= 1 + Len(under) THEN first[b] ELSE <<out>>[b - (1 + Len(under))]
  BY <1>1, <1>2, <1>3, ConcatProperties
<1>5. Batches(in, under, out) = first \o <<out>>
  BY DEF Batches, first
<1>6. DOMAIN Batches(in, under, out) = 1 .. Len(under) + 2
  BY <1>2, <1>4, <1>5, LenProperties
<1>7. \A b \in 1 .. Len(under) : Batches(in, under, out)[b + 1] = under[b]
  <2> SUFFICES ASSUME NEW b \in 1 .. Len(under) PROVE Batches(in, under, out)[b + 1] = under[b]
    OBVIOUS
  <2>1. /\ b + 1 \in 1 .. 2 + Len(under) /\ b + 1 \in 1 .. 1 + Len(under)
        /\ b + 1 <= 1 + Len(under) /\ ~(b + 1 <= 1) /\ (b + 1) - 1 = b
    BY <1>2
  <2>2. first[b + 1] = under[(b + 1) - 1]
    BY <2>1, <1>3
  <2>3. (first \o <<out>>)[b + 1] = first[b + 1]
    BY <2>1, <1>4
  <2> QED BY <2>1, <2>2, <2>3, <1>5
<1>8. Batches(in, under, out)[1] = in
  <2>1. 1 \in 1 .. 2 + Len(under) /\ 1 <= 1 + Len(under) /\ 1 \in 1 .. 1 + Len(under)
    BY <1>2
  <2> QED BY <2>1, <1>1, <1>3, <1>4, <1>5
<1>9. Batches(in, under, out)[Len(under) + 2] = out
  <2>1. /\ Len(under) + 2 \in 1 .. 2 + Len(under) /\ ~(Len(under) + 2 <= 1 + Len(under))
        /\ (Len(under) + 2) - (1 + Len(under)) = 1
    BY <1>2
  <2> QED BY <2>1, <1>1, <1>4, <1>5
<1> QED BY <1>2, <1>4, <1>5, <1>6, <1>7, <1>8, <1>9 DEF AreBatches

\* Each place of the new road is one of the old: up to s batches and, in its first
\* batch, t messages are left out in front.
Embeds(new, old, s, t) ==
    \A b \in DOMAIN new : \A i \in DOMAIN new[b] :
        LET j == IF b = 1 THEN i + t ELSE i
        IN  b + s \in DOMAIN old /\ j \in DOMAIN old[b + s] /\ new[b][i] = old[b + s][j]

LEMMA ShiftedPlaces ==
    ASSUME NEW b \in Nat, NEW c \in Nat, NEW i \in Nat, NEW j \in Nat, NEW s \in Nat, NEW t \in Nat,
           NEW k, k = IF b = 1 THEN i + t ELSE i, NEW l, l = IF c = 1 THEN j + t ELSE j
    PROVE  /\ b + s = c + s /\ k = l => b = c /\ i = j
           /\ c + s < b + s \/ (c + s = b + s /\ l < k) => c < b \/ (c = b /\ j < i)
<1>1. CASE b = 1 /\ c = 1
  BY <1>1
<1>2. CASE b # 1 \/ c # 1
  <2>1. b + s = c + s => b = c /\ b # 1 /\ c # 1
    BY <1>2
  <2>2. c + s < b + s => c < b
    OBVIOUS
  <2> QED BY <2>1, <2>2
<1> QED BY <1>1, <1>2

LEMMA RoadShrinks ==
    ASSUME NEW M, NEW old \in Seq(Seq(M)), NEW new \in Seq(Seq(M)),
           NEW s \in {0, 1}, NEW t \in {0, 1}, Embeds(new, old, s, t)
    PROVE  Contents(new) \subseteq Contents(old) /\ (Ordered(old) => Ordered(new))
<1>1. DOMAIN new \subseteq Nat /\ \A b \in DOMAIN new : DOMAIN new[b] \subseteq Nat
  <2>1. DOMAIN new = 1 .. Len(new) /\ Len(new) \in Nat
    BY LenProperties
  <2>2. \A b \in DOMAIN new : new[b] \in Seq(M)
    BY <2>1, ElementOfSeq
  <2>3. \A b \in DOMAIN new : DOMAIN new[b] = 1 .. Len(new[b]) /\ Len(new[b]) \in Nat
    BY <2>2, LenProperties
  <2> QED BY <2>1, <2>3
<1>2. Contents(new) \subseteq Contents(old)
  <2> SUFFICES ASSUME NEW b \in DOMAIN new, NEW i \in DOMAIN new[b]
               PROVE  new[b][i] \in Contents(old)
    BY DEF Contents
  <2> QED BY SMTT(30) DEF Embeds, Contents
<1>3. ASSUME Ordered(old) PROVE Ordered(new)
  <2> SUFFICES ASSUME NEW b \in DOMAIN new, NEW c \in DOMAIN new,
                      NEW i \in DOMAIN new[b], NEW j \in DOMAIN new[c],
                      new[b][i].id = new[c][j].id
               PROVE  /\ new[b][i].type = new[c][j].type /\ new[b][i].type # "cancel" => b = c /\ i = j
                      /\ new[b][i].type = "cancel" /\ new[c][j].type = "request"
                            => c < b \/ (c = b /\ j < i)
    BY DEF Ordered
  <2> DEFINE k == IF b = 1 THEN i + t ELSE i
  <2> DEFINE l == IF c = 1 THEN j + t ELSE j
  <2>1. b + s \in DOMAIN old /\ k \in DOMAIN old[b + s] /\ new[b][i] = old[b + s][k]
    BY DEF Embeds
  <2>2. c + s \in DOMAIN old /\ l \in DOMAIN old[c + s] /\ new[c][j] = old[c + s][l]
    BY DEF Embeds
  <2>3. b \in Nat /\ c \in Nat /\ i \in Nat /\ j \in Nat /\ s \in Nat /\ t \in Nat
    BY <1>1, SMTT(30)
  <2>4. /\ b + s = c + s /\ k = l => b = c /\ i = j
        /\ c + s < b + s \/ (c + s = b + s /\ l < k) => c < b \/ (c = b /\ j < i)
    <3>1. (k = IF b = 1 THEN i + t ELSE i) /\ (l = IF c = 1 THEN j + t ELSE j)
      OBVIOUS
    <3> HIDE DEF k, l
    <3> QED BY <2>3, <3>1, ShiftedPlaces, SMTT(30)
  <2> HIDE DEF k, l
  <2>5. old[b + s][k].id = old[c + s][l].id
    BY <2>1, <2>2
  <2>6. /\ old[b + s][k].type = old[c + s][l].type /\ old[b + s][k].type # "cancel" => b + s = c + s /\ k = l
        /\ old[b + s][k].type = "cancel" /\ old[c + s][l].type = "request"
              => c + s < b + s \/ (c + s = b + s /\ l < k)
    BY <1>3, <2>1, <2>2, <2>5 DEF Ordered
  <2>7. /\ new[b][i].type = new[c][j].type /\ new[b][i].type # "cancel" => b + s = c + s /\ k = l
        /\ new[b][i].type = "cancel" /\ new[c][j].type = "request"
              => c + s < b + s \/ (c + s = b + s /\ l < k)
    BY <2>1, <2>2, <2>6
  <2> QED BY <2>4, <2>7
<1> QED BY <1>2, <1>3

\* What each step does to a road: what is sent comes last, ...
LEMMA RoadExtended ==
    ASSUME NEW M, NEW in \in Seq(M), NEW under \in Seq(Seq(M)), NEW out \in Seq(M), NEW msg \in M
    PROVE  LET old == Batches(in, under, out)
               new == Batches(in, under, Append(out, msg))
           IN  /\ Contents(new) = Contents(old) \cup {msg}
               /\ /\ Ordered(old)
                  /\ \A m \in Contents(old) : m.id = msg.id =>
                        (msg.type # "cancel" => m.type # msg.type) /\ (msg.type = "request" => m.type # "cancel")
                  => Ordered(new)
<1> SUFFICES ASSUME NEW old, old = Batches(in, under, out),
                    NEW new, new = Batches(in, under, Append(out, msg))
             PROVE  /\ Contents(new) = Contents(old) \cup {msg}
                    /\ /\ Ordered(old)
                       /\ \A m \in Contents(old) : m.id = msg.id =>
                             (msg.type # "cancel" => m.type # msg.type) /\ (msg.type = "request" => m.type # "cancel")
                       => Ordered(new)
  OBVIOUS
<1> DEFINE L == Len(under) + 2
           n == Len(out) + 1
<1>1. /\ Len(out) \in Nat /\ DOMAIN out = 1 .. Len(out)
      /\ Append(out, msg) \in Seq(M) /\ Len(Append(out, msg)) = n
      /\ \A i \in 1 .. Len(out) : Append(out, msg)[i] = out[i]
      /\ Append(out, msg)[n] = msg
  BY LenProperties, AppendProperties
<1>2. DOMAIN Append(out, msg) = 1 .. n
  BY <1>1, LenProperties
<1>3. /\ Len(under) \in Nat /\ DOMAIN old = 1 .. L /\ DOMAIN new = 1 .. L
      /\ old[1] = in /\ new[1] = in /\ old[L] = out /\ new[L] = Append(out, msg)
      /\ \A b \in 1 .. Len(under) : old[b + 1] = under[b] /\ new[b + 1] = under[b]
  <2>1. AreBatches(old, M, in, under, out)
    BY BatchesAre
  <2>2. AreBatches(new, M, in, under, Append(out, msg))
    BY <1>1, BatchesAre
  <2> QED BY <2>1, <2>2 DEF AreBatches
<1>4. \A b \in 1 .. L : b # L => old[b] = new[b]
  <2> SUFFICES ASSUME NEW b \in 1 .. L, b # L PROVE old[b] = new[b]
    OBVIOUS
  <2>1. CASE b = 1
    BY <2>1, <1>3
  <2>2. CASE b # 1
    <3>1. b - 1 \in 1 .. Len(under) /\ (b - 1) + 1 = b
      BY <2>2, <1>3
    <3> QED BY <3>1, <1>3
  <2> QED BY <2>1, <2>2
<1>5. \A b \in DOMAIN new : \A i \in DOMAIN new[b] :
         \/ b = L /\ i = n /\ new[b][i] = msg
         \/ /\ b \in DOMAIN old /\ i \in DOMAIN old[b] /\ new[b][i] = old[b][i]
            /\ b < L \/ (b = L /\ i < n)
  <2> SUFFICES ASSUME NEW b \in DOMAIN new, NEW i \in DOMAIN new[b]
               PROVE  \/ b = L /\ i = n /\ new[b][i] = msg
                      \/ /\ b \in DOMAIN old /\ i \in DOMAIN old[b] /\ new[b][i] = old[b][i]
                         /\ b < L \/ (b = L /\ i < n)
    OBVIOUS
  <2>1. CASE b # L
    <3>1. b < L
      BY <2>1, <1>3
    <3> QED BY <2>1, <3>1, <1>3, <1>4
  <2>2. CASE b = L
    <3>1. i \in 1 .. n
      BY <2>2, <1>2, <1>3
    <3>2. CASE i = n
      BY <2>2, <3>2, <1>1, <1>3
    <3>3. CASE i # n
      <4>1. i \in 1 .. Len(out) /\ i < n
        BY <3>1, <3>3, <1>1
      <4> QED BY <4>1, <2>2, <1>1, <1>3
    <3> QED BY <3>2, <3>3
  <2> QED BY <2>1, <2>2
<1>6. L \in DOMAIN new /\ n \in DOMAIN new[L] /\ new[L][n] = msg
  BY <1>1, <1>2, <1>3
<1>7. \A b \in DOMAIN old : \A i \in DOMAIN old[b] :
         b \in DOMAIN new /\ i \in DOMAIN new[b] /\ new[b][i] = old[b][i]
  <2> SUFFICES ASSUME NEW b \in DOMAIN old, NEW i \in DOMAIN old[b]
               PROVE  b \in DOMAIN new /\ i \in DOMAIN new[b] /\ new[b][i] = old[b][i]
    OBVIOUS
  <2>1. CASE b # L
    BY <2>1, <1>3, <1>4
  <2>2. CASE b = L
    BY <2>2, <1>1, <1>2, <1>3
  <2> QED BY <2>1, <2>2
<1> HIDE DEF L, n
<1>8. Contents(new) = Contents(old) \cup {msg}
  <2>1. \A m \in Contents(new) : m \in Contents(old) \/ m = msg
    BY <1>5 DEF Contents
  <2>2. \A m \in Contents(old) : m \in Contents(new)
    BY <1>7 DEF Contents
  <2>3. msg \in Contents(new)
    BY <1>6 DEF Contents
  <2> QED BY <2>1, <2>2, <2>3
<1>9. ASSUME Ordered(old),
             \A m \in Contents(old) : m.id = msg.id =>
                 (msg.type # "cancel" => m.type # msg.type) /\ (msg.type = "request" => m.type # "cancel")
      PROVE  Ordered(new)
  <2> SUFFICES ASSUME NEW b \in DOMAIN new, NEW c \in DOMAIN new,
                      NEW i \in DOMAIN new[b], NEW j \in DOMAIN new[c],
                      new[b][i].id = new[c][j].id
               PROVE  /\ new[b][i].type = new[c][j].type /\ new[b][i].type # "cancel" => b = c /\ i = j
                      /\ new[b][i].type = "cancel" /\ new[c][j].type = "request"
                            => c < b \/ (c = b /\ j < i)
    BY DEF Ordered
  <2>1. \/ b = L /\ i = n /\ new[b][i] = msg
        \/ /\ b \in DOMAIN old /\ i \in DOMAIN old[b] /\ new[b][i] = old[b][i]
           /\ b < L \/ (b = L /\ i < n)
    BY <1>5
  <2>2. \/ c = L /\ j = n /\ new[c][j] = msg
        \/ /\ c \in DOMAIN old /\ j \in DOMAIN old[c] /\ new[c][j] = old[c][j]
           /\ c < L \/ (c = L /\ j < n)
    BY <1>5
  <2>3. b \in DOMAIN old /\ i \in DOMAIN old[b] => old[b][i] \in Contents(old)
    BY DEF Contents
  <2>4. c \in DOMAIN old /\ j \in DOMAIN old[c] => old[c][j] \in Contents(old)
    BY DEF Contents
  <2>5. CASE b = L /\ i = n /\ new[b][i] = msg
    <3>1. CASE c = L /\ j = n /\ new[c][j] = msg
      BY <2>5, <3>1
    <3>2. CASE /\ c \in DOMAIN old /\ j \in DOMAIN old[c] /\ new[c][j] = old[c][j]
               /\ c < L \/ (c = L /\ j < n)
      <4>1. new[c][j] \in Contents(old)
        BY <2>4, <3>2
      <4> QED BY <2>5, <3>2, <4>1, <1>9
    <3> QED BY <2>2, <3>1, <3>2
  <2>6. CASE /\ b \in DOMAIN old /\ i \in DOMAIN old[b] /\ new[b][i] = old[b][i]
             /\ b < L \/ (b = L /\ i < n)
    <3>1. CASE c = L /\ j = n /\ new[c][j] = msg
      <4>1. new[b][i] \in Contents(old)
        BY <2>3, <2>6
      <4> QED BY <2>6, <3>1, <4>1, <1>9
    <3>2. CASE /\ c \in DOMAIN old /\ j \in DOMAIN old[c] /\ new[c][j] = old[c][j]
               /\ c < L \/ (c = L /\ j < n)
      BY <2>6, <3>2, <1>9 DEF Ordered
    <3> QED BY <2>2, <3>1, <3>2
  <2> QED BY <2>1, <2>5, <2>6
<1> QED BY <1>8, <1>9

\* ... a batch that is sent or received stays where it is in the order, ...
LEMMA RoadFlushed ==
    ASSUME NEW M, NEW in \in Seq(M), NEW under \in Seq(Seq(M)), NEW out \in Seq(M)
    PROVE  LET old == Batches(in, under, out)
               new == Batches(in, Append(under, out), <<>>)
           IN  Contents(new) = Contents(old) /\ (Ordered(old) => Ordered(new))
<1> SUFFICES ASSUME NEW old, old = Batches(in, under, out),
                    NEW new, new = Batches(in, Append(under, out), <<>>)
             PROVE  Contents(new) = Contents(old) /\ (Ordered(old) => Ordered(new))
  OBVIOUS
<1> DEFINE L == Len(under) + 2
<1>1. /\ Len(under) \in Nat
      /\ Append(under, out) \in Seq(Seq(M)) /\ Len(Append(under, out)) = Len(under) + 1
      /\ \A i \in 1 .. Len(under) : Append(under, out)[i] = under[i]
      /\ Append(under, out)[Len(under) + 1] = out
      /\ <<>> \in Seq(M) /\ DOMAIN <<>> = {}
  BY LenProperties, AppendProperties
<1>2. /\ DOMAIN old = 1 .. L /\ old \in Seq(Seq(M))
      /\ old[1] = in /\ old[L] = out /\ \A b \in 1 .. Len(under) : old[b + 1] = under[b]
  <2>1. AreBatches(old, M, in, under, out)
    BY BatchesAre
  <2> QED BY <2>1 DEF AreBatches
<1>3. /\ DOMAIN new = 1 .. L + 1 /\ new \in Seq(Seq(M))
      /\ new[1] = in /\ new[L + 1] = <<>>
      /\ \A b \in 1 .. Len(under) + 1 : new[b + 1] = Append(under, out)[b]
  <2>1. AreBatches(new, M, in, Append(under, out), <<>>)
    BY <1>1, BatchesAre
  <2>2. Len(Append(under, out)) + 2 = L + 1
    BY <1>1
  <2> QED BY <2>1, <2>2, <1>1 DEF AreBatches
<1>4. \A b \in 1 .. L : new[b] = old[b]
  <2> SUFFICES ASSUME NEW b \in 1 .. L PROVE new[b] = old[b]
    OBVIOUS
  <2>1. CASE b = 1
    BY <2>1, <1>2, <1>3
  <2>2. CASE b = L
    <3>1. Len(under) + 1 \in 1 .. Len(under) + 1 /\ L = (Len(under) + 1) + 1
      BY <1>1
    <3> QED BY <3>1, <2>2, <1>1, <1>2, <1>3
  <2>3. CASE b # 1 /\ b # L
    <3>1. b - 1 \in 1 .. Len(under) /\ b - 1 \in 1 .. Len(under) + 1 /\ (b - 1) + 1 = b
      BY <2>3, <1>1
    <3>2. old[b] = under[b - 1]
      BY <3>1, <1>2
    <3>3. new[b] = Append(under, out)[b - 1]
      BY <3>1, <1>3
    <3> QED BY <3>1, <3>2, <3>3, <1>1
  <2> QED BY <2>1, <2>2, <2>3
<1>5. L \in Nat
  BY <1>1
<1> HIDE DEF L
<1>6. Embeds(new, old, 0, 0)
  <2> SUFFICES ASSUME NEW b \in DOMAIN new, NEW i \in DOMAIN new[b]
               PROVE  b + 0 \in DOMAIN old
                      /\ (IF b = 1 THEN i + 0 ELSE i) \in DOMAIN old[b + 0]
                      /\ new[b][i] = old[b + 0][IF b = 1 THEN i + 0 ELSE i]
    BY DEF Embeds
  <2>1. b \in 1 .. L
    <3>1. b \in 1 .. L + 1 /\ (b = L + 1 => DOMAIN new[b] = {})
      BY <1>1, <1>3
    <3> QED BY <3>1, <1>5
  <2>2. i \in Nat
    <3>1. new[b] \in Seq(M)
      BY <1>3, ElementOfSeq, LenProperties
    <3> QED BY <3>1, LenProperties
  <2> QED BY <2>1, <2>2, <1>2, <1>4, <1>5
<1>7. Contents(old) \subseteq Contents(new)
  <2>1. \A b \in DOMAIN old : b \in DOMAIN new /\ new[b] = old[b]
    <3> SUFFICES ASSUME NEW b \in DOMAIN old PROVE b \in DOMAIN new /\ new[b] = old[b]
      OBVIOUS
    <3>1. b \in 1 .. L
      BY <1>2
    <3>2. b \in 1 .. L + 1
      BY <3>1, <1>5
    <3> QED BY <3>1, <3>2, <1>3, <1>4
  <2> QED BY <2>1 DEF Contents
<1> QED BY <1>2, <1>3, <1>6, <1>7, RoadShrinks

LEMMA RoadReceived ==
    ASSUME NEW M, NEW under \in Seq(Seq(M)), NEW out \in Seq(M), under # <<>>
    PROVE  LET old == Batches(<<>>, under, out)
               new == Batches(Head(under), Tail(under), out)
           IN  Contents(new) = Contents(old) /\ (Ordered(old) => Ordered(new))
<1> SUFFICES ASSUME NEW old, old = Batches(<<>>, under, out),
                    NEW new, new = Batches(Head(under), Tail(under), out)
             PROVE  Contents(new) = Contents(old) /\ (Ordered(old) => Ordered(new))
  OBVIOUS
<1> DEFINE L == Len(under) + 1
<1>1. /\ Len(under) \in Nat \ {0} /\ Head(under) = under[1] /\ Head(under) \in Seq(M)
      /\ Tail(under) \in Seq(Seq(M)) /\ Len(Tail(under)) = Len(under) - 1
      /\ \A i \in 1 .. Len(Tail(under)) : Tail(under)[i] = under[i + 1]
  BY HeadTailProperties, EmptySeq
<1>2. <<>> \in Seq(M) /\ DOMAIN <<>> = {}
  OBVIOUS
<1>3. /\ DOMAIN old = 1 .. L + 1 /\ old \in Seq(Seq(M))
      /\ old[1] = <<>> /\ old[L + 1] = out /\ \A b \in 1 .. Len(under) : old[b + 1] = under[b]
  <2>1. AreBatches(old, M, <<>>, under, out)
    BY <1>2, BatchesAre
  <2>2. Len(under) + 2 = L + 1
    BY <1>1
  <2> QED BY <2>1, <2>2 DEF AreBatches
<1>4. /\ DOMAIN new = 1 .. L /\ new \in Seq(Seq(M))
      /\ new[1] = under[1] /\ new[L] = out
      /\ \A b \in 1 .. Len(under) - 1 : new[b + 1] = Tail(under)[b]
  <2>1. AreBatches(new, M, Head(under), Tail(under), out)
    BY <1>1, BatchesAre
  <2>2. Len(Tail(under)) + 2 = L
    BY <1>1
  <2> QED BY <2>1, <2>2, <1>1 DEF AreBatches
<1>5. \A b \in 1 .. L : new[b] = old[b + 1]
  <2> SUFFICES ASSUME NEW b \in 1 .. L PROVE new[b] = old[b + 1]
    OBVIOUS
  <2>1. CASE b = L
    BY <2>1, <1>3, <1>4
  <2>2. CASE b # L /\ b = 1
    <3>1. 1 \in 1 .. Len(under)
      BY <1>1
    <3>2. old[1 + 1] = under[1]
      BY <3>1, <1>3
    <3> QED BY <3>2, <2>2, <1>4
  <2>3. CASE b # L /\ b # 1
    <3>1. b - 1 \in 1 .. Len(under) - 1 /\ (b - 1) + 1 = b /\ b \in 1 .. Len(under)
      BY <2>3, <1>1
    <3>2. new[b] = Tail(under)[b - 1]
      BY <3>1, <1>4
    <3>3. Tail(under)[b - 1] = under[b]
      BY <3>1, <1>1
    <3>4. old[b + 1] = under[b]
      BY <3>1, <1>3
    <3> QED BY <3>2, <3>3, <3>4
  <2> QED BY <2>1, <2>2, <2>3
<1>6. L \in Nat
  BY <1>1
<1> HIDE DEF L
<1>7. Embeds(new, old, 1, 0)
  <2> SUFFICES ASSUME NEW b \in DOMAIN new, NEW i \in DOMAIN new[b]
               PROVE  b + 1 \in DOMAIN old
                      /\ (IF b = 1 THEN i + 0 ELSE i) \in DOMAIN old[b + 1]
                      /\ new[b][i] = old[b + 1][IF b = 1 THEN i + 0 ELSE i]
    BY DEF Embeds
  <2>1. b \in 1 .. L /\ b + 1 \in 1 .. L + 1
    BY <1>4, <1>6, SMTT(30)
  <2>2. i \in Nat
    <3>1. new[b] \in Seq(M)
      BY <1>4, ElementOfSeq, LenProperties
    <3> QED BY <3>1, LenProperties
  <2>3. (IF b = 1 THEN i + 0 ELSE i) = i
    BY <2>2
  <2>4. b + 1 \in DOMAIN old /\ new[b] = old[b + 1]
    BY <2>1, <1>3, <1>5
  <2> QED BY <2>3, <2>4
<1>8. Contents(old) \subseteq Contents(new)
  <2> SUFFICES ASSUME NEW b \in DOMAIN old, NEW i \in DOMAIN old[b]
               PROVE  old[b][i] \in Contents(new)
    BY DEF Contents
  <2>1. b \in 1 .. L + 1 /\ b # 1
    BY <1>2, <1>3
  <2>2. b - 1 \in 1 .. L /\ (b - 1) + 1 = b
    BY <2>1, <1>6
  <2>3. b - 1 \in DOMAIN new /\ new[b - 1] = old[b]
    BY <2>2, <1>4, <1>5
  <2> QED BY <2>3 DEF Contents
<1> QED BY <1>3, <1>4, <1>7, <1>8, RoadShrinks

\* ... a disposed peer drops what it receives, and what it has not sent or handled, ...
LEMMA RoadCut ==
    ASSUME NEW M, NEW in \in Seq(M), NEW under \in Seq(Seq(M)), NEW out \in Seq(M),
           NEW in2 \in {in, <<>>}, NEW out2 \in {out, <<>>}
    PROVE  /\ Contents(Batches(in2, under, out2)) \subseteq Contents(Batches(in, under, out))
           /\ Ordered(Batches(in, under, out)) => Ordered(Batches(in2, under, out2))
<1> SUFFICES ASSUME NEW old, old = Batches(in, under, out), NEW new, new = Batches(in2, under, out2)
             PROVE  Contents(new) \subseteq Contents(old) /\ (Ordered(old) => Ordered(new))
  OBVIOUS
<1> DEFINE L == Len(under) + 2
<1>1. in2 \in Seq(M) /\ out2 \in Seq(M) /\ DOMAIN <<>> = {} /\ Len(under) \in Nat
  <2>1. <<>> \in Seq(M) /\ DOMAIN <<>> = {}
    OBVIOUS
  <2>2. Len(under) \in Nat
    BY LenProperties
  <2> QED BY <2>1, <2>2
<1>2. /\ DOMAIN old = 1 .. L /\ old \in Seq(Seq(M))
      /\ old[1] = in /\ old[L] = out /\ \A b \in 1 .. Len(under) : old[b + 1] = under[b]
  <2>1. AreBatches(old, M, in, under, out)
    BY BatchesAre
  <2> QED BY <2>1 DEF AreBatches
<1>3. /\ DOMAIN new = 1 .. L /\ new \in Seq(Seq(M))
      /\ new[1] = in2 /\ new[L] = out2 /\ \A b \in 1 .. Len(under) : new[b + 1] = under[b]
  <2>1. AreBatches(new, M, in2, under, out2)
    BY <1>1, BatchesAre
  <2> QED BY <2>1 DEF AreBatches
<1>4. \A b \in 1 .. L : new[b] = old[b] \/ new[b] = <<>>
  <2> SUFFICES ASSUME NEW b \in 1 .. L PROVE new[b] = old[b] \/ new[b] = <<>>
    OBVIOUS
  <2>1. CASE b = 1 \/ b = L
    BY <2>1, <1>2, <1>3
  <2>2. CASE b # 1 /\ b # L
    <3>1. b - 1 \in 1 .. Len(under) /\ (b - 1) + 1 = b
      BY <2>2, <1>1
    <3> QED BY <3>1, <1>2, <1>3
  <2> QED BY <2>1, <2>2
<1>5. L \in Nat
  BY <1>1
<1> HIDE DEF L
<1>6. Embeds(new, old, 0, 0)
  <2> SUFFICES ASSUME NEW b \in DOMAIN new, NEW i \in DOMAIN new[b]
               PROVE  b + 0 \in DOMAIN old
                      /\ (IF b = 1 THEN i + 0 ELSE i) \in DOMAIN old[b + 0]
                      /\ new[b][i] = old[b + 0][IF b = 1 THEN i + 0 ELSE i]
    BY DEF Embeds
  <2>1. b \in 1 .. L /\ b + 0 = b
    BY <1>3, <1>5
  <2>2. new[b] = old[b]
    BY <2>1, <1>1, <1>4
  <2>3. i \in Nat
    <3>1. new[b] \in Seq(M)
      BY <1>3, ElementOfSeq, LenProperties
    <3> QED BY <3>1, LenProperties
  <2>4. (IF b = 1 THEN i + 0 ELSE i) = i
    BY <2>3
  <2> QED BY <2>1, <2>2, <2>4, <1>2
<1> QED BY <1>2, <1>3, <1>6, RoadShrinks

LEMMA RoadIgnored ==
    ASSUME NEW M, NEW under \in Seq(Seq(M)), NEW out \in Seq(M), under # <<>>
    PROVE  LET old == Batches(<<>>, under, out)
               new == Batches(<<>>, Tail(under), out)
           IN  Contents(new) \subseteq Contents(old) /\ (Ordered(old) => Ordered(new))
<1> SUFFICES ASSUME NEW old, old = Batches(<<>>, under, out),
                    NEW new, new = Batches(<<>>, Tail(under), out)
             PROVE  Contents(new) \subseteq Contents(old) /\ (Ordered(old) => Ordered(new))
  OBVIOUS
<1> DEFINE mid == Batches(Head(under), Tail(under), out)
<1>1. Head(under) \in Seq(M) /\ Tail(under) \in Seq(Seq(M)) /\ <<>> \in Seq(M)
  BY HeadTailProperties
<1>2. Contents(mid) = Contents(old) /\ (Ordered(old) => Ordered(mid))
  BY RoadReceived
<1>3. Contents(new) \subseteq Contents(mid) /\ (Ordered(mid) => Ordered(new))
  <2>1. <<>> \in {Head(under), <<>>} /\ out \in {out, <<>>}
    OBVIOUS
  <2> QED BY <1>1, <2>1, RoadCut
<1> QED BY <1>2, <1>3

\* ... and the first message is handled before all others.
LEMMA RoadHandled ==
    ASSUME NEW M, NEW in \in Seq(M), NEW under \in Seq(Seq(M)), NEW out \in Seq(M), in # <<>>
    PROVE  LET old == Batches(in, under, out)
               new == Batches(Tail(in), under, out)
           IN  /\ Contents(old) = Contents(new) \cup {Head(in)}
               /\ Ordered(old) =>
                     /\ Ordered(new)
                     /\ \A m \in Contents(new) : m.id = Head(in).id =>
                           /\ Head(in).type # "cancel" => m.type # Head(in).type
                           /\ Head(in).type = "cancel" => m.type # "request"
<1> SUFFICES ASSUME NEW old, old = Batches(in, under, out),
                    NEW new, new = Batches(Tail(in), under, out)
             PROVE  /\ Contents(old) = Contents(new) \cup {Head(in)}
                    /\ Ordered(old) =>
                          /\ Ordered(new)
                          /\ \A m \in Contents(new) : m.id = Head(in).id =>
                                /\ Head(in).type # "cancel" => m.type # Head(in).type
                                /\ Head(in).type = "cancel" => m.type # "request"
  OBVIOUS
<1> DEFINE L == Len(under) + 2
<1>1. /\ Len(under) \in Nat /\ Len(in) \in Nat \ {0} /\ DOMAIN in = 1 .. Len(in) /\ Head(in) = in[1]
      /\ Tail(in) \in Seq(M) /\ Len(Tail(in)) = Len(in) - 1
      /\ \A i \in 1 .. Len(Tail(in)) : Tail(in)[i] = in[i + 1]
  BY LenProperties, HeadTailProperties, EmptySeq
<1>2. DOMAIN Tail(in) = 1 .. Len(in) - 1
  BY <1>1, LenProperties
<1>3. /\ DOMAIN old = 1 .. L /\ old \in Seq(Seq(M))
      /\ old[1] = in /\ old[L] = out /\ \A b \in 1 .. Len(under) : old[b + 1] = under[b]
  <2>1. AreBatches(old, M, in, under, out)
    BY BatchesAre
  <2> QED BY <2>1 DEF AreBatches
<1>4. /\ DOMAIN new = 1 .. L /\ new \in Seq(Seq(M))
      /\ new[1] = Tail(in) /\ new[L] = out /\ \A b \in 1 .. Len(under) : new[b + 1] = under[b]
  <2>1. AreBatches(new, M, Tail(in), under, out)
    BY <1>1, BatchesAre
  <2> QED BY <2>1 DEF AreBatches
<1>5. \A b \in 1 .. L : b # 1 => new[b] = old[b]
  <2> SUFFICES ASSUME NEW b \in 1 .. L, b # 1 PROVE new[b] = old[b]
    OBVIOUS
  <2>1. CASE b = L
    BY <2>1, <1>3, <1>4
  <2>2. CASE b # L
    <3>1. b - 1 \in 1 .. Len(under) /\ (b - 1) + 1 = b
      BY <2>2, <1>1
    <3> QED BY <3>1, <1>3, <1>4
  <2> QED BY <2>1, <2>2
<1>6. L \in Nat \ {0, 1} /\ 1 \in 1 .. L
  BY <1>1
<1> HIDE DEF L
<1>7. \A b \in DOMAIN new : \A i \in DOMAIN new[b] :
         LET j == IF b = 1 THEN i + 1 ELSE i
         IN  b \in Nat /\ i \in Nat /\ b \in DOMAIN old /\ j \in DOMAIN old[b] /\ new[b][i] = old[b][j]
             /\ ~(b = 1 /\ j <= 1)
  <2> SUFFICES ASSUME NEW b \in DOMAIN new, NEW i \in DOMAIN new[b]
               PROVE  LET j == IF b = 1 THEN i + 1 ELSE i
                      IN  /\ b \in Nat /\ i \in Nat /\ b \in DOMAIN old /\ j \in DOMAIN old[b]
                          /\ new[b][i] = old[b][j] /\ ~(b = 1 /\ j <= 1)
    OBVIOUS
  <2>1. b \in 1 .. L /\ b \in Nat
    BY <1>4, <1>6
  <2>2. i \in Nat
    <3>1. new[b] \in Seq(M)
      BY <1>4, ElementOfSeq, LenProperties
    <3> QED BY <3>1, LenProperties
  <2>3. CASE b = 1
    <3>1. i \in 1 .. Len(in) - 1
      BY <2>3, <1>2, <1>4
    <3>2. i + 1 \in DOMAIN in /\ ~(i + 1 <= 1) /\ i \in 1 .. Len(Tail(in))
      BY <3>1, <1>1
    <3>3. Tail(in)[i] = in[i + 1]
      BY <3>2, <1>1
    <3> QED BY <2>1, <2>2, <2>3, <3>2, <3>3, <1>3, <1>4
  <2>4. CASE b # 1
    BY <2>1, <2>2, <2>4, <1>3, <1>5
  <2> QED BY <2>3, <2>4
<1>8. Embeds(new, old, 0, 1)
  <2> SUFFICES ASSUME NEW b \in DOMAIN new, NEW i \in DOMAIN new[b]
               PROVE  b + 0 \in DOMAIN old
                      /\ (IF b = 1 THEN i + 1 ELSE i) \in DOMAIN old[b + 0]
                      /\ new[b][i] = old[b + 0][IF b = 1 THEN i + 1 ELSE i]
    BY DEF Embeds
  <2>1. b + 0 = b
    BY <1>7
  <2> QED BY <2>1, <1>7
<1>9. 1 \in DOMAIN old /\ 1 \in DOMAIN old[1] /\ old[1][1] = Head(in)
  BY <1>1, <1>3, <1>6
<1>10. \A b \in DOMAIN old : \A i \in DOMAIN old[b] : old[b][i] \in Contents(new) \/ old[b][i] = Head(in)
  <2> SUFFICES ASSUME NEW b \in DOMAIN old, NEW i \in DOMAIN old[b]
               PROVE  old[b][i] \in Contents(new) \/ old[b][i] = Head(in)
    OBVIOUS
  <2>1. CASE b # 1
    <3>1. b \in DOMAIN new /\ new[b] = old[b]
      BY <2>1, <1>3, <1>4, <1>5
    <3> QED BY <3>1 DEF Contents
  <2>2. CASE b = 1 /\ i = 1
    BY <2>2, <1>9
  <2>3. CASE b = 1 /\ i # 1
    <3>1. i \in 1 .. Len(in)
      BY <2>3, <1>1, <1>3
    <3>2. i - 1 \in 1 .. Len(in) - 1 /\ i - 1 \in 1 .. Len(Tail(in)) /\ (i - 1) + 1 = i
      BY <3>1, <2>3, <1>1
    <3>3. i - 1 \in DOMAIN new[1] /\ new[1][i - 1] = old[1][i] /\ 1 \in DOMAIN new
      BY <3>2, <1>1, <1>2, <1>3, <1>4, <1>6
    <3> QED BY <3>3, <2>3 DEF Contents
  <2> QED BY <2>1, <2>2, <2>3
<1>11. Contents(new) \subseteq Contents(old) /\ (Ordered(old) => Ordered(new))
  BY <1>3, <1>4, <1>8, RoadShrinks
<1>12. Contents(old) = Contents(new) \cup {Head(in)}
  <2>1. \A m \in Contents(old) : m \in Contents(new) \/ m = Head(in)
    BY <1>10 DEF Contents
  <2>2. Head(in) \in Contents(old)
    BY <1>9 DEF Contents
  <2> QED BY <2>1, <2>2, <1>11
<1>13. ASSUME Ordered(old), NEW m \in Contents(new), m.id = Head(in).id
       PROVE  /\ Head(in).type # "cancel" => m.type # Head(in).type
              /\ Head(in).type = "cancel" => m.type # "request"
  <2>1. PICK b \in DOMAIN new : \E i \in DOMAIN new[b] : m = new[b][i]
    BY DEF Contents
  <2> PICK i \in DOMAIN new[b] : m = new[b][i]
    BY <2>1
  <2> DEFINE j == IF b = 1 THEN i + 1 ELSE i
  <2>2. /\ b \in Nat /\ j \in Nat /\ b \in DOMAIN old /\ j \in DOMAIN old[b] /\ m = old[b][j]
        /\ ~(b = 1 /\ j <= 1)
    BY <1>7
  <2>3. b \in 1 .. L
    BY <2>2, <1>3
  <2> HIDE DEF j
  <2>4. old[1][1].id = old[b][j].id
    BY <2>2, <1>9, <1>13
  <2>5. /\ old[1][1].type = old[b][j].type /\ old[1][1].type # "cancel" => 1 = b /\ 1 = j
        /\ old[1][1].type = "cancel" /\ old[b][j].type = "request" => b < 1 \/ (b = 1 /\ j < 1)
    BY <2>2, <2>4, <1>9, <1>13 DEF Ordered
  <2>6. ~(1 = b /\ 1 = j) /\ ~(b < 1 \/ (b = 1 /\ j < 1))
    BY <2>2, <2>3
  <2> QED BY <2>2, <2>5, <2>6, <1>9
<1> QED BY <1>11, <1>12, <1>13

-----------------------------------------------------------------------------
(* Two peers and their types *)

LEMMA TwoPeers ==
    ASSUME NEW p \in Peers
    PROVE  /\ Other(p) \in Peers /\ Other(p) # p /\ Other(Other(p)) = p
           /\ \A r \in Peers : r = p \/ r = Other(p)
<1>1. ASSUME NEW x \in Peers
      PROVE  \E y \in Peers : y # x /\ \A z \in Peers : z = x \/ z = y
  <2>1. IsFiniteSet(Peers \ {x}) /\ Cardinality(Peers \ {x}) = 1
    BY PeersAssumption, FS_RemoveElement
  <2>2. Peers \ {x} # {}
    BY <2>1, FS_EmptySet
  <2>3. PICK y \in Peers \ {x} : TRUE
    BY <2>2
  <2>4. IsFiniteSet((Peers \ {x}) \ {y}) /\ Cardinality((Peers \ {x}) \ {y}) = 0
    BY <2>1, FS_RemoveElement
  <2>5. (Peers \ {x}) \ {y} = {}
    BY <2>4, FS_EmptySet
  <2> QED BY <2>5
<1>2. PICK y \in Peers : y # p /\ \A z \in Peers : z = p \/ z = y
  BY <1>1
<1>3. Other(p) = y
  <2>1. \E q \in Peers : q # p
    BY <1>2
  <2>2. Other(p) \in Peers /\ Other(p) # p
    BY <2>1 DEF Other
  <2> QED BY <2>2, <1>2
<1>4. Other(y) = p
  <2>1. \E q \in Peers : q # y
    BY <1>2
  <2>2. Other(y) \in Peers /\ Other(y) # y
    BY <2>1 DEF Other
  <2> QED BY <2>2, <1>2
<1> QED BY <1>2, <1>3, <1>4

\* Variables are functions on the peers, which TypeOK leaves open.
FunctionsOK ==
    /\ DOMAIN disposed = Peers /\ DOMAIN scheduled = Peers /\ DOMAIN lastId = Peers
    /\ DOMAIN calls = Peers /\ DOMAIN pending = Peers /\ DOMAIN sources = Peers
    /\ DOMAIN running = Peers /\ DOMAIN outbox = Peers /\ DOMAIN wire = Peers /\ DOMAIN inbox = Peers

Typed == TypeOK /\ FunctionsOK

LEMMA MessagesTyped ==
    ASSUME NEW p \in Peers, NEW msg \in Messages(p)
    PROVE  /\ msg.type \in {"request", "cancel", "reply"}
           /\ msg.type = "request" => msg.id \in Ids(p) /\ msg.call \in Ids(p) /\ msg.token \in BOOLEAN
           /\ msg.type = "cancel" => msg.id \in Ids(p)
           /\ msg.type = "reply" => /\ msg.id \in Ids(Other(p)) /\ msg.call \in Ids(Other(p))
                                    /\ msg.outcome \in {"returned", "threw"}
BY DEF Messages

LEMMA IdsAre ==
    ASSUME NEW p \in Peers
    PROVE  MaxCalls[p] \in Nat /\ Ids(p) = 1 .. MaxCalls[p] /\ Ids(p) \subseteq Nat /\ 0 \notin Ids(p)
BY BoundAssumption DEF Ids

-----------------------------------------------------------------------------
(* The messages under way in both directions *)

Sent(p) == Contents(Road(p))

LEMMA RoadsAre ==
    ASSUME Typed, NEW p \in Peers
    PROVE  /\ inbox[Other(p)] \in Seq(Messages(p)) /\ wire[p] \in Seq(Seq(Messages(p)))
           /\ outbox[p] \in Seq(Messages(p))
           /\ Road(p) = Batches(inbox[Other(p)], wire[p], outbox[p])
           /\ Sent(p) \subseteq Messages(p)
<1>1. /\ inbox[Other(p)] \in Seq(Messages(p)) /\ wire[p] \in Seq(Seq(Messages(p)))
      /\ outbox[p] \in Seq(Messages(p))
  BY TwoPeers DEF Typed, TypeOK
<1>2. Road(p) = Batches(inbox[Other(p)], wire[p], outbox[p])
  BY DEF Road, Batches
<1>3. Road(p) \in Seq(Seq(Messages(p)))
  <2>1. AreBatches(Road(p), Messages(p), inbox[Other(p)], wire[p], outbox[p])
    BY <1>1, <1>2, BatchesAre
  <2> QED BY <2>1 DEF AreBatches
<1>4. Sent(p) \subseteq Messages(p)
  <2> SUFFICES ASSUME NEW b \in DOMAIN Road(p), NEW i \in DOMAIN Road(p)[b]
               PROVE  Road(p)[b][i] \in Messages(p)
    BY DEF Sent, Contents
  <2>1. Road(p)[b] \in Seq(Messages(p))
    BY <1>3, ElementOfSeq, LenProperties
  <2> QED BY <2>1, ElementOfSeq, LenProperties
<1> QED BY <1>1, <1>2, <1>4

\* A message that is no second request or reply, and no request that was cancelled before.
Fits(msg, sent) ==
    \A m \in sent : m.id = msg.id =>
        (msg.type # "cancel" => m.type # msg.type) /\ (msg.type = "request" => m.type # "cancel")

LEMMA Sending ==
    ASSUME Typed, NEW p \in Peers, NEW msg \in Messages(p), Send(p, msg), UNCHANGED <<wire, inbox>>
    PROVE  /\ Sent(p)' = Sent(p) \cup {msg}
           /\ Sent(Other(p))' = Sent(Other(p))
           /\ Ordered(Road(p)) /\ Fits(msg, Sent(p)) => Ordered(Road(p))'
           /\ Ordered(Road(Other(p))) => Ordered(Road(Other(p)))'
<1> DEFINE q == Other(p)
<1>1. q \in Peers /\ q # p /\ Other(q) = p
  BY TwoPeers
<1>2. outbox'[p] = Append(outbox[p], msg) /\ outbox'[q] = outbox[q]
  BY <1>1 DEF Send, Typed, FunctionsOK
<1> HIDE DEF q
<1>3. Road(p)' = Batches(inbox[Other(p)], wire[p], Append(outbox[p], msg))
  BY <1>2 DEF Road, Batches
<1>4. Road(q)' = Road(q)
  BY <1>2 DEF Road
<1>5. /\ Sent(p)' = Sent(p) \cup {msg}
      /\ Ordered(Road(p)) /\ Fits(msg, Sent(p)) => Ordered(Road(p))'
  BY <1>3, RoadsAre, RoadExtended DEF Sent, Fits
<1> QED BY <1>4, <1>5 DEF q, Sent

LEMMA Flushing ==
    ASSUME Typed, NEW p \in Peers, SendAccumulated(p), NEW r \in Peers
    PROVE  Sent(r)' = Sent(r) /\ (Ordered(Road(r)) => Ordered(Road(r))')
<1>1. /\ wire'[p] = Append(wire[p], outbox[p]) /\ outbox'[p] = <<>> /\ inbox' = inbox
      /\ r # p => wire'[r] = wire[r] /\ outbox'[r] = outbox[r]
  BY DEF SendAccumulated, Typed, FunctionsOK
<1>2. CASE r = p
  <2>1. Road(p)' = Batches(inbox[Other(p)], Append(wire[p], outbox[p]), <<>>)
    BY <1>1 DEF Road, Batches
  <2> QED BY <1>2, <2>1, RoadsAre, RoadFlushed DEF Sent
<1>3. CASE r # p
  <2>1. Road(r)' = Road(r)
    BY <1>1, <1>3 DEF Road
  <2> QED BY <2>1 DEF Sent
<1> QED BY <1>2, <1>3

LEMMA Receiving ==
    ASSUME Typed, NEW p \in Peers, Receive(p), NEW r \in Peers
    PROVE  /\ Sent(r)' \subseteq Sent(r)
           /\ ~disposed[p] => Sent(r)' = Sent(r)
           /\ Ordered(Road(r)) => Ordered(Road(r))'
<1> DEFINE q == Other(p)
<1>1. q \in Peers /\ q # p /\ Other(q) = p /\ (r = p \/ r = q)
  BY TwoPeers
<1>2. /\ wire[q] # <<>> /\ inbox[p] = <<>> /\ wire'[q] = Tail(wire[q]) /\ outbox' = outbox
      /\ inbox'[p] = IF disposed[p] THEN <<>> ELSE Head(wire[q])
      /\ wire'[p] = wire[p] /\ inbox'[q] = inbox[q]
  BY <1>1 DEF Receive, Idle, sending, Typed, FunctionsOK
<1> HIDE DEF q
<1>3. CASE r = p
  <2>1. Road(p)' = Road(p)
    BY <1>1, <1>2 DEF Road, q
  <2> QED BY <1>3, <2>1 DEF Sent
<1>4. CASE r = q
  <2>1. Road(q) = Batches(<<>>, wire[q], outbox[q]) /\ wire[q] \in Seq(Seq(Messages(q)))
        /\ outbox[q] \in Seq(Messages(q))
    BY <1>1, <1>2, RoadsAre
  <2>2. CASE disposed[p]
    <3>1. Road(q)' = Batches(<<>>, Tail(wire[q]), outbox[q])
      BY <1>1, <1>2, <2>2 DEF Road, Batches
    <3> QED BY <1>2, <1>4, <2>1, <2>2, <3>1, RoadIgnored DEF Sent
  <2>3. CASE ~disposed[p]
    <3>1. Road(q)' = Batches(Head(wire[q]), Tail(wire[q]), outbox[q])
      BY <1>1, <1>2, <2>3 DEF Road, Batches
    <3> QED BY <1>2, <1>4, <2>1, <3>1, RoadReceived DEF Sent
  <2> QED BY <2>2, <2>3
<1> QED BY <1>1, <1>3, <1>4

\* What is handled is the first message of the road from the other peer.
LEMMA Handling ==
    ASSUME Typed, NEW p \in Peers, ReceiveOneMessage(p)
    PROVE  LET q == Other(p)
               msg == Head(inbox[p])
           IN  /\ msg \in Messages(q)
               /\ Sent(p)' = Sent(p)
               /\ Sent(q) = Sent(q)' \cup {msg}
               /\ Ordered(Road(p)) => Ordered(Road(p))'
               /\ Ordered(Road(q)) =>
                     /\ Ordered(Road(q))'
                     /\ \A m \in Sent(q)' : m.id = msg.id =>
                           /\ msg.type # "cancel" => m.type # msg.type
                           /\ msg.type = "cancel" => m.type # "request"
<1> DEFINE q == Other(p)
<1>1. q \in Peers /\ q # p /\ Other(q) = p
  BY TwoPeers
<1>2. /\ inbox[p] # <<>> /\ inbox'[p] = Tail(inbox[p]) /\ inbox'[q] = inbox[q]
      /\ wire' = wire /\ outbox' = outbox
  BY <1>1 DEF ReceiveOneMessage, sending, Typed, FunctionsOK
<1> HIDE DEF q
<1>3. Road(p)' = Road(p)
  BY <1>2 DEF Road, q
<1>4. Road(q) = Batches(inbox[p], wire[q], outbox[q]) /\ inbox[p] \in Seq(Messages(q))
      /\ wire[q] \in Seq(Seq(Messages(q))) /\ outbox[q] \in Seq(Messages(q))
  BY <1>1, RoadsAre
<1>5. Road(q)' = Batches(Tail(inbox[p]), wire[q], outbox[q])
  BY <1>1, <1>2 DEF Road, Batches
<1>6. Head(inbox[p]) \in Messages(q)
  BY <1>2, <1>4, HeadTailProperties
<1>7. /\ Sent(q) = Sent(q)' \cup {Head(inbox[p])}
      /\ Ordered(Road(q)) =>
            /\ Ordered(Road(q))'
            /\ \A m \in Sent(q)' : m.id = Head(inbox[p]).id =>
                  /\ Head(inbox[p]).type # "cancel" => m.type # Head(inbox[p]).type
                  /\ Head(inbox[p]).type = "cancel" => m.type # "request"
  BY <1>2, <1>4, <1>5, RoadHandled, SMTT(30) DEF Sent
<1> QED BY <1>3, <1>6, <1>7 DEF q, Sent

LEMMA Dropping ==
    ASSUME Typed, NEW p \in Peers, Dispose(p), NEW r \in Peers
    PROVE  Sent(r)' \subseteq Sent(r) /\ (Ordered(Road(r)) => Ordered(Road(r))')
<1> DEFINE q == Other(r)
<1>1. q \in Peers
  BY TwoPeers
<1>2. wire' = wire /\ outbox'[r] \in {outbox[r], <<>>} /\ inbox'[q] \in {inbox[q], <<>>}
  BY <1>1 DEF Dispose, Typed, FunctionsOK
<1> HIDE DEF q
<1>3. Road(r)' = Batches(inbox'[q], wire[r], outbox'[r])
  BY <1>2 DEF Road, Batches, q
<1>4. Road(r) = Batches(inbox[q], wire[r], outbox[r]) /\ inbox[q] \in Seq(Messages(r))
      /\ wire[r] \in Seq(Seq(Messages(r))) /\ outbox[r] \in Seq(Messages(r))
  BY RoadsAre DEF q
<1> QED BY <1>2, <1>3, <1>4, RoadCut DEF Sent

-----------------------------------------------------------------------------
(* The calls of one peer *)

\* What is on the way of the calls of p: requests and cancellations, and the replies.
Asks(p) == {m \in Sent(p) : m.type # "reply"}
Answers(p) == {m \in Sent(Other(p)) : m.type = "reply"}

\* Ids are given once, in order, and only to calls that are sent.
IdsOK(p) ==
    /\ Len(calls[p]) <= MaxCalls[p]
    /\ lastId[p] <= Len(calls[p])
    /\ \A n \in DOMAIN calls[p] :
          /\ calls[p][n].id <= lastId[p]
          /\ calls[p][n].id = 0 => /\ calls[p][n].promise # "pending"
                                   /\ calls[p][n].token = "none"
                                   /\ calls[p][n].handler = "none"
          /\ \A m \in DOMAIN calls[p] : calls[p][m].id = calls[p][n].id /\ calls[p][n].id # 0 => m = n

\* Exactly the pending calls are found under their ids.
PendingOK(p) ==
    /\ \A id \in Ids(p) : pending[p][id] # 0 =>
          /\ pending[p][id] \in DOMAIN calls[p]
          /\ calls[p][pending[p][id]].id = id
          /\ calls[p][pending[p][id]].promise = "pending"
    /\ \A n \in DOMAIN calls[p] : calls[p][n].promise = "pending" => pending[p][calls[p][n].id] = n

Knows(p, n, id, handler) ==
    n \in DOMAIN calls[p] /\ calls[p][n].id = id /\ calls[p][n].handler = handler
WithToken(p, n) == calls[p][n].token # "none"
CancelledAs(p, id) == \E n \in DOMAIN calls[p] : calls[p][n].id = id /\ calls[p][n].token = "cancelled"

\* What a message or an invocation says of its call is true, and tells how far that is.
MessagesOK(p) ==
    /\ \A m \in Asks(p) : m.type = "request" =>
          Knows(p, m.call, m.id, "none") /\ (m.token <=> WithToken(p, m.call))
    /\ \A m \in Asks(p) : m.type = "cancel" => CancelledAs(p, m.id)
    /\ \A m \in Answers(p) : Knows(p, m.call, m.id, m.outcome)
HandlersOK(p) ==
    /\ \A inv \in running[Other(p)] :
          Knows(p, inv.call, inv.id, "running") /\ (inv.token <=> WithToken(p, inv.call))
    /\ \A id \in Ids(p) :
          sources[Other(p)][id] # "none" <=> \E inv \in running[Other(p)] : inv.id = id /\ inv.token
    /\ \A id \in Ids(p) : sources[Other(p)][id] = "cancelled" => CancelledAs(p, id)

\* Conversely, as long as both peers are up, what belongs to a call is on its way.
BothUp(p) == ~disposed[p] /\ ~disposed[Other(p)]
CallUnderWay(p, c) ==
    /\ c.handler = "none" /\ c.id # 0 => \E m \in Asks(p) : m.type = "request" /\ m.id = c.id
    /\ c.handler = "running" => \E inv \in running[Other(p)] : inv.id = c.id
    /\ c.handler \in {"returned", "threw"} /\ c.promise = "pending" =>
          \E m \in Answers(p) : m.id = c.id
    /\ c.token = "cancelled" /\ c.handler \in {"none", "running"} =>
          \/ \E m \in Asks(p) : m.type = "cancel" /\ m.id = c.id
          \/ c.handler = "running" /\ sources[Other(p)][c.id] = "cancelled"
UnderWay(p) == BothUp(p) => \A n \in DOMAIN calls[p] : CallUnderWay(p, calls[p][n])

CallsOK(p) == IdsOK(p) /\ PendingOK(p) /\ MessagesOK(p) /\ HandlersOK(p) /\ UnderWay(p)

RpcInv == Typed /\ \A p \in Peers : Ordered(Road(p)) /\ CallsOK(p)

\* Nothing happens to the calls of p, but messages may be lost when a peer is down.
Quiet(p) ==
    /\ calls'[p] = calls[p] /\ lastId'[p] = lastId[p] /\ pending'[p] = pending[p]
    /\ sources'[Other(p)] = sources[Other(p)] /\ running'[Other(p)] = running[Other(p)]
    /\ Asks(p)' \subseteq Asks(p) /\ Answers(p)' \subseteq Answers(p)
    /\ BothUp(p)' => BothUp(p) /\ Asks(p)' = Asks(p) /\ Answers(p)' = Answers(p)

LEMMA QuietKeepsCalls ==
    ASSUME NEW p \in Peers, CallsOK(p), Quiet(p)
    PROVE  CallsOK(p)'
<1>1. IdsOK(p)'
  BY DEF CallsOK, IdsOK, Quiet
<1>2. PendingOK(p)'
  BY DEF CallsOK, PendingOK, Quiet
<1>3. MessagesOK(p)'
  BY DEF CallsOK, MessagesOK, Knows, WithToken, CancelledAs, Quiet
<1>4. HandlersOK(p)'
  BY DEF CallsOK, HandlersOK, Knows, WithToken, CancelledAs, Quiet
<1>5. UnderWay(p)'
  BY DEF CallsOK, UnderWay, CallUnderWay, Quiet
<1> QED BY <1>1, <1>2, <1>3, <1>4, <1>5 DEF CallsOK

\* The records of calls.
LEMMA CallsTyped ==
    ASSUME Typed, NEW p \in Peers
    PROVE  /\ calls[p] \in Seq(CallRecords(p)) /\ Len(calls[p]) \in Nat
           /\ DOMAIN calls[p] = 1 .. Len(calls[p])
           /\ \A n \in DOMAIN calls[p] : calls[p][n] \in CallRecords(p)
           /\ lastId[p] \in Nat /\ DOMAIN pending[p] = Ids(p)
           /\ DOMAIN sources[Other(p)] = Ids(p)
<1>1. calls[p] \in Seq(CallRecords(p)) /\ lastId[p] \in Nat /\ pending[p] \in [Ids(p) -> 0 .. MaxCalls[p]]
  BY IdsAre DEF Typed, TypeOK
<1>2. sources[Other(p)] \in [Ids(p) -> {"none", "live", "cancelled"}]
  BY TwoPeers DEF Typed, TypeOK
<1> QED BY <1>1, <1>2, LenProperties, ElementOfSeq

-----------------------------------------------------------------------------
(* Call *)

LEMMA CallTyped ==
    ASSUME Typed, NEW p \in Peers, IdsOK(p), NEW token \in {"none", "live", "cancelled"}, Call(p, token)
    PROVE  Typed'
<1> DEFINE n == Len(calls[p]) + 1
           id == lastId[p] + 1
           made == [id |-> id, token |-> token, promise |-> "pending", handler |-> "none"]
           refuses == disposed[p] \/ token = "cancelled"
           record == IF refuses THEN Refused ELSE made
<1>1. /\ MaxCalls[p] \in Nat /\ Ids(p) = 1 .. MaxCalls[p] /\ Len(calls[p]) \in Nat /\ lastId[p] \in Nat
      /\ calls[p] \in Seq(CallRecords(p)) /\ outbox[p] \in Seq(Messages(p))
  BY IdsAre, CallsTyped, RoadsAre
<1>2. /\ n <= MaxCalls[p] /\ n \in Ids(p) /\ id \in Ids(p) /\ id \in 0 .. MaxCalls[p]
  BY <1>1 DEF Call, IdsOK
<1>3. record \in CallRecords(p)
  BY <1>2 DEF Refused, CallRecords
<1>4. Request(id, n, token = "live") \in Messages(p)
  BY <1>2 DEF Request, Messages
<1>5. /\ calls' = [calls EXCEPT ![p] = Append(@, record)]
      /\ refuses => lastId' = lastId /\ pending' = pending /\ outbox' = outbox /\ scheduled' = scheduled
      /\ ~refuses => /\ lastId' = [lastId EXCEPT ![p] = id]
                     /\ pending' = [pending EXCEPT ![p][id] = n]
                     /\ outbox' = [outbox EXCEPT ![p] = Append(@, Request(id, n, token = "live"))]
                     /\ scheduled' = [scheduled EXCEPT ![p] = TRUE]
      /\ disposed' = disposed /\ sources' = sources /\ running' = running /\ wire' = wire /\ inbox' = inbox
  BY DEF Call, Send, sending, NextId
<1> HIDE DEF n, id, made, record
<1>6. Append(calls[p], record) \in Seq(CallRecords(p))
  BY <1>1, <1>3, AppendProperties
<1>7. Append(outbox[p], Request(id, n, token = "live")) \in Seq(Messages(p))
  BY <1>1, <1>4, AppendProperties
<1>8. FunctionsOK'
  BY <1>5 DEF Typed, FunctionsOK
<1>9. disposed' \in [Peers -> BOOLEAN] /\ scheduled' \in [Peers -> BOOLEAN]
  BY <1>5 DEF Typed, TypeOK
<1>10. ASSUME NEW r \in Peers
       PROVE  /\ lastId'[r] \in 0 .. MaxCalls[r]
              /\ calls'[r] \in Seq(CallRecords(r))
              /\ pending'[r] \in [Ids(r) -> 0 .. MaxCalls[r]]
              /\ sources'[r] \in [Ids(Other(r)) -> {"none", "live", "cancelled"}]
              /\ running'[r] \subseteq [id : Ids(Other(r)), call : Ids(Other(r)), token : BOOLEAN]
              /\ outbox'[r] \in Seq(Messages(r))
              /\ wire'[r] \in Seq(Seq(Messages(r)))
              /\ inbox'[r] \in Seq(Messages(Other(r)))
              /\ outbox'[r] # <<>> => scheduled'[r] /\ ~disposed'[r]
  <2>1. CASE r = p /\ ~refuses
    <3>1. lastId'[p] = id /\ calls'[p] = Append(calls[p], record)
          /\ pending'[p] = [pending[p] EXCEPT ![id] = n]
          /\ outbox'[p] = Append(outbox[p], Request(id, n, token = "live"))
          /\ scheduled'[p] /\ ~disposed'[p]
      BY <1>5, <2>1 DEF Typed, FunctionsOK
    <3>2. pending'[p] \in [Ids(p) -> 0 .. MaxCalls[p]]
      <4>1. pending[p] \in [Ids(p) -> 0 .. MaxCalls[p]] /\ n \in 0 .. MaxCalls[p]
        BY <1>1, <1>2 DEF Typed, TypeOK
      <4> QED BY <3>1, <4>1
    <3> QED BY <2>1, <3>1, <3>2, <1>2, <1>5, <1>6, <1>7 DEF Typed, TypeOK
  <2>2. CASE r = p /\ refuses
    <3>1. calls'[p] = Append(calls[p], record)
      BY <1>5 DEF Typed, FunctionsOK
    <3> QED BY <2>2, <3>1, <1>5, <1>6 DEF Typed, TypeOK
  <2>3. CASE r # p
    <3>1. lastId'[r] = lastId[r] /\ calls'[r] = calls[r] /\ pending'[r] = pending[r]
          /\ outbox'[r] = outbox[r] /\ scheduled'[r] = scheduled[r]
      BY <1>5, <2>3 DEF Typed, FunctionsOK
    <3> QED BY <3>1, <1>5 DEF Typed, TypeOK
  <2> QED BY <2>1, <2>2, <2>3
<1> QED BY <1>8, <1>9, <1>10 DEF Typed, TypeOK

LEMMA CallKeepsCalls ==
    ASSUME Typed, NEW p \in Peers, Ordered(Road(p)), CallsOK(p),
           NEW token \in {"none", "live", "cancelled"}, Call(p, token)
    PROVE  Ordered(Road(p))' /\ CallsOK(p)'
<1> DEFINE q == Other(p)
           N == Len(calls[p]) + 1
           id == lastId[p] + 1
           msg == Request(id, N, token = "live")
           made == [id |-> id, token |-> token, promise |-> "pending", handler |-> "none"]
           refuses == disposed[p] \/ token = "cancelled"
           record == IF refuses THEN Refused ELSE made
<1>1. /\ q \in Peers /\ q # p /\ Other(q) = p
      /\ MaxCalls[p] \in Nat /\ Ids(p) = 1 .. MaxCalls[p] /\ Len(calls[p]) \in Nat /\ lastId[p] \in Nat
      /\ calls[p] \in Seq(CallRecords(p)) /\ DOMAIN calls[p] = 1 .. Len(calls[p])
  BY TwoPeers, IdsAre, CallsTyped
<1>2. /\ N <= MaxCalls[p] /\ N \in Ids(p) /\ id \in Ids(p) /\ id <= N /\ N # 0 /\ id # 0
      /\ lastId[p] < id
  BY <1>1 DEF Call, IdsOK, CallsOK
<1>3. /\ calls' = [calls EXCEPT ![p] = Append(@, record)]
      /\ refuses => lastId' = lastId /\ pending' = pending /\ outbox' = outbox
      /\ ~refuses => /\ lastId' = [lastId EXCEPT ![p] = id]
                     /\ pending' = [pending EXCEPT ![p][id] = N]
                     /\ Send(p, msg)
      /\ disposed' = disposed /\ sources' = sources /\ running' = running /\ wire' = wire /\ inbox' = inbox
  BY DEF Call, sending, NextId
<1>4. record.id \in Nat /\ record \in CallRecords(p)
  BY <1>1, <1>2 DEF Refused, CallRecords
<1> HIDE DEF record
<1>5. /\ Len(calls'[p]) = N /\ DOMAIN calls'[p] = 1 .. N
      /\ \A n \in DOMAIN calls[p] : n \in DOMAIN calls'[p] /\ n # N /\ calls'[p][n] = calls[p][n]
      /\ \A n \in DOMAIN calls'[p] : n \in DOMAIN calls[p] \/ n = N
      /\ N \in DOMAIN calls'[p] /\ calls'[p][N] = record
  <2>1. calls'[p] = Append(calls[p], record)
    BY <1>3 DEF Typed, FunctionsOK
  <2>2. /\ Append(calls[p], record) \in Seq(CallRecords(p)) /\ Len(Append(calls[p], record)) = N
        /\ \A n \in 1 .. Len(calls[p]) : Append(calls[p], record)[n] = calls[p][n]
        /\ Append(calls[p], record)[N] = record
    BY <1>1, <1>4, AppendProperties
  <2>3. DOMAIN Append(calls[p], record) = 1 .. N
    BY <2>2, LenProperties
  <2>4. \A n \in 1 .. Len(calls[p]) : n \in 1 .. N /\ n # N
    BY <1>1
  <2>5. \A n \in 1 .. N : n \in 1 .. Len(calls[p]) \/ n = N
    BY <1>1
  <2>6. N \in 1 .. N
    BY <1>1
  <2> QED BY <2>1, <2>2, <2>3, <2>4, <2>5, <2>6, <1>1
<1>6. /\ \A n \in DOMAIN calls[p] : calls[p][n] \in CallRecords(p)
      /\ \A n \in DOMAIN calls[p] : calls[p][n].id # id /\ calls[p][n].id \in Nat
  <2>1. \A n \in DOMAIN calls[p] : calls[p][n] \in CallRecords(p)
    BY CallsTyped
  <2>2. \A n \in DOMAIN calls[p] : calls[p][n].id \in Nat
    BY <2>1, <1>1 DEF CallRecords
  <2>3. \A n \in DOMAIN calls[p] : calls[p][n].id <= lastId[p]
    BY DEF CallsOK, IdsOK
  <2> QED BY <2>1, <2>2, <2>3, <1>1
<1>7. /\ \A n, i, h : Knows(p, n, i, h) => Knows(p, n, i, h)' /\ (WithToken(p, n)' <=> WithToken(p, n))
      /\ \A i : CancelledAs(p, i) => CancelledAs(p, i)'
  BY <1>5 DEF Knows, WithToken, CancelledAs
<1> HIDE DEF q, N, id, msg
<1>8. CASE refuses
  <2>1. record = Refused
    BY <1>8 DEF record
  <2>2. /\ lastId' = lastId /\ pending' = pending /\ \A r \in Peers : Road(r)' = Road(r)
    BY <1>3, <1>8 DEF Road
  <2>3. Asks(p)' = Asks(p) /\ Answers(p)' = Answers(p) /\ Ordered(Road(p))'
    BY <2>2, <1>1 DEF Asks, Answers, Sent, q
  <2>4. IdsOK(p)'
    <3>1. Len(calls'[p]) <= MaxCalls[p] /\ lastId'[p] <= Len(calls'[p])
      BY <2>2, <1>1, <1>2, <1>5 DEF CallsOK, IdsOK, N
    <3>2. ASSUME NEW n \in DOMAIN calls'[p]
          PROVE  /\ calls'[p][n].id <= lastId'[p]
                 /\ calls'[p][n].id = 0 => /\ calls'[p][n].promise # "pending"
                                           /\ calls'[p][n].token = "none"
                                           /\ calls'[p][n].handler = "none"
                 /\ \A m \in DOMAIN calls'[p] :
                       calls'[p][m].id = calls'[p][n].id /\ calls'[p][n].id # 0 => m = n
      BY <2>1, <2>2, <1>1, <1>5, SMTT(30) DEF CallsOK, IdsOK, Refused
    <3> QED BY <3>1, <3>2 DEF IdsOK
  <2>5. PendingOK(p)'
    BY <2>1, <2>2, <1>5 DEF CallsOK, PendingOK, Refused
  <2>6. MessagesOK(p)'
    BY <2>3, <1>7 DEF CallsOK, MessagesOK
  <2>7. HandlersOK(p)'
    BY <1>3, <1>7 DEF CallsOK, HandlersOK
  <2>8. UnderWay(p)'
    BY <2>1, <2>3, <1>3, <1>5 DEF CallsOK, UnderWay, CallUnderWay, BothUp, Refused
  <2> QED BY <2>3, <2>4, <2>5, <2>6, <2>7, <2>8 DEF CallsOK
<1>9. CASE ~refuses
  <2>1. record = [id |-> id, token |-> token, promise |-> "pending", handler |-> "none"]
        /\ token \in {"none", "live"}
    BY <1>9 DEF record, id
  <2>2. /\ lastId'[p] = id /\ DOMAIN pending'[p] = Ids(p) /\ pending'[p][id] = N
        /\ \A i \in Ids(p) : i # id => pending'[p][i] = pending[p][i]
    BY <1>2, <1>3, <1>9, CallsTyped DEF Typed, FunctionsOK
  <2>3. /\ msg \in Messages(p) /\ msg.type = "request" /\ msg.id = id /\ msg.call = N
        /\ msg.token = (token = "live")
    BY <1>2 DEF Request, Messages, msg
  <2>4. Send(p, msg) /\ UNCHANGED <<wire, inbox>>
    BY <1>3, <1>9
  <2>5. \A m \in Sent(p) : m.type # "reply" => m.id # id
    <3> SUFFICES ASSUME NEW m \in Asks(p) PROVE m.id # id
      BY DEF Asks
    <3>1. m.type = "request" \/ m.type = "cancel"
      BY RoadsAre, MessagesTyped DEF Asks
    <3> QED BY <3>1, <1>6 DEF CallsOK, MessagesOK, Knows, CancelledAs
  <2>6. Fits(msg, Sent(p))
    BY <2>3, <2>5 DEF Fits
  <2>7. /\ Sent(p)' = Sent(p) \cup {msg} /\ Sent(q)' = Sent(q) /\ Ordered(Road(p))'
    BY <2>3, <2>4, <2>6, Sending DEF q
  <2>8. Asks(p)' = Asks(p) \cup {msg} /\ Answers(p)' = Answers(p)
    BY <2>3, <2>7 DEF Asks, Answers, q
  <2>9. IdsOK(p)'
    <3>1. Len(calls'[p]) <= MaxCalls[p] /\ lastId'[p] <= Len(calls'[p])
      BY <2>2, <1>2, <1>5
    <3>2. ASSUME NEW n \in DOMAIN calls'[p]
          PROVE  /\ calls'[p][n].id <= lastId'[p]
                 /\ calls'[p][n].id = 0 => /\ calls'[p][n].promise # "pending"
                                           /\ calls'[p][n].token = "none"
                                           /\ calls'[p][n].handler = "none"
                 /\ \A m \in DOMAIN calls'[p] :
                       calls'[p][m].id = calls'[p][n].id /\ calls'[p][n].id # 0 => m = n
      <4>1. CASE n = N
        BY <4>1, <2>1, <2>2, <1>1, <1>2, <1>5, <1>6
      <4>2. CASE n \in DOMAIN calls[p]
        <5>1. calls'[p][n].id <= lastId'[p]
          <6>1. calls[p][n].id <= lastId[p] /\ calls[p][n].id \in Nat
            BY <4>2, <1>6 DEF CallsOK, IdsOK
          <6> QED BY <6>1, <4>2, <2>2, <1>1, <1>2, <1>5, SMTT(30) DEF id
        <5>2. ASSUME NEW m \in DOMAIN calls'[p], calls'[p][m].id = calls'[p][n].id, calls'[p][n].id # 0
              PROVE  m = n
          <6>1. m # N
            BY <5>2, <4>2, <2>1, <1>5, <1>6
          <6> QED BY <6>1, <5>2, <4>2, <1>5 DEF CallsOK, IdsOK
        <5>3. calls'[p][n].id = 0 => /\ calls'[p][n].promise # "pending"
                                     /\ calls'[p][n].token = "none"
                                     /\ calls'[p][n].handler = "none"
          BY <4>2, <1>5 DEF CallsOK, IdsOK
        <5> QED BY <5>1, <5>2, <5>3
      <4> QED BY <4>1, <4>2, <1>5
    <3> QED BY <3>1, <3>2 DEF IdsOK
  <2>10. PendingOK(p)'
    <3>1. ASSUME NEW i \in Ids(p), pending'[p][i] # 0
          PROVE  /\ pending'[p][i] \in DOMAIN calls'[p]
                 /\ calls'[p][pending'[p][i]].id = i
                 /\ calls'[p][pending'[p][i]].promise = "pending"
      <4>1. CASE i = id
        BY <4>1, <2>1, <2>2, <1>5
      <4>2. CASE i # id
        BY <4>2, <3>1, <2>2, <1>5 DEF CallsOK, PendingOK
      <4> QED BY <4>1, <4>2
    <3>2. ASSUME NEW n \in DOMAIN calls'[p], calls'[p][n].promise = "pending"
          PROVE  pending'[p][calls'[p][n].id] = n
      <4>1. CASE n = N
        BY <4>1, <2>1, <2>2, <1>5
      <4>2. CASE n \in DOMAIN calls[p]
        <5>1. calls'[p][n] = calls[p][n] /\ calls[p][n].id # id /\ pending[p][calls[p][n].id] = n
          BY <4>2, <3>2, <1>5, <1>6 DEF CallsOK, PendingOK
        <5>2. calls[p][n].id \in Ids(p)
          <6>1. calls[p][n].id # 0
            BY <4>2, <5>1, <3>2 DEF CallsOK, IdsOK
          <6> QED BY <6>1, <4>2, <1>6 DEF CallRecords
        <5> QED BY <5>1, <5>2, <2>2
      <4> QED BY <4>1, <4>2, <1>5
    <3> QED BY <3>1, <3>2 DEF PendingOK
  <2>11. MessagesOK(p)'
    <3>1. /\ N \in DOMAIN calls'[p] /\ calls'[p][N].id = id /\ calls'[p][N].handler = "none"
          /\ calls'[p][N].token # "none" <=> token = "live"
      BY <2>1, <1>5
    <3>2. ASSUME NEW m \in Asks(p)'
          PROVE  /\ m.type = "request" =>
                       Knows(p, m.call, m.id, "none")' /\ (m.token <=> WithToken(p, m.call)')
                 /\ m.type = "cancel" => CancelledAs(p, m.id)'
      <4>1. CASE m = msg
        BY <4>1, <3>1, <2>3 DEF Knows, WithToken
      <4>2. CASE m \in Asks(p)
        BY <4>2, <1>7 DEF CallsOK, MessagesOK
      <4> QED BY <4>1, <4>2, <2>8
    <3>3. \A m \in Answers(p)' : Knows(p, m.call, m.id, m.outcome)'
      BY <2>8, <1>7 DEF CallsOK, MessagesOK
    <3> QED BY <3>2, <3>3 DEF MessagesOK
  <2>12. HandlersOK(p)'
    BY <1>3, <1>7 DEF CallsOK, HandlersOK
  <2>13. UnderWay(p)'
    <3> SUFFICES ASSUME BothUp(p)', NEW n \in DOMAIN calls'[p]
                 PROVE  CallUnderWay(p, calls[p][n])'
      BY DEF UnderWay
    <3>1. CASE n = N
      BY <3>1, <2>1, <2>3, <2>8, <1>5 DEF CallUnderWay
    <3>2. CASE n \in DOMAIN calls[p]
      <4>1. CallUnderWay(p, calls[p][n])
        BY <3>2, <1>3 DEF CallsOK, UnderWay, BothUp
      <4> QED BY <3>2, <4>1, <2>8, <1>3, <1>5 DEF CallUnderWay
    <3> QED BY <3>1, <3>2, <1>5
  <2> QED BY <2>7, <2>9, <2>10, <2>11, <2>12, <2>13 DEF CallsOK
<1> QED BY <1>8, <1>9

-----------------------------------------------------------------------------
(* Steps that change one call, and the cancellation of a token *)

\* The record of the n-th call of p becomes c.
Becomes(p, n, c) ==
    /\ DOMAIN calls' = Peers /\ \A r \in Peers : r # p => calls'[r] = calls[r]
    /\ calls'[p] \in Seq(CallRecords(p)) /\ Len(calls'[p]) = Len(calls[p])
    /\ DOMAIN calls'[p] = DOMAIN calls[p]
    /\ \A m \in DOMAIN calls[p] : calls'[p][m] = IF m = n THEN c ELSE calls[p][m]

LEMMA OneCallChanges ==
    ASSUME Typed, NEW p \in Peers, NEW n \in DOMAIN calls[p], NEW c \in CallRecords(p),
           calls' = [calls EXCEPT ![p] = [@ EXCEPT ![n] = c]]
    PROVE  Becomes(p, n, c)
<1>1. calls[p] \in Seq(CallRecords(p)) /\ DOMAIN calls[p] = 1 .. Len(calls[p])
  BY CallsTyped
<1>2. calls'[p] = [calls[p] EXCEPT ![n] = c] /\ DOMAIN calls' = Peers
      /\ \A r \in Peers : r # p => calls'[r] = calls[r]
  BY DEF Typed, FunctionsOK
<1>3. /\ calls'[p] \in Seq(CallRecords(p)) /\ Len(calls'[p]) = Len(calls[p])
      /\ \A m \in 1 .. Len(calls[p]) : calls'[p][m] = IF m = n THEN c ELSE calls[p][m]
  BY <1>1, <1>2, ExceptSeq
<1>4. DOMAIN calls'[p] = 1 .. Len(calls[p])
  BY <1>3, LenProperties
<1> QED BY <1>1, <1>2, <1>3, <1>4 DEF Becomes

\* The other variables of one peer are still well typed when they have not changed.
LEMMA MostlyTyped ==
    ASSUME Typed,
           DOMAIN disposed' = Peers, DOMAIN scheduled' = Peers, DOMAIN lastId' = Peers,
           DOMAIN calls' = Peers, DOMAIN pending' = Peers, DOMAIN sources' = Peers,
           DOMAIN running' = Peers, DOMAIN outbox' = Peers, DOMAIN wire' = Peers, DOMAIN inbox' = Peers,
           disposed' \in [Peers -> BOOLEAN], scheduled' \in [Peers -> BOOLEAN],
           \A r \in Peers :
              /\ lastId'[r] = lastId[r]
              /\ calls'[r] = calls[r] \/ calls'[r] \in Seq(CallRecords(r))
              /\ pending'[r] = pending[r] \/ pending'[r] \in [Ids(r) -> 0 .. MaxCalls[r]]
              /\ \/ sources'[r] = sources[r]
                 \/ sources'[r] \in [Ids(Other(r)) -> {"none", "live", "cancelled"}]
              /\ \/ running'[r] = running[r]
                 \/ running'[r] \subseteq [id : Ids(Other(r)), call : Ids(Other(r)), token : BOOLEAN]
              /\ wire'[r] = wire[r] \/ wire'[r] \in Seq(Seq(Messages(r)))
              /\ inbox'[r] = inbox[r] \/ inbox'[r] \in Seq(Messages(Other(r)))
              /\ \/ outbox'[r] = outbox[r] /\ (scheduled[r] => scheduled'[r]) /\ disposed'[r] = disposed[r]
                 \/ outbox'[r] = <<>>
                 \/ outbox'[r] \in Seq(Messages(r)) /\ scheduled'[r] /\ ~disposed'[r]
    PROVE  Typed'
<1>1. FunctionsOK'
  BY DEF FunctionsOK
<1>2. ASSUME NEW r \in Peers
      PROVE  /\ lastId'[r] \in 0 .. MaxCalls[r]
             /\ calls'[r] \in Seq(CallRecords(r))
             /\ pending'[r] \in [Ids(r) -> 0 .. MaxCalls[r]]
             /\ sources'[r] \in [Ids(Other(r)) -> {"none", "live", "cancelled"}]
             /\ running'[r] \subseteq [id : Ids(Other(r)), call : Ids(Other(r)), token : BOOLEAN]
             /\ outbox'[r] \in Seq(Messages(r))
             /\ wire'[r] \in Seq(Seq(Messages(r)))
             /\ inbox'[r] \in Seq(Messages(Other(r)))
             /\ outbox'[r] # <<>> => scheduled'[r] /\ ~disposed'[r]
  <2>1. <<>> \in Seq(Messages(r))
    OBVIOUS
  <2>2. /\ lastId[r] \in 0 .. MaxCalls[r]
        /\ calls[r] \in Seq(CallRecords(r))
        /\ pending[r] \in [Ids(r) -> 0 .. MaxCalls[r]]
        /\ sources[r] \in [Ids(Other(r)) -> {"none", "live", "cancelled"}]
        /\ running[r] \subseteq [id : Ids(Other(r)), call : Ids(Other(r)), token : BOOLEAN]
        /\ outbox[r] \in Seq(Messages(r))
        /\ wire[r] \in Seq(Seq(Messages(r)))
        /\ inbox[r] \in Seq(Messages(Other(r)))
        /\ outbox[r] # <<>> => scheduled[r] /\ ~disposed[r]
    BY DEF Typed, TypeOK
  <2> QED BY <2>1, <2>2
<1> QED BY <1>1, <1>2 DEF Typed, TypeOK

\* What Send does to the variables it changes.
LEMMA SendTyped ==
    ASSUME Typed, NEW p \in Peers, NEW msg \in Messages(p), Send(p, msg)
    PROVE  /\ DOMAIN outbox' = Peers /\ DOMAIN scheduled' = Peers /\ scheduled' \in [Peers -> BOOLEAN]
           /\ outbox'[p] \in Seq(Messages(p)) /\ scheduled'[p]
           /\ \A r \in Peers : r # p => outbox'[r] = outbox[r] /\ scheduled'[r] = scheduled[r]
<1>1. outbox[p] \in Seq(Messages(p)) /\ scheduled \in [Peers -> BOOLEAN]
  BY DEF Typed, TypeOK
<1>2. Append(outbox[p], msg) \in Seq(Messages(p))
  BY <1>1, AppendProperties
<1> QED BY <1>1, <1>2 DEF Send, Typed, FunctionsOK

LEMMA CancelTokenSafe ==
    ASSUME Typed, NEW p \in Peers, \A r \in Peers : Ordered(Road(r)) /\ CallsOK(r),
           NEW n \in DOMAIN calls[p], CancelToken(p, n)
    PROVE  Typed' /\ \A r \in Peers : Ordered(Road(r))' /\ CallsOK(r)'
<1> DEFINE q == Other(p)
           c == [calls[p][n] EXCEPT !.token = "cancelled"]
           msg == CancelOf(calls[p][n].id)
<1>1. /\ q \in Peers /\ q # p /\ Other(q) = p /\ \A r \in Peers : r = p \/ r = q
      /\ calls[p][n] \in CallRecords(p) /\ calls[p][n].token = "live" /\ 0 \notin Ids(p)
  BY TwoPeers, CallsTyped, IdsAre DEF CancelToken
<1>2. calls[p][n].id \in Ids(p)
  <2>1. calls[p][n].id # 0
    BY <1>1 DEF CallsOK, IdsOK
  <2> QED BY <2>1, <1>1 DEF CallRecords
<1>3. /\ c \in CallRecords(p) /\ c.id = calls[p][n].id /\ c.token = "cancelled"
      /\ c.promise = calls[p][n].promise /\ c.handler = calls[p][n].handler
  BY <1>1 DEF CallRecords
<1>4. /\ calls' = [calls EXCEPT ![p] = [@ EXCEPT ![n] = c]]
      /\ disposed[p] => outbox' = outbox /\ scheduled' = scheduled
      /\ ~disposed[p] => Send(p, msg)
      /\ disposed' = disposed /\ lastId' = lastId /\ pending' = pending /\ sources' = sources
      /\ running' = running /\ wire' = wire /\ inbox' = inbox
  BY DEF CancelToken, sending
<1>5. msg \in Messages(p) /\ msg.type = "cancel" /\ msg.id = calls[p][n].id
  BY <1>2 DEF CancelOf, Messages
<1> HIDE DEF c, msg, q
<1>6. Becomes(p, n, c)
  BY <1>3, <1>4, OneCallChanges
<1>7. Typed'
  <2>1. CASE disposed[p]
    BY <2>1, <1>4, <1>6, MostlyTyped, SMTT(30) DEF Typed, TypeOK, FunctionsOK, Becomes
  <2>2. CASE ~disposed[p]
    <3>1. /\ DOMAIN outbox' = Peers /\ DOMAIN scheduled' = Peers /\ scheduled' \in [Peers -> BOOLEAN]
          /\ outbox'[p] \in Seq(Messages(p)) /\ scheduled'[p]
          /\ \A r \in Peers : r # p => outbox'[r] = outbox[r] /\ scheduled'[r] = scheduled[r]
      BY <2>2, <1>4, <1>5, SendTyped
    <3> QED BY <3>1, <2>2, <1>4, <1>6, MostlyTyped, SMTT(30) DEF Typed, TypeOK, FunctionsOK, Becomes
  <2> QED BY <2>1, <2>2
<1>8. /\ Ordered(Road(p))' /\ Ordered(Road(q))' /\ Sent(q)' = Sent(q)
      /\ Sent(p)' \in {Sent(p), Sent(p) \cup {msg}} /\ (~disposed[p] => msg \in Sent(p)')
  <2>1. CASE disposed[p]
    <3>1. Road(p)' = Road(p) /\ Road(q)' = Road(q)
      BY <2>1, <1>4 DEF Road
    <3> QED BY <2>1, <3>1, <1>1 DEF Sent
  <2>2. CASE ~disposed[p]
    <3>1. Fits(msg, Sent(p))
      BY <1>5 DEF Fits
    <3> QED BY <2>2, <3>1, <1>1, <1>4, <1>5, Sending DEF q
  <2> QED BY <2>1, <2>2
<1>9. /\ Asks(p)' \in {Asks(p), Asks(p) \cup {msg}} /\ (~disposed[p] => msg \in Asks(p)')
      /\ Answers(p)' = Answers(p)
      /\ Asks(q)' = Asks(q) /\ Answers(q)' = Answers(q)
  BY <1>1, <1>5, <1>8 DEF Asks, Answers, q
<1>10. CallsOK(q)'
  BY <1>1, <1>4, <1>6, <1>9, QuietKeepsCalls DEF Quiet, Becomes, BothUp
<1>11. CallsOK(p)'
  <2>1. /\ DOMAIN calls'[p] = DOMAIN calls[p]
        /\ \A m \in DOMAIN calls[p] : /\ calls'[p][m].id = calls[p][m].id
                                      /\ calls'[p][m].promise = calls[p][m].promise
                                      /\ calls'[p][m].handler = calls[p][m].handler
                                      /\ m # n => calls'[p][m].token = calls[p][m].token
        /\ calls'[p][n].token = "cancelled" /\ Len(calls'[p]) = Len(calls[p])
    BY <1>3, <1>6 DEF Becomes
  <2>2. /\ \A m, i, h : Knows(p, m, i, h) => Knows(p, m, i, h)' /\ (WithToken(p, m)' <=> WithToken(p, m))
        /\ \A i : CancelledAs(p, i) => CancelledAs(p, i)'
    BY <2>1, <1>1 DEF Knows, WithToken, CancelledAs
  <2>3. IdsOK(p)'
    <3>1. calls[p][n].id # 0
      BY <1>1, <1>2
    <3>2. ASSUME NEW m \in DOMAIN calls'[p]
          PROVE  /\ calls'[p][m].id <= lastId'[p]
                 /\ calls'[p][m].id = 0 => /\ calls'[p][m].promise # "pending"
                                           /\ calls'[p][m].token = "none"
                                           /\ calls'[p][m].handler = "none"
                 /\ \A k \in DOMAIN calls'[p] :
                       calls'[p][k].id = calls'[p][m].id /\ calls'[p][m].id # 0 => k = m
      BY <2>1, <3>1, <1>4 DEF CallsOK, IdsOK
    <3> QED BY <2>1, <3>2, <1>4 DEF CallsOK, IdsOK
  <2>4. PendingOK(p)'
    BY <2>1, <1>4 DEF CallsOK, PendingOK
  <2>5. MessagesOK(p)'
    <3>1. ASSUME NEW m \in Asks(p)'
          PROVE  /\ m.type = "request" =>
                       Knows(p, m.call, m.id, "none")' /\ (m.token <=> WithToken(p, m.call)')
                 /\ m.type = "cancel" => CancelledAs(p, m.id)'
      <4>1. CASE m = msg
        BY <4>1, <2>1, <1>5 DEF CancelledAs
      <4>2. CASE m \in Asks(p)
        BY <4>2, <2>2 DEF CallsOK, MessagesOK
      <4> QED BY <4>1, <4>2, <1>9
    <3> QED BY <3>1, <2>2, <1>9 DEF CallsOK, MessagesOK
  <2>6. HandlersOK(p)'
    BY <2>2, <1>4 DEF CallsOK, HandlersOK
  <2>7. UnderWay(p)'
    <3> SUFFICES ASSUME BothUp(p)', NEW m \in DOMAIN calls'[p]
                 PROVE  CallUnderWay(p, calls[p][m])'
      BY DEF UnderWay
    <3>1. CallUnderWay(p, calls[p][m]) /\ ~disposed[p]
      BY <2>1, <1>4 DEF CallsOK, UnderWay, BothUp
    <3> QED BY <2>1, <3>1, <1>4, <1>5, <1>9 DEF CallUnderWay
  <2> QED BY <2>3, <2>4, <2>5, <2>6, <2>7 DEF CallsOK
<1> QED BY <1>1, <1>7, <1>8, <1>10, <1>11

LEMMA CallSafe ==
    ASSUME Typed, NEW p \in Peers, \A r \in Peers : Ordered(Road(r)) /\ CallsOK(r),
           NEW token \in {"none", "live", "cancelled"}, Call(p, token)
    PROVE  Typed' /\ \A r \in Peers : Ordered(Road(r))' /\ CallsOK(r)'
<1> DEFINE q == Other(p)
<1>1. q \in Peers /\ q # p /\ Other(q) = p /\ \A r \in Peers : r = p \/ r = q
  BY TwoPeers
<1>2. Typed' /\ Ordered(Road(p))' /\ CallsOK(p)'
  BY CallTyped, CallKeepsCalls DEF CallsOK
<1>3. /\ calls'[q] = calls[q] /\ lastId'[q] = lastId[q] /\ pending'[q] = pending[q]
      /\ sources' = sources /\ running' = running /\ disposed' = disposed
      /\ inbox' = inbox /\ wire' = wire /\ outbox'[q] = outbox[q]
  BY <1>1 DEF Call, Send, sending, Typed, FunctionsOK
<1> HIDE DEF q
<1>4. Road(q)' = Road(q)
  BY <1>1, <1>3 DEF Road
<1>5. Asks(q)' = Asks(q) /\ Ordered(Road(q))'
  BY <1>1, <1>4 DEF Asks, Sent
<1>6. Answers(q)' = Answers(q)
  <2>1. CASE disposed[p] \/ token = "cancelled"
    <3>1. Road(p)' = Road(p)
      BY <2>1, <1>3 DEF Call, sending, Road
    <3> QED BY <3>1, <1>1 DEF Answers, Sent
  <2>2. CASE ~(disposed[p] \/ token = "cancelled")
    <3> DEFINE msg == Request(lastId[p] + 1, Len(calls[p]) + 1, token = "live")
    <3>1. Len(calls[p]) + 1 \in Ids(p) /\ lastId[p] + 1 \in Ids(p)
      BY CallsTyped, IdsAre DEF CallsOK, IdsOK, Call
    <3>2. msg \in Messages(p) /\ msg.type = "request"
      BY <3>1 DEF Request, Messages
    <3>3. Send(p, msg) /\ UNCHANGED <<wire, inbox>>
      BY <2>2, <1>3 DEF Call, NextId
    <3>4. Sent(p)' = Sent(p) \cup {msg}
      BY <3>2, <3>3, Sending
    <3> QED BY <3>2, <3>4, <1>1 DEF Answers
  <2> QED BY <2>1, <2>2
<1>7. CallsOK(q)'
  BY <1>1, <1>3, <1>5, <1>6, QuietKeepsCalls DEF Quiet, BothUp
<1> QED BY <1>1, <1>2, <1>5, <1>7

-----------------------------------------------------------------------------
(* Batches are sent and received *)

LEMMA SendAccumulatedSafe ==
    ASSUME Typed, NEW p \in Peers, \A r \in Peers : Ordered(Road(r)) /\ CallsOK(r), SendAccumulated(p)
    PROVE  Typed' /\ \A r \in Peers : Ordered(Road(r))' /\ CallsOK(r)'
<1>1. /\ disposed' = disposed /\ lastId' = lastId /\ calls' = calls /\ pending' = pending
      /\ sources' = sources /\ running' = running /\ inbox' = inbox
      /\ wire' = [wire EXCEPT ![p] = Append(@, outbox[p])]
      /\ outbox' = [outbox EXCEPT ![p] = <<>>]
      /\ scheduled' = [scheduled EXCEPT ![p] = FALSE]
  BY DEF SendAccumulated, local
<1>2. Typed'
  <2>1. Append(wire[p], outbox[p]) \in Seq(Seq(Messages(p)))
    BY RoadsAre, AppendProperties
  <2>2. /\ DOMAIN wire' = Peers /\ DOMAIN outbox' = Peers /\ DOMAIN scheduled' = Peers
        /\ wire'[p] = Append(wire[p], outbox[p]) /\ outbox'[p] = <<>>
        /\ \A r \in Peers : r # p => /\ wire'[r] = wire[r] /\ outbox'[r] = outbox[r]
                                     /\ scheduled'[r] = scheduled[r]
        /\ scheduled' \in [Peers -> BOOLEAN] /\ disposed \in [Peers -> BOOLEAN]
    BY <1>1 DEF Typed, TypeOK, FunctionsOK
  <2> QED BY <2>1, <2>2, <1>1, MostlyTyped DEF Typed, FunctionsOK
<1>3. ASSUME NEW r \in Peers PROVE Ordered(Road(r))' /\ CallsOK(r)'
  <2>1. Other(r) \in Peers
    BY TwoPeers
  <2>2. Asks(r)' = Asks(r) /\ Answers(r)' = Answers(r) /\ Ordered(Road(r))'
    BY <2>1, Flushing DEF Asks, Answers
  <2> QED BY <2>2, <1>1, QuietKeepsCalls DEF Quiet, BothUp
<1> QED BY <1>2, <1>3

LEMMA ReceiveSafe ==
    ASSUME Typed, NEW p \in Peers, \A r \in Peers : Ordered(Road(r)) /\ CallsOK(r), Receive(p)
    PROVE  Typed' /\ \A r \in Peers : Ordered(Road(r))' /\ CallsOK(r)'
<1> DEFINE q == Other(p)
<1>1. q \in Peers /\ q # p /\ Other(q) = p /\ \A r \in Peers : r = p \/ r = q
  BY TwoPeers
<1>2. /\ disposed' = disposed /\ lastId' = lastId /\ calls' = calls /\ pending' = pending
      /\ sources' = sources /\ running' = running /\ outbox' = outbox /\ scheduled' = scheduled
      /\ wire[q] # <<>>
      /\ wire' = [wire EXCEPT ![q] = Tail(@)]
      /\ inbox' = [inbox EXCEPT ![p] = IF disposed[p] THEN <<>> ELSE Head(wire[q])]
  BY DEF Receive, local, sending
<1> HIDE DEF q
<1>3. Typed'
  <2>1. wire[q] \in Seq(Seq(Messages(q)))
    BY <1>1, RoadsAre
  <2>2. Tail(wire[q]) \in Seq(Seq(Messages(q))) /\ Head(wire[q]) \in Seq(Messages(Other(p)))
    BY <2>1, <1>2, HeadTailProperties DEF q
  <2>3. <<>> \in Seq(Messages(Other(p)))
    OBVIOUS
  <2>4. /\ DOMAIN wire' = Peers /\ DOMAIN inbox' = Peers
        /\ wire'[q] = Tail(wire[q]) /\ inbox'[p] \in {<<>>, Head(wire[q])}
        /\ \A r \in Peers : r # q => wire'[r] = wire[r]
        /\ \A r \in Peers : r # p => inbox'[r] = inbox[r]
    BY <1>1, <1>2 DEF Typed, FunctionsOK
  <2>5. disposed' \in [Peers -> BOOLEAN] /\ scheduled' \in [Peers -> BOOLEAN]
    BY <1>2 DEF Typed, TypeOK
  <2> QED BY <2>2, <2>3, <2>4, <2>5, <1>2, MostlyTyped DEF Typed, FunctionsOK
<1>4. ASSUME NEW r \in Peers PROVE Ordered(Road(r))' /\ CallsOK(r)'
  <2>1. Other(r) \in Peers /\ (r = p \/ Other(r) = p)
    BY <1>1, TwoPeers
  <2>2. /\ Sent(r)' \subseteq Sent(r) /\ Sent(Other(r))' \subseteq Sent(Other(r)) /\ Ordered(Road(r))'
        /\ ~disposed[p] => Sent(r)' = Sent(r) /\ Sent(Other(r))' = Sent(Other(r))
    BY <2>1, Receiving
  <2>3. /\ Asks(r)' \subseteq Asks(r) /\ Answers(r)' \subseteq Answers(r)
        /\ BothUp(r)' => BothUp(r) /\ Asks(r)' = Asks(r) /\ Answers(r)' = Answers(r)
    BY <2>1, <2>2, <1>2 DEF Asks, Answers, BothUp
  <2>4. Quiet(r)
    BY <2>3, <1>2 DEF Quiet
  <2> QED BY <2>2, <2>4, QuietKeepsCalls
<1> QED BY <1>3, <1>4

\* What the other end of a message has to do with the peer that handles it.
LEMMA HandlingTwoWays ==
    ASSUME Typed, NEW p \in Peers, \A r \in Peers : Ordered(Road(r)), ReceiveOneMessage(p)
    PROVE  LET q == Other(p)
               msg == Head(inbox[p])
           IN  /\ msg \in Messages(q)
               /\ \A r \in Peers : Ordered(Road(r))'
               /\ Asks(q)' \subseteq Asks(q) /\ Answers(p)' \subseteq Answers(p)
               /\ Answers(q)' = Answers(q) /\ Asks(p)' = Asks(p)
               /\ msg.type = "reply" => msg \in Answers(p) /\ Asks(q)' = Asks(q)
               /\ msg.type # "reply" => msg \in Asks(q) /\ Answers(p)' = Answers(p)
               /\ \A m \in Asks(q) : m = msg \/ m \in Asks(q)'
               /\ \A m \in Answers(p) : m = msg \/ m \in Answers(p)'
               /\ \A m \in Asks(q)' : m.id = msg.id =>
                     /\ msg.type = "request" => m.type # "request"
                     /\ msg.type = "cancel" => m.type # "request"
               /\ \A m \in Answers(p)' : m.id = msg.id => msg.type # "reply"
<1> DEFINE q == Other(p)
           msg == Head(inbox[p])
<1>1. q \in Peers /\ q # p /\ Other(q) = p /\ \A r \in Peers : r = p \/ r = q
  BY TwoPeers
<1>2. /\ msg \in Messages(q) /\ Sent(p)' = Sent(p) /\ Sent(q) = Sent(q)' \cup {msg}
      /\ Ordered(Road(p))' /\ Ordered(Road(q))'
      /\ \A m \in Sent(q)' : m.id = msg.id => /\ msg.type # "cancel" => m.type # msg.type
                                              /\ msg.type = "cancel" => m.type # "request"
  BY <1>1, Handling
<1> HIDE DEF q, msg
<1>3. Answers(p) = {m \in Sent(q) : m.type = "reply"} /\ Answers(p)' = {m \in Sent(q)' : m.type = "reply"}
      /\ Answers(q) = {m \in Sent(p) : m.type = "reply"} /\ Answers(q)' = {m \in Sent(p)' : m.type = "reply"}
  BY <1>1 DEF Answers, q
<1>4. Asks(p) = {m \in Sent(p) : m.type # "reply"} /\ Asks(p)' = {m \in Sent(p)' : m.type # "reply"}
      /\ Asks(q) = {m \in Sent(q) : m.type # "reply"} /\ Asks(q)' = {m \in Sent(q)' : m.type # "reply"}
  BY DEF Asks, q
<1>5. \A r \in Peers : Ordered(Road(r))'
  BY <1>1, <1>2
<1>6. /\ Asks(q)' \subseteq Asks(q) /\ Answers(p)' \subseteq Answers(p)
      /\ Answers(q)' = Answers(q) /\ Asks(p)' = Asks(p)
      /\ \A m \in Asks(q) : m = msg \/ m \in Asks(q)'
      /\ \A m \in Answers(p) : m = msg \/ m \in Answers(p)'
  BY <1>2, <1>3, <1>4
<1>7. /\ msg.type = "reply" => msg \in Answers(p) /\ Asks(q)' = Asks(q)
      /\ msg.type # "reply" => msg \in Asks(q) /\ Answers(p)' = Answers(p)
  BY <1>2, <1>3, <1>4
<1>8. /\ \A m \in Asks(q)' : m.id = msg.id =>
            /\ msg.type = "request" => m.type # "request"
            /\ msg.type = "cancel" => m.type # "request"
      /\ \A m \in Answers(p)' : m.id = msg.id => msg.type # "reply"
  BY <1>2, <1>3, <1>4
<1> QED BY <1>2, <1>5, <1>6, <1>7, <1>8 DEF q, msg


-----------------------------------------------------------------------------
(* Messages are handled *)

LEMMA RequestSafe ==
    ASSUME Typed, NEW p \in Peers, \A r \in Peers : Ordered(Road(r)) /\ CallsOK(r),
           ReceiveOneMessage(p), Head(inbox[p]).type = "request"
    PROVE  Typed' /\ \A r \in Peers : Ordered(Road(r))' /\ CallsOK(r)'
<1> SUFFICES ASSUME NEW msg, msg = Head(inbox[p]), NEW n, n = msg.call
             PROVE  Typed' /\ \A r \in Peers : Ordered(Road(r))' /\ CallsOK(r)'
  OBVIOUS
<1> DEFINE q == Other(p)
           c == [calls[q][n] EXCEPT !.handler = "running"]
           inv == [id |-> msg.id, call |-> n, token |-> msg.token]
<1>1. q \in Peers /\ q # p /\ Other(q) = p /\ \A r \in Peers : r = p \/ r = q
  BY TwoPeers
<1>2. /\ msg \in Messages(q) /\ \A r \in Peers : Ordered(Road(r))'
      /\ Asks(q)' \subseteq Asks(q) /\ Answers(p)' = Answers(p)
      /\ Answers(q)' = Answers(q) /\ Asks(p)' = Asks(p)
      /\ msg \in Asks(q)
      /\ \A m \in Asks(q) : m = msg \/ m \in Asks(q)'
      /\ \A m \in Asks(q)' : m.id = msg.id => m.type # "request"
  BY HandlingTwoWays
<1>3. msg.id \in Ids(q) /\ n \in Ids(q) /\ msg.token \in BOOLEAN /\ msg.id # 0 /\ msg.type = "request"
  BY <1>1, <1>2, MessagesTyped, IdsAre
<1>4. /\ n \in DOMAIN calls[q] /\ calls[q][n].id = msg.id /\ calls[q][n].handler = "none"
      /\ msg.token <=> WithToken(q, n)
  BY <1>1, <1>2, <1>3 DEF CallsOK, MessagesOK, Knows
<1>5. /\ c \in CallRecords(q) /\ c.id = msg.id /\ c.handler = "running"
      /\ c.promise = calls[q][n].promise /\ c.token = calls[q][n].token
  <2>1. calls[q][n] \in CallRecords(q)
    BY <1>1, <1>4, CallsTyped
  <2> QED BY <2>1, <1>4 DEF CallRecords
<1>6. /\ calls' = [calls EXCEPT ![q] = [@ EXCEPT ![n] = c]]
      /\ running' = [running EXCEPT ![p] = @ \cup {inv}]
      /\ sources' = IF msg.token THEN [sources EXCEPT ![p][msg.id] = "live"] ELSE sources
      /\ inbox' = [inbox EXCEPT ![p] = Tail(@)] /\ inbox[p] # <<>>
      /\ pending' = pending /\ disposed' = disposed /\ lastId' = lastId /\ outbox' = outbox
      /\ scheduled' = scheduled /\ wire' = wire
  BY DEF ReceiveOneMessage, ReceiveRequest, sending
<1>7. inv.id = msg.id /\ inv.call = n /\ inv.token = msg.token
      /\ inv \in [id : Ids(q), call : Ids(q), token : BOOLEAN]
  BY <1>3
<1>8. Becomes(q, n, c)
  BY <1>1, <1>4, <1>5, <1>6, OneCallChanges
<1>9. Tail(inbox[p]) \in Seq(Messages(q))
  BY <1>1, <1>6, RoadsAre, HeadTailProperties
<1>10. /\ DOMAIN running' = Peers /\ running'[p] = running[p] \cup {inv} /\ running'[q] = running[q]
       /\ DOMAIN sources' = Peers /\ sources'[q] = sources[q]
       /\ sources'[p] = IF msg.token THEN [sources[p] EXCEPT ![msg.id] = "live"] ELSE sources[p]
       /\ DOMAIN inbox' = Peers /\ inbox'[p] = Tail(inbox[p]) /\ inbox'[q] = inbox[q]
  BY <1>1, <1>6 DEF Typed, FunctionsOK
<1>11. /\ sources[p] \in [Ids(q) -> {"none", "live", "cancelled"}]
       /\ running[p] \subseteq [id : Ids(q), call : Ids(q), token : BOOLEAN]
       /\ \A m \in Answers(q) : m.outcome \in {"returned", "threw"}
  <2>1. \A m \in Answers(q) : m \in Messages(p) /\ m.type = "reply"
    BY <1>1, RoadsAre DEF Answers
  <2>2. \A m \in Answers(q) : m.outcome \in {"returned", "threw"}
    BY <2>1, MessagesTyped
  <2> QED BY <2>2, <1>1 DEF Typed, TypeOK
<1> HIDE DEF q, c, inv
<1>12. Typed'
  <2>1. /\ DOMAIN calls' = Peers /\ calls'[q] \in Seq(CallRecords(q)) /\ calls'[p] = calls[p]
    BY <1>1, <1>8 DEF Becomes
  <2>2. sources'[p] \in [Ids(Other(p)) -> {"none", "live", "cancelled"}]
    BY <1>3, <1>10, <1>11 DEF q
  <2>3. running'[p] \subseteq [id : Ids(Other(p)), call : Ids(Other(p)), token : BOOLEAN]
    BY <1>7, <1>10, <1>11 DEF q
  <2>4. inbox'[p] \in Seq(Messages(Other(p)))
    BY <1>9, <1>10 DEF q
  <2>5. ASSUME NEW r \in Peers
        PROVE  /\ calls'[r] = calls[r] \/ calls'[r] \in Seq(CallRecords(r))
               /\ \/ sources'[r] = sources[r]
                  \/ sources'[r] \in [Ids(Other(r)) -> {"none", "live", "cancelled"}]
               /\ \/ running'[r] = running[r]
                  \/ running'[r] \subseteq [id : Ids(Other(r)), call : Ids(Other(r)), token : BOOLEAN]
               /\ inbox'[r] = inbox[r] \/ inbox'[r] \in Seq(Messages(Other(r)))
    BY <2>1, <2>2, <2>3, <2>4, <1>1, <1>10
  <2>6. disposed' \in [Peers -> BOOLEAN] /\ scheduled' \in [Peers -> BOOLEAN]
    BY <1>6 DEF Typed, TypeOK
  <2> QED BY <2>1, <2>5, <2>6, <1>6, <1>10, MostlyTyped DEF Typed, FunctionsOK
<1>13. CallsOK(p)'
  <2>1. calls'[p] = calls[p]
    BY <1>1, <1>8 DEF Becomes
  <2>2. Quiet(p)
    BY <2>1, <1>2, <1>6, <1>10 DEF Quiet, BothUp, q
  <2> QED BY <2>2, QuietKeepsCalls
<1>14. CallsOK(q)'
  <2>1. /\ DOMAIN calls'[q] = DOMAIN calls[q] /\ Len(calls'[q]) = Len(calls[q])
        /\ \A m \in DOMAIN calls[q] : /\ calls'[q][m].id = calls[q][m].id
                                      /\ calls'[q][m].promise = calls[q][m].promise
                                      /\ calls'[q][m].token = calls[q][m].token
                                      /\ m # n => calls'[q][m] = calls[q][m]
        /\ calls'[q][n].handler = "running"
    BY <1>4, <1>5, <1>8 DEF Becomes
  <2>2. /\ \A m, i, h : Knows(q, m, i, h) /\ h # "none" => m # n
        /\ \A m, i, h : Knows(q, m, i, h) /\ i # msg.id => m # n
        /\ \A m, i, h : Knows(q, m, i, h) /\ i = msg.id => m = n
        /\ \A m, i, h : Knows(q, m, i, h) /\ m # n => Knows(q, m, i, h)'
        /\ \A m, i, h : Knows(q, m, i, h) => (WithToken(q, m)' <=> WithToken(q, m))
        /\ \A i : CancelledAs(q, i) => CancelledAs(q, i)'
        /\ Knows(q, n, msg.id, "running")' /\ (WithToken(q, n)' <=> WithToken(q, n))
    <3>1. \A m \in DOMAIN calls[q] : calls[q][m].id = msg.id => m = n
      BY <1>1, <1>3, <1>4 DEF CallsOK, IdsOK
    <3>2. ASSUME NEW m, NEW i, NEW h, Knows(q, m, i, h)
          PROVE  /\ h # "none" => m # n
                 /\ i # msg.id <=> m # n
                 /\ m # n => Knows(q, m, i, h)'
                 /\ WithToken(q, m)' <=> WithToken(q, m)
      BY <3>1, <3>2, <2>1, <1>4 DEF Knows, WithToken
    <3>3. \A i : CancelledAs(q, i) => CancelledAs(q, i)'
      BY <2>1 DEF CancelledAs
    <3>4. Knows(q, n, msg.id, "running")' /\ (WithToken(q, n)' <=> WithToken(q, n))
      <4>1. n \in DOMAIN calls'[q] /\ calls'[q][n].id = msg.id /\ calls'[q][n].token = calls[q][n].token
        BY <2>1, <1>4
      <4> QED BY <4>1, <2>1 DEF Knows, WithToken
    <3> QED BY <3>2, <3>3, <3>4
  <2>3. IdsOK(q)'
    <3>1. ASSUME NEW m \in DOMAIN calls'[q]
          PROVE  /\ calls'[q][m].id <= lastId'[q]
                 /\ calls'[q][m].id = 0 => /\ calls'[q][m].promise # "pending"
                                           /\ calls'[q][m].token = "none"
                                           /\ calls'[q][m].handler = "none"
                 /\ \A k \in DOMAIN calls'[q] :
                       calls'[q][k].id = calls'[q][m].id /\ calls'[q][m].id # 0 => k = m
      BY <2>1, <1>1, <1>3, <1>4, <1>6 DEF CallsOK, IdsOK
    <3> QED BY <2>1, <3>1, <1>1, <1>6 DEF CallsOK, IdsOK
  <2>4. PendingOK(q)'
    BY <2>1, <1>1, <1>6 DEF CallsOK, PendingOK
  <2>5. MessagesOK(q)'
    <3>1. ASSUME NEW m \in Asks(q)', m.type = "request"
          PROVE  Knows(q, m.call, m.id, "none")' /\ (m.token <=> WithToken(q, m.call)')
      <4>1. Knows(q, m.call, m.id, "none") /\ (m.token <=> WithToken(q, m.call)) /\ m.id # msg.id
        BY <3>1, <1>1, <1>2 DEF CallsOK, MessagesOK
      <4> QED BY <4>1, <2>2
    <3>2. ASSUME NEW m \in Asks(q)', m.type = "cancel" PROVE CancelledAs(q, m.id)'
      BY <3>2, <2>2, <1>1, <1>2 DEF CallsOK, MessagesOK
    <3>3. ASSUME NEW m \in Answers(q)' PROVE Knows(q, m.call, m.id, m.outcome)'
      <4>1. Knows(q, m.call, m.id, m.outcome) /\ m.outcome # "none"
        BY <1>1, <1>2, <1>11 DEF CallsOK, MessagesOK
      <4> QED BY <4>1, <2>2
    <3> QED BY <3>1, <3>2, <3>3 DEF MessagesOK
  <2>6. ASSUME NEW old \in running[p]
        PROVE  /\ old.id # msg.id
               /\ Knows(q, old.call, old.id, "running")' /\ (old.token <=> WithToken(q, old.call)')
    <3>1. Knows(q, old.call, old.id, "running") /\ (old.token <=> WithToken(q, old.call))
      BY <1>1 DEF CallsOK, HandlersOK
    <3> QED BY <3>1, <2>2
  <2>7. /\ \A id \in Ids(q) : id # msg.id => sources'[p][id] = sources[p][id]
        /\ sources'[p][msg.id] = IF msg.token THEN "live" ELSE "none"
    <3>1. sources[p][msg.id] = "none"
      BY <2>6, <1>1, <1>3 DEF CallsOK, HandlersOK
    <3> QED BY <3>1, <1>3, <1>10, <1>11
  <2>8. HandlersOK(q)'
    <3>1. ASSUME NEW any \in running'[p]
          PROVE  Knows(q, any.call, any.id, "running")' /\ (any.token <=> WithToken(q, any.call)')
      <4>1. CASE any = inv
        <5>1. any.call = n /\ any.id = msg.id /\ any.token = msg.token
          BY <4>1, <1>7
        <5>2. any.token <=> WithToken(q, n)'
          BY <5>1, <2>2, <1>4
        <5> QED BY <5>1, <5>2, <2>2
      <4>2. CASE any \in running[p]
        BY <4>2, <2>6
      <4> QED BY <4>1, <4>2, <1>10
    <3>2. ASSUME NEW id \in Ids(q)
          PROVE  /\ sources'[p][id] # "none" <=> \E any \in running'[p] : any.id = id /\ any.token
                 /\ sources'[p][id] = "cancelled" => CancelledAs(q, id)'
      <4>1. CASE id = msg.id
        BY <4>1, <2>6, <2>7, <1>3, <1>7, <1>10
      <4>2. CASE id # msg.id
        <5>1. /\ sources[p][id] # "none" <=> \E old \in running[p] : old.id = id /\ old.token
              /\ sources[p][id] = "cancelled" => CancelledAs(q, id)
          BY <1>1 DEF CallsOK, HandlersOK
        <5> QED BY <5>1, <4>2, <2>2, <2>7, <1>7, <1>10
      <4> QED BY <4>1, <4>2
    <3> QED BY <3>1, <3>2, <1>1 DEF HandlersOK
  <2>9. UnderWay(q)'
    <3> SUFFICES ASSUME BothUp(q)', NEW m \in DOMAIN calls'[q]
                 PROVE  CallUnderWay(q, calls[q][m])'
      BY DEF UnderWay
    <3>1. CallUnderWay(q, calls[q][m]) /\ m \in DOMAIN calls[q]
      BY <2>1, <1>1, <1>6 DEF CallsOK, UnderWay, BothUp
    <3>2. calls[q][m] \in CallRecords(q)
      BY <3>1, <1>1, CallsTyped
    <3>3. CASE m = n
      <4>1. inv \in running'[p] /\ inv.id = calls'[q][m].id
        BY <3>3, <2>1, <1>4, <1>7, <1>10
      <4>2. calls'[q][m].token = "cancelled" => \E any \in Asks(q)' : any.type = "cancel" /\ any.id = calls'[q][m].id
        BY <3>1, <3>3, <2>1, <1>2, <1>3, <1>4 DEF CallUnderWay
      <4> QED BY <4>1, <4>2, <3>3, <2>1, <1>1 DEF CallUnderWay
    <3>4. CASE m # n
      <4>1. calls'[q][m] = calls[q][m]
        BY <3>1, <3>4, <2>1
      <4>2. calls[q][m].id # msg.id
        BY <3>1, <3>4, <2>2 DEF Knows
      <4>3. calls[q][m].handler # "none" => calls[q][m].id # 0
        BY <3>1, <1>1 DEF CallsOK, IdsOK
      <4>4. calls[q][m].handler = "running" => calls[q][m].id \in Ids(q)
        BY <4>3, <3>2 DEF CallRecords
      <4>5. /\ calls[q][m].handler = "none" /\ calls[q][m].id # 0 =>
                  \E any \in Asks(q)' : any.type = "request" /\ any.id = calls[q][m].id
            /\ calls[q][m].handler = "running" => \E any \in running'[p] : any.id = calls[q][m].id
            /\ calls[q][m].handler \in {"returned", "threw"} /\ calls[q][m].promise = "pending" =>
                  \E any \in Answers(q)' : any.id = calls[q][m].id
        BY <3>1, <4>2, <1>1, <1>2, <1>10 DEF CallUnderWay
      <4>6. calls[q][m].token = "cancelled" /\ calls[q][m].handler \in {"none", "running"} =>
                  \/ \E any \in Asks(q)' : any.type = "cancel" /\ any.id = calls[q][m].id
                  \/ calls[q][m].handler = "running" /\ sources'[p][calls[q][m].id] = "cancelled"
        BY <3>1, <4>2, <4>4, <2>7, <1>1, <1>2 DEF CallUnderWay
      <4> QED BY <4>1, <4>5, <4>6, <1>1 DEF CallUnderWay
    <3> QED BY <3>3, <3>4
  <2> QED BY <2>3, <2>4, <2>5, <2>8, <2>9 DEF CallsOK
<1> QED BY <1>1, <1>2, <1>12, <1>13, <1>14

LEMMA ReplySafe ==
    ASSUME Typed, NEW p \in Peers, \A r \in Peers : Ordered(Road(r)) /\ CallsOK(r),
           ReceiveOneMessage(p), Head(inbox[p]).type = "reply"
    PROVE  Typed' /\ \A r \in Peers : Ordered(Road(r))' /\ CallsOK(r)'
<1> SUFFICES ASSUME NEW msg, msg = Head(inbox[p]), NEW n, n = pending[p][msg.id]
             PROVE  Typed' /\ \A r \in Peers : Ordered(Road(r))' /\ CallsOK(r)'
  OBVIOUS
<1> DEFINE q == Other(p)
           c == [calls[p][n] EXCEPT !.promise = msg.outcome]
<1>1. q \in Peers /\ q # p /\ Other(q) = p /\ \A r \in Peers : r = p \/ r = q
  BY TwoPeers
<1>2. /\ msg \in Messages(q) /\ \A r \in Peers : Ordered(Road(r))'
      /\ Asks(q)' = Asks(q) /\ Answers(q)' = Answers(q) /\ Asks(p)' = Asks(p)
      /\ Answers(p)' \subseteq Answers(p) /\ msg \in Answers(p)
      /\ \A m \in Answers(p) : m = msg \/ m \in Answers(p)'
  BY HandlingTwoWays
<1>3. msg.id \in Ids(p) /\ msg.outcome \in {"returned", "threw"} /\ msg.id # 0 /\ msg.type = "reply"
  BY <1>1, <1>2, MessagesTyped, IdsAre
<1>4. Knows(p, msg.call, msg.id, msg.outcome)
  BY <1>2 DEF CallsOK, MessagesOK
<1>5. /\ inbox' = [inbox EXCEPT ![p] = Tail(@)] /\ inbox[p] # <<>>
      /\ disposed' = disposed /\ lastId' = lastId /\ outbox' = outbox
      /\ scheduled' = scheduled /\ wire' = wire /\ sources' = sources /\ running' = running
      /\ n = 0 => calls' = calls /\ pending' = pending
      /\ n # 0 => /\ calls' = [calls EXCEPT ![p] = [@ EXCEPT ![n] = c]]
                  /\ pending' = [pending EXCEPT ![p] = [@ EXCEPT ![msg.id] = 0]]
  BY <1>3 DEF ReceiveOneMessage, ReceiveReply, Settle, sending
<1>6. n # 0 => /\ n \in DOMAIN calls[p] /\ calls[p][n].id = msg.id /\ calls[p][n].promise = "pending"
               /\ calls[p][n] \in CallRecords(p) /\ calls[p][n].handler = msg.outcome
  <2>1. n # 0 => n \in DOMAIN calls[p] /\ calls[p][n].id = msg.id /\ calls[p][n].promise = "pending"
    BY <1>3 DEF CallsOK, PendingOK
  <2>2. n # 0 => msg.call = n
    BY <2>1, <1>3, <1>4 DEF CallsOK, IdsOK, Knows
  <2> QED BY <2>1, <2>2, <1>4, CallsTyped DEF Knows
<1>7. n # 0 => /\ c \in CallRecords(p) /\ c.id = msg.id /\ c.handler = calls[p][n].handler
               /\ c.promise = msg.outcome /\ c.token = calls[p][n].token
  BY <1>3, <1>6 DEF CallRecords
<1> HIDE DEF c
<1>8. n # 0 => Becomes(p, n, c)
  BY <1>5, <1>6, <1>7, OneCallChanges
<1>9. /\ calls'[q] = calls[q] /\ calls'[p] \in Seq(CallRecords(p)) /\ DOMAIN calls' = Peers
      /\ DOMAIN pending' = Peers /\ pending'[q] = pending[q]
      /\ pending'[p] = [pending[p] EXCEPT ![msg.id] = 0] \/ pending'[p] = pending[p]
      /\ DOMAIN inbox' = Peers /\ inbox'[p] = Tail(inbox[p]) /\ inbox'[q] = inbox[q]
  <2>1. calls'[q] = calls[q] /\ calls'[p] \in Seq(CallRecords(p)) /\ DOMAIN calls' = Peers
    BY <1>1, <1>5, <1>8, CallsTyped DEF Becomes, Typed, FunctionsOK
  <2>2. /\ DOMAIN pending' = Peers /\ pending'[q] = pending[q]
        /\ pending'[p] = [pending[p] EXCEPT ![msg.id] = 0] \/ pending'[p] = pending[p]
        /\ DOMAIN inbox' = Peers /\ inbox'[p] = Tail(inbox[p]) /\ inbox'[q] = inbox[q]
    BY <1>1, <1>5 DEF Typed, FunctionsOK
  <2> QED BY <2>1, <2>2
<1>10. pending[p] \in [Ids(p) -> 0 .. MaxCalls[p]] /\ MaxCalls[p] \in Nat
  BY IdsAre DEF Typed, TypeOK
<1>11. pending'[p] \in [Ids(p) -> 0 .. MaxCalls[p]]
  BY <1>3, <1>9, <1>10, SMTT(30)
<1>12. Tail(inbox[p]) \in Seq(Messages(Other(p)))
  BY <1>1, <1>5, RoadsAre, HeadTailProperties
<1> HIDE DEF q
<1>13. Typed'
  <2>1. ASSUME NEW r \in Peers
        PROVE  /\ calls'[r] = calls[r] \/ calls'[r] \in Seq(CallRecords(r))
               /\ pending'[r] = pending[r] \/ pending'[r] \in [Ids(r) -> 0 .. MaxCalls[r]]
               /\ inbox'[r] = inbox[r] \/ inbox'[r] \in Seq(Messages(Other(r)))
    BY <1>1, <1>9, <1>11, <1>12
  <2>2. disposed' \in [Peers -> BOOLEAN] /\ scheduled' \in [Peers -> BOOLEAN]
    BY <1>5 DEF Typed, TypeOK
  <2> QED BY <2>1, <2>2, <1>5, <1>9, MostlyTyped DEF Typed, FunctionsOK
<1>14. CallsOK(q)'
  BY <1>1, <1>2, <1>5, <1>9, QuietKeepsCalls DEF Quiet, BothUp
<1>15. CallsOK(p)'
  <2>1. /\ DOMAIN calls'[p] = DOMAIN calls[p] /\ Len(calls'[p]) = Len(calls[p])
        /\ \A m \in DOMAIN calls[p] : /\ calls'[p][m].id = calls[p][m].id
                                      /\ calls'[p][m].token = calls[p][m].token
                                      /\ calls'[p][m].handler = calls[p][m].handler
                                      /\ m # n => calls'[p][m].promise = calls[p][m].promise
        /\ n # 0 => calls'[p][n].promise = msg.outcome
    <3>1. CASE n = 0
      BY <3>1, <1>5
    <3>2. CASE n # 0
      BY <3>2, <1>6, <1>7, <1>8 DEF Becomes
    <3> QED BY <3>1, <3>2
  <2>2. /\ \A m, i, h : Knows(p, m, i, h) => Knows(p, m, i, h)' /\ (WithToken(p, m)' <=> WithToken(p, m))
        /\ \A i : CancelledAs(p, i) => CancelledAs(p, i)'
    BY <2>1 DEF Knows, WithToken, CancelledAs
  <2>3. \A m \in DOMAIN calls[p] : m # 0 /\ (n # 0 /\ calls[p][m].id = msg.id => m = n)
    <3>1. \A m \in DOMAIN calls[p] : m # 0
      BY CallsTyped
    <3>2. \A m \in DOMAIN calls[p] : n # 0 /\ calls[p][m].id = msg.id => m = n
      BY <1>3, <1>6 DEF CallsOK, IdsOK
    <3> QED BY <3>1, <3>2
  <2>4. \A m \in DOMAIN calls[p] : calls[p][m].promise = "pending" =>
           calls[p][m].id \in Ids(p) /\ pending[p][calls[p][m].id] = m
    <3>1. \A m \in DOMAIN calls[p] : calls[p][m].promise = "pending" => calls[p][m].id # 0
      BY DEF CallsOK, IdsOK
    <3>2. \A m \in DOMAIN calls[p] : calls[p][m].promise = "pending" => calls[p][m].id \in Ids(p)
      BY <3>1, CallsTyped DEF CallRecords
    <3> QED BY <3>2 DEF CallsOK, PendingOK
  <2>5. IdsOK(p)'
    <3>1. ASSUME NEW m \in DOMAIN calls'[p]
          PROVE  /\ calls'[p][m].id <= lastId'[p]
                 /\ calls'[p][m].id = 0 => /\ calls'[p][m].promise # "pending"
                                           /\ calls'[p][m].token = "none"
                                           /\ calls'[p][m].handler = "none"
                 /\ \A k \in DOMAIN calls'[p] :
                       calls'[p][k].id = calls'[p][m].id /\ calls'[p][m].id # 0 => k = m
      BY <2>1, <2>3, <1>3, <1>5 DEF CallsOK, IdsOK
    <3> QED BY <2>1, <3>1, <1>5 DEF CallsOK, IdsOK
  <2>6. PendingOK(p)'
    <3>1. CASE n = 0
      BY <3>1, <1>5 DEF CallsOK, PendingOK
    <3>2. CASE n # 0
      <4>1. \A id \in Ids(p) : pending'[p][id] = IF id = msg.id THEN 0 ELSE pending[p][id]
        BY <3>2, <1>3, <1>5, <1>10 DEF Typed, FunctionsOK
      <4>2. ASSUME NEW id \in Ids(p), pending'[p][id] # 0
            PROVE  /\ pending'[p][id] \in DOMAIN calls'[p]
                   /\ calls'[p][pending'[p][id]].id = id
                   /\ calls'[p][pending'[p][id]].promise = "pending"
        <5>1. id # msg.id /\ pending'[p][id] = pending[p][id]
          BY <4>1, <4>2
        <5>2. /\ pending[p][id] \in DOMAIN calls[p] /\ calls[p][pending[p][id]].id = id
              /\ calls[p][pending[p][id]].promise = "pending"
          BY <4>2, <5>1 DEF CallsOK, PendingOK
        <5>3. pending[p][id] # n
          BY <5>1, <5>2, <3>2, <1>6
        <5> QED BY <5>1, <5>2, <5>3, <2>1
      <4>3. ASSUME NEW m \in DOMAIN calls'[p], calls'[p][m].promise = "pending"
            PROVE  pending'[p][calls'[p][m].id] = m
        <5>1. m # n /\ m \in DOMAIN calls[p] /\ calls[p][m].promise = "pending"
          BY <4>3, <3>2, <2>1, <1>3
        <5>2. calls[p][m].id # msg.id
          BY <5>1, <3>2, <2>3
        <5> QED BY <5>1, <5>2, <4>1, <2>1, <2>4
      <4> QED BY <4>2, <4>3 DEF PendingOK
    <3> QED BY <3>1, <3>2
  <2>7. MessagesOK(p)'
    BY <2>2, <1>2 DEF CallsOK, MessagesOK
  <2>8. HandlersOK(p)'
    BY <2>2, <1>5 DEF CallsOK, HandlersOK
  <2>9. UnderWay(p)'
    <3> SUFFICES ASSUME BothUp(p)', NEW m \in DOMAIN calls'[p]
                 PROVE  CallUnderWay(p, calls[p][m])'
      BY DEF UnderWay
    <3>1. CallUnderWay(p, calls[p][m]) /\ m \in DOMAIN calls[p]
      BY <2>1, <1>5 DEF CallsOK, UnderWay, BothUp
    <3>2. ASSUME calls'[p][m].handler \in {"returned", "threw"}, calls'[p][m].promise = "pending"
          PROVE  \E any \in Answers(p)' : any.id = calls'[p][m].id
      <4>1. m # n /\ calls[p][m].promise = "pending"
        <5>1. m # 0
          BY <3>1, <2>3
        <5> QED BY <5>1, <3>1, <3>2, <2>1, <1>3
      <4>2. calls[p][m].id # msg.id
        BY <4>1, <3>1, <2>4
      <4>3. \E any \in Answers(p) : any.id = calls[p][m].id
        BY <4>1, <3>1, <3>2, <2>1 DEF CallUnderWay
      <4> QED BY <4>2, <4>3, <3>1, <2>1, <1>2
    <3> QED BY <3>1, <3>2, <2>1, <1>2, <1>5, SMTT(30) DEF CallUnderWay
  <2> QED BY <2>5, <2>6, <2>7, <2>8, <2>9 DEF CallsOK
<1> QED BY <1>1, <1>2, <1>13, <1>14, <1>15

LEMMA CancelSafe ==
    ASSUME Typed, NEW p \in Peers, \A r \in Peers : Ordered(Road(r)) /\ CallsOK(r),
           ReceiveOneMessage(p), Head(inbox[p]).type = "cancel"
    PROVE  Typed' /\ \A r \in Peers : Ordered(Road(r))' /\ CallsOK(r)'
<1> SUFFICES ASSUME NEW msg, msg = Head(inbox[p])
             PROVE  Typed' /\ \A r \in Peers : Ordered(Road(r))' /\ CallsOK(r)'
  OBVIOUS
<1> DEFINE q == Other(p)
<1>1. q \in Peers /\ q # p /\ Other(q) = p /\ \A r \in Peers : r = p \/ r = q
  BY TwoPeers
<1>2. /\ msg \in Messages(q) /\ \A r \in Peers : Ordered(Road(r))'
      /\ Asks(q)' \subseteq Asks(q) /\ Answers(p)' = Answers(p)
      /\ Answers(q)' = Answers(q) /\ Asks(p)' = Asks(p)
      /\ msg \in Asks(q)
      /\ \A m \in Asks(q) : m = msg \/ m \in Asks(q)'
      /\ \A m \in Asks(q)' : m.id = msg.id => m.type # "request"
  BY HandlingTwoWays
<1>3. msg.id \in Ids(q) /\ msg.type = "cancel"
  BY <1>1, <1>2, MessagesTyped
<1>4. CancelledAs(q, msg.id)
  BY <1>1, <1>2, <1>3 DEF CallsOK, MessagesOK
<1>5. /\ inbox' = [inbox EXCEPT ![p] = Tail(@)] /\ inbox[p] # <<>>
      /\ disposed' = disposed /\ lastId' = lastId /\ outbox' = outbox
      /\ scheduled' = scheduled /\ wire' = wire /\ running' = running
      /\ calls' = calls /\ pending' = pending
      /\ sources' = IF sources[p][msg.id] = "live" THEN [sources EXCEPT ![p][msg.id] = "cancelled"] ELSE sources
  BY <1>3 DEF ReceiveOneMessage, ReceiveCancel, sending
<1>6. Tail(inbox[p]) \in Seq(Messages(Other(p)))
  BY <1>1, <1>5, RoadsAre, HeadTailProperties
<1>7. sources[p] \in [Ids(q) -> {"none", "live", "cancelled"}]
  BY DEF Typed, TypeOK
<1>8. /\ DOMAIN sources' = Peers /\ sources'[q] = sources[q]
      /\ sources'[p] = IF sources[p][msg.id] = "live" THEN [sources[p] EXCEPT ![msg.id] = "cancelled"] ELSE sources[p]
      /\ DOMAIN inbox' = Peers /\ inbox'[p] = Tail(inbox[p]) /\ inbox'[q] = inbox[q]
  BY <1>1, <1>5 DEF Typed, FunctionsOK
<1>9. /\ sources'[p] \in [Ids(Other(p)) -> {"none", "live", "cancelled"}]
      /\ \A id \in Ids(q) : /\ sources'[p][id] = "none" <=> sources[p][id] = "none"
                            /\ sources'[p][id] = "cancelled" <=>
                                  sources[p][id] = "cancelled" \/ (id = msg.id /\ sources[p][id] # "none")
  BY <1>3, <1>7, <1>8
<1> HIDE DEF q
<1>10. Typed'
  <2>1. ASSUME NEW r \in Peers
        PROVE  /\ \/ sources'[r] = sources[r]
                  \/ sources'[r] \in [Ids(Other(r)) -> {"none", "live", "cancelled"}]
               /\ inbox'[r] = inbox[r] \/ inbox'[r] \in Seq(Messages(Other(r)))
    BY <1>1, <1>6, <1>8, <1>9
  <2>2. disposed' \in [Peers -> BOOLEAN] /\ scheduled' \in [Peers -> BOOLEAN]
    BY <1>5 DEF Typed, TypeOK
  <2> QED BY <2>1, <2>2, <1>5, <1>8, MostlyTyped DEF Typed, FunctionsOK
<1>11. CallsOK(p)'
  <2>1. Quiet(p)
    BY <1>2, <1>5, <1>8 DEF Quiet, BothUp, q
  <2> QED BY <2>1, QuietKeepsCalls
<1>12. CallsOK(q)'
  <2>1. IdsOK(q)' /\ PendingOK(q)'
    BY <1>1, <1>5 DEF CallsOK, IdsOK, PendingOK
  <2>2. MessagesOK(q)'
    BY <1>1, <1>2, <1>5 DEF CallsOK, MessagesOK, Knows, WithToken, CancelledAs
  <2>3. HandlersOK(q)'
    <3>1. \A inv \in running'[p] : Knows(q, inv.call, inv.id, "running")' /\ (inv.token <=> WithToken(q, inv.call)')
      BY <1>1, <1>5 DEF CallsOK, HandlersOK, Knows, WithToken
    <3>2. ASSUME NEW id \in Ids(q)
          PROVE  /\ sources'[p][id] # "none" <=> \E inv \in running'[p] : inv.id = id /\ inv.token
                 /\ sources'[p][id] = "cancelled" => CancelledAs(q, id)'
      <4>1. /\ sources[p][id] # "none" <=> \E inv \in running[p] : inv.id = id /\ inv.token
            /\ sources[p][id] = "cancelled" => CancelledAs(q, id)
        BY <1>1 DEF CallsOK, HandlersOK
      <4>2. \A i : CancelledAs(q, i) => CancelledAs(q, i)'
        BY <1>5 DEF CancelledAs
      <4> QED BY <4>1, <4>2, <1>4, <1>5, <1>9
    <3> QED BY <3>1, <3>2, <1>1 DEF HandlersOK
  <2>4. UnderWay(q)'
    <3> SUFFICES ASSUME BothUp(q)', NEW m \in DOMAIN calls'[q]
                 PROVE  CallUnderWay(q, calls[q][m])'
      BY DEF UnderWay
    <3>1. CallUnderWay(q, calls[q][m]) /\ m \in DOMAIN calls[q] /\ calls'[q][m] = calls[q][m]
      BY <1>1, <1>5 DEF CallsOK, UnderWay, BothUp
    <3>2. /\ calls[q][m] \in CallRecords(q)
          /\ calls[q][m].handler = "running" => calls[q][m].id \in Ids(q)
      <4>1. calls[q][m] \in CallRecords(q)
        BY <3>1, <1>1, CallsTyped
      <4>2. calls[q][m].handler = "running" => calls[q][m].id # 0
        BY <3>1, <1>1 DEF CallsOK, IdsOK
      <4> QED BY <4>1, <4>2 DEF CallRecords
    <3>3. ASSUME calls[q][m].token = "cancelled", calls[q][m].handler \in {"none", "running"}
          PROVE  \/ \E any \in Asks(q)' : any.type = "cancel" /\ any.id = calls[q][m].id
                 \/ calls[q][m].handler = "running" /\ sources'[p][calls[q][m].id] = "cancelled"
      <4>1. CASE calls[q][m].id = msg.id
        <5>1. calls[q][m].id # 0
          BY <4>1, <1>1, <1>3, IdsAre
        <5>2. calls[q][m].handler = "running"
          <6>1. calls[q][m].handler # "none"
            <7> SUFFICES ASSUME calls[q][m].handler = "none" PROVE FALSE
              OBVIOUS
            <7>1. PICK any \in Asks(q) : any.type = "request" /\ any.id = msg.id
              BY <3>1, <4>1, <5>1 DEF CallUnderWay
            <7>2. any # msg
              BY <7>1, <1>3
            <7> QED BY <7>1, <7>2, <1>2
          <6> QED BY <6>1, <3>3
        <5>3. PICK inv \in running[p] : inv.id = msg.id
          BY <3>1, <4>1, <5>2, <1>1 DEF CallUnderWay
        <5>4. Knows(q, inv.call, inv.id, "running") /\ (inv.token <=> WithToken(q, inv.call))
          BY <1>1 DEF CallsOK, HandlersOK
        <5>5. inv.call = m
          BY <5>1, <5>3, <5>4, <4>1, <3>1, <1>1 DEF CallsOK, IdsOK, Knows
        <5>6. inv.token
          BY <5>4, <5>5, <3>3 DEF WithToken
        <5>7. sources[p][msg.id] # "none"
          BY <5>3, <5>6, <1>1, <1>3 DEF CallsOK, HandlersOK
        <5> QED BY <5>2, <5>7, <4>1, <1>3, <1>9
      <4>2. CASE calls[q][m].id # msg.id
        BY <4>2, <3>1, <3>2, <3>3, <1>1, <1>2, <1>9 DEF CallUnderWay
      <4> QED BY <4>1, <4>2
    <3>4. /\ calls[q][m].handler = "none" /\ calls[q][m].id # 0 =>
                \E any \in Asks(q)' : any.type = "request" /\ any.id = calls[q][m].id
          /\ calls[q][m].handler = "running" => \E any \in running'[p] : any.id = calls[q][m].id
          /\ calls[q][m].handler \in {"returned", "threw"} /\ calls[q][m].promise = "pending" =>
                \E any \in Answers(q)' : any.id = calls[q][m].id
      BY <3>1, <1>1, <1>2, <1>3, <1>5 DEF CallUnderWay
    <3> QED BY <3>1, <3>3, <3>4, <1>1 DEF CallUnderWay
  <2> QED BY <2>1, <2>2, <2>3, <2>4 DEF CallsOK
<1> QED BY <1>1, <1>2, <1>10, <1>11, <1>12

LEMMA ReceiveOneMessageSafe ==
    ASSUME Typed, NEW p \in Peers, \A r \in Peers : Ordered(Road(r)) /\ CallsOK(r), ReceiveOneMessage(p)
    PROVE  Typed' /\ \A r \in Peers : Ordered(Road(r))' /\ CallsOK(r)'
<1>1. Head(inbox[p]).type \in {"request", "reply", "cancel"}
  BY DEF ReceiveOneMessage
<1> QED BY <1>1, RequestSafe, ReplySafe, CancelSafe

-----------------------------------------------------------------------------
(* Handlers end *)

LEMMA ReturnSafe ==
    ASSUME Typed, NEW p \in Peers, \A r \in Peers : Ordered(Road(r)) /\ CallsOK(r),
           NEW inv \in running[p], NEW outcome \in {"returned", "threw"}, Return(p, inv, outcome)
    PROVE  Typed' /\ \A r \in Peers : Ordered(Road(r))' /\ CallsOK(r)'
<1> SUFFICES ASSUME NEW n, n = inv.call, NEW id, id = inv.id
             PROVE  Typed' /\ \A r \in Peers : Ordered(Road(r))' /\ CallsOK(r)'
  OBVIOUS
<1> DEFINE q == Other(p)
           c == [calls[q][n] EXCEPT !.handler = outcome]
           msg == Reply(id, n, outcome)
<1>1. q \in Peers /\ q # p /\ Other(q) = p /\ \A r \in Peers : r = p \/ r = q
  BY TwoPeers
<1>2. /\ running[p] \subseteq [id : Ids(q), call : Ids(q), token : BOOLEAN]
      /\ sources[p] \in [Ids(q) -> {"none", "live", "cancelled"}]
  BY DEF Typed, TypeOK
<1>3. id \in Ids(q) /\ n \in Ids(q) /\ id # 0
  BY <1>1, <1>2, IdsAre
<1>4. Knows(q, n, id, "running") /\ (inv.token <=> WithToken(q, n))
  BY <1>1 DEF CallsOK, HandlersOK
<1>5. /\ n \in DOMAIN calls[q] /\ calls[q][n].id = id /\ calls[q][n].handler = "running"
      /\ calls[q][n] \in CallRecords(q)
  BY <1>1, <1>4, CallsTyped DEF Knows
<1>6. /\ c \in CallRecords(q) /\ c.id = id /\ c.handler = outcome
      /\ c.promise = calls[q][n].promise /\ c.token = calls[q][n].token
  BY <1>5 DEF CallRecords
<1>7. msg \in Messages(p) /\ msg.type = "reply" /\ msg.id = id /\ msg.call = n /\ msg.outcome = outcome
  BY <1>1, <1>3 DEF Reply, Messages
<1>8. /\ calls' = [calls EXCEPT ![q] = [@ EXCEPT ![n] = c]]
      /\ running' = [running EXCEPT ![p] = @ \ {inv}]
      /\ sources' = [sources EXCEPT ![p] = [@ EXCEPT ![id] = "none"]]
      /\ disposed[p] => outbox' = outbox /\ scheduled' = scheduled
      /\ ~disposed[p] => Send(p, msg)
      /\ disposed' = disposed /\ lastId' = lastId /\ pending' = pending /\ wire' = wire /\ inbox' = inbox
  BY DEF Return, sending
<1> HIDE DEF q, c, msg
<1>9. Becomes(q, n, c)
  BY <1>1, <1>5, <1>6, <1>8, OneCallChanges
<1>10. /\ DOMAIN running' = Peers /\ running'[p] = running[p] \ {inv} /\ running'[q] = running[q]
       /\ DOMAIN sources' = Peers /\ sources'[q] = sources[q]
       /\ sources'[p] = [sources[p] EXCEPT ![id] = "none"]
  BY <1>1, <1>8 DEF Typed, FunctionsOK
<1>11. Typed'
  <2>1. /\ DOMAIN calls' = Peers /\ calls'[q] \in Seq(CallRecords(q)) /\ calls'[p] = calls[p]
    BY <1>1, <1>9 DEF Becomes
  <2>2. /\ sources'[p] \in [Ids(Other(p)) -> {"none", "live", "cancelled"}]
        /\ running'[p] \subseteq [id : Ids(Other(p)), call : Ids(Other(p)), token : BOOLEAN]
    BY <1>2, <1>3, <1>10 DEF q
  <2>3. disposed' \in [Peers -> BOOLEAN]
    BY <1>8 DEF Typed, TypeOK
  <2>4. ASSUME NEW r \in Peers
        PROVE  /\ calls'[r] = calls[r] \/ calls'[r] \in Seq(CallRecords(r))
               /\ \/ sources'[r] = sources[r]
                  \/ sources'[r] \in [Ids(Other(r)) -> {"none", "live", "cancelled"}]
               /\ \/ running'[r] = running[r]
                  \/ running'[r] \subseteq [id : Ids(Other(r)), call : Ids(Other(r)), token : BOOLEAN]
    BY <2>1, <2>2, <1>1, <1>10
  <2>5. CASE disposed[p]
    <3>1. scheduled' \in [Peers -> BOOLEAN]
      BY <2>5, <1>8 DEF Typed, TypeOK
    <3> QED BY <2>1, <2>3, <2>4, <2>5, <3>1, <1>8, <1>10, MostlyTyped DEF Typed, FunctionsOK
  <2>6. CASE ~disposed[p]
    <3>1. /\ DOMAIN outbox' = Peers /\ DOMAIN scheduled' = Peers /\ scheduled' \in [Peers -> BOOLEAN]
          /\ outbox'[p] \in Seq(Messages(p)) /\ scheduled'[p]
          /\ \A r \in Peers : r # p => outbox'[r] = outbox[r] /\ scheduled'[r] = scheduled[r]
      BY <2>6, <1>7, <1>8, SendTyped
    <3> QED BY <2>1, <2>3, <2>4, <2>6, <3>1, <1>8, <1>10, MostlyTyped DEF Typed, FunctionsOK
  <2> QED BY <2>5, <2>6
\* What else is known of calls, before and after.
<1>12. /\ DOMAIN calls'[q] = DOMAIN calls[q] /\ Len(calls'[q]) = Len(calls[q])
       /\ \A m \in DOMAIN calls[q] : /\ calls'[q][m].id = calls[q][m].id
                                     /\ calls'[q][m].promise = calls[q][m].promise
                                     /\ calls'[q][m].token = calls[q][m].token
                                     /\ m # n => calls'[q][m] = calls[q][m]
       /\ calls'[q][n].handler = outcome
  BY <1>5, <1>6, <1>9 DEF Becomes
<1>13. ASSUME NEW m, NEW i, NEW h, Knows(q, m, i, h)
       PROVE  /\ h # "running" => m # n
              /\ i # id <=> m # n
              /\ m # n => Knows(q, m, i, h)'
              /\ WithToken(q, m)' <=> WithToken(q, m)
  <2>1. \A k \in DOMAIN calls[q] : calls[q][k].id = id => k = n
    BY <1>1, <1>3, <1>5 DEF CallsOK, IdsOK
  <2> QED BY <2>1, <1>12, <1>13, <1>5 DEF Knows, WithToken
<1>14. (\A i : CancelledAs(q, i) => CancelledAs(q, i)') /\ Knows(q, n, id, outcome)'
  BY <1>5, <1>12 DEF CancelledAs, Knows
<1>15. \A m \in Answers(q) : Knows(q, m.call, m.id, m.outcome) /\ m.outcome # "running"
  <2>1. \A m \in Answers(q) : m \in Messages(p) /\ m.type = "reply"
    BY <1>1, RoadsAre DEF Answers
  <2>2. \A m \in Answers(q) : m.outcome \in {"returned", "threw"}
    BY <2>1, MessagesTyped
  <2> QED BY <2>2, <1>1 DEF CallsOK, MessagesOK
<1>16. /\ Ordered(Road(p))' /\ Ordered(Road(q))' /\ Sent(q)' = Sent(q)
       /\ Sent(p)' \in {Sent(p), Sent(p) \cup {msg}} /\ (~disposed[p] => msg \in Sent(p)')
  <2>1. CASE disposed[p]
    <3>1. Road(p)' = Road(p) /\ Road(q)' = Road(q)
      BY <2>1, <1>8 DEF Road
    <3> QED BY <2>1, <3>1, <1>1 DEF Sent
  <2>2. CASE ~disposed[p]
    <3>1. Fits(msg, Sent(p))
      <4> SUFFICES ASSUME NEW m \in Sent(p), m.id = id, m.type = "reply" PROVE FALSE
        BY <1>7 DEF Fits
      <4>1. m \in Answers(q)
        BY <1>1 DEF Answers
      <4>2. m.call # n
        BY <4>1, <1>13, <1>15
      <4> QED BY <4>1, <4>2, <1>13, <1>15
    <3> QED BY <2>2, <3>1, <1>1, <1>7, <1>8, Sending DEF q
  <2> QED BY <2>1, <2>2
<1>17. /\ Answers(q)' \in {Answers(q), Answers(q) \cup {msg}} /\ (~disposed[p] => msg \in Answers(q)')
       /\ Asks(p)' = Asks(p) /\ Asks(q)' = Asks(q) /\ Answers(p)' = Answers(p)
  BY <1>1, <1>7, <1>16 DEF Asks, Answers, q
<1>18. CallsOK(p)'
  <2>1. calls'[p] = calls[p]
    BY <1>1, <1>9 DEF Becomes
  <2>2. Quiet(p)
    BY <2>1, <1>8, <1>10, <1>17 DEF Quiet, BothUp, q
  <2> QED BY <2>2, QuietKeepsCalls
<1>19. CallsOK(q)'
  <2>1. IdsOK(q)'
    <3>1. ASSUME NEW m \in DOMAIN calls'[q]
          PROVE  /\ calls'[q][m].id <= lastId'[q]
                 /\ calls'[q][m].id = 0 => /\ calls'[q][m].promise # "pending"
                                           /\ calls'[q][m].token = "none"
                                           /\ calls'[q][m].handler = "none"
                 /\ \A k \in DOMAIN calls'[q] :
                       calls'[q][k].id = calls'[q][m].id /\ calls'[q][m].id # 0 => k = m
      BY <1>1, <1>3, <1>5, <1>8, <1>12 DEF CallsOK, IdsOK
    <3> QED BY <3>1, <1>1, <1>8, <1>12 DEF CallsOK, IdsOK
  <2>2. PendingOK(q)'
    BY <1>1, <1>8, <1>12 DEF CallsOK, PendingOK
  <2>3. MessagesOK(q)'
    <3>1. ASSUME NEW m \in Asks(q)', m.type = "request"
          PROVE  Knows(q, m.call, m.id, "none")' /\ (m.token <=> WithToken(q, m.call)')
      <4>1. Knows(q, m.call, m.id, "none") /\ (m.token <=> WithToken(q, m.call))
        BY <3>1, <1>1, <1>17 DEF CallsOK, MessagesOK
      <4> QED BY <4>1, <1>13
    <3>2. ASSUME NEW m \in Asks(q)', m.type = "cancel" PROVE CancelledAs(q, m.id)'
      BY <3>2, <1>1, <1>14, <1>17 DEF CallsOK, MessagesOK
    <3>3. ASSUME NEW m \in Answers(q)' PROVE Knows(q, m.call, m.id, m.outcome)'
      <4>1. CASE m = msg
        BY <4>1, <1>7, <1>14
      <4>2. CASE m \in Answers(q)
        BY <4>2, <1>13, <1>15
      <4> QED BY <4>1, <4>2, <1>17
    <3> QED BY <3>1, <3>2, <3>3 DEF MessagesOK
  <2>4. ASSUME NEW old \in running'[p]
        PROVE  /\ old \in running[p] /\ old.id # id
               /\ Knows(q, old.call, old.id, "running")' /\ (old.token <=> WithToken(q, old.call)')
    <3>1. old \in running[p] /\ old # inv
      BY <1>10
    <3>2. Knows(q, old.call, old.id, "running") /\ (old.token <=> WithToken(q, old.call))
      BY <3>1, <1>1 DEF CallsOK, HandlersOK
    <3>3. old.call # n
      <4> SUFFICES ASSUME old.call = n PROVE FALSE
        OBVIOUS
      <4>1. old.id = inv.id /\ (old.token <=> inv.token)
        BY <3>2, <1>4, <1>13
      <4>2. /\ inv \in [id : Ids(q), call : Ids(q), token : BOOLEAN]
            /\ old \in [id : Ids(q), call : Ids(q), token : BOOLEAN]
        BY <3>1, <1>2
      <4> QED BY <3>1, <4>1, <4>2
    <3> QED BY <3>1, <3>2, <3>3, <1>13
  <2>5. HandlersOK(q)'
    <3>1. ASSUME NEW i \in Ids(q)
          PROVE  /\ sources'[p][i] # "none" <=> \E any \in running'[p] : any.id = i /\ any.token
                 /\ sources'[p][i] = "cancelled" => CancelledAs(q, i)'
      <4>1. CASE i = id
        <5>1. sources'[p][i] = "none"
          BY <4>1, <1>2, <1>3, <1>10
        <5> QED BY <5>1, <4>1, <2>4
      <4>2. CASE i # id
        <5>1. /\ sources[p][i] # "none" <=> \E any \in running[p] : any.id = i /\ any.token
              /\ sources[p][i] = "cancelled" => CancelledAs(q, i)
          BY <1>1 DEF CallsOK, HandlersOK
        <5>2. sources'[p][i] = sources[p][i]
          BY <4>2, <1>2, <1>10
        <5> QED BY <5>1, <5>2, <4>2, <1>10, <1>14
      <4> QED BY <4>1, <4>2
    <3> QED BY <3>1, <2>4, <1>1 DEF HandlersOK
  <2>6. UnderWay(q)'
    <3> SUFFICES ASSUME BothUp(q)', NEW m \in DOMAIN calls'[q]
                 PROVE  CallUnderWay(q, calls[q][m])'
      BY DEF UnderWay
    <3>1. CallUnderWay(q, calls[q][m]) /\ m \in DOMAIN calls[q] /\ ~disposed[p]
      BY <1>1, <1>8, <1>12 DEF CallsOK, UnderWay, BothUp
    <3>2. CASE m = n
      <4>1. msg \in Answers(q)' /\ msg.id = calls'[q][m].id /\ calls'[q][m].handler = outcome
        BY <3>1, <3>2, <1>5, <1>7, <1>12, <1>17
      <4> QED BY <4>1 DEF CallUnderWay
    <3>3. CASE m # n
      <4>1. calls'[q][m] = calls[q][m]
        BY <3>1, <3>3, <1>12
      <4>2. calls[q][m].id # id
        BY <3>1, <3>3, <1>13 DEF Knows
      <4>3. calls[q][m].handler = "running" => calls[q][m].id \in Ids(q)
        <5>1. calls[q][m].handler = "running" => calls[q][m].id # 0
          BY <3>1, <1>1 DEF CallsOK, IdsOK
        <5> QED BY <5>1, <3>1, <1>1, CallsTyped DEF CallRecords
      <4>4. /\ calls[q][m].handler = "none" /\ calls[q][m].id # 0 =>
                  \E any \in Asks(q)' : any.type = "request" /\ any.id = calls[q][m].id
            /\ calls[q][m].handler = "running" => \E any \in running'[p] : any.id = calls[q][m].id
            /\ calls[q][m].handler \in {"returned", "threw"} /\ calls[q][m].promise = "pending" =>
                  \E any \in Answers(q)' : any.id = calls[q][m].id
        BY <3>1, <4>2, <1>1, <1>10, <1>17 DEF CallUnderWay
      <4>5. calls[q][m].token = "cancelled" /\ calls[q][m].handler \in {"none", "running"} =>
                  \/ \E any \in Asks(q)' : any.type = "cancel" /\ any.id = calls[q][m].id
                  \/ calls[q][m].handler = "running" /\ sources'[p][calls[q][m].id] = "cancelled"
        BY <3>1, <4>2, <4>3, <1>1, <1>2, <1>10, <1>17 DEF CallUnderWay
      <4> QED BY <4>1, <4>4, <4>5, <1>1 DEF CallUnderWay
    <3> QED BY <3>2, <3>3
  <2> QED BY <2>1, <2>2, <2>3, <2>5, <2>6 DEF CallsOK
<1> QED BY <1>1, <1>11, <1>16, <1>18, <1>19

-----------------------------------------------------------------------------
(* The protocol is disposed *)

LEMMA DisposeSafe ==
    ASSUME Typed, NEW p \in Peers, \A r \in Peers : Ordered(Road(r)) /\ CallsOK(r), Dispose(p)
    PROVE  Typed' /\ \A r \in Peers : Ordered(Road(r))' /\ CallsOK(r)'
<1> DEFINE q == Other(p)
           waiting == {pending[p][id] : id \in Ids(p)}
           rejected == [n \in DOMAIN calls[p] |->
                           IF n \in waiting THEN [calls[p][n] EXCEPT !.promise = "rejected"] ELSE calls[p][n]]
<1>1. q \in Peers /\ q # p /\ Other(q) = p /\ \A r \in Peers : r = p \/ r = q
  BY TwoPeers
<1>2. /\ disposed' = [disposed EXCEPT ![p] = TRUE] /\ calls' = [calls EXCEPT ![p] = rejected]
      /\ pending' = [pending EXCEPT ![p] = [id \in Ids(p) |-> 0]]
      /\ outbox' = [outbox EXCEPT ![p] = <<>>] /\ inbox' = [inbox EXCEPT ![p] = <<>>]
      /\ lastId' = lastId /\ sources' = sources /\ running' = running
      /\ scheduled' = scheduled /\ wire' = wire
  BY DEF Dispose
<1>3. /\ calls[p] \in Seq(CallRecords(p)) /\ Len(calls[p]) \in Nat /\ DOMAIN calls[p] = 1 .. Len(calls[p])
      /\ \A n \in DOMAIN calls[p] : calls[p][n] \in CallRecords(p)
  BY CallsTyped
<1>4. ASSUME NEW n \in DOMAIN calls[p]
      PROVE  /\ rejected[n] \in CallRecords(p)
             /\ rejected[n].id = calls[p][n].id /\ rejected[n].token = calls[p][n].token
             /\ rejected[n].handler = calls[p][n].handler
             /\ rejected[n].promise = IF n \in waiting THEN "rejected" ELSE calls[p][n].promise
  BY <1>3 DEF CallRecords
<1>5. rejected \in Seq(CallRecords(p)) /\ Len(rejected) = Len(calls[p]) /\ DOMAIN rejected = DOMAIN calls[p]
  <2>1. rejected \in [1 .. Len(calls[p]) -> CallRecords(p)]
    BY <1>3, <1>4
  <2>2. rejected \in Seq(CallRecords(p))
    BY <2>1, <1>3, SeqDef
  <2>3. DOMAIN rejected = 1 .. Len(calls[p])
    BY <1>3
  <2>4. DOMAIN rejected = 1 .. Len(rejected) /\ Len(rejected) \in Nat
    BY <2>2, LenProperties
  <2> QED BY <2>2, <2>3, <2>4, <1>3
<1>6. \A n \in DOMAIN calls[p] : calls[p][n].promise = "pending" => n \in waiting
  <2> SUFFICES ASSUME NEW n \in DOMAIN calls[p], calls[p][n].promise = "pending" PROVE n \in waiting
    OBVIOUS
  <2>1. pending[p][calls[p][n].id] = n /\ calls[p][n].id # 0
    BY DEF CallsOK, PendingOK, IdsOK
  <2>2. calls[p][n].id \in Ids(p)
    BY <2>1, <1>3 DEF CallRecords
  <2> QED BY <2>1, <2>2
<1> HIDE DEF q, waiting, rejected
<1>7. /\ disposed'[p] /\ calls'[p] = rejected /\ calls'[q] = calls[q]
      /\ pending'[p] = [id \in Ids(p) |-> 0] /\ pending'[q] = pending[q]
      /\ outbox'[p] = <<>> /\ outbox'[q] = outbox[q] /\ inbox'[p] = <<>> /\ inbox'[q] = inbox[q]
      /\ DOMAIN disposed' = Peers /\ DOMAIN calls' = Peers /\ DOMAIN pending' = Peers
      /\ DOMAIN outbox' = Peers /\ DOMAIN inbox' = Peers /\ disposed' \in [Peers -> BOOLEAN]
      /\ disposed'[q] = disposed[q]
  BY <1>1, <1>2 DEF Typed, TypeOK, FunctionsOK
<1>8. Typed'
  <2>1. [id \in Ids(p) |-> 0] \in [Ids(p) -> 0 .. MaxCalls[p]]
    BY IdsAre
  <2>2. <<>> \in Seq(Messages(p)) /\ <<>> \in Seq(Messages(Other(p)))
    OBVIOUS
  <2>3. ASSUME NEW r \in Peers
        PROVE  /\ calls'[r] = calls[r] \/ calls'[r] \in Seq(CallRecords(r))
               /\ pending'[r] = pending[r] \/ pending'[r] \in [Ids(r) -> 0 .. MaxCalls[r]]
               /\ inbox'[r] = inbox[r] \/ inbox'[r] \in Seq(Messages(Other(r)))
               /\ outbox'[r] = <<>> \/ (outbox'[r] = outbox[r] /\ disposed'[r] = disposed[r])
    BY <2>1, <2>2, <1>1, <1>5, <1>7
  <2>4. scheduled' \in [Peers -> BOOLEAN]
    BY <1>2 DEF Typed, TypeOK
  <2> QED BY <2>3, <2>4, <1>2, <1>7, MostlyTyped DEF Typed, FunctionsOK
<1>9. ASSUME NEW r \in Peers
      PROVE  Ordered(Road(r))' /\ Asks(r)' \subseteq Asks(r) /\ Answers(r)' \subseteq Answers(r) /\ ~BothUp(r)'
  <2>1. Other(r) \in Peers /\ (r = p \/ Other(r) = p)
    BY <1>1, TwoPeers
  <2>2. Ordered(Road(r))' /\ Sent(r)' \subseteq Sent(r) /\ Sent(Other(r))' \subseteq Sent(Other(r))
    BY <2>1, Dropping
  <2>3. Asks(r)' \subseteq Asks(r) /\ Answers(r)' \subseteq Answers(r)
    BY <2>2 DEF Asks, Answers
  <2>4. ~BothUp(r)'
    BY <2>1, <1>7 DEF BothUp
  <2> QED BY <2>2, <2>3, <2>4
<1>10. CallsOK(q)'
  BY <1>1, <1>2, <1>7, <1>9, QuietKeepsCalls DEF Quiet
<1>11. CallsOK(p)'
  <2>1. /\ DOMAIN calls'[p] = DOMAIN calls[p] /\ Len(calls'[p]) = Len(calls[p])
        /\ \A n \in DOMAIN calls[p] : /\ calls'[p][n].id = calls[p][n].id
                                      /\ calls'[p][n].token = calls[p][n].token
                                      /\ calls'[p][n].handler = calls[p][n].handler
                                      /\ calls'[p][n].promise # "pending"
    BY <1>4, <1>5, <1>6, <1>7
  <2>2. /\ \A m, i, h : Knows(p, m, i, h) => Knows(p, m, i, h)' /\ (WithToken(p, m)' <=> WithToken(p, m))
        /\ \A i : CancelledAs(p, i) => CancelledAs(p, i)'
    BY <2>1 DEF Knows, WithToken, CancelledAs
  <2>3. IdsOK(p)'
    BY <2>1, <1>2 DEF CallsOK, IdsOK
  <2>4. PendingOK(p)'
    BY <2>1, <1>7 DEF PendingOK
  <2>5. MessagesOK(p)'
    BY <2>2, <1>9 DEF CallsOK, MessagesOK
  <2>6. HandlersOK(p)'
    BY <2>2, <1>2 DEF CallsOK, HandlersOK
  <2>7. UnderWay(p)'
    BY <1>9 DEF UnderWay
  <2> QED BY <2>3, <2>4, <2>5, <2>6, <2>7 DEF CallsOK
<1> QED BY <1>1, <1>8, <1>9, <1>10, <1>11

-----------------------------------------------------------------------------
(* The inductive invariant *)

LEMMA InitInv == Init => RpcInv
<1> SUFFICES ASSUME Init PROVE RpcInv
  OBVIOUS
<1>1. FunctionsOK
  BY DEF Init, FunctionsOK
<1>2. TypeOK
  <2>1. disposed \in [Peers -> BOOLEAN] /\ scheduled \in [Peers -> BOOLEAN]
    BY DEF Init
  <2>2. ASSUME NEW p \in Peers
        PROVE  /\ lastId[p] \in 0 .. MaxCalls[p]
               /\ calls[p] \in Seq(CallRecords(p))
               /\ pending[p] \in [Ids(p) -> 0 .. MaxCalls[p]]
               /\ sources[p] \in [Ids(Other(p)) -> {"none", "live", "cancelled"}]
               /\ running[p] \subseteq [id : Ids(Other(p)), call : Ids(Other(p)), token : BOOLEAN]
               /\ outbox[p] \in Seq(Messages(p))
               /\ wire[p] \in Seq(Seq(Messages(p)))
               /\ inbox[p] \in Seq(Messages(Other(p)))
               /\ outbox[p] = <<>>
    <3>1. lastId[p] = 0 /\ calls[p] = <<>> /\ pending[p] = [id \in Ids(p) |-> 0]
          /\ sources[p] = [id \in Ids(Other(p)) |-> "none"] /\ running[p] = {}
          /\ outbox[p] = <<>> /\ wire[p] = <<>> /\ inbox[p] = <<>>
      BY DEF Init
    <3>2. MaxCalls[p] \in Nat
      BY IdsAre
    <3> QED BY <3>1, <3>2
  <2> QED BY <2>1, <2>2 DEF TypeOK
<1>3. Typed
  BY <1>1, <1>2 DEF Typed
<1>4. ASSUME NEW p \in Peers PROVE Sent(p) = {} /\ Ordered(Road(p))
  <2>1. Other(p) \in Peers
    BY TwoPeers
  <2>2. inbox[Other(p)] = <<>> /\ wire[p] = <<>> /\ outbox[p] = <<>>
    BY <2>1 DEF Init
  <2>3. AreBatches(Road(p), Messages(p), <<>>, <<>>, <<>>)
    <3>1. /\ Road(p) = Batches(inbox[Other(p)], wire[p], outbox[p])
          /\ inbox[Other(p)] \in Seq(Messages(p)) /\ wire[p] \in Seq(Seq(Messages(p)))
          /\ outbox[p] \in Seq(Messages(p))
      BY <1>3, RoadsAre
    <3>2. AreBatches(Road(p), Messages(p), inbox[Other(p)], wire[p], outbox[p])
      BY <3>1, BatchesAre
    <3> QED BY <2>2, <3>2
  <2>4. DOMAIN Road(p) = 1 .. 2 /\ Road(p)[1] = <<>> /\ Road(p)[2] = <<>>
    BY <2>3 DEF AreBatches
  <2>5. \A b \in DOMAIN Road(p) : DOMAIN Road(p)[b] = {}
    BY <2>4
  <2> QED BY <2>5 DEF Sent, Contents, Ordered
<1>5. ASSUME NEW p \in Peers PROVE CallsOK(p)
  <2>1. Other(p) \in Peers /\ Other(Other(p)) = p /\ MaxCalls[p] \in Nat
    BY TwoPeers, IdsAre
  <2>2. /\ lastId[p] = 0 /\ calls[p] = <<>> /\ pending[p] = [id \in Ids(p) |-> 0]
        /\ sources[Other(p)] = [id \in Ids(p) |-> "none"] /\ running[Other(p)] = {}
    BY <2>1 DEF Init
  <2>3. Len(calls[p]) = 0 /\ DOMAIN calls[p] = {}
    BY <2>2
  <2>4. Asks(p) = {} /\ Answers(p) = {}
    BY <1>4, <2>1 DEF Asks, Answers
  <2>5. IdsOK(p)
    BY <2>1, <2>2, <2>3 DEF IdsOK
  <2>6. PendingOK(p)
    BY <2>2, <2>3 DEF PendingOK
  <2>7. MessagesOK(p)
    BY <2>4 DEF MessagesOK
  <2>8. HandlersOK(p)
    BY <2>2 DEF HandlersOK
  <2>9. UnderWay(p)
    BY <2>3 DEF UnderWay
  <2> QED BY <2>5, <2>6, <2>7, <2>8, <2>9 DEF CallsOK
<1> QED BY <1>3, <1>4, <1>5 DEF RpcInv

LEMMA NextKeepsInv == RpcInv /\ [Next]_vars => RpcInv'
<1> SUFFICES ASSUME RpcInv, [Next]_vars PROVE RpcInv'
  OBVIOUS
<1>1. Typed /\ \A r \in Peers : Ordered(Road(r)) /\ CallsOK(r)
  BY DEF RpcInv
<1>2. ASSUME NEW p \in Peers, NEW token \in {"none", "live", "cancelled"}, Call(p, token) PROVE RpcInv'
  BY <1>1, <1>2, CallSafe DEF RpcInv
<1>3. ASSUME NEW p \in Peers, NEW n \in DOMAIN calls[p], CancelToken(p, n) PROVE RpcInv'
  BY <1>1, <1>3, CancelTokenSafe DEF RpcInv
<1>4. ASSUME NEW p \in Peers, Dispose(p) PROVE RpcInv'
  BY <1>1, <1>4, DisposeSafe DEF RpcInv
<1>5. ASSUME NEW p \in Peers, SendAccumulated(p) PROVE RpcInv'
  BY <1>1, <1>5, SendAccumulatedSafe DEF RpcInv
<1>6. ASSUME NEW p \in Peers, Receive(p) PROVE RpcInv'
  BY <1>1, <1>6, ReceiveSafe DEF RpcInv
<1>7. ASSUME NEW p \in Peers, ReceiveOneMessage(p) PROVE RpcInv'
  BY <1>1, <1>7, ReceiveOneMessageSafe DEF RpcInv
<1>8. ASSUME NEW p \in Peers, NEW inv \in running[p], NEW outcome \in {"returned", "threw"},
             Return(p, inv, outcome)
      PROVE  RpcInv'
  BY <1>1, <1>8, ReturnSafe DEF RpcInv
<1>9. CASE UNCHANGED vars
  <2>1. /\ disposed' = disposed /\ lastId' = lastId /\ calls' = calls /\ pending' = pending
        /\ sources' = sources /\ running' = running /\ outbox' = outbox /\ scheduled' = scheduled
        /\ wire' = wire /\ inbox' = inbox
    BY <1>9 DEF vars, local, sending
  <2>2. Typed'
    BY <2>1, <1>1 DEF Typed, TypeOK, FunctionsOK
  <2>3. ASSUME NEW r \in Peers PROVE Ordered(Road(r))' /\ CallsOK(r)'
    <3>1. Road(r)' = Road(r) /\ Road(Other(r))' = Road(Other(r))
      BY <2>1 DEF Road
    <3>2. Asks(r)' = Asks(r) /\ Answers(r)' = Answers(r)
      BY <3>1 DEF Asks, Answers, Sent
    <3> QED BY <3>1, <3>2, <2>1, <1>1, QuietKeepsCalls DEF Quiet, BothUp
  <2> QED BY <2>2, <2>3 DEF RpcInv
<1> QED BY <1>2, <1>3, <1>4, <1>5, <1>6, <1>7, <1>8, <1>9 DEF Next, Progress

\* The inductive invariant: ids are given once, each message and each invocation
\* tells the truth about its call, and what belongs to a call is on its way.
THEOREM RpcInvariant == Spec => []RpcInv
<1> QED BY InitInv, NextKeepsInv, PTL DEF Spec

-----------------------------------------------------------------------------
(* The properties *)

\* Type correctness of the protocol: the state keeps its shape, a message is only
\* queued while its sending is scheduled, and never by a disposed peer.
THEOREM RpcTypes == Spec => []TypeOK
<1>1. RpcInv => TypeOK
  BY DEF RpcInv, Typed
<1> QED BY <1>1, RpcInvariant, PTL

LEMMA SourcesFollow == RpcInv => SourcesOfRunning
<1> SUFFICES ASSUME RpcInv, NEW p \in Peers, NEW id \in Ids(Other(p))
             PROVE  sources[p][id] # "none" <=> \E inv \in running[p] : inv.id = id /\ inv.token
  BY DEF SourcesOfRunning
<1>1. Other(p) \in Peers /\ Other(Other(p)) = p
  BY TwoPeers
<1>2. HandlersOK(Other(p))
  BY <1>1 DEF RpcInv, CallsOK
<1> QED BY <1>1, <1>2 DEF HandlersOK

\* Token sources are kept for the running invocations that have a token, and for
\* nothing else (invokeHandler and receiveRequest), also after a disposal.
THEOREM TokenSourcesCleared == Spec => []SourcesOfRunning
<1> QED BY SourcesFollow, RpcInvariant, PTL

\* How many places of the road a request or a reply has.
LEMMA OnRoadIs ==
    ASSUME NEW p \in Peers, NEW type, NEW id
    PROVE  /\ OnRoad(p, type, id) # {} <=> \E m \in Sent(p) : m.type = type /\ m.id = id
           /\ Ordered(Road(p)) /\ type # "cancel" =>
                 Cardinality(OnRoad(p, type, id)) =
                    IF \E m \in Sent(p) : m.type = type /\ m.id = id THEN 1 ELSE 0
<1>1. \A x : x \in Places(Road(p)) <=>
          \E b \in DOMAIN Road(p) : \E i \in DOMAIN Road(p)[b] : x = <<b, i>>
  BY DEF Places
<1>2. \A m : m \in Sent(p) <=> \E b \in DOMAIN Road(p) : \E i \in DOMAIN Road(p)[b] : m = Road(p)[b][i]
  BY DEF Sent, Contents
<1>3. \A x : x \in OnRoad(p, type, id) <=>
          \E b \in DOMAIN Road(p) : \E i \in DOMAIN Road(p)[b] :
             x = <<b, i>> /\ Road(p)[b][i].type = type /\ Road(p)[b][i].id = id
  BY <1>1 DEF OnRoad
<1>4. OnRoad(p, type, id) # {} <=> \E m \in Sent(p) : m.type = type /\ m.id = id
  <2>1. ASSUME NEW m \in Sent(p), m.type = type, m.id = id PROVE OnRoad(p, type, id) # {}
    <3>1. PICK b \in DOMAIN Road(p) : \E i \in DOMAIN Road(p)[b] : m = Road(p)[b][i]
      BY <1>2
    <3>2. PICK i \in DOMAIN Road(p)[b] : m = Road(p)[b][i]
      BY <3>1
    <3>3. <<b, i>> \in OnRoad(p, type, id)
      BY <2>1, <3>2, <1>3
    <3> QED BY <3>3
  <2>2. ASSUME NEW x \in OnRoad(p, type, id) PROVE \E m \in Sent(p) : m.type = type /\ m.id = id
    BY <1>2, <1>3
  <2> QED BY <2>1, <2>2
<1>5. ASSUME Ordered(Road(p)), type # "cancel", NEW m \in Sent(p), m.type = type, m.id = id
      PROVE  Cardinality(OnRoad(p, type, id)) = 1
  <2>1. PICK x \in OnRoad(p, type, id) : TRUE
    BY <1>4, <1>5
  <2>2. PICK b \in DOMAIN Road(p) : \E i \in DOMAIN Road(p)[b] :
           x = <<b, i>> /\ Road(p)[b][i].type = type /\ Road(p)[b][i].id = id
    BY <1>3
  <2>3. PICK i \in DOMAIN Road(p)[b] : x = <<b, i>> /\ Road(p)[b][i].type = type /\ Road(p)[b][i].id = id
    BY <2>2
  <2>4. ASSUME NEW y \in OnRoad(p, type, id) PROVE y = x
    <3>1. PICK c \in DOMAIN Road(p) : \E j \in DOMAIN Road(p)[c] :
             y = <<c, j>> /\ Road(p)[c][j].type = type /\ Road(p)[c][j].id = id
      BY <1>3
    <3>2. PICK j \in DOMAIN Road(p)[c] : y = <<c, j>> /\ Road(p)[c][j].type = type /\ Road(p)[c][j].id = id
      BY <3>1
    <3>3. b = c /\ i = j
      BY <2>3, <3>2, <1>5 DEF Ordered
    <3> QED BY <2>3, <3>2, <3>3
  <2>5. OnRoad(p, type, id) = {x}
    BY <2>1, <2>4
  <2> QED BY <2>5, FS_Singleton
<1>6. ASSUME ~(\E m \in Sent(p) : m.type = type /\ m.id = id)
      PROVE  Cardinality(OnRoad(p, type, id)) = 0
  <2>1. OnRoad(p, type, id) = {}
    BY <1>4, <1>6
  <2> QED BY <2>1, FS_EmptySet
<1> QED BY <1>4, <1>5, <1>6

LEMMA CallsInOnePlace == RpcInv => NoCallIsLost
<1> SUFFICES ASSUME RpcInv, NEW p \in Peers, NEW n \in DOMAIN calls[p], calls[p][n].promise = "pending",
                    NEW id, id = calls[p][n].id
             PROVE  /\ pending[p][id] = n
                    /\ (\A q \in Peers : ~disposed[q]) =>
                          Cardinality(OnRoad(p, "request", id))
                          + Cardinality({inv \in running[Other(p)] : inv.id = id})
                          + Cardinality(OnRoad(Other(p), "reply", id)) = 1
  BY DEF NoCallIsLost
<1> DEFINE q == Other(p)
           Asked == \E m \in Sent(p) : m.type = "request" /\ m.id = id
           Answered == \E m \in Sent(q) : m.type = "reply" /\ m.id = id
           Run == {inv \in running[q] : inv.id = id}
<1>1. q \in Peers /\ Other(q) = p
  BY TwoPeers
<1>2. Typed /\ CallsOK(p) /\ Ordered(Road(p)) /\ Ordered(Road(q))
  BY <1>1 DEF RpcInv
<1>3. pending[p][id] = n
  BY <1>2 DEF CallsOK, PendingOK
<1>4. calls[p][n] \in CallRecords(p) /\ id # 0
  BY <1>2, CallsTyped DEF CallsOK, IdsOK
<1>5. \A m, h : Knows(p, m, id, h) => m = n /\ calls[p][n].handler = h
  BY <1>2, <1>4 DEF CallsOK, IdsOK, Knows
<1>6. /\ Asked => calls[p][n].handler = "none"
      /\ Answered => calls[p][n].handler \in {"returned", "threw"}
      /\ \A inv \in Run : inv.call = n /\ calls[p][n].handler = "running"
                          /\ (inv.token <=> WithToken(p, n))
  <2>1. Asked => calls[p][n].handler = "none"
    <3> SUFFICES ASSUME NEW m \in Sent(p), m.type = "request", m.id = id PROVE calls[p][n].handler = "none"
      OBVIOUS
    <3> QED BY <1>2, <1>5 DEF CallsOK, MessagesOK, Asks
  <2>2. Answered => calls[p][n].handler \in {"returned", "threw"}
    <3> SUFFICES ASSUME NEW m \in Sent(q), m.type = "reply", m.id = id
                 PROVE  calls[p][n].handler \in {"returned", "threw"}
      OBVIOUS
    <3>1. m.outcome \in {"returned", "threw"}
      BY <1>1, <1>2, RoadsAre, MessagesTyped
    <3> QED BY <3>1, <1>2, <1>5 DEF CallsOK, MessagesOK, Answers
  <2>3. ASSUME NEW inv \in running[q], inv.id = id
        PROVE  inv.call = n /\ calls[p][n].handler = "running" /\ (inv.token <=> WithToken(p, n))
    <3>1. Knows(p, inv.call, inv.id, "running") /\ (inv.token <=> WithToken(p, inv.call))
      BY <1>2 DEF CallsOK, HandlersOK
    <3>2. inv.call = n /\ calls[p][n].handler = "running"
      BY <2>3, <3>1, <1>5
    <3> QED BY <3>1, <3>2
  <2> QED BY <2>1, <2>2, <2>3
<1>7. ASSUME Run # {} PROVE Cardinality(Run) = 1
  <2>1. PICK inv \in Run : TRUE
    BY <1>7
  <2>2. running[q] \subseteq [id : Ids(p), call : Ids(p), token : BOOLEAN]
    BY <1>1, <1>2 DEF Typed, TypeOK
  <2>3. ASSUME NEW other \in Run PROVE other = inv
    <3>1. /\ inv \in [id : Ids(p), call : Ids(p), token : BOOLEAN]
          /\ other \in [id : Ids(p), call : Ids(p), token : BOOLEAN]
          /\ inv.id = other.id /\ inv.call = other.call
      BY <2>2, <1>6
    <3>2. inv.token <=> other.token
      BY <1>6
    <3> QED BY <3>1, <3>2
  <2>4. Run = {inv}
    BY <2>1, <2>3
  <2> QED BY <2>4, FS_Singleton
<1>8. ASSUME \A r \in Peers : ~disposed[r]
      PROVE  /\ calls[p][n].handler = "none" => Asked
             /\ calls[p][n].handler = "running" => Run # {}
             /\ calls[p][n].handler \in {"returned", "threw"} => Answered
  <2>1. CallUnderWay(p, calls[p][n])
    BY <1>1, <1>2, <1>8 DEF CallsOK, UnderWay, BothUp
  <2> QED BY <2>1, <1>4 DEF CallUnderWay, Asks, Answers
<1>9. calls[p][n].handler \in {"none", "running", "returned", "threw"}
  BY <1>4 DEF CallRecords
<1>10. /\ Cardinality(OnRoad(p, "request", id)) = IF Asked THEN 1 ELSE 0
       /\ Cardinality(OnRoad(q, "reply", id)) = IF Answered THEN 1 ELSE 0
  BY <1>1, <1>2, OnRoadIs
<1>11. Cardinality(Run) = IF Run # {} THEN 1 ELSE 0
  BY <1>7, FS_EmptySet
<1> HIDE DEF Asked, Answered
<1>12. ASSUME \A r \in Peers : ~disposed[r]
       PROVE  Cardinality(OnRoad(p, "request", id)) + Cardinality(Run)
              + Cardinality(OnRoad(q, "reply", id)) = 1
  <2>1. Run # {} => calls[p][n].handler = "running"
    BY <1>6
  <2> HIDE DEF Run
  <2>2. \/ Asked /\ Run = {} /\ ~Answered
        \/ ~Asked /\ Run # {} /\ ~Answered
        \/ ~Asked /\ Run = {} /\ Answered
    BY <1>6, <1>8, <1>9, <1>12, <2>1
  <2> QED BY <2>2, <1>10, <1>11
<1> QED BY <1>3, <1>12

\* As long as both peers are up, a pending call is in exactly one place, and its
\* caller finds it under its id (remoteCall, receiveReply, RPCMultiplexer).
THEOREM NothingLost == Spec => []NoCallIsLost
<1> QED BY CallsInOnePlace, RpcInvariant, PTL

LEMMA CancellationsFollow == RpcInv => CancellationsArrive
<1> SUFFICES ASSUME RpcInv, NEW p \in Peers, NEW inv \in running[Other(p)],
                    inv.token, ~disposed[p], ~disposed[Other(p)]
             PROVE  calls[p][inv.call].token = "cancelled" <=>
                       sources[Other(p)][inv.id] = "cancelled" \/ OnRoad(p, "cancel", inv.id) # {}
  BY DEF CancellationsArrive
<1> DEFINE n == inv.call
<1>1. Typed /\ CallsOK(p)
  BY DEF RpcInv
<1>2. n \in DOMAIN calls[p] /\ calls[p][n].id = inv.id /\ calls[p][n].handler = "running"
  BY <1>1 DEF CallsOK, HandlersOK, Knows
<1>3. inv.id # 0 /\ inv.id \in Ids(p)
  <2>1. inv.id # 0
    BY <1>1, <1>2 DEF CallsOK, IdsOK
  <2> QED BY <2>1, <1>1, <1>2, CallsTyped DEF CallRecords
<1>4. CancelledAs(p, inv.id) <=> calls[p][n].token = "cancelled"
  BY <1>1, <1>2, <1>3 DEF CallsOK, IdsOK, CancelledAs
<1>5. OnRoad(p, "cancel", inv.id) # {} <=> \E m \in Asks(p) : m.type = "cancel" /\ m.id = inv.id
  BY OnRoadIs DEF Asks
<1>6. calls[p][n].token = "cancelled" =>
         sources[Other(p)][inv.id] = "cancelled" \/ \E m \in Asks(p) : m.type = "cancel" /\ m.id = inv.id
  BY <1>1, <1>2 DEF CallsOK, UnderWay, BothUp, CallUnderWay
<1>7. sources[Other(p)][inv.id] = "cancelled" \/ (\E m \in Asks(p) : m.type = "cancel" /\ m.id = inv.id) =>
         CancelledAs(p, inv.id)
  BY <1>1, <1>3 DEF CallsOK, HandlersOK, MessagesOK
<1> QED BY <1>4, <1>5, <1>6, <1>7

\* A cancellation reaches the handler of its call and no other, unless that ended first.
THEOREM CancellationsReach == Spec => []CancellationsArrive
<1> QED BY CancellationsFollow, RpcInvariant, PTL

-----------------------------------------------------------------------------
(* The calls as their users see them *)

Promises == [c \in Calls |-> IF Made(c) THEN calls[c[1]][c[2]].promise ELSE "none"]
Handlers == [c \in Calls |-> IF Made(c) THEN calls[c[1]][c[2]].handler ELSE "none"]

AbstractIs(p, n) ==
    /\ <<p, n>> \in Calls
    /\ Promises[<<p, n>>] = IF n \in DOMAIN calls[p] THEN calls[p][n].promise ELSE "none"
    /\ Handlers[<<p, n>>] = IF n \in DOMAIN calls[p] THEN calls[p][n].handler ELSE "none"

LEMMA CallsAre ==
    /\ \A c \in Calls : c[1] \in Peers /\ c[2] \in Ids(c[1]) /\ c = <<c[1], c[2]>>
    /\ \A p \in Peers : \A n \in Ids(p) : <<p, n>> \in Calls
    /\ \A c \in Calls : /\ Promises[c] = IF c[2] \in DOMAIN calls[c[1]] THEN calls[c[1]][c[2]].promise ELSE "none"
                        /\ Handlers[c] = IF c[2] \in DOMAIN calls[c[1]] THEN calls[c[1]][c[2]].handler ELSE "none"
BY DEF Calls, Promises, Handlers, Made

LEMMA CallsHaveIds ==
    ASSUME RpcInv, NEW p \in Peers
    PROVE  /\ DOMAIN calls[p] \subseteq Ids(p) /\ Len(calls[p]) \in Nat
           /\ DOMAIN calls[p] = 1 .. Len(calls[p])
           /\ calls[p] \in Seq(CallRecords(p))
           /\ \A n \in DOMAIN calls[p] : calls[p][n].promise # "none" /\ calls[p][n] \in CallRecords(p)
<1>1. Typed /\ CallsOK(p)
  BY DEF RpcInv
<1>2. Len(calls[p]) <= MaxCalls[p] /\ MaxCalls[p] \in Nat /\ Ids(p) = 1 .. MaxCalls[p]
  BY <1>1, IdsAre DEF CallsOK, IdsOK
<1>3. /\ DOMAIN calls[p] = 1 .. Len(calls[p]) /\ Len(calls[p]) \in Nat /\ calls[p] \in Seq(CallRecords(p))
      /\ \A n \in DOMAIN calls[p] : calls[p][n] \in CallRecords(p)
  BY <1>1, CallsTyped
<1>4. \A n \in DOMAIN calls[p] : calls[p][n].promise # "none"
  BY <1>3 DEF CallRecords
<1> QED BY <1>2, <1>3, <1>4

\* One call moves, the others stay as they are.
LEMMA OneCallSeen ==
    ASSUME RpcInv, NEW p \in Peers, NEW n \in Ids(p), NEW c \in CallRecords(p),
           \A r \in Peers : r # p => calls'[r] = calls[r],
           DOMAIN calls'[p] = DOMAIN calls[p] \cup {n}, calls'[p][n] = c,
           \A m \in DOMAIN calls[p] : m # n => calls'[p][m] = calls[p][m]
    PROVE  /\ <<p, n>> \in Calls
           /\ Promises' = [Promises EXCEPT ![<<p, n>>] = c.promise]
           /\ Handlers' = [Handlers EXCEPT ![<<p, n>>] = c.handler]
<1>1. <<p, n>> \in Calls
  BY CallsAre
<1>2. Calls' = Calls
  BY DEF Calls, Ids
<1>3. ASSUME NEW d \in Calls
      PROVE  /\ Promises'[d] = IF d = <<p, n>> THEN c.promise ELSE Promises[d]
             /\ Handlers'[d] = IF d = <<p, n>> THEN c.handler ELSE Handlers[d]
  <2>1. d[1] \in Peers /\ d[2] \in Ids(d[1]) /\ d = <<d[1], d[2]>>
    BY CallsAre
  <2>2. /\ Promises[d] = IF d[2] \in DOMAIN calls[d[1]] THEN calls[d[1]][d[2]].promise ELSE "none"
        /\ Handlers[d] = IF d[2] \in DOMAIN calls[d[1]] THEN calls[d[1]][d[2]].handler ELSE "none"
        /\ Promises'[d] = IF d[2] \in DOMAIN calls'[d[1]] THEN calls'[d[1]][d[2]].promise ELSE "none"
        /\ Handlers'[d] = IF d[2] \in DOMAIN calls'[d[1]] THEN calls'[d[1]][d[2]].handler ELSE "none"
    BY <1>2 DEF Promises, Handlers, Made
  <2>3. CASE d = <<p, n>>
    BY <2>2, <2>3
  <2>4. CASE d # <<p, n>>
    <3>1. d[1] # p \/ d[2] # n
      BY <2>1, <2>4
    <3>2. CASE d[1] # p
      BY <2>1, <2>2, <2>4, <3>2
    <3>3. CASE d[1] = p /\ d[2] # n
      BY <2>2, <2>4, <3>3
    <3> QED BY <3>1, <3>2, <3>3
  <2> QED BY <2>3, <2>4
<1>4. Promises' = [Promises EXCEPT ![<<p, n>>] = c.promise]
  <2>1. DOMAIN Promises = Calls /\ Promises' = [d \in Calls |-> Promises'[d]]
        /\ Promises = [d \in Calls |-> Promises[d]]
    BY <1>2 DEF Promises
  <2>2. Promises' = [d \in Calls |-> IF d = <<p, n>> THEN c.promise ELSE Promises[d]]
    BY <2>1, <1>3
  <2> QED BY <2>1, <2>2
<1>5. Handlers' = [Handlers EXCEPT ![<<p, n>>] = c.handler]
  <2>1. DOMAIN Handlers = Calls /\ Handlers' = [d \in Calls |-> Handlers'[d]]
        /\ Handlers = [d \in Calls |-> Handlers[d]]
    BY <1>2 DEF Handlers
  <2>2. Handlers' = [d \in Calls |-> IF d = <<p, n>> THEN c.handler ELSE Handlers[d]]
    BY <2>1, <1>3
  <2> QED BY <2>1, <2>2
<1> QED BY <1>1, <1>4, <1>5

\* The users of the n-th call of p see it become c.
CallSeen(p, n, c) ==
    /\ <<p, n>> \in Calls
    /\ Promises[<<p, n>>] = calls[p][n].promise /\ Handlers[<<p, n>>] = calls[p][n].handler
    /\ Promises' = [Promises EXCEPT ![<<p, n>>] = c.promise]
    /\ Handlers' = [Handlers EXCEPT ![<<p, n>>] = c.handler]

LEMMA ExistingCallSeen ==
    ASSUME RpcInv, NEW p \in Peers, NEW n \in DOMAIN calls[p], NEW c \in CallRecords(p),
           calls' = [calls EXCEPT ![p] = [@ EXCEPT ![n] = c]]
    PROVE  CallSeen(p, n, c)
<1>1. n \in Ids(p) /\ <<p, n>> \in Calls
  BY CallsHaveIds, CallsAre
<1>2. Promises[<<p, n>>] = calls[p][n].promise /\ Handlers[<<p, n>>] = calls[p][n].handler
  BY <1>1, CallsAre
<1>3. Becomes(p, n, c)
  BY OneCallChanges DEF RpcInv
<1>4. /\ \A r \in Peers : r # p => calls'[r] = calls[r]
      /\ DOMAIN calls'[p] = DOMAIN calls[p] \cup {n} /\ calls'[p][n] = c
      /\ \A m \in DOMAIN calls[p] : m # n => calls'[p][m] = calls[p][m]
  BY <1>3 DEF Becomes
<1>5. /\ Promises' = [Promises EXCEPT ![<<p, n>>] = c.promise]
      /\ Handlers' = [Handlers EXCEPT ![<<p, n>>] = c.handler]
  BY <1>1, <1>4, OneCallSeen
<1> QED BY <1>1, <1>2, <1>5 DEF CallSeen

LEMMA CallImplements ==
    ASSUME RpcInv, NEW p \in Peers, NEW token \in {"none", "live", "cancelled"}, Call(p, token)
    PROVE  Abstract!Next
<1> SUFFICES ASSUME NEW n, n = Len(calls[p]) + 1 PROVE Abstract!Next
  OBVIOUS
<1> DEFINE id == lastId[p] + 1
           made == [id |-> id, token |-> token, promise |-> "pending", handler |-> "none"]
           refuses == disposed[p] \/ token = "cancelled"
           c == IF refuses THEN Refused ELSE made
<1>1. /\ Typed /\ CallsOK(p) /\ Len(calls[p]) \in Nat /\ DOMAIN calls[p] = 1 .. Len(calls[p])
      /\ calls[p] \in Seq(CallRecords(p)) /\ MaxCalls[p] \in Nat /\ Ids(p) = 1 .. MaxCalls[p]
      /\ lastId[p] \in Nat
  BY CallsHaveIds, CallsTyped, IdsAre DEF RpcInv
<1>2. n \in Ids(p) /\ id \in Ids(p) /\ n \notin DOMAIN calls[p]
  BY <1>1 DEF Call, CallsOK, IdsOK
<1>3. c \in CallRecords(p) /\ c.handler = "none" /\ c.promise \in {"pending", "rejected"}
  BY <1>2 DEF CallRecords, Refused
<1>4. calls' = [calls EXCEPT ![p] = Append(@, c)]
  BY DEF Call, NextId
<1> HIDE DEF c
<1>5. calls'[p] = Append(calls[p], c) /\ \A r \in Peers : r # p => calls'[r] = calls[r]
  BY <1>1, <1>4 DEF Typed, FunctionsOK
<1>6. /\ Len(Append(calls[p], c)) = n /\ Append(calls[p], c)[n] = c
      /\ \A m \in 1 .. Len(calls[p]) : Append(calls[p], c)[m] = calls[p][m]
      /\ Append(calls[p], c) \in Seq(CallRecords(p))
  BY <1>1, <1>3, AppendProperties
<1>7. DOMAIN Append(calls[p], c) = DOMAIN calls[p] \cup {n}
  <2>1. DOMAIN Append(calls[p], c) = 1 .. n
    BY <1>6, LenProperties
  <2> QED BY <2>1, <1>1
<1>8. /\ <<p, n>> \in Calls
      /\ Promises' = [Promises EXCEPT ![<<p, n>>] = c.promise]
      /\ Handlers' = [Handlers EXCEPT ![<<p, n>>] = c.handler]
  <2>1. /\ DOMAIN calls'[p] = DOMAIN calls[p] \cup {n} /\ calls'[p][n] = c
        /\ \A m \in DOMAIN calls[p] : m # n => calls'[p][m] = calls[p][m]
    BY <1>1, <1>5, <1>6, <1>7
  <2> QED BY <2>1, <1>2, <1>3, <1>5, OneCallSeen
<1>9. Promises[<<p, n>>] = "none" /\ Handlers[<<p, n>>] = "none"
  BY <1>2, <1>8, CallsAre
<1>10. Handlers' = Handlers
  <2>1. Handlers = [d \in Calls |-> Handlers[d]]
    BY DEF Handlers
  <2> QED BY <2>1, <1>3, <1>8, <1>9
<1>11. Abstract!Make(<<p, n>>) \/ Abstract!Refuse(<<p, n>>)
  BY <1>3, <1>8, <1>9, <1>10 DEF Abstract!Make, Abstract!Refuse, Promises, Handlers
<1> QED BY <1>8, <1>11 DEF Abstract!Next

LEMMA RequestImplements ==
    ASSUME RpcInv, NEW p \in Peers, ReceiveOneMessage(p), Head(inbox[p]).type = "request"
    PROVE  Abstract!Next
<1> SUFFICES ASSUME NEW q, q = Other(p), NEW msg, msg = Head(inbox[p]), NEW n, n = msg.call
             PROVE  Abstract!Next
  OBVIOUS
<1> DEFINE c == [calls[q][n] EXCEPT !.handler = "running"]
<1>1. q \in Peers /\ Typed /\ CallsOK(q) /\ \A r \in Peers : Ordered(Road(r))
  BY TwoPeers DEF RpcInv
<1>2. msg \in Asks(q)
  BY <1>1, HandlingTwoWays
<1>3. n \in DOMAIN calls[q] /\ calls[q][n].handler = "none"
  BY <1>1, <1>2 DEF CallsOK, MessagesOK, Knows
<1>4. /\ calls[q][n] \in CallRecords(q) /\ calls[q][n].promise # "none"
      /\ c \in CallRecords(q) /\ c.handler = "running" /\ c.promise = calls[q][n].promise
  <2>1. calls[q][n] \in CallRecords(q) /\ calls[q][n].promise # "none"
    BY <1>1, <1>3, CallsHaveIds
  <2> QED BY <2>1 DEF CallRecords
<1>5. calls' = [calls EXCEPT ![q] = [@ EXCEPT ![n] = c]]
  BY DEF ReceiveOneMessage, ReceiveRequest
<1> HIDE DEF c
<1>6. /\ <<q, n>> \in Calls
      /\ Promises[<<q, n>>] = calls[q][n].promise /\ Handlers[<<q, n>>] = calls[q][n].handler
      /\ Promises' = [Promises EXCEPT ![<<q, n>>] = c.promise]
      /\ Handlers' = [Handlers EXCEPT ![<<q, n>>] = c.handler]
  <2>1. CallSeen(q, n, c)
    BY <1>1, <1>3, <1>4, <1>5, ExistingCallSeen
  <2> QED BY <2>1 DEF CallSeen
<1>7. Promises' = Promises
  <2>1. Promises = [d \in Calls |-> Promises[d]]
    BY DEF Promises
  <2> QED BY <2>1, <1>4, <1>6
<1>8. Abstract!Start(<<q, n>>)
  BY <1>3, <1>4, <1>6, <1>7 DEF Abstract!Start, Promises, Handlers
<1> QED BY <1>6, <1>8 DEF Abstract!Next

LEMMA ReplyImplements ==
    ASSUME RpcInv, NEW p \in Peers, ReceiveOneMessage(p), Head(inbox[p]).type = "reply"
    PROVE  Abstract!Next \/ calls' = calls
<1> SUFFICES ASSUME NEW msg, msg = Head(inbox[p]), NEW n, n = pending[p][msg.id], n # 0
             PROVE  Abstract!Next
  BY DEF ReceiveOneMessage, ReceiveReply
<1> DEFINE c == [calls[p][n] EXCEPT !.promise = msg.outcome]
<1>1. Typed /\ CallsOK(p) /\ Other(p) \in Peers /\ \A r \in Peers : Ordered(Road(r))
  BY TwoPeers DEF RpcInv
<1>2. msg \in Messages(Other(p)) /\ msg \in Answers(p)
  BY <1>1, HandlingTwoWays
<1>3. msg.id \in Ids(p) /\ msg.outcome \in {"returned", "threw"} /\ msg.id # 0
  BY <1>1, <1>2, MessagesTyped, IdsAre, TwoPeers
<1>4. Knows(p, msg.call, msg.id, msg.outcome)
  BY <1>1, <1>2 DEF CallsOK, MessagesOK
<1>5. n \in DOMAIN calls[p] /\ calls[p][n].id = msg.id /\ calls[p][n].promise = "pending"
  BY <1>1, <1>3 DEF CallsOK, PendingOK
\* The answer is that of the call's own handler.
<1>6. calls[p][n].handler = msg.outcome
  BY <1>1, <1>3, <1>4, <1>5 DEF CallsOK, IdsOK, Knows
<1>7. c \in CallRecords(p) /\ c.handler = msg.outcome /\ c.promise = msg.outcome
  <2>1. calls[p][n] \in CallRecords(p)
    BY <1>5, CallsHaveIds
  <2> QED BY <2>1, <1>3, <1>6 DEF CallRecords
<1>8. calls' = [calls EXCEPT ![p] = [@ EXCEPT ![n] = c]]
  BY DEF ReceiveOneMessage, ReceiveReply, Settle
<1> HIDE DEF c
<1>9. /\ <<p, n>> \in Calls
      /\ Promises[<<p, n>>] = calls[p][n].promise /\ Handlers[<<p, n>>] = calls[p][n].handler
      /\ Promises' = [Promises EXCEPT ![<<p, n>>] = c.promise]
      /\ Handlers' = [Handlers EXCEPT ![<<p, n>>] = c.handler]
  <2>1. CallSeen(p, n, c)
    BY <1>5, <1>7, <1>8, ExistingCallSeen
  <2> QED BY <2>1 DEF CallSeen
<1>10. Handlers' = Handlers
  <2>1. Handlers = [d \in Calls |-> Handlers[d]]
    BY DEF Handlers
  <2> QED BY <2>1, <1>6, <1>7, <1>9
<1>11. Abstract!Answer(<<p, n>>)
  <2>1. /\ Promises[<<p, n>>] = "pending" /\ Handlers[<<p, n>>] \in {"returned", "threw"}
        /\ Promises' = [Promises EXCEPT ![<<p, n>>] = Handlers[<<p, n>>]]
    BY <1>3, <1>5, <1>6, <1>7, <1>9
  <2> QED BY <2>1, <1>10 DEF Abstract!Answer, Promises, Handlers
<1> QED BY <1>9, <1>11 DEF Abstract!Next

LEMMA ReturnImplements ==
    ASSUME RpcInv, NEW p \in Peers, NEW inv \in running[p], NEW outcome \in {"returned", "threw"},
           Return(p, inv, outcome)
    PROVE  Abstract!Next
<1> SUFFICES ASSUME NEW q, q = Other(p), NEW n, n = inv.call
             PROVE  Abstract!Next
  OBVIOUS
<1> DEFINE c == [calls[q][n] EXCEPT !.handler = outcome]
<1>1. q \in Peers /\ Other(q) = p /\ CallsOK(q)
  BY TwoPeers DEF RpcInv
<1>2. n \in DOMAIN calls[q] /\ calls[q][n].handler = "running"
  BY <1>1 DEF CallsOK, HandlersOK, Knows
<1>3. c \in CallRecords(q) /\ c.handler = outcome /\ c.promise = calls[q][n].promise
  <2>1. calls[q][n] \in CallRecords(q)
    BY <1>1, <1>2, CallsHaveIds
  <2> QED BY <2>1 DEF CallRecords
<1>4. calls' = [calls EXCEPT ![q] = [@ EXCEPT ![n] = c]]
  BY DEF Return
<1> HIDE DEF c
<1>5. /\ <<q, n>> \in Calls
      /\ Promises[<<q, n>>] = calls[q][n].promise /\ Handlers[<<q, n>>] = calls[q][n].handler
      /\ Promises' = [Promises EXCEPT ![<<q, n>>] = c.promise]
      /\ Handlers' = [Handlers EXCEPT ![<<q, n>>] = c.handler]
  <2>1. CallSeen(q, n, c)
    BY <1>1, <1>2, <1>3, <1>4, ExistingCallSeen
  <2> QED BY <2>1 DEF CallSeen
<1>6. Promises' = Promises
  <2>1. Promises = [d \in Calls |-> Promises[d]]
    BY DEF Promises
  <2> QED BY <2>1, <1>3, <1>5
<1>7. Abstract!End(<<q, n>>)
  BY <1>2, <1>3, <1>5, <1>6 DEF Abstract!End, Promises, Handlers
<1> QED BY <1>5, <1>7 DEF Abstract!Next

LEMMA CancelTokenImplements ==
    ASSUME RpcInv, NEW p \in Peers, NEW n \in DOMAIN calls[p], CancelToken(p, n)
    PROVE  Promises' = Promises /\ Handlers' = Handlers
<1> DEFINE c == [calls[p][n] EXCEPT !.token = "cancelled"]
<1>1. c \in CallRecords(p) /\ c.handler = calls[p][n].handler /\ c.promise = calls[p][n].promise
  <2>1. calls[p][n] \in CallRecords(p)
    BY CallsHaveIds
  <2> QED BY <2>1 DEF CallRecords
<1>2. calls' = [calls EXCEPT ![p] = [@ EXCEPT ![n] = c]]
  BY DEF CancelToken
<1> HIDE DEF c
<1>3. /\ Promises[<<p, n>>] = c.promise /\ Handlers[<<p, n>>] = c.handler
      /\ Promises' = [Promises EXCEPT ![<<p, n>>] = c.promise]
      /\ Handlers' = [Handlers EXCEPT ![<<p, n>>] = c.handler]
  <2>1. CallSeen(p, n, c)
    BY <1>1, <1>2, ExistingCallSeen
  <2> QED BY <2>1, <1>1 DEF CallSeen
<1>4. Promises = [d \in Calls |-> Promises[d]] /\ Handlers = [d \in Calls |-> Handlers[d]]
  BY DEF Promises, Handlers
<1> QED BY <1>3, <1>4

LEMMA DisposeImplements ==
    ASSUME RpcInv, NEW p \in Peers, Dispose(p)
    PROVE  Abstract!Next
<1> DEFINE waiting == {pending[p][id] : id \in Ids(p)}
           rejected == [n \in DOMAIN calls[p] |->
                           IF n \in waiting THEN [calls[p][n] EXCEPT !.promise = "rejected"] ELSE calls[p][n]]
<1> SUFFICES ASSUME NEW cs, cs = {c \in Calls : c[1] = p /\ Promises[c] = "pending"}
             PROVE  Abstract!Next
  OBVIOUS
<1>1. Typed /\ CallsOK(p)
  BY DEF RpcInv
<1>2. calls'[p] = rejected /\ \A r \in Peers : r # p => calls'[r] = calls[r]
  BY <1>1 DEF Dispose, Typed, FunctionsOK
<1>3. ASSUME NEW n \in DOMAIN calls[p]
      PROVE  /\ n \in waiting <=> calls[p][n].promise = "pending"
             /\ rejected[n].handler = calls[p][n].handler
             /\ rejected[n].promise = IF calls[p][n].promise = "pending" THEN "rejected" ELSE calls[p][n].promise
  <2>1. calls[p][n] \in CallRecords(p) /\ n # 0
    BY CallsHaveIds
  <2>2. n \in waiting => calls[p][n].promise = "pending"
    BY <2>1, <1>1 DEF CallsOK, PendingOK
  <2>3. calls[p][n].promise = "pending" => n \in waiting
    <3>1. calls[p][n].promise = "pending" => calls[p][n].id # 0 /\ pending[p][calls[p][n].id] = n
      BY <1>1 DEF CallsOK, IdsOK, PendingOK
    <3>2. calls[p][n].promise = "pending" => calls[p][n].id \in Ids(p)
      BY <3>1, <2>1 DEF CallRecords
    <3> QED BY <3>1, <3>2
  <2>4. n \in waiting <=> calls[p][n].promise = "pending"
    BY <2>2, <2>3
  <2> HIDE DEF waiting
  <2>5. rejected[n] = IF n \in waiting THEN [calls[p][n] EXCEPT !.promise = "rejected"] ELSE calls[p][n]
    OBVIOUS
  <2>6. /\ [calls[p][n] EXCEPT !.promise = "rejected"].promise = "rejected"
        /\ [calls[p][n] EXCEPT !.promise = "rejected"].handler = calls[p][n].handler
    BY <2>1 DEF CallRecords
  <2> QED BY <2>4, <2>5, <2>6
<1>4. DOMAIN rejected = DOMAIN calls[p]
  OBVIOUS
<1> HIDE DEF rejected, waiting
<1>5. Calls' = Calls
  BY DEF Calls, Ids
<1>6. ASSUME NEW c \in Calls
      PROVE  /\ Promises'[c] = IF c \in cs THEN "rejected" ELSE Promises[c]
             /\ Handlers'[c] = Handlers[c]
  <2>1. c[1] \in Peers /\ c[2] \in Ids(c[1]) /\ c = <<c[1], c[2]>>
    BY CallsAre
  <2>2. /\ Promises[c] = IF c[2] \in DOMAIN calls[c[1]] THEN calls[c[1]][c[2]].promise ELSE "none"
        /\ Handlers[c] = IF c[2] \in DOMAIN calls[c[1]] THEN calls[c[1]][c[2]].handler ELSE "none"
        /\ Promises'[c] = IF c[2] \in DOMAIN calls'[c[1]] THEN calls'[c[1]][c[2]].promise ELSE "none"
        /\ Handlers'[c] = IF c[2] \in DOMAIN calls'[c[1]] THEN calls'[c[1]][c[2]].handler ELSE "none"
    BY <1>5 DEF Promises, Handlers, Made
  <2>3. CASE c[1] = p
    BY <2>2, <2>3, <1>2, <1>3, <1>4
  <2>4. CASE c[1] # p
    BY <2>1, <2>2, <2>4, <1>2
  <2> QED BY <2>3, <2>4
<1>7. Promises' = [c \in Calls |-> IF c \in cs THEN "rejected" ELSE Promises[c]]
  <2>1. Promises' = [c \in Calls |-> Promises'[c]]
    BY <1>5 DEF Promises
  <2> QED BY <2>1, <1>6
<1>8. Handlers' = Handlers
  <2>1. Handlers' = [c \in Calls |-> Handlers'[c]] /\ Handlers = [c \in Calls |-> Handlers[c]]
    BY <1>5 DEF Handlers
  <2> QED BY <2>1, <1>6
<1>9. cs \in SUBSET Calls /\ \A c \in cs : Promises[c] = "pending"
  OBVIOUS
<1>10. Abstract!Close(cs)
  BY <1>7, <1>8, <1>9 DEF Abstract!Close, Promises, Handlers
<1> QED BY <1>9, <1>10 DEF Abstract!Next

LEMMA NextImplements == RpcInv /\ [Next]_vars => [Abstract!Next]_(Abstract!vars)
<1> SUFFICES ASSUME RpcInv, [Next]_vars PROVE Abstract!Next \/ (Promises' = Promises /\ Handlers' = Handlers)
  BY DEF Abstract!vars, Promises, Handlers
<1>1. calls' = calls => Promises' = Promises /\ Handlers' = Handlers
  BY DEF Promises, Handlers, Made, Calls, Ids
<1>2. ASSUME NEW p \in Peers, NEW token \in {"none", "live", "cancelled"}, Call(p, token)
      PROVE  Abstract!Next
  BY <1>2, CallImplements
<1>3. ASSUME NEW p \in Peers, NEW n \in DOMAIN calls[p], CancelToken(p, n)
      PROVE  Promises' = Promises /\ Handlers' = Handlers
  BY <1>3, CancelTokenImplements
<1>4. ASSUME NEW p \in Peers, Dispose(p) PROVE Abstract!Next
  BY <1>4, DisposeImplements
<1>5. ASSUME NEW p \in Peers, SendAccumulated(p) \/ Receive(p) PROVE calls' = calls
  BY <1>5 DEF SendAccumulated, Receive, local
<1>6. ASSUME NEW p \in Peers, ReceiveOneMessage(p) PROVE Abstract!Next \/ calls' = calls
  <2>1. \/ Head(inbox[p]).type = "request" \/ Head(inbox[p]).type = "reply"
        \/ Head(inbox[p]).type = "cancel" /\ calls' = calls
    BY <1>6 DEF ReceiveOneMessage, ReceiveCancel
  <2> QED BY <2>1, <1>6, RequestImplements, ReplyImplements
<1>7. ASSUME NEW p \in Peers, NEW inv \in running[p], NEW outcome \in {"returned", "threw"},
             Return(p, inv, outcome)
      PROVE  Abstract!Next
  BY <1>7, ReturnImplements
<1>8. UNCHANGED vars => calls' = calls
  BY DEF vars, local
<1> QED BY <1>1, <1>2, <1>3, <1>4, <1>5, <1>6, <1>7, <1>8 DEF Next, Progress

LEMMA InitImplements == Init => Abstract!Init
<1> SUFFICES ASSUME Init PROVE Abstract!Init
  OBVIOUS
<1>1. \A c \in Calls : ~Made(c)
  BY CallsAre DEF Init, Made
<1> QED BY <1>1 DEF Abstract!Init

\* Refinement: a call is answered at most once, and only with what its own handler
\* returned or threw; the handler runs at most once, and only for a call that was made.
THEOREM CallsImplemented == Spec => CallsAsPromised
<1> QED BY InitImplements, NextImplements, RpcInvariant, PTL DEF Spec, CallsAsPromised, Abstract!Spec
=============================================================================
