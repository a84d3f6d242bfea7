------------------------ MODULE MultiRingBufferProofs ------------------------
(***************************************************************************)
(* Theorems about MultiRingBuffer and their proofs, for any size of the     *)
(* buffer, any strings written, and any number of readers.                  *)
(***************************************************************************)
EXTENDS MultiRingBuffer, SequenceTheorems, TLAPS

\* The slot x places after the first one, for x below twice the size.
Wrap(x) == IF x < MaxSize THEN x ELSE x - MaxSize

\* Where the bytes are: counted back from the head, which is the newest, and across
\* the end of the buffer once that is full. The tail follows from the head.
RingInv ==
    /\ buffer \in [Slots -> 0 .. written]
    /\ written \in Nat
    /\ written = 0 => head = -1 /\ tail = -1
    /\ written # 0 => /\ head \in Slots
                      /\ tail = IF written < MaxSize THEN 0 ELSE Wrap(head + 1)
                      /\ written < MaxSize => head = written - 1
    /\ \A s \in Slots : s <= head => buffer[s] = written - (head - s)
    /\ \A s \in Slots : s > head /\ written >= MaxSize => buffer[s] = written - (head + MaxSize - s)

-----------------------------------------------------------------------------
(* Positions *)

LEMMA Modulo ==
    ASSUME NEW m \in Nat \ {0}, NEW x \in 0 .. 2 * m - 1
    PROVE  x % m = IF x < m THEN x ELSE x - m
<1>1. x % m \in 0 .. m - 1 /\ x = m * (x \div m) + (x % m)
  OBVIOUS
<1>2. x \div m \in Int
  OBVIOUS
<1>3. x \div m \in {0, 1}
  <2> DEFINE q == x \div m
  <2>1. q >= 0
    <3>1. ASSUME q <= -1 PROVE m * q <= -m
      BY <1>2, <3>1
    <3> QED BY <1>1, <1>2, <3>1
  <2>2. q <= 1
    <3>1. ASSUME q >= 2 PROVE m * q >= 2 * m
      BY <1>2, <3>1
    <3> QED BY <1>1, <1>2, <3>1
  <2> QED BY <1>2, <2>1, <2>2
<1> QED BY <1>1, <1>3

\* Moving by at most the size of the buffer passes its end at most once.
LEMMA Positions ==
    ASSUME NEW pos \in Slots, NEW size \in 0 .. MaxSize
    PROVE  /\ IncPos(pos, size) = Wrap(pos + size)
           /\ IncWrap(pos, size) <=> pos + size >= MaxSize /\ size # 0
<1>1. MaxSize \in Nat \ {0}
  BY SizeAssumption
<1>2. (pos + size) % MaxSize = Wrap(pos + size)
  <2> DEFINE x == pos + size
  <2>1. x \in 0 .. 2 * MaxSize - 1
    BY <1>1 DEF Slots
  <2> HIDE DEF x
  <2>2. x % MaxSize = Wrap(x)
    BY <1>1, <2>1, Modulo DEF Wrap
  <2> QED BY <2>2 DEF x
<1>3. IncPos(pos, size) = Wrap(pos + size)
  BY <1>1, <1>2 DEF IncPos, Slots, Wrap
<1> QED BY <1>1, <1>3 DEF IncWrap, Slots, Wrap

-----------------------------------------------------------------------------
\* The effect of enq on the buffer, with the positions worked out.
LEMMA Enqueued ==
    ASSUME RingInv, NEW n \in 1 .. MaxChunk, Enq(n)
    PROVE  \E kept \in 1 .. MaxSize, start \in Slots :
              /\ kept = IF n > MaxSize THEN MaxSize ELSE n
              /\ start = IF written = 0 THEN 0 ELSE Wrap(head + 1)
              /\ written' = written + n
              /\ head' = IF written = 0 THEN kept - 1 ELSE Wrap(head + kept)
              /\ tail' = IF written + kept <= MaxSize THEN 0 ELSE Wrap(head' + 1)
              /\ buffer' = [s \in Slots |->
                     LET offset == IF s >= start THEN s - start ELSE s + MaxSize - start
                     IN  IF offset < kept THEN written + n - kept + 1 + offset ELSE buffer[s]]
<1> DEFINE kept == IF n > MaxSize THEN MaxSize ELSE n
           empty == head = -1 /\ tail = -1
           start == IF empty THEN 0 ELSE IncPos(head, 1)
           newTail == IF empty THEN 0 ELSE IncTail(kept)
<1>0. MaxSize \in Nat /\ MaxSize > 0 /\ MaxChunk \in Nat
  BY SizeAssumption, BoundAssumption
<1>1. kept \in 1 .. MaxSize /\ 1 \in 0 .. MaxSize /\ n \in Nat
  BY <1>0
<1>2. /\ written' = written + n
      /\ buffer' = [s \in Slots |->
             LET offset == (s + MaxSize - start) % MaxSize
             IN  IF offset < kept THEN written + n - kept + 1 + offset ELSE buffer[s]]
      /\ head' = IF empty THEN kept - 1 ELSE IncPos(head, kept)
      /\ tail' = newTail
  BY DEF Enq
<1>3. empty <=> written = 0
  BY <1>0 DEF RingInv, Slots
<1>4. start = (IF written = 0 THEN 0 ELSE Wrap(head + 1)) /\ start \in Slots
  <2>1. CASE written = 0
    BY <1>0, <1>3, <2>1 DEF Slots
  <2>2. CASE written # 0
    <3>1. head \in Slots
      BY <2>2 DEF RingInv
    <3>2. IncPos(head, 1) = Wrap(head + 1)
      BY <3>1, <1>1, Positions
    <3> QED BY <1>0, <1>3, <2>2, <3>1, <3>2 DEF Wrap, Slots
  <2> QED BY <2>1, <2>2
<1>5. head' = IF written = 0 THEN kept - 1 ELSE Wrap(head + kept)
  <2>1. CASE written # 0
    <3>1. head \in Slots
      BY <2>1 DEF RingInv
    <3> HIDE DEF kept
    <3>2. IncPos(head, kept) = Wrap(head + kept)
      BY <3>1, <1>1, Positions
    <3> QED BY <1>2, <1>3, <2>1, <3>2
  <2> QED BY <1>2, <1>3, <2>1
<1>6. tail' = IF written + kept <= MaxSize THEN 0 ELSE Wrap(head' + 1)
  <2> HIDE DEF kept
  <2>1. CASE written = 0
    <3>1. tail' = 0 /\ head' = kept - 1
      BY <1>2, <1>3, <1>5, <2>1
    <3> QED BY <1>0, <1>1, <2>1, <3>1
  <2>2. CASE written # 0
    <3>1. /\ head \in Slots /\ written \in Nat
          /\ tail = IF written < MaxSize THEN 0 ELSE Wrap(head + 1)
          /\ written < MaxSize => head = written - 1
      BY <2>2 DEF RingInv
    <3>2. /\ IncPos(head, kept) = Wrap(head + kept)
          /\ IncWrap(head, kept) <=> head + kept >= MaxSize
          /\ IncPos(head, kept) \in Slots
      BY <1>0, <1>1, <3>1, Positions DEF Wrap, Slots
    <3>3. head' = IncPos(head, kept) /\ IncPos(IncPos(head, kept), 1) = Wrap(head' + 1)
      <4> DEFINE new == IncPos(head, kept)
      <4>1. head' = new
        BY <1>5, <2>2, <3>2
      <4> HIDE DEF new
      <4>2. new \in Slots
        BY <3>2 DEF new
      <4>3. IncPos(new, 1) = Wrap(new + 1)
        BY <1>1, <4>2, Positions
      <4> QED BY <4>1, <4>3 DEF new
    <3>4. ShouldIncPos(tail, head, kept) <=> written + kept > MaxSize
      BY <1>0, <1>1, <3>1, <3>2 DEF ShouldIncPos, IsWrapped, Wrap, Slots
    <3>5. tail' = IF ShouldIncPos(tail, head, kept) THEN Wrap(head' + 1) ELSE tail
      BY <1>2, <1>3, <2>2, <3>3 DEF IncTail
    <3> QED BY <1>0, <1>1, <3>1, <3>4, <3>5
  <2> QED BY <2>1, <2>2
<1>7. \A s \in Slots : (s + MaxSize - start) % MaxSize = IF s >= start THEN s - start ELSE s + MaxSize - start
  <2> HIDE DEF start
  <2> SUFFICES ASSUME NEW s \in Slots
               PROVE  (s + MaxSize - start) % MaxSize = IF s >= start THEN s - start ELSE s + MaxSize - start
    OBVIOUS
  <2> DEFINE x == s + MaxSize - start
  <2>1. MaxSize \in Nat \ {0} /\ x \in 0 .. 2 * MaxSize - 1
    BY <1>0, <1>4 DEF Slots
  <2>2. x % MaxSize = IF x < MaxSize THEN x ELSE x - MaxSize
    <3> HIDE DEF x
    <3> QED BY <2>1, Modulo
  <2> QED BY <1>0, <1>4, <2>2 DEF Slots
<1>8. buffer' = [s \in Slots |->
          LET offset == IF s >= start THEN s - start ELSE s + MaxSize - start
          IN  IF offset < kept THEN written + n - kept + 1 + offset ELSE buffer[s]]
  <2> HIDE DEF start, kept
  <2> QED BY <1>2, <1>7
<1> HIDE DEF start, kept, empty, newTail
<1>9. kept = IF n > MaxSize THEN MaxSize ELSE n
  BY DEF kept
<1> QED BY <1>1, <1>2, <1>4, <1>5, <1>6, <1>8, <1>9

LEMMA EnqKeepsInv ==
    ASSUME RingInv, NEW n \in 1 .. MaxChunk, Enq(n)
    PROVE  RingInv'
<1>0. MaxSize \in Nat /\ MaxSize > 0 /\ n \in Nat /\ n > 0
  BY SizeAssumption, BoundAssumption
<1>1. PICK kept \in 1 .. MaxSize, start \in Slots :
          /\ kept = IF n > MaxSize THEN MaxSize ELSE n
          /\ start = IF written = 0 THEN 0 ELSE Wrap(head + 1)
          /\ written' = written + n
          /\ head' = IF written = 0 THEN kept - 1 ELSE Wrap(head + kept)
          /\ tail' = IF written + kept <= MaxSize THEN 0 ELSE Wrap(head' + 1)
          /\ buffer' = [s \in Slots |->
                 LET offset == IF s >= start THEN s - start ELSE s + MaxSize - start
                 IN  IF offset < kept THEN written + n - kept + 1 + offset ELSE buffer[s]]
  BY Enqueued
<1>a. /\ kept \in Nat /\ kept > 0 /\ kept <= MaxSize /\ kept <= n /\ (n <= MaxSize => kept = n)
      /\ (n > MaxSize => kept = MaxSize)
      /\ start \in Nat /\ start < MaxSize
  BY <1>0, <1>1 DEF Slots
<1>b. /\ start = IF written = 0 THEN 0 ELSE Wrap(head + 1)
      /\ written' = written + n
      /\ head' = IF written = 0 THEN kept - 1 ELSE Wrap(head + kept)
      /\ tail' = IF written + kept <= MaxSize THEN 0 ELSE Wrap(head' + 1)
  BY <1>1
<1>c. \A s \in Slots : buffer'[s] =
          IF (IF s >= start THEN s - start ELSE s + MaxSize - start) < kept
          THEN written + n - kept + 1 + (IF s >= start THEN s - start ELSE s + MaxSize - start)
          ELSE buffer[s]
  BY <1>1
<1>2. /\ written \in Nat
      /\ written = 0 => head = -1
      /\ written # 0 => head \in Nat /\ head < MaxSize
      /\ written # 0 /\ written < MaxSize => head = written - 1
  BY <1>0 DEF RingInv, Slots
<1>3. head' \in Nat /\ head' < MaxSize /\ written' \in Nat /\ written' # 0
  BY <1>0, <1>a, <1>b, <1>2 DEF Wrap
<1>4. written' < MaxSize => head' = written' - 1 /\ tail' = 0
  BY <1>0, <1>a, <1>b, <1>2 DEF Wrap
<1>5. written' >= MaxSize => tail' = Wrap(head' + 1)
  BY <1>0, <1>a, <1>b, <1>2, <1>3 DEF Wrap
<1>6. \A s \in Slots : buffer[s] \in 0 .. written
  BY DEF RingInv
<1>7. buffer' \in [Slots -> 0 .. written']
  <2>1. buffer' = [s \in Slots |-> buffer'[s]]
    BY <1>1
  <2>2. ASSUME NEW s \in Slots PROVE buffer'[s] \in 0 .. written'
    BY <1>0, <1>a, <1>b, <1>2, <1>6, <1>c DEF Slots
  <2> QED BY <2>1, <2>2
<1>8. ASSUME NEW s \in Slots, s <= head'
      PROVE  buffer'[s] = written' - (head' - s)
  <2> DEFINE offset == IF s >= start THEN s - start ELSE s + MaxSize - start
  <2>1. buffer'[s] = IF offset < kept THEN written + n - kept + 1 + offset ELSE buffer[s]
    BY <1>c
  <2>2. CASE offset < kept
    <3>0. s \in Nat /\ s < MaxSize
      BY <1>0 DEF Slots
    <3>1. head' = IF start + kept - 1 < MaxSize THEN start + kept - 1 ELSE start + kept - 1 - MaxSize
      <4>1. CASE written = 0
        BY <1>0, <1>a, <1>b, <4>1
      <4>2. CASE written # 0
        BY <1>0, <1>a, <1>b, <1>2, <4>2 DEF Wrap
      <4> QED BY <4>1, <4>2
    <3>2. CASE s >= start
      BY <1>0, <1>a, <1>b, <1>2, <1>8, <2>1, <2>2, <3>0, <3>1, <3>2
    <3>3. CASE ~(s >= start)
      BY <1>0, <1>a, <1>b, <1>2, <1>8, <2>1, <2>2, <3>0, <3>1, <3>3
    <3> QED BY <3>2, <3>3
  <2>3. CASE ~(offset < kept)
    <3>1. s <= head /\ n = kept /\ written # 0
      BY <1>0, <1>a, <1>b, <1>2, <1>3, <1>8, <2>3 DEF Slots, Wrap
    <3>2. buffer[s] = written - (head - s)
      BY <3>1 DEF RingInv
    <3> QED BY <1>0, <1>a, <1>b, <1>2, <1>3, <1>8, <2>1, <2>3, <3>1, <3>2 DEF Slots, Wrap
  <2> QED BY <2>2, <2>3
<1>9. ASSUME NEW s \in Slots, s > head', written' >= MaxSize
      PROVE  buffer'[s] = written' - (head' + MaxSize - s)
  <2> DEFINE offset == IF s >= start THEN s - start ELSE s + MaxSize - start
  <2>1. buffer'[s] = IF offset < kept THEN written + n - kept + 1 + offset ELSE buffer[s]
    BY <1>c
  <2>2. CASE offset < kept
    BY <1>0, <1>a, <1>b, <1>2, <1>3, <1>9, <2>1, <2>2 DEF Slots, Wrap
  <2>3. CASE ~(offset < kept)
    <3>1. n = kept /\ written # 0
      BY <1>0, <1>a, <1>b, <1>2, <1>3, <1>9, <2>3 DEF Slots, Wrap
    <3>2. CASE s <= head
      <4>1. buffer[s] = written - (head - s)
        BY <3>2 DEF RingInv
      <4> QED BY <1>0, <1>a, <1>b, <1>2, <1>3, <1>9, <2>1, <2>3, <3>1, <3>2, <4>1 DEF Slots, Wrap
    <3>3. CASE s > head
      <4>1. written >= MaxSize
        BY <1>0, <1>a, <1>b, <1>2, <1>3, <1>9, <2>3, <3>1, <3>3 DEF Slots, Wrap
      <4>2. buffer[s] = written - (head + MaxSize - s)
        BY <3>3, <4>1 DEF RingInv
      <4> QED BY <1>0, <1>a, <1>b, <1>2, <1>3, <1>9, <2>1, <2>3, <3>1, <3>3, <4>2 DEF Slots, Wrap
    <3> QED BY <1>2, <3>1, <3>2, <3>3 DEF Slots
  <2> QED BY <2>2, <2>3
<1>10. tail' = IF written' < MaxSize THEN 0 ELSE Wrap(head' + 1)
  <2>1. CASE written' < MaxSize
    BY <1>4, <2>1
  <2>2. CASE ~(written' < MaxSize)
    <3>1. written' >= MaxSize
      BY <1>0, <1>3, <2>2
    <3> QED BY <1>5, <2>2, <3>1
  <2> QED BY <2>1, <2>2
<1>11. head' \in Slots
  BY <1>0, <1>3 DEF Slots
<1>12. Slots' = Slots /\ MaxSize' = MaxSize /\ (Wrap(head + 1))' = Wrap(head' + 1)
  BY DEF Slots, Wrap
<1> QED BY <1>3, <1>4, <1>7, <1>8, <1>9, <1>10, <1>11, <1>12 DEF RingInv

-----------------------------------------------------------------------------
LEMMA InitialRing == ASSUME Init PROVE RingInv
<1>1. head = -1 /\ tail = -1 /\ written = 0 /\ buffer = [s \in Slots |-> 0]
  BY DEF Init
<1>2. \A s \in Slots : ~(s <= head) /\ ~(written >= MaxSize)
  BY <1>1, SizeAssumption DEF Slots
<1> QED BY <1>1, <1>2 DEF RingInv

LEMMA InvHolds == Spec => []RingInv
<1>1. Init => RingInv
  BY InitialRing
<1>2. RingInv /\ [Next]_vars => RingInv'
  <2> SUFFICES ASSUME RingInv, [Next]_vars PROVE RingInv'
    OBVIOUS
  <2>1. CASE UNCHANGED <<buffer, head, tail, written>>
    BY <2>1 DEF RingInv, Slots, Wrap
  <2>2. CASE \E n \in 1 .. MaxChunk : Enq(n)
    BY <2>2, EnqKeepsInv
  <2> QED BY <2>1, <2>2 DEF Next, vars, Open, Close, Deq, StreamRead, Dispose
<1> QED BY <1>1, <1>2, PTL DEF Spec

\* From the tail to the head lie exactly the newest bytes of the process, in order, for
\* every size of the buffer and every length of the strings written.
THEOREM NewestBytesHeld == Spec => []HoldsNewestBytes
<1>1. RingInv => HoldsNewestBytes
  <2> SUFFICES ASSUME RingInv PROVE HoldsNewestBytes
    OBVIOUS
  <2>0. MaxSize \in Nat /\ MaxSize > 0 /\ written \in Nat
    BY SizeAssumption DEF RingInv
  <2>1. CASE written = 0
    <3>1. Size = 0
      BY <2>1 DEF Size, SizeFrom, RingInv
    <3> QED BY <2>0, <2>1, <3>1 DEF HoldsNewestBytes
  <2>2. CASE written # 0
    <3>1. /\ head \in Slots
          /\ tail = IF written < MaxSize THEN 0 ELSE Wrap(head + 1)
          /\ written < MaxSize => head = written - 1
      BY <2>2 DEF RingInv
    <3>2. tail \in Slots
      BY <2>0, <3>1 DEF Slots, Wrap
    <3>3. Size = IF written < MaxSize THEN written ELSE MaxSize
      BY <2>0, <2>2, <3>1, <3>2 DEF Size, SizeFrom, IsWrapped, Slots, Wrap
    <3>4. ASSUME NEW i \in 0 .. Size - 1
          PROVE  buffer[(tail + i) % MaxSize] = written - Size + 1 + i
      <4> DEFINE s == Wrap(tail + i)
      <4>1. (tail + i) % MaxSize = s /\ s \in Slots
        <5> DEFINE x == tail + i
        <5>1. MaxSize \in Nat \ {0} /\ x \in 0 .. 2 * MaxSize - 1
          BY <2>0, <3>2, <3>3 DEF Slots
        <5> HIDE DEF x
        <5>2. x % MaxSize = Wrap(x)
          BY <5>1, Modulo DEF Wrap
        <5>3. Wrap(x) \in Slots
          BY <2>0, <5>1 DEF Wrap, Slots
        <5> QED BY <5>2, <5>3 DEF x
      <4>2. CASE s <= head
        <5>1. buffer[s] = written - (head - s)
          BY <4>1, <4>2 DEF RingInv
        <5> QED BY <2>0, <3>1, <3>2, <3>3, <4>1, <4>2, <5>1 DEF Slots, Wrap
      <4>3. CASE s > head
        <5>1. written >= MaxSize
          BY <2>0, <2>2, <3>1, <3>2, <3>3, <4>3 DEF Slots, Wrap
        <5>2. buffer[s] = written - (head + MaxSize - s)
          BY <4>1, <4>3, <5>1 DEF RingInv
        <5> QED BY <2>0, <3>1, <3>2, <3>3, <4>1, <4>3, <5>1, <5>2 DEF Slots, Wrap
      <4> QED BY <3>1, <4>1, <4>2, <4>3 DEF Slots
    <3> QED BY <3>3, <3>4 DEF HoldsNewestBytes
  <2> QED BY <2>1, <2>2
<1> QED BY <1>1, InvHolds, PTL

-----------------------------------------------------------------------------
(* deq *)

\* What the buffer holds, for a head and a number of bytes written.
Holds(buf, hd, w) ==
    /\ w \in Nat
    /\ hd \in Slots
    /\ buf \in [Slots -> 0 .. w]
    /\ \A s \in Slots : s <= hd => buf[s] = w - (hd - s)
    /\ \A s \in Slots : s > hd /\ w >= MaxSize => buf[s] = w - (hd + MaxSize - s)

\* A position with bytes to be read.
Readable(pos, hd, w) == pos \in Slots /\ (pos <= hd \/ w >= MaxSize)

Shown == {"written", "replaced"}
Token == [byte : Nat, as : Shown]

Consecutive(chunk) == \A i \in 2 .. Len(chunk) : chunk[i].byte = chunk[i - 1].byte + 1

\* Replacement characters stand for at most one character that the chunk does not cut.
OneSpoilt(st, chunk) ==
    \A i, j \in 1 .. Len(chunk) :
        /\ chunk[i].as = "replaced" /\ Whole(st, chunk[i].byte, BytesOf(chunk))
        /\ chunk[j].as = "replaced" /\ Whole(st, chunk[j].byte, BytesOf(chunk))
        => \A first \in st : ~(chunk[i].byte < first /\ first <= chunk[j].byte)

\* A chunk given to a reader when w bytes, at most, were written.
Reads(st, w, chunk) ==
    /\ \A i \in 1 .. Len(chunk) : chunk[i].byte <= w
    /\ Consecutive(chunk)
    /\ OneSpoilt(st, chunk)

\* The newest byte of a chunk.
EndsWith(chunk, w) == chunk # <<>> /\ chunk[Len(chunk)].byte = w

\* What is written later changes nothing about a chunk.
LEMMA ReadsLater ==
    ASSUME NEW st \in SUBSET Nat, NEW later \in SUBSET Nat, NEW w \in Nat, NEW v \in Nat, w <= v,
           st \subseteq later, \A s \in later \ st : s > w + 1,
           NEW chunk, chunk \in Seq(Token), Reads(st, w, chunk)
    PROVE  Reads(later, v, chunk)
<1>1. \A i \in 1 .. Len(chunk) : chunk[i].byte \in Nat /\ chunk[i].byte <= w /\ chunk[i].byte <= v
  <2> SUFFICES ASSUME NEW i \in 1 .. Len(chunk) PROVE chunk[i].byte \in Nat /\ chunk[i].byte <= w /\ chunk[i].byte <= v
    OBVIOUS
  <2>1. chunk[i] \in Token
    BY ElementOfSeq
  <2>2. chunk[i].byte \in Nat
    BY <2>1 DEF Token
  <2> QED BY <2>2 DEF Reads
<1>2. \A b \in BytesOf(chunk) : b \in Nat /\ b <= w
  BY <1>1 DEF BytesOf
<1>3. ASSUME NEW b \in BytesOf(chunk), Whole(later, b, BytesOf(chunk)) PROVE Whole(st, b, BytesOf(chunk))
  <2>1. PICK first \in later : first <= b /\ first .. b \subseteq BytesOf(chunk)
    BY <1>3 DEF Whole
  <2>2. PICK following \in later : following > b /\ b .. following - 1 \subseteq BytesOf(chunk)
    BY <1>3 DEF Whole
  <2>3. b \in Nat /\ b <= w
    BY <1>2
  <2>4. first \in st
    BY <2>1, <2>3
  <2>5. following \in st
    <3>1. following - 1 \in b .. following - 1
      BY <2>2, <2>3
    <3>2. following - 1 <= w
      BY <1>2, <2>2, <3>1
    <3> QED BY <2>2, <3>2
  <2> QED BY <2>1, <2>2, <2>4, <2>5 DEF Whole
<1>4. OneSpoilt(later, chunk)
  <2> SUFFICES ASSUME NEW i \in 1 .. Len(chunk), NEW j \in 1 .. Len(chunk),
                      chunk[i].as = "replaced", Whole(later, chunk[i].byte, BytesOf(chunk)),
                      chunk[j].as = "replaced", Whole(later, chunk[j].byte, BytesOf(chunk)),
                      NEW first \in later, chunk[i].byte < first, first <= chunk[j].byte
               PROVE  FALSE
    BY DEF OneSpoilt
  <2>1. chunk[i].byte \in BytesOf(chunk) /\ chunk[j].byte \in BytesOf(chunk)
    BY DEF BytesOf
  <2>2. Whole(st, chunk[i].byte, BytesOf(chunk)) /\ Whole(st, chunk[j].byte, BytesOf(chunk))
    BY <1>3, <2>1
  <2>3. first \in st
    <3>1. chunk[j].byte <= w /\ chunk[j].byte \in Nat /\ first \in Nat
      BY <1>1
    <3>2. first <= w
      BY <3>1
    <3>3. ~(first > w + 1)
      BY <3>1, <3>2
    <3> QED BY <3>3
  <2>4. OneSpoilt(st, chunk)
    BY DEF Reads
  <2> QED BY <2>2, <2>3, <2>4 DEF OneSpoilt
<1>5. Consecutive(chunk)
  BY DEF Reads
<1>6. \A i \in 1 .. Len(chunk) : chunk[i].byte <= v
  BY <1>1
<1> QED BY <1>4, <1>5, <1>6 DEF Reads

\* A chunk of the bytes a .. e in two parts, a .. b and b + 1 .. e, that are decoded one
\* by one: what is spoilt though the chunk has it all lies across b and b + 1.
LEMMA SpoiltAcrossParts ==
    ASSUME NEW st \in SUBSET Nat, NEW a \in Int, NEW b \in Int, NEW e \in Int,
           NEW chunk, NEW f, \A i \in 1 .. Len(chunk) : chunk[i].byte = f[i] /\ f[i] \in a .. e,
           \A i \in 1 .. Len(chunk) :
              chunk[i].as = "replaced" => ~Whole(st, f[i], IF f[i] <= b THEN a .. b ELSE b + 1 .. e)
    PROVE  OneSpoilt(st, chunk)
<1> SUFFICES ASSUME NEW i \in 1 .. Len(chunk), NEW j \in 1 .. Len(chunk),
                    chunk[i].as = "replaced", Whole(st, chunk[i].byte, BytesOf(chunk)),
                    chunk[j].as = "replaced", Whole(st, chunk[j].byte, BytesOf(chunk)),
                    NEW between \in st, chunk[i].byte < between, between <= chunk[j].byte
             PROVE  FALSE
  BY DEF OneSpoilt
<1> DEFINE x == f[i]
           y == f[j]
<1>1. x \in a .. e /\ y \in a .. e /\ x < between /\ between <= y /\ between \in Nat
  OBVIOUS
<1>2. BytesOf(chunk) \subseteq a .. e
  BY DEF BytesOf
<1>3. PICK n \in st : n > x /\ x .. n - 1 \subseteq a .. e
  BY <1>2 DEF Whole
<1>4. PICK m \in st : m <= y /\ m .. y \subseteq a .. e
  BY <1>2 DEF Whole
<1>5. PICK l \in st : l <= x /\ l .. x \subseteq a .. e
  BY <1>2 DEF Whole
<1>6. PICK o \in st : o > y /\ y .. o - 1 \subseteq a .. e
  BY <1>2 DEF Whole
<1>7. ~Whole(st, x, IF x <= b THEN a .. b ELSE b + 1 .. e) /\ ~Whole(st, y, IF y <= b THEN a .. b ELSE b + 1 .. e)
  OBVIOUS
<1> HIDE DEF x, y
<1>8. n \in Nat /\ m \in Nat /\ l \in Nat /\ o \in Nat /\ x \in Int /\ y \in Int
  BY <1>1
<1>9. n - 1 <= e /\ a <= m /\ a <= l /\ o - 1 <= e
  <2>1. n - 1 \in x .. n - 1 /\ m \in m .. y /\ l \in l .. x /\ o - 1 \in y .. o - 1
    BY <1>3, <1>4, <1>5, <1>6, <1>8
  <2>2. n - 1 \in a .. e /\ m \in a .. e /\ l \in a .. e /\ o - 1 \in a .. e
    BY ONLY <2>1, <1>3, <1>4, <1>5, <1>6
  <2> QED BY <2>2
<1>10. CASE x <= b
  <2>1. l .. x \subseteq a .. b
    BY ONLY <1>8, <1>9, <1>10, a \in Int, b \in Int
  <2>2. ~Whole(st, x, a .. b)
    BY <1>7, <1>10
  <2>3. ASSUME NEW z \in st, z > x PROVE z > b + 1
    <3>1. ~(x .. z - 1 \subseteq a .. b)
      BY <1>5, <2>1, <2>2, <2>3 DEF Whole
    <3>2. CASE z - 1 <= b
      <4>1. x .. z - 1 \subseteq a .. b
        BY ONLY <1>1, <1>8, <3>2, a \in Int, b \in Int, z \in st, st \in SUBSET Nat
      <4> QED BY <3>1, <4>1
    <3> QED BY <3>2
  <2>4. between > b + 1 /\ y > b
    BY <1>1, <1>8, <2>3
  <2>5. y .. o - 1 \subseteq b + 1 .. e
    BY ONLY <1>8, <1>9, <2>4, b \in Int, e \in Int
  <2>6. between .. y \subseteq b + 1 .. e
    BY ONLY <1>1, <1>8, <2>4, b \in Int, e \in Int, a \in Int
  <2>7. ~Whole(st, y, b + 1 .. e)
    BY <1>7, <1>8, <2>4
  <2> QED BY <1>1, <1>6, <2>5, <2>6, <2>7 DEF Whole
<1>11. CASE ~(x <= b)
  <2>1. x > b /\ y > b
    BY <1>1, <1>8, <1>11
  <2>2. y .. o - 1 \subseteq b + 1 .. e
    BY ONLY <1>8, <1>9, <2>1, b \in Int, e \in Int
  <2>3. between .. y \subseteq b + 1 .. e
    BY ONLY <1>1, <1>8, <2>1, b \in Int, e \in Int, a \in Int
  <2>4. ~Whole(st, y, b + 1 .. e)
    BY <1>7, <1>8, <2>1
  <2> QED BY <1>1, <1>6, <2>2, <2>3, <2>4 DEF Whole
<1> QED BY <1>10, <1>11

LEMMA Available ==
    ASSUME NEW hd \in Slots, NEW pos \in Slots
    PROVE  /\ MaxSize \in Nat \ {0}
           /\ SizeFrom(pos, hd) = IF pos <= hd THEN hd - pos + 1 ELSE hd + 1 + MaxSize - pos
           /\ SizeFrom(pos, hd) \in 1 .. MaxSize
           /\ IsWrapped(pos, hd) <=> pos > hd
BY SizeAssumption DEF SizeFrom, IsWrapped, Slots

\* The position after deq: the reader is drained when it asked for all there was.
LEMMA DeqMoves ==
    ASSUME NEW hd \in Slots, NEW pos \in Slots, NEW size \in {-1} \cup (Nat \ {0})
    PROVE  LET n == DeqSize(hd, pos, size)
               all == SizeFrom(pos, hd)
           IN  /\ n = IF size = -1 \/ size > all THEN all ELSE size
               /\ n \in 1 .. all
               /\ DeqNext(hd, pos, size) = IF n = all THEN Drained ELSE Wrap(pos + n)
               /\ n # all => Wrap(pos + n) \in Slots
<1> DEFINE n == DeqSize(hd, pos, size)
           all == SizeFrom(pos, hd)
<1>1. /\ MaxSize \in Nat \ {0}
      /\ all = IF pos <= hd THEN hd - pos + 1 ELSE hd + 1 + MaxSize - pos
      /\ all \in 1 .. MaxSize
  BY Available
<1>2. n = IF size = -1 \/ size > all THEN all ELSE size
  BY DEF DeqSize
<1> HIDE DEF n, all
<1>3. n \in 1 .. all
  BY <1>1, <1>2
<1>4. n - 1 \in 0 .. MaxSize /\ n \in 0 .. MaxSize
  BY <1>1, <1>3
<1>5. IncPos(pos, n - 1) = Wrap(pos + (n - 1)) /\ IncPos(pos, n) = Wrap(pos + n)
  BY <1>4, Positions
<1>6. Wrap(pos + (n - 1)) = hd <=> n = all
  BY <1>1, <1>3 DEF Wrap, Slots
<1>7. DeqNext(hd, pos, size) = IF IncPos(pos, n - 1) = hd THEN Drained ELSE IncPos(pos, n)
  BY DEF DeqNext, n
<1>8. n # all => Wrap(pos + n) \in Slots
  BY <1>1, <1>3 DEF Wrap, Slots
<1> QED BY <1>2, <1>3, <1>5, <1>6, <1>7, <1>8 DEF n, all

LEMMA DeqBySize ==
    ASSUME NEW hd \in Slots, NEW pos \in Slots, NEW size \in Nat \ {0}
    PROVE  /\ DeqNext(hd, pos, size) = IF size >= SizeFrom(pos, hd) THEN Drained ELSE Wrap(pos + size)
           /\ size < SizeFrom(pos, hd) => Wrap(pos + size) \in Slots
<1> DEFINE n == DeqSize(hd, pos, size)
           all == SizeFrom(pos, hd)
<1>1. all \in 1 .. MaxSize /\ MaxSize \in Nat
  BY Available
<1>2. size \in {-1} \cup (Nat \ {0}) /\ size # -1
  OBVIOUS
<1>3. /\ n = IF size = -1 \/ size > all THEN all ELSE size
      /\ DeqNext(hd, pos, size) = IF n = all THEN Drained ELSE Wrap(pos + n)
      /\ n # all => Wrap(pos + n) \in Slots
  BY <1>2, DeqMoves
<1> HIDE DEF n, all
<1>4. n = IF size >= all THEN all ELSE size
  BY <1>1, <1>2, <1>3
<1>5. DeqNext(hd, pos, size) = IF size >= all THEN Drained ELSE Wrap(pos + size)
  BY <1>1, <1>3, <1>4
<1>6. size < all => Wrap(pos + size) \in Slots
  BY <1>1, <1>3, <1>4
<1> QED BY <1>5, <1>6 DEF all

\* Two calls of deq in a row are one of as much as both: rounds of a stream add up.
LEMMA RoundsAddUp ==
    ASSUME NEW hd \in Slots, NEW pos \in Slots, NEW a \in Nat \ {0}, NEW b \in Nat \ {0},
           DeqNext(hd, pos, a) # Drained
    PROVE  /\ DeqNext(hd, pos, a) \in Slots
           /\ DeqNext(hd, pos, a + b) = DeqNext(hd, DeqNext(hd, pos, a), b)
<1> DEFINE mid  == DeqNext(hd, pos, a)
           all  == SizeFrom(pos, hd)
           left == SizeFrom(mid, hd)
<1>1. /\ MaxSize \in Nat \ {0}
      /\ all = IF pos <= hd THEN hd - pos + 1 ELSE hd + 1 + MaxSize - pos
      /\ all \in 1 .. MaxSize
  BY Available
<1>2. a < all /\ mid = Wrap(pos + a) /\ mid \in Slots
  <2>1. /\ mid = IF a >= all THEN Drained ELSE Wrap(pos + a)
        /\ a < all => Wrap(pos + a) \in Slots
    BY DeqBySize
  <2> HIDE DEF mid, all
  <2>2. mid # Drained
    BY DEF mid
  <2> QED BY <1>1, <2>1, <2>2
<1>3. left = IF mid <= hd THEN hd - mid + 1 ELSE hd + 1 + MaxSize - mid
  BY <1>2, Available
<1>4. left = all - a
  <2> HIDE DEF mid, all, left
  <2> QED BY <1>1, <1>2, <1>3 DEF Wrap, Slots
<1>5. DeqNext(hd, mid, b) = IF b >= left THEN Drained ELSE Wrap(mid + b)
  <2> HIDE DEF mid
  <2> QED BY <1>2, DeqBySize
<1>6. DeqNext(hd, pos, a + b) = IF a + b >= all THEN Drained ELSE Wrap(pos + (a + b))
  <2>1. a + b \in Nat \ {0}
    OBVIOUS
  <2> QED BY <2>1, DeqBySize
<1>7. a + b < all => Wrap(pos + (a + b)) = Wrap(mid + b)
  <2> HIDE DEF mid, all
  <2> QED BY <1>1, <1>2 DEF Wrap, Slots
<1> HIDE DEF mid, all, left
<1>8. DeqNext(hd, pos, a + b) = DeqNext(hd, mid, b)
  BY <1>1, <1>4, <1>5, <1>6, <1>7
<1> QED BY <1>2, <1>8 DEF mid

\* The bytes in some slots.
Content(buf, from, to) == {buf[s] : s \in from .. to - 1}

LEMMA SlotsDecoded ==
    ASSUME NEW st, NEW w \in Nat, NEW buf, buf \in [Slots -> 0 .. w],
           NEW from \in 0 .. MaxSize, NEW to \in Int, to <= MaxSize, NEW d, d = Decode(st, buf, from, to)
    PROVE  /\ d \in Seq([byte : 0 .. w, as : Shown])
           /\ Len(d) = IF to > from THEN to - from ELSE 0
<1> DEFINE n == IF to > from THEN to - from ELSE 0
           token(i) == [byte |-> buf[from + i - 1],
                        as |-> IF Whole(st, buf[from + i - 1], {buf[s] : s \in from .. to - 1})
                               THEN "written" ELSE "replaced"]
<1>1. MaxSize \in Nat \ {0} /\ n \in Nat
  BY SizeAssumption
<1>2. \A i \in 1 .. n : from + i - 1 \in Slots
  BY <1>1 DEF Slots
<1>3. d = [i \in 1 .. n |-> token(i)]
  BY DEF Decode
<1>4. ASSUME NEW i \in 1 .. n PROVE token(i) \in [byte : 0 .. w, as : Shown]
  <2>1. buf[from + i - 1] \in 0 .. w
    BY <1>2, <1>4
  <2> QED BY <2>1 DEF Shown
<1> HIDE DEF n, token
<1>5. d \in Seq([byte : 0 .. w, as : Shown]) /\ Len(d) = n
  BY <1>1, <1>3, <1>4
<1> QED BY <1>5 DEF n

LEMMA SlotsIntact ==
    ASSUME NEW st, NEW buf, NEW from \in Int, NEW to \in Int, NEW d, d = Decode(st, buf, from, to),
           NEW i \in 1 .. (IF to > from THEN to - from ELSE 0)
    PROVE  /\ d[i].byte = buf[from + i - 1]
           /\ d[i].as = "replaced" => ~Whole(st, d[i].byte, Content(buf, from, to))
<1> DEFINE value == IF Whole(st, buf[from + i - 1], {buf[s] : s \in from .. to - 1}) THEN "written" ELSE "replaced"
<1>1. d[i] = [byte |-> buf[from + i - 1], as |-> value]
  BY DEF Decode
<1>2. d[i].as = value /\ d[i].byte = buf[from + i - 1]
  BY <1>1
<1>3. value = "replaced" => ~Whole(st, buf[from + i - 1], Content(buf, from, to))
  BY DEF Content
<1> HIDE DEF value
<1> QED BY <1>2, <1>3

\* What deq returns: consecutive bytes, up to the newest one when it drains the reader,
\* of which a character across the end of the buffer may be spoilt.
LEMMA DeqReturns ==
    ASSUME NEW st \in SUBSET Nat, NEW buf, NEW hd, NEW w, Holds(buf, hd, w), NEW pos, Readable(pos, hd, w),
           NEW size \in {-1} \cup (Nat \ {0}), NEW chunk, chunk = DeqChunk(st, buf, hd, pos, size)
    PROVE  /\ chunk \in Seq([byte : 0 .. w, as : Shown])
           /\ Consecutive(chunk)
           /\ OneSpoilt(st, chunk)
           /\ DeqNext(hd, pos, size) = Drained => EndsWith(chunk, w)
<1> DEFINE n == DeqSize(hd, pos, size)
           all == SizeFrom(pos, hd)
           T == [byte : 0 .. w, as : Shown]
<1>1. /\ w \in Nat /\ hd \in Slots /\ buf \in [Slots -> 0 .. w] /\ pos \in Slots
      /\ MaxSize \in Nat \ {0}
      /\ \A s \in Slots : s <= hd => buf[s] = w - (hd - s)
      /\ \A s \in Slots : s > hd /\ w >= MaxSize => buf[s] = w - (hd + MaxSize - s)
  BY SizeAssumption DEF Holds, Readable
<1>2. /\ all = IF pos <= hd THEN hd - pos + 1 ELSE hd + 1 + MaxSize - pos
      /\ all \in 1 .. MaxSize /\ n \in 1 .. all
      /\ DeqNext(hd, pos, size) = Drained => n = all
  <2>1. /\ all = IF pos <= hd THEN hd - pos + 1 ELSE hd + 1 + MaxSize - pos
        /\ all \in 1 .. MaxSize
    BY <1>1, Available
  <2>2. n \in 1 .. all /\ DeqNext(hd, pos, size) = (IF n = all THEN Drained ELSE Wrap(pos + n))
        /\ (n # all => Wrap(pos + n) \in Slots)
    BY <1>1, DeqMoves
  <2> QED BY <1>1, <2>1, <2>2 DEF Drained, Slots
<1> HIDE DEF n, all, T
<1>3. CASE pos <= hd
  <2> DEFINE to    == pos + n
             bytes == Decode(st, buf, pos, to)
             a     == w - (hd - pos)
             e     == a + n - 1
             part  == Content(buf, pos, to)
  <2>1. chunk = bytes
    <3>1. ~IsWrapped(pos, hd)
      BY <1>1, <1>3, Available DEF Slots
    <3> QED BY <3>1 DEF DeqChunk, n
  <2>2. /\ pos \in 0 .. MaxSize /\ to \in Int /\ to <= MaxSize /\ to > pos /\ to - pos = n
        /\ to - 1 <= hd /\ a \in Int /\ e \in Int /\ hd \in Int /\ w \in Nat
    BY <1>1, <1>2, <1>3 DEF Slots
  <2>0. bytes = Decode(st, buf, pos, to) /\ part = Content(buf, pos, to)
    OBVIOUS
  <2> HIDE DEF to, bytes, part
  <2>3. /\ bytes \in Seq(T) /\ Len(bytes) = n
        /\ \A i \in 1 .. n : bytes[i].byte = buf[pos + i - 1]
        /\ \A i \in 1 .. n : bytes[i].as = "replaced" => ~Whole(st, bytes[i].byte, part)
    <3>1. w \in Nat /\ buf \in [Slots -> 0 .. w] /\ pos \in 0 .. MaxSize /\ to \in Int /\ to <= MaxSize
      BY <1>1, <2>2
    <3>2. bytes \in Seq(T)
      BY ONLY <2>0, <3>1, SlotsDecoded DEF T
    <3>3. Len(bytes) = IF to > pos THEN to - pos ELSE 0
      BY ONLY <2>0, <3>1, SlotsDecoded
    <3>4. ASSUME NEW i \in 1 .. (IF to > pos THEN to - pos ELSE 0)
          PROVE  /\ bytes[i].byte = buf[pos + i - 1]
                 /\ bytes[i].as = "replaced" => ~Whole(st, bytes[i].byte, part)
      <4>1. to \in Int /\ pos \in Int
        BY ONLY <3>1
      <4> QED BY ONLY <2>0, <4>1, <3>4, SlotsIntact
    <3>5. Len(bytes) = n
      BY <2>2, <3>3
    <3> QED BY <2>2, <3>2, <3>4, <3>5
  <2>4. ASSUME NEW s \in pos .. to - 1 PROVE s \in Slots /\ buf[s] = a + (s - pos)
    <3>1. s \in Slots /\ s <= hd
      BY <1>1, <2>2 DEF Slots
    <3> QED BY <1>1, <2>2, <3>1 DEF Slots
  <2>5. ASSUME NEW i \in 1 .. n PROVE bytes[i].byte = a + i - 1
    <3> DEFINE s == pos + i - 1
    <3>1. s \in pos .. to - 1 /\ s - pos = i - 1
      BY <1>2, <2>2
    <3>2. bytes[i].byte = buf[s]
      BY <2>3
    <3> HIDE DEF s, a
    <3>3. buf[s] = a + (s - pos)
      BY <2>4, <3>1
    <3> QED BY <1>2, <2>2, <3>1, <3>2, <3>3
  <2>6. a .. e \subseteq part
    <3> SUFFICES ASSUME NEW v \in a .. e PROVE v \in part
      OBVIOUS
    <3> USE DEF Content, part
    <3> DEFINE s == pos + (v - a)
    <3>1. s \in pos .. to - 1 /\ a + (s - pos) = v
      BY <2>2
    <3>2. buf[s] = a + (s - pos)
      BY <2>4, <3>1
    <3> QED BY <3>1, <3>2
  <2>7. Consecutive(bytes)
    <3> SUFFICES ASSUME NEW i \in 2 .. n PROVE bytes[i].byte = bytes[i - 1].byte + 1
      BY <2>3 DEF Consecutive
    <3>1. i \in 1 .. n /\ i - 1 \in 1 .. n
      BY <1>2
    <3>2. bytes[i].byte = a + i - 1 /\ bytes[i - 1].byte = a + (i - 1) - 1
      BY <2>5, <3>1
    <3> QED BY <1>2, <2>2, <3>2
  <2>8. OneSpoilt(st, bytes)
    <3> DEFINE f == [i \in 1 .. n |-> bytes[i].byte]
    <3>1. \A i \in 1 .. n : f[i] = a + i - 1 /\ bytes[i].byte = f[i]
      BY <2>5
    <3> HIDE DEF f
    <3>2. \A i \in 1 .. n : f[i] \in a .. e /\ f[i] <= e
      BY <1>2, <2>2, <3>1
    <3> HIDE DEF e
    <3>3. ASSUME NEW i \in 1 .. n, bytes[i].as = "replaced"
          PROVE  ~Whole(st, f[i], IF f[i] <= e THEN a .. e ELSE e + 1 .. e)
      <4>1. ~Whole(st, bytes[i].byte, part)
        BY <2>3, <3>3
      <4>2. ~Whole(st, f[i], a .. e)
        BY <2>6, <3>1, <4>1 DEF Whole
      <4> QED BY <3>2, <4>2
    <3>4. \A i \in 1 .. Len(bytes) : bytes[i].byte = f[i] /\ f[i] \in a .. e
      BY <2>3, <3>1, <3>2
    <3>5. \A i \in 1 .. Len(bytes) :
             bytes[i].as = "replaced" => ~Whole(st, f[i], IF f[i] <= e THEN a .. e ELSE e + 1 .. e)
      BY <2>3, <3>3
    <3>6. a \in Int /\ e \in Int
      BY <2>2
    <3> HIDE DEF a
    <3> QED BY ONLY <3>4, <3>5, <3>6, SpoiltAcrossParts, st \in SUBSET Nat
  <2>9. n = all => bytes # <<>> /\ bytes[Len(bytes)].byte = w
    <3> SUFFICES ASSUME n = all PROVE bytes # <<>> /\ bytes[Len(bytes)].byte = w
      OBVIOUS
    <3>1. bytes # <<>>
      BY <1>2, <2>3
    <3>2. n \in 1 .. n
      BY <1>2
    <3>3. bytes[n].byte = a + n - 1
      BY <2>5, <3>2
    <3> QED BY <1>1, <1>2, <1>3, <2>2, <2>3, <3>1, <3>3
  <2> QED BY <1>2, <2>1, <2>3, <2>7, <2>8, <2>9 DEF T, EndsWith
<1>4. CASE pos > hd
  <2> DEFINE first  == Decode(st, buf, pos, MaxSize)
             m      == n - (MaxSize - pos)
             second == Decode(st, buf, 0, m)
             f      == MaxSize - pos
             g      == IF m > 0 THEN m ELSE 0
             a      == w - (hd + f)
             b      == a + f - 1
             e      == b + g
             part1  == Content(buf, pos, MaxSize)
             part2  == Content(buf, 0, m)
  <2>1. chunk = first \o second
    <3>1. IsWrapped(pos, hd)
      BY <1>1, <1>4, Available
    <3> QED BY <3>1 DEF DeqChunk, n
  <2>0. /\ first = Decode(st, buf, pos, MaxSize) /\ part1 = Content(buf, pos, MaxSize)
        /\ second = Decode(st, buf, 0, m) /\ part2 = Content(buf, 0, m)
    OBVIOUS
  <2>2. w >= MaxSize
    BY <1>1, <1>4 DEF Readable, Slots
  <2>3. /\ MaxSize \in Nat /\ hd < MaxSize
        /\ pos \in 0 .. MaxSize /\ 0 \in 0 .. MaxSize /\ m \in Int /\ m <= MaxSize /\ m <= hd + 1
        /\ f \in 1 .. MaxSize /\ g \in 0 .. hd + 1 /\ m - 0 = m /\ hd \in Nat /\ hd < pos
        /\ a \in Int /\ b \in Int /\ e \in Int /\ w \in Nat /\ b = w - hd - 1
        /\ f = MaxSize - pos /\ g = (IF m > 0 THEN m ELSE 0) /\ m = n - f
        /\ a = w - (hd + f) /\ b = a + f - 1 /\ e = b + g
    BY <1>1, <1>2, <1>4 DEF Slots
  <2> HIDE DEF first, second, part1, part2, m, f, g, a, b, e
  <2>4. /\ first \in Seq(T) /\ Len(first) = f
        /\ \A i \in 1 .. f : first[i].byte = buf[pos + i - 1]
        /\ \A i \in 1 .. f : first[i].as = "replaced" => ~Whole(st, first[i].byte, part1)
    <3>1. /\ w \in Nat /\ buf \in [Slots -> 0 .. w] /\ pos \in 0 .. MaxSize
          /\ MaxSize \in Int /\ MaxSize <= MaxSize
      BY <1>1, <2>3
    <3>2. first \in Seq(T)
      BY ONLY <2>0, <3>1, SlotsDecoded DEF T
    <3>3. Len(first) = IF MaxSize > pos THEN MaxSize - pos ELSE 0
      BY ONLY <2>0, <3>1, SlotsDecoded
    <3>4. ASSUME NEW i \in 1 .. (IF MaxSize > pos THEN MaxSize - pos ELSE 0)
          PROVE  /\ first[i].byte = buf[pos + i - 1]
                 /\ first[i].as = "replaced" => ~Whole(st, first[i].byte, part1)
      <4>1. MaxSize \in Int /\ pos \in Int
        BY ONLY <3>1
      <4> QED BY ONLY <2>0, <4>1, <3>4, SlotsIntact
    <3>5. Len(first) = f
      BY <1>1, <2>3, <3>3
    <3> QED BY <3>2, <3>3, <3>4, <3>5
  <2>5. /\ second \in Seq(T) /\ Len(second) = g
        /\ \A i \in 1 .. g : second[i].byte = buf[0 + i - 1]
        /\ \A i \in 1 .. g : second[i].as = "replaced" => ~Whole(st, second[i].byte, part2)
    <3>1. w \in Nat /\ buf \in [Slots -> 0 .. w] /\ 0 \in 0 .. MaxSize /\ m \in Int /\ m <= MaxSize
      BY <1>1, <2>3
    <3>2. second \in Seq(T)
      BY ONLY <2>0, <3>1, SlotsDecoded DEF T
    <3>3. Len(second) = IF m > 0 THEN m - 0 ELSE 0
      BY ONLY <2>0, <3>1, SlotsDecoded
    <3>4. ASSUME NEW i \in 1 .. (IF m > 0 THEN m - 0 ELSE 0)
          PROVE  /\ second[i].byte = buf[0 + i - 1]
                 /\ second[i].as = "replaced" => ~Whole(st, second[i].byte, part2)
      <4>1. m \in Int /\ 0 \in Int
        BY ONLY <3>1
      <4> QED BY ONLY <2>0, <4>1, <3>4, SlotsIntact
    <3>5. Len(second) = g
      BY <2>3, <3>3
    <3> QED BY <3>2, <3>3, <3>4, <3>5
  <2>6. ASSUME NEW s \in pos .. MaxSize - 1 PROVE buf[s] = a + (s - pos)
    <3>1. s \in Slots /\ s > hd
      BY <1>1, <2>3 DEF Slots
    <3> QED BY <1>1, <2>2, <2>3, <3>1 DEF Slots
  <2>7. ASSUME NEW s \in 0 .. m - 1 PROVE buf[s] = b + 1 + s
    <3>1. s \in Slots /\ s <= hd
      BY <2>3 DEF Slots
    <3>2. buf[s] = w - (hd - s)
      BY <1>1, <3>1
    <3> QED BY <2>3, <3>2
  <2>8. a .. b \subseteq part1
    <3> SUFFICES ASSUME NEW v \in a .. b PROVE v \in part1
      OBVIOUS
    <3> USE DEF Content, part1
    <3> DEFINE s == pos + (v - a)
    <3>1. s \in pos .. MaxSize - 1 /\ a + (s - pos) = v
      BY <2>3
    <3>2. buf[s] = a + (s - pos)
      BY <2>6, <3>1
    <3> QED BY <3>1, <3>2
  <2>9. b + 1 .. e \subseteq part2
    <3> SUFFICES ASSUME NEW v \in b + 1 .. e PROVE v \in part2
      OBVIOUS
    <3> USE DEF Content, part2
    <3> DEFINE s == v - b - 1
    <3>1. s \in 0 .. m - 1 /\ b + 1 + s = v
      BY <2>3
    <3>2. buf[s] = b + 1 + s
      BY <2>7, <3>1
    <3> QED BY <3>1, <3>2
  <2>10. \A i \in 1 .. f : first[i].byte = a + i - 1
    <3> SUFFICES ASSUME NEW i \in 1 .. f PROVE first[i].byte = a + i - 1
      OBVIOUS
    <3> DEFINE s == pos + i - 1
    <3>1. s \in pos .. MaxSize - 1 /\ s - pos = i - 1
      BY <1>1, <2>3
    <3>2. first[i].byte = buf[s]
      BY <2>4
    <3> HIDE DEF s
    <3>3. buf[s] = a + (s - pos)
      BY <2>6, <3>1
    <3> QED BY <2>3, <3>1, <3>2, <3>3
  <2>11. \A i \in 1 .. g : second[i].byte = b + i
    <3> SUFFICES ASSUME NEW i \in 1 .. g PROVE second[i].byte = b + i
      OBVIOUS
    <3> DEFINE s == 0 + i - 1
    <3>1. s \in 0 .. m - 1 /\ s = i - 1
      BY <2>3
    <3>2. second[i].byte = buf[s]
      BY <2>5
    <3> HIDE DEF s
    <3>3. buf[s] = b + 1 + s
      BY <2>7, <3>1
    <3> QED BY <2>3, <3>1, <3>2, <3>3
  <2>12. /\ chunk \in Seq(T) /\ Len(chunk) = f + g
         /\ \A i \in 1 .. f + g : chunk[i] = IF i <= f THEN first[i] ELSE second[i - f]
    <3>1. /\ Len(first \o second) = Len(first) + Len(second)
          /\ \A i \in 1 .. Len(first) + Len(second) :
                (first \o second)[i] = IF i <= Len(first) THEN first[i] ELSE second[i - Len(first)]
      BY <2>4, <2>5, ConcatProperties
    <3>2. first \o second \in Seq(T)
      BY <2>4, <2>5, ConcatProperties
    <3> QED BY <2>1, <2>4, <2>5, <3>1, <3>2
  <2>13. ASSUME NEW i \in 1 .. f + g PROVE chunk[i].byte = a + i - 1
    <3>1. CASE i <= f
      <4>1. i \in 1 .. f /\ chunk[i] = first[i]
        BY <2>3, <2>12, <3>1
      <4> QED BY <2>10, <4>1
    <3>2. CASE i > f
      <4>0. i - f \in 1 .. g /\ ~(i <= f)
        BY <2>3, <3>2
      <4>1. i - f \in 1 .. g /\ chunk[i] = second[i - f]
        BY <2>12, <4>0
      <4>2. second[i - f].byte = b + (i - f)
        BY <2>11, <4>1
      <4> QED BY <2>3, <4>1, <4>2
    <3> QED BY <2>3, <3>1, <3>2
  <2>14. Consecutive(chunk)
    <3> SUFFICES ASSUME NEW i \in 2 .. f + g PROVE chunk[i].byte = chunk[i - 1].byte + 1
      BY <2>12 DEF Consecutive
    <3>1. i \in 1 .. f + g /\ i - 1 \in 1 .. f + g
      BY <2>3
    <3>2. chunk[i].byte = a + i - 1 /\ chunk[i - 1].byte = a + (i - 1) - 1
      BY <2>13, <3>1
    <3> QED BY <2>3, <3>2
  <2>15. OneSpoilt(st, chunk)
    <3> DEFINE h == [i \in 1 .. f + g |-> chunk[i].byte]
    <3>1. \A i \in 1 .. f + g : h[i] = a + i - 1 /\ chunk[i].byte = h[i]
      BY <2>13
    <3> HIDE DEF h
    <3>2. \A i \in 1 .. f + g : h[i] \in a .. e /\ (i <= f <=> h[i] <= b)
      BY <2>3, <3>1
    <3>3. ASSUME NEW i \in 1 .. f + g, chunk[i].as = "replaced"
          PROVE  ~Whole(st, h[i], IF h[i] <= b THEN a .. b ELSE b + 1 .. e)
      <4>1. CASE i <= f
        <5>1. i \in 1 .. f /\ chunk[i] = first[i]
          BY <2>3, <2>12, <4>1
        <5>2. ~Whole(st, first[i].byte, part1)
          BY <2>4, <3>3, <5>1
        <5>3. ~Whole(st, h[i], a .. b)
          BY <2>8, <3>1, <5>1, <5>2 DEF Whole
        <5> QED BY <3>2, <4>1, <5>3
      <4>2. CASE i > f
        <5>0. i - f \in 1 .. g /\ ~(i <= f)
          BY <2>3, <4>2
        <5>1. i - f \in 1 .. g /\ chunk[i] = second[i - f]
          BY <2>12, <5>0
        <5>2. ~Whole(st, second[i - f].byte, part2)
          BY <2>5, <3>3, <5>1
        <5>3. ~Whole(st, h[i], b + 1 .. e)
          BY <2>9, <3>1, <5>1, <5>2 DEF Whole
        <5>4. ~(h[i] <= b)
          BY <2>3, <3>2, <4>2
        <5> QED BY <5>3, <5>4
      <4> QED BY <2>3, <4>1, <4>2
    <3>4. \A i \in 1 .. Len(chunk) : chunk[i].byte = h[i] /\ h[i] \in a .. e
      BY <2>12, <3>1, <3>2
    <3>5. \A i \in 1 .. Len(chunk) :
             chunk[i].as = "replaced" => ~Whole(st, h[i], IF h[i] <= b THEN a .. b ELSE b + 1 .. e)
      BY <2>12, <3>3
    <3>6. a \in Int /\ b \in Int /\ e \in Int
      BY <2>3
    <3> QED BY ONLY <3>4, <3>5, <3>6, SpoiltAcrossParts, st \in SUBSET Nat
  <2>16. n = all => chunk # <<>> /\ chunk[Len(chunk)].byte = w
    <3> SUFFICES ASSUME n = all PROVE chunk # <<>> /\ chunk[Len(chunk)].byte = w
      OBVIOUS
    <3>1. g = hd + 1 /\ a + (f + g) - 1 = w
      BY <1>1, <1>2, <1>4, <2>3 DEF Slots
    <3>2. f + g \in 1 .. f + g
      BY <2>3
    <3>3. chunk # <<>>
      BY <2>12, <3>2
    <3>4. chunk[f + g].byte = a + (f + g) - 1
      BY <2>13, <3>2
    <3> QED BY <2>12, <3>1, <3>3, <3>4
  <2> QED BY <1>2, <2>12, <2>14, <2>15, <2>16 DEF T, EndsWith
<1> QED BY <1>1, <1>3, <1>4 DEF Slots

-----------------------------------------------------------------------------
(* The readers *)

\* A reader that is open has a position; one in the buffer has bytes to read there, one
\* that is drained has been given the newest byte, and a stream that wants more is drained.
ReaderOK(r) ==
    /\ kind[r] \in {"polled", "stream"} <=> readers[r] # Absent
    /\ readers[r] \in Slots => written # 0 /\ Readable(readers[r], head, written)
    /\ more[r] => kind[r] = "stream" /\ readers[r] = Drained
    /\ Reads(starts, written, out[r])
    /\ next[r] \in 1 .. written + 1
    /\ readers[r] = Drained => next[r] = written + 1

ReadersTypeOK ==
    /\ readers \in [Readers -> {Absent, Drained} \cup Slots]
    /\ more \in [Readers -> BOOLEAN]
    /\ kind \in [Readers -> {"none", "polled", "stream", "closed"}]
    /\ starts \in SUBSET Nat
    /\ out \in [Readers -> Seq(Token)]
    /\ next \in [Readers -> Nat]

ReadersInv == RingInv /\ ReadersTypeOK /\ \A r \in Readers : ReaderOK(r)

LEMMA SlotsAreNaturals ==
    /\ MaxSize \in Nat \ {0} /\ 0 \in Slots
    /\ \A s \in Slots : s \in Nat /\ s < MaxSize /\ s # Drained /\ s # Absent /\ s # -1
    /\ Drained # Absent
BY SizeAssumption DEF Slots, Drained, Absent

LEMMA BufferHolds ==
    ASSUME RingInv, written # 0
    PROVE  Holds(buffer, head, written)
BY DEF RingInv, Holds

\* A reader of the position pos, once deq has given it a chunk.
LEMMA AfterDeq ==
    ASSUME NEW st \in SUBSET Nat, NEW buf, NEW hd, NEW w, Holds(buf, hd, w), NEW pos, Readable(pos, hd, w),
           NEW size \in {-1} \cup (Nat \ {0}), NEW r \in Readers, next[r] \in 1 .. w + 1
    PROVE  LET chunk == DeqChunk(st, buf, hd, pos, size)
               after == DeqNext(hd, pos, size)
           IN  /\ after \in {Drained} \cup Slots
               /\ after \in Slots => Readable(after, hd, w)
               /\ size = -1 => after = Drained
               /\ chunk \in Seq(Token) /\ Reads(st, w, chunk)
               /\ NextAfter(r, chunk) \in 1 .. w + 1
               /\ after = Drained => NextAfter(r, chunk) = w + 1
<1> DEFINE chunk == DeqChunk(st, buf, hd, pos, size)
           after == DeqNext(hd, pos, size)
           n == DeqSize(hd, pos, size)
           all == SizeFrom(pos, hd)
<1>1. w \in Nat /\ hd \in Slots /\ pos \in Slots /\ (pos <= hd \/ w >= MaxSize)
  BY DEF Holds, Readable
<1>2. /\ chunk \in Seq([byte : 0 .. w, as : Shown]) /\ Consecutive(chunk) /\ OneSpoilt(st, chunk)
      /\ after = Drained => EndsWith(chunk, w)
  <2>1. chunk = DeqChunk(st, buf, hd, pos, size) /\ after = DeqNext(hd, pos, size)
    OBVIOUS
  <2> HIDE DEF chunk, after
  <2>2. chunk \in Seq([byte : 0 .. w, as : Shown])
    BY <2>1, DeqReturns
  <2>3. Consecutive(chunk) /\ OneSpoilt(st, chunk)
    BY <2>1, DeqReturns
  <2>4. DeqNext(hd, pos, size) = Drained => EndsWith(chunk, w)
    BY <2>1, DeqReturns
  <2> QED BY ONLY <2>1, <2>2, <2>3, <2>4
<1>3. /\ n = IF size = -1 \/ size > all THEN all ELSE size
      /\ n \in 1 .. all
      /\ after = IF n = all THEN Drained ELSE Wrap(pos + n)
      /\ n # all => Wrap(pos + n) \in Slots
  BY <1>1, DeqMoves
<1>4. /\ all = IF pos <= hd THEN hd - pos + 1 ELSE hd + 1 + MaxSize - pos
      /\ all \in 1 .. MaxSize
  BY <1>1, Available
<1> HIDE DEF chunk, after, n, all
<1>5. after \in {Drained} \cup Slots
  BY <1>3
<1>6. after \in Slots => Readable(after, hd, w)
  <2> SUFFICES ASSUME after \in Slots PROVE after <= hd \/ w >= MaxSize
    BY DEF Readable
  <2>1. n # all /\ after = Wrap(pos + n)
    BY <1>3, SlotsAreNaturals
  <2> QED BY <1>1, <1>3, <1>4, <2>1, SlotsAreNaturals DEF Wrap
<1>7. chunk \in Seq(Token) /\ Reads(st, w, chunk)
  <2>1. [byte : 0 .. w, as : Shown] \subseteq Token
    BY <1>1 DEF Token
  <2>2. chunk \in Seq(Token)
    BY <1>2, <2>1, SeqMonotonic
  <2>3. ASSUME NEW i \in 1 .. Len(chunk) PROVE chunk[i].byte <= w
    <3>1. chunk[i] \in [byte : 0 .. w, as : Shown]
      BY <1>2, ElementOfSeq
    <3>2. chunk[i].byte \in 0 .. w
      BY <3>1
    <3> QED BY <1>1, <3>2
  <2> QED BY <1>2, <2>2, <2>3 DEF Reads
<1>8. NextAfter(r, chunk) \in 1 .. w + 1
  <2>1. CASE chunk # <<>>
    <3>1. chunk[Len(chunk)].byte \in 0 .. w
      <4>1. Len(chunk) \in 1 .. Len(chunk)
        BY <1>2, <2>1, EmptySeq, LenProperties
      <4>2. chunk[Len(chunk)] \in [byte : 0 .. w, as : Shown]
        BY <1>2, <4>1, ElementOfSeq
      <4> QED BY <4>2
    <3> QED BY <1>1, <3>1 DEF NextAfter, Last
  <2>2. CASE chunk = <<>>
    BY <1>1, <2>2 DEF NextAfter
  <2> QED BY <2>1, <2>2
<1>9. after = Drained => NextAfter(r, chunk) = w + 1
  BY <1>1, <1>2 DEF NextAfter, Last, EndsWith
<1> QED BY <1>3, <1>5, <1>6, <1>7, <1>8, <1>9 DEF chunk, after

\* What enq does before streams read on: no reader is left without bytes.
LEMMA EnqMoves ==
    ASSUME RingInv, RingInv', NEW n \in 1 .. MaxChunk, Enq(n),
           NEW pos \in {Drained} \cup Slots, pos \in Slots => written # 0 /\ Readable(pos, head, written)
    PROVE  LET kept      == IF n > MaxSize THEN MaxSize ELSE n
               empty     == head = -1 /\ tail = -1
               startHead == IF empty THEN 0 ELSE IncPos(head, 1)
               newTail   == IF empty THEN 0 ELSE IncTail(kept)
               moved     == IF empty THEN pos ELSE IncReader(pos, newTail, kept)
           IN  Readable(IF moved = Drained THEN startHead ELSE moved, head', written')
<1> DEFINE kept0     == IF n > MaxSize THEN MaxSize ELSE n
           empty     == head = -1 /\ tail = -1
           startHead == IF empty THEN 0 ELSE IncPos(head, 1)
           newTail   == IF empty THEN 0 ELSE IncTail(kept0)
           moved     == IF empty THEN pos ELSE IncReader(pos, newTail, kept0)
           at        == IF moved = Drained THEN startHead ELSE moved
<1>1. PICK kept \in 1 .. MaxSize, start \in Slots :
          /\ kept = IF n > MaxSize THEN MaxSize ELSE n
          /\ start = IF written = 0 THEN 0 ELSE Wrap(head + 1)
          /\ written' = written + n
          /\ head' = IF written = 0 THEN kept - 1 ELSE Wrap(head + kept)
          /\ tail' = IF written + kept <= MaxSize THEN 0 ELSE Wrap(head' + 1)
          /\ buffer' = [s \in Slots |->
                 LET offset == IF s >= start THEN s - start ELSE s + MaxSize - start
                 IN  IF offset < kept THEN written + n - kept + 1 + offset ELSE buffer[s]]
  BY Enqueued
<1>2. /\ MaxSize \in Nat \ {0} /\ n \in Nat \ {0} /\ written \in Nat /\ written' = written + n
      /\ kept \in 1 .. MaxSize /\ kept <= n /\ (n <= MaxSize => kept = n)
      /\ start = IF written = 0 THEN 0 ELSE Wrap(head + 1)
      /\ head' = IF written = 0 THEN kept - 1 ELSE Wrap(head + kept)
  BY <1>1, SizeAssumption, BoundAssumption DEF RingInv
<1>3. /\ written # 0 => head \in Slots
      /\ written # 0 /\ written < MaxSize => head = written - 1
      /\ empty <=> written = 0
  BY SlotsAreNaturals DEF RingInv
<1>4. written' # 0
  BY <1>2
<1>5. head' \in Slots /\ tail' = IF written' < MaxSize THEN 0 ELSE Wrap(head' + 1)
  <2>1. Slots' = Slots /\ MaxSize' = MaxSize /\ (Wrap(head + 1))' = Wrap(head' + 1)
    BY DEF Slots, Wrap
  <2> QED BY <1>4, <2>1 DEF RingInv
<1>6. startHead = start
  <2>1. CASE written = 0
    BY <1>2, <1>3, <2>1
  <2>2. CASE written # 0
    <3>1. IncPos(head, 1) = Wrap(head + 1)
      <4>1. head \in Slots /\ 1 \in 0 .. MaxSize
        BY <1>2, <1>3, <2>2
      <4> QED BY <4>1, Positions
    <3> QED BY <1>2, <1>3, <2>2, <3>1
  <2> QED BY <2>1, <2>2
<1>7. newTail = tail'
  BY DEF Enq
<1>8. Readable(start, head', written')
  <2>1. start <= head' \/ written' >= MaxSize
    <3>1. CASE written = 0
      BY <1>2, <3>1
    <3>2. CASE written # 0
      BY <1>2, <1>3, <3>2, SlotsAreNaturals DEF Wrap
    <3> QED BY <3>1, <3>2
  <2> QED BY <1>1, <2>1 DEF Readable
<1>9. Readable(tail', head', written')
  <2>1. tail' \in Slots /\ (tail' <= head' \/ written' >= MaxSize)
    BY <1>2, <1>5, SlotsAreNaturals DEF Wrap, Slots
  <2> QED BY <2>1 DEF Readable
<1>10. pos \in Slots => Readable(pos, head', written')
  <2> SUFFICES ASSUME pos \in Slots PROVE pos <= head' \/ written' >= MaxSize
    BY DEF Readable
  <2>1. written # 0 /\ (pos <= head \/ written >= MaxSize)
    BY DEF Readable
  <2> QED BY <1>2, <1>3, <2>1, SlotsAreNaturals DEF Wrap
<1>11. moved \in {pos, tail'}
  BY <1>7 DEF IncReader
<1>12. tail' # Drained
  BY <1>9, SlotsAreNaturals DEF Readable
<1> HIDE DEF moved, startHead, newTail, empty
<1>13. Readable(at, head', written')
  BY <1>6, <1>8, <1>9, <1>10, <1>11, <1>12, SlotsAreNaturals
<1> QED BY <1>13 DEF moved, startHead, newTail, empty

LEMMA EnqKeepsReaders ==
    ASSUME ReadersInv, NEW n \in 1 .. MaxChunk, Enq(n)
    PROVE  ReadersInv'
<1> DEFINE kept      == IF n > MaxSize THEN MaxSize ELSE n
           empty     == head = -1 /\ tail = -1
           startHead == IF empty THEN 0 ELSE IncPos(head, 1)
           newTail   == IF empty THEN 0 ELSE IncTail(kept)
           moved(r)  == IF empty THEN readers[r] ELSE IncReader(readers[r], newTail, kept)
           at(r)     == IF moved(r) = Drained THEN startHead ELSE moved(r)
           pulls     == {r \in Readers : kind[r] = "stream" /\ more[r]}
<1>1. RingInv'
  BY EnqKeepsInv DEF ReadersInv
<1>2. /\ readers' = [r \in Readers |-> IF r \in pulls THEN DeqNext(head', at(r), -1) ELSE at(r)]
      /\ out' = [r \in Readers |-> IF r \in pulls THEN DeqChunk(starts', buffer', head', at(r), -1) ELSE out[r]]
      /\ next' = [r \in Readers |-> IF r \in pulls THEN NextAfter(r, out'[r]) ELSE next[r]]
      /\ \E goOn \in SUBSET pulls :
             more' = [r \in Readers |-> IF r \in pulls THEN r \in goOn ELSE more[r]]
      /\ kind' = kind /\ written' = written + n /\ n \in Nat \ {0} /\ written \in Nat
  BY BoundAssumption DEF Enq, ReadersInv, RingInv
<1>a. /\ starts' \in SUBSET Nat /\ starts \subseteq starts' /\ starts \in SUBSET Nat
      /\ \A s \in starts' \ starts : s > written + 1
  <2>1. PICK ends \in Characters(n) : starts' = starts \cup {written + e + 1 : e \in ends}
    BY DEF Enq
  <2>2. \A e \in ends : e \in Nat /\ e > 0
    BY <1>2, <2>1 DEF Characters
  <2>3. starts \in SUBSET Nat
    BY DEF ReadersInv, ReadersTypeOK
  <2>4. \A s \in starts' \ starts : s \in Nat /\ s > written + 1
    <3> SUFFICES ASSUME NEW s \in starts' \ starts PROVE s \in Nat /\ s > written + 1
      OBVIOUS
    <3>1. PICK e \in ends : s = written + e + 1
      BY <2>1
    <3> QED BY <1>2, <2>2, <3>1
  <2> QED BY <2>1, <2>3, <2>4
<1>3. Holds(buffer', head', written')
  <2>1. (RingInv /\ written # 0 => Holds(buffer, head, written))'
    BY BufferHolds, PTL
  <2> QED BY <1>1, <1>2, <2>1 DEF Holds, Slots
<1>4. ASSUME NEW r \in Readers, readers[r] # Absent PROVE Readable(at(r), head', written')
  <2>1. readers[r] \in {Drained} \cup Slots /\ (readers[r] \in Slots => written # 0 /\ Readable(readers[r], head, written))
    BY <1>4 DEF ReadersInv, ReadersTypeOK, ReaderOK
  <2> QED BY <1>1, <2>1, EnqMoves DEF ReadersInv
<1>5. ASSUME NEW r \in Readers, readers[r] = Absent PROVE at(r) = Absent
  <2>1. moved(r) = Absent
    BY <1>5 DEF IncReader, Absent
  <2> QED BY <2>1, SlotsAreNaturals
<1> HIDE DEF at
<1>6. ASSUME NEW r \in Readers
      PROVE  /\ readers'[r] \in {Absent, Drained} \cup Slots /\ more'[r] \in BOOLEAN
             /\ out'[r] \in Seq(Token) /\ next'[r] \in Nat /\ ReaderOK(r)'
  <2>0. /\ kind[r] \in {"polled", "stream"} <=> readers[r] # Absent
        /\ more[r] \in BOOLEAN /\ out[r] \in Seq(Token) /\ Reads(starts, written, out[r])
        /\ next[r] \in 1 .. written + 1
        /\ more[r] => kind[r] = "stream" /\ readers[r] = Drained
    BY DEF ReadersInv, ReadersTypeOK, ReaderOK
  <2>1. CASE r \in pulls
    <3>1. readers[r] # Absent /\ kind[r] = "stream" /\ Readable(at(r), head', written')
      BY <1>4, <2>0, <2>1
    <3>2. next[r] \in 1 .. written' + 1 /\ -1 \in {-1} \cup (Nat \ {0})
      BY <1>2, <2>0
    <3>3. /\ DeqNext(head', at(r), -1) = Drained
          /\ DeqChunk(starts', buffer', head', at(r), -1) \in Seq(Token)
          /\ Reads(starts', written', DeqChunk(starts', buffer', head', at(r), -1))
          /\ NextAfter(r, DeqChunk(starts', buffer', head', at(r), -1)) = written' + 1
      BY <1>3, <1>a, <3>1, <3>2, AfterDeq
    <3>4. /\ readers'[r] = Drained /\ out'[r] \in Seq(Token) /\ Reads(starts', written', out'[r])
          /\ next'[r] = written' + 1 /\ more'[r] \in BOOLEAN
      <4> HIDE DEF pulls
      <4>1. /\ readers'[r] = DeqNext(head', at(r), -1) /\ out'[r] = DeqChunk(starts', buffer', head', at(r), -1)
            /\ next'[r] = NextAfter(r, out'[r])
        BY <1>2, <2>1
      <4>2. more'[r] \in BOOLEAN
        BY <1>2, <2>1
      <4> QED BY <3>3, <4>1, <4>2
    <3>5. next'[r] \in 1 .. written' + 1 /\ next'[r] \in Nat
      BY <1>2, <3>4
    <3>6. kind'[r] = "stream" /\ readers'[r] \notin Slots /\ readers'[r] # Absent
      BY <1>2, <3>1, <3>4, SlotsAreNaturals
    <3> QED BY <3>4, <3>5, <3>6 DEF ReaderOK, Slots, Drained, Absent
  <2>2. CASE r \notin pulls
    <3>1. ~more[r]
      BY <2>0, <2>2
    <3>2. readers'[r] = at(r) /\ out'[r] = out[r] /\ next'[r] = next[r] /\ more'[r] = FALSE /\ kind'[r] = kind[r]
      BY <1>2, <2>0, <2>2, <3>1
    <3>3. next'[r] \in 1 .. written' + 1 /\ next'[r] \in Nat /\ written' # 0
      BY <1>2, <2>0, <3>2
    <3>a. Reads(starts', written', out'[r])
      BY <1>2, <1>a, <2>0, <3>2, ReadsLater
    <3>4. CASE readers[r] = Absent
      <4>1. readers'[r] = Absent
        BY <1>5, <3>2, <3>4
      <4>2. readers'[r] \notin Slots /\ readers'[r] # Drained
        BY <4>1, SlotsAreNaturals
      <4> QED BY <2>0, <3>2, <3>3, <3>a, <3>4, <4>1, <4>2 DEF ReaderOK, Slots, Drained, Absent
    <3>5. CASE readers[r] # Absent
      <4>1. Readable(readers'[r], head', written')
        BY <1>4, <3>2, <3>5
      <4>2. readers'[r] \in Slots /\ readers'[r] # Absent /\ readers'[r] # Drained
        BY <4>1, SlotsAreNaturals DEF Readable
      <4> QED BY <2>0, <3>2, <3>3, <3>a, <3>5, <4>1, <4>2 DEF ReaderOK, Slots, Drained, Absent, Readable
    <3> QED BY <3>4, <3>5
  <2> QED BY <2>1, <2>2
<1>7. ReadersTypeOK'
  <2>1. kind' \in [Readers -> {"none", "polled", "stream", "closed"}]
    BY <1>2 DEF ReadersInv, ReadersTypeOK
  <2>2. /\ readers' = [r \in Readers |-> readers'[r]] /\ more' = [r \in Readers |-> more'[r]]
        /\ out' = [r \in Readers |-> out'[r]] /\ next' = [r \in Readers |-> next'[r]]
    BY <1>2
  <2>3. /\ readers' \in [Readers -> {Absent, Drained} \cup Slots] /\ more' \in [Readers -> BOOLEAN]
        /\ out' \in [Readers -> Seq(Token)] /\ next' \in [Readers -> Nat]
    BY <1>6, <2>2
  <2> QED BY <1>a, <2>1, <2>3 DEF ReadersTypeOK, Slots, Drained, Absent
<1> QED BY <1>1, <1>6, <1>7 DEF ReadersInv

\* A reader that one call gave a chunk.
LEMMA ReadKeepsReaders ==
    ASSUME ReadersInv, NEW r \in Readers, NEW pos, Readable(pos, head, written), written # 0,
           kind[r] \in {"polled", "stream"},
           NEW size \in {-1} \cup (Nat \ {0}),
           out' = [out EXCEPT ![r] = DeqChunk(starts, buffer, head, pos, size)],
           next' = [next EXCEPT ![r] = NextAfter(r, out'[r])],
           readers' = [readers EXCEPT ![r] = DeqNext(head, pos, size)],
           more' \in [Readers -> BOOLEAN], \A q \in Readers \ {r} : more'[q] = more[q],
           more'[r] => kind[r] = "stream" /\ readers'[r] = Drained,
           UNCHANGED <<buffer, head, tail, kind, written, starts>>
    PROVE  ReadersInv'
<1> DEFINE chunk == DeqChunk(starts, buffer, head, pos, size)
           after == DeqNext(head, pos, size)
<1>1. RingInv /\ ReadersTypeOK /\ (\A q \in Readers : ReaderOK(q)) /\ written \in Nat
  BY DEF ReadersInv, RingInv
<1>2. RingInv'
  BY <1>1 DEF RingInv, Slots, Wrap
<1>3. /\ after \in {Drained} \cup Slots
      /\ after \in Slots => Readable(after, head, written)
      /\ chunk \in Seq(Token) /\ Reads(starts, written, chunk)
      /\ NextAfter(r, chunk) \in 1 .. written + 1
      /\ after = Drained => NextAfter(r, chunk) = written + 1
  <2>1. Holds(buffer, head, written)
    BY <1>1, BufferHolds
  <2>2. next[r] \in 1 .. written + 1
    BY <1>1 DEF ReaderOK
  <2>3. starts \in SUBSET Nat
    BY <1>1 DEF ReadersTypeOK
  <2> QED BY <2>1, <2>2, <2>3, AfterDeq
<1> HIDE DEF chunk, after
<1>4. /\ out' = [out EXCEPT ![r] = chunk] /\ next' = [next EXCEPT ![r] = NextAfter(r, chunk)]
      /\ readers' = [readers EXCEPT ![r] = after]
  <2>1. out' = [out EXCEPT ![r] = chunk] /\ readers' = [readers EXCEPT ![r] = after]
    BY DEF chunk, after
  <2>2. out'[r] = chunk
    BY <1>1, <2>1 DEF ReadersTypeOK
  <2> QED BY <2>1, <2>2
<1>5. NextAfter(r, chunk) \in Nat
  BY <1>1, <1>3
<1>6. ReadersTypeOK'
  <2>1. /\ readers' \in [Readers -> {Absent, Drained} \cup Slots] /\ out' \in [Readers -> Seq(Token)]
        /\ next' \in [Readers -> Nat]
    BY <1>1, <1>3, <1>4, <1>5 DEF ReadersTypeOK
  <2> QED BY <1>1, <2>1 DEF ReadersTypeOK, Slots, Drained, Absent
<1>7. ASSUME NEW q \in Readers, q # r PROVE ReaderOK(q)'
  <2>1. readers'[q] = readers[q] /\ out'[q] = out[q] /\ next'[q] = next[q] /\ more'[q] = more[q] /\ kind'[q] = kind[q]
    BY <1>1, <1>4, <1>7 DEF ReadersTypeOK
  <2>2. ReaderOK(q)
    BY <1>1
  <2> QED BY <2>1, <2>2 DEF ReaderOK, Readable, Slots, Drained, Absent
<1>8. ReaderOK(r)'
  <2>1. readers'[r] = after /\ out'[r] = chunk /\ next'[r] = NextAfter(r, chunk) /\ kind'[r] = kind[r]
    BY <1>1, <1>4 DEF ReadersTypeOK
  <2>2. readers'[r] # Absent
    BY <1>3, <2>1, SlotsAreNaturals
  <2>3. Reads(starts', written', out'[r])
    BY <1>3, <2>1
  <2>4. /\ kind'[r] \in {"polled", "stream"} <=> readers'[r] # Absent
        /\ readers'[r] \in Slots => written' # 0 /\ Readable(readers'[r], head', written')
        /\ more'[r] => kind'[r] = "stream" /\ readers'[r] = Drained
        /\ next'[r] \in 1 .. written' + 1
        /\ readers'[r] = Drained => next'[r] = written' + 1
    BY <1>3, <2>1, <2>2
  <2> QED BY <2>3, <2>4 DEF ReaderOK, Readable, Slots, Drained, Absent
<1> QED BY <1>2, <1>6, <1>7, <1>8 DEF ReadersInv

LEMMA DeqKeepsReaders ==
    ASSUME ReadersInv, NEW r \in Readers, NEW size \in {-1} \cup 1 .. MaxSize, Deq(r, size)
    PROVE  ReadersInv'
<1>1. /\ kind[r] = "polled" /\ readers[r] # Drained
      /\ out' = [out EXCEPT ![r] = DeqChunk(starts, buffer, head, readers[r], size)]
      /\ next' = [next EXCEPT ![r] = NextAfter(r, out'[r])]
      /\ readers' = [readers EXCEPT ![r] = DeqNext(head, readers[r], size)]
      /\ UNCHANGED <<buffer, head, tail, more, kind, written, starts>>
  BY DEF Deq
<1>2. ReaderOK(r) /\ ReadersTypeOK
  BY DEF ReadersInv
<1>3. readers[r] \in Slots /\ written # 0 /\ Readable(readers[r], head, written)
  BY <1>1, <1>2 DEF ReaderOK, ReadersTypeOK
<1>4. size \in {-1} \cup (Nat \ {0})
  BY SizeAssumption
<1>5. more' \in [Readers -> BOOLEAN] /\ (\A q \in Readers : more'[q] = more[q]) /\ ~more[r]
  BY <1>1, <1>2 DEF ReaderOK, ReadersTypeOK
<1> QED BY <1>1, <1>3, <1>4, <1>5, ReadKeepsReaders

LEMMA StreamReadKeepsReaders ==
    ASSUME ReadersInv, NEW r \in Readers, NEW size \in 1 .. MaxSize, StreamRead(r, size)
    PROVE  ReadersInv'
<1>1. kind[r] = "stream" /\ UNCHANGED <<buffer, head, tail, kind, written, starts>>
  BY DEF StreamRead
<1>2. ReaderOK(r) /\ ReadersTypeOK /\ RingInv
  BY DEF ReadersInv
<1>3. CASE readers[r] = Drained
  <2>1. more' = [more EXCEPT ![r] = TRUE] /\ UNCHANGED <<readers, out, next>>
    BY <1>3 DEF StreamRead
  <2>2. RingInv' /\ ReadersTypeOK'
    BY <1>1, <1>2, <2>1 DEF RingInv, ReadersTypeOK, Slots, Wrap, Drained, Absent
  <2>3. ASSUME NEW q \in Readers PROVE ReaderOK(q)'
    <3>1. ReaderOK(q) /\ more'[q] = IF q = r THEN TRUE ELSE more[q]
      BY <1>2, <2>1 DEF ReadersInv, ReadersTypeOK
    <3> QED BY <1>1, <1>3, <2>1, <3>1 DEF ReaderOK, Readable, Slots, Drained, Absent
  <2> QED BY <2>2, <2>3 DEF ReadersInv
<1>4. CASE readers[r] # Drained
  <2>1. PICK k \in 1 .. MaxSize, goOn \in BOOLEAN :
          /\ PosAfter(r, size, k - 1) # Drained
          /\ goOn => PosAfter(r, size, k) = Drained
          /\ more' = [more EXCEPT ![r] = goOn]
          /\ readers' = [readers EXCEPT ![r] = PosAfter(r, size, k)]
          /\ out' = [out EXCEPT ![r] = DeqChunk(starts, buffer, head, PosAfter(r, size, k - 1), size)]
          /\ next' = [next EXCEPT ![r] = NextAfter(r, out'[r])]
    BY <1>4 DEF StreamRead
  <2>2. readers[r] \in Slots /\ written # 0 /\ Readable(readers[r], head, written) /\ head \in Slots
    BY <1>1, <1>2, <1>4 DEF ReaderOK, ReadersTypeOK, RingInv
  <2>3. k \in Nat \ {0} /\ size \in Nat \ {0}
    BY SizeAssumption
  <2> DEFINE before == PosAfter(r, size, k - 1)
             after  == PosAfter(r, size, k)
  <2>4. Readable(before, head, written) /\ after = DeqNext(head, before, size)
    <3>1. CASE k = 1
      <4>1. before = readers[r] /\ after = DeqNext(head, readers[r], 1 * size)
        BY <3>1 DEF PosAfter
      <4>2. 1 * size = size
        BY <2>3
      <4> QED BY <2>2, <4>1, <4>2
    <3>2. CASE k # 1
      <4> DEFINE a == (k - 1) * size
      <4>1. before = DeqNext(head, readers[r], a)
        BY <2>3, <3>2 DEF PosAfter
      <4>2. after = DeqNext(head, readers[r], k * size)
        BY <2>3 DEF PosAfter
      <4>3. a \in Nat \ {0} /\ k * size = a + size
        <5>1. k - 1 \in Nat \ {0}
          BY <2>3, <3>2
        <5>2. k * size = (k - 1) * size + size
          BY <2>3
        <5>3. \A i, j \in Nat \ {0} : i * j \in Nat \ {0}
          OBVIOUS
        <5> QED BY <2>3, <5>1, <5>2, <5>3
      <4> HIDE DEF a
      <4>4. before \in Slots /\ after = DeqNext(head, before, size)
        <5>1. DeqNext(head, readers[r], a) # Drained
          BY <2>1, <4>1
        <5>2. /\ DeqNext(head, readers[r], a) \in Slots
              /\ DeqNext(head, readers[r], a + size) = DeqNext(head, DeqNext(head, readers[r], a), size)
          BY <2>2, <2>3, <4>3, <5>1, RoundsAddUp
        <5> QED BY <4>1, <4>2, <4>3, <5>2
      <4>5. Holds(buffer, head, written) /\ next[r] \in 1 .. written + 1
        BY <1>2, <2>2, BufferHolds DEF ReaderOK
      <4>6. a \in {-1} \cup (Nat \ {0})
        BY <4>3
      <4>7. before \in Slots => Readable(before, head, written)
        <5>1. starts \in SUBSET Nat
          BY <1>2 DEF ReadersTypeOK
        <5>2. written \in Nat /\ r \in Readers
          BY <4>5 DEF Holds
        <5>3. DeqNext(head, readers[r], a) \in Slots => Readable(DeqNext(head, readers[r], a), head, written)
          BY ONLY <2>2, <4>5, <4>6, <5>1, <5>2, AfterDeq
        <5> QED BY <4>1, <5>3
      <4> QED BY <4>4, <4>7
    <3> QED BY <3>1, <3>2
  <2>5. more' \in [Readers -> BOOLEAN] /\ (\A q \in Readers \ {r} : more'[q] = more[q]) /\ more'[r] = goOn
    BY <1>2, <2>1 DEF ReadersTypeOK
  <2>6. readers'[r] = after
    BY <1>2, <2>1 DEF ReadersTypeOK
  <2>7. more'[r] => kind[r] = "stream" /\ readers'[r] = Drained
    BY <1>1, <2>1, <2>5, <2>6
  <2>8. /\ out' = [out EXCEPT ![r] = DeqChunk(starts, buffer, head, before, size)]
        /\ next' = [next EXCEPT ![r] = NextAfter(r, out'[r])]
        /\ readers' = [readers EXCEPT ![r] = DeqNext(head, before, size)]
    BY <2>1, <2>4
  <2>9. kind[r] \in {"polled", "stream"} /\ size \in {-1} \cup (Nat \ {0})
    BY <1>1, <2>3
  <2> HIDE DEF before, after
  <2> QED BY <1>1, <2>2, <2>4, <2>5, <2>7, <2>8, <2>9, ReadKeepsReaders
<1> QED BY <1>3, <1>4

LEMMA OpenKeepsReaders ==
    ASSUME ReadersInv, NEW r \in Readers, NEW k \in {"polled", "stream"}, Open(r, k)
    PROVE  ReadersInv'
<1>1. /\ kind[r] = "none" /\ kind' = [kind EXCEPT ![r] = k] /\ readers' = [readers EXCEPT ![r] = tail]
      /\ next' = [next EXCEPT ![r] = IF tail = -1 THEN written + 1 ELSE buffer[tail]]
      /\ UNCHANGED <<buffer, head, tail, more, written, starts, out>>
  BY DEF Open
<1>2. RingInv /\ ReadersTypeOK /\ (\A q \in Readers : ReaderOK(q)) /\ written \in Nat /\ ReaderOK(r)
  BY DEF ReadersInv, RingInv
<1>3. RingInv'
  BY <1>1, <1>2 DEF RingInv, Slots, Wrap
<1>4. /\ tail \in {Drained} \cup Slots /\ (tail = Drained <=> written = 0)
      /\ tail \in Slots => Readable(tail, head, written) /\ buffer[tail] \in 1 .. written
  <2>1. CASE written = 0
    BY <1>2, <2>1, SlotsAreNaturals DEF RingInv, Drained
  <2>2. CASE written # 0
    <3>1. /\ head \in Slots /\ tail = (IF written < MaxSize THEN 0 ELSE Wrap(head + 1))
          /\ (written < MaxSize => head = written - 1) /\ tail \in Slots
      BY <1>2, <2>2, SlotsAreNaturals DEF RingInv, Wrap, Slots
    <3>2. tail <= head \/ written >= MaxSize
      BY <1>2, <3>1, SlotsAreNaturals
    <3>3. buffer[tail] = IF tail <= head THEN written - (head - tail) ELSE written - (head + MaxSize - tail)
      <4>1. CASE tail <= head
        BY <1>2, <3>1, <4>1 DEF RingInv
      <4>2. CASE tail > head
        BY <1>2, <3>1, <3>2, <4>2, SlotsAreNaturals DEF RingInv
      <4> QED BY <3>1, <4>1, <4>2, SlotsAreNaturals
    <3>4. buffer[tail] \in 1 .. written
      BY <1>2, <2>2, <3>1, <3>2, <3>3, SlotsAreNaturals DEF Wrap
    <3> QED BY <2>2, <3>1, <3>2, <3>4, SlotsAreNaturals DEF Readable
  <2> QED BY <2>1, <2>2
<1>5. next'[r] \in 1 .. written + 1 /\ (tail = Drained => next'[r] = written + 1)
  <2>1. next'[r] = IF tail = -1 THEN written + 1 ELSE buffer[tail]
    BY <1>1, <1>2 DEF ReadersTypeOK
  <2> QED BY <1>2, <1>4, <2>1, SlotsAreNaturals DEF Drained
<1>6. ReadersTypeOK'
  <2>1. next' \in [Readers -> Nat]
    <3>1. next' = [next EXCEPT ![r] = next'[r]] /\ next'[r] \in Nat
      BY <1>1, <1>2, <1>5 DEF ReadersTypeOK
    <3> QED BY <1>2, <3>1 DEF ReadersTypeOK
  <2> QED BY <1>1, <1>2, <1>4, <2>1 DEF ReadersTypeOK, Slots, Drained, Absent
<1>7. ASSUME NEW q \in Readers, q # r PROVE ReaderOK(q)'
  <2>1. readers'[q] = readers[q] /\ next'[q] = next[q] /\ kind'[q] = kind[q] /\ ReaderOK(q)
    BY <1>1, <1>2, <1>7 DEF ReadersTypeOK
  <2> QED BY <1>1, <2>1 DEF ReaderOK, Readable, Slots, Drained, Absent
<1>8. ReaderOK(r)'
  <2>1. readers'[r] = tail /\ kind'[r] = k /\ tail # Absent /\ ~more[r]
    BY <1>1, <1>2, <1>4, SlotsAreNaturals DEF ReadersTypeOK, ReaderOK
  <2>2. tail \in Slots => tail # Drained
    BY SlotsAreNaturals
  <2>3. Reads(starts', written', out'[r])
    BY <1>1, <1>2 DEF ReaderOK
  <2>4. /\ kind'[r] \in {"polled", "stream"} <=> readers'[r] # Absent
        /\ readers'[r] \in Slots => written' # 0 /\ Readable(readers'[r], head', written')
        /\ more'[r] => kind'[r] = "stream" /\ readers'[r] = Drained
        /\ next'[r] \in 1 .. written' + 1
        /\ readers'[r] = Drained => next'[r] = written' + 1
    BY <1>1, <1>4, <1>5, <2>1, <2>2
  <2> QED BY <2>3, <2>4 DEF ReaderOK, Readable, Slots, Drained, Absent
<1> QED BY <1>3, <1>6, <1>7, <1>8 DEF ReadersInv

\* Closing some readers, by any of the ways there are.
LEMMA CloseKeepsReaders ==
    ASSUME ReadersInv, NEW closing \in SUBSET Readers,
           kind' = [q \in Readers |-> IF q \in closing THEN "closed" ELSE kind[q]],
           readers' = [q \in Readers |-> IF q \in closing THEN Absent ELSE readers[q]],
           more' = [q \in Readers |-> IF q \in closing THEN FALSE ELSE more[q]],
           UNCHANGED <<buffer, head, tail, written, starts, out, next>>
    PROVE  ReadersInv'
<1>1. RingInv /\ ReadersTypeOK /\ (\A q \in Readers : ReaderOK(q))
  BY DEF ReadersInv
<1>2. RingInv' /\ ReadersTypeOK'
  BY <1>1 DEF RingInv, ReadersTypeOK, Slots, Wrap, Drained, Absent
<1>3. ASSUME NEW q \in Readers PROVE ReaderOK(q)'
  <2>1. ReaderOK(q)
    BY <1>1
  <2>2. CASE q \in closing
    <3>1. readers'[q] = Absent /\ kind'[q] = "closed" /\ more'[q] = FALSE
      BY <2>2
    <3>2. readers'[q] \notin Slots /\ readers'[q] # Drained
      BY <3>1, SlotsAreNaturals
    <3> QED BY <2>1, <3>1, <3>2 DEF ReaderOK, Readable, Slots, Drained, Absent
  <2>3. CASE q \notin closing
    <3>1. readers'[q] = readers[q] /\ kind'[q] = kind[q] /\ more'[q] = more[q]
      BY <2>3
    <3> QED BY <2>1, <3>1 DEF ReaderOK, Readable, Slots, Drained, Absent
  <2> QED BY <2>2, <2>3
<1> QED BY <1>2, <1>3 DEF ReadersInv

LEMMA ReadersHold == Spec => []ReadersInv
<1>1. Init => ReadersInv
  <2> SUFFICES ASSUME Init PROVE ReadersInv
    OBVIOUS
  <2>1. RingInv
    BY InitialRing
  <2>2. ReadersTypeOK
    BY DEF Init, ReadersTypeOK
  <2>3. ASSUME NEW r \in Readers PROVE ReaderOK(r)
    <3>1. /\ kind[r] = "none" /\ readers[r] = Absent /\ more[r] = FALSE /\ out[r] = <<>> /\ next[r] = 1 /\ written = 0
      BY DEF Init
    <3>2. Reads(starts, written, out[r])
      BY <3>1 DEF Reads, Consecutive, OneSpoilt
    <3> QED BY <3>1, <3>2, SlotsAreNaturals DEF ReaderOK
  <2> QED BY <2>1, <2>2, <2>3 DEF ReadersInv
<1>2. ReadersInv /\ [Next]_vars => ReadersInv'
  <2> SUFFICES ASSUME ReadersInv, [Next]_vars PROVE ReadersInv'
    OBVIOUS
  <2>1. ASSUME NEW n \in 1 .. MaxChunk, Enq(n) PROVE ReadersInv'
    BY <2>1, EnqKeepsReaders
  <2>2. ASSUME NEW r \in Readers, NEW k \in {"polled", "stream"}, Open(r, k) PROVE ReadersInv'
    BY <2>2, OpenKeepsReaders
  <2>3. ASSUME NEW r \in Readers, Close(r) PROVE ReadersInv'
    <3> DEFINE closing == {r}
    <3>1. /\ closing \in SUBSET Readers
          /\ kind' = [q \in Readers |-> IF q \in closing THEN "closed" ELSE kind[q]]
          /\ readers' = [q \in Readers |-> IF q \in closing THEN Absent ELSE readers[q]]
          /\ more' = [q \in Readers |-> IF q \in closing THEN FALSE ELSE more[q]]
          /\ UNCHANGED <<buffer, head, tail, written, starts, out, next>>
      BY <2>3 DEF Close, ReadersInv, ReadersTypeOK
    <3> HIDE DEF closing
    <3> QED BY <3>1, CloseKeepsReaders
  <2>4. ASSUME NEW r \in Readers, NEW size \in {-1} \cup 1 .. MaxSize, Deq(r, size) PROVE ReadersInv'
    BY <2>4, DeqKeepsReaders
  <2>5. ASSUME NEW r \in Readers, NEW size \in 1 .. MaxSize, StreamRead(r, size) PROVE ReadersInv'
    BY <2>5, StreamReadKeepsReaders
  <2>6. CASE Dispose
    <3> DEFINE closing == {r \in Readers : kind[r] = "stream"}
    <3>1. /\ closing \in SUBSET Readers
          /\ kind' = [q \in Readers |-> IF q \in closing THEN "closed" ELSE kind[q]]
          /\ readers' = [q \in Readers |-> IF q \in closing THEN Absent ELSE readers[q]]
          /\ more' = [q \in Readers |-> IF q \in closing THEN FALSE ELSE more[q]]
          /\ UNCHANGED <<buffer, head, tail, written, starts, out, next>>
      BY <2>6 DEF Dispose
    <3> HIDE DEF closing
    <3> QED BY <3>1, CloseKeepsReaders
  <2>7. CASE UNCHANGED vars
    <3>1. RingInv' /\ ReadersTypeOK'
      BY <2>7 DEF vars, ReadersInv, RingInv, ReadersTypeOK, Slots, Wrap, Drained, Absent
    <3>2. ASSUME NEW q \in Readers PROVE ReaderOK(q)'
      <4>1. ReaderOK(q)
        BY DEF ReadersInv
      <4> QED BY <2>7, <4>1 DEF vars, ReaderOK, Readable, Slots, Drained, Absent
    <3> QED BY <3>1, <3>2 DEF ReadersInv
  <2> QED BY <2>1, <2>2, <2>3, <2>4, <2>5, <2>6, <2>7 DEF Next
<1> QED BY <1>1, <1>2, PTL DEF Spec

\* Positions stay within the buffer, and chunks consist of bytes that are shown as written
\* or replaced, for any number of readers and any size of the buffer.
THEOREM TypeCorrect == Spec => []TypeOK
<1>1. ReadersInv => TypeOK
  <2> SUFFICES ASSUME ReadersInv PROVE TypeOK
    OBVIOUS
  <2>1. ReadersTypeOK /\ RingInv
    BY DEF ReadersInv
  <2>2. written \in Nat /\ buffer \in [Slots -> 0 .. written]
    BY <2>1 DEF RingInv
  <2>3. buffer \in [Slots -> Nat]
    BY <2>2
  <2>4. head \in {-1} \cup Slots /\ tail \in {-1} \cup Slots
    BY <2>1, SlotsAreNaturals DEF RingInv, Wrap, Slots
  <2>5. out \in [Readers -> Seq([byte : Nat, as : {"written", "replaced"}])]
    BY <2>1 DEF ReadersTypeOK, Token, Shown
  <2> QED BY <2>1, <2>2, <2>3, <2>4, <2>5 DEF TypeOK, ReadersTypeOK
<1> QED BY <1>1, ReadersHold, PTL

\* Whatever deq, streams and writes do to the positions of the readers, a chunk is a run
\* of consecutive bytes, read as the text that was written but for the characters cut by
\* the chunk and one across the end of the buffer, for characters of any length.
THEOREM ChunksAreRuns == Spec => []ChunksAreConsecutive
<1>1. ReadersInv => ChunksAreConsecutive
  <2> SUFFICES ASSUME ReadersInv, NEW r \in Readers
               PROVE  /\ \A i \in 2 .. Len(out[r]) : out[r][i].byte = out[r][i - 1].byte + 1
                      /\ \A i, j \in Spoilt(out[r]) :
                            \A first \in starts : ~(out[r][i].byte < first /\ first <= out[r][j].byte)
    BY DEF ChunksAreConsecutive
  <2>1. Consecutive(out[r]) /\ OneSpoilt(starts, out[r])
    BY DEF ReadersInv, ReaderOK, Reads
  <2>2. \A i \in 2 .. Len(out[r]) : out[r][i].byte = out[r][i - 1].byte + 1
    BY <2>1 DEF Consecutive
  <2>3. ASSUME NEW i \in Spoilt(out[r]), NEW j \in Spoilt(out[r]), NEW first \in starts
        PROVE  ~(out[r][i].byte < first /\ first <= out[r][j].byte)
    <3>1. i \in 1 .. Len(out[r]) /\ out[r][i].as = "replaced" /\ Whole(starts, out[r][i].byte, BytesOf(out[r]))
      BY DEF Spoilt
    <3>2. j \in 1 .. Len(out[r]) /\ out[r][j].as = "replaced" /\ Whole(starts, out[r][j].byte, BytesOf(out[r]))
      BY DEF Spoilt
    <3> QED BY <2>1, <3>1, <3>2 DEF OneSpoilt
  <2> QED BY <2>2, <2>3
<1> QED BY <1>1, ReadersHold, PTL

\* A stream that wants more has nothing left to read, also when a write comes while its
\* consumer is waiting or after it was told to stop in the middle of a loop.
THEOREM WantedIsGiven == Spec => []NoDataWhileWanted
<1>1. ReadersInv => NoDataWhileWanted
  BY DEF ReadersInv, ReaderOK, NoDataWhileWanted
<1> QED BY <1>1, ReadersHold, PTL

\* A reader is marked as drained only when it was given the newest byte.
THEOREM DrainedHasNewest == Spec => []DrainedSawNewest
<1>1. ReadersInv => DrainedSawNewest
  BY DEF ReadersInv, ReaderOK, DrainedSawNewest
<1> QED BY <1>1, ReadersHold, PTL
=============================================================================
