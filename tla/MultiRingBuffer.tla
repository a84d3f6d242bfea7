--------------------------- MODULE MultiRingBuffer ---------------------------
(***************************************************************************)
(* The ring buffer behind every terminal process: one writer (`enq', called *)
(* with the output of the pty) and any number of independent readers, each  *)
(* with a position of its own.  A reader is either polled (`deq') or        *)
(* wrapped in a MultiRingBufferReadableStream, whose consumer pulls with    *)
(* `_read' and applies back pressure through the result of `push'.          *)
(*                                                                         *)
(* Source: packages/process/src/node/multi-ring-buffer.ts                   *)
(*                                                                         *)
(* Bytes are abstracted to their index in the output of the process: the    *)
(* k-th byte ever written is the number k, and 0 is a byte of the freshly   *)
(* allocated (zeroed) buffer.  Readers get text, not bytes: a character     *)
(* takes one or more bytes, and a part of the buffer that does not hold all *)
(* of them is decoded to replacement characters.  All calls are synchronous *)
(* JavaScript, so each is one step.                                         *)
(***************************************************************************)
EXTENDS Integers, Sequences, SequencesExt

CONSTANTS
    Readers,    \* identities of the readers ever created
    MaxSize,    \* options.size, the capacity in bytes
    MaxCharacter, \* the most bytes of a character (4 in UTF-8)
    MaxChunk,   \* bound: the longest string passed to enq
    MaxBytes    \* bound: the number of bytes the process writes in all

ASSUME SizeAssumption == MaxSize \in Nat \ {0}
ASSUME BoundAssumption == MaxCharacter \in Nat \ {0} /\ MaxChunk \in Nat /\ MaxBytes \in Nat

VARIABLES
    buffer,     \* the bytes, one per slot
    head,       \* slot of the newest byte, -1 when nothing was ever written
    tail,       \* slot of the oldest byte, -1 when nothing was ever written
    readers,    \* reader -> slot of its next byte, Drained, or Absent
    more,       \* stream readers: the consumer asked for more
    kind,       \* reader -> how it was created, "none" before that
    written,    \* history: number of bytes passed to enq
    starts,     \* history: the bytes that begin a character, the next one included
    out,        \* history: reader -> the chunk it received last
    next        \* history: reader -> first byte it was not yet given

vars == <<buffer, head, tail, readers, more, kind, written, starts, out, next>>

Slots == 0 .. MaxSize - 1
Drained == -1   \* the position of a reader that has read everything
Absent == -2    \* readers.get(id) is undefined

-----------------------------------------------------------------------------
(* Position arithmetic. *)

\* `inc': the slot `size' places after `pos', and whether it passed the end.
IncPos(pos, size) == IF size = 0 THEN pos ELSE (pos + size) % MaxSize
IncWrap(pos, size) == size # 0 /\ IncPos(pos, size) <= pos

IsWrapped(from, to) == to < from

SizeFrom(from, to) ==
    IF from = -1 \/ to = -1 THEN 0
    ELSE IF IsWrapped(from, to) THEN to + 1 + MaxSize - from
    ELSE to - from + 1

Size == SizeFrom(tail, head)

\* Faulty: the slot of `pos' itself counts as free.
ShouldIncPosTooLate(pos, end, size) ==
    IF IsWrapped(pos, end)
    THEN IncWrap(end, size) \/ IncPos(end, size) > pos
    ELSE IncWrap(end, size) /\ IncPos(end, size) > pos

\* `shouldIncPos': will `size' bytes written after `end' overrun `pos'?
ShouldIncPos(pos, end, size) ==
    IF IsWrapped(pos, end)
    THEN IncWrap(end, size) \/ IncPos(end, size) >= pos
    ELSE IncWrap(end, size) /\ IncPos(end, size) >= pos

\* `incTail' and `incTailSize': the main tail after writing `size' bytes.
IncTail(size) ==
    IF ShouldIncPos(tail, head, size)
    THEN IncPos(IncPos(head, size), 1)
    ELSE tail

\* `incTails' for one reader, given the tail it has just updated.
IncReader(pos, newTail, size) ==
    IF pos >= 0 /\ ShouldIncPos(pos, newTail, size) THEN newTail ELSE pos

-----------------------------------------------------------------------------
(* deq, over the buffer and head of the moment it runs. *)

\* The character that byte `b' belongs to has all its bytes in `bytes', given where
\* characters begin.
Whole(st, b, bytes) ==
    /\ \E first \in st : first <= b /\ first .. b \subseteq bytes
    /\ \E following \in st : following > b /\ b .. following - 1 \subseteq bytes

\* Buffer.toString(encoding, from, to): the bytes in the slots from .. to - 1, and
\* whether they are decoded to their character or to replacement characters.
Decode(st, buf, from, to) ==
    [i \in 1 .. (IF to > from THEN to - from ELSE 0) |->
        [byte |-> buf[from + i - 1],
         as |-> IF Whole(st, buf[from + i - 1], {buf[s] : s \in from .. to - 1}) THEN "written" ELSE "replaced"]]

DeqSize(hd, pos, size) ==
    LET available == SizeFrom(pos, hd)
    IN  IF size = -1 \/ size > available THEN available ELSE size

\* Faulty: the part at the end of the buffer is returned twice.
DeqChunkTwice(st, buf, hd, pos, size) ==
    LET n == DeqSize(hd, pos, size)
    IN  IF IsWrapped(pos, hd)
        THEN Decode(st, buf, pos, MaxSize) \o Decode(st, buf, pos, MaxSize)
        ELSE Decode(st, buf, pos, pos + n)

\* What deq returns to a reader at `pos' that asks for `size' bytes, -1 for all: the
\* two parts of a read across the end of the buffer are decoded one by one.
DeqChunk(st, buf, hd, pos, size) ==
    LET n == DeqSize(hd, pos, size)
    IN  IF IsWrapped(pos, hd)
        THEN Decode(st, buf, pos, MaxSize) \o Decode(st, buf, 0, n - (MaxSize - pos))
        ELSE Decode(st, buf, pos, pos + n)

\* Faulty: the slot after the last one read is compared with the head.
DeqNextTooEarly(hd, pos, size) ==
    LET n == DeqSize(hd, pos, size)
    IN  IF IncPos(pos, n) = hd THEN Drained ELSE IncPos(pos, n)

\* Faulty: a reader is never drained.
DeqNextUndrained(hd, pos, size) == IncPos(pos, DeqSize(hd, pos, size))

\* The position deq leaves that reader at.
DeqNext(hd, pos, size) ==
    LET n == DeqSize(hd, pos, size)
    IN  IF IncPos(pos, n - 1) = hd THEN Drained ELSE IncPos(pos, n)

\* The first byte a reader has not been given once it has received `chunk'.
NextAfter(r, chunk) ==
    IF chunk # <<>> /\ Last(chunk).byte >= next[r] THEN Last(chunk).byte + 1 ELSE next[r]

-----------------------------------------------------------------------------
Init ==
    /\ buffer = [s \in Slots |-> 0]
    /\ head = -1
    /\ tail = -1
    /\ readers = [r \in Readers |-> Absent]
    /\ more = [r \in Readers |-> FALSE]
    /\ kind = [r \in Readers |-> "none"]
    /\ written = 0
    /\ starts = {1}
    /\ out = [r \in Readers |-> <<>>]
    /\ next = [r \in Readers |-> 1]

\* Where the characters of a string of `n' bytes end, as the offsets of what follows.
Characters(n) ==
    {ends \in SUBSET (1 .. n) : n \in ends /\ \A k \in 1 .. n : \E e \in ends : k <= e /\ e < k + MaxCharacter}

(***************************************************************************)
(* enq(str): `n' more bytes, of which only the last MaxSize are kept, even  *)
(* when that cuts a character.                                              *)
(* An empty string returns early and changes nothing.  onData then moves    *)
(* every drained reader to the first new byte and lets every stream whose   *)
(* consumer wants more read all of it; `push' tells it whether to go on.    *)
(***************************************************************************)
Enq(n) ==
    LET kept      == IF n > MaxSize THEN MaxSize ELSE n
        empty     == head = -1 /\ tail = -1
        startHead == IF empty THEN 0 ELSE IncPos(head, 1)
        newTail   == IF empty THEN 0 ELSE IncTail(kept)
        moved(r)  == IF empty THEN readers[r] ELSE IncReader(readers[r], newTail, kept)
        at(r)     == IF moved(r) = Drained THEN startHead ELSE moved(r)
        pulls     == {r \in Readers : kind[r] = "stream" /\ more[r]}
    IN  /\ n > 0
        /\ written + n <= MaxBytes
        /\ written' = written + n
        /\ \E ends \in Characters(n) : starts' = starts \cup {written + e + 1 : e \in ends}
        /\ buffer' = [s \in Slots |->
                         LET offset == (s + MaxSize - startHead) % MaxSize
                         IN  IF offset < kept THEN written + n - kept + 1 + offset ELSE buffer[s]]
        /\ head' = IF empty THEN kept - 1 ELSE IncPos(head, kept)
        /\ tail' = newTail
        /\ readers' = [r \in Readers |-> IF r \in pulls THEN DeqNext(head', at(r), -1) ELSE at(r)]
        /\ out' = [r \in Readers |->
                      IF r \in pulls THEN DeqChunk(starts', buffer', head', at(r), -1) ELSE out[r]]
        /\ next' = [r \in Readers |-> IF r \in pulls THEN NextAfter(r, out'[r]) ELSE next[r]]
        /\ \E goOn \in SUBSET pulls :
              more' = [r \in Readers |-> IF r \in pulls THEN r \in goOn ELSE more[r]]
        /\ UNCHANGED kind

\* getReader() and getStream(): the new reader starts at the oldest byte kept.
Open(r, k) ==
    /\ kind[r] = "none"
    /\ kind' = [kind EXCEPT ![r] = k]
    /\ readers' = [readers EXCEPT ![r] = tail]
    /\ next' = [next EXCEPT ![r] = IF tail = -1 THEN written + 1 ELSE buffer[tail]]
    /\ UNCHANGED <<buffer, head, tail, more, written, starts, out>>

\* closeReader(id), and _destroy of a stream, which also stops its reading.
Close(r) ==
    /\ kind[r] \in {"polled", "stream"}
    /\ kind' = [kind EXCEPT ![r] = "closed"]
    /\ readers' = [readers EXCEPT ![r] = Absent]
    /\ more' = [more EXCEPT ![r] = FALSE]
    /\ UNCHANGED <<buffer, head, tail, written, starts, out, next>>

\* dispose(): every stream is destroyed, polled readers stay.
Dispose ==
    LET open == {r \in Readers : kind[r] = "stream"}
    IN  /\ open # {}
        /\ kind' = [r \in Readers |-> IF r \in open THEN "closed" ELSE kind[r]]
        /\ readers' = [r \in Readers |-> IF r \in open THEN Absent ELSE readers[r]]
        /\ more' = [r \in Readers |-> IF r \in open THEN FALSE ELSE more[r]]
        /\ UNCHANGED <<buffer, head, tail, written, starts, out, next>>

\* deq(id, size) called on a polled reader; it returns undefined, and changes
\* nothing, to a drained reader or when `size' is 0.
Deq(r, size) ==
    /\ kind[r] = "polled"
    /\ readers[r] # Drained
    /\ size # 0
    /\ out' = [out EXCEPT ![r] = DeqChunk(starts, buffer, head, readers[r], size)]
    /\ next' = [next EXCEPT ![r] = NextAfter(r, out'[r])]
    /\ readers' = [readers EXCEPT ![r] = DeqNext(head, readers[r], size)]
    /\ UNCHANGED <<buffer, head, tail, more, kind, written, starts>>

\* The position of a stream after `k' rounds of the loop in
\* MultiRingBufferReadableStream.deq: that after one deq of as much.
PosAfter(r, size, k) == IF k = 0 THEN readers[r] ELSE DeqNext(head, readers[r], k * size)

\* _read(size): rounds of deq and push, until nothing is left or push has
\* returned false.  Every round but the last was told to go on.
StreamRead(r, size) ==
    /\ kind[r] = "stream"
    /\ IF readers[r] = Drained
       THEN /\ more' = [more EXCEPT ![r] = TRUE]
            /\ UNCHANGED <<readers, out, next>>
       ELSE \E k \in 1 .. MaxSize :
              LET before == PosAfter(r, size, k - 1)
                  after  == PosAfter(r, size, k)
              IN  /\ before # Drained
                  /\ \E goOn \in BOOLEAN :
                        /\ goOn => after = Drained
                        /\ more' = [more EXCEPT ![r] = goOn]
                  /\ readers' = [readers EXCEPT ![r] = after]
                  /\ out' = [out EXCEPT ![r] = DeqChunk(starts, buffer, head, before, size)]
                  /\ next' = [next EXCEPT ![r] = NextAfter(r, out'[r])]
    /\ UNCHANGED <<buffer, head, tail, kind, written, starts>>

Next ==
    \/ \E n \in 1 .. MaxChunk : Enq(n)
    \/ \E r \in Readers :
          \/ \E k \in {"polled", "stream"} : Open(r, k)
          \/ Close(r)
          \/ \E size \in {-1} \cup 1 .. MaxSize : Deq(r, size)
          \/ \E size \in 1 .. MaxSize : StreamRead(r, size)
    \/ Dispose

Spec == Init /\ [][Next]_vars

-----------------------------------------------------------------------------
\* Type invariant.
TypeOK ==
    /\ buffer \in [Slots -> Nat]
    /\ head \in {-1} \cup Slots
    /\ tail \in {-1} \cup Slots
    /\ readers \in [Readers -> {Absent, Drained} \cup Slots]
    /\ more \in [Readers -> BOOLEAN]
    /\ kind \in [Readers -> {"none", "polled", "stream", "closed"}]
    /\ written \in Nat
    /\ starts \subseteq Nat
    /\ out \in [Readers -> Seq([byte : Nat, as : {"written", "replaced"}])]
    /\ next \in [Readers -> Nat]

\* From the tail to the head, around the end of the buffer, lie exactly the
\* most recent bytes of the process, in the order they were written and as many
\* as fit: wrapping writes (enq) and the move of the tail (incTails) keep step.
HoldsNewestBytes ==
    /\ Size = IF written < MaxSize THEN written ELSE MaxSize
    /\ \A i \in 0 .. Size - 1 : buffer[(tail + i) % MaxSize] = written - Size + 1 + i

\* The bytes of a chunk, and the places where replacement characters stand for a
\* character that has all its bytes in the chunk.
BytesOf(chunk) == {chunk[i].byte : i \in 1 .. Len(chunk)}

Spoilt(chunk) == {i \in 1 .. Len(chunk) : chunk[i].as = "replaced" /\ Whole(starts, chunk[i].byte, BytesOf(chunk))}

\* What a reader receives is a run of consecutive bytes of the process.  It reads as
\* the text that was written, but for the characters that the chunk itself cuts and
\* for at most one more: that across the end of the buffer.
ChunksAreConsecutive ==
    \A r \in Readers :
        /\ \A i \in 2 .. Len(out[r]) : out[r][i].byte = out[r][i - 1].byte + 1
        /\ \A i, j \in Spoilt(out[r]) :
              \A first \in starts : ~(out[r][i].byte < first /\ first <= out[r][j].byte)

\* A stream whose consumer asked for more has nothing left to give it: data
\* never sits in the buffer while the terminal that shows it is waiting.
NoDataWhileWanted ==
    \A r \in Readers : kind[r] = "stream" /\ more[r] => readers[r] = Drained

\* A reader marked as drained has been given the newest byte: it does not wait for a
\* write while there is something to read.
DrainedSawNewest ==
    \A r \in Readers : readers[r] = Drained => next[r] = written + 1

\* A reader misses only bytes that were overwritten before it read them:
\* the next byte it gets is the first it was not given, or the oldest kept.
NothingSkipped ==
    \A r \in Readers :
        readers[r] >= 0 => buffer[readers[r]] <= next[r] \/ readers[r] = tail
=============================================================================
