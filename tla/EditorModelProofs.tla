------------------------- MODULE EditorModelProofs -------------------------
(***************************************************************************)
(* Theorems about EditorModel and their proofs, for every value of the      *)
(* bounds and both values of the modes.                                     *)
(***************************************************************************)
EXTENDS EditorModel, FiniteSetTheorems, SequenceTheorems, WellFoundedInduction, TLAPS

USE ModeAssumption, BoundAssumption

-----------------------------------------------------------------------------
(* The queue of operations. *)

\* A set of naturals has a least element: After picks one.
LEMMA LeastNat ==
    ASSUME NEW T \in SUBSET Nat, T # {}
    PROVE  \E x \in T : \A y \in T : x <= y
<1> DEFINE D == {1 .. x : x \in T}
<1>1. D \subseteq FiniteSubsetsOf(Nat) /\ D # {}
  <2>1. ASSUME NEW x \in T PROVE 1 .. x \subseteq Nat /\ IsFiniteSet(1 .. x)
    BY FS_Interval
  <2> QED BY <2>1 DEF FiniteSubsetsOf
<1>2. PICK d \in D : \A e \in D : <<e, d>> \notin StrictSubsetOrdering(Nat)
  <2> HIDE DEF D
  <2> QED BY <1>1, FS_StrictSubsetOrderingWellFounded, WFMin
<1>3. PICK x \in T : d = 1 .. x
  OBVIOUS
<1>4. ASSUME NEW y \in T, ~(x <= y) PROVE FALSE
  <2>1. y < x /\ 1 .. y \subseteq 1 .. x /\ x \in 1 .. x /\ x \notin 1 .. y  BY <1>4
  <2>2. 1 .. y # 1 .. x  BY <2>1
  <2>3. <<1 .. y, 1 .. x>> \in StrictSubsetOrdering(Nat)  BY <2>1, <2>2 DEF StrictSubsetOrdering
  <2> QED BY <2>3, <1>2, <1>3
<1> QED BY <1>4

\* What is left after the first n operations is the end of the queue.
LEMMA AfterIsSuffix ==
    ASSUME NEW q \in Seq(Ops), NEW n \in Nat, n <= Len(q)
    PROVE  \E turn \in n + 1 .. Len(q) + 1 : After(q, n) = SubSeq(q, turn, Len(q))
<1> DEFINE Turns == {i \in n + 1 .. Len(q) + 1 : i = Len(q) + 1 \/ q[i].live}
<1>1. Len(q) \in Nat
  BY LenProperties
<1>2. Turns \in SUBSET Nat /\ Len(q) + 1 \in Turns
  BY <1>1
<1>3. PICK turn \in Turns : \A j \in Turns : turn <= j
  <2> HIDE DEF Turns
  <2> QED BY <1>2, LeastNat
<1>4. \A j \in n + 1 .. turn - 1 : ~q[j].live
  BY <1>1, <1>3
<1>5. \E i \in n + 1 .. Len(q) + 1 :
          (i = Len(q) + 1 \/ q[i].live) /\ \A j \in n + 1 .. i - 1 : ~q[j].live
  BY <1>1, <1>3, <1>4
<1> QED BY <1>5 DEF After

LEMMA AfterType ==
    ASSUME NEW q \in Seq(Ops), NEW n \in Nat, n <= Len(q)
    PROVE  After(q, n) \in Seq(Ops)
<1>1. PICK turn \in n + 1 .. Len(q) + 1 : After(q, n) = SubSeq(q, turn, Len(q))
  BY AfterIsSuffix
<1>2. Len(q) \in Nat /\ turn \in Int /\ \A i \in turn .. Len(q) : q[i] \in Ops
  BY LenProperties, ElementOfSeq
<1> QED BY <1>1, <1>2, SubSeqProperties

\* Cancelling changes no operation but its token.
LEMMA CancelType ==
    ASSUME NEW q \in Seq(Ops), NEW kinds
    PROVE  /\ Cancel(q, kinds) \in Seq(Ops)
           /\ Len(Cancel(q, kinds)) = Len(q)
           /\ \A i \in 1 .. Len(q) : Cancel(q, kinds)[i].kind = q[i].kind
<1> DEFINE c == Cancel(q, kinds)
<1>1. Len(q) \in Nat /\ DOMAIN q = 1 .. Len(q)
  BY LenProperties
<1>2. ASSUME NEW i \in 1 .. Len(q)
      PROVE  c[i] \in Ops /\ c[i].kind = q[i].kind
  <2>1. q[i] \in Ops
    BY ElementOfSeq
  <2>2. c[i] = IF q[i].kind \in kinds THEN [q[i] EXCEPT !.live = FALSE] ELSE q[i]
    BY <1>1 DEF Cancel
  <2> QED BY <2>1, <2>2 DEF Ops
<1>3. c \in [1 .. Len(q) -> Ops]
  BY <1>1, <1>2 DEF Cancel
<1>4. c \in Seq(Ops)
  BY <1>1, <1>3, SeqDef
<1>5. Len(c) = Len(q)
  BY <1>1, <1>3, <1>4, LenProperties
<1> QED BY <1>2, <1>4, <1>5
\* The part of RunningOK that concerns the queue and the next step.
QueueOK ==
    /\ queue \in Seq(Ops)
    /\ pc \in Steps
    /\ pc = "idle" <=> queue = <<>>
    /\ queue # <<>> => (Head(queue).kind = "sync" <=> pc \in ReadSteps)

\* The part of RunningOK that concerns what an operation captured and was told.
ShotOK ==
    /\ shot \in [text : Nat, changes : Nat]
    /\ shot.changes <= Len(journal)
    /\ reply \in [result : Results, text : Nat, version : Nat]

LEMMA RunningParts == RunningOK <=> QueueOK /\ ShotOK
BY DEF RunningOK, QueueOK, ShotOK

LEMMA FirstStepType ==
    ASSUME NEW q \in Seq(Ops)
    PROVE  /\ FirstStep(q) \in Steps
           /\ FirstStep(q) = "idle" <=> q = <<>>
           /\ q # <<>> => (Head(q).kind = "sync" <=> FirstStep(q) \in ReadSteps)
BY DEF FirstStep, Steps, ReadSteps

\* A queue whose operations were cancelled is as good as before.
LEMMA CancelQueue ==
    ASSUME QueueOK, NEW kinds, queue' = Cancel(queue, kinds), pc' = pc
    PROVE  QueueOK'
<1>1. queue' \in Seq(Ops) /\ Len(queue') = Len(queue) /\ \A i \in 1 .. Len(queue) : queue'[i].kind = queue[i].kind
  BY CancelType DEF QueueOK
<1>2. queue' = <<>> <=> queue = <<>>
  BY <1>1, EmptySeq DEF QueueOK
<1>3. ASSUME queue # <<>> PROVE Head(queue').kind = Head(queue).kind
  <2>1. Len(queue) \in Nat \ {0} /\ 1 \in 1 .. Len(queue)
    BY <1>3, EmptySeq DEF QueueOK
  <2>2. Head(queue) = queue[1] /\ Head(queue') = queue'[1]
    BY <1>1, <1>2, <1>3 DEF QueueOK
  <2> QED BY <1>1, <2>1, <2>2
<1> QED BY <1>1, <1>2, <1>3 DEF QueueOK

\* An operation that is added takes its turn after those that are pending.
LEMMA RunQueue ==
    ASSUME QueueOK, NEW op \in Ops, Run(queue, op)
    PROVE  QueueOK'
<1>1. CASE queue = <<>>
  <2>1. queue' \in Seq(Ops)
    BY <1>1, AppendProperties DEF QueueOK, Run
  <2> QED BY <1>1, <2>1, FirstStepType DEF Run, QueueOK
<1>2. CASE queue # <<>>
  <2>1. queue' = Append(queue, op) /\ pc' = pc
    BY <1>2 DEF Run
  <2>2. queue' \in Seq(Ops) /\ queue' # <<>>
    BY <2>1, AppendProperties DEF QueueOK
  <2>3. Head(queue') = Head(queue)
    BY <1>2, <2>1, HeadTailAppend DEF QueueOK
  <2> QED BY <1>2, <2>1, <2>2, <2>3 DEF QueueOK
<1> QED BY <1>1, <1>2

LEMMA CancelRunQueue ==
    ASSUME QueueOK, NEW op \in Ops, NEW kinds, Run(Cancel(queue, kinds), op)
    PROVE  QueueOK'
<1> DEFINE q == Cancel(queue, kinds)
<1>1. q \in Seq(Ops) /\ Len(q) = Len(queue) /\ \A i \in 1 .. Len(queue) : q[i].kind = queue[i].kind
  BY CancelType DEF QueueOK
<1>2. q = <<>> <=> queue = <<>>
  BY <1>1, EmptySeq DEF QueueOK
<1>3. CASE q = <<>>
  <2>1. queue' \in Seq(Ops)
    BY <1>1, <1>3, AppendProperties DEF Run
  <2> QED BY <1>3, <2>1, FirstStepType DEF Run, QueueOK
<1>4. CASE q # <<>>
  <2>1. queue' = Append(q, op) /\ pc' = pc
    BY <1>4 DEF Run
  <2>2. queue' \in Seq(Ops) /\ queue' # <<>> /\ Head(queue') = Head(q)
    BY <1>1, <1>4, <2>1, AppendProperties, HeadTailAppend
  <2>3. 1 \in 1 .. Len(queue) /\ Head(queue) = queue[1] /\ Head(q) = q[1]
    BY <1>1, <1>2, <1>4, EmptySeq DEF QueueOK
  <2> QED BY <1>1, <1>2, <1>4, <2>1, <2>2, <2>3 DEF QueueOK
<1> QED BY <1>3, <1>4

\* The next operation to take its turn starts with its first step.
LEMMA FinishQueue ==
    ASSUME QueueOK, queue # <<>>, NEW alt, NEW isDirty, NEW savedId, Finish(alt, isDirty, savedId)
    PROVE  QueueOK'
<1>1. queue' \in Seq(Ops)
  BY EmptySeq, AfterType DEF QueueOK, Finish
<1> QED BY <1>1, FirstStepType DEF Finish, QueueOK

\* A step of the running operation to another step of its kind.
LEMMA GotoQueue ==
    ASSUME QueueOK, queue # <<>>, NEW step \in Steps \ {"idle"}, Goto(step),
           step \in ReadSteps <=> pc \in ReadSteps
    PROVE  QueueOK'
BY DEF QueueOK, Goto
-----------------------------------------------------------------------------
(* Type correctness, one lemma for each group of actions. *)

LEMMA UsedType ==
    ASSUME FlagsOK, NEW b \in Bounds, Spend(b)
    PROVE  used' \in [Bounds -> Nat]
BY DEF FlagsOK, Spend

LEMMA RecordType ==
    ASSUME TypeOK, NEW to \in Nat, Record(to)
    PROVE  journal' \in Seq([from : Nat, to : Nat]) /\ Len(journal') = Len(journal) + 1
<1>1. [from |-> buffer.text, to |-> to] \in [from : Nat, to : Nat]
  BY DEF TypeOK, TextOK
<1> QED BY <1>1, AppendProperties DEF Record, TypeOK, TextOK

LEMMA PastType ==
    ASSUME TypeOK, past # <<>>
    PROVE  Last(past) \in [text : Nat, alt : Nat] /\ Front(past) \in Seq([text : Nat, alt : Nat])
<1> DEFINE States == [text : Nat, alt : Nat]
<1>1. past \in Seq(States)
  BY DEF TypeOK, TextOK
<1> HIDE DEF States
<1>2. Len(past) \in Nat \ {0}
  BY <1>1, EmptySeq
<1>3. \A i \in 1 .. Len(past) : past[i] \in States
  BY <1>1, ElementOfSeq
<1>4. Last(past) \in States
  BY <1>2, <1>3 DEF Last
<1>5. SubSeq(past, 1, Len(past) - 1) \in Seq(States)
  BY <1>2, <1>3, SubSeqProperties
<1> QED BY <1>4, <1>5 DEF Front, States

LEMMA MarkAsDirtyType ==
    ASSUME TypeOK, MarkAsDirty, pc' = pc
    PROVE  dirty' \in BOOLEAN /\ timer' \in {"none", "live", "cancelled"} /\ QueueOK'
<1>1. QueueOK
  BY RunningParts DEF TypeOK
<1> QED BY <1>1, CancelQueue DEF MarkAsDirty, TypeOK, FlagsOK

\* Typing and undoing.
LEMMA EditType ==
    ASSUME TypeOK, Type \/ Undo
    PROVE  TypeOK'
<1>1. CASE Type
  <2>1. FileOK'
    BY <1>1 DEF Type, TypeOK, FileOK, file, resource
  <2>2. Len(journal) \in Nat /\ journal' \in Seq([from : Nat, to : Nat]) /\ Len(journal') = Len(journal) + 1
    BY <1>1, RecordType, LenProperties DEF Type, TypeOK, TextOK
  <2>3. past' \in Seq([text : Nat, alt : Nat])
    BY <1>1, AppendProperties DEF Type, TypeOK, TextOK
  <2>4. TextOK'
    BY <1>1, <2>2, <2>3 DEF Type, TypeOK, TextOK
  <2>5. dirty' \in BOOLEAN /\ timer' \in {"none", "live", "cancelled"} /\ QueueOK'
    BY <1>1, MarkAsDirtyType DEF Type
  <2>6. used' \in [Bounds -> Nat]
    BY <1>1, UsedType DEF Type, TypeOK, Bounds
  <2>7. FlagsOK'
    BY <1>1, <2>5, <2>6 DEF Type, TypeOK, FlagsOK
  <2>8. ShotOK'
    BY <1>1, <2>2, RunningParts DEF Type, TypeOK, ShotOK
  <2> QED BY <2>1, <2>4, <2>5, <2>7, <2>8, RunningParts DEF TypeOK, RunningOK, QueueOK, ShotOK
<1>2. CASE Undo
  <2>1. FileOK'
    BY <1>2 DEF Undo, TypeOK, FileOK, file, resource
  <2>2. buffer' \in [text : Nat, alt : Nat] /\ past' \in Seq([text : Nat, alt : Nat])
    BY <1>2, PastType DEF Undo
  <2>3. Len(journal) \in Nat /\ journal' \in Seq([from : Nat, to : Nat]) /\ Len(journal') = Len(journal) + 1
    BY <1>2, <2>2, RecordType, LenProperties DEF Undo, TypeOK, TextOK
  <2>4. TextOK'
    BY <1>2, <2>2, <2>3 DEF Undo, TypeOK, TextOK
  <2>5. dirty' \in BOOLEAN /\ timer' \in {"none", "live", "cancelled"} /\ QueueOK'
    <3>1. CASE MarkAsDirty
      BY <1>2, <3>1, MarkAsDirtyType DEF Undo
    <3>2. CASE dirty' = FALSE /\ UNCHANGED <<queue, timer>>
      BY <1>2, <3>2, RunningParts DEF Undo, TypeOK, FlagsOK, QueueOK
    <3> QED BY <1>2, <3>1, <3>2 DEF Undo
  <2>6. used' \in [Bounds -> Nat]
    BY <1>2, UsedType DEF Undo, TypeOK, Bounds
  <2>7. FlagsOK'
    BY <1>2, <2>5, <2>6 DEF Undo, TypeOK, FlagsOK
  <2>8. ShotOK'
    BY <1>2, <2>3, RunningParts DEF Undo, TypeOK, ShotOK
  <2> QED BY <2>1, <2>4, <2>5, <2>7, <2>8 DEF TypeOK, RunningOK, QueueOK, ShotOK
<1> QED BY <1>1, <1>2
LEMMA SyncOpType == \A revert \in {"no", "clean", "dirty"} : SyncOp(revert) \in Ops
BY DEF SyncOp, Op, Ops

LEMMA SaveOpType == \A live \in BOOLEAN, auto \in BOOLEAN : SaveOp(live, auto) \in Ops
BY DEF SaveOp, Op, Ops

\* Save, the auto save timer, revert and dispose.
LEMMA CallType ==
    ASSUME TypeOK, Save \/ AutoSaveTimer \/ RevertSoft \/ Revert \/ Dispose
    PROVE  TypeOK'
<1>1. QueueOK /\ ShotOK /\ FlagsOK
  BY RunningParts DEF TypeOK
<1>2. CASE Save
  <2>1. QueueOK'
    BY <1>1, <1>2, SaveOpType, CancelRunQueue DEF Save
  <2>2. used' \in [Bounds -> Nat]
    BY <1>1, <1>2, UsedType DEF Save, Bounds
  <2>3. FlagsOK'
    BY <1>2, <2>2 DEF Save, CancelledTimer, TypeOK, FlagsOK, flags
  <2>4. FileOK' /\ TextOK' /\ ShotOK'
    BY <1>1, <1>2 DEF Save, TypeOK, FileOK, TextOK, ShotOK, file, resource, text
  <2> QED BY <2>1, <2>3, <2>4 DEF TypeOK, RunningOK, QueueOK, ShotOK
<1>3. CASE AutoSaveTimer
  <2>1. QueueOK'
    BY <1>1, <1>3, SaveOpType, RunQueue DEF AutoSaveTimer
  <2>2. FlagsOK'
    BY <1>3 DEF AutoSaveTimer, TypeOK, FlagsOK, flags
  <2>3. FileOK' /\ TextOK' /\ ShotOK'
    BY <1>1, <1>3 DEF AutoSaveTimer, TypeOK, FileOK, TextOK, ShotOK, file, resource, text
  <2> QED BY <2>1, <2>2, <2>3 DEF TypeOK, RunningOK, QueueOK, ShotOK
<1>4. CASE RevertSoft
  <2>1. QueueOK'
    BY <1>1, <1>4, CancelQueue DEF RevertSoft
  <2>2. used' \in [Bounds -> Nat]
    BY <1>1, <1>4, UsedType DEF RevertSoft, Bounds
  <2>3. FlagsOK'
    BY <1>4, <2>2 DEF RevertSoft, CancelledTimer, TypeOK, FlagsOK, TextOK
  <2>4. FileOK' /\ TextOK' /\ ShotOK'
    BY <1>1, <1>4 DEF RevertSoft, TypeOK, FileOK, TextOK, ShotOK, file, resource, text
  <2> QED BY <2>1, <2>3, <2>4 DEF TypeOK, RunningOK, QueueOK, ShotOK
<1>5. CASE Revert
  <2>1. QueueOK'
    BY <1>1, <1>5, SyncOpType, CancelRunQueue DEF Revert
  <2>2. used' \in [Bounds -> Nat]
    BY <1>1, <1>5, UsedType DEF Revert, Bounds
  <2>3. FlagsOK'
    BY <1>5, <2>2 DEF Revert, CancelledTimer, TypeOK, FlagsOK
  <2>4. FileOK' /\ TextOK' /\ ShotOK'
    BY <1>1, <1>5 DEF Revert, TypeOK, FileOK, TextOK, ShotOK, file, resource, text
  <2> QED BY <2>1, <2>3, <2>4 DEF TypeOK, RunningOK, QueueOK, ShotOK
<1>6. CASE Dispose
  <2>1. QueueOK'
    BY <1>1, <1>6, CancelQueue DEF Dispose
  <2>2. FileOK' /\ TextOK' /\ FlagsOK' /\ ShotOK'
    BY <1>1, <1>6 DEF Dispose, TypeOK, FileOK, TextOK, FlagsOK, ShotOK, NoStat, text, flags
  <2> QED BY <2>1, <2>2 DEF TypeOK, RunningOK, QueueOK, ShotOK
<1> QED BY <1>2, <1>3, <1>4, <1>5, <1>6

\* Events of the file, and its changes by other programs.
LEMMA FileEventType ==
    ASSUME TypeOK, Notify \/ Stated \/ External
    PROVE  TypeOK'
<1>1. QueueOK /\ ShotOK /\ FlagsOK
  BY RunningParts DEF TypeOK
<1>2. CASE Notify
  <2>1. FileOK'
    BY <1>2 DEF Notify, TypeOK, FileOK, Absent
  <2> QED BY <1>2, <2>1 DEF Notify, TypeOK, TextOK, FlagsOK, RunningOK, text, flags, running
<1>3. CASE Stated
  <2>1. QueueOK'
    <3>1. CASE UNCHANGED <<queue, pc>>
      BY <1>1, <3>1 DEF QueueOK
    <3>2. CASE Run(Cancel(queue, {"sync"}), SyncOp("no"))
      BY <1>1, <3>2, SyncOpType, CancelRunQueue
    <3> QED BY <1>3, <3>1, <3>2 DEF Stated
  <2>2. FileOK' /\ TextOK' /\ FlagsOK' /\ ShotOK'
    BY <1>1, <1>3 DEF Stated, TypeOK, FileOK, TextOK, FlagsOK, ShotOK, NoStat, file, text, flags
  <2> QED BY <2>1, <2>2 DEF TypeOK, RunningOK, QueueOK, ShotOK
<1>4. CASE External
  <2>1. used' \in [Bounds -> Nat]
    BY <1>1, <1>4, UsedType DEF External, Bounds
  <2>2. FlagsOK' /\ TextOK'
    <3>1. fresh' \in Nat /\ doubtful' \in SUBSET Nat
      BY <1>4 DEF External, TypeOK, TextOK
    <3> QED BY <1>4, <2>1, <3>1 DEF External, TypeOK, TextOK, FlagsOK, text, flags
  <2>3. disk' \in [text : Nat, version : Nat]
    <3>1. disk \in [text : Nat, version : Nat] /\ fresh \in Nat /\ disk.version + 1 \in Nat
      BY DEF TypeOK, FileOK, TextOK
    <3>2. [text |-> fresh, version |-> disk.version + 1] \in [text : Nat, version : Nat]
      BY <3>1
    <3>3. [disk EXCEPT !.text = Absent] \in [text : Nat, version : Nat]
      BY <3>1 DEF Absent
    <3> QED BY <1>4, <3>2, <3>3 DEF External
  <2>4. FileOK'
    BY <1>4, <2>3 DEF External, TypeOK, FileOK, FlagsOK, resource
  <2>5. RunningOK'
    BY <1>4 DEF External, TypeOK, RunningOK, running, text
  <2> QED BY <2>2, <2>4, <2>5 DEF TypeOK
<1> QED BY <1>2, <1>3, <1>4
\* The answer of the file service to a request, and what it leaves on disk.
LEMMA RequestType ==
    ASSUME TypeOK,
           \/ \E content \in Nat : Overwrite(content)
           \/ \E answer \in [result : Results, text : Nat, version : Nat] : Answer(answer)
           \/ Fail
    PROVE  /\ disk' \in [text : Nat, version : Nat]
           /\ changed' \in BOOLEAN
           /\ known' \in SUBSET Nat
           /\ doubtful' \in SUBSET Nat
           /\ reply' \in [result : Results, text : Nat, version : Nat]
           /\ used' \in [Bounds -> Nat]
<1>1. disk \in [text : Nat, version : Nat] /\ FlagsOK /\ disposed \in BOOLEAN /\ changed \in BOOLEAN
  BY DEF TypeOK, FileOK, FlagsOK
<1>2. known \in SUBSET Nat /\ doubtful \in SUBSET Nat /\ used \in [Bounds -> Nat]
  BY <1>1 DEF TypeOK, TextOK, FlagsOK
<1>3. CASE \E content \in Nat : Overwrite(content)
  <2>1. PICK content \in Nat : Overwrite(content)
    BY <1>3
  <2>2. disk' \in [text : Nat, version : Nat]
    BY <1>1, <2>1 DEF Overwrite
  <2>3. reply' \in [result : Results, text : Nat, version : Nat]
    BY <2>1 DEF Overwrite, NoReply, Results
  <2> QED BY <1>1, <1>2, <2>1, <2>2, <2>3 DEF Overwrite
<1>4. CASE \E answer \in [result : Results, text : Nat, version : Nat] : Answer(answer)
  BY <1>1, <1>2, <1>4 DEF Answer, file
<1>5. CASE Fail
  <2>1. used' \in [Bounds -> Nat]
    BY <1>1, <1>5, UsedType DEF Fail, Bounds
  <2>2. reply' \in [result : Results, text : Nat, version : Nat]
    BY <1>5 DEF Fail, NoReply, Results
  <2> QED BY <1>1, <1>2, <1>5, <2>1, <2>2 DEF Fail, file
<1> QED BY <1>3, <1>4, <1>5

\* A request that is refused says so in an answer of the right form.
LEMMA RejectType ==
    ASSUME NEW result \in Results, Reject(result)
    PROVE  \E answer \in [result : Results, text : Nat, version : Nat] : Answer(answer)
<1>1. [NoReply EXCEPT !.result = result] \in [result : Results, text : Nat, version : Nat]
  BY DEF NoReply
<1> QED BY <1>1 DEF Reject

\* The end of an operation.
LEMMA FinishType ==
    ASSUME TypeOK, queue # <<>>, NEW alt \in Nat, NEW isDirty \in BOOLEAN, NEW savedId \in Nat,
           Finish(alt, isDirty, savedId),
           journal' \in Seq([from : Nat, to : Nat])
    PROVE  QueueOK' /\ ShotOK' /\ dirty' \in BOOLEAN /\ saved' \in Nat
<1>1. QueueOK'
  BY FinishQueue, RunningParts DEF TypeOK
<1>2. Len(journal') \in Nat
  BY LenProperties
<1>3. shot' = NoShot /\ reply' = NoReply
  BY DEF Finish
<1>4. ShotOK'
  BY <1>2, <1>3 DEF ShotOK, NoShot, NoReply, Results
<1>5. dirty' \in BOOLEAN /\ saved' \in Nat
  BY DEF Finish
<1> QED BY <1>1, <1>4, <1>5

\* Each step of an operation is taken while the operation is at the head.
LEMMA RunningStep ==
    ASSUME TypeOK, pc # "idle"
    PROVE  queue # <<>> /\ QueueOK /\ Head(queue) \in Ops /\ Head(queue).live \in BOOLEAN
<1>1. QueueOK /\ queue # <<>>
  BY RunningParts DEF TypeOK, QueueOK
<1>2. Head(queue) \in Ops
  BY <1>1, HeadTailProperties DEF QueueOK
<1> QED BY <1>1, <1>2 DEF Ops

LEMMA ReadType ==
    ASSUME TypeOK, Read \/ ReadRest \/ ReadDone
    PROVE  TypeOK'
<1>1. QueueOK /\ ShotOK /\ queue # <<>>
  BY RunningParts, RunningStep DEF TypeOK, Read, ReadRest, ReadDone
<1>2. CASE Read \/ ReadRest
  <2>1. (\E answer \in [result : Results, text : Nat, version : Nat] : Answer(answer)) \/ Fail
    <3>1. disk.text \in Nat /\ disk.version \in Nat /\ reply.text \in Nat /\ reply.version \in Nat
      BY <1>1 DEF TypeOK, FileOK, ShotOK
    <3>2. /\ [NoReply EXCEPT !.version = disk.version] \in [result : Results, text : Nat, version : Nat]
          /\ [NoReply EXCEPT !.text = disk.text] \in [result : Results, text : Nat, version : Nat]
      BY <3>1 DEF NoReply, Results
    <3>3. [result |-> "ok",
           text |-> IF reply.text = 0 THEN disk.text ELSE reply.text,
           version |-> IF reply.text = 0 THEN reply.version ELSE disk.version]
             \in [result : Results, text : Nat, version : Nat]
      BY <3>1 DEF Results
    <3>4. "notFound" \in Results
      BY DEF Results
    <3>5. CASE Read
      BY <3>2, <3>4, <3>5, RejectType DEF Read
    <3>6. CASE ReadRest
      BY <3>3, <3>4, <3>6, RejectType DEF ReadRest
    <3> QED BY <1>2, <3>5, <3>6
  <2>2. disk' \in [text : Nat, version : Nat] /\ changed' \in BOOLEAN /\ known' \in SUBSET Nat
        /\ doubtful' \in SUBSET Nat
        /\ reply' \in [result : Results, text : Nat, version : Nat] /\ used' \in [Bounds -> Nat]
    BY <2>1, RequestType
  <2>3. QueueOK'
    BY <1>1, <1>2, GotoQueue DEF Read, ReadRest, Steps, ReadSteps
  <2>4. FileOK' /\ TextOK'
    BY <1>2, <2>2 DEF Read, ReadRest, TypeOK, FileOK, TextOK, resource, text
  <2>5. FlagsOK'
    BY <1>2, <2>2 DEF Read, ReadRest, TypeOK, FlagsOK, flags
  <2>6. ShotOK'
    BY <1>1, <1>2, <2>2 DEF Read, ReadRest, ShotOK, text
  <2> QED BY <2>3, <2>4, <2>5, <2>6 DEF TypeOK, RunningOK, QueueOK, ShotOK
<1>3. CASE ReadDone
  <2>1. reply.text \in Nat /\ reply.version \in Nat /\ fresh \in Nat /\ ver \in Nat /\ rver \in Nat
        /\ known \in SUBSET Nat /\ dirty \in BOOLEAN /\ saved \in Nat /\ valid \in BOOLEAN
        /\ buffer \in [text : Nat, alt : Nat] /\ past \in Seq([text : Nat, alt : Nat])
    BY <1>1 DEF ShotOK, TypeOK, FileOK, TextOK, FlagsOK
  <2>2. buffer' \in [text : Nat, alt : Nat] /\ past' \in Seq([text : Nat, alt : Nat])
    BY <1>3, <2>1, AppendProperties DEF ReadDone
  <2>3. ver' \in Nat /\ rver' \in Nat /\ valid' \in BOOLEAN /\ known' \in SUBSET Nat /\ fresh' \in Nat
    <3>1. ver' \in Nat
      BY <1>3, <2>1 DEF ReadDone
    <3>2. valid' \in BOOLEAN
      BY <1>3 DEF ReadDone
    <3>3. rver' \in Nat /\ known' \in SUBSET Nat
      BY <1>3, <2>1 DEF ReadDone
    <3>4. fresh' \in Nat
      BY <1>3, <2>1 DEF ReadDone
    <3> QED BY <3>1, <3>2, <3>3, <3>4
  <2>4. journal' \in Seq([from : Nat, to : Nat])
    BY <1>3 DEF ReadDone, TypeOK, TextOK
  <2>5. QueueOK' /\ ShotOK' /\ dirty' \in BOOLEAN /\ saved' \in Nat
    <3>1. Finish(buffer'.alt, dirty, saved) /\ buffer'.alt \in Nat
      BY <1>3, <2>2 DEF ReadDone
    <3> QED BY <1>1, <2>1, <2>4, <3>1, FinishType
  <2>6. FileOK' /\ TextOK'
    BY <1>3, <2>2, <2>3, <2>4 DEF ReadDone, TypeOK, FileOK, TextOK, file
  <2>7. FlagsOK'
    BY <1>3, <2>3, <2>5 DEF ReadDone, TypeOK, FlagsOK
  <2> QED BY <2>5, <2>6, <2>7 DEF TypeOK, RunningOK, QueueOK, ShotOK
<1> QED BY <1>2, <1>3
LEMMA WillSaveType ==
    ASSUME TypeOK, WillSave
    PROVE  TypeOK'
<1>1. QueueOK /\ ShotOK /\ FlagsOK /\ queue # <<>> /\ pc = "willSave"
  BY RunningParts, RunningStep DEF TypeOK, WillSave
<1>2. FileOK'
  BY DEF WillSave, TypeOK, FileOK, file, resource
<1>3. journal' \in Seq([from : Nat, to : Nat]) /\ used' \in [Bounds -> Nat] /\ TextOK'
  <2>1. CASE UNCHANGED <<text, fresh, used>>
    BY <2>1 DEF WillSave, TypeOK, TextOK, FlagsOK, text
  <2>2. CASE /\ Spend("format")
             /\ buffer' = [text |-> fresh, alt |-> fresh]
             /\ past' = <<>>
             /\ fresh' = fresh + 1
             /\ Record(fresh)
    <3>1. journal' \in Seq([from : Nat, to : Nat]) /\ fresh \in Nat
      BY <2>2, RecordType DEF TypeOK, TextOK
    <3>2. used' \in [Bounds -> Nat]
      BY <1>1, <2>2, UsedType DEF Bounds
    <3> QED BY <2>2, <3>1, <3>2 DEF WillSave, TypeOK, TextOK
  <2> QED BY <2>1, <2>2 DEF WillSave
<1>4. buffer' \in [text : Nat, alt : Nat] /\ Len(journal') \in Nat
  BY <1>3, LenProperties DEF TextOK
<1>5. QueueOK' /\ ShotOK' /\ dirty' \in BOOLEAN /\ saved' \in Nat
  <2>1. CASE Finish(buffer'.alt, dirty, saved)
    <3>1. buffer'.alt \in Nat /\ dirty \in BOOLEAN /\ saved \in Nat
      BY <1>1, <1>4 DEF FlagsOK
    <3> QED BY <1>1, <1>3, <2>1, <3>1, FinishType
  <2>2. CASE /\ shot' = [text |-> buffer'.text, changes |-> Len(journal')]
             /\ \E step \in (IF Incremental THEN {"update", "write"} ELSE {"write"}) : Goto(step)
             /\ UNCHANGED <<dirty, saved, reply>>
    <3>1. ShotOK' /\ dirty' \in BOOLEAN /\ saved' \in Nat
      BY <1>1, <1>4, <2>2 DEF ShotOK, FlagsOK
    <3>2. PICK step \in {"update", "write"} : Goto(step)
      BY <2>2
    <3>3. QueueOK'
      BY <1>1, <3>2, GotoQueue DEF Steps, ReadSteps
    <3> QED BY <3>1, <3>3
  <2> QED BY <2>1, <2>2 DEF WillSave
<1>6. FlagsOK'
  BY <1>1, <1>3, <1>5 DEF WillSave, FlagsOK
<1> QED BY <1>2, <1>3, <1>5, <1>6 DEF TypeOK, RunningOK, QueueOK, ShotOK

LEMMA UpdatedType ==
    ASSUME TypeOK, NEW content \in Nat
    PROVE  Updated(content) \in Nat
<1>1. ShotOK /\ fresh \in Nat /\ journal \in Seq([from : Nat, to : Nat])
  BY RunningParts DEF TypeOK, TextOK
<1>2. ASSUME shot.changes # 0 PROVE journal[shot.changes].to \in Nat
  <2>1. Len(journal) \in Nat /\ shot.changes \in Nat
    BY <1>1, LenProperties DEF ShotOK
  <2>2. shot.changes \in 1 .. Len(journal)
    BY <1>1, <1>2, <2>1 DEF ShotOK
  <2>3. journal[shot.changes] \in [from : Nat, to : Nat]
    BY <1>1, <2>2, ElementOfSeq
  <2> QED BY <2>3
<1> QED BY <1>1, <1>2 DEF Updated

\* The requests of a save.
LEMMA SaveRequestType ==
    ASSUME TypeOK, Update \/ Patch \/ Write \/ Put \/ Resolve
    PROVE  TypeOK'
<1>1. QueueOK /\ ShotOK /\ queue # <<>> /\ shot.text \in Nat
  BY RunningParts, RunningStep DEF TypeOK, Update, Patch, Write, Put, Resolve, ShotOK
<1>2. disk.text \in Nat /\ fresh \in Nat
  BY DEF TypeOK, FileOK, TextOK
<1>3. /\ disk' \in [text : Nat, version : Nat] /\ changed' \in BOOLEAN /\ known' \in SUBSET Nat
      /\ doubtful' \in SUBSET Nat
      /\ reply' \in [result : Results, text : Nat, version : Nat] /\ used' \in [Bounds -> Nat]
  <2>1. \/ \E content \in Nat : Overwrite(content)
        \/ \E answer \in [result : Results, text : Nat, version : Nat] : Answer(answer)
        \/ Fail
    <3>1. {"none", "failed", "conflict"} \subseteq Results
      BY DEF Results
    <3>2. CASE Update \/ Write
      BY <3>1, <3>2, RejectType DEF Update, Write
    <3>3. CASE Patch
      BY <1>2, <3>1, <3>3, UpdatedType, RejectType DEF Patch
    <3>4. CASE Put
      BY <1>1, <3>4 DEF Put
    <3>5. CASE Resolve
      <4>1. [result |-> "ok", text |-> 0, version |-> disk.version]
              \in [result : Results, text : Nat, version : Nat]
        BY DEF TypeOK, FileOK, Results
      <4> QED BY <3>1, <3>5, <4>1, RejectType DEF Resolve
    <3> QED BY <3>2, <3>3, <3>4, <3>5
  <2> QED BY <2>1, RequestType
<1>4. UNCHANGED <<stat, ver, buffer, past, journal, saved, dirty, valid, rver, timer, shot, disposed>>
  BY DEF Update, Patch, Write, Put, Resolve, resource, text, flags
<1>5. fresh' \in Nat
  BY <1>2 DEF Update, Patch, Write, Put, Resolve
<1>6. QueueOK'
  BY <1>1, GotoQueue DEF Update, Patch, Write, Put, Resolve, Steps, ReadSteps
<1>7. FileOK' /\ TextOK'
  BY <1>3, <1>4, <1>5 DEF TypeOK, FileOK, TextOK
<1>8. FlagsOK'
  BY <1>3, <1>4 DEF TypeOK, FlagsOK
<1>9. ShotOK'
  BY <1>1, <1>3, <1>4 DEF ShotOK
<1> QED BY <1>6, <1>7, <1>8, <1>9 DEF TypeOK, RunningOK, QueueOK, ShotOK

LEMMA AfterSaveType ==
    ASSUME TypeOK, queue # <<>>, ver' \in Nat, AfterSave
    PROVE  /\ journal' \in Seq([from : Nat, to : Nat])
           /\ QueueOK' /\ ShotOK' /\ dirty' \in BOOLEAN /\ saved' \in Nat
           /\ valid' \in BOOLEAN /\ rver' \in Nat
<1> DEFINE Changes == [from : Nat, to : Nat]
<1>1. journal \in Seq(Changes) /\ shot.changes \in Nat
  BY RunningParts DEF TypeOK, TextOK, ShotOK
<1>2. journal' \in Seq(Changes)
  <2> HIDE DEF Changes
  <2>1. Len(journal) \in Nat /\ shot.changes + 1 \in Int
        /\ \A i \in shot.changes + 1 .. Len(journal) : journal[i] \in Changes
    BY <1>1, LenProperties, ElementOfSeq
  <2>2. SubSeq(journal, shot.changes + 1, Len(journal)) \in Seq(Changes)
    BY <2>1, SubSeqProperties
  <2> QED BY <2>2 DEF AfterSave
<1>3. PICK isDirty \in BOOLEAN, savedId \in Nat : Finish(buffer.alt, isDirty, savedId)
  BY DEF AfterSave, TypeOK, TextOK, FlagsOK
<1>4. buffer.alt \in Nat
  BY DEF TypeOK, TextOK
<1>5. QueueOK' /\ ShotOK' /\ dirty' \in BOOLEAN /\ saved' \in Nat
  BY <1>2, <1>3, <1>4, FinishType
<1> QED BY <1>2, <1>5 DEF AfterSave

\* What a save does with the answer to a request.
LEMMA SaveDoneType ==
    ASSUME TypeOK, UpdateDone \/ WriteDone
    PROVE  TypeOK'
<1>1. QueueOK /\ ShotOK /\ queue # <<>> /\ reply.version \in Nat
  BY RunningParts, RunningStep DEF TypeOK, UpdateDone, WriteDone, ShotOK
<1>2. UNCHANGED <<disk, changed, stat, buffer, past, timer, disposed, fresh, used, known, doubtful>>
  BY DEF UpdateDone, WriteDone, file
<1>3. /\ ver' \in Nat /\ journal' \in Seq([from : Nat, to : Nat])
      /\ QueueOK' /\ ShotOK' /\ dirty' \in BOOLEAN /\ saved' \in Nat
      /\ valid' \in BOOLEAN /\ rver' \in Nat
  <2>1. CASE AfterSave
    <3>1. ver' \in Nat
      BY <1>1, <2>1 DEF UpdateDone, WriteDone, TypeOK, FileOK, AfterSave
    <3> QED BY <1>1, <2>1, <3>1, AfterSaveType
  <2>2. CASE UpdateDone /\ Goto("write") /\ UNCHANGED <<ver, journal, flags, shot, reply>>
    <3>1. QueueOK'
      BY <1>1, <2>2, GotoQueue DEF UpdateDone, Steps, ReadSteps
    <3>2. ShotOK'
      BY <1>1, <2>2 DEF ShotOK
    <3> QED BY <2>2, <3>1, <3>2 DEF TypeOK, FileOK, TextOK, FlagsOK, flags
  <2>3. CASE Finish(buffer.alt, dirty, saved) /\ UNCHANGED <<ver, journal, valid, rver>>
    <3>1. buffer.alt \in Nat /\ dirty \in BOOLEAN /\ saved \in Nat /\ journal' \in Seq([from : Nat, to : Nat])
      BY <2>3 DEF TypeOK, TextOK, FlagsOK
    <3>2. QueueOK' /\ ShotOK' /\ dirty' \in BOOLEAN /\ saved' \in Nat
      BY <1>1, <2>3, <3>1, FinishType
    <3> QED BY <2>3, <3>1, <3>2 DEF TypeOK, FileOK, FlagsOK
  <2> QED BY <2>1, <2>2, <2>3 DEF UpdateDone, WriteDone
<1>4. FileOK' /\ TextOK'
  BY <1>2, <1>3 DEF TypeOK, FileOK, TextOK
<1>5. FlagsOK'
  BY <1>2, <1>3 DEF TypeOK, FlagsOK
<1> QED BY <1>3, <1>4, <1>5 DEF TypeOK, RunningOK, QueueOK, ShotOK

LEMMA AskType ==
    ASSUME TypeOK, Ask
    PROVE  TypeOK'
<1>1. QueueOK /\ ShotOK /\ queue # <<>>
  BY RunningParts, RunningStep DEF TypeOK, Ask
<1>2. QueueOK' /\ ShotOK' /\ dirty' \in BOOLEAN /\ saved' \in Nat
  <2>1. CASE Goto("force") /\ UNCHANGED <<dirty, saved, shot, reply>>
    <3>1. QueueOK'
      BY <1>1, <2>1, GotoQueue DEF Ask, Steps, ReadSteps
    <3>2. ShotOK'
      BY <1>1, <2>1 DEF Ask, ShotOK, text
    <3> QED BY <2>1, <3>1, <3>2 DEF TypeOK, FlagsOK
  <2>2. CASE Finish(buffer.alt, dirty, saved)
    <3>1. buffer.alt \in Nat /\ dirty \in BOOLEAN /\ saved \in Nat /\ journal' \in Seq([from : Nat, to : Nat])
      BY DEF Ask, TypeOK, TextOK, FlagsOK, text
    <3> QED BY <1>1, <2>2, <3>1, FinishType
  <2> QED BY <2>1, <2>2 DEF Ask
<1>3. FileOK' /\ TextOK'
  BY DEF Ask, TypeOK, FileOK, TextOK, file, resource, text
<1>4. FlagsOK'
  BY <1>2 DEF Ask, TypeOK, FlagsOK
<1> QED BY <1>2, <1>3, <1>4 DEF TypeOK, RunningOK, QueueOK, ShotOK

\* Every reachable state is type correct: an operation runs exactly when one is
\* queued, at a step of its kind, and the changes a save has captured
\* (contentChanges in doSave) are still there when it drops them.
THEOREM TypeCorrect == Spec => []TypeOK
<1>1. Init => TypeOK
  <2> SUFFICES ASSUME Init PROVE TypeOK
    OBVIOUS
  <2>1. FileOK /\ FlagsOK
    BY DEF Init, FileOK, FlagsOK, NoStat
  <2>2. TextOK
    BY EmptySeq DEF Init, TextOK
  <2>3. RunningOK
    BY EmptySeq DEF Init, RunningOK, Steps, ReadSteps, NoShot, NoReply, Results
  <2> QED BY <2>1, <2>2, <2>3 DEF TypeOK
<1>2. TypeOK /\ [Next]_vars => TypeOK'
  <2> SUFFICES ASSUME TypeOK, [Next]_vars PROVE TypeOK'
    OBVIOUS
  <2>1. CASE UNCHANGED vars
    BY <2>1 DEF vars, file, resource, text, flags, running, TypeOK, FileOK, TextOK, FlagsOK, RunningOK
  <2>2. CASE Type \/ Undo
    BY <2>2, EditType
  <2>3. CASE Save \/ AutoSaveTimer \/ RevertSoft \/ Revert \/ Dispose
    BY <2>3, CallType
  <2>4. CASE Notify \/ Stated \/ External
    BY <2>4, FileEventType
  <2>5. CASE Step
    BY <2>5, ReadType, WillSaveType, SaveRequestType, SaveDoneType, AskType DEF Step
  <2> QED BY <2>1, <2>2, <2>3, <2>4, <2>5 DEF Next
<1> QED BY <1>1, <1>2, PTL DEF Spec
-----------------------------------------------------------------------------
(* The saved version is clean. *)

\* An operation that leaves the editor dirty leaves its saved version alone.
LEMMA FinishSaved ==
    ASSUME NEW alt, NEW isDirty, NEW savedId, Finish(alt, isDirty, savedId)
    PROVE  /\ saved' = alt \/ saved' = savedId
           /\ dirty' => isDirty /\ saved' = savedId
BY DEF Finish

LEMMA AfterSaveSaved ==
    ASSUME AfterSave
    PROVE  /\ saved' = buffer.alt \/ saved' = saved
           /\ dirty' => dirty /\ saved' = saved
<1>1. CASE Finish(buffer.alt, FALSE, IF dirty THEN buffer.alt ELSE saved)
  BY <1>1, FinishSaved
<1>2. CASE Finish(buffer.alt, dirty, saved)
  BY <1>2, FinishSaved
<1> QED BY <1>1, <1>2 DEF AfterSave

\* The undo stack after a push and after a pop.
LEMMA PushedPast ==
    ASSUME TypeOK, past' = Append(past, buffer)
    PROVE  \A i \in 1 .. Len(past') : past'[i] = buffer \/ \E j \in 1 .. Len(past) : past'[i] = past[j]
<1> DEFINE States == [text : Nat, alt : Nat]
<1>1. past \in Seq(States) /\ buffer \in States
  BY DEF TypeOK, TextOK
<1> HIDE DEF States
<1>2. Len(past) \in Nat /\ Len(past') = Len(past) + 1 /\ past'[Len(past) + 1] = buffer
      /\ \A i \in 1 .. Len(past) : past'[i] = past[i]
  BY <1>1, AppendProperties, LenProperties
<1> QED BY <1>2

LEMMA PoppedPast ==
    ASSUME TypeOK, past # <<>>
    PROVE  /\ \E j \in 1 .. Len(past) : Last(past) = past[j]
           /\ \A i \in 1 .. Len(Front(past)) : \E j \in 1 .. Len(past) : Front(past)[i] = past[j]
<1> DEFINE States == [text : Nat, alt : Nat]
<1>1. past \in Seq(States)
  BY DEF TypeOK, TextOK
<1> HIDE DEF States
<1>2. Len(past) \in Nat \ {0}
  BY <1>1, EmptySeq
<1>3. \A i \in 1 .. Len(past) : past[i] \in States
  BY <1>1, ElementOfSeq
<1> DEFINE n == Len(past) - 1
           front == SubSeq(past, 1, n)
<1>4. n \in Nat /\ \A i \in 1 .. n : past[i] \in States
  BY <1>2, <1>3
<1>5. Len(front) = IF 1 <= n THEN n - 1 + 1 ELSE 0
  BY <1>4, SubSeqProperties
<1>6. \A i \in 1 .. n - 1 + 1 : front[i] = past[1 + i - 1]
  <2> HIDE DEF n
  <2> QED BY <1>4, SubSeqProperties
<1>7. Len(front) = n /\ \A i \in 1 .. n : front[i] = past[i]
  <2> HIDE DEF n, front
  <2> QED BY <1>4, <1>5, <1>6
<1> QED BY <1>2, <1>7 DEF Last, Front

LEMMA PastIds == ASSUME TypeOK PROVE \A i \in 1 .. Len(past) : past[i].alt \in Nat
<1> SUFFICES ASSUME NEW i \in 1 .. Len(past) PROVE past[i].alt \in Nat
  OBVIOUS
<1>1. past[i] \in [text : Nat, alt : Nat]
  BY ElementOfSeq DEF TypeOK, TextOK
<1> QED BY <1>1

\* What a step does to the buffer, its undo stack and the flags: nothing,
\* a new state of the buffer, an undo, or a new content on disk only.
EditStep ==
    \/ /\ UNCHANGED <<buffer, past, fresh>>
       /\ saved' = buffer.alt \/ saved' = saved
       /\ dirty' => dirty /\ saved' = saved
    \/ /\ buffer'.alt = fresh
       /\ fresh' = fresh + 1
       /\ past' = Append(past, buffer) \/ past' = <<>>
       /\ saved' \in {fresh, saved}
       /\ dirty' => saved' = saved
    \/ /\ past # <<>>
       /\ buffer' = Last(past)
       /\ past' = Front(past)
       /\ UNCHANGED <<saved, fresh>>
       /\ buffer'.alt = saved => ~dirty'
    \/ /\ UNCHANGED <<buffer, past, saved, dirty>>
       /\ fresh' = fresh + 1

LEMMA EveryStepEdits ==
    ASSUME TypeOK, [Next]_vars
    PROVE  EditStep
<1>1. CASE Type
  BY <1>1 DEF Type, EditStep
<1>2. CASE Undo
  BY <1>2 DEF Undo, EditStep, MarkAsDirty
<1>3. CASE Save \/ AutoSaveTimer \/ RevertSoft \/ Revert \/ Dispose
  BY <1>3 DEF Save, AutoSaveTimer, RevertSoft, Revert, Dispose, EditStep, text, flags
<1>4. CASE Notify \/ Stated \/ External
  BY <1>4 DEF Notify, Stated, External, EditStep, text, flags
<1>5. CASE Read \/ ReadRest \/ Update \/ Write \/ Put \/ Resolve
  BY <1>5 DEF Read, ReadRest, Update, Write, Put, Resolve, EditStep, text, flags
<1>6. CASE Patch
  BY <1>6 DEF Patch, EditStep, text, flags
<1>7. CASE UpdateDone \/ WriteDone
  <2>1. CASE AfterSave
    BY <1>7, <2>1, AfterSaveSaved DEF UpdateDone, WriteDone, EditStep
  <2>2. CASE Finish(buffer.alt, dirty, saved)
    BY <1>7, <2>2, FinishSaved DEF UpdateDone, WriteDone, EditStep
  <2>3. CASE UNCHANGED flags
    BY <1>7, <2>3 DEF UpdateDone, WriteDone, EditStep, flags
  <2> QED BY <1>7, <2>1, <2>2, <2>3 DEF UpdateDone, WriteDone
<1>8. CASE Ask
  <2>1. CASE Finish(buffer.alt, dirty, saved)
    BY <1>8, <2>1, FinishSaved DEF Ask, EditStep, text
  <2>2. CASE UNCHANGED <<dirty, saved>>
    BY <1>8, <2>2 DEF Ask, EditStep, text
  <2> QED BY <1>8, <2>1, <2>2 DEF Ask
<1>9. CASE WillSave
  <2>1. /\ saved' = buffer'.alt \/ saved' = saved
        /\ dirty' => dirty /\ saved' = saved
    <3>1. CASE Finish(buffer'.alt, dirty, saved)
      BY <3>1, FinishSaved
    <3>2. CASE UNCHANGED <<dirty, saved>>
      BY <3>2
    <3> QED BY <1>9, <3>1, <3>2 DEF WillSave
  <2>2. CASE UNCHANGED <<text, fresh, used>>
    BY <2>1, <2>2 DEF EditStep, text
  <2>3. CASE buffer' = [text |-> fresh, alt |-> fresh] /\ past' = <<>> /\ fresh' = fresh + 1
    BY <2>1, <2>3 DEF EditStep
  <2> QED BY <1>9, <2>2, <2>3 DEF WillSave
<1>10. CASE ReadDone
  <2>1. /\ saved' = buffer'.alt \/ saved' = saved
        /\ dirty' => dirty /\ saved' = saved
    BY <1>10, FinishSaved DEF ReadDone
  <2>2. CASE reply.result = "ok" /\ Head(queue).live /\ ~dirty /\ reply.text # buffer.text
    BY <1>10, <2>1, <2>2 DEF ReadDone, EditStep
  <2>3. CASE UNCHANGED <<buffer, past, fresh>>
    BY <2>1, <2>3 DEF EditStep
  <2> QED BY <1>10, <2>2, <2>3 DEF ReadDone
<1>11. CASE UNCHANGED vars
  BY <1>11 DEF vars, text, flags, EditStep
<1> QED BY <1>1, <1>2, <1>3, <1>4, <1>5, <1>6, <1>7, <1>8, <1>9, <1>10, <1>11 DEF Next, Step

LEMMA EditStepIds ==
    ASSUME TypeOK, IdsInv, SavedVersionIsClean, EditStep
    PROVE  IdsInv' /\ SavedVersionIsClean'
<1>1. fresh \in Nat /\ buffer \in [text : Nat, alt : Nat] /\ saved \in Nat
  BY DEF TypeOK, TextOK, FlagsOK
<1>2. CASE /\ UNCHANGED <<buffer, past, fresh>>
           /\ saved' = buffer.alt \/ saved' = saved
           /\ dirty' => dirty /\ saved' = saved
  BY <1>2 DEF IdsInv, SavedVersionIsClean
<1>3. CASE /\ buffer'.alt = fresh
           /\ fresh' = fresh + 1
           /\ past' = Append(past, buffer) \/ past' = <<>>
           /\ saved' \in {fresh, saved}
           /\ dirty' => saved' = saved
  <2>1. CASE past' = Append(past, buffer)
    <3>1. \A i \in 1 .. Len(past') : past'[i] = buffer \/ \E j \in 1 .. Len(past) : past'[i] = past[j]
      BY <2>1, PushedPast
    <3>2. \A i \in 1 .. Len(past') : past'[i].alt < fresh
      BY <3>1 DEF IdsInv
    <3>3. \A i \in 1 .. Len(past') : past'[i].alt \in Nat
      BY <1>1, <3>1, PastIds
    <3> QED BY <1>1, <1>3, <3>2, <3>3 DEF IdsInv, SavedVersionIsClean
  <2>2. CASE past' = <<>>
    BY <1>1, <1>3, <2>2, EmptySeq DEF IdsInv, SavedVersionIsClean
  <2> QED BY <1>3, <2>1, <2>2
<1>4. CASE /\ past # <<>>
           /\ buffer' = Last(past)
           /\ past' = Front(past)
           /\ UNCHANGED <<saved, fresh>>
           /\ buffer'.alt = saved => ~dirty'
  <2>1. buffer'.alt < fresh /\ \A i \in 1 .. Len(past') : past'[i].alt < fresh
    BY <1>4, PoppedPast DEF IdsInv
  <2> QED BY <1>4, <2>1 DEF IdsInv, SavedVersionIsClean
<1>5. CASE /\ UNCHANGED <<buffer, past, saved, dirty>>
           /\ fresh' = fresh + 1
  <2>1. \A i \in 1 .. Len(past) : past[i].alt \in Nat
    BY PastIds
  <2> QED BY <1>1, <1>5, <2>1 DEF IdsInv, SavedVersionIsClean
<1> QED BY <1>2, <1>3, <1>4, <1>5 DEF EditStep

\* An editor at its saved version is not marked dirty (bufferSavedVersionId
\* in fireDidChangeContent and setDirty): every way back, by undo, save, revert
\* or reload, clears the flag.  Version ids are never used again (IdsInv), so
\* no other state of the buffer is mistaken for the saved one.
THEOREM CleanAtSavedVersion == Spec => []SavedVersionIsClean
<1>1. Init => IdsInv /\ SavedVersionIsClean
  BY EmptySeq DEF Init, IdsInv, SavedVersionIsClean
<1>2. TypeOK /\ IdsInv /\ SavedVersionIsClean /\ [Next]_vars => IdsInv' /\ SavedVersionIsClean'
  BY EveryStepEdits, EditStepIds
<1> QED BY <1>1, <1>2, TypeCorrect, PTL DEF Spec
-----------------------------------------------------------------------------
(* A save never conflicts with an earlier save. *)

Contents == 1 .. fresh - 1
RequestSteps == {"update", "patch", "patched", "updateDone", "write", "put", "ask", "force"}
StartSteps == {"idle", "read", "willSave"}

LEMMA FirstStepStarts == \A q : FirstStep(q) \in StartSteps
BY DEF FirstStep, StartSteps

\* A call makes a step only when nothing is running; an end starts the next.
LEMMA RunStarts ==
    ASSUME NEW q, NEW op, Run(q, op), q = <<>> => pc = "idle"
    PROVE  pc' = pc \/ (pc = "idle" /\ pc' \in StartSteps)
BY FirstStepStarts DEF Run

LEMMA FinishStarts ==
    ASSUME NEW alt, NEW isDirty, NEW savedId, Finish(alt, isDirty, savedId)
    PROVE  pc' \in StartSteps /\ shot' = NoShot /\ reply' = NoReply
BY FirstStepStarts DEF Finish

LEMMA AfterSaveStarts ==
    ASSUME AfterSave
    PROVE  pc' \in StartSteps /\ shot' = NoShot /\ reply' = NoReply
BY FinishStarts DEF AfterSave

LEMMA CancelEmpty ==
    ASSUME TypeOK, NEW kinds, Cancel(queue, kinds) = <<>>
    PROVE  pc = "idle"
<1>1. QueueOK
  BY RunningParts DEF TypeOK
<1>2. Len(Cancel(queue, kinds)) = Len(queue)
  BY <1>1, CancelType DEF QueueOK
<1> QED BY <1>1, <1>2, EmptySeq DEF QueueOK

\* The actions that leave the disk and what the editor knows of it alone; they
\* start the first operation at most.
CallStep ==
    /\ pc' = pc \/ (pc = "idle" /\ pc' \in StartSteps)
    /\ UNCHANGED <<disk, ver, rver, shot, reply, known, doubtful>>

LEMMA CallsStart ==
    ASSUME TypeOK,
           \/ Type \/ Undo \/ Save \/ Revert \/ RevertSoft \/ Dispose
           \/ AutoSaveTimer \/ Notify \/ Stated \/ UNCHANGED vars
    PROVE  CallStep
<1>1. queue = <<>> => pc = "idle"
  BY DEF TypeOK, RunningOK
<1>2. CASE Type \/ Undo
  BY <1>2 DEF Type, Undo, CallStep, file, resource
<1>3. CASE Save \/ Revert
  BY <1>3, RunStarts, CancelEmpty DEF Save, Revert, CallStep, file, resource, flags
<1>4. CASE RevertSoft \/ Dispose \/ Notify
  BY <1>4 DEF RevertSoft, Dispose, Notify, CallStep, file, resource, flags, running
<1>5. CASE AutoSaveTimer
  BY <1>1, <1>5, RunStarts DEF AutoSaveTimer, CallStep, file, resource, flags
<1>6. CASE Stated
  BY <1>6, RunStarts, CancelEmpty DEF Stated, CallStep, file, flags
<1>7. CASE UNCHANGED vars
  BY <1>7 DEF vars, file, resource, flags, running, CallStep
<1> QED BY <1>2, <1>3, <1>4, <1>5, <1>6, <1>7

\* What is recorded in the journal.
LEMMA RecordedTexts ==
    ASSUME TypeOK, NEW to \in Nat, Record(to)
    PROVE  \A i \in 1 .. Len(journal') : journal'[i].to = to \/ \E j \in 1 .. Len(journal) : journal'[i] = journal[j]
<1> DEFINE Changes == [from : Nat, to : Nat]
           change == [from |-> buffer.text, to |-> to]
<1>1. journal \in Seq(Changes) /\ change \in Changes /\ change.to = to
  BY DEF TypeOK, TextOK
<1>2. journal' = Append(journal, change)
  BY DEF Record
<1> HIDE DEF Changes, change
<1>3. Len(journal) \in Nat /\ Len(journal') = Len(journal) + 1 /\ journal'[Len(journal) + 1] = change
      /\ \A i \in 1 .. Len(journal) : journal'[i] = journal[i]
  BY <1>1, <1>2, AppendProperties, LenProperties
<1> QED BY <1>1, <1>3

LEMMA ShiftedIndex ==
    ASSUME NEW n \in Nat, NEW m \in Nat \ {0}, NEW len, len = IF m <= n THEN n - m + 1 ELSE 0,
           NEW i \in 1 .. len
    PROVE  i \in 1 .. n - m + 1 /\ m + i - 1 \in 1 .. n
OBVIOUS

LEMMA DroppedTexts ==
    ASSUME TypeOK, journal' = SubSeq(journal, shot.changes + 1, Len(journal))
    PROVE  \A i \in 1 .. Len(journal') : \E j \in 1 .. Len(journal) : journal'[i] = journal[j]
<1> DEFINE Changes == [from : Nat, to : Nat]
           n == Len(journal)
           m == shot.changes + 1
<1>1. journal \in Seq(Changes) /\ shot.changes \in Nat
  BY RunningParts DEF TypeOK, TextOK, ShotOK
<1> HIDE DEF Changes
<1>2. n \in Nat /\ m \in Nat \ {0} /\ \A i \in m .. n : journal[i] \in Changes
  BY <1>1, LenProperties, ElementOfSeq
<1> HIDE DEF m, n
<1>3. Len(SubSeq(journal, m, n)) = IF m <= n THEN n - m + 1 ELSE 0
  BY <1>2, SubSeqProperties
<1>4. \A i \in 1 .. n - m + 1 : SubSeq(journal, m, n)[i] = journal[m + i - 1]
  BY <1>2, SubSeqProperties
<1>5. journal' = SubSeq(journal, m, n)
  BY DEF m, n
<1>6. ASSUME NEW i, i \in 1 .. Len(journal')
      PROVE  m + i - 1 \in 1 .. n /\ journal'[i] = journal[m + i - 1]
  <2>1. Len(journal') = IF m <= n THEN n - m + 1 ELSE 0
    BY <1>3, <1>5
  <2>2. i \in 1 .. n - m + 1 /\ m + i - 1 \in 1 .. n
    BY <1>2, <1>6, <2>1, ShiftedIndex
  <2> QED BY <1>4, <1>5, <2>2
<1> QED BY <1>6 DEF n

LEMMA GrownInterval ==
    ASSUME NEW a \in Nat, NEW b \in Nat, a <= b
    PROVE  /\ 1 .. a - 1 \subseteq 1 .. b - 1
           /\ \A x \in 1 .. b - 1 : x \in Nat /\ x # 0 /\ x < b
           /\ \A x \in Nat : x < a => x < b
OBVIOUS

LEMMA FreshGrows ==
    ASSUME TypeOK, fresh' \in {fresh, fresh + 1}
    PROVE  /\ fresh' \in Nat
           /\ 1 .. fresh - 1 \subseteq 1 .. fresh' - 1
           /\ \A x \in 1 .. fresh' - 1 : x \in Nat /\ x # 0 /\ x < fresh'
           /\ \A x \in Nat : x < fresh => x < fresh'
<1>1. fresh \in Nat /\ fresh' \in Nat /\ fresh <= fresh'
  BY DEF TypeOK, TextOK
<1> QED BY <1>1, GrownInterval

LEMMA BelowInInterval == \A a \in Nat \ {0}, b \in Nat : a < b => a \in 1 .. b - 1
OBVIOUS

\* The contents in the undo stack and in the journal stay old.
LEMMA StacksKept ==
    ASSUME TypeOK, TextsInv, fresh' \in {fresh, fresh + 1},
           \/ past' = past \/ past' = <<>> \/ past' = Append(past, buffer)
           \/ past # <<>> /\ past' = Front(past),
           \/ journal' = journal
           \/ journal' = SubSeq(journal, shot.changes + 1, Len(journal))
           \/ \E to \in 1 .. fresh' - 1 : Record(to)
    PROVE  /\ \A i \in 1 .. Len(past') : past'[i].text \in 1 .. fresh' - 1
           /\ \A i \in 1 .. Len(journal') : journal'[i].to \in 1 .. fresh' - 1
<1>1. fresh \in Nat
  BY DEF TypeOK, TextOK
<1>2. \A i \in 1 .. Len(past') : past'[i].text \in 1 .. fresh' - 1
  <2>1. CASE past' = past
    BY <1>1, <2>1 DEF TextsInv
  <2>2. CASE past' = <<>>
    BY <2>2, EmptySeq
  <2>3. CASE past' = Append(past, buffer)
    <3>1. \A i \in 1 .. Len(past') : past'[i].text \in 1 .. fresh - 1
      BY <2>3, PushedPast DEF TextsInv
    <3> QED BY <1>1, <3>1
  <2>4. CASE past # <<>> /\ past' = Front(past)
    <3>1. \A i \in 1 .. Len(past') : past'[i].text \in 1 .. fresh - 1
      BY <2>4, PoppedPast DEF TextsInv
    <3> QED BY <1>1, <3>1
  <2> QED BY <2>1, <2>2, <2>3, <2>4
<1>3. \A i \in 1 .. Len(journal') : journal'[i].to \in 1 .. fresh' - 1
  <2>1. CASE journal' = journal
    BY <1>1, <2>1 DEF TextsInv
  <2>2. CASE journal' = SubSeq(journal, shot.changes + 1, Len(journal))
    <3>1. \A i \in 1 .. Len(journal') : journal'[i].to \in 1 .. fresh - 1
      BY <2>2, DroppedTexts DEF TextsInv
    <3> QED BY <1>1, <3>1
  <2>3. ASSUME NEW to, to \in 1 .. fresh' - 1, Record(to)
        PROVE  \A i \in 1 .. Len(journal') : journal'[i].to \in 1 .. fresh' - 1
    <3>1. to \in Nat /\ 1 .. fresh - 1 \subseteq 1 .. fresh' - 1
      BY <1>1, <2>3, FreshGrows
    <3>2. \A i \in 1 .. Len(journal') : journal'[i].to = to \/ \E j \in 1 .. Len(journal) : journal'[i] = journal[j]
      BY <2>3, <3>1, RecordedTexts
    <3>3. \A j \in 1 .. Len(journal) : journal[j].to \in 1 .. fresh - 1
      BY DEF TextsInv
    <3> QED BY <2>3, <3>1, <3>2, <3>3
  <2> QED BY <2>1, <2>2, <2>3
<1> QED BY <1>2, <1>3
\* The actions that change neither stack.
LEMMA SameStacks ==
    ASSUME TypeOK, TextsInv, fresh' \in {fresh, fresh + 1}, UNCHANGED <<past, journal>>
    PROVE  /\ \A i \in 1 .. Len(past') : past'[i].text \in 1 .. fresh' - 1
           /\ \A i \in 1 .. Len(journal') : journal'[i].to \in 1 .. fresh' - 1
BY StacksKept

LEMMA OlderContents ==
    ASSUME TypeOK, TextsInv, fresh' \in {fresh, fresh + 1}
    PROVE  known \subseteq 1 .. fresh' - 1 /\ disk.text < fresh' /\ \A t \in doubtful : t < fresh'
<1>1. fresh \in Nat /\ disk.text \in Nat /\ doubtful \in SUBSET Nat
  BY DEF TypeOK, TextOK, FileOK
<1>2. 1 .. fresh - 1 \subseteq 1 .. fresh' - 1 /\ \A x \in Nat : x < fresh => x < fresh'
  BY FreshGrows
<1>3. known \subseteq 1 .. fresh - 1 /\ disk.text < fresh /\ \A t \in doubtful : t < fresh
  BY DEF TextsInv
<1> QED BY <1>1, <1>2, <1>3

LEMMA TextsOfCalls ==
    ASSUME TypeOK, TextsInv,
           \/ Type \/ Undo \/ Save \/ Revert \/ RevertSoft \/ Dispose
           \/ AutoSaveTimer \/ Notify \/ Stated \/ UNCHANGED vars
    PROVE  TextsInv'
<1>1. CallStep
  BY CallsStart
<1>2. fresh \in Nat /\ known \in SUBSET Nat /\ disk.text \in Nat /\ reply.text \in Nat /\ shot.text \in Nat
  BY RunningParts DEF TypeOK, TextOK, FileOK, ShotOK
<1>3. /\ buffer'.text \in 1 .. fresh' - 1
      /\ fresh' \in {fresh, fresh + 1}
      /\ \A i \in 1 .. Len(past') : past'[i].text \in 1 .. fresh' - 1
      /\ \A i \in 1 .. Len(journal') : journal'[i].to \in 1 .. fresh' - 1
  <2>1. CASE Type
    <3>1. buffer'.text = fresh /\ fresh' = fresh + 1 /\ past' = Append(past, buffer) /\ Record(fresh)
      BY <2>1 DEF Type
    <3>2. fresh \in 1 .. fresh' - 1
      BY <1>2, <3>1 DEF TextsInv
    <3> QED BY <3>1, <3>2, StacksKept
  <2>2. CASE Undo
    <3>1. past # <<>> /\ buffer' = Last(past) /\ past' = Front(past) /\ fresh' = fresh /\ Record(buffer'.text)
      BY <2>2 DEF Undo
    <3>2. buffer'.text \in 1 .. fresh - 1
      BY <3>1, PoppedPast DEF TextsInv
    <3> QED BY <3>1, <3>2, StacksKept
  <2>3. CASE \/ Save \/ Revert \/ RevertSoft \/ Dispose \/ AutoSaveTimer
             \/ Notify \/ Stated \/ UNCHANGED vars
    <3>1. UNCHANGED <<buffer, past, journal, fresh>>
      BY <2>3 DEF Save, Revert, RevertSoft, Dispose, AutoSaveTimer, Notify, Stated, vars, text
    <3> QED BY <3>1, SameStacks DEF TextsInv
  <2> QED BY <2>1, <2>2, <2>3
<1>4. known' \subseteq 1 .. fresh' - 1
  BY <1>1, <1>2, <1>3, FreshGrows DEF CallStep, TextsInv
<1>5. disk'.text < fresh' /\ reply'.text < fresh' /\ shot'.text < fresh'
  BY <1>1, <1>2, <1>3 DEF CallStep, TextsInv
<1>6. pc' \in RequestSteps => shot'.text # 0
  BY <1>1 DEF CallStep, TextsInv, RequestSteps, StartSteps
<1>7. pc' = "readDone" /\ reply'.result = "ok" => reply'.text # 0
  BY <1>1 DEF CallStep, TextsInv, StartSteps
<1>8. \A t \in doubtful' : t < fresh'
  BY <1>1, <1>3, OlderContents DEF CallStep
<1> QED BY <1>3, <1>4, <1>5, <1>6, <1>7, <1>8 DEF TextsInv, RequestSteps

LEMMA TextsOfExternal ==
    ASSUME TypeOK, TextsInv, External
    PROVE  TextsInv'
<1>1. fresh \in Nat /\ known \in SUBSET Nat /\ disk.text \in Nat /\ reply.text \in Nat /\ shot.text \in Nat
      /\ buffer.text \in Nat /\ disk \in [text : Nat, version : Nat]
  BY RunningParts DEF TypeOK, TextOK, FileOK, ShotOK
<1>2. UNCHANGED <<buffer, past, journal, pc, shot, reply, known>>
  BY DEF External, text, running
<1>3. fresh' \in {fresh, fresh + 1} /\ disk'.text < fresh'
  <2>1. 0 < fresh
    BY <1>1 DEF TextsInv
  <2>2. CASE disk' = [text |-> fresh, version |-> disk.version + 1] /\ fresh' = fresh + 1
    BY <1>1, <2>2
  <2>3. CASE disk' = [disk EXCEPT !.text = Absent] /\ UNCHANGED fresh
    BY <1>1, <2>1, <2>3 DEF Absent
  <2> QED BY <2>2, <2>3 DEF External
<1>4. known' \subseteq 1 .. fresh' - 1 /\ buffer'.text \in 1 .. fresh' - 1
  BY <1>1, <1>2, <1>3, FreshGrows DEF TextsInv
<1>5. reply'.text < fresh' /\ shot'.text < fresh'
  BY <1>1, <1>2, <1>3 DEF TextsInv
<1>6. /\ pc' \in RequestSteps => shot'.text # 0
      /\ pc' = "readDone" /\ reply'.result = "ok" => reply'.text # 0
  BY <1>2 DEF TextsInv, RequestSteps
<1>7. \A t \in doubtful' : t < fresh'
  <2>1. \A t \in doubtful : t < fresh'
    BY <1>3, OlderContents
  <2>2. doubtful' = doubtful \/ (doubtful' = doubtful \cup {fresh} /\ fresh < fresh')
    BY <1>1 DEF External
  <2> QED BY <2>1, <2>2
<1> QED BY <1>2, <1>3, <1>4, <1>5, <1>6, <1>7, SameStacks DEF TextsInv, RequestSteps

\* A request to the file service, by what the editor sends.
LEMMA TextsOfRequest ==
    ASSUME TypeOK, TextsInv,
           \/ \E content \in Nat \ {0} : content < fresh' /\ Overwrite(content)
           \/ \E answer : /\ Answer(answer)
                          /\ answer.text \in Nat /\ answer.text < fresh
                          /\ pc' = "readDone" /\ answer.result = "ok" => answer.text # 0
           \/ Fail,
           UNCHANGED <<buffer, past, journal, shot>>,
           fresh' \in {fresh, fresh + 1},
           pc' \in RequestSteps => pc \in RequestSteps
    PROVE  TextsInv'
<1>1. fresh \in Nat /\ known \in SUBSET Nat /\ disk.text \in Nat /\ shot.text \in Nat /\ buffer.text \in Nat
      /\ disk \in [text : Nat, version : Nat]
  BY RunningParts DEF TypeOK, TextOK, FileOK, ShotOK
<1>2. 0 < fresh /\ 0 < fresh' /\ fresh' \in Nat
  BY <1>1 DEF TextsInv
<1>3. /\ known' \subseteq 1 .. fresh' - 1
      /\ disk'.text < fresh' /\ reply'.text < fresh'
      /\ pc' = "readDone" /\ reply'.result = "ok" => reply'.text # 0
      /\ \A t \in doubtful' : t < fresh'
  <2>1. known \subseteq 1 .. fresh' - 1 /\ disk.text < fresh' /\ \A t \in doubtful : t < fresh'
    BY OlderContents
  <2>2. ASSUME NEW content \in Nat \ {0}, content < fresh', Overwrite(content)
        PROVE  /\ known' \subseteq 1 .. fresh' - 1
               /\ disk'.text < fresh' /\ reply'.text < fresh'
               /\ pc' = "readDone" /\ reply'.result = "ok" => reply'.text # 0
               /\ \A t \in doubtful' : t < fresh'
    <3>1. /\ disk'.text = content /\ reply'.text = 0 /\ known' = known \cup {content}
          /\ reply'.result = "none" /\ doubtful' = doubtful
      BY <2>2 DEF Overwrite, NoReply
    <3>2. content \in 1 .. fresh' - 1
      BY <1>2, <2>2, BelowInInterval
    <3> QED BY <1>2, <2>1, <2>2, <3>1, <3>2
  <2>3. ASSUME NEW answer, Answer(answer), answer.text \in Nat, answer.text < fresh,
               pc' = "readDone" /\ answer.result = "ok" => answer.text # 0
        PROVE  /\ known' \subseteq 1 .. fresh' - 1
               /\ disk'.text < fresh' /\ reply'.text < fresh'
               /\ pc' = "readDone" /\ reply'.result = "ok" => reply'.text # 0
               /\ \A t \in doubtful' : t < fresh'
    <3>1. UNCHANGED <<disk, known, doubtful>> /\ reply' = answer
      BY <2>3 DEF Answer, file
    <3>2. answer.text < fresh'
      BY <1>1, <2>3
    <3> QED BY <2>1, <2>3, <3>1, <3>2
  <2>4. CASE Fail
    <3>1. UNCHANGED <<disk, known>> /\ reply'.text = 0 /\ reply'.result = "failed"
          /\ doubtful' \subseteq doubtful \cup {disk.text}
      BY <2>4 DEF Fail, NoReply, file
    <3> QED BY <1>2, <2>1, <3>1
  <2> QED BY <2>2, <2>3, <2>4
<1>4. buffer'.text \in 1 .. fresh' - 1 /\ shot'.text < fresh'
  BY <1>1, <1>2 DEF TextsInv
<1>5. pc' \in RequestSteps => shot'.text # 0
  BY DEF TextsInv, RequestSteps
<1> QED BY <1>3, <1>4, <1>5, SameStacks DEF TextsInv, RequestSteps

LEMMA UpdatedText ==
    ASSUME TypeOK, TextsInv, NEW content \in 1 .. fresh - 1
    PROVE  Updated(content) \in 1 .. fresh
<1>1. shot \in [text : Nat, changes : Nat] /\ shot.changes <= Len(journal) /\ journal \in Seq([from : Nat, to : Nat])
  BY RunningParts DEF TypeOK, TextOK, ShotOK
<1>2. Len(journal) \in Nat /\ fresh \in Nat /\ 0 < fresh
  BY <1>1, LenProperties DEF TypeOK, TextOK, TextsInv
<1>3. ASSUME shot.changes # 0 PROVE journal[shot.changes].to \in 1 .. fresh
  <2>1. shot.changes \in 1 .. Len(journal)
    BY <1>1, <1>2, <1>3
  <2>2. journal[shot.changes].to \in 1 .. fresh - 1
    BY <2>1 DEF TextsInv
  <2> QED BY <1>2, <2>2
<1>4. content \in 1 .. fresh /\ fresh \in 1 .. fresh
  BY <1>2
<1> QED BY <1>3, <1>4 DEF Updated
LEMMA TextsOfRequests ==
    ASSUME TypeOK, TextsInv, Read \/ ReadRest \/ Update \/ Patch \/ Write \/ Put \/ Resolve
    PROVE  TextsInv'
<1>1. /\ fresh \in Nat /\ 1 < fresh /\ disk.text \in Nat /\ disk.text < fresh
      /\ reply.text \in Nat /\ reply.text < fresh
      /\ UNCHANGED <<buffer, past, journal, shot>>
  <2>1. UNCHANGED <<buffer, past, journal, shot>>
    BY DEF Read, ReadRest, Update, Patch, Write, Put, Resolve, text
  <2>2. fresh \in Nat /\ disk.text \in Nat /\ reply.text \in Nat
    BY RunningParts DEF TypeOK, TextOK, FileOK, ShotOK
  <2>3. disk.text < fresh /\ reply.text < fresh /\ buffer.text \in 1 .. fresh - 1
    BY DEF TextsInv
  <2> QED BY <2>1, <2>2, <2>3
<1>2. ASSUME NEW result, Reject(result)
      PROVE  \E answer : /\ Answer(answer) /\ answer.text = 0
                         /\ result # "ok" => answer.result # "ok"
  <2>1. /\ Answer([NoReply EXCEPT !.result = result])
        /\ [NoReply EXCEPT !.result = result].text = 0
        /\ [NoReply EXCEPT !.result = result].result = result
    BY <1>2 DEF Reject, NoReply
  <2> QED BY <2>1
<1>3. CASE Read \/ ReadRest
  <2>1. pc' \in {"readRest", "readDone"} /\ fresh' = fresh
    BY <1>3 DEF Read, ReadRest, Goto
  <2>2. \/ \E answer : /\ Answer(answer)
                       /\ answer.text \in Nat /\ answer.text < fresh
                       /\ pc' = "readDone" /\ answer.result = "ok" => answer.text # 0
        \/ Fail
    <3>1. CASE Reject("notFound")
      BY <1>1, <1>2, <3>1
    <3>2. CASE /\ disk.text # Absent
               /\ Answer([result |-> "ok",
                          text |-> IF reply.text = 0 THEN disk.text ELSE reply.text,
                          version |-> IF reply.text = 0 THEN reply.version ELSE disk.version])
      BY <1>1, <3>2 DEF Absent
    <3>3. CASE Read /\ Answer([NoReply EXCEPT !.version = disk.version])
      <4> DEFINE answer == [NoReply EXCEPT !.version = disk.version]
      <4>1. answer.text = 0 /\ answer.result = "none" /\ Answer(answer)
        BY <3>3 DEF NoReply
      <4> HIDE DEF answer
      <4> QED BY <1>1, <4>1
    <3>4. CASE Read /\ Answer([NoReply EXCEPT !.text = disk.text])
      <4> DEFINE answer == [NoReply EXCEPT !.text = disk.text]
      <4>1. answer.text = disk.text /\ answer.result = "none" /\ Answer(answer)
        BY <3>4 DEF NoReply
      <4> HIDE DEF answer
      <4> QED BY <1>1, <4>1
    <3> QED BY <1>3, <3>1, <3>2, <3>3, <3>4 DEF Read, ReadRest
  <2> QED BY <1>1, <2>1, <2>2, TextsOfRequest DEF RequestSteps
<1>4. CASE Write \/ Update
  <2>1. pc \in RequestSteps /\ fresh' = fresh
    BY <1>4 DEF Write, Update, RequestSteps
  <2>2. (\E result : Reject(result)) \/ Fail
    BY <1>4 DEF Write, Update
  <2>3. pc' # "readDone"
    BY <1>4 DEF Write, Update, Goto
  <2> QED BY <1>1, <1>2, <2>1, <2>2, <2>3, TextsOfRequest
<1>5. CASE Put
  <2>1. pc \in RequestSteps /\ fresh' = fresh /\ (Overwrite(shot.text) \/ Fail)
    BY <1>5 DEF Put, RequestSteps
  <2>2. shot.text \in Nat \ {0} /\ shot.text < fresh
    BY <2>1, RunningParts DEF TypeOK, ShotOK, TextsInv, RequestSteps
  <2> QED BY <1>1, <2>1, <2>2, TextsOfRequest
<1>6. CASE Patch
  <2>1. pc \in RequestSteps /\ pc' # "readDone"
    BY <1>6 DEF Patch, Goto, RequestSteps
  <2>2. CASE /\ disk.text # Absent
             /\ Overwrite(Updated(disk.text))
             /\ fresh' = IF disk'.text = fresh THEN fresh + 1 ELSE fresh
    <3>1. disk.text \in 1 .. fresh - 1
      BY <1>1, <2>2, BelowInInterval DEF Absent
    <3>2. Updated(disk.text) \in 1 .. fresh
      BY <3>1, UpdatedText
    <3>3. disk'.text = Updated(disk.text)
      BY <2>2 DEF Overwrite
    <3>4. fresh' \in {fresh, fresh + 1} /\ Updated(disk.text) \in Nat \ {0} /\ Updated(disk.text) < fresh'
      BY <1>1, <2>2, <3>2, <3>3
    <3> QED BY <1>1, <2>1, <2>2, <3>4, TextsOfRequest
  <2>3. CASE (Reject("failed") \/ Fail) /\ UNCHANGED fresh
    BY <1>1, <1>2, <2>1, <2>3, TextsOfRequest
  <2> QED BY <1>6, <2>2, <2>3 DEF Patch
<1>7. CASE Resolve
  <2>1. pc' \in {"writeDone", "updateDone"} /\ (pc' = "updateDone" => pc \in RequestSteps) /\ fresh' = fresh
    BY <1>7 DEF Resolve, Goto, RequestSteps
  <2>2. CASE Answer([result |-> "ok", text |-> 0, version |-> disk.version])
    BY <1>1, <2>1, <2>2, TextsOfRequest DEF RequestSteps
  <2>3. CASE Reject("failed") \/ Fail
    BY <1>1, <1>2, <2>1, <2>3, TextsOfRequest DEF RequestSteps
  <2> QED BY <1>7, <2>2, <2>3 DEF Resolve
<1> QED BY <1>3, <1>4, <1>5, <1>6, <1>7

\* The end of an operation, which lets another start.
LEMMA TextsOfEnd ==
    ASSUME TypeOK, TextsInv, fresh' \in {fresh, fresh + 1}, UNCHANGED <<disk, doubtful>>,
           known' \subseteq 1 .. fresh' - 1,
           buffer'.text \in 1 .. fresh' - 1,
           \A i \in 1 .. Len(past') : past'[i].text \in 1 .. fresh' - 1,
           \A i \in 1 .. Len(journal') : journal'[i].to \in 1 .. fresh' - 1,
           pc' \in StartSteps /\ shot' = NoShot /\ reply' = NoReply
    PROVE  TextsInv'
<1>1. fresh \in Nat /\ 1 < fresh /\ fresh' \in Nat /\ disk'.text < fresh'
  <2>1. fresh \in Nat /\ 1 < fresh
    BY DEF TypeOK, TextOK, TextsInv
  <2>2. fresh' \in Nat /\ disk'.text < fresh'
    BY <2>1, OlderContents
  <2> QED BY <2>1, <2>2
<1>2. 0 < fresh' /\ reply'.text = 0 /\ shot'.text = 0 /\ reply'.result # "ok"
  BY <1>1 DEF NoShot, NoReply
<1>3. pc' \notin RequestSteps
  BY DEF StartSteps, RequestSteps
<1>4. \A t \in doubtful' : t < fresh'
  BY OlderContents
<1> QED BY <1>1, <1>2, <1>3, <1>4 DEF TextsInv, RequestSteps

LEMMA TextsOfReadDone ==
    ASSUME TypeOK, TextsInv, ReadDone
    PROVE  TextsInv'
<1>1. /\ fresh \in Nat /\ 1 < fresh /\ reply.text \in Nat /\ reply.text < fresh
      /\ known \subseteq 1 .. fresh - 1 /\ buffer.text \in 1 .. fresh - 1
      /\ reply.result = "ok" => reply.text # 0
  <2>1. pc = "readDone"
    BY DEF ReadDone
  <2> QED BY <2>1, RunningParts DEF TypeOK, TextOK, ShotOK, TextsInv
<1>2. reply.result = "ok" => reply.text \in 1 .. fresh - 1
  BY <1>1, BelowInInterval
<1>3. fresh' \in {fresh, fresh + 1} /\ (past' = past \/ past' = Append(past, buffer)) /\ journal' = journal
      /\ UNCHANGED <<disk, doubtful>>
  BY DEF ReadDone, file
<1>4. known' \subseteq 1 .. fresh - 1 /\ buffer'.text \in 1 .. fresh - 1
  BY <1>1, <1>2 DEF ReadDone
<1>5. known' \subseteq 1 .. fresh' - 1 /\ buffer'.text \in 1 .. fresh' - 1
  BY <1>3, <1>4, FreshGrows
<1>6. pc' \in StartSteps /\ shot' = NoShot /\ reply' = NoReply
  BY FinishStarts DEF ReadDone
<1> QED BY <1>3, <1>5, <1>6, StacksKept, TextsOfEnd

LEMMA TextsOfWillSave ==
    ASSUME TypeOK, TextsInv, WillSave
    PROVE  TextsInv'
<1>1. fresh \in Nat /\ 1 < fresh /\ reply.text \in Nat
  BY RunningParts DEF TypeOK, TextOK, ShotOK, TextsInv
<1>2. UNCHANGED <<disk, known, doubtful>>
  BY DEF WillSave, file
<1>3. /\ fresh' \in {fresh, fresh + 1} /\ buffer'.text \in 1 .. fresh' - 1
      /\ \A i \in 1 .. Len(past') : past'[i].text \in 1 .. fresh' - 1
      /\ \A i \in 1 .. Len(journal') : journal'[i].to \in 1 .. fresh' - 1
  <2>1. CASE UNCHANGED <<text, fresh, used>>
    <3>1. UNCHANGED <<buffer, past, journal, fresh>>
      BY <2>1 DEF text
    <3> QED BY <3>1, SameStacks DEF TextsInv
  <2>2. CASE /\ buffer' = [text |-> fresh, alt |-> fresh]
             /\ past' = <<>>
             /\ fresh' = fresh + 1
             /\ Record(fresh)
    <3>1. fresh \in 1 .. fresh' - 1 /\ buffer'.text = fresh
      BY <1>1, <2>2
    <3> QED BY <2>2, <3>1, StacksKept
  <2> QED BY <2>1, <2>2 DEF WillSave
<1>4. known' \subseteq 1 .. fresh' - 1
  BY <1>2, <1>3, OlderContents
<1>5. CASE Finish(buffer'.alt, dirty, saved)
  BY <1>2, <1>3, <1>4, <1>5, FinishStarts, TextsOfEnd
<1>6. CASE /\ shot' = [text |-> buffer'.text, changes |-> Len(journal')] /\ UNCHANGED reply
           /\ \E step \in {"update", "write"} : Goto(step)
  <2>1. shot'.text # 0 /\ shot'.text < fresh'
    <3>1. \A x \in 1 .. fresh' - 1 : x # 0 /\ x < fresh'
      BY <1>3, FreshGrows
    <3> QED BY <1>3, <1>6, <3>1
  <2>2. reply'.text < fresh'
    BY <1>1, <1>3, <1>6, FreshGrows DEF TextsInv
  <2>3. disk'.text < fresh' /\ \A t \in doubtful' : t < fresh'
    BY <1>2, <1>3, OlderContents
  <2>4. pc' # "readDone"
    BY <1>6 DEF Goto
  <2> QED BY <1>3, <1>4, <2>1, <2>2, <2>3, <2>4 DEF TextsInv
<1> QED BY <1>5, <1>6 DEF WillSave

LEMMA TextsOfSaveDone ==
    ASSUME TypeOK, TextsInv, UpdateDone \/ WriteDone \/ Ask
    PROVE  TextsInv'
<1>1. UNCHANGED <<disk, buffer, past, fresh, known, doubtful>>
  BY DEF UpdateDone, WriteDone, Ask, file, text
<1>2. known' \subseteq 1 .. fresh' - 1 /\ buffer'.text \in 1 .. fresh' - 1
  BY <1>1 DEF TextsInv
<1>3. CASE AfterSave
  <2>1. journal' = SubSeq(journal, shot.changes + 1, Len(journal))
    BY <1>3 DEF AfterSave
  <2> QED BY <1>1, <1>2, <1>3, <2>1, AfterSaveStarts, StacksKept, TextsOfEnd
<1>4. CASE UNCHANGED journal /\ Finish(buffer.alt, dirty, saved)
  BY <1>1, <1>2, <1>4, FinishStarts, StacksKept, TextsOfEnd
<1>5. CASE UNCHANGED <<journal, shot, reply>> /\ pc \in RequestSteps /\ pc' # "readDone"
  BY <1>1, <1>5 DEF TextsInv, RequestSteps
<1> QED BY <1>3, <1>4, <1>5 DEF UpdateDone, WriteDone, Ask, Goto, text, RequestSteps

LEMMA TextsStep ==
    ASSUME TypeOK, TextsInv, [Next]_vars
    PROVE  TextsInv'
BY TextsOfCalls, TextsOfExternal, TextsOfRequests, TextsOfReadDone, TextsOfWillSave, TextsOfSaveDone
   DEF Next, Step
-----------------------------------------------------------------------------
(* The versions a save relies on. *)

LEMMA VersionTypes ==
    ASSUME TypeOK
    PROVE  /\ disk \in [text : Nat, version : Nat] /\ ver \in Nat /\ rver \in Nat /\ fresh \in Nat
           /\ known \in SUBSET Nat /\ doubtful \in SUBSET Nat
           /\ shot \in [text : Nat, changes : Nat]
           /\ reply \in [result : Results, text : Nat, version : Nat]
BY RunningParts DEF TypeOK, FileOK, TextOK, FlagsOK, ShotOK

LEMMA VersionsOfCalls ==
    ASSUME TypeOK, VersionsInv, CallStep
    PROVE  VersionsInv'
BY DEF VersionsInv, CallStep, StartSteps, Certain

LEMMA VersionsOfExternal ==
    ASSUME TypeOK, TextsInv, VersionsInv, External
    PROVE  VersionsInv'
<1>1. UNCHANGED <<ver, rver, pc, shot, reply, known>>
  BY DEF External, resource, flags, running
<1>2. CASE /\ disk' = [text |-> fresh, version |-> disk.version + 1]
           /\ doubtful' = IF Between THEN doubtful \cup {fresh} ELSE doubtful
  <2>1. disk'.text = fresh /\ disk'.version = disk.version + 1
    BY <1>2
  <2>2. fresh \notin known /\ fresh # reply.text
    BY VersionTypes DEF TextsInv
  <2>3. pc = "readRest" => ~Certain(disk.text)'
    BY <1>2, <2>1 DEF Between, Certain
  <2> QED BY <1>1, <2>1, <2>2, <2>3, VersionTypes DEF VersionsInv, Certain
<1>3. CASE disk' = [disk EXCEPT !.text = Absent] /\ UNCHANGED doubtful
  <2>1. disk'.text = 0 /\ disk'.version = disk.version
    BY <1>3, VersionTypes DEF Absent
  <2>2. 0 \notin known /\ ~Certain(disk.text)'
    BY <2>1, VersionTypes DEF TextsInv, Certain, Absent
  <2> QED BY <1>1, <2>1, <2>2, VersionTypes DEF VersionsInv, Certain
<1> QED BY <1>2, <1>3 DEF External

\* What a request does to the file, what the editor is told, and which step
\* comes next: the first and the second answer to a reload, its refusal, the
\* answers to a check, the write, the answer with its version, and a failure.
ReadFirst ==
    /\ UNCHANGED <<disk, changed, known, doubtful>>
    /\ pc = "read" /\ pc' = "readRest" /\ reply'.result = "none"
    /\ \/ reply'.text = 0 /\ reply'.version = disk.version
       \/ reply'.text = disk.text /\ disk.text # Absent /\ reply'.version = 0
ReadSecond ==
    /\ UNCHANGED <<disk, changed, known, doubtful>>
    /\ pc = "readRest" /\ pc' = "readDone" /\ reply'.result = "ok"
    /\ disk.text # Absent
    /\ \/ reply.text = 0 /\ reply'.text = disk.text /\ reply'.version = reply.version
       \/ reply.text # 0 /\ reply'.text = reply.text /\ reply'.version = disk.version
Refused ==
    /\ UNCHANGED <<disk, changed, known, doubtful>>
    /\ reply'.version = 0
    /\ \/ pc \in {"read", "readRest"} /\ pc' = "readDone" /\ disk.text = Absent /\ reply'.result = "notFound"
       \/ pc = "write" /\ pc' = "ask" /\ ModifiedSince(SentVersion) /\ reply'.result = "conflict"
       \/ pc \in {"update", "patch"} /\ pc' = "updateDone" /\ reply'.result = "failed"
Checked ==
    /\ UNCHANGED <<disk, changed, known, doubtful>>
    /\ reply'.version = 0 /\ reply'.result = "none"
    /\ \/ pc = "update" /\ pc' = "patch"
       \/ pc = "write" /\ pc' = "put" /\ ~ModifiedSince(SentVersion)
Written ==
    /\ pc \in {"put", "force", "patch"}
    /\ pc' = IF pc = "patch" THEN "patched" ELSE "resolve"
    /\ reply'.result = "none" /\ reply'.version = 0
    /\ disk'.version = disk.version + 1
    /\ changed' = ~disposed
    /\ pc # "patch" => disk'.text = shot.text
    /\ known' = known \cup {disk'.text}
    /\ UNCHANGED doubtful
Versioned ==
    /\ UNCHANGED <<disk, changed, known, doubtful>>
    /\ (pc = "resolve" /\ pc' = "writeDone") \/ (pc = "patched" /\ pc' = "updateDone")
    /\ \/ disk.text # Absent /\ reply'.result = "ok" /\ reply'.text = 0 /\ reply'.version = disk.version
       \/ disk.text = Absent /\ reply'.result = "failed" /\ reply'.version = 0
Failed ==
    /\ Fail
    /\ UNCHANGED <<disk, changed, known>>
    /\ reply'.result = "failed" /\ reply'.version = 0
    /\ pc' \in {"readDone", "patch", "updateDone", "put", "writeDone"}
    /\ pc' \in {"patch", "updateDone"} => pc \in {"update", "patch", "patched"}
    /\ pc' = "put" => pc = "write"
    /\ doubtful' = IF pc \in Unsure THEN doubtful \cup {disk.text} ELSE doubtful

LEMMA RequestEffects ==
    ASSUME TypeOK, VersionsInv, Read \/ ReadRest \/ Update \/ Patch \/ Write \/ Put \/ Resolve
    PROVE  /\ UNCHANGED <<ver, rver>>
           /\ reply.result # "ok"
           /\ ReadFirst \/ ReadSecond \/ Refused \/ Checked \/ Written \/ Versioned \/ Failed
<1> USE DEF ReadFirst, ReadSecond, Refused, Checked, Written, Versioned, Failed
<1>1. UNCHANGED <<ver, rver>> /\ reply.result # "ok"
  BY DEF Read, ReadRest, Update, Patch, Write, Put, Resolve, resource, flags, VersionsInv
<1>2. \A result : Reject(result) => /\ UNCHANGED <<disk, changed, known, doubtful>>
                                    /\ reply'.result = result /\ reply'.text = 0 /\ reply'.version = 0
  BY DEF Reject, Answer, NoReply, file
<1>3. Fail => /\ UNCHANGED <<disk, changed, known>>
              /\ reply'.result = "failed" /\ reply'.version = 0
              /\ doubtful' = IF pc \in Unsure THEN doubtful \cup {disk.text} ELSE doubtful
  BY DEF Fail, NoReply, file
<1>4. \A content : Overwrite(content) => /\ disk'.text = content /\ disk'.version = disk.version + 1
                                        /\ known' = known \cup {disk'.text} /\ UNCHANGED doubtful
                                        /\ changed' = ~disposed
                                        /\ reply'.result = "none" /\ reply'.version = 0
  BY DEF Overwrite, NoReply
<1>5. CASE Read
  <2>1. CASE pc = "read" /\ pc' = "readRest" /\ disk.text # Absent /\ Answer([NoReply EXCEPT !.version = disk.version])
    BY <1>1, <2>1 DEF Answer, NoReply, file
  <2>2. CASE pc = "read" /\ pc' = "readRest" /\ disk.text # Absent /\ Answer([NoReply EXCEPT !.text = disk.text])
    BY <1>1, <2>2 DEF Answer, NoReply, file
  <2>3. CASE pc = "read" /\ pc' = "readDone" /\ disk.text = Absent /\ Reject("notFound")
    BY <1>1, <1>2, <2>3
  <2>4. CASE pc = "read" /\ pc' = "readDone" /\ Fail
    BY <1>1, <1>3, <2>4
  <2> QED BY <1>5, <2>1, <2>2, <2>3, <2>4 DEF Read, Goto
<1>6. CASE ReadRest
  <2>1. CASE /\ pc = "readRest" /\ pc' = "readDone" /\ disk.text # Absent
             /\ Answer([result |-> "ok",
                        text |-> IF reply.text = 0 THEN disk.text ELSE reply.text,
                        version |-> IF reply.text = 0 THEN reply.version ELSE disk.version])
    BY <1>1, <2>1 DEF Answer, file
  <2>2. CASE pc = "readRest" /\ pc' = "readDone" /\ disk.text = Absent /\ Reject("notFound")
    BY <1>1, <1>2, <2>2
  <2>3. CASE pc = "readRest" /\ pc' = "readDone" /\ Fail
    BY <1>1, <1>3, <2>3
  <2> QED BY <1>6, <2>1, <2>2, <2>3 DEF ReadRest, Goto
<1>7. CASE Update
  <2>1. CASE pc = "update" /\ pc' = "patch" /\ Reject("none")
    BY <1>1, <1>2, <2>1
  <2>2. CASE pc = "update" /\ pc' = "updateDone" /\ Reject("failed")
    BY <1>1, <1>2, <2>2
  <2>3. CASE pc = "update" /\ pc' \in {"patch", "updateDone"} /\ Fail
    BY <1>1, <1>3, <2>3
  <2> QED BY <1>7, <2>1, <2>2, <2>3 DEF Update, Goto
<1>8. CASE Patch
  <2>1. CASE pc = "patch" /\ pc' = "patched" /\ Overwrite(Updated(disk.text))
    BY <1>1, <1>4, <2>1
  <2>2. CASE pc = "patch" /\ pc' = "updateDone" /\ Reject("failed")
    BY <1>1, <1>2, <2>2
  <2>3. CASE pc = "patch" /\ pc' = "updateDone" /\ Fail
    BY <1>1, <1>3, <2>3
  <2> QED BY <1>8, <2>1, <2>2, <2>3 DEF Patch, Goto
<1>9. CASE Write
  <2>1. CASE pc = "write" /\ pc' = "put" /\ ~ModifiedSince(SentVersion) /\ Reject("none")
    BY <1>1, <1>2, <2>1
  <2>2. CASE pc = "write" /\ pc' = "ask" /\ ModifiedSince(SentVersion) /\ Reject("conflict")
    BY <1>1, <1>2, <2>2
  <2>3. CASE pc = "write" /\ pc' \in {"put", "writeDone"} /\ Fail
    BY <1>1, <1>3, <2>3
  <2> QED BY <1>9, <2>1, <2>2, <2>3 DEF Write, Goto
<1>10. CASE Put
  <2>1. CASE pc \in {"put", "force"} /\ pc' = "resolve" /\ Overwrite(shot.text)
    BY <1>1, <1>4, <2>1
  <2>2. CASE pc \in {"put", "force"} /\ pc' = "writeDone" /\ Fail
    BY <1>1, <1>3, <2>2
  <2> QED BY <1>10, <2>1, <2>2 DEF Put, Goto
<1>11. CASE Resolve
  <2>1. (pc = "resolve" /\ pc' = "writeDone") \/ (pc = "patched" /\ pc' = "updateDone")
    BY <1>11 DEF Resolve, Goto
  <2>2. CASE disk.text # Absent /\ Answer([result |-> "ok", text |-> 0, version |-> disk.version])
    BY <1>1, <2>1, <2>2 DEF Answer, file
  <2>3. CASE disk.text = Absent /\ Reject("failed")
    BY <1>1, <1>2, <2>1, <2>3
  <2>4. CASE Fail
    BY <1>1, <1>3, <2>1, <2>4
  <2> QED BY <1>11, <2>2, <2>3, <2>4 DEF Resolve
<1> QED BY <1>5, <1>6, <1>7, <1>8, <1>9, <1>10, <1>11

LEMMA VersionsOfRequests ==
    ASSUME TypeOK, TextsInv, VersionsInv,
           Read \/ ReadRest \/ Update \/ Patch \/ Write \/ Put \/ Resolve
    PROVE  VersionsInv'
<1>1. disk.text = Absent => disk.text \notin known
  BY VersionTypes DEF TextsInv, Absent
<1>2. UNCHANGED <<ver, rver>> /\ reply.result # "ok"
  BY RequestEffects
<1>3. CASE ReadFirst
  BY <1>2, <1>3, VersionTypes DEF ReadFirst, VersionsInv, Certain, Absent
<1>4. CASE ReadSecond
  BY <1>2, <1>4, VersionTypes DEF ReadSecond, VersionsInv, Certain
<1>5. CASE Refused
  BY <1>1, <1>2, <1>5, VersionTypes DEF Refused, VersionsInv, Certain
<1>6. CASE Checked
  BY <1>2, <1>6, VersionTypes DEF Checked, VersionsInv, Certain
<1>7. CASE Written
  BY <1>2, <1>7, VersionTypes DEF Written, VersionsInv, Certain
<1>8. CASE Versioned
  BY <1>1, <1>2, <1>8, VersionTypes DEF Versioned, VersionsInv, Certain
<1>9. CASE Failed
  BY <1>2, <1>9, VersionTypes DEF Failed, Unsure, VersionsInv, Certain
<1> QED BY <1>3, <1>4, <1>5, <1>6, <1>7, <1>8, <1>9, RequestEffects

LEMMA VersionsOfReadDone ==
    ASSUME TypeOK, TextsInv, VersionsInv, ReadDone
    PROVE  VersionsInv'
<1>1. UNCHANGED <<disk, doubtful>> /\ pc' \in StartSteps /\ reply' = NoReply /\ pc = "readDone"
  BY FinishStarts DEF ReadDone, file
<1>2. CASE reply.result = "ok"
  <2>1. /\ ver' = reply.version
        /\ \/ rver' = reply.version /\ known' = known \cup {reply.text}
           \/ UNCHANGED <<rver, known>>
    BY <1>2 DEF ReadDone
  <2> QED BY <1>1, <1>2, <2>1, VersionTypes DEF VersionsInv, NoReply, Certain, StartSteps
<1>3. CASE reply.result = "notFound"
  <2>1. ver' = 0 /\ UNCHANGED <<rver, known>>
    BY <1>3 DEF ReadDone
  <2> QED BY <1>1, <1>3, <2>1, VersionTypes DEF VersionsInv, NoReply, Certain, StartSteps
<1>4. CASE reply.result \notin {"ok", "notFound"}
  <2>1. UNCHANGED <<ver, rver, known>>
    BY <1>4 DEF ReadDone
  <2> QED BY <1>1, <1>4, <2>1, VersionTypes DEF VersionsInv, NoReply, Certain, StartSteps
<1> QED BY <1>2, <1>3, <1>4

LEMMA VersionsOfWillSave ==
    ASSUME TypeOK, VersionsInv, WillSave
    PROVE  VersionsInv'
<1>1. UNCHANGED <<disk, ver, rver, known, doubtful>> /\ pc = "willSave"
  BY DEF WillSave, file, resource
<1>2. CASE Finish(buffer'.alt, dirty, saved)
  BY <1>1, <1>2, FinishStarts, VersionTypes DEF VersionsInv, NoReply, Certain, StartSteps
<1>3. CASE UNCHANGED reply /\ pc' \in {"update", "write"}
  BY <1>1, <1>3, VersionTypes DEF VersionsInv, Certain
<1> QED BY <1>2, <1>3 DEF WillSave, Goto

LEMMA VersionsOfSaveDone ==
    ASSUME TypeOK, VersionsInv, UpdateDone \/ WriteDone \/ Ask
    PROVE  VersionsInv'
<1>1. UNCHANGED <<disk, known, doubtful>>
      /\ pc \in {"updateDone", "writeDone", "ask"}
  BY DEF UpdateDone, WriteDone, Ask, file
<1>2. CASE (UpdateDone \/ WriteDone) /\ AfterSave
  <2>1. reply' = NoReply /\ rver' = ver' /\ pc' \in StartSteps
        /\ ver' = IF reply.result = "ok" THEN reply.version ELSE ver
    BY <1>2, AfterSaveStarts DEF UpdateDone, WriteDone, AfterSave, Goto, StartSteps
  <2> QED BY <1>1, <2>1, VersionTypes DEF VersionsInv, NoReply, Certain, StartSteps
<1>3. CASE Finish(buffer.alt, dirty, saved) /\ UNCHANGED <<ver, rver>> /\ reply.result # "ok"
  BY <1>1, <1>3, FinishStarts, VersionTypes DEF VersionsInv, NoReply, Certain, StartSteps
<1>4. CASE UNCHANGED <<ver, rver, reply>> /\ reply.result # "ok" /\ pc' \in {"write", "force"}
  BY <1>1, <1>4, VersionTypes DEF VersionsInv, Certain
<1>5. pc = "ask" => reply.result # "ok"
  BY DEF VersionsInv
<1> QED BY <1>2, <1>3, <1>4, <1>5 DEF UpdateDone, WriteDone, Ask, Goto, flags, resource

LEMMA VersionsStep ==
    ASSUME TypeOK, TextsInv, VersionsInv, [Next]_vars
    PROVE  VersionsInv'
BY CallsStart, VersionsOfCalls, VersionsOfExternal, VersionsOfRequests, VersionsOfReadDone,
   VersionsOfWillSave, VersionsOfSaveDone DEF Next, Step

LEMMA VersionsCorrect == Spec => [](TextsInv /\ VersionsInv)
<1>1. Init => TextsInv /\ VersionsInv
  BY EmptySeq DEF Init, TextsInv, VersionsInv, Certain, Absent, NoShot, NoReply
<1> QED BY <1>1, TypeCorrect, TextsStep, VersionsStep, PTL DEF Spec

\* A save meets a conflict (modifiedSince in doWrite) only if another program
\* wrote the file, or the editor could not learn the version of what is in it:
\* whatever order saves, reloads, reverts and their late answers come in, and
\* whatever requests fail, the versions the editor sends are otherwise those of
\* its own last write.
THEOREM ConflictsAreReal == Spec => PromptOnlyIfChanged
<1>1. TypeOK /\ TextsInv /\ VersionsInv /\ [Next]_vars
          => [pc = "write" /\ pc' = "ask" => disk.text \notin known \ doubtful]_vars
  <2> SUFFICES ASSUME TypeOK, TextsInv, VersionsInv, Next, pc = "write", pc' = "ask",
                      disk.text \in known \ doubtful
               PROVE  FALSE
    OBVIOUS
  <2>1. ~CallStep
    BY DEF CallStep
  <2>2. Write
    BY <2>1, CallsStart
       DEF Next, Step, External, running, Read, ReadRest, ReadDone, WillSave, Update, Patch, UpdateDone,
           Ask, Put, Resolve, WriteDone
  <2>3. ModifiedSince(SentVersion)
    BY <2>2 DEF Write, Goto
  <2>4. SentVersion # 0 /\ SentVersion < disk.version
    BY <2>3 DEF ModifiedSince
  <2>5. Certain(disk.text)
    BY VersionTypes DEF TextsInv, Certain, Absent
  <2>6. ver = disk.version /\ rver = disk.version
    BY <2>5 DEF VersionsInv
  <2> QED BY <2>4, <2>6, VersionTypes DEF SentVersion
<1> QED BY <1>1, TypeCorrect, VersionsCorrect, PTL DEF Spec, PromptOnlyIfChanged
-----------------------------------------------------------------------------
(* No unknown content is overwritten. *)

LEMMA BaseOfCalls ==
    ASSUME BaseInv, CallStep
    PROVE  BaseInv'
BY DEF BaseInv, CallStep, StartSteps, Certain

LEMMA BaseOfExternal ==
    ASSUME TypeOK, VersionsInv, BaseInv, External
    PROVE  BaseInv'
<1>1. UNCHANGED <<rver, pc, reply, known>>
  BY DEF External, flags, running
<1>2. CASE /\ disk' = [text |-> fresh, version |-> disk.version + 1]
           /\ doubtful' = IF Between THEN doubtful \cup {fresh} ELSE doubtful
  <2>1. disk'.version = disk.version + 1 /\ disk'.text = fresh
    BY <1>2
  <2>2. rver < disk'.version /\ reply.version < disk'.version
    BY <2>1, VersionTypes DEF VersionsInv
  <2>3. pc \in {"put", "resolve"} => ~Certain(disk.text)'
    BY <1>2, <2>1 DEF Between, Certain
  <2> QED BY <1>1, <2>2, <2>3, VersionTypes DEF BaseInv
<1>3. CASE disk' = [disk EXCEPT !.text = Absent]
  <2>1. ~Certain(disk.text)'
    BY <1>3, VersionTypes DEF Certain
  <2> QED BY <1>1, <2>1 DEF BaseInv
<1> QED BY <1>2, <1>3 DEF External

LEMMA BaseOfRequests ==
    ASSUME TypeOK, VersionsInv, BaseInv,
           Read \/ ReadRest \/ Update \/ Patch \/ Write \/ Put \/ Resolve
    PROVE  BaseInv'
<1>1. SentVersion = rver /\ rver # 0
  BY VersionTypes DEF SentVersion, BaseInv
<1>2. Certain(disk.text) /\ ~ModifiedSince(SentVersion) => rver = disk.version
  BY <1>1, VersionTypes DEF ModifiedSince, VersionsInv, Certain
<1>3. UNCHANGED <<ver, rver>> /\ reply.result # "ok"
  BY RequestEffects
<1>4. CASE ReadFirst
  BY <1>3, <1>4, VersionTypes DEF ReadFirst, BaseInv, VersionsInv, Certain, Absent
<1>5. CASE ReadSecond
  BY <1>3, <1>5, VersionTypes DEF ReadSecond, BaseInv, VersionsInv, Certain
<1>6. CASE Refused
  BY <1>3, <1>6 DEF Refused, BaseInv, Certain
<1>7. CASE Checked
  BY <1>2, <1>3, <1>7 DEF Checked, BaseInv, Certain
<1>8. CASE Written
  BY <1>3, <1>8, VersionTypes DEF Written, BaseInv, Certain
<1>9. CASE Versioned
  BY <1>3, <1>9, VersionTypes DEF Versioned, BaseInv, VersionsInv, Certain
<1>10. CASE Failed
  BY <1>3, <1>10 DEF Failed, Unsure, BaseInv, Certain
<1> QED BY <1>4, <1>5, <1>6, <1>7, <1>8, <1>9, <1>10, RequestEffects

LEMMA BaseOfReadDone ==
    ASSUME TypeOK, BaseInv, ReadDone
    PROVE  BaseInv'
<1>1. UNCHANGED <<disk, doubtful>> /\ pc' \in StartSteps /\ reply' = NoReply /\ pc = "readDone"
  BY FinishStarts DEF ReadDone, file
<1>2. CASE reply.result = "ok" /\ rver' = reply.version /\ known' = known \cup {reply.text}
  BY <1>1, <1>2 DEF BaseInv, StartSteps, NoReply, Certain
<1>3. CASE UNCHANGED <<rver, known>>
  BY <1>1, <1>3 DEF BaseInv, StartSteps, NoReply, Certain
<1> QED BY <1>2, <1>3 DEF ReadDone

LEMMA BaseOfWillSave ==
    ASSUME ~Incremental, BaseInv, WillSave
    PROVE  BaseInv'
<1>1. UNCHANGED <<disk, rver, known, doubtful>>
  BY DEF WillSave, file
<1>2. CASE Finish(buffer'.alt, dirty, saved)
  BY <1>1, <1>2, FinishStarts DEF BaseInv, StartSteps, NoReply, Certain
<1>3. CASE UNCHANGED reply /\ pc' = "write"
  BY <1>1, <1>3 DEF BaseInv, WillSave, Certain
<1> QED BY <1>2, <1>3 DEF WillSave, Goto

LEMMA BaseOfSaveDone ==
    ASSUME BaseInv, WriteDone \/ Ask
    PROVE  BaseInv'
<1>1. UNCHANGED <<disk, known, doubtful>>
  BY DEF WriteDone, Ask, file
<1>2. CASE WriteDone /\ reply.result = "ok" /\ ver' = reply.version /\ AfterSave
  <2>1. rver' = reply.version /\ reply' = NoReply /\ pc' \in StartSteps /\ pc = "writeDone"
    BY <1>2, AfterSaveStarts DEF AfterSave, WriteDone
  <2> QED BY <1>1, <1>2, <2>1 DEF BaseInv, StartSteps, NoReply, Certain
<1>3. CASE UNCHANGED rver /\ Finish(buffer.alt, dirty, saved)
  BY <1>1, <1>3, FinishStarts DEF BaseInv, StartSteps, NoReply, Certain
<1>4. CASE Ask /\ UNCHANGED <<rver, reply>> /\ pc' = "force"
  BY <1>1, <1>4 DEF BaseInv, Ask, Certain
<1> QED BY <1>2, <1>3, <1>4 DEF WriteDone, Ask, Goto

LEMMA BaseStep ==
    ASSUME ~Incremental, TypeOK, TextsInv, VersionsInv, BaseInv, [Next]_vars
    PROVE  BaseInv'
<1>1. ~UpdateDone
  BY DEF BaseInv, UpdateDone
<1> QED BY <1>1, CallsStart, BaseOfCalls, BaseOfExternal, BaseOfRequests, BaseOfReadDone,
           BaseOfWillSave, BaseOfSaveDone DEF Next, Step

LEMMA BaseCorrect ==
    ASSUME ~Incremental
    PROVE  Spec => []BaseInv
<1>1. Init => BaseInv
  BY DEF Init, BaseInv, NoReply, Certain
<1>2. TypeOK /\ TextsInv /\ VersionsInv /\ BaseInv /\ [Next]_vars => BaseInv'
  BY BaseStep
<1> QED BY <1>1, <1>2, TypeCorrect, VersionsCorrect, PTL DEF Spec

\* Without the user's consent a save never replaces a content that the editor has
\* neither loaded nor written (doWrite), unless another program wrote it between
\* two requests of one operation or the stat of the check failed, and provided that saves send the whole
\* content: with incremental updates the property is false, see the run
\* editor_cancelled_update.
THEOREM NothingOverwrittenBlindly ==
    ASSUME ~Incremental
    PROVE  Spec => NoBlindOverwrite
<1>1. TypeOK /\ VersionsInv /\ BaseInv /\ [Next]_vars
          => [EditorWrites /\ pc # "force" => disk.text \in known \cup doubtful \cup {Absent}]_vars
  <2> SUFFICES ASSUME TypeOK, VersionsInv, BaseInv, Next, EditorWrites, pc # "force", Certain(disk.text)
               PROVE  disk.text \in known
    BY DEF Certain
  <2>1. ~CallStep
    BY DEF CallStep, EditorWrites
  <2>2. Read \/ ReadRest \/ Update \/ Patch \/ Write \/ Put \/ Resolve
    BY <2>1, CallsStart
       DEF Next, Step, External, running, EditorWrites, file, ReadDone, WillSave, UpdateDone, Ask, WriteDone
  <2>3. pc \in {"put", "patch"}
    BY <2>2, RequestEffects
       DEF EditorWrites, ReadFirst, ReadSecond, Refused, Checked, Written, Versioned, Failed
  <2> QED BY <2>3 DEF BaseInv
<1> QED BY <1>1, TypeCorrect, VersionsCorrect, BaseCorrect, PTL DEF Spec, NoBlindOverwrite

\* A save whose token was cancelled sends no request any more (doSave,
\* Resource.save): the token is checked before each of them.
THEOREM CancelledSavesAreSilent == Spec => CancelledSaveSendsNothing
<1>1. TypeOK /\ [Next]_vars
          => [queue # <<>> /\ ~Head(queue).live /\ pc' # pc => pc' \notin {"update", "write"}]_vars
  <2> SUFFICES ASSUME TypeOK, Next, queue # <<>>, ~Head(queue).live, pc' # pc, pc' \in {"update", "write"}
               PROVE  FALSE
    OBVIOUS
  <2>1. ~CallStep
    BY DEF CallStep, StartSteps
  <2>2. pc' \notin StartSteps
    BY DEF StartSteps
  <2>3. WillSave \/ UpdateDone
    BY <2>1, <2>2, CallsStart, FinishStarts, AfterSaveStarts
       DEF Next, Step, External, running, Goto, Read, ReadRest, ReadDone, Update, Patch, Write, Ask,
           Put, Resolve, WriteDone
  <2>4. CASE WillSave
    BY <2>2, <2>4, FinishStarts DEF WillSave
  <2>5. CASE UpdateDone
    BY <2>2, <2>5, AfterSaveStarts DEF UpdateDone
  <2> QED BY <2>3, <2>4, <2>5
<1> QED BY <1>1, TypeCorrect, PTL DEF Spec, CancelledSaveSendsNothing
-----------------------------------------------------------------------------
(* A clean editor that saves by itself shows what is in the file. *)

\* An element of a sequence of operations, by its index.
LEMMA OpFields ==
    ASSUME NEW q \in Seq(Ops)
    PROVE  /\ Len(q) \in Nat
           /\ q = <<>> <=> Len(q) = 0
           /\ q # <<>> => Head(q) = q[1] /\ 1 \in 1 .. Len(q)
           /\ \A i \in 1 .. Len(q) : /\ q[i] \in Ops /\ q[i].live \in BOOLEAN
                                     /\ q[i].kind \in {"sync", "save"}
<1>1. Len(q) \in Nat /\ (q = <<>> <=> Len(q) = 0) /\ (q # <<>> => Head(q) = q[1])
  BY LenProperties, EmptySeq
<1>2. \A i \in 1 .. Len(q) : q[i] \in Ops
  BY ElementOfSeq
<1>3. \A op \in Ops : op.live \in BOOLEAN /\ op.kind \in {"sync", "save"}
  BY DEF Ops
<1> QED BY <1>1, <1>2, <1>3

\* Cancelling spares the operations of other kinds, and revives none.
LEMMA CancelledOps ==
    ASSUME NEW q \in Seq(Ops), NEW kinds
    PROVE  LET c == Cancel(q, kinds)
           IN  /\ c \in Seq(Ops) /\ Len(c) = Len(q)
               /\ \A i \in 1 .. Len(q) :
                      /\ c[i].kind = q[i].kind /\ c[i].revert = q[i].revert
                      /\ c[i].live => q[i].live /\ q[i].kind \notin kinds
                      /\ q[i].kind \notin kinds => c[i] = q[i]
<1> DEFINE c == Cancel(q, kinds)
<1>1. c \in Seq(Ops) /\ Len(c) = Len(q)
  BY CancelType
<1>2. DOMAIN q = 1 .. Len(q)
  BY LenProperties
<1>3. ASSUME NEW i \in 1 .. Len(q)
      PROVE  /\ c[i].kind = q[i].kind /\ c[i].revert = q[i].revert
             /\ c[i].live => q[i].live /\ q[i].kind \notin kinds
             /\ q[i].kind \notin kinds => c[i] = q[i]
  <2>1. q[i] \in Ops
    BY ElementOfSeq
  <2>2. c[i] = IF q[i].kind \in kinds THEN [q[i] EXCEPT !.live = FALSE] ELSE q[i]
    BY <1>2 DEF Cancel
  <2> QED BY <2>1, <2>2 DEF Ops
<1> QED BY <1>1, <1>3

LEMMA CancelNothing ==
    ASSUME NEW q \in Seq(Ops)
    PROVE  Cancel(q, {}) = q
<1>1. DOMAIN q = 1 .. Len(q) /\ q \in [1 .. Len(q) -> Ops]
  BY LenProperties, SeqDef
<1> QED BY <1>1 DEF Cancel

\* What a call makes of the queue: it adds an operation at the end, of those that
\* were there it cancels some.
LEMMA CalledQueue ==
    ASSUME TypeOK, NEW kinds, NEW op \in Ops, op.revert = "no", Run(Cancel(queue, kinds), op)
    PROVE  /\ NoReverts => NoReverts'
           /\ ToRead /\ "sync" \notin kinds => ToRead'
           /\ op.kind = "sync" /\ op.live => ToRead'
           /\ queue = <<>> => pc' \in {"idle", FirstStep(<<op>>)} /\ (pc' # "idle" => Head(queue') = op)
           /\ queue # <<>> =>
                  /\ pc' = pc
                  /\ Head(queue').live => Head(queue).live
                  /\ Head(queue).kind \notin kinds => Head(queue') = Head(queue)
<1> DEFINE q == Cancel(queue, kinds)
<1>1. queue \in Seq(Ops) /\ (queue = <<>> <=> pc = "idle") /\ QueueOK
  BY RunningParts DEF TypeOK, QueueOK
<1>2. /\ q \in Seq(Ops) /\ Len(q) = Len(queue)
      /\ \A i \in 1 .. Len(queue) :
             /\ q[i].kind = queue[i].kind /\ q[i].revert = queue[i].revert
             /\ q[i].live => queue[i].live /\ queue[i].kind \notin kinds
             /\ queue[i].kind \notin kinds => q[i] = queue[i]
  BY <1>1, CancelledOps
<1>3. Len(queue) \in Nat /\ (queue = <<>> <=> Len(queue) = 0) /\ (q = <<>> <=> Len(q) = 0)
      /\ (queue # <<>> => Head(queue) = queue[1] /\ 1 \in 1 .. Len(queue))
      /\ (q # <<>> => Head(q) = q[1])
  BY <1>1, <1>2, OpFields
<1>4. queue' = (IF q = <<>> /\ ~op.live THEN q ELSE Append(q, op))
      /\ pc' = (IF q = <<>> THEN FirstStep(queue') ELSE pc)
  BY DEF Run
<1> HIDE DEF q
<1>5. /\ Append(q, op) \in Seq(Ops) /\ Len(Append(q, op)) = Len(queue) + 1
      /\ \A i \in 1 .. Len(queue) : Append(q, op)[i] = q[i]
      /\ Append(q, op)[Len(queue) + 1] = op
  BY <1>2, <1>3, AppendProperties
<1>6. CASE queue = <<>>
  <2>1. q = <<>> /\ Len(queue) = 0
    BY <1>2, <1>3, <1>6
  <2>2. CASE ~op.live
    <3>1. queue' = <<>> /\ pc' = "idle"
      BY <1>4, <2>1, <2>2 DEF FirstStep
    <3> QED BY <1>6, <2>1, <2>2, <3>1, EmptySeq DEF NoReverts, ToRead
  <2>3. CASE op.live
    <3>1. queue' = <<op>>
      BY <1>4, <2>1, <2>3
    <3>2. Len(queue') = 1 /\ queue'[1] = op /\ Head(queue') = op /\ pc' = FirstStep(<<op>>)
      BY <1>4, <2>1, <3>1
    <3>3. op.kind = "sync" => pc' = "read"
      BY <3>2 DEF FirstStep
    <3>4. op.kind = "sync" => ToRead'
      BY <2>3, <3>2, <3>3 DEF ToRead
    <3>5. NoReverts' /\ ~ToRead
      BY <2>1, <3>2 DEF NoReverts, ToRead
    <3> QED BY <1>6, <3>2, <3>4, <3>5
  <2>4. op.live \in BOOLEAN
    BY DEF Ops
  <2> QED BY <2>2, <2>3, <2>4
<1>7. CASE queue # <<>>
  <2>1. q # <<>> /\ queue' = Append(q, op) /\ pc' = pc
    BY <1>2, <1>3, <1>4, <1>7
  <2>2. Len(queue') = Len(queue) + 1 /\ queue'[Len(queue) + 1] = op
        /\ \A i \in 1 .. Len(queue) : queue'[i] = q[i]
    BY <1>5, <2>1
  <2>3. Head(queue') = q[1]
    BY <1>2, <1>3, <1>7, <2>1, HeadTailAppend
  <2>4. NoReverts => NoReverts'
    <3> SUFFICES ASSUME NoReverts, NEW i \in 1 .. Len(queue') PROVE queue'[i].revert = "no"
      BY DEF NoReverts
    <3>1. i \in 1 .. Len(queue) \/ i = Len(queue) + 1
      BY <1>3, <2>2
    <3> QED BY <1>2, <2>2, <3>1 DEF NoReverts
  <2>5. ToRead /\ "sync" \notin kinds => ToRead'
    <3> SUFFICES ASSUME ToRead, "sync" \notin kinds PROVE ToRead'
      OBVIOUS
    <3>1. PICK i \in 1 .. Len(queue) : queue[i].kind = "sync" /\ queue[i].live /\ (i = 1 => pc = "read")
      BY DEF ToRead
    <3>2. queue'[i] = queue[i] /\ i \in 1 .. Len(queue')
      BY <1>2, <1>3, <2>2, <3>1
    <3> QED BY <2>1, <3>1, <3>2 DEF ToRead
  <2>6. op.kind = "sync" /\ op.live => ToRead'
    <3>1. Len(queue) + 1 \in 1 .. Len(queue') /\ Len(queue) + 1 # 1
      BY <1>3, <1>7, <2>2
    <3> QED BY <2>2, <3>1 DEF ToRead
  <2>7. /\ Head(queue').live => Head(queue).live
        /\ Head(queue).kind \notin kinds => Head(queue') = Head(queue)
    BY <1>2, <1>3, <1>7, <2>3
  <2> QED BY <1>7, <2>1, <2>4, <2>5, <2>6, <2>7
<1> QED BY <1>6, <1>7

\* What the end of an operation makes of the queue: the next one that has not been
\* cancelled gets its turn, and nobody else has waited for those that are gone.
LEMMA EndedQueue ==
    ASSUME TypeOK, queue # <<>>, NoReverts, NEW alt, NEW isDirty \in BOOLEAN, NEW savedId,
           Finish(alt, isDirty, savedId)
    PROVE  /\ NoReverts'
           /\ dirty' = isDirty
           /\ pc' = "read" => Head(queue').live
           /\ ToRead /\ pc # "read" => ToRead'
<1> DEFINE Turn(i) == /\ i = Len(queue) + 1 \/ queue[i].live
                      /\ \A j \in 1 + 1 .. i - 1 : ~queue[j].live
<1>1. queue \in Seq(Ops) /\ Len(queue) \in Nat /\ Len(queue) >= 1
      /\ \A i \in 1 .. Len(queue) : queue[i] \in Ops /\ queue[i].live \in BOOLEAN
  <2>1. queue \in Seq(Ops)
    BY DEF TypeOK, RunningOK
  <2> QED BY <2>1, OpFields
<1>2. \E i \in 1 + 1 .. Len(queue) + 1 : Turn(i)
  <2> DEFINE Turns == {i \in 2 .. Len(queue) + 1 : i = Len(queue) + 1 \/ queue[i].live}
  <2>1. Turns \in SUBSET Nat /\ Len(queue) + 1 \in Turns
    BY <1>1
  <2>2. PICK turn \in Turns : \A j \in Turns : turn <= j
    <3> HIDE DEF Turns
    <3> QED BY <2>1, LeastNat
  <2>3. \A j \in 2 .. turn - 1 : ~queue[j].live
    BY <1>1, <2>2
  <2> QED BY <2>2, <2>3
<1>3. PICK turn \in 2 .. Len(queue) + 1 : Turn(turn) /\ After(queue, 1) = SubSeq(queue, turn, Len(queue))
  <2>1. PICK turn \in 1 + 1 .. Len(queue) + 1 : Turn(turn) /\ After(queue, 1) = SubSeq(queue, turn, Len(queue))
    BY <1>2 DEF After
  <2> QED BY <2>1
<1>4. queue' = SubSeq(queue, turn, Len(queue)) /\ pc' = FirstStep(queue')
      /\ dirty' = (isDirty /\ {queue[i].revert : i \in 1 .. Len(queue) - Len(queue')} = {"no"})
  BY <1>3 DEF Finish
<1>5. /\ queue' \in Seq(Ops) /\ Len(queue') = Len(queue) - turn + 1
      /\ \A i \in 1 .. Len(queue') : queue'[i] = queue[i + turn - 1]
  <2>1. Len(queue) \in Nat /\ turn \in Int /\ \A i \in turn .. Len(queue) : queue[i] \in Ops
    BY <1>1, <1>3
  <2>2. SubSeq(queue, turn, Len(queue)) \in Seq(Ops)
        /\ Len(SubSeq(queue, turn, Len(queue))) = Len(queue) - turn + 1
        /\ \A i \in 1 .. Len(queue) - turn + 1 : SubSeq(queue, turn, Len(queue))[i] = queue[i + turn - 1]
    BY <1>1, <1>3, <2>1, SubSeqProperties
  <2> QED BY <1>4, <2>2
<1>6. NoReverts'
  <2> SUFFICES ASSUME NEW i \in 1 .. Len(queue') PROVE queue'[i].revert = "no"
    BY DEF NoReverts
  <2>1. i + turn - 1 \in 1 .. Len(queue)
    BY <1>1, <1>3, <1>5
  <2> QED BY <1>5, <2>1 DEF NoReverts
<1>7. dirty' = isDirty
  <2>1. 1 .. Len(queue) - Len(queue') \subseteq 1 .. Len(queue) /\ 1 \in 1 .. Len(queue) - Len(queue')
    BY <1>1, <1>3, <1>5
  <2>2. {queue[i].revert : i \in 1 .. Len(queue) - Len(queue')} = {"no"}
    BY <2>1 DEF NoReverts
  <2> QED BY <1>4, <2>2
<1>8. pc' = "read" => Head(queue').live
  <2> SUFFICES ASSUME pc' = "read" PROVE Head(queue').live
    OBVIOUS
  <2>1. queue' # <<>>
    BY <1>4 DEF FirstStep
  <2>2. Head(queue') = queue'[1] /\ 1 \in 1 .. Len(queue')
    BY <1>5, <2>1, OpFields
  <2>3. queue'[1] = queue[turn] /\ turn # Len(queue) + 1
    BY <1>1, <1>3, <1>5, <2>2
  <2> QED BY <1>3, <2>2, <2>3
<1>9. ToRead /\ pc # "read" => ToRead'
  <2> SUFFICES ASSUME ToRead, pc # "read" PROVE ToRead'
    OBVIOUS
  <2>1. PICK i \in 2 .. Len(queue) : queue[i].kind = "sync" /\ queue[i].live
    BY <1>1 DEF ToRead
  <2>2. i >= turn
    BY <1>1, <1>3, <2>1
  <2> DEFINE j == i - turn + 1
  <2>3. j \in 1 .. Len(queue') /\ queue'[j] = queue[i]
    <3>1. j \in 1 .. Len(queue') /\ j + turn - 1 = i
      BY <1>1, <1>3, <1>5, <2>1, <2>2
    <3> HIDE DEF j
    <3> QED BY <1>5, <3>1
  <2>4. j = 1 => pc' = "read"
    <3> SUFFICES ASSUME j = 1 PROVE pc' = "read"
      OBVIOUS
    <3>1. queue' # <<>> /\ Head(queue') = queue'[1]
      BY <1>5, <2>3, OpFields
    <3> QED BY <1>4, <2>1, <2>3, <3>1 DEF FirstStep
  <2> HIDE DEF j
  <2> QED BY <2>1, <2>3, <2>4 DEF ToRead
<1> QED BY <1>6, <1>7, <1>8, <1>9

LEMMA CleanTypes ==
    ASSUME TypeOK
    PROVE  /\ disk.text \in Nat /\ disk.version \in Nat /\ ver \in Nat /\ rver \in Nat
           /\ reply.text \in Nat /\ reply.version \in Nat /\ buffer.text \in Nat
           /\ shot.text \in Nat /\ fresh \in Nat
           /\ stat \in Nat \cup {NoStat} /\ dirty \in BOOLEAN /\ changed \in BOOLEAN /\ disposed \in BOOLEAN
BY VersionTypes DEF TypeOK, FileOK, TextOK, FlagsOK

\* The running operation.
LEMMA RunningHead ==
    ASSUME TypeOK, pc # "idle"
    PROVE  /\ queue # <<>> /\ Head(queue) = queue[1] /\ 1 \in 1 .. Len(queue)
           /\ Head(queue).live \in BOOLEAN /\ Head(queue).kind \in {"sync", "save"}
           /\ Head(queue).kind = "sync" <=> pc \in ReadSteps
<1>1. queue \in Seq(Ops) /\ queue # <<>>
      /\ (Head(queue).kind = "sync" <=> pc \in ReadSteps)
  BY DEF TypeOK, RunningOK
<1> QED BY <1>1, OpFields

\* A reload behind the running operation stays to come.
LEMMA ToReadStays ==
    ASSUME UNCHANGED queue, pc # "read" \/ pc' = pc
    PROVE  ToRead => ToRead'
BY DEF ToRead

\* The end of an operation leaves a clean editor as it should be, if what it did not
\* put right itself is put right by others.
LEMMA EndKeepsClean ==
    ASSUME TypeOK, CleanInv, queue # <<>>, pc # "read",
           NEW alt, NEW isDirty \in BOOLEAN, NEW savedId, Finish(alt, isDirty, savedId),
           UNCHANGED <<disk, changed, stat, disposed, doubtful>>,
           buffer'.text = disk.text => disk.text \in known',
           ~disposed /\ Stale' /\ ~isDirty =>
               ToRead \/ (ver' < disk.version /\ (changed \/ stat = disk.version))
    PROVE  CleanInv'
<1>1. NoReverts' /\ dirty' = isDirty /\ (pc' = "read" => Head(queue').live) /\ (ToRead => ToRead')
  BY EndedQueue DEF CleanInv
<1>2. pc' \in StartSteps /\ reply' = NoReply
  BY FinishStarts
<1>3. Answers'
  BY <1>2 DEF Answers, NoReply, StartSteps
<1>4. ~disposed' => StatsOK'
  BY DEF CleanInv, StatsOK
<1>5. ASSUME ~disposed PROVE CleanOK'
  <2>1. pc' \in ReadSteps => Head(queue').live
    BY <1>1, <1>2 DEF StartSteps, ReadSteps
  <2>2. ~Captured' /\ pc' \notin {"resolve", "writeDone"}
    BY <1>2 DEF Captured, StartSteps
  <2>3. Stale' /\ ~dirty' => Noticed'
    BY <1>1, <1>5 DEF Noticed
  <2> QED BY <2>1, <2>2, <2>3 DEF CleanOK
<1> QED BY <1>1, <1>3, <1>4, <1>5 DEF CleanInv

\* A call that changes neither buffer nor file.
LEMMA CallKeepsClean ==
    ASSUME TypeOK, CleanInv, NEW kinds \in SUBSET {"save"}, NEW op \in Ops, op.revert = "no",
           op.kind = "save", Run(Cancel(queue, kinds), op),
           UNCHANGED <<disk, changed, stat, ver, buffer, dirty, rver, shot, reply, disposed, known, doubtful>>
    PROVE  CleanInv'
<1>1. NoReverts' /\ (ToRead => ToRead')
  BY CalledQueue DEF CleanInv
<1>2. StatsOK => StatsOK'
  BY DEF StatsOK
<1>3. Noticed => Noticed'
  BY <1>1 DEF Noticed
<1>4. CASE queue = <<>>
  <2>1. pc = "idle"
    BY <1>4 DEF TypeOK, RunningOK
  <2>2. pc' \in {"idle", "willSave"}
    BY <1>4, CalledQueue DEF FirstStep
  <2>3. Answers'
    BY <2>1, <2>2 DEF CleanInv, Answers
  <2>4. CleanOK => CleanOK'
    BY <1>3, <2>1, <2>2 DEF CleanOK, Captured, Stale, Certain, ReadSteps
  <2> QED BY <1>1, <1>2, <2>3, <2>4 DEF CleanInv
<1>5. CASE queue # <<>>
  <2>1. pc' = pc /\ (Head(queue').live => Head(queue).live)
        /\ (Head(queue).kind \notin kinds => Head(queue') = Head(queue))
    BY <1>5, CalledQueue
  <2>2. pc # "idle"
    BY <1>5 DEF TypeOK, RunningOK
  <2>3. pc \in ReadSteps => Head(queue') = Head(queue)
    BY <2>1, <2>2, RunningHead
  <2>4. Answers'
    BY <2>1 DEF CleanInv, Answers
  <2>5. CleanOK => CleanOK'
    <3> SUFFICES ASSUME CleanOK PROVE CleanOK'
      OBVIOUS
    <3>1. pc' \in ReadSteps /\ ~Head(queue').live /\ ~dirty' => ToRead'
      BY <1>1, <2>1, <2>3 DEF CleanOK
    <3>2. Captured' /\ (Head(queue').live \/ ~dirty') => buffer'.text = shot'.text
      BY <2>1 DEF CleanOK, Captured
    <3>3. /\ pc' = "resolve" /\ Certain(disk.text)' => disk'.text = shot'.text
          /\ pc' = "writeDone" /\ (Head(queue').live \/ ~dirty') /\ Certain(disk.text)'
                 => disk'.text = shot'.text \/ (Noticed' /\ reply'.version < disk'.version)
      BY <1>3, <2>1 DEF CleanOK, Certain
    <3>4. Stale' /\ ~dirty' =>
              \/ Noticed'
              \/ pc' = "readRest" /\ Head(queue').live
              \/ pc' = "readDone" /\ Head(queue').live /\ reply'.result = "ok" /\ reply'.text = disk'.text
              \/ pc' = "write" /\ ~ModifiedSince(SentVersion)'
              \/ pc' = "put"
      <4>1. ModifiedSince(SentVersion)' => ModifiedSince(SentVersion)
        BY DEF ModifiedSince, SentVersion
      <4>2. Stale' => Stale
        BY DEF Stale, Certain
      <4> QED BY <1>3, <2>1, <2>3, <4>1, <4>2 DEF CleanOK, ReadSteps
    <3> QED BY <3>1, <3>2, <3>3, <3>4 DEF CleanOK
  <2> QED BY <1>1, <1>2, <2>4, <2>5 DEF CleanInv
<1> QED BY <1>4, <1>5

\* Typing makes the editor dirty and cancels all that is under way.
LEMMA CleanOfType ==
    ASSUME AutoSave, TypeOK, TextsInv, CleanInv, Type
    PROVE  CleanInv'
<1>1. /\ buffer'.text = fresh /\ dirty' = TRUE /\ queue' = Cancel(queue, {"sync", "save"})
      /\ ~disposed
      /\ UNCHANGED <<disk, changed, stat, ver, pc, shot, reply, disposed, known, doubtful>>
  BY DEF Type, MarkAsDirty, file, resource
<1>2. queue \in Seq(Ops)
  BY DEF TypeOK, RunningOK
<1>3. /\ queue' \in Seq(Ops) /\ Len(queue') = Len(queue)
      /\ \A i \in 1 .. Len(queue) : queue'[i].revert = queue[i].revert /\ ~queue'[i].live
  <2>1. \A i \in 1 .. Len(queue) : queue[i].kind \in {"sync", "save"}
    BY <1>2, OpFields
  <2> QED BY <1>1, <1>2, <2>1, CancelledOps
<1>4. NoReverts'
  BY <1>3 DEF NoReverts, CleanInv
<1>5. buffer'.text # disk'.text
  BY <1>1, CleanTypes DEF TextsInv
<1>6. pc' # "idle" => ~Head(queue').live
  <2> SUFFICES ASSUME pc # "idle" PROVE ~Head(queue').live
    BY <1>1
  <2>1. 1 \in 1 .. Len(queue)
    BY RunningHead
  <2>2. Head(queue') = queue'[1]
    BY <1>2, <1>3, <2>1, OpFields
  <2> QED BY <1>3, <2>1, <2>2
<1>7. Answers' /\ (StatsOK => StatsOK')
  BY <1>1 DEF Answers, StatsOK, CleanInv
<1>8. CleanOK'
  <2>1. pc \in ReadSteps \/ Captured => pc # "idle"
    BY DEF ReadSteps, Captured
  <2>2. pc = "writeDone" => Captured
    BY DEF Captured
  <2>3. pc = "resolve" /\ Certain(disk.text)' => disk.text = shot.text
    BY <1>1 DEF CleanInv, CleanOK, Certain
  <2>4. ~Captured' \/ ~Head(queue').live
    BY <1>1, <1>6, <2>1 DEF Captured
  <2> QED BY <1>1, <2>2, <2>3, <2>4 DEF CleanOK, Captured
<1> QED BY <1>1, <1>4, <1>5, <1>7, <1>8 DEF CleanInv

\* The timer, a manual save, and dispose.
LEMMA CleanOfCalls ==
    ASSUME TypeOK, CleanInv, Save \/ AutoSaveTimer \/ Dispose
    PROVE  CleanInv'
<1>1. CASE Save
  <2>1. SaveOp(TRUE, FALSE) \in Ops /\ SaveOp(TRUE, FALSE).revert = "no" /\ SaveOp(TRUE, FALSE).kind = "save"
    BY SaveOpType DEF SaveOp, Op
  <2>2. UNCHANGED <<disk, changed, stat, ver, buffer, dirty, rver, shot, reply, disposed, known, doubtful>>
    BY <1>1 DEF Save, file, resource, text, flags
  <2>3. Run(Cancel(queue, {"save"}), SaveOp(TRUE, FALSE))
    BY <1>1 DEF Save
  <2> QED BY <2>1, <2>2, <2>3, CallKeepsClean
<1>2. CASE AutoSaveTimer
  <2> DEFINE op == SaveOp(timer = "live", TRUE)
  <2>1. op \in Ops /\ op.revert = "no" /\ op.kind = "save"
    BY SaveOpType DEF SaveOp, Op
  <2>2. UNCHANGED <<disk, changed, stat, ver, buffer, dirty, rver, shot, reply, disposed, known, doubtful>>
    BY <1>2 DEF AutoSaveTimer, file, resource, text, flags
  <2>3. Cancel(queue, {}) = queue
    BY CancelNothing DEF TypeOK, RunningOK
  <2>4. Run(Cancel(queue, {}), op)
    BY <1>2, <2>3 DEF AutoSaveTimer
  <2> HIDE DEF op
  <2> QED BY <2>1, <2>2, <2>4, CallKeepsClean
<1>3. CASE Dispose
  <2>1. /\ disposed' = TRUE /\ queue' = Cancel(queue, {"sync", "save"})
        /\ UNCHANGED <<disk, ver, buffer, pc, shot, reply, known>>
    BY <1>3 DEF Dispose, text
  <2>2. queue \in Seq(Ops)
    BY DEF TypeOK, RunningOK
  <2>3. NoReverts'
    BY <2>1, <2>2, CancelledOps DEF NoReverts, CleanInv
  <2> QED BY <2>1, <2>3 DEF CleanInv, Answers
<1> QED BY <1>1, <1>2, <1>3

\* The stat for a file change event sees the file as it is.
LEMMA CleanOfNotify ==
    ASSUME TypeOK, CleanInv, Notify
    PROVE  CleanInv'
<1>1. /\ stat' = (IF disk.text = Absent THEN 0 ELSE disk.version) /\ changed' = FALSE
      /\ UNCHANGED <<disk, ver, buffer, dirty, rver, queue, pc, shot, reply, disposed, known, doubtful>>
  BY DEF Notify, text, flags, running
<1>2. ToRead => ToRead'
  BY <1>1, ToReadStays
<1>3. disk.text # Absent /\ Noticed => Noticed'
  BY <1>1, <1>2 DEF Noticed
<1>4. NoReverts' /\ Answers' /\ StatsOK'
  BY <1>1 DEF CleanInv, NoReverts, Answers, StatsOK
<1>5. ModifiedSince(SentVersion)' => ModifiedSince(SentVersion)
  BY <1>1 DEF ModifiedSince, SentVersion
<1>6. CleanOK => CleanOK'
  BY <1>1, <1>2, <1>3, <1>5 DEF CleanOK, Captured, Stale, Certain
<1> QED BY <1>1, <1>4, <1>6 DEF CleanInv

\* A resource that learns of a version it does not know asks for a reload.
LEMMA CleanOfStated ==
    ASSUME TypeOK, VersionsInv, CleanInv, Stated
    PROVE  CleanInv'
<1>1. /\ stat' = NoStat /\ stat # NoStat
      /\ UNCHANGED <<disk, changed, ver, buffer, dirty, rver, shot, reply, disposed, known, doubtful>>
  BY DEF Stated, file, text, flags
<1>2. StatsOK'
  BY <1>1 DEF StatsOK
<1>3. ModifiedSince(SentVersion)' => ModifiedSince(SentVersion)
  BY <1>1 DEF ModifiedSince, SentVersion
<1>4. CASE UNCHANGED <<queue, pc>> /\ (IF stat = 0 THEN ver = 0 ELSE ver # 0 /\ ver >= stat)
  <2>1. ToRead => ToRead'
    BY <1>4, ToReadStays
  <2>2. disk.version >= 1
    BY DEF VersionsInv
  <2>3. Noticed => Noticed'
    BY <1>1, <1>4, <2>1, <2>2, CleanTypes DEF Noticed
  <2>4. NoReverts' /\ Answers'
    BY <1>1, <1>4 DEF CleanInv, NoReverts, Answers
  <2>5. CleanOK => CleanOK'
    BY <1>1, <1>3, <1>4, <2>1, <2>3 DEF CleanOK, Captured, Stale, Certain
  <2> QED BY <1>1, <1>2, <2>4, <2>5 DEF CleanInv
<1>5. CASE Run(Cancel(queue, {"sync"}), SyncOp("no"))
  <2> DEFINE op == SyncOp("no")
  <2>1. op \in Ops /\ op.kind = "sync" /\ op.live /\ op.revert = "no"
    BY SyncOpType DEF SyncOp, Op
  <2>2. Run(Cancel(queue, {"sync"}), op)
    BY <1>5
  <2> HIDE DEF op
  <2>3. NoReverts' /\ ToRead'
    BY <2>1, <2>2, CalledQueue DEF CleanInv
  <2>4. Noticed'
    BY <2>3 DEF Noticed
  <2>5. CASE queue = <<>>
    <3>1. pc' \in {"idle", "read"}
      BY <2>1, <2>2, <2>5, CalledQueue DEF FirstStep
    <3>2. Answers' /\ ~Captured'
      BY <1>1, <2>5, <3>1 DEF TypeOK, RunningOK, CleanInv, Answers, Captured
    <3> QED BY <1>1, <1>2, <2>3, <2>4, <3>1, <3>2 DEF CleanInv, CleanOK
  <2>6. CASE queue # <<>>
    <3>1. pc' = pc /\ (Head(queue').live => Head(queue).live)
      BY <2>1, <2>2, <2>6, CalledQueue
    <3>2. Answers'
      BY <1>1, <3>1 DEF CleanInv, Answers
    <3>3. CleanOK => CleanOK'
      BY <1>1, <2>3, <2>4, <3>1 DEF CleanOK, Captured, Certain
    <3> QED BY <1>1, <1>2, <2>3, <3>2, <3>3 DEF CleanInv
  <2> QED BY <2>5, <2>6
<1> QED BY <1>4, <1>5 DEF Stated

\* A foreign change is newer than what the resource knows, and an event follows it.
LEMMA CleanOfExternal ==
    ASSUME TypeOK, TextsInv, VersionsInv, CleanInv, External
    PROVE  CleanInv'
<1>1. /\ changed' = ~disposed
      /\ UNCHANGED <<stat, ver, buffer, dirty, rver, queue, pc, shot, reply, disposed, known>>
  BY DEF External, resource, text, flags, running
<1>2. NoReverts' /\ Answers' /\ (~disposed => StatsOK')
  BY <1>1 DEF CleanInv, NoReverts, Answers, StatsOK
<1>3. ToRead => ToRead'
  BY <1>1, ToReadStays
<1>4. CASE /\ disk' = [text |-> fresh, version |-> disk.version + 1]
           /\ doubtful' = IF Between THEN doubtful \cup {fresh} ELSE doubtful
  <2>1. disk'.text = fresh /\ disk'.version = disk.version + 1
    BY <1>4
  <2>2. buffer'.text # disk'.text
    BY <1>1, <2>1, CleanTypes DEF TextsInv
  <2>3. ver' < disk'.version /\ reply'.version < disk'.version
    BY <1>1, <2>1, CleanTypes DEF VersionsInv
  <2>4. ~disposed => Noticed'
    BY <1>1, <2>3 DEF Noticed
  <2>5. pc = "resolve" => ~Certain(disk.text)'
    BY <1>4, <2>1 DEF Between, Certain
  <2>6. ~disposed /\ CleanOK => CleanOK'
    BY <1>1, <1>3, <2>3, <2>4, <2>5 DEF CleanOK, Captured
  <2> QED BY <1>1, <1>2, <2>2, <2>6 DEF CleanInv
<1>5. CASE disk' = [disk EXCEPT !.text = Absent]
  <2>1. disk'.text = 0 /\ ~Certain(disk.text)'
    BY <1>5, VersionTypes DEF Certain, Absent
  <2>2. buffer'.text # disk'.text
    BY <1>1, <2>1, CleanTypes DEF TextsInv
  <2>3. CleanOK => CleanOK'
    BY <1>1, <1>3, <2>1 DEF CleanOK, Captured, Stale
  <2> QED BY <1>1, <1>2, <2>2, <2>3 DEF CleanInv
<1> QED BY <1>4, <1>5 DEF External

\* What a request of the running operation leaves alone.
RequestUnchanged == UNCHANGED <<stat, ver, rver, buffer, dirty, queue, shot, disposed>>

\* A reload reads what is in the file.
LEMMA CleanOfReadFirst ==
    ASSUME TypeOK, CleanInv, ReadFirst, RequestUnchanged
    PROVE  CleanInv'
<1>1. /\ pc = "read" /\ pc' = "readRest" /\ reply'.result = "none"
      /\ UNCHANGED <<disk, changed, stat, ver, buffer, dirty, queue, disposed, known, doubtful>>
  BY DEF ReadFirst, RequestUnchanged
<1>2. NoReverts' /\ Answers' /\ (StatsOK => StatsOK')
  BY <1>1 DEF CleanInv, NoReverts, Answers, StatsOK
<1>3. Head(queue) = queue[1]
  BY <1>1, RunningHead
<1>4. ToRead => ToRead' \/ Head(queue).live
  BY <1>1, <1>3 DEF ToRead
<1>5. CleanOK => CleanOK'
  <2> SUFFICES ASSUME CleanOK PROVE CleanOK'
    OBVIOUS
  <2>1. ~Head(queue').live /\ ~dirty' => ToRead'
    BY <1>1, <1>4 DEF CleanOK, ReadSteps
  <2>2. Stale' /\ ~dirty' => Noticed' \/ Head(queue').live
    BY <2>1 DEF Noticed
  <2> QED BY <1>1, <2>1, <2>2 DEF CleanOK, Captured
<1> QED BY <1>1, <1>2, <1>5 DEF CleanInv

LEMMA CleanOfReadSecond ==
    ASSUME TypeOK, VersionsInv, CleanInv, ReadSecond, RequestUnchanged
    PROVE  CleanInv'
<1>1. /\ pc = "readRest" /\ pc' = "readDone" /\ reply'.result = "ok"
      /\ UNCHANGED <<disk, changed, stat, ver, buffer, dirty, queue, disposed, known, doubtful>>
  BY DEF ReadSecond, RequestUnchanged
<1>2. NoReverts' /\ Answers' /\ (StatsOK => StatsOK')
  BY <1>1 DEF CleanInv, NoReverts, Answers, StatsOK
<1>3. ToRead => ToRead'
  BY <1>1, ToReadStays
<1>4. Certain(disk.text) => reply'.text = disk.text
  BY <1>1 DEF ReadSecond, VersionsInv
<1>5. CleanOK => CleanOK'
  <2> SUFFICES ASSUME CleanOK PROVE CleanOK'
    OBVIOUS
  <2>1. ~Head(queue').live /\ ~dirty' => ToRead'
    BY <1>1, <1>3 DEF CleanOK, ReadSteps
  <2>2. Stale' => reply'.text = disk'.text
    BY <1>1, <1>4 DEF Stale, Certain
  <2>3. Stale' /\ ~dirty' => Noticed' \/ (Head(queue').live /\ reply'.text = disk'.text)
    BY <2>1, <2>2 DEF Noticed
  <2> QED BY <1>1, <2>1, <2>3 DEF CleanOK, Captured
<1> QED BY <1>1, <1>2, <1>5 DEF CleanInv

LEMMA CleanOfNotFound ==
    ASSUME TypeOK, CleanInv, pc \in {"read", "readRest"}, pc' = "readDone", disk.text = Absent,
           reply'.result = "notFound", RequestUnchanged, UNCHANGED <<disk, changed, known, doubtful>>
    PROVE  CleanInv'
<1>1. UNCHANGED <<stat, buffer, dirty, queue, disposed>>
  BY DEF RequestUnchanged
<1>2. NoReverts' /\ Answers' /\ (StatsOK => StatsOK')
  BY <1>1 DEF CleanInv, NoReverts, Answers, StatsOK
<1>3. Head(queue) = queue[1]
  BY RunningHead
<1>4. ToRead => ToRead' \/ Head(queue).live
  BY <1>1, <1>3 DEF ToRead
<1>5. ~Certain(disk.text)'
  BY DEF Certain
<1>6. CleanOK => CleanOK'
  BY <1>1, <1>4, <1>5 DEF CleanOK, ReadSteps, Captured, Stale
<1> QED BY <1>1, <1>2, <1>6 DEF CleanInv

\* A reload shows what it has read, unless there is something newer by now, the
\* editor is dirty, or another reload follows.
LEMMA CleanOfReadDone ==
    ASSUME TypeOK, VersionsInv, BaseInv, CleanInv, ReadDone
    PROVE  CleanInv'
<1> DEFINE load == reply.result = "ok" /\ Head(queue).live /\ ~dirty
<1>1. /\ pc = "readDone" /\ UNCHANGED <<disk, changed, stat, disposed, doubtful>>
      /\ ver' = CASE reply.result = "ok" -> reply.version
                  [] reply.result = "notFound" -> 0
                  [] OTHER -> ver
      /\ Finish(buffer'.alt, dirty, saved)
      /\ load => buffer'.text = reply.text /\ known' = known \cup {reply.text}
      /\ ~load => UNCHANGED <<buffer, known>>
  BY DEF ReadDone, file
<1>2. queue # <<>> /\ Head(queue).live \in BOOLEAN /\ dirty \in BOOLEAN
  BY <1>1, RunningHead, CleanTypes
<1>3. buffer'.text = disk.text => disk.text \in known'
  BY <1>1 DEF CleanInv
<1>4. ASSUME ~disposed, Stale', ~dirty
      PROVE  ToRead \/ (ver' < disk.version /\ (changed \/ stat = disk.version))
  <2>1. CleanOK /\ Certain(disk.text) /\ buffer'.text # disk.text
    BY <1>1, <1>4 DEF CleanInv, Stale, Certain
  <2>2. CASE load
    <3>1. reply.text # disk.text /\ ver' = reply.version
      BY <1>1, <2>1, <2>2
    <3>2. reply.version # disk.version
      BY <1>1, <2>1, <2>2, <3>1 DEF BaseInv
    <3>3. disk.text \notin known
      BY <1>1, <2>1, <2>2, <3>2 DEF VersionsInv
    <3>4. Stale
      BY <2>1, <3>3 DEF Stale, CleanInv
    <3>5. Noticed
      BY <1>1, <1>4, <2>1, <3>1, <3>4 DEF CleanOK
    <3>6. ver' < disk.version
      BY <3>1, <3>2, CleanTypes DEF VersionsInv
    <3> QED BY <3>5, <3>6 DEF Noticed
  <2>3. CASE reply.result = "ok" /\ ~load
    BY <1>1, <1>2, <1>4, <2>1, <2>3 DEF CleanOK, ReadSteps
  <2>4. CASE reply.result # "ok"
    <3>1. Stale
      BY <1>1, <2>1, <2>4 DEF Stale
    <3>2. Noticed
      BY <1>1, <1>4, <2>1, <2>4, <3>1 DEF CleanOK
    <3>3. ver' \in {0, ver}
      BY <1>1, <2>4
    <3>4. 0 < disk.version
      BY CleanTypes DEF VersionsInv
    <3> QED BY <3>2, <3>3, <3>4 DEF Noticed
  <2> QED BY <2>2, <2>3, <2>4
<1> HIDE DEF load
<1> QED BY <1>1, <1>2, <1>3, <1>4, EndKeepsClean

\* What a save captures, edits of participants included, it will write, unless the
\* file is newer.
LEMMA CleanOfWillSave ==
    ASSUME TypeOK, TextsInv, VersionsInv, BaseInv', CleanInv, WillSave
    PROVE  CleanInv'
<1>1. pc = "willSave" /\ UNCHANGED <<disk, changed, stat, ver, rver, disposed, known, doubtful>>
  BY DEF WillSave, file, resource
<1>2. queue # <<>> /\ Head(queue).live \in BOOLEAN /\ dirty \in BOOLEAN
  BY <1>1, RunningHead, CleanTypes
<1>3. \/ UNCHANGED <<buffer, journal>>
      \/ buffer'.text = fresh /\ Head(queue).live /\ journal' # <<>>
  <2>1. CASE UNCHANGED text
    BY <2>1 DEF text
  <2>2. CASE Head(queue).live /\ buffer' = [text |-> fresh, alt |-> fresh] /\ Record(fresh)
    <3>1. journal' \in Seq([from : Nat, to : Nat]) /\ Len(journal') = Len(journal) + 1 /\ Len(journal) \in Nat
      BY <2>2, RecordType, CleanTypes, LenProperties DEF TypeOK, TextOK
    <3>2. journal' # <<>>
      BY <3>1, EmptySeq
    <3> QED BY <2>2, <3>2
  <2> QED BY <2>1, <2>2 DEF WillSave
<1>4. buffer'.text = disk.text => disk.text \in known
  BY <1>3, CleanTypes DEF CleanInv, TextsInv
<1>5. ASSUME ~disposed, Stale, ~dirty PROVE Noticed
  BY <1>1, <1>5 DEF CleanInv, CleanOK
<1>6. CASE Finish(buffer'.alt, dirty, saved) /\ (~Head(queue).live \/ journal' = <<>>)
  <2>1. UNCHANGED buffer
    BY <1>3, <1>6
  <2>2. ~disposed /\ Stale' /\ ~dirty =>
            ToRead \/ (ver' < disk.version /\ (changed \/ stat = disk.version))
    BY <1>1, <1>5, <2>1 DEF Stale, Certain, Noticed
  <2> QED BY <1>1, <1>2, <1>4, <1>6, <2>2, EndKeepsClean
<1>7. CASE /\ shot' = [text |-> buffer'.text, changes |-> Len(journal')]
           /\ \E step \in (IF Incremental THEN {"update", "write"} ELSE {"write"}) : Goto(step)
           /\ UNCHANGED <<dirty, saved, reply>>
  <2>1. pc' = "write" /\ UNCHANGED <<queue, dirty, reply>> /\ shot'.text = buffer'.text
    BY <1>7 DEF BaseInv, Goto
  <2>2. NoReverts' /\ Answers' /\ (StatsOK => StatsOK')
    BY <1>1, <2>1 DEF CleanInv, NoReverts, Answers, StatsOK
  <2>3. Noticed => Noticed'
    BY <1>1, <2>1, ToReadStays DEF Noticed
  <2>4. ASSUME ~disposed, ~dirty, Stale', ModifiedSince(SentVersion)' PROVE Noticed'
    <3>1. SentVersion # 0 /\ SentVersion < disk.version /\ Certain(disk.text)
      BY <1>1, <2>4 DEF ModifiedSince, SentVersion, Stale, Certain
    <3>2. disk.text \notin known
      <4>1. reply.result # "ok"
        BY <1>1 DEF VersionsInv
      <4>2. disk.text \in known => ver = disk.version /\ rver = disk.version
        BY <1>1, <3>1, <4>1 DEF VersionsInv
      <4>3. SentVersion \in {ver, rver}
        BY DEF SentVersion
      <4> QED BY <3>1, <4>2, <4>3, CleanTypes
    <3>3. Stale
      BY <3>1, <3>2 DEF Stale, CleanInv
    <3> QED BY <1>5, <2>3, <2>4, <3>3
  <2>5. ~disposed => CleanOK'
    BY <2>1, <2>4 DEF CleanOK, Captured, ReadSteps
  <2> QED BY <1>1, <1>4, <2>2, <2>5 DEF CleanInv
<1> QED BY <1>6, <1>7 DEF WillSave

\* A write that goes through leaves in the file what was captured.
LEMMA CleanOfWritten ==
    ASSUME TypeOK, CleanInv, pc # "patch", Written, RequestUnchanged
    PROVE  CleanInv'
<1>1. /\ disk'.text = shot.text /\ known' = known \cup {disk'.text} /\ changed' = ~disposed
      /\ Captured /\ pc' = "resolve" /\ reply'.result = "none"
      /\ UNCHANGED <<stat, buffer, dirty, queue, shot, disposed>>
  BY DEF Written, RequestUnchanged, Captured
<1>2. NoReverts' /\ Answers' /\ (~disposed => StatsOK')
  BY <1>1 DEF CleanInv, NoReverts, Answers, StatsOK
<1>3. ~dirty /\ CleanOK => ~Stale'
  BY <1>1 DEF CleanOK, Stale
<1>4. CleanOK => CleanOK'
  BY <1>1, <1>3 DEF CleanOK, Captured, ReadSteps
<1> QED BY <1>1, <1>2, <1>4 DEF CleanInv

\* Unless another program came between, the version is asked of what was written.
LEMMA CleanOfVersioned ==
    ASSUME TypeOK, CleanInv, pc = "resolve", Versioned, RequestUnchanged
    PROVE  CleanInv'
<1>1. /\ pc' = "writeDone" /\ Captured
      /\ UNCHANGED <<disk, changed, stat, buffer, dirty, queue, shot, disposed, known, doubtful>>
  BY DEF Versioned, RequestUnchanged, Captured
<1>2. NoReverts' /\ Answers' /\ (StatsOK => StatsOK')
  BY <1>1 DEF CleanInv, NoReverts, Answers, StatsOK
<1>3. CleanOK /\ Certain(disk.text)' => disk'.text = shot'.text
  BY <1>1 DEF CleanOK, Certain
<1>4. ~dirty /\ CleanOK => ~Stale'
  BY <1>1, <1>3 DEF CleanOK, Stale
<1>5. CleanOK => CleanOK'
  BY <1>1, <1>3, <1>4 DEF CleanOK, Captured, ReadSteps
<1> QED BY <1>1, <1>2, <1>5 DEF CleanInv

\* The check of a save finds no newer file.
LEMMA CleanOfChecked ==
    ASSUME TypeOK, CleanInv, pc = "write", Checked, RequestUnchanged
    PROVE  CleanInv'
<1>1. /\ pc' = "put" /\ reply'.result = "none"
      /\ UNCHANGED <<disk, changed, stat, buffer, dirty, queue, shot, disposed, known, doubtful>>
  BY DEF Checked, RequestUnchanged
<1>2. NoReverts' /\ Answers' /\ (StatsOK => StatsOK')
  BY <1>1 DEF CleanInv, NoReverts, Answers, StatsOK
<1>3. CleanOK => CleanOK'
  BY <1>1 DEF CleanOK, Captured, ReadSteps
<1> QED BY <1>1, <1>2, <1>3 DEF CleanInv

\* A save whose captured content meets a newer file, or waits for the user.
LEMMA CleanOfWaiting ==
    ASSUME TypeOK, CleanInv, pc \in {"write", "ask"}, pc' \in {"ask", "force"},
           pc = "write" => ModifiedSince(SentVersion),
           reply'.result # "failed",
           RequestUnchanged, UNCHANGED <<disk, changed, known, doubtful>>
    PROVE  CleanInv'
<1>1. NoReverts' /\ Answers' /\ (StatsOK => StatsOK')
  BY DEF RequestUnchanged, CleanInv, NoReverts, Answers, StatsOK
<1>2. Noticed => Noticed'
  BY ToReadStays DEF RequestUnchanged, Noticed
<1>3. CleanOK => CleanOK'
  BY <1>2 DEF RequestUnchanged, CleanOK, Captured, ReadSteps, Stale, Certain
<1> QED BY <1>1, <1>3 DEF RequestUnchanged, CleanInv

LEMMA CleanOfRequests ==
    ASSUME ~Fail, TypeOK, VersionsInv, BaseInv, CleanInv, Read \/ ReadRest \/ Write \/ Put \/ Resolve
    PROVE  CleanInv'
<1>1. /\ UNCHANGED <<ver, rver>>
      /\ ReadFirst \/ ReadSecond \/ Refused \/ Checked \/ Written \/ Versioned
  BY RequestEffects DEF Failed
<1>2. RequestUnchanged /\ pc \notin {"update", "patch", "patched"}
  BY <1>1 DEF RequestUnchanged, Read, ReadRest, Write, Put, Resolve, Goto, resource, text, flags, BaseInv
<1>3. CASE ReadFirst
  BY <1>2, <1>3, CleanOfReadFirst
<1>4. CASE ReadSecond
  BY <1>2, <1>4, CleanOfReadSecond
<1>5. CASE Refused
  <2>1. UNCHANGED <<disk, changed, known, doubtful>>
    BY <1>5 DEF Refused
  <2>2. CASE pc \in {"read", "readRest"}
    BY <1>2, <1>5, <2>1, <2>2, CleanOfNotFound DEF Refused
  <2>3. CASE pc = "write"
    BY <1>2, <1>5, <2>1, <2>3, CleanOfWaiting DEF Refused
  <2> QED BY <1>2, <1>5, <2>2, <2>3 DEF Refused
<1>6. CASE Checked
  BY <1>2, <1>6, CleanOfChecked DEF Checked
<1>7. CASE Written
  BY <1>2, <1>7, CleanOfWritten DEF Written
<1>8. CASE Versioned
  BY <1>2, <1>8, CleanOfVersioned DEF Versioned
<1> QED BY <1>1, <1>3, <1>4, <1>5, <1>6, <1>7, <1>8

LEMMA CleanOfAsk ==
    ASSUME TypeOK, CleanInv, Ask
    PROVE  CleanInv'
<1>1. CASE Finish(buffer.alt, dirty, saved)
  <2>1. /\ pc = "ask" /\ queue # <<>> /\ dirty \in BOOLEAN
        /\ UNCHANGED <<disk, changed, stat, ver, buffer, disposed, known, doubtful>>
    BY RunningHead, CleanTypes DEF Ask, file, resource, text
  <2>2. buffer'.text = disk.text => disk.text \in known'
    BY <2>1 DEF CleanInv
  <2>3. ~disposed /\ Stale' /\ ~dirty =>
            ToRead \/ (ver' < disk.version /\ (changed \/ stat = disk.version))
    BY <2>1 DEF CleanInv, CleanOK, Stale, Certain, Noticed
  <2> QED BY <1>1, <2>1, <2>2, <2>3, EndKeepsClean
<1>2. CASE Goto("force") /\ UNCHANGED <<dirty, saved, shot, reply>>
  <2>1. RequestUnchanged /\ UNCHANGED <<disk, changed, known, doubtful>>
        /\ pc = "ask" /\ pc' = "force" /\ reply'.result # "failed"
    BY <1>2 DEF RequestUnchanged, Ask, Goto, file, resource, text, CleanInv, Answers
  <2> QED BY <2>1, CleanOfWaiting
<1> QED BY <1>1, <1>2 DEF Ask

\* The end of a save: the editor becomes clean only when it shows what was written.
LEMMA CleanOfWriteDone ==
    ASSUME TypeOK, CleanInv, WriteDone
    PROVE  CleanInv'
<1>1. /\ pc = "writeDone" /\ queue # <<>> /\ Head(queue).live \in BOOLEAN /\ dirty \in BOOLEAN
      /\ UNCHANGED <<disk, changed, stat, buffer, disposed, known, doubtful>>
  BY RunningHead, CleanTypes DEF WriteDone, file
<1>2. buffer'.text = disk.text => disk.text \in known'
  BY <1>1 DEF CleanInv
<1>3. CASE reply.result = "ok"
  <2>1. ver' = reply.version /\ AfterSave
    BY <1>3 DEF WriteDone
  <2>2. PICK savedId : Finish(buffer.alt, dirty /\ ~Head(queue).live, savedId)
    <3>1. CASE Head(queue).live
      <4>1. Finish(buffer.alt, FALSE, IF dirty THEN buffer.alt ELSE saved)
            /\ (dirty /\ ~Head(queue).live) = FALSE
        BY <2>1, <3>1 DEF AfterSave
      <4> QED BY <4>1
    <3>2. CASE ~Head(queue).live
      <4>1. Finish(buffer.alt, dirty, saved) /\ (dirty /\ ~Head(queue).live) = dirty
        BY <1>1, <2>1, <3>2 DEF AfterSave
      <4> QED BY <4>1
    <3> QED BY <3>1, <3>2
  <2>3. ASSUME ~disposed, Stale', ~(dirty /\ ~Head(queue).live)
        PROVE  ToRead \/ (ver' < disk.version /\ (changed \/ stat = disk.version))
    <3>1. CleanOK /\ Certain(disk.text) /\ buffer.text # disk.text
      BY <1>1, <2>3 DEF CleanInv, Stale, Certain
    <3>2. buffer.text = shot.text
      BY <1>1, <2>3, <3>1 DEF CleanOK, Captured
    <3>3. Noticed /\ reply.version < disk.version
      BY <1>1, <2>3, <3>1, <3>2 DEF CleanOK
    <3> QED BY <2>1, <3>3 DEF Noticed
  <2>4. (dirty /\ ~Head(queue).live) \in BOOLEAN /\ pc # "read"
    BY <1>1
  <2> QED BY <1>1, <1>2, <2>2, <2>3, <2>4, EndKeepsClean
<1>4. CASE reply.result # "ok"
  <2>1. Finish(buffer.alt, dirty, saved) /\ UNCHANGED ver
    BY <1>4 DEF WriteDone
  <2>2. ASSUME ~disposed, Stale', ~dirty
        PROVE  ToRead \/ (ver' < disk.version /\ (changed \/ stat = disk.version))
    BY <1>1, <2>1, <2>2 DEF CleanInv, CleanOK, Stale, Certain, Noticed
  <2> QED BY <1>1, <1>2, <2>1, <2>2, EndKeepsClean
<1> QED BY <1>3, <1>4

LEMMA CleanStep ==
    ASSUME AutoSave, ~Incremental, MaxUndos = 0, MaxReverts = 0, MaxFailures = 0,
           TypeOK, TextsInv, VersionsInv, BaseInv, CleanInv, [Next]_vars
    PROVE  CleanInv'
<1>1. ~Undo /\ ~Revert /\ ~RevertSoft /\ ~Fail
  <2>1. \A b \in Bounds : used[b] \in Nat
    BY DEF TypeOK, FlagsOK
  <2>2. \A b \in {"undo", "revert", "failure"} : ~Spend(b)
    BY <2>1 DEF Spend, Limits, Bounds
  <2> QED BY <2>2 DEF Undo, Revert, RevertSoft, Fail
<1>2. BaseInv' /\ ~Update /\ ~Patch /\ ~UpdateDone
  BY BaseStep DEF BaseInv, Update, Patch, UpdateDone
<1>3. CASE UNCHANGED vars
  <2>1. UNCHANGED <<disk, changed, stat, ver, buffer, dirty, rver, queue, pc, shot, reply, disposed, known, doubtful>>
    BY <1>3 DEF vars, file, resource, text, flags, running
  <2> QED BY <2>1 DEF CleanInv, NoReverts, Answers, StatsOK, CleanOK, Captured, Stale, Certain, Noticed,
                      ToRead, ModifiedSince, SentVersion
<1>4. CASE Type \/ Save \/ AutoSaveTimer \/ Dispose \/ Notify \/ Stated \/ External
  BY <1>4, CleanOfType, CleanOfCalls, CleanOfNotify, CleanOfStated, CleanOfExternal
<1>5. CASE Step
  BY <1>1, <1>2, <1>5, CleanOfReadDone, CleanOfWillSave, CleanOfRequests, CleanOfAsk, CleanOfWriteDone DEF Step
<1> QED BY <1>1, <1>3, <1>4, <1>5 DEF Next

\* An editor that is not marked dirty shows what is in the file once everything has
\* settled (setDirty, doSave, doSync), whatever edits, edits of participants, saves and
\* changes by other programs come in whatever order, with auto save and full saves, as
\* long as nothing is undone or reverted and no request fails; except when another
\* program wrote what is in the file between two requests of an operation of the editor.
THEOREM CleanEditorsAreSaved ==
    ASSUME AutoSave, ~Incremental, MaxUndos = 0, MaxReverts = 0, MaxFailures = 0
    PROVE  Spec => []CleanMeansSaved
<1>1. Init => CleanInv
  BY EmptySeq DEF Init, CleanInv, NoReverts, Answers, StatsOK, CleanOK, Captured, ReadSteps, Stale, NoReply
<1>2. TypeOK /\ TextsInv /\ VersionsInv /\ BaseInv /\ CleanInv /\ [Next]_vars => CleanInv'
  BY CleanStep
<1>3. TypeOK /\ VersionsInv /\ CleanInv => CleanMeansSaved
  <2> SUFFICES ASSUME TypeOK, VersionsInv, CleanInv, Quiet, ~dirty, ~disposed, Stale
               PROVE  FALSE
    BY DEF CleanMeansSaved, Stale, Certain
  <2>1. queue = <<>> /\ pc = "idle" /\ ~changed /\ stat = -1
    BY DEF Quiet, NoStat, TypeOK, RunningOK
  <2>2. Noticed
    BY <2>1 DEF CleanInv, CleanOK
  <2>3. ~ToRead
    BY <2>1, EmptySeq DEF ToRead
  <2> QED BY <2>1, <2>2, <2>3, CleanTypes DEF Noticed, VersionsInv
<1> QED BY <1>1, <1>2, <1>3, TypeCorrect, VersionsCorrect, BaseCorrect, PTL DEF Spec
=============================================================================
