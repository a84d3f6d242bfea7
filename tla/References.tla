------------------------------ MODULE References ------------------------------
(***************************************************************************)
(* ReferenceCollection: a value that is created when it is first asked for, *)
(* shared by all who ask, and disposed with the last reference to it.       *)
(*                                                                         *)
(* Keys share nothing, so one key is modelled. Everything runs in one       *)
(* thread; what matters is the order of the continuations (microtasks) of   *)
(* the promises an acquisition waits for, which is kept exactly.            *)
(*                                                                         *)
(* Source: packages/core/src/common/reference.ts, and DisposableCollection  *)
(* of packages/core/src/common/disposable.ts                                *)
(***************************************************************************)
EXTENDS Integers, Sequences

CONSTANTS
    MaxAcquisitions,  \* bound: calls of acquire
    MaxClears         \* bound: calls of clear, dispose, or of dispose of a value

ASSUME ReferenceAssumption == MaxAcquisitions \in Nat /\ MaxClears \in Nat

VARIABLES
    values,        \* the calls of the factory and what has become of each
    pending,       \* pendingValues: the call of the factory that is waited for, or 0
    current,       \* _values: the value of the key, or 0
    known,         \* _keys: whether the key is listed
    references,    \* the collection of references of the key, or 0
    collections,   \* the DisposableCollections made so far
    acquisitions,  \* the calls of acquire and what has become of each
    jobs,          \* the microtasks that are queued
    clears,        \* calls of clear and of dispose of a value so far
    cleared,       \* history: values that were disposed by such a call
    careful        \* history: nobody has done what the collection does not cope with

vars == <<values, pending, current, known, references, collections, acquisitions, jobs,
          clears, cleared, careful>>

NewValue(status) == [status |-> status, disposals |-> 0, waiters |-> <<>>]

\* A microtask: a step of an acquisition that waits for a value.
Job(type, a, v) == [type |-> type, acquisition |-> a, value |-> v]

Alive(v) == values[v].status = "created" /\ values[v].disposals = 0

\* Wrappers around the dispose of a value, one for each collection made for it.
CollectionsOf(v) == {c \in DOMAIN collections : collections[c].value = v}

-----------------------------------------------------------------------------
(* Disposal *)

\* The call of dispose of a value, where colls are the collections before it. The
\* wrapper disposes the object, takes the key out of the maps, whatever they say of
\* it by now, and disposes the references; a collection that becomes empty by that
\* disposes the value once more.
DisposeValue(v, colls) ==
    LET wrapped == CollectionsOf(v)
        again == \E c \in wrapped : colls[c].members # {}
    IN  /\ values' = [values EXCEPT ![v].disposals = @ + (IF again THEN 2 ELSE 1)]
        /\ collections' = [c \in DOMAIN colls |->
               IF c \in wrapped THEN [colls[c] EXCEPT !.members = {}] ELSE colls[c]]
        /\ IF wrapped = {} THEN UNCHANGED <<current, known, references>>
           ELSE current' = 0 /\ known' = FALSE /\ references' = 0

\* Faulty: every reference that is disposed disposes the value.
ReleaseAlways(a) ==
    /\ acquisitions[a].status = "held"
    /\ acquisitions' = [acquisitions EXCEPT ![a].status = "released"]
    /\ DisposeValue(acquisitions[a].value, collections)
    /\ UNCHANGED <<pending, jobs, clears, cleared, careful>>

\* A user disposes its reference: the last one disposes the value its collection was made for.
Release(a) ==
    LET in == {c \in DOMAIN collections : a \in collections[c].members}
        left == [c \in DOMAIN collections |-> [collections[c] EXCEPT !.members = @ \ {a}]]
        emptied == {c \in in : left[c].members = {}}
    IN  /\ acquisitions[a].status = "held"
        /\ acquisitions' = [acquisitions EXCEPT ![a].status = "released"]
        /\ IF emptied = {}
           THEN collections' = left /\ UNCHANGED <<values, current, known, references>>
           ELSE \E c \in emptied : DisposeValue(collections[c].value, left)
        /\ UNCHANGED <<pending, jobs, clears, cleared, careful>>

\* Acquisitions that are about to get a reference to v.
Coming(v) == {jobs[i].acquisition : i \in {j \in DOMAIN jobs : jobs[j].type = "acquire" /\ jobs[j].value = v}}

DisposedByCall(v) ==
    /\ clears < MaxClears
    /\ clears' = clears + 1
    /\ DisposeValue(v, collections)
    /\ cleared' = cleared \cup {v}
    /\ careful' = (careful /\ Coming(v) = {})
    /\ UNCHANGED <<pending, acquisitions, jobs>>

\* clear and dispose of the collection: only values that are already there are disposed.
Clear == current # 0 /\ DisposedByCall(current)

\* A user disposes the value itself.
DisposeObject(a) ==
    /\ acquisitions[a].status = "held"
    /\ Alive(acquisitions[a].value)
    /\ DisposedByCall(acquisitions[a].value)

-----------------------------------------------------------------------------
(* Acquisition *)

\* Faulty: the collection of references is made anew for every reference.
DoAcquireAlone(a, v) ==
    /\ references' = Len(collections) + 1
    /\ collections' = Append(collections, [value |-> v, members |-> {a}])

\* doAcquire: the collection of the key, which is not always that of the value.
DoAcquire(a, v) ==
    IF references # 0
    THEN /\ collections' = [collections EXCEPT ![references].members = @ \cup {a}]
         /\ UNCHANGED references
    ELSE /\ references' = Len(collections) + 1
         /\ collections' = Append(collections, [value |-> v, members |-> {a}])

\* A value that was created before is there, or its creation is under way.
AcquireExisting(a) ==
    /\ current # 0
    /\ acquisitions' = Append(acquisitions, [status |-> "granted", value |-> current])
    /\ DoAcquire(a, current)
    /\ jobs' = Append(jobs, Job("deliver", a, current))
    /\ UNCHANGED <<values, pending, current, known, careful>>

\* The factory's promise is returned from an async function, which takes two more jobs;
\* a value that is no promise is there in the next one.
AcquirePending(a) ==
    /\ current = 0 /\ pending # 0
    /\ acquisitions' = Append(acquisitions, [status |-> "asked", value |-> pending])
    /\ jobs' = Append(jobs, Job(IF values[pending].status = "plain" THEN "acquire" ELSE "follow", a, pending))
    /\ careful' = (careful /\ values[pending].status # "resolved")
    /\ UNCHANGED <<values, pending, current, known, references, collections>>

\* Faulty: getOrCreateValue does not look for a value that is being created.
AcquireNewAlways(a) ==
    LET v == Len(values) + 1
    IN  /\ current = 0
        /\ values' = Append(values, [NewValue("pending") EXCEPT !.waiters = <<Job("create", a, v)>>])
        /\ pending' = v
        /\ known' = TRUE
        /\ acquisitions' = Append(acquisitions, [status |-> "asked", value |-> v])
        /\ UNCHANGED <<current, references, collections, jobs, careful>>

\* The factory is called: it returns a promise or a value, or it throws.
AcquireNew(a) ==
    LET v == Len(values) + 1
    IN  /\ current = 0 /\ pending = 0
        /\ \/ /\ values' = Append(values, [NewValue("pending") EXCEPT !.waiters = <<Job("create", a, v)>>])
              /\ pending' = v
              /\ known' = TRUE
              /\ UNCHANGED jobs
           \/ /\ values' = Append(values, NewValue("plain"))
              /\ pending' = v
              /\ known' = TRUE
              /\ jobs' = Append(jobs, Job("create", a, v))
           \/ /\ values' = Append(values, NewValue("failed"))
              /\ jobs' = Append(jobs, Job("acquire", a, v))
              /\ UNCHANGED <<pending, known>>
        /\ acquisitions' = Append(acquisitions, [status |-> "asked", value |-> v])
        /\ UNCHANGED <<current, references, collections, careful>>

Acquire ==
    LET a == Len(acquisitions) + 1
    IN  /\ a <= MaxAcquisitions
        /\ AcquireExisting(a) \/ AcquirePending(a) \/ AcquireNew(a)
        /\ UNCHANGED <<clears, cleared>>

\* The promise of the factory is settled: its reactions are queued.
Settle(v) ==
    /\ values[v].status = "pending"
    /\ \E status \in {"resolved", "failed"} :
          values' = [values EXCEPT ![v].status = status, ![v].waiters = <<>>]
    /\ jobs' = jobs \o values[v].waiters
    /\ UNCHANGED <<pending, current, known, references, collections, acquisitions, clears, cleared, careful>>

-----------------------------------------------------------------------------
(* The jobs *)

\* Faulty: a creation that failed stays in pendingValues.
CreateWithoutFinally(job) ==
    /\ IF values[job.value].status = "failed"
       THEN known' = FALSE /\ UNCHANGED <<values, current, pending>>
       ELSE /\ values' = [values EXCEPT ![job.value].status = "created"]
            /\ current' = job.value
            /\ pending' = 0
            /\ UNCHANGED known
    /\ jobs' = Append(Tail(jobs), Job("acquire", job.acquisition, job.value))
    /\ UNCHANGED <<references, collections, acquisitions>>

\* getOrCreateValue after the factory's promise.
Create(job) ==
    /\ IF values[job.value].status = "failed"
       THEN known' = FALSE /\ UNCHANGED <<values, current>>
       ELSE /\ values' = [values EXCEPT ![job.value].status = "created"]
            /\ current' = job.value
            /\ UNCHANGED known
    /\ pending' = 0
    /\ jobs' = Append(Tail(jobs), Job("acquire", job.acquisition, job.value))
    /\ UNCHANGED <<references, collections, acquisitions>>

\* The promise of another acquisition's creation is adopted.
Follow(job) ==
    /\ IF values[job.value].status = "pending"
       THEN /\ values' = [values EXCEPT ![job.value].waiters = Append(@, [job EXCEPT !.type = "adopt"])]
            /\ jobs' = Tail(jobs)
       ELSE /\ jobs' = Append(Tail(jobs), [job EXCEPT !.type = "adopt"])
            /\ UNCHANGED values
    /\ UNCHANGED <<pending, current, known, references, collections, acquisitions>>

Adopt(job) ==
    /\ jobs' = Append(Tail(jobs), [job EXCEPT !.type = "acquire"])
    /\ UNCHANGED <<values, pending, current, known, references, collections, acquisitions>>

\* acquire after getOrCreateValue.
AcquireCreated(job) ==
    /\ IF values[job.value].status = "failed"
       THEN UNCHANGED <<references, collections, acquisitions>>
       ELSE /\ DoAcquire(job.acquisition, job.value)
            /\ acquisitions' = [acquisitions EXCEPT ![job.acquisition].status = "granted"]
    /\ jobs' = Append(Tail(jobs), [job EXCEPT !.type = "deliver"])
    /\ UNCHANGED <<values, pending, current, known>>

\* The user gets its reference, or an error.
Deliver(job) ==
    /\ acquisitions' = [acquisitions EXCEPT ![job.acquisition].status =
                            IF values[job.value].status = "failed" THEN "failed" ELSE "held"]
    /\ jobs' = Tail(jobs)
    /\ UNCHANGED <<values, pending, current, known, references, collections>>

RunJob ==
    /\ jobs # <<>>
    /\ LET job == Head(jobs)
       IN  \/ job.type = "create" /\ Create(job)
           \/ job.type = "follow" /\ Follow(job)
           \/ job.type = "adopt" /\ Adopt(job)
           \/ job.type = "acquire" /\ AcquireCreated(job)
           \/ job.type = "deliver" /\ Deliver(job)
    /\ UNCHANGED <<clears, cleared, careful>>

-----------------------------------------------------------------------------
Init ==
    /\ values = <<>> /\ pending = 0 /\ current = 0 /\ known = FALSE
    /\ references = 0 /\ collections = <<>>
    /\ acquisitions = <<>> /\ jobs = <<>>
    /\ clears = 0 /\ cleared = {} /\ careful = TRUE

User(a) == Release(a) \/ DisposeObject(a)
Next ==
    \/ Acquire \/ Clear \/ RunJob
    \/ \E v \in DOMAIN values : Settle(v)
    \/ \E a \in DOMAIN acquisitions : User(a)

Spec == Init /\ [][Next]_vars

-----------------------------------------------------------------------------
JobType == [type : {"create", "follow", "adopt", "acquire", "deliver"},
            acquisition : DOMAIN acquisitions, value : DOMAIN values]

\* Every variable has its type.
TypeOK ==
    /\ values \in Seq([status : {"pending", "plain", "resolved", "failed", "created"},
                       disposals : Nat, waiters : Seq(JobType)])
    /\ pending \in 0 .. Len(values) /\ current \in 0 .. Len(values)
    /\ known \in BOOLEAN /\ careful \in BOOLEAN
    /\ collections \in Seq([value : DOMAIN values, members : SUBSET DOMAIN acquisitions])
    /\ references \in 0 .. Len(collections)
    /\ acquisitions \in Seq([status : {"asked", "granted", "held", "released", "failed"},
                             value : DOMAIN values])
    /\ jobs \in Seq(JobType)
    /\ clears \in 0 .. MaxClears
    /\ cleared \subseteq DOMAIN values

\* Whoever has a reference, or is about to be handed one, has a value that is not
\* disposed, unless somebody disposed it in spite of its users.  All that depends on the
\* order of the microtasks of acquisitions that share a creation.  `careful' excludes what
\* the collection does not cope with: an acquisition after the factory's promise has been
\* settled and before the creation goes on (its continuation comes so late that the first
\* user may have disposed the value), and a disposal while a reference is on its way.
KeptForItsUsers ==
    careful => \A a \in DOMAIN acquisitions :
                  acquisitions[a].status \in {"granted", "held"}
                      => Alive(acquisitions[a].value) \/ acquisitions[a].value \in cleared

\* As long as nobody does what `careful' excludes,
\* a value that is not disposed is the one the next user gets, its key is listed,
\* and it has a user or will have one: none is left behind.
NothingLeaks ==
    careful => \A v \in DOMAIN values : Alive(v)
                  => /\ current = v /\ pending = 0 /\ known
                     /\ \/ Coming(v) # {}
                        \/ references # 0 /\ collections[references].value = v
                              /\ collections[references].members # {}

\* The maps agree: a key is listed as long as there is a value or one is being
\* created, what is waited for is really under way, also after the factory has
\* failed, and the references of the key are those of its value.
MapsAgree ==
    careful => /\ known <=> (current # 0 \/ pending # 0)
               /\ pending # 0 => \/ values[pending].status = "pending"
                                \/ \E i \in DOMAIN jobs : jobs[i].type = "create" /\ jobs[i].value = pending
               /\ references # 0 => collections[references].value = current

\* A value is disposed once; twice when it is disposed in spite of its users, and
\* never while it is not created.
DisposedOnce ==
    careful => \A v \in DOMAIN values :
                  /\ values[v].disposals <= IF v \in cleared THEN 2 ELSE 1
                  /\ values[v].status # "created" => values[v].disposals = 0
=============================================================================
