---------------------------- MODULE EditorModel ----------------------------
(***************************************************************************)
(* A text editor model (MonacoEditorModel), the FileResource it loads from  *)
(* and saves to, and the file on disk, which other programs change too.     *)
(*                                                                         *)
(* Saves and reloads (`sync') are queued by `run' and executed one after    *)
(* another; each is asynchronous, and between its steps the user types,     *)
(* the file changes, watch events arrive and cancellation tokens fire.      *)
(* The head of `queue' is the running operation and `pc' its next step.     *)
(* The JavaScript between two awaits of remote calls is one step.           *)
(*                                                                         *)
(* Sources: packages/monaco/src/browser/monaco-editor-model.ts,             *)
(* packages/filesystem/src/browser/file-resource.ts,                        *)
(* packages/core/src/common/resource.ts, and from                           *)
(* packages/filesystem/src/browser/file-service.ts the conflict check.      *)
(*                                                                         *)
(* A content is a number, new for every edit and every external change, so  *)
(* two contents are equal only when one was copied from the other; 0 is the *)
(* absent file.  A version (mtime and etag) is the number of the disk write *)
(* it was taken from; 0 is `undefined'.                                     *)
(***************************************************************************)
EXTENDS Integers, Sequences, SequencesExt

CONSTANTS
    AutoSave,       \* the preference editor.autoSave is 'on'
    Incremental,    \* the file system provider has the Update capability
    MaxEdits,       \* bound: edits typed
    MaxFormats,     \* bound: edits made by onWillSave participants
    MaxUndos,       \* bound: undone edits
    MaxSaves,       \* bound: manual saves
    MaxReverts,     \* bound: calls of revert
    MaxExternal,    \* bound: changes of the file by other programs
    MaxFailures     \* bound: failing file system requests

ASSUME ModeAssumption == AutoSave \in BOOLEAN /\ Incremental \in BOOLEAN
ASSUME BoundAssumption ==
    /\ MaxEdits \in Nat /\ MaxFormats \in Nat /\ MaxUndos \in Nat /\ MaxSaves \in Nat
    /\ MaxReverts \in Nat /\ MaxExternal \in Nat /\ MaxFailures \in Nat

VARIABLES
    disk,       \* the file: its content and the number of its last write
    changed,    \* a file change event is on its way to the FileResource
    stat,       \* the answer to the stat sent by FileResource.sync, or NoStat
    ver,        \* FileResource._version
    buffer,     \* the monaco model: its content and alternative version id
    past,       \* the undo stack: earlier states of the buffer
    saved,      \* bufferSavedVersionId
    dirty,      \* _dirty
    valid,      \* _valid
    rver,       \* resourceVersion
    journal,    \* contentChanges, each from one content to the next
    timer,      \* the auto save timer: none, or whether its token is live
    queue,      \* the operations passed to run and not finished
    pc,         \* the next step of the running operation
    shot,       \* doSave: the content and the number of changes it captured
    reply,      \* the answer of the file service to the running operation
    disposed,   \* toDispose.disposed
    fresh,      \* the next unused content
    used,       \* how much of each bound is used up
    known,      \* history: contents the editor loaded from or wrote to disk
    doubtful    \* history: contents whose version the editor may have missed

file == <<disk, changed>>
resource == <<stat, ver>>
text == <<buffer, past, journal>>
flags == <<saved, dirty, valid, rver>>
running == <<queue, pc, shot, reply>>
vars == <<file, resource, text, flags, timer, running, disposed, fresh, used, known, doubtful>>

Absent == 0
NoStat == -1
Bounds == {"edit", "format", "undo", "save", "revert", "external", "failure"}
Limits == [edit |-> MaxEdits, format |-> MaxFormats, undo |-> MaxUndos, save |-> MaxSaves,
           revert |-> MaxReverts, external |-> MaxExternal, failure |-> MaxFailures]

\* One more use of the bound `b'.
Spend(b) ==
    /\ used[b] < Limits[b]
    /\ used' = [used EXCEPT ![b] = used[b] + 1]

-----------------------------------------------------------------------------
(* Operations, their queue and their cancellation tokens. *)

Op(kind, live, auto, revert) == [kind |-> kind, live |-> live, auto |-> auto, revert |-> revert]
SaveOp(live, auto) == Op("save", live, auto, "no")
SyncOp(revert) == Op("sync", TRUE, FALSE, revert)

\* `cancelSync' and `cancelSave': the tokens of all operations of these kinds.
Cancel(q, kinds) ==
    [i \in DOMAIN q |-> IF q[i].kind \in kinds THEN [q[i] EXCEPT !.live = FALSE] ELSE q[i]]

\* The operations still to run after the first `n': one that is cancelled
\* before its turn returns at once.
After(q, n) ==
    LET turn == CHOOSE i \in n + 1 .. Len(q) + 1 :
                    /\ i = Len(q) + 1 \/ q[i].live
                    /\ \A j \in n + 1 .. i - 1 : ~q[j].live
    IN  SubSeq(q, turn, Len(q))

FirstStep(q) ==
    IF q = <<>> THEN "idle" ELSE IF Head(q).kind = "sync" THEN "read" ELSE "willSave"

\* `run': the operation starts at once when no other is pending.
Run(q, op) ==
    /\ queue' = IF q = <<>> /\ ~op.live THEN q ELSE Append(q, op)
    /\ pc' = IF q = <<>> THEN FirstStep(queue') ELSE pc

\* What an operation has captured and been told is gone when it ends.
NoShot == [text |-> 0, changes |-> 0]
NoReply == [result |-> "none", text |-> 0, version |-> 0]

\* The running operation goes on with step `step'.
Goto(step) == pc' = step /\ UNCHANGED queue

\* The running operation ends; it leaves the buffer at version `alt', the flag
\* dirty at `isDirty' and the saved version at `savedId'.  With it, and with each
\* cancelled operation that now gets its turn, the call of revert that awaited it
\* goes on: it restores the flag it found and then sets it to false.
Finish(alt, isDirty, savedId) ==
    LET rest  == After(queue, 1)
        ended == {queue[i].revert : i \in 1 .. Len(queue) - Len(rest)}
    IN  /\ queue' = rest
        /\ pc' = FirstStep(rest)
        /\ shot' = NoShot
        /\ reply' = NoReply
        /\ dirty' = (isDirty /\ ended = {"no"})
        /\ saved' = IF "dirty" \in ended THEN alt ELSE savedId

-----------------------------------------------------------------------------
(* Changes of the buffer. *)

\* Faulty: an edit does not cancel the save that is under way.
MarkAsDirtyKeepingSaves ==
    /\ dirty' = TRUE
    /\ queue' = Cancel(queue, {"sync"})
    /\ timer' = IF AutoSave THEN "live" ELSE timer

\* Faulty: a timer that is already running is not started anew.
MarkAsDirtyOncePerTimer ==
    /\ dirty' = TRUE
    /\ queue' = Cancel(queue, IF AutoSave THEN {"sync", "save"} ELSE {"sync"})
    /\ timer' = IF AutoSave /\ timer = "none" THEN "live" ELSE timer

\* `markAsDirty' and `doAutoSave', for a change that does not ignore dirty edits.
MarkAsDirty ==
    LET q == Cancel(queue, IF AutoSave THEN {"sync", "save"} ELSE {"sync"})
    IN  /\ dirty' = TRUE
        /\ queue' = q
        /\ timer' = IF AutoSave THEN "live" ELSE timer

\* `pushContentChanges'.
Record(to) == journal' = Append(journal, [from |-> buffer.text, to |-> to])

Type ==
    /\ ~disposed
    /\ Spend("edit")
    /\ buffer' = [text |-> fresh, alt |-> fresh]
    /\ past' = Append(past, buffer)
    /\ fresh' = fresh + 1
    /\ Record(fresh)
    /\ MarkAsDirty
    /\ UNCHANGED <<file, resource, saved, valid, rver, pc, shot, reply, disposed, known, doubtful>>

\* Faulty: an undo is an edit like any other.
UndoAsEdit ==
    /\ ~disposed
    /\ past # <<>>
    /\ Spend("undo")
    /\ buffer' = Last(past)
    /\ past' = Front(past)
    /\ Record(buffer'.text)
    /\ MarkAsDirty
    /\ UNCHANGED <<file, resource, saved, valid, rver, pc, shot, reply, disposed, fresh, known, doubtful>>

\* `fireDidChangeContent': back at the saved version, the buffer is clean.
Undo ==
    /\ past # <<>>
    /\ ~disposed
    /\ Spend("undo")
    /\ buffer' = Last(past)
    /\ past' = Front(past)
    /\ Record(buffer'.text)
    /\ IF buffer'.alt = saved
       THEN /\ dirty' = FALSE
            /\ UNCHANGED <<queue, timer>>
       ELSE MarkAsDirty
    /\ UNCHANGED <<file, resource, saved, valid, rver, pc, shot, reply, disposed, fresh, known, doubtful>>

-----------------------------------------------------------------------------
(* Calls that start an operation. *)

\* `cancelSave', for the timer that holds the token.
CancelledTimer == IF timer = "live" THEN "cancelled" ELSE timer

\* save(), and setEncoding with EncodingMode.Encode.
Save ==
    /\ ~disposed
    /\ Spend("save")
    /\ Run(Cancel(queue, {"save"}), SaveOp(TRUE, FALSE))
    /\ timer' = CancelledTimer
    /\ UNCHANGED <<file, resource, text, flags, shot, reply, disposed, fresh, known, doubtful>>

\* The timer of doAutoSave: a save with the token made when it was started.
AutoSaveTimer ==
    /\ timer # "none"
    /\ timer' = "none"
    /\ Run(queue, SaveOp(timer = "live", TRUE))
    /\ UNCHANGED <<file, resource, text, flags, shot, reply, disposed, fresh, used, known, doubtful>>

\* revert({ soft: true }).
RevertSoft ==
    /\ ~disposed
    /\ Spend("revert")
    /\ queue' = Cancel(queue, {"save"})
    /\ timer' = CancelledTimer
    /\ dirty' = FALSE
    /\ saved' = IF dirty THEN buffer.alt ELSE saved
    /\ UNCHANGED <<file, resource, text, valid, rver, pc, shot, reply, disposed, fresh, known, doubtful>>

\* revert(): the flag is cleared while the sync it awaits is pending.
Revert ==
    /\ ~disposed
    /\ Spend("revert")
    /\ Run(Cancel(queue, {"sync", "save"}), SyncOp(IF dirty THEN "dirty" ELSE "clean"))
    /\ timer' = CancelledTimer
    /\ dirty' = FALSE
    /\ UNCHANGED <<file, resource, text, saved, valid, rver, shot, reply, disposed, fresh, known, doubtful>>

\* FileResource.sync, on a file change event: stat the file ...
Notify ==
    /\ changed
    /\ stat = NoStat
    /\ changed' = FALSE
    /\ stat' = IF disk.text = Absent THEN 0 ELSE disk.version
    /\ UNCHANGED <<disk, ver, text, flags, timer, running, disposed, fresh, used, known, doubtful>>

\* ... and on the answer, unless isInSync, have the model run sync.
Stated ==
    LET isInSync == IF stat = 0 THEN ver = 0 ELSE ver # 0 /\ ver >= stat
    IN  /\ stat # NoStat
        /\ stat' = NoStat
        /\ IF isInSync
           THEN UNCHANGED <<queue, pc>>
           ELSE Run(Cancel(queue, {"sync"}), SyncOp("no"))
        /\ UNCHANGED <<file, ver, text, flags, timer, shot, reply, disposed, fresh, used, known, doubtful>>

\* dispose(): both tokens are cancelled, the timer and the watcher are gone.
Dispose ==
    /\ ~disposed
    /\ disposed' = TRUE
    /\ queue' = Cancel(queue, {"sync", "save"})
    /\ timer' = "none"
    /\ changed' = FALSE
    /\ stat' = NoStat
    /\ UNCHANGED <<disk, ver, text, flags, pc, shot, reply, fresh, used, known, doubtful>>

-----------------------------------------------------------------------------
(* The file service. *)

\* `modifiedSince': the check of validateWriteFile, against an existing file.
ModifiedSince(v) == disk.text # Absent /\ v # 0 /\ v < disk.version

\* Faulty: the save relies on the version the resource has read last.
SentVersionOfResource == ver

\* The version a save passes to the file service: options.version || _version.
SentVersion == IF rver # 0 THEN rver ELSE ver

\* The file stays as it is and the running operation is told `answer'.
Answer(answer) == reply' = answer /\ UNCHANGED <<file, known, doubtful, used>>
Reject(result) == Answer([NoReply EXCEPT !.result = result])

\* The editor writes `content'; the version comes with a later answer.
Overwrite(content) ==
    /\ disk' = [text |-> content, version |-> disk.version + 1]
    /\ known' = known \cup {content}
    /\ changed' = ~disposed
    /\ reply' = NoReply
    /\ UNCHANGED <<doubtful, used>>

\* The request fails for some other reason.  After a write that was made, the
\* editor does not learn its version, and a check that fails lets the write pass.
Unsure == {"update", "write", "resolve", "patched"}
Fail ==
    /\ Spend("failure")
    /\ reply' = [NoReply EXCEPT !.result = "failed"]
    /\ doubtful' = IF pc \in Unsure THEN doubtful \cup {disk.text} ELSE doubtful
    /\ UNCHANGED <<file, known>>

\* The file service is between two requests of the same operation that are not
\* atomic: version and content, check and write, write and version.
Between == pc \in {"readRest", "patch", "patched", "put", "resolve"}

\* Another program writes or deletes the file; the watcher reports it.
External ==
    /\ Spend("external")
    /\ \/ /\ disk' = [text |-> fresh, version |-> disk.version + 1]
          /\ fresh' = fresh + 1
          /\ doubtful' = IF Between THEN doubtful \cup {fresh} ELSE doubtful
       \/ /\ disk.text # Absent
          /\ disk' = [disk EXCEPT !.text = Absent]
          /\ UNCHANGED <<fresh, doubtful>>
    /\ changed' = ~disposed
    /\ UNCHANGED <<resource, text, flags, timer, running, disposed, known>>

-----------------------------------------------------------------------------
(* doSync. *)

\* readContents asks for the version and the content at the same time, and
\* either may be taken from the file first ...
Read ==
    /\ pc = "read"
    /\ \/ /\ disk.text # Absent
          /\ \/ Answer([NoReply EXCEPT !.version = disk.version])
             \/ Answer([NoReply EXCEPT !.text = disk.text])
          /\ Goto("readRest")
       \/ /\ (disk.text = Absent /\ Reject("notFound")) \/ Fail
          /\ Goto("readDone")
    /\ UNCHANGED <<resource, text, flags, timer, shot, disposed, fresh>>

\* ... and the other one afterwards.
ReadRest ==
    /\ pc = "readRest"
    /\ \/ /\ disk.text # Absent
          /\ Answer([result |-> "ok",
                     text |-> IF reply.text = 0 THEN disk.text ELSE reply.text,
                     version |-> IF reply.text = 0 THEN reply.version ELSE disk.version])
       \/ disk.text = Absent /\ Reject("notFound")
       \/ Fail
    /\ Goto("readDone")
    /\ UNCHANGED <<resource, text, flags, timer, shot, disposed, fresh>>

\* The buffer is replaced unless it has become dirty or the sync was cancelled.
ReadDone ==
    LET load == reply.result = "ok" /\ Head(queue).live /\ ~dirty
        edit == load /\ reply.text # buffer.text
    IN  /\ pc = "readDone"
        /\ ver' = CASE reply.result = "ok" -> reply.version
                    [] reply.result = "notFound" -> 0
                    [] OTHER -> ver
        /\ valid' = (reply.result = "ok")
        /\ rver' = IF load THEN reply.version ELSE rver
        /\ known' = IF load THEN known \cup {reply.text} ELSE known
        /\ buffer' = IF edit THEN [text |-> reply.text, alt |-> fresh] ELSE buffer
        /\ past' = IF edit THEN Append(past, buffer) ELSE past
        /\ fresh' = IF edit THEN fresh + 1 ELSE fresh
        /\ Finish(buffer'.alt, dirty, saved)
        /\ UNCHANGED <<file, stat, journal, timer, disposed, used, doubtful>>

-----------------------------------------------------------------------------
(* doSave. *)

\* The onWillSave participants have answered, perhaps with an edit, which does
\* not make the buffer dirty; then the content and its changes are captured.
WillSave ==
    LET op == Head(queue)
    IN  /\ pc = "willSave"
        /\ \/ UNCHANGED <<text, fresh, used>>
           \/ /\ op.live
              /\ Spend("format")
              /\ buffer' = [text |-> fresh, alt |-> fresh]
              /\ past' = <<>>
              /\ fresh' = fresh + 1
              /\ Record(fresh)
        /\ IF ~op.live \/ (op.auto /\ journal' = <<>>)
           THEN Finish(buffer'.alt, dirty, saved)
           ELSE /\ shot' = [text |-> buffer'.text, changes |-> Len(journal')]
                /\ \E step \in (IF Incremental THEN {"update", "write"} ELSE {"write"}) : Goto(step)
                /\ UNCHANGED <<dirty, saved, reply>>
        /\ UNCHANGED <<file, resource, valid, rver, timer, disposed, known, doubtful>>

\* The content that the captured changes make of `content': each change is a
\* range and a text, and on any other base it yields something else.
Updated(content) ==
    LET Matches(i) == journal[i].from = IF i = 1 THEN content ELSE journal[i - 1].to
    IN  IF \A i \in 1 .. shot.changes : Matches(i)
        THEN IF shot.changes = 0 THEN content ELSE journal[shot.changes].to
        ELSE fresh

\* saveContentChanges: the version is checked, unless the stat fails ...
Update ==
    /\ pc = "update"
    /\ \/ SentVersion # 0 /\ ~ModifiedSince(SentVersion) /\ Reject("none") /\ Goto("patch")
       \/ SentVersion # 0 /\ Fail /\ Goto("patch")
       \/ /\ \/ (SentVersion = 0 \/ ModifiedSince(SentVersion)) /\ Reject("failed")
             \/ Fail
          /\ Goto("updateDone")
    /\ UNCHANGED <<resource, text, flags, timer, shot, disposed, fresh>>

\* ... and then the changes are applied to the file (updateFile).
Patch ==
    /\ pc = "patch"
    /\ \/ /\ disk.text # Absent
          /\ Overwrite(Updated(disk.text))
          /\ fresh' = IF disk'.text = fresh THEN fresh + 1 ELSE fresh
          /\ Goto("patched")
       \/ /\ (disk.text = Absent /\ Reject("failed")) \/ Fail
          /\ Goto("updateDone")
          /\ UNCHANGED fresh
    /\ UNCHANGED <<resource, text, flags, timer, shot, disposed>>

\* Faulty: a cancelled save does not take note of the version it wrote.
AfterSaveCheckedEarly ==
    /\ journal' = SubSeq(journal, shot.changes + 1, Len(journal))
    /\ valid' = TRUE
    /\ rver' = IF Head(queue).live THEN ver' ELSE rver
    /\ IF Head(queue).live
       THEN Finish(buffer.alt, FALSE, IF dirty THEN buffer.alt ELSE saved)
       ELSE Finish(buffer.alt, dirty, saved)

\* What doSave does once Resource.save has returned.
AfterSave ==
    /\ journal' = SubSeq(journal, shot.changes + 1, Len(journal))
    /\ rver' = ver'
    /\ valid' = TRUE
    /\ IF Head(queue).live
       THEN Finish(buffer.alt, FALSE, IF dirty THEN buffer.alt ELSE saved)
       ELSE Finish(buffer.alt, dirty, saved)

\* Faulty: the token is not checked before the whole content is written.
UpdateDoneUnchecked ==
    /\ pc = "updateDone"
    /\ IF reply.result = "ok"
       THEN ver' = reply.version /\ AfterSave
       ELSE Goto("write") /\ UNCHANGED <<ver, journal, flags, shot, reply>>
    /\ UNCHANGED <<file, stat, buffer, past, timer, disposed, fresh, used, known, doubtful>>

\* When the update failed the whole content is written, unless the token was
\* cancelled: then Resource.save returns as if it had saved.
UpdateDone ==
    /\ pc = "updateDone"
    /\ IF reply.result = "ok" \/ ~Head(queue).live
       THEN /\ ver' = IF reply.result = "ok" THEN reply.version ELSE ver
            /\ AfterSave
       ELSE Goto("write") /\ UNCHANGED <<ver, journal, flags, shot, reply>>
    /\ UNCHANGED <<file, stat, buffer, past, timer, disposed, fresh, used, known, doubtful>>

\* saveContents or saveStream (doWrite): the version is checked, unless the stat
\* fails, and a conflict opens a dialog.
Write ==
    /\ pc = "write"
    /\ \/ ~ModifiedSince(SentVersion) /\ Reject("none") /\ Goto("put")
       \/ ModifiedSince(SentVersion) /\ Reject("conflict") /\ Goto("ask")
       \/ Fail /\ \E step \in {"put", "writeDone"} : Goto(step)
    /\ UNCHANGED <<resource, text, flags, timer, shot, disposed, fresh>>

\* shouldOverwrite: the user answers the dialog; No makes the save end.
Ask ==
    /\ pc = "ask"
    /\ \/ Goto("force") /\ UNCHANGED <<dirty, saved, shot, reply>>
       \/ Finish(buffer.alt, dirty, saved)
    /\ UNCHANGED <<file, resource, text, valid, rver, timer, disposed, fresh, used, known, doubtful>>

\* The content is written after the check, or after the dialog without one.
Put ==
    /\ pc \in {"put", "force"}
    /\ \/ Overwrite(shot.text) /\ Goto("resolve")
       \/ Fail /\ Goto("writeDone")
    /\ UNCHANGED <<resource, text, flags, timer, shot, disposed, fresh>>

\* The end of writeFile and of updateFile: a request of its own for the version,
\* which is that of the latest write, and fails when the file is gone again.
Resolve ==
    /\ pc \in {"resolve", "patched"}
    /\ \/ /\ disk.text # Absent
          /\ Answer([result |-> "ok", text |-> 0, version |-> disk.version])
       \/ disk.text = Absent /\ Reject("failed")
       \/ Fail
    /\ Goto(IF pc = "resolve" THEN "writeDone" ELSE "updateDone")
    /\ UNCHANGED <<resource, text, flags, timer, shot, disposed, fresh>>

\* Faulty: an operation that throws leaves pendingOperation rejected.
WriteDoneUncaught ==
    /\ pc = "writeDone"
    /\ reply.result = "ok"
    /\ ver' = reply.version
    /\ AfterSave
    /\ UNCHANGED <<file, stat, buffer, past, timer, disposed, fresh, used, known, doubtful>>

WriteDone ==
    /\ pc = "writeDone"
    /\ IF reply.result = "ok"
       THEN ver' = reply.version /\ AfterSave
       ELSE Finish(buffer.alt, dirty, saved) /\ UNCHANGED <<ver, journal, valid, rver>>
    /\ UNCHANGED <<file, stat, buffer, past, timer, disposed, fresh, used, known, doubtful>>

-----------------------------------------------------------------------------
\* The model has loaded the file and been shown: constructor, initialize.
Init ==
    /\ disk = [text |-> 1, version |-> 1]
    /\ changed = FALSE
    /\ stat = NoStat
    /\ ver = 1
    /\ buffer = [text |-> 1, alt |-> 1]
    /\ past = <<>>
    /\ saved = 1
    /\ dirty = FALSE
    /\ valid = TRUE
    /\ rver = 1
    /\ journal = <<>>
    /\ timer = "none"
    /\ queue = <<>>
    /\ pc = "idle"
    /\ shot = NoShot
    /\ reply = NoReply
    /\ disposed = FALSE
    /\ fresh = 2
    /\ used = [b \in Bounds |-> 0]
    /\ known = {1}
    /\ doubtful = {}

Step == \/ Read \/ ReadRest \/ ReadDone \/ WillSave \/ Update \/ Patch \/ UpdateDone
        \/ Write \/ Ask \/ Put \/ Resolve \/ WriteDone
Next == \/ Type \/ Undo \/ Save \/ Revert \/ RevertSoft \/ Dispose
        \/ AutoSaveTimer \/ Notify \/ Stated \/ External \/ Step

Spec == Init /\ [][Next]_vars

\* Timers fire, events and answers arrive, and open dialogs are answered.
Fairness ==
    /\ WF_vars(AutoSaveTimer)
    /\ WF_vars(Notify)
    /\ WF_vars(Stated)
    /\ WF_vars(Step)
FairSpec == Spec /\ Fairness

-----------------------------------------------------------------------------
ReadSteps == {"read", "readRest", "readDone"}
Steps == {"idle", "willSave", "update", "patch", "patched", "updateDone",
          "write", "put", "ask", "force", "resolve", "writeDone"} \cup ReadSteps
Ops == [kind : {"sync", "save"}, live : BOOLEAN, auto : BOOLEAN, revert : {"no", "clean", "dirty"}]
Results == {"none", "ok", "notFound", "failed", "conflict"}

FileOK ==
    /\ disk \in [text : Nat, version : Nat]
    /\ changed \in BOOLEAN
    /\ stat \in Nat \cup {NoStat}
    /\ ver \in Nat

TextOK ==
    /\ buffer \in [text : Nat, alt : Nat]
    /\ past \in Seq([text : Nat, alt : Nat])
    /\ journal \in Seq([from : Nat, to : Nat])
    /\ fresh \in Nat
    /\ known \in SUBSET Nat
    /\ doubtful \in SUBSET Nat

FlagsOK ==
    /\ saved \in Nat
    /\ dirty \in BOOLEAN
    /\ valid \in BOOLEAN
    /\ rver \in Nat
    /\ timer \in {"none", "live", "cancelled"}
    /\ disposed \in BOOLEAN
    /\ used \in [Bounds -> Nat]

\* An operation is running exactly when one is queued, and its step belongs to
\* its kind; the changes it captured are still in the journal.
RunningOK ==
    /\ queue \in Seq(Ops)
    /\ pc \in Steps
    /\ pc = "idle" <=> queue = <<>>
    /\ queue # <<>> => (Head(queue).kind = "sync" <=> pc \in ReadSteps)
    /\ shot \in [text : Nat, changes : Nat]
    /\ shot.changes <= Len(journal)
    /\ reply \in [result : Results, text : Nat, version : Nat]

\* Type invariant.
TypeOK == FileOK /\ TextOK /\ FlagsOK /\ RunningOK

\* Nothing is running or on its way that could still change buffer or file.
Quiet == queue = <<>> /\ ~changed /\ stat = NoStat

\* Once everything has settled, an editor that is not marked dirty shows what
\* is in the file, unless another program wrote that between two requests of an
\* operation of the editor (setDirty, doSave, doSync).
CleanMeansSaved ==
    Quiet /\ ~dirty /\ ~disposed => disk.text \in doubtful \cup {Absent, buffer.text}

\* A step of a save that changes the file.
EditorWrites == pc' # pc /\ disk' # disk

\* Without the user's consent a save replaces only contents that the editor has
\* loaded or written itself (the version check of doWrite), those that other
\* programs wrote between two requests of an operation of the editor, and those
\* that a failed stat kept from being checked.
NoBlindOverwrite ==
    [][EditorWrites /\ pc # "force" => disk.text \in known \cup doubtful \cup {Absent}]_vars

\* The user is asked about a conflict only if another program changed the
\* file, or the editor was not told the version of what it wrote: otherwise a
\* save never conflicts with an earlier save of the same editor.
PromptOnlyIfChanged ==
    [][pc = "write" /\ pc' = "ask" => disk.text \notin known \ doubtful]_vars

\* A successful save leaves in the file what the editor showed when its
\* content was captured, also when only the changes are sent.
WritesWhatIsShown == [][EditorWrites => disk'.text = shot.text]_vars

\* A save whose token was cancelled, by an edit under auto save, by another
\* save, by revert or by dispose, sends nothing more to the file service, but
\* for the overwrite that the user confirms in an open dialog.
CancelledSaveSendsNothing ==
    [][queue # <<>> /\ ~Head(queue).live /\ pc' # pc => pc' \notin {"update", "write"}]_vars

\* At the version last known to be saved, the buffer is never marked dirty:
\* undoing every edit makes the editor clean again.
SavedVersionIsClean == buffer.alt = saved => ~dirty

\* Why it holds: version ids are never reused for another state of the buffer.
IdsInv ==
    /\ buffer.alt < fresh
    /\ saved < fresh
    /\ \A i \in 1 .. Len(past) : past[i].alt < fresh

\* Every operation passed to run ends, failed ones too, so that the promises of
\* save and revert are settled and the operations behind them get their turn.
EveryOperationEnds == []<>(queue = <<>>)

\* Contents are never reused either: all that are about are older than `fresh',
\* and only the absent file has none.
TextsInv ==
    /\ known \subseteq 1 .. fresh - 1
    /\ disk.text < fresh /\ reply.text < fresh /\ shot.text < fresh
    /\ \A t \in doubtful : t < fresh
    /\ buffer.text \in 1 .. fresh - 1
    /\ \A i \in 1 .. Len(past) : past[i].text \in 1 .. fresh - 1
    /\ \A i \in 1 .. Len(journal) : journal[i].to \in 1 .. fresh - 1
    /\ pc \in {"update", "patch", "patched", "updateDone", "write", "put", "ask", "force"}
           => shot.text # 0
    /\ pc = "readDone" /\ reply.result = "ok" => reply.text # 0

\* A content of which the editor, if it knows it, knows the version too.
Certain(content) == content \notin doubtful \cup {Absent}

\* Why saves do not conflict with each other: the versions lag behind the file
\* only when it holds a content the editor does not know, except until the
\* answer to the save that wrote it.
VersionsInv ==
    /\ 1 <= disk.version /\ ver <= disk.version /\ rver <= disk.version
    /\ reply.version <= disk.version
    /\ pc = "readRest" =>
          /\ reply.result = "none"
          /\ Certain(disk.text) =>
                 IF reply.text = 0 THEN reply.version = disk.version ELSE reply.text = disk.text
    /\ reply.result = "ok" =>
          /\ pc \in {"readDone", "updateDone", "writeDone"}
          /\ Certain(disk.text) /\ disk.text \in known \cup {reply.text}
                => reply.version = disk.version
    /\ reply.result = "notFound" => disk.text \notin known
    /\ Certain(disk.text) /\ disk.text \in known =>
          \/ reply.result = "ok" /\ pc # "readDone"
          \/ pc \in {"resolve", "patched"}
          \/ ver = disk.version /\ rver = disk.version

\* Why no unknown content is overwritten when saves send the whole content: at
\* the version it remembers, the editor knows what is in the file.
BaseInv ==
    /\ pc \notin {"update", "patch", "patched", "updateDone"}
    /\ 1 <= rver
    /\ Certain(disk.text) /\ (rver = disk.version \/ pc \in {"put", "resolve"})
           => disk.text \in known
    /\ pc = "readRest" => reply.text # 0 \/ 1 <= reply.version
    /\ reply.result = "ok" =>
          /\ 1 <= reply.version
          /\ Certain(disk.text) /\ reply.version = disk.version =>
                disk.text \in (IF pc = "readDone" THEN {reply.text} ELSE known)

\* Why a clean editor that saves by itself shows what is in the file: unless a
\* save or a reload is about to make it so, the file is known to be newer.

\* A reload that has not read the file yet.
ToRead ==
    \E i \in 1 .. Len(queue) : /\ queue[i].kind = "sync" /\ queue[i].live
                               /\ i = 1 => pc = "read"

\* A reload is to come, or the resource will be told of a version it does not know.
Noticed == ToRead \/ (ver < disk.version /\ (changed \/ stat = disk.version))

\* A save has captured its content and has not ended.
Captured == pc \in {"write", "put", "ask", "force", "resolve", "writeDone"}

\* The editor shows something else than what is in the file.
Stale == Certain(disk.text) /\ buffer.text # disk.text

\* No call of revert waits for an operation.
NoReverts == \A i \in 1 .. Len(queue) : queue[i].revert = "no"

\* No request fails, but for the one that asks a deleted file for its version.
Answers == reply.result = "failed" => pc = "writeDone"

\* The answer of the stat is true of the file, or there is another event.
StatsOK ==
    stat # NoStat /\ ~changed => stat = IF disk.text = Absent THEN 0 ELSE disk.version

CleanOK ==
    /\ pc \in ReadSteps /\ ~Head(queue).live /\ ~dirty => ToRead
    /\ Captured /\ (Head(queue).live \/ ~dirty) => buffer.text = shot.text
    /\ pc = "resolve" /\ Certain(disk.text) => disk.text = shot.text
    /\ pc = "writeDone" /\ (Head(queue).live \/ ~dirty) /\ Certain(disk.text) =>
           \/ disk.text = shot.text
           \/ Noticed /\ reply.version < disk.version
    /\ Stale /\ ~dirty =>
           \/ Noticed
           \/ pc = "readRest" /\ Head(queue).live
           \/ pc = "readDone" /\ Head(queue).live /\ reply.result = "ok" /\ reply.text = disk.text
           \/ pc = "write" /\ ~ModifiedSince(SentVersion)
           \/ pc = "put"

CleanInv ==
    /\ NoReverts /\ Answers
    /\ buffer.text = disk.text => disk.text \in known
    /\ ~disposed => StatsOK /\ CleanOK

\* With auto save on, a dirty editor is saved unless a conflict comes between or
\* a save fails: neither is tried again before the next edit.
EventuallySaved ==
    [](pc # "ask" /\ reply.result # "failed") => []<>(~dirty \/ disposed)
=============================================================================
