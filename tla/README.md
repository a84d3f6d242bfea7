# A verification development for Theia

Theia is an IDE whose front end runs in a browser (or Electron), whose back end
runs in Node.js, and whose plug-ins run in a host process of their own. All of
it is single-threaded, asynchronous JavaScript: there are no data races, but
everything that happens between an `await` and its continuation, between a
timer and its callback, or between two processes is interleaved freely. That is
what the modules here are about.

The modules are checked with TLC on small instances and, where it says so, proved
with TLAPS for every value of the constants. `PROJECT.json` maps each definition
to the lines of the source it models, lists the runs, the hazards, and for each
property a faulty variant of the code (the operators commented "Faulty") that
the property catches.

## 1. Inventory

| component (under `packages/`) | state | operations | hard behaviour | correct when |
|---|---|---|---|---|
| **Editor model** `monaco/src/browser/monaco-editor-model.ts` | buffer, undo stack, dirty flag, saved version, pending content changes, queue of operations, two cancellation tokens, auto save timer | type, undo, save, auto save, revert, sync, dispose | a queue of asynchronous operations; typing, events and timers in between; cancellation; failures | what is marked clean is in the file; nothing is overwritten unseen; every operation ends |
| **File resource** `filesystem/src/browser/file-resource.ts`, `core/src/common/resource.ts` | version last read or written | read, write, incremental update, answer to file events | conflict detection, overwrite dialog, fall-back from incremental to full save | a conflict is reported if and only if somebody else changed the file |
| **File service**, read and write path of `filesystem/src/browser/file-service.ts` | none (the disk) | read, write, update | the requests of one operation are separate: version and content; check, write and version | conflicts are found |
| **Multi ring buffer** `process/src/node/multi-ring-buffer.ts` | bytes, head, tail, one position per reader | enq, deq, streams with back pressure, close | wrap-around, over-run of slow readers, partial reads, characters that a cut spoils | each reader gets the output in order; a reader that counts as drained has the newest byte |
| **RPC protocol** `plugin-ext/src/common/rpc-protocol.ts` | pending replies, token sources, queued messages | call, cancel, reply, dispose | two peers; accumulated batches; cancellation and dispose at any time | a call gets the answer of its own handler, exactly once, or is rejected |
| **Reference collections** `core/src/common/reference.ts`, `disposable.ts` | values, pending values, references | acquire, release, dispose, clear | creation is asynchronous; release or clear between two continuations | a value lives exactly as long as it is referenced |
| **File watcher service** `filesystem/src/node/nsfw-watcher` | watchers with their references per client and disposal timers, watcher ids, native watchers, event queues | watch, unwatch, start, crash, deferred disposal | start races dispose; revival races the timer; paths of several batches are resolved at once | one live watcher for a path, counted right; a failed one tells its clients |
| **File watching end to end** `filesystem/src/common/remote-file-system-provider.ts`, `filesystem/src/node/{disk-file-system-provider,filesystem-watcher-client,filesystem-watcher-dispatcher,filesystem-backend-module}.ts`, `core/src/common/messaging/proxy-factory.ts` | watch requests, connections, handles whose watcher id is still unknown | watch, unwatch, connect, lose, reconnect, close | the old session lingers while the new one asks again; disposal before the id is known | every change reaches whoever still watches; nothing outlives its session |
| **Channels** `core/src/{common,browser,node}/messaging` | channels by id, socket, error counter, listeners, adapter | open, ready, refuse, close, reconnect, HTTP fall-back | lost connections, queued opens, unordered and lost requests | every path asked for has one channel, and both sides agree on it |
| **Plug-in hosting** `plugin-ext/src/hosted`, `plugin-ext/src/plugin/plugin-manager.ts` | contributions and their state, raised events, queue of loads; registered plug-ins, activations, promises of activations in progress | load, deploy, raise an event, start, activate, stop, lose the connection, crash | loads, events and deployments overlap; dependencies are activated by several events at once; a new host for each connection; manifests, requests and hosts that fail | both sides agree on what is started; no event and no deployment is forgotten |
| Connection status, tasks, preferences, debug sessions, terminals, source control, search, workspace, shell | | | | see `PROJECT.json`, `components` |

How they interact. The editor model holds a `Resource`; it calls `readStream`,
`saveContentChanges` and `saveStream` and is told of foreign changes by
`onDidChangeContents`. The `FileResource` calls the file service, which sends
JSON-RPC requests to the back end and receives the events of the watcher service.
Editor models are shared through a `ReferenceCollection`. The ring buffer sits
between a pty process (the writer) and the web sockets of the terminals (the
readers). Plug-ins reach all of this through the RPC protocol. The requests of the
file service and the watchers travel over channels; a watcher asked for in a
browser is a handle in a session of the back end, which holds a watcher id of the
watcher service, which runs in a process of its own. The front end starts plug-ins in the plug-in host
of its connection, and passes on the events that activate them.

## 2. Modules

| module | models | uses |
|---|---|---|
| `EditorModel` | editor model, file resource, conflict check of the file service, the file, other programs, the user | |
| `EditorModelProofs` | theorems about it | `EditorModel` |
| `MultiRingBuffer`, `MCMultiRingBuffer` | the ring buffer and its streams | |
| `MultiRingBufferProofs` | theorems about it | `MultiRingBuffer` |
| `RemoteCalls` | abstract: what a caller and a handler see of remote calls | |
| `RpcProtocol`, `MCRpcProtocol` | both peers, their multiplexers and the connection; implements `RemoteCalls` | `RemoteCalls` |
| `RpcProtocolProofs` | theorems about it, the refinement among them | `RpcProtocol` |
| `WatcherService` | the watcher service and its messages to the back end | |
| `WatcherServiceProofs` | theorems about it | `WatcherService` |
| `FileWatching`, `MCFileWatching` | front ends, sessions of the back end and the service together; implements `WatcherService` | `WatcherService` |
| `FileWatchingProofs` | theorems about it: that it implements the service's specification, and that changes and errors arrive | `FileWatching`, `WatcherServiceProofs` |
| `References` | `ReferenceCollection` with its promises and microtasks | |
| `ReferencesProofs` | theorems about it | `References` |
| `Channels`, `MCChannels` | front end, socket, HTTP fall-back and back end of the channels | |
| `ChannelsProofs` | theorems about it | `Channels` |
| `PluginManager` | the manager in the plug-in host: activation, dependencies, stopping | |
| `HostedPlugin`, `MCHostedPlugin` | the front end's side of it, the connection, deployments | `PluginManager` |
| `HostedPluginProofs` | theorems about both | `HostedPlugin` |

### EditorModel

`queue` is the chain of promises behind `pendingOperation`: its head is the
running operation, `pc` its next step. A step is the code between two awaits of
something that takes real time: a request to the file service, the participants
of a save, a dialog. So `doSave` is `WillSave` (participants have answered, the
content is captured in `shot`), then, when the incremental save is tried, `Update`
(the stat and the check), `Patch` (`updateFile` on the back end), `Resolve` (the stat
at its end) and `UpdateDone`; then `Write` (the stat and the check, with `Ask` for
the dialog), `Put` (the content), `Resolve` (the request for the version that ends
`writeFile`, `file-service.ts:832`) and `WriteDone`; `doSync` is `Read`, `ReadRest`
(version and content, asked for side by side and read in either order) and `ReadDone`.
Each request reads or changes the file at a moment of its own, and the arrival of
its answer is another step, so the file and the buffer may both change in between. Each queued
operation carries its own cancellation token (`live`); `cancelSave` and
`cancelSync` clear it in all operations that hold the current token.
`Finish` ends an operation, drops those behind it that were cancelled before
their turn, and lets the `revert` calls that awaited any of them continue.

Contents are abstract: every edit and every foreign write produces a new number,
so equality of contents means that one was copied from the other. Versions
(mtime and etag) are write counters of the disk. A captured list of changes is
a chain of contents (`journal`); applied to any other content than the one it
starts from it yields a content of its own, which is what makes a wrong base
visible.

What goes wrong between the requests of one operation is in the model, and the
history variable `doubtful` collects the contents it concerns:

- what another program writes between the check and the write is overwritten unnoticed;
- what it writes between the write and the request for the version, or between version
  and content of a reload, the editor takes for its own: the event that follows is not
  noticed, the editor is clean and shows something else than the file, and its next save
  overwrites the file without asking;
- when the request for the version fails after a write that was made, the editor keeps
  its old version, and its next save conflicts with its own content;
- when the stat of the check fails, nothing is checked (`validateWriteFile` takes the file
  for missing).

`CleanMeansSaved`, `NoBlindOverwrite` and `PromptOnlyIfChanged` are stated for all contents
that are not `doubtful`: they say that these four windows are the only ones. A save that
fails is not tried again by auto save before the next edit, also when it was the request
for the version that failed, as after a deletion by another program; `EventuallySaved` is
stated for behaviours in which no save fails.

Abstractions:

- `updateFile` reads and writes the file within one call on the back end; a foreign write
  between these two is not in the model, nor one while the content of a large file
  is read or written in several chunks.
- A foreign change always changes mtime or size in a way `modifiedSince` notices;
  the comment at `file-service.ts:861-867` describes the exception.
- Edits by save participants are applied with `applyEdits`, outside the undo
  stack: after them nothing can be undone.
- At most one stat of `FileResource.sync` is outstanding; events that arrive
  meanwhile are answered after it.
- Whether an incremental save is tried depends on sizes (`shouldSaveContent`):
  with the Update capability it is a free choice.
- `setEncoding` with Encode is `Save`; with Decode it is a `sync`, which `Stated` shows.

### MultiRingBuffer

All calls are synchronous, so each is one action. Bytes are replaced by their
index in the output of the process, so that order, loss and repetition are
visible in the values. `out` and `next` record what each reader was given. What
`push` answers, that is when the consumer of a stream wants more, is free. The loop
in `MultiRingBufferReadableStream.deq` takes chunks of one size, so its position after
k rounds is that after one `deq` of k times as much (`PosAfter`); that rounds add up
in this way is a lemma of the proofs (`RoundsAddUp`).

Readers get text, decoded part by part: `Decode` is `Buffer.toString` on one part, and
says of each byte whether it is shown as written or replaced, which it is when not all
bytes of its character lie in that part (`Whole`; `starts` is the set of bytes that
begin a character). So a character is spoilt where a chunk begins or ends, where `enq`
cuts a string that is longer than the buffer, and where a chunk runs across the end of
the buffer, since its two parts are decoded one by one. `ChunksAreConsecutive` states
that this last one is the only character that is spoilt although the chunk has all of it.

### RpcProtocol and RemoteCalls

A peer's `outbox` is `messagesToSend`, `scheduled` the pending `setImmediate`,
`wire` the batches under way. A batch is handled in one synchronous loop; what
is left of it is `inbox`. While it is not empty neither timers nor promise
callbacks of that peer run, but handlers do, and may make calls, cancel tokens or
dispose the protocol. Call `<<p, n>>` is the n-th made by p, whatever id the
protocol gives it, and travels as the argument and in the answer. The connection
keeps the order and loses nothing while both ends exist, as IPC and web worker
messages do. `RemoteCalls` states what a user of a proxy may rely on; the mapping
reads each call's promise and handler.

The comment at `rpc-protocol.ts:324` says that each incoming message is handled in
a separate `process.nextTick`; the code at lines 343-345 has a plain loop, which is
what the model has.

### WatcherService and FileWatching

`watchers` are the `NsfwWatcher`s made so far: references by client, whether they are
in the map (`current`), disposed, started, whether the timer of the deferred disposal
runs, the native watcher, and the queue of changes whose paths are being resolved.
`handles` are the watcher ids. The options of a watcher belong to what identifies
it, so one path with one set of options is modelled. `toBackend` carries replies,
changes and errors in the order they were sent. `start` is `Create`, where the
native watcher is made, and `Started`, where it runs and the handle may have been
disposed meanwhile; both may fail instead, and a running watcher may crash.

`FileWatching` puts two layers in front of it. A front end (`made`, `wanted`) numbers
its watch requests and repeats those still wanted on each connection but its first;
calls made without a connection wait for one. A session is what the back end makes
for a connection; it learns the watcher id of a handle only with the reply, and a
handle disposed before that is `dropped` until the reply comes. The front end loses a
connection before the back end does (`Lose`, `CloseSession`): meanwhile two sessions of
one front end hold the watcher. The order in which a set of handles is disposed is
free.

### References

Keys share nothing, so one key is modelled. Promises are settled and awaited in
the order of the language: `jobs` is the queue of microtasks, and an acquisition that
adopts the promise of another one's factory needs two jobs more than the one that
called it. A user's own code runs between any two jobs. `DisposeValue` is the wrapper
that `createReferences` puts around `dispose` together with the collection that
disposes the value once more when it empties. The history variable `careful` is
cleared by the two things the class does not cope with:

- `acquire` between the moment the factory's promise is settled and the continuation
  that stores the value. That acquisition gets its reference after the first user got
  its own; if the first user disposes it at once, the value is disposed while a
  reference is pending (which `reference.spec.ts` says should not happen), and the next
  acquisition finds references of a value that is gone.
- `clear`, `dispose` or disposing the value between that continuation and those of the
  acquisitions: the value is disposed, without the wrapper, and stays in the map.

Properties are stated for behaviours in which neither has happened, so no property covers
these two cases, which the code gets wrong; TLC confirms that
both exceptions are needed and that there is no third. A `clear` while the factory
works has no effect on the value that is being created.

### Channels

`channels` are the front end's channels in the order of their ids. Only the session of
the current connection is kept: the back end closes what belongs to an older one and
tells nobody, and ids are not reused. A service may refuse a channel by closing it
before it is ready (the debug adapter path does, and is asked for without
reconnecting: `Once`). In the fall-back each message is a request of its own (`posts`
is a set), the answer of a poll carries all pending messages, and requests, answers
and, after a while without polls, the adapter may be lost.

What the model shows of the code, besides its properties:

- The listener for the activation of the fall-back is never removed, so a path that
  has waited for the socket n times gets n channels when the fall-back activates, and
  its handler n connections. `AskedForOnce` therefore demands one channel only as long
  as the socket is used.
- A lost request is not noticed: its channel stays unready, or unserved, for good. The
  same holds for the channels of an adapter that was dropped: their close messages go
  to that adapter. `ChannelsAgree` and `ServedInTheEnd` are stated until the first loss.

### PluginManager and HostedPlugin

A record of `loads` stands for the promise of one call of `loadPlugin`: what it waits
for, how many dependencies it has been through, and the set of visited plug-ins, which
all calls made from one activation share. `task` is the call of `$start`, or of
`$activateByEvent('onStartupFinished')`, whose answer the front end awaits. Promise
callbacks run before the next message, timer or answer (`Quiet`).

`load.pc` is what the front end's `doLoad` waits for; each request to the back end or
the host and each local promise is a step. `loadQueue` and `debounced` are the queue of
loads and the debounced `load()`. A lost connection rejects the requests under way and
takes the plug-in host with it (`Replaced`); the load in progress goes on only if it
waited for something local, and then finds itself disconnected.

Failures while the connection lasts, each counted by `failures`: a manifest that cannot be
read (`ManifestsRead` registers any part of the plug-ins it is given), a start method that
throws, a `$startProgress` that is rejected and takes `$start` with it (`ProgressFails`,
`RejectStart`, `StartFailed`), a request of the load that is rejected (`LoadFails`), and a
host that ends by itself (`HostCrashes`).

History variables name what the code does not cope with; `HostsAgree`, `EventsActivate`,
`RunningCanBeStopped` and `DeployedGetStarted` say where each is an exception:

- `overlooked`: an event that reaches the host while `$start` reads the manifests of
  new plug-ins activates none of them: they are not registered yet, and the events that
  `$start` was given were collected before.
- `hasty`: `$stop` during an activation forgets the activation but does not end it; the
  plug-in it starts afterwards is in `activatedPlugins` but not registered, and the front end,
  which has unloaded it, does not stop it again. Deployed once more it runs twice.
- `unreadable`: a plug-in whose manifest the host could not read is logged there and left
  out. The front end is not told and holds it for started; no event activates it.
- `stranded`: what a load gave up when something failed. After a rejected `$start`, or a
  request after `loadContributions` that fails, contributions stay in the state `STARTING`,
  from which no later load takes them until the connection is lost; what had not come so far
  waits for the next load, which nothing calls for.
- `forgotten`: a plug-in that is undeployed in the state `STARTING` is not told to stop,
  although after a rejected `$start` the host may have it registered, or running.
- `crashed`: a crashed host is not started again. The user is asked to reload the page; until
  then, or until the connection is lost, the front end holds its plug-ins for started and sends
  it calls that are lost.

When the information that `$init` needs cannot be had the manager stays in `managers`
(`LoadFails` at "info"): the next load takes it and calls `$start` without `$init`.

What else the model shows: plug-ins that depend on each other in a circle and are
activated by different events wait for each other for good, and the load that awaits
them blocks every later one; hence `Acyclic`. Within one activation circles are broken
by the visited set. The model has one host. With two, a connection that is lost while
`obtainManager` waits for something local of the second drops the `$init` of the first
without rejecting it, and the load hangs; and plug-ins that run in the browser (a web
worker) are not stopped by a disconnection. Both are outside the model.

`DependenciesFirst` says that a plug-in starts only when each of its dependencies has started
once, and not that they all still run: one that is told to stop while the plug-in awaits
another is not looked at again.

## 3. Runs

| run | bounds | shows |
|---|---|---|
| `editor_auto_save` | auto save, full saves; 2 edits, 1 participant edit, 1 manual save, 1 foreign change | but for `doubtful` contents: an editor that is not dirty has its text in the file (`CleanMeansSaved`), no content is overwritten unseen (`NoBlindOverwrite`) and the dialog opens only for foreign changes (`PromptOnlyIfChanged`); what was typed gets saved (`EventuallySaved`) |
| `editor_manual_save` | no auto save, incremental saves; 2 edits, 1 undo, 1 save, 1 revert, 1 foreign change, 1 failure | `SavedVersionIsClean`, `CancelledSaveSendsNothing`, `EveryOperationEnds` |
| `editor_typing_while_saving` (violation) | 2 edits, 1 save | text typed during a save is marked clean without auto save |
| `editor_revert_then_save` (violation) | 1 edit, 1 revert, 1 save | after a revert an incremental save writes another text than the editor shows |
| `editor_cancelled_update` (violation) | 2 edits, 1 foreign change | a cancelled incremental save passes for a success, and the next save overwrites a foreign change |
| `ring_buffer` | 3 bytes, 2 readers, writes of 1 to 4 bytes, 7 bytes in all, characters of 1 to 3 bytes | contents, order and decoding of chunks, draining, back pressure |
| `ring_skipped` (violation) | 3 bytes, 1 reader | a reader stays on a slot that a write overwrites, behind which older stored bytes are left unread |
| `rpc_calls` | 2 calls one way, 1 the other, 1 token cancelled | no call is lost or crossed; cancellations keep behind their requests; sources match running handlers; every call settles; `RemoteCalls` is implemented |
| `file_watching` | 1 front end with 2 sessions, 1 watch request at a time, 2 watch calls of the service, 2 file changes, 1 failure | counting and deferred disposal (`RefsMatchHandles`, `OneLiveWatcher`, `DisposalIfUnused`, `RunningIsLive`); every change reaches whoever watches, in order (`NothingLost`, `EventsInOrder`); failures are told (`ErrorsReachTheirClients`); sessions let go, unused watchers stop, a front end that comes back is served again |
| `references` | 5 acquisitions, 2 calls of clear or of a value's dispose | a value lives as long as it has users and is disposed once; the maps agree; all up to the first step that `careful` excludes |
| `hosted_plugin` | 3 plug-ins (one needs both others, one of these the third), 2 events, 2 deployments of two of them, 1 lost connection, 1 failure of any kind | front end and host agree (`HostsAgree`); events raised at any time activate (`EventsActivate`); what runs can be stopped (`RunningCanBeStopped`); dependencies come first; in the end what is deployed is started (`DeployedGetStarted`); each up to the exceptions of section 2 |
| `channels` | 2 paths, 2 breaks, 2 closed or refused channels, 1 loss | no path is forgotten, both sides agree on the channels, and in the end every path is served |

Why the bounds are enough. The editor's hazards need an edit before and one
during an operation, one foreign change and two saves (one of them automatic or
repeated); the queue gets three operations long, and every disjunct fires. In
the ring buffer 7 bytes wrap a buffer of 3 twice, a write of 4 is longer than
the buffer, and a character of 2 or 3 bytes lies across its end or across two chunks. In the protocol two calls of one peer can be answered out of order
and share a batch, and the third has the same id as one of them. For the watchers
two sessions of one front end overlap, so that a watcher has two clients, loses both,
is revived and replaced; two changes can be resolved in either order. Three
acquisitions are enough for two that share a creation and one that follows; five
allow two whole lives of a value. Three plug-ins are the fewest with a dependency that
two others share, and each has an event of its own. Two breaks of a socket reach the fall-back with and
without a connection in between. Deadlock is not
checked: in every module the system may come to rest (nothing left to do, all
bounds used up).

The findings are disagreements between the code and what its tests and comments
say; `PROJECT.json` quotes the lines. Seeing one takes a particular order of events;
with auto save and full saves the first cannot happen as long as nothing is undone, reverted
or fails, and with full saves the third cannot, `doubtful` contents excepted; both is proved.

### Fairness

`FairSpec` of `EditorModel`: the auto save timer fires, file events are delivered,
the stat is answered, and the running operation goes on, dialogs included (weak
fairness of each). Timers and promise callbacks are run by the event loop; answers
come because the connection is up, and a request that fails is an answer too.
A dialog that is never answered blocks the queue for good: `EventuallySaved` is
stated for behaviours that never ask and in which no save fails. Nothing is assumed of the user, of other
programs or of failures. `FairSpec` of `RpcProtocol`: each peer's timer fires, its
batches arrive and are handled, and its handlers end; a handler that waits for
the user for ever leaves its call pending, which is meant. `FairSpec` of
`FileWatching`: the back end and the service handle their messages, a session whose
front end is gone is closed (`checkAlive` in `messaging-contribution.ts` pings), timers
fire, and native watchers start or fail; nothing is assumed of front ends. `FairSpec` of
`Channels`: a socket that is retried for ever (`maxRetries: Infinity`) opens or fails, the
browser notices a socket the back end has closed, messages and requests that are not
lost arrive and are polled. `FairSpec` of `HostedPlugin`: the plug-in host and the
front end go on with what they can do, that is, requests are answered, timers fire and
`activate` functions end, or are rejected; nothing is assumed of the network, of deployments,
of the user and of failures.

## 4. Proofs

`EditorModelProofs` proves, from the assumptions on the constants
(`ModeAssumption`, `BoundAssumption`: Boolean modes, natural bounds of any size):

| theorem | statement |
|---|---|
| `TypeCorrect` | `Spec => []TypeOK` |
| `CleanAtSavedVersion` | `Spec => []SavedVersionIsClean` |
| `ConflictsAreReal` | `Spec => PromptOnlyIfChanged` |
| `NothingOverwrittenBlindly` | `~Incremental` implies `Spec => NoBlindOverwrite` |
| `CancelledSavesAreSilent` | `Spec => CancelledSaveSendsNothing` |
| `CleanEditorsAreSaved` | `AutoSave`, `~Incremental` and no undos, reverts and failures imply `Spec => []CleanMeansSaved` |

- `TypeOK` is inductive because of its part `RunningOK`: something runs exactly
  when something is queued, the step fits the kind of the head of the queue, and
  the changes captured by a save are still at the front of the journal. The lemmas
  about `Cancel`, `After`, `Run` and `Finish` carry this through the queue.
- `SavedVersionIsClean` needs `IdsInv`: version ids are handed out once, so that an
  edit never lands on the saved id by accident.
- `PromptOnlyIfChanged` needs `TextsInv` (contents are handed out once) and
  `VersionsInv`: both remembered versions are up to date whenever the file holds a
  content the editor knows and that is not `doubtful`, except between a write and the
  arrival of the answer with its version.
- `NoBlindOverwrite` needs in addition `BaseInv`, the converse: at the version it
  remembers, the editor knows what is in the file, unless that is `doubtful`. It fails with incremental saves,
  which is what `editor_cancelled_update` shows; hence the assumption.
- `CancelledSaveSendsNothing` follows from `TypeOK` step by step.
- `CleanMeansSaved` looks only at states in which nothing is under way, and says nothing of
  how they come about. `CleanInv` does: a clean editor that shows something else than
  the file is about to save it, has read it, has a reload to come, or the file is newer
  than the resource knows and an event or a stat is under way (`Noticed`). The last part
  would be lost when a version is noted without its content being shown, which is what
  a cancelled reload does; another reload is then behind it. And a save marks the editor
  clean only if nothing was typed since its content was captured, because typing
  cancels it; this needs auto save. Each other assumption is needed too, TLC finds a
  behaviour without it: undoing a reload leads back to the saved version id, so the editor
  is clean and older than the file; a soft revert is meant to make it so; after a failed
  read nobody tries again; and an incremental save may send changes that a reload has
  made obsolete. Edits, edits of participants, saves, changes by other programs and
  `dispose` may be as many as they like, in any order.

`WatcherServiceProofs`, for any number of clients, calls, watchers, events and failures
(`WatchBoundAssumption`: natural bounds), and `FileWatchingProofs`, for any front ends
and sessions (`SessionAssumption`):

| theorem | statement |
|---|---|
| `ReferencesCounted` | `ServiceSpec => []RefsMatchHandles` |
| `OneWatcherPerPath` | `ServiceSpec => []OneLiveWatcher` |
| `DisposalScheduled` | `ServiceSpec => []DisposalIfUnused` |
| `NoStrayNativeWatcher` | `ServiceSpec => []RunningIsLive` |
| `TypeCorrect` | `Spec => []TypeOK`, of the whole system |
| `UsesServiceAsSpecified` | `Spec => ServiceSpec`: the system implements the service's specification |
| `ServiceInvariantsHold` | the four invariants in every behaviour of the system |
| `DeliveryInvariant` | `Spec => []Delivery` |
| `ChangesReachEverybody` | `Spec => []NothingLost` |
| `ChangesStayInOrder` | `Spec => []EventsInOrder` |
| `FailuresReachEverybody` | `Spec => []ErrorsReachTheirClients` |

- `ServiceInv` is the conjunction of the four invariants and the types. None of them is
  inductive alone: `DisposalIfUnused` needs that references are counted exactly, or a
  watcher could reach zero unnoticed; counting needs that only the live watcher of the
  map is handed out; and the types (references are natural numbers) need the counting.
- `SystemInv` adds what the back end knows: a handle, a reply or a change speaks only of
  ids the service has given out (`Known`). This is what the refinement needs: every call
  of a session is one the service's specification has an action for.
- `Delivery` adds three things to it. `SessionsKnown`: calls, ids and references belong to
  sessions there have been. `Ordered`: in each of the places a change passes (the queue of
  the watcher, the messages to the back end, what a session has been told) the changes of
  a watcher are in order, and what is further on is older; without it `EventsInOrder`
  would not survive the step from one place to the next. `Expected`: who waits for a change
  has asked for the watcher that raised it, so that it is not dropped when a handle goes.

`MultiRingBufferProofs`, for every size of the buffer, the strings written and their characters
(`SizeAssumption`, `BoundAssumption`) and any set of readers:

| theorem | statement |
|---|---|
| `TypeCorrect` | `Spec => []TypeOK` |
| `NewestBytesHeld` | `Spec => []HoldsNewestBytes` |
| `ChunksAreRuns` | `Spec => []ChunksAreConsecutive` |
| `WantedIsGiven` | `Spec => []NoDataWhileWanted` |
| `DrainedHasNewest` | `Spec => []DrainedSawNewest` |

- `RingInv` counts from the head backwards, across the end once the buffer is full; the
  tail follows from the head. It does not mention readers, and `HoldsNewestBytes`, which
  counts from the tail, is a consequence.
- `ReadersInv` adds that a reader is either drained, and then has the newest byte, or on
  a slot between tail and head; that every chunk is a run with at most one spoilt character
  (`SpoiltAcrossParts`), which later writes do not change (`ReadsLater`). `RoundsAddUp`
  joins the rounds of a stream's loop. That a reader misses nothing but what was overwritten
  does not hold (`ring_skipped`) and is not claimed.

`HostedPluginProofs`, for any finite set of plug-ins, events and dependencies
(`PluginAssumption`, `DeployAssumption`):

| theorem | statement |
|---|---|
| `PluginTypes` | `Spec => []TypeOK`, of front end and host |
| `PluginInvariant` | `Spec => []PluginInv` |
| `RunningReachable` | `Spec => []RunningCanBeStopped` |
| `TogetherInvariant` | `Spec => []Together` |
| `SidesAgree` | `Spec => []HostsAgree` |
| `EventsInvariant` | `Spec => []Passing` |
| `EventsGetThrough` | `Spec => []EventsActivate` |
| `DependenciesInvariant` | `Spec => []Dependencies` |
| `DependenciesStartFirst` | `Spec => DependenciesFirst` |

- `PluginInv` is `TypeOK` and `ActivationsKnown`: an activation in progress, unless its
  plug-in was told to stop meanwhile, is the one the manager has for that plug-in, and
  the plug-in is registered. `RunningCanBeStopped` speaks only of what runs, and nothing
  would connect a plug-in that starts to the maps that were filled when its activation
  began. That `SetToSeq` enumerates a set once is proved from its definition.
- `Together` ties the two sides to each other: the load of the front end and the state of
  its contributions (`Loading`, `Starting`), the calls on their way and the one the host
  works on (`Talk`: one `$start` at a time, that of the load in progress, and no `$stop`
  behind it), and `HostsAgree` in the form that nothing on its way stops what is held for
  started, and that nothing is on its way to a crashed host (`Agreed`). When `$start` answers,
  each of its plug-ins is registered, or its manifest was unreadable, or the host is gone
  (`Reached`); when it is rejected the front end holds none of them for started.
- `Passing` follows an event from the moment it is raised: it is among those given to the
  `$start` that registers the plug-in, or on its way behind it, or it has found the plug-in
  waiting (`Waits`). Of the registered plug-ins only those are followed (`Told`) that the front
  end holds for started, or will with the answer `$start` is coming to: a `$start` that is
  rejected passes the rest of its events to none. That calls arrive in the order they were made is what this rests on;
  the gap that `overlooked` names is the one place where an event is neither.
- `Dependencies` has three parts. Activations begun for one another wait in a chain
  (`Chain`, `Awaited`), along which plug-ins only come nearer to those that depend on
  nothing (`Ranked`, from `Acyclic`). What the shared set of visited plug-ins holds was
  started, or is on that chain or about to fail (`Accounted`). So a dependency that is
  skipped because it has been visited was started: if it were on the chain instead it would
  be above the plug-in that depends on it, which `Ranked` excludes. `Gone` records that of
  all dependencies an activation has gone past, which is all of them when it starts.

`RpcProtocolProofs`, for any number of calls, cancellations and disposals
(`PeersAssumption`: there are two peers; `BoundAssumption`: natural bounds):

| theorem | statement |
|---|---|
| `RpcInvariant` | `Spec => []RpcInv` |
| `RpcTypes` | `Spec => []TypeOK` |
| `NothingLost` | `Spec => []NoCallIsLost` |
| `CancellationsReach` | `Spec => []CancellationsArrive` |
| `TokenSourcesCleared` | `Spec => []SourcesOfRunning` |
| `CallsImplemented` | `Spec => CallsAsPromised`: the protocol implements `RemoteCalls` |

- The messages that a peer has sent and the other has not handled are its *road*: what
  is left of the batch in hand, the batches on the wire, the queue. `Ordered` says that a
  request or a reply is on the road once and a cancellation behind its request. Every
  step only moves, drops or appends batches and messages (`RoadFlushed`, `RoadReceived`,
  `RoadHandled`, `RoadCut`, `RoadExtended`), so that order needs no other argument.
- `CallsOK` is about the calls of one peer. `IdsOK` and `PendingOK`: an id belongs to one
  call, and exactly the pending calls are found under theirs. `MessagesOK` and
  `HandlersOK`: a message or an invocation names the right call and is true of it.
  `UnderWay` is the converse: as long as both peers are up, a call that is not over has
  its request, its invocation or its reply. The first parts hold whoever is disposed;
  together with `Ordered` the last gives `NoCallIsLost`, and `MessagesOK` gives the
  refinement: a reply carries what its own handler did.
- A step changes the calls of one peer and leaves those of the other alone (`Quiet`),
  which is why each action is looked at once.

`ReferencesProofs`, for any number of acquisitions and of calls of `clear` or of a value's
`dispose` (`ReferenceAssumption`):

| theorem | statement |
|---|---|
| `TypeCorrect` | `Spec => []TypeOK` |
| `ReferencesInvariant` | `Spec => []Inv` |
| `ValuesKeptForUsers` | `Spec => []KeptForItsUsers` |
| `NoValueLeaks` | `Spec => []NothingLeaks` |
| `ValuesDisposedOnce` | `Spec => []DisposedOnce` |
| `CollectionMapsAgree` | `Spec => []MapsAgree` |

- `Inv` is `TypeOK` and, as long as `careful` holds, `Good`, which is about the order of the
  microtasks. A value survives between its first user's release and the next
  acquisition only because of that order: acquisitions that share a creation
  reach the references one after the other, each is told of its own a job later, and the
  adoptions of the promise stand where they cannot come too late (`Creation`, `Lives`:
  either the first is yet to come, with the adoptions in front of it, or one that is still
  to be told stands behind all that are to come). `Members` and `Grants` are the counting.

`ChannelsProofs`, for any paths, channels, breaks and messages (`ChannelAssumption`):

| theorem | statement |
|---|---|
| `TypeCorrect` | `Spec => []TypeOK` |
| `FrontInvariant` | `Spec => [](TypeOK /\ Front)` |
| `ServicesAskedForOnce` | `Spec => []AskedForOnce` |
| `ChannelsInvariant` | `Spec => [](TypeOK /\ Front /\ Agreement)` |
| `BothSidesAgree` | `Spec => []ChannelsAgree` |

- `Front` needs nothing of the back end: a path that is asked for has a channel or is
  listed for one (`NoneForgotten`), and `Connected` says which of the two, so that
  opening a socket, which serves the whole list, makes no second channel.
- `Agreement` says that of a channel there is one message on its way in both directions
  together, that whoever waits has one that will end the wait, and what each kind of message
  says is still true when it arrives (`AllSent`, `AllSaid`, `AllServed`, `AllAnswered`).
  One message at a time is why it does not matter that requests of the fall-back overtake each
  other. Until the first loss only, like the property.

Only model-checked is liveness, for TLAPS has no fairness: `EventuallySaved`,
`EveryOperationEnds`, `CallsSettle`, `ClosedSessionsLetGo`, `UnusedStops`, `WatchedAgain`,
`ServedInTheEnd` and `DeployedGetStarted`. Every other property that a
passing run checks is proved for all values of the constants, and so are the types of every
module; only `rpc_calls` checks its type invariant too, for it says when a message may be
queued. The inductive invariants were model-checked before they were proved.

## 5. Plan

Done: the editor model, the ring buffer, the RPC protocol, the watcher service and
its clients, reference collections, channels, plug-in hosting for one host. Next would be:

1. Connection status on top of `Channels` (its ping has no timeout of its own, so a
   half-open socket is only noticed by the back end), and the composition of
   `FileWatching` with `Channels` in place of its abstract connection.
2. Data messages of channels in the fall-back, where they may overtake each other.
3. Tasks, pending preference changes; a second plug-in host, and plug-ins in the browser.
4. Proofs about the composition: that what `Channels` promises is enough for the connection
   that `FileWatching` and `HostedPlugin` assume, and under which conditions incremental saves
   of the editor keep the text.

## 6. Not modelled

User interface (layout, widgets, menus, key bindings), wrappers of external
programs (git, ripgrep), languages and text mate grammars, the generators and
packaging under `dev-packages/`: their state is held by libraries or other processes,
or they compute output without any protocol. In the modelled components the
following is left out: encodings, binary and large files, `applySnapshot` and the
language features of the editor model; the actor registry and the object transfer
of the RPC protocol; `emptyForReader`, `empty`, `streamsSize` and `readersSize` of the ring
buffer, which only read; the ignore patterns of the watchers; `SyncReferenceCollection`
and the events of reference collections; data messages, routing by pattern and the
Electron connection of the channels; the deployer, storage paths, webviews, tests, the
time limits of stopping a host, hosts other than `main` of the plug-ins, and a `registerPlugin`
that throws, in the middle of `$start`, over an activation event that is not a string.

Known limits of the code that no property covers. A reload leaves the saved version id of the
editor alone: who undoes the reload is back at that id and has a clean editor with
the text from before it. A limited read of the ring buffer that
starts before the end of the buffer and stops short of it, while what is stored goes on
across the end, returns everything up to the end, but the reader moves on only by what
it asked for, and gets the surplus again.  Changes and errors of a watcher
without clients are sent to every session (`iterRegisteredClients` takes no list for
all): a change that was queued before the last client left is broadcast during the
deferred disposal. Properties here say who must be told, not who must not.
