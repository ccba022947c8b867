# A TLA+ verification project for Simulation AI

This directory holds TLA+ modules that model the Python core of Simulation AI
(`core/src/simulation_ai`), the TLC configurations that check them on small
instances, and theorems about them that TLAPS has checked for every instance.
`PROJECT.json` maps each definition to the lines it translates.

Paths below are relative to the repository. `engine.py` and its neighbours are
in `core/src/simulation_ai/`.

## 1. The system

Simulation AI is a desktop whose every visible state is a sealed record. A
Godot client sends interaction packets to a Python core over HTTP; the core
turns a packet into an observation, a proposed patch and, if the patch passes
the deterministic gate, a new state, an event in a log and a moved ref.

### Inventory

| Component | State | Operations | Hard behaviour |
|---|---|---|---|
| Commit plane (`engine.py`, `store.py`, `render.py`, `model.py`) | files: `states/`, `refs/`, `events.jsonl`, `evidence/`, `proposals/`, `render_jobs/`, `frames/`, `memories/`; in memory: one re-entrant lock | boot, observe, propose, interact, commit, verify, fork, switch | a handler is five to nine file writes; the process may die between any two and inside a line of the log; packets are sent again; verdicts come late, twice, or after a switch of branch |
| Replay audit (`engine.py:724`) | none, reads the files | replay, branches, events | takes no lock: reads between the writes of a commit |
| Memory plane (`memory.py`, `memoric.py`) | `memories/`, `memoric-register.json` | remember, deposit, query | written after the event is visible |
| Model vault (`model_setup.py`) | the model's file, chunk parts, a stream's part, one thread, a pool | status, download, verify | ranged requests that fail in five ways, retries, resumption after a kill, two requests at once |
| Credential vault (`credentials.py`) | one sealed file, its temporary, the key in memory, the environment | save, import, unlock, lock, clear, resolve | a kill or a full disk between the writes of a save or a clear |
| Desktop images (`encrypted_images.py`, `image_generation.py`, `engine.py:301-337`) | an SQLite table, `origin-image.id` | generate, edit, reset, latest | no lock; the key is resolved three times around a slow provider call |
| Governed prompts (`model_execution.py`, `workflows.py`, `prompt_runs.py`, `engine.py:363-428`) | `prompt-runs/` | execute a prompt or a workflow, review, list | retries, failed steps, consent that may be revoked, records that must not change |
| Patch validation (`validation.py`, `model.py`, `engine.py`) | the current document | validate and apply on a copy; the edits of a commit, a verdict and a fork | operations see what the ones before them did; paths reach below what they name; some edits pass no gate |
| Observer and proposer (`adapters.py`) | none | observe, propose | operations are chosen by reading a document that later patches may have taken apart |
| Prompt packs (`prompts.py`, `prompts/`, `schemas/`) | files | route, render, validate output, validate pack | files are read again at each use |
| HTTP server (`server.py`) | a thread for each request | the routes | every interleaving above comes from it |
| Godot client (`systems/`) | packet sequence, last known HEAD, one HTTP request, status, a preview world | capture, probe, poll, commit, fork, switch, verify, query | coroutines wait for one request in no order; calls time out and arrive all the same; commits made locally when the request is busy |

How they meet: the server calls the engine from one thread per request. Nearly
all writers of the store hold `SurfaceEngine._lock`; replay, listings and the
image handlers do not. Prompt handlers hold the same lock during the provider's
calls, which is what makes the consent check hold. The images and the prompts
both read the key of the credential vault, which has its own lock. The vault of
the model is independent of all of them. The client sees the core through one
request at a time and through snapshots it polls; several clients may use one
core.

What would make each part correct is stated as properties in section 4. The
places where the code is exposed are listed in `PROJECT.json` under `hazards`,
with the properties that cover each one; those without a property say why.

### Modules

| Module | Models | Built on |
|---|---|---|
| `WorldHistory` | abstract: what a commit, a fork and a switch promise | |
| `SurfaceEngine` | the commit plane, write by write | |
| `SurfaceHistory` | refinement mapping from `SurfaceEngine` to `WorldHistory` | `SurfaceEngine`, `WorldHistory` |
| `ReplayAudit` | the unlocked replay request beside the handlers | `SurfaceEngine` |
| `SurfaceEngineProofs` | theorems: files, handlers, log | `SurfaceEngine` |
| `SurfaceHistoryProofs` | theorems: lineage, replay, refinement | `SurfaceHistory`, `ReplayAudit`, `SurfaceEngineProofs` |
| `PatchGate` | documents, patches and the gate; edits made after and without it | |
| `PatchProposer` | what packets turn into, in front of the gate | `PatchGate` |
| `PatchGateProofs` | theorems | `PatchProposer` |
| `SurfaceClient` | the client's coroutines, beside what the core promises | `WorldHistory` |
| `SurfaceClientProofs` | theorems | `SurfaceClient` |
| `GemmaDownload` | the model vault | |
| `GemmaDownloadProofs` | theorems | `GemmaDownload` |
| `CredentialPromise` | abstract: what a credential vault promises | |
| `CredentialVault` | the credential vault, write by write | `CredentialPromise` |
| `CredentialVaultProofs` | theorems | `CredentialVault` |
| `DesktopImages` | image requests beside the vault whose key they use | `CredentialVault` |
| `DesktopImagesProofs` | theorems | `DesktopImages`, `CredentialVaultProofs` |
| `PromptRuns` | prompts, workflows, traces and reviews | |
| `PromptRunsProofs` | theorems | `PromptRuns` |
| `MC*` | instances for TLC, no definitions of the system | |

Operators whose comment starts with *Mutant* are no part of the system. Each is
a plausible mistake in the definition that follows it; put in its place, it
must make TLC find a property violated, so that no property holds whatever the
code does. `PROJECT.json` lists which property each one breaks.

## 2. How the models correspond to the code

**SurfaceEngine.** A handler is a record `op[t]` of the thread that runs it:
its next step, what it read (`from`, `index`), what it will write (`next`,
`job`, `to`). `Acquire` is the `with self._lock` of each handler; the checks
that precede the first write are part of the entering action. From then on each
`store.save_*`, `append_event` or `set_ref` is one action, and `After` gives
their order for each handler. `Crash` may come between any two; `Start` boots
only a store without HEAD (`engine.py:121`). Files are written once:
`_write_json_once` compares contents, so saving the same state twice finds the
file it has, while saving a frame twice raises because a frame carries the time
it was made (`FrameCollision`). A state's hash is the position of its first
saving, which is what content addressing gives: equal contents, equal hash. An
event id made by the core is a digest and is modelled by the record of its
inputs. A patch is reduced to the event that carries it, the render class it
asks for, and what a client's own patch can do to the fields that handlers read
later (`FrameNames`, `PartsLeft`): write any name into
`/render/committed_frame_id`, which is an allowed pointer (`PatchedFrames`),
and remove `node.renderer` or `layer_state.meta_model`, without which a verdict
and a fork raise (`PatchedParts`). `Planned` then sets what `commit_proposal`
sets: a native render gets a frame of its own, a queued one keeps the name the
patch has left. The history field `patched` marks a name that a patch wrote.
That the gate refuses a patch is `RejectPatch`, and the rest of what it does to
the document is `PatchGate`. Frames are named by digests of the job and of the
state or the decision; `Texts` are the wordings that make two of them differ.
`acked` is a history variable: states that a handler
has returned to a client. `tail` is how the log ends: `whole`, `open` (a kill
came before the newline) or `torn` (a line that is no event: cut inside by a
kill, glued to an open one, or split by `str.splitlines` at a separator that
`json.dumps` does not escape, which `Separators` allows in payloads). Every read of a log with a torn line raises
(`store.py:85-95`): `LogReads` guards the actions that contain the read, and
`ReadTornLog` is the exception of each handler that makes one, at its own
place: `interact` on entry, a commit before its first write, a fork after it
has moved HEAD, a verdict after it has saved the job.

**PatchGate, PatchProposer.** A document is a function from paths to what is
there, so that replacing a dict, removing it and writing below it have the
effect the code's nested dicts have. `validate` checks the shape and the root
of every operation before the first is applied (`Validate`); `apply` works on a
copy, one operation at a time, and a `test` in the middle or a missing parent
refuses the whole; then the invariants of the copy are tested. The edits that
`commit_proposal`, `verify_render`, `create_branch` and `from_dict` make to the
document behind the gate are part of the actions. The items of a list are left
out: a list can be replaced, removed or appended to. Proposals come from the
proposer, read off the current document, or from clients, which may commit any.

**SurfaceClient.** A coroutine runs from one `await` to the next, and each such
stretch is an action. `_api` takes the one HTTP request or waits for it,
looking again every tenth of a second: waiting calls are a set, because nothing
orders them. A call that times out may still be served, once, at any later time
(`late`), may have been served (`Fail` after `Serve`), or may be lost. States
that the client makes up are one, `Preview`. The text that `main.gd` has
captured is flushed at once before a click, which is two captures in a row
here. The core is `WorldHistory`, which `SurfaceEngine` implements, with
`_validate_packet_parent` in front.

**ReplayAudit.** `verify_replay` makes two reads, the log and the refs, and
each is an action; neither waits for the lock.

**GemmaDownload.** A chunk is its length and whether its bytes are the model's,
which the code cannot see before the end. The faults are the exceptions
`_download_chunk` tells apart: refused (`HTTPError`), reset in the middle
(`OSError`), cut short (an early end of the body), any other exception, and a
server without ranges, which takes `_download_stream`. `range_start` is fixed
when a task starts (`model_setup.py:528`), so it is part of the task's record.

**CredentialVault.** A sealed file gives its key to its password and to nobody
else. Operations that fail a check change nothing. Every file operation of
`_atomic_write` and `_best_effort_delete` is an action and may fail as its
`try` blocks say.

**DesktopImages.** Each request resolves the key before the call, to save and
to show; between these points other requests, vault operations and a kill may
come. The clock has the code's resolution of a second, and an answer takes at
least one.

**PromptRuns.** One workflow stands for all; a request is the set of steps it
has inputs for, which is all its run id depends on when the model is the
default one. The number of calls names the provider's response ids.

## 3. The runs and their bounds

Each run finishes within about two minutes. `CHECK_DEADLOCK FALSE` is set where
the system stops because a bound on states, kills, calls or chunks is reached,
or because the model has arrived.

| Run | Instance | Shows |
|---|---|---|
| `engine_packets` | two threads, two event ids, native rendering, routes observe, propose, interact and commit, three states, payloads that cut a line, one kill | `TypeOK`, `LogIsSound`, `AtMostOnceCommit`, `EventsAreBacked` |
| `engine_branches` | two threads, commits, verdicts, forks and switches on two branches, patches that write a frame name, two wordings, four states, one kill | `RefsNameSavedStates`, `AckedNeverLost`, `LogReplaysToRefs`, `ReferencedArtifactsExist`, `FrameProvenance`, `RefsOnlyAdvance`, `TornLineIsLast` |
| `engine_history` | two threads, the same handlers, patches that remove `node.renderer` or `meta_model`, four states, no kill, a replay request beside them | `ImplementsWorldHistory`, `ReplayNeverAlarms` |
| `engine_retry` | retries of a render up to the code's limit of two | violated: `RetryExhaustionFallsBack` |
| `audit_chain` | commits, one kill, a replay | violated: `VerifiedReplayIsAChain` |
| `gate_commands` | three commits: every packet of the proposer for three targets and two spawned ids, or one of seventeen proposals of a client's own; forks and verdicts between | `WorldIsSound`, `QueuedNamesItsJob`, `ProtectedIsKept`, `OwnPatchesApply`, `IdentityIsKept`, `PacketsKeepObjects`, `TypeOK` |
| `client_session` | two branches, two captured interactions, two other calls, one move of another client, three events, with fairness | `CommittedAsSeen`, `EventsInUserOrder`, `ViewCatchesUp`, `ClientTypeOK` |
| `gemma_resume` | two chunks of two units, two workers, two requests, three attempts, every fault but a broken response, kills | `TypeOK`, `CompleteChunksAreSound`, `BytesAreKept`, `DownloadsEnd` |
| `gemma_stuck` | connections that break within a response | violated: `SavedChunksArrive` |
| `images_vault` | two keys, two passwords, a kill, one image request at a time, three answers | `ImplementsCredentialPromise`, `MemoryIsSealed`, `EditsContinueNewest`, `OneOriginal`, `ImageTypeOK` |
| `images_race` | two image requests at a time | violated: `OneOriginal` |
| `runs_safe` | two threads, a workflow of two steps, two attempts, two executions, a review, kills, with weak fairness | `CallsAreAllowed`, `TracesExist`, `FailsClosed`, `RecordsAreImmutable`, `LockIsReturned`, `TypeOK` |

Why the bounds are enough. Two threads are all it takes for one to be between
two writes while another waits or reads. Three states are genesis and two
commits, the least that lets a stale parent be refused and a packet be sent
again after another one; four allow a fork, a switch back, a commit beside it
and a verdict or a second commit. One kill separates any two writes of a handler, and
restarting covers every later handler on what the kill left. A chunk of two
units can be partial, and two chunks can be in different conditions. Two keys
and two passwords tell right from wrong; the third image answer makes an edit
follow an edit. Two interactions are enough for one to overtake the other while
both wait or are late, and the other calls and the other client put a fork, a
switch or a foreign commit between them; the run also passes with three. Three
commits let a patch take something apart, a second one build on what is left
and a third one meet the result. `MaxStates` limits the length of a run only at
the entry of a handler: no handler in progress meets it half-way, except that a
proposal may be refused at its planning step.

The symmetry sets of the engine runs permute threads and event ids, which no
definition tells apart.

### Fairness

`FairSpec` of `PromptRuns` gives weak fairness to the steps of each thread and
to nothing else: the operating system runs the threads of a live process, and
that a provider's call ends is the timeout of `urlopen`. Nothing makes clients
send, kills happen or a dead process restart. `FairSpec` of `SurfaceClient`
gives weak fairness to the client's own timers and coroutines and to the end of
a request, by an answer or by its timeout; a call that was given up may never
reach the core, and nothing makes the core accept anything. `ThreadSpec` of `GemmaDownload` is
weak fairness of the download thread and its pool, in which each response ends,
because `urlopen` has a timeout. `FairSpec` of that module, used only where the
property fails even so, adds what a user who asks again and a network that now
and then answers in full would give.

## 4. What is shown

*Commit plane.* Refs always name saved states of their own branch, move only
along parent links, and lose nothing that was returned to a client, also across
kills. The log is sound and a client's event id is committed at most once,
however often it is sent. A ref never shows a state whose job is not on disk,
nor a frame that is not on disk unless a client's patch wrote its name: a patch
sent to `/v1/commit` may name any frame when it asks for an image, and the core
keeps that name. All other frames are the genesis frame, the parent's, the
native frame of the state itself, or a candidate on the successor of the state
its job was made for. A line of the log that is no event stays the last one:
nobody writes behind it, although every handler that reads the log fails until
it is repaired by hand. While nothing is killed and no payload cuts a line of
the log (`Undisturbed`), the log replays to the refs and the write-by-write
engine implements a history with atomic commits, forks and switches: a commit
takes effect when its event is appended, a fork when its event is, a switch
when HEAD moves; readers that take no lock see nothing that this history does
not have. Without kills replay never reports a problem.

*Patches.* Whatever is proposed, and whatever the edits behind the gate meet,
every current document passes the gate's own checks, and a document is queued
exactly if it names its pending job. Protected roots stay as genesis made them.
The identity layer stays unless a proposal addresses the whole of
`/layer_state`. What the proposer makes of a packet passes the gate in every
world that no client's own patch has touched, and in every world it never
removes an object or changes what kind of object it is.

*Client.* An interaction is committed on the state its user saw or not at all,
and a user's interactions on a branch are in the order they were made in, each
once, however calls wait, overtake each other, time out and arrive late. Once
everybody rests, a client that is online shows the core's state.

*Model vault.* Without connections that break inside a response, a chunk of the
right length holds the right bytes; no failure or kill discards bytes; every
download ends.

*Credential vault.* It implements an atomic promise: one credential, replaced
and opened only with its password, and a key in memory that is always the
sealed one. A file that a clear overwrote and a kill kept from being unlinked
counts as erased; that it also blocks later saves (`credentials.py:408-415`) is
not held against it.

*Images.* One request at a time, edits form a line and one frame is the
original.

*Prompts.* No call of a prompt or a workflow is made while the committed policy
forbids it (image calls ask no policy: `engine.py:301-337`). Traces and records
never change. A recorded step has its trace. A workflow that fails is not
recorded as completed. The engine's lock, which these requests hold during
their calls, always comes back.

### Disagreements with the documents

Four runs end in a counterexample to a sentence of the repository; `findings`
in `PROJECT.json` quotes each.

1. `engine_retry`: after the first retry the job's state is no longer HEAD, so
   nothing a verifier says later is shown; a render whose job fell back stays
   queued on screen.
2. `audit_chain`: a kill between the log and HEAD gives two events with one
   parent, and replay calls the history verified.
3. `gemma_stuck`: a retry after a broken connection appends bytes twice; the
   chunk looks complete with the wrong content and is never repaired.
4. `images_race`: two requests that find no origin marker both write it.

Met while modelling, without a run of their own:

- A patch sent to `/v1/commit` may write `/render/committed_frame_id`. If it asks
  for an image, the commit leaves the name there (`engine.py:514-552`), and the
  current state shows a frame that does not exist or that no verdict has
  passed. `docs/SECURITY.md:41-42` says that a candidate "must pass semantic
  fidelity, temporal continuity, object identity, protected-region, and
  UI-usability checks". The model has these states; `ReferencedArtifactsExist`
  and `FrameProvenance` name the exception (`patched`).
- Events are written with `ensure_ascii=False` and read with `str.splitlines`
  (`store.py:81`, `store.py:88`): a payload with U+2028, U+2029 or U+0085 is
  committed, its line can not be read back, and every later read of the log
  raises, although `docs/UNIVERSAL_SIMULATOR.md:1272` says that "every accepted
  change becomes a replayable event". The model has this too (`Separators`).
- A new API key loses the frames sealed under the old one
  (`encrypted_images.py:54`; `Load` and `Show` refuse them in the model).
- A workflow run again with the same inputs collides with its own first record,
  after its calls were paid for (`workflows.py:46`; `SaveWorkflowRun`).
- A torn log line makes every handler that reads the log raise. A fork raises
  after it has moved HEAD (`engine.py:617-620`), so that it both fails and
  takes effect.
- `docs/SECURITY.md` protects the identity layer; a client's proposal that
  replaces or removes `/layer_state` as a whole passes (`validation.py:70`).
  `IdentityIsKept` is stated for the other proposals.
- A patch may remove `/objects/node.renderer`; a later verdict is then saved in
  its job and raises before it is shown (`engine.py:690`; `SaveVerdict`).
- One failed poll makes a client's session a preview for good
  (`surface_bridge.gd:143`).
- `validate_pack` collects problems, but then computes the pack's digest, which
  reads every file again and raises: a missing or empty prompt file or an
  unreadable schema ends the call, and with it `snapshot`
  (`prompts.py:513-526`, `engine.py:286-291`), instead of being reported.
- `validate_pack` accepts shared policies that are themselves callable, and
  required inputs with names that look like secrets; rendering refuses both.
- The prompt and the schema of a call are read again when its answer is
  validated: a pack edited in between validates an answer against a schema that
  its `prompt_sha256` does not name.

## 5. What is proved

Every safety invariant and action property that a passing run checks is also a
theorem: the run shows it on its instance, the theorem for all values of the
constants, that is any sets of threads, event ids, branches, render classes,
verdicts, packets and proposals, and any bounds. The assumptions are the named
`ASSUME`s of the modules, which TLC evaluates in the runs, and the hypotheses
that the table names.

| Theorem | Statement |
|---|---|
| `TypeCorrectness` | `Spec => []TypeOK` of the commit plane |
| `RefsAlwaysNameSavedStates` | `Spec => []RefsNameSavedStates` |
| `LogIsAlwaysSound` | `Spec => []LogIsSound` |
| `EventsCommitAtMostOnce` | `Spec => []AtMostOnceCommit` |
| `TornLinesStayLast` | `Spec => TornLineIsLast` |
| `ArtifactsAlwaysExist` | `Spec => []ReferencedArtifactsExist` |
| `FramesKeepProvenance` | `Spec => []FrameProvenance` |
| `EventsAlwaysBacked` | `Spec => []EventsAreBacked` |
| `AckedStatesStay` | `Spec => []AckedNeverLost`, kills included |
| `RefsAlwaysAdvance` | `Spec => RefsOnlyAdvance`, kills included |
| `Settled` | `Spec => []UndisturbedInv` (and the invariants under it): what holds between the writes while no kill has come between them and no payload has cut a line |
| `LogAlwaysReplays` | `Spec => []LogReplaysToRefs` |
| `ReplayIsQuiet` | `AuditSpec => []ReplayNeverAlarms` |
| `EngineImplementsHistory` | `Spec /\ []Undisturbed => ImplementsWorldHistory` |
| `UnkilledImplementsHistory` | if `MaxCrashes = 0` and not `Separators`: `Spec => ImplementsWorldHistory` |
| `WorldStaysSound` | `Spec => []WorldIsSound` of the gate with its proposer |
| `QueueStaysNamed` | `Spec => []QueuedNamesItsJob` |
| `ProtectedStaysKept` | `Spec => []ProtectedIsKept` |
| `IdentityStaysKept` | `Spec => IdentityIsKept` |
| `DocumentsStayTrees` | `Spec => []TypeOK` of the gate |
| `OwnPatchesAlwaysApply` | `Spec => []OwnPatchesApply` of the proposer |
| `PacketsAlwaysKeepObjects` | `Spec => PacketsKeepObjects` |
| `ClientTypeCorrectness` | `Spec => []ClientTypeOK` of the client |
| `CommitsAreAsSeen` | `Spec => []CommittedAsSeen` |
| `UserOrderIsKept` | `Spec => []EventsInUserOrder` |
| `DownloadTypeCorrectness` | `Spec => []TypeOK` of the model vault |
| `BytesStayKept` | `Spec => BytesAreKept`, under every fault |
| `CompleteChunksStaySound` | `Spec => []CompleteChunksAreSound`, if no connection breaks inside a response |
| `PromptTypeCorrectness` | `Spec => []TypeOK` of the prompts |
| `CallsStayAllowed` | `Spec => []CallsAreAllowed` |
| `RecordedTracesExist` | `Spec => []TracesExist` |
| `WorkflowsFailClosed` | `Spec => []FailsClosed` |
| `RecordsStayImmutable` | `Spec => RecordsAreImmutable` |
| `KeyInMemoryIsSealed` | `VaultSpec => []MemoryIsSealed` |
| `VaultKeepsPromise` | `VaultSpec => ImplementsCredentialPromise` |
| `ImageTypeCorrectness` | `Spec => []ImageTypeOK` of the images |
| `FramesFormALine` | `Spec => []EditsContinueNewest`, for one request at a time |
| `OriginalIsNamedOnce` | `Spec => []OneOriginal`, for one request at a time |

### The commit plane

*Refs and log.* None of the safety properties is inductive: each is about
files, and what keeps it true is what a handler in the middle of its writes
knows. `IInv` adds two things. `MutualExclusion`: a thread without the lock
runs no handler, so a write by one disturbs no plan of another. `HandlerSound`:
the steps a handler of each kind can be at; that before planning it still sees
the HEAD it started from; that once it has saved its state `to` names it; and
that until its event is appended its index is the next one, its parent the
state it read, its client's id absent from the log and the log readable
(`HasReadLog`, which is all that `TornLinesStayLast` needs: whoever writes an
event has read the log since it took the lock). Kills are easy, since they only
forget handlers. The proof takes the actions one by one, in groups of lemmas:
types, `ServingInv`, and the properties. The lemma `EnterServing` treats all
entries alike: it suffices that the handler they install is sound.

*Artifacts.* `BackedInv` follows what a handler has written so far.
`HandlerBacked` says for each kind and step which of evidence, proposal, job
and frame are on disk, that the job of a commit is new until it is saved and is
saved only behind its event (`JobsAreLogged`), and that the frame of a verdict
is the one its decision calls for. Because parents are older than their
children (`ParentsAreOlder`), saving a state changes the parent of no other,
and a frame once sourced stays so. A name that a patch wrote is excepted while
it is passed on, and until a native frame or a candidate replaces it. A memory is either written or about to be by
the handler that appended its event, if nothing was killed.

*Lineage, across kills.* The states a state descends from are defined as the
least set that holds it and the parent of each member (`LineageIn`), not by
recursion, so that the facts needed (a state descends from itself and from its
parent, descent is transitive, saving a state changes no lineage) follow
without induction over data. `LineageInv` says where a handler stands between
its two refs: HEAD is on or ahead of the branch ref in lineage (`HeadLeads`),
which is what a kill between the two leaves and a restart continues from.

*Undisturbed.* `SettledInv` relates log, states and refs: every state but
genesis has its event and every event's result is the next state, a state that
its branch ref does not reach is being committed right now (`RefsAreLatest`),
HEAD is the ref of its branch or a handler is about to make it so
(`HeadIsLatest`), and each event continues the last state of its branch
(`EventSettled`). Model checking it first showed which of these hold at which
step. From it follow `LogAlwaysReplays`; that replay, which reads the log and
then the refs, sees a log and a ref that is at most further than it
(`ReplayIsQuiet`; that event ids differ, `EventIdsDiffer`, needs that a digest
made by the core names its parent); and the refinement. For the refinement each
action changes the mapped world by one step or not at all: the lemmas say what
the world is while no handler writes, between a commit's event and its refs,
between a fork's refs and its event, and before boot is over, and each write
moves from one of these to the next. `WorldStep` bounds the new state by
`MaxStates`, which the engine respects.

### Patches

`GateInv` says of the current document what the gate tests of a copy
(`SoundState`), of the work in progress that it is typed, and of the draft that
its protected roots are those of the current one. Each edit (`Graft`,
`Without`, `WithFields`) has lemmas that say which paths it leaves alone; an
allowed pointer starts at an allowed root, which is none of the protected ones,
and a pointer that is neither `/layer_state` nor below the identity layer does
not reach it. Strings may be any set that holds the ones the code writes
(`TextAssumption`).

*Trees.* `IsTree` says that above every item is a dict and above all of them a
root. It is stated of a path's parent and of its first segment: the second part
follows from the first only by induction, and `from_dict` needs it, since it
adds a default only where a root is missing and nothing may be left under it.
The operations' values are trees, being JSON (`IsOperation`), and so are
genesis and the defaults (`GenesisAssumption`).

*Packets.* The operations that the proposer makes are classified once
(`Mild`): a test of the selection as it is, a goal, one of the fields genesis
has (`Addressed`), the status of an object that exists, an input, or one new
object. `Ready` documents have all that these address. Their paths are leaves,
of which none is above another (`LeavesAreApart`) nor above an object, a root
or a list (`AboveLeaves`); so an operation on a ready draft applies, is allowed,
and leaves a ready draft (`MildRuns`, `MildAuthorized`), and verdicts and forks
edit leaves only (`LeavesEdit`). `PacketInv` carries it through: the
operations in progress were read off this document, the draft has all of its
objects, and unless a client has committed a patch of its own, document and
draft are ready. What the second operation of a spawn selects is there because
the first one added it. `PacketsAlwaysKeepObjects` needs no ready document:
it holds in the worlds that clients have edited, too. The packets are arbitrary;
assumed are that their ids are namespaced, as `_command_operations` makes them
(`SpawnedAssumption`), and that genesis has the fields addressed
(`FurnishedAssumption`).

### The others

**The client.** The two properties are about the log. What keeps them true is
what is known of every packet that is still under way, be it in the request,
waiting or late (`PacketSound`): its parent is a preview or a state of the
history, never the word `genesis` that the core takes for any state; and every
event of its client on its branch, up to the state it was captured on, is older
than it. A new event has a new state, so nothing under way can have seen it
(`CallsStaySound`); an accepted packet names the tip, so every event before it
is one it has seen (`HistoryGrows`). A capture is numbered after all events.
The rest is that each coroutine keeps its client sound.

**The prompts.** `RunsInv`: a thread with a job holds the lock and the policy
allows calls, because the policy changes only while the lock is free; a job's
trace is already what its record may say. That run ids stay in their range is a
budget (`BudgetInv`): the calls made are at most the executions begun times the
steps, and while a job runs they leave room for the steps it has not done.

**The model vault.** `KeptInv`: chunks are about to be cleaned up only when the
model is verified. `SoundInv`: as long as no attempt leaves bytes behind, the
range of a running task starts where its file ends, and tasks live in the pool
only, so that nothing is appended to a file that was cleaned up. `SizeInv`: a
running task's file is at most as many chunks long as it has made attempts;
every attempt may append a whole range, which is the bound `TypeOK` states.

**The credential vault.** `VaultInv` adds to `MemoryIsSealed` what holds inside
an operation: the temporary file about to be renamed holds what the operation
will open, a save works on no file or on one its password opens, and a clear
runs with a closed vault. The refinement is then one step of
`CredentialPromise`, or none, for each action: a rename is `Store`, an overwrite
or an unlink of a sealed file is `Erase`.

**The images.** Each row and each answer on its way has cost a second of the
clock (`AnswersPaid`), which bounds the table. With one request at a time
(`Alone`) rows are older towards the front, so that the newest by time is the
last one, and what a request read as the newest still is when it saves
(`LineInv`); a frame is named the original only by a request that found no
marker, and then no frame has been named (`MarkInv`). The hypothesis is not a
weakness of the proof: `images_race` shows that `OneOriginal` fails without it.

### Only model-checked

Liveness (`DownloadsEnd`, `LockIsReturned`,
`ViewCatchesUp`) rests on fairness and `ENABLED`, which the prover does not
have. The four violated runs are counterexamples and need no proof.

## 6. What is not modelled

- The text of prompts and memories; ranking of memories; the observer, whose
  report is text and a confidence that no check reads.
- Prompt packs and schemas: routing, rendering and schema checks keep no state
  and take no part in any interleaving but the re-reading of files named in
  section 4. What they refuse is a failed step of `PromptRuns`.
- Items inside the lists of a document.
- A full disk in `append_event`; that it leaves the same torn line is covered
  by the kill.
- Hash caching in the model vault, the diagnostics and the vision probe; the
  vision adapter, which only builds a command line.
- Image bytes, legacy prompt columns and the shown-file cache.
- The order of two reviews in one millisecond.
- HTTP parsing and the token check.
- Forks and switches that a client makes offline, which never leave it; the
  desktop's drawing and raw input; scripts, packaging and the `.bak` files.

## 7. Plan

Done, in this order: `SurfaceEngine` with its abstract history and its audit;
its invariant and theorems; `CredentialVault` with its promise and proof;
`GemmaDownload`; `DesktopImages`; `PromptRuns`; `PatchGate` and `PatchProposer`
with their theorems; `SurfaceClient`; the log as lines, with a torn last one;
the theorems of the client, the prompts and the model vault; the artifacts,
lineages, replay and refinement of the commit plane; the types of the images,
the prompts and the model vault; one line of images; trees and packets.

Next:

1. What the proved invariants say of restarts: which parts of `SettledInv`
   survive a kill at each write, stated as properties of their own.
2. The images with several requests at a time: what still holds of the line.
3. What is left of section 6 that keeps state: the cached hash of the model
   vault, which two threads write.
