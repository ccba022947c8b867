--------------------------- MODULE SurfaceEngine ---------------------------
(***************************************************************************)
(* The commit plane of the Python core: the filesystem store (store.py),   *)
(* the render plane (render.py) and the handlers of SurfaceEngine          *)
(* (engine.py) that write to it.                                           *)
(*                                                                         *)
(* A handler runs on a thread of the HTTP server, holds the engine's lock  *)
(* from its first read to its return, and makes its writes one file at a   *)
(* time.  Each write is an action, so that the process can be killed       *)
(* between any two of them.  A killed process loses the lock and every     *)
(* handler in progress; the files stay.                                    *)
(*                                                                         *)
(* Abstractions.  A content-addressed state is a record and its hash is    *)
(* the position at which that content was first saved: the same content    *)
(* has the same hash.  logical_time is the depth of the parent chain and   *)
(* is left out.  A patch is abstracted to the event that carries it, the   *)
(* render class it asks for, the name it leaves in                         *)
(* /render/committed_frame_id, and whether it leaves the two parts of the  *)
(* document that handlers reach into without looking.                      *)
(***************************************************************************)
EXTENDS Integers, Sequences

CONSTANTS
  Threads,     \* threads of the HTTP server
  EventIds,    \* event ids that clients put in their packets
  Branches,    \* cleaned branch names
  Main,        \* the branch made by boot
  Modes,       \* render classes that proposals ask for
  Routes,      \* the routes that clients call
  Verdicts,    \* the decisions that verifiers send
  Texts,       \* wordings of a proposal, and of a decision
  PatchedFrames, \* frame names that the patches of clients write
  PatchedParts,  \* what the patches of clients leave of Parts
  Separators,  \* whether payloads hold characters that end a line for
               \* str.splitlines and not for json.dumps (U+2028, U+0085)
  None,        \* no thread, no event, no wording
  MaxRetries,  \* RenderJob.max_retries
  MaxStates,   \* bound: states ever saved
  MaxCrashes   \* bound: kills of the process

ImageModes == {"regional_image_edit", "new_keyframe"}
RenderModes == {"none", "native_ui", "composite"} \cup ImageModes
Decisions == {"pass", "retry", "fallback", "human_review", "reject"}
RenderStatus == {"verified", "queued", "fallback", "rejected"}
Kinds == {"none", "boot", "observe", "propose", "interact", "commit",
          "verify", "fork", "switch"}

ASSUME ThreadsAssumption == None \notin Threads /\ None \notin EventIds
ASSUME BranchesAssumption == Main \in Branches
ASSUME ModesAssumption == Modes \subseteq RenderModes
ASSUME VerdictsAssumption == Verdicts \subseteq Decisions
ASSUME RoutesAssumption == Routes \subseteq Kinds \ {"none", "boot"}
ASSUME BoundsAssumption ==
  /\ MaxRetries \in Nat /\ MaxStates \in Nat /\ MaxCrashes \in Nat
  /\ Separators \in BOOLEAN

VARIABLES
  states,     \* states/*.json in the order in which they were first saved
  head,       \* refs/HEAD, 0 while the file does not exist
  refs,       \* refs/branch-<name>, 0 while the file does not exist
  events,     \* events.jsonl: the lines ever written
  tail,       \* the end of events.jsonl: see TailTypes
  evidence,   \* evidence/*.json
  proposals,  \* proposals/*.json
  jobs,       \* render_jobs/*.json
  frames,     \* frames/*.json
  memories,   \* memories/*.json, each named after the event it remembers
  memoric,    \* events deposited in memoric-register.json
  phase,      \* of the process: "down", "booting" or "serving"
  lock,       \* owner of SurfaceEngine._lock
  op,         \* the handler each thread is running
  crashes,    \* kills so far
  acked       \* history: states whose handler has returned them to a client

store == <<states, head, refs, events, tail, evidence, proposals, jobs,
           frames, memories, memoric>>
vars == <<store, phase, lock, op, crashes, acked>>
-----------------------------------------------------------------------------
(***************************************************************************)
(* Records.  Observations, proposals and render jobs are named by digests  *)
(* of the event id and the parent state: their key.  A native frame is     *)
(* named after its job and the state, a candidate after its job and the    *)
(* decision, so that another wording makes another name.  A client's patch *)
(* may name any frame, one that is none, or no frame.  An event id is the  *)
(* client's, or a digest made by the core for a verdict or a fork.         *)
(***************************************************************************)
Keys == [event : EventIds \cup {None}, parent : Nat]
Key(e, p) == [event |-> e, parent |-> p]
NoKey == Key(None, 0)

FrameIds ==
  [made_by : {"boot", "native", "verifier", "client", "nobody"}, job : Keys,
   text : Texts \cup {None}]
FrameOf(maker, key, text) == [made_by |-> maker, job |-> key, text |-> text]
GenesisFrame == FrameOf("boot", NoKey, None)

(* What verify_render and create_branch take for granted in the document.  *)
Parts == {"node.renderer", "meta_model"}

ASSUME PatchesAssumption ==
  PatchedFrames \subseteq FrameIds /\ PatchedParts \subseteq SUBSET Parts

StateRecords ==
  [parent : Nat, branch : Branches, last : EventIds \cup {None},
   mode : RenderModes, status : RenderStatus, pending : Keys,
   frame : FrameIds,     \* render["committed_frame_id"]
   patched : BOOLEAN,    \* history: a patch wrote that name
   parts : SUBSET Parts] \* the parts that the document has

Genesis ==
  [parent |-> 0, branch |-> Main, last |-> None, mode |-> "native_ui",
   status |-> "verified", pending |-> NoKey, frame |-> GenesisFrame,
   patched |-> FALSE, parts |-> Parts]

JobRecords == [state : Nat, status : RenderStatus, retries : Nat]
NoJob == [state |-> 0, status |-> "verified", retries |-> 0]

LogIds ==
  [origin : {"client", "verdict", "fork"}, key : Keys,
   arg : Decisions \cup Branches \cup {""}, text : Texts \cup {None}]
LogId(origin, key, arg, text) ==
  [origin |-> origin, key |-> key, arg |-> arg, text |-> text]
ClientId(e) == LogId("client", Key(e, 0), "", None)
VerdictId(key, decision, text) == LogId("verdict", key, decision, text)
ForkId(b, p) == LogId("fork", Key(None, p), b, None)

(***************************************************************************)
(* A handler in progress: its next step, what it read when it started and  *)
(* what it is going to write.                                              *)
(***************************************************************************)
Steps == {"idle", "observe", "propose", "plan", "verdict", "frame", "state",
          "append", "job", "head", "ref", "memory", "deposit"}
Handlers ==
  [kind : Kinds, step : Steps, mode : RenderModes, id : LogIds,
   from : Nat, next : StateRecords, index : Nat, key : Keys,
   job : JobRecords, to : Nat]

NoHandler ==
  [kind |-> "none", step |-> "idle", mode |-> "native_ui",
   id |-> ClientId(None), from |-> 0, next |-> Genesis, index |-> 0,
   key |-> NoKey, job |-> NoJob, to |-> 0]

(***************************************************************************)
(* The log ends with a whole line, with an event whose newline is missing, *)
(* or it holds a line that is no event and can not be read any more: a     *)
(* part of one that a kill left, or one that str.splitlines cuts in two.   *)
(***************************************************************************)
TailTypes == {"whole", "open", "torn"}

EventRecords ==
  [index : Nat, kind : Kinds, id : LogIds, branch : Branches, parent : Nat,
   result : Nat]

TypeOK ==
  /\ states \in Seq(StateRecords)
  /\ head \in Nat
  /\ refs \in [Branches -> Nat]
  /\ events \in Seq(EventRecords)
  /\ tail \in TailTypes
  /\ evidence \subseteq Keys
  /\ proposals \subseteq Keys
  /\ DOMAIN jobs \subseteq Keys
  /\ \A k \in DOMAIN jobs : jobs[k] \in JobRecords
  /\ frames \subseteq FrameIds
  /\ memories \subseteq Nat
  /\ memoric \subseteq EventIds
  /\ phase \in {"down", "booting", "serving"}
  /\ lock \in Threads \cup {None}
  /\ op \in [Threads -> Handlers]
  /\ crashes \in Nat
  /\ acked \subseteq Nat

Init ==
  /\ states = <<>> /\ events = <<>> /\ tail = "whole"
  /\ head = 0 /\ refs = [b \in Branches |-> 0]
  /\ evidence = {} /\ proposals = {} /\ jobs = [k \in {} |-> NoJob]
  /\ frames = {} /\ memories = {} /\ memoric = {}
  /\ phase = "down" /\ lock = None
  /\ op = [t \in Threads |-> NoHandler]
  /\ crashes = 0 /\ acked = {}
-----------------------------------------------------------------------------
(* What the handlers read. *)

Ids == 1 .. Len(states)
current == states[head]
(* Mutant: an event id is never found in the log. *)
LogNeverSearched(id) == FALSE
EventLogged(id) == \E i \in 1 .. Len(events) : events[i].id = id

(* Mutant: list_events skips a line that it can not parse. *)
TornLinesSkipped == TRUE
(* list_events parses every line and raises on one that is no event. *)
LogReads == tail # "torn"

(* _validate_packet_parent: "" and "genesis" (0 here) match every state. *)
ParentAccepted(claim) == claim \in {0, head}

(* Content addressing: saving a content again finds the file it has. *)
Saved(s) == \E i \in Ids : states[i] = s
HashOf(s) ==
  IF Saved(s) THEN CHOOSE i \in Ids : states[i] = s ELSE Len(states) + 1

(* Mutants of the order of the writes: the memory of a commit is left out; *)
(* the branch ref is left out; the render job is saved after the refs.     *)
AfterWithoutMemory(kind, s) ==
  CASE s = "observe" -> IF kind = "observe" THEN "done" ELSE "propose"
    [] s = "propose" -> IF kind = "propose" THEN "done" ELSE "plan"
    [] s = "frame" -> IF kind = "boot" THEN "done" ELSE "state"
    [] s = "state" -> IF kind = "boot" THEN "head" ELSE "append"
    [] s = "append" -> "job"
    [] s = "job" -> "head"
    [] s = "head" -> "ref"
    [] s = "ref" -> IF kind = "boot" THEN "frame"
                    ELSE IF kind = "interact" THEN "deposit" ELSE "done"
    [] OTHER -> "done"

AfterWithoutRef(kind, s) ==
  CASE s = "frame" -> IF kind = "boot" THEN "done" ELSE "state"
    [] s = "state" -> IF kind \in {"boot", "fork"} THEN "head" ELSE "append"
    [] s = "append" -> IF kind = "commit" THEN "job"
                       ELSE IF kind = "verify" THEN "head" ELSE "done"
    [] s = "job" -> "head"
    [] s = "head" -> IF kind \in {"boot", "fork"} THEN "ref" ELSE "done"
    [] s = "ref" -> IF kind = "boot" THEN "frame" ELSE "append"
    [] OTHER -> "done"

AfterJobLast(kind, s) ==
  CASE s = "frame" -> IF kind = "boot" THEN "done" ELSE "state"
    [] s = "state" -> IF kind \in {"boot", "fork"} THEN "head" ELSE "append"
    [] s = "append" -> IF kind = "fork" THEN "done" ELSE "head"
    [] s = "head" -> IF kind = "switch" THEN "done" ELSE "ref"
    [] s = "ref" -> IF kind = "boot" THEN "frame"
                    ELSE IF kind = "fork" THEN "append"
                    ELSE IF kind = "verify" THEN "done" ELSE "job"
    [] OTHER -> "done"

(***************************************************************************)
(* The order of the writes: the step a handler makes after step s.         *)
(***************************************************************************)
After(kind, s) ==
  CASE s = "observe" -> IF kind = "observe" THEN "done" ELSE "propose"
    [] s = "propose" -> IF kind = "propose" THEN "done" ELSE "plan"
    [] s = "frame" -> IF kind = "boot" THEN "done" ELSE "state"
    [] s = "state" -> IF kind \in {"boot", "fork"} THEN "head" ELSE "append"
    [] s = "append" -> IF kind = "fork" THEN "done"
                       ELSE IF kind = "verify" THEN "head" ELSE "job"
    [] s = "job" -> "head"
    [] s = "head" -> IF kind = "switch" THEN "done" ELSE "ref"
    [] s = "ref" -> IF kind = "boot" THEN "frame"
                    ELSE IF kind = "fork" THEN "append"
                    ELSE IF kind = "verify" THEN "done" ELSE "memory"
    [] s = "memory" -> IF kind = "interact" THEN "deposit" ELSE "done"
    [] OTHER -> "done"

(* The handler returns and the lock is released; boot opens the server. *)
Return(t) ==
  /\ op' = [op EXCEPT ![t] = NoHandler]
  /\ lock' = None
  /\ phase' = "serving"

Advance(t) ==
  LET after == After(op[t].kind, op[t].step)
  IN IF after = "done" THEN
       /\ Return(t)
       /\ acked' = IF op[t].to # 0 THEN acked \cup {op[t].to} ELSE acked
     ELSE
       /\ op' = [op EXCEPT ![t].step = after]
       /\ UNCHANGED <<lock, phase, acked>>

(* Mutant: handlers run without the engine's lock. *)
AcquireUnlocked(t) == phase = "serving" /\ lock' = t

(* A handler enters its critical section. *)
Acquire(t) == phase = "serving" /\ lock = None /\ lock' = t

Enter(t, handler) ==
  /\ Acquire(t)
  /\ handler.kind \in Routes
  /\ op' = [op EXCEPT ![t] = handler]
  /\ UNCHANGED <<store, phase, crashes, acked>>

At(t, step) == op[t].step = step
Room == Len(states) < MaxStates

(* The steps that begin by reading the log. *)
NextReadsLog(t) ==
  \/ At(t, "plan")
  \/ op[t].kind = "verify" /\ At(t, "state")
  \/ op[t].kind = "fork" /\ At(t, "append")

NewEvent(t) ==
  [index |-> op[t].index, kind |-> op[t].kind, id |-> op[t].id,
   branch |-> op[t].next.branch, parent |-> op[t].from, result |-> op[t].to]
-----------------------------------------------------------------------------
(* Process life: constructor, boot and kill. *)

(* The constructor boots a store that has no HEAD, and only such a store. *)
Start(t) ==
  /\ phase = "down"
  /\ IF head = 0 THEN
       /\ phase' = "booting"
       /\ lock' = t
       /\ op' = [op EXCEPT ![t] = [NoHandler EXCEPT
                   !.kind = "boot", !.step = "state", !.next = Genesis]]
     ELSE phase' = "serving" /\ UNCHANGED <<lock, op>>
  /\ UNCHANGED <<store, crashes, acked>>

(***************************************************************************)
(* A kill leaves the files as they are, but for the line that a handler is *)
(* writing: any part of it may be there.  A line that lacks nothing but    *)
(* its newline is read as an event until another one is glued to it.       *)
(***************************************************************************)
PartOfLine ==
  \E t \in Threads :
    /\ At(t, "append")
    /\ NextReadsLog(t) => LogReads
    /\ \/ tail' = "torn" /\ UNCHANGED events
       \/ /\ events' = Append(events, NewEvent(t))
          /\ tail' = IF tail = "whole" THEN "open" ELSE "torn"

Crash ==
  /\ phase # "down"
  /\ crashes < MaxCrashes
  /\ phase' = "down" /\ lock' = None
  /\ op' = [t \in Threads |-> NoHandler]
  /\ crashes' = crashes + 1
  /\ PartOfLine \/ UNCHANGED <<events, tail>>
  /\ UNCHANGED <<states, head, refs, evidence, proposals, jobs, frames,
                 memories, memoric, acked>>
-----------------------------------------------------------------------------
(* Entry of the handlers. *)

(***************************************************************************)
(* /v1/observe, /v1/propose and /v1/interact check the packet, and         *)
(* interact refuses an event id that the log already holds.  A packet for  *)
(* /v1/propose may bring its observation, which is not saved.              *)
(***************************************************************************)
FirstSteps(kind) ==
  IF kind = "propose" THEN {"observe", "propose"} ELSE {"observe"}

ReceivePacket(t, kind, e, m, claim) ==
  /\ ParentAccepted(claim)
  /\ kind = "interact" => LogReads /\ ~EventLogged(ClientId(e))
  /\ \E first \in FirstSteps(kind) :
       Enter(t, [NoHandler EXCEPT !.kind = kind, !.step = first,
                   !.mode = m, !.id = ClientId(e), !.from = head,
                   !.key = Key(e, head)])

(* /v1/commit: the proposal names the state it was made against. *)
ReceiveProposal(t, e, m, parent) ==
  /\ parent = head
  /\ Enter(t, [NoHandler EXCEPT !.kind = "commit", !.step = "plan",
                 !.mode = m, !.id = ClientId(e), !.from = head,
                 !.key = Key(e, parent)])

(* Mutant: a branch that exists is created again. *)
CreateBranchAgain(t, b) ==
  /\ Room
  /\ Enter(t, [NoHandler EXCEPT !.kind = "fork", !.step = "state",
                 !.id = ForkId(b, head),
                 !.from = head, !.index = Len(events) + 1,
                 !.next = [current EXCEPT !.parent = head, !.branch = b]])
  /\ "meta_model" \in current.parts

(* Without layer_state.meta_model create_branch raises before it writes.   *)
CreateBranch(t, b) ==
  /\ refs[b] = 0
  /\ Room
  /\ Enter(t, [NoHandler EXCEPT !.kind = "fork", !.step = "state",
                 !.id = ForkId(b, head),
                 !.from = head, !.index = Len(events) + 1,
                 !.next = [current EXCEPT !.parent = head, !.branch = b]])
  /\ "meta_model" \in current.parts

SwitchBranch(t, b) ==
  /\ refs[b] # 0
  /\ Enter(t, [NoHandler EXCEPT !.kind = "switch", !.step = "head",
                 !.from = head, !.to = refs[b]])

(* verify_candidate: the verdict's effect on the job. *)
Judged(job, decision) ==
  IF decision = "pass" THEN [job EXCEPT !.status = "verified"]
  ELSE IF decision = "retry" /\ job.retries < MaxRetries
       THEN [job EXCEPT !.status = "queued", !.retries = @ + 1]
  ELSE IF decision \in {"retry", "fallback"}
       THEN [job EXCEPT !.status = "fallback"]
  ELSE [job EXCEPT !.status = "rejected"]

(* The state that shows the verdict on the state the job was built for. *)
Shown(key, job, decision, text) ==
  [current EXCEPT
     !.parent = head,
     !.status = job.status,
     !.pending = IF job.status = "queued" THEN key ELSE NoKey,
     !.frame = IF decision = "pass" THEN FrameOf("verifier", key, text)
               ELSE @,
     !.patched = @ /\ decision # "pass"]

VerifyRender(t, key, decision, text) ==
  /\ Room
  /\ LET updated == Judged(jobs[key], decision)
     IN Enter(t, [NoHandler EXCEPT !.kind = "verify", !.step = "verdict",
                    !.id = VerdictId(key, decision, text),
                    !.from = head, !.index = Len(events) + 1,
                    !.key = key, !.job = updated,
                    !.next = Shown(key, updated, decision, text)])
-----------------------------------------------------------------------------
(* The steps.  Each writes one file and passes to the next step. *)

(* observe: the first observation of an event on a state is kept. *)
SaveEvidence(t) ==
  /\ At(t, "observe")
  /\ evidence' = evidence \cup {op[t].key}
  /\ Advance(t)
  /\ UNCHANGED <<states, head, refs, events, proposals, jobs, frames,
                 memories, memoric, tail, crashes>>

SaveProposal(t) ==
  /\ At(t, "propose")
  /\ proposals' = proposals \cup {op[t].key}
  /\ Advance(t)
  /\ UNCHANGED <<states, head, refs, events, evidence, jobs, frames,
                 memories, memoric, tail, crashes>>

(* The proposer or the invariant gate raises: an unknown command, a failed *)
(* test operation, a state that breaks an invariant.                       *)
RejectPatch(t) ==
  /\ op[t].step \in {"propose", "plan"}
  /\ Return(t)
  /\ UNCHANGED <<store, crashes, acked>>

(***************************************************************************)
(* What the operations make of the fields of the current document that the *)
(* engine does not set itself.  Those of a packet leave them alone; those  *)
(* of a proposal sent to /v1/commit are the client's: /render and the rest *)
(* are allowed roots.                                                      *)
(***************************************************************************)
FrameNames(kind) ==
  {current.frame} \cup IF kind = "commit" THEN PatchedFrames ELSE {}
PartsLeft(kind) ==
  {current.parts} \cup IF kind = "commit" THEN PatchedParts ELSE {}

Patched(name, left) ==
  [current EXCEPT !.frame = name,
                  !.patched = @ \/ name # current.frame,
                  !.parts = left]

(***************************************************************************)
(* The successor that handler h makes of a patched document: it sets the   *)
(* status, the mode and the pending job, and the frame of what is rendered *)
(* natively.  A queued render goes on showing the frame that the patch has *)
(* left.                                                                   *)
(***************************************************************************)
Queued(h) == h.mode \in ImageModes

Planned(document, h, text) ==
  [document EXCEPT
     !.parent = head,
     !.last = h.key.event,
     !.mode = h.mode,
     !.status = IF Queued(h) THEN "queued" ELSE "verified",
     !.pending = IF Queued(h) THEN h.key ELSE NoKey,
     !.frame = IF Queued(h) THEN @ ELSE FrameOf("native", h.key, text),
     !.patched = Queued(h) /\ @]

(* commit_proposal up to its first write. *)
PlanCommit(t) ==
  /\ At(t, "plan")
  /\ Room
  /\ LogReads /\ ~EventLogged(op[t].id)
  /\ \E name \in FrameNames(op[t].kind), left \in PartsLeft(op[t].kind),
        text \in Texts :
       LET next == Planned(Patched(name, left), op[t], text)
       IN op' = [op EXCEPT ![t] = [@ EXCEPT
                   !.next = next,
                   !.index = Len(events) + 1,
                   !.job = [NoJob EXCEPT !.status = next.status],
                   !.step = IF Queued(op[t]) THEN "state" ELSE "frame"]]
  /\ UNCHANGED <<store, phase, lock, crashes, acked>>

(* commit_proposal raises on an event id that was logged meanwhile. *)
RefuseDuplicate(t) ==
  /\ At(t, "plan")
  /\ LogReads /\ EventLogged(op[t].id)
  /\ Return(t)
  /\ UNCHANGED <<store, crashes, acked>>

(***************************************************************************)
(* The log can not be read.  A commit raises before its first write, a     *)
(* verdict after its job and its frame, a fork after it has moved HEAD and *)
(* its own ref.                                                            *)
(***************************************************************************)
ReadTornLog(t) ==
  /\ NextReadsLog(t)
  /\ ~LogReads
  /\ Return(t)
  /\ UNCHANGED <<store, crashes, acked>>

(* Mutant: a verdict is shown on whatever state is current. *)
SaveVerdictAnywhere(t) ==
  /\ At(t, "verdict")
  /\ jobs' = [jobs EXCEPT ![op[t].key] = op[t].job]
  /\ op' = [op EXCEPT ![t].step =
              IF op[t].id.arg = "pass" THEN "frame" ELSE "state"]
  /\ UNCHANGED <<states, head, refs, events, evidence, proposals, frames,
                 memories, memoric, tail, phase, lock, crashes, acked>>

(***************************************************************************)
(* verify_render saves the verdict first; the verdict is shown only while  *)
(* the job's state is the current one.  It raises on a document that has   *)
(* no node.renderer to show it on.                                         *)
(***************************************************************************)
SaveVerdict(t) ==
  /\ At(t, "verdict")
  /\ jobs' = [jobs EXCEPT ![op[t].key] = op[t].job]
  /\ IF head = op[t].job.state /\ "node.renderer" \in current.parts THEN
       /\ op' = [op EXCEPT ![t].step =
                   IF op[t].id.arg = "pass" THEN "frame" ELSE "state"]
       /\ UNCHANGED <<lock, phase>>
     ELSE Return(t)
  /\ UNCHANGED <<states, head, refs, events, evidence, proposals, frames,
                 memories, memoric, tail, crashes, acked>>

(* save_frame: a frame's file carries the time at which it was made. *)
SaveFrame(t) ==
  /\ At(t, "frame")
  /\ op[t].next.frame \notin frames
  /\ frames' = frames \cup {op[t].next.frame}
  /\ Advance(t)
  /\ UNCHANGED <<states, head, refs, events, evidence, proposals, jobs,
                 memories, memoric, tail, crashes>>

(* ... so that saving it again raises "immutable record collision". *)
FrameCollision(t) ==
  /\ At(t, "frame")
  /\ op[t].next.frame \in frames
  /\ Return(t)
  /\ UNCHANGED <<store, crashes, acked>>

SaveState(t) ==
  /\ At(t, "state")
  /\ NextReadsLog(t) => LogReads
  /\ states' = IF Saved(op[t].next) THEN states
               ELSE Append(states, op[t].next)
  /\ LET hash == HashOf(op[t].next)
         job == [op[t].job EXCEPT !.state = hash]
     IN op' = [op EXCEPT ![t] = [@ EXCEPT
                 !.to = hash, !.job = job, !.step = After(op[t].kind, "state")]]
  /\ UNCHANGED <<head, refs, events, evidence, proposals, jobs, frames,
                 memories, memoric, tail, phase, lock, crashes, acked>>

(* json.dumps writes U+2028 and its like as they are: a line whose payload *)
(* holds one is two lines for list_events.                                 *)
AppendEvent(t) ==
  /\ At(t, "append")
  /\ NextReadsLog(t) => LogReads
  /\ events' = Append(events, NewEvent(t))
  /\ \E cut \in BOOLEAN :
       /\ cut => Separators /\ op[t].kind \in {"interact", "commit"}
       /\ tail' = IF tail = "whole" /\ ~cut THEN "whole" ELSE "torn"
  /\ Advance(t)
  /\ UNCHANGED <<states, head, refs, evidence, proposals, jobs, frames,
                 memories, memoric, crashes>>

SaveRenderJob(t) ==
  /\ At(t, "job")
  /\ jobs' = [k \in DOMAIN jobs \cup {op[t].key} |->
                IF k = op[t].key THEN op[t].job ELSE jobs[k]]
  /\ Advance(t)
  /\ UNCHANGED <<states, head, refs, events, evidence, proposals, frames,
                 memories, memoric, tail, crashes>>

(* set_ref refuses a state that is not saved. *)
SetHead(t) ==
  /\ At(t, "head")
  /\ op[t].to \in Ids
  /\ head' = op[t].to
  /\ Advance(t)
  /\ UNCHANGED <<states, refs, events, evidence, proposals, jobs, frames,
                 memories, memoric, tail, crashes>>

(* Mutant: every commit moves branch-main. *)
SetMainRef(t) ==
  /\ At(t, "ref")
  /\ op[t].to \in Ids
  /\ refs' = [refs EXCEPT ![Main] = op[t].to]
  /\ Advance(t)
  /\ UNCHANGED <<states, head, events, evidence, proposals, jobs, frames,
                 memories, memoric, tail, crashes>>

SetBranchRef(t) ==
  /\ At(t, "ref")
  /\ op[t].to \in Ids
  /\ refs' = [refs EXCEPT ![op[t].next.branch] = op[t].to]
  /\ Advance(t)
  /\ UNCHANGED <<states, head, events, evidence, proposals, jobs, frames,
                 memories, memoric, tail, crashes>>

SaveMemory(t) ==
  /\ At(t, "memory")
  /\ memories' = memories \cup {op[t].index}
  /\ Advance(t)
  /\ UNCHANGED <<states, head, refs, events, evidence, proposals, jobs,
                 frames, memoric, tail, crashes>>

(* Mutant: the deposit is made under no event id. *)
DepositAnonymous(t) ==
  /\ At(t, "deposit")
  /\ memoric' = memoric \cup {None}
  /\ Advance(t)
  /\ UNCHANGED <<states, head, refs, events, evidence, proposals, jobs,
                 frames, memories, tail, crashes>>

Deposit(t) ==
  /\ At(t, "deposit")
  /\ memoric' = memoric \cup {op[t].key.event}
  /\ Advance(t)
  /\ UNCHANGED <<states, head, refs, events, evidence, proposals, jobs,
                 frames, memories, tail, crashes>>
-----------------------------------------------------------------------------
Receive(t) ==
  \/ \E e \in EventIds, m \in Modes, claim \in 0 .. Len(states) :
       \E kind \in {"observe", "propose", "interact"} :
         ReceivePacket(t, kind, e, m, claim)
  \/ \E e \in EventIds, m \in Modes, parent \in Ids :
       ReceiveProposal(t, e, m, parent)
  \/ \E b \in Branches : CreateBranch(t, b) \/ SwitchBranch(t, b)
  \/ \E key \in DOMAIN jobs, decision \in Verdicts :
       \E text \in Texts : VerifyRender(t, key, decision, text)

Step(t) ==
  \/ SaveEvidence(t) \/ SaveProposal(t) \/ RejectPatch(t)
  \/ PlanCommit(t) \/ RefuseDuplicate(t) \/ ReadTornLog(t) \/ SaveVerdict(t)
  \/ SaveFrame(t) \/ FrameCollision(t) \/ SaveState(t) \/ AppendEvent(t)
  \/ SaveRenderJob(t) \/ SetHead(t) \/ SetBranchRef(t) \/ SaveMemory(t)
  \/ Deposit(t)

Next == Crash \/ \E t \in Threads : Start(t) \/ Receive(t) \/ Step(t)

Spec == Init /\ [][Next]_vars
-----------------------------------------------------------------------------
(* Correctness. *)

Idle == phase = "serving" /\ lock = None
Referenced == ({head} \cup {refs[b] : b \in Branches}) \ {0}

(* The states from which state i descends, itself included: the least set  *)
(* that holds i and the parent of each of its members.                     *)
ParentClosed(saved, S) == \A m \in S : saved[m].parent \in S \cup {0}
LineageIn(saved, i) ==
  {n \in 1 .. Len(saved) :
     i # 0 /\ \A S \in SUBSET (1 .. Len(saved)) :
                i \in S /\ ParentClosed(saved, S) => n \in S}

(* The last of the first n events on branch b, 0 if there is none. *)
LastOn(b, n) ==
  LET on == {i \in 1 .. n : events[i].branch = b}
  IN IF on = {} THEN 0 ELSE CHOOSE i \in on : \A k \in on : k <= i

(* HEAD and the branch refs name saved states, and a branch's ref names a  *)
(* state of that branch: work on one branch never moves another            *)
(* (set_ref, switch_branch).  Holds across kills.                          *)
RefsNameSavedStates ==
  /\ head # 0 => head \in Ids
  /\ \A b \in Branches :
       refs[b] # 0 => refs[b] \in Ids /\ states[refs[b]].branch = b

(* What verify_replay demands of events.jsonl: consecutive indices, and    *)
(* parent and result states that are saved and linked.  Holds across       *)
(* kills, because a state is saved before the event that names it.         *)
LogIsSound ==
  \A i \in 1 .. Len(events) :
    LET e == events[i]
    IN /\ e.index = i
       /\ {e.parent, e.result} \subseteq Ids
       /\ states[e.result].parent = e.parent
       /\ states[e.result].branch = e.branch

(* A client's event id is committed at most once, however often the packet *)
(* or the proposal is sent again, before or after a kill.                  *)
AtMostOnceCommit ==
  \A i, j \in 1 .. Len(events) :
    /\ events[i].id = events[j].id
    /\ events[i].id.origin = "client"
    => i = j

(* Whatever a handler has returned to a client stays in the lineage of its *)
(* branch, across later work on any branch and across kills that leave     *)
(* HEAD ahead of its branch ref.                                           *)
AckedNeverLost ==
  \A s \in acked : s \in LineageIn(states, refs[states[s].branch])

(* A ref never shows a state whose render job is not on disk, nor a frame  *)
(* that is not on disk unless a client's patch wrote its name, even if the *)
(* process is killed between the writes of a commit.  Only boot saves its  *)
(* frame after its refs.                                                   *)
ReferencedArtifactsExist ==
  \A i \in Referenced :
    /\ states[i].status = "queued" => states[i].pending \in DOMAIN jobs
    /\ ~states[i].patched => states[i].frame \in frames \cup {GenesisFrame}

(* A candidate frame is shown only on the successor of the state its job   *)
(* was built for, and a native frame only on its own state: a late verdict *)
(* never puts a frame on another branch or over newer work.  Any other     *)
(* name comes in with a proposal of a client that queues a render.         *)
FrameProvenance ==
  \A i \in Ids :
    LET s == states[i]
    IN \/ s.frame = GenesisFrame
       \/ s.parent # 0 /\ s.frame = states[s.parent].frame
       \/ s.patched /\ s.pending = Key(s.last, s.parent)
       \/ /\ s.frame.made_by = "native"
          /\ s.frame.job = Key(s.last, s.parent)
       \/ /\ s.frame.made_by = "verifier"
          /\ jobs[s.frame.job].state = s.parent

(* Every logged interaction has its observation and proposal on disk, and  *)
(* unless the process was killed every commit is remembered once its       *)
(* handler has returned.                                                   *)
EventsAreBacked ==
  \A i \in 1 .. Len(events) :
    LET e == events[i]
    IN /\ e.kind = "interact" =>
            Key(e.id.key.event, e.parent) \in evidence \cap proposals
       /\ crashes = 0 /\ Idle /\ e.kind \in {"interact", "commit"} =>
            i \in memories

(* No kill has come between two writes, and no payload has cut a line.     *)
Undisturbed == crashes = 0 /\ LogReads

(* Event sourcing: in an undisturbed store the events of a branch form one *)
(* chain, the chain ends at the branch's ref, and HEAD is the ref of its   *)
(* branch.                                                                 *)
LogReplaysToRefs ==
  Undisturbed =>
    /\ \A i \in 1 .. Len(events) :
         events[i].kind # "fork" =>
           LET before == LastOn(events[i].branch, i - 1)
           IN events[i].parent =
                IF before = 0 THEN 1 ELSE events[before].result
    /\ Idle =>
         /\ head = refs[current.branch]
         /\ \A b \in Branches :
              LET last == LastOn(b, Len(events))
              IN refs[b] = IF last # 0 THEN events[last].result
                           ELSE IF b = Main THEN 1 ELSE 0

(* A branch ref moves only forward along parent links: no commit, verdict, *)
(* fork or restart takes a branch back or sideways.                        *)
RefsOnlyAdvance ==
  [][\A b \in Branches :
       refs'[b] # refs[b] =>
         refs[b] = 0 \/ refs[b] \in LineageIn(states', refs'[b])]_refs

(* A line that was torn by a kill or cut by its payload is the last one:   *)
(* no handler, whichever it is and however it is retried after a restart,  *)
(* writes an event behind it, where no reader would find it.               *)
TornLineIsLast == [][tail = "torn" => UNCHANGED <<events, tail>>]_vars

(* docs/ARCHITECTURE.md, "Render plane": "Retry exhaustion falls back to   *)
(* deterministic presentation."  A branch whose pending job has fallen     *)
(* back does not go on showing a queued render.                            *)
RetryExhaustionFallsBack ==
  Idle => \A i \in Referenced :
    states[i].status = "queued" => jobs[states[i].pending].status # "fallback"
-----------------------------------------------------------------------------
(***************************************************************************)
(* The inductive invariant from which RefsNameSavedStates, LogIsSound and  *)
(* AtMostOnceCommit are proved in SurfaceEngineProofs.                     *)
(***************************************************************************)
StepsOf(kind) ==
  CASE kind = "none" -> {"idle"}
    [] kind = "boot" -> {"state", "head", "ref", "frame"}
    [] kind = "observe" -> {"observe"}
    [] kind = "propose" -> {"observe", "propose"}
    [] kind = "interact" -> Steps \ {"idle", "verdict"}
    [] kind = "commit" ->
         Steps \ {"idle", "verdict", "observe", "propose", "deposit"}
    [] kind = "verify" ->
         {"verdict", "frame", "state", "append", "head", "ref"}
    [] kind = "fork" -> {"state", "head", "ref", "append"}
    [] kind = "switch" -> {"head"}

Committing(h) == h.kind \in {"interact", "commit"}

(* The handler has saved its state. *)
Wrote(h) ==
  \/ h.kind # "switch" /\ h.step \in {"append", "job", "head", "ref",
                                     "memory", "deposit"}
  \/ h.kind = "boot" /\ h.step = "frame"

(* The handler has computed its state and has not appended its event. *)
Unlogged(h) ==
  \/ h.kind \in {"interact", "commit", "verify"} /\
       h.step \in {"verdict", "frame", "state", "append"}
  \/ h.kind = "fork"

(* The handler has read the log and is going to append to it. *)
HasReadLog(h) ==
  \/ Committing(h) /\ h.step \in {"frame", "state", "append"}
  \/ h.kind = "verify" /\ h.step = "append"

(* What a handler in progress may rely on. *)
HandlerSound(h) ==
  /\ h.step \in StepsOf(h.kind)
  /\ h.kind \notin {"none", "boot"} => phase = "serving" /\ h.from \in Ids
  /\ h.kind = "boot" => phase = "booting"
  /\ h.kind = "boot" /\ h.step \in {"ref", "frame"} => head # 0
  /\ h.step \in {"observe", "propose", "plan"} => h.from = head
  /\ h.kind = "switch" => h.to \in Ids
  /\ Committing(h) => h.key.event \in EventIds
  /\ h.id.origin = "client" => h.kind \notin {"verify", "fork"}
  /\ Wrote(h) => h.to \in Ids /\ states[h.to] = h.next
  /\ Unlogged(h) => h.index = Len(events) + 1 /\ h.next.parent = h.from
  /\ Unlogged(h) /\ Committing(h) => ~EventLogged(h.id)
  /\ HasReadLog(h) => LogReads

(* Only the owner of the lock is inside a handler. *)
MutualExclusion ==
  /\ \A t \in Threads : t # lock => op[t] = NoHandler
  /\ phase = "down" => lock = None

ServingInv ==
  /\ MutualExclusion
  /\ phase = "serving" => head # 0
  /\ \A t \in Threads : HandlerSound(op[t])

IInv ==
  /\ TypeOK
  /\ ServingInv
  /\ RefsNameSavedStates
  /\ LogIsSound
  /\ AtMostOnceCommit
=============================================================================
