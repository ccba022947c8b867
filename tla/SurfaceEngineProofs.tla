------------------------ MODULE SurfaceEngineProofs ------------------------
(***************************************************************************)
(* Theorems about SurfaceEngine for every value of its constants: types,   *)
(* refs and the log, and then what the files of the commit plane owe one   *)
(* another, the artifacts behind every state and event.                    *)
(***************************************************************************)
EXTENDS SurfaceEngine, TLAPS

USE ThreadsAssumption, BranchesAssumption, ModesAssumption,
    RoutesAssumption, VerdictsAssumption, BoundsAssumption
-----------------------------------------------------------------------------
(* Type correctness. *)

(* The step after a step is a step, or the handler is done. *)
LEMMA AfterType ==
  ASSUME NEW kind \in Kinds, NEW s \in Steps, After(kind, s) # "done"
  PROVE  After(kind, s) \in Steps \ {"idle"}
BY DEF After, Kinds, Steps

(* Names of observations, proposals, jobs and frames. *)
LEMMA KeyType ==
  ASSUME NEW e \in EventIds \cup {None}, NEW p \in Nat
  PROVE  Key(e, p) \in Keys
BY DEF Key, Keys

LEMMA NoKeyType == NoKey \in Keys
BY KeyType DEF NoKey

LEMMA FrameType ==
  ASSUME NEW maker \in {"boot", "native", "verifier"}, NEW key \in Keys,
         NEW text \in Texts \cup {None}
  PROVE  FrameOf(maker, key, text) \in FrameIds
BY DEF FrameOf, FrameIds

(* The records that boot and new handlers start from. *)
LEMMA GenesisType == Genesis \in StateRecords
<1>1. GenesisFrame \in FrameIds
  BY NoKeyType, FrameType DEF GenesisFrame
<1>2. QED
  BY <1>1, NoKeyType
  DEF Genesis, StateRecords, RenderModes, ImageModes, RenderStatus

LEMMA NoJobType == NoJob \in JobRecords
BY DEF NoJob, JobRecords, RenderStatus

(* An event id is a client's, a fork's or a verdict's.                     *)
LEMMA ClientIdType ==
  ASSUME NEW e \in EventIds \cup {None}
  PROVE  ClientId(e) \in LogIds
<1>1. Key(e, 0) \in Keys
  BY KeyType
<1>2. QED
  BY <1>1 DEF ClientId, LogId, LogIds

LEMMA ForkIdType ==
  ASSUME NEW b \in Branches, NEW p \in Nat
  PROVE  ForkId(b, p) \in LogIds /\ ForkId(b, p).origin = "fork"
<1>1. Key(None, p) \in Keys
  BY KeyType
<1>2. QED
  BY <1>1 DEF ForkId, LogId, LogIds

LEMMA VerdictIdType ==
  ASSUME NEW key \in Keys, NEW decision \in Verdicts, NEW text \in Texts
  PROVE  /\ VerdictId(key, decision, text) \in LogIds
         /\ VerdictId(key, decision, text).origin = "verdict"
         /\ VerdictId(key, decision, text).arg = decision
         /\ VerdictId(key, decision, text).text = text
BY VerdictsAssumption DEF VerdictId, LogId, LogIds

LEMMA NoHandlerType == NoHandler \in Handlers
<1>1. ClientId(None) \in LogIds
  BY ClientIdType
<1>2. QED
  BY <1>1, GenesisType, NoJobType, NoKeyType
  DEF NoHandler, Handlers, Kinds, Steps, RenderModes, ImageModes

(* The tail of a handler's step: it returns or goes to its next step. *)
LEMMA ReturnType ==
  ASSUME TypeOK, NEW t \in Threads, Return(t)
  PROVE  /\ op' \in [Threads -> Handlers]
         /\ lock' \in Threads \cup {None}
         /\ phase' \in {"down", "booting", "serving"}
BY NoHandlerType DEF TypeOK, Return

(* A handler that passes to a step is a handler. *)
LEMMA HandlerAdvances ==
  ASSUME TypeOK, NEW t \in Threads, NEW s \in Steps
  PROVE  [op[t] EXCEPT !.step = s] \in Handlers
BY DEF TypeOK, Handlers

LEMMA AdvanceType ==
  ASSUME TypeOK, NEW t \in Threads, Advance(t)
  PROVE  /\ op' \in [Threads -> Handlers]
         /\ lock' \in Threads \cup {None}
         /\ phase' \in {"down", "booting", "serving"}
         /\ acked' \subseteq Nat
<1>1. op[t].kind \in Kinds /\ op[t].step \in Steps /\ op[t].to \in Nat
  BY DEF TypeOK, Handlers
<1>2. CASE After(op[t].kind, op[t].step) = "done"
  <2>1. Return(t) /\ acked' \subseteq acked \cup {op[t].to}
    BY <1>2 DEF Advance
  <2>2. QED
    BY <2>1, <1>1, ReturnType DEF TypeOK
<1>3. CASE After(op[t].kind, op[t].step) # "done"
  <2> DEFINE after == After(op[t].kind, op[t].step)
  <2>1. after \in Steps
    BY <1>1, <1>3, AfterType
  <2>2. [op[t] EXCEPT !.step = after] \in Handlers
    BY <2>1, HandlerAdvances
  <2>3. op' = [op EXCEPT ![t] = [op[t] EXCEPT !.step = after]]
    BY <1>3 DEF Advance
  <2>4. UNCHANGED <<lock, phase, acked>>
    BY <1>3 DEF Advance
  <2> HIDE DEF after
  <2>5. QED
    BY <2>2, <2>3, <2>4 DEF TypeOK
<1>4. QED
  BY <1>2, <1>3

(* A handler that enters leaves the store alone. *)
LEMMA EnterType ==
  ASSUME TypeOK, NEW t \in Threads, NEW handler \in Handlers,
         Enter(t, handler)
  PROVE  TypeOK'
<1>1. op' = [op EXCEPT ![t] = handler] /\ lock' = t
  BY DEF Enter, Acquire
<1>2. UNCHANGED <<store, phase, crashes, acked>>
  BY DEF Enter
<1>3. QED
  BY <1>1, <1>2 DEF TypeOK, store

(* The state that HEAD names. *)
LEMMA CurrentType ==
  ASSUME TypeOK, head \in Ids
  PROVE  current \in StateRecords
BY DEF TypeOK, current, Ids

(* A content has one hash, that of the file that holds it. *)
LEMMA HashType ==
  ASSUME TypeOK, NEW s
  PROVE  /\ HashOf(s) \in Nat \ {0}
         /\ Saved(s) => HashOf(s) \in Ids /\ states[HashOf(s)] = s
         /\ ~Saved(s) => HashOf(s) = Len(states) + 1
BY DEF TypeOK, HashOf, Saved, Ids

-----------------------------------------------------------------------------
(* Handlers in progress. *)

(* A thread without a handler has nothing to rely on, now or later. *)
LEMMA IdleSound == HandlerSound(NoHandler) /\ HandlerSound(NoHandler)'
BY DEF HandlerSound, NoHandler, StepsOf, Wrote, Unlogged, Committing,
       HasReadLog, ClientId, LogId, EventLogged, Ids

(* A thread that is inside a handler owns the lock and every other thread  *)
(* is outside.                                                             *)
LEMMA OwnerActs ==
  ASSUME IInv, NEW t \in Threads, op[t].step # "idle"
  PROVE  /\ lock = t
         /\ \A u \in Threads \ {t} : op[u] = NoHandler
         /\ HandlerSound(op[t])
         /\ op[t].kind \in Kinds \ {"none"}
         /\ phase \in {"booting", "serving"}
<1>1. op[t] # NoHandler
  BY DEF NoHandler
<1>2. lock = t
  BY <1>1 DEF IInv, ServingInv, MutualExclusion
<1>3. \A u \in Threads \ {t} : op[u] = NoHandler
  BY <1>2 DEF IInv, ServingInv, MutualExclusion
<1>4. HandlerSound(op[t])
  BY DEF IInv, ServingInv
<1>5. op[t].kind \in Kinds
  BY DEF IInv, TypeOK, Handlers
<1>6. op[t].kind # "none"
  BY <1>4 DEF HandlerSound, StepsOf
<1>7. phase \in {"booting", "serving"}
  BY <1>4, <1>5, <1>6 DEF HandlerSound
<1>8. QED
  BY <1>2, <1>3, <1>4, <1>5, <1>6, <1>7

(* A serving engine has a current state. *)
LEMMA ServingReads ==
  ASSUME IInv, phase = "serving"
  PROVE  head \in Ids /\ current \in StateRecords
<1>1. head \in Ids
  BY DEF IInv, ServingInv, RefsNameSavedStates
<1>2. QED
  BY <1>1, CurrentType DEF IInv

(* When a handler returns, no thread is inside one. *)
LEMMA ReturnServing ==
  ASSUME IInv, NEW t \in Threads, op[t].step # "idle", Return(t),
         head' = head, head # 0
  PROVE  ServingInv'
<1>1. \A u \in Threads : op'[u] = NoHandler
  BY OwnerActs DEF Return, IInv, TypeOK
<1>2. \A u \in Threads : HandlerSound(op[u])'
  BY <1>1, IdleSound
<1>3. QED
  BY <1>1, <1>2 DEF ServingInv, MutualExclusion, Return

(* A step that keeps the saved states and passes the handler on keeps what *)
(* every handler relies on, if only "head" moves HEAD and only "append"    *)
(* writes the log.                                                         *)
LEMMA AdvanceServing ==
  ASSUME IInv, NEW t \in Threads, op[t].step \notin {"idle", "state"},
         Advance(t), states' = states,
         IF op[t].step = "head" THEN head' \in Ids ELSE head' = head,
         UNCHANGED <<events, tail>> \/ op[t].step = "append"
  PROVE  ServingInv'
<1> PICK h : h = op[t]
  OBVIOUS
<1>1. /\ lock = t
      /\ \A u \in Threads \ {t} : op[u] = NoHandler
      /\ HandlerSound(h)
      /\ h.kind \in Kinds /\ h.kind # "none"
      /\ phase \in {"booting", "serving"}
      /\ h \in Handlers
  BY OwnerActs DEF IInv, TypeOK
<1>2. h.step \in StepsOf(h.kind)
  BY <1>1 DEF HandlerSound
<1>3. head # 0 \/ h.step = "head" => head' # 0
  BY DEF Ids
<1>4. CASE After(h.kind, h.step) = "done"
  <2>1. Return(t)
    BY <1>4 DEF Advance
  <2>2. \A u \in Threads : op'[u] = NoHandler
    BY <1>1, <2>1 DEF Return, IInv, TypeOK
  <2>3. \A u \in Threads : HandlerSound(op[u])'
    BY <2>2, IdleSound
  <2>4. h.kind # "boot" => head # 0
    BY <1>1 DEF HandlerSound, IInv, ServingInv
  <2>5. h.kind = "boot" => h.step = "frame"
    BY <1>2, <1>4 DEF StepsOf, After
  <2>6. head' # 0
    BY <1>1, <1>3, <2>4, <2>5 DEF HandlerSound
  <2>7. QED
    BY <2>1, <2>2, <2>3, <2>6 DEF ServingInv, MutualExclusion, Return
<1>5. CASE After(h.kind, h.step) # "done"
  <2>0. PICK g : g = [h EXCEPT !.step = After(h.kind, h.step)]
    OBVIOUS
  <2>1. op' = [op EXCEPT ![t] = g] /\ UNCHANGED <<lock, phase>>
    BY <1>5, <2>0 DEF Advance
  <2>2. op'[t] = g /\ \A u \in Threads \ {t} : op'[u] = NoHandler
    BY <1>1, <2>1 DEF IInv, TypeOK
  <2>3. /\ g.step = After(h.kind, h.step)
        /\ g.step \in StepsOf(g.kind)
        /\ g.step \in {"observe", "propose", "plan"} =>
             h.step \in {"observe", "propose"}
        /\ Unlogged(g) => Unlogged(h) /\ h.step # "append"
        /\ HasReadLog(g) => HasReadLog(h) /\ h.step # "append"
        /\ Wrote(g) => Wrote(h) \/ h.step = "state"
        /\ g.kind = "boot" /\ g.step \in {"ref", "frame"} =>
             h.step \in {"head", "ref"}
    BY <1>1, <1>2, <1>5, <2>0
    DEF Handlers, StepsOf, After, Kinds, Steps, Unlogged, Wrote,
        HasReadLog, Committing
  <2>4. /\ g.kind = h.kind /\ g.id = h.id /\ g.from = h.from
        /\ g.to = h.to /\ g.next = h.next /\ g.index = h.index
        /\ g.key = h.key
    BY <1>1, <2>0 DEF Handlers
  <2>5. HandlerSound(g)'
    <3>1. g.kind = "boot" /\ g.step \in {"ref", "frame"} => head' # 0
      BY <1>1, <1>3, <2>3, <2>4 DEF HandlerSound
    <3>2. g.step \in {"observe", "propose", "plan"} => g.from = head'
      BY <1>1, <2>3, <2>4 DEF HandlerSound
    <3>3. Wrote(g) => g.to \in Ids' /\ states'[g.to] = g.next
      BY <1>1, <2>3, <2>4 DEF HandlerSound, Ids
    <3>4. Unlogged(g) =>
            g.index = Len(events') + 1 /\ g.next.parent = g.from
      BY <1>1, <2>3, <2>4 DEF HandlerSound
    <3>5. Unlogged(g) /\ Committing(g) => ~EventLogged(g.id)'
      BY <1>1, <2>3, <2>4 DEF HandlerSound, EventLogged, Committing
    <3>6. HasReadLog(g) => LogReads'
      BY <1>1, <2>3 DEF HandlerSound, LogReads
    <3>7. QED
      BY <1>1, <2>1, <2>3, <2>4, <3>1, <3>2, <3>3, <3>4, <3>5, <3>6
      DEF HandlerSound, Ids, Wrote, Unlogged, Committing, HasReadLog
  <2>6. \A u \in Threads : HandlerSound(op[u])'
    BY <2>2, <2>5, IdleSound
  <2>7. phase' = "serving" => head' # 0
    BY <1>3, <2>1 DEF IInv, ServingInv
  <2>8. MutualExclusion'
    BY <1>1, <2>1, <2>2 DEF MutualExclusion
  <2>9. QED
    BY <2>6, <2>7, <2>8 DEF ServingInv
<1>6. QED
  BY <1>4, <1>5

(* A handler enters with everything it relies on. *)
LEMMA EnterServing ==
  ASSUME IInv, NEW t \in Threads, NEW h \in Handlers, Enter(t, h),
         head \in Ids => HandlerSound(h)
  PROVE  ServingInv'
<1>1. phase = "serving" /\ lock = None /\ lock' = t
  BY DEF Enter, Acquire
<1>2. UNCHANGED <<store, phase>>
  BY DEF Enter
<1>3. HandlerSound(h)
  BY <1>1, ServingReads
<1>4. HandlerSound(h)'
  BY <1>2, <1>3
  DEF HandlerSound, store, Ids, EventLogged, Wrote, Unlogged, Committing,
      HasReadLog, LogReads
<1>5. op'[t] = h /\ \A u \in Threads \ {t} : op'[u] = NoHandler
  BY <1>1 DEF Enter, IInv, TypeOK, ServingInv, MutualExclusion
<1>6. \A u \in Threads : HandlerSound(op[u])'
  BY <1>4, <1>5, IdleSound
<1>7. QED
  BY <1>1, <1>2, <1>5, <1>6
  DEF ServingInv, MutualExclusion, IInv, store
-----------------------------------------------------------------------------
(* Start, kill, and entry of the handlers. *)

(* Starting and killing the process keep the types. *)
LEMMA StartType ==
  ASSUME IInv, NEW t \in Threads, Start(t)
  PROVE  TypeOK'
<1> PICK h : h = [NoHandler EXCEPT
                    !.kind = "boot", !.step = "state", !.next = Genesis]
  OBVIOUS
<1>1. h \in Handlers
  BY NoHandlerType, GenesisType DEF Handlers, Kinds, Steps
<1>2. /\ op' = op \/ op' = [op EXCEPT ![t] = h]
      /\ lock' \in {lock, t}
      /\ phase' \in {"booting", "serving"}
      /\ UNCHANGED <<store, crashes, acked>>
  BY DEF Start
<1>3. QED
  BY <1>1, <1>2 DEF IInv, TypeOK, store

(* The event that a handler is going to append. *)
LEMMA NewEventType ==
  ASSUME TypeOK, NEW t \in Threads
  PROVE  NewEvent(t) \in EventRecords
<1>1. op[t] \in Handlers
  BY DEF TypeOK
<1>2. /\ op[t].index \in Nat /\ op[t].kind \in Kinds /\ op[t].id \in LogIds
      /\ op[t].next \in StateRecords /\ op[t].from \in Nat
      /\ op[t].to \in Nat
  BY <1>1 DEF Handlers
<1>3. op[t].next.branch \in Branches
  BY <1>2 DEF StateRecords
<1>4. QED
  BY <1>2, <1>3 DEF NewEvent, EventRecords

(* What a kill does to the log. *)
LEMMA CrashLog ==
  ASSUME Crash
  PROVE  /\ UNCHANGED <<states, head, refs>>
         /\ \/ UNCHANGED events
            \/ \E t \in Threads : /\ op[t].step = "append"
                                  /\ events' = Append(events, NewEvent(t))
BY DEF Crash, PartOfLine, At

LEMMA CrashType ==
  ASSUME IInv, Crash
  PROVE  TypeOK'
<1>1. events' \in Seq(EventRecords)
  <2>1. TypeOK /\ events \in Seq(EventRecords)
    BY DEF IInv, TypeOK
  <2>2. CASE UNCHANGED events
    BY <2>1, <2>2
  <2>3. ASSUME NEW t \in Threads, events' = Append(events, NewEvent(t))
        PROVE  events' \in Seq(EventRecords)
    <3>1. NewEvent(t) \in EventRecords
      BY <2>1, NewEventType
    <3>2. QED
      BY <2>1, <2>3, <3>1
  <2>4. QED
    BY <2>2, <2>3, CrashLog
<1>2. tail' \in TailTypes
  BY DEF IInv, TypeOK, Crash, PartOfLine, TailTypes
<1>3. op' \in [Threads -> Handlers]
  BY NoHandlerType DEF Crash
<1>4. QED
  BY <1>1, <1>2, <1>3 DEF IInv, TypeOK, Crash

(* A packet's handler enters with what it relies on. *)
LEMMA ReceivePacketEnters ==
  ASSUME IInv, NEW t \in Threads, NEW e \in EventIds, NEW m \in Modes,
         NEW claim, NEW kind \in {"observe", "propose", "interact"},
         ReceivePacket(t, kind, e, m, claim)
  PROVE  \E h \in Handlers : Enter(t, h) /\ HandlerSound(h)
<1> PICK first \in FirstSteps(kind) :
           Enter(t, [NoHandler EXCEPT !.kind = kind, !.step = first,
                       !.mode = m, !.id = ClientId(e), !.from = head,
                       !.key = Key(e, head)])
  BY DEF ReceivePacket
<1> PICK h : h = [NoHandler EXCEPT !.kind = kind, !.step = first,
                    !.mode = m, !.id = ClientId(e), !.from = head,
                    !.key = Key(e, head)]
  OBVIOUS
<1>1. head \in Nat
  BY DEF IInv, TypeOK
<1>2. Key(e, head) \in Keys /\ ClientId(e) \in LogIds
  BY <1>1, KeyType, ClientIdType
<1>3. h \in Handlers
  BY <1>1, <1>2, NoHandlerType DEF Handlers, Kinds, Steps, FirstSteps
<1>4. Enter(t, h)
  OBVIOUS
<1>5. phase = "serving" /\ head \in Ids
  BY <1>4, ServingReads DEF Enter, Acquire
<1>6. /\ h.kind = kind /\ h.step = first /\ h.from = head
      /\ h.key.event \in EventIds
  BY NoHandlerType DEF Handlers, Key
<1>7. HandlerSound(h)
  BY <1>5, <1>6
  DEF HandlerSound, StepsOf, Wrote, Unlogged, HasReadLog, Committing, Steps,
      FirstSteps
<1>8. QED
  BY <1>3, <1>4, <1>7

(* A proposal's handler enters with what it relies on. *)
LEMMA ReceiveProposalEnters ==
  ASSUME IInv, NEW t \in Threads, NEW e \in EventIds, NEW m \in Modes,
         NEW parent \in Nat, ReceiveProposal(t, e, m, parent)
  PROVE  \E h \in Handlers : Enter(t, h) /\ HandlerSound(h)
<1> PICK h : h = [NoHandler EXCEPT !.kind = "commit", !.step = "plan",
                    !.mode = m, !.id = ClientId(e), !.from = head,
                    !.key = Key(e, parent)]
  OBVIOUS
<1>1. head \in Nat
  BY DEF IInv, TypeOK
<1>2. Key(e, parent) \in Keys /\ ClientId(e) \in LogIds
  BY KeyType, ClientIdType
<1>3. h \in Handlers
  BY <1>1, <1>2, NoHandlerType DEF Handlers, Kinds, Steps
<1>4. Enter(t, h)
  BY DEF ReceiveProposal
<1>5. phase = "serving" /\ head \in Ids
  BY <1>4, ServingReads DEF Enter, Acquire
<1>6. /\ h.kind = "commit" /\ h.step = "plan" /\ h.from = head
      /\ h.key.event \in EventIds
  BY NoHandlerType DEF Handlers, Key
<1>7. HandlerSound(h)
  BY <1>5, <1>6
  DEF HandlerSound, StepsOf, Wrote, Unlogged, HasReadLog, Committing, Steps
<1>8. QED
  BY <1>3, <1>4, <1>7

(* So does a fork's. *)
LEMMA CreateBranchEnters ==
  ASSUME IInv, NEW t \in Threads, NEW b \in Branches, CreateBranch(t, b)
  PROVE  \E h \in Handlers : Enter(t, h) /\ HandlerSound(h)
<1> PICK next : next = [current EXCEPT !.parent = head, !.branch = b]
  OBVIOUS
<1> PICK h : h = [NoHandler EXCEPT !.kind = "fork", !.step = "state",
                    !.id = ForkId(b, head), !.from = head,
                    !.index = Len(events) + 1, !.next = next]
  OBVIOUS
<1>1. Enter(t, h) /\ phase = "serving"
  BY DEF CreateBranch, Enter, Acquire
<1>2. head \in Nat /\ Len(events) + 1 \in Nat
  BY DEF IInv, TypeOK
<1>3. next \in StateRecords
  BY <1>1, <1>2, ServingReads DEF StateRecords
<1>4. ForkId(b, head) \in LogIds
  BY <1>2, ForkIdType
<1>5. h \in Handlers
  BY <1>2, <1>3, <1>4, NoHandlerType DEF Handlers, Kinds, Steps
<1>6. head \in Ids /\ h.id.origin = "fork" /\ h.next.parent = h.from
  BY <1>1, <1>2, ServingReads, NoHandlerType, ForkIdType
  DEF Handlers, StateRecords
<1>7. HandlerSound(h)
  BY <1>1, <1>6, NoHandlerType
  DEF HandlerSound, StepsOf, Wrote, Unlogged, HasReadLog, Committing, Handlers
<1>8. QED
  BY <1>1, <1>5, <1>7

(* So does a switch's. *)
LEMMA SwitchBranchEnters ==
  ASSUME IInv, NEW t \in Threads, NEW b \in Branches, SwitchBranch(t, b)
  PROVE  \E h \in Handlers : Enter(t, h) /\ HandlerSound(h)
<1> PICK h : h = [NoHandler EXCEPT !.kind = "switch", !.step = "head",
                    !.from = head, !.to = refs[b]]
  OBVIOUS
<1>1. head \in Nat /\ refs[b] \in Nat
  BY DEF IInv, TypeOK
<1>2. h \in Handlers
  BY <1>1, NoHandlerType DEF Handlers, Kinds, Steps
<1>3. Enter(t, h)
  BY DEF SwitchBranch
<1>4. phase = "serving" /\ head \in Ids /\ refs[b] \in Ids
  BY <1>3, ServingReads
  DEF Enter, Acquire, SwitchBranch, IInv, RefsNameSavedStates
<1>5. HandlerSound(h)
  BY <1>1, <1>4, NoHandlerType
  DEF HandlerSound, StepsOf, Wrote, Unlogged, HasReadLog, Committing,
      Handlers, ClientId, LogId
<1>6. QED
  BY <1>2, <1>3, <1>5

(* A verdict makes a job from a job and a state from a state. *)
LEMMA JudgedType ==
  ASSUME NEW job \in JobRecords, NEW decision \in Verdicts
  PROVE  Judged(job, decision) \in JobRecords
<1>1. \A s \in RenderStatus : [job EXCEPT !.status = s] \in JobRecords
  BY DEF JobRecords
<1>2. \A r \in Nat : [job EXCEPT !.status = "queued", !.retries = r]
        \in JobRecords
  BY DEF JobRecords, RenderStatus
<1>3. job.retries + 1 \in Nat
  BY DEF JobRecords
<1>4. QED
  BY <1>1, <1>2, <1>3 DEF Judged, RenderStatus

LEMMA ShownType ==
  ASSUME IInv, phase = "serving", NEW key \in Keys, NEW job \in JobRecords,
         NEW decision, NEW text \in Texts
  PROVE  /\ Shown(key, job, decision, text) \in StateRecords
         /\ Shown(key, job, decision, text).parent = head
<1>1. current \in StateRecords /\ head \in Nat
  BY ServingReads DEF IInv, TypeOK
<1>2. FrameOf("verifier", key, text) \in FrameIds /\ NoKey \in Keys
  BY FrameType, NoKeyType
<1>3. QED
  BY <1>1, <1>2 DEF Shown, StateRecords, JobRecords

(* So does a verdict's. *)
LEMMA VerifyRenderEnters ==
  ASSUME IInv, NEW t \in Threads, NEW key \in DOMAIN jobs,
         NEW decision \in Verdicts, NEW text \in Texts,
         VerifyRender(t, key, decision, text)
  PROVE  \E h \in Handlers : Enter(t, h) /\ HandlerSound(h)
<1> PICK updated : updated = Judged(jobs[key], decision)
  OBVIOUS
<1> PICK next : next = Shown(key, updated, decision, text)
  OBVIOUS
<1> PICK h : h = [NoHandler EXCEPT !.kind = "verify", !.step = "verdict",
                    !.id = VerdictId(key, decision, text),
                    !.from = head, !.index = Len(events) + 1,
                    !.key = key, !.job = updated, !.next = next]
  OBVIOUS
<1>1. Enter(t, h) /\ phase = "serving"
  BY DEF VerifyRender, Enter, Acquire
<1>2. key \in Keys /\ jobs[key] \in JobRecords /\ head \in Nat
      /\ Len(events) + 1 \in Nat
  BY DEF IInv, TypeOK
<1>3. updated \in JobRecords
  BY <1>2, JudgedType
<1>4. next \in StateRecords /\ next.parent = head
  BY <1>1, <1>2, <1>3, ShownType
<1>5. VerdictId(key, decision, text) \in LogIds
      /\ VerdictId(key, decision, text).origin = "verdict"
  BY <1>2, VerdictIdType
<1>6. h \in Handlers
  BY <1>2, <1>3, <1>4, <1>5, NoHandlerType DEF Handlers, Kinds, Steps
<1>7. /\ h.kind = "verify" /\ h.step = "verdict"
      /\ h.id.origin = "verdict" /\ h.from = head
      /\ h.index = Len(events) + 1 /\ h.next.parent = head
  BY <1>4, <1>5, NoHandlerType DEF Handlers
<1>8. head \in Ids
  BY <1>1, ServingReads
<1>9. HandlerSound(h)
  BY <1>1, <1>7, <1>8
  DEF HandlerSound, StepsOf, Wrote, Unlogged, HasReadLog, Committing
<1>10. QED
  BY <1>1, <1>6, <1>9

(* A restarted engine boots, or serves a store that has a HEAD. *)
LEMMA StartServing ==
  ASSUME IInv, NEW t \in Threads, Start(t)
  PROVE  ServingInv'
<1>1. phase = "down" /\ lock = None /\ \A u \in Threads : op[u] = NoHandler
  BY DEF Start, IInv, ServingInv, MutualExclusion
<1>2. UNCHANGED <<store, crashes, acked>>
  BY DEF Start
<1>3. CASE head = 0
  <2> PICK h : h = [NoHandler EXCEPT
                      !.kind = "boot", !.step = "state", !.next = Genesis]
    OBVIOUS
  <2>1. phase' = "booting" /\ lock' = t /\ op' = [op EXCEPT ![t] = h]
    BY <1>3 DEF Start
  <2>2. op'[t] = h /\ \A u \in Threads \ {t} : op'[u] = NoHandler
    BY <1>1, <2>1 DEF IInv, TypeOK
  <2>3. h.kind = "boot" /\ h.step = "state"
    BY NoHandlerType DEF Handlers
  <2>4. HandlerSound(h)'
    BY <2>1, <2>3
    DEF HandlerSound, StepsOf, Wrote, Unlogged, HasReadLog, Committing
  <2>5. \A u \in Threads : HandlerSound(op[u])'
    BY <2>2, <2>4, IdleSound
  <2>6. QED
    BY <2>1, <2>2, <2>5 DEF ServingInv, MutualExclusion
<1>4. CASE head # 0
  <2>1. phase' = "serving" /\ UNCHANGED <<lock, op>>
    BY <1>4 DEF Start
  <2>2. \A u \in Threads : HandlerSound(op[u])'
    BY <1>1, <2>1, IdleSound
  <2>3. QED
    BY <1>1, <1>2, <1>4, <2>1, <2>2
    DEF ServingInv, MutualExclusion, store
<1>5. QED
  BY <1>3, <1>4

LEMMA CrashServing ==
  ASSUME IInv, Crash
  PROVE  ServingInv'
<1>1. phase' = "down" /\ lock' = None
      /\ \A u \in Threads : op'[u] = NoHandler
  BY DEF Crash
<1>2. \A u \in Threads : HandlerSound(op[u])'
  BY <1>1, IdleSound
<1>3. QED
  BY <1>1, <1>2 DEF ServingInv, MutualExclusion

(* Every request enters with what it relies on. *)
LEMMA ReceiveEnters ==
  ASSUME IInv, NEW t \in Threads, Receive(t)
  PROVE  \E h \in Handlers : Enter(t, h) /\ HandlerSound(h)
<1>1. ASSUME NEW e \in EventIds, NEW m \in Modes,
             NEW claim \in 0 .. Len(states),
             NEW kind \in {"observe", "propose", "interact"},
             ReceivePacket(t, kind, e, m, claim)
      PROVE  \E h \in Handlers : Enter(t, h) /\ HandlerSound(h)
  BY <1>1, ReceivePacketEnters
<1>2. ASSUME NEW e \in EventIds, NEW m \in Modes, NEW parent \in Ids,
             ReceiveProposal(t, e, m, parent)
      PROVE  \E h \in Handlers : Enter(t, h) /\ HandlerSound(h)
  <2>1. parent \in Nat
    BY <1>2 DEF Ids
  <2>2. QED
    BY <1>2, <2>1, ReceiveProposalEnters
<1>3. ASSUME NEW b \in Branches, CreateBranch(t, b)
      PROVE  \E h \in Handlers : Enter(t, h) /\ HandlerSound(h)
  BY <1>3, CreateBranchEnters
<1>4. ASSUME NEW b \in Branches, SwitchBranch(t, b)
      PROVE  \E h \in Handlers : Enter(t, h) /\ HandlerSound(h)
  BY <1>4, SwitchBranchEnters
<1>5. ASSUME NEW key \in DOMAIN jobs, NEW decision \in Verdicts,
             NEW text \in Texts, VerifyRender(t, key, decision, text)
      PROVE  \E h \in Handlers : Enter(t, h) /\ HandlerSound(h)
  BY <1>5, VerifyRenderEnters
<1>6. QED
  BY <1>1, <1>2, <1>3, <1>4, <1>5 DEF Receive
-----------------------------------------------------------------------------
(* Every step of a handler keeps the types. *)

(* A planned commit is a handler. *)
LEMMA PlannedType ==
  ASSUME NEW g \in Handlers, NEW next \in StateRecords, NEW n \in Nat,
         NEW job \in JobRecords, NEW step \in Steps
  PROVE  [g EXCEPT !.next = next, !.index = n, !.job = job, !.step = step]
           \in Handlers
BY ONLY g \in Handlers, next \in StateRecords, n \in Nat,
        job \in JobRecords, step \in Steps
   DEF Handlers

(* A patch of the current state leaves a document.  Where it has not       *)
(* written the frame's name, the name is the current state's.              *)
LEMMA PatchedType ==
  ASSUME IInv, phase = "serving", NEW kind, NEW name \in FrameNames(kind),
         NEW left \in PartsLeft(kind),
         NEW document, document = Patched(name, left)
  PROVE  /\ document \in StateRecords
         /\ document.branch = current.branch
         /\ ~document.patched =>
              ~current.patched /\ document.frame = current.frame
<1>1. current \in StateRecords
  BY ServingReads
<1>2. name \in FrameIds /\ left \in SUBSET Parts
  BY <1>1, PatchesAssumption DEF StateRecords, FrameNames, PartsLeft
<1>3. PICK changed \in BOOLEAN :
         changed = (current.patched \/ name # current.frame)
  BY <1>1 DEF StateRecords
<1>4. document = [current EXCEPT !.frame = name, !.patched = changed,
                                 !.parts = left]
  BY <1>3 DEF Patched
<1>5. QED
  BY <1>1, <1>2, <1>3, <1>4 DEF StateRecords

(* The successor that a commit makes of it.                                *)
LEMMA PlannedFields ==
  ASSUME IInv, phase = "serving", NEW h \in Handlers,
         NEW name \in FrameNames(h.kind), NEW left \in PartsLeft(h.kind),
         NEW text \in Texts,
         NEW next, next = Planned(Patched(name, left), h, text)
  PROVE  /\ next \in StateRecords
         /\ next.parent = head /\ next.branch = current.branch
         /\ next.last = h.key.event
         /\ next.status = IF Queued(h) THEN "queued" ELSE "verified"
         /\ Queued(h) => next.pending = h.key
         /\ Queued(h) /\ ~next.patched =>
              ~current.patched /\ next.frame = current.frame
         /\ ~Queued(h) => next.frame = FrameOf("native", h.key, text)
<1> PICK document : document = Patched(name, left)
  OBVIOUS
<1>1. /\ document \in StateRecords /\ document.branch = current.branch
      /\ ~document.patched =>
           ~current.patched /\ document.frame = current.frame
  BY PatchedType
<1>2. /\ head \in Nat /\ h.key \in Keys /\ h.mode \in RenderModes
      /\ h.key.event \in EventIds \cup {None}
  BY DEF IInv, TypeOK, Handlers, Keys
<1>3. FrameOf("native", h.key, text) \in FrameIds /\ NoKey \in Keys
  BY <1>2, FrameType, NoKeyType
<1>4. Queued(h) \in BOOLEAN
  BY DEF Queued
<1>5. CASE Queued(h)
  <2>1. next = [document EXCEPT
                  !.parent = head, !.last = h.key.event, !.mode = h.mode,
                  !.status = "queued", !.pending = h.key]
    BY <1>1, <1>5 DEF Planned, StateRecords
  <2>2. QED
    BY <1>1, <1>2, <1>5, <2>1 DEF StateRecords, RenderStatus
<1>6. CASE ~Queued(h)
  <2>1. next = [document EXCEPT
                  !.parent = head, !.last = h.key.event, !.mode = h.mode,
                  !.status = "verified", !.pending = NoKey,
                  !.frame = FrameOf("native", h.key, text),
                  !.patched = FALSE]
    BY <1>1, <1>6 DEF Planned, StateRecords
  <2>2. QED
    BY <1>1, <1>2, <1>3, <1>6, <2>1 DEF StateRecords, RenderStatus
<1>7. QED
  BY <1>4, <1>5, <1>6

(* The plan of a commit hangs a state and an event on the current state. *)
LEMMA PlanCommitNext ==
  ASSUME IInv, NEW t \in Threads, PlanCommit(t)
  PROVE  \E h \in Handlers :
           /\ op' = [op EXCEPT ![t] = h]
           /\ h.kind = op[t].kind /\ h.id = op[t].id /\ h.to = op[t].to
           /\ h.from = op[t].from /\ h.key = op[t].key
           /\ h.step = IF Queued(op[t]) THEN "state" ELSE "frame"
           /\ h.index = Len(events) + 1 /\ h.next.parent = head
           /\ \E name \in FrameNames(op[t].kind),
                 left \in PartsLeft(op[t].kind), text \in Texts :
                h.next = Planned(Patched(name, left), op[t], text)
<1>1. phase = "serving" /\ op[t] \in Handlers /\ Len(events) + 1 \in Nat
  <2>1. op[t].step = "plan"
    BY DEF PlanCommit, At
  <2>2. phase = "serving"
    BY <2>1, OwnerActs DEF HandlerSound, StepsOf
  <2>3. QED
    BY <2>2 DEF IInv, TypeOK
<1> PICK step : step = IF Queued(op[t]) THEN "state" ELSE "frame"
  OBVIOUS
<1>2. PICK name \in FrameNames(op[t].kind), left \in PartsLeft(op[t].kind),
            text \in Texts :
         op' = [op EXCEPT ![t] =
                  [op[t] EXCEPT
                     !.next = Planned(Patched(name, left), op[t], text),
                     !.index = Len(events) + 1,
                     !.job = [NoJob EXCEPT !.status =
                       Planned(Patched(name, left), op[t], text).status],
                     !.step = step]]
  BY DEF PlanCommit
<1> PICK next : next = Planned(Patched(name, left), op[t], text)
  OBVIOUS
<1> PICK job : job = [NoJob EXCEPT !.status = next.status]
  OBVIOUS
<1> PICK h : h = [op[t] EXCEPT !.next = next, !.index = Len(events) + 1,
                               !.job = job, !.step = step]
  OBVIOUS
<1>3. next \in StateRecords /\ next.parent = head
  BY <1>1, PlannedFields
<1>4. job \in JobRecords /\ step \in Steps
  BY <1>3, NoJobType DEF JobRecords, StateRecords, Steps
<1>5. h \in Handlers
  BY <1>1, <1>3, <1>4, PlannedType
<1>6. /\ h.kind = op[t].kind /\ h.id = op[t].id /\ h.to = op[t].to
      /\ h.from = op[t].from /\ h.key = op[t].key /\ h.step = step
      /\ h.index = Len(events) + 1 /\ h.next = next
  BY <1>1 DEF Handlers
<1>7. op' = [op EXCEPT ![t] = h]
  BY <1>2
<1>8. QED
  BY <1>3, <1>5, <1>6, <1>7

(* A handler that has saved its state is a handler. *)
LEMMA SavedType ==
  ASSUME NEW g \in Handlers, NEW to \in Nat,
         NEW job \in JobRecords, NEW step \in Steps
  PROVE  [g EXCEPT !.to = to, !.job = job, !.step = step] \in Handlers
BY ONLY g \in Handlers, to \in Nat, job \in JobRecords, step \in Steps
   DEF Handlers

(* A saved state gets a hash and a position. *)
LEMMA SaveStateNext ==
  ASSUME IInv, NEW t \in Threads, SaveState(t)
  PROVE  \E h \in Handlers :
           /\ op' = [op EXCEPT ![t] = h]
           /\ h.kind = op[t].kind /\ h.id = op[t].id
           /\ h.from = op[t].from /\ h.index = op[t].index
           /\ h.next = op[t].next /\ h.key = op[t].key
           /\ h.step = IF h.kind \in {"boot", "fork"}
                       THEN "head" ELSE "append"
           /\ states' \in Seq(StateRecords)
           /\ \A i \in Ids : i \in Ids' /\ states'[i] = states[i]
           /\ h.to \in Ids' /\ states'[h.to] = h.next
<1> PICK to : to = HashOf(op[t].next)
  OBVIOUS
<1> PICK next : next = op[t].next
  OBVIOUS
<1> PICK job : job = [op[t].job EXCEPT !.state = to]
  OBVIOUS
<1> PICK step : step = After(op[t].kind, "state")
  OBVIOUS
<1> PICK h : h = [op[t] EXCEPT !.to = to, !.job = job, !.step = step]
  OBVIOUS
<1>1. op[t] \in Handlers /\ next \in StateRecords
      /\ states \in Seq(StateRecords)
  BY DEF IInv, TypeOK, Handlers
<1>2. /\ to \in Nat
      /\ Saved(next) => to \in Ids /\ states[to] = next
      /\ ~Saved(next) => to = Len(states) + 1
  BY HashType DEF IInv
<1>3. job \in JobRecords
  BY <1>1, <1>2 DEF Handlers, JobRecords
<1>4. step \in Steps
      /\ step = IF op[t].kind \in {"boot", "fork"} THEN "head" ELSE "append"
  BY DEF After, Steps
<1>5. h \in Handlers
  BY <1>1, <1>2, <1>3, <1>4, SavedType
<1>6. /\ h.kind = op[t].kind /\ h.id = op[t].id
      /\ h.from = op[t].from /\ h.index = op[t].index
      /\ h.next = next /\ h.to = to /\ h.step = step
      /\ h.key = op[t].key
  BY <1>1 DEF Handlers
<1>7. op' = [op EXCEPT ![t] = h]
  BY DEF SaveState
<1>8. states' = IF Saved(next) THEN states ELSE Append(states, next)
  BY DEF SaveState
<1>9. /\ states' \in Seq(StateRecords)
      /\ \A i \in Ids : i \in Ids' /\ states'[i] = states[i]
      /\ to \in Ids' /\ states'[to] = next
  BY <1>1, <1>2, <1>8 DEF Ids
<1>10. QED
  BY <1>4, <1>5, <1>6, <1>7, <1>9

(* One case per step. *)
LEMMA StepType ==
  ASSUME IInv, NEW t \in Threads, Step(t)
  PROVE  TypeOK'
<1>1. op[t] \in Handlers
  BY DEF IInv, TypeOK
<1>2. /\ op[t].key \in Keys /\ op[t].next \in StateRecords
      /\ op[t].job \in JobRecords /\ op[t].to \in Nat
      /\ op[t].index \in Nat /\ op[t].id \in LogIds
      /\ op[t].from \in Nat /\ op[t].kind \in Kinds
      /\ op[t].next.branch \in Branches /\ op[t].next.frame \in FrameIds
  BY <1>1 DEF Handlers, StateRecords
<1>3. TypeOK
  BY DEF IInv
<1>4. CASE SaveEvidence(t)
  BY <1>2, <1>3, <1>4, AdvanceType DEF SaveEvidence, TypeOK
<1>5. CASE SaveProposal(t)
  BY <1>2, <1>3, <1>5, AdvanceType DEF SaveProposal, TypeOK
<1>6. CASE RejectPatch(t)
  BY <1>3, <1>6, ReturnType DEF RejectPatch, TypeOK, store
<1>7. CASE PlanCommit(t)
  <2>1. PICK h \in Handlers : op' = [op EXCEPT ![t] = h]
    BY <1>7, PlanCommitNext
  <2>2. QED
    BY <1>3, <1>7, <2>1 DEF PlanCommit, TypeOK, store
<1>8. CASE RefuseDuplicate(t)
  BY <1>3, <1>8, ReturnType DEF RefuseDuplicate, TypeOK, store
<1>20. CASE ReadTornLog(t)
  BY <1>3, <1>20, ReturnType DEF ReadTornLog, TypeOK, store
<1>9. CASE SaveVerdict(t)
  <2>1. DOMAIN jobs' = DOMAIN jobs
        /\ \A k \in DOMAIN jobs : jobs'[k] \in {jobs[k], op[t].job}
    BY <1>9 DEF SaveVerdict
  <2>2. /\ op' \in [Threads -> Handlers]
        /\ lock' \in Threads \cup {None}
        /\ phase' \in {"down", "booting", "serving"}
    <3>1. CASE head = op[t].job.state /\ "node.renderer" \in current.parts
      <4> PICK step : step = IF op[t].id.arg = "pass" THEN "frame" ELSE "state"
        OBVIOUS
      <4>1. step \in Steps
        BY DEF Steps
      <4>2. op' = [op EXCEPT ![t] = [op[t] EXCEPT !.step = step]]
        BY <1>9, <3>1 DEF SaveVerdict
      <4>3. UNCHANGED <<lock, phase>>
        BY <1>9, <3>1 DEF SaveVerdict
      <4>4. [op[t] EXCEPT !.step = step] \in Handlers
        BY <1>3, <4>1, HandlerAdvances
      <4>5. QED
        BY <1>3, <4>2, <4>3, <4>4 DEF TypeOK
    <3>2. CASE ~(head = op[t].job.state /\ "node.renderer" \in current.parts)
      BY <1>3, <1>9, <3>2, ReturnType DEF SaveVerdict
    <3>3. QED
      BY <3>1, <3>2
  <2>3. QED
    BY <1>2, <1>3, <1>9, <2>1, <2>2 DEF SaveVerdict, TypeOK
<1>10. CASE SaveFrame(t)
  BY <1>2, <1>3, <1>10, AdvanceType DEF SaveFrame, TypeOK
<1>11. CASE FrameCollision(t)
  BY <1>3, <1>11, ReturnType DEF FrameCollision, TypeOK, store
<1>12. CASE SaveState(t)
  <2>1. PICK h \in Handlers : /\ op' = [op EXCEPT ![t] = h]
                             /\ states' \in Seq(StateRecords)
    BY <1>12, SaveStateNext
  <2>2. QED
    BY <1>3, <1>12, <2>1 DEF SaveState, TypeOK
<1>13. CASE AppendEvent(t)
  <2>1. events' \in Seq(EventRecords)
    BY <1>3, <1>13, NewEventType DEF AppendEvent, TypeOK
  <2>2. tail' \in TailTypes
    BY <1>13 DEF AppendEvent, TailTypes
  <2>3. Advance(t)
    BY <1>13 DEF AppendEvent
  <2>4. QED
    BY <1>3, <1>13, <2>1, <2>2, <2>3, AdvanceType DEF AppendEvent, TypeOK
<1>14. CASE SaveRenderJob(t)
  <2>1. DOMAIN jobs' \subseteq Keys
        /\ \A k \in DOMAIN jobs' : jobs'[k] \in JobRecords
    BY <1>2, <1>3, <1>14 DEF SaveRenderJob, TypeOK
  <2>2. Advance(t)
    BY <1>14 DEF SaveRenderJob
  <2>3. QED
    BY <1>3, <1>14, <2>1, <2>2, AdvanceType DEF SaveRenderJob, TypeOK
<1>15. CASE SetHead(t)
  BY <1>2, <1>3, <1>15, AdvanceType DEF SetHead, TypeOK
<1>16. CASE SetBranchRef(t)
  BY <1>2, <1>3, <1>16, AdvanceType DEF SetBranchRef, TypeOK
<1>17. CASE SaveMemory(t)
  BY <1>2, <1>3, <1>17, AdvanceType DEF SaveMemory, TypeOK
<1>18. CASE Deposit(t)
  <2>1. op[t].key.event \in EventIds
    BY <1>18, OwnerActs
    DEF Deposit, At, HandlerSound, StepsOf, Committing, Kinds
  <2>2. QED
    BY <1>2, <1>3, <1>18, <2>1, AdvanceType DEF Deposit, TypeOK
<1>19. QED
  BY <1>4, <1>5, <1>6, <1>7, <1>8, <1>9, <1>10, <1>11, <1>12, <1>13, <1>14,
     <1>15, <1>16, <1>17, <1>18, <1>20 DEF Step
-----------------------------------------------------------------------------
(* Every step of a handler keeps what the handlers rely on. *)

(* One case per step. *)
LEMMA StepServing ==
  ASSUME IInv, NEW t \in Threads, Step(t)
  PROVE  ServingInv'
<1>1. op[t].step # "idle"
  BY DEF Step, At, SaveEvidence, SaveProposal, RejectPatch, PlanCommit,
     RefuseDuplicate, ReadTornLog, NextReadsLog, SaveVerdict, SaveFrame,
     FrameCollision, SaveState,
     AppendEvent, SaveRenderJob, SetHead, SetBranchRef, SaveMemory, Deposit
<1>2. /\ lock = t
      /\ \A u \in Threads \ {t} : op[u] = NoHandler
      /\ HandlerSound(op[t])
      /\ op[t].kind \in Kinds /\ op[t].kind # "none"
  BY <1>1, OwnerActs
<1>3. op \in [Threads -> Handlers]
  BY DEF IInv, TypeOK
<1>4. op[t].kind # "boot" => head # 0 /\ phase = "serving"
  BY <1>2 DEF HandlerSound, IInv, ServingInv
<1>5. CASE SaveEvidence(t)
  BY <1>5, AdvanceServing DEF SaveEvidence, At
<1>6. CASE SaveProposal(t)
  BY <1>6, AdvanceServing DEF SaveProposal, At
<1>7. CASE RejectPatch(t)
  <2>1. op[t].kind # "boot"
    BY <1>2, <1>7 DEF RejectPatch, HandlerSound, StepsOf
  <2>2. QED
    BY <1>1, <1>4, <1>7, <2>1, ReturnServing DEF RejectPatch, store
<1>8. CASE PlanCommit(t)
  <2>1. PICK h \in Handlers :
           /\ op' = [op EXCEPT ![t] = h]
           /\ h.kind = op[t].kind /\ h.id = op[t].id
           /\ h.from = op[t].from /\ h.key = op[t].key
           /\ h.step \in {"state", "frame"}
           /\ h.index = Len(events) + 1 /\ h.next.parent = head
    BY <1>8, PlanCommitNext
  <2>2. UNCHANGED <<store, phase, lock>> /\ ~EventLogged(op[t].id)
        /\ op[t].step = "plan" /\ LogReads
    BY <1>8 DEF PlanCommit, At
  <2>3. op[t].kind \in {"interact", "commit"} /\ op[t].from = head
    BY <1>2, <2>2 DEF HandlerSound, StepsOf, Kinds
  <2>4. HandlerSound(h)'
    BY <1>2, <1>4, <2>1, <2>2, <2>3
    DEF HandlerSound, StepsOf, Steps, Wrote, Unlogged, Committing, Ids,
        EventLogged, HasReadLog, LogReads, store
  <2>5. op'[t] = h /\ \A u \in Threads \ {t} : op'[u] = NoHandler
    BY <1>2, <1>3, <2>1
  <2>6. \A u \in Threads : HandlerSound(op[u])'
    BY <2>4, <2>5, IdleSound
  <2>7. QED
    BY <1>2, <2>2, <2>3, <1>4, <2>5, <2>6
    DEF ServingInv, MutualExclusion, store
<1>9. CASE RefuseDuplicate(t)
  <2>1. op[t].kind # "boot"
    BY <1>2, <1>9 DEF RefuseDuplicate, At, HandlerSound, StepsOf
  <2>2. QED
    BY <1>1, <1>4, <1>9, <2>1, ReturnServing DEF RefuseDuplicate, store
<1>21. CASE ReadTornLog(t)
  <2>1. op[t].kind # "boot"
    BY <1>2, <1>21
    DEF ReadTornLog, NextReadsLog, At, HandlerSound, StepsOf
  <2>2. QED
    BY <1>1, <1>4, <1>21, <2>1, ReturnServing DEF ReadTornLog, store
<1>10. CASE SaveVerdict(t)
  <2>1. op[t].kind = "verify" /\ op[t].step = "verdict"
    BY <1>2, <1>10 DEF SaveVerdict, At, HandlerSound, StepsOf, Kinds, Steps
  <2>2. UNCHANGED <<states, head, events>>
    BY <1>10 DEF SaveVerdict
  <2>3. CASE head = op[t].job.state /\ "node.renderer" \in current.parts
    <3> PICK step : step = IF op[t].id.arg = "pass" THEN "frame" ELSE "state"
      OBVIOUS
    <3> PICK h : h = [op[t] EXCEPT !.step = step]
      OBVIOUS
    <3>1. op' = [op EXCEPT ![t] = h] /\ UNCHANGED <<lock, phase>>
      BY <1>10, <2>3 DEF SaveVerdict
    <3>2. /\ h.kind = op[t].kind /\ h.id = op[t].id /\ h.key = op[t].key
          /\ h.from = op[t].from /\ h.next = op[t].next
          /\ h.index = op[t].index /\ h.step \in {"frame", "state"}
      BY <1>3 DEF Handlers
    <3>3. HandlerSound(h)'
      BY <1>2, <2>1, <2>2, <3>1, <3>2
      DEF HandlerSound, StepsOf, Wrote, Unlogged, HasReadLog, Committing, Ids
    <3>4. op'[t] = h /\ \A u \in Threads \ {t} : op'[u] = NoHandler
      BY <1>2, <1>3, <3>1
    <3>5. \A u \in Threads : HandlerSound(op[u])'
      BY <3>3, <3>4, IdleSound
    <3>6. QED
      BY <1>2, <1>4, <2>1, <2>2, <3>1, <3>4, <3>5
      DEF ServingInv, MutualExclusion
  <2>4. CASE ~(head = op[t].job.state /\ "node.renderer" \in current.parts)
    BY <1>1, <1>4, <1>10, <2>1, <2>2, <2>4, ReturnServing DEF SaveVerdict
  <2>5. QED
    BY <2>3, <2>4
<1>11. CASE SaveFrame(t)
  BY <1>11, AdvanceServing DEF SaveFrame, At
<1>12. CASE FrameCollision(t)
  <2>1. head # 0
    BY <1>2, <1>4, <1>12 DEF FrameCollision, At, HandlerSound
  <2>2. QED
    BY <1>1, <1>12, <2>1, ReturnServing DEF FrameCollision, store
<1>13. CASE SaveState(t)
  <2>1. PICK h \in Handlers :
           /\ op' = [op EXCEPT ![t] = h]
           /\ h.kind = op[t].kind /\ h.id = op[t].id
           /\ h.from = op[t].from /\ h.index = op[t].index
           /\ h.next = op[t].next /\ h.key = op[t].key
           /\ h.step = IF h.kind \in {"boot", "fork"}
                       THEN "head" ELSE "append"
           /\ states' \in Seq(StateRecords)
           /\ \A i \in Ids : i \in Ids' /\ states'[i] = states[i]
           /\ h.to \in Ids' /\ states'[h.to] = h.next
    BY <1>13, SaveStateNext
  <2>2. UNCHANGED <<head, events, lock, phase>> /\ op[t].step = "state"
    BY <1>13 DEF SaveState, At
  <2>3. h.kind \in {"boot", "interact", "commit", "verify", "fork"}
    BY <1>2, <2>1, <2>2 DEF HandlerSound, StepsOf, Kinds
  <2>4. Unlogged(h) => Unlogged(op[t])
    BY <2>1, <2>2, <2>3 DEF Unlogged
  <2>5. HandlerSound(h)'
    <3>1. h.step \in StepsOf(h.kind)
      BY <2>1, <2>3 DEF StepsOf, Steps
    <3>2. h.kind # "boot" => phase' = "serving" /\ h.from \in Ids'
      BY <1>2, <2>1, <2>2, <2>3 DEF HandlerSound
    <3>3. h.kind = "boot" => phase' = "booting"
      BY <1>2, <2>1, <2>2 DEF HandlerSound
    <3>4. Unlogged(h) => h.index = Len(events') + 1
                         /\ h.next.parent = h.from
      BY <1>2, <2>1, <2>2, <2>4 DEF HandlerSound
    <3>5. Unlogged(h) /\ Committing(h) => ~EventLogged(h.id)'
      BY <1>2, <2>1, <2>2, <2>4 DEF HandlerSound, Committing, EventLogged
    <3>6. /\ h.id.origin = "client" => h.kind \notin {"verify", "fork"}
          /\ Committing(h) => h.key.event \in EventIds
      BY <1>2, <2>1 DEF HandlerSound, Committing
    <3>7. h.to \in Ids' /\ states'[h.to] = h.next
          /\ h.step \in {"head", "append"}
      BY <2>1
    <3>8. HasReadLog(h) => LogReads'
      <4>1. LogReads' = LogReads
        BY <1>13 DEF SaveState, LogReads
      <4>2. h.kind = "verify" => LogReads
        BY <1>13, <2>1, <2>2 DEF SaveState, NextReadsLog, At
      <4>3. Committing(h) => HasReadLog(op[t])
        BY <2>1, <2>2 DEF HasReadLog, Committing
      <4>4. QED
        BY <1>2, <4>1, <4>2, <4>3 DEF HandlerSound, HasReadLog
    <3>9. QED
      BY <2>3, <3>1, <3>2, <3>3, <3>4, <3>5, <3>6, <3>7, <3>8
      DEF HandlerSound, Wrote, Unlogged, Committing, HasReadLog
  <2>6. op'[t] = h /\ \A u \in Threads \ {t} : op'[u] = NoHandler
    BY <1>2, <1>3, <2>1
  <2>7. \A u \in Threads : HandlerSound(op[u])'
    BY <2>5, <2>6, IdleSound
  <2>8. QED
    BY <1>2, <2>2, <2>6, <2>7 DEF ServingInv, MutualExclusion, IInv
<1>14. CASE AppendEvent(t)
  BY <1>14, AdvanceServing DEF AppendEvent, At
<1>15. CASE SaveRenderJob(t)
  BY <1>15, AdvanceServing DEF SaveRenderJob, At
<1>16. CASE SetHead(t)
  BY <1>16, AdvanceServing DEF SetHead, At
<1>17. CASE SetBranchRef(t)
  BY <1>17, AdvanceServing DEF SetBranchRef, At
<1>18. CASE SaveMemory(t)
  BY <1>18, AdvanceServing DEF SaveMemory, At
<1>19. CASE Deposit(t)
  BY <1>19, AdvanceServing DEF Deposit, At
<1>20. QED
  BY <1>5, <1>6, <1>7, <1>8, <1>9, <1>10, <1>11, <1>12, <1>13, <1>14,
     <1>15, <1>16, <1>17, <1>18, <1>19, <1>21 DEF Step
-----------------------------------------------------------------------------
(* The refs and the log. *)

(* A step that adds saved states at most, and moves nothing else, keeps    *)
(* what the refs name and what the log says.                               *)
LEMMA StatesGrow ==
  ASSUME IInv, UNCHANGED <<head, refs, events>>,
         \A i \in Ids : i \in Ids' /\ states'[i] = states[i]
  PROVE  RefsNameSavedStates' /\ LogIsSound' /\ AtMostOnceCommit'
<1>1. RefsNameSavedStates'
  BY DEF IInv, RefsNameSavedStates
<1>2. LogIsSound'
  <2>1. SUFFICES ASSUME NEW i \in 1 .. Len(events')
                 PROVE  /\ events'[i].index = i
                        /\ {events'[i].parent, events'[i].result}
                             \subseteq Ids'
                        /\ states'[events'[i].result].parent
                             = events'[i].parent
                        /\ states'[events'[i].result].branch
                             = events'[i].branch
    BY DEF LogIsSound
  <2>2. i \in 1 .. Len(events) /\ events'[i] = events[i]
    BY <2>1
  <2>3. QED
    BY <2>2 DEF IInv, LogIsSound
<1>3. AtMostOnceCommit'
  BY DEF IInv, AtMostOnceCommit
<1>4. QED
  BY <1>1, <1>2, <1>3

(* An appended event continues the indices, links saved states and does    *)
(* not repeat a client's id.                                               *)
LEMMA AppendHistory ==
  ASSUME IInv, NEW t \in Threads, op[t].step = "append",
         UNCHANGED <<states, head, refs>>,
         events' = Append(events, NewEvent(t))
  PROVE  RefsNameSavedStates' /\ LogIsSound' /\ AtMostOnceCommit'
<1> PICK e : e = NewEvent(t)
  OBVIOUS
<1>1. events' = Append(events, e) /\ UNCHANGED <<states, head, refs>>
  OBVIOUS
<1>2. op[t].step = "append"
  OBVIOUS
<1>3. HandlerSound(op[t]) /\ op[t].kind \in Kinds
  BY <1>2, OwnerActs
<1>4. op[t].kind \in {"interact", "commit", "verify", "fork"}
  BY <1>2, <1>3 DEF HandlerSound, StepsOf, Kinds
<1>5. /\ e.index = Len(events) + 1
      /\ e.parent \in Ids /\ e.result \in Ids
      /\ states[e.result].parent = e.parent
      /\ states[e.result].branch = e.branch
  BY <1>2, <1>3, <1>4 DEF NewEvent, HandlerSound, Wrote, Unlogged
<1>6. e.id.origin = "client" => ~EventLogged(e.id)
  BY <1>2, <1>3, <1>4 DEF NewEvent, HandlerSound, Unlogged, Committing
<1>7. events \in Seq(EventRecords)
  BY DEF IInv, TypeOK
<1>8. /\ Len(events') = Len(events) + 1
      /\ events'[Len(events) + 1] = e
      /\ \A i \in 1 .. Len(events) : events'[i] = events[i]
      /\ Len(events) \in Nat
  BY <1>1, <1>7
<1>9. RefsNameSavedStates'
  BY <1>1 DEF IInv, RefsNameSavedStates, Ids
<1>10. LogIsSound'
  <2>1. SUFFICES ASSUME NEW i \in 1 .. Len(events')
                 PROVE  /\ events'[i].index = i
                        /\ {events'[i].parent, events'[i].result}
                             \subseteq Ids'
                        /\ states'[events'[i].result].parent
                             = events'[i].parent
                        /\ states'[events'[i].result].branch
                             = events'[i].branch
    BY DEF LogIsSound
  <2>2. CASE i \in 1 .. Len(events)
    BY <1>1, <1>8, <2>2 DEF IInv, LogIsSound, Ids
  <2>3. CASE i = Len(events) + 1
    BY <1>1, <1>5, <1>8, <2>3 DEF Ids
  <2>4. QED
    BY <1>8, <2>1, <2>2, <2>3
<1>11. AtMostOnceCommit'
  <2>1. SUFFICES ASSUME NEW i \in 1 .. Len(events'),
                        NEW j \in 1 .. Len(events'),
                        events'[i].id = events'[j].id,
                        events'[i].id.origin = "client"
                 PROVE  i = j
    BY DEF AtMostOnceCommit
  <2>2. CASE i \in 1 .. Len(events) /\ j \in 1 .. Len(events)
    BY <1>8, <2>1, <2>2 DEF IInv, AtMostOnceCommit
  <2>3. CASE i = Len(events) + 1 /\ j \in 1 .. Len(events)
    BY <1>6, <1>8, <2>1, <2>3 DEF EventLogged
  <2>4. CASE i \in 1 .. Len(events) /\ j = Len(events) + 1
    BY <1>6, <1>8, <2>1, <2>4 DEF EventLogged
  <2>5. QED
    BY <1>8, <2>1, <2>2, <2>3, <2>4
<1>12. QED
  BY <1>9, <1>10, <1>11

(* HEAD and a branch ref move to a saved state; the ref's is on its branch.*)
LEMMA MoveRefs ==
  ASSUME IInv, NEW t \in Threads, SetHead(t) \/ SetBranchRef(t)
  PROVE  RefsNameSavedStates' /\ LogIsSound' /\ AtMostOnceCommit'
<1>1. UNCHANGED <<states, events>> /\ op[t].to \in Ids
  BY DEF SetHead, SetBranchRef
<1>2. LogIsSound' /\ AtMostOnceCommit'
  BY <1>1 DEF IInv, LogIsSound, AtMostOnceCommit, Ids
<1>3. CASE SetHead(t)
  BY <1>1, <1>2, <1>3 DEF IInv, RefsNameSavedStates, SetHead, Ids
<1>4. CASE SetBranchRef(t)
  <2>1. op[t].step = "ref"
    BY <1>4 DEF SetBranchRef, At
  <2>2. HandlerSound(op[t]) /\ op[t].kind \in Kinds
    BY <2>1, OwnerActs
  <2>3. states[op[t].to] = op[t].next
    BY <2>1, <2>2 DEF HandlerSound, StepsOf, Wrote, Kinds
  <2>4. refs' = [refs EXCEPT ![op[t].next.branch] = op[t].to]
        /\ head' = head
    BY <1>4 DEF SetBranchRef
  <2>5. refs \in [Branches -> Nat]
    BY DEF IInv, TypeOK
  <2>6. RefsNameSavedStates'
    BY <1>1, <2>3, <2>4, <2>5 DEF IInv, RefsNameSavedStates, Ids
  <2>7. QED
    BY <1>2, <2>6
<1>5. QED
  BY <1>3, <1>4

(* Only four steps touch the states, the refs or the log. *)
LEMMA StepHistory ==
  ASSUME IInv, NEW t \in Threads, Step(t)
  PROVE  RefsNameSavedStates' /\ LogIsSound' /\ AtMostOnceCommit'
<1>1. CASE SaveState(t)
  BY <1>1, SaveStateNext, StatesGrow DEF SaveState
<1>2. CASE AppendEvent(t)
  BY <1>2, AppendHistory DEF AppendEvent, At
<1>3. CASE SetHead(t) \/ SetBranchRef(t)
  BY <1>3, MoveRefs
<1>4. CASE UNCHANGED <<states, head, refs, events>>
  BY <1>4, StatesGrow DEF Ids
<1>5. QED
  BY <1>1, <1>2, <1>3, <1>4
  DEF Step, store, SaveEvidence, SaveProposal, RejectPatch, PlanCommit,
      RefuseDuplicate, ReadTornLog, SaveVerdict, SaveFrame, FrameCollision,
      SaveRenderJob, SaveMemory, Deposit
-----------------------------------------------------------------------------
(* The invariant is inductive. *)

(* It holds of the empty store. *)
LEMMA InitInv == Init => IInv
<1> SUFFICES ASSUME Init PROVE IInv
  OBVIOUS
<1>1. TypeOK
  BY NoHandlerType DEF Init, TypeOK, TailTypes
<1>2. ServingInv
  BY IdleSound DEF Init, ServingInv, MutualExclusion
<1>3. RefsNameSavedStates /\ LogIsSound /\ AtMostOnceCommit
  BY DEF Init, RefsNameSavedStates, LogIsSound, AtMostOnceCommit
<1>4. QED
  BY <1>1, <1>2, <1>3 DEF IInv

(* Every action keeps it. *)
LEMMA NextInv == IInv /\ [Next]_vars => IInv'
<1> SUFFICES ASSUME IInv, [Next]_vars PROVE IInv'
  OBVIOUS
<1>1. CASE Crash
  <2>1. RefsNameSavedStates' /\ LogIsSound' /\ AtMostOnceCommit'
    BY <1>1, CrashLog, StatesGrow, AppendHistory DEF Ids
  <2>2. QED
    BY <1>1, <2>1, CrashType, CrashServing DEF IInv
<1>2. ASSUME NEW t \in Threads, Start(t)
      PROVE  IInv'
  <2>1. RefsNameSavedStates' /\ LogIsSound' /\ AtMostOnceCommit'
    BY <1>2, StatesGrow DEF Start, store, Ids
  <2>2. QED
    BY <1>2, <2>1, StartType, StartServing DEF IInv
<1>3. ASSUME NEW t \in Threads, Receive(t)
      PROVE  IInv'
  <2>1. PICK h \in Handlers : Enter(t, h) /\ HandlerSound(h)
    BY <1>3, ReceiveEnters
  <2>2. TypeOK'
    BY <2>1, EnterType DEF IInv
  <2>3. ServingInv'
    BY <2>1, EnterServing
  <2>4. RefsNameSavedStates' /\ LogIsSound' /\ AtMostOnceCommit'
    BY <2>1, StatesGrow DEF Enter, store, Ids
  <2>5. QED
    BY <2>2, <2>3, <2>4 DEF IInv
<1>4. ASSUME NEW t \in Threads, Step(t)
      PROVE  IInv'
  BY <1>4, StepType, StepServing, StepHistory DEF IInv
<1>5. CASE UNCHANGED vars
  BY <1>5
  DEF vars, store, IInv, TypeOK, ServingInv, MutualExclusion, HandlerSound,
      Wrote, Unlogged, Committing, HasReadLog, LogReads, EventLogged, Ids,
      RefsNameSavedStates,
      LogIsSound, AtMostOnceCommit
<1>6. QED
  BY <1>1, <1>2, <1>3, <1>4, <1>5 DEF Next

(* IInv holds of every reachable state, for any number of threads, events, *)
(* branches and kills.                                                      *)
THEOREM Invariance == Spec => []IInv
BY InitInv, NextInv, PTL DEF Spec

(* The store and the handlers keep their types. *)
THEOREM TypeCorrectness == Spec => []TypeOK
<1>1. IInv => TypeOK
  BY DEF IInv
<1>2. QED
  BY <1>1, Invariance, PTL

(* HEAD and the branch refs never dangle, and no work on one branch moves  *)
(* the ref of another, whatever is killed in between (set_ref).            *)
THEOREM RefsAlwaysNameSavedStates == Spec => []RefsNameSavedStates
<1>1. IInv => RefsNameSavedStates
  BY DEF IInv
<1>2. QED
  BY <1>1, Invariance, PTL

(* At every moment, also just after a kill, events.jsonl passes the        *)
(* index and link tests of verify_replay.                                  *)
THEOREM LogIsAlwaysSound == Spec => []LogIsSound
<1>1. IInv => LogIsSound
  BY DEF IInv
<1>2. QED
  BY <1>1, Invariance, PTL

(* No interleaving of requests, retries and kills commits a client's event *)
(* id twice (event_id_exists under the engine's lock).                     *)
THEOREM EventsCommitAtMostOnce == Spec => []AtMostOnceCommit
<1>1. IInv => AtMostOnceCommit
  BY DEF IInv
<1>2. QED
  BY <1>1, Invariance, PTL

(* A step that changes the log is the append of a handler that has read it *)
(* or a kill in the middle of such an append.                              *)
LEMMA OnlyAppendsWrite ==
  ASSUME IInv, [Next]_vars
  PROVE  tail = "torn" => UNCHANGED <<events, tail>>
<1>1. ASSUME NEW t \in Threads, op[t].step = "append",
             NextReadsLog(t) => LogReads
      PROVE  LogReads
  <2>1. HandlerSound(op[t]) /\ op[t].kind \in Kinds
    BY <1>1, OwnerActs
  <2>2. op[t].kind \in {"interact", "commit", "verify", "fork"}
    BY <1>1, <2>1 DEF HandlerSound, StepsOf, Kinds
  <2>3. QED
    BY <1>1, <2>1, <2>2
    DEF HandlerSound, HasReadLog, Committing, NextReadsLog, At
<1>2. CASE Crash
  BY <1>1, <1>2 DEF Crash, PartOfLine, At, LogReads
<1>3. ASSUME NEW t \in Threads, Start(t)
      PROVE  UNCHANGED <<events, tail>>
  BY <1>3 DEF Start, store
<1>4. ASSUME NEW t \in Threads, Receive(t)
      PROVE  UNCHANGED <<events, tail>>
  BY <1>4, ReceiveEnters DEF Enter, store
<1>5. ASSUME NEW t \in Threads, AppendEvent(t)
      PROVE  LogReads
  BY <1>1, <1>5 DEF AppendEvent, At
<1>6. ASSUME NEW t \in Threads, Step(t), ~AppendEvent(t)
      PROVE  UNCHANGED <<events, tail>>
  BY <1>6
  DEF Step, store, SaveEvidence, SaveProposal, RejectPatch, PlanCommit,
      RefuseDuplicate, ReadTornLog, SaveVerdict, SaveFrame, FrameCollision,
      SaveState, SaveRenderJob, SetHead, SetBranchRef, SaveMemory, Deposit
<1>7. CASE UNCHANGED vars
  BY <1>7 DEF vars, store
<1>8. QED
  BY <1>2, <1>3, <1>4, <1>5, <1>6, <1>7 DEF Next, LogReads

(* No event is ever written behind a line that a kill has torn, because    *)
(* every handler that appends has read the whole log first and no other    *)
(* handler appends in between (list_events under the engine's lock).       *)
THEOREM TornLinesStayLast == Spec => TornLineIsLast
<1>1. IInv /\ [Next]_vars =>
        [tail = "torn" => UNCHANGED <<events, tail>>]_vars
  BY OnlyAppendsWrite
<1>2. QED
  BY <1>1, Invariance, PTL DEF Spec, TornLineIsLast
-----------------------------------------------------------------------------
(***************************************************************************)
(* What a reader of a state needs on disk, and where a frame comes from.   *)
(***************************************************************************)
HasFrame(s) == ~s.patched => s.frame \in frames \cup {GenesisFrame}
HasJob(s) == s.status = "queued" => s.pending \in DOMAIN jobs

Sourced(s) ==
  \/ s.frame = GenesisFrame
  \/ s.parent # 0 /\ s.frame = states[s.parent].frame
  \/ s.patched /\ s.pending = Key(s.last, s.parent)
  \/ s.frame.made_by = "native" /\ s.frame.job = Key(s.last, s.parent)
  \/ /\ s.frame.made_by = "verifier"
     /\ s.frame.job \in DOMAIN jobs
     /\ jobs[s.frame.job].state = s.parent

(* A packet's handler is named after its event and its parent state. *)
FromClient(h) == h.kind \in {"observe", "propose", "interact", "commit"}

(* The frame that a verdict shows. *)
VerdictFrame(h) ==
  IF h.id.arg = "pass" THEN FrameOf("verifier", h.key, h.id.text)
  ELSE states[h.from].frame

(* What a handler has on disk at each of its steps. *)
HandlerBacked(h) ==
  /\ FromClient(h) => h.key = Key(h.key.event, h.from)
                      /\ h.id = ClientId(h.key.event)
  /\ h.kind = "boot" => h.next = Genesis
  /\ h.kind = "interact" /\ h.step # "observe" => h.key \in evidence
  /\ h.kind = "interact" /\ h.step \notin {"observe", "propose"} =>
       h.key \in proposals
  /\ Committing(h) /\ h.step \in {"frame", "state", "append", "job"} =>
       /\ h.key \notin DOMAIN jobs
       /\ h.next.status = "queued" => h.next.pending = h.key
  /\ Committing(h) /\ h.step = "job" => EventLogged(h.id)
  /\ Committing(h) /\ h.step \in {"state", "append", "job", "head", "ref"} =>
       HasFrame(h.next)
  /\ Committing(h) /\ h.step \in {"head", "ref"} => HasJob(h.next)
  /\ h.kind = "verify" => h.key \in DOMAIN jobs /\ HasJob(h.next)
  /\ h.kind = "verify" /\ h.step = "verdict" => h.from = head
  /\ h.kind = "verify" /\ h.step \in {"verdict", "frame", "state"} =>
       jobs[h.key].state = h.job.state /\ h.next.frame = VerdictFrame(h)
  /\ h.kind = "verify" /\ h.step \notin {"verdict", "frame"} =>
       HasFrame(h.next)
  /\ h.kind = "verify" /\ h.step \in {"verdict", "frame"} =>
       h.id.arg = "pass" \/ HasFrame(h.next)
  /\ h.kind \in {"boot", "fork"} => HasFrame(h.next) /\ HasJob(h.next)
  /\ h.kind = "switch" => HasFrame(states[h.to]) /\ HasJob(states[h.to])
  /\ h.kind # "none" /\ h.step \in {"frame", "state"} => Sourced(h.next)

JobsAreLogged == \A k \in DOMAIN jobs : EventLogged(ClientId(k.event))
ParentsAreOlder == \A i \in Ids : states[i].parent \in 0 .. i - 1
FramesAreSourced == \A i \in Ids : Sourced(states[i])

InteractionsBacked ==
  \A i \in 1 .. Len(events) :
    events[i].kind = "interact" =>
      Key(events[i].id.key.event, events[i].parent) \in evidence \cap proposals

(* A handler between the append of its event and its memory. *)
Remembering(h, i) ==
  Committing(h) /\ h.step \in {"job", "head", "ref", "memory"} /\ h.index = i

CommitsRemembered ==
  crashes = 0 =>
    \A i \in 1 .. Len(events) :
      events[i].kind \in {"interact", "commit"} =>
        i \in memories \/ \E t \in Threads : Remembering(op[t], i)

BackedInv ==
  /\ \A t \in Threads : HandlerBacked(op[t])
  /\ JobsAreLogged
  /\ ParentsAreOlder
  /\ FramesAreSourced
  /\ ReferencedArtifactsExist
  /\ InteractionsBacked
  /\ CommitsRemembered

-----------------------------------------------------------------------------
(* Steps. *)

(* The step before a step that a handler advances to. *)
LEMMA Predecessor ==
  ASSUME NEW kind \in Kinds, NEW s \in StepsOf(kind), s # "state",
         NEW next, next = After(kind, s), next # "done"
  PROVE  /\ next \in StepsOf(kind)
         /\ next \notin {"idle", "observe", "verdict"}
         /\ s \notin {"idle", "plan", "verdict"}
         /\ next = "propose" => s = "observe"
         /\ next = "plan" => s = "propose"
         /\ next = "frame" => s = "ref" /\ kind = "boot"
         /\ next = "state" =>
              s = "frame" /\ kind \in {"interact", "commit", "verify"}
         /\ next = "append" => s = "ref" /\ kind = "fork"
         /\ next = "job" => s = "append" /\ kind \in {"interact", "commit"}
         /\ next = "head" =>
              \/ s = "job" /\ kind \in {"interact", "commit"}
              \/ s = "append" /\ kind = "verify"
         /\ next = "ref" => s = "head" /\ kind # "switch"
         /\ next = "memory" => s = "ref" /\ kind \in {"interact", "commit"}
         /\ next = "deposit" => s = "memory" /\ kind = "interact"
BY DEF After, StepsOf, Kinds, Steps

(* What a step that ends in Advance does to the handlers. *)
LEMMA AdvanceEffect ==
  ASSUME IInv, NEW t \in Threads, op[t].step # "idle", Advance(t),
         NEW next, next = After(op[t].kind, op[t].step)
  PROVE  \/ /\ next = "done"
            /\ \A u \in Threads : op'[u] = NoHandler
            /\ acked' = IF op[t].to # 0 THEN acked \cup {op[t].to} ELSE acked
         \/ /\ next # "done"
            /\ op'[t] = [op[t] EXCEPT !.step = next]
            /\ \A u \in Threads \ {t} : op'[u] = NoHandler
            /\ acked' = acked
<1>1. \A u \in Threads \ {t} : op[u] = NoHandler
  BY OwnerActs
<1>2. op \in [Threads -> Handlers]
  BY DEF IInv, TypeOK
<1>3. CASE next = "done"
  <2>1. Return(t)
        /\ acked' = IF op[t].to # 0 THEN acked \cup {op[t].to} ELSE acked
    BY <1>3 DEF Advance
  <2>2. QED
    BY <1>1, <1>2, <1>3, <2>1 DEF Return
<1>4. CASE next # "done"
  <2>1. /\ op' = [op EXCEPT ![t] = [op[t] EXCEPT !.step = next]]
        /\ acked' = acked
    BY <1>4 DEF Advance
  <2>2. QED
    BY <1>1, <1>2, <1>4, <2>1
<1>5. QED
  BY <1>3, <1>4

(* A handler that has passed to another step. *)
LEMMA SteppedFields ==
  ASSUME NEW h \in Handlers, NEW s, NEW g, g = [h EXCEPT !.step = s]
  PROVE  /\ g.step = s /\ g.kind = h.kind /\ g.id = h.id /\ g.key = h.key
         /\ g.from = h.from /\ g.to = h.to /\ g.next = h.next
         /\ g.index = h.index /\ g.job = h.job /\ g.mode = h.mode
BY DEF Handlers

-----------------------------------------------------------------------------
(* Nothing that is written is taken back. *)

(* No file of a state, a frame, an observation or a proposal disappears,   *)
(* no event does, and a render job keeps the state it was built for.       *)
StoreGrows ==
  /\ \A i \in Ids : i \in Ids' /\ states'[i] = states[i]
  /\ frames \subseteq frames'
  /\ evidence \subseteq evidence' /\ proposals \subseteq proposals'
  /\ memories \subseteq memories'
  /\ \A k \in DOMAIN jobs :
       k \in DOMAIN jobs' /\ jobs'[k].state = jobs[k].state
  /\ Len(events) <= Len(events')
  /\ \A i \in 1 .. Len(events) : events'[i] = events[i]

LEMMA StoreStays ==
  ASSUME UNCHANGED <<states, frames, evidence, proposals, memories, jobs,
                     events>>, TypeOK
  PROVE  StoreGrows
BY DEF StoreGrows, Ids, TypeOK

LEMMA LogGrows ==
  ASSUME TypeOK, NEW t \in Threads, events' = Append(events, NewEvent(t)),
         UNCHANGED <<states, frames, evidence, proposals, memories, jobs>>
  PROVE  StoreGrows
<1>1. NewEvent(t) \in EventRecords /\ events \in Seq(EventRecords)
  BY NewEventType DEF TypeOK
<1>2. /\ Len(events') = Len(events) + 1 /\ Len(events) \in Nat
      /\ \A i \in 1 .. Len(events) : events'[i] = events[i]
  BY <1>1
<1>3. QED
  BY <1>2 DEF StoreGrows, Ids

(* A commit makes a new job; a verdict keeps the job's state.              *)
LEMMA StepGrows ==
  ASSUME IInv, NEW t \in Threads, HandlerBacked(op[t]), Step(t)
  PROVE  StoreGrows
<1>1. TypeOK
  BY DEF IInv
<1>2. CASE SaveState(t)
  <2>1. \A i \in Ids : i \in Ids' /\ states'[i] = states[i]
    BY <1>2, SaveStateNext
  <2>2. UNCHANGED <<frames, evidence, proposals, memories, jobs, events>>
    BY <1>2 DEF SaveState
  <2>3. QED
    BY <1>1, <2>1, <2>2 DEF StoreGrows, TypeOK
<1>3. CASE AppendEvent(t)
  BY <1>1, <1>3, LogGrows DEF AppendEvent
<1>4. CASE SaveRenderJob(t)
  <2>1. op[t].step = "job"
    BY <1>4 DEF SaveRenderJob, At
  <2>2. HandlerSound(op[t]) /\ op[t].kind \in Kinds
    BY <2>1, OwnerActs
  <2>3. Committing(op[t])
    BY <2>1, <2>2 DEF HandlerSound, StepsOf, Committing, Kinds
  <2>4. op[t].key \notin DOMAIN jobs
    BY <2>1, <2>3 DEF HandlerBacked
  <2>5. \A k \in DOMAIN jobs : k \in DOMAIN jobs' /\ jobs'[k] = jobs[k]
    BY <1>4, <2>4 DEF SaveRenderJob
  <2>6. QED
    BY <1>1, <1>4, <2>5 DEF SaveRenderJob, StoreGrows, Ids, TypeOK
<1>5. CASE SaveVerdict(t)
  <2>1. op[t].step = "verdict"
    BY <1>5 DEF SaveVerdict, At
  <2>2. HandlerSound(op[t]) /\ op[t].kind \in Kinds
    BY <2>1, OwnerActs
  <2>3. op[t].kind = "verify"
    BY <2>1, <2>2 DEF HandlerSound, StepsOf, Kinds, Steps
  <2>4. jobs[op[t].key].state = op[t].job.state
    BY <2>1, <2>3 DEF HandlerBacked
  <2>5. jobs' = [jobs EXCEPT ![op[t].key] = op[t].job]
    BY <1>5 DEF SaveVerdict
  <2>6. \A k \in DOMAIN jobs :
          k \in DOMAIN jobs' /\ jobs'[k].state = jobs[k].state
    BY <2>4, <2>5
  <2>7. QED
    BY <1>1, <1>5, <2>6 DEF SaveVerdict, StoreGrows, Ids, TypeOK
<1>6. CASE \/ SaveEvidence(t) \/ SaveProposal(t) \/ SaveFrame(t)
           \/ SaveMemory(t)
  BY <1>1, <1>6
  DEF SaveEvidence, SaveProposal, SaveFrame, SaveMemory, StoreGrows, Ids,
      TypeOK
<1>7. CASE UNCHANGED <<states, frames, evidence, proposals, memories, jobs,
                       events>>
  BY <1>1, <1>7, StoreStays
<1>8. QED
  BY <1>2, <1>3, <1>4, <1>5, <1>6, <1>7
  DEF Step, store, RejectPatch, PlanCommit, RefuseDuplicate, ReadTornLog,
      FrameCollision, SetHead, SetBranchRef, Deposit

LEMMA NextGrows ==
  ASSUME IInv, \A t \in Threads : HandlerBacked(op[t]), [Next]_vars
  PROVE  StoreGrows
<1>1. TypeOK
  BY DEF IInv
<1>2. CASE Crash
  BY <1>1, <1>2, StoreStays, LogGrows DEF Crash, PartOfLine
<1>3. ASSUME NEW t \in Threads, Start(t)
      PROVE  StoreGrows
  BY <1>1, <1>3, StoreStays DEF Start, store
<1>4. ASSUME NEW t \in Threads, Receive(t)
      PROVE  StoreGrows
  BY <1>1, <1>4, ReceiveEnters, StoreStays DEF Enter, store
<1>5. ASSUME NEW t \in Threads, Step(t)
      PROVE  StoreGrows
  BY <1>5, StepGrows
<1>6. CASE UNCHANGED vars
  BY <1>1, <1>6, StoreStays DEF vars, store
<1>7. QED
  BY <1>2, <1>3, <1>4, <1>5, <1>6 DEF Next

(* What a grown store keeps. *)
LEMMA LoggedStays ==
  ASSUME StoreGrows, NEW id, EventLogged(id), TypeOK, TypeOK'
  PROVE  EventLogged(id)'
<1>1. PICK i \in 1 .. Len(events) : events[i].id = id
  BY DEF EventLogged
<1>2. Len(events) \in Nat /\ Len(events') \in Nat
  BY DEF TypeOK
<1>3. i \in 1 .. Len(events') /\ events'[i].id = id
  BY <1>1, <1>2 DEF StoreGrows
<1>4. QED
  BY <1>3 DEF EventLogged

LEMMA ArtifactsStay ==
  ASSUME StoreGrows, NEW s
  PROVE  /\ HasFrame(s) => HasFrame(s)'
         /\ HasJob(s) => HasJob(s)'
BY DEF StoreGrows, HasFrame, HasJob

LEMMA SourceStays ==
  ASSUME StoreGrows, NEW s, s.parent # 0 => s.parent \in Ids, Sourced(s)
  PROVE  Sourced(s)'
BY DEF StoreGrows, Sourced

-----------------------------------------------------------------------------
(* What the handlers have on disk. *)

LEMMA IdleBacked == HandlerBacked(NoHandler) /\ HandlerBacked(NoHandler)'
BY DEF HandlerBacked, NoHandler, FromClient, Committing

LEMMA IdlesBacked ==
  ASSUME \A u \in Threads : op'[u] = NoHandler
  PROVE  \A u \in Threads : HandlerBacked(op[u])'
BY IdleBacked

(* A store that is left alone backs the same handlers.                     *)
LEMMA BackedStays ==
  ASSUME UNCHANGED <<states, head, jobs, frames, evidence, proposals, events>>,
         NEW h, HandlerBacked(h)
  PROVE  HandlerBacked(h)'
<1>1. /\ states' = states /\ jobs' = jobs /\ frames' = frames
      /\ evidence' = evidence /\ proposals' = proposals /\ events' = events
      /\ head' = head
  OBVIOUS
<1>2. /\ \A s : HasFrame(s)' = HasFrame(s) /\ HasJob(s)' = HasJob(s)
      /\ \A s : Sourced(s)' = Sourced(s)
      /\ EventLogged(h.id)' = EventLogged(h.id)
      /\ VerdictFrame(h)' = VerdictFrame(h)
  BY <1>1 DEF HasFrame, HasJob, Sourced, EventLogged, VerdictFrame
<1>3. QED
  BY <1>1, <1>2 DEF HandlerBacked, FromClient, Committing

(* A handler that enters with its own facts keeps them, and so do the rest.*)
LEMMA EnterBacked ==
  ASSUME IInv, NEW t \in Threads, NEW h \in Handlers, Enter(t, h),
         HandlerBacked(h)
  PROVE  \A u \in Threads : HandlerBacked(op[u])'
<1>1. lock = None /\ UNCHANGED store
  BY DEF Enter, Acquire
<1>2. op'[t] = h /\ \A u \in Threads \ {t} : op'[u] = NoHandler
  BY <1>1 DEF Enter, IInv, TypeOK, ServingInv, MutualExclusion
<1>3. HandlerBacked(h)'
  BY <1>1, BackedStays DEF store
<1>4. QED
  BY <1>2, <1>3, IdleBacked

(* A step that ends in Advance: what it has written, it has on disk.       *)
LEMMA AdvanceBacked ==
  ASSUME IInv, NEW t \in Threads, HandlerBacked(op[t]),
         op[t].step \notin {"idle", "state"}, Advance(t), StoreGrows,
         states' = states, TypeOK',
         op[t].step = "observe" => op[t].key \in evidence',
         op[t].step = "propose" => op[t].key \in proposals',
         op[t].step = "frame" => op[t].next.frame \in frames',
         NEW id, id = op[t].id, op[t].step = "append" => EventLogged(id)',
         IF op[t].step = "job" THEN op[t].key \in DOMAIN jobs'
                               ELSE jobs' = jobs
  PROVE  \A u \in Threads : HandlerBacked(op[u])'
<1> PICK h : h = op[t]
  OBVIOUS
<1> PICK next : next = After(h.kind, h.step)
  OBVIOUS
<1> PICK g : g = [h EXCEPT !.step = next]
  OBVIOUS
<1>1. h \in Handlers /\ HandlerBacked(h) /\ HandlerSound(h)
      /\ h.kind \in Kinds \ {"none"}
  BY OwnerActs DEF IInv, TypeOK
<1>2. h.step \in StepsOf(h.kind) /\ h.step \notin {"idle", "state"}
  BY <1>1 DEF HandlerSound
<1>3. CASE next = "done"
  <2>1. \A u \in Threads : op'[u] = NoHandler
    BY <1>3, AdvanceEffect
  <2>2. QED
    BY <2>1, IdlesBacked
<1>4. CASE next # "done"
  <2>1. op'[t] = g /\ \A u \in Threads \ {t} : op'[u] = NoHandler
    BY <1>4, AdvanceEffect
  <2>2. /\ g.step = next /\ g.kind = h.kind /\ g.id = h.id /\ g.key = h.key
        /\ g.from = h.from /\ g.to = h.to /\ g.next = h.next
        /\ g.job = h.job
    BY <1>1, SteppedFields
  <2>3. /\ next \in StepsOf(h.kind)
        /\ next \notin {"idle", "observe", "verdict"}
        /\ h.step \notin {"idle", "plan", "verdict"}
        /\ next = "propose" => h.step = "observe"
        /\ next = "plan" => h.step = "propose"
        /\ next = "frame" => h.step = "ref" /\ h.kind = "boot"
        /\ next = "state" =>
             h.step = "frame" /\ h.kind \in {"interact", "commit", "verify"}
        /\ next = "append" => h.step = "ref" /\ h.kind = "fork"
        /\ next = "job" =>
             h.step = "append" /\ h.kind \in {"interact", "commit"}
        /\ next = "head" =>
             \/ h.step = "job" /\ h.kind \in {"interact", "commit"}
             \/ h.step = "append" /\ h.kind = "verify"
        /\ next = "ref" => h.step = "head" /\ h.kind # "switch"
        /\ next = "memory" =>
             h.step = "ref" /\ h.kind \in {"interact", "commit"}
        /\ next = "deposit" => h.step = "memory" /\ h.kind = "interact"
    BY <1>1, <1>2, <1>4, Predecessor
  <2>4. /\ HasFrame(h.next) => HasFrame(h.next)'
        /\ HasJob(h.next) => HasJob(h.next)'
        /\ HasFrame(states[h.to]) => HasFrame(states[h.to])'
        /\ HasJob(states[h.to]) => HasJob(states[h.to])'
    BY ArtifactsStay
  <2>5. HandlerBacked(g)'
    <3>1. FromClient(g) => g.key = Key(g.key.event, g.from)
                           /\ g.id = ClientId(g.key.event)
      BY <1>1, <2>2 DEF HandlerBacked, FromClient
    <3>2. g.kind = "interact" /\ g.step # "observe" => g.key \in evidence'
      BY <1>1, <2>2 DEF HandlerBacked, StoreGrows
    <3>3. g.kind = "interact" /\ g.step \notin {"observe", "propose"} =>
            g.key \in proposals'
      BY <1>1, <2>2, <2>3 DEF HandlerBacked, StoreGrows, StepsOf, Steps
    <3>4. Committing(g) /\ g.step \in {"frame", "state", "append", "job"} =>
            /\ g.key \notin DOMAIN jobs'
            /\ g.next.status = "queued" => g.next.pending = g.key
      BY <1>1, <2>2, <2>3 DEF HandlerBacked, Committing
    <3>5. Committing(g) /\ g.step = "job" => EventLogged(g.id)'
      BY <2>2, <2>3
    <3>6. Committing(g)
          /\ g.step \in {"state", "append", "job", "head", "ref"} =>
            HasFrame(g.next)'
      BY <1>1, <2>2, <2>3, <2>4 DEF HandlerBacked, Committing, HasFrame
    <3>7. Committing(g) /\ g.step \in {"head", "ref"} => HasJob(g.next)'
      BY <1>1, <2>2, <2>3, <2>4 DEF HandlerBacked, Committing, HasJob
    <3>8. g.kind = "verify" => g.key \in DOMAIN jobs' /\ HasJob(g.next)'
      BY <1>1, <2>2, <2>4 DEF HandlerBacked, StoreGrows
    <3>9. g.kind = "verify" /\ g.step \in {"verdict", "frame", "state"} =>
            jobs'[g.key].state = g.job.state /\ g.next.frame = VerdictFrame(g)'
      <4>1. SUFFICES ASSUME g.kind = "verify", g.step = "state"
                     PROVE  /\ jobs'[g.key].state = g.job.state
                            /\ g.next.frame = VerdictFrame(g)'
        BY <2>2, <2>3
      <4>2. h.kind = "verify" /\ h.step = "frame"
        BY <2>2, <2>3, <4>1
      <4>3. /\ h.key \in DOMAIN jobs /\ jobs[h.key].state = h.job.state
            /\ h.next.frame = VerdictFrame(h)
        BY <1>1, <4>2 DEF HandlerBacked
      <4>4. VerdictFrame(g)' = VerdictFrame(h)
        BY <2>2 DEF VerdictFrame
      <4>5. QED
        BY <2>2, <4>3, <4>4 DEF StoreGrows
    <3>10. g.kind = "verify" /\ g.step \notin {"verdict", "frame"} =>
             HasFrame(g.next)'
      BY <1>1, <2>2, <2>3, <2>4 DEF HandlerBacked, HasFrame
    <3>11. g.kind = "verify" /\ g.step \in {"verdict", "frame"} =>
             g.id.arg = "pass" \/ HasFrame(g.next)'
      BY <2>2, <2>3
    <3>12. g.kind \in {"boot", "fork"} => HasFrame(g.next)' /\ HasJob(g.next)'
      BY <1>1, <2>2, <2>4 DEF HandlerBacked
    <3>13. g.kind = "switch" => HasFrame(states[g.to])' /\ HasJob(states[g.to])'
      BY <1>1, <2>2, <2>4 DEF HandlerBacked
    <3>14. g.kind # "none" /\ g.step \in {"frame", "state"} => Sourced(g.next)'
      <4>1. CASE g.step = "frame"
        BY <1>1, <2>2, <2>3, <4>1 DEF HandlerBacked, Sourced, Genesis
      <4>2. CASE g.step = "state"
        <5>1. /\ h.kind \in {"interact", "commit", "verify"}
              /\ h.step = "frame" /\ Sourced(h.next)
          BY <1>1, <2>2, <2>3, <4>2 DEF HandlerBacked
        <5>2. h.next.parent \in Ids
          BY <1>1, <5>1 DEF HandlerSound, Unlogged
        <5>3. QED
          BY <2>2, <5>1, <5>2, SourceStays
      <4>3. QED
        BY <4>1, <4>2
    <3>16. g.kind = "boot" => g.next = Genesis
      BY <1>1, <2>2 DEF HandlerBacked
    <3>17. g.step # "verdict"
      BY <2>2, <2>3
    <3>15. QED
      BY <3>17, <3>1, <3>2, <3>3, <3>4, <3>5, <3>6, <3>7, <3>8, <3>9, <3>10, <3>11,
         <3>12, <3>13, <3>14, <3>16 DEF HandlerBacked, FromClient, Committing
  <2>6. QED
    BY <2>1, <2>5, IdleBacked
<1>5. QED
  BY <1>3, <1>4

-----------------------------------------------------------------------------
(* The requests enter with what they have on disk. *)

LEMMA PacketBacked ==
  ASSUME IInv, NEW t \in Threads, NEW e \in EventIds, NEW m \in Modes,
         NEW claim, NEW kind \in {"observe", "propose", "interact"},
         ReceivePacket(t, kind, e, m, claim)
  PROVE  \E h \in Handlers : Enter(t, h) /\ HandlerBacked(h)
<1> PICK first \in FirstSteps(kind) :
           Enter(t, [NoHandler EXCEPT !.kind = kind, !.step = first,
                       !.mode = m, !.id = ClientId(e), !.from = head,
                       !.key = Key(e, head)])
  BY DEF ReceivePacket
<1> PICK h : h = [NoHandler EXCEPT !.kind = kind, !.step = first,
                    !.mode = m, !.id = ClientId(e), !.from = head,
                    !.key = Key(e, head)]
  OBVIOUS
<1>1. head \in Nat
  BY DEF IInv, TypeOK
<1>2. Key(e, head) \in Keys /\ ClientId(e) \in LogIds
  BY <1>1, KeyType, ClientIdType
<1>3. h \in Handlers
  BY <1>1, <1>2, NoHandlerType DEF Handlers, Kinds, Steps, FirstSteps
<1>4. Enter(t, h)
  OBVIOUS
<1>5. /\ h.kind = kind /\ h.step = first /\ h.from = head
      /\ h.key = Key(e, head) /\ h.id = ClientId(e)
  BY NoHandlerType DEF Handlers
<1>6. h.key.event = e
  BY <1>5 DEF Key
<1>7. first \in {"observe", "propose"}
      /\ (kind = "interact" => first = "observe")
  BY DEF FirstSteps
<1>8. HandlerBacked(h)
  BY <1>5, <1>6, <1>7 DEF HandlerBacked, FromClient, Committing
<1>9. QED
  BY <1>3, <1>4, <1>8

LEMMA ProposalBacked ==
  ASSUME IInv, NEW t \in Threads, NEW e \in EventIds, NEW m \in Modes,
         NEW parent \in Nat, ReceiveProposal(t, e, m, parent)
  PROVE  \E h \in Handlers : Enter(t, h) /\ HandlerBacked(h)
<1> PICK h : h = [NoHandler EXCEPT !.kind = "commit", !.step = "plan",
                    !.mode = m, !.id = ClientId(e), !.from = head,
                    !.key = Key(e, parent)]
  OBVIOUS
<1>1. head \in Nat
  BY DEF IInv, TypeOK
<1>2. Key(e, parent) \in Keys /\ ClientId(e) \in LogIds
  BY KeyType, ClientIdType
<1>3. h \in Handlers
  BY <1>1, <1>2, NoHandlerType DEF Handlers, Kinds, Steps
<1>4. Enter(t, h) /\ parent = head
  BY DEF ReceiveProposal
<1>5. /\ h.kind = "commit" /\ h.step = "plan" /\ h.from = head
      /\ h.key = Key(e, parent) /\ h.id = ClientId(e)
  BY NoHandlerType DEF Handlers
<1>6. h.key.event = e
  BY <1>5 DEF Key
<1>7. HandlerBacked(h)
  BY <1>4, <1>5, <1>6 DEF HandlerBacked, FromClient, Committing
<1>8. QED
  BY <1>3, <1>4, <1>7

(* The current state of a serving engine is referenced. *)
LEMMA CurrentBacked ==
  ASSUME IInv, phase = "serving", ReferencedArtifactsExist
  PROVE  HasFrame(current) /\ HasJob(current)
<1>1. head \in Referenced
  BY ServingReads DEF Referenced, IInv, ServingInv
<1>2. QED
  BY <1>1 DEF ReferencedArtifactsExist, HasFrame, HasJob, current

(* A fork shows what the current state shows. *)
LEMMA ForkBacked ==
  ASSUME IInv, ReferencedArtifactsExist, NEW t \in Threads,
         NEW b \in Branches, CreateBranch(t, b)
  PROVE  \E h \in Handlers : Enter(t, h) /\ HandlerBacked(h)
<1> PICK next : next = [current EXCEPT !.parent = head, !.branch = b]
  OBVIOUS
<1> PICK h : h = [NoHandler EXCEPT !.kind = "fork", !.step = "state",
                    !.id = ForkId(b, head), !.from = head,
                    !.index = Len(events) + 1, !.next = next]
  OBVIOUS
<1>1. Enter(t, h) /\ phase = "serving"
  BY DEF CreateBranch, Enter, Acquire
<1>2. head \in Nat /\ Len(events) + 1 \in Nat
  BY DEF IInv, TypeOK
<1>3. current \in StateRecords /\ head \in Ids
  BY <1>1, ServingReads
<1>4. next \in StateRecords
  BY <1>2, <1>3 DEF StateRecords
<1>5. ForkId(b, head) \in LogIds
  BY <1>2, ForkIdType
<1>6. h \in Handlers
  BY <1>2, <1>4, <1>5, NoHandlerType DEF Handlers, Kinds, Steps
<1>7. h.kind = "fork" /\ h.step = "state" /\ h.next = next
  BY NoHandlerType DEF Handlers
<1>8. /\ next.parent = head /\ next.frame = states[head].frame
      /\ next.status = current.status /\ next.pending = current.pending
      /\ next.frame = current.frame /\ next.patched = current.patched
  BY <1>3 DEF StateRecords, current
<1>9. HasFrame(next) /\ HasJob(next)
  BY <1>1, <1>8, CurrentBacked DEF HasFrame, HasJob
<1>10. Sourced(next)
  BY <1>1, <1>8 DEF Sourced, IInv, ServingInv
<1>11. HandlerBacked(h)
  BY <1>7, <1>9, <1>10 DEF HandlerBacked, FromClient, Committing
<1>12. QED
  BY <1>1, <1>6, <1>11

LEMMA SwitchBacked ==
  ASSUME IInv, ReferencedArtifactsExist, NEW t \in Threads,
         NEW b \in Branches, SwitchBranch(t, b)
  PROVE  \E h \in Handlers : Enter(t, h) /\ HandlerBacked(h)
<1> PICK h : h = [NoHandler EXCEPT !.kind = "switch", !.step = "head",
                    !.from = head, !.to = refs[b]]
  OBVIOUS
<1>1. head \in Nat /\ refs[b] \in Nat
  BY DEF IInv, TypeOK
<1>2. h \in Handlers
  BY <1>1, NoHandlerType DEF Handlers, Kinds, Steps
<1>3. Enter(t, h) /\ refs[b] # 0
  BY DEF SwitchBranch
<1>4. h.kind = "switch" /\ h.step = "head" /\ h.to = refs[b]
  BY NoHandlerType DEF Handlers
<1>5. HasFrame(states[h.to]) /\ HasJob(states[h.to])
  <2>1. refs[b] \in Referenced
    BY <1>3 DEF Referenced
  <2>2. QED
    BY <1>4, <2>1 DEF ReferencedArtifactsExist, HasFrame, HasJob
<1>6. HandlerBacked(h)
  BY <1>4, <1>5 DEF HandlerBacked, FromClient, Committing
<1>7. QED
  BY <1>2, <1>3, <1>6

(* A verdict shows a job that exists, and a frame that it is going to save *)
(* or that the current state shows.                                        *)
LEMMA VerdictBacked ==
  ASSUME IInv, ReferencedArtifactsExist, NEW t \in Threads,
         NEW key \in DOMAIN jobs, NEW decision \in Verdicts,
         NEW text \in Texts, VerifyRender(t, key, decision, text)
  PROVE  \E h \in Handlers : Enter(t, h) /\ HandlerBacked(h)
<1> PICK updated : updated = Judged(jobs[key], decision)
  OBVIOUS
<1> PICK next : next = Shown(key, updated, decision, text)
  OBVIOUS
<1> PICK h : h = [NoHandler EXCEPT !.kind = "verify", !.step = "verdict",
                    !.id = VerdictId(key, decision, text),
                    !.from = head, !.index = Len(events) + 1,
                    !.key = key, !.job = updated, !.next = next]
  OBVIOUS
<1>1. Enter(t, h) /\ phase = "serving"
  BY DEF VerifyRender, Enter, Acquire
<1>2. key \in Keys /\ jobs[key] \in JobRecords /\ head \in Nat
      /\ Len(events) + 1 \in Nat
  BY DEF IInv, TypeOK
<1>3. updated \in JobRecords /\ updated.state = jobs[key].state
  <2>1. updated \in JobRecords
    BY <1>2, JudgedType
  <2>2. updated.state = jobs[key].state
    BY <1>2 DEF Judged, JobRecords
  <2>3. QED
    BY <2>1, <2>2
<1>4. next \in StateRecords
  BY <1>1, <1>2, <1>3, ShownType
<1>5. /\ VerdictId(key, decision, text) \in LogIds
      /\ VerdictId(key, decision, text).arg = decision
      /\ VerdictId(key, decision, text).text = text
  BY <1>2, VerdictIdType
<1>6. h \in Handlers
  BY <1>2, <1>3, <1>4, <1>5, NoHandlerType DEF Handlers, Kinds, Steps
<1>7. /\ h.kind = "verify" /\ h.step = "verdict" /\ h.key = key
      /\ h.id = VerdictId(key, decision, text) /\ h.from = head
      /\ h.next = next /\ h.job = updated
  BY NoHandlerType DEF Handlers
<1>8. current \in StateRecords
  BY <1>1, ServingReads
<1>9. /\ next.status = "queued" => next.pending = key
      /\ next.frame = IF decision = "pass"
                      THEN FrameOf("verifier", key, text) ELSE current.frame
      /\ decision # "pass" => next.patched = current.patched
  BY <1>3, <1>8 DEF Shown, StateRecords
<1>10. HasJob(next) /\ (decision = "pass" \/ HasFrame(next))
  BY <1>1, <1>9, CurrentBacked DEF HasJob, HasFrame
<1>11. next.frame = VerdictFrame(h)
  BY <1>5, <1>7, <1>9 DEF VerdictFrame, current
<1>12. HandlerBacked(h)
  BY <1>3, <1>5, <1>7, <1>10, <1>11
  DEF HandlerBacked, FromClient, Committing
<1>13. QED
  BY <1>1, <1>6, <1>12

LEMMA ReceiveBacked ==
  ASSUME IInv, ReferencedArtifactsExist, NEW t \in Threads, Receive(t)
  PROVE  \E h \in Handlers : Enter(t, h) /\ HandlerBacked(h)
<1>1. ASSUME NEW e \in EventIds, NEW m \in Modes,
             NEW claim \in 0 .. Len(states),
             NEW kind \in {"observe", "propose", "interact"},
             ReceivePacket(t, kind, e, m, claim)
      PROVE  \E h \in Handlers : Enter(t, h) /\ HandlerBacked(h)
  BY <1>1, PacketBacked
<1>2. ASSUME NEW e \in EventIds, NEW m \in Modes, NEW parent \in Ids,
             ReceiveProposal(t, e, m, parent)
      PROVE  \E h \in Handlers : Enter(t, h) /\ HandlerBacked(h)
  <2>1. parent \in Nat
    BY <1>2 DEF Ids
  <2>2. QED
    BY <1>2, <2>1, ProposalBacked
<1>3. ASSUME NEW b \in Branches, CreateBranch(t, b)
      PROVE  \E h \in Handlers : Enter(t, h) /\ HandlerBacked(h)
  BY <1>3, ForkBacked
<1>4. ASSUME NEW b \in Branches, SwitchBranch(t, b)
      PROVE  \E h \in Handlers : Enter(t, h) /\ HandlerBacked(h)
  BY <1>4, SwitchBacked
<1>5. ASSUME NEW key \in DOMAIN jobs, NEW decision \in Verdicts,
             NEW text \in Texts, VerifyRender(t, key, decision, text)
      PROVE  \E h \in Handlers : Enter(t, h) /\ HandlerBacked(h)
  BY <1>5, VerdictBacked
<1>6. QED
  BY <1>1, <1>2, <1>3, <1>4, <1>5 DEF Receive

-----------------------------------------------------------------------------
(* Every step of a handler keeps what the handlers have on disk. *)

(* A handler that returns leaves no handler. *)
LEMMA ReturnEffect ==
  ASSUME IInv, NEW t \in Threads, op[t].step # "idle", Return(t)
  PROVE  \A u \in Threads : op'[u] = NoHandler
BY OwnerActs DEF Return, IInv, TypeOK

(* The plan names the state's job and frame after the commit's own key,    *)
(* which no earlier commit can have used: its event would be in the log.   *)
LEMMA PlanBacked ==
  ASSUME IInv, NEW t \in Threads, HandlerBacked(op[t]), JobsAreLogged,
         ReferencedArtifactsExist, PlanCommit(t)
  PROVE  \A u \in Threads : HandlerBacked(op[u])'
<1> PICK key : key = op[t].key
  OBVIOUS
<1> DEFINE queued == Queued(op[t])
<1>1. /\ op[t].step = "plan" /\ ~EventLogged(op[t].id)
      /\ UNCHANGED store
  BY DEF PlanCommit, At
<1>2. /\ \A u \in Threads \ {t} : op[u] = NoHandler
      /\ HandlerSound(op[t])
      /\ op[t].kind \in Kinds
      /\ op[t] \in Handlers /\ op \in [Threads -> Handlers]
  BY <1>1, OwnerActs DEF IInv, TypeOK
<1>3. /\ op[t].kind \in {"interact", "commit"} /\ phase = "serving"
      /\ op[t].from = head
  BY <1>1, <1>2 DEF HandlerSound, StepsOf, Kinds
<1>4. /\ current \in StateRecords /\ head \in Ids /\ head # 0
  BY <1>3, ServingReads DEF IInv, ServingInv
<1>5. /\ key = Key(key.event, head) /\ op[t].id = ClientId(key.event)
      /\ op[t].kind = "interact" => key \in evidence /\ key \in proposals
  BY <1>1, <1>3 DEF HandlerBacked, FromClient
<1>6. PICK h \in Handlers :
         /\ op' = [op EXCEPT ![t] = h]
         /\ h.kind = op[t].kind /\ h.id = op[t].id
         /\ h.from = op[t].from /\ h.key = op[t].key
         /\ h.step = IF Queued(op[t]) THEN "state" ELSE "frame"
         /\ \E name \in FrameNames(op[t].kind),
               left \in PartsLeft(op[t].kind), text \in Texts :
              h.next = Planned(Patched(name, left), op[t], text)
  BY PlanCommitNext
<1>7. PICK text \in Texts :
         /\ h.next.parent = head /\ h.next.last = key.event
         /\ h.next.status = IF queued THEN "queued" ELSE "verified"
         /\ queued => h.next.pending = key
         /\ queued /\ ~h.next.patched =>
              ~current.patched /\ h.next.frame = current.frame
         /\ ~queued => h.next.frame = FrameOf("native", key, text)
  BY <1>2, <1>3, <1>6, PlannedFields
<1>8. key \notin DOMAIN jobs
  BY <1>1, <1>5 DEF JobsAreLogged
<1>9. queued => HasFrame(h.next)
  BY <1>3, <1>7, CurrentBacked DEF HasFrame
<1>10. Sourced(h.next)
  <2>1. CASE queued /\ ~h.next.patched
    BY <1>4, <1>7, <2>1 DEF Sourced, current
  <2>2. CASE queued /\ h.next.patched
    BY <1>5, <1>7, <2>2 DEF Sourced
  <2>3. CASE ~queued
    <3>1. h.next.frame.made_by = "native" /\ h.next.frame.job = key
      BY <1>7, <2>3 DEF FrameOf
    <3>2. QED
      BY <1>5, <1>7, <3>1 DEF Sourced
  <2>4. QED
    BY <2>1, <2>2, <2>3
<1>11. /\ h.kind = op[t].kind /\ h.id = op[t].id /\ h.from = head
       /\ h.key = key
       /\ h.step = IF queued THEN "state" ELSE "frame"
  BY <1>3, <1>6
<1>12. HandlerBacked(h)
  BY <1>3, <1>5, <1>7, <1>8, <1>9, <1>10, <1>11
  DEF HandlerBacked, FromClient, Committing
<1>13. HandlerBacked(h)'
  BY <1>1, <1>12, BackedStays DEF store
<1>14. op'[t] = h /\ \A u \in Threads \ {t} : op'[u] = NoHandler
  BY <1>2, <1>6
<1>15. QED
  BY <1>13, <1>14, IdleBacked

(* A verdict that is shown is shown on the state its job was built for.    *)
LEMMA VerdictStepBacked ==
  ASSUME IInv, NEW t \in Threads, HandlerBacked(op[t]), SaveVerdict(t),
         StoreGrows
  PROVE  \A u \in Threads : HandlerBacked(op[u])'
<1> PICK h : h = op[t]
  OBVIOUS
<1>1. h.step = "verdict"
  BY DEF SaveVerdict, At
<1>2. /\ \A u \in Threads \ {t} : op[u] = NoHandler
      /\ HandlerSound(h) /\ HandlerBacked(h)
      /\ h.kind \in Kinds
      /\ h \in Handlers /\ op \in [Threads -> Handlers]
  BY <1>1, OwnerActs DEF IInv, TypeOK
<1>3. h.kind = "verify"
  BY <1>1, <1>2 DEF HandlerSound, StepsOf, Kinds, Steps
<1>4. /\ jobs' = [jobs EXCEPT ![h.key] = h.job]
      /\ states' = states
  BY DEF SaveVerdict
<1>5. CASE ~(head = h.job.state /\ "node.renderer" \in current.parts)
  <2>1. Return(t)
    BY <1>5 DEF SaveVerdict
  <2>2. QED
    BY <1>1, <2>1, ReturnEffect, IdlesBacked
<1>6. CASE head = h.job.state /\ "node.renderer" \in current.parts
  <2> PICK step : step = IF h.id.arg = "pass" THEN "frame" ELSE "state"
    OBVIOUS
  <2> PICK g : g = [h EXCEPT !.step = step]
    OBVIOUS
  <2>1. op' = [op EXCEPT ![t] = g]
    BY <1>6 DEF SaveVerdict
  <2>2. /\ g.step = step /\ g.kind = h.kind /\ g.id = h.id /\ g.key = h.key
        /\ g.from = h.from /\ g.next = h.next /\ g.job = h.job
    BY <1>2, SteppedFields
  <2>3. /\ h.key \in DOMAIN jobs /\ HasJob(h.next)
        /\ jobs[h.key].state = h.job.state
        /\ h.next.frame = VerdictFrame(h)
        /\ h.id.arg = "pass" \/ HasFrame(h.next)
    BY <1>1, <1>2, <1>3 DEF HandlerBacked
  <2>4. /\ h.from \in Ids /\ h.from = head /\ h.next.parent = h.from
        /\ head # 0
    BY <1>1, <1>2, <1>3
    DEF HandlerBacked, HandlerSound, Unlogged, IInv, ServingInv
  <2>5. /\ h.key \in DOMAIN jobs' /\ jobs'[h.key].state = h.job.state
    BY <2>3 DEF StoreGrows
  <2>6. Sourced(h.next)'
    <3>1. CASE h.id.arg = "pass"
      <4>1. h.next.frame.made_by = "verifier" /\ h.next.frame.job = h.key
        BY <2>3, <3>1 DEF VerdictFrame, FrameOf
      <4>2. QED
        BY <1>6, <2>4, <2>5, <4>1 DEF Sourced
    <3>2. CASE h.id.arg # "pass"
      BY <1>4, <2>3, <2>4, <3>2 DEF VerdictFrame, Sourced
    <3>3. QED
      BY <3>1, <3>2
  <2>7. HasJob(h.next)' /\ (h.id.arg = "pass" \/ HasFrame(h.next)')
    BY <2>3, ArtifactsStay
  <2>8. VerdictFrame(g)' = VerdictFrame(h)
    BY <1>4, <2>2 DEF VerdictFrame
  <2>9. h.id.arg = "pass" => step = "frame"
    OBVIOUS
  <2>10. step \in {"frame", "state"}
    OBVIOUS
  <2>11. HandlerBacked(g)'
    BY <1>3, <2>2, <2>3, <2>5, <2>6, <2>7, <2>8, <2>9, <2>10
    DEF HandlerBacked, FromClient, Committing
  <2>12. op'[t] = g /\ \A u \in Threads \ {t} : op'[u] = NoHandler
    BY <1>2, <2>1
  <2>13. QED
    BY <2>11, <2>12, IdleBacked
<1>7. QED
  BY <1>5, <1>6

(* A saved state changes nothing of what its handler has on disk.          *)
LEMMA SaveStateBacked ==
  ASSUME IInv, NEW t \in Threads, HandlerBacked(op[t]), SaveState(t),
         StoreGrows
  PROVE  \A u \in Threads : HandlerBacked(op[u])'
<1> PICK h : h = op[t]
  OBVIOUS
<1>1. h.step = "state"
  BY DEF SaveState, At
<1>2. /\ \A u \in Threads \ {t} : op[u] = NoHandler
      /\ HandlerSound(h) /\ HandlerBacked(h)
      /\ h.kind \in Kinds \ {"none"}
      /\ op \in [Threads -> Handlers]
  BY <1>1, OwnerActs DEF IInv, TypeOK
<1>3. h.kind \in {"boot", "interact", "commit", "verify", "fork"}
  BY <1>1, <1>2 DEF HandlerSound, StepsOf, Kinds
<1>4. PICK g \in Handlers :
         /\ op' = [op EXCEPT ![t] = g]
         /\ g.kind = h.kind /\ g.id = h.id
         /\ g.from = h.from /\ g.next = h.next /\ g.key = h.key
         /\ g.step = IF g.kind \in {"boot", "fork"} THEN "head" ELSE "append"
  BY SaveStateNext
<1>5. /\ jobs' = jobs /\ evidence' = evidence /\ proposals' = proposals
  BY DEF SaveState
<1>6. /\ HasFrame(h.next) => HasFrame(h.next)'
      /\ HasJob(h.next) => HasJob(h.next)'
  BY ArtifactsStay
<1>7. HandlerBacked(g)'
  BY <1>1, <1>2, <1>3, <1>4, <1>5, <1>6
  DEF HandlerBacked, FromClient, Committing
<1>8. op'[t] = g /\ \A u \in Threads \ {t} : op'[u] = NoHandler
  BY <1>2, <1>4
<1>9. QED
  BY <1>7, <1>8, IdleBacked

(* One case per step. *)
LEMMA StepBacked ==
  ASSUME IInv, IInv', NEW t \in Threads, HandlerBacked(op[t]),
         JobsAreLogged, ReferencedArtifactsExist, StoreGrows, Step(t)
  PROVE  \A u \in Threads : HandlerBacked(op[u])'
<1>0. TypeOK /\ TypeOK'
  BY DEF IInv
<1>1. PICK id : id = op[t].id
  OBVIOUS
<1>2. CASE SaveEvidence(t)
  BY <1>0, <1>1, <1>2, AdvanceBacked DEF SaveEvidence, At
<1>3. CASE SaveProposal(t)
  BY <1>0, <1>1, <1>3, AdvanceBacked DEF SaveProposal, At
<1>4. CASE PlanCommit(t)
  BY <1>4, PlanBacked
<1>5. CASE SaveVerdict(t)
  BY <1>5, VerdictStepBacked
<1>6. CASE SaveFrame(t)
  BY <1>0, <1>1, <1>6, AdvanceBacked DEF SaveFrame, At
<1>7. CASE SaveState(t)
  BY <1>7, SaveStateBacked
<1>8. CASE AppendEvent(t)
  <2>1. events' = Append(events, NewEvent(t)) /\ op[t].step = "append"
    BY <1>8 DEF AppendEvent, At
  <2>2. NewEvent(t) \in EventRecords /\ events \in Seq(EventRecords)
        /\ NewEvent(t).id = id
    BY <1>0, <1>1, NewEventType DEF TypeOK, NewEvent
  <2>3. /\ Len(events) + 1 \in 1 .. Len(events')
        /\ events'[Len(events) + 1].id = id
    BY <2>1, <2>2
  <2>4. EventLogged(id)'
    BY <2>3 DEF EventLogged
  <2>5. QED
    BY <1>0, <1>1, <1>8, <2>1, <2>4, AdvanceBacked DEF AppendEvent
<1>9. CASE SaveRenderJob(t)
  <2>1. op[t].key \in DOMAIN jobs'
    BY <1>9 DEF SaveRenderJob
  <2>2. QED
    BY <1>0, <1>1, <1>9, <2>1, AdvanceBacked DEF SaveRenderJob, At
<1>10. CASE SetHead(t) \/ SetBranchRef(t) \/ SaveMemory(t) \/ Deposit(t)
  BY <1>0, <1>1, <1>10, AdvanceBacked
  DEF SetHead, SetBranchRef, SaveMemory, Deposit, At
<1>11. CASE \/ RejectPatch(t) \/ RefuseDuplicate(t) \/ ReadTornLog(t)
            \/ FrameCollision(t)
  <2>1. Return(t) /\ op[t].step # "idle"
    BY <1>11
    DEF RejectPatch, RefuseDuplicate, ReadTornLog, FrameCollision, At,
        NextReadsLog
  <2>2. QED
    BY <2>1, ReturnEffect, IdlesBacked
<1>12. QED
  BY <1>2, <1>3, <1>4, <1>5, <1>6, <1>7, <1>8, <1>9, <1>10, <1>11 DEF Step

-----------------------------------------------------------------------------
(* What the files owe one another. *)

(* A job is saved behind the event of its commit.                          *)
LEMMA JobsStayLogged ==
  ASSUME IInv, IInv', \A t \in Threads : HandlerBacked(op[t]),
         JobsAreLogged, StoreGrows, [Next]_vars
  PROVE  JobsAreLogged'
<1>0. TypeOK /\ TypeOK'
  BY DEF IInv
<1>1. CASE DOMAIN jobs' = DOMAIN jobs
  BY <1>0, <1>1, LoggedStays DEF JobsAreLogged
<1>2. ASSUME NEW t \in Threads, SaveRenderJob(t)
      PROVE  JobsAreLogged'
  <2>1. op[t].step = "job"
    BY <1>2 DEF SaveRenderJob, At
  <2>2. HandlerSound(op[t]) /\ op[t].kind \in Kinds
    BY <2>1, OwnerActs
  <2>3. op[t].kind \in {"interact", "commit"}
    BY <2>1, <2>2 DEF HandlerSound, StepsOf, Kinds
  <2>4. EventLogged(ClientId(op[t].key.event))
    BY <2>1, <2>3 DEF HandlerBacked, FromClient, Committing
  <2>5. DOMAIN jobs' = DOMAIN jobs \cup {op[t].key}
    BY <1>2 DEF SaveRenderJob
  <2>6. \A k \in DOMAIN jobs' : EventLogged(ClientId(k.event))
    BY <2>4, <2>5 DEF JobsAreLogged
  <2>7. QED
    BY <1>0, <2>6, LoggedStays DEF JobsAreLogged
<1>3. ASSUME NEW t \in Threads, Step(t), ~SaveRenderJob(t)
      PROVE  DOMAIN jobs' = DOMAIN jobs
  BY <1>3
  DEF Step, store, SaveEvidence, SaveProposal, RejectPatch, PlanCommit,
      RefuseDuplicate, ReadTornLog, SaveVerdict, SaveFrame, FrameCollision,
      SaveState, AppendEvent, SetHead, SetBranchRef, SaveMemory, Deposit
<1>4. ASSUME NEW t \in Threads, Start(t) \/ Receive(t)
      PROVE  DOMAIN jobs' = DOMAIN jobs
  BY <1>4, ReceiveEnters DEF Start, Enter, store
<1>5. CASE Crash \/ UNCHANGED vars
  BY <1>1, <1>5 DEF Crash, vars, store
<1>6. QED
  BY <1>1, <1>2, <1>3, <1>4, <1>5 DEF Next

(* The state that a handler is going to save hangs on a saved one.         *)
LEMMA NextParent ==
  ASSUME IInv, NEW t \in Threads, op[t].step = "state", HandlerBacked(op[t])
  PROVE  /\ op[t].next.parent \in Ids \/ op[t].next = Genesis
         /\ Sourced(op[t].next)
         /\ op[t].next \in StateRecords
<1>1. /\ HandlerSound(op[t]) /\ op[t].kind \in Kinds \ {"none"}
      /\ op[t] \in Handlers
  BY OwnerActs DEF IInv, TypeOK
<1>2. op[t].kind \in {"boot", "interact", "commit", "verify", "fork"}
  BY <1>1 DEF HandlerSound, StepsOf, Kinds
<1>3. op[t].kind = "boot" => op[t].next = Genesis
  BY DEF HandlerBacked
<1>4. op[t].kind # "boot" => op[t].next.parent \in Ids
  BY <1>1, <1>2 DEF HandlerSound, Unlogged
<1>5. QED
  BY <1>1, <1>2, <1>3, <1>4 DEF HandlerBacked, Handlers

(* States, parents and frames: only SaveState adds one.                    *)
LEMMA StatesStaySourced ==
  ASSUME IInv, IInv', \A t \in Threads : HandlerBacked(op[t]), StoreGrows,
         ParentsAreOlder, FramesAreSourced, [Next]_vars
  PROVE  ParentsAreOlder' /\ FramesAreSourced'
<1>0. /\ states \in Seq(StateRecords) /\ Len(states) \in Nat
      /\ \A i \in Ids : states[i] \in StateRecords
  BY DEF IInv, TypeOK, Ids
<1>1. \A i \in Ids : Sourced(states[i])'
  <2>1. SUFFICES ASSUME NEW i \in Ids
                 PROVE  Sourced(states[i])'
    OBVIOUS
  <2>2. PICK s : s = states[i]
    OBVIOUS
  <2>3. s.parent # 0 => s.parent \in Ids
    BY <1>0, <2>2 DEF ParentsAreOlder, Ids
  <2>4. Sourced(s)'
    BY <2>2, <2>3, SourceStays DEF FramesAreSourced
  <2>5. states'[i] = s
    BY <2>2 DEF StoreGrows
  <2>6. QED
    BY <2>4, <2>5
<1>2. CASE states' = states
  BY <1>1, <1>2 DEF ParentsAreOlder, FramesAreSourced, Ids
<1>3. ASSUME NEW t \in Threads, SaveState(t)
      PROVE  ParentsAreOlder' /\ FramesAreSourced'
  <2> PICK next : next = op[t].next
    OBVIOUS
  <2>1. op[t].step = "state"
    BY <1>3 DEF SaveState, At
  <2>2. /\ next.parent \in Ids \/ next = Genesis
        /\ Sourced(next)
        /\ next \in StateRecords
    BY <2>1, NextParent
  <2>3. CASE Saved(next)
    BY <1>2, <1>3, <2>3 DEF SaveState
  <2>4. CASE ~Saved(next)
    <3>1. states' = Append(states, next)
      BY <1>3, <2>4 DEF SaveState
    <3>2. /\ Ids' = Ids \cup {Len(states) + 1}
          /\ \A i \in Ids : states'[i] = states[i]
          /\ states'[Len(states) + 1] = next
      BY <1>0, <2>2, <3>1 DEF Ids
    <3>3. next.parent \in 0 .. Len(states)
      BY <1>0, <2>2 DEF Ids, Genesis
    <3>4. next.parent # 0 => next.parent \in Ids
      BY <1>0, <3>3 DEF Ids
    <3>5. Sourced(next)'
      BY <2>2, <3>4, SourceStays
    <3>6. FramesAreSourced'
      BY <1>1, <3>2, <3>5 DEF FramesAreSourced
    <3>7. ParentsAreOlder'
      <4>1. SUFFICES ASSUME NEW i \in Ids'
                     PROVE  states'[i].parent \in 0 .. i - 1
        BY DEF ParentsAreOlder
      <4>2. CASE i \in Ids
        BY <3>2, <4>2 DEF ParentsAreOlder
      <4>3. CASE i = Len(states) + 1
        BY <1>0, <3>2, <3>3, <4>3
      <4>4. QED
        BY <3>2, <4>2, <4>3
    <3>8. QED
      BY <3>6, <3>7
  <2>5. QED
    BY <2>3, <2>4
<1>4. ASSUME NEW t \in Threads, Step(t), ~SaveState(t)
      PROVE  states' = states
  BY <1>4
  DEF Step, store, SaveEvidence, SaveProposal, RejectPatch, PlanCommit,
      RefuseDuplicate, ReadTornLog, SaveVerdict, SaveFrame, FrameCollision,
      SaveRenderJob, AppendEvent, SetHead, SetBranchRef, SaveMemory, Deposit
<1>5. ASSUME NEW t \in Threads, Start(t) \/ Receive(t)
      PROVE  states' = states
  BY <1>5, ReceiveEnters DEF Start, Enter, store
<1>6. CASE Crash \/ UNCHANGED vars
  BY <1>2, <1>6 DEF Crash, vars, store
<1>7. QED
  BY <1>2, <1>3, <1>4, <1>5, <1>6 DEF Next

(* A ref moves to a state whose job and frame are on disk.                 *)
LEMMA RefsStayBacked ==
  ASSUME IInv, IInv', \A t \in Threads : HandlerBacked(op[t]), StoreGrows,
         ReferencedArtifactsExist, [Next]_vars
  PROVE  ReferencedArtifactsExist'
<1>1. ASSUME NEW i \in Referenced
      PROVE  HasFrame(states[i])' /\ HasJob(states[i])'
  <2>1. i \in Ids
    BY <1>1 DEF Referenced, IInv, RefsNameSavedStates
  <2>2. PICK s : s = states[i]
    OBVIOUS
  <2>3. HasFrame(s) /\ HasJob(s)
    BY <1>1, <2>2 DEF ReferencedArtifactsExist, HasFrame, HasJob
  <2>4. HasFrame(s)' /\ HasJob(s)'
    BY <2>3, ArtifactsStay
  <2>5. states'[i] = s
    BY <2>1, <2>2 DEF StoreGrows
  <2>6. QED
    BY <2>4, <2>5
<1>2. CASE UNCHANGED <<head, refs>>
  BY <1>1, <1>2 DEF ReferencedArtifactsExist, Referenced, HasFrame, HasJob
<1>3. ASSUME NEW t \in Threads, SetHead(t) \/ SetBranchRef(t)
      PROVE  ReferencedArtifactsExist'
  <2> PICK to : to = op[t].to
    OBVIOUS
  <2> PICK h : h = op[t]
    OBVIOUS
  <2>1. h.step \in {"head", "ref"} /\ to \in Ids
    BY <1>3 DEF SetHead, SetBranchRef, At
  <2>2. HandlerSound(h) /\ h.kind \in Kinds \ {"none"} /\ HandlerBacked(h)
    BY <2>1, OwnerActs
  <2>3. h.kind \in {"boot", "interact", "commit", "verify", "fork", "switch"}
    BY <2>1, <2>2 DEF HandlerSound, StepsOf, Kinds
  <2>4. PICK s : s = states[to]
    OBVIOUS
  <2>5. HasFrame(s) /\ HasJob(s)
    <3>1. CASE h.kind = "switch"
      BY <2>2, <2>4, <3>1 DEF HandlerBacked
    <3>2. CASE h.kind # "switch"
      <4>1. s = h.next
        BY <2>1, <2>2, <2>4, <3>2 DEF HandlerSound, Wrote
      <4>2. HasFrame(h.next) /\ HasJob(h.next)
        BY <2>1, <2>2, <2>3, <3>2 DEF HandlerBacked, Committing
      <4>3. QED
        BY <4>1, <4>2
    <3>3. QED
      BY <3>1, <3>2
  <2>6. HasFrame(s)' /\ HasJob(s)'
    BY <2>5, ArtifactsStay
  <2>7. states'[to] = s
    BY <2>1, <2>4 DEF StoreGrows
  <2>8. Referenced' \subseteq Referenced \cup {to}
    <3>1. refs \in [Branches -> Nat]
      BY DEF IInv, TypeOK
    <3>2. QED
      BY <1>3, <3>1 DEF SetHead, SetBranchRef, Referenced
  <2>9. QED
    BY <1>1, <2>6, <2>7, <2>8
    DEF ReferencedArtifactsExist, HasFrame, HasJob
<1>4. ASSUME NEW t \in Threads, Step(t), ~SetHead(t), ~SetBranchRef(t)
      PROVE  UNCHANGED <<head, refs>>
  BY <1>4
  DEF Step, store, SaveEvidence, SaveProposal, RejectPatch, PlanCommit,
      RefuseDuplicate, ReadTornLog, SaveVerdict, SaveFrame, FrameCollision,
      SaveState, SaveRenderJob, AppendEvent, SaveMemory, Deposit
<1>5. ASSUME NEW t \in Threads, Start(t) \/ Receive(t)
      PROVE  UNCHANGED <<head, refs>>
  BY <1>5, ReceiveEnters DEF Start, Enter, store
<1>6. CASE Crash \/ UNCHANGED vars
  BY <1>2, <1>6 DEF Crash, vars, store
<1>7. QED
  BY <1>2, <1>3, <1>4, <1>5, <1>6 DEF Next

(* The log is left alone but for the appends of handlers.                  *)
LEMMA LogSteps ==
  ASSUME IInv, [Next]_vars
  PROVE  \/ UNCHANGED events
         \/ \E t \in Threads : /\ op[t].step = "append"
                               /\ events' = Append(events, NewEvent(t))
<1>1. CASE Crash
  BY <1>1, CrashLog
<1>2. ASSUME NEW t \in Threads, Start(t) \/ Receive(t)
      PROVE  UNCHANGED events
  BY <1>2, ReceiveEnters DEF Start, Enter, store
<1>3. ASSUME NEW t \in Threads, AppendEvent(t)
      PROVE  op[t].step = "append" /\ events' = Append(events, NewEvent(t))
  BY <1>3 DEF AppendEvent, At
<1>4. ASSUME NEW t \in Threads, Step(t), ~AppendEvent(t)
      PROVE  UNCHANGED events
  BY <1>4
  DEF Step, store, SaveEvidence, SaveProposal, RejectPatch, PlanCommit,
      RefuseDuplicate, ReadTornLog, SaveVerdict, SaveFrame, FrameCollision,
      SaveState, SaveRenderJob, SetHead, SetBranchRef, SaveMemory, Deposit
<1>5. CASE UNCHANGED vars
  BY <1>5 DEF vars, store
<1>6. QED
  BY <1>1, <1>2, <1>3, <1>4, <1>5 DEF Next

LEMMA ClientIdEvent == \A e : ClientId(e).key.event = e
BY DEF ClientId, LogId, Key

(* An interaction is logged behind its observation and its proposal, also  *)
(* when the process is killed in the middle of the line.                   *)
LEMMA InteractionsStayBacked ==
  ASSUME IInv, \A t \in Threads : HandlerBacked(op[t]), StoreGrows,
         InteractionsBacked, [Next]_vars
  PROVE  InteractionsBacked'
<1>1. CASE UNCHANGED events
  BY <1>1 DEF InteractionsBacked, StoreGrows
<1>2. ASSUME NEW t \in Threads, op[t].step = "append",
             events' = Append(events, NewEvent(t))
      PROVE  InteractionsBacked'
  <2> PICK h : h = op[t]
    OBVIOUS
  <2> PICK e : e = NewEvent(t)
    OBVIOUS
  <2>1. e.kind = h.kind /\ e.id = h.id /\ e.parent = h.from
    BY DEF NewEvent
  <2>2. h.kind = "interact" =>
          /\ h.key = Key(h.key.event, h.from)
          /\ h.id = ClientId(h.key.event)
          /\ h.key \in evidence \cap proposals
    BY <1>2 DEF HandlerBacked, FromClient
  <2>3. e.kind = "interact" =>
          Key(e.id.key.event, e.parent) \in evidence \cap proposals
    BY <2>1, <2>2, ClientIdEvent
  <2>4. events \in Seq(EventRecords) /\ e \in EventRecords
    BY NewEventType DEF IInv, TypeOK
  <2>5. /\ Len(events') = Len(events) + 1 /\ Len(events) \in Nat
        /\ events'[Len(events) + 1] = e
        /\ \A i \in 1 .. Len(events) : events'[i] = events[i]
    BY <1>2, <2>4
  <2>6. SUFFICES ASSUME NEW i \in 1 .. Len(events'),
                        events'[i].kind = "interact"
                 PROVE  Key(events'[i].id.key.event, events'[i].parent)
                          \in evidence' \cap proposals'
    BY DEF InteractionsBacked
  <2>7. CASE i \in 1 .. Len(events)
    BY <2>5, <2>6, <2>7 DEF InteractionsBacked, StoreGrows
  <2>8. CASE i = Len(events) + 1
    BY <2>3, <2>5, <2>6, <2>8 DEF StoreGrows
  <2>9. QED
    BY <2>5, <2>6, <2>7, <2>8
<1>3. QED
  BY <1>1, <1>2, LogSteps

(* A handler that appends a commit's event passes through the steps up to  *)
(* its memory; nothing but a kill takes it off them.                       *)
LEMMA RememberingStays ==
  ASSUME IInv, NEW t \in Threads, NEW u \in Threads, NEW i,
         Remembering(op[u], i), Step(t)
  PROVE  i \in memories' \/ Remembering(op[t], i)'
<1>1. op[u].step # "idle" /\ op[u] # NoHandler
  BY DEF Remembering, NoHandler
<1>2. op[t].step # "idle"
  BY DEF Step, At, SaveEvidence, SaveProposal, RejectPatch, PlanCommit,
     RefuseDuplicate, ReadTornLog, NextReadsLog, SaveVerdict, SaveFrame,
     FrameCollision, SaveState,
     AppendEvent, SaveRenderJob, SetHead, SetBranchRef, SaveMemory, Deposit
<1>3. u = t
  BY <1>1, <1>2, OwnerActs
<1> PICK h : h = op[t]
  OBVIOUS
<1>4. /\ h \in Handlers /\ h.kind \in {"interact", "commit"}
      /\ h.step \in {"job", "head", "ref", "memory"}
      /\ h.index = i
  BY <1>3 DEF Remembering, Committing, IInv, TypeOK
<1>5. CASE h.step = "memory"
  <2>1. SaveMemory(t)
    BY <1>4, <1>5
    DEF Step, SaveEvidence, SaveProposal, RejectPatch, PlanCommit,
        RefuseDuplicate, ReadTornLog, NextReadsLog, SaveVerdict, SaveFrame,
        FrameCollision, SaveState, AppendEvent, SaveRenderJob, SetHead,
        SetBranchRef, Deposit, At
  <2>2. QED
    BY <1>4, <2>1 DEF SaveMemory
<1>6. CASE h.step \in {"job", "head", "ref"}
  <2>1. SaveRenderJob(t) \/ SetHead(t) \/ SetBranchRef(t)
    BY <1>4, <1>6
    DEF Step, SaveEvidence, SaveProposal, RejectPatch, PlanCommit,
        RefuseDuplicate, ReadTornLog, NextReadsLog, SaveVerdict, SaveFrame,
        FrameCollision, SaveState, AppendEvent, SaveMemory, Deposit, At
  <2>2. Advance(t)
    BY <2>1 DEF SaveRenderJob, SetHead, SetBranchRef
  <2>3. PICK next : next = After(h.kind, h.step)
    OBVIOUS
  <2>4. next \in {"head", "ref", "memory"}
    BY <1>4, <1>6, <2>3 DEF After
  <2>5. PICK g : g = [h EXCEPT !.step = next]
    OBVIOUS
  <2>6. op'[t] = g
    BY <1>2, <2>2, <2>3, <2>4, <2>5, AdvanceEffect
  <2>7. g.step = next /\ g.kind = h.kind /\ g.index = h.index
    BY <1>4, <2>5, SteppedFields
  <2>8. QED
    BY <1>4, <2>4, <2>6, <2>7 DEF Remembering, Committing
<1>7. QED
  BY <1>4, <1>5, <1>6

LEMMA CommitsStayRemembered ==
  ASSUME IInv, StoreGrows, CommitsRemembered, [Next]_vars
  PROVE  CommitsRemembered'
<1>1. CASE Crash
  <2>1. crashes' # 0
    BY <1>1 DEF Crash, IInv, TypeOK
  <2>2. QED
    BY <2>1 DEF CommitsRemembered
<1>2. CASE UNCHANGED <<events, memories, crashes>>
           /\ \A u \in Threads : op[u] # NoHandler => op'[u] = op[u]
  <2>1. ASSUME NEW u \in Threads, NEW i, Remembering(op[u], i)
        PROVE  Remembering(op[u], i)'
    <3>1. op[u] # NoHandler
      BY <2>1 DEF Remembering, NoHandler
    <3>2. op'[u] = op[u]
      BY <1>2, <3>1
    <3>3. QED
      BY <2>1, <3>2 DEF Remembering, Committing
  <2>2. QED
    BY <1>2, <2>1 DEF CommitsRemembered
<1>3. ASSUME NEW t \in Threads, Start(t)
      PROVE  CommitsRemembered'
  <2>1. \A u \in Threads : op[u] = NoHandler
    BY <1>3 DEF Start, IInv, ServingInv, MutualExclusion
  <2>2. QED
    BY <1>2, <1>3, <2>1 DEF Start, store
<1>4. ASSUME NEW t \in Threads, Receive(t)
      PROVE  CommitsRemembered'
  <2>1. PICK h \in Handlers : Enter(t, h)
    BY <1>4, ReceiveEnters
  <2>2. \A u \in Threads : op[u] = NoHandler
    BY <2>1 DEF Enter, Acquire, IInv, ServingInv, MutualExclusion
  <2>3. QED
    BY <1>2, <2>1, <2>2 DEF Enter, store
<1>5. ASSUME NEW t \in Threads, Step(t)
      PROVE  CommitsRemembered'
  <2>0. crashes' = crashes
    BY <1>5
    DEF Step, SaveEvidence, SaveProposal, RejectPatch, PlanCommit,
        RefuseDuplicate, ReadTornLog, SaveVerdict, SaveFrame, FrameCollision,
        SaveState, AppendEvent, SaveRenderJob, SetHead, SetBranchRef,
        SaveMemory, Deposit
  <2>1. SUFFICES ASSUME crashes = 0, NEW i \in 1 .. Len(events'),
                        events'[i].kind \in {"interact", "commit"}
                 PROVE  i \in memories' \/ Remembering(op[t], i)'
    BY <2>0 DEF CommitsRemembered
  <2>2. CASE i \in 1 .. Len(events)
    <3>1. events[i].kind \in {"interact", "commit"}
      BY <2>1, <2>2 DEF StoreGrows
    <3>2. i \in memories \/ \E u \in Threads : Remembering(op[u], i)
      BY <2>1, <2>2, <3>1 DEF CommitsRemembered
    <3>3. QED
      BY <1>5, <3>2, RememberingStays DEF StoreGrows
  <2>3. CASE i \notin 1 .. Len(events)
    <3>1. PICK v \in Threads : /\ op[v].step = "append"
                               /\ events' = Append(events, NewEvent(v))
      BY <2>1, <2>3, LogSteps
    <3>2. op[t].step # "idle"
      BY <1>5
      DEF Step, At, SaveEvidence, SaveProposal, RejectPatch, PlanCommit,
         RefuseDuplicate, ReadTornLog, NextReadsLog, SaveVerdict, SaveFrame,
         FrameCollision, SaveState,
         AppendEvent, SaveRenderJob, SetHead, SetBranchRef, SaveMemory, Deposit
    <3>3. v = t
      BY <3>1, <3>2, OwnerActs DEF NoHandler
    <3> PICK h : h = op[t]
      OBVIOUS
    <3>4. NewEvent(t) \in EventRecords /\ events \in Seq(EventRecords)
          /\ NewEvent(t).kind = h.kind
      BY NewEventType DEF IInv, TypeOK, NewEvent
    <3>5. i = Len(events) + 1 /\ events'[i] = NewEvent(t)
      BY <2>1, <2>3, <3>1, <3>3, <3>4
    <3>6. h.kind \in {"interact", "commit"}
      BY <2>1, <3>4, <3>5
    <3>7. /\ h \in Handlers /\ HandlerSound(h) /\ h.step = "append"
      BY <3>1, <3>3, OwnerActs DEF IInv, TypeOK
    <3>8. h.index = i
      BY <3>5, <3>6, <3>7 DEF HandlerSound, Unlogged
    <3>9. events' # events
      BY <3>4, <3>1, <3>3
    <3>10. Advance(t)
      BY <1>5, <3>7, <3>9
      DEF Step, SaveEvidence, SaveProposal, RejectPatch, PlanCommit,
          RefuseDuplicate, ReadTornLog, NextReadsLog, SaveVerdict, SaveFrame,
          FrameCollision, SaveState, AppendEvent, SaveRenderJob, SetHead,
          SetBranchRef, SaveMemory, Deposit, At, store
    <3>11. PICK next : next = After(h.kind, h.step)
      OBVIOUS
    <3>12. next = "job"
      BY <3>6, <3>7, <3>11 DEF After
    <3>13. PICK g : g = [h EXCEPT !.step = next]
      OBVIOUS
    <3>14. op'[t] = g
      BY <3>2, <3>10, <3>11, <3>12, <3>13, AdvanceEffect
    <3>15. g.step = next /\ g.kind = h.kind /\ g.index = h.index
      BY <3>7, <3>13, SteppedFields
    <3>16. QED
      BY <3>6, <3>8, <3>12, <3>14, <3>15 DEF Remembering, Committing
  <2>4. QED
    BY <2>2, <2>3
<1>6. CASE UNCHANGED vars
  BY <1>2, <1>6 DEF vars, store
<1>7. QED
  BY <1>1, <1>3, <1>4, <1>5, <1>6 DEF Next
-----------------------------------------------------------------------------
(* The invariant is inductive. *)

LEMMA InitBacked == Init => BackedInv
<1> SUFFICES ASSUME Init PROVE BackedInv
  OBVIOUS
<1>1. \A t \in Threads : HandlerBacked(op[t])
  BY IdleBacked DEF Init
<1>2. QED
  BY <1>1
  DEF Init, BackedInv, JobsAreLogged, ParentsAreOlder, FramesAreSourced,
      ReferencedArtifactsExist, Referenced, InteractionsBacked,
      CommitsRemembered, Ids

LEMMA NextBacked ==
  ASSUME IInv, IInv', BackedInv, [Next]_vars
  PROVE  BackedInv'
<1>1. StoreGrows
  BY NextGrows DEF BackedInv
<1>2. \A u \in Threads : HandlerBacked(op[u])'
  <2>1. CASE Crash
    BY <2>1, IdlesBacked DEF Crash
  <2>2. ASSUME NEW t \in Threads, Start(t)
        PROVE  \A u \in Threads : HandlerBacked(op[u])'
    <3>1. \A u \in Threads : op[u] = NoHandler
      BY <2>2 DEF Start, IInv, ServingInv, MutualExclusion
    <3>2. op' = op \/ op' = [op EXCEPT ![t] = [NoHandler EXCEPT
                        !.kind = "boot", !.step = "state", !.next = Genesis]]
      BY <2>2 DEF Start
    <3> PICK h : h = [NoHandler EXCEPT
                        !.kind = "boot", !.step = "state", !.next = Genesis]
      OBVIOUS
    <3>3. h.kind = "boot" /\ h.step = "state" /\ h.next = Genesis
      BY NoHandlerType DEF Handlers
    <3>4. HandlerBacked(h)'
      BY <3>3
      DEF HandlerBacked, FromClient, Committing, HasFrame, HasJob, Sourced,
          Genesis
    <3>5. \A u \in Threads : op'[u] \in {NoHandler, h}
      BY <3>1, <3>2 DEF IInv, TypeOK
    <3>6. QED
      BY <3>4, <3>5, IdleBacked
  <2>3. ASSUME NEW t \in Threads, Receive(t)
        PROVE  \A u \in Threads : HandlerBacked(op[u])'
    BY <2>3, ReceiveBacked, EnterBacked DEF BackedInv
  <2>4. ASSUME NEW t \in Threads, Step(t)
        PROVE  \A u \in Threads : HandlerBacked(op[u])'
    BY <1>1, <2>4, StepBacked DEF BackedInv
  <2>5. CASE UNCHANGED vars
    <3>1. UNCHANGED <<states, head, jobs, frames, evidence, proposals, events,
                      op>>
      BY <2>5 DEF vars, store
    <3>2. ASSUME NEW u \in Threads
          PROVE  HandlerBacked(op[u])'
      <4>1. PICK h : h = op[u]
        OBVIOUS
      <4>2. HandlerBacked(h)'
        BY <3>1, <4>1, BackedStays DEF BackedInv
      <4>3. QED
        BY <3>1, <4>1, <4>2
    <3>3. QED
      BY <3>2
  <2>6. QED
    BY <2>1, <2>2, <2>3, <2>4, <2>5 DEF Next
<1>3. QED
  BY <1>1, <1>2, JobsStayLogged, StatesStaySourced, RefsStayBacked,
     InteractionsStayBacked, CommitsStayRemembered DEF BackedInv

(* BackedInv holds of every reachable state.                               *)
THEOREM Backing == Spec => [](IInv /\ BackedInv)
<1>1. Init => IInv /\ BackedInv
  BY InitInv, InitBacked
<1>2. IInv /\ BackedInv /\ [Next]_vars => (IInv /\ BackedInv)'
  BY NextInv, NextBacked
<1>3. QED
  BY <1>1, <1>2, PTL DEF Spec

(* A ref never shows a state whose render job is not on disk, nor a frame  *)
(* that is not unless the patch of a proposal wrote its name, whatever     *)
(* names patches write and wherever the writes of commits, verdicts, forks *)
(* and switches are cut off by kills (save_frame before save_state,        *)
(* save_render_job before set_ref).                                        *)
THEOREM ArtifactsAlwaysExist == Spec => []ReferencedArtifactsExist
<1>1. BackedInv => ReferencedArtifactsExist
  BY DEF BackedInv
<1>2. QED
  BY <1>1, Backing, PTL

(* Every frame a state shows is the genesis frame, its parent's, its own   *)
(* native one or a candidate made for its parent (verify_candidate); a     *)
(* name of another origin was written by the proposal that queued the      *)
(* state's own render (commit_proposal), and by nothing else.              *)
THEOREM FramesKeepProvenance == Spec => []FrameProvenance
<1>1. BackedInv => FrameProvenance
  BY DEF BackedInv, FramesAreSourced, Sourced, FrameProvenance
<1>2. QED
  BY <1>1, Backing, PTL

(* Every logged interaction has its observation and its proposal on disk,  *)
(* and a process that was not killed has remembered every commit it has    *)
(* returned from (save_evidence, save_proposal, save_memory).              *)
THEOREM EventsAlwaysBacked == Spec => []EventsAreBacked
<1>1. IInv /\ BackedInv => EventsAreBacked
  <2>1. SUFFICES ASSUME IInv, BackedInv, NEW i \in 1 .. Len(events)
                 PROVE  /\ events[i].kind = "interact" =>
                             Key(events[i].id.key.event, events[i].parent)
                               \in evidence \cap proposals
                        /\ crashes = 0 /\ Idle
                           /\ events[i].kind \in {"interact", "commit"} =>
                             i \in memories
    BY DEF EventsAreBacked
  <2>2. Idle => \A t \in Threads : op[t] = NoHandler
    BY <2>1 DEF Idle, IInv, ServingInv, MutualExclusion
  <2>3. \A t \in Threads : op[t] = NoHandler => ~Remembering(op[t], i)
    BY DEF Remembering, NoHandler
  <2>4. QED
    BY <2>1, <2>2, <2>3
    DEF BackedInv, InteractionsBacked, CommitsRemembered
<1>2. QED
  BY <1>1, Backing, PTL
=============================================================================
