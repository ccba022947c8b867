------------------------ MODULE SurfaceHistoryProofs ------------------------
(***************************************************************************)
(* The history of the worlds, for every value of the constants of          *)
(* SurfaceEngine: lineage across kills, and replay without them.           *)
(***************************************************************************)
EXTENDS SurfaceHistory, ReplayAudit, SurfaceEngineProofs, SequenceTheorems

USE ThreadsAssumption, BranchesAssumption, ModesAssumption,
    RoutesAssumption, VerdictsAssumption, BoundsAssumption
-----------------------------------------------------------------------------
(***************************************************************************)
(* Lineage.                                                                *)
(***************************************************************************)
HandlerLeads(h) ==
  /\ h.kind \in {"observe", "propose"} => h.to = 0
  /\ h.kind = "boot" /\ h.step # "frame" => \A b \in Branches : refs[b] = 0
  /\ h.kind = "fork" /\ h.step # "append" => refs[h.next.branch] = 0
  /\ \/ Committing(h) /\ h.step \in {"frame", "state", "append", "job", "head"}
     \/ h.kind = "verify" /\ h.step # "ref"
     => h.from = head /\ h.next.branch = current.branch /\ h.next.parent = head
  /\ Committing(h) /\ h.step \in {"memory", "deposit"} =>
       refs[h.next.branch] = h.to
  /\ h.kind = "boot" /\ h.step = "frame" => refs[Main] = h.to
  /\ h.kind = "fork" /\ h.step = "append" => refs[h.next.branch] = h.to
  /\ h.kind = "switch" => refs[states[h.to].branch] = h.to
  /\ h.kind # "none" /\ h.step = "ref" => head = h.to

HeadLeads ==
  IF head = 0 THEN \A b \in Branches : refs[b] = 0
  ELSE LET r == refs[current.branch]
       IN r = 0 \/ r \in LineageIn(states, head)

LineageInv ==
  /\ \A t \in Threads : HandlerLeads(op[t])
  /\ HeadLeads
  /\ AckedNeverLost
-----------------------------------------------------------------------------
(* Lineages. *)

LEMMA LineageSelf ==
  ASSUME NEW saved, Len(saved) \in Nat, NEW i \in 1 .. Len(saved)
  PROVE  i \in LineageIn(saved, i)
BY DEF LineageIn

(* Whatever a state's parent descends from, the state descends from.       *)
LEMMA LineageParent ==
  ASSUME NEW saved, Len(saved) \in Nat, NEW i \in 1 .. Len(saved),
         NEW n \in LineageIn(saved, saved[i].parent)
  PROVE  n \in LineageIn(saved, i)
<1>1. n \in 1 .. Len(saved) /\ saved[i].parent # 0
  BY DEF LineageIn
<1>2. SUFFICES ASSUME NEW S \in SUBSET (1 .. Len(saved)),
                      i \in S, ParentClosed(saved, S)
               PROVE  n \in S
  BY <1>1 DEF LineageIn
<1>3. saved[i].parent \in S
  BY <1>1, <1>2 DEF ParentClosed
<1>4. QED
  BY <1>2, <1>3 DEF LineageIn

LEMMA LineageTransitive ==
  ASSUME NEW saved, Len(saved) \in Nat, NEW c \in 1 .. Len(saved),
         NEW b \in LineageIn(saved, c), NEW a \in LineageIn(saved, b)
  PROVE  a \in LineageIn(saved, c)
<1>1. a \in 1 .. Len(saved)
  BY DEF LineageIn
<1>2. SUFFICES ASSUME NEW S \in SUBSET (1 .. Len(saved)),
                      c \in S, ParentClosed(saved, S)
               PROVE  a \in S
  BY <1>1 DEF LineageIn
<1>3. b \in S
  BY <1>2 DEF LineageIn
<1>4. QED
  BY <1>2, <1>3 DEF LineageIn

(* States that are added later take nothing out of a lineage.              *)
LEMMA LineageGrows ==
  ASSUME NEW old, NEW new, Len(old) \in Nat, Len(new) \in Nat,
         Len(old) <= Len(new),
         \A i \in 1 .. Len(old) :
           new[i] = old[i] /\ old[i].parent \in 0 .. i - 1,
         NEW i \in 1 .. Len(old), NEW n \in LineageIn(old, i)
  PROVE  n \in LineageIn(new, i)
<1>1. n \in 1 .. Len(new) /\ i # 0
  BY DEF LineageIn
<1>2. SUFFICES ASSUME NEW S \in SUBSET (1 .. Len(new)),
                      i \in S, ParentClosed(new, S)
               PROVE  n \in S
  BY <1>1 DEF LineageIn
<1>3. PICK R : R = S \cap (1 .. Len(old))
  OBVIOUS
<1>4. ParentClosed(old, R)
  <2>1. SUFFICES ASSUME NEW m \in R
                 PROVE  old[m].parent \in R \cup {0}
    BY DEF ParentClosed
  <2>2. m \in 1 .. Len(old) /\ m \in S
    BY <1>3, <2>1
  <2>3. old[m].parent \in 0 .. m - 1 /\ old[m].parent \in S \cup {0}
    BY <1>2, <2>2 DEF ParentClosed
  <2>4. QED
    BY <1>3, <2>2, <2>3
<1>5. i \in R /\ R \in SUBSET (1 .. Len(old))
  BY <1>2, <1>3
<1>6. n \in R
  BY <1>4, <1>5 DEF LineageIn
<1>7. QED
  BY <1>3, <1>6

-----------------------------------------------------------------------------
(***************************************************************************)
(* The shapes of the requests and of the steps: all that the proofs below  *)
(* need to know of them.                                                   *)
(***************************************************************************)
EntersAs(h) ==
  \/ /\ h.kind \in {"observe", "propose", "interact"}
     /\ h.step \in {"observe", "propose"} /\ h.to = 0
  \/ h.kind = "commit" /\ h.step = "plan"
  \/ /\ h.kind = "fork" /\ h.step = "state" /\ h.from = head
     /\ refs[h.next.branch] = 0
     /\ h.id = ForkId(h.next.branch, h.from) /\ Room
  \/ /\ h.kind = "switch" /\ h.step = "head"
     /\ refs[states[h.to].branch] = h.to
  \/ /\ h.kind = "verify" /\ h.step = "verdict" /\ h.from = head
     /\ h.next.parent = head /\ h.next.branch = current.branch
     /\ h.id = VerdictId(h.key, h.id.arg, h.id.text) /\ Room

LEMMA PacketShape ==
  ASSUME IInv, NEW t \in Threads, NEW e \in EventIds, NEW m \in Modes,
         NEW claim, NEW kind \in {"observe", "propose", "interact"},
         ReceivePacket(t, kind, e, m, claim)
  PROVE  \E h \in Handlers : Enter(t, h) /\ EntersAs(h)
<1> PICK first \in FirstSteps(kind) :
           Enter(t, [NoHandler EXCEPT !.kind = kind, !.step = first,
                       !.mode = m, !.id = ClientId(e), !.from = head,
                       !.key = Key(e, head)])
  BY DEF ReceivePacket
<1> PICK h : h = [NoHandler EXCEPT !.kind = kind, !.step = first,
                    !.mode = m, !.id = ClientId(e), !.from = head,
                    !.key = Key(e, head)]
  OBVIOUS
<1>1. head \in Nat
  BY DEF IInv, TypeOK
<1>2. Key(e, head) \in Keys /\ ClientId(e) \in LogIds
  BY <1>1, KeyType, ClientIdType
<1>3. h \in Handlers
  BY <1>1, <1>2, NoHandlerType DEF Handlers, Kinds, Steps, FirstSteps
<1>4. Enter(t, h)
  OBVIOUS
<1>5. h.kind = kind /\ h.step = first /\ h.to = 0
  BY NoHandlerType DEF Handlers, NoHandler
<1>6. first \in {"observe", "propose"}
  BY DEF FirstSteps
<1>7. EntersAs(h)
  BY <1>5, <1>6 DEF EntersAs
<1>8. QED
  BY <1>3, <1>4, <1>7

LEMMA ProposalShape ==
  ASSUME IInv, NEW t \in Threads, NEW e \in EventIds, NEW m \in Modes,
         NEW parent \in Nat, ReceiveProposal(t, e, m, parent)
  PROVE  \E h \in Handlers : Enter(t, h) /\ EntersAs(h)
<1> PICK h : h = [NoHandler EXCEPT !.kind = "commit", !.step = "plan",
                    !.mode = m, !.id = ClientId(e), !.from = head,
                    !.key = Key(e, parent)]
  OBVIOUS
<1>1. head \in Nat
  BY DEF IInv, TypeOK
<1>2. Key(e, parent) \in Keys /\ ClientId(e) \in LogIds
  BY KeyType, ClientIdType
<1>3. h \in Handlers
  BY <1>1, <1>2, NoHandlerType DEF Handlers, Kinds, Steps
<1>4. Enter(t, h)
  BY DEF ReceiveProposal
<1>5. h.kind = "commit" /\ h.step = "plan"
  BY NoHandlerType DEF Handlers
<1>6. QED
  BY <1>3, <1>4, <1>5 DEF EntersAs

LEMMA ForkShape ==
  ASSUME IInv, NEW t \in Threads, NEW b \in Branches, CreateBranch(t, b)
  PROVE  \E h \in Handlers : Enter(t, h) /\ EntersAs(h)
<1> PICK next : next = [current EXCEPT !.parent = head, !.branch = b]
  OBVIOUS
<1> PICK h : h = [NoHandler EXCEPT !.kind = "fork", !.step = "state",
                    !.id = ForkId(b, head), !.from = head,
                    !.index = Len(events) + 1, !.next = next]
  OBVIOUS
<1>1. Enter(t, h) /\ phase = "serving" /\ refs[b] = 0 /\ Room
  BY DEF CreateBranch, Enter, Acquire
<1>2. head \in Nat /\ Len(events) + 1 \in Nat
  BY DEF IInv, TypeOK
<1>3. current \in StateRecords
  BY <1>1, ServingReads
<1>4. next \in StateRecords /\ next.branch = b
  BY <1>2, <1>3 DEF StateRecords
<1>5. ForkId(b, head) \in LogIds
  BY <1>2, ForkIdType
<1>6. h \in Handlers
  BY <1>2, <1>4, <1>5, NoHandlerType DEF Handlers, Kinds, Steps
<1>7. /\ h.kind = "fork" /\ h.step = "state" /\ h.next = next
      /\ h.from = head /\ h.id = ForkId(b, head)
  BY NoHandlerType DEF Handlers
<1>8. QED
  BY <1>1, <1>4, <1>6, <1>7 DEF EntersAs

LEMMA SwitchShape ==
  ASSUME IInv, NEW t \in Threads, NEW b \in Branches, SwitchBranch(t, b)
  PROVE  \E h \in Handlers : Enter(t, h) /\ EntersAs(h)
<1> PICK h : h = [NoHandler EXCEPT !.kind = "switch", !.step = "head",
                    !.from = head, !.to = refs[b]]
  OBVIOUS
<1>1. head \in Nat /\ refs[b] \in Nat
  BY DEF IInv, TypeOK
<1>2. h \in Handlers
  BY <1>1, NoHandlerType DEF Handlers, Kinds, Steps
<1>3. Enter(t, h) /\ refs[b] # 0
  BY DEF SwitchBranch
<1>4. h.kind = "switch" /\ h.step = "head" /\ h.to = refs[b]
  BY NoHandlerType DEF Handlers
<1>5. states[h.to].branch = b
  BY <1>3, <1>4 DEF IInv, RefsNameSavedStates
<1>6. QED
  BY <1>2, <1>3, <1>4, <1>5 DEF EntersAs

LEMMA VerdictShape ==
  ASSUME IInv, NEW t \in Threads, NEW key \in DOMAIN jobs,
         NEW decision \in Verdicts, NEW text \in Texts,
         VerifyRender(t, key, decision, text)
  PROVE  \E h \in Handlers : Enter(t, h) /\ EntersAs(h)
<1> PICK updated : updated = Judged(jobs[key], decision)
  OBVIOUS
<1> PICK next : next = Shown(key, updated, decision, text)
  OBVIOUS
<1> PICK h : h = [NoHandler EXCEPT !.kind = "verify", !.step = "verdict",
                    !.id = VerdictId(key, decision, text),
                    !.from = head, !.index = Len(events) + 1,
                    !.key = key, !.job = updated, !.next = next]
  OBVIOUS
<1>1. Enter(t, h) /\ phase = "serving" /\ Room
  BY DEF VerifyRender, Enter, Acquire
<1>2. key \in Keys /\ jobs[key] \in JobRecords /\ head \in Nat
      /\ Len(events) + 1 \in Nat
  BY DEF IInv, TypeOK
<1>3. updated \in JobRecords
  BY <1>2, JudgedType
<1>4. next \in StateRecords
  BY <1>1, <1>2, <1>3, ShownType
<1>5. /\ VerdictId(key, decision, text) \in LogIds
      /\ VerdictId(key, decision, text).arg = decision
      /\ VerdictId(key, decision, text).text = text
  BY <1>2, VerdictIdType
<1>6. h \in Handlers
  BY <1>2, <1>3, <1>4, <1>5, NoHandlerType DEF Handlers, Kinds, Steps
<1>7. /\ h.kind = "verify" /\ h.step = "verdict" /\ h.key = key
      /\ h.id = VerdictId(key, decision, text) /\ h.from = head
      /\ h.next = next
  BY NoHandlerType DEF Handlers
<1>8. current \in StateRecords
  BY <1>1, ServingReads
<1>9. next.parent = head /\ next.branch = current.branch
  BY <1>8 DEF Shown, StateRecords
<1>10. h.id = VerdictId(h.key, h.id.arg, h.id.text)
  BY <1>5, <1>7
<1>11. EntersAs(h)
  BY <1>1, <1>7, <1>9, <1>10 DEF EntersAs
<1>12. QED
  BY <1>1, <1>6, <1>11

LEMMA ReceiveShapes ==
  ASSUME IInv, NEW t \in Threads, Receive(t)
  PROVE  \E h \in Handlers : Enter(t, h) /\ EntersAs(h)
<1>1. ASSUME NEW e \in EventIds, NEW m \in Modes,
             NEW claim \in 0 .. Len(states),
             NEW kind \in {"observe", "propose", "interact"},
             ReceivePacket(t, kind, e, m, claim)
      PROVE  \E h \in Handlers : Enter(t, h) /\ EntersAs(h)
  BY <1>1, PacketShape
<1>2. ASSUME NEW e \in EventIds, NEW m \in Modes, NEW parent \in Ids,
             ReceiveProposal(t, e, m, parent)
      PROVE  \E h \in Handlers : Enter(t, h) /\ EntersAs(h)
  <2>1. parent \in Nat
    BY <1>2 DEF Ids
  <2>2. QED
    BY <1>2, <2>1, ProposalShape
<1>3. ASSUME NEW b \in Branches, CreateBranch(t, b)
      PROVE  \E h \in Handlers : Enter(t, h) /\ EntersAs(h)
  BY <1>3, ForkShape
<1>4. ASSUME NEW b \in Branches, SwitchBranch(t, b)
      PROVE  \E h \in Handlers : Enter(t, h) /\ EntersAs(h)
  BY <1>4, SwitchShape
<1>5. ASSUME NEW key \in DOMAIN jobs, NEW decision \in Verdicts,
             NEW text \in Texts, VerifyRender(t, key, decision, text)
      PROVE  \E h \in Handlers : Enter(t, h) /\ EntersAs(h)
  BY <1>5, VerdictShape
<1>6. QED
  BY <1>1, <1>2, <1>3, <1>4, <1>5 DEF Receive

(* A request that enters finds no handler and leaves the store alone.      *)
LEMMA EnterEffect ==
  ASSUME IInv, NEW t \in Threads, NEW h, Enter(t, h)
  PROVE  /\ UNCHANGED <<states, head, refs, events, tail, jobs, frames,
                        phase, crashes, acked>>
         /\ phase = "serving" /\ lock = None /\ lock' = t
         /\ \A u \in Threads : op[u] = NoHandler
         /\ op'[t] = h
         /\ \A u \in Threads \ {t} : op'[u] = NoHandler
<1>1. /\ phase = "serving" /\ lock = None /\ lock' = t
      /\ op' = [op EXCEPT ![t] = h]
      /\ UNCHANGED <<store, phase, crashes, acked>>
  BY DEF Enter, Acquire
<1>2. op \in [Threads -> Handlers] /\ \A u \in Threads : op[u] = NoHandler
  BY <1>1 DEF IInv, TypeOK, ServingInv, MutualExclusion
<1>3. op'[t] = h /\ \A u \in Threads \ {t} : op'[u] = NoHandler
  BY <1>1, <1>2
<1>4. QED
  BY <1>1, <1>2, <1>3 DEF store

(* A handler that returns, having written nothing.                         *)
GivesUp(t) ==
  /\ op[t].step # "idle" /\ Return(t)
  /\ op[t].step \in {"propose", "plan", "frame"} \/ ~LogReads
  /\ UNCHANGED <<store, crashes, acked>>

(* A handler that writes one of its files, other than its state or a       *)
(* verdict, and passes on.                                                 *)
Moves(t) ==
  /\ op[t].step \notin {"idle", "plan", "verdict", "state"}
  /\ Advance(t)
  /\ UNCHANGED <<states, crashes>>
  /\ IF op[t].step = "append"
     THEN /\ events' = Append(events, NewEvent(t))
          /\ tail' \in {"whole", "torn"}
     ELSE UNCHANGED <<events, tail>>
  /\ IF op[t].step = "head" THEN op[t].to \in Ids /\ head' = op[t].to
                            ELSE UNCHANGED head
  /\ IF op[t].step = "ref"
     THEN op[t].to \in Ids /\ refs' = [refs EXCEPT ![op[t].next.branch] = op[t].to]
     ELSE UNCHANGED refs
  /\ op[t].step # "job" => UNCHANGED jobs

LEMMA StepShapes ==
  ASSUME NEW t \in Threads, Step(t)
  PROVE  \/ GivesUp(t) \/ PlanCommit(t) \/ SaveVerdict(t) \/ SaveState(t)
         \/ Moves(t)
<1>1. CASE \/ RejectPatch(t) \/ RefuseDuplicate(t) \/ ReadTornLog(t)
           \/ FrameCollision(t)
  BY <1>1
  DEF RejectPatch, RefuseDuplicate, ReadTornLog, FrameCollision, At,
      NextReadsLog, GivesUp
<1>2. CASE SaveEvidence(t) \/ SaveProposal(t) \/ SaveFrame(t)
  BY <1>2 DEF SaveEvidence, SaveProposal, SaveFrame, At, Moves
<1>3. CASE AppendEvent(t) \/ SaveRenderJob(t)
  BY <1>3 DEF AppendEvent, SaveRenderJob, At, Moves
<1>4. CASE SetHead(t) \/ SetBranchRef(t)
  BY <1>4 DEF SetHead, SetBranchRef, At, Moves
<1>5. CASE SaveMemory(t) \/ Deposit(t)
  BY <1>5 DEF SaveMemory, Deposit, At, Moves
<1>6. QED
  BY <1>1, <1>2, <1>3, <1>4, <1>5 DEF Step

(* A commit is planned on the current state.                               *)
LEMMA PlanEffect ==
  ASSUME IInv, NEW t \in Threads, PlanCommit(t)
  PROVE  \E g \in Handlers :
           /\ op'[t] = g
           /\ \A u \in Threads \ {t} : op'[u] = NoHandler
           /\ UNCHANGED <<store, phase, lock, crashes, acked>>
           /\ g.kind \in {"interact", "commit"} /\ g.kind = op[t].kind
           /\ g.step \in {"state", "frame"}
           /\ g.from = head /\ g.to = op[t].to
           /\ g.next.parent = head /\ g.next.branch = current.branch
           /\ phase = "serving" /\ Room
<1>1. op[t].step = "plan" /\ Room
      /\ UNCHANGED <<store, phase, lock, crashes, acked>>
  BY DEF PlanCommit, At
<1>2. /\ \A u \in Threads \ {t} : op[u] = NoHandler
      /\ HandlerSound(op[t])
      /\ op[t].kind \in Kinds
      /\ op[t] \in Handlers /\ op \in [Threads -> Handlers]
  BY <1>1, OwnerActs DEF IInv, TypeOK
<1>3. /\ op[t].kind \in {"interact", "commit"} /\ phase = "serving"
      /\ op[t].from = head
  BY <1>1, <1>2 DEF HandlerSound, StepsOf, Kinds
<1>4. PICK g \in Handlers :
         /\ op' = [op EXCEPT ![t] = g]
         /\ g.kind = op[t].kind /\ g.to = op[t].to /\ g.from = op[t].from
         /\ g.step = IF Queued(op[t]) THEN "state" ELSE "frame"
         /\ \E name \in FrameNames(op[t].kind),
               left \in PartsLeft(op[t].kind), text \in Texts :
              g.next = Planned(Patched(name, left), op[t], text)
  BY PlanCommitNext
<1>5. g.next.parent = head /\ g.next.branch = current.branch
  BY <1>2, <1>3, <1>4, PlannedFields
<1>6. op'[t] = g /\ \A u \in Threads \ {t} : op'[u] = NoHandler
  BY <1>2, <1>4
<1>7. g.step \in {"state", "frame"}
  BY <1>4
<1>8. QED
  BY <1>1, <1>3, <1>4, <1>5, <1>6, <1>7

(* A verdict returns or goes on to be shown.                               *)
LEMMA VerdictEffect ==
  ASSUME IInv, NEW t \in Threads, SaveVerdict(t)
  PROVE  /\ UNCHANGED <<states, head, refs, events, tail, crashes, acked>>
         /\ op[t].kind = "verify" /\ op[t].step = "verdict"
         /\ phase = "serving" /\ phase' = "serving"
         /\ jobs' = [jobs EXCEPT ![op[t].key] = op[t].job]
         /\ \/ \A u \in Threads : op'[u] = NoHandler
            \/ /\ head = op[t].job.state
               /\ \E s \in {"frame", "state"} :
                    op'[t] = [op[t] EXCEPT !.step = s]
               /\ \A u \in Threads \ {t} : op'[u] = NoHandler
<1>1. op[t].step = "verdict"
      /\ UNCHANGED <<states, head, refs, events, tail, crashes, acked>>
      /\ jobs' = [jobs EXCEPT ![op[t].key] = op[t].job]
  BY DEF SaveVerdict, At
<1>2. /\ \A u \in Threads \ {t} : op[u] = NoHandler
      /\ HandlerSound(op[t]) /\ op[t].kind \in Kinds
      /\ op \in [Threads -> Handlers]
  BY <1>1, OwnerActs DEF IInv, TypeOK
<1>3. op[t].kind = "verify" /\ phase = "serving"
  BY <1>1, <1>2 DEF HandlerSound, StepsOf, Kinds, Steps
<1>4. CASE ~(head = op[t].job.state /\ "node.renderer" \in current.parts)
  <2>1. Return(t)
    BY <1>4 DEF SaveVerdict
  <2>2. \A u \in Threads : op'[u] = NoHandler
    BY <1>1, <2>1, ReturnEffect
  <2>3. QED
    BY <1>1, <1>3, <2>1, <2>2 DEF Return
<1>5. CASE head = op[t].job.state /\ "node.renderer" \in current.parts
  <2> PICK s : s = IF op[t].id.arg = "pass" THEN "frame" ELSE "state"
    OBVIOUS
  <2>1. op' = [op EXCEPT ![t] = [op[t] EXCEPT !.step = s]]
        /\ phase' = phase
    BY <1>5 DEF SaveVerdict
  <2>2. /\ op'[t] = [op[t] EXCEPT !.step = s]
        /\ \A u \in Threads \ {t} : op'[u] = NoHandler
    BY <1>2, <2>1
  <2>3. s \in {"frame", "state"}
    OBVIOUS
  <2>4. QED
    BY <1>1, <1>3, <1>5, <2>1, <2>2, <2>3
<1>6. QED
  BY <1>4, <1>5

(* A state is saved under a name that it keeps.                            *)
LEMMA SaveEffect ==
  ASSUME IInv, NEW t \in Threads, SaveState(t)
  PROVE  \E g \in Handlers :
           /\ op'[t] = g
           /\ \A u \in Threads \ {t} : op'[u] = NoHandler
           /\ UNCHANGED <<head, refs, events, tail, jobs, phase, lock,
                          crashes, acked>>
           /\ op[t].step = "state"
           /\ g.kind = op[t].kind /\ g.from = op[t].from
           /\ g.next = op[t].next /\ g.id = op[t].id /\ g.key = op[t].key
           /\ g.kind \in {"boot", "interact", "commit", "verify", "fork"}
           /\ g.step = IF g.kind \in {"boot", "fork"}
                       THEN "head" ELSE "append"
           /\ states' = IF Saved(g.next) THEN states
                        ELSE Append(states, g.next)
           /\ \A i \in Ids : i \in Ids' /\ states'[i] = states[i]
           /\ g.to \in Ids' /\ states'[g.to] = g.next
<1>1. op[t].step = "state"
  BY DEF SaveState, At
<1>2. /\ \A u \in Threads \ {t} : op[u] = NoHandler
      /\ HandlerSound(op[t]) /\ op[t].kind \in Kinds \ {"none"}
      /\ op \in [Threads -> Handlers]
  BY <1>1, OwnerActs DEF IInv, TypeOK
<1>3. op[t].kind \in {"boot", "interact", "commit", "verify", "fork"}
  BY <1>1, <1>2 DEF HandlerSound, StepsOf, Kinds
<1>4. PICK g \in Handlers :
        /\ op' = [op EXCEPT ![t] = g]
        /\ g.kind = op[t].kind /\ g.id = op[t].id
        /\ g.from = op[t].from /\ g.index = op[t].index
        /\ g.next = op[t].next /\ g.key = op[t].key
        /\ g.step = IF g.kind \in {"boot", "fork"} THEN "head" ELSE "append"
        /\ states' \in Seq(StateRecords)
        /\ \A i \in Ids : i \in Ids' /\ states'[i] = states[i]
        /\ g.to \in Ids' /\ states'[g.to] = g.next
  BY SaveStateNext
<1>5. /\ states' = IF Saved(g.next) THEN states ELSE Append(states, g.next)
      /\ UNCHANGED <<head, refs, events, tail, jobs, phase, lock, crashes,
                     acked>>
  BY <1>4 DEF SaveState
<1>6. op'[t] = g /\ \A u \in Threads \ {t} : op'[u] = NoHandler
  BY <1>2, <1>4
<1>7. QED
  BY <1>1, <1>3, <1>4, <1>5, <1>6

-----------------------------------------------------------------------------
(* What handlers in progress may rely on, about the refs.                  *)

LEMMA IdleLeads == HandlerLeads(NoHandler) /\ HandlerLeads(NoHandler)'
BY DEF HandlerLeads, NoHandler, Committing

LEMMA IdlesLead ==
  ASSUME \A u \in Threads : op'[u] = NoHandler
  PROVE  \A u \in Threads : HandlerLeads(op[u])'
BY IdleLeads

LEMMA EnterLeads ==
  ASSUME IInv, NEW t \in Threads, NEW h \in Handlers, Enter(t, h),
         EntersAs(h)
  PROVE  \A u \in Threads : HandlerLeads(op[u])'
<1>1. HandlerLeads(h)
  BY DEF EntersAs, HandlerLeads, Committing
<1>2. /\ UNCHANGED <<states, head, refs>>
      /\ op'[t] = h /\ \A u \in Threads \ {t} : op'[u] = NoHandler
  BY EnterEffect
<1>3. HandlerLeads(h)'
  BY <1>1, <1>2 DEF HandlerLeads, Committing, current
<1>4. QED
  BY <1>2, <1>3, IdleLeads

(* Boot begins on a store without refs.                                    *)
LEMMA StartLeads ==
  ASSUME IInv, HeadLeads, NEW t \in Threads, Start(t)
  PROVE  \A u \in Threads : HandlerLeads(op[u])'
<1>1. \A u \in Threads : op[u] = NoHandler
  BY DEF Start, IInv, ServingInv, MutualExclusion
<1>2. op' = op \/ /\ head = 0
                  /\ op' = [op EXCEPT ![t] = [NoHandler EXCEPT
                      !.kind = "boot", !.step = "state", !.next = Genesis]]
  BY DEF Start
<1> PICK h : h = [NoHandler EXCEPT
                    !.kind = "boot", !.step = "state", !.next = Genesis]
  OBVIOUS
<1>3. h.kind = "boot" /\ h.step = "state"
  BY NoHandlerType DEF Handlers
<1>4. refs' = refs
  BY DEF Start, store
<1>5. head = 0 => HandlerLeads(h)'
  BY <1>3, <1>4 DEF HandlerLeads, Committing, HeadLeads
<1>6. \A u \in Threads : op'[u] = NoHandler \/ (head = 0 /\ op'[u] = h)
  <2>1. op \in [Threads -> Handlers]
    BY DEF IInv, TypeOK
  <2>2. op' = op \/ (head = 0 /\ op' = [op EXCEPT ![t] = h])
    BY <1>2
  <2>3. QED
    BY <1>1, <2>1, <2>2
<1>7. ASSUME NEW u \in Threads
      PROVE  HandlerLeads(op[u])'
  <2>1. CASE op'[u] = NoHandler
    BY <2>1, IdleLeads
  <2>2. CASE head = 0 /\ op'[u] = h
    BY <1>5, <2>2
  <2>3. QED
    BY <1>6, <2>1, <2>2
<1>8. QED
  BY <1>7

LEMMA PlanLeads ==
  ASSUME IInv, NEW t \in Threads, PlanCommit(t)
  PROVE  \A u \in Threads : HandlerLeads(op[u])'
<1> PICK g \in Handlers :
         /\ op'[t] = g
         /\ \A u \in Threads \ {t} : op'[u] = NoHandler
         /\ UNCHANGED <<store, phase, lock, crashes, acked>>
         /\ g.kind \in {"interact", "commit"}
         /\ g.step \in {"state", "frame"}
         /\ g.from = head
         /\ g.next.parent = head /\ g.next.branch = current.branch
  BY PlanEffect
<1>1. HandlerLeads(g)'
  BY DEF HandlerLeads, Committing, store, current
<1>2. QED
  BY <1>1, IdleLeads

LEMMA VerdictLeads ==
  ASSUME IInv, NEW t \in Threads, HandlerLeads(op[t]), SaveVerdict(t)
  PROVE  \A u \in Threads : HandlerLeads(op[u])'
<1>1. /\ UNCHANGED <<states, head, refs>>
      /\ op[t].kind = "verify" /\ op[t].step = "verdict"
  BY VerdictEffect
<1>2. CASE \A u \in Threads : op'[u] = NoHandler
  BY <1>2, IdlesLead
<1>3. ASSUME NEW s \in {"frame", "state"},
             op'[t] = [op[t] EXCEPT !.step = s],
             \A u \in Threads \ {t} : op'[u] = NoHandler
      PROVE  \A u \in Threads : HandlerLeads(op[u])'
  <2>1. PICK g : g = [op[t] EXCEPT !.step = s]
    OBVIOUS
  <2>2. op[t] \in Handlers
    BY DEF IInv, TypeOK
  <2>3. /\ g.step = s /\ g.kind = "verify" /\ g.from = op[t].from
        /\ g.to = op[t].to /\ g.next = op[t].next
    BY <1>1, <2>1, <2>2, SteppedFields
  <2>4. /\ op[t].from = head /\ op[t].next.parent = head
        /\ op[t].next.branch = current.branch
    BY <1>1 DEF HandlerLeads
  <2>5. HandlerLeads(g)'
    BY <1>1, <1>3, <2>3, <2>4 DEF HandlerLeads, Committing, current
  <2>6. QED
    BY <1>3, <2>1, <2>5, IdleLeads
<1>4. QED
  BY <1>2, <1>3, VerdictEffect

LEMMA SaveStateLeads ==
  ASSUME IInv, NEW t \in Threads, HandlerLeads(op[t]), SaveState(t)
  PROVE  \A u \in Threads : HandlerLeads(op[u])'
<1> PICK h : h = op[t]
  OBVIOUS
<1>1. PICK g \in Handlers :
        /\ op'[t] = g
        /\ \A u \in Threads \ {t} : op'[u] = NoHandler
        /\ UNCHANGED <<head, refs>>
        /\ op[t].step = "state"
        /\ g.kind = op[t].kind /\ g.from = op[t].from
        /\ g.next = op[t].next
        /\ g.kind \in {"boot", "interact", "commit", "verify", "fork"}
        /\ g.step = IF g.kind \in {"boot", "fork"} THEN "head" ELSE "append"
        /\ \A i \in Ids : i \in Ids' /\ states'[i] = states[i]
  BY SaveEffect
<1>2. HandlerSound(h) /\ h.kind \in Kinds /\ h.step = "state"
  BY <1>1, OwnerActs
<1>3. h.kind # "boot" => current' = current
  <2>1. SUFFICES ASSUME h.kind # "boot" PROVE current' = current
    OBVIOUS
  <2>2. phase = "serving"
    BY <1>1, <1>2, <2>1 DEF HandlerSound
  <2>3. head \in Ids
    BY <2>2, ServingReads
  <2>4. QED
    BY <1>1, <2>3 DEF current
<1>4. HandlerLeads(h)
  OBVIOUS
<1>5. g.kind = h.kind /\ g.next = h.next /\ g.from = h.from
  BY <1>1
<1>6. g.kind = "boot" => \A b \in Branches : refs'[b] = 0
  BY <1>1, <1>2, <1>4, <1>5 DEF HandlerLeads
<1>7. g.kind = "fork" => refs'[g.next.branch] = 0
  BY <1>1, <1>2, <1>4, <1>5 DEF HandlerLeads
<1>8. g.kind \in {"interact", "commit", "verify"} =>
        /\ g.from = head' /\ g.next.branch = current'.branch
        /\ g.next.parent = head'
  BY <1>1, <1>2, <1>3, <1>4, <1>5 DEF HandlerLeads, Committing
<1>9. g.kind \in {"interact", "commit", "verify"} => g.step = "append"
  BY <1>1
<1>10. g.kind \in {"boot", "fork"} => g.step = "head"
  BY <1>1
<1>11. HandlerLeads(g)'
  BY <1>1, <1>6, <1>7, <1>8, <1>9, <1>10 DEF HandlerLeads, Committing
<1>12. QED
  BY <1>1, <1>11, IdleLeads

(* A handler that moves a ref finds the refs as it expects them.           *)
LEMMA MoveLeads ==
  ASSUME IInv, NEW t \in Threads, HandlerBacked(op[t]), HandlerLeads(op[t]),
         Moves(t)
  PROVE  \A u \in Threads : HandlerLeads(op[u])'
<1> PICK h : h = op[t]
  OBVIOUS
<1> PICK next : next = After(h.kind, h.step)
  OBVIOUS
<1> PICK g : g = [h EXCEPT !.step = next]
  OBVIOUS
<1>1. h \in Handlers /\ HandlerLeads(h) /\ HandlerSound(h)
      /\ h.kind \in Kinds \ {"none"}
  BY OwnerActs DEF IInv, TypeOK, Moves
<1>2. h.step \in StepsOf(h.kind) /\ h.step \notin {"idle", "state"}
      /\ h.step \notin {"plan", "verdict"} /\ Advance(t)
  BY <1>1 DEF HandlerSound, Moves
<1>3. CASE next = "done"
  <2>1. \A u \in Threads : op'[u] = NoHandler
    BY <1>2, <1>3, AdvanceEffect
  <2>2. QED
    BY <2>1, IdlesLead
<1>4. CASE next # "done"
  <2>1. op'[t] = g /\ \A u \in Threads \ {t} : op'[u] = NoHandler
    BY <1>2, <1>4, AdvanceEffect
  <2>2. /\ g.step = next /\ g.kind = h.kind /\ g.from = h.from
        /\ g.to = h.to /\ g.next = h.next
    BY <1>1, SteppedFields
  <2>3. /\ next \in StepsOf(h.kind)
        /\ next \notin {"idle", "observe", "verdict"}
        /\ next = "frame" => h.step = "ref" /\ h.kind = "boot"
        /\ next = "state" =>
             h.step = "frame" /\ h.kind \in {"interact", "commit", "verify"}
        /\ next = "append" => h.step = "ref" /\ h.kind = "fork"
        /\ next = "job" =>
             h.step = "append" /\ h.kind \in {"interact", "commit"}
        /\ next = "head" =>
             \/ h.step = "job" /\ h.kind \in {"interact", "commit"}
             \/ h.step = "append" /\ h.kind = "verify"
        /\ next = "ref" => h.step = "head" /\ h.kind # "switch"
        /\ next = "memory" =>
             h.step = "ref" /\ h.kind \in {"interact", "commit"}
        /\ next = "deposit" => h.step = "memory" /\ h.kind = "interact"
    BY <1>1, <1>2, <1>4, Predecessor
  <2>4. /\ states' = states
        /\ h.step = "head" => head' = h.to
        /\ h.step # "head" => head' = head
        /\ h.step # "ref" => refs' = refs
        /\ h.step = "ref" => refs' = [refs EXCEPT ![h.next.branch] = h.to]
    BY DEF Moves
  <2>5. h.next.branch \in Branches /\ refs \in [Branches -> Nat]
    BY <1>1 DEF Handlers, StateRecords, IInv, TypeOK
  <2>6. h.kind = "boot" => h.next.branch = Main
    BY DEF HandlerBacked, Genesis
  <2>7. g.kind \in {"observe", "propose"} => g.to = 0
    BY <1>1, <2>2 DEF HandlerLeads
  <2>8. g.kind = "boot" /\ g.step # "frame" => \A b \in Branches : refs'[b] = 0
    BY <1>1, <1>2, <2>2, <2>3, <2>4 DEF HandlerLeads, StepsOf
  <2>9. g.kind = "fork" /\ g.step # "append" => refs'[g.next.branch] = 0
    BY <1>1, <1>2, <2>2, <2>3, <2>4 DEF HandlerLeads, StepsOf
  <2>10. \/ Committing(g)
            /\ g.step \in {"frame", "state", "append", "job", "head"}
         \/ g.kind = "verify" /\ g.step # "ref"
         => /\ g.from = head' /\ g.next.branch = current'.branch
            /\ g.next.parent = head'
    <3>1. SUFFICES ASSUME \/ Committing(g) /\ g.step \in
                                {"frame", "state", "append", "job", "head"}
                          \/ g.kind = "verify" /\ g.step # "ref"
                   PROVE  /\ h.from = head' /\ h.next.branch = current'.branch
                          /\ h.next.parent = head'
      BY <2>2
    <3>2. h.step \notin {"head", "ref"}
      BY <2>2, <2>3, <3>1 DEF StepsOf, Committing
    <3>3. \/ Committing(h)
             /\ h.step \in {"frame", "state", "append", "job", "head"}
          \/ h.kind = "verify" /\ h.step # "ref"
      BY <2>2, <2>3, <3>1, <3>2 DEF StepsOf, Committing
    <3>4. h.from = head /\ h.next.branch = current.branch
          /\ h.next.parent = head
      BY <1>1, <3>3 DEF HandlerLeads
    <3>5. QED
      BY <2>4, <3>2, <3>4 DEF current
  <2>11. Committing(g) /\ g.step \in {"memory", "deposit"} =>
           refs'[g.next.branch] = g.to
    <3>1. CASE h.step = "ref"
      BY <2>2, <2>4, <2>5, <3>1
    <3>2. CASE h.step = "memory"
      BY <1>1, <2>2, <2>4, <3>2 DEF HandlerLeads, Committing
    <3>3. QED
      BY <2>2, <2>3, <3>1, <3>2
  <2>12. g.kind = "boot" /\ g.step = "frame" => refs'[Main] = g.to
    BY <2>2, <2>3, <2>4, <2>5, <2>6
  <2>13. g.kind = "fork" /\ g.step = "append" => refs'[g.next.branch] = g.to
    BY <2>2, <2>3, <2>4, <2>5
  <2>14. g.kind # "switch"
    BY <2>2, <2>3 DEF StepsOf
  <2>15. g.kind # "none" /\ g.step = "ref" => head' = g.to
    BY <2>2, <2>3, <2>4
  <2>16. HandlerLeads(g)'
    BY <2>7, <2>8, <2>9, <2>10, <2>11, <2>12, <2>13, <2>14, <2>15
    DEF HandlerLeads, Committing
  <2>17. QED
    BY <2>1, <2>16, IdleLeads
<1>5. QED
  BY <1>3, <1>4

LEMMA NextLeads ==
  ASSUME IInv, \A t \in Threads : HandlerBacked(op[t]) /\ HandlerLeads(op[t]),
         HeadLeads, [Next]_vars
  PROVE  \A u \in Threads : HandlerLeads(op[u])'
<1>1. CASE Crash
  BY <1>1, IdlesLead DEF Crash
<1>2. ASSUME NEW t \in Threads, Start(t)
      PROVE  \A u \in Threads : HandlerLeads(op[u])'
  BY <1>2, StartLeads
<1>3. ASSUME NEW t \in Threads, Receive(t)
      PROVE  \A u \in Threads : HandlerLeads(op[u])'
  BY <1>3, ReceiveShapes, EnterLeads
<1>4. ASSUME NEW t \in Threads, Step(t)
      PROVE  \A u \in Threads : HandlerLeads(op[u])'
  <2>1. CASE GivesUp(t)
    BY <2>1, ReturnEffect, IdlesLead DEF GivesUp
  <2>2. QED
    BY <1>4, <2>1, StepShapes, PlanLeads, VerdictLeads, SaveStateLeads,
       MoveLeads
<1>5. CASE UNCHANGED vars
  BY <1>5 DEF vars, store, HandlerLeads, current, Committing
<1>6. QED
  BY <1>1, <1>2, <1>3, <1>4, <1>5 DEF Next

-----------------------------------------------------------------------------
(* HEAD descends from the ref of its branch, and the refs from all that    *)
(* was acknowledged.                                                       *)

(* How a step moves HEAD and the refs.                                     *)
LEMMA RefSteps ==
  ASSUME IInv, [Next]_vars
  PROVE  \/ UNCHANGED <<head, refs, acked>>
         \/ \E t \in Threads : Moves(t)
<1>1. CASE Crash \/ UNCHANGED vars
  BY <1>1 DEF Crash, vars, store
<1>2. ASSUME NEW t \in Threads, Start(t)
      PROVE  UNCHANGED <<head, refs, acked>>
  BY <1>2 DEF Start, store
<1>3. ASSUME NEW t \in Threads, Receive(t)
      PROVE  UNCHANGED <<head, refs, acked>>
  BY <1>3, ReceiveShapes, EnterEffect
<1>4. ASSUME NEW t \in Threads, Step(t)
      PROVE  UNCHANGED <<head, refs, acked>> \/ Moves(t)
  <2>1. CASE PlanCommit(t)
    BY <2>1, PlanEffect DEF store
  <2>2. CASE SaveVerdict(t)
    BY <2>2, VerdictEffect
  <2>3. CASE SaveState(t)
    BY <2>3, SaveEffect
  <2>4. CASE GivesUp(t)
    BY <2>4 DEF GivesUp, store
  <2>5. QED
    BY <1>4, <2>1, <2>2, <2>3, <2>4, StepShapes
<1>5. QED
  BY <1>1, <1>2, <1>3, <1>4 DEF Next

(* The lineage of a saved state only grows.                                *)
LEMMA LineageStays ==
  ASSUME IInv, IInv', ParentsAreOlder, StoreGrows, NEW i \in Ids,
         NEW n \in LineageIn(states, i)
  PROVE  n \in LineageIn(states', i)
<1> PICK old : old = states
  OBVIOUS
<1> PICK new : new = states'
  OBVIOUS
<1>1. Len(old) \in Nat /\ Len(new) \in Nat
  BY DEF IInv, TypeOK
<1>2. \A k \in 1 .. Len(old) :
        new[k] = old[k] /\ old[k].parent \in 0 .. k - 1
        /\ k \in 1 .. Len(new)
  BY DEF StoreGrows, ParentsAreOlder, Ids
<1>3. Len(old) <= Len(new)
  BY <1>1, <1>2
<1>4. i \in 1 .. Len(old) /\ n \in LineageIn(old, i)
  BY DEF Ids
<1>5. n \in LineageIn(new, i)
  BY <1>1, <1>2, <1>3, <1>4, LineageGrows
<1>6. QED
  BY <1>5

LEMMA HeadStaysAhead ==
  ASSUME IInv, IInv', BackedInv, LineageInv, StoreGrows, [Next]_vars
  PROVE  HeadLeads'
<1>0. /\ Len(states) \in Nat /\ refs \in [Branches -> Nat]
      /\ \A i \in Ids : states[i] \in StateRecords
  BY DEF IInv, TypeOK, Ids
<1>1. CASE UNCHANGED <<head, refs>>
  <2>1. CASE head = 0
    BY <1>1, <2>1 DEF LineageInv, HeadLeads
  <2>2. CASE head # 0
    <3>1. head \in Ids
      BY <2>2 DEF IInv, RefsNameSavedStates
    <3>2. current' = current
      BY <1>1, <3>1 DEF current, StoreGrows
    <3> PICK r : r = refs[current.branch]
      OBVIOUS
    <3>3. r = 0 \/ r \in LineageIn(states, head)
      BY <2>2 DEF LineageInv, HeadLeads
    <3>4. r = 0 \/ r \in LineageIn(states', head)
      BY <3>1, <3>3, LineageStays DEF BackedInv
    <3>5. QED
      BY <1>1, <2>2, <3>2, <3>4 DEF HeadLeads
  <2>3. QED
    BY <2>1, <2>2
<1>2. ASSUME NEW t \in Threads, Moves(t)
      PROVE  HeadLeads'
  <2> PICK h : h = op[t]
    OBVIOUS
  <2> PICK to : to = h.to
    OBVIOUS
  <2>1. h \in Handlers /\ HandlerLeads(h) /\ HandlerSound(h)
        /\ h.kind \in Kinds \ {"none"}
    BY <1>2, OwnerActs DEF IInv, TypeOK, Moves, LineageInv
  <2>2. CASE h.step \notin {"head", "ref"}
    BY <1>1, <1>2, <2>2 DEF Moves
  <2>3. CASE h.step = "head"
    <3>1. head' = to /\ UNCHANGED <<states, refs>> /\ to \in Ids /\ to # 0
      BY <1>2, <2>3 DEF Moves, Ids
    <3> PICK tip : tip = refs[states[to].branch]
      OBVIOUS
    <3>2. SUFFICES tip = 0 \/ tip \in LineageIn(states, to)
      <4>1. head' # 0 /\ refs'[current'.branch] = tip
        BY <3>1 DEF current
      <4>2. QED
        BY <3>1, <4>1 DEF HeadLeads
    <3>3. CASE h.kind = "switch"
      BY <1>0, <2>1, <3>1, <3>3, LineageSelf DEF HandlerLeads, Ids
    <3>4. h.kind # "switch" => states[to] = h.next
      BY <2>1, <2>3 DEF HandlerSound, Wrote
    <3>5. CASE h.kind \in {"boot", "fork"}
      <4>1. h.next.branch \in Branches
        BY <2>1 DEF Handlers, StateRecords
      <4>2. refs[h.next.branch] = 0
        BY <2>1, <2>3, <3>5, <4>1 DEF HandlerLeads
      <4>3. QED
        BY <3>4, <3>5, <4>2
    <3>6. CASE h.kind \in {"interact", "commit", "verify"}
      <4>1. /\ h.next.branch = current.branch /\ h.next.parent = head
            /\ phase = "serving"
        BY <2>1, <2>3, <3>6 DEF HandlerLeads, Committing, HandlerSound
      <4>2. head # 0
        BY <4>1 DEF IInv, ServingInv
      <4> PICK r : r = refs[current.branch]
        OBVIOUS
      <4>3. r = 0 \/ r \in LineageIn(states, head)
        BY <4>2 DEF LineageInv, HeadLeads
      <4>4. states[to].branch = current.branch /\ states[to].parent = head
        BY <3>4, <3>6, <4>1
      <4>5. to \in 1 .. Len(states)
        BY <3>1 DEF Ids
      <4>6. r = 0 \/ r \in LineageIn(states, to)
        BY <1>0, <4>3, <4>4, <4>5, LineageParent
      <4>7. QED
        BY <4>4, <4>6
    <3>7. h.kind \in {"boot", "fork", "switch", "interact", "commit",
                      "verify"}
      BY <2>1, <2>3 DEF HandlerSound, StepsOf, Kinds
    <3>8. QED
      BY <3>3, <3>5, <3>6, <3>7
  <2>4. CASE h.step = "ref"
    <3>1. /\ refs' = [refs EXCEPT ![h.next.branch] = to]
          /\ UNCHANGED <<states, head>> /\ to \in Ids /\ to # 0
      BY <1>2, <2>4 DEF Moves, Ids
    <3>2. head = to /\ states[to] = h.next
      BY <2>1, <2>4 DEF HandlerLeads, HandlerSound, Wrote, StepsOf
    <3>3. refs'[states[to].branch] = to
      BY <1>0, <3>1, <3>2 DEF StateRecords
    <3>4. to \in LineageIn(states, to)
      BY <1>0, <3>1, LineageSelf DEF Ids
    <3>5. QED
      BY <3>1, <3>2, <3>3, <3>4 DEF HeadLeads, current
  <2>5. QED
    BY <2>2, <2>3, <2>4
<1>3. QED
  BY <1>1, <1>2, RefSteps

(* A ref moves to HEAD, which descends from it.                            *)
LEMMA RefsAdvance ==
  ASSUME IInv, LineageInv, [Next]_vars, NEW b \in Branches,
         refs'[b] # refs[b]
  PROVE  /\ refs[b] = 0 \/ refs[b] \in LineageIn(states, refs'[b])
         /\ refs'[b] \in Ids
         /\ states' = states
<1>1. PICK t \in Threads : Moves(t)
  BY RefSteps
<1> PICK h : h = op[t]
  OBVIOUS
<1>2. /\ h.step = "ref" /\ h.to \in Ids /\ states' = states
      /\ refs' = [refs EXCEPT ![h.next.branch] = h.to]
  BY <1>1 DEF Moves
<1>3. refs \in [Branches -> Nat]
  BY DEF IInv, TypeOK
<1>4. b = h.next.branch /\ refs'[b] = h.to
  BY <1>2, <1>3
<1>5. /\ HandlerLeads(h) /\ HandlerSound(h) /\ h.kind \in Kinds \ {"none"}
  BY <1>2, OwnerActs DEF LineageInv
<1>6. head = h.to /\ states[h.to] = h.next
  BY <1>2, <1>5 DEF HandlerLeads, HandlerSound, Wrote, StepsOf
<1>7. current.branch = b
  BY <1>4, <1>6 DEF current
<1>8. head # 0
  BY <1>2, <1>6 DEF Ids
<1>9. refs[b] = 0 \/ refs[b] \in LineageIn(states, head)
  BY <1>7, <1>8 DEF LineageInv, HeadLeads
<1>10. QED
  BY <1>2, <1>4, <1>6, <1>9

(* What a handler returns is the ref of its branch.                        *)
LEMMA AcksAreRefs ==
  ASSUME IInv, NEW t \in Threads, HandlerLeads(op[t]), HandlerBacked(op[t]),
         Moves(t), NEW s \in acked', s \notin acked
  PROVE  s \in Ids /\ refs'[states[s].branch] = s
<1> PICK h : h = op[t]
  OBVIOUS
<1> PICK next : next = After(h.kind, h.step)
  OBVIOUS
<1>1. h \in Handlers /\ HandlerLeads(h) /\ HandlerSound(h)
      /\ h.kind \in Kinds \ {"none"} /\ HandlerBacked(h)
  BY OwnerActs DEF IInv, TypeOK, Moves
<1>2. h.step \in StepsOf(h.kind) /\ Advance(t)
      /\ h.step \notin {"idle", "plan", "verdict", "state"}
  BY <1>1 DEF HandlerSound, Moves
<1>3. next = "done" /\ s = h.to /\ s # 0
  BY <1>2, AdvanceEffect
<1>4. \/ h.kind = "observe" /\ h.step = "observe"
      \/ h.kind = "propose" /\ h.step = "propose"
      \/ h.kind = "commit" /\ h.step = "memory"
      \/ h.kind = "interact" /\ h.step = "deposit"
      \/ h.kind = "verify" /\ h.step = "ref"
      \/ h.kind = "fork" /\ h.step = "append"
      \/ h.kind = "boot" /\ h.step = "frame"
      \/ h.kind = "switch" /\ h.step = "head"
  BY <1>1, <1>2, <1>3 DEF After, StepsOf, Kinds, Steps
<1>5. h.kind \notin {"observe", "propose"}
  BY <1>1, <1>3 DEF HandlerLeads
<1>6. h.kind # "switch" => h.to \in Ids /\ states[h.to] = h.next
  BY <1>1, <1>4, <1>5 DEF HandlerSound, Wrote
<1>7. h.next.branch \in Branches /\ refs \in [Branches -> Nat]
  BY <1>1 DEF Handlers, StateRecords, IInv, TypeOK
<1>8. CASE h.kind \in {"commit", "interact"}
  <2>1. refs' = refs
    BY <1>4, <1>8 DEF Moves
  <2>2. refs[h.next.branch] = h.to
    BY <1>1, <1>4, <1>8 DEF HandlerLeads, Committing
  <2>3. QED
    BY <1>3, <1>6, <1>8, <2>1, <2>2
<1>9. CASE h.kind = "verify"
  <2>1. refs' = [refs EXCEPT ![h.next.branch] = h.to]
    BY <1>4, <1>9 DEF Moves
  <2>2. QED
    BY <1>3, <1>6, <1>7, <1>9, <2>1
<1>10. CASE h.kind = "fork"
  <2>1. refs' = refs
    BY <1>4, <1>10 DEF Moves
  <2>2. refs[h.next.branch] = h.to
    BY <1>1, <1>4, <1>10 DEF HandlerLeads
  <2>3. QED
    BY <1>3, <1>6, <1>10, <2>1, <2>2
<1>11. CASE h.kind = "boot"
  <2>1. refs' = refs
    BY <1>4, <1>11 DEF Moves
  <2>2. refs[Main] = h.to
    BY <1>1, <1>4, <1>11 DEF HandlerLeads
  <2>3. h.next.branch = Main
    BY <1>1, <1>11 DEF HandlerBacked, Genesis
  <2>4. QED
    BY <1>3, <1>6, <1>11, <2>1, <2>2, <2>3
<1>12. CASE h.kind = "switch"
  <2>1. refs' = refs
    BY <1>4, <1>12 DEF Moves
  <2>2. refs[states[h.to].branch] = h.to /\ h.to \in Ids
    BY <1>1, <1>4, <1>12 DEF HandlerLeads, HandlerSound
  <2>3. QED
    BY <1>3, <2>1, <2>2
<1>13. QED
  BY <1>4, <1>5, <1>8, <1>9, <1>10, <1>11, <1>12

LEMMA AcksStay ==
  ASSUME IInv, IInv', BackedInv, LineageInv, StoreGrows, [Next]_vars
  PROVE  AckedNeverLost'
<1>0. Len(states) \in Nat /\ Len(states') \in Nat
  BY DEF IInv, TypeOK
<1>1. SUFFICES ASSUME NEW s \in acked'
               PROVE  s \in LineageIn(states', refs'[states'[s].branch])
  BY DEF AckedNeverLost
<1>2. CASE s \in acked
  <2> PICK b : b = states[s].branch
    OBVIOUS
  <2>1. s \in LineageIn(states, refs[b])
    BY <1>2 DEF LineageInv, AckedNeverLost
  <2>2. s \in Ids /\ refs[b] # 0
    BY <2>1 DEF LineageIn, Ids
  <2>3. states[s] \in StateRecords
    BY <2>2 DEF IInv, TypeOK, Ids
  <2>4. b \in Branches
    BY <2>3 DEF StateRecords
  <2>5. refs[b] \in Ids
    BY <2>2, <2>4 DEF IInv, RefsNameSavedStates
  <2>6. states'[s] = states[s]
    BY <2>2 DEF StoreGrows
  <2>7. CASE refs'[b] = refs[b]
    <3>1. s \in LineageIn(states', refs[b])
      BY <2>1, <2>5, LineageStays DEF BackedInv
    <3>2. QED
      BY <2>6, <2>7, <3>1
  <2>8. CASE refs'[b] # refs[b]
    <3> PICK r : r = refs'[b]
      OBVIOUS
    <3>1. /\ refs[b] \in LineageIn(states, r) /\ r \in Ids
          /\ states' = states
      BY <2>2, <2>4, <2>8, RefsAdvance
    <3>2. r \in 1 .. Len(states)
      BY <3>1 DEF Ids
    <3>3. s \in LineageIn(states, r)
      BY <1>0, <2>1, <3>1, <3>2, LineageTransitive
    <3>4. QED
      BY <2>6, <3>1, <3>3
  <2>9. QED
    BY <2>7, <2>8
<1>3. CASE s \notin acked
  <2>1. PICK t \in Threads : Moves(t)
    BY <1>3, RefSteps
  <2>2. s \in Ids /\ refs'[states[s].branch] = s
    BY <1>3, <2>1, AcksAreRefs DEF LineageInv, BackedInv
  <2>3. s \in Ids' /\ states'[s] = states[s]
    BY <2>2 DEF StoreGrows
  <2>4. s \in LineageIn(states', s)
    BY <1>0, <2>3, LineageSelf DEF Ids
  <2>5. QED
    BY <2>2, <2>3, <2>4
<1>4. QED
  BY <1>2, <1>3

LEMMA InitLeads == Init => LineageInv
BY IdleLeads DEF Init, LineageInv, HeadLeads, AckedNeverLost

LEMMA NextLineage ==
  ASSUME IInv, IInv', BackedInv, LineageInv, [Next]_vars
  PROVE  LineageInv'
<1>1. StoreGrows
  BY NextGrows DEF BackedInv
<1>2. \A u \in Threads : HandlerLeads(op[u])'
  BY NextLeads DEF BackedInv, LineageInv
<1>3. HeadLeads' /\ AckedNeverLost'
  BY <1>1, HeadStaysAhead, AcksStay
<1>4. QED
  BY <1>2, <1>3 DEF LineageInv

(* LineageInv holds of every reachable state.                              *)
THEOREM Lineage == Spec => [](IInv /\ BackedInv /\ LineageInv)
<1>1. Init => IInv /\ BackedInv /\ LineageInv
  BY InitInv, InitBacked, InitLeads
<1>2. IInv /\ BackedInv /\ LineageInv /\ [Next]_vars
        => (IInv /\ BackedInv /\ LineageInv)'
  BY NextInv, NextBacked, NextLineage
<1>3. QED
  BY <1>1, <1>2, PTL DEF Spec

(* Whatever a handler has returned to a client stays in the lineage of its *)
(* branch, across later work on any branch and across kills between any    *)
(* two of the writes of commit_proposal, verify_render and create_branch.  *)
THEOREM AckedStatesStay == Spec => []AckedNeverLost
<1>1. LineageInv => AckedNeverLost
  BY DEF LineageInv
<1>2. QED
  BY <1>1, Lineage, PTL

(* A branch ref only moves forward along parent links: no commit, verdict, *)
(* fork or restart takes a branch back or sideways (set_ref).              *)
THEOREM RefsAlwaysAdvance == Spec => RefsOnlyAdvance
<1>1. IInv /\ LineageInv /\ [Next]_vars
        => [\A b \in Branches :
              refs'[b] # refs[b] =>
                refs[b] = 0 \/ refs[b] \in LineageIn(states', refs'[b])]_refs
  BY RefsAdvance
<1>2. QED
  BY <1>1, Lineage, PTL DEF Spec, RefsOnlyAdvance
-----------------------------------------------------------------------------
(***************************************************************************)
(* Undisturbed histories: no kill, and no line cut by its payload.         *)
(***************************************************************************)

(* The handler has saved a state whose event is not in the log.            *)
Pending(h) ==
  \/ h.kind \in {"interact", "commit", "verify"} /\ h.step = "append"
  \/ h.kind = "fork" /\ h.step \in {"head", "ref", "append"}

(* The handler has saved a state that its branch ref does not name.        *)
Unsettled(h) ==
  /\ h.kind \notin {"none", "switch"}
  /\ \/ h.step \in {"job", "head", "ref"}
     \/ h.kind # "fork" /\ h.step = "append"

(* The states of branch b, among the first n. *)
NoneOn(b, n) == \A j \in Ids : j <= n => states[j].branch # b

HandlerSettled(h) ==
  /\ Wrote(h) => h.to = Len(states)
  /\ Pending(h) => Len(states) = Len(events) + 2
  /\ h.kind = "boot" =>
       Len(events) = 0 /\ Len(states) = (IF h.step = "state" THEN 0 ELSE 1)
  /\ h.kind = "boot" /\ h.step = "frame" =>
       head = 1 /\ \A b \in Branches : b # Main => refs[b] = 0
  /\ h.kind = "verify" => h.id = VerdictId(h.key, h.id.arg, h.id.text)
  /\ h.kind = "verify" /\ h.step \in {"frame", "state", "append"} =>
       jobs[h.key].state = h.from
  /\ h.kind = "fork" => h.id = ForkId(h.next.branch, h.from)
  /\ h.kind = "fork" /\ h.step \in {"state", "head"} => h.from = head
  /\ h.kind = "fork" /\ h.step \in {"ref", "append"} =>
       /\ refs[states[h.from].branch] = h.from
       /\ states[h.from].branch # h.next.branch
  /\ h.kind = "fork" /\ h.step = "append" =>
       head = h.to /\ NoneOn(h.next.branch, h.to - 1)
  /\ Unlogged(h) /\ h.step # "append" /\ ~Wrote(h) => Room

(* Every saved state is on the line of its branch that ends at the ref.    *)
RefsAreLatest ==
  \A i \in Ids :
    \/ i <= refs[states[i].branch]
    \/ \E t \in Threads : Unsettled(op[t]) /\ op[t].to = i

HeadIsLatest ==
  head # 0 => \/ head = refs[current.branch]
              \/ \E t \in Threads : op[t].step = "ref"

(* Genesis has no event, every other state has one. *)
StatesAreLogged ==
  /\ phase = "down" => states = <<>> /\ events = <<>> /\ head = 0
  /\ phase = "serving" /\ (\A t \in Threads : ~Pending(op[t])) =>
       Len(states) = Len(events) + 1
  /\ states # <<>> => states[1] = Genesis
  /\ phase = "serving" => Len(states) <= MaxStates \/ Len(states) = 1

EventSettled(i, e) ==
  /\ e.result = i + 1
  /\ e.kind \in {"interact", "commit", "verify", "fork"}
  /\ e.kind # "fork" =>
       /\ states[e.parent].branch = e.branch
       /\ \A j \in Ids : e.parent < j /\ j <= i => states[j].branch # e.branch
  /\ e.kind \in {"interact", "commit"} => e.id.origin = "client"
  /\ e.kind = "verify" =>
       /\ e.id.origin = "verdict"
       /\ e.id.key \in DOMAIN jobs /\ jobs[e.id.key].state = e.parent
  /\ e.kind = "fork" => e.id = ForkId(e.branch, e.parent) /\ NoneOn(e.branch, i)

SettledInv ==
  /\ tail = "whole"
  /\ \A t \in Threads : HandlerSettled(op[t])
  /\ RefsAreLatest
  /\ HeadIsLatest
  /\ StatesAreLogged
  /\ \A i \in 1 .. Len(events) : EventSettled(i, events[i])

UndisturbedInv == Undisturbed => SettledInv
-----------------------------------------------------------------------------
(* What handlers in progress may rely on in an undisturbed store.          *)

LEMMA IdleSettled ==
  /\ HandlerSettled(NoHandler) /\ HandlerSettled(NoHandler)'
  /\ ~Unsettled(NoHandler) /\ ~Pending(NoHandler)
BY DEF HandlerSettled, NoHandler, Wrote, Pending, Unsettled, Unlogged

LEMMA IdlesSettled ==
  ASSUME \A u \in Threads : op'[u] = NoHandler
  PROVE  \A u \in Threads : HandlerSettled(op[u])'
BY IdleSettled

LEMMA EnterSettled ==
  ASSUME IInv, NEW t \in Threads, NEW h \in Handlers, Enter(t, h),
         EntersAs(h)
  PROVE  \A u \in Threads : HandlerSettled(op[u])'
<1>1. HandlerSettled(h)
  <2>1. ~Wrote(h) /\ ~Pending(h) /\ h.kind # "boot"
    BY DEF EntersAs, Wrote, Pending
  <2>2. h.kind = "verify" =>
          h.id = VerdictId(h.key, h.id.arg, h.id.text) /\ h.step = "verdict"
    BY DEF EntersAs
  <2>3. h.kind = "fork" =>
          /\ h.id = ForkId(h.next.branch, h.from) /\ h.from = head
          /\ h.step = "state"
    BY DEF EntersAs
  <2>4. Unlogged(h) => Room
    BY DEF EntersAs, Unlogged
  <2>5. QED
    BY <2>1, <2>2, <2>3, <2>4 DEF HandlerSettled
<1>2. /\ UNCHANGED <<states, head, refs, events, jobs>>
      /\ op'[t] = h /\ \A u \in Threads \ {t} : op'[u] = NoHandler
  BY EnterEffect
<1>3. HandlerSettled(h)'
  BY <1>1, <1>2
  DEF HandlerSettled, Wrote, Pending, Unlogged, Room, NoneOn, Ids
<1>4. QED
  BY <1>2, <1>3, IdleSettled

LEMMA StartSettled ==
  ASSUME IInv, StatesAreLogged, NEW t \in Threads, Start(t)
  PROVE  \A u \in Threads : HandlerSettled(op[u])'
<1>1. \A u \in Threads : op[u] = NoHandler
  BY DEF Start, IInv, ServingInv, MutualExclusion
<1>2. /\ states = <<>> /\ events = <<>> /\ head = 0
      /\ UNCHANGED <<states, events>>
  BY DEF Start, StatesAreLogged, store
<1> PICK h : h = [NoHandler EXCEPT
                    !.kind = "boot", !.step = "state", !.next = Genesis]
  OBVIOUS
<1>3. op' = [op EXCEPT ![t] = h]
  BY <1>2 DEF Start
<1>4. h.kind = "boot" /\ h.step = "state"
  BY NoHandlerType DEF Handlers
<1>5. HandlerSettled(h)'
  BY <1>2, <1>4 DEF HandlerSettled, Wrote, Pending, Unlogged
<1>6. \A u \in Threads : op'[u] \in {NoHandler, h}
  BY <1>1, <1>3 DEF IInv, TypeOK
<1>7. QED
  BY <1>5, <1>6, IdleSettled

LEMMA PlanSettled ==
  ASSUME IInv, NEW t \in Threads, PlanCommit(t)
  PROVE  \A u \in Threads : HandlerSettled(op[u])'
<1> PICK g \in Handlers :
         /\ op'[t] = g
         /\ \A u \in Threads \ {t} : op'[u] = NoHandler
         /\ UNCHANGED <<store, phase, lock, crashes, acked>>
         /\ g.kind \in {"interact", "commit"}
         /\ g.step \in {"state", "frame"}
         /\ Room
  BY PlanEffect
<1>1. HandlerSettled(g)'
  BY DEF HandlerSettled, Wrote, Pending, Unlogged, Room, store
<1>2. QED
  BY <1>1, IdleSettled

LEMMA VerdictSettled ==
  ASSUME IInv, NEW t \in Threads, HandlerBacked(op[t]), HandlerLeads(op[t]),
         HandlerSettled(op[t]), SaveVerdict(t)
  PROVE  \A u \in Threads : HandlerSettled(op[u])'
<1>1. /\ UNCHANGED <<states, events>>
      /\ op[t].kind = "verify" /\ op[t].step = "verdict"
      /\ jobs' = [jobs EXCEPT ![op[t].key] = op[t].job]
  BY VerdictEffect
<1>2. CASE \A u \in Threads : op'[u] = NoHandler
  BY <1>2, IdlesSettled
<1>3. ASSUME NEW s \in {"frame", "state"}, head = op[t].job.state,
             op'[t] = [op[t] EXCEPT !.step = s],
             \A u \in Threads \ {t} : op'[u] = NoHandler
      PROVE  \A u \in Threads : HandlerSettled(op[u])'
  <2>1. PICK g : g = [op[t] EXCEPT !.step = s]
    OBVIOUS
  <2>2. op[t] \in Handlers
    BY DEF IInv, TypeOK
  <2>3. /\ g.step = s /\ g.kind = "verify" /\ g.from = op[t].from
        /\ g.id = op[t].id /\ g.key = op[t].key /\ g.job = op[t].job
    BY <1>1, <2>1, <2>2, SteppedFields
  <2>4. op[t].from = head /\ op[t].key \in DOMAIN jobs
    BY <1>1 DEF HandlerLeads, HandlerBacked
  <2>5. jobs'[g.key].state = g.from
    BY <1>1, <1>3, <2>3, <2>4
  <2>6. g.id = VerdictId(g.key, g.id.arg, g.id.text)
    BY <1>1, <2>3 DEF HandlerSettled
  <2>7. Room /\ Room'
    BY <1>1 DEF HandlerSettled, Unlogged, Wrote, Room
  <2>8. HandlerSettled(g)'
    BY <2>3, <2>5, <2>6, <2>7 DEF HandlerSettled, Wrote, Pending, Unlogged
  <2>9. QED
    BY <1>3, <2>1, <2>8, IdleSettled
<1>4. QED
  BY <1>2, <1>3, VerdictEffect

(* A handler that is about to save a state is about to save a new one.     *)
LEMMA StatesAreNew ==
  ASSUME IInv, BackedInv, LineageInv, SettledInv, NEW t \in Threads,
         op[t].step = "state"
  PROVE  /\ ~Saved(op[t].next)
         /\ op[t].kind # "boot" => Len(states) = Len(events) + 1
<1> PICK h : h = op[t]
  OBVIOUS
<1>1. /\ h \in Handlers /\ HandlerLeads(h) /\ HandlerSound(h)
      /\ h.kind \in Kinds \ {"none"} /\ HandlerSettled(h)
      /\ h.step = "state"
      /\ \A u \in Threads \ {t} : op[u] = NoHandler
  BY OwnerActs DEF IInv, TypeOK, LineageInv, SettledInv
<1>2. h.kind \in {"boot", "interact", "commit", "verify", "fork"}
  BY <1>1 DEF HandlerSound, StepsOf, Kinds
<1>3. \A u \in Threads : /\ ~Unsettled(op[u]) /\ ~Pending(op[u])
                         /\ op[u].step # "ref"
  <2>1. ~Unsettled(h) /\ ~Pending(h)
    BY <1>1 DEF Unsettled, Pending
  <2>2. QED
    BY <1>1, <2>1, IdleSettled DEF NoHandler
<1>4. \A i \in Ids : i <= refs[states[i].branch]
  BY <1>3 DEF SettledInv, RefsAreLatest
<1>5. CASE h.kind = "boot"
  BY <1>1, <1>5 DEF HandlerSettled, Saved, Ids
<1>6. ASSUME h.kind # "boot"
      PROVE  Len(states) = Len(events) + 1
  <2>1. phase = "serving"
    BY <1>1, <1>6 DEF HandlerSound
  <2>2. QED
    BY <1>3, <2>1 DEF SettledInv, StatesAreLogged
<1>7. CASE h.kind = "fork"
  <2>1. refs[h.next.branch] = 0
    BY <1>1, <1>7 DEF HandlerLeads
  <2>2. \A i \in Ids : states[i] # h.next
    BY <1>4, <2>1 DEF Ids
  <2>3. QED
    BY <1>6, <1>7, <2>2 DEF Saved
<1>8. CASE h.kind \in {"interact", "commit", "verify"}
  <2>1. /\ h.next.branch = current.branch /\ h.next.parent = head
        /\ phase = "serving"
    BY <1>1, <1>8 DEF HandlerLeads, Committing, HandlerSound
  <2>2. head # 0 /\ head \in Nat
    BY <2>1 DEF IInv, ServingInv, TypeOK
  <2>3. head = refs[h.next.branch]
    BY <1>3, <2>1, <2>2 DEF SettledInv, HeadIsLatest
  <2>4. ASSUME NEW i \in Ids, states[i] = h.next
        PROVE  FALSE
    <3>1. i <= head
      BY <1>4, <2>3, <2>4
    <3>2. head \in 0 .. i - 1
      BY <2>1, <2>4 DEF BackedInv, ParentsAreOlder
    <3>3. QED
      BY <3>1, <3>2 DEF Ids
  <2>5. QED
    BY <1>6, <1>8, <2>4 DEF Saved
<1>9. QED
  BY <1>2, <1>5, <1>7, <1>8

LEMMA SaveSettled ==
  ASSUME IInv, IInv', BackedInv, LineageInv, SettledInv, NEW t \in Threads,
         SaveState(t)
  PROVE  /\ \A u \in Threads : HandlerSettled(op[u])'
         /\ states' = Append(states, op[t].next)
         /\ op'[t].to = Len(states) + 1
<1> PICK h : h = op[t]
  OBVIOUS
<1>1. PICK g \in Handlers :
        /\ op'[t] = g
        /\ \A u \in Threads \ {t} : op'[u] = NoHandler
        /\ UNCHANGED <<head, refs, events, jobs>>
        /\ op[t].step = "state"
        /\ g.kind = op[t].kind /\ g.from = op[t].from
        /\ g.next = op[t].next /\ g.id = op[t].id /\ g.key = op[t].key
        /\ g.kind \in {"boot", "interact", "commit", "verify", "fork"}
        /\ g.step = IF g.kind \in {"boot", "fork"} THEN "head" ELSE "append"
        /\ states' = IF Saved(g.next) THEN states
                     ELSE Append(states, g.next)
        /\ \A i \in Ids : i \in Ids' /\ states'[i] = states[i]
        /\ g.to \in Ids' /\ states'[g.to] = g.next
  BY SaveEffect
<1>2. HandlerSettled(h) /\ h.step = "state" /\ g.kind = h.kind
      /\ g.from = h.from /\ g.next = h.next /\ g.id = h.id /\ g.key = h.key
  BY <1>1 DEF SettledInv
<1>3. ~Saved(h.next)
      /\ (h.kind # "boot" => Len(states) = Len(events) + 1)
  BY <1>1, StatesAreNew
<1>4. states' = Append(states, h.next)
  BY <1>1, <1>3
<1>5. h.next \in StateRecords /\ states \in Seq(StateRecords)
  BY DEF IInv, TypeOK, Handlers
<1>6. Len(states') = Len(states) + 1 /\ Len(states) \in Nat
  BY <1>4, <1>5
<1>7. g.to = Len(states')
  <2>1. g.to \notin Ids
    BY <1>1, <1>2, <1>3 DEF Saved
  <2>2. QED
    BY <1>1, <1>6, <2>1 DEF Ids
<1>8. g.kind = "verify" => /\ g.id = VerdictId(g.key, g.id.arg, g.id.text)
                           /\ jobs'[g.key].state = g.from
  BY <1>1, <1>2 DEF HandlerSettled
<1>9. g.kind = "fork" => /\ g.id = ForkId(g.next.branch, g.from)
                         /\ g.from = head'
  BY <1>1, <1>2 DEF HandlerSettled
<1>10. h.kind = "boot" => Len(events) = 0 /\ Len(states) = 0
  BY <1>2 DEF HandlerSettled
<1>11. Pending(g) => Len(states') = Len(events') + 2
  BY <1>1, <1>2, <1>3, <1>6 DEF Pending
<1>12. g.kind = "boot" => Len(events') = 0 /\ Len(states') = 1
  BY <1>1, <1>2, <1>6, <1>10
<1>13. g.kind \in {"boot", "fork"} => g.step = "head"
  BY <1>1
<1>14. g.kind \notin {"boot", "fork"} => g.step = "append"
  BY <1>1
<1>15. Wrote(g)
  BY <1>1, <1>13, <1>14 DEF Wrote
<1>16. HandlerSettled(g)'
  BY <1>7, <1>8, <1>9, <1>11, <1>12, <1>13, <1>14, <1>15
  DEF HandlerSettled, Wrote, Pending
<1>17. QED
  BY <1>1, <1>4, <1>6, <1>7, <1>16, IdleSettled

LEMMA BranchType ==
  ASSUME IInv, NEW i \in Ids
  PROVE  states[i].branch \in Branches
<1>1. states[i] \in StateRecords
  BY DEF IInv, TypeOK, Ids
<1>2. QED
  BY <1>1 DEF StateRecords

(* A handler that moves: its next step and its place.                      *)
LEMMA MoveEffect ==
  ASSUME IInv, NEW t \in Threads, Moves(t), NEW h, h = op[t],
         NEW next, next = After(h.kind, h.step)
  PROVE  /\ h \in Handlers /\ HandlerSound(h) /\ h.kind \in Kinds \ {"none"}
         /\ h.step \in StepsOf(h.kind)
         /\ h.step \notin {"idle", "plan", "verdict", "state"}
         /\ h.next.branch \in Branches /\ refs \in [Branches -> Nat]
         /\ \A u \in Threads \ {t} : op[u] = NoHandler
         /\ \/ /\ next = "done" /\ phase' = "serving"
               /\ \A u \in Threads : op'[u] = NoHandler
            \/ /\ next # "done" /\ phase' = phase
               /\ op'[t] = [h EXCEPT !.step = next]
               /\ \A u \in Threads \ {t} : op'[u] = NoHandler
<1>1. /\ h \in Handlers /\ HandlerSound(h) /\ h.kind \in Kinds \ {"none"}
      /\ \A u \in Threads \ {t} : op[u] = NoHandler
  BY OwnerActs DEF IInv, TypeOK, Moves
<1>2. /\ h.step \in StepsOf(h.kind) /\ Advance(t)
      /\ h.step \notin {"idle", "plan", "verdict", "state"}
  BY <1>1 DEF HandlerSound, Moves
<1>3. h.next.branch \in Branches /\ refs \in [Branches -> Nat]
  BY <1>1 DEF Handlers, StateRecords, IInv, TypeOK
<1>4. CASE next = "done"
  <2>1. \A u \in Threads : op'[u] = NoHandler
    BY <1>2, <1>4, AdvanceEffect
  <2>2. phase' = "serving"
    BY <1>2, <1>4 DEF Advance, Return
  <2>3. QED
    BY <1>1, <1>2, <1>3, <1>4, <2>1, <2>2
<1>5. CASE next # "done"
  <2>1. /\ op'[t] = [h EXCEPT !.step = next]
        /\ \A u \in Threads \ {t} : op'[u] = NoHandler
    BY <1>2, <1>5, AdvanceEffect
  <2>2. phase' = phase
    BY <1>2, <1>5 DEF Advance
  <2>3. QED
    BY <1>1, <1>2, <1>3, <1>5, <2>1, <2>2
<1>6. QED
  BY <1>4, <1>5

LEMMA MoveSettled ==
  ASSUME IInv, BackedInv, LineageInv, SettledInv, NEW t \in Threads,
         Moves(t)
  PROVE  \A u \in Threads : HandlerSettled(op[u])'
<1> PICK h : h = op[t]
  OBVIOUS
<1> PICK next : next = After(h.kind, h.step)
  OBVIOUS
<1> PICK g : g = [h EXCEPT !.step = next]
  OBVIOUS
<1>1. /\ h \in Handlers /\ HandlerSound(h) /\ h.kind \in Kinds \ {"none"}
      /\ h.step \in StepsOf(h.kind)
      /\ h.step \notin {"idle", "plan", "verdict", "state"}
      /\ h.next.branch \in Branches /\ refs \in [Branches -> Nat]
      /\ \A u \in Threads \ {t} : op[u] = NoHandler
  BY MoveEffect
<1>2. HandlerLeads(h) /\ HandlerSettled(h) /\ HandlerBacked(h)
  BY DEF LineageInv, SettledInv, BackedInv
<1>3. CASE next = "done"
  <2>1. \A u \in Threads : op'[u] = NoHandler
    BY <1>3, MoveEffect
  <2>2. QED
    BY <2>1, IdlesSettled
<1>4. CASE next # "done"
  <2>1. op'[t] = g /\ \A u \in Threads \ {t} : op'[u] = NoHandler
    BY <1>4, MoveEffect
  <2>2. /\ g.step = next /\ g.kind = h.kind /\ g.from = h.from
        /\ g.to = h.to /\ g.next = h.next /\ g.id = h.id /\ g.key = h.key
    BY <1>1, SteppedFields
  <2>3. /\ next \in StepsOf(h.kind)
        /\ next \notin {"idle", "observe", "verdict"}
        /\ next = "propose" => h.step = "observe"
        /\ next = "plan" => h.step = "propose"
        /\ next = "frame" => h.step = "ref" /\ h.kind = "boot"
        /\ next = "state" =>
             h.step = "frame" /\ h.kind \in {"interact", "commit", "verify"}
        /\ next = "append" => h.step = "ref" /\ h.kind = "fork"
        /\ next = "job" =>
             h.step = "append" /\ h.kind \in {"interact", "commit"}
        /\ next = "head" =>
             \/ h.step = "job" /\ h.kind \in {"interact", "commit"}
             \/ h.step = "append" /\ h.kind = "verify"
        /\ next = "ref" => h.step = "head" /\ h.kind # "switch"
        /\ next = "memory" =>
             h.step = "ref" /\ h.kind \in {"interact", "commit"}
        /\ next = "deposit" => h.step = "memory" /\ h.kind = "interact"
    BY <1>1, <1>4, Predecessor
  <2>4. /\ states' = states
        /\ h.step # "append" => events' = events
        /\ h.step # "head" => head' = head
        /\ h.step # "ref" => refs' = refs
        /\ h.step = "ref" => refs' = [refs EXCEPT ![h.next.branch] = h.to]
        /\ h.step # "job" => jobs' = jobs
    BY DEF Moves
  <2>5. Wrote(g) => g.to = Len(states')
    <3>1. Wrote(g) => Wrote(h)
      BY <1>1, <2>2, <2>3 DEF Wrote, StepsOf
    <3>2. QED
      BY <1>2, <2>2, <2>4, <3>1 DEF HandlerSettled
  <2>6. Pending(g) => Len(states') = Len(events') + 2
    <3>1. Pending(g) => Pending(h) /\ h.step # "append"
      BY <1>1, <2>2, <2>3 DEF Pending, StepsOf
    <3>2. QED
      BY <1>2, <2>4, <3>1 DEF HandlerSettled
  <2>7. g.kind = "boot" => Len(events') = 0 /\ Len(states') = 1
    <3>1. g.kind = "boot" => h.step \notin {"append", "state"}
      BY <1>1, <2>2 DEF StepsOf
    <3>2. QED
      BY <1>2, <2>2, <2>4, <3>1 DEF HandlerSettled
  <2>8. g.kind = "boot" /\ g.step = "frame" =>
          head' = 1 /\ \A b \in Branches : b # Main => refs'[b] = 0
    <3>1. SUFFICES ASSUME h.kind = "boot", h.step = "ref"
                   PROVE  /\ head' = 1
                          /\ \A b \in Branches : b # Main => refs'[b] = 0
      BY <2>2, <2>3
    <3>2. head = h.to /\ \A b \in Branches : refs[b] = 0
      BY <1>2, <3>1 DEF HandlerLeads
    <3>3. h.to = 1
      BY <1>2, <3>1 DEF HandlerSettled, Wrote
    <3>4. h.next.branch = Main
      BY <1>2, <3>1 DEF HandlerBacked, Genesis
    <3>5. QED
      BY <1>1, <2>4, <3>1, <3>2, <3>3, <3>4
  <2>9. g.kind = "verify" => g.id = VerdictId(g.key, g.id.arg, g.id.text)
    BY <1>2, <2>2 DEF HandlerSettled
  <2>10. g.kind = "verify" /\ g.step \in {"frame", "state", "append"} =>
           jobs'[g.key].state = g.from
    <3>1. SUFFICES ASSUME h.kind = "verify", h.step = "frame"
                   PROVE  jobs'[h.key].state = h.from
      BY <2>2, <2>3
    <3>2. QED
      BY <1>2, <2>4, <3>1 DEF HandlerSettled
  <2>11. g.kind = "fork" => g.id = ForkId(g.next.branch, g.from)
    BY <1>2, <2>2 DEF HandlerSettled
  <2>12. g.kind = "fork" => g.step \in {"ref", "append"}
    BY <1>1, <2>2, <2>3 DEF StepsOf
  <2>13. g.kind = "fork" =>
           /\ refs'[states'[g.from].branch] = g.from
           /\ states'[g.from].branch # g.next.branch
    <3>1. CASE h.kind = "fork" /\ h.step = "head"
      <4>1. h.from = head /\ refs[h.next.branch] = 0 /\ phase = "serving"
        BY <1>1, <1>2, <3>1 DEF HandlerSettled, HandlerLeads, HandlerSound
      <4>2. head # 0 /\ \A u \in Threads : op[u].step # "ref"
        BY <1>1, <3>1, <4>1 DEF IInv, ServingInv, NoHandler
      <4>3. head = refs[states[head].branch]
        BY <4>2 DEF SettledInv, HeadIsLatest, current
      <4>4. QED
        BY <2>2, <2>4, <3>1, <4>1, <4>2, <4>3
    <3>2. CASE h.kind = "fork" /\ h.step = "ref"
      <4>1. /\ refs[states[h.from].branch] = h.from
            /\ states[h.from].branch # h.next.branch
        BY <1>2, <3>2 DEF HandlerSettled
      <4>2. h.from \in Ids
        BY <1>1, <3>2 DEF HandlerSound
      <4>3. states[h.from].branch \in Branches
        BY <4>2, BranchType
      <4>4. QED
        BY <1>1, <2>2, <2>4, <3>2, <4>1, <4>3
    <3>3. QED
      BY <2>2, <2>3, <2>12, <3>1, <3>2
  <2>14. g.kind = "fork" /\ g.step = "append" =>
           head' = g.to /\ NoneOn(g.next.branch, g.to - 1)'
    <3>1. SUFFICES ASSUME h.kind = "fork", h.step = "ref"
                   PROVE  head' = h.to /\ NoneOn(h.next.branch, h.to - 1)'
      BY <2>2, <2>3
    <3>2. head = h.to /\ refs[h.next.branch] = 0 /\ h.to \in Nat
      BY <1>1, <1>2, <3>1 DEF HandlerLeads, Handlers
    <3>3. ASSUME NEW j \in Ids, j <= h.to - 1
          PROVE  states[j].branch # h.next.branch
      <4>1. \A u \in Threads : Unsettled(op[u]) => op[u].to # j
        BY <1>1, <3>2, <3>3, IdleSettled DEF Ids
      <4>2. j <= refs[states[j].branch]
        BY <3>3, <4>1 DEF SettledInv, RefsAreLatest
      <4>3. QED
        BY <3>2, <3>3, <4>2 DEF Ids
    <3>4. QED
      BY <2>4, <3>1, <3>2, <3>3 DEF NoneOn, Ids
  <2>15. Unlogged(g) /\ g.step # "append" /\ ~Wrote(g) => Room'
    <3>1. SUFFICES ASSUME Unlogged(g), g.step # "append", ~Wrote(g)
                   PROVE  Room
      BY <2>4 DEF Room
    <3>2. g.step = "state"
      BY <2>2, <2>3, <2>12, <3>1 DEF Unlogged, Wrote
    <3>3. Unlogged(h) /\ h.step # "append" /\ ~Wrote(h)
      BY <2>2, <2>3, <3>2 DEF Unlogged, Wrote
    <3>4. QED
      BY <1>2, <3>3 DEF HandlerSettled
  <2>16. g.kind = "boot" => g.step # "state"
    BY <2>2, <2>3
  <2>17. HandlerSettled(g)'
    BY <2>5, <2>6, <2>7, <2>8, <2>9, <2>10, <2>11, <2>12, <2>13, <2>14,
       <2>15, <2>16 DEF HandlerSettled, Wrote, Pending, Unlogged
  <2>18. QED
    BY <2>1, <2>17, IdleSettled
<1>5. QED
  BY <1>3, <1>4

LEMMA NextSettled ==
  ASSUME IInv, IInv', BackedInv, LineageInv, SettledInv, crashes' = 0,
         [Next]_vars
  PROVE  \A u \in Threads : HandlerSettled(op[u])'
<1>1. ~Crash
  BY DEF Crash, IInv, TypeOK
<1>2. ASSUME NEW t \in Threads, Start(t)
      PROVE  \A u \in Threads : HandlerSettled(op[u])'
  BY <1>2, StartSettled DEF SettledInv
<1>3. ASSUME NEW t \in Threads, Receive(t)
      PROVE  \A u \in Threads : HandlerSettled(op[u])'
  BY <1>3, ReceiveShapes, EnterSettled
<1>4. ASSUME NEW t \in Threads, Step(t)
      PROVE  \A u \in Threads : HandlerSettled(op[u])'
  <2>1. CASE GivesUp(t)
    BY <2>1, ReturnEffect, IdlesSettled DEF GivesUp
  <2>2. CASE SaveVerdict(t)
    BY <2>2, VerdictSettled DEF SettledInv, LineageInv, BackedInv
  <2>3. QED
    BY <1>4, <2>1, <2>2, StepShapes, PlanSettled, SaveSettled, MoveSettled
<1>5. CASE UNCHANGED vars
  BY <1>5
  DEF vars, store, SettledInv, HandlerSettled, Wrote, Pending, Unlogged,
      Room, NoneOn, Ids
<1>6. QED
  BY <1>1, <1>2, <1>3, <1>4, <1>5 DEF Next

-----------------------------------------------------------------------------
(* The refs are the latest states of their branches.                       *)

(* A thread without a handler has no unsettled state.                      *)
LEMMA SettledWhenIdle ==
  ASSUME SettledInv, \A u \in Threads : ~Unsettled(op[u])
  PROVE  \A i \in Ids : i <= refs[states[i].branch]
BY DEF SettledInv, RefsAreLatest

LEMMA MoveKeepsLatest ==
  ASSUME IInv, BackedInv, LineageInv, SettledInv, NEW t \in Threads,
         Moves(t)
  PROVE  RefsAreLatest' /\ HeadIsLatest'
<1> PICK h : h = op[t]
  OBVIOUS
<1> PICK next : next = After(h.kind, h.step)
  OBVIOUS
<1> PICK g : g = [h EXCEPT !.step = next]
  OBVIOUS
<1> PICK to : to = h.to
  OBVIOUS
<1>1. /\ h \in Handlers /\ HandlerSound(h) /\ h.kind \in Kinds \ {"none"}
      /\ h.step \in StepsOf(h.kind)
      /\ h.step \notin {"idle", "plan", "verdict", "state"}
      /\ h.next.branch \in Branches /\ refs \in [Branches -> Nat]
      /\ \A u \in Threads \ {t} : op[u] = NoHandler
  BY MoveEffect
<1>2. HandlerLeads(h) /\ HandlerSettled(h) /\ HandlerBacked(h)
  BY DEF LineageInv, SettledInv, BackedInv
<1>3. /\ states' = states
      /\ h.step # "head" => head' = head
      /\ h.step = "head" => head' = to /\ to \in Ids
      /\ h.step # "ref" => refs' = refs
      /\ h.step = "ref" =>
           refs' = [refs EXCEPT ![h.next.branch] = to] /\ to \in Ids
  BY DEF Moves
<1>4. g.step = next /\ g.kind = h.kind /\ g.to = to
  BY <1>1, SteppedFields
<1>5. next # "done" => op'[t] = g
  BY MoveEffect
<1>6. \A u \in Threads : Unsettled(op[u]) => u = t
  BY <1>1, IdleSettled
<1>7. \A u \in Threads : op[u].step = "ref" => u = t
  BY <1>1 DEF NoHandler
<1>8. /\ Len(states) \in Nat
      /\ \A i \in Ids : i \in Nat /\ i <= Len(states)
                        /\ states[i].branch \in Branches
  BY BranchType DEF IInv, TypeOK, Ids
<1>9. RefsAreLatest'
  <2>1. SUFFICES ASSUME NEW i \in Ids
                 PROVE  \/ i <= refs'[states[i].branch]
                        \/ \E u \in Threads : Unsettled(op'[u]) /\ op'[u].to = i
    BY <1>3 DEF RefsAreLatest, Ids, Unsettled
  <2>2. CASE h.step = "ref"
    <3>1. to = Len(states) /\ states[to] = h.next
      BY <1>1, <1>2, <2>2 DEF HandlerSettled, Wrote, StepsOf, HandlerSound
    <3>2. CASE states[i].branch = h.next.branch
      BY <1>1, <1>3, <1>8, <2>2, <3>1, <3>2
    <3>3. CASE states[i].branch # h.next.branch
      <4>1. i # to
        BY <3>1, <3>3
      <4>2. i <= refs[states[i].branch]
        BY <1>6, <4>1 DEF SettledInv, RefsAreLatest
      <4>3. QED
        BY <1>1, <1>3, <1>8, <2>2, <3>3, <4>2
    <3>4. QED
      BY <3>2, <3>3
  <2>3. CASE h.step # "ref" /\ Unsettled(h)
    <3>1. /\ h.step \in {"append", "job", "head"}
          /\ h.kind \notin {"none", "switch"}
          /\ h.step = "append" => h.kind # "fork"
      BY <2>3 DEF Unsettled
    <3>2. next \in {"job", "head", "ref"}
      BY <1>1, <3>1 DEF After, StepsOf, Kinds
    <3>3. Unsettled(g)
      BY <1>4, <3>1, <3>2 DEF Unsettled
    <3>4. op'[t] = g
      BY <1>5, <3>2
    <3>5. i <= refs[states[i].branch] \/ i = to
      BY <1>6 DEF SettledInv, RefsAreLatest
    <3>6. QED
      BY <1>3, <1>4, <2>3, <3>3, <3>4, <3>5
  <2>4. CASE h.step # "ref" /\ ~Unsettled(h)
    BY <1>3, <1>6, <2>4, SettledWhenIdle
  <2>5. QED
    BY <2>2, <2>3, <2>4
<1>10. HeadIsLatest'
  <2>1. CASE h.step = "ref"
    <3>1. head = to /\ states[to] = h.next
      BY <1>1, <1>2, <2>1 DEF HandlerLeads, HandlerSound, Wrote, StepsOf
    <3>2. head' = to /\ refs'[states'[head'].branch] = to
      BY <1>1, <1>3, <2>1, <3>1
    <3>3. QED
      BY <3>2 DEF HeadIsLatest, current
  <2>2. CASE h.step = "head" /\ h.kind = "switch"
    <3>1. refs[states[to].branch] = to
      BY <1>2, <2>2 DEF HandlerLeads
    <3>2. head' = to /\ refs'[states'[head'].branch] = to
      BY <1>3, <2>2, <3>1
    <3>3. QED
      BY <3>2 DEF HeadIsLatest, current
  <2>3. CASE h.step = "head" /\ h.kind # "switch"
    <3>1. next = "ref"
      BY <2>3 DEF After
    <3>2. op'[t] = g /\ g.step = "ref"
      BY <1>4, <1>5, <3>1
    <3>3. QED
      BY <3>2 DEF HeadIsLatest
  <2>4. CASE h.step \notin {"head", "ref"}
    <3>1. head # 0 => head = refs[states[head].branch]
      BY <1>7, <2>4 DEF SettledInv, HeadIsLatest, current
    <3>2. QED
      BY <1>3, <2>4, <3>1 DEF HeadIsLatest, current
  <2>5. QED
    BY <2>1, <2>2, <2>3, <2>4
<1>11. QED
  BY <1>9, <1>10

LEMMA SaveKeepsLatest ==
  ASSUME IInv, IInv', BackedInv, LineageInv, SettledInv, NEW t \in Threads,
         SaveState(t)
  PROVE  RefsAreLatest' /\ HeadIsLatest'
<1> PICK g : g = op'[t]
  OBVIOUS
<1> PICK next : next = op[t].next
  OBVIOUS
<1>1. /\ \A u \in Threads \ {t} : op'[u] = NoHandler
      /\ UNCHANGED <<head, refs>>
      /\ op[t].step = "state"
      /\ g.kind \in {"boot", "interact", "commit", "verify", "fork"}
      /\ g.step = IF g.kind \in {"boot", "fork"} THEN "head" ELSE "append"
      /\ \A i \in Ids : i \in Ids' /\ states'[i] = states[i]
  BY SaveEffect
<1>2. states' = Append(states, next) /\ g.to = Len(states) + 1
  BY SaveSettled
<1>3. next \in StateRecords /\ states \in Seq(StateRecords)
  BY DEF IInv, TypeOK, Handlers
<1>4. Ids' = Ids \cup {Len(states) + 1}
  BY <1>2, <1>3 DEF Ids
<1>5. \A u \in Threads : ~Unsettled(op[u]) /\ op[u].step # "ref"
  <2>1. \A u \in Threads \ {t} : op[u] = NoHandler
    BY <1>1, OwnerActs
  <2>2. QED
    BY <1>1, <2>1, IdleSettled DEF Unsettled, NoHandler
<1>6. \A i \in Ids : i <= refs[states[i].branch]
  BY <1>5, SettledWhenIdle
<1>7. Unsettled(g)
  BY <1>1 DEF Unsettled
<1>8. RefsAreLatest'
  <2>1. ASSUME NEW i \in Ids'
        PROVE  \/ i <= refs'[states'[i].branch]
               \/ \E u \in Threads : Unsettled(op'[u]) /\ op'[u].to = i
    BY <1>1, <1>2, <1>4, <1>6, <1>7, <2>1
  <2>2. QED
    BY <2>1 DEF RefsAreLatest, Unsettled
<1>9. HeadIsLatest'
  <2>1. CASE head = 0
    BY <1>1, <2>1 DEF HeadIsLatest
  <2>2. CASE head # 0
    <3>1. head = refs[current.branch]
      BY <1>5, <2>2 DEF SettledInv, HeadIsLatest
    <3>2. head \in Ids
      BY <2>2 DEF IInv, RefsNameSavedStates
    <3>3. current' = current
      BY <1>1, <3>2 DEF current
    <3>4. QED
      BY <1>1, <3>1, <3>3 DEF HeadIsLatest
  <2>3. QED
    BY <2>1, <2>2
<1>10. QED
  BY <1>8, <1>9

(* A handler that had no unsettled state and moved no ref keeps the rest.  *)
LEMMA QuietKeepsLatest ==
  ASSUME SettledInv, UNCHANGED <<states, head, refs>>,
         \A u \in Threads : ~Unsettled(op[u]) /\ op[u].step # "ref"
  PROVE  RefsAreLatest' /\ HeadIsLatest'
<1>1. \A i \in Ids : i <= refs[states[i].branch]
  BY SettledWhenIdle
<1>2. head # 0 => head = refs[current.branch]
  BY DEF SettledInv, HeadIsLatest
<1>3. QED
  BY <1>1, <1>2 DEF RefsAreLatest, HeadIsLatest, current, Ids

LEMMA NextLatest ==
  ASSUME IInv, IInv', BackedInv, LineageInv, SettledInv, crashes' = 0,
         [Next]_vars
  PROVE  RefsAreLatest' /\ HeadIsLatest'
<1>1. ~Crash
  BY DEF Crash, IInv, TypeOK
<1>2. CASE \A u \in Threads : op[u] = NoHandler
  <2>1. \A u \in Threads : ~Unsettled(op[u]) /\ op[u].step # "ref"
    BY <1>2, IdleSettled DEF NoHandler
  <2>2. ASSUME NEW t \in Threads, Step(t)
        PROVE  FALSE
    <3>1. op[t].step = "idle"
      BY <1>2 DEF NoHandler
    <3>2. QED
      BY <2>2, <3>1, StepShapes, PlanEffect, VerdictEffect, SaveEffect
      DEF GivesUp, Moves, PlanCommit, At
  <2>3. UNCHANGED <<states, head, refs>>
    <3>1. ASSUME NEW t \in Threads, Start(t)
          PROVE  UNCHANGED <<states, head, refs>>
      BY <3>1 DEF Start, store
    <3>2. ASSUME NEW t \in Threads, Receive(t)
          PROVE  UNCHANGED <<states, head, refs>>
      BY <3>2, ReceiveShapes, EnterEffect
    <3>3. CASE UNCHANGED vars
      BY <3>3 DEF vars, store
    <3>4. QED
      BY <1>1, <2>2, <3>1, <3>2, <3>3 DEF Next
  <2>4. QED
    BY <2>1, <2>3, QuietKeepsLatest
<1>3. ASSUME NEW t \in Threads, Step(t)
      PROVE  RefsAreLatest' /\ HeadIsLatest'
  <2>1. CASE GivesUp(t) \/ PlanCommit(t) \/ SaveVerdict(t)
    <3>1. op[t].step \in {"propose", "plan", "frame", "verdict"}
      BY <2>1 DEF GivesUp, PlanCommit, SaveVerdict, At, SettledInv, LogReads
    <3>2. \A u \in Threads \ {t} : op[u] = NoHandler
      BY <3>1, OwnerActs
    <3>3. \A u \in Threads : ~Unsettled(op[u]) /\ op[u].step # "ref"
      BY <3>1, <3>2, IdleSettled DEF Unsettled, NoHandler
    <3>4. UNCHANGED <<states, head, refs>>
      BY <2>1 DEF GivesUp, PlanCommit, SaveVerdict, store
    <3>5. QED
      BY <3>3, <3>4, QuietKeepsLatest
  <2>2. QED
    BY <1>3, <2>1, StepShapes, SaveKeepsLatest, MoveKeepsLatest
<1>4. CASE \E u \in Threads : op[u] # NoHandler
  <2>1. \A t \in Threads : ~Start(t) /\ ~Receive(t)
    <3>1. ASSUME NEW t \in Threads, Start(t)
          PROVE  FALSE
      BY <1>4, <3>1 DEF Start, IInv, ServingInv, MutualExclusion
    <3>2. ASSUME NEW t \in Threads, Receive(t)
          PROVE  FALSE
      BY <1>4, <3>2, ReceiveShapes, EnterEffect
    <3>3. QED
      BY <3>1, <3>2
  <2>2. CASE UNCHANGED vars
    BY <2>2
    DEF vars, store, SettledInv, RefsAreLatest, HeadIsLatest, current,
        Unsettled, Ids
  <2>3. QED
    BY <1>1, <1>3, <2>1, <2>2 DEF Next
<1>5. QED
  BY <1>2, <1>4

-----------------------------------------------------------------------------
(* Every saved state but the first has its event.                          *)

(* What a step that saves no state and appends no event keeps.             *)
LEMMA CountStays ==
  ASSUME SettledInv, UNCHANGED <<states, events>>, phase' = phase,
         phase # "down",
         \A u \in Threads : ~Pending(op[u])
  PROVE  StatesAreLogged'
BY DEF SettledInv, StatesAreLogged

LEMMA MoveKeepsLogged ==
  ASSUME IInv, IInv', LineageInv, SettledInv, NEW t \in Threads, Moves(t)
  PROVE  StatesAreLogged'
<1> PICK h : h = op[t]
  OBVIOUS
<1> PICK next : next = After(h.kind, h.step)
  OBVIOUS
<1> PICK g : g = [h EXCEPT !.step = next]
  OBVIOUS
<1>1. /\ h \in Handlers /\ HandlerSound(h) /\ h.kind \in Kinds \ {"none"}
      /\ h.step \in StepsOf(h.kind)
      /\ h.step \notin {"idle", "plan", "verdict", "state"}
      /\ \A u \in Threads \ {t} : op[u] = NoHandler
  BY MoveEffect
<1>2. HandlerSettled(h)
  BY DEF SettledInv
<1>3. /\ states' = states
      /\ h.step # "append" => events' = events
      /\ h.step = "append" => events' = Append(events, NewEvent(t))
  BY DEF Moves
<1>4. g.step = next /\ g.kind = h.kind
  BY <1>1, SteppedFields
<1>5. \/ next = "done" /\ phase' = "serving"
      \/ next # "done" /\ phase' = phase /\ op'[t] = g
  BY MoveEffect
<1>6. phase \in {"booting", "serving"} /\ (h.kind # "boot" => phase = "serving")
  BY <1>1, OwnerActs DEF HandlerSound
<1>7. Len(states) \in Nat /\ Len(events) \in Nat
  BY DEF IInv, TypeOK
<1>8. CASE h.kind = "boot"
  <2>1. h.step # "append" /\ phase = "booting"
    BY <1>1, <1>8 DEF StepsOf, HandlerSound
  <2>2. Len(events') = 0 /\ Len(states') = 1
    BY <1>1, <1>2, <1>3, <1>8, <2>1 DEF HandlerSettled
  <2>3. phase' # "down"
    BY <1>5, <2>1
  <2>4. states # <<>> => states[1] = Genesis
    BY DEF SettledInv, StatesAreLogged
  <2>5. QED
    BY <1>3, <2>2, <2>3, <2>4 DEF StatesAreLogged
<1>9. CASE h.kind # "boot" /\ h.step = "append"
  <2>1. Len(states) = Len(events) + 2
    BY <1>1, <1>2, <1>9 DEF HandlerSettled, Pending, StepsOf, Kinds
  <2>2. NewEvent(t) \in EventRecords /\ events \in Seq(EventRecords)
    BY NewEventType DEF IInv, TypeOK
  <2>3. Len(events') = Len(events) + 1
    BY <1>3, <1>9, <2>2
  <2>4. phase = "serving" /\ phase' = "serving"
    BY <1>5, <1>6, <1>9
  <2>5. /\ states # <<>> => states[1] = Genesis
        /\ Len(states) <= MaxStates \/ Len(states) = 1
    BY <2>4 DEF SettledInv, StatesAreLogged
  <2>6. QED
    BY <1>3, <1>7, <2>1, <2>3, <2>4, <2>5 DEF StatesAreLogged
<1>10. CASE h.kind # "boot" /\ h.step # "append"
  <2>1. phase = "serving" /\ phase' = "serving"
    BY <1>5, <1>6, <1>10
  <2>2. states' = states /\ events' = events
    BY <1>3, <1>10
  <2>3. CASE Pending(h)
    <3>1. h.kind = "fork" /\ h.step \in {"head", "ref"}
      BY <1>10, <2>3 DEF Pending
    <3>2. next \in {"ref", "append"}
      BY <3>1 DEF After
    <3>3. Pending(g) /\ op'[t] = g
      BY <1>4, <1>5, <3>1, <3>2 DEF Pending
    <3>4. (\E u \in Threads : Pending(op[u]))'
      BY <3>3 DEF Pending
    <3>5. QED
      BY <2>1, <2>2, <3>4 DEF SettledInv, StatesAreLogged
  <2>4. CASE ~Pending(h)
    <3>1. \A u \in Threads : ~Pending(op[u])
      BY <1>1, <2>4, IdleSettled
    <3>2. QED
      BY <2>1, <2>2, <3>1, CountStays
  <2>5. QED
    BY <2>3, <2>4
<1>11. QED
  BY <1>8, <1>9, <1>10

LEMMA SaveKeepsLogged ==
  ASSUME IInv, IInv', BackedInv, LineageInv, SettledInv, NEW t \in Threads,
         SaveState(t)
  PROVE  StatesAreLogged'
<1> PICK h : h = op[t]
  OBVIOUS
<1> PICK g : g = op'[t]
  OBVIOUS
<1>1. /\ h.step = "state" /\ g.kind = h.kind
      /\ h.kind \in {"boot", "interact", "commit", "verify", "fork"}
      /\ g.step = IF g.kind \in {"boot", "fork"} THEN "head" ELSE "append"
      /\ phase' = phase /\ events' = events
  BY SaveEffect
<1>2. states' = Append(states, h.next)
  BY SaveSettled
<1>3. h.next \in StateRecords /\ states \in Seq(StateRecords)
  BY DEF IInv, TypeOK, Handlers
<1>4. /\ Len(states') = Len(states) + 1 /\ Len(states) \in Nat
      /\ \A i \in 1 .. Len(states) : states'[i] = states[i]
      /\ states'[Len(states) + 1] = h.next
  BY <1>2, <1>3
<1>5. HandlerSound(h) /\ HandlerSettled(h) /\ HandlerBacked(h)
      /\ phase \in {"booting", "serving"}
  BY <1>1, OwnerActs DEF SettledInv, BackedInv
<1>6. CASE h.kind = "boot"
  <2>1. Len(states) = 0 /\ h.next = Genesis /\ phase = "booting"
    BY <1>1, <1>5, <1>6
    DEF HandlerSettled, HandlerBacked, HandlerSound
  <2>2. QED
    BY <1>1, <1>4, <2>1 DEF StatesAreLogged
<1>7. CASE h.kind # "boot"
  <2>1. phase = "serving" /\ h.from \in Ids
    BY <1>1, <1>5, <1>7 DEF HandlerSound
  <2>2. Pending(g)
    BY <1>1, <1>7 DEF Pending
  <2>3. (\E u \in Threads : Pending(op[u]))'
    BY <2>2 DEF Pending
  <2>4. Len(states) \in Nat /\ Len(states) >= 1
    BY <1>4, <2>1 DEF Ids
  <2>5. states # <<>>
    BY <2>4
  <2>6. states'[1] = Genesis
    BY <1>4, <2>4, <2>5 DEF SettledInv, StatesAreLogged
  <2>7. Room
    BY <1>1, <1>5, <1>7 DEF HandlerSettled, Unlogged, Wrote
  <2>8. Len(states') <= MaxStates
    BY <1>4, <2>7 DEF Room
  <2>9. QED
    BY <1>1, <2>1, <2>3, <2>6, <2>8 DEF StatesAreLogged
<1>8. QED
  BY <1>6, <1>7

LEMMA NextLogged ==
  ASSUME IInv, IInv', BackedInv, LineageInv, SettledInv, crashes' = 0,
         [Next]_vars
  PROVE  StatesAreLogged'
<1>1. ~Crash
  BY DEF Crash, IInv, TypeOK
<1>2. ASSUME NEW t \in Threads, Start(t)
      PROVE  StatesAreLogged'
  <2>1. /\ states = <<>> /\ events = <<>> /\ head = 0
        /\ UNCHANGED <<states, events, head>> /\ phase' = "booting"
    BY <1>2 DEF Start, SettledInv, StatesAreLogged, store
  <2>2. QED
    BY <2>1 DEF StatesAreLogged
<1>3. ASSUME NEW t \in Threads, Receive(t)
      PROVE  StatesAreLogged'
  <2>1. /\ UNCHANGED <<states, events>> /\ phase' = phase
        /\ phase = "serving" /\ \A u \in Threads : op[u] = NoHandler
    BY <1>3, ReceiveShapes, EnterEffect
  <2>2. QED
    BY <2>1, CountStays, IdleSettled
<1>4. ASSUME NEW t \in Threads, Step(t)
      PROVE  StatesAreLogged'
  <2>1. CASE PlanCommit(t) \/ SaveVerdict(t)
    <3>1. op[t].step \in {"plan", "verdict"}
      BY <2>1 DEF PlanCommit, SaveVerdict, At
    <3>2. \A u \in Threads \ {t} : op[u] = NoHandler
      BY <3>1, OwnerActs
    <3>3. \A u \in Threads : ~Pending(op[u])
      BY <3>1, <3>2, IdleSettled DEF Pending
    <3>4. /\ UNCHANGED <<states, events>> /\ phase' = phase
          /\ phase = "serving"
      BY <2>1, PlanEffect, VerdictEffect DEF store
    <3>5. QED
      BY <3>3, <3>4, CountStays
  <2>2. CASE GivesUp(t)
    <3>1. op[t].step \in {"propose", "plan", "frame"}
          /\ UNCHANGED <<states, events>> /\ phase' = "serving"
      BY <2>2 DEF GivesUp, SettledInv, LogReads, store, Return
    <3>2. /\ \A u \in Threads \ {t} : op[u] = NoHandler
          /\ HandlerSound(op[t]) /\ HandlerSettled(op[t])
          /\ op[t].kind \in Kinds \ {"none"}
      BY <3>1, OwnerActs DEF SettledInv
    <3>3. \A u \in Threads : ~Pending(op[u])
      BY <3>1, <3>2, IdleSettled DEF Pending
    <3>4. CASE op[t].kind = "boot"
      <4>1. Len(events) = 0 /\ Len(states) = 1
        BY <3>1, <3>2, <3>4 DEF HandlerSettled
      <4>2. QED
        BY <3>1, <4>1 DEF SettledInv, StatesAreLogged
    <3>5. CASE op[t].kind # "boot"
      BY <3>1, <3>2, <3>3, <3>5, CountStays DEF HandlerSound
    <3>6. QED
      BY <3>4, <3>5
  <2>3. QED
    BY <1>4, <2>1, <2>2, StepShapes, SaveKeepsLogged, MoveKeepsLogged
<1>5. CASE UNCHANGED vars
  BY <1>5 DEF vars, store, SettledInv, StatesAreLogged, Pending
<1>6. QED
  BY <1>1, <1>2, <1>3, <1>4, <1>5 DEF Next
-----------------------------------------------------------------------------
(* The events of a branch.                                                 *)

(* An event stays what it is while states are added and jobs are judged.   *)
LEMMA EventStaysSettled ==
  ASSUME IInv, StoreGrows, NEW i \in 1 .. Len(events),
         EventSettled(i, events[i])
  PROVE  EventSettled(i, events[i])'
<1> PICK e : e = events[i]
  OBVIOUS
<1>1. e.parent \in Ids /\ e.result \in Ids /\ EventSettled(i, e)
  BY DEF IInv, LogIsSound
<1>2. i + 1 \in Ids /\ i \in Nat /\ Len(states) \in Nat
  BY <1>1 DEF EventSettled, IInv, TypeOK
<1>3. events'[i] = e
  BY DEF StoreGrows
<1>4. states'[e.parent] = states[e.parent]
  BY <1>1 DEF StoreGrows
<1>5. \A j \in Ids' : j <= i => j \in Ids /\ states'[j] = states[j]
  BY <1>2 DEF StoreGrows, Ids
<1>6. e.kind = "verify" =>
        e.id.key \in DOMAIN jobs' /\ jobs'[e.id.key].state = e.parent
  BY <1>1 DEF EventSettled, StoreGrows
<1>7. EventSettled(i, e)'
  BY <1>1, <1>4, <1>5, <1>6 DEF EventSettled, NoneOn
<1>8. QED
  BY <1>3, <1>7

LEMMA NewEventSettled ==
  ASSUME IInv, BackedInv, LineageInv, SettledInv, NEW t \in Threads,
         op[t].step = "append"
  PROVE  EventSettled(Len(events) + 1, NewEvent(t))
<1> PICK h : h = op[t]
  OBVIOUS
<1> PICK e : e = NewEvent(t)
  OBVIOUS
<1> PICK i : i = Len(events) + 1
  OBVIOUS
<1>1. /\ h \in Handlers /\ HandlerSound(h) /\ h.kind \in Kinds \ {"none"}
      /\ \A u \in Threads \ {t} : op[u] = NoHandler
      /\ h.step = "append"
  BY OwnerActs DEF IInv, TypeOK
<1>2. HandlerLeads(h) /\ HandlerSettled(h) /\ HandlerBacked(h)
  BY DEF LineageInv, SettledInv, BackedInv
<1>3. h.kind \in {"interact", "commit", "verify", "fork"}
  BY <1>1 DEF HandlerSound, StepsOf, Kinds
<1>4. /\ e.kind = h.kind /\ e.id = h.id /\ e.branch = h.next.branch
      /\ e.parent = h.from /\ e.result = h.to
  BY DEF NewEvent
<1>5. /\ Len(states) = i + 1 /\ h.to = i + 1 /\ i \in Nat
      /\ phase = "serving" /\ states[h.to] = h.next
  BY <1>1, <1>2, <1>3
  DEF HandlerSettled, Pending, Wrote, HandlerSound, IInv, TypeOK
<1>6. e.kind # "fork" =>
        /\ states[e.parent].branch = e.branch
        /\ \A j \in Ids : e.parent < j /\ j <= i => states[j].branch # e.branch
  <2>1. SUFFICES ASSUME h.kind \in {"interact", "commit", "verify"}
                 PROVE  /\ states[h.from].branch = h.next.branch
                        /\ \A j \in Ids : h.from < j /\ j <= i =>
                             states[j].branch # h.next.branch
    BY <1>3, <1>4
  <2>2. h.from = head /\ h.next.branch = current.branch
    BY <1>1, <1>2, <2>1 DEF HandlerLeads, Committing
  <2>3. head # 0 /\ head \in Nat
    BY <1>5 DEF IInv, ServingInv, TypeOK
  <2>4. ASSUME NEW u \in Threads
        PROVE  op[u].step # "ref"
    <3>1. NoHandler.step # "ref"
      BY DEF NoHandler
    <3>2. CASE u = t
      BY <1>1, <3>2
    <3>3. CASE u # t
      BY <1>1, <3>1, <3>3
    <3>4. QED
      BY <3>2, <3>3
  <2>5. head = refs[h.next.branch]
    BY <2>2, <2>3, <2>4 DEF SettledInv, HeadIsLatest
  <2>6. ASSUME NEW j \in Ids, h.from < j, j <= i
        PROVE  states[j].branch # h.next.branch
    <3>1. j # h.to /\ j \in Nat
      BY <1>5, <2>6 DEF Ids
    <3>2. \A u \in Threads : Unsettled(op[u]) => op[u].to # j
      BY <1>1, <3>1, IdleSettled
    <3>3. j <= refs[states[j].branch]
      BY <3>2 DEF SettledInv, RefsAreLatest
    <3>4. QED
      BY <2>2, <2>3, <2>5, <2>6, <3>1, <3>3
  <2>7. QED
    BY <2>2, <2>6 DEF current
<1>7. e.kind \in {"interact", "commit"} => e.id.origin = "client"
  <2>1. \A x : ClientId(x).origin = "client"
    BY DEF ClientId, LogId
  <2>2. h.kind \in {"interact", "commit"} => h.id = ClientId(h.key.event)
    BY <1>2 DEF HandlerBacked, FromClient
  <2>3. QED
    BY <1>4, <2>1, <2>2
<1>8. e.kind = "verify" =>
        /\ e.id.origin = "verdict"
        /\ e.id.key \in DOMAIN jobs /\ jobs[e.id.key].state = e.parent
  <2>1. SUFFICES ASSUME h.kind = "verify"
                 PROVE  /\ h.id.origin = "verdict"
                        /\ h.id.key \in DOMAIN jobs
                        /\ jobs[h.id.key].state = h.from
    BY <1>4
  <2>2. h.id = VerdictId(h.key, h.id.arg, h.id.text) /\ jobs[h.key].state = h.from
    BY <1>1, <1>2, <2>1 DEF HandlerSettled
  <2>3. h.id.origin = "verdict" /\ h.id.key = h.key
    BY <2>2 DEF VerdictId, LogId
  <2>4. h.key \in DOMAIN jobs
    BY <1>2, <2>1 DEF HandlerBacked
  <2>5. QED
    BY <2>2, <2>3, <2>4
<1>9. e.kind = "fork" => e.id = ForkId(e.branch, e.parent) /\ NoneOn(e.branch, i)
  <2>1. SUFFICES ASSUME h.kind = "fork"
                 PROVE  /\ h.id = ForkId(h.next.branch, h.from)
                        /\ NoneOn(h.next.branch, i)
    BY <1>4
  <2>2. NoneOn(h.next.branch, h.to - 1)
    BY <1>1, <1>2, <2>1 DEF HandlerSettled
  <2>3. h.to - 1 = i
    BY <1>5
  <2>4. h.id = ForkId(h.next.branch, h.from)
    BY <1>2, <2>1 DEF HandlerSettled
  <2>5. QED
    BY <2>2, <2>3, <2>4
<1>10. EventSettled(i, e)
  BY <1>3, <1>4, <1>5, <1>6, <1>7, <1>8, <1>9 DEF EventSettled
<1>11. QED
  BY <1>10

LEMMA NextEvents ==
  ASSUME IInv, IInv', BackedInv, LineageInv, SettledInv, StoreGrows,
         Undisturbed', [Next]_vars
  PROVE  tail' = "whole" /\ \A i \in 1 .. Len(events') : EventSettled(i, events[i])'
<1>1. ~Crash /\ tail' # "torn"
  BY DEF Undisturbed, LogReads, Crash, IInv, TypeOK
<1>2. \A i \in 1 .. Len(events) : EventSettled(i, events[i])'
  BY EventStaysSettled DEF SettledInv
<1>3. CASE (events' = events /\ tail' = tail)
  BY <1>2, <1>3 DEF SettledInv
<1>4. ASSUME NEW t \in Threads, Moves(t), op[t].step = "append"
      PROVE  tail' = "whole"
             /\ \A i \in 1 .. Len(events') : EventSettled(i, events[i])'
  <2> PICK e : e = NewEvent(t)
    OBVIOUS
  <2> PICK n : n = Len(events) + 1
    OBVIOUS
  <2>1. /\ events' = Append(events, e) /\ states' = states /\ jobs' = jobs
        /\ tail' = "whole"
    BY <1>1, <1>4 DEF Moves
  <2>2. e \in EventRecords /\ events \in Seq(EventRecords)
    BY <1>4, NewEventType DEF IInv, TypeOK
  <2>3. Len(events') = n /\ events'[n] = e /\ n \in Nat /\ Len(events) \in Nat
    BY <2>1, <2>2
  <2>4. EventSettled(n, e)
    BY <1>4, NewEventSettled
  <2>5. EventSettled(n, e)'
    BY <2>1, <2>4 DEF EventSettled, NoneOn, Ids
  <2>6. ASSUME NEW i \in 1 .. Len(events')
        PROVE  EventSettled(i, events[i])'
    <3>1. CASE i \in 1 .. Len(events)
      BY <1>2, <3>1
    <3>2. CASE i = n
      BY <2>3, <2>5, <3>2
    <3>3. QED
      BY <2>3, <2>6, <3>1, <3>2
  <2>7. QED
    BY <2>1, <2>6
<1>5. ASSUME NEW t \in Threads, Step(t)
      PROVE  (events' = events /\ tail' = tail) \/ (Moves(t) /\ op[t].step = "append")
  <2>1. CASE Moves(t)
    BY <2>1 DEF Moves
  <2>2. CASE ~Moves(t)
    BY <1>5, <2>2, StepShapes
    DEF GivesUp, PlanCommit, SaveVerdict, SaveState, store
  <2>3. QED
    BY <2>1, <2>2
<1>6. ASSUME NEW t \in Threads, Start(t)
      PROVE  (events' = events /\ tail' = tail)
  BY <1>6 DEF Start, store
<1>7. ASSUME NEW t \in Threads, Receive(t)
      PROVE  (events' = events /\ tail' = tail)
  BY <1>7, ReceiveShapes, EnterEffect
<1>8. UNCHANGED vars => events' = events /\ tail' = tail
  BY DEF vars, store
<1>9. \/ \E t \in Threads : Moves(t) /\ op[t].step = "append"
      \/ (events' = events /\ tail' = tail)
  <2>1. CASE Next
    BY <1>1, <1>5, <1>6, <1>7, <2>1 DEF Next
  <2>2. CASE ~Next
    BY <1>8, <2>2
  <2>3. QED
    BY <2>1, <2>2
<1>10. QED
  BY <1>3, <1>4, <1>9
-----------------------------------------------------------------------------
(* The inductive invariant of undisturbed histories.                       *)

LEMMA InitSettled == Init => UndisturbedInv
<1>1. SUFFICES ASSUME Init
               PROVE  SettledInv
  BY DEF UndisturbedInv
<1>2. /\ tail = "whole" /\ states = <<>> /\ events = <<>> /\ head = 0
      /\ phase = "down" /\ \A u \in Threads : op[u] = NoHandler
  BY <1>1 DEF Init
<1>3. \A u \in Threads : HandlerSettled(op[u])
  BY <1>2, IdleSettled
<1>4. Len(states) = 0 /\ Len(events) = 0
  BY <1>2
<1>5. RefsAreLatest /\ HeadIsLatest
  BY <1>2, <1>4 DEF RefsAreLatest, HeadIsLatest, Ids
<1>6. StatesAreLogged
  BY <1>2 DEF StatesAreLogged
<1>7. \A i \in 1 .. Len(events) : EventSettled(i, events[i])
  BY <1>4
<1>8. QED
  BY <1>2, <1>3, <1>5, <1>6, <1>7 DEF SettledInv

LEMMA OnlyKillsCount ==
  ASSUME IInv, [Next]_vars, ~Crash
  PROVE  crashes' = crashes
<1>1. ASSUME NEW t \in Threads, Start(t) \/ Receive(t) \/ Step(t)
      PROVE  crashes' = crashes
  <2>1. CASE Start(t)
    BY <2>1 DEF Start
  <2>2. CASE Receive(t)
    BY <2>2, ReceiveShapes, EnterEffect
  <2>3. CASE Step(t)
    BY <2>3, StepShapes
    DEF GivesUp, PlanCommit, SaveVerdict, SaveState, Moves
  <2>4. QED
    BY <1>1, <2>1, <2>2, <2>3
<1>2. CASE UNCHANGED vars
  BY <1>2 DEF vars
<1>3. QED
  BY <1>1, <1>2 DEF Next

LEMMA CrashesGrow ==
  ASSUME IInv, [Next]_vars, crashes' = 0
  PROVE  crashes = 0
<1>1. CASE Crash
  BY <1>1 DEF Crash, IInv, TypeOK
<1>2. CASE ~Crash
  BY <1>2, OnlyKillsCount
<1>3. QED
  BY <1>1, <1>2

(* A disturbed store stays so. *)
LEMMA DisturbanceStays ==
  ASSUME IInv, [Next]_vars, Undisturbed'
  PROVE  crashes' = 0 /\ Undisturbed
<1>1. crashes' = 0 /\ tail' # "torn"
  BY DEF Undisturbed, LogReads
<1>2. crashes = 0
  BY <1>1, CrashesGrow
<1>3. tail # "torn"
  BY <1>1, OnlyAppendsWrite
<1>4. QED
  BY <1>1, <1>2, <1>3 DEF Undisturbed, LogReads

LEMMA NextUndisturbed ==
  ASSUME IInv, IInv', BackedInv, LineageInv, UndisturbedInv, [Next]_vars
  PROVE  UndisturbedInv'
<1>1. SUFFICES ASSUME Undisturbed'
               PROVE  SettledInv'
  BY DEF UndisturbedInv
<1>2. crashes' = 0 /\ Undisturbed
  BY <1>1, DisturbanceStays
<1>3. SettledInv
  BY <1>2 DEF UndisturbedInv
<1>4. StoreGrows
  BY NextGrows DEF BackedInv
<1>5. \A u \in Threads : HandlerSettled(op[u])'
  BY <1>2, <1>3, NextSettled
<1>6. RefsAreLatest' /\ HeadIsLatest'
  BY <1>2, <1>3, NextLatest
<1>7. StatesAreLogged'
  BY <1>2, <1>3, NextLogged
<1>8. tail' = "whole" /\ \A i \in 1 .. Len(events') : EventSettled(i, events[i])'
  BY <1>1, <1>3, <1>4, NextEvents
<1>9. QED
  BY <1>5, <1>6, <1>7, <1>8 DEF SettledInv

(* In an undisturbed store every state but genesis has an event,           *)
(* every ref is the last state of its branch once the writes of a handler  *)
(* are done, and an event continues the last state of its branch.          *)
THEOREM Settled ==
  Spec => [](IInv /\ BackedInv /\ LineageInv /\ UndisturbedInv)
<1>1. Init => IInv /\ BackedInv /\ LineageInv /\ UndisturbedInv
  BY InitInv, InitBacked, InitLeads, InitSettled
<1>2. IInv /\ BackedInv /\ LineageInv /\ UndisturbedInv /\ [Next]_vars
        => (IInv /\ BackedInv /\ LineageInv /\ UndisturbedInv)'
  BY NextInv, NextBacked, NextLineage, NextUndisturbed
<1>3. QED
  BY <1>1, <1>2, PTL DEF Spec
-----------------------------------------------------------------------------
(* The log replays to the refs.                                            *)

LEMMA LastOnNone ==
  ASSUME NEW b, NEW n \in Nat, \A j \in 1 .. n : events[j].branch # b
  PROVE  LastOn(b, n) = 0
<1>1. {j \in 1 .. n : events[j].branch = b} = {}
  OBVIOUS
<1>2. QED
  BY <1>1 DEF LastOn

LEMMA LastOnIs ==
  ASSUME NEW b, NEW n \in Nat, NEW k \in 1 .. n, events[k].branch = b,
         \A j \in 1 .. n : events[j].branch = b => j <= k
  PROVE  LastOn(b, n) = k
<1> DEFINE on == {j \in 1 .. n : events[j].branch = b}
<1>1. k \in on /\ \A j \in on : j <= k
  OBVIOUS
<1>2. \A i \in on : (\A j \in on : j <= i) => i = k
  BY <1>1
<1>3. (CHOOSE i \in on : \A j \in on : j <= i) = k
  <2>1. \E i \in on : \A j \in on : j <= i
    BY <1>1
  <2> HIDE DEF on
  <2>2. LET c == CHOOSE i \in on : \A j \in on : j <= i
        IN  c \in on /\ \A j \in on : j <= c
    BY <2>1
  <2>3. QED
    BY <1>2, <2>2
<1>4. on # {}
  BY <1>1
<1>5. QED
  BY <1>3, <1>4 DEF LastOn

(* An event's state, on the branch that the event names.                   *)
LEMMA EventState ==
  ASSUME IInv, BackedInv, SettledInv, NEW i \in 1 .. Len(events)
  PROVE  /\ events[i].result = i + 1 /\ i + 1 \in Ids
         /\ states[i + 1].branch = events[i].branch
         /\ states[i + 1].parent = events[i].parent
         /\ events[i].parent \in Ids /\ events[i].parent \in 1 .. i
<1>1. events[i].result = i + 1
  BY DEF SettledInv, EventSettled
<1>2. /\ events[i].result \in Ids /\ events[i].parent \in Ids
      /\ states[events[i].result].parent = events[i].parent
      /\ states[events[i].result].branch = events[i].branch
  BY DEF IInv, LogIsSound
<1>3. states[i + 1].parent \in 0 .. (i + 1) - 1
  BY <1>1, <1>2 DEF BackedInv, ParentsAreOlder
<1>4. QED
  BY <1>1, <1>2, <1>3 DEF Ids

(* A commit or a verdict continues the last event of its branch.           *)
LEMMA EventsChain ==
  ASSUME IInv, BackedInv, SettledInv, NEW i \in 1 .. Len(events),
         events[i].kind # "fork"
  PROVE  LET before == LastOn(events[i].branch, i - 1)
         IN  events[i].parent =
               IF before = 0 THEN 1 ELSE events[before].result
<1> PICK b : b = events[i].branch
  OBVIOUS
<1> PICK p : p = events[i].parent
  OBVIOUS
<1>1. p \in Ids /\ p \in 1 .. i /\ i - 1 \in Nat /\ Len(events) \in Nat
  BY EventState DEF IInv, TypeOK
<1>2. /\ states[p].branch = b
      /\ \A j \in Ids : p < j /\ j <= i => states[j].branch # b
  BY DEF SettledInv, EventSettled
<1>3. ASSUME NEW j \in 1 .. i - 1, events[j].branch = b
      PROVE  j + 1 <= p
  <2>1. j \in 1 .. Len(events)
    BY <1>1
  <2>2. j + 1 \in Ids /\ states[j + 1].branch = b
    BY <1>3, <2>1, EventState
  <2>3. QED
    BY <1>1, <1>2, <2>2
<1>4. CASE p = 1
  <2>1. \A j \in 1 .. i - 1 : events[j].branch # b
    BY <1>1, <1>3, <1>4
  <2>2. LastOn(b, i - 1) = 0
    BY <1>1, <2>1, LastOnNone
  <2>3. QED
    BY <1>4, <2>2
<1>5. CASE p # 1
  <2> PICK k : k = p - 1
    OBVIOUS
  <2>1. k \in 1 .. i - 1 /\ k \in 1 .. Len(events) /\ k + 1 = p
    BY <1>1, <1>5
  <2>2. events[k].result = p /\ events[k].branch = b
    BY <1>2, <2>1, EventState
  <2>3. \A j \in 1 .. i - 1 : events[j].branch = b => j <= k
    BY <1>1, <1>3, <2>1
  <2>4. LastOn(b, i - 1) = k
    <3> PICK n : n = i - 1
      OBVIOUS
    <3>1. n \in Nat /\ k \in 1 .. n
      BY <1>1, <2>1
    <3>2. \A j \in 1 .. n : events[j].branch = b => j <= k
      BY <2>3
    <3>3. LastOn(b, n) = k
      BY <2>2, <3>1, <3>2, LastOnIs
    <3> QED BY <3>3
  <2>5. QED
    BY <2>1, <2>2, <2>4
<1>6. QED
  BY <1>4, <1>5

(* What a branch shows while no handler runs.                              *)
LEMMA RefsReplay ==
  ASSUME IInv, BackedInv, SettledInv, Idle, NEW b \in Branches
  PROVE  LET last == LastOn(b, Len(events))
         IN  refs[b] = IF last # 0 THEN events[last].result
                       ELSE IF b = Main THEN 1 ELSE 0
<1> PICK r : r = refs[b]
  OBVIOUS
<1> PICK n : n = Len(events)
  OBVIOUS
<1>1. \A t \in Threads : op[t] = NoHandler
  BY DEF Idle, IInv, ServingInv, MutualExclusion
<1>2. /\ phase = "serving" /\ n \in Nat /\ r \in Nat
      /\ Len(states) = n + 1 /\ states[1] = Genesis
  <2>1. \A t \in Threads : ~Pending(op[t])
    BY <1>1, IdleSettled
  <2>2. phase = "serving" /\ n \in Nat /\ r \in Nat
    BY DEF Idle, IInv, TypeOK
  <2>3. Len(states) = n + 1
    BY <2>1, <2>2 DEF SettledInv, StatesAreLogged
  <2>4. states # <<>>
    BY <2>2, <2>3
  <2>5. QED
    BY <2>2, <2>3, <2>4 DEF SettledInv, StatesAreLogged
<1>3. \A i \in Ids : i <= refs[states[i].branch]
  BY <1>1, IdleSettled, SettledWhenIdle
<1>4. ASSUME NEW j \in 1 .. n, events[j].branch = b
      PROVE  j + 1 <= r
  BY <1>3, <1>4, EventState
<1>5. r # 0 => r \in Ids /\ states[r].branch = b
  BY DEF IInv, RefsNameSavedStates
<1>6. 1 \in Ids /\ states[1].branch = Main
  BY <1>2 DEF Genesis, Ids
<1>7. CASE r \in {0, 1}
  <2>1. \A j \in 1 .. n : events[j].branch # b
    BY <1>4, <1>7
  <2>2. LastOn(b, n) = 0
    BY <1>2, <2>1, LastOnNone
  <2>3. r = IF b = Main THEN 1 ELSE 0
    BY <1>2, <1>3, <1>5, <1>6, <1>7
  <2>4. QED
    BY <2>2, <2>3
<1>8. CASE r \notin {0, 1}
  <2> PICK k : k = r - 1
    OBVIOUS
  <2>1. r \in Ids
    BY <1>5, <1>8
  <2>2. k \in 1 .. n /\ k + 1 = r
    BY <1>2, <1>8, <2>1 DEF Ids
  <2>3. events[k].result = r /\ events[k].branch = b
    BY <1>5, <1>8, <2>2, EventState
  <2>4. \A j \in 1 .. n : events[j].branch = b => j <= k
    BY <1>2, <1>4, <2>2
  <2>5. LastOn(b, n) = k
    BY <1>2, <2>2, <2>3, <2>4, LastOnIs
  <2>6. QED
    BY <2>2, <2>3, <2>5
<1>9. QED
  BY <1>7, <1>8

(* Event sourcing: if the process was never killed and no payload has cut  *)
(* a line of the log, the events of a branch form one chain, the chain     *)
(* ends at the branch's ref, and HEAD is the ref of its branch             *)
(* (commit_proposal, verify_render, create_branch, set_ref).               *)
THEOREM LogAlwaysReplays == Spec => []LogReplaysToRefs
<1>1. IInv /\ BackedInv /\ UndisturbedInv => LogReplaysToRefs
  <2>1. SUFFICES ASSUME IInv, BackedInv, SettledInv
                 PROVE  LogReplaysToRefs
    BY DEF UndisturbedInv, LogReplaysToRefs
  <2>2. Idle => head = refs[current.branch]
    <3>1. SUFFICES ASSUME Idle
                   PROVE  head = refs[current.branch]
      OBVIOUS
    <3>2. NoHandler.step # "ref"
      BY DEF NoHandler
    <3>3. \A t \in Threads : op[t].step # "ref"
      BY <2>1, <3>1, <3>2
      DEF Idle, IInv, ServingInv, MutualExclusion
    <3>4. head # 0
      BY <2>1, <3>1 DEF Idle, IInv, ServingInv
    <3>5. QED
      BY <2>1, <3>3, <3>4 DEF SettledInv, HeadIsLatest
  <2>3. QED
    BY <2>1, <2>2, EventsChain, RefsReplay DEF LogReplaysToRefs
<1>2. QED
  BY <1>1, Settled, PTL
-----------------------------------------------------------------------------
(***************************************************************************)
(* Replay beside the handlers.                                             *)
(***************************************************************************)

AuditOK ==
  /\ audit \in [step : {"log", "refs", "done"}, ok : BOOLEAN, seen : Nat]
  /\ ReplayNeverAlarms

(* No two events have the same id: a client's is refused the second time,  *)
(* a verdict's names the job whose state it continues, and a fork's the    *)
(* branch it is the first event of.                                        *)
LEMMA EventIdsDiffer ==
  ASSUME IInv, BackedInv, SettledInv, NEW j \in 1 .. Len(events),
         NEW i \in 1 .. j - 1
  PROVE  events[i].id # events[j].id
<1> PICK e : e = events[i]
  OBVIOUS
<1> PICK f : f = events[j]
  OBVIOUS
<1>0. i \in 1 .. Len(events) /\ i < j /\ i + 1 <= j /\ i # j
      /\ i \in Nat /\ j \in Nat
  BY DEF IInv, TypeOK
<1>1. SUFFICES ASSUME e.id = f.id
               PROVE  FALSE
  OBVIOUS
<1>2. EventSettled(i, e) /\ EventSettled(j, f)
  BY <1>0 DEF SettledInv
<1>3. \A b, p : ForkId(b, p).origin = "fork" /\ ForkId(b, p).arg = b
  BY DEF ForkId, LogId
<1>4. /\ e.kind \in {"interact", "commit"} => e.id.origin = "client"
      /\ e.kind = "verify" => e.id.origin = "verdict"
      /\ e.kind = "fork" => e.id.origin = "fork" /\ e.id.arg = e.branch
      /\ e.kind \in {"interact", "commit", "verify", "fork"}
  BY <1>2, <1>3 DEF EventSettled
<1>5. /\ f.kind \in {"interact", "commit"} => f.id.origin = "client"
      /\ f.kind = "verify" => f.id.origin = "verdict"
      /\ f.kind = "fork" => f.id.origin = "fork" /\ f.id.arg = f.branch
      /\ f.kind \in {"interact", "commit", "verify", "fork"}
  BY <1>2, <1>3 DEF EventSettled
<1>6. e.id.origin # "client"
  BY <1>0, <1>1 DEF IInv, AtMostOnceCommit
<1>7. /\ i + 1 \in Ids /\ states[i + 1].branch = e.branch
      /\ e.parent \in 1 .. i
  BY <1>0, EventState
<1>8. CASE e.kind = "fork"
  <2>1. f.kind = "fork" /\ f.branch = e.branch
    BY <1>1, <1>4, <1>5, <1>8
  <2>2. NoneOn(f.branch, j)
    BY <1>2, <2>1 DEF EventSettled
  <2>3. QED
    BY <1>0, <1>7, <2>1, <2>2 DEF NoneOn
<1>9. CASE e.kind = "verify"
  <2>1. f.kind = "verify"
    BY <1>1, <1>4, <1>5, <1>9
  <2>2. e.parent = jobs[e.id.key].state /\ f.parent = jobs[f.id.key].state
    BY <1>2, <1>9, <2>1 DEF EventSettled
  <2>3. f.parent = e.parent
    BY <1>1, <2>2
  <2>4. e.kind # "fork" /\ f.kind # "fork"
    BY <1>9, <2>1
  <2>5. states[e.parent].branch = e.branch
    BY <1>2, <2>4 DEF EventSettled
  <2>6. /\ states[f.parent].branch = f.branch
        /\ \A k \in Ids : f.parent < k /\ k <= j => states[k].branch # f.branch
    BY <1>2, <2>4 DEF EventSettled
  <2>7. f.branch = e.branch
    BY <2>3, <2>5, <2>6
  <2>8. e.parent < i + 1
    BY <1>0, <1>7
  <2>9. QED
    BY <1>0, <1>7, <2>3, <2>6, <2>7, <2>8
<1>10. QED
  BY <1>4, <1>6, <1>8, <1>9

LEMMA LogVerifies ==
  ASSUME IInv, BackedInv, SettledInv
  PROVE  LogVerified
<1>1. ASSUME NEW i \in 1 .. Len(events)
      PROVE  /\ events[i].index = i
             /\ events[i].parent \in Ids /\ events[i].result \in Ids
  BY DEF IInv, LogIsSound
<1>2. QED
  BY <1>1, EventIdsDiffer DEF LogVerified, StateExists

LEMMA RefsVerify ==
  ASSUME IInv
  PROVE  RefsVerified
BY DEF IInv, RefsNameSavedStates, RefsVerified, StateExists

LEMMA AuditTakesStep ==
  ASSUME [AuditNext]_auditVars
  PROVE  [Next]_vars
BY DEF AuditNext, EngineStep, AuditLog, AuditRefs, AuditAgain, auditVars

LEMMA AuditStep ==
  ASSUME IInv, IInv', BackedInv, UndisturbedInv, AuditOK, [AuditNext]_auditVars
  PROVE  AuditOK'
<1>1. LogVerified \in BOOLEAN /\ RefsVerified \in BOOLEAN
  BY DEF LogVerified, RefsVerified
<1>2. NewAudit \in [step : {"log", "refs", "done"}, ok : BOOLEAN, seen : Nat]
      /\ NewAudit.ok = TRUE
  BY DEF NewAudit
<1>3. CASE AuditLog
  <2>1. UNCHANGED vars /\ crashes' = crashes
        /\ audit' = [step |-> "refs", ok |-> LogVerified, seen |-> Len(events)]
    BY <1>3 DEF AuditLog, vars
  <2>2. crashes = 0 => LogVerified
    <3>1. LogReads
      BY <1>3 DEF AuditLog
    <3>2. QED
      BY <3>1, LogVerifies DEF UndisturbedInv, Undisturbed
  <2>3. Len(events) \in Nat
    BY DEF IInv, TypeOK
  <2>4. audit' \in [step : {"log", "refs", "done"}, ok : BOOLEAN, seen : Nat]
    BY <1>1, <2>1, <2>3
  <2>5. audit'.ok = LogVerified
    BY <2>1
  <2>6. QED
    BY <2>1, <2>2, <2>4, <2>5 DEF AuditOK, ReplayNeverAlarms
<1>4. CASE AuditRefs
  <2>1. UNCHANGED vars /\ crashes' = crashes
        /\ audit' = [audit EXCEPT !.step = "done", !.ok = @ /\ RefsVerified]
    BY <1>4 DEF AuditRefs, vars
  <2>2. audit' \in [step : {"log", "refs", "done"}, ok : BOOLEAN, seen : Nat]
    BY <1>1, <2>1 DEF AuditOK
  <2>3. audit'.ok = (audit.ok /\ RefsVerified)
    BY <2>1 DEF AuditOK
  <2>4. QED
    BY <2>1, <2>2, <2>3, RefsVerify DEF AuditOK, ReplayNeverAlarms
<1>5. CASE AuditAgain
  <2>1. UNCHANGED vars /\ audit' = NewAudit
    BY <1>5 DEF AuditAgain
  <2>2. QED
    BY <1>2, <2>1 DEF AuditOK, ReplayNeverAlarms
<1>6. CASE EngineStep
  <2>1. Next /\ (audit' = NewAudit \/ audit' = audit)
    BY <1>6 DEF EngineStep
  <2>2. crashes' = 0 => crashes = 0
    BY <2>1, CrashesGrow
  <2>3. QED
    BY <1>2, <2>1, <2>2 DEF AuditOK, ReplayNeverAlarms
<1>7. CASE UNCHANGED auditVars
  <2>1. UNCHANGED vars /\ audit' = audit /\ crashes' = crashes
    BY <1>7 DEF auditVars, vars
  <2>2. QED
    BY <2>1 DEF AuditOK, ReplayNeverAlarms
<1>8. QED
  BY <1>3, <1>4, <1>5, <1>6, <1>7 DEF AuditNext

(* Unless the process was killed, POST /v1/replay never reports a problem, *)
(* in whatever order its unlocked reads (verify_replay) and the writes of  *)
(* commits, verdicts, forks and switches are interleaved.                  *)
THEOREM ReplayIsQuiet == AuditSpec => []ReplayNeverAlarms
<1> DEFINE HistoryInv == IInv /\ BackedInv /\ LineageInv /\ UndisturbedInv
<1>1. AuditInit => HistoryInv /\ AuditOK
  BY InitInv, InitBacked, InitLeads, InitSettled
  DEF AuditInit, AuditOK, NewAudit, ReplayNeverAlarms
<1>2. HistoryInv /\ AuditOK /\ [AuditNext]_auditVars
        => (HistoryInv /\ AuditOK)'
  <2>1. SUFFICES ASSUME HistoryInv, AuditOK, [AuditNext]_auditVars
                 PROVE  (HistoryInv /\ AuditOK)'
    OBVIOUS
  <2>2. [Next]_vars
    BY <2>1, AuditTakesStep
  <2>3. IInv' /\ BackedInv'
    BY <2>1, <2>2, NextInv, NextBacked
  <2>4. LineageInv' /\ UndisturbedInv'
    BY <2>1, <2>2, <2>3, NextLineage, NextUndisturbed
  <2>5. AuditOK'
    BY <2>1, <2>3, AuditStep
  <2>6. QED
    BY <2>3, <2>4, <2>5
<1>3. AuditOK => ReplayNeverAlarms
  BY DEF AuditOK
<1>4. QED
  BY <1>1, <1>2, <1>3, PTL DEF AuditSpec
-----------------------------------------------------------------------------
(***************************************************************************)
(* SurfaceEngine implements WorldHistory.                                  *)
(***************************************************************************)

(* What the handlers in progress show of the refs.                         *)

LEMMA BootWorld ==
  ~Booted => /\ worldTips = [b \in Branches |-> IF b = Main THEN 1 ELSE 0]
             /\ worldActive = Main
BY DEF worldTips, worldActive

LEMMA BootWorldNext ==
  (~Booted => /\ worldTips = [b \in Branches |-> IF b = Main THEN 1 ELSE 0]
              /\ worldActive = Main)'
BY BootWorld, PTL

LEMMA PlainWorld ==
  IInv /\ Booted /\ (\A t \in Threads : ~Appended(t) /\ ~Forking(t))
    => worldTips = refs /\ worldActive = current.branch
<1>1. SUFFICES ASSUME IInv, Booted,
                      \A t \in Threads : ~Appended(t) /\ ~Forking(t)
               PROVE  worldTips = refs /\ worldActive = current.branch
  OBVIOUS
<1>2. refs = [b \in Branches |-> refs[b]]
  BY <1>1 DEF IInv, TypeOK
<1>3. worldTips = [b \in Branches |-> refs[b]]
  BY <1>1 DEF worldTips
<1>4. QED
  BY <1>1, <1>2, <1>3 DEF worldActive

LEMMA PlainWorldNext ==
  (IInv /\ Booted /\ (\A t \in Threads : ~Appended(t) /\ ~Forking(t))
     => worldTips = refs /\ worldActive = current.branch)'
BY PlainWorld, PTL

LEMMA AppendedWorld ==
  \A t \in Threads :
    IInv /\ Booted /\ Appended(t)
      => /\ worldTips = [refs EXCEPT ![op[t].next.branch] = op[t].to]
         /\ worldActive = current.branch
<1>1. SUFFICES ASSUME NEW t \in Threads, IInv, Booted, Appended(t)
               PROVE  /\ worldTips = [refs EXCEPT ![op[t].next.branch] = op[t].to]
                      /\ worldActive = current.branch
  OBVIOUS
<1>2. op[t].step # "idle" /\ op[t].kind # "fork"
  BY <1>1 DEF Appended
<1>3. lock = t /\ \A u \in Threads \ {t} : op[u] = NoHandler
  BY <1>1, <1>2, OwnerActs
<1>4. NoHandler.kind = "none"
  BY DEF NoHandler
<1>5. \A u \in Threads : (Appended(u) <=> u = t) /\ ~Forking(u)
  BY <1>1, <1>2, <1>3, <1>4 DEF Appended, Forking
<1>6. worldTips = [b \in Branches |->
                     IF op[t].next.branch = b THEN op[t].to ELSE refs[b]]
  BY <1>1, <1>3, <1>5 DEF worldTips
<1>7. refs \in [Branches -> Nat]
  BY <1>1 DEF IInv, TypeOK
<1>8. QED
  BY <1>1, <1>5, <1>6, <1>7 DEF worldActive

LEMMA AppendedWorldNext ==
  (\A t \in Threads :
     IInv /\ Booted /\ Appended(t)
       => /\ worldTips = [refs EXCEPT ![op[t].next.branch] = op[t].to]
          /\ worldActive = current.branch)'
BY AppendedWorld, PTL

LEMMA ForkingWorld ==
  \A t \in Threads :
    IInv /\ Booted /\ Forking(t)
      => /\ worldTips = [refs EXCEPT ![op[t].next.branch] = 0]
         /\ worldActive = states[op[t].from].branch
<1>1. SUFFICES ASSUME NEW t \in Threads, IInv, Booted, Forking(t)
               PROVE  /\ worldTips = [refs EXCEPT ![op[t].next.branch] = 0]
                      /\ worldActive = states[op[t].from].branch
  OBVIOUS
<1>2. op[t].step # "idle" /\ op[t].kind = "fork"
  BY <1>1 DEF Forking
<1>3. lock = t /\ \A u \in Threads \ {t} : op[u] = NoHandler
  BY <1>1, <1>2, OwnerActs
<1>4. NoHandler.kind = "none"
  BY DEF NoHandler
<1>5. \A u \in Threads : (Forking(u) <=> u = t) /\ ~Appended(u)
  BY <1>1, <1>2, <1>3, <1>4 DEF Appended, Forking
<1>6. worldTips = [b \in Branches |->
                     IF op[t].next.branch = b THEN 0 ELSE refs[b]]
  BY <1>1, <1>5 DEF worldTips
<1>7. refs \in [Branches -> Nat]
  BY <1>1 DEF IInv, TypeOK
<1>8. QED
  BY <1>1, <1>3, <1>5, <1>6, <1>7 DEF worldActive

LEMMA ForkingWorldNext ==
  (\A t \in Threads :
     IInv /\ Booted /\ Forking(t)
       => /\ worldTips = [refs EXCEPT ![op[t].next.branch] = 0]
          /\ worldActive = states[op[t].from].branch)'
BY ForkingWorld, PTL

LEMMA FunctionIsSequence ==
  ASSUME NEW E, NEW n \in Nat, NEW f \in [1 .. n -> E]
  PROVE  f \in Seq(E) /\ Len(f) = n
BY SeqDef, LenProperties

LEMMA LogStays ==
  ASSUME events' = events
  PROVE  worldLog' = worldLog
BY DEF worldLog

LEMMA LogLength ==
  ASSUME IInv
  PROVE  /\ worldLog \in Seq([branch : Branches, parent : Nat, result : Nat])
         /\ Len(worldLog) = Len(events)
<1> DEFINE E == [branch : Branches, parent : Nat, result : Nat]
<1>1. Len(events) \in Nat /\ events \in Seq(EventRecords)
  BY DEF IInv, TypeOK
<1>2. \A i \in 1 .. Len(events) : events[i] \in EventRecords
  BY <1>1
<1>3. worldLog \in [1 .. Len(events) -> E]
  BY <1>2 DEF worldLog, EventRecords
<1> HIDE DEF E
<1>4. worldLog \in Seq(E) /\ Len(worldLog) = Len(events)
  BY <1>1, <1>3, FunctionIsSequence
<1>5. QED
  BY <1>4 DEF E

LEMMA LogAppends ==
  ASSUME IInv, NEW e \in EventRecords, events' = Append(events, e)
  PROVE  worldLog' = Append(worldLog, WH!Entry(e.branch, e.parent, e.result))
<1> PICK n : n = Len(events)
  OBVIOUS
<1> PICK x : x = [branch |-> e.branch, parent |-> e.parent, result |-> e.result]
  OBVIOUS
<1> DEFINE E == [branch : Branches, parent : Nat, result : Nat]
<1>1. n \in Nat /\ events \in Seq(EventRecords)
  BY DEF IInv, TypeOK
<1>2. \A i \in 1 .. n : events[i] \in EventRecords
  BY <1>1
<1>3. x \in E
  BY DEF EventRecords
<1>4. worldLog \in Seq(E) /\ Len(worldLog) = n
  BY LogLength
<1> HIDE DEF E
<1>5. /\ Len(events') = n + 1 /\ events'[n + 1] = e
      /\ \A i \in 1 .. n : events'[i] = events[i]
  BY <1>1
<1>6. worldLog' = [i \in 1 .. n + 1 |->
                     IF i = n + 1 THEN x ELSE worldLog[i]]
  BY <1>1, <1>5 DEF worldLog
<1>7. worldLog' = Append(worldLog, x)
  <2> PICK log : log = worldLog
    OBVIOUS
  <2> PICK grown : grown = Append(log, x)
    OBVIOUS
  <2>1. grown \in Seq(E) /\ Len(grown) = n + 1
    BY <1>1, <1>3, <1>4
  <2>2. \A i \in 1 .. n + 1 : grown[i] = IF i = n + 1 THEN x ELSE log[i]
    BY <1>1, <1>3, <1>4
  <2> PICK whole : whole = worldLog'
    OBVIOUS
  <2>3. whole = [i \in 1 .. n + 1 |-> IF i = n + 1 THEN x ELSE log[i]]
    BY <1>6
  <2>4. /\ \A i \in 1 .. n + 1 : whole[i] = IF i = n + 1 THEN x ELSE log[i]
        /\ \A i \in 1 .. n + 1 : whole[i] \in E
    BY <1>1, <1>3, <1>4, <2>3
  <2>5. whole \in [1 .. n + 1 -> E]
    BY <2>3, <2>4
  <2>6. whole \in Seq(E) /\ Len(whole) = n + 1
    <3>1. n + 1 \in Nat
      BY <1>1
    <3> QED BY <2>5, <3>1, FunctionIsSequence
  <2>7. whole = grown
    BY <2>1, <2>2, <2>4, <2>6, SeqEqual
  <2>8. QED
    BY <2>7
<1>8. QED
  BY <1>7 DEF WH!Entry

(* A new state is not known to the history.                                *)
LEMMA NewIsUnknown ==
  ASSUME IInv, SettledInv, NEW new \in Nat, new > Len(events) + 1
  PROVE  new \notin WH!Known
<1>1. Len(events) \in Nat
  BY DEF IInv, TypeOK
<1>2. Len(worldLog) = Len(events)
  BY <1>1, LogLength
<1>3. \A i \in 1 .. Len(events) : worldLog[i].result = i + 1
  BY DEF worldLog, SettledInv, EventSettled
<1>4. QED
  BY <1>1, <1>2, <1>3 DEF WH!Known

(* Steps that the history does not see.                                    *)

Still ==
  worldLog' = worldLog /\ worldTips' = worldTips /\ worldActive' = worldActive

LEMMA IdleIsPlain ==
  /\ \A u \in Threads : op[u] = NoHandler => ~Appended(u) /\ ~Forking(u)
  /\ \A u \in Threads :
       op'[u] = NoHandler => ~(Appended(u)') /\ ~(Forking(u)')
<1>1. NoHandler.kind = "none"
  BY DEF NoHandler
<1>2. QED
  BY <1>1 DEF Appended, Forking

LEMMA CurrentStays ==
  ASSUME IInv, StoreGrows, head' = head, head # 0
  PROVE  current'.branch = current.branch
BY DEF IInv, RefsNameSavedStates, StoreGrows, current

LEMMA ServingIsBooted ==
  (IInv /\ phase = "serving" => Booted /\ head # 0)
  /\ (IInv /\ phase = "serving" => Booted /\ head # 0)'
BY DEF IInv, ServingInv, Booted

LEMMA PlainStep ==
  ASSUME IInv, IInv', StoreGrows, NEW t \in Threads,
         \A u \in Threads \ {t} : op[u] = NoHandler /\ op'[u] = NoHandler,
         phase = "serving", phase' = "serving",
         head' = head, refs' = refs, events' = events,
         ~Appended(t), ~Forking(t), ~(Appended(t)'), ~(Forking(t)')
  PROVE  Still
<1>1. /\ \A u \in Threads : ~Appended(u) /\ ~Forking(u)
      /\ \A u \in Threads : ~(Appended(u)') /\ ~(Forking(u)')
  BY IdleIsPlain
<1>2. Booted /\ Booted' /\ head # 0
  BY ServingIsBooted
<1>3. worldTips = refs /\ worldActive = current.branch
  BY <1>1, <1>2, PlainWorld
<1>4. worldTips' = refs' /\ worldActive' = current'.branch
  BY <1>1, <1>2, PlainWorldNext
<1>5. QED
  BY <1>2, <1>3, <1>4, CurrentStays, LogStays DEF Still

LEMMA BootStep ==
  ASSUME ~Booted, ~(Booted'), events' = events
  PROVE  Still
<1>1. /\ worldTips = [b \in Branches |-> IF b = Main THEN 1 ELSE 0]
      /\ worldActive = Main
  BY BootWorld
<1>2. /\ worldTips' = [b \in Branches |-> IF b = Main THEN 1 ELSE 0]
      /\ worldActive' = Main
  BY BootWorldNext
<1>3. QED
  BY <1>1, <1>2, LogStays DEF Still

(* The server opens on the world that boot has made.                       *)
LEMMA BootOpens ==
  ASSUME IInv, IInv', LineageInv, SettledInv, NEW t \in Threads,
         op[t].kind = "boot", op[t].step = "frame",
         \A u \in Threads : op'[u] = NoHandler, phase' = "serving",
         states' = states, head' = head, refs' = refs, events' = events
  PROVE  Still
<1>1. /\ HandlerSound(op[t]) /\ HandlerSettled(op[t])
      /\ \A u \in Threads \ {t} : op[u] = NoHandler
  BY OwnerActs DEF SettledInv
<1>2. phase = "booting" /\ ~Booted
  BY <1>1 DEF HandlerSound, Booted
<1>3. head = 1 /\ \A b \in Branches : b # Main => refs[b] = 0
  BY <1>1 DEF HandlerSettled
<1>4. head \in Ids
  BY <1>3 DEF IInv, RefsNameSavedStates
<1>5. states[1] = Genesis
  BY <1>3, <1>4 DEF SettledInv, StatesAreLogged, Ids
<1>6. current.branch = Main
  BY <1>3, <1>5 DEF current, Genesis
<1>7. NoHandler.step # "ref"
  BY DEF NoHandler
<1>8. \A u \in Threads : op[u].step # "ref"
  BY <1>1, <1>7
<1>9. refs[Main] = 1
  BY <1>3, <1>6, <1>8 DEF SettledInv, HeadIsLatest
<1>10. refs = [b \in Branches |-> IF b = Main THEN 1 ELSE 0]
  BY <1>3, <1>9 DEF IInv, TypeOK
<1>11. Booted' /\ \A u \in Threads : ~(Appended(u)') /\ ~(Forking(u)')
  BY ServingIsBooted, IdleIsPlain
<1>12. worldTips' = refs' /\ worldActive' = current'.branch
  BY <1>11, PlainWorldNext
<1>13. current' = current
  BY DEF current
<1>14. /\ worldTips = [b \in Branches |-> IF b = Main THEN 1 ELSE 0]
       /\ worldActive = Main
  BY <1>2, BootWorld
<1>15. QED
  BY <1>6, <1>10, <1>12, <1>13, <1>14, LogStays DEF Still
-----------------------------------------------------------------------------
(* Steps that the history sees.                                            *)

(* A commit or a verdict takes effect when its event is appended.          *)
LEMMA CommitExtends ==
  ASSUME IInv, IInv', LineageInv, SettledInv, NEW t \in Threads, Moves(t),
         op[t].step = "append", op[t].kind # "fork"
  PROVE  WorldStep
<1> PICK h : h = op[t]
  OBVIOUS
<1>1. /\ h \in Handlers /\ HandlerSound(h) /\ h.kind \in Kinds \ {"none"}
      /\ h.step = "append" /\ h.kind # "fork"
      /\ h.next.branch \in Branches /\ refs \in [Branches -> Nat]
      /\ \A u \in Threads \ {t} : op[u] = NoHandler
  BY MoveEffect
<1>2. HandlerLeads(h) /\ HandlerSettled(h)
  BY DEF LineageInv, SettledInv
<1>3. h.kind \in {"interact", "commit", "verify"}
  BY <1>1 DEF HandlerSound, StepsOf, Kinds
<1>4. /\ phase = "serving" /\ Len(events) \in Nat
      /\ Len(states) = Len(events) + 2 /\ h.to = Len(events) + 2
  BY <1>1, <1>2, <1>3
  DEF HandlerSettled, Pending, Wrote, HandlerSound, IInv, TypeOK
<1>5. h.to \in 1 .. MaxStates
  BY <1>4 DEF SettledInv, StatesAreLogged
<1>6. h.from = head /\ h.next.branch = current.branch
  BY <1>1, <1>2, <1>3 DEF HandlerLeads, Committing
<1>7. Booted /\ head # 0
  BY <1>4, ServingIsBooted
<1>8. head = refs[current.branch]
  <2>1. NoHandler.step # "ref"
    BY DEF NoHandler
  <2>2. \A u \in Threads : op[u].step # "ref"
    BY <1>1, <2>1
  <2>3. QED
    BY <1>7, <2>2 DEF SettledInv, HeadIsLatest
<1>9. worldTips = refs /\ worldActive = current.branch
  <2>1. ~Appended(t) /\ ~Forking(t)
    BY <1>1 DEF Appended, Forking
  <2>2. \A u \in Threads : ~Appended(u) /\ ~Forking(u)
    BY <1>1, <2>1, IdleIsPlain
  <2>3. QED
    BY <1>7, <2>2, PlainWorld
<1>10. /\ phase' = phase /\ op'[t].kind = h.kind
       /\ op'[t].step \in {"job", "head"}
       /\ op'[t].next = h.next /\ op'[t].to = h.to
  <2> PICK next : next = After(h.kind, h.step)
    OBVIOUS
  <2>1. next \in {"job", "head"} /\ next # "done"
    BY <1>1, <1>3 DEF After
  <2>2. phase' = phase /\ op'[t] = [h EXCEPT !.step = next]
    BY <2>1, MoveEffect
  <2>3. h.kind = op'[t].kind /\ op'[t].step = next /\ op'[t].next = h.next
        /\ op'[t].to = h.to
    BY <1>1, <2>2 DEF Handlers
  <2>4. QED
    BY <2>1, <2>2, <2>3
<1>11. /\ states' = states /\ head' = head /\ refs' = refs
       /\ events' = Append(events, NewEvent(t))
  BY <1>1 DEF Moves
<1>12. worldTips' = [refs EXCEPT ![current.branch] = h.to]
       /\ worldActive' = current.branch
  <2>1. Appended(t)'
    BY <1>3, <1>10 DEF Appended
  <2>2. Booted'
    BY <1>4, <1>10, ServingIsBooted
  <2>3. /\ worldTips' = [refs' EXCEPT ![op'[t].next.branch] = op'[t].to]
        /\ worldActive' = current'.branch
    BY <2>1, <2>2, AppendedWorldNext
  <2>4. current' = current
    BY <1>11 DEF current
  <2>5. QED
    BY <1>6, <1>10, <1>11, <2>3, <2>4
<1>13. worldLog' = Append(worldLog, WH!Entry(current.branch, head, h.to))
  <2>1. NewEvent(t) \in EventRecords
    BY NewEventType DEF IInv
  <2>2. /\ NewEvent(t).branch = h.next.branch
        /\ NewEvent(t).parent = h.from /\ NewEvent(t).result = h.to
    BY DEF NewEvent
  <2>3. QED
    BY <1>6, <1>11, <2>1, <2>2, LogAppends
<1>14. h.to \notin WH!Known
  BY <1>4, NewIsUnknown
<1>15. WH!Extend(h.to)
  BY <1>8, <1>9, <1>12, <1>13, <1>14 DEF WH!Extend
<1>16. QED
  BY <1>5, <1>15 DEF WorldStep

(* A fork takes effect when its event is appended, after its refs.         *)
LEMMA ForkForks ==
  ASSUME IInv, IInv', LineageInv, SettledInv, NEW t \in Threads, Moves(t),
         op[t].step = "append", op[t].kind = "fork"
  PROVE  WorldStep
<1> PICK h : h = op[t]
  OBVIOUS
<1> PICK b : b = h.next.branch
  OBVIOUS
<1>1. /\ h \in Handlers /\ HandlerSound(h)
      /\ h.step = "append" /\ h.kind = "fork"
      /\ b \in Branches /\ refs \in [Branches -> Nat]
      /\ \A u \in Threads : op'[u] = NoHandler
      /\ phase' = "serving"
  <2> PICK next : next = After(h.kind, h.step)
    OBVIOUS
  <2>1. next = "done"
    BY DEF After
  <2>2. h.step = "append" /\ h.kind = "fork"
    OBVIOUS
  <2>3. QED
    BY <2>1, <2>2, MoveEffect
<1>2. HandlerLeads(h) /\ HandlerSettled(h)
  BY DEF LineageInv, SettledInv
<1>3. phase = "serving" /\ h.from \in Ids
      /\ h.to \in Ids /\ states[h.to] = h.next
  BY <1>1 DEF HandlerSound, Wrote
<1>4. /\ Len(events) \in Nat
      /\ Len(states) = Len(events) + 2 /\ h.to = Len(events) + 2
  BY <1>1, <1>2 DEF HandlerSettled, Pending, Wrote, IInv, TypeOK
<1>5. h.to \in 1 .. MaxStates
  BY <1>3, <1>4 DEF SettledInv, StatesAreLogged
<1>6. refs[b] = h.to
  BY <1>1, <1>2 DEF HandlerLeads
<1>7. /\ head = h.to
      /\ refs[states[h.from].branch] = h.from /\ states[h.from].branch # b
  BY <1>1, <1>2 DEF HandlerSettled
<1>8. Booted /\ Booted'
  BY <1>1, <1>3, ServingIsBooted
<1>9. /\ worldTips = [refs EXCEPT ![b] = 0]
      /\ worldActive = states[h.from].branch
  <2>1. Forking(t)
    BY <1>1 DEF Forking
  <2>2. QED
    BY <1>8, <2>1, ForkingWorld
<1>10. /\ states' = states /\ head' = head /\ refs' = refs
       /\ events' = Append(events, NewEvent(t))
  BY <1>1 DEF Moves
<1>11. worldTips' = refs /\ worldActive' = b
  <2>1. \A u \in Threads : ~(Appended(u)') /\ ~(Forking(u)')
    BY <1>1, IdleIsPlain
  <2>2. worldTips' = refs' /\ worldActive' = current'.branch
    BY <1>8, <2>1, PlainWorldNext
  <2>3. current'.branch = b
    BY <1>3, <1>7, <1>10 DEF current
  <2>4. QED
    BY <1>10, <2>2, <2>3
<1>12. states[h.from].branch \in Branches
  BY <1>3, BranchType
<1>13. /\ worldTips[b] = 0 /\ worldTips[worldActive] = h.from
       /\ worldTips' = [worldTips EXCEPT ![b] = h.to]
  BY <1>1, <1>6, <1>7, <1>9, <1>11, <1>12
<1>14. worldLog' = Append(worldLog, WH!Entry(b, h.from, h.to))
  <2>1. NewEvent(t) \in EventRecords
    BY NewEventType DEF IInv
  <2>2. /\ NewEvent(t).branch = h.next.branch
        /\ NewEvent(t).parent = h.from /\ NewEvent(t).result = h.to
    BY DEF NewEvent
  <2>3. QED
    BY <1>10, <2>1, <2>2, LogAppends
<1>15. h.to \notin WH!Known
  BY <1>4, NewIsUnknown
<1>16. WH!Fork(b, h.to)
  BY <1>11, <1>13, <1>14, <1>15 DEF WH!Fork
<1>17. QED
  BY <1>1, <1>5, <1>16 DEF WorldStep

(* A switch takes effect when HEAD is moved.                               *)
LEMMA SwitchSwitches ==
  ASSUME IInv, IInv', LineageInv, NEW t \in Threads, Moves(t),
         op[t].kind = "switch"
  PROVE  WorldStep
<1> PICK h : h = op[t]
  OBVIOUS
<1>1. /\ HandlerSound(h) /\ h.kind = "switch" /\ h.step \in StepsOf(h.kind)
      /\ \A u \in Threads \ {t} : op[u] = NoHandler
      /\ refs \in [Branches -> Nat]
  BY MoveEffect
<1>2. h.step = "head"
  BY <1>1 DEF StepsOf
<1>3. (\A u \in Threads : op'[u] = NoHandler) /\ phase' = "serving"
  <2> PICK next : next = After(h.kind, h.step)
    OBVIOUS
  <2>1. next = "done"
    BY <1>1, <1>2 DEF After
  <2>2. QED
    BY <2>1, MoveEffect
<1>4. phase = "serving" /\ h.to \in Ids
  BY <1>1 DEF HandlerSound
<1>5. /\ states' = states /\ head' = h.to /\ refs' = refs /\ events' = events
  BY <1>2 DEF Moves
<1>6. states[h.to].branch \in Branches /\ refs[states[h.to].branch] = h.to
  BY <1>1, <1>4, BranchType DEF LineageInv, HandlerLeads
<1>7. Booted /\ Booted'
  BY <1>3, <1>4, ServingIsBooted
<1>8. worldTips = refs
  <2>1. ~Appended(t) /\ ~Forking(t)
    BY <1>1 DEF Appended, Forking
  <2>2. \A u \in Threads : ~Appended(u) /\ ~Forking(u)
    BY <1>1, <2>1, IdleIsPlain
  <2>3. QED
    BY <1>7, <2>2, PlainWorld
<1>9. worldTips' = refs' /\ worldActive' = current'.branch
  BY <1>3, <1>7, IdleIsPlain, PlainWorldNext
<1>10. current'.branch = states[h.to].branch
  BY <1>5 DEF current
<1>11. refs[states[h.to].branch] # 0
  BY <1>4, <1>6 DEF Ids
<1>12. WH!Switch(states[h.to].branch)
  BY <1>5, <1>8, <1>9, <1>10, <1>11, LogStays DEF WH!Switch
<1>13. QED
  BY <1>6, <1>12 DEF WorldStep

(* The other writes are not seen.                                          *)
LEMMA WriteIsStill ==
  ASSUME IInv, IInv', StoreGrows, LineageInv, SettledInv, NEW t \in Threads,
         Moves(t), op[t].step # "append", op[t].kind \notin {"boot", "switch"}
  PROVE  Still
<1> PICK h : h = op[t]
  OBVIOUS
<1> PICK next : next = After(h.kind, h.step)
  OBVIOUS
<1>1. /\ h \in Handlers /\ HandlerSound(h)
      /\ h.kind \in Kinds \ {"none", "boot", "switch"}
      /\ h.step \in StepsOf(h.kind)
      /\ h.step \notin {"idle", "plan", "verdict", "state", "append"}
      /\ h.next.branch \in Branches /\ refs \in [Branches -> Nat]
      /\ \A u \in Threads \ {t} : op[u] = NoHandler
  BY MoveEffect
<1>2. /\ \A u \in Threads \ {t} : op'[u] = NoHandler
      /\ \/ next = "done" /\ phase' = "serving" /\ op'[t] = NoHandler
         \/ next # "done" /\ phase' = phase /\ op'[t] = [h EXCEPT !.step = next]
  BY MoveEffect
<1>3. HandlerLeads(h) /\ HandlerSettled(h)
  BY DEF LineageInv, SettledInv
<1>4. phase = "serving" /\ phase' = "serving"
  BY <1>1, <1>2 DEF HandlerSound
<1>5. Booted /\ Booted' /\ head # 0 /\ head' # 0
  BY <1>4, ServingIsBooted
<1>6. states' = states /\ events' = events
  BY <1>1 DEF Moves
<1>7. next # "done" =>
        /\ op'[t].kind = h.kind /\ op'[t].step = next /\ op'[t].from = h.from
        /\ op'[t].next = h.next /\ op'[t].to = h.to
  BY <1>1, <1>2 DEF Handlers
<1>8. CASE h.step \in {"observe", "propose", "frame", "memory", "deposit"}
  <2>1. head' = head /\ refs' = refs
    BY <1>8 DEF Moves
  <2>2. h.kind # "fork"
    BY <1>1, <1>8 DEF StepsOf
  <2>3. next \notin {"job", "head", "ref", "append"}
    BY <1>1, <1>8 DEF After, Kinds, StepsOf, Steps
  <2>4. ~Appended(t) /\ ~Forking(t)
    BY <1>8, <2>2 DEF Appended, Forking
  <2>5. ~(Appended(t)') /\ ~(Forking(t)')
    BY <1>2, <1>7, <2>2, <2>3, IdleIsPlain DEF Appended, Forking
  <2>6. QED
    BY <1>1, <1>2, <1>4, <1>6, <2>1, <2>4, <2>5, PlainStep
<1>9. CASE h.kind \in {"interact", "commit", "verify"}
           /\ h.step \in {"job", "head", "ref"}
  <2>1. Appended(t)
    BY <1>9 DEF Appended
  <2>2. /\ worldTips = [refs EXCEPT ![h.next.branch] = h.to]
        /\ worldActive = current.branch
    BY <1>5, <2>1, AppendedWorld
  <2>3. h.to \in Ids /\ states[h.to] = h.next
    BY <1>1, <1>9 DEF HandlerSound, Wrote
  <2>4. current'.branch = current.branch
    <3>1. CASE h.step # "head"
      BY <1>6, <3>1 DEF Moves, current
    <3>2. CASE h.step = "head"
      <4>1. h.next.branch = current.branch
        BY <1>3, <1>9, <3>2 DEF HandlerLeads, Committing
      <4>2. head' = h.to
        BY <3>2 DEF Moves
      <4>3. QED
        BY <1>6, <2>3, <4>1, <4>2 DEF current
    <3>3. QED
      BY <3>1, <3>2
  <2>5. CASE h.step \in {"job", "head"}
    <3>1. next \in {"head", "ref"} /\ next # "done" /\ refs' = refs
      BY <1>9, <2>5 DEF After, Moves
    <3>2. Appended(t)'
      BY <1>7, <1>9, <3>1 DEF Appended
    <3>3. /\ worldTips' = [refs' EXCEPT ![op'[t].next.branch] = op'[t].to]
          /\ worldActive' = current'.branch
      BY <1>5, <3>2, AppendedWorldNext
    <3>4. QED
      BY <1>6, <1>7, <2>2, <2>4, <3>1, <3>3, LogStays DEF Still
  <2>6. CASE h.step = "ref"
    <3>1. next \in {"memory", "done"}
          /\ refs' = [refs EXCEPT ![h.next.branch] = h.to]
      BY <1>9, <2>6 DEF After, Moves
    <3>2. ~(Appended(t)') /\ ~(Forking(t)')
      BY <1>2, <1>7, <3>1, IdleIsPlain DEF Appended, Forking
    <3>3. \A u \in Threads : ~(Appended(u)') /\ ~(Forking(u)')
      BY <1>2, <3>2, IdleIsPlain
    <3>4. worldTips' = refs' /\ worldActive' = current'.branch
      BY <1>5, <3>3, PlainWorldNext
    <3>5. QED
      BY <1>6, <2>2, <2>4, <3>1, <3>4, LogStays DEF Still
  <2>7. QED
    BY <1>9, <2>5, <2>6
<1>10. CASE h.kind = "fork" /\ h.step = "head"
  <2>1. next = "ref" /\ next # "done" /\ head' = h.to /\ refs' = refs
    BY <1>10 DEF After, Moves
  <2>2. h.from = head /\ refs[h.next.branch] = 0
    BY <1>3, <1>10 DEF HandlerLeads, HandlerSettled
  <2>3. ~Appended(t) /\ ~Forking(t)
    BY <1>10 DEF Appended, Forking
  <2>4. \A u \in Threads : ~Appended(u) /\ ~Forking(u)
    BY <1>1, <2>3, IdleIsPlain
  <2>5. worldTips = refs /\ worldActive = current.branch
    BY <1>5, <2>4, PlainWorld
  <2>6. Forking(t)'
    BY <1>7, <1>10, <2>1 DEF Forking
  <2>7. /\ worldTips' = [refs' EXCEPT ![op'[t].next.branch] = 0]
        /\ worldActive' = states'[op'[t].from].branch
    BY <1>5, <2>6, ForkingWorldNext
  <2>8. worldTips' = [refs EXCEPT ![h.next.branch] = 0]
        /\ worldActive' = states[head].branch
    BY <1>6, <1>7, <2>1, <2>2, <2>7
  <2>9. [refs EXCEPT ![h.next.branch] = 0] = refs
    BY <1>1, <2>2
  <2>10. QED
    BY <1>6, <2>5, <2>8, <2>9, LogStays DEF Still, current
<1>11. CASE h.kind = "fork" /\ h.step = "ref"
  <2>1. /\ next = "append" /\ next # "done"
        /\ refs' = [refs EXCEPT ![h.next.branch] = h.to]
    BY <1>11 DEF After, Moves
  <2>2. Forking(t)
    BY <1>11 DEF Forking
  <2>3. /\ worldTips = [refs EXCEPT ![h.next.branch] = 0]
        /\ worldActive = states[h.from].branch
    BY <1>5, <2>2, ForkingWorld
  <2>4. Forking(t)'
    BY <1>7, <1>11, <2>1 DEF Forking
  <2>5. /\ worldTips' = [refs' EXCEPT ![op'[t].next.branch] = 0]
        /\ worldActive' = states'[op'[t].from].branch
    BY <1>5, <2>4, ForkingWorldNext
  <2>6. worldTips' = [refs' EXCEPT ![h.next.branch] = 0]
        /\ worldActive' = states[h.from].branch
    BY <1>6, <1>7, <2>1, <2>5
  <2>7. [refs' EXCEPT ![h.next.branch] = 0] = [refs EXCEPT ![h.next.branch] = 0]
    BY <1>1, <2>1
  <2>8. QED
    BY <1>6, <2>3, <2>6, <2>7, LogStays DEF Still
<1>12. QED
  <2>1. \/ h.step \in {"observe", "propose", "frame", "memory", "deposit"}
        \/ h.kind \in {"interact", "commit", "verify"}
           /\ h.step \in {"job", "head", "ref"}
        \/ h.kind = "fork" /\ h.step \in {"head", "ref"}
    BY <1>1 DEF Kinds, StepsOf, Steps
  <2>2. QED
    BY <1>8, <1>9, <1>10, <1>11, <2>1

LEMMA BootWriteIsStill ==
  ASSUME IInv, IInv', LineageInv, SettledInv, NEW t \in Threads,
         Moves(t), op[t].kind = "boot"
  PROVE  Still
<1> PICK h : h = op[t]
  OBVIOUS
<1> PICK next : next = After(h.kind, h.step)
  OBVIOUS
<1>1. /\ HandlerSound(h) /\ h.kind = "boot" /\ h.step \in StepsOf(h.kind)
      /\ h.step # "state"
  BY MoveEffect
<1>2. h.step \in {"head", "ref", "frame"} /\ ~Booted /\ phase = "booting"
  BY <1>1 DEF StepsOf, HandlerSound, Booted
<1>3. states' = states /\ events' = events
  BY <1>2 DEF Moves
<1>4. CASE h.step = "frame"
  <2>1. next = "done"
    BY <1>1, <1>4 DEF After
  <2>2. (\A u \in Threads : op'[u] = NoHandler) /\ phase' = "serving"
    BY <2>1, MoveEffect
  <2>3. head' = head /\ refs' = refs
    BY <1>4 DEF Moves
  <2>4. QED
    BY <1>1, <1>3, <1>4, <2>2, <2>3, BootOpens
<1>5. CASE h.step \in {"head", "ref"}
  <2>1. next # "done"
    BY <1>1, <1>5 DEF After
  <2>2. phase' = phase
    BY <2>1, MoveEffect
  <2>3. ~(Booted')
    BY <1>2, <2>2 DEF Booted
  <2>4. QED
    BY <1>2, <1>3, <2>3, BootStep
<1>6. QED
  BY <1>2, <1>4, <1>5

(* A handler that gives up leaves the history as it is.                    *)
LEMMA GivingUpIsStill ==
  ASSUME IInv, IInv', StoreGrows, LineageInv, SettledInv, NEW t \in Threads,
         GivesUp(t)
  PROVE  Still
<1>1. /\ op[t].step \in {"propose", "plan", "frame"}
      /\ Return(t) /\ UNCHANGED <<store, crashes, acked>>
  BY DEF GivesUp, SettledInv, LogReads
<1>2. /\ states' = states /\ head' = head /\ refs' = refs /\ events' = events
      /\ phase' = "serving"
  BY <1>1 DEF store, Return
<1>3. /\ HandlerSound(op[t]) /\ op[t].kind \in Kinds \ {"none"}
      /\ \A u \in Threads \ {t} : op[u] = NoHandler
  BY <1>1, OwnerActs
<1>4. \A u \in Threads : op'[u] = NoHandler
  BY <1>1, ReturnEffect
<1>5. CASE op[t].kind = "boot"
  <2>1. op[t].step = "frame"
    BY <1>1, <1>3, <1>5 DEF HandlerSound, StepsOf
  <2>2. QED
    BY <1>2, <1>4, <1>5, <2>1, BootOpens
<1>6. CASE op[t].kind # "boot"
  <2>1. phase = "serving"
    BY <1>3, <1>6 DEF HandlerSound
  <2>2. ~Appended(t) /\ ~Forking(t)
    BY <1>1 DEF Appended, Forking
  <2>3. ~(Appended(t)') /\ ~(Forking(t)')
    BY <1>4, IdleIsPlain
  <2>4. QED
    BY <1>2, <1>3, <1>4, <2>1, <2>2, <2>3, PlainStep
<1>7. QED
  BY <1>5, <1>6

(* Nor does a handler that reads, judges a job or saves its state.         *)
LEMMA ReadingIsStill ==
  ASSUME IInv, IInv', StoreGrows, LineageInv, SettledInv, NEW t \in Threads,
         \/ PlanCommit(t) \/ SaveVerdict(t) \/ SaveState(t)
  PROVE  Still
<1>1. op[t].step \in {"plan", "verdict", "state"}
  BY DEF PlanCommit, SaveVerdict, SaveState, At
<1>2. /\ HandlerSound(op[t]) /\ op[t].kind \in Kinds \ {"none"}
      /\ \A u \in Threads \ {t} : op[u] = NoHandler
  BY <1>1, OwnerActs
<1>3. ~Appended(t) /\ ~Forking(t)
  BY <1>1 DEF Appended, Forking
<1>4. CASE PlanCommit(t)
  <2>1. PICK g \in Handlers :
           /\ op'[t] = g
           /\ \A u \in Threads \ {t} : op'[u] = NoHandler
           /\ UNCHANGED <<store, phase, lock, crashes, acked>>
           /\ g.step \in {"state", "frame"} /\ phase = "serving"
    BY <1>4, PlanEffect
  <2>2. ~(Appended(t)') /\ ~(Forking(t)')
    BY <2>1 DEF Appended, Forking
  <2>3. /\ head' = head /\ refs' = refs /\ events' = events
        /\ phase' = "serving"
    BY <2>1 DEF store
  <2>4. QED
    BY <1>2, <1>3, <2>1, <2>2, <2>3, PlainStep
<1>5. CASE SaveVerdict(t)
  <2>1. /\ head' = head /\ refs' = refs /\ events' = events
        /\ phase = "serving" /\ phase' = "serving"
        /\ op[t].kind = "verify"
        /\ \/ \A u \in Threads : op'[u] = NoHandler
           \/ /\ \E s \in {"frame", "state"} :
                   op'[t] = [op[t] EXCEPT !.step = s]
              /\ \A u \in Threads \ {t} : op'[u] = NoHandler
    BY <1>5, VerdictEffect
  <2>2. op[t] \in Handlers
    BY DEF IInv, TypeOK
  <2>3. ~(Appended(t)') /\ ~(Forking(t)')
    <3>1. CASE op'[t] = NoHandler
      BY <3>1, IdleIsPlain
    <3>2. CASE \E s \in {"frame", "state"} :
                 op'[t] = [op[t] EXCEPT !.step = s]
      <4>1. op'[t].step \in {"frame", "state"}
        BY <2>2, <3>2 DEF Handlers
      <4>2. QED
        BY <4>1 DEF Appended, Forking
    <3>3. QED
      BY <2>1, <3>1, <3>2
  <2>4. \A u \in Threads \ {t} : op'[u] = NoHandler
    BY <2>1
  <2>5. QED
    BY <1>2, <1>3, <2>1, <2>3, <2>4, PlainStep
<1>6. CASE SaveState(t)
  <2>1. PICK g \in Handlers :
           /\ op'[t] = g
           /\ \A u \in Threads \ {t} : op'[u] = NoHandler
           /\ UNCHANGED <<head, refs, events, tail, jobs, phase, lock,
                          crashes, acked>>
           /\ g.kind = op[t].kind
           /\ g.kind \in {"boot", "interact", "commit", "verify", "fork"}
           /\ g.step = IF g.kind \in {"boot", "fork"}
                       THEN "head" ELSE "append"
    BY <1>6, SaveEffect
  <2>2. CASE op[t].kind = "boot"
    <3>1. phase = "booting" /\ phase' = "booting" /\ events' = events
      BY <1>2, <2>1, <2>2 DEF HandlerSound
    <3>2. ~Booted /\ ~(Booted')
      BY <3>1 DEF Booted
    <3>3. QED
      BY <3>1, <3>2, BootStep
  <2>3. CASE op[t].kind # "boot"
    <3>1. phase = "serving"
      BY <1>2, <2>3 DEF HandlerSound
    <3>2. ~(Appended(t)') /\ ~(Forking(t)')
      BY <2>1, <2>3 DEF Appended, Forking
    <3>3. /\ head' = head /\ refs' = refs /\ events' = events
          /\ phase' = "serving"
      BY <2>1, <3>1
    <3>4. QED
      BY <1>2, <1>3, <2>1, <3>1, <3>2, <3>3, PlainStep
  <2>4. QED
    BY <2>2, <2>3
<1>7. QED
  BY <1>4, <1>5, <1>6

LEMMA EntryIsStill ==
  ASSUME IInv, IInv', StoreGrows, NEW t \in Threads, Receive(t)
  PROVE  Still
<1>1. PICK h \in Handlers : Enter(t, h) /\ EntersAs(h)
  BY ReceiveShapes
<1>2. /\ head' = head /\ refs' = refs /\ events' = events
      /\ phase = "serving" /\ phase' = "serving"
      /\ \A u \in Threads : op[u] = NoHandler
      /\ op'[t] = h
      /\ \A u \in Threads \ {t} : op'[u] = NoHandler
  BY <1>1, EnterEffect
<1>3. ~(Appended(t)') /\ ~(Forking(t)')
  BY <1>1, <1>2 DEF EntersAs, Appended, Forking
<1>4. ~Appended(t) /\ ~Forking(t)
  BY <1>2, IdleIsPlain
<1>5. QED
  BY <1>2, <1>3, <1>4, PlainStep

LEMMA NextWorld ==
  ASSUME IInv, IInv', BackedInv, LineageInv, SettledInv, crashes' = 0,
         [Next]_vars
  PROVE  WorldStep \/ Still
<1>1. ~Crash
  BY DEF Crash, IInv, TypeOK
<1>2. StoreGrows
  BY NextGrows DEF BackedInv
<1>3. ASSUME NEW t \in Threads, Start(t)
      PROVE  Still
  <2>1. /\ head = 0 /\ phase = "down" /\ phase' = "booting"
        /\ events' = events
    BY <1>3 DEF Start, SettledInv, StatesAreLogged, store
  <2>2. ~Booted /\ ~(Booted')
    BY <2>1 DEF Booted
  <2>3. QED
    BY <2>1, <2>2, BootStep
<1>4. ASSUME NEW t \in Threads, Receive(t)
      PROVE  Still
  BY <1>2, <1>4, EntryIsStill
<1>5. ASSUME NEW t \in Threads, Step(t)
      PROVE  WorldStep \/ Still
  <2>1. CASE Moves(t)
    BY <1>2, <2>1, CommitExtends, ForkForks, SwitchSwitches, WriteIsStill,
       BootWriteIsStill
  <2>2. CASE ~Moves(t)
    BY <1>2, <1>5, <2>2, StepShapes, GivingUpIsStill, ReadingIsStill
  <2>3. QED
    BY <2>1, <2>2
<1>6. UNCHANGED vars => Still
  <2>1. SUFFICES ASSUME UNCHANGED vars
                 PROVE  Still
    OBVIOUS
  <2>2. /\ states' = states /\ head' = head /\ refs' = refs
        /\ events' = events /\ phase' = phase /\ op' = op /\ lock' = lock
    BY <2>1 DEF vars, store
  <2>3. Booted' = Booted /\ current' = current
    BY <2>2 DEF Booted, current
  <2>4. worldTips' = worldTips /\ worldActive' = worldActive
    BY <2>2, <2>3 DEF worldTips, worldActive, Appended, Forking
  <2>5. QED
    BY <2>2, <2>4, LogStays DEF Still
<1>7. QED
  <2>1. CASE Next
    BY <1>1, <1>3, <1>4, <1>5, <2>1 DEF Next
  <2>2. CASE ~Next
    BY <1>6, <2>2
  <2>3. QED
    BY <2>1, <2>2

LEMMA InitWorld ==
  ASSUME Init
  PROVE  WH!WorldInit
<1>1. /\ worldTips = [b \in Branches |-> IF b = Main THEN 1 ELSE 0]
      /\ worldActive = Main
  BY BootWorld DEF Init, Booted
<1>2. worldLog = <<>>
  <2>1. Len(events) = 0
    BY DEF Init
  <2>2. /\ worldLog \in Seq([branch : Branches, parent : Nat, result : Nat])
        /\ Len(worldLog) = 0
    BY <2>1, InitInv, LogLength
  <2>3. QED
    BY <2>2, EmptySeq
<1>3. QED
  BY <1>1, <1>2 DEF WH!WorldInit

(* Every write of a handler is a step of WorldHistory or invisible in it,  *)
(* while nothing is killed and the log can be read: readers of the log and *)
(* of settled refs see whole commits, forks and switches, each on the tip  *)
(* of the branch it belongs to (commit_proposal, verify_render,            *)
(* create_branch, switch_branch).                                          *)
THEOREM EngineImplementsHistory ==
  Spec /\ []Undisturbed => ImplementsWorldHistory
<1>1. Init => WH!WorldInit
  BY InitWorld
<1>2. IInv /\ IInv' /\ BackedInv /\ LineageInv /\ UndisturbedInv
        /\ Undisturbed /\ Undisturbed' /\ [Next]_vars
        => [WorldStep]_(WH!worldVars)
  <2>1. SUFFICES ASSUME IInv, IInv', BackedInv, LineageInv, UndisturbedInv,
                        Undisturbed, Undisturbed', [Next]_vars
                 PROVE  [WorldStep]_(WH!worldVars)
    OBVIOUS
  <2>2. WorldStep \/ Still
    BY <2>1, NextWorld, DisturbanceStays DEF UndisturbedInv
  <2>3. QED
    BY <2>2 DEF Still, WH!worldVars
<1>3. QED
  BY <1>1, <1>2, Settled, PTL DEF Spec, ImplementsWorldHistory

(* A process that can not be killed, sent no payload that cuts a line,     *)
(* implements WorldHistory.                                                *)
THEOREM UnkilledImplementsHistory ==
  ASSUME MaxCrashes = 0, Separators = FALSE
  PROVE  Spec => ImplementsWorldHistory
<1> DEFINE Quiet == crashes = 0 /\ tail = "whole"
<1>1. Init => Quiet
  BY DEF Init
<1>2. IInv /\ Quiet /\ [Next]_vars => Quiet'
  <2>1. SUFFICES ASSUME IInv, Quiet, [Next]_vars
                 PROVE  Quiet'
    OBVIOUS
  <2>2. ~Crash
    BY <2>1 DEF Crash
  <2>3. crashes' = 0
    BY <2>1, <2>2, OnlyKillsCount
  <2>4. tail' = "whole"
    <3>1. ASSUME NEW t \in Threads, Step(t)
          PROVE  tail' = "whole"
      <4>1. CASE AppendEvent(t)
        BY <2>1, <4>1 DEF AppendEvent
      <4>2. CASE ~AppendEvent(t)
        BY <2>1, <3>1, <4>2
        DEF Step, store, SaveEvidence, SaveProposal, RejectPatch, PlanCommit,
            RefuseDuplicate, ReadTornLog, SaveVerdict, SaveFrame,
            FrameCollision, SaveState, SaveRenderJob, SetHead, SetBranchRef,
            SaveMemory, Deposit
      <4>3. QED
        BY <4>1, <4>2
    <3>2. ASSUME NEW t \in Threads, Start(t) \/ Receive(t)
          PROVE  tail' = "whole"
      BY <2>1, <3>2, ReceiveEnters DEF Start, Enter, store
    <3>3. CASE UNCHANGED vars
      BY <2>1, <3>3 DEF vars, store
    <3>4. QED
      BY <2>1, <2>2, <3>1, <3>2, <3>3 DEF Next
  <2>5. QED
    BY <2>3, <2>4
<1>3. Quiet => Undisturbed
  BY DEF Undisturbed, LogReads
<1>4. QED
  BY <1>1, <1>2, <1>3, Settled, EngineImplementsHistory, PTL DEF Spec
=============================================================================
