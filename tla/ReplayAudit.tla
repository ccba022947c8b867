---------------------------- MODULE ReplayAudit ----------------------------
(***************************************************************************)
(* POST /v1/replay beside the handlers of SurfaceEngine.  verify_replay    *)
(* takes no lock: the server calls it while another thread is between two  *)
(* writes of a commit.  It reads the log and tests each event, then lists  *)
(* the refs and tests each ref.                                            *)
(***************************************************************************)
EXTENDS SurfaceEngine

VARIABLE audit   \* the replay request: its next step, its verdict so far
                 \* and the number of events it has read

auditVars == <<vars, audit>>

NewAudit == [step |-> "log", ok |-> TRUE, seen |-> 0]

StateExists(i) == i \in Ids

(* One pass over events.jsonl: index, duplicate ids, parent and result.    *)
(* Event and state hashes cannot differ: nothing rewrites a sealed record. *)
(* Over a line that is no event list_events raises: there is no verdict.   *)
LogVerified ==
  \A i \in 1 .. Len(events) :
    /\ events[i].index = i
    /\ \A j \in 1 .. i - 1 : events[j].id # events[i].id
    /\ StateExists(events[i].parent)
    /\ StateExists(events[i].result)

RefsVerified ==
  /\ head # 0 => StateExists(head)
  /\ \A b \in Branches : refs[b] # 0 => StateExists(refs[b])

AuditLog ==
  /\ phase = "serving" /\ audit.step = "log" /\ LogReads
  /\ audit' = [step |-> "refs", ok |-> LogVerified, seen |-> Len(events)]
  /\ UNCHANGED vars

AuditRefs ==
  /\ phase = "serving" /\ audit.step = "refs"
  /\ audit' = [audit EXCEPT !.step = "done", !.ok = @ /\ RefsVerified]
  /\ UNCHANGED vars

(* The answer is sent; the next replay request begins. *)
AuditAgain ==
  /\ audit.step = "done"
  /\ audit' = NewAudit
  /\ UNCHANGED vars

(* A request dies with the process. *)
EngineStep ==
  /\ Next
  /\ audit' = IF phase' = "down" THEN NewAudit ELSE audit

AuditInit == Init /\ audit = NewAudit
AuditNext == EngineStep \/ AuditLog \/ AuditRefs \/ AuditAgain
AuditSpec == AuditInit /\ [][AuditNext]_auditVars
-----------------------------------------------------------------------------
(* Unless the process was killed, a replay never reports a problem, in     *)
(* whatever order its unlocked reads and the writes of commits, verdicts,  *)
(* forks and switches are interleaved.                                     *)
ReplayNeverAlarms == crashes = 0 => audit.ok

(* docs/UNIVERSAL_SIMULATOR.md, section 7: "Replay recalculates the event  *)
(* chain and state transitions."  A history that replay has just verified  *)
(* is a chain: no two events of a branch have the same parent.             *)
VerifiedReplayIsAChain ==
  audit.step = "done" /\ audit.ok =>
    \A i, j \in 1 .. audit.seen :
      /\ events[i].branch = events[j].branch
      /\ events[i].parent = events[j].parent
      => i = j
=============================================================================
