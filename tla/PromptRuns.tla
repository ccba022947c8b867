----------------------------- MODULE PromptRuns -----------------------------
(***************************************************************************)
(* Governed model execution (model_execution.py, workflows.py,             *)
(* prompt_runs.py and the prompt handlers of engine.py): a request holds   *)
(* the engine's lock while it checks the committed privacy policy, calls   *)
(* the provider for one prompt or for the steps of a workflow, and saves   *)
(* immutable traces.  Reviews are appended beside the traces.              *)
(*                                                                         *)
(* Abstractions.  There is one workflow.  A request is the set of its      *)
(* steps that have inputs, which with the default model is all that its    *)
(* run id depends on.  An output is valid or not.  Every answer of the     *)
(* provider has a response id of its own, and so has its trace a run id.   *)
(* Prompt rendering, schemas and the secrets that they reject are left     *)
(* out: a prompt that does not render is a failed step.                    *)
(***************************************************************************)
EXTENDS Integers, Sequences, FiniteSets

CONSTANTS
  Threads,        \* server threads
  StepCount,      \* prompts of the workflow
  MaxAttempts,    \* ModelExecutionConfig.max_attempts
  MaxExecutions,  \* bound on the requests executed
  MaxReviews      \* bound on the reviews

ASSUME BoundsAssumption ==
  /\ StepCount \in Nat \ {0} /\ MaxAttempts \in Nat \ {0}
  /\ MaxExecutions \in Nat /\ MaxReviews \in Nat

VARIABLES
  cloud,      \* ui.privacy.cloud_allowed of the current state
  lock,       \* the thread that holds the engine's lock
  job,        \* the execution that each thread serves
  runs,       \* prompt-runs/model
  workflows,  \* prompt-runs/workflow
  reviews,    \* prompt-runs/reviews, in the order they were answered
  calls,      \* the provider's answers so far
  executions  \* the executions so far, which tell their created_at apart

vars == <<cloud, lock, job, runs, workflows, reviews, calls, executions>>
runVars == <<runs, workflows, reviews>>

Free == "free"
ASSUME FreeAssumption == Free \notin Threads

Steps == 1 .. StepCount
StepStatus == {"validated", "invalid", "awaiting-input", "failed"}
Status == {"completed", "stopped-invalid", "awaiting-input", "failed"}
Decisions == {"approve", "reject", "needs-revision"}
RunIds == 0 .. MaxExecutions * StepCount
StepRecord == [status : StepStatus, run : RunIds]
NoJob == [step |-> "none", kind |-> "none", id |-> {}, max |-> 0, stop |-> TRUE,
          attempt |-> 0, run |-> 0, trace |-> <<>>, status |-> "completed"]

TypeOK ==
  /\ cloud \in BOOLEAN
  /\ lock \in Threads \cup {Free}
  /\ \A t \in Threads :
       /\ job[t].step \in {"none", "next", "call", "store", "save"}
       /\ job[t].attempt \in 0 .. MaxAttempts
       /\ job[t].trace \in Seq(StepRecord)
  /\ runs \subseteq [id : RunIds, status : {"validated", "invalid"}]
  /\ workflows \subseteq [id : SUBSET Steps, status : Status,
                          trace : Seq(StepRecord), made : 1 .. MaxExecutions]
  /\ reviews \in Seq([run : RunIds, decision : Decisions])

Init ==
  /\ cloud \in BOOLEAN /\ lock = Free
  /\ job = [t \in Threads |-> NoJob]
  /\ runs = {} /\ workflows = {} /\ reviews = <<>>
  /\ calls = 0 /\ executions = 0
-----------------------------------------------------------------------------
(* A commit changes the privacy policy under the engine's lock. *)
CommitPrivacy ==
  /\ lock = Free
  /\ cloud' = ~cloud
  /\ UNCHANGED <<lock, job, runVars, calls, executions>>

Start(t, kind, supplied, max, stop) ==
  /\ job[t].step = "none"
  /\ executions < MaxExecutions
  /\ executions' = executions + 1
  /\ job' = [job EXCEPT ![t] =
       [NoJob EXCEPT !.step = "next", !.kind = kind, !.id = supplied,
                     !.max = max, !.stop = stop]]

(* Mutant: the policy is checked and the lock given back before the calls. *)
ExecuteUnlocked(t, kind, supplied, max, stop) ==
  /\ lock = Free /\ cloud
  /\ Start(t, kind, supplied, max, stop)
  /\ UNCHANGED <<cloud, lock, runVars, calls>>

(* prompt_execute and prompt_workflow_execute. *)
Execute(t, kind, supplied, max, stop) ==
  /\ lock = Free /\ cloud
  /\ lock' = t
  /\ Start(t, kind, supplied, max, stop)
  /\ UNCHANGED <<cloud, runVars, calls>>

Set(t, j) == job' = [job EXCEPT ![t] = j]
Leave(t, j) == Set(t, j) /\ lock' = IF lock = t THEN Free ELSE lock
Record(j, status) == [j EXCEPT !.trace = Append(@, [status |-> status, run |-> j.run]),
                               !.run = 0]
Ended(j, status) == [Record(j, status) EXCEPT !.step = "save", !.status = status]
At(j) == Len(j.trace) + 1

(* The next step is called, waits for its inputs, or was the last planned. *)
NextStep(t) ==
  LET j == job[t]
  IN /\ j.step = "next"
     /\ Set(t, IF At(j) > j.max THEN [j EXCEPT !.step = "save"]
               ELSE IF At(j) \in j.id
               THEN [j EXCEPT !.step = "call", !.attempt = 1]
               ELSE Ended(j, "awaiting-input"))
     /\ UNCHANGED <<cloud, lock, runVars, calls, executions>>

(* An answer is validated locally; either way it is a candidate. *)
CallAnswers(t) ==
  /\ job[t].step = "call"
  /\ calls' = calls + 1
  /\ Set(t, [job[t] EXCEPT !.step = "store", !.run = calls'])
  /\ UNCHANGED <<cloud, lock, runVars, executions>>

(* Mutant: one attempt too many. *)
CallRetriesOnce(t) ==
  /\ job[t].step = "call"
  /\ job[t].attempt <= MaxAttempts
  /\ Set(t, [job[t] EXCEPT !.attempt = @ + 1])
  /\ UNCHANGED <<cloud, lock, runVars, calls, executions>>

(* Mutant: the count of attempts starts over. *)
CallRetriesAnew(t) ==
  /\ job[t].step = "call"
  /\ Set(t, [job[t] EXCEPT !.attempt = (@ % MaxAttempts) + 1])
  /\ UNCHANGED <<cloud, lock, runVars, calls, executions>>

(* Some HTTP errors and an unreachable provider are tried again. *)
CallRetries(t) ==
  /\ job[t].step = "call"
  /\ job[t].attempt < MaxAttempts
  /\ Set(t, [job[t] EXCEPT !.attempt = @ + 1])
  /\ UNCHANGED <<cloud, lock, runVars, calls, executions>>

(* Mutant: a failed step is skipped. *)
SkipFailedCall(t) ==
  /\ job[t].step = "call"
  /\ IF job[t].kind = "prompt" THEN Leave(t, NoJob)
     ELSE /\ Set(t, [Record(job[t], "failed") EXCEPT !.step = "next"])
          /\ UNCHANGED lock
  /\ UNCHANGED <<cloud, runVars, calls, executions>>

(* Any other error ends the prompt, or the workflow in a failed step. *)
CallFails(t) ==
  /\ job[t].step = "call"
  /\ IF job[t].kind = "prompt" THEN Leave(t, NoJob)
     ELSE Set(t, Ended(job[t], "failed")) /\ UNCHANGED lock
  /\ UNCHANGED <<cloud, runVars, calls, executions>>

(* A locked credential vault or a step whose inputs are no object raises   *)
(* what the workflow does not catch: nothing is saved of it.               *)
CallRaises(t) ==
  /\ job[t].step = "call"
  /\ Leave(t, NoJob)
  /\ UNCHANGED <<cloud, runVars, calls, executions>>

(* Mutant: invalid candidates leave no trace. *)
SaveValidRun(t) ==
  \E status \in {"validated", "invalid"} :
    LET j == job[t]
    IN /\ j.step = "store"
       /\ runs' = IF status = "invalid" THEN runs
                  ELSE runs \cup {[id |-> j.run, status |-> status]}
       /\ IF j.kind = "prompt" THEN Leave(t, NoJob)
          ELSE /\ Set(t, [Record(j, status) EXCEPT !.step = "next"])
               /\ UNCHANGED lock
       /\ UNCHANGED <<cloud, workflows, reviews, calls, executions>>

SaveModelRun(t) ==
  \E status \in {"validated", "invalid"} :
    LET j == job[t]
    IN /\ j.step = "store"
       /\ runs' = runs \cup {[id |-> j.run, status |-> status]}
       /\ IF j.kind = "prompt" THEN Leave(t, NoJob)
          ELSE /\ UNCHANGED lock
               /\ Set(t, IF status = "invalid" /\ j.stop
                           THEN [Ended(j, status) EXCEPT !.status = "stopped-invalid"]
                           ELSE [Record(j, status) EXCEPT !.step = "next"])
       /\ UNCHANGED <<cloud, workflows, reviews, calls, executions>>

WorkflowRecord(j) ==
  [id |-> j.id, status |-> j.status, trace |-> j.trace, made |-> executions]

(* Mutant: the newest record replaces what its id named. *)
ReplaceWorkflowRun(t) ==
  /\ job[t].step = "save"
  /\ workflows' = {w \in workflows : w.id # job[t].id}
                    \cup {WorkflowRecord(job[t])}
  /\ Leave(t, NoJob)
  /\ UNCHANGED <<cloud, runs, reviews, calls, executions>>

(* Records never are equal: created_at and the run ids differ.  The second *)
(* record of an id is refused when its calls have been made.               *)
SaveWorkflowRun(t) ==
  /\ job[t].step = "save"
  /\ IF \E w \in workflows : w.id = job[t].id
       THEN UNCHANGED workflows
       ELSE workflows' = workflows \cup {WorkflowRecord(job[t])}
  /\ Leave(t, NoJob)
  /\ UNCHANGED <<cloud, runs, reviews, calls, executions>>

(* review_model_run needs the store's lock only. *)
Review(run, decision) ==
  /\ Len(reviews) < MaxReviews
  /\ reviews' = Append(reviews, [run |-> run.id, decision |-> decision])
  /\ UNCHANGED <<cloud, lock, job, runs, workflows, calls, executions>>

(* A killed process keeps its files. *)
Kill ==
  /\ lock # Free
  /\ lock' = Free
  /\ job' = [t \in Threads |-> NoJob]
  /\ UNCHANGED <<cloud, runVars, calls, executions>>

Next ==
  \/ CommitPrivacy
  \/ \E t \in Threads :
       \/ Execute(t, "prompt", {1}, 1, TRUE)
       \/ \E supplied \in SUBSET Steps, max \in Steps, stop \in BOOLEAN :
            Execute(t, "workflow", supplied, max, stop)
       \/ NextStep(t) \/ CallAnswers(t) \/ CallRetries(t) \/ CallFails(t)
       \/ CallRaises(t) \/ SaveModelRun(t) \/ SaveWorkflowRun(t)
  \/ \E run \in runs, decision \in Decisions : Review(run, decision)
  \/ Kill

Spec == Init /\ [][Next]_vars

(* Every attempt ends, by an answer, an error or its timeout, and threads  *)
(* run until they give the lock back.                                      *)
FairSpec ==
  /\ Spec
  /\ \A t \in Threads :
       WF_vars(\/ NextStep(t) \/ CallAnswers(t) \/ CallRetries(t) \/ CallFails(t)
               \/ CallRaises(t) \/ SaveModelRun(t) \/ SaveWorkflowRun(t))
-----------------------------------------------------------------------------
(* Correctness. *)

(* docs/SECURITY.md: "OpenAI Responses calls require the committed         *)
(* cloud_allowed privacy policy".  The policy is not revoked while a call  *)
(* is made under it, retries and later steps of a workflow included.       *)
CallsAreAllowed == \A t \in Threads : job[t].step = "call" => cloud

(* The step of a recorded workflow that answered names a saved trace with  *)
(* the same verdict, whatever was killed or failed in between.             *)
TracesExist ==
  \A w \in workflows : \A i \in DOMAIN w.trace :
    w.trace[i].run # 0 => [id |-> w.trace[i].run, status |-> w.trace[i].status] \in runs

(* docs/MODEL_EXECUTION.md: a workflow "fails closed": the steps before    *)
(* its last one answered, and it is "completed" only if the last one did.  *)
FailsClosed ==
  \A w \in workflows : \A i \in DOMAIN w.trace :
    i < Len(w.trace) \/ w.status = "completed" => w.trace[i].run # 0

(* docs/MODEL_EXECUTION.md: "The base run file is immutable", and so is a   *)
(* workflow's record, whatever is run again, reviewed or killed.           *)
RecordsAreImmutable ==
  [][runs \subseteq runs' /\ workflows \subseteq workflows']_vars

(* engine.py, prompt_execute and prompt_workflow_execute: the engine's     *)
(* lock, which every commit waits for, is held for a bounded number of     *)
(* attempts and steps, whatever the provider and the vault do.             *)
LockIsReturned == \A t \in Threads : lock = t ~> lock # t
=============================================================================
