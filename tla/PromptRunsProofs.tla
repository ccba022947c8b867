-------------------------- MODULE PromptRunsProofs --------------------------
(***************************************************************************)
(* Theorems about PromptRuns, for any threads, workflows, attempts and     *)
(* bounds.  What keeps the properties true is that a thread with a job     *)
(* holds the engine's lock, under which alone the policy changes, and that *)
(* a job's trace is already what its record may say.                       *)
(***************************************************************************)
EXTENDS PromptRuns, TLAPS

Traces == Seq([status : StepStatus, run : Nat])

JobRecords ==
  [step : {"none", "next", "call", "store", "save"}, kind : {"none", "prompt", "workflow"},
   id : SUBSET Steps, max : Nat, stop : BOOLEAN, attempt : Nat, run : Nat,
   trace : Traces, status : Status]

(* A step that answered has its trace, with its verdict. *)
Traced(trace) ==
  \A i \in 1 .. Len(trace) :
    trace[i].run # 0 => [id |-> trace[i].run, status |-> trace[i].status] \in runs

(* Every step but perhaps the last one answered. *)
Closed(trace, status) ==
  \A i \in 1 .. Len(trace) :
    i < Len(trace) \/ status = "completed" => trace[i].run # 0

JobSound(j) ==
  /\ j \in JobRecords
  /\ Traced(j.trace) /\ Closed(j.trace, j.status)
  /\ j.step # "save" => j.status = "completed"
  /\ (j.run # 0) <=> (j.step = "store")

RunsInv ==
  /\ calls \in Nat
  /\ lock \in Threads \cup {Free}
  /\ job \in [Threads -> JobRecords]
  /\ \A t \in Threads :
       /\ JobSound(job[t])
       /\ job[t].step # "none" => lock = t /\ cloud
  /\ \A w \in workflows :
       /\ w.trace \in Traces
       /\ Traced(w.trace) /\ Closed(w.trace, w.status)
-----------------------------------------------------------------------------
LEMMA NoJobSound == JobSound(NoJob)
<1>1. <<>> \in Traces /\ Len(<<>>) = 0
  BY DEF Traces
<1> QED BY <1>1 DEF NoJob, JobSound, JobRecords, Traced, Closed, Status

(* More runs leave every trace as it is. *)
LEMMA TracedStays ==
  ASSUME NEW trace, Traced(trace), runs \subseteq runs'
  PROVE  Traced(trace)'
BY DEF Traced

LEMMA JobStays ==
  ASSUME NEW j, JobSound(j), runs \subseteq runs'
  PROVE  JobSound(j)'
BY TracedStays DEF JobSound, Closed

(* A step is added to a trace in which all steps answered. *)
LEMMA TraceGrows ==
  ASSUME NEW trace \in Traces, Traced(trace), Closed(trace, "completed"),
         NEW s \in StepStatus, NEW r \in Nat,
         r # 0 => [id |-> r, status |-> s] \in runs,
         NEW status, r = 0 => status # "completed",
         NEW grown, grown = Append(trace, [status |-> s, run |-> r])
  PROVE  grown \in Traces /\ Traced(grown) /\ Closed(grown, status)
<1>1. /\ grown \in Traces /\ Len(trace) \in Nat /\ Len(grown) = Len(trace) + 1
      /\ \A i \in 1 .. Len(trace) : grown[i] = trace[i]
      /\ grown[Len(trace) + 1] = [status |-> s, run |-> r]
  BY DEF Traces
<1>2. \A i \in 1 .. Len(grown) : i \in 1 .. Len(trace) \/ i = Len(trace) + 1
  BY <1>1
<1> QED BY <1>1, <1>2 DEF Traced, Closed

LEMMA EndedSound ==
  ASSUME NEW j, JobSound(j), j.step \in {"next", "call"},
         NEW s \in {"awaiting-input", "failed"}
  PROVE  JobSound(Ended(j, s))
<1> DEFINE grown == Append(j.trace, [status |-> s, run |-> j.run])
<1>1. j \in JobRecords /\ j.run = 0 /\ j.status = "completed" /\ j.trace \in Traces
  BY DEF JobSound, JobRecords
<1>2. s \in StepStatus /\ s \in Status /\ s # "completed"
  BY DEF StepStatus, Status
<1>3. grown \in Traces /\ Traced(grown) /\ Closed(grown, s)
  <2>1. Traced(j.trace) /\ Closed(j.trace, "completed") /\ 0 \in Nat
    BY <1>1 DEF JobSound
  <2>2. grown = Append(j.trace, [status |-> s, run |-> 0])
    BY <1>1
  <2> HIDE DEF grown
  <2> QED BY <1>1, <1>2, <2>1, <2>2, TraceGrows
<1> HIDE DEF grown
<1>4. Ended(j, s) = [j EXCEPT !.trace = grown, !.run = 0, !.step = "save", !.status = s]
  BY <1>1 DEF Ended, Record, grown, JobRecords
<1>5. Ended(j, s) \in JobRecords
  BY <1>1, <1>2, <1>3, <1>4 DEF JobRecords
<1> QED BY <1>1, <1>2, <1>3, <1>4, <1>5 DEF JobSound, JobRecords

(* A thread's next job, when the lock stays or is given back with no job.  *)
LEMMA JobStep ==
  ASSUME RunsInv, NEW t \in Threads, job[t].step # "none",
         NEW j, job' = [job EXCEPT ![t] = j], JobSound(j),
         \/ lock' = lock
         \/ j.step = "none" /\ lock' = Free,
         cloud' = cloud, runs \subseteq runs', calls' \in Nat,
         \A w \in workflows' :
           \/ w \in workflows
           \/ w.trace \in Traces /\ Traced(w.trace) /\ Closed(w.trace, w.status)
  PROVE  RunsInv'
<1>1. lock = t /\ cloud
  BY DEF RunsInv
<1>2. job \in [Threads -> JobRecords] /\ j \in JobRecords
  BY DEF RunsInv, JobSound
<1>3. job' \in [Threads -> JobRecords] /\ lock' \in Threads \cup {Free}
  BY <1>2 DEF RunsInv
<1>4. ASSUME NEW u \in Threads
      PROVE  JobSound(job[u])' /\ (job'[u].step # "none" => lock' = u /\ cloud')
  <2>1. CASE u = t
    <3>1. job'[u] = j
      BY <1>2, <2>1
    <3>2. JobSound(j)'
      BY JobStays
    <3>3. JobSound(job[u])'
      BY <3>1, <3>2 DEF JobSound
    <3> QED BY <1>1, <2>1, <3>1, <3>3
  <2>2. CASE u # t
    <3>1. job'[u] = job[u] /\ JobSound(job[u])
      BY <1>2, <2>2 DEF RunsInv
    <3>2. PICK k : k = job[u]
      OBVIOUS
    <3>3. JobSound(k)'
      BY <3>1, <3>2, JobStays
    <3>4. JobSound(job[u])'
      BY <3>1, <3>2, <3>3 DEF JobSound
    <3>5. job[u].step = "none"
      BY <1>1, <2>2 DEF RunsInv
    <3> QED BY <3>1, <3>4, <3>5
  <2> QED BY <2>1, <2>2
<1>5. ASSUME NEW w \in workflows'
      PROVE  w.trace \in Traces /\ Traced(w.trace)' /\ Closed(w.trace, w.status)
  <2>1. w.trace \in Traces /\ Traced(w.trace) /\ Closed(w.trace, w.status)
    BY DEF RunsInv
  <2> QED BY <2>1, TracedStays
<1> QED BY <1>3, <1>4, <1>5 DEF RunsInv, Traced, Closed
-----------------------------------------------------------------------------
LEMMA InitSound ==
  ASSUME Init
  PROVE  RunsInv
<1>1. NoJob \in JobRecords
  BY NoJobSound DEF JobSound
<1>2. \A t \in Threads : job[t] = NoJob
  BY DEF Init
<1>3. \A t \in Threads : JobSound(job[t]) /\ job[t].step = "none"
  BY <1>2, NoJobSound DEF NoJob
<1> QED BY <1>1, <1>3 DEF Init, RunsInv

LEMMA ExecuteSound ==
  ASSUME RunsInv, NEW t \in Threads, NEW kind \in {"prompt", "workflow"},
         NEW supplied \in SUBSET Steps, NEW max \in Nat, NEW stop \in BOOLEAN,
         Execute(t, kind, supplied, max, stop)
  PROVE  RunsInv'
<1> DEFINE j == [NoJob EXCEPT !.step = "next", !.kind = kind, !.id = supplied,
                              !.max = max, !.stop = stop]
<1>1. lock = Free /\ cloud /\ lock' = t /\ job' = [job EXCEPT ![t] = j]
      /\ UNCHANGED <<cloud, runs, workflows, calls>>
  BY DEF Execute, Start, runVars
<1>2. JobSound(j)
  BY NoJobSound DEF JobSound, JobRecords, NoJob
<1>3. job \in [Threads -> JobRecords] /\ j \in JobRecords
  BY <1>2 DEF RunsInv, JobSound
<1> HIDE DEF j
<1>4. ASSUME NEW u \in Threads
      PROVE  JobSound(job[u])' /\ (job'[u].step # "none" => lock' = u /\ cloud')
  <2>1. CASE u = t
    <3>1. job'[u] = j /\ JobSound(j)'
      BY <1>1, <1>2, <1>3, <2>1, JobStays
    <3> QED BY <1>1, <2>1, <3>1 DEF JobSound
  <2>2. CASE u # t
    <3>1. job'[u] = job[u] /\ JobSound(job[u])
      BY <1>1, <1>3, <2>2 DEF RunsInv
    <3>2. job[u].step = "none"
      BY <1>1, FreeAssumption DEF RunsInv
    <3>3. JobSound(job[u])'
      BY <1>1, <3>1 DEF JobSound, Traced, Closed
    <3> QED BY <3>1, <3>2, <3>3
  <2> QED BY <2>1, <2>2
<1> QED BY <1>1, <1>3, <1>4 DEF RunsInv, Traced, Closed

LEMMA NextStepSound ==
  ASSUME RunsInv, NEW t \in Threads, NextStep(t)
  PROVE  RunsInv'
<1>1. PICK j : j = job[t]
  OBVIOUS
<1>2. j.step = "next" /\ JobSound(j) /\ j \in JobRecords
  BY <1>1 DEF NextStep, RunsInv, JobSound
<1> DEFINE k == IF At(j) > j.max THEN [j EXCEPT !.step = "save"]
                ELSE IF At(j) \in j.id THEN [j EXCEPT !.step = "call", !.attempt = 1]
                ELSE Ended(j, "awaiting-input")
<1>3. JobSound([j EXCEPT !.step = "save"])
  BY <1>2 DEF JobSound, JobRecords
<1>4. JobSound([j EXCEPT !.step = "call", !.attempt = 1])
  BY <1>2 DEF JobSound, JobRecords
<1>5. JobSound(k)
  BY <1>2, <1>3, <1>4, EndedSound
<1>6. job' = [job EXCEPT ![t] = k]
  BY <1>1 DEF NextStep, Set
<1> HIDE DEF k
<1>7. lock' = lock /\ cloud' = cloud /\ runs' = runs /\ workflows' = workflows
      /\ calls' = calls /\ calls \in Nat
  BY DEF NextStep, runVars, RunsInv
<1> QED BY <1>1, <1>2, <1>5, <1>6, <1>7, JobStep

(* The request ends with nothing more saved. *)
LEMMA LeaveSound ==
  ASSUME RunsInv, NEW t \in Threads, job[t].step # "none", Leave(t, NoJob),
         cloud' = cloud, runs \subseteq runs', calls' = calls,
         \A w \in workflows' :
           \/ w \in workflows
           \/ w.trace \in Traces /\ Traced(w.trace) /\ Closed(w.trace, w.status)
  PROVE  RunsInv'
<1>1. lock = t /\ calls \in Nat
  BY DEF RunsInv
<1>2. job' = [job EXCEPT ![t] = NoJob] /\ lock' = Free /\ NoJob.step = "none"
  BY <1>1 DEF Leave, Set, NoJob
<1> QED BY <1>1, <1>2, NoJobSound, JobStep

LEMMA CallSteps ==
  ASSUME RunsInv, NEW t \in Threads,
         CallAnswers(t) \/ CallRetries(t) \/ CallFails(t) \/ CallRaises(t)
  PROVE  RunsInv'
<1>1. PICK j : j = job[t]
  OBVIOUS
<1>2. /\ j.step = "call" /\ JobSound(j) /\ j \in JobRecords /\ calls \in Nat
      /\ UNCHANGED <<cloud, runs, workflows>>
  BY <1>1 DEF CallAnswers, CallRetries, CallFails, CallRaises, RunsInv, JobSound, runVars
<1>3. CASE CallAnswers(t)
  <2>1. PICK n : n = calls + 1
    OBVIOUS
  <2>2. JobSound([j EXCEPT !.step = "store", !.run = n])
    <3> DEFINE k == [j EXCEPT !.step = "store", !.run = n]
    <3>1. n \in Nat /\ n # 0
      BY <1>2, <2>1
    <3>2. /\ k \in JobRecords /\ k.step = "store" /\ k.run = n
          /\ k.trace = j.trace /\ k.status = j.status
      BY <1>2, <3>1 DEF JobRecords
    <3> HIDE DEF k
    <3>3. JobSound(k)
      BY <1>2, <3>1, <3>2 DEF JobSound
    <3> QED BY <3>3 DEF k
  <2>3. job' = [job EXCEPT ![t] = [j EXCEPT !.step = "store", !.run = n]]
        /\ lock' = lock /\ calls' \in Nat
    BY <1>1, <1>2, <1>3, <2>1 DEF CallAnswers, Set
  <2> QED BY <1>1, <1>2, <2>2, <2>3, JobStep
<1>4. CASE CallRetries(t)
  <2>1. JobSound([j EXCEPT !.attempt = j.attempt + 1])
    BY <1>2 DEF JobSound, JobRecords
  <2>2. job' = [job EXCEPT ![t] = [j EXCEPT !.attempt = j.attempt + 1]]
        /\ lock' = lock /\ calls' = calls
    BY <1>1, <1>4 DEF CallRetries, Set
  <2> QED BY <1>1, <1>2, <2>1, <2>2, JobStep
<1>5. CASE CallFails(t) /\ j.kind # "prompt"
  <2>1. JobSound(Ended(j, "failed"))
    BY <1>2, EndedSound
  <2>2. job' = [job EXCEPT ![t] = Ended(j, "failed")] /\ lock' = lock /\ calls' = calls
    BY <1>1, <1>5 DEF CallFails, Set
  <2> QED BY <1>1, <1>2, <2>1, <2>2, JobStep
<1>6. CASE CallRaises(t) \/ (CallFails(t) /\ j.kind = "prompt")
  <2>1. Leave(t, NoJob) /\ calls' = calls
    BY <1>1, <1>6 DEF CallRaises, CallFails
  <2> QED BY <1>1, <1>2, <2>1, LeaveSound
<1> QED BY <1>3, <1>4, <1>5, <1>6

LEMMA SaveModelRunSound ==
  ASSUME RunsInv, NEW t \in Threads, SaveModelRun(t)
  PROVE  RunsInv'
<1>1. PICK j : j = job[t]
  OBVIOUS
<1>2. PICK s \in {"validated", "invalid"} :
        /\ j.step = "store"
        /\ runs' = runs \cup {[id |-> j.run, status |-> s]}
        /\ IF j.kind = "prompt" THEN Leave(t, NoJob)
           ELSE /\ UNCHANGED lock
                /\ Set(t, IF s = "invalid" /\ j.stop
                            THEN [Ended(j, s) EXCEPT !.status = "stopped-invalid"]
                            ELSE [Record(j, s) EXCEPT !.step = "next"])
        /\ UNCHANGED <<cloud, workflows, calls>>
  BY <1>1 DEF SaveModelRun
<1>3. JobSound(j) /\ j \in JobRecords /\ calls \in Nat /\ j.step # "none"
  BY <1>1, <1>2 DEF RunsInv, JobSound
<1>4. CASE j.kind = "prompt"
  BY <1>1, <1>2, <1>3, <1>4, LeaveSound
<1>5. CASE j.kind # "prompt"
  <2> DEFINE grown == Append(j.trace, [status |-> s, run |-> j.run])
             k == IF s = "invalid" /\ j.stop
                  THEN [j EXCEPT !.trace = grown, !.run = 0, !.step = "save",
                                 !.status = "stopped-invalid"]
                  ELSE [j EXCEPT !.trace = grown, !.run = 0, !.step = "next"]
  <2>1. j.run \in Nat /\ j.run # 0 /\ j.status = "completed" /\ j.trace \in Traces
        /\ s \in StepStatus /\ "stopped-invalid" \in Status
    BY <1>2, <1>3 DEF JobSound, JobRecords, StepStatus, Status
  <2>2. job' = [job EXCEPT ![t] = k] /\ lock' = lock
    <3>1. /\ Record(j, s) = [j EXCEPT !.trace = grown, !.run = 0]
          /\ [Ended(j, s) EXCEPT !.status = "stopped-invalid"]
               = [j EXCEPT !.trace = grown, !.run = 0, !.step = "save",
                           !.status = "stopped-invalid"]
          /\ [Record(j, s) EXCEPT !.step = "next"]
               = [j EXCEPT !.trace = grown, !.run = 0, !.step = "next"]
      BY <1>3 DEF Ended, Record, JobRecords
    <3> HIDE DEF grown
    <3> QED BY <1>2, <1>5, <3>1 DEF Set
  <2> HIDE DEF grown
  (* The step's own run is saved in this step. *)
  <2>3. grown \in Traces /\ Traced(grown)' /\ \A status : Closed(grown, status)
    <3>1. /\ grown \in Traces /\ Len(j.trace) \in Nat /\ Len(grown) = Len(j.trace) + 1
          /\ \A i \in 1 .. Len(j.trace) : grown[i] = j.trace[i]
          /\ grown[Len(j.trace) + 1] = [status |-> s, run |-> j.run]
      BY <2>1 DEF Traces, grown
    <3>2. \A i \in 1 .. Len(grown) : i \in 1 .. Len(j.trace) \/ i = Len(j.trace) + 1
      BY <3>1
    <3>3. Traced(j.trace) /\ Closed(j.trace, "completed")
      BY <1>3, <2>1 DEF JobSound
    <3>4. Traced(grown)'
      BY <1>2, <3>1, <3>2, <3>3 DEF Traced
    <3>5. \A status : Closed(grown, status)
      BY <2>1, <3>1, <3>2, <3>3 DEF Closed
    <3> QED BY <3>1, <3>4, <3>5
  <2>4. /\ k \in JobRecords /\ k.run = 0 /\ k.trace = grown
        /\ k.step \in {"next", "save"} /\ (k.step = "next" => k.status = "completed")
    BY <1>3, <2>1, <2>3 DEF JobRecords
  <2> HIDE DEF k
  <2>5. job[t].step # "none" /\ lock = t /\ cloud
    BY <1>1, <1>3 DEF RunsInv
  <2>6. job \in [Threads -> JobRecords] /\ runs \subseteq runs'
    BY <1>2 DEF RunsInv
  <2>7. ASSUME NEW u \in Threads
        PROVE  JobSound(job[u])' /\ (job'[u].step # "none" => lock' = u /\ cloud')
    <3>1. CASE u = t
      <4>1. job'[u] = k
        BY <2>2, <2>6, <3>1
      <4>2. JobSound(job[u])'
        BY <2>3, <2>4, <4>1 DEF JobSound, Closed, Traced
      <4> QED BY <1>2, <2>2, <2>5, <3>1, <4>2
    <3>2. CASE u # t
      <4>1. PICK h : h = job[u]
        OBVIOUS
      <4>2. job'[u] = h /\ JobSound(h) /\ h.step = "none"
        BY <2>2, <2>5, <2>6, <3>2, <4>1 DEF RunsInv
      <4>3. JobSound(h)'
        BY <2>6, <4>2, JobStays
      <4>4. JobSound(job[u])'
        BY <4>2, <4>3 DEF JobSound
      <4> QED BY <4>2, <4>4
    <3> QED BY <3>1, <3>2
  <2>8. ASSUME NEW w \in workflows'
        PROVE  w.trace \in Traces /\ Traced(w.trace)' /\ Closed(w.trace, w.status)
    <3>1. w.trace \in Traces /\ Traced(w.trace) /\ Closed(w.trace, w.status)
      BY <1>2 DEF RunsInv
    <3> QED BY <2>6, <3>1, TracedStays
  <2>9. job' \in [Threads -> JobRecords] /\ lock' \in Threads \cup {Free} /\ calls' \in Nat
    BY <1>2, <1>3, <2>2, <2>4, <2>6 DEF RunsInv
  <2> QED BY <2>7, <2>8, <2>9 DEF RunsInv, Traced, Closed
<1> QED BY <1>4, <1>5

LEMMA SaveWorkflowRunSound ==
  ASSUME RunsInv, NEW t \in Threads, SaveWorkflowRun(t)
  PROVE  RunsInv'
<1>1. PICK r : r = WorkflowRecord(job[t])
  OBVIOUS
<1>2. workflows' \subseteq workflows \cup {r}
      /\ job[t].step = "save" /\ Leave(t, NoJob)
      /\ cloud' = cloud /\ runs' = runs /\ calls' = calls
  BY <1>1 DEF SaveWorkflowRun
<1>3. JobSound(job[t]) /\ r.trace = job[t].trace /\ r.status = job[t].status
  BY <1>1 DEF WorkflowRecord, RunsInv
<1>4. r.trace \in Traces /\ Traced(r.trace) /\ Closed(r.trace, r.status)
  BY <1>3 DEF JobSound, JobRecords
<1> QED BY <1>2, <1>4, LeaveSound

LEMMA RestSound ==
  ASSUME RunsInv, UNCHANGED <<lock, job, runs, workflows, calls>>,
         cloud' = cloud \/ lock = Free
  PROVE  RunsInv'
<1>1. \A t \in Threads : job[t].step # "none" => lock' = t /\ cloud'
  BY FreeAssumption DEF RunsInv
<1> QED BY <1>1 DEF RunsInv, JobSound, Traced, Closed

LEMMA KillSound ==
  ASSUME RunsInv, Kill
  PROVE  RunsInv'
<1>1. job' = [t \in Threads |-> NoJob] /\ UNCHANGED <<cloud, runs, workflows, calls>>
      /\ lock' = Free
  BY DEF Kill, runVars
<1>2. JobSound(NoJob)' /\ NoJob \in JobRecords /\ NoJob.step = "none"
  BY <1>1, NoJobSound, JobStays DEF JobSound, NoJob
<1>3. \A t \in Threads : job'[t] = NoJob
  BY <1>1
<1> QED BY <1>1, <1>2, <1>3 DEF RunsInv, JobSound, Traced, Closed
-----------------------------------------------------------------------------
(* The invariant holds of every behaviour. *)
THEOREM RunsInvariance == Spec => []RunsInv
<1>1. Init => RunsInv
  BY InitSound
<1>2. ASSUME RunsInv, [Next]_vars
      PROVE  RunsInv'
  <2>1. CASE CommitPrivacy
    BY <1>2, <2>1, RestSound DEF CommitPrivacy, runVars
  <2>2. ASSUME NEW t \in Threads, Execute(t, "prompt", {1}, 1, TRUE)
        PROVE  RunsInv'
    <3>1. {1} \in SUBSET Steps /\ 1 \in Nat
      BY BoundsAssumption DEF Steps
    <3> QED BY <1>2, <2>2, <3>1, ExecuteSound
  <2>3. ASSUME NEW t \in Threads, NEW supplied \in SUBSET Steps, NEW max \in Steps,
               NEW stop \in BOOLEAN, Execute(t, "workflow", supplied, max, stop)
        PROVE  RunsInv'
    <3>1. max \in Nat
      BY DEF Steps
    <3> QED BY <1>2, <2>3, <3>1, ExecuteSound
  <2>4. ASSUME NEW t \in Threads,
               \/ NextStep(t) \/ CallAnswers(t) \/ CallRetries(t) \/ CallFails(t)
               \/ CallRaises(t) \/ SaveModelRun(t) \/ SaveWorkflowRun(t)
        PROVE  RunsInv'
    BY <1>2, <2>4, NextStepSound, CallSteps, SaveModelRunSound, SaveWorkflowRunSound
  <2>5. ASSUME NEW run, NEW decision, Review(run, decision)
        PROVE  RunsInv'
    BY <1>2, <2>5, RestSound DEF Review
  <2>6. CASE Kill
    BY <1>2, <2>6, KillSound
  <2>7. CASE UNCHANGED vars
    BY <1>2, <2>7, RestSound DEF vars, runVars
  <2> QED BY <1>2, <2>1, <2>2, <2>3, <2>4, <2>5, <2>6, <2>7 DEF Next
<1> QED BY <1>1, <1>2, PTL DEF Spec

(* docs/SECURITY.md: no call of a provider is made while the committed     *)
(* policy forbids it, for any number of retries, steps and threads.        *)
THEOREM CallsStayAllowed == Spec => []CallsAreAllowed
<1>1. RunsInv => CallsAreAllowed
  BY DEF RunsInv, CallsAreAllowed
<1> QED BY <1>1, RunsInvariance, PTL

(* prompt_runs.py: whatever is killed or fails between a trace and the     *)
(* record of its workflow, a recorded answer has its saved trace.          *)
THEOREM RecordedTracesExist == Spec => []TracesExist
<1>1. RunsInv => TracesExist
  <2> SUFFICES ASSUME RunsInv, NEW w \in workflows, NEW i \in DOMAIN w.trace
               PROVE  w.trace[i].run # 0 =>
                        [id |-> w.trace[i].run, status |-> w.trace[i].status] \in runs
    BY DEF TracesExist
  <2>1. w.trace \in Traces /\ Traced(w.trace)
    BY DEF RunsInv
  <2>2. i \in 1 .. Len(w.trace)
    BY <2>1 DEF Traces
  <2> QED BY <2>1, <2>2 DEF Traced
<1> QED BY <1>1, RunsInvariance, PTL

(* docs/MODEL_EXECUTION.md: a workflow fails closed.                       *)
THEOREM WorkflowsFailClosed == Spec => []FailsClosed
<1>1. RunsInv => FailsClosed
  <2> SUFFICES ASSUME RunsInv, NEW w \in workflows, NEW i \in DOMAIN w.trace,
                      i < Len(w.trace) \/ w.status = "completed"
               PROVE  w.trace[i].run # 0
    BY DEF FailsClosed
  <2>1. w.trace \in Traces /\ Closed(w.trace, w.status)
    BY DEF RunsInv
  <2>2. i \in 1 .. Len(w.trace)
    BY <2>1 DEF Traces
  <2> QED BY <2>1, <2>2 DEF Closed
<1> QED BY <1>1, RunsInvariance, PTL

(* docs/MODEL_EXECUTION.md: "The base run file is immutable".  No step of  *)
(* any request removes or replaces a trace or a workflow's record.         *)
THEOREM RecordsStayImmutable == Spec => RecordsAreImmutable
<1>1. [Next]_vars => [runs \subseteq runs' /\ workflows \subseteq workflows']_vars
  BY DEF Next, vars, runVars, CommitPrivacy, Execute, NextStep, CallAnswers, CallRetries,
         CallFails, CallRaises, SaveModelRun, SaveWorkflowRun, Review, Kill
<1> QED BY <1>1, PTL DEF Spec, RecordsAreImmutable
-----------------------------------------------------------------------------
(* Types and the budget of calls. *)

(* What a job holds in any state... *)
Fits(j) ==
  /\ j.attempt <= MaxAttempts /\ j.run \in RunIds /\ j.trace \in Seq(StepRecord)
  /\ j.max <= StepCount /\ Len(j.trace) <= StepCount
  /\ j.step \in {"call", "store"} => Len(j.trace) < StepCount

(* ... and with c answers of e executions, which may take b: of its own    *)
(* execution it has had one answer for a step of its trace at most, and    *)
(* the one it is to store.                                                 *)
Paid(j, c, e, b) ==
  j.step # "none" =>
    /\ e >= 1
    /\ c + StepCount <= b + Len(j.trace) + (IF j.step = "store" THEN 1 ELSE 0)

RecordTypes ==
  /\ cloud \in BOOLEAN
  /\ runs \subseteq [id : RunIds, status : {"validated", "invalid"}]
  /\ workflows \subseteq [id : SUBSET Steps, status : Status,
                          trace : Seq(StepRecord), made : 1 .. MaxExecutions]
  /\ reviews \in Seq([run : RunIds, decision : Decisions])

BudgetInv ==
  /\ RecordTypes
  /\ executions \in 0 .. MaxExecutions
  /\ calls <= executions * StepCount
  /\ \A t \in Threads : Fits(job[t]) /\ Paid(job[t], calls, executions, executions * StepCount)

LEMMA Budget ==
  ASSUME NEW e \in 0 .. MaxExecutions
  PROVE  /\ e \in Nat /\ StepCount \in Nat /\ StepCount >= 1
         /\ e * StepCount \in Nat /\ (e + 1) * StepCount = e * StepCount + StepCount
         /\ MaxExecutions * StepCount \in Nat
         /\ e * StepCount <= MaxExecutions * StepCount
<1>1. e \in Nat /\ MaxExecutions \in Nat /\ e <= MaxExecutions
      /\ StepCount \in Nat /\ StepCount >= 1
  BY BoundsAssumption
<1> QED BY <1>1

LEMMA NoJobFits == Fits(NoJob) /\ NoJob.step = "none"
<1>1. 0 \in RunIds
  BY BoundsAssumption DEF RunIds
<1>2. <<>> \in Seq(StepRecord) /\ Len(<<>>) = 0
  OBVIOUS
<1> QED BY <1>1, <1>2, BoundsAssumption DEF NoJob, Fits

(* What a step adds to a trace. *)
LEMMA TraceFits ==
  ASSUME NEW j, Fits(j), Len(j.trace) < StepCount, NEW s \in StepStatus,
         NEW grown, grown = Append(j.trace, [status |-> s, run |-> j.run])
  PROVE  /\ grown \in Seq(StepRecord) /\ Len(j.trace) \in Nat
         /\ Len(grown) = Len(j.trace) + 1 /\ Len(grown) <= StepCount
<1>1. [status |-> s, run |-> j.run] \in StepRecord
  BY DEF Fits, StepRecord
<1>2. j.trace \in Seq(StepRecord)
  BY DEF Fits
<1> QED BY <1>1, <1>2, BoundsAssumption

(* A job whose trace has grown by a step goes on, or is to be saved. *)
LEMMA GrownFits ==
  ASSUME NEW j, j \in JobRecords, Fits(j), Len(j.trace) < StepCount,
         NEW s \in StepStatus, NEW k, NEW c \in Nat, NEW e \in Nat,
         NEW b \in Nat, Paid(j, c, e, b), j.step # "none",
         k.trace = Append(j.trace, [status |-> s, run |-> j.run]),
         k.run = 0, k.attempt = j.attempt, k.max = j.max,
         k.step \in {"next", "save"}
  PROVE  Fits(k) /\ Paid(k, c, e, b)
<1>1. PICK g : g = Append(j.trace, [status |-> s, run |-> j.run])
  OBVIOUS
<1>2. /\ g \in Seq(StepRecord) /\ Len(j.trace) \in Nat
      /\ Len(g) = Len(j.trace) + 1 /\ Len(g) <= StepCount
  BY <1>1, TraceFits
<1>3. 0 \in RunIds
  BY BoundsAssumption DEF RunIds
<1>4. Fits(k)
  BY <1>1, <1>2, <1>3 DEF Fits
<1>5. /\ e >= 1
      /\ c + StepCount <= b + Len(j.trace) + (IF j.step = "store" THEN 1 ELSE 0)
  BY DEF Paid
<1>6. StepCount \in Nat
  BY BoundsAssumption
<1>7. c + StepCount <= b + Len(g)
  <2>1. PICK l : l = Len(j.trace)
    OBVIOUS
  <2>2. l \in Nat /\ Len(g) = l + 1
    BY <1>2, <2>1
  <2>3. c + StepCount <= b + l + 1
    <3>1. CASE j.step = "store"
      BY <1>5, <2>1, <3>1
    <3>2. CASE j.step # "store"
      <4>1. c + StepCount <= b + l + 0
        BY <1>5, <2>1, <3>2
      <4> QED BY <1>6, <2>2, <4>1
    <3> QED BY <3>1, <3>2
  <2> QED BY <1>6, <2>2, <2>3
<1>8. Len(k.trace) = Len(g) /\ k.step # "store"
  BY <1>1
<1>9. c + StepCount <= b + Len(k.trace) + 0
  BY <1>2, <1>7, <1>8
<1> QED BY <1>4, <1>5, <1>8, <1>9 DEF Paid

(* The fields of a job that a step ends in. *)
LEMMA RecordFields ==
  ASSUME NEW j \in JobRecords, NEW s, NEW step, NEW status
  PROVE  LET grown == Append(j.trace, [status |-> s, run |-> j.run])
             Grown(k) == /\ k.trace = grown /\ k.run = 0
                         /\ k.attempt = j.attempt /\ k.max = j.max
         IN  /\ Grown(Ended(j, s)) /\ Ended(j, s).step = "save"
             /\ Grown([Ended(j, s) EXCEPT !.status = status])
             /\ [Ended(j, s) EXCEPT !.status = status].step = "save"
             /\ Grown([Record(j, s) EXCEPT !.step = step])
             /\ [Record(j, s) EXCEPT !.step = step].step = step
<1> DEFINE grown == Append(j.trace, [status |-> s, run |-> j.run])
           r == [j EXCEPT !.trace = grown, !.run = 0]
<1>1. Record(j, s) = r
  BY DEF Record, JobRecords
<1> HIDE DEF grown
<1>2. /\ [r EXCEPT !.step = "save", !.status = s].trace = grown
      /\ [r EXCEPT !.step = "save", !.status = s].run = 0
      /\ [r EXCEPT !.step = "save", !.status = s].attempt = j.attempt
      /\ [r EXCEPT !.step = "save", !.status = s].max = j.max
      /\ [r EXCEPT !.step = "save", !.status = s].step = "save"
  BY DEF JobRecords
<1>3. LET q == [[r EXCEPT !.step = "save", !.status = s] EXCEPT !.status = status]
      IN  /\ q.trace = grown /\ q.run = 0 /\ q.attempt = j.attempt
          /\ q.max = j.max /\ q.step = "save"
  BY DEF JobRecords
<1>4. LET q == [r EXCEPT !.step = step]
      IN  /\ q.trace = grown /\ q.run = 0 /\ q.attempt = j.attempt
          /\ q.max = j.max /\ q.step = step
  BY DEF JobRecords
<1>5. Ended(j, s) = [r EXCEPT !.step = "save", !.status = s]
  BY <1>1 DEF Ended
<1> HIDE DEF r
<1> QED BY <1>1, <1>2, <1>3, <1>4, <1>5 DEF grown

(* A thread with a job holds the lock: the others have none. *)
LEMMA OthersIdle ==
  ASSUME RunsInv, NEW t \in Threads, job[t].step # "none",
         NEW u \in Threads, u # t
  PROVE  job[u].step = "none"
BY DEF RunsInv

LEMMA JobBudget ==
  ASSUME RunsInv, BudgetInv, RecordTypes', NEW t \in Threads, job[t].step # "none",
         NEW k, job' = [job EXCEPT ![t] = k], Fits(k), Paid(k, calls', executions, executions * StepCount),
         executions' = executions, calls' <= executions * StepCount
  PROVE  BudgetInv'
<1>1. job \in [Threads -> JobRecords]
  BY DEF RunsInv
<1>2. ASSUME NEW u \in Threads
      PROVE  Fits(job'[u]) /\ Paid(job'[u], calls', executions', executions' * StepCount)
  <2>1. CASE u = t
    <3>1. job'[u] = k
      BY <1>1, <2>1
    <3> QED BY <3>1
  <2>2. CASE u # t
    <3>1. job'[u] = job[u] /\ job[u].step = "none" /\ Fits(job[u])
      BY <1>1, <2>2, OthersIdle DEF BudgetInv
    <3> QED BY <3>1 DEF Paid
  <2> QED BY <2>1, <2>2
<1> QED BY <1>2 DEF BudgetInv

LEMMA LeaveBudget ==
  ASSUME RunsInv, BudgetInv, RecordTypes', NEW t \in Threads, job[t].step # "none",
         Leave(t, NoJob), executions' = executions, calls' = calls
  PROVE  BudgetInv'
<1>1. job' = [job EXCEPT ![t] = NoJob]
  BY DEF Leave, Set
<1>2. Paid(NoJob, calls', executions, executions * StepCount)
  BY NoJobFits DEF Paid
<1>3. calls' <= executions * StepCount
  BY DEF BudgetInv
<1> QED BY <1>1, <1>2, <1>3, NoJobFits, JobBudget

LEMMA ExecuteBudget ==
  ASSUME RunsInv, BudgetInv, NEW t \in Threads, NEW kind,
         NEW supplied, NEW max \in Steps, NEW stop,
         Execute(t, kind, supplied, max, stop)
  PROVE  BudgetInv'
<1> DEFINE j == [NoJob EXCEPT !.step = "next", !.kind = kind, !.id = supplied,
                              !.max = max, !.stop = stop]
<1>1. /\ lock = Free /\ job' = [job EXCEPT ![t] = j]
      /\ executions < MaxExecutions /\ executions' = executions + 1
      /\ UNCHANGED <<cloud, runs, workflows, reviews, calls>>
  BY DEF Execute, Start, runVars
<1>2. /\ j.step = "next" /\ j.attempt = 0 /\ j.run = 0 /\ j.max = max /\ j.trace = <<>>
  BY DEF NoJob
<1> HIDE DEF j
<1>e. /\ executions \in Nat /\ calls \in Nat /\ executions \in 0 .. MaxExecutions
      /\ calls <= executions * StepCount /\ MaxExecutions \in Nat
  BY BoundsAssumption DEF BudgetInv, RunsInv
<1>b. PICK b : b = executions * StepCount
  OBVIOUS
<1>c. /\ b \in Nat /\ StepCount \in Nat /\ StepCount >= 1
      /\ executions' * StepCount = b + StepCount
  BY <1>1, <1>e, <1>b, Budget
<1>3. Fits(j)
  <2>1. Len(<<>>) = 0 /\ <<>> \in Seq(StepRecord) /\ 0 \in RunIds
    BY BoundsAssumption DEF RunIds
  <2>2. max <= StepCount
    BY DEF Steps
  <2> QED BY <1>2, <2>1, <2>2, BoundsAssumption DEF Fits
<1>4. Paid(j, calls', executions', executions' * StepCount)
  <2>1. Len(j.trace) = 0 /\ executions' >= 1
    BY <1>1, <1>2, <1>e
  <2>2. calls' + StepCount <= executions' * StepCount + Len(j.trace) + 0
    BY <1>1, <1>b, <1>c, <1>e, <2>1
  <2> QED BY <1>2, <2>1, <2>2 DEF Paid
<1>5. \A u \in Threads : job[u].step = "none"
  BY <1>1, FreeAssumption DEF RunsInv
<1>6. ASSUME NEW u \in Threads
      PROVE  Fits(job'[u]) /\ Paid(job'[u], calls', executions', executions' * StepCount)
  <2>0. job \in [Threads -> JobRecords]
    BY DEF RunsInv
  <2>1. CASE u = t
    <3>1. job'[u] = j
      BY <1>1, <2>0, <2>1
    <3> QED BY <1>3, <1>4, <3>1
  <2>2. CASE u # t
    <3>1. job'[u] = job[u] /\ Fits(job[u])
      BY <1>1, <2>0, <2>2 DEF BudgetInv
    <3> QED BY <1>5, <3>1 DEF Paid
  <2> QED BY <2>1, <2>2
<1>7. executions' \in 0 .. MaxExecutions /\ calls' <= executions' * StepCount
  BY <1>1, <1>b, <1>c, <1>e
<1>8. RecordTypes'
  BY <1>1 DEF BudgetInv, RecordTypes
<1> QED BY <1>6, <1>7, <1>8 DEF BudgetInv

(* What a thread with a job may assume. *)
LEMMA JobFacts ==
  ASSUME RunsInv, BudgetInv, NEW t \in Threads
  PROVE  /\ job[t] \in JobRecords /\ Fits(job[t]) /\ Paid(job[t], calls, executions, executions * StepCount)
         /\ executions \in Nat /\ executions * StepCount \in Nat /\ calls \in Nat
         /\ calls <= executions * StepCount
         /\ StepCount \in Nat /\ MaxAttempts \in Nat
<1>1. executions \in 0 .. MaxExecutions
  BY DEF BudgetInv
<1> QED BY <1>1, Budget, BoundsAssumption DEF RunsInv, BudgetInv

LEMMA NextStepBudget ==
  ASSUME RunsInv, BudgetInv, NEW t \in Threads, NextStep(t)
  PROVE  BudgetInv'
<1>1. PICK j : j = job[t]
  OBVIOUS
<1>2. /\ j.step = "next" /\ j \in JobRecords /\ Fits(j)
      /\ Paid(j, calls, executions, executions * StepCount)
      /\ Len(j.trace) \in Nat /\ j.max \in Nat /\ executions * StepCount \in Nat
      /\ executions \in Nat /\ calls \in Nat /\ StepCount \in Nat
  <2>1. /\ j \in JobRecords /\ Fits(j)
        /\ Paid(j, calls, executions, executions * StepCount)
    BY <1>1, JobFacts
  <2>2. Len(j.trace) \in Nat /\ j.max \in Nat
    BY <2>1 DEF JobRecords, Traces
  <2>3. j.step = "next"
    BY <1>1 DEF NextStep
  <2> QED BY <2>1, <2>2, <2>3, JobFacts
<1>3. UNCHANGED <<cloud, runs, workflows, reviews, calls, executions>>
  BY DEF NextStep, runVars
<1>4. RecordTypes' /\ calls' <= executions * StepCount
  BY <1>3 DEF BudgetInv, RecordTypes
<1>5. CASE At(j) > j.max
  <2> DEFINE k == [j EXCEPT !.step = "save"]
  <2>1. job' = [job EXCEPT ![t] = k]
    BY <1>1, <1>5 DEF NextStep, Set
  <2>2. /\ k.step = "save" /\ k.trace = j.trace /\ k.attempt = j.attempt
        /\ k.run = j.run /\ k.max = j.max
    BY <1>2 DEF JobRecords
  <2> HIDE DEF k
  <2>3. Fits(k) /\ Paid(k, calls, executions, executions * StepCount)
    BY <1>2, <2>2 DEF Fits, Paid
  <2> QED BY <1>1, <1>2, <1>3, <1>4, <2>1, <2>3, JobBudget
<1>6. CASE ~(At(j) > j.max) /\ At(j) \in j.id
  <2> DEFINE k == [j EXCEPT !.step = "call", !.attempt = 1]
  <2>1. job' = [job EXCEPT ![t] = k]
    BY <1>1, <1>6 DEF NextStep, Set
  <2>2. /\ k.step = "call" /\ k.trace = j.trace /\ k.attempt = 1
        /\ k.run = j.run /\ k.max = j.max
    BY <1>2 DEF JobRecords
  <2> HIDE DEF k
  <2>3. Len(j.trace) < StepCount /\ 1 <= MaxAttempts
    BY <1>2, <1>6, BoundsAssumption DEF At, Fits
  <2>4. Fits(k) /\ Paid(k, calls, executions, executions * StepCount)
    BY <1>2, <2>2, <2>3 DEF Fits, Paid
  <2> QED BY <1>1, <1>2, <1>3, <1>4, <2>1, <2>4, JobBudget
<1>7. CASE ~(At(j) > j.max) /\ At(j) \notin j.id
  <2>1. PICK k : k = Ended(j, "awaiting-input")
    OBVIOUS
  <2>2. job' = [job EXCEPT ![t] = k]
    BY <1>1, <1>7, <2>1 DEF NextStep, Set
  <2>3. Len(j.trace) < StepCount /\ "awaiting-input" \in StepStatus
    BY <1>2, <1>7 DEF At, Fits, StepStatus
  <2>4. /\ k.trace = Append(j.trace, [status |-> "awaiting-input", run |-> j.run])
        /\ k.run = 0 /\ k.attempt = j.attempt /\ k.max = j.max /\ k.step = "save"
    BY <1>2, <2>1, RecordFields
  <2>5. Fits(k) /\ Paid(k, calls, executions, executions * StepCount)
    BY <1>2, <2>3, <2>4, GrownFits
  <2> QED BY <1>1, <1>2, <1>3, <1>4, <2>2, <2>5, JobBudget
<1> QED BY <1>5, <1>6, <1>7

LEMMA CallBudget ==
  ASSUME RunsInv, BudgetInv, NEW t \in Threads,
         CallAnswers(t) \/ CallRetries(t) \/ CallFails(t) \/ CallRaises(t)
  PROVE  BudgetInv'
<1>1. PICK j : j = job[t]
  OBVIOUS
<1>2. /\ j.step = "call" /\ j \in JobRecords /\ Fits(j) /\ Paid(j, calls, executions, executions * StepCount)
      /\ Len(j.trace) \in Nat /\ Len(j.trace) < StepCount /\ j.attempt \in Nat
      /\ executions * StepCount \in Nat /\ calls <= executions * StepCount
      /\ executions \in Nat /\ calls \in Nat /\ StepCount \in Nat /\ MaxAttempts \in Nat
  <2>1. j.step = "call"
    BY <1>1 DEF CallAnswers, CallRetries, CallFails, CallRaises
  <2>2. j \in JobRecords /\ Fits(j)
    BY <1>1, JobFacts
  <2>3. Len(j.trace) \in Nat /\ j.attempt \in Nat
    BY <2>2 DEF JobRecords, Traces
  <2>4. Len(j.trace) < StepCount
    BY <2>1, <2>2 DEF Fits
  <2> QED BY <1>1, <2>1, <2>2, <2>3, <2>4, JobFacts
<1>3. UNCHANGED <<cloud, runs, workflows, reviews, executions>>
  BY DEF CallAnswers, CallRetries, CallFails, CallRaises, runVars
<1>4. RecordTypes'
  BY <1>3 DEF BudgetInv, RecordTypes
<1>5. CASE CallAnswers(t)
  <2>1. PICK n : n = calls + 1
    OBVIOUS
  <2> DEFINE k == [j EXCEPT !.step = "store", !.run = n]
  <2>2. job' = [job EXCEPT ![t] = k] /\ calls' = n
    BY <1>1, <1>5, <2>1 DEF CallAnswers, Set
  <2>3. /\ k.step = "store" /\ k.trace = j.trace /\ k.attempt = j.attempt
        /\ k.run = n /\ k.max = j.max
    BY <1>2 DEF JobRecords
  <2> HIDE DEF k
  <2>4. PICK b : b = executions * StepCount
    OBVIOUS
  <2>5. executions >= 1 /\ calls + StepCount <= b + Len(j.trace) + 0
    <3>1. Paid(j, calls, executions, b)
      BY <1>2, <2>4
    <3> QED BY <1>2, <3>1 DEF Paid
  <2>6. n \in Nat /\ n + StepCount <= b + Len(j.trace) + 1 /\ n <= b
    <3>1. PICK l : l = Len(j.trace)
      OBVIOUS
    <3>2. b \in Nat
      BY <1>2, <2>4
    <3>3. PICK c, s : c = calls /\ s = StepCount
      OBVIOUS
    <3>4. c \in Nat /\ s \in Nat /\ l \in Nat /\ l < s /\ c + s <= b + l + 0
      BY <1>2, <2>5, <3>1, <3>3
    <3>5. c + 1 \in Nat /\ c + 1 + s <= b + l + 1 /\ c + 1 <= b
      BY <3>2, <3>4
    <3> QED BY <2>1, <3>1, <3>3, <3>5
  <2>7. n \in RunIds
    <3>1. executions \in 0 .. MaxExecutions
      BY DEF BudgetInv
    <3>2. b <= MaxExecutions * StepCount /\ MaxExecutions * StepCount \in Nat
      BY <2>4, <3>1, Budget
    <3> QED BY <1>2, <2>4, <2>6, <3>2 DEF RunIds
  <2>8. Fits(k)
    BY <1>2, <2>3, <2>7 DEF Fits
  <2>9. Paid(k, n, executions, b)
    BY <2>3, <2>4, <2>5, <2>6 DEF Paid
  <2> QED BY <1>1, <1>2, <1>3, <1>4, <2>2, <2>4, <2>6, <2>8, <2>9, JobBudget
<1>6. CASE CallRetries(t)
  <2> DEFINE k == [j EXCEPT !.attempt = j.attempt + 1]
  <2>1. job' = [job EXCEPT ![t] = k] /\ calls' = calls /\ j.attempt < MaxAttempts
    BY <1>1, <1>6 DEF CallRetries, Set
  <2>2. /\ k.step = "call" /\ k.trace = j.trace /\ k.attempt = j.attempt + 1
        /\ k.run = j.run /\ k.max = j.max
    BY <1>2 DEF JobRecords
  <2> HIDE DEF k
  <2>3. Fits(k) /\ Paid(k, calls, executions, executions * StepCount)
    <3>1. j.attempt + 1 <= MaxAttempts
      BY <1>2, <2>1
    <3> QED BY <1>2, <2>2, <3>1 DEF Fits, Paid
  <2> QED BY <1>1, <1>2, <1>3, <1>4, <2>1, <2>3, JobBudget
<1>7. CASE CallFails(t) /\ j.kind # "prompt"
  <2>1. PICK k : k = Ended(j, "failed")
    OBVIOUS
  <2>2. job' = [job EXCEPT ![t] = k] /\ calls' = calls
    BY <1>1, <1>7, <2>1 DEF CallFails, Set
  <2>3. "failed" \in StepStatus
    BY DEF StepStatus
  <2>4. /\ k.trace = Append(j.trace, [status |-> "failed", run |-> j.run])
        /\ k.run = 0 /\ k.attempt = j.attempt /\ k.max = j.max /\ k.step = "save"
    BY <1>2, <2>1, RecordFields
  <2>5. Fits(k) /\ Paid(k, calls, executions, executions * StepCount)
    BY <1>2, <2>3, <2>4, GrownFits
  <2> QED BY <1>1, <1>2, <1>3, <1>4, <2>2, <2>5, JobBudget
<1>8. CASE CallRaises(t) \/ (CallFails(t) /\ j.kind = "prompt")
  <2>1. Leave(t, NoJob) /\ calls' = calls
    BY <1>1, <1>8 DEF CallRaises, CallFails
  <2>2. job[t].step # "none"
    BY <1>1, <1>2
  <2> QED BY <1>3, <1>4, <2>1, <2>2, LeaveBudget
<1> QED BY <1>5, <1>6, <1>7, <1>8

LEMMA SaveModelRunBudget ==
  ASSUME RunsInv, BudgetInv, NEW t \in Threads, SaveModelRun(t)
  PROVE  BudgetInv'
<1>1. PICK j : j = job[t]
  OBVIOUS
<1>2. PICK s \in {"validated", "invalid"} :
        /\ j.step = "store"
        /\ runs' = runs \cup {[id |-> j.run, status |-> s]}
        /\ IF j.kind = "prompt" THEN Leave(t, NoJob)
           ELSE /\ UNCHANGED lock
                /\ Set(t, IF s = "invalid" /\ j.stop
                            THEN [Ended(j, s) EXCEPT !.status = "stopped-invalid"]
                            ELSE [Record(j, s) EXCEPT !.step = "next"])
        /\ UNCHANGED <<cloud, workflows, reviews, calls, executions>>
  BY <1>1 DEF SaveModelRun
<1>3. /\ j \in JobRecords /\ Fits(j) /\ Paid(j, calls, executions, executions * StepCount)
      /\ executions * StepCount \in Nat /\ calls <= executions * StepCount
      /\ executions \in Nat /\ calls \in Nat
  BY <1>1, JobFacts
<1>4. RecordTypes'
  <2>1. [id |-> j.run, status |-> s] \in [id : RunIds, status : {"validated", "invalid"}]
    BY <1>3 DEF Fits
  <2> QED BY <1>2, <2>1 DEF BudgetInv, RecordTypes
<1>5. job[t].step # "none"
  BY <1>1, <1>2
<1>6. CASE j.kind = "prompt"
  BY <1>2, <1>4, <1>5, <1>6, LeaveBudget
<1>7. CASE j.kind # "prompt"
  <2>1. PICK k : k = IF s = "invalid" /\ j.stop
                     THEN [Ended(j, s) EXCEPT !.status = "stopped-invalid"]
                     ELSE [Record(j, s) EXCEPT !.step = "next"]
    OBVIOUS
  <2>2. job' = [job EXCEPT ![t] = k]
    BY <1>2, <1>7, <2>1 DEF Set
  <2>3. /\ k.trace = Append(j.trace, [status |-> s, run |-> j.run])
        /\ k.run = 0 /\ k.attempt = j.attempt /\ k.max = j.max
        /\ k.step \in {"next", "save"}
    BY <1>3, <2>1, RecordFields
  <2>4. s \in StepStatus /\ Len(j.trace) < StepCount
    BY <1>2, <1>3 DEF StepStatus, Fits
  <2>5. Fits(k) /\ Paid(k, calls, executions, executions * StepCount)
    BY <1>2, <1>3, <2>3, <2>4, GrownFits
  <2> QED BY <1>2, <1>3, <1>4, <1>5, <2>2, <2>5, JobBudget
<1> QED BY <1>6, <1>7

LEMMA SaveWorkflowRunBudget ==
  ASSUME RunsInv, BudgetInv, NEW t \in Threads, SaveWorkflowRun(t)
  PROVE  BudgetInv'
<1>1. PICK j : j = job[t]
  OBVIOUS
<1>2. /\ j.step = "save" /\ Leave(t, NoJob)
      /\ workflows' \subseteq workflows \cup {WorkflowRecord(j)}
      /\ UNCHANGED <<cloud, runs, reviews, calls, executions>>
  BY <1>1 DEF SaveWorkflowRun
<1>3. j \in JobRecords /\ Fits(j) /\ Paid(j, calls, executions, executions * StepCount)
  BY <1>1, JobFacts
<1>4. executions \in 1 .. MaxExecutions
  <2>1. executions >= 1 /\ executions \in 0 .. MaxExecutions
    BY <1>2, <1>3 DEF Paid, BudgetInv
  <2> QED BY <2>1, BoundsAssumption
<1>5. WorkflowRecord(j) \in [id : SUBSET Steps, status : Status,
                             trace : Seq(StepRecord), made : 1 .. MaxExecutions]
  <2>1. j.id \in SUBSET Steps /\ j.status \in Status /\ j.trace \in Seq(StepRecord)
    BY <1>3 DEF JobRecords, Fits
  <2> QED BY <1>4, <2>1 DEF WorkflowRecord
<1>6. RecordTypes'
  BY <1>2, <1>5 DEF BudgetInv, RecordTypes
<1> QED BY <1>1, <1>2, <1>6, LeaveBudget

LEMMA RestBudget ==
  ASSUME BudgetInv, RecordTypes', UNCHANGED <<job, calls, executions>>
  PROVE  BudgetInv'
BY DEF BudgetInv

LEMMA KillBudget ==
  ASSUME BudgetInv, Kill
  PROVE  BudgetInv'
<1>1. job' = [t \in Threads |-> NoJob]
      /\ UNCHANGED <<cloud, runs, workflows, reviews, calls, executions>>
  BY DEF Kill, runVars
<1>2. RecordTypes' /\ executions' \in 0 .. MaxExecutions /\ calls' <= executions' * StepCount
  BY <1>1 DEF BudgetInv, RecordTypes
<1>3. \A t \in Threads : Fits(job'[t]) /\ Paid(job'[t], calls', executions', executions' * StepCount)
  BY <1>1, NoJobFits DEF Paid
<1> QED BY <1>2, <1>3 DEF BudgetInv

LEMMA BudgetStep ==
  ASSUME RunsInv, BudgetInv, [Next]_vars
  PROVE  BudgetInv'
<1>1. CASE CommitPrivacy
  <2>1. RecordTypes' /\ UNCHANGED <<job, calls, executions>>
    BY <1>1 DEF CommitPrivacy, runVars, BudgetInv, RecordTypes
  <2> QED BY <2>1, RestBudget
<1>2. ASSUME NEW t \in Threads, Execute(t, "prompt", {1}, 1, TRUE)
      PROVE  BudgetInv'
  <2>1. 1 \in Steps
    BY BoundsAssumption DEF Steps
  <2> QED BY <1>2, <2>1, ExecuteBudget
<1>3. ASSUME NEW t \in Threads, NEW supplied \in SUBSET Steps, NEW max \in Steps,
             NEW stop \in BOOLEAN, Execute(t, "workflow", supplied, max, stop)
      PROVE  BudgetInv'
  BY <1>3, ExecuteBudget
<1>4. ASSUME NEW t \in Threads,
             \/ NextStep(t) \/ CallAnswers(t) \/ CallRetries(t) \/ CallFails(t)
             \/ CallRaises(t) \/ SaveModelRun(t) \/ SaveWorkflowRun(t)
      PROVE  BudgetInv'
  BY <1>4, NextStepBudget, CallBudget, SaveModelRunBudget, SaveWorkflowRunBudget
<1>5. ASSUME NEW run \in runs, NEW decision \in Decisions, Review(run, decision)
      PROVE  BudgetInv'
  <2>1. run.id \in RunIds
    BY DEF BudgetInv, RecordTypes
  <2>2. [run |-> run.id, decision |-> decision] \in [run : RunIds, decision : Decisions]
    BY <2>1
  <2>3. reviews' \in Seq([run : RunIds, decision : Decisions])
    <3>1. reviews' = Append(reviews, [run |-> run.id, decision |-> decision])
      BY <1>5 DEF Review
    <3>2. reviews \in Seq([run : RunIds, decision : Decisions])
      BY DEF BudgetInv, RecordTypes
    <3> QED BY <2>2, <3>1, <3>2
  <2>4. RecordTypes'
    BY <1>5, <2>3 DEF Review, BudgetInv, RecordTypes
  <2> QED BY <1>5, <2>4, RestBudget DEF Review
<1>6. CASE Kill
  BY <1>6, KillBudget
<1>7. CASE UNCHANGED vars
  <2>1. RecordTypes' /\ UNCHANGED <<job, calls, executions>>
    BY <1>7 DEF vars, runVars, BudgetInv, RecordTypes
  <2> QED BY <2>1, RestBudget
<1> QED BY <1>1, <1>2, <1>3, <1>4, <1>5, <1>6, <1>7 DEF Next

(* model_execution.py and workflows.py: a call is made as often as the     *)
(* configuration allows and no more, and the traces and records say what   *)
(* at most StepCount answers of each execution gave, whatever is retried,  *)
(* revoked, reviewed or killed.                                            *)
THEOREM PromptTypeCorrectness == Spec => []TypeOK
<1>1. Init => BudgetInv
  <2> SUFFICES ASSUME Init PROVE BudgetInv
    OBVIOUS
  <2>1. 0 \in 0 .. MaxExecutions /\ 0 <= 0 * StepCount
    BY BoundsAssumption
  <2>2. <<>> \in Seq([run : RunIds, decision : Decisions])
    OBVIOUS
  <2>3. RecordTypes
    BY <2>2 DEF Init, RecordTypes
  <2>4. \A t \in Threads : Fits(job[t]) /\ Paid(job[t], calls, executions, executions * StepCount)
    BY NoJobFits DEF Init, Paid
  <2>5. executions = 0 /\ calls = 0
    BY DEF Init
  <2> QED BY <2>1, <2>3, <2>4, <2>5 DEF BudgetInv
<1>2. RunsInv /\ BudgetInv /\ [Next]_vars => BudgetInv'
  BY BudgetStep
<1>3. RunsInv /\ BudgetInv => TypeOK
  <2> SUFFICES ASSUME RunsInv, BudgetInv PROVE TypeOK
    OBVIOUS
  <2>1. ASSUME NEW t \in Threads
        PROVE  /\ job[t].step \in {"none", "next", "call", "store", "save"}
               /\ job[t].attempt \in 0 .. MaxAttempts
               /\ job[t].trace \in Seq(StepRecord)
    <3>1. job[t] \in JobRecords /\ Fits(job[t])
      BY JobFacts
    <3>2. job[t].step \in {"none", "next", "call", "store", "save"}
          /\ job[t].attempt \in Nat
      BY <3>1 DEF JobRecords
    <3> QED BY <3>1, <3>2, BoundsAssumption DEF Fits
  <2> QED BY <2>1 DEF RunsInv, BudgetInv, RecordTypes, TypeOK
<1> QED BY <1>1, <1>2, <1>3, RunsInvariance, PTL DEF Spec
=============================================================================
