------------------------ MODULE GemmaDownloadProofs ------------------------
(***************************************************************************)
(* Theorems about the model vault, for any number of chunks, workers,      *)
(* attempts and requests: no failure or kill takes bytes away, and, unless *)
(* a connection breaks inside a response, what is on disk is sound.        *)
(***************************************************************************)
EXTENDS GemmaDownload, TLAPS, FiniteSetTheorems

Files == [size : Nat, sound : BOOLEAN]
TaskRecords ==
  [step : {"none", "queued", "running", "done", "failed"},
   attempt : Nat, from : Nat, erred : BOOLEAN]

(* Only a verified model's chunks are about to be cleaned up. *)
KeptInv ==
  /\ part \in [Chunks -> Files]
  /\ task \in [Chunks -> TaskRecords]
  /\ thread = "clean" => file = "good"

(* While no attempt has left bytes behind, a task's range starts where its *)
(* chunk's file ends.                                                      *)
PartsSound ==
  \A c \in Chunks :
    /\ part[c].size <= Size
    /\ part[c].sound
    /\ task[c].step = "running" => task[c].from = part[c].size

NoPartType == NoPart \in Files
NoTaskType == NoTask \in TaskRecords
-----------------------------------------------------------------------------
LEMMA EmptyTypes == NoPartType /\ NoTaskType
BY DEF NoPartType, NoTaskType, NoPart, NoTask, Files, TaskRecords

LEMMA ReceivedType ==
  ASSUME KeptInv, NEW c \in Chunks, NEW n \in Nat
  PROVE  /\ Received(c, n) \in Files
         /\ Received(c, n).size = part[c].size + n
<1>1. part[c] \in Files /\ task[c] \in TaskRecords
  BY DEF KeptInv
<1> QED BY <1>1 DEF Received, Files, TaskRecords

(* What an attempt does to its chunk and its task, and to nothing else. *)
Attempted(c, n) ==
  /\ part' = [part EXCEPT ![c] = Received(c, n)]
  /\ \E k \in TaskRecords : task' = [task EXCEPT ![c] = k]
  /\ UNCHANGED <<file, thread>>

LEMMA AttemptType ==
  ASSUME KeptInv, NEW c \in Chunks, NEW n \in Units,
         ResponseEnds(c, n) \/ AttemptFails(c, n) \/ TaskRaises(c, n)
  PROVE  Attempted(c, n)
<1>1. task[c] \in TaskRecords
  BY DEF KeptInv
<1>2. /\ \A s \in {"done", "failed"} : [task[c] EXCEPT !.step = s] \in TaskRecords
      /\ [task[c] EXCEPT !.attempt = task[c].attempt + 1, !.erred = TRUE] \in TaskRecords
  <2>1. PICK k : k = task[c]
    OBVIOUS
  <2>2. k \in TaskRecords
    BY <1>1, <2>1
  <2>3. \A s \in {"done", "failed"} : [k EXCEPT !.step = s] \in TaskRecords
    BY <2>2 DEF TaskRecords
  <2>4. k.attempt + 1 \in Nat
    BY <2>2 DEF TaskRecords
  <2>5. [k EXCEPT !.attempt = k.attempt + 1, !.erred = TRUE] \in TaskRecords
    BY <2>2, <2>4 DEF TaskRecords
  <2> QED BY <2>1, <2>3, <2>5
<1>3. part' = [part EXCEPT ![c] = Received(c, n)] /\ UNCHANGED <<file, thread>>
  BY DEF ResponseEnds, AttemptFails, TaskRaises
<1>4. CASE ResponseEnds(c, n)
  <2>1. PICK s \in {"done", "failed"} : task' = [task EXCEPT ![c] = [task[c] EXCEPT !.step = s]]
    <3>1. PICK s : s = IF task[c].erred \/ Received(c, n).size # Size
                       THEN "failed" ELSE "done"
      OBVIOUS
    <3>2. s \in {"done", "failed"}
      BY <3>1
    <3>3. Finish(c, s)
      BY <1>4, <3>1 DEF ResponseEnds
    <3> QED BY <3>2, <3>3 DEF Finish
  <2> QED BY <1>2, <1>3, <2>1 DEF Attempted
<1>5. CASE AttemptFails(c, n)
  <2>1. task' = [task EXCEPT ![c] =
                   IF task[c].attempt = Attempts THEN [task[c] EXCEPT !.step = "failed"]
                   ELSE [task[c] EXCEPT !.attempt = task[c].attempt + 1, !.erred = TRUE]]
    BY <1>5 DEF AttemptFails
  <2> QED BY <1>2, <1>3, <2>1 DEF Attempted
<1>6. CASE TaskRaises(c, n)
  <2>1. task' = [task EXCEPT ![c] = [task[c] EXCEPT !.step = "failed"]]
    BY <1>6 DEF TaskRaises, Finish
  <2> QED BY <1>2, <1>3, <2>1 DEF Attempted
<1> QED BY <1>4, <1>5, <1>6

LEMMA RunTaskType ==
  ASSUME KeptInv, NEW c \in Chunks, RunTask(c)
  PROVE  /\ \E kept \in Files :
              /\ kept = IF part[c].size > Size THEN NoPart ELSE part[c]
              /\ part' = [part EXCEPT ![c] = kept]
              /\ \E k \in TaskRecords :
                   k.from = kept.size /\ task' = [task EXCEPT ![c] = k]
         /\ UNCHANGED <<file, thread>>
<1> DEFINE kept == IF part[c].size > Size THEN NoPart ELSE part[c]
           k == [task[c] EXCEPT !.step = "running", !.attempt = 1, !.from = kept.size]
<1>1. part[c] \in Files /\ task[c] \in TaskRecords /\ kept \in Files
  BY EmptyTypes DEF KeptInv, NoPartType
<1>2. part' = [part EXCEPT ![c] = kept] /\ task' = [task EXCEPT ![c] = k]
      /\ UNCHANGED <<file, thread>>
  BY DEF RunTask
<1>3. k \in TaskRecords /\ k.from = kept.size
  <2>1. kept.size \in Nat
    BY <1>1 DEF Files
  <2> HIDE DEF kept
  <2> QED BY <1>1, <2>1 DEF TaskRecords
<1> HIDE DEF kept, k
<1>4. kept = IF part[c].size > Size THEN NoPart ELSE part[c]
  BY DEF kept
<1> QED BY <1>1, <1>2, <1>3, <1>4
-----------------------------------------------------------------------------
LEMMA KeptInit == Init => KeptInv
BY EmptyTypes DEF Init, KeptInv, NoPartType, NoTaskType

(* Steps that leave the chunks alone and reset the tasks or nothing.       *)
LEMMA RestKept ==
  ASSUME KeptInv, part' = part,
         task' = task \/ task' = [c \in Chunks |-> NoTask],
         thread' = "clean" => file' = "good"
  PROVE  KeptInv'
BY EmptyTypes DEF KeptInv, NoTaskType

LEMMA PlanKept ==
  ASSUME KeptInv, PlanChunks
  PROVE  KeptInv'
<1>1. \A c \in Chunks :
        (IF part[c].size = Size THEN NoTask ELSE [NoTask EXCEPT !.step = "queued"])
          \in TaskRecords
  BY DEF NoTask, TaskRecords
<1> QED BY <1>1 DEF PlanChunks, KeptInv

LEMMA CleanupKept ==
  ASSUME KeptInv, CleanupChunks
  PROVE  KeptInv'
BY EmptyTypes DEF CleanupChunks, KeptInv, NoPartType

(* Every other step, with what it may do to the tasks, the thread and the  *)
(* file.                                                                   *)
Elsewhere ==
  \/ \E r \in Requests : CheckStatus(r) \/ StartThread(r)
  \/ ProbeRemote \/ UnlinkBadFile \/ PoolFails \/ Assemble
  \/ \E resumed \in BOOLEAN, n \in 0 .. Total : DownloadStream(resumed, n)
  \/ CheckHash \/ Kill \/ UNCHANGED vars

LEMMA ElsewhereSteps ==
  ASSUME KeptInv, Elsewhere
  PROVE  /\ part' = part
         /\ task' = task \/ task' = [c \in Chunks |-> NoTask]
         /\ thread' = "clean" => file' = "good"
<1>1. ASSUME NEW r \in Requests, CheckStatus(r) \/ StartThread(r)
      PROVE  /\ part' = part /\ task' = task
             /\ thread' = "clean" => file' = "good"
  BY <1>1 DEF CheckStatus, StartThread, KeptInv
<1>2. CASE ProbeRemote \/ UnlinkBadFile \/ PoolFails
  BY <1>2 DEF ProbeRemote, UnlinkBadFile, PoolFails, Fail
<1>3. CASE Assemble
  BY <1>3 DEF Assemble, Fail
<1>4. ASSUME NEW resumed \in BOOLEAN, NEW n \in 0 .. Total, DownloadStream(resumed, n)
      PROVE  /\ part' = part
             /\ task' = task \/ task' = [c \in Chunks |-> NoTask]
             /\ thread' = "clean" => file' = "good"
  BY <1>4 DEF DownloadStream, Fail
<1>5. CASE CheckHash
  BY <1>5 DEF CheckHash, Fail
<1>6. CASE Kill
  BY <1>6 DEF Kill
<1>7. CASE UNCHANGED vars
  BY <1>7 DEF vars, KeptInv
<1> QED BY <1>1, <1>2, <1>3, <1>4, <1>5, <1>6, <1>7 DEF Elsewhere

(* The steps of Next by what they do to the chunks. *)
LEMMA StepCases ==
  ASSUME [Next]_vars
  PROVE  \/ Elsewhere \/ PlanChunks \/ CleanupChunks
         \/ \E c \in Chunks : RunTask(c)
         \/ \E c \in Chunks, n \in Units :
              /\ n <= Size - task[c].from
              /\ ResponseEnds(c, n) \/ AttemptFails(c, n) \/ TaskRaises(c, n)
BY DEF Next, Download, Attempt, Elsewhere

LEMMA KeptStep ==
  ASSUME KeptInv, [Next]_vars
  PROVE  KeptInv'
<1>1. CASE Elsewhere
  BY <1>1, ElsewhereSteps, RestKept
<1>2. CASE PlanChunks
  BY <1>2, PlanKept
<1>3. CASE CleanupChunks
  BY <1>3, CleanupKept
<1>4. ASSUME NEW c \in Chunks, RunTask(c)
      PROVE  KeptInv'
  BY <1>4, RunTaskType DEF KeptInv
<1>5. ASSUME NEW c \in Chunks, NEW n \in Units,
             ResponseEnds(c, n) \/ AttemptFails(c, n) \/ TaskRaises(c, n)
      PROVE  KeptInv'
  <2>1. n \in Nat
    BY DEF Units
  <2>2. Attempted(c, n) /\ Received(c, n) \in Files
    BY <1>5, <2>1, AttemptType, ReceivedType
  <2> QED BY <2>2 DEF Attempted, KeptInv
<1> QED BY <1>1, <1>2, <1>3, <1>4, <1>5, StepCases

THEOREM KeptInvariance == Spec => []KeptInv
BY KeptInit, KeptStep, PTL DEF Spec

(* README.md: a download "keeps completed chunks after a network           *)
(* interruption".  Whatever the network does and whenever the process is   *)
(* killed, a chunk's file only grows, unless it is longer than its chunk   *)
(* or the model has been verified.                                         *)
THEOREM BytesStayKept == Spec => BytesAreKept
<1> DEFINE Kept == \A c \in Chunks :
                     part'[c].size < part[c].size => part[c].size > Size \/ file = "good"
<1>1. ASSUME KeptInv, [Next]_vars
      PROVE  [Kept]_vars
  <2>0. \A c \in Chunks : part[c].size \in Nat
    BY <1>1 DEF KeptInv, Files
  <2>1. CASE Elsewhere
    BY <1>1, <2>0, <2>1, ElsewhereSteps
  <2>2. CASE PlanChunks
    BY <2>0, <2>2 DEF PlanChunks
  <2>3. CASE CleanupChunks
    BY <1>1, <2>3 DEF CleanupChunks, KeptInv
  <2>4. ASSUME NEW c \in Chunks, RunTask(c)
        PROVE  Kept
    <3>1. PICK kept \in Files :
            /\ kept = IF part[c].size > Size THEN NoPart ELSE part[c]
            /\ part' = [part EXCEPT ![c] = kept]
      BY <1>1, <2>4, RunTaskType
    <3>2. part \in [Chunks -> Files]
      BY <1>1 DEF KeptInv
    <3>3. ASSUME NEW d \in Chunks, part'[d].size < part[d].size
          PROVE  part[d].size > Size
      <4>1. CASE d = c
        BY <2>0, <3>1, <3>2, <3>3, <4>1
      <4>2. CASE d # c
        BY <2>0, <3>1, <3>2, <3>3, <4>2
      <4> QED BY <4>1, <4>2
    <3> QED BY <3>3
  <2>5. ASSUME NEW c \in Chunks, NEW n \in Units,
               ResponseEnds(c, n) \/ AttemptFails(c, n) \/ TaskRaises(c, n)
        PROVE  Kept
    <3>1. n \in Nat
      BY DEF Units
    <3>2. part' = [part EXCEPT ![c] = Received(c, n)]
          /\ Received(c, n).size = part[c].size + n
      BY <1>1, <2>5, <3>1, AttemptType, ReceivedType DEF Attempted
    <3>3. part \in [Chunks -> Files]
      BY <1>1 DEF KeptInv
    <3> QED BY <2>0, <3>1, <3>2, <3>3
  <2> QED BY <1>1, <2>1, <2>2, <2>3, <2>4, <2>5, StepCases
<1>2. KeptInv /\ [Next]_vars => [Kept]_vars
  BY <1>1
<1> QED BY <1>2, KeptInvariance, PTL DEF Spec, BytesAreKept
-----------------------------------------------------------------------------
(* Tasks live in the pool. *)
PoolOnly == thread # "pool" => \A c \in Chunks : task[c].step = "none"

SoundInv == KeptInv /\ PartsSound /\ PoolOnly

LEMMA ElsewherePool ==
  ASSUME PoolOnly, Elsewhere
  PROVE  PoolOnly'
<1>0. NoTask.step = "none"
  BY DEF NoTask
<1>1. ASSUME NEW r \in Requests, CheckStatus(r) \/ StartThread(r)
      PROVE  PoolOnly'
  BY <1>1 DEF CheckStatus, StartThread, PoolOnly
<1>2. CASE ProbeRemote \/ UnlinkBadFile \/ PoolFails
  BY <1>0, <1>2 DEF ProbeRemote, UnlinkBadFile, PoolFails, Fail, PoolOnly
<1>3. CASE Assemble
  BY <1>0, <1>3 DEF Assemble, Fail, PoolOnly
<1>4. ASSUME NEW resumed \in BOOLEAN, NEW n \in 0 .. Total, DownloadStream(resumed, n)
      PROVE  PoolOnly'
  BY <1>0, <1>4 DEF DownloadStream, Fail, PoolOnly
<1>5. CASE CheckHash \/ Kill
  BY <1>0, <1>5 DEF CheckHash, Kill, Fail, PoolOnly
<1>6. CASE UNCHANGED vars
  BY <1>6 DEF vars, PoolOnly
<1> QED BY <1>1, <1>2, <1>3, <1>4, <1>5, <1>6 DEF Elsewhere

(* An attempt that does not break inside its response leaves its chunk     *)
(* sound, and if it is to be repeated, as long as it was.                  *)
LEMMA AttemptSound ==
  ASSUME "reset" \notin Faults, SoundInv, NEW c \in Chunks, NEW n \in Units,
         n <= Size - task[c].from,
         ResponseEnds(c, n) \/ AttemptFails(c, n) \/ TaskRaises(c, n)
  PROVE  /\ Received(c, n).size <= Size /\ Received(c, n).sound
         /\ task'[c].step = "running" =>
              task'[c].from = task[c].from /\ Received(c, n).size = task[c].from
<1>1. /\ part[c] \in Files /\ task[c] \in TaskRecords /\ n \in Nat /\ Size \in Nat
      /\ task \in [Chunks -> TaskRecords]
  BY SizeAssumption DEF SoundInv, KeptInv, Units
<1>2. /\ task[c].step = "running" /\ task[c].from = part[c].size
      /\ part[c].sound /\ part[c].size \in Nat
  BY <1>1 DEF SoundInv, PartsSound, ResponseEnds, AttemptFails, TaskRaises, Files
<1>3. Received(c, n).size = part[c].size + n /\ Received(c, n).sound
  BY <1>1, <1>2 DEF Received, Files
<1>4. Received(c, n).size <= Size
  BY <1>1, <1>2, <1>3
<1>5. CASE ResponseEnds(c, n)
  <2>1. PICK s \in {"done", "failed"} : Finish(c, s)
    BY <1>5 DEF ResponseEnds
  <2>2. task'[c].step # "running"
    BY <1>1, <2>1 DEF Finish, TaskRecords
  <2> QED BY <1>3, <1>4, <2>2
<1>6. CASE TaskRaises(c, n)
  <2>1. task'[c].step # "running"
    BY <1>1, <1>6 DEF TaskRaises, Finish, TaskRecords
  <2> QED BY <1>3, <1>4, <2>1
<1>7. CASE AttemptFails(c, n)
  <2>1. n = 0
    BY <1>7 DEF AttemptFails
  <2>2. task'[c].from = task[c].from
    <3>1. task' = [task EXCEPT ![c] =
                     IF task[c].attempt = Attempts THEN [task[c] EXCEPT !.step = "failed"]
                     ELSE [task[c] EXCEPT !.attempt = task[c].attempt + 1, !.erred = TRUE]]
      BY <1>7 DEF AttemptFails
    <3> QED BY <1>1, <3>1 DEF TaskRecords
  <2> QED BY <1>2, <1>3, <1>4, <2>1, <2>2
<1> QED BY <1>5, <1>6, <1>7

(* The chunk of a step changes as said, the others not at all. *)
LEMMA OneChunk ==
  ASSUME SoundInv, KeptInv', NEW c \in Chunks, NEW p \in Files, NEW k \in TaskRecords,
         part' = [part EXCEPT ![c] = p], task' = [task EXCEPT ![c] = k],
         p.size <= Size, p.sound, k.step = "running" => k.from = p.size,
         thread = "pool", thread' = "pool"
  PROVE  SoundInv'
<1>1. part \in [Chunks -> Files] /\ task \in [Chunks -> TaskRecords]
  BY DEF SoundInv, KeptInv
<1>2. ASSUME NEW d \in Chunks
      PROVE  /\ part'[d].size <= Size /\ part'[d].sound
             /\ task'[d].step = "running" => task'[d].from = part'[d].size
  <2>1. CASE d = c
    BY <1>1, <2>1
  <2>2. CASE d # c
    BY <1>1, <2>2 DEF SoundInv, PartsSound
  <2> QED BY <2>1, <2>2
<1> QED BY <1>2 DEF SoundInv, PartsSound, PoolOnly

LEMMA SoundStep ==
  ASSUME "reset" \notin Faults, SoundInv, [Next]_vars
  PROVE  SoundInv'
<1>0. KeptInv /\ KeptInv' /\ PartsSound /\ PoolOnly /\ Size \in Nat
  BY KeptStep, SizeAssumption DEF SoundInv
<1>1. NoPart.size = 0 /\ NoPart.sound /\ NoTask.step = "none"
  BY DEF NoPart, NoTask
<1>2. CASE Elsewhere
  <2>1. part' = part /\ (task' = task \/ task' = [c \in Chunks |-> NoTask])
    BY <1>0, <1>2, ElsewhereSteps
  <2>2. PartsSound'
    BY <1>0, <1>1, <2>1 DEF PartsSound
  <2> QED BY <1>0, <1>2, <2>2, ElsewherePool DEF SoundInv
<1>3. CASE PlanChunks
  <2>1. \A c \in Chunks : task'[c].step # "running"
    BY <1>3 DEF PlanChunks, NoTask
  <2>2. part' = part /\ thread' = "pool"
    BY <1>3 DEF PlanChunks
  <2> QED BY <1>0, <2>1, <2>2 DEF PartsSound, PoolOnly, SoundInv
<1>4. CASE CleanupChunks
  <2>1. part' = [c \in Chunks |-> NoPart] /\ task' = task /\ thread = "clean"
    BY <1>4 DEF CleanupChunks
  <2>2. \A c \in Chunks : part'[c].size <= Size /\ part'[c].sound /\ task'[c].step = "none"
    BY <1>0, <1>1, <2>1 DEF PoolOnly
  <2> QED BY <1>0, <2>2 DEF PartsSound, PoolOnly, SoundInv
<1>5. ASSUME NEW c \in Chunks, RunTask(c)
      PROVE  SoundInv'
  <2>1. PICK kept \in Files, k \in TaskRecords :
          /\ kept = IF part[c].size > Size THEN NoPart ELSE part[c]
          /\ part' = [part EXCEPT ![c] = kept]
          /\ k.from = kept.size /\ task' = [task EXCEPT ![c] = k]
          /\ UNCHANGED <<file, thread>>
    BY <1>0, <1>5, RunTaskType
  <2>2. kept = part[c] /\ kept.size <= Size /\ kept.sound
    BY <1>0, <2>1 DEF PartsSound, KeptInv, Files
  <2>3. thread = "pool"
    BY <1>0, <1>5 DEF RunTask, PoolOnly
  <2> QED BY <1>0, <2>1, <2>2, <2>3, OneChunk DEF SoundInv
<1>6. ASSUME NEW c \in Chunks, NEW n \in Units, n <= Size - task[c].from,
             ResponseEnds(c, n) \/ AttemptFails(c, n) \/ TaskRaises(c, n)
      PROVE  SoundInv'
  <2>1. n \in Nat
    BY DEF Units
  <2>2. /\ part' = [part EXCEPT ![c] = Received(c, n)]
        /\ Received(c, n) \in Files
        /\ \E k \in TaskRecords : task' = [task EXCEPT ![c] = k]
        /\ UNCHANGED <<file, thread>>
    BY <1>0, <1>6, <2>1, AttemptType, ReceivedType DEF Attempted
  <2>3. /\ Received(c, n).size <= Size /\ Received(c, n).sound
        /\ task'[c].step = "running" =>
             task'[c].from = task[c].from /\ Received(c, n).size = task[c].from
    BY <1>6, AttemptSound
  <2>4. PICK k \in TaskRecords : task' = [task EXCEPT ![c] = k]
    BY <2>2
  <2>5. task'[c] = k
    BY <1>0, <2>4 DEF KeptInv
  <2>6. k.step = "running" => k.from = Received(c, n).size
    BY <2>3, <2>5
  <2>7. thread = "pool" /\ thread' = "pool"
    <3>1. task[c].step = "running"
      BY <1>6 DEF ResponseEnds, AttemptFails, TaskRaises
    <3> QED BY <1>0, <2>2, <3>1 DEF PoolOnly
  <2> QED BY <1>0, <2>2, <2>3, <2>4, <2>6, <2>7, OneChunk
<1> QED BY <1>2, <1>3, <1>4, <1>5, <1>6, StepCases

(* model_setup.py, _download_chunks: unless a connection breaks inside a   *)
(* response, a chunk that a later download takes for complete holds the    *)
(* model's bytes, for any refusals, early ends, exceptions, restarts and   *)
(* kills.                                                                  *)
THEOREM CompleteChunksStaySound ==
  ASSUME "reset" \notin Faults
  PROVE  Spec => []CompleteChunksAreSound
<1>1. Init => SoundInv
  <2>1. Size \in Nat /\ NoPart.size = 0 /\ NoPart.sound /\ NoTask.step = "none"
    BY SizeAssumption DEF NoPart, NoTask
  <2>2. ASSUME Init, NEW c \in Chunks
        PROVE  part[c] = NoPart /\ task[c] = NoTask
    BY <2>2 DEF Init
  <2>3. Init => PartsSound /\ PoolOnly
    BY <2>1, <2>2 DEF PartsSound, PoolOnly
  <2> QED BY <2>3, KeptInit DEF SoundInv
<1>2. SoundInv /\ [Next]_vars => SoundInv'
  BY SoundStep
<1>3. SoundInv => CompleteChunksAreSound
  BY DEF SoundInv, PartsSound, CompleteChunksAreSound
<1> QED BY <1>1, <1>2, <1>3, PTL DEF Spec
-----------------------------------------------------------------------------
(* Sizes and types. *)

(* Before its attempt a running task's chunk has at most the units of the  *)
(* attempts before: each adds what is missing of the range at most.        *)
SizeInv ==
  \A c \in Chunks :
    /\ part[c].size <= Size * (Attempts + 1)
    /\ task[c].attempt <= Attempts /\ task[c].from <= Size
    /\ task[c].step = "running" =>
         task[c].attempt >= 1 /\ part[c].size <= Size * task[c].attempt

RestType ==
  /\ file \in {"none", "good", "bad"}
  /\ stream \in 0 .. Total
  /\ thread \in {"none", "probe", "unlink", "plan", "pool", "stream",
                 "check", "clean"}
  /\ progress \in {"", "starting", "downloading", "ready", "error"}
  /\ click \in [Requests -> {"idle", "checked"}]

LEMMA TotalType == Total \in Nat
<1>1. Cardinality(Chunks) \in Nat
  BY ChunksAssumption, FS_CardinalityType
<1> QED BY <1>1, SizeAssumption DEF Total

(* More attempts are worth more units. *)
LEMMA UnitsGrow ==
  ASSUME NEW s \in Nat, NEW a \in Nat, NEW b \in Nat, a <= b
  PROVE  /\ s * a \in Nat /\ s * b \in Nat
         /\ s * a <= s * b
         /\ s * (a + 1) = s * a + s
OBVIOUS

LEMMA ElsewhereTypes ==
  ASSUME RestType, Elsewhere
  PROVE  RestType'
<1>t. Total \in Nat
  BY TotalType
<1>1. ASSUME NEW r \in Requests, CheckStatus(r) PROVE RestType'
  BY <1>1 DEF CheckStatus, RestType
<1>2. ASSUME NEW r \in Requests, StartThread(r) PROVE RestType'
  BY <1>2 DEF StartThread, RestType
<1>3. CASE ProbeRemote
  BY <1>3 DEF ProbeRemote, Fail, RestType
<1>4. CASE UnlinkBadFile
  BY <1>4 DEF UnlinkBadFile, RestType
<1>5. CASE PoolFails
  BY <1>5 DEF PoolFails, Fail, RestType
<1>6. CASE Assemble
  BY <1>6 DEF Assemble, Fail, RestType
<1>7. ASSUME NEW resumed \in BOOLEAN, NEW n \in 0 .. Total, DownloadStream(resumed, n)
      PROVE  RestType'
  <2>1. stream' \in 0 .. Total
    BY <1>7, <1>t DEF DownloadStream
  <2> QED BY <1>7, <2>1 DEF DownloadStream, Fail, RestType
<1>8. CASE CheckHash
  BY <1>8 DEF CheckHash, Fail, RestType
<1>9. CASE Kill
  BY <1>9 DEF Kill, RestType
<1>10. CASE UNCHANGED vars
  BY <1>10 DEF vars, RestType
<1> QED BY <1>1, <1>2, <1>3, <1>4, <1>5, <1>6, <1>7, <1>8, <1>9, <1>10 DEF Elsewhere

LEMMA RestTypeStep ==
  ASSUME RestType, [Next]_vars
  PROVE  RestType'
<1>1. CASE Elsewhere
  BY <1>1, ElsewhereTypes
<1>2. CASE PlanChunks
  BY <1>2 DEF PlanChunks, RestType
<1>3. CASE CleanupChunks
  BY <1>3 DEF CleanupChunks, RestType
<1>4. ASSUME NEW c \in Chunks, RunTask(c) PROVE RestType'
  BY <1>4 DEF RunTask, RestType
<1>5. ASSUME NEW c \in Chunks, NEW n \in Units,
             ResponseEnds(c, n) \/ AttemptFails(c, n) \/ TaskRaises(c, n)
      PROVE  RestType'
  BY <1>5 DEF ResponseEnds, AttemptFails, TaskRaises, RestType
<1> QED BY <1>1, <1>2, <1>3, <1>4, <1>5, StepCases

(* The chunk of a step changes as said, the others not at all. *)
LEMMA OneSize ==
  ASSUME KeptInv, SizeInv, NEW c \in Chunks, NEW p \in Files, NEW k \in TaskRecords,
         part' = [part EXCEPT ![c] = p], task' = [task EXCEPT ![c] = k],
         p.size <= Size * (Attempts + 1), k.attempt <= Attempts, k.from <= Size,
         k.step = "running" => k.attempt >= 1 /\ p.size <= Size * k.attempt
  PROVE  SizeInv'
<1>1. part \in [Chunks -> Files] /\ task \in [Chunks -> TaskRecords]
  BY DEF KeptInv
<1> SUFFICES ASSUME NEW d \in Chunks
             PROVE  /\ part'[d].size <= Size * (Attempts + 1)
                    /\ task'[d].attempt <= Attempts /\ task'[d].from <= Size
                    /\ task'[d].step = "running" =>
                         task'[d].attempt >= 1 /\ part'[d].size <= Size * task'[d].attempt
  BY DEF SizeInv
<1>2. CASE d = c
  <2>1. part'[d] = p /\ task'[d] = k
    BY <1>1, <1>2
  <2> QED BY <2>1
<1>3. CASE d # c
  <2>1. part'[d] = part[d] /\ task'[d] = task[d]
    BY <1>1, <1>3
  <2> QED BY <2>1 DEF SizeInv
<1> QED BY <1>2, <1>3

LEMMA SizeStep ==
  ASSUME KeptInv, SizeInv, [Next]_vars
  PROVE  SizeInv'
<1>0. /\ Size \in Nat /\ Attempts \in Nat /\ Attempts >= 1 /\ Attempts + 1 \in Nat
      /\ part \in [Chunks -> Files] /\ task \in [Chunks -> TaskRecords]
  BY SizeAssumption DEF KeptInv
<1>a. Size * (Attempts + 1) \in Nat /\ Size <= Size * (Attempts + 1)
  <2>1. Size * 1 = Size
    BY <1>0
  <2> QED BY <1>0, <2>1, UnitsGrow
<1>n. /\ NoPart.size = 0 /\ NoTask.step = "none" /\ NoTask.attempt = 0 /\ NoTask.from = 0
  BY DEF NoPart, NoTask
<1>1. CASE Elsewhere
  <2>1. part' = part /\ (task' = task \/ task' = [c \in Chunks |-> NoTask])
    BY <1>1, ElsewhereSteps
  <2> QED BY <1>0, <1>n, <2>1 DEF SizeInv
<1>2. CASE PlanChunks
  <2>1. /\ part' = part
        /\ \A c \in Chunks : /\ task'[c].step # "running"
                              /\ task'[c].attempt = 0 /\ task'[c].from = 0
    BY <1>2 DEF PlanChunks, NoTask
  <2> QED BY <1>0, <2>1 DEF SizeInv
<1>3. CASE CleanupChunks
  <2>1. task' = task /\ \A c \in Chunks : part'[c].size = 0
    BY <1>3, <1>n DEF CleanupChunks
  <2> SUFFICES ASSUME NEW c \in Chunks
               PROVE  /\ part'[c].size <= Size * (Attempts + 1)
                      /\ task'[c].attempt <= Attempts /\ task'[c].from <= Size
                      /\ task'[c].step = "running" =>
                           task'[c].attempt >= 1 /\ part'[c].size <= Size * task'[c].attempt
    BY DEF SizeInv
  <2>2. task[c].attempt \in Nat
    BY <1>0 DEF TaskRecords
  <2>3. Size * task[c].attempt \in Nat
    BY <1>0, <2>2, UnitsGrow
  <2> QED BY <1>a, <2>1, <2>3 DEF SizeInv
<1>4. ASSUME NEW c \in Chunks, RunTask(c)
      PROVE  SizeInv'
  <2> DEFINE kept == IF part[c].size > Size THEN NoPart ELSE part[c]
             k == [task[c] EXCEPT !.step = "running", !.attempt = 1, !.from = kept.size]
  <2>1. part[c] \in Files /\ task[c] \in TaskRecords /\ kept \in Files
    BY <1>0, EmptyTypes DEF NoPartType
  <2>2. part' = [part EXCEPT ![c] = kept] /\ task' = [task EXCEPT ![c] = k]
    BY <1>4 DEF RunTask
  <2>3. kept.size \in Nat /\ kept.size <= Size
    BY <1>0, <1>n, <2>1 DEF Files
  <2> HIDE DEF kept
  <2>4. k \in TaskRecords /\ k.attempt = 1 /\ k.from = kept.size
    BY <2>1, <2>3 DEF TaskRecords
  <2> HIDE DEF k
  <2>5. Size * 1 = Size
    BY <1>0
  <2>6. /\ kept.size <= Size * (Attempts + 1) /\ k.attempt <= Attempts /\ k.from <= Size
        /\ k.attempt >= 1 /\ kept.size <= Size * k.attempt
    BY <1>0, <1>a, <2>3, <2>4, <2>5
  <2> QED BY <2>1, <2>2, <2>4, <2>6, OneSize
<1>5. ASSUME NEW c \in Chunks, NEW n \in Units, n <= Size - task[c].from,
             ResponseEnds(c, n) \/ AttemptFails(c, n) \/ TaskRaises(c, n)
      PROVE  SizeInv'
  <2> DEFINE t == task[c]
  <2>1. /\ n \in Nat /\ t \in TaskRecords /\ part[c].size \in Nat
        /\ t.attempt \in Nat /\ t.from \in Nat
    BY <1>0 DEF Units, TaskRecords, Files
  <2>2. /\ Received(c, n) \in Files /\ Received(c, n).size = part[c].size + n
        /\ part' = [part EXCEPT ![c] = Received(c, n)]
    BY <1>5, <2>1, ReceivedType, AttemptType DEF Attempted
  <2>3. /\ t.attempt >= 1 /\ t.attempt <= Attempts /\ t.from <= Size
        /\ part[c].size <= Size * t.attempt
    <3>1. t.step = "running"
      BY <1>5 DEF ResponseEnds, AttemptFails, TaskRaises
    <3> QED BY <3>1 DEF SizeInv
  <2>4. Received(c, n).size <= Size * t.attempt + Size
    <3>1. Size * t.attempt \in Nat
      BY <1>0, <2>1, <2>3, UnitsGrow
    <3> QED BY <1>0, <1>5, <2>1, <2>2, <2>3, <3>1
  <2>5. Received(c, n).size <= Size * (t.attempt + 1)
    BY <1>0, <2>1, <2>3, <2>4, UnitsGrow
  <2>6. Received(c, n).size <= Size * (Attempts + 1)
    <3>1. t.attempt + 1 \in Nat /\ t.attempt + 1 <= Attempts + 1
      BY <1>0, <2>1, <2>3
    <3>2. Size * (t.attempt + 1) \in Nat /\ Size * (t.attempt + 1) <= Size * (Attempts + 1)
      BY <1>0, <3>1, UnitsGrow
    <3>3. Received(c, n).size \in Nat
      BY <2>2 DEF Files
    <3> QED BY <1>a, <2>5, <3>2, <3>3
  <2>7. ASSUME NEW s \in {"done", "failed"}, task' = [task EXCEPT ![c] = [t EXCEPT !.step = s]]
        PROVE  SizeInv'
    <3> DEFINE k == [t EXCEPT !.step = s]
    <3>1. /\ k \in TaskRecords /\ k.step # "running"
          /\ k.attempt = t.attempt /\ k.from = t.from
      BY <2>1 DEF TaskRecords
    <3>2. task' = [task EXCEPT ![c] = k]
      BY <2>7
    <3> HIDE DEF k
    <3> QED BY <2>2, <2>3, <2>6, <3>1, <3>2, OneSize
  <2>8. CASE ResponseEnds(c, n)
    <3>1. PICK s \in {"done", "failed"} : Finish(c, s)
      BY <2>8 DEF ResponseEnds
    <3> QED BY <2>7, <3>1 DEF Finish
  <2>9. CASE TaskRaises(c, n)
    BY <2>7, <2>9 DEF TaskRaises, Finish
  <2>10. CASE AttemptFails(c, n) /\ t.attempt = Attempts
    <3>1. task' = [task EXCEPT ![c] = [t EXCEPT !.step = "failed"]]
      BY <2>10 DEF AttemptFails
    <3> QED BY <2>7, <3>1
  <2>11. CASE AttemptFails(c, n) /\ t.attempt # Attempts
    <3> DEFINE k == [t EXCEPT !.attempt = t.attempt + 1, !.erred = TRUE]
    <3>0. t.attempt + 1 \in Nat /\ t.attempt + 1 <= Attempts /\ t.attempt + 1 >= 1
      BY <1>0, <2>1, <2>3, <2>11
    <3>1. k \in TaskRecords /\ k.attempt = t.attempt + 1 /\ k.from = t.from
      BY <2>1, <3>0 DEF TaskRecords
    <3>2. task' = [task EXCEPT ![c] = k]
      BY <2>11 DEF AttemptFails
    <3> HIDE DEF k
    <3> QED BY <2>2, <2>3, <2>5, <2>6, <3>0, <3>1, <3>2, OneSize
  <2> QED BY <1>5, <2>8, <2>9, <2>10, <2>11
<1> QED BY <1>1, <1>2, <1>3, <1>4, <1>5, StepCases

(* model_setup.py, _download_chunk: whatever the network sends and however *)
(* often the process is killed, a chunk's file has the units of one        *)
(* attempt more than there are, at most, no task makes more attempts than  *)
(* it may, and the stream's file is never longer than the model.           *)
THEOREM DownloadTypeCorrectness == Spec => []TypeOK
<1>1. Init => SizeInv /\ RestType
  <2> SUFFICES ASSUME Init PROVE SizeInv /\ RestType
    OBVIOUS
  <2>1. Total \in Nat
    BY TotalType
  <2>2. /\ Size \in Nat /\ Attempts \in Nat /\ Attempts + 1 \in Nat
        /\ Size * (Attempts + 1) \in Nat
    <3>1. Size \in Nat /\ Attempts \in Nat /\ Attempts + 1 \in Nat
      BY SizeAssumption
    <3> QED BY <3>1, UnitsGrow
  <2>3. SizeInv
    <3>1. ASSUME NEW c \in Chunks
          PROVE  /\ part[c].size = 0 /\ task[c].step = "none"
                 /\ task[c].attempt = 0 /\ task[c].from = 0
      BY DEF Init, NoPart, NoTask
    <3> QED BY <2>2, <3>1 DEF SizeInv
  <2>4. RestType
    <3>0. stream = 0
      BY DEF Init
    <3>1. stream \in 0 .. Total
      BY <2>1, <3>0
    <3>3. click \in [Requests -> {"idle", "checked"}]
      BY DEF Init
    <3>2. /\ file \in {"none", "good", "bad"}
          /\ thread \in {"none", "probe", "unlink", "plan", "pool", "stream",
                         "check", "clean"}
          /\ progress \in {"", "starting", "downloading", "ready", "error"}
      BY DEF Init
    <3> QED BY <3>1, <3>2, <3>3 DEF RestType
  <2> QED BY <2>3, <2>4
<1>2. KeptInv /\ SizeInv /\ RestType /\ [Next]_vars => SizeInv' /\ RestType'
  BY SizeStep, RestTypeStep
<1>3. KeptInv /\ SizeInv /\ RestType => TypeOK
  <2> SUFFICES ASSUME KeptInv, SizeInv, RestType PROVE TypeOK
    OBVIOUS
  <2>0. /\ Size \in Nat /\ Attempts \in Nat /\ Attempts + 1 \in Nat
        /\ Size * (Attempts + 1) \in Nat
    <3>1. Size \in Nat /\ Attempts \in Nat /\ Attempts + 1 \in Nat
      BY SizeAssumption
    <3> QED BY <3>1, UnitsGrow
  <2>1. ASSUME NEW c \in Chunks PROVE part[c] \in Parts /\ task[c] \in Tasks
    <3>1. part[c] \in Files /\ task[c] \in TaskRecords
      BY DEF KeptInv
    <3>2. part[c].size \in 0 .. Size * (Attempts + 1)
      BY <2>0, <3>1 DEF SizeInv, Files
    <3>3. task[c].attempt \in 0 .. Attempts /\ task[c].from \in 0 .. Size
      BY <2>0, <3>1 DEF SizeInv, TaskRecords
    <3>4. part[c] \in Parts
      BY <3>1, <3>2 DEF Files, Parts
    <3>5. task[c] \in Tasks
      BY <3>1, <3>3 DEF TaskRecords, Tasks
    <3> QED BY <3>4, <3>5
  <2>2. part \in [Chunks -> Parts] /\ task \in [Chunks -> Tasks]
    BY <2>1 DEF KeptInv
  <2> QED BY <2>2 DEF RestType, TypeOK
<1> QED BY <1>1, <1>2, <1>3, KeptInvariance, PTL DEF Spec
=============================================================================
