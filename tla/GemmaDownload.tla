--------------------------- MODULE GemmaDownload ---------------------------
(***************************************************************************)
(* The model vault (model_setup.py): a background thread that downloads    *)
(* the Gemma model in ranged chunks with a pool of workers, or in one      *)
(* stream, resumes what an earlier attempt or process left on disk,        *)
(* assembles the chunks and accepts the file only with the right SHA-256.  *)
(*                                                                         *)
(* Abstractions.  All chunks have Size units.  A file is its length and    *)
(* whether its content is a prefix of the model's (sound).  The manifest,  *)
(* file permissions and the progress figures are left out.                 *)
(***************************************************************************)
EXTENDS Integers, FiniteSets

CONSTANTS
  Chunks,    \* chunk indices
  Size,      \* units in a chunk
  Workers,   \* GEMMA_DOWNLOAD_WORKERS
  Attempts,  \* requests made for a chunk before it fails
  Requests,  \* server threads that call /v1/models/gemma/download
  Faults,    \* what the network does, see below
  Kills      \* whether the process may be killed

(* "refuse": an HTTP error, nothing is written; "reset": the connection    *)
(* breaks after some data (an OSError); "cut": the server closes early;    *)
(* "raise": any other exception; "stream": no ranged requests.             *)
AllFaults == {"refuse", "reset", "cut", "raise", "stream"}

ASSUME SizeAssumption == Size \in Nat \ {0} /\ Attempts \in Nat \ {0}
ASSUME ChunksAssumption == IsFiniteSet(Chunks) /\ Workers \in Nat \ {0}
ASSUME FaultsAssumption == Faults \subseteq AllFaults /\ Kills \in BOOLEAN

VARIABLES
  file,      \* the model's file: "none", "good" or "bad"
  part,      \* chunk-*.part
  stream,    \* length of the stream's .part file
  thread,    \* step of the download thread, "none" if it is not alive
  task,      \* the pool's task for each chunk
  progress,  \* GemmaSetup._progress["state"]
  click      \* the requests between their status test and the thread start

vars == <<file, part, stream, thread, task, progress, click>>

Total == Size * Cardinality(Chunks)
NoPart == [size |-> 0, sound |-> TRUE]
NoTask == [step |-> "none", attempt |-> 0, from |-> 0, erred |-> FALSE]
Parts == [size : 0 .. Size * (Attempts + 1), sound : BOOLEAN]
Tasks == [step : {"none", "queued", "running", "done", "failed"},
          attempt : 0 .. Attempts, from : 0 .. Size, erred : BOOLEAN]

TypeOK ==
  /\ file \in {"none", "good", "bad"}
  /\ part \in [Chunks -> Parts]
  /\ stream \in 0 .. Total
  /\ thread \in {"none", "probe", "unlink", "plan", "pool", "stream",
                 "check", "clean"}
  /\ task \in [Chunks -> Tasks]
  /\ progress \in {"", "starting", "downloading", "ready", "error"}
  /\ click \in [Requests -> {"idle", "checked"}]

Init ==
  /\ file = "none" /\ part = [c \in Chunks |-> NoPart] /\ stream = 0
  /\ thread = "none" /\ task = [c \in Chunks |-> NoTask]
  /\ progress = "" /\ click = [r \in Requests |-> "idle"]
-----------------------------------------------------------------------------
(* The requests. *)

(* start_download reads the status first, which hashes the file, and takes *)
(* the lock afterwards.                                                    *)
CheckStatus(r) ==
  /\ click[r] = "idle"
  /\ file # "good"
  /\ click' = [click EXCEPT ![r] = "checked"]
  /\ UNCHANGED <<file, part, stream, thread, task, progress>>

StartThread(r) ==
  /\ click[r] = "checked"
  /\ click' = [click EXCEPT ![r] = "idle"]
  /\ IF thread = "none"
       THEN thread' = "probe" /\ progress' = "starting"
       ELSE UNCHANGED <<thread, progress>>
  /\ UNCHANGED <<file, part, stream, task>>
-----------------------------------------------------------------------------
(* The download thread. *)

(* The thread's exception handler: what is on disk stays. *)
Fail ==
  /\ thread' = "none" /\ progress' = "error"
  /\ task' = [c \in Chunks |-> NoTask]

ProbeRemote ==
  /\ thread = "probe"
  /\ \/ thread' = "unlink" /\ UNCHANGED <<task, progress>>
     \/ Faults # {} /\ Fail
  /\ UNCHANGED <<file, part, stream, click>>

(* A file with the wrong hash is removed before the download. *)
UnlinkBadFile ==
  /\ thread = "unlink"
  /\ file' = IF file = "bad" THEN "none" ELSE file
  /\ \/ thread' = "plan"
     \/ "stream" \in Faults /\ thread' = "stream"
  /\ UNCHANGED <<part, stream, task, progress, click>>

(* Chunks of the right length are taken for complete. *)
PlanChunks ==
  /\ thread = "plan"
  /\ task' = [c \in Chunks |-> IF part[c].size = Size THEN NoTask
                               ELSE [NoTask EXCEPT !.step = "queued"]]
  /\ thread' = "pool" /\ progress' = "downloading"
  /\ UNCHANGED <<file, part, stream, click>>

Running == {c \in Chunks : task[c].step = "running"}

(* Mutant: a chunk is asked for from its start and appended to its file. *)
RunTaskFromStart(c) ==
  /\ task[c].step = "queued" /\ Cardinality(Running) < Workers
  /\ task' = [task EXCEPT ![c] = [@ EXCEPT !.step = "running",
                                           !.attempt = 1, !.from = 0]]
  /\ UNCHANGED <<file, part, stream, thread, progress, click>>

(* A task removes a file that is too long and fixes its range for all its  *)
(* attempts.                                                               *)
RunTask(c) ==
  /\ task[c].step = "queued" /\ Cardinality(Running) < Workers
  /\ LET kept == IF part[c].size > Size THEN NoPart ELSE part[c]
     IN /\ part' = [part EXCEPT ![c] = kept]
        /\ task' = [task EXCEPT ![c] = [@ EXCEPT
                      !.step = "running", !.attempt = 1, !.from = kept.size]]
  /\ UNCHANGED <<file, stream, thread, progress, click>>

(* n units from the task's range are appended to the chunk's file. *)
Received(c, n) ==
  IF n = 0 THEN part[c]
  ELSE [size |-> part[c].size + n,
        sound |-> part[c].sound /\ part[c].size = task[c].from]

Finish(c, step) == task' = [task EXCEPT ![c] = [@ EXCEPT !.step = step]]

(* The response ends without an exception.  The task fails all the same if *)
(* an earlier attempt failed: last_error is never cleared.                 *)
ResponseEnds(c, n) ==
  /\ task[c].step = "running"
  /\ n = Size - task[c].from \/ "cut" \in Faults
  /\ part' = [part EXCEPT ![c] = Received(c, n)]
  /\ Finish(c, IF task[c].erred \/ Received(c, n).size # Size
               THEN "failed" ELSE "done")
  /\ UNCHANGED <<file, stream, thread, progress, click>>

(* Mutant: the task of a failed attempt is put back in the queue. *)
QueueAgain(c, n) ==
  /\ task[c].step = "running"
  /\ "reset" \in Faults \/ ("refuse" \in Faults /\ n = 0)
  /\ part' = [part EXCEPT ![c] = Received(c, n)]
  /\ Finish(c, "queued")
  /\ UNCHANGED <<file, stream, thread, progress, click>>

(* An HTTPError or OSError: the next attempt asks for the same range. *)
AttemptFails(c, n) ==
  /\ task[c].step = "running"
  /\ "reset" \in Faults \/ ("refuse" \in Faults /\ n = 0)
  /\ part' = [part EXCEPT ![c] = Received(c, n)]
  /\ task' = [task EXCEPT ![c] =
                IF @.attempt = Attempts THEN [@ EXCEPT !.step = "failed"]
                ELSE [@ EXCEPT !.attempt = task[c].attempt + 1, !.erred = TRUE]]
  /\ UNCHANGED <<file, stream, thread, progress, click>>

TaskRaises(c, n) ==
  /\ task[c].step = "running"
  /\ "raise" \in Faults
  /\ part' = [part EXCEPT ![c] = Received(c, n)]
  /\ Finish(c, "failed")
  /\ UNCHANGED <<file, stream, thread, progress, click>>

PoolEnded == \A c \in Chunks : task[c].step \in {"none", "done", "failed"}

(* Mutant: a failed download starts over. *)
PoolFailsAndCleans ==
  /\ thread = "pool" /\ PoolEnded
  /\ \E c \in Chunks : task[c].step = "failed"
  /\ Fail
  /\ part' = [c \in Chunks |-> NoPart]
  /\ UNCHANGED <<file, stream, click>>

(* The pool is shut down when every task has ended. *)
PoolFails ==
  /\ thread = "pool" /\ PoolEnded
  /\ \E c \in Chunks : task[c].step = "failed"
  /\ Fail
  /\ UNCHANGED <<file, part, stream, click>>

Assemble ==
  /\ thread = "pool" /\ PoolEnded
  /\ \A c \in Chunks : task[c].step # "failed"
  /\ IF \A c \in Chunks : part[c].size = Size THEN
       /\ file' = IF \A c \in Chunks : part[c].sound THEN "good" ELSE "bad"
       /\ thread' = "check"
       /\ task' = [c \in Chunks |-> NoTask]
       /\ UNCHANGED progress
     ELSE Fail /\ UNCHANGED file
  /\ UNCHANGED <<part, stream, click>>

(* Mutant: what a server sends from the start is appended. *)
AppendStream(resumed, n) ==
  /\ thread = "stream"
  /\ stream' = stream + n
  /\ Fail
  /\ UNCHANGED <<file, part, click>>

(* _download_stream: resumed if the server honours the range; what came    *)
(* before an early end replaces the model's file.  A range that starts at  *)
(* the end is refused.                                                     *)
DownloadStream(resumed, n) ==
  /\ thread = "stream"
  /\ LET length == n + IF resumed THEN stream ELSE 0
     IN /\ length \in 0 .. Total
        /\ \/ /\ length = Total \/ "cut" \in Faults
              /\ ~(resumed /\ stream = Total)
              /\ file' = IF length = Total THEN "good" ELSE "bad"
              /\ stream' = 0
              /\ thread' = "check"
              /\ UNCHANGED <<task, progress>>
           \/ /\ Faults \cap {"reset", "raise", "refuse"} # {}
              /\ stream' = length
              /\ Fail
              /\ UNCHANGED file
  /\ UNCHANGED <<part, click>>

CheckHash ==
  /\ thread = "check"
  /\ IF file = "good"
       THEN thread' = "clean" /\ progress' = "ready" /\ UNCHANGED task
       ELSE Fail
  /\ UNCHANGED <<file, part, stream, click>>

CleanupChunks ==
  /\ thread = "clean"
  /\ part' = [c \in Chunks |-> NoPart]
  /\ thread' = "none"
  /\ UNCHANGED <<file, stream, task, progress, click>>

(* A killed process keeps its files.  The next one starts without thread.  *)
Kill ==
  /\ Kills
  /\ thread # "none"
  /\ thread' = "none" /\ progress' = ""
  /\ task' = [c \in Chunks |-> NoTask]
  /\ click' = [r \in Requests |-> "idle"]
  /\ UNCHANGED <<file, part, stream>>
-----------------------------------------------------------------------------
Units == 0 .. Size

Attempt(c) ==
  \E n \in Units :
    /\ n <= Size - task[c].from
    /\ ResponseEnds(c, n) \/ AttemptFails(c, n) \/ TaskRaises(c, n)

Download ==
  \/ ProbeRemote \/ UnlinkBadFile \/ PlanChunks
  \/ \E c \in Chunks : RunTask(c) \/ Attempt(c)
  \/ PoolFails \/ Assemble
  \/ \E resumed \in BOOLEAN, n \in 0 .. Total : DownloadStream(resumed, n)
  \/ CheckHash \/ CleanupChunks

Next ==
  \/ \E r \in Requests : CheckStatus(r) \/ StartThread(r)
  \/ Download \/ Kill

Spec == Init /\ [][Next]_vars

(* A live thread runs. *)
ThreadSpec == Spec /\ WF_vars(Download)

(* The user asks again until the model is there, and the network, asked    *)
(* over and over, now and then answers in full.                            *)
FairSpec ==
  /\ ThreadSpec
  /\ \A r \in Requests : WF_vars(CheckStatus(r)) /\ WF_vars(StartThread(r))
  /\ SF_vars(ProbeRemote /\ thread' = "unlink")
  /\ \A c \in Chunks : SF_vars(ResponseEnds(c, Size - task[c].from))
-----------------------------------------------------------------------------
(* Correctness. *)

(* A chunk that later downloads take for complete holds the model's bytes, *)
(* whatever was interrupted, resumed or killed.  Connections that break    *)
(* inside a response are left out: see SavedChunksArrive.                  *)
CompleteChunksAreSound ==
  \A c \in Chunks : part[c].size = Size => part[c].sound

(* README.md: a download "keeps completed chunks after a network           *)
(* interruption".  No failure, kill or restart shortens a chunk that is    *)
(* not too long, until the model's file has been verified.                 *)
BytesAreKept ==
  [][\A c \in Chunks :
       part'[c].size < part[c].size => part[c].size > Size \/ file = "good"]_vars

(* Every download ends, in a file or in an error that the user can act on. *)
DownloadsEnd == thread # "none" ~> thread = "none"

(* README.md: "A later boot continues from the saved chunks instead of     *)
(* starting over."  Asked again and again, the vault gets its model.       *)
SavedChunksArrive == <>(file = "good")
=============================================================================
