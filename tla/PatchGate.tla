----------------------------- MODULE PatchGate -----------------------------
(***************************************************************************)
(* The invariant gate of the commit plane: validation.py, and the edits    *)
(* that commit_proposal, verify_render and create_branch (engine.py) make  *)
(* to the state document after it or without it.                           *)
(*                                                                         *)
(* A proposal is a list of JSON-pointer operations.  They are all checked  *)
(* before the first one is applied to a copy of the document, one after    *)
(* the other; the document is replaced by the copy or stays as it was.     *)
(* The handler holds the engine's lock from its first check to its end.    *)
(*                                                                         *)
(* Abstractions.  A document is a function from paths to what is there: a  *)
(* dict ("{}"), a list ("[]") or a scalar; a path is a sequence of         *)
(* segments.  The items of a list are left out: a list can be appended to. *)
(* Left out are the clock and the hashes, which apply_proposal sets and    *)
(* SurfaceEngine models, entropy and coherence, and the layers and object  *)
(* fields that no handler reads.  A rejection stands for each exception    *)
(* that ends a handler before its first write to the document.             *)
(***************************************************************************)
EXTENDS Naturals, SequencesExt

CONSTANTS
  Text,         \* the strings: keys and scalars of documents
  Namespaced,   \* object ids that start with "node." or "world."
  MaxCommits    \* bound: proposals and forks accepted

ASSUME NamespaceAssumption ==
  /\ Namespaced \subseteq Text
  /\ {"node.surface", "node.renderer"} \subseteq Namespaced
ASSUME CommitsAssumption == MaxCommits \in Nat

VARIABLES
  doc,       \* the document of the current state
  step,      \* of commit_proposal: "idle", "check" or "apply"
  by,        \* whose proposal it serves: "packet" or "client"
  class,     \* the render class that the proposal asks for
  ops,       \* its operations
  done,      \* how many of them have been applied
  draft,     \* the copy of doc that they are applied to
  fresh,     \* a render job was built for the current state
  handmade,  \* history: a client's own proposal has been committed
  commits    \* states sealed so far

work == <<step, by, class, ops, done, draft>>
world == <<doc, fresh, handmade, commits>>
vars == <<work, world>>

PROTECTED_ROOTS ==
  {"schema_version", "map_id", "target", "profile", "mode", "seed",
   "logical_time", "branch", "parent_state_hash", "state_hash", "provenance"}
ALLOWED_ROOTS ==
  {"selected_object_id", "active_focus_id", "objects", "ui", "goals", "plans",
   "hypotheses", "claims", "layer_state", "render"}
RenderStatus == {"verified", "queued", "candidate", "fallback", "rejected"}
ImageModes == {"regional_image_edit", "new_keyframe"}
Classes == ImageModes \cup {"native_ui", "composite", "none"}
-----------------------------------------------------------------------------
(* Documents. *)

(* Text holds at least the strings that the core itself writes. *)
ASSUME TextAssumption ==
  ALLOWED_ROOTS \cup PROTECTED_ROOTS \cup RenderStatus \cup Classes \cup
  {"{}", "[]", "None", "", "type", "status", "requested_mode", "pending_job_id",
   "committed_frame_id", "render_job", "frame_native", "frame_candidate",
   "identity", "meta_model", "forked_from", "fork_state_hash", "branch", "hash"}
    \subseteq Text

Paths == Seq(Text)
IsDocument(d) == DOMAIN d \subseteq Paths /\ d \in [DOMAIN d -> Text]

(* JSON: above every item is a dict, and above all of them the value.      *)
IsTree(d) ==
  /\ <<>> \in DOMAIN d
  /\ \A p \in DOMAIN d \ {<<>>} :
       /\ Front(p) \in DOMAIN d /\ d[Front(p)] = "{}"
       /\ <<Head(p)>> \in DOMAIN d

(* What hangs under a path is a document of its own. *)
Scalar(v) == [p \in {<<>>} |-> v]
Dict(items) ==
  [p \in {<<>>} \cup UNION {{<<k>> \o q : q \in DOMAIN items[k]} :
                           k \in DOMAIN items}
     |-> IF p = <<>> THEN "{}" ELSE items[Head(p)][Tail(p)]]
EmptyDict == Scalar("{}")
List == Scalar("[]")

Relative(path, p) == SubSeq(p, Len(path) + 1, Len(p))
Below(d, path) == {p \in DOMAIN d : IsPrefix(path, p)}
Subtree(d, path) ==
  [r \in {Relative(path, p) : p \in Below(d, path)} |-> d[path \o r]]

(* Mutant: what hangs under the removed item is left behind. *)
WithoutItem(d, path) == [p \in DOMAIN d \ {path} |-> d[p]]

Without(d, path) == [p \in DOMAIN d \ Below(d, path) |-> d[p]]
Graft(d, path, value) ==
  [p \in (DOMAIN d \ Below(d, path)) \cup {path \o r : r \in DOMAIN value} |->
     IF IsPrefix(path, p) THEN value[Relative(path, p)] ELSE d[p]]

(* The dict at a path with some of its items set to scalars. *)
WithFields(d, path, fields) ==
  LET set == {path \o <<k>> : k \in DOMAIN fields}
      gone == UNION {Below(d, p) : p \in set}
  IN [p \in (DOMAIN d \ gone) \cup set |->
        IF p \in set THEN fields[Last(p)] ELSE d[p]]
-----------------------------------------------------------------------------
(* The document that boot makes, and the defaults of SurfaceState's fields *)
(* that from_dict fills in for roots that are missing.                     *)

Fixed == Scalar("fixed")
Object(type, status) ==
  Dict([type |-> Scalar(type), status |-> Scalar(status)])

Genesis ==
  Dict([schema_version |-> Fixed, map_id |-> Fixed, target |-> Fixed,
        profile |-> Fixed, mode |-> Fixed, seed |-> Fixed,
        provenance |-> Fixed,
        selected_object_id |-> Scalar("node.surface"),
        active_focus_id |-> Scalar("surface.viewport"),
        objects |-> Dict("node.surface" :> Object("world", "active") @@
                         "node.renderer" :> Object("render", "verified")),
        ui |-> Dict([simulation_running |-> Scalar("true"),
                     last_command |-> Scalar(""), inputs |-> EmptyDict,
                     privacy |-> Dict([cloud_allowed |-> Scalar("false"),
                       frame_retention |-> Scalar("bounded"),
                       redact_sensitive_inputs |-> Scalar("true")]),
                     render_policy |-> Scalar("native-first"),
                     reduced_motion |-> Scalar("false")]),
        goals |-> List, plans |-> List, hypotheses |-> List, claims |-> List,
        layer_state |-> Dict([events |-> Dict([last_action |-> EmptyDict]),
                              meta_model |-> EmptyDict,
                              identity |-> Dict([rights_boundary |-> Fixed])]),
        render |-> Dict([status |-> Scalar("verified"),
                         requested_mode |-> Scalar("native_ui"),
                         committed_frame_id |-> Scalar("frame_genesis"),
                         pending_job_id |-> Scalar("")])])

Defaults ==
  [r \in ALLOWED_ROOTS |->
     CASE r = "selected_object_id" -> Scalar("node.surface")
       [] r = "active_focus_id" -> Scalar("surface.viewport")
       [] r = "layer_state" -> Dict([events |-> EmptyDict,
                                     meta_model |-> EmptyDict,
                                     identity |-> EmptyDict])
       [] r \in {"objects", "ui", "render"} -> EmptyDict
       [] OTHER -> List]

Missing(d) == {r \in ALLOWED_ROOTS : <<r>> \notin DOMAIN d}
FromDict(d) ==
  [p \in DOMAIN d \cup UNION {{<<r>> \o q : q \in DOMAIN Defaults[r]} :
                              r \in Missing(d)}
     |-> IF p \in DOMAIN d THEN d[p] ELSE Defaults[Head(p)][Tail(p)]]
-----------------------------------------------------------------------------
(* validate_proposal: the operations' form and the paths they may touch. *)

OperationKinds == {"test", "add", "replace", "remove"}
None == Scalar("None")
IsOperation(o) ==
  /\ o.op \in OperationKinds /\ o.path \in Paths
  /\ IsDocument(o.value) /\ IsTree(o.value)

(* Mutant: the identity layer is a layer like the others. *)
AuthorizedIdentity(o) ==
  /\ o.path # <<>> /\ Head(o.path) \in ALLOWED_ROOTS
  /\ Head(o.path) = "objects" => Len(o.path) > 1
  /\ o.op = "test" => o.value # None

(* Mutant: any root may be patched. *)
AuthorizedAnywhere(o) ==
  /\ o.path # <<>>
  /\ ~(Len(o.path) > 1 /\ Head(o.path) = "layer_state" /\ o.path[2] = "identity")
  /\ Head(o.path) = "objects" => Len(o.path) > 1
  /\ o.op = "test" => o.value # None

Authorized(o) ==
  /\ o.path # <<>>
  /\ Head(o.path) \in ALLOWED_ROOTS \ PROTECTED_ROOTS
  /\ ~(Len(o.path) > 1 /\ Head(o.path) = "layer_state" /\ o.path[2] = "identity")
  /\ Head(o.path) = "objects" => Len(o.path) > 1
  /\ o.op = "test" => o.value # None

(* _set: a replaced key must exist, an added one may; only add appends. *)
CanSet(d, o) ==
  LET parent == Front(o.path)
  IN /\ parent \in DOMAIN d
     /\ \/ d[parent] = "{}" /\ (o.op = "add" \/ o.path \in DOMAIN d)
        \/ d[parent] = "[]" /\ o.op = "add" /\ Last(o.path) = "-"

Applicable(d, o) ==
  CASE o.op = "test" -> o.path \in DOMAIN d /\ Subtree(d, o.path) = o.value
    [] o.op = "remove" -> o.path \in DOMAIN d
    [] OTHER -> CanSet(d, o)

(* _apply_operation, _set and _remove. *)
Applied(d, o) ==
  CASE o.op = "test" -> d
    [] o.op = "remove" -> Without(d, o.path)
    [] o.op \in {"add", "replace"} ->
         IF d[Front(o.path)] = "[]" THEN d ELSE Graft(d, o.path, o.value)

(* validate_state_invariants. *)
ObjectIds(d) == {p[2] : p \in {q \in DOMAIN d : Len(q) = 2 /\ q[1] = "objects"}}
Sound(d) ==
  /\ d[<<"selected_object_id">>] \in ObjectIds(d) \cup {"surface.command"}
  /\ \A id \in ObjectIds(d) :
       /\ id \in Namespaced
       /\ d[<<"objects", id>>] = "{}"
       /\ {<<"objects", id, "type">>, <<"objects", id, "status">>} \subseteq DOMAIN d
  /\ d[<<"render">>] = "{}"
  /\ <<"render", "status">> \in DOMAIN d => d[<<"render", "status">>] \in RenderStatus

(* A state waits for an image exactly if it names the job of it.           *)
QueueIsNamed(d) ==
  LET status == <<"render", "status">> job == <<"render", "pending_job_id">>
  IN {status, job} \subseteq DOMAIN d /\ (d[status] = "queued" <=> d[job] # "")

(* What boot makes would pass the gate; TLC evaluates it. *)
ASSUME GenesisAssumption ==
  /\ \A r \in ALLOWED_ROOTS : IsDocument(Defaults[r]) /\ IsTree(Defaults[r])
  /\ IsDocument(Genesis) /\ IsTree(Genesis) /\ Sound(Genesis)
  /\ \A r \in ALLOWED_ROOTS : <<r>> \in DOMAIN Genesis
  /\ QueueIsNamed(Genesis)
-----------------------------------------------------------------------------
(* Handlers. *)

Init ==
  /\ doc = Genesis
  /\ step = "idle" /\ by = "client" /\ class = "none"
  /\ ops = <<>> /\ done = 0 /\ draft = EmptyDict
  /\ fresh = FALSE /\ handmade = FALSE /\ commits = 0

Rest ==
  /\ step' = "idle" /\ by' = "client" /\ class' = "none"
  /\ ops' = <<>> /\ done' = 0 /\ draft' = EmptyDict

(* commit_proposal is entered, by interact or by a client's own request,  *)
(* with operations that PatchOperation could be made of.                   *)
Submit(who, operations, c) ==
  /\ step = "idle" /\ commits < MaxCommits
  /\ operations \in Seq(Range(operations)) /\ c \in Text
  /\ \A i \in DOMAIN operations : IsOperation(operations[i])
  /\ step' = "check" /\ by' = who /\ class' = c
  /\ ops' = operations /\ done' = 0 /\ draft' = EmptyDict
  /\ UNCHANGED world

Valid == ops # <<>> /\ \A i \in DOMAIN ops : Authorized(ops[i])

Validate ==
  /\ step = "check" /\ Valid
  /\ step' = "apply" /\ draft' = doc
  /\ UNCHANGED <<by, class, ops, done, world>>

ApplyOperation ==
  /\ step = "apply" /\ done < Len(ops)
  /\ Applicable(draft, ops[done + 1])
  /\ draft' = Applied(draft, ops[done + 1])
  /\ done' = done + 1
  /\ UNCHANGED <<step, by, class, ops, world>>

(* The exceptions of validate_proposal, of an operation and of            *)
(* validate_state_invariants.                                              *)
Refused ==
  \/ step = "check" /\ ~Valid
  \/ /\ step = "apply" /\ done < Len(ops)
     /\ ~Applicable(draft, ops[done + 1])
  \/ /\ step = "apply" /\ done = Len(ops)
     /\ ~Sound(FromDict(draft))

Refuse == Refused /\ Rest /\ UNCHANGED world

(* commit_proposal after the gate: the render fields are the core's own.   *)
RenderFields(c) ==
  IF c \in ImageModes
  THEN [status |-> "queued", requested_mode |-> c, pending_job_id |-> "render_job"]
  ELSE [status |-> "verified", requested_mode |-> c, pending_job_id |-> "",
        committed_frame_id |-> "frame_native"]
RenderedBy(d, c) == WithFields(d, <<"render">>, RenderFields(c))

(* Mutant: the checks on the state that results are left out. *)
SealUnchecked ==
  /\ step = "apply" /\ done = Len(ops)
  /\ doc' = RenderedBy(FromDict(draft), class)
  /\ fresh' = TRUE /\ commits' = commits + 1
  /\ handmade' = (handmade \/ by = "client")
  /\ Rest

Seal ==
  /\ step = "apply" /\ done = Len(ops)
  /\ Sound(FromDict(draft))
  /\ doc' = RenderedBy(FromDict(draft), class)
  /\ fresh' = TRUE /\ commits' = commits + 1
  /\ handmade' = (handmade \/ by = "client")
  /\ Rest

(* Mutant: the job stays pending whatever the verdict was. *)
VerifyKeepsPending(status) ==
  /\ step = "idle" /\ fresh
  /\ <<"objects", "node.renderer">> \in DOMAIN doc
  /\ doc' = WithFields(WithFields(doc, <<"render">>, [status |-> status]),
                       <<"objects", "node.renderer">>, [status |-> status])
  /\ fresh' = FALSE
  /\ UNCHANGED <<work, handmade, commits>>

VerdictFields(status) ==
  IF status = "verified"
  THEN [status |-> status, pending_job_id |-> "",
        committed_frame_id |-> "frame_candidate"]
  ELSE [status |-> status,
        pending_job_id |-> IF status = "queued" THEN "render_job" ELSE ""]

(* verify_render: the verdict on the job of the current state is shown     *)
(* without passing the gate.  Without a renderer's node it raises, after   *)
(* the verdict has been saved in the job.                                  *)
VerifyRender(status) ==
  /\ step = "idle" /\ fresh
  /\ <<"objects", "node.renderer">> \in DOMAIN doc
  /\ doc' = WithFields(WithFields(doc, <<"render">>, VerdictFields(status)),
                       <<"objects", "node.renderer">>, [status |-> status])
  /\ fresh' = FALSE
  /\ UNCHANGED <<work, handmade, commits>>

(* create_branch: the fork's origin is noted in the meta-model layer.  It  *)
(* raises when a patch has left no such layer.                             *)
CreateBranch ==
  LET layer == <<"layer_state", "meta_model">>
  IN /\ step = "idle" /\ commits < MaxCommits
     /\ layer \in DOMAIN doc /\ doc[layer] = "{}"
     /\ doc' = WithFields(doc, layer,
                  [forked_from |-> "branch", fork_state_hash |-> "hash"])
     /\ fresh' = FALSE /\ commits' = commits + 1
     /\ UNCHANGED <<work, handmade>>

GateStep ==
  \/ Validate \/ ApplyOperation \/ Refuse \/ Seal
  \/ \E status \in RenderStatus \ {"candidate"} : VerifyRender(status)
  \/ CreateBranch
-----------------------------------------------------------------------------
(* Correctness. *)

Step == {"idle", "check", "apply"}

(* Documents stay trees, of dicts, and the state has every root that       *)
(* SurfaceState names.                                                     *)
TypeOK ==
  /\ IsDocument(doc) /\ IsTree(doc)
  /\ \A r \in ALLOWED_ROOTS : <<r>> \in DOMAIN doc
  /\ IsDocument(draft) /\ IsTree(draft)
  /\ step \in Step /\ by \in {"packet", "client"} /\ done \in 0 .. Len(ops)
  /\ fresh \in BOOLEAN /\ handmade \in BOOLEAN /\ commits \in 0 .. MaxCommits

(* validation.py, validate_state_invariants: the invariants hold of every  *)
(* state that is current, those made by a verdict or a fork included,      *)
(* which no gate checks, and those whose fields commit_proposal sets after *)
(* the check.                                                              *)
WorldIsSound == Sound(doc)

(* engine.py, commit_proposal: whatever clients write under /render, a     *)
(* state waits for an image exactly if it names the job that it waits for. *)
QueuedNamesItsJob == QueueIsNamed(doc)

(* docs/SECURITY.md: the proposal plane cannot change what is outside of   *)
(* the allowed roots, in whatever order it adds, replaces and removes.     *)
ProtectedIn(d) ==
  \A r \in PROTECTED_ROOTS :
    <<r>> \in DOMAIN Genesis => <<r>> \in DOMAIN d /\ d[<<r>>] = Genesis[<<r>>]
ProtectedIsKept == ProtectedIn(doc)

(* docs/SECURITY.md: "Identity-layer patches are blocked."  No proposal    *)
(* changes the layer by parts, moves or empties it, unless it addresses    *)
(* the whole of /layer_state, which the code lets pass.                    *)
IdentityOf(d) ==
  LET identity == <<"layer_state", "identity">> IN Restrict(d, Below(d, identity))
SparesLayers == \A i \in DOMAIN ops : ops[i].path # <<"layer_state">>
IdentityIsKept == [][SparesLayers => IdentityOf(doc') = IdentityOf(doc)]_vars
=============================================================================
