--------------------------- MODULE PatchProposer ---------------------------
(***************************************************************************)
(* RulePatchProposer (adapters.py) in front of the gate: a packet becomes  *)
(* the operations of a proposal, read off the current document under the   *)
(* engine's lock.  Clients may also commit proposals of their own making.  *)
(*                                                                         *)
(* Packets whose text the proposer refuses whatever the document is (an    *)
(* empty goal, an unknown policy) are left out, and so are the evidence,   *)
(* the confidence and the review flag that an operation carries.           *)
(***************************************************************************)
EXTENDS PatchGate

CONSTANTS
  Targets,   \* node ids that packets name
  Spawned,   \* object ids that spawn commands name
  Values,    \* what commands set an item of ui to
  InputKey,  \* _safe_key of each target
  Proposals  \* what clients commit themselves: operations and a class

(* _command_operations puts ids in a namespace; "None" is in none.         *)
ASSUME SpawnedAssumption == Spawned \subseteq Namespaced /\ "None" \notin Namespaced

(* The commands that replace one item of ui; any other text is the last.   *)
UiItem ==
  [cloud |-> <<"ui", "privacy", "cloud_allowed">>,
   redaction |-> <<"ui", "privacy", "redact_sensitive_inputs">>,
   retention |-> <<"ui", "privacy", "frame_retention">>,
   policy |-> <<"ui", "render_policy">>,
   motion |-> <<"ui", "reduced_motion">>,
   other |-> <<"ui", "last_command">>]

Packets ==
  [kind : {"click", "focus", "type"}, target : Targets]
  \cup [kind : {"spawn", "set-status"}, id : Spawned]
  \cup [kind : DOMAIN UiItem, value : Values]
  \cup [kind : ImageModes \cup {"goal", "pause", "resume", "toggle_run"}]

Replace(path, v) == [op |-> "replace", path |-> path, value |-> Scalar(v)]
Add(path, value) == [op |-> "add", path |-> path, value |-> value]
Exists(d, id) == <<"objects", id>> \in DOMAIN d

(* Pointer and typing packets insist on the selection they have seen. *)
TestSelection(d) ==
  [op |-> "test", path |-> <<"selected_object_id">>,
   value |-> Subtree(d, <<"selected_object_id">>)]

PointAt(p, d) ==
  LET focus == Replace(<<"active_focus_id">>, p.target)
  IN IF Exists(d, p.target)
     THEN <<TestSelection(d), Replace(<<"selected_object_id">>, p.target), focus,
            Replace(<<"objects", p.target, "status">>,
                    IF p.kind = "click" THEN "selected" ELSE "active")>>
     ELSE <<TestSelection(d), focus>>

(* Mutant: every input has been typed into before. *)
TypeOver(p, d) ==
  <<TestSelection(d),
    [op |-> "replace", path |-> <<"ui", "inputs", InputKey[p.target]>>,
     value |-> Dict([text |-> Scalar("typed")])],
    Replace(<<"active_focus_id">>, p.target)>>

TypeInto(p, d) ==
  LET path == <<"ui", "inputs", InputKey[p.target]>>
  IN <<TestSelection(d),
       [op |-> IF path \in DOMAIN d THEN "replace" ELSE "add", path |-> path,
        value |-> Dict([text |-> Scalar("typed")])],
       Replace(<<"active_focus_id">>, p.target)>>

QueueRender(p) ==
  <<Replace(<<"render", "status">>, "queued"),
    Replace(<<"render", "requested_mode">>, p.kind),
    Replace(<<"objects", "node.renderer", "status">>, "queued")>>

Spawn(p) ==
  <<Add(<<"objects", p.id>>, Object("entity", "active")),
    Replace(<<"selected_object_id">>, p.id)>>

(* A missing simulation_running counts as true. *)
Running(d) ==
  LET path == <<"ui", "simulation_running">>
  IN path \in DOMAIN d => d[path] # "false"
SetRunning(p, d) ==
  <<Replace(<<"ui", "simulation_running">>,
            IF p.kind = "resume" \/ (p.kind = "toggle_run" /\ ~Running(d))
            THEN "true" ELSE "false")>>

Commanded(p, d) ==
  CASE p.kind \in {"click", "focus"} -> PointAt(p, d)
    [] p.kind = "type" -> TypeInto(p, d)
    [] p.kind \in ImageModes -> QueueRender(p)
    [] p.kind \in {"pause", "resume", "toggle_run"} -> SetRunning(p, d)
    [] p.kind = "goal" -> <<Add(<<"goals", "-">>, Dict([text |-> Scalar("goal")]))>>
    [] p.kind = "spawn" -> Spawn(p)
    [] p.kind = "set-status" -> <<Replace(<<"objects", p.id, "status">>, "ready")>>
    [] p.kind \in DOMAIN UiItem -> <<Replace(UiItem[p.kind], p.value)>>

Operations(p, d) ==
  Append(Commanded(p, d), [op |-> "replace", path |-> <<"layer_state", "events", "last_action">>,
                           value |-> Dict([kind |-> Scalar(p.kind)])])

RenderClass(p) ==
  CASE p.kind \in ImageModes -> p.kind
    [] p.kind = "spawn" -> "composite"
    [] OTHER -> "native_ui"

(* Mutant: an object that exists is spawned again. *)
ProposableTwice(p, d) ==
  /\ p.kind = "set-status" => Exists(d, p.id)
  /\ p.kind \in {"type", "pause", "resume", "toggle_run"} => d[<<"ui">>] = "{}"

(* The packets that the proposer does not raise on. *)
Proposable(p, d) ==
  /\ p.kind = "spawn" => ~Exists(d, p.id)
  /\ p.kind = "set-status" => Exists(d, p.id)
  /\ p.kind \in {"type", "pause", "resume", "toggle_run"} => d[<<"ui">>] = "{}"

Interact(p) == Proposable(p, doc) /\ Submit("packet", Operations(p, doc), RenderClass(p))
Commit(q) == Submit("client", q.operations, q.class)

Next ==
  \/ \E p \in Packets : Interact(p)
  \/ \E q \in Proposals : Commit(q)
  \/ GateStep

Spec == Init /\ [][Next]_vars
-----------------------------------------------------------------------------
(* Correctness. *)

(* What packets replace wherever they are sent, and what they add to: the  *)
(* boot document has it.                                                   *)
Addressed ==
  {<<"selected_object_id">>, <<"active_focus_id">>, <<"ui", "simulation_running">>,
   <<"render", "status">>, <<"render", "requested_mode">>,
   <<"layer_state", "events", "last_action">>}
  \cup {UiItem[kind] : kind \in DOMAIN UiItem}
Furnished(d) ==
  /\ Addressed \cup {<<"objects", "node.renderer">>, <<"ui", "inputs">>, <<"goals">>}
       \subseteq DOMAIN d
  /\ d[<<"ui", "inputs">>] = "{}" /\ d[<<"goals">>] = "[]"
ASSUME FurnishedAssumption == Furnished(Genesis)

(* adapters.py, propose: what the proposer offers for a packet passes the  *)
(* gate in every world that packets, verdicts and forks can make.          *)
OwnPatchesApply == by = "packet" /\ ~handmade => ~Refused

(* adapters.py, _command_operations: packets add objects and change their  *)
(* status, and never remove one or change what it is.                      *)
PacketsKeepObjects ==
  [][by = "packet" =>
       \A id \in ObjectIds(doc) :
         <<"objects", id>> \in DOMAIN doc' /\
         doc'[<<"objects", id, "type">>] = doc[<<"objects", id, "type">>]]_vars
=============================================================================
