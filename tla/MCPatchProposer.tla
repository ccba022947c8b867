-------------------------- MODULE MCPatchProposer --------------------------
(* An instance of PatchProposer for TLC. *)
EXTENDS PatchProposer

MCText == STRING
MCNamespaced == {"node.surface", "node.renderer", "world.a"}
MCTargets == {"node.surface", "world.a", "world_a"}
MCValues == {"x"}
MCSpawned == {"world.a", "node.surface"}

\* Two targets with one key.
MCInputKey == [t \in MCTargets |-> IF t = "node.surface" THEN "node_surface" ELSE "world_a"]

Drop(path) == [op |-> "remove", path |-> path, value |-> None]
Test(path, v) == [op |-> "test", path |-> path, value |-> Scalar(v)]
Layers == Dict([events |-> Dict([last_action |-> EmptyDict]), meta_model |-> EmptyDict])
Native(operations) == [operations |-> operations, class |-> "native_ui"]

MCProposals ==
  {\* what the gate refuses
   Native(<<>>), Native(<<Replace(<<"target">>, "x")>>),
   Native(<<Replace(<<"ui", "last_command">>, "x"), Replace(<<"provenance", "x">>, "x")>>),
   Native(<<Add(<<"layer_state", "identity", "x">>, Fixed)>>),
   Native(<<Drop(<<"objects">>)>>),
   Native(<<Test(<<"ui", "render_policy">>, "x"), Drop(<<"ui">>)>>),
   Native(<<Replace(<<"render", "status">>, "x")>>),
   Native(<<Add(<<"objects", "a">>, Object("entity", "active"))>>),
   Native(<<Add(<<"objects", "world.a">>, EmptyDict)>>),
   \* what it lets pass in some or in all worlds
   Native(<<Drop(<<"layer_state">>)>>),
   Native(<<Add(<<"layer_state">>, Layers)>>),
   Native(<<Drop(<<"objects", "node.renderer">>)>>),
   Native(<<Drop(<<"objects", "world.a">>),
            Replace(<<"selected_object_id">>, "surface.command")>>),
   Native(<<Replace(<<"ui">>, "x")>>), Native(<<Drop(<<"ui", "inputs">>)>>),
   [operations |-> <<Drop(<<"render">>)>>, class |-> "new_keyframe"],
   [operations |-> <<Add(<<"render", "pending_job_id">>, Scalar("x")), Drop(<<"goals">>)>>,
    class |-> "composite"]}
=============================================================================
