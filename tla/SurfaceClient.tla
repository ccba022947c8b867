--------------------------- MODULE SurfaceClient ---------------------------
(***************************************************************************)
(* The Godot client (interaction_capture.gd, surface_bridge.gd) and the    *)
(* world it works on, which is what WorldHistory promises of the core.     *)
(*                                                                         *)
(* The client runs its coroutines one at a time, each from one await to    *)
(* the next.  They share one HTTP request: a call that finds it busy looks *)
(* again every tenth of a second, in no order, for four seconds.  A packet *)
(* carries the branch and the state that the user saw when it was captured.*)
(*                                                                         *)
(* Abstractions.  States of the world are numbered; all states that the    *)
(* client makes up itself are one, Preview.  A call that times out may     *)
(* still reach the core, or have reached it.  The core may refuse any      *)
(* interaction (PatchProposer says which).  Forks and switches that a      *)
(* client makes offline are left out: they never leave it.                 *)
(***************************************************************************)
EXTENDS WorldHistory, FiniteSets

CONSTANTS
  MaxPackets,  \* bound: interactions captured
  MaxCalls,    \* bound: other calls the user makes
  MaxOthers,   \* bound: moves of other clients
  MaxEvents    \* bound: events of the core

ASSUME BoundsAssumption ==
  {MaxPackets, MaxCalls, MaxOthers, MaxEvents} \subseteq Nat /\ Main \in Branches

VARIABLES
  origin,  \* history: the packet of each event in log, or Nobody's
  client,  \* the client's state
  late,    \* calls that the client has given up and the core may still get
  others   \* moves that other clients have made

vars == <<worldVars, origin, client, late, others>>

Genesis == 0   \* the parent "genesis", which the core accepts on any state
Preview == -1  \* a state hash "demo_..."
Nothing == [kind |-> "nothing"]
Nobody == Nothing

View(b, s) == [branch |-> b, state |-> s]
HEAD == View(active, tips[active])

Packets == [kind : {"interact"}, sequence : 1 .. MaxPackets, branch : Branches,
            parent : Int]
Calls == Packets \cup [kind : {"fork", "switch"}, branch : Branches]
                 \cup [kind : {"verdict", "query", "snapshot", "health"}]
UserCalls == [kind : {"fork"}, branch : Branches \ {Main}]
             \cup [kind : {"switch"}, branch : Branches]
             \cup [kind : {"verdict", "query"}]
-----------------------------------------------------------------------------
(* The coroutines, each from one await to the next: what they make of a    *)
(* client's state c.                                                       *)

(* Mutant: the preview starts from the state that the core calls genesis.  *)
BootGenesis == View(Main, Genesis)

BootView == View(Main, Preview)

(* Mutant: the request is taken for a call that is then not sent. *)
SendLost(c, call) == [c EXCEPT !.request = call]

Send(c, call) == [c EXCEPT !.request = call, !.stage = "sent"]

(* _api up to its first await. *)
Api(c, call) ==
  IF c.request = Nothing THEN Send(c, call)
  ELSE [c EXCEPT !.waiting = @ \cup {call}]

(* refresh_snapshot does not wait for the request. *)
Refresh(c) ==
  IF c.status = "online" /\ c.request = Nothing
  THEN Send(c, [kind |-> "snapshot"]) ELSE c

CommitDemo(c) == [c EXCEPT !.view.state = Preview]

(* _emit_packet, and commit_interaction, which it calls. *)
Emit(c) ==
  LET d == [c EXCEPT !.sequence = @ + 1]
      packet == [kind |-> "interact", sequence |-> d.sequence,
                 branch |-> c.view.branch, parent |-> c.view.state]
  IN IF c.status = "online" THEN Api(d, packet) ELSE CommitDemo(d)

(* A waiting call takes the request, whatever the status has become. *)
Acquire(c, call) == Send([c EXCEPT !.waiting = @ \ {call}], call)

(* "busy": an interaction is then made locally. *)
GiveUp(c, call) ==
  LET d == [c EXCEPT !.waiting = @ \ {call}]
  IN IF call.kind = "interact" THEN CommitDemo(d) ELSE d

(* Mutant: an answer is shown only if nothing has been made locally.       *)
AnsweredUnlessPreview(c) ==
  LET d == [c EXCEPT !.request = Nothing, !.stage = "none"]
      kind == c.request.kind
  IN IF c.stage = "ok"
     THEN CASE kind = "snapshot" /\ c.view.state # Preview -> [d EXCEPT !.view = c.reply]
            [] kind = "health" -> Refresh([d EXCEPT !.status = "online"])
            [] kind \in {"interact", "fork", "switch", "verdict"} -> Refresh(d)
            [] OTHER -> d
     ELSE CASE kind = "snapshot" -> [d EXCEPT !.status = "demo"]
            [] kind = "health" ->
                 [d EXCEPT !.status = IF c.status = "offline" THEN "starting" ELSE "demo"]
            [] OTHER -> d

(* request_completed: the rest of _api and of its caller. *)
Answered(c) ==
  LET d == [c EXCEPT !.request = Nothing, !.stage = "none"]
      kind == c.request.kind
  IN IF c.stage = "ok"
     THEN CASE kind = "snapshot" -> [d EXCEPT !.view = c.reply]
            [] kind = "health" -> Refresh([d EXCEPT !.status = "online"])
            [] kind \in {"interact", "fork", "switch", "verdict"} -> Refresh(d)
            [] kind = "query" -> d
     ELSE CASE kind = "snapshot" -> [d EXCEPT !.status = "demo"]
            [] kind = "health" ->
                 [d EXCEPT !.status = IF c.status = "offline" THEN "starting" ELSE "demo"]
            [] OTHER -> d
-----------------------------------------------------------------------------
(* The core. *)

Fresh == Len(log) + 2
Noted(packet) == origin' = Append(origin, packet)

(* Mutant: a packet is taken on whatever state its branch has come to. *)
CurrentBranch(packet) == packet.branch = active

(* _validate_packet_parent. *)
Current(packet) ==
  packet.parent \in {Genesis, tips[active]} /\ packet.branch = active

Accepts(call) ==
  CASE call.kind = "interact" ->
         Len(log) < MaxEvents /\ Current(call) /\ Extend(Fresh) /\ Noted(call)
    [] call.kind = "fork" ->
         Len(log) < MaxEvents /\ Fork(call.branch, Fresh) /\ Noted(Nobody)
    [] call.kind = "switch" -> Switch(call.branch) /\ UNCHANGED origin
    [] call.kind = "verdict" ->
         \/ Len(log) < MaxEvents /\ Extend(Fresh) /\ Noted(Nobody)
         \/ UNCHANGED <<worldVars, origin>>
    [] OTHER -> UNCHANGED <<worldVars, origin>>

Refuses(call) ==
  /\ \/ call.kind \in {"interact", "verdict", "query"}
     \/ call.kind = "fork" /\ (tips[call.branch] # 0 \/ Len(log) = MaxEvents)
     \/ call.kind = "switch" /\ tips[call.branch] = 0
  /\ UNCHANGED <<worldVars, origin>>
-----------------------------------------------------------------------------
Init ==
  /\ WorldInit /\ origin = <<>>
  /\ client = [status |-> "offline", view |-> BootView, sequence |-> 0, asked |-> 0,
               request |-> Nothing, stage |-> "none", reply |-> BootView,
               waiting |-> {}]
  /\ late = {} /\ others = 0

Outside == UNCHANGED <<worldVars, origin, late, others>>

(* probe, at the start and once more after it has started a core. *)
Probe ==
  /\ client.status \in {"offline", "starting"} /\ client.request = Nothing
  /\ client' = Send(client, [kind |-> "health"])
  /\ Outside

Capture ==
  /\ client.sequence < MaxPackets
  /\ client' = Emit(client)
  /\ Outside

Ask(call) ==
  /\ client.status = "online" /\ client.asked < MaxCalls
  /\ client' = Api([client EXCEPT !.asked = @ + 1], call)
  /\ Outside

(* The poll timer, or the user's own refresh. *)
Poll ==
  /\ client.status = "online" /\ client.request = Nothing
  /\ client' = Refresh(client)
  /\ Outside

Wait(call) ==
  /\ client' = IF client.request = Nothing THEN Acquire(client, call)
               ELSE GiveUp(client, call)
  /\ Outside

Resume ==
  /\ client.stage \in {"ok", "error"}
  /\ client' = Answered(client)
  /\ Outside

Serve ==
  /\ client.stage = "sent"
  /\ \/ /\ Accepts(client.request)
        /\ client' = [client EXCEPT !.stage = "ok", !.reply =
                        IF client.request.kind = "snapshot" THEN HEAD ELSE @]
     \/ Refuses(client.request) /\ client' = [client EXCEPT !.stage = "error"]
  /\ UNCHANGED <<late, others>>

(* No connection, a timeout, or an answer that is lost or cannot be read.  *)
Fail ==
  /\ client.stage \in {"sent", "ok"}
  /\ client' = [client EXCEPT !.stage = "error"]
  /\ \/ UNCHANGED late
     \/ /\ client.stage = "sent" /\ client.request.kind \notin {"query", "snapshot", "health"}
        /\ late' = late \cup {client.request}
  /\ UNCHANGED <<worldVars, origin, others>>

ServeLate(call) ==
  /\ Accepts(call)
  /\ late' = late \ {call}
  /\ UNCHANGED <<client, others>>

Elsewhere ==
  /\ others < MaxOthers /\ others' = others + 1
  /\ \/ Len(log) < MaxEvents /\ Extend(Fresh) /\ Noted(Nobody)
     \/ \E b \in Branches : Len(log) < MaxEvents /\ Fork(b, Fresh) /\ Noted(Nobody)
     \/ \E b \in Branches : Switch(b) /\ UNCHANGED origin
  /\ UNCHANGED <<client, late>>

Next ==
  \/ Probe \/ Capture \/ Poll \/ Resume \/ Serve \/ Fail \/ Elsewhere
  \/ \E call \in UserCalls : Ask(call)
  \/ \E call \in client.waiting : Wait(call)
  \/ \E call \in late : ServeLate(call)

Spec == Init /\ [][Next]_vars

(* The engine runs timers and coroutines; a request ends by an answer or   *)
(* by its timeout.  Calls that were given up may never reach the core.     *)
FairSpec ==
  /\ Spec
  /\ WF_vars(Probe) /\ WF_vars(Poll) /\ WF_vars(Resume)
  /\ WF_vars(Serve \/ Fail)
  /\ WF_vars(\E call \in client.waiting : Wait(call))
-----------------------------------------------------------------------------
(* Correctness. *)

ClientTypeOK ==
  /\ client.status \in {"offline", "starting", "online", "demo"}
  /\ client.view \in [branch : Branches, state : {Preview, Genesis} \cup Known]
  /\ client.sequence \in 0 .. MaxPackets /\ client.asked \in 0 .. MaxCalls
  /\ client.request \in Calls \cup {Nothing} /\ client.waiting \subseteq Calls
  /\ client.stage \in {"none", "sent", "ok", "error"}
  /\ client.stage = "none" <=> client.request = Nothing
  /\ late \subseteq Calls /\ others \in 0 .. MaxOthers

(* engine.py, _validate_packet_parent, and _boot_demo_snapshot: what is    *)
(* committed was decided on the state that it changes; nothing captured on *)
(* a preview or on a state that is gone reaches the log.                   *)
CommittedAsSeen ==
  \A i \in 1 .. Len(log) :
    origin[i] # Nobody =>
      log[i].parent = origin[i].parent /\ log[i].branch = origin[i].branch

(* interaction_capture.gd, _emit_packet: on each branch the user's events  *)
(* are in the order they were made in, each once, though waiting calls     *)
(* overtake each other and calls given up arrive later.                    *)
EventsInUserOrder ==
  \A i, j \in 1 .. Len(log) :
    i < j /\ origin[i] # Nobody /\ origin[j] # Nobody /\ log[i].branch = log[j].branch
      => origin[i].sequence < origin[j].sequence

(* surface_bridge.gd, refresh_snapshot: once the user and the others rest, *)
(* a client that is online shows the state of the core, whatever it has    *)
(* previewed because the request was busy, or has missed.                  *)
ViewCatchesUp == <>[](client.status = "online" => client.view = HEAD)
=============================================================================
