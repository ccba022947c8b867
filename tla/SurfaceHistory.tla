--------------------------- MODULE SurfaceHistory ---------------------------
(***************************************************************************)
(* SurfaceEngine implements WorldHistory while the process is not killed.  *)
(*                                                                         *)
(* A commit or a verdict takes effect when its event is appended, before   *)
(* HEAD and the branch ref are moved; a fork takes effect when its event   *)
(* is appended, after both are moved; a switch when HEAD is moved.  Until  *)
(* boot has set both refs the world is the initial one.                    *)
(***************************************************************************)
EXTENDS SurfaceEngine

(* The handlers between their commit point and their last ref, and the     *)
(* forks between their first ref and their commit point.                   *)
Appended(t) ==
  op[t].kind \in {"interact", "commit", "verify"} /\
  op[t].step \in {"job", "head", "ref"}
Forking(t) == op[t].kind = "fork" /\ op[t].step \in {"ref", "append"}
Booted == head # 0 /\ phase = "serving"

worldTips ==
  [b \in Branches |->
     IF ~Booted THEN IF b = Main THEN 1 ELSE 0
     ELSE IF \E t \in Threads : Appended(t) /\ op[t].next.branch = b
       THEN op[lock].to
     ELSE IF \E t \in Threads : Forking(t) /\ op[t].next.branch = b
       THEN 0
     ELSE refs[b]]

worldActive ==
  IF ~Booted THEN Main
  ELSE IF \E t \in Threads : Forking(t) THEN states[op[lock].from].branch
  ELSE current.branch

worldLog ==
  [i \in 1 .. Len(events) |->
     [branch |-> events[i].branch, parent |-> events[i].parent,
      result |-> events[i].result]]

WH == INSTANCE WorldHistory
        WITH log <- worldLog, tips <- worldTips, active <- worldActive

(* TLC enumerates the states a step may add instead of all of Nat. *)
WorldStep ==
  \/ \E new \in 1 .. MaxStates :
       WH!Extend(new) \/ \E b \in Branches : WH!Fork(b, new)
  \/ \E b \in Branches : WH!Switch(b)

(* Every write of a handler is a step of the history or invisible in it:   *)
(* readers of the log and of settled refs see whole commits, forks and     *)
(* switches, each on the tip of the branch it belongs to.                  *)
ImplementsWorldHistory == WH!WorldInit /\ [][WorldStep]_(WH!worldVars)
=============================================================================
