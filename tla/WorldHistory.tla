---------------------------- MODULE WorldHistory ----------------------------
(***************************************************************************)
(* What the commit plane promises: "seals the state, appends a hashed      *)
(* event, and atomically updates the active branch ref".  A history of     *)
(* immutable states, a log and a set of branch tips in which a commit or a *)
(* verdict extends the active branch by one state and one event, a fork    *)
(* starts a branch at the active tip, and a switch moves nothing but HEAD. *)
(***************************************************************************)
EXTENDS Integers, Sequences

CONSTANTS Branches, Main

VARIABLES
  log,     \* events: the branch, the parent and the resulting state
  tips,    \* the state each branch shows, 0 for a branch that does not exist
  active   \* the branch HEAD is on; HEAD is tips[active]

worldVars == <<log, tips, active>>

Entries == [branch : Branches, parent : Nat, result : Nat]
Entry(b, p, r) == [branch |-> b, parent |-> p, result |-> r]

(* States known to the history: the genesis state and every result. *)
Known == {1} \cup {log[i].result : i \in 1 .. Len(log)}

WorldInit ==
  /\ log = <<>>
  /\ tips = [b \in Branches |-> IF b = Main THEN 1 ELSE 0]
  /\ active = Main

Extend(new) ==
  /\ new \notin Known
  /\ log' = Append(log, Entry(active, tips[active], new))
  /\ tips' = [tips EXCEPT ![active] = new]
  /\ UNCHANGED active

Fork(b, new) ==
  /\ tips[b] = 0
  /\ new \notin Known
  /\ log' = Append(log, Entry(b, tips[active], new))
  /\ tips' = [tips EXCEPT ![b] = new]
  /\ active' = b

Switch(b) ==
  /\ tips[b] # 0
  /\ active' = b
  /\ UNCHANGED <<log, tips>>

WorldNext ==
  \/ \E new \in Nat \ {0} : Extend(new) \/ \E b \in Branches : Fork(b, new)
  \/ \E b \in Branches : Switch(b)

World == WorldInit /\ [][WorldNext]_worldVars
=============================================================================
