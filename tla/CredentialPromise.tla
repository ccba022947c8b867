------------------------- MODULE CredentialPromise -------------------------
(***************************************************************************)
(* What the credential vault promises: one sealed credential, replaced and *)
(* opened at once and only by its password, and a copy of the key that is  *)
(* in memory while the vault is open.                                      *)
(***************************************************************************)
CONSTANTS Keys, Passwords, None

VARIABLES
  stored,  \* the sealed credential: a set with one or none
  open     \* the key in memory, or None

vars == <<stored, open>>

Credential(pw, key) == [pw |-> pw, key |-> key]

Init == stored = {} /\ open = None

(* A credential is replaced by someone who knows its password. *)
Store(pw, key) ==
  /\ \A c \in stored : c.pw = pw
  /\ stored' = {Credential(pw, key)}
  /\ open' = key

Open == (\E c \in stored : open' = c.key) /\ UNCHANGED stored

Close == open' = None /\ UNCHANGED stored

(* Only a closed vault is erased. *)
Erase == open = None /\ stored' = {} /\ UNCHANGED open

Next ==
  \/ \E pw \in Passwords, key \in Keys : Store(pw, key)
  \/ Open \/ Close \/ Erase

Spec == Init /\ [][Next]_vars
=============================================================================
