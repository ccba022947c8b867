-------------------------- MODULE CredentialVault --------------------------
(***************************************************************************)
(* The OpenAI credential vault (credentials.py).  Every operation holds    *)
(* the vault's lock from its first to its last write; the process may be   *)
(* killed, and the disk may refuse a write, between two of them.           *)
(*                                                                         *)
(* Abstractions.  Encryption is what it is for: a sealed file gives its    *)
(* key to its password.  Operations that fail a check change nothing and   *)
(* have no step.  Sources, dates and fingerprints are left out.            *)
(***************************************************************************)
EXTENDS Naturals

CONSTANTS
  Keys,       \* API keys
  Passwords,  \* vault passwords
  None,       \* no key, no password
  Imported,   \* what OPENAI_API_KEY may hold when the process starts
  MaxKills    \* bound on kills

ASSUME NoneAssumption == None \notin Keys \cup Passwords
ASSUME ImportedAssumption == Imported \subseteq Keys \cup {None} /\ Imported # {}
ASSUME KillsAssumption == MaxKills \in Nat

VARIABLES
  vault,    \* openai.vault.json
  tmp,      \* .openai.vault.json.tmp
  memory,   \* OpenAICredentialVault._api_key
  environ,  \* OPENAI_API_KEY
  vop,      \* the operation that holds the vault's lock
  kills

vaultVars == <<vault, tmp, memory, environ, vop, kills>>

Forms == {"absent", "sealed", "garbage"}
NoFile == [form |-> "absent", pw |-> None, key |-> None]
Garbage == [NoFile EXCEPT !.form = "garbage"]
Sealed(pw, key) == [form |-> "sealed", pw |-> pw, key |-> key]
Files == {NoFile, Garbage} \cup {Sealed(pw, key) : pw \in Passwords, key \in Keys}

Steps == {"none", "write", "replace", "open", "overwrite", "unlink"}
NoOp == [step |-> "none", pw |-> None, key |-> None]
Ops == [step : Steps, pw : Passwords \cup {None}, key : Keys \cup {None}]
LockFree == vop.step = "none"

VaultTypeOK ==
  /\ vault \in Files /\ tmp \in Files
  /\ memory \in Keys \cup {None} /\ environ \in Imported
  /\ vop \in Ops
  /\ kills \in 0 .. MaxKills

VaultInit ==
  /\ vault = NoFile /\ tmp = NoFile /\ memory = None
  /\ environ \in Imported
  /\ vop = NoOp /\ kills = 0

(* resolve_api_key: the vault's key before the environment's, None if it   *)
(* raises.  It waits for the vault's lock.                                 *)
Resolved == IF memory # None THEN memory ELSE environ

Opens(pw) == vault.form = "sealed" /\ vault.pw = pw
-----------------------------------------------------------------------------
Unlock(pw) ==
  /\ LockFree
  /\ Opens(pw)
  /\ memory' = vault.key
  /\ UNCHANGED <<vault, tmp, environ, vop, kills>>

Lock ==
  /\ LockFree
  /\ memory' = None
  /\ UNCHANGED <<vault, tmp, environ, vop, kills>>

(* Mutant: a vault that is open is replaced without its password. *)
BeginSaveWhenOpen(pw, key) ==
  /\ LockFree
  /\ vault = NoFile \/ Opens(pw) \/ (memory # None /\ memory = vault.key)
  /\ vop' = [step |-> "write", pw |-> pw, key |-> key]
  /\ UNCHANGED <<vault, tmp, memory, environ, kills>>

(* save unlocks the vault it replaces before it writes anything. *)
BeginSave(pw, key) ==
  /\ LockFree
  /\ vault = NoFile \/ Opens(pw)
  /\ memory' = IF vault = NoFile THEN memory ELSE vault.key
  /\ vop' = [step |-> "write", pw |-> pw, key |-> key]
  /\ UNCHANGED <<vault, tmp, environ, kills>>

ImportEnvironment(pw) == environ # None /\ BeginSave(pw, environ)

WriteTmp ==
  /\ vop.step = "write"
  /\ tmp' = Sealed(vop.pw, vop.key)
  /\ vop' = [vop EXCEPT !.step = "replace"]
  /\ UNCHANGED <<vault, memory, environ, kills>>

(* The disk refuses the temporary file or its renaming. *)
WriteFails ==
  /\ vop.step \in {"write", "replace"}
  /\ tmp' = IF vop.step = "write" THEN Garbage ELSE tmp
  /\ vop' = NoOp
  /\ UNCHANGED <<vault, memory, environ, kills>>

ReplaceVault ==
  /\ vop.step = "replace"
  /\ vault' = tmp /\ tmp' = NoFile
  /\ vop' = [vop EXCEPT !.step = "open"]
  /\ UNCHANGED <<memory, environ, kills>>

(* Mutant: the new key is not opened after a save. *)
SetUnlockedOnce ==
  /\ vop.step = "open"
  /\ memory' = IF memory = None THEN vop.key ELSE memory
  /\ vop' = NoOp
  /\ UNCHANGED <<vault, tmp, environ, kills>>

SetUnlocked ==
  /\ vop.step = "open"
  /\ memory' = vop.key
  /\ vop' = NoOp
  /\ UNCHANGED <<vault, tmp, environ, kills>>

(* clear authenticates, locks, overwrites the file in place and removes it.*)
BeginClear(pw) ==
  /\ LockFree
  /\ Opens(pw)
  /\ memory' = None
  /\ vop' = [NoOp EXCEPT !.step = "overwrite"]
  /\ UNCHANGED <<vault, tmp, environ, kills>>

(* An OSError while overwriting is ignored. *)
Overwrite ==
  /\ vop.step = "overwrite"
  /\ vault' \in {vault, Garbage}
  /\ vop' = [vop EXCEPT !.step = "unlink"]
  /\ UNCHANGED <<tmp, memory, environ, kills>>

(* The file is removed, or delete_failed is raised. *)
Unlink ==
  /\ vop.step = "unlink"
  /\ vault' \in {NoFile, vault}
  /\ vop' = NoOp
  /\ UNCHANGED <<tmp, memory, environ, kills>>

Kill ==
  /\ kills < MaxKills
  /\ kills' = kills + 1
  /\ memory' = None /\ vop' = NoOp
  /\ environ' \in Imported
  /\ UNCHANGED <<vault, tmp>>

VaultStep ==
  \/ \E pw \in Passwords :
       \/ Unlock(pw) \/ ImportEnvironment(pw) \/ BeginClear(pw)
       \/ \E key \in Keys : BeginSave(pw, key)
  \/ Lock \/ WriteTmp \/ WriteFails \/ ReplaceVault \/ SetUnlocked
  \/ Overwrite \/ Unlink

VaultSpec == VaultInit /\ [][VaultStep \/ Kill]_vaultVars
-----------------------------------------------------------------------------
(* Between two operations the key in memory is the one that is sealed on   *)
(* disk: an open vault survives a restart and its password opens the same  *)
(* key, whatever save, clear or kill came before.                          *)
MemoryIsSealed == LockFree /\ memory # None => vault.form = "sealed" /\ memory = vault.key

(* Saves, clears, disk errors and kills, write by write, look like atomic  *)
(* operations that only the password's owner can do.  A file that a clear  *)
(* left overwritten counts as erased.                                      *)
Promise == INSTANCE CredentialPromise WITH
  stored <- IF vault.form = "sealed" THEN {[pw |-> vault.pw, key |-> vault.key]} ELSE {},
  open <- IF vop.step = "open" THEN vop.key ELSE memory

ImplementsCredentialPromise == Promise!Spec
=============================================================================
