----------------------- MODULE CredentialVaultProofs -----------------------
(***************************************************************************)
(* Proofs about CredentialVault for every set of keys and passwords and    *)
(* any number of kills: the key in memory is the one sealed on disk, and   *)
(* the write-by-write vault implements CredentialPromise.                  *)
(***************************************************************************)
EXTENDS CredentialVault, TLAPS

(* What an operation that holds the lock knows of the files. *)
Replaceable == vault = NoFile \/ Opens(vop.pw)

OpSound ==
  /\ vop.step \in {"write", "replace", "open"} =>
       vop.pw \in Passwords /\ vop.key \in Keys
  /\ vop.step \in {"write", "replace"} =>
       /\ Replaceable
       /\ memory # None => vault.form = "sealed" /\ memory = vault.key
  /\ vop.step = "replace" => tmp = Sealed(vop.pw, vop.key)
  /\ vop.step = "open" => vault = Sealed(vop.pw, vop.key)
  /\ vop.step \in {"overwrite", "unlink"} => memory = None

VaultInv == VaultTypeOK /\ MemoryIsSealed /\ OpSound

LEMMA InitEstablishes == VaultInit => VaultInv
<1> SUFFICES ASSUME VaultInit PROVE VaultInv
    OBVIOUS
<1> USE DEF VaultInit
<1>1. VaultTypeOK
    BY NoneAssumption, KillsAssumption
    DEF VaultTypeOK, NoOp, Ops, Steps, Files
<1>2. MemoryIsSealed /\ OpSound
    BY DEF MemoryIsSealed, OpSound, NoOp
<1> QED BY <1>1, <1>2 DEF VaultInv

(* A file is absent, garbage or sealed with a password and a key. *)
LEMMA SealedFiles ==
  ASSUME NEW f \in Files, f.form = "sealed"
  PROVE  f.pw \in Passwords /\ f.key \in Keys /\ f = Sealed(f.pw, f.key)
BY DEF Files, NoFile, Garbage, Sealed

(* Sealing a password and a key makes a file of them. *)
LEMMA SealedIsFile ==
  ASSUME NEW pw \in Passwords, NEW key \in Keys
  PROVE  /\ Sealed(pw, key) \in Files
         /\ Sealed(pw, key).form = "sealed"
         /\ Sealed(pw, key).pw = pw /\ Sealed(pw, key).key = key
BY DEF Files, Sealed

LEMMA TypeStep == VaultInv /\ [VaultStep \/ Kill]_vaultVars => VaultTypeOK'
<1> SUFFICES ASSUME VaultInv, [VaultStep \/ Kill]_vaultVars PROVE VaultTypeOK'
    OBVIOUS
<1> USE DEF VaultInv, VaultTypeOK
<1>f. NoFile \in Files /\ Garbage \in Files
    BY DEF Files
<1>o. NoOp \in Ops
    BY DEF NoOp, Ops, Steps
<1>1. ASSUME NEW pw \in Passwords, Unlock(pw) PROVE VaultTypeOK'
    BY <1>1, SealedFiles DEF Unlock, Opens
<1>2. ASSUME NEW pw \in Passwords, NEW key \in Keys, BeginSave(pw, key)
      PROVE VaultTypeOK'
  <2>1. vop' \in Ops
      BY <1>2 DEF BeginSave, Ops, Steps
  <2>2. memory' \in Keys \cup {None}
      BY <1>2, SealedFiles DEF BeginSave, Opens
  <2> QED BY <1>2, <2>1, <2>2 DEF BeginSave
<1>3. ASSUME NEW pw \in Passwords, ImportEnvironment(pw) PROVE VaultTypeOK'
    BY <1>3, <1>2, ImportedAssumption DEF ImportEnvironment
<1>4. ASSUME NEW pw \in Passwords, BeginClear(pw) PROVE VaultTypeOK'
    BY <1>4 DEF BeginClear, NoOp, Ops, Steps
<1>5. CASE Lock
    BY <1>5 DEF Lock
<1>6. CASE WriteTmp
    BY <1>6, SealedIsFile DEF WriteTmp, OpSound, Ops, Steps
<1>7. CASE WriteFails
    BY <1>7, <1>f, <1>o DEF WriteFails
<1>8. CASE ReplaceVault
    BY <1>8, <1>f DEF ReplaceVault, Ops, Steps
<1>9. CASE SetUnlocked
    BY <1>9, <1>o DEF SetUnlocked, OpSound
<1>10. CASE Overwrite
    BY <1>10, <1>f DEF Overwrite, Ops, Steps
<1>11. CASE Unlink
    BY <1>11, <1>f, <1>o DEF Unlink
<1>12. CASE Kill
    BY <1>12, <1>o, KillsAssumption DEF Kill
<1>13. CASE UNCHANGED vaultVars
    BY <1>13 DEF vaultVars
<1> QED
    BY <1>1, <1>2, <1>3, <1>4, <1>5, <1>6, <1>7, <1>8, <1>9, <1>10, <1>11,
       <1>12, <1>13 DEF VaultStep

LEMMA SoundStep ==
  VaultInv /\ [VaultStep \/ Kill]_vaultVars => MemoryIsSealed' /\ OpSound'
<1> SUFFICES ASSUME VaultInv, [VaultStep \/ Kill]_vaultVars
             PROVE  MemoryIsSealed' /\ OpSound'
    OBVIOUS
<1> USE DEF VaultInv, MemoryIsSealed, OpSound, LockFree, Replaceable, Opens, NoOp
<1>1. ASSUME NEW pw \in Passwords, Unlock(pw) PROVE MemoryIsSealed' /\ OpSound'
    BY <1>1 DEF Unlock
<1>2. ASSUME NEW pw \in Passwords, NEW key \in Keys, BeginSave(pw, key)
      PROVE MemoryIsSealed' /\ OpSound'
    BY <1>2 DEF BeginSave, NoFile
<1>3. ASSUME NEW pw \in Passwords, ImportEnvironment(pw)
      PROVE MemoryIsSealed' /\ OpSound'
    BY <1>3, <1>2, ImportedAssumption DEF ImportEnvironment, VaultTypeOK
<1>4. ASSUME NEW pw \in Passwords, BeginClear(pw)
      PROVE MemoryIsSealed' /\ OpSound'
    BY <1>4 DEF BeginClear
<1>5. CASE Lock
    BY <1>5 DEF Lock
<1>6. CASE WriteTmp
    BY <1>6 DEF WriteTmp, VaultTypeOK, Ops
<1>7. CASE WriteFails
    BY <1>7 DEF WriteFails
<1>8. CASE ReplaceVault
    BY <1>8 DEF ReplaceVault, VaultTypeOK, Ops
<1>9. CASE SetUnlocked
    BY <1>9, SealedIsFile DEF SetUnlocked
<1>10. CASE Overwrite
    BY <1>10 DEF Overwrite, VaultTypeOK, Ops
<1>11. CASE Unlink
    BY <1>11 DEF Unlink
<1>12. CASE Kill
    BY <1>12 DEF Kill
<1>13. CASE UNCHANGED vaultVars
    BY <1>13 DEF vaultVars
<1> QED
    BY <1>1, <1>2, <1>3, <1>4, <1>5, <1>6, <1>7, <1>8, <1>9, <1>10, <1>11,
       <1>12, <1>13 DEF VaultStep

(* The inductive invariant holds in every reachable state. *)
THEOREM VaultInvariance == VaultSpec => []VaultInv
<1>1. VaultInv /\ [VaultStep \/ Kill]_vaultVars => VaultInv'
    BY TypeStep, SoundStep DEF VaultInv
<1> QED BY InitEstablishes, <1>1, PTL DEF VaultSpec

(* Between two operations the key in memory is the one sealed on disk, for *)
(* any keys, passwords, disk errors and kills (credentials.py, save,       *)
(* unlock, lock and clear).                                                *)
THEOREM KeyInMemoryIsSealed == VaultSpec => []MemoryIsSealed
<1>1. VaultInv => MemoryIsSealed
    BY DEF VaultInv
<1> QED BY VaultInvariance, <1>1, PTL

(* Every step of the vault is an atomic operation of CredentialPromise or  *)
(* a stutter.                                                              *)
LEMMA StepsKeepPromise ==
  VaultInv /\ VaultInv' /\ [VaultStep \/ Kill]_vaultVars
    => [Promise!Next]_(Promise!vars)
<1> SUFFICES ASSUME VaultInv, VaultInv', [VaultStep \/ Kill]_vaultVars
             PROVE  [Promise!Next]_(Promise!vars)
    OBVIOUS
<1> USE DEF VaultInv, LockFree, Opens, NoOp, Promise!vars, Promise!Next
<1>1. ASSUME NEW pw \in Passwords, Unlock(pw) PROVE Promise!Open
    BY <1>1 DEF Unlock, Promise!Open
<1>2. ASSUME NEW pw \in Passwords, NEW key \in Keys, BeginSave(pw, key)
      PROVE [Promise!Next]_(Promise!vars)
  <2>1. CASE vault = NoFile
      BY <1>2, <2>1 DEF BeginSave
  <2>2. CASE vault # NoFile
    <3>1. Promise!Open
        BY <1>2, <2>2 DEF BeginSave, Promise!Open
    <3> QED BY <3>1
  <2> QED BY <2>1, <2>2
<1>3. ASSUME NEW pw \in Passwords, ImportEnvironment(pw)
      PROVE [Promise!Next]_(Promise!vars)
    BY <1>3, <1>2, ImportedAssumption DEF ImportEnvironment, VaultTypeOK
<1>4. ASSUME NEW pw \in Passwords, BeginClear(pw) PROVE Promise!Close
    BY <1>4 DEF BeginClear, Promise!Close
<1>5. CASE Lock
    BY <1>5 DEF Lock, Promise!Close
<1>6. CASE WriteTmp
    BY <1>6 DEF WriteTmp
<1>7. CASE WriteFails
    BY <1>7 DEF WriteFails
<1>8. CASE ReplaceVault
  <2>1. vop.pw \in Passwords /\ vop.key \in Keys /\ tmp = Sealed(vop.pw, vop.key)
      BY <1>8 DEF ReplaceVault, OpSound
  <2>2. vault = NoFile \/ vault.pw = vop.pw
      BY <1>8 DEF ReplaceVault, OpSound, Replaceable
  <2>3. Promise!Store(vop.pw, vop.key)
      BY <1>8, <2>1, <2>2
      DEF ReplaceVault, Promise!Store, Promise!Credential, Sealed, NoFile,
          VaultTypeOK, Ops
  <2> QED BY <2>1, <2>3
<1>9. CASE SetUnlocked
    BY <1>9 DEF SetUnlocked
<1>10. CASE Overwrite
  <2>1. memory = None /\ Garbage.form # "sealed"
      BY <1>10 DEF Overwrite, OpSound, Garbage, NoFile
  <2> QED BY <1>10, <2>1 DEF Overwrite, Promise!Erase, VaultTypeOK, Ops
<1>11. CASE Unlink
  <2>1. memory = None /\ NoFile.form # "sealed"
      BY <1>11 DEF Unlink, OpSound, NoFile
  <2> QED BY <1>11, <2>1 DEF Unlink, Promise!Erase
<1>12. CASE Kill
    BY <1>12 DEF Kill, Promise!Close
<1>13. CASE UNCHANGED vaultVars
    BY <1>13 DEF vaultVars
<1> QED
    BY <1>1, <1>2, <1>3, <1>4, <1>5, <1>6, <1>7, <1>8, <1>9, <1>10, <1>11,
       <1>12, <1>13 DEF VaultStep

(* The vault implements CredentialPromise: whatever fails or is killed, a  *)
(* credential is replaced or opened at once, by its password, or is erased *)
(* (credentials.py).                                                       *)
THEOREM VaultKeepsPromise == VaultSpec => ImplementsCredentialPromise
<1>1. VaultInit => Promise!Init
    BY DEF VaultInit, Promise!Init, NoFile, NoOp
<1> QED
    BY VaultInvariance, <1>1, StepsKeepPromise, PTL
    DEF VaultSpec, ImplementsCredentialPromise, Promise!Spec
=============================================================================
