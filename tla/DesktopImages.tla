--------------------------- MODULE DesktopImages ---------------------------
(***************************************************************************)
(* The desktop's frames (encrypted_images.py, image_generation.py and the  *)
(* image handlers of engine.py) beside the credential vault whose key      *)
(* encrypts them.  Handlers take no lock: a request reads the key before   *)
(* the provider's call and again to save and to show the frame, and lists, *)
(* inserts and marks frames in steps that other requests interleave with.  *)
(*                                                                         *)
(* Abstractions.  A frame is a row with the key it is encrypted under, its *)
(* creation time in seconds and the row it was edited from.  An answer of  *)
(* the provider takes a second at least.  Image bytes, prompts, their      *)
(* legacy migration and the cache of shown files, each replaced whole, are *)
(* left out, and so is latest_saved_image, which changes nothing else.     *)
(***************************************************************************)
EXTENDS CredentialVault, Sequences, FiniteSets

CONSTANTS
  Threads,    \* server threads
  MaxAnswers, \* bound on the provider's answers, and so on the clock
  ListLimit   \* rows that list() returns, 100 in the code

ASSUME ImagesAssumption == MaxAnswers \in Nat /\ ListLimit \in Nat \ {0}

VARIABLES
  rows,    \* the images table, in order of insertion
  marker,  \* origin-image.id: its row, or 0 while it is empty
  clock,   \* the time in seconds
  req,     \* the request that each thread serves
  named    \* history: the rows that were ever named the original

imageVars == <<rows, marker, clock, req, named>>
vars == <<vaultVars, imageVars>>

Row == [key : Keys, created : 0 .. MaxAnswers, src : 0 .. MaxAnswers]
NoMarker == [exists |-> FALSE, row |-> 0]
Idle == [step |-> "idle", kind |-> "none", src |-> 0, row |-> 0,
         key |-> None, created |-> 0]
Requests == [step : {"idle", "load", "call", "answer", "encrypt", "insert",
                     "show", "marker", "mark", "fill"},
             kind : {"none", "generate", "edit", "reset"},
             src : 0 .. MaxAnswers, row : 0 .. MaxAnswers,
             key : Keys \cup {None}, created : 0 .. MaxAnswers]

ImageTypeOK ==
  /\ VaultTypeOK
  /\ rows \in Seq(Row) /\ Len(rows) <= MaxAnswers
  /\ marker \in [exists : BOOLEAN, row : 0 .. MaxAnswers]
  /\ clock \in 0 .. MaxAnswers
  /\ req \in [Threads -> Requests]
  /\ named \subseteq 1 .. MaxAnswers

Init ==
  /\ VaultInit
  /\ rows = <<>> /\ marker = NoMarker /\ clock = 0
  /\ req = [t \in Threads |-> Idle] /\ named = {}

(* list(): the order of rows created in the same second is SQLite's. *)
Newer(i) == {j \in DOMAIN rows : rows[j].created > rows[i].created}
SameAge(i) == {j \in DOMAIN rows : rows[j].created = rows[i].created}
Listed == IF Len(rows) < ListLimit THEN Len(rows) ELSE ListLimit

(* Mutant: the listing starts with the oldest row. *)
FirstListedByAge(i) == \A j \in DOMAIN rows : rows[i].created <= rows[j].created

FirstListed(i) == Newer(i) = {}
LastListed(i) ==
  /\ Cardinality(Newer(i)) < Listed
  /\ Cardinality(Newer(i) \cup SameAge(i)) >= Listed

At(t, step) == req[t].step = step
Go(t, step) == req' = [req EXCEPT ![t] = [@ EXCEPT !.step = step]]
End(t) == req' = [req EXCEPT ![t] = Idle]
-----------------------------------------------------------------------------
Generate(t) ==
  /\ At(t, "idle")
  /\ req' = [req EXCEPT ![t] = [Idle EXCEPT !.step = "call", !.kind = "generate"]]
  /\ UNCHANGED <<vaultVars, rows, marker, clock, named>>

(* Without frames an edit generates one. *)
Edit(t) ==
  /\ At(t, "idle")
  /\ \E i \in DOMAIN rows :
       /\ FirstListed(i)
       /\ req' = [req EXCEPT ![t] =
            [Idle EXCEPT !.step = "load", !.kind = "edit", !.src = i]]
  /\ UNCHANGED <<vaultVars, rows, marker, clock, named>>

(* reset_desktop_image: without a marker the last frame listed becomes the *)
(* original.                                                               *)
Reset(t) ==
  /\ At(t, "idle")
  /\ ~marker.exists
  /\ \E i \in DOMAIN rows :
       /\ LastListed(i)
       /\ req' = [req EXCEPT ![t] =
            [Idle EXCEPT !.step = "mark", !.kind = "reset", !.row = i]]
  /\ UNCHANGED <<vaultVars, rows, marker, clock, named>>

(* materialize: a frame is shown to the key that encrypted it. *)
Load(t) ==
  /\ At(t, "load") /\ LockFree
  /\ IF Resolved = rows[req[t].src].key THEN Go(t, "call") ELSE End(t)
  /\ UNCHANGED <<vaultVars, rows, marker, clock, named>>

Call(t) ==
  /\ At(t, "call") /\ LockFree
  /\ IF Resolved # None THEN Go(t, "answer") ELSE End(t)
  /\ UNCHANGED <<vaultVars, rows, marker, clock, named>>

Answer(t) ==
  /\ At(t, "answer")
  /\ \/ /\ clock < MaxAnswers
        /\ clock' = clock + 1
        /\ Go(t, "encrypt")
     \/ End(t) /\ UNCHANGED clock
  /\ UNCHANGED <<vaultVars, rows, marker, named>>

(* Mutant: save takes whatever key there is. *)
EncryptUnchecked(t) ==
  /\ At(t, "encrypt") /\ LockFree
  /\ req' = [req EXCEPT ![t] =
       [@ EXCEPT !.step = "insert", !.key = Resolved, !.created = clock]]
  /\ UNCHANGED <<vaultVars, rows, marker, clock, named>>

(* save reads the key again: it may be another one, or none. *)
Encrypt(t) ==
  /\ At(t, "encrypt") /\ LockFree
  /\ IF Resolved # None
       THEN req' = [req EXCEPT ![t] =
              [@ EXCEPT !.step = "insert", !.key = Resolved, !.created = clock]]
       ELSE End(t)
  /\ UNCHANGED <<vaultVars, rows, marker, clock, named>>

Insert(t) ==
  /\ At(t, "insert")
  /\ rows' = Append(rows, [key |-> req[t].key, created |-> req[t].created,
                           src |-> req[t].src])
  /\ req' = [req EXCEPT ![t] = [@ EXCEPT !.step = "show", !.row = Len(rows')]]
  /\ UNCHANGED <<vaultVars, marker, clock, named>>

Show(t) ==
  /\ At(t, "show") /\ LockFree
  /\ IF Resolved = rows[req[t].row].key /\ req[t].kind = "generate"
       THEN Go(t, "marker") ELSE End(t)
  /\ UNCHANGED <<vaultVars, rows, marker, clock, named>>

(* Mutant: every generated frame is named the original. *)
MarkAnyway(t) ==
  /\ At(t, "marker")
  /\ Go(t, "mark")
  /\ UNCHANGED <<vaultVars, rows, marker, clock, named>>

(* generate_boot_image names its frame the original if none is named. *)
ReadMarker(t) ==
  /\ At(t, "marker")
  /\ IF marker.exists THEN End(t) ELSE Go(t, "mark")
  /\ UNCHANGED <<vaultVars, rows, marker, clock, named>>

(* write_text empties the file and then writes it. *)
OpenMarker(t) ==
  /\ At(t, "mark")
  /\ marker' = [exists |-> TRUE, row |-> 0]
  /\ Go(t, "fill")
  /\ UNCHANGED <<vaultVars, rows, clock, named>>

FillMarker(t) ==
  /\ At(t, "fill")
  /\ marker' = [exists |-> TRUE, row |-> req[t].row]
  /\ named' = named \cup {req[t].row}
  /\ End(t)
  /\ UNCHANGED <<vaultVars, rows, clock>>

KillCore ==
  /\ Kill
  /\ req' = [t \in Threads |-> Idle]
  /\ UNCHANGED <<rows, marker, clock, named>>

Next ==
  \/ VaultStep /\ UNCHANGED imageVars
  \/ \E t \in Threads :
       \/ Generate(t) \/ Edit(t) \/ Reset(t)
       \/ Load(t) \/ Call(t) \/ Answer(t) \/ Encrypt(t) \/ Insert(t)
       \/ Show(t) \/ ReadMarker(t) \/ OpenMarker(t) \/ FillMarker(t)
  \/ KillCore

Spec == Init /\ [][Next]_vars
-----------------------------------------------------------------------------
(* Correctness. *)

(* An edit continues the newest frame: the history of frames is a line.    *)
(* Two edits at a time fork it, so it is checked for one thread.           *)
EditsContinueNewest ==
  \A i \in DOMAIN rows : rows[i].src # 0 => rows[i].src = i - 1

(* README.md: "The original desktop can be restored with RESET DESKTOP."   *)
(* No second frame is ever named the original.  Two requests that both     *)
(* find no marker can do it, so it is checked for one thread, with kills.  *)
OneOriginal == Cardinality(named) <= 1
=============================================================================
