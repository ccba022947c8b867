------------------------ MODULE DesktopImagesProofs ------------------------
(***************************************************************************)
(* Proofs about DesktopImages for every set of keys, passwords and server  *)
(* threads, any number of answers and kills and any limit of list():       *)
(* types, and what one image request at a time keeps.                      *)
(***************************************************************************)
EXTENDS DesktopImages, CredentialVaultProofs, FiniteSetTheorems,
        SequenceTheorems

(* The requests that have an answer and have not inserted it: each has     *)
(* taken a second of the clock for the row it will insert.                 *)
Answered == {t \in Threads : req[t].step \in {"encrypt", "insert"}}
AnswersPaid ==
  /\ IsFiniteSet(Answered)
  /\ Len(rows) + Cardinality(Answered) <= clock

(* A frame is inserted under a key, and what is shown or named is a row. *)
RequestChosen ==
  \A t \in Threads :
    /\ At(t, "insert") => req[t].key \in Keys
    /\ req[t].step \in {"show", "marker", "mark", "fill"} => req[t].row # 0

ImageInv == VaultInv /\ ImageTypeOK /\ AnswersPaid /\ RequestChosen

(* One request at a time. *)
Alone == \A s, t \in Threads : s = t

(* Frames get older towards the front of the table, and a request that has *)
(* read the newest one still sees it when it inserts its own.              *)
RowsAge ==
  /\ \A i, j \in DOMAIN rows : i < j => rows[i].created < rows[j].created
  /\ \A i \in DOMAIN rows : rows[i].created <= clock

RequestInLine(r) ==
  /\ r.step = "encrypt" => \A i \in DOMAIN rows : rows[i].created < clock
  /\ r.step = "insert" =>
       /\ r.created <= clock
       /\ \A i \in DOMAIN rows : rows[i].created < r.created
  /\ r.step \in {"load", "call", "answer", "encrypt", "insert"} =>
       r.src \in {0, Len(rows)}

LineInv ==
  /\ RowsAge
  /\ \A t \in Threads : RequestInLine(req[t])
  /\ EditsContinueNewest

(* A request that is going to name a frame the original is the first one.  *)
MarkInv ==
  /\ ~marker.exists => named = {}
  /\ \A t \in Threads : /\ At(t, "mark") => ~marker.exists
                        /\ At(t, "fill") => named = {}
  /\ \A i, j \in named : i = j
-----------------------------------------------------------------------------
(* Types. *)

(* What the fields of a request hold, and that it may start and go on.     *)
LEMMA RequestFields ==
  ASSUME NEW r \in Requests
  PROVE  /\ r.src \in 0 .. MaxAnswers /\ r.row \in 0 .. MaxAnswers
         /\ r.created \in 0 .. MaxAnswers /\ r.key \in Keys \cup {None}
BY DEF Requests

LEMMA RequestGoes ==
  ASSUME NEW r \in Requests,
         NEW s \in {"idle", "load", "call", "answer", "encrypt", "insert",
                    "show", "marker", "mark", "fill"}
  PROVE  [r EXCEPT !.step = s] \in Requests
BY DEF Requests

LEMMA RequestStarts ==
  ASSUME NEW r \in Requests, NEW i \in 0 .. MaxAnswers
  PROVE  /\ [r EXCEPT !.step = "call", !.kind = "generate"] \in Requests
         /\ [r EXCEPT !.step = "load", !.kind = "edit", !.src = i] \in Requests
         /\ [r EXCEPT !.step = "mark", !.kind = "reset", !.row = i] \in Requests
BY DEF Requests

LEMMA IdleIsRequest == Idle \in Requests
BY ImagesAssumption DEF Idle, Requests

(* Whatever a step does to the frames, the vault takes a step of its own. *)
LEMMA VaultMoves == [Next]_vars => [VaultStep \/ Kill]_vaultVars
BY DEF Next, vars, Generate, Edit, Reset, Load, Call, Answer, Encrypt, Insert,
       Show, ReadMarker, OpenMarker, FillMarker, KillCore

LEMMA VaultInvStep == VaultInv /\ [Next]_vars => VaultInv'
BY VaultMoves, TypeStep, SoundStep DEF VaultInv

LEMMA ImagesStart == Init => ImageInv
<1> SUFFICES ASSUME Init PROVE ImageInv
    OBVIOUS
<1> USE DEF Init
<1>1. VaultInv
    BY InitEstablishes
<1>2. ImageTypeOK
    BY <1>1, IdleIsRequest, ImagesAssumption
    DEF ImageTypeOK, VaultInv, NoMarker
<1>3. Answered = {}
    BY DEF Answered, Idle
<1>4. AnswersPaid
    BY <1>3, FS_EmptySet DEF AnswersPaid
<1>5. RequestChosen
    BY DEF RequestChosen, At, Idle
<1> QED BY <1>1, <1>2, <1>4, <1>5 DEF ImageInv

(* The key that resolve_api_key returns is one of the program's. *)
LEMMA ResolvedIsKey == VaultTypeOK => Resolved \in Keys \cup {None}
BY ImportedAssumption DEF VaultTypeOK, Resolved

(* A request that has its answer still has a second of the clock to insert *)
(* its frame in.                                                           *)
LEMMA RoomToInsert ==
  ASSUME ImageInv, NEW t \in Threads, At(t, "insert")
  PROVE  Len(rows) + 1 <= clock
<1>1. t \in Answered
    BY DEF Answered, At
<1>2. Cardinality(Answered) # 0
    BY <1>1, FS_EmptySet DEF ImageInv, AnswersPaid
<1>3. Cardinality(Answered) \in Nat
    BY FS_CardinalityType DEF ImageInv, AnswersPaid
<1>4. Len(rows) \in Nat /\ clock \in Nat
    BY DEF ImageInv, ImageTypeOK
<1> QED BY <1>2, <1>3, <1>4 DEF ImageInv, AnswersPaid

LEMMA ImageTypeStep == ImageInv /\ [Next]_vars => ImageTypeOK'
<1> SUFFICES ASSUME ImageInv, [Next]_vars PROVE ImageTypeOK'
    OBVIOUS
<1>v. VaultTypeOK'
    BY VaultMoves, TypeStep DEF ImageInv
<1>t. ImageTypeOK
    BY DEF ImageInv
<1>r. ASSUME NEW t \in Threads PROVE req[t] \in Requests
    BY <1>t DEF ImageTypeOK
<1>k. Resolved \in Keys \cup {None}
    BY <1>t, ResolvedIsKey DEF ImageTypeOK
<1> DEFINE Rest == rows' = rows /\ marker' = marker /\ clock' = clock /\ named' = named
<1>g. ASSUME NEW t \in Threads, NEW r \in Requests,
             req' = [req EXCEPT ![t] = r], Rest
      PROVE  ImageTypeOK'
    BY <1>v, <1>t, <1>g DEF ImageTypeOK
<1>1. ASSUME NEW t \in Threads, Generate(t) PROVE ImageTypeOK'
  <2>0. 0 \in 0 .. MaxAnswers
      BY ImagesAssumption
  <2>1. [Idle EXCEPT !.step = "call", !.kind = "generate"] \in Requests
      BY <2>0, IdleIsRequest, RequestStarts
  <2> QED BY <1>1, <1>g, <2>1 DEF Generate
<1>2. ASSUME NEW t \in Threads, Edit(t) PROVE ImageTypeOK'
  <2>1. PICK i \in DOMAIN rows :
          req' = [req EXCEPT ![t] =
            [Idle EXCEPT !.step = "load", !.kind = "edit", !.src = i]]
      BY <1>2 DEF Edit
  <2>2. i \in 0 .. MaxAnswers
      BY <1>t, ImagesAssumption DEF ImageTypeOK
  <2>3. [Idle EXCEPT !.step = "load", !.kind = "edit", !.src = i] \in Requests
      BY <2>2, IdleIsRequest, RequestStarts
  <2> QED BY <1>2, <1>g, <2>1, <2>3 DEF Edit
<1>3. ASSUME NEW t \in Threads, Reset(t) PROVE ImageTypeOK'
  <2>1. PICK i \in DOMAIN rows :
          req' = [req EXCEPT ![t] =
            [Idle EXCEPT !.step = "mark", !.kind = "reset", !.row = i]]
      BY <1>3 DEF Reset
  <2>2. i \in 0 .. MaxAnswers
      BY <1>t, ImagesAssumption DEF ImageTypeOK
  <2>3. [Idle EXCEPT !.step = "mark", !.kind = "reset", !.row = i] \in Requests
      BY <2>2, IdleIsRequest, RequestStarts
  <2> QED BY <1>3, <1>g, <2>1, <2>3 DEF Reset
<1>m. ASSUME NEW t \in Threads, Rest,
             NEW s \in {"call", "answer", "marker", "mark"},
             Go(t, s) \/ End(t)
      PROVE  ImageTypeOK'
  <2>1. [req[t] EXCEPT !.step = s] \in Requests
      BY <1>r, RequestGoes
  <2> QED BY <1>m, <1>g, <2>1, IdleIsRequest DEF Go, End
<1>4. ASSUME NEW t \in Threads, Load(t) PROVE ImageTypeOK'
    BY <1>4, <1>m DEF Load
<1>5. ASSUME NEW t \in Threads, Call(t) PROVE ImageTypeOK'
    BY <1>5, <1>m DEF Call
<1>6. ASSUME NEW t \in Threads, Answer(t) PROVE ImageTypeOK'
  <2>1. [req[t] EXCEPT !.step = "encrypt"] \in Requests
      BY <1>r, RequestGoes
  <2>2. req' \in [Threads -> Requests]
      BY <1>6, <1>t, <2>1, IdleIsRequest DEF Answer, Go, End, ImageTypeOK
  <2>3. clock' \in 0 .. MaxAnswers
      BY <1>6, <1>t, ImagesAssumption DEF Answer, ImageTypeOK
  <2> QED BY <1>6, <1>v, <1>t, <2>2, <2>3 DEF Answer, ImageTypeOK
<1>7. ASSUME NEW t \in Threads, Encrypt(t) PROVE ImageTypeOK'
  <2>1. [req[t] EXCEPT !.step = "insert", !.key = Resolved, !.created = clock]
          \in Requests
      BY <1>r, <1>k, <1>t DEF Requests, ImageTypeOK
  <2> QED BY <1>7, <1>g, <2>1, IdleIsRequest DEF Encrypt, End
<1>8. ASSUME NEW t \in Threads, Insert(t) PROVE ImageTypeOK'
  <2>1. req[t].key \in Keys
      BY <1>8 DEF Insert, ImageInv, RequestChosen
  <2>2. [key |-> req[t].key, created |-> req[t].created, src |-> req[t].src] \in Row
      BY <1>r, <2>1, RequestFields DEF Row
  <2>3. rows' \in Seq(Row) /\ Len(rows') = Len(rows) + 1
      BY <1>8, <1>t, <2>2 DEF Insert, ImageTypeOK
  <2>4. Len(rows') <= MaxAnswers
      BY <1>8, <1>t, <2>3, RoomToInsert, ImagesAssumption DEF Insert, ImageTypeOK
  <2>5. Len(rows') \in 0 .. MaxAnswers
      BY <2>3, <2>4, <1>t DEF ImageTypeOK
  <2>6. [req[t] EXCEPT !.step = "show", !.row = Len(rows')] \in Requests
      BY <1>r, <2>5 DEF Requests
  <2>7. req' \in [Threads -> Requests]
      BY <1>8, <1>t, <2>6 DEF Insert, ImageTypeOK
  <2> QED BY <1>8, <1>v, <1>t, <2>3, <2>4, <2>7 DEF Insert, ImageTypeOK
<1>9. ASSUME NEW t \in Threads, Show(t) PROVE ImageTypeOK'
    BY <1>9, <1>m DEF Show
<1>10. ASSUME NEW t \in Threads, ReadMarker(t) PROVE ImageTypeOK'
    BY <1>10, <1>m DEF ReadMarker
<1>11. ASSUME NEW t \in Threads, OpenMarker(t) PROVE ImageTypeOK'
  <2>1. [req[t] EXCEPT !.step = "fill"] \in Requests
      BY <1>r, RequestGoes
  <2>2. req' \in [Threads -> Requests]
      BY <1>11, <1>t, <2>1 DEF OpenMarker, Go, ImageTypeOK
  <2>3. marker' \in [exists : BOOLEAN, row : 0 .. MaxAnswers]
      BY <1>11, ImagesAssumption DEF OpenMarker
  <2> QED BY <1>11, <1>v, <1>t, <2>2, <2>3 DEF OpenMarker, ImageTypeOK
<1>12. ASSUME NEW t \in Threads, FillMarker(t) PROVE ImageTypeOK'
  <2>1. req[t].row \in 1 .. MaxAnswers
    <3>1. req[t].row # 0
        BY <1>12 DEF FillMarker, At, ImageInv, RequestChosen
    <3> QED BY <1>r, <3>1, RequestFields
  <2>2. req' \in [Threads -> Requests]
      BY <1>12, <1>t, IdleIsRequest DEF FillMarker, End, ImageTypeOK
  <2>3. marker' \in [exists : BOOLEAN, row : 0 .. MaxAnswers]
      BY <1>12, <2>1 DEF FillMarker
  <2>4. named' \subseteq 1 .. MaxAnswers
      BY <1>12, <1>t, <2>1 DEF FillMarker, ImageTypeOK
  <2> QED BY <1>12, <1>v, <1>t, <2>2, <2>3, <2>4 DEF FillMarker, ImageTypeOK
<1>13. CASE KillCore
    BY <1>13, <1>v, <1>t, IdleIsRequest DEF KillCore, ImageTypeOK
<1>14. CASE UNCHANGED imageVars
    BY <1>14, <1>v, <1>t DEF imageVars, ImageTypeOK
<1> QED
    BY <1>1, <1>2, <1>3, <1>4, <1>5, <1>6, <1>7, <1>8, <1>9, <1>10, <1>11,
       <1>12, <1>13, <1>14 DEF Next, vars

(* Each frame, and each answer still to be inserted, took a second. *)
LEMMA AnswersPaidStep == ImageInv /\ [Next]_vars => AnswersPaid'
<1> SUFFICES ASSUME ImageInv, [Next]_vars PROVE AnswersPaid'
    OBVIOUS
<1>t. req \in [Threads -> Requests] /\ Len(rows) \in Nat /\ clock \in Nat
    BY DEF ImageInv, ImageTypeOK
<1>f. IsFiniteSet(Answered) /\ Len(rows) + Cardinality(Answered) <= clock
    BY DEF ImageInv, AnswersPaid
<1>n. Cardinality(Answered) \in Nat
    BY <1>f, FS_CardinalityType
<1>r. ASSUME NEW t \in Threads
      PROVE /\ IsFiniteSet(Answered \ {t})
            /\ Cardinality(Answered \ {t}) \in Nat
            /\ Cardinality(Answered \ {t}) <= Cardinality(Answered)
            /\ t \in Answered => Cardinality(Answered \ {t}) = Cardinality(Answered) - 1
  <2>1. /\ IsFiniteSet(Answered \ {t})
        /\ Cardinality(Answered \ {t})
             = IF t \in Answered THEN Cardinality(Answered) - 1
                                ELSE Cardinality(Answered)
      BY <1>f, FS_RemoveElement
  <2>2. Cardinality(Answered \ {t}) \in Nat
      BY <2>1, FS_CardinalityType
  <2> QED BY <2>1, <2>2, <1>n
<1>a. ASSUME NEW t \in Threads
      PROVE /\ IsFiniteSet(Answered \cup {t})
            /\ Cardinality(Answered \cup {t}) \in Nat
            /\ Cardinality(Answered \cup {t}) <= Cardinality(Answered) + 1
    BY <1>f, <1>n, FS_AddElement, FS_CardinalityType
<1>e. ASSUME Answered' = Answered, rows' = rows, clock' = clock
      PROVE  AnswersPaid'
    BY <1>e, <1>f DEF AnswersPaid
<1>d. ASSUME NEW t \in Threads, Answered' = Answered \ {t}, rows' = rows, clock' = clock
      PROVE  AnswersPaid'
  <2>1. /\ IsFiniteSet(Answered')
        /\ Cardinality(Answered') \in Nat
        /\ Cardinality(Answered') <= Cardinality(Answered)
      BY <1>d, <1>r
  <2>2. Len(rows') + Cardinality(Answered') <= clock'
      BY <1>d, <2>1, <1>f, <1>n, <1>t
  <2> QED BY <2>1, <2>2 DEF AnswersPaid
<1>i. Idle.step = "idle"
    BY DEF Idle
<1>o. ASSUME NEW t \in Threads, ~At(t, "encrypt"), ~At(t, "insert"),
             NEW r, req' = [req EXCEPT ![t] = r],
             r.step \notin {"encrypt", "insert"}
      PROVE  Answered' = Answered
    BY <1>o, <1>t DEF Answered, At
<1>x. ASSUME NEW t \in Threads,
             NEW r, req' = [req EXCEPT ![t] = r],
             r.step \notin {"encrypt", "insert"}
      PROVE  Answered' = Answered \ {t}
    BY <1>x, <1>t DEF Answered
<1>s. ASSUME NEW t \in Threads, NEW s
      PROVE  [req[t] EXCEPT !.step = s].step = s
    BY <1>t DEF Requests
<1>1. ASSUME NEW t \in Threads, Generate(t) PROVE AnswersPaid'
    BY <1>1, <1>o, <1>e DEF Generate, At, Idle
<1>2. ASSUME NEW t \in Threads, Edit(t) PROVE AnswersPaid'
    BY <1>2, <1>o, <1>e DEF Edit, At, Idle
<1>3. ASSUME NEW t \in Threads, Reset(t) PROVE AnswersPaid'
    BY <1>3, <1>o, <1>e DEF Reset, At, Idle
<1>m. ASSUME NEW t \in Threads, ~At(t, "encrypt"), ~At(t, "insert"),
             NEW s \in {"call", "answer", "marker", "mark", "fill"},
             Go(t, s) \/ End(t), rows' = rows, clock' = clock
      PROVE  AnswersPaid'
  <2>1. CASE Go(t, s)
      BY <1>m, <2>1, <1>o, <1>s, <1>e DEF Go
  <2>2. CASE End(t)
      BY <1>m, <2>2, <1>o, <1>i, <1>e DEF End
  <2> QED BY <1>m, <2>1, <2>2
<1>4. ASSUME NEW t \in Threads, Load(t) PROVE AnswersPaid'
    BY <1>4, <1>m DEF Load, At
<1>5. ASSUME NEW t \in Threads, Call(t) PROVE AnswersPaid'
    BY <1>5, <1>m DEF Call, At
<1>6. ASSUME NEW t \in Threads, Answer(t) PROVE AnswersPaid'
  <2>1. CASE clock' = clock + 1 /\ Go(t, "encrypt")
    <3>1. Answered' = Answered \cup {t}
        BY <2>1, <1>t DEF Answered, Go, Requests
    <3>2. /\ IsFiniteSet(Answered')
          /\ Cardinality(Answered') \in Nat
          /\ Cardinality(Answered') <= Cardinality(Answered) + 1
        BY <3>1, <1>a
    <3>3. rows' = rows
        BY <1>6 DEF Answer
    <3>4. Len(rows') + Cardinality(Answered') <= clock'
        BY <2>1, <3>2, <3>3, <1>f, <1>n, <1>t
    <3> QED BY <3>2, <3>4 DEF AnswersPaid
  <2>2. CASE End(t) /\ clock' = clock
    <3>1. ~At(t, "encrypt") /\ ~At(t, "insert")
        BY <1>6 DEF Answer, At
    <3> QED BY <1>6, <2>2, <3>1, <1>m DEF Answer
  <2> QED BY <1>6, <2>1, <2>2 DEF Answer
<1>7. ASSUME NEW t \in Threads, Encrypt(t) PROVE AnswersPaid'
  <2>1. CASE End(t)
      BY <1>7, <2>1, <1>x, <1>i, <1>d DEF Encrypt, End
  <2>2. CASE req' = [req EXCEPT ![t] =
          [@ EXCEPT !.step = "insert", !.key = Resolved, !.created = clock]]
    <3>1. Answered' = Answered
        BY <1>7, <2>2, <1>t DEF Encrypt, At, Answered, Requests
    <3> QED BY <1>7, <3>1, <1>e DEF Encrypt
  <2> QED BY <1>7, <2>1, <2>2 DEF Encrypt
<1>8. ASSUME NEW t \in Threads, Insert(t) PROVE AnswersPaid'
  <2>1. [req[t] EXCEPT !.step = "show", !.row = Len(rows')].step = "show"
      BY <1>t DEF Requests
  <2>2. Answered' = Answered \ {t}
      BY <1>8, <2>1, <1>x DEF Insert
  <2>3. t \in Answered
      BY <1>8 DEF Insert, At, Answered
  <2>4. Len(rows') = Len(rows) + 1 /\ clock' = clock
      BY <1>8 DEF Insert, ImageInv, ImageTypeOK
  <2> QED BY <2>2, <2>3, <2>4, <1>r, <1>f, <1>n, <1>t DEF AnswersPaid
<1>9. ASSUME NEW t \in Threads, Show(t) PROVE AnswersPaid'
    BY <1>9, <1>m DEF Show, At
<1>10. ASSUME NEW t \in Threads, ReadMarker(t) PROVE AnswersPaid'
    BY <1>10, <1>m DEF ReadMarker, At
<1>11. ASSUME NEW t \in Threads, OpenMarker(t) PROVE AnswersPaid'
    BY <1>11, <1>m DEF OpenMarker, At
<1>12. ASSUME NEW t \in Threads, FillMarker(t) PROVE AnswersPaid'
    BY <1>12, <1>o, <1>i, <1>e DEF FillMarker, At, End
<1>13. CASE KillCore
  <2>1. Answered' = {}
      BY <1>13, <1>i DEF KillCore, Answered
  <2> QED BY <1>13, <2>1, FS_EmptySet, <1>f, <1>n, <1>t DEF KillCore, AnswersPaid
<1>14. CASE UNCHANGED imageVars
    BY <1>14, <1>e DEF imageVars, Answered
<1> QED
    BY <1>1, <1>2, <1>3, <1>4, <1>5, <1>6, <1>7, <1>8, <1>9, <1>10, <1>11,
       <1>12, <1>13, <1>14 DEF Next, vars

LEMMA RequestChosenStep == ImageInv /\ [Next]_vars => RequestChosen'
<1> SUFFICES ASSUME ImageInv, [Next]_vars,
                    NEW u \in Threads
             PROVE  /\ req'[u].step = "insert" => req'[u].key \in Keys
                    /\ req'[u].step \in {"show", "marker", "mark", "fill"}
                         => req'[u].row # 0
    BY DEF RequestChosen, At
<1> DEFINE Chosen(r) ==
      /\ r.step = "insert" => r.key \in Keys
      /\ r.step \in {"show", "marker", "mark", "fill"} => r.row # 0
<1>t. req \in [Threads -> Requests] /\ Len(rows) \in Nat
    BY DEF ImageInv, ImageTypeOK
<1>c. ASSUME NEW t \in Threads PROVE Chosen(req[t])
    BY DEF ImageInv, RequestChosen, At
<1>i. Chosen(Idle)
    BY DEF Idle
<1>g. ASSUME NEW t \in Threads, NEW r, Chosen(r), req' = [req EXCEPT ![t] = r]
      PROVE  Chosen(req'[u])
    BY <1>g, <1>c, <1>t
<1>s. ASSUME NEW t \in Threads, NEW s
      PROVE  /\ [req[t] EXCEPT !.step = s].step = s
             /\ [req[t] EXCEPT !.step = s].row = req[t].row
             /\ [req[t] EXCEPT !.step = s].key = req[t].key
    BY <1>t DEF Requests
<1>e. ASSUME NEW t \in Threads, End(t) PROVE Chosen(req'[u])
    BY <1>e, <1>i, <1>g DEF End
<1>n. ASSUME NEW t \in Threads,
             NEW s \in {"load", "call", "answer", "encrypt"}, Go(t, s)
      PROVE  Chosen(req'[u])
  <2>1. Chosen([req[t] EXCEPT !.step = s])
      BY <1>s
  <2> HIDE DEF Chosen
  <2> QED BY <1>n, <2>1, <1>g DEF Go
<1>m. ASSUME NEW t \in Threads, req[t].step \in {"show", "marker", "mark", "fill"},
             NEW s \in {"marker", "mark", "fill"}, Go(t, s)
      PROVE  Chosen(req'[u])
  <2>1. Chosen([req[t] EXCEPT !.step = s])
      BY <1>m, <1>s, <1>c
  <2> HIDE DEF Chosen
  <2> QED BY <1>m, <2>1, <1>g DEF Go
<1> DEFINE Goal == Chosen(req'[u])
<1> SUFFICES Goal
    OBVIOUS
<1>1. ASSUME NEW t \in Threads, Generate(t) PROVE Goal
    BY <1>1, <1>g DEF Generate, Idle
<1>2. ASSUME NEW t \in Threads, Edit(t) PROVE Goal
    BY <1>2, <1>g DEF Edit, Idle
<1>3. ASSUME NEW t \in Threads, Reset(t) PROVE Goal
  <2>1. PICK i \in DOMAIN rows :
          req' = [req EXCEPT ![t] =
            [Idle EXCEPT !.step = "mark", !.kind = "reset", !.row = i]]
      BY <1>3 DEF Reset
  <2>2. i # 0
      BY DEF ImageInv, ImageTypeOK
  <2> QED BY <2>1, <2>2, <1>g DEF Idle
<1>4. ASSUME NEW t \in Threads, Load(t) PROVE Goal
    BY <1>4, <1>n, <1>e DEF Load
<1>5. ASSUME NEW t \in Threads, Call(t) PROVE Goal
    BY <1>5, <1>n, <1>e DEF Call
<1>6. ASSUME NEW t \in Threads, Answer(t) PROVE Goal
    BY <1>6, <1>n, <1>e DEF Answer
<1>7. ASSUME NEW t \in Threads, Encrypt(t) PROVE Goal
  <2>1. CASE End(t)
      BY <2>1, <1>e
  <2>2. CASE Resolved # None
    <3>1. Resolved \in Keys
        BY <2>2, ResolvedIsKey DEF ImageInv, ImageTypeOK
    <3>2. Chosen([req[t] EXCEPT !.step = "insert", !.key = Resolved, !.created = clock])
        BY <3>1, <1>t DEF Requests
    <3> HIDE DEF Chosen
    <3> QED BY <1>7, <2>2, <3>2, <1>g DEF Encrypt
  <2> QED BY <1>7, <2>1, <2>2 DEF Encrypt
<1>8. ASSUME NEW t \in Threads, Insert(t) PROVE Goal
  <2>1. Len(rows') # 0
      BY <1>8 DEF Insert, ImageInv, ImageTypeOK
  <2>2. Chosen([req[t] EXCEPT !.step = "show", !.row = Len(rows')])
      BY <2>1, <1>t DEF Requests
  <2> HIDE DEF Chosen
  <2> QED BY <1>8, <2>2, <1>g DEF Insert
<1>9. ASSUME NEW t \in Threads, Show(t) PROVE Goal
    BY <1>9, <1>m, <1>e DEF Show, At
<1>10. ASSUME NEW t \in Threads, ReadMarker(t) PROVE Goal
    BY <1>10, <1>m, <1>e DEF ReadMarker, At
<1>11. ASSUME NEW t \in Threads, OpenMarker(t) PROVE Goal
    BY <1>11, <1>m DEF OpenMarker, At
<1>12. ASSUME NEW t \in Threads, FillMarker(t) PROVE Goal
    BY <1>12, <1>e DEF FillMarker
<1>13. CASE KillCore
    BY <1>13, <1>i DEF KillCore
<1>14. CASE UNCHANGED imageVars
    BY <1>14, <1>c DEF imageVars
<1> QED
    BY <1>1, <1>2, <1>3, <1>4, <1>5, <1>6, <1>7, <1>8, <1>9, <1>10, <1>11,
       <1>12, <1>13, <1>14 DEF Next, vars

(* The inductive invariant holds in every reachable state. *)
THEOREM ImageInvariance == Spec => []ImageInv
<1>1. ImageInv /\ [Next]_vars => ImageInv'
  <2>1. ImageInv => VaultInv
      BY DEF ImageInv
  <2> QED
      BY <2>1, VaultInvStep, ImageTypeStep, AnswersPaidStep, RequestChosenStep
      DEF ImageInv
<1> QED BY ImagesStart, <1>1, PTL DEF Spec

(* Every frame has a key and a row of the table, the clock and the table   *)
(* stay in their bounds, and only rows are ever named the original, for    *)
(* any number of threads (encrypted_images.py, image_generation.py).       *)
THEOREM ImageTypeCorrectness == Spec => []ImageTypeOK
<1>1. ImageInv => ImageTypeOK
    BY DEF ImageInv
<1> QED BY ImageInvariance, <1>1, PTL
-----------------------------------------------------------------------------
(* One request at a time. *)

(* The record a step gives a request that only goes on. *)
LEMMA GoesOn ==
  ASSUME NEW r \in Requests, NEW s
  PROVE  LET g == [r EXCEPT !.step = s]
         IN  g.step = s /\ g.src = r.src /\ g.row = r.row /\ g.created = r.created
BY DEF Requests

(* Of frames that get older towards the front the last one is listed first. *)
LEMMA NewestIsLast ==
  ASSUME ImageTypeOK, RowsAge, NEW i \in DOMAIN rows, FirstListed(i)
  PROVE  i = Len(rows)
<1>1. rows \in Seq(Row) /\ Len(rows) \in Nat
    BY DEF ImageTypeOK
<1>2. DOMAIN rows = 1 .. Len(rows)
    BY <1>1
<1>3. Len(rows) \in DOMAIN rows
    BY <1>1, <1>2
<1>4. Len(rows) \notin Newer(i)
    BY DEF FirstListed
<1>5. /\ rows[i].created \in Nat
      /\ rows[Len(rows)].created \in Nat
  <2>1. rows[i] \in Row /\ rows[Len(rows)] \in Row
      BY <1>1, <1>3
  <2> QED BY <2>1, ImagesAssumption DEF Row
<1>6. ~(rows[i].created < rows[Len(rows)].created)
    BY <1>3, <1>4, <1>5 DEF Newer
<1>7. ~(i < Len(rows))
    BY <1>3, <1>6 DEF RowsAge
<1> QED BY <1>1, <1>2, <1>7

(* Between frames a request only goes on, and the line stays as it is. *)
LEMMA LineStep == Alone /\ ImageInv /\ LineInv /\ [Next]_vars => LineInv'
<1> SUFFICES ASSUME Alone, ImageInv, LineInv, [Next]_vars PROVE LineInv'
    OBVIOUS
<1>t. /\ ImageTypeOK /\ req \in [Threads -> Requests]
      /\ rows \in Seq(Row) /\ Len(rows) \in Nat /\ clock \in Nat
    BY DEF ImageInv, ImageTypeOK
<1>c. ASSUME NEW i \in DOMAIN rows
      PROVE  rows[i].created \in Nat /\ rows[i].created <= clock
  <2>1. rows[i] \in Row
      BY <1>t
  <2> QED BY <2>1, ImagesAssumption DEF Row, LineInv, RowsAge
<1>l. ASSUME NEW t \in Threads PROVE RequestInLine(req[t])
    BY DEF LineInv
<1>i. Idle.step = "idle"
    BY DEF Idle
<1>f. ASSUME rows' = rows, clock' = clock,
             \A u \in Threads : RequestInLine(req'[u])
      PROVE  LineInv'
  <2>1. \A r : RequestInLine(r)' <=> RequestInLine(r)
      BY <1>f DEF RequestInLine
  <2>2. RowsAge' /\ EditsContinueNewest'
      BY <1>f DEF LineInv, RowsAge, EditsContinueNewest
  <2> QED BY <1>f, <2>1, <2>2 DEF LineInv
<1>g. ASSUME NEW t \in Threads, NEW r, RequestInLine(r),
             req' = [req EXCEPT ![t] = r], rows' = rows, clock' = clock
      PROVE  LineInv'
    BY <1>g, <1>f, <1>l, <1>t
<1>q. ASSUME NEW r,
             r.step \notin {"load", "call", "answer", "encrypt", "insert"}
      PROVE  RequestInLine(r)
    BY <1>q DEF RequestInLine
<1>e. ASSUME NEW t \in Threads, End(t), rows' = rows, clock' = clock
      PROVE  LineInv'
    BY <1>e, <1>g, <1>q, <1>i DEF End
<1>m. ASSUME NEW t \in Threads,
             NEW s \in {"call", "answer", "marker", "mark", "fill"},
             s \in {"call", "answer"} => req[t].step \in {"load", "call"},
             Go(t, s), rows' = rows, clock' = clock
      PROVE  LineInv'
  <2>1. RequestInLine([req[t] EXCEPT !.step = s])
      BY <1>m, <1>l, <1>t, GoesOn DEF RequestInLine
  <2> QED BY <1>m, <2>1, <1>g DEF Go
<1>1. ASSUME NEW t \in Threads, Generate(t) PROVE LineInv'
  <2>1. RequestInLine([Idle EXCEPT !.step = "call", !.kind = "generate"])
      BY DEF Idle, RequestInLine
  <2> QED BY <1>1, <2>1, <1>g DEF Generate
<1>2. ASSUME NEW t \in Threads, Edit(t) PROVE LineInv'
  <2>1. PICK i \in DOMAIN rows :
          /\ FirstListed(i)
          /\ req' = [req EXCEPT ![t] =
               [Idle EXCEPT !.step = "load", !.kind = "edit", !.src = i]]
      BY <1>2 DEF Edit
  <2>2. i = Len(rows)
      BY <2>1, <1>t, NewestIsLast DEF LineInv
  <2>3. RequestInLine([Idle EXCEPT !.step = "load", !.kind = "edit", !.src = i])
      BY <2>2 DEF Idle, RequestInLine
  <2> QED BY <1>2, <2>1, <2>3, <1>g DEF Edit
<1>3. ASSUME NEW t \in Threads, Reset(t) PROVE LineInv'
  <2>1. PICK i \in DOMAIN rows :
          req' = [req EXCEPT ![t] =
            [Idle EXCEPT !.step = "mark", !.kind = "reset", !.row = i]]
      BY <1>3 DEF Reset
  <2>2. RequestInLine([Idle EXCEPT !.step = "mark", !.kind = "reset", !.row = i])
      BY DEF Idle, RequestInLine
  <2> QED BY <1>3, <2>1, <2>2, <1>g DEF Reset
<1>4. ASSUME NEW t \in Threads, Load(t) PROVE LineInv'
    BY <1>4, <1>m, <1>e DEF Load, At
<1>5. ASSUME NEW t \in Threads, Call(t) PROVE LineInv'
    BY <1>5, <1>m, <1>e DEF Call, At
<1>6. ASSUME NEW t \in Threads, Answer(t) PROVE LineInv'
  <2>0. rows' = rows
      BY <1>6 DEF Answer
  <2>1. CASE End(t) /\ clock' = clock
      BY <2>0, <2>1, <1>e
  <2>2. CASE clock' = clock + 1 /\ Go(t, "encrypt")
    <3>1. RowsAge' /\ EditsContinueNewest'
      <4>1. \A i \in DOMAIN rows : rows[i].created <= clock'
          BY <2>2, <1>c, <1>t
      <4> QED BY <2>0, <4>1 DEF LineInv, RowsAge, EditsContinueNewest
    <3>2. \A i \in DOMAIN rows : rows[i].created < clock'
        BY <2>2, <1>c, <1>t
    <3>3. req'[t] = [req[t] EXCEPT !.step = "encrypt"]
        BY <2>2, <1>t DEF Go
    <3>4. req'[t].step = "encrypt" /\ req'[t].src \in {0, Len(rows)}
      <4>1. req[t].src \in {0, Len(rows)}
          BY <1>6, <1>l DEF Answer, At, RequestInLine
      <4> QED BY <3>3, <4>1, <1>t, GoesOn
    <3>5. RequestInLine(req[t])'
        BY <2>0, <3>2, <3>4 DEF RequestInLine
    <3>6. \A u \in Threads : RequestInLine(req[u])'
        BY <3>5 DEF Alone
    <3> QED BY <3>1, <3>6 DEF LineInv
  <2> QED BY <1>6, <2>1, <2>2 DEF Answer
<1>7. ASSUME NEW t \in Threads, Encrypt(t) PROVE LineInv'
  <2>1. CASE End(t)
      BY <1>7, <2>1, <1>e DEF Encrypt
  <2>2. CASE req' = [req EXCEPT ![t] =
          [@ EXCEPT !.step = "insert", !.key = Resolved, !.created = clock]]
    <3> DEFINE r == [req[t] EXCEPT !.step = "insert", !.key = Resolved,
                                   !.created = clock]
    <3>1. r.step = "insert" /\ r.created = clock /\ r.src = req[t].src
        BY <1>t DEF Requests
    <3>2. /\ \A i \in DOMAIN rows : rows[i].created < clock
          /\ req[t].src \in {0, Len(rows)}
        BY <1>7, <1>l DEF Encrypt, At, RequestInLine
    <3> HIDE DEF r
    <3>3. RequestInLine(r)
        BY <3>1, <3>2, <1>t DEF RequestInLine
    <3>4. req' = [req EXCEPT ![t] = r]
        BY <2>2 DEF r
    <3> QED BY <1>7, <3>3, <3>4, <1>g DEF Encrypt
  <2> QED BY <1>7, <2>1, <2>2 DEF Encrypt
<1>8. ASSUME NEW t \in Threads, Insert(t) PROVE LineInv'
  <2> DEFINE row == [key |-> req[t].key, created |-> req[t].created,
                     src |-> req[t].src]
  <2>1. /\ rows' = Append(rows, row) /\ clock' = clock
        /\ req' = [req EXCEPT ![t] = [@ EXCEPT !.step = "show", !.row = Len(rows')]]
      BY <1>8 DEF Insert
  <2>2. /\ req[t].created <= clock
        /\ \A i \in DOMAIN rows : rows[i].created < req[t].created
        /\ req[t].src \in {0, Len(rows)}
      BY <1>8, <1>l DEF Insert, At, RequestInLine
  <2>3. row.created = req[t].created /\ row.src = req[t].src
      OBVIOUS
  <2> HIDE DEF row
  <2>4. /\ DOMAIN rows' = 1 .. Len(rows) + 1 /\ DOMAIN rows = 1 .. Len(rows)
        /\ rows'[Len(rows) + 1] = row
        /\ \A i \in 1 .. Len(rows) : rows'[i] = rows[i]
    <3>1. DOMAIN rows' = 1 .. Len(rows) + 1 /\ DOMAIN rows = 1 .. Len(rows)
        BY <2>1, <1>t, AppendProperties, LenProperties
    <3>2. /\ rows'[Len(rows) + 1] = row
          /\ \A i \in 1 .. Len(rows) : rows'[i] = rows[i]
        BY <2>1, <1>t
    <3> QED BY <3>1, <3>2
  <2>5. RowsAge'
    <3>1. \A i, j \in 1 .. Len(rows) + 1 : i < j => rows'[i].created < rows'[j].created
      <4> SUFFICES ASSUME NEW i \in 1 .. Len(rows) + 1, NEW j \in 1 .. Len(rows) + 1,
                          i < j
                   PROVE  rows'[i].created < rows'[j].created
          OBVIOUS
      <4>1. i \in 1 .. Len(rows)
          BY <1>t
      <4>2. CASE j = Len(rows) + 1
          BY <4>1, <4>2, <2>2, <2>3, <2>4
      <4>3. CASE j \in 1 .. Len(rows)
          BY <4>1, <4>3, <2>4 DEF LineInv, RowsAge
      <4> QED BY <4>2, <4>3, <1>t
    <3>2. \A i \in 1 .. Len(rows) + 1 : rows'[i].created <= clock'
      <4> SUFFICES ASSUME NEW i \in 1 .. Len(rows) + 1
                   PROVE  rows'[i].created <= clock'
          OBVIOUS
      <4>2. CASE i = Len(rows) + 1
          BY <4>2, <2>1, <2>2, <2>3, <2>4
      <4>3. CASE i \in 1 .. Len(rows)
          BY <4>3, <2>1, <2>4 DEF LineInv, RowsAge
      <4> QED BY <4>2, <4>3, <1>t
    <3> QED BY <3>1, <3>2, <2>4 DEF RowsAge
  <2>6. EditsContinueNewest'
    <3> SUFFICES ASSUME NEW i \in 1 .. Len(rows) + 1, rows'[i].src # 0
                 PROVE  rows'[i].src = i - 1
        BY <2>4 DEF EditsContinueNewest
    <3>2. CASE i = Len(rows) + 1
        BY <3>2, <2>2, <2>3, <2>4, <1>t
    <3>3. CASE i \in 1 .. Len(rows)
        BY <3>3, <2>4 DEF LineInv, EditsContinueNewest
    <3> QED BY <3>2, <3>3, <1>t
  <2>7. \A u \in Threads : RequestInLine(req[u])'
    <3>1. req'[t].step = "show"
        BY <2>1, <1>t DEF Requests
    <3>2. RequestInLine(req[t])'
        BY <3>1 DEF RequestInLine
    <3> QED BY <3>2 DEF Alone
  <2> QED BY <2>5, <2>6, <2>7 DEF LineInv
<1>9. ASSUME NEW t \in Threads, Show(t) PROVE LineInv'
    BY <1>9, <1>m, <1>e DEF Show
<1>10. ASSUME NEW t \in Threads, ReadMarker(t) PROVE LineInv'
    BY <1>10, <1>m, <1>e DEF ReadMarker
<1>11. ASSUME NEW t \in Threads, OpenMarker(t) PROVE LineInv'
    BY <1>11, <1>m DEF OpenMarker
<1>12. ASSUME NEW t \in Threads, FillMarker(t) PROVE LineInv'
    BY <1>12, <1>e DEF FillMarker
<1>13. CASE KillCore
    BY <1>13, <1>f, <1>q, <1>i DEF KillCore
<1>14. CASE UNCHANGED imageVars
    BY <1>14, <1>f, <1>l DEF imageVars
<1> QED
    BY <1>1, <1>2, <1>3, <1>4, <1>5, <1>6, <1>7, <1>8, <1>9, <1>10, <1>11,
       <1>12, <1>13, <1>14 DEF Next, vars

(* With one request at a time an edit continues the newest frame, whatever *)
(* the keys, and however many times the core is killed between two steps   *)
(* of it (engine.py, image_update; encrypted_images.py, list and save).    *)
THEOREM FramesFormALine == ASSUME Alone PROVE Spec => []EditsContinueNewest
<1>1. Init => LineInv
  <2> SUFFICES ASSUME Init PROVE LineInv
      OBVIOUS
  <2>1. rows = <<>> /\ DOMAIN rows = {}
      BY DEF Init
  <2>2. \A t \in Threads : RequestInLine(req[t])
      BY DEF Init, Idle, RequestInLine
  <2> QED BY <2>1, <2>2 DEF LineInv, RowsAge, EditsContinueNewest
<1>2. ImageInv /\ LineInv /\ [Next]_vars => LineInv'
    BY LineStep, Alone
<1>3. LineInv => EditsContinueNewest
    BY DEF LineInv
<1> QED BY ImageInvariance, <1>1, <1>2, <1>3, PTL DEF Spec

LEMMA MarkStep == Alone /\ ImageInv /\ MarkInv /\ [Next]_vars => MarkInv'
<1> SUFFICES ASSUME Alone, ImageInv, MarkInv, [Next]_vars PROVE MarkInv'
    OBVIOUS
<1>t. req \in [Threads -> Requests]
    BY DEF ImageInv, ImageTypeOK
<1>i. Idle.step = "idle"
    BY DEF Idle
<1>f. ASSUME marker' = marker, named' = named,
             NEW t \in Threads, NEW r, req' = [req EXCEPT ![t] = r],
             r.step # "fill", r.step = "mark" => ~marker.exists
      PROVE  MarkInv'
  <2>1. req'[t] = r
      BY <1>f, <1>t
  <2>2. At(t, "mark")' => ~marker.exists'
      BY <1>f, <2>1 DEF At
  <2>3. ~At(t, "fill")'
      BY <1>f, <2>1 DEF At
  <2>4. \A u \in Threads : u = t
      BY DEF Alone
  <2> QED BY <1>f, <2>2, <2>3, <2>4 DEF MarkInv
<1>s. ASSUME NEW t \in Threads, NEW s
      PROVE  [req[t] EXCEPT !.step = s].step = s
    BY <1>t DEF Requests
<1>e. ASSUME NEW t \in Threads, End(t), marker' = marker, named' = named
      PROVE  MarkInv'
    BY <1>e, <1>i, <1>f DEF End
<1>m. ASSUME NEW t \in Threads, NEW s \in {"call", "answer", "encrypt", "marker"},
             Go(t, s), marker' = marker, named' = named
      PROVE  MarkInv'
    BY <1>m, <1>s, <1>f DEF Go
<1>1. ASSUME NEW t \in Threads, Generate(t) PROVE MarkInv'
  <2>1. [Idle EXCEPT !.step = "call", !.kind = "generate"].step = "call"
      BY DEF Idle
  <2> QED BY <1>1, <2>1, <1>f DEF Generate
<1>2. ASSUME NEW t \in Threads, Edit(t) PROVE MarkInv'
  <2>1. PICK i \in DOMAIN rows :
          req' = [req EXCEPT ![t] =
            [Idle EXCEPT !.step = "load", !.kind = "edit", !.src = i]]
      BY <1>2 DEF Edit
  <2>2. [Idle EXCEPT !.step = "load", !.kind = "edit", !.src = i].step = "load"
      BY DEF Idle
  <2> QED BY <1>2, <2>1, <2>2, <1>f DEF Edit
<1>3. ASSUME NEW t \in Threads, Reset(t) PROVE MarkInv'
  <2>1. PICK i \in DOMAIN rows :
          req' = [req EXCEPT ![t] =
            [Idle EXCEPT !.step = "mark", !.kind = "reset", !.row = i]]
      BY <1>3 DEF Reset
  <2>2. [Idle EXCEPT !.step = "mark", !.kind = "reset", !.row = i].step = "mark"
      BY DEF Idle
  <2> QED BY <1>3, <2>1, <2>2, <1>f DEF Reset
<1>4. ASSUME NEW t \in Threads, Load(t) PROVE MarkInv'
    BY <1>4, <1>m, <1>e DEF Load
<1>5. ASSUME NEW t \in Threads, Call(t) PROVE MarkInv'
    BY <1>5, <1>m, <1>e DEF Call
<1>6. ASSUME NEW t \in Threads, Answer(t) PROVE MarkInv'
    BY <1>6, <1>m, <1>e DEF Answer
<1>7. ASSUME NEW t \in Threads, Encrypt(t) PROVE MarkInv'
  <2>1. [req[t] EXCEPT !.step = "insert", !.key = Resolved, !.created = clock].step
          = "insert"
      BY <1>t DEF Requests
  <2> QED BY <1>7, <2>1, <1>f, <1>e DEF Encrypt
<1>8. ASSUME NEW t \in Threads, Insert(t) PROVE MarkInv'
  <2>1. [req[t] EXCEPT !.step = "show", !.row = Len(rows')].step = "show"
      BY <1>t DEF Requests
  <2> QED BY <1>8, <2>1, <1>f DEF Insert
<1>9. ASSUME NEW t \in Threads, Show(t) PROVE MarkInv'
    BY <1>9, <1>m, <1>e DEF Show
<1>10. ASSUME NEW t \in Threads, ReadMarker(t) PROVE MarkInv'
  <2>1. CASE marker.exists
      BY <1>10, <2>1, <1>e DEF ReadMarker
  <2>2. CASE ~marker.exists
      BY <1>10, <2>2, <1>s, <1>f DEF ReadMarker, Go
  <2> QED BY <2>1, <2>2
<1>11. ASSUME NEW t \in Threads, OpenMarker(t) PROVE MarkInv'
  <2>1. named = {} /\ named' = {} /\ marker'.exists
      BY <1>11 DEF OpenMarker, MarkInv
  <2>2. req'[t].step = "fill"
      BY <1>11, <1>s, <1>t DEF OpenMarker, Go
  <2>3. ~At(t, "mark")'
      BY <2>2 DEF At
  <2>4. \A u \in Threads : u = t
      BY DEF Alone
  <2> QED BY <2>1, <2>3, <2>4 DEF MarkInv
<1>12. ASSUME NEW t \in Threads, FillMarker(t) PROVE MarkInv'
  <2>1. named = {}
      BY <1>12 DEF FillMarker, MarkInv
  <2>2. named' = {req[t].row} /\ marker'.exists
      BY <1>12, <2>1 DEF FillMarker
  <2>3. req'[t].step = "idle"
      BY <1>12, <1>i, <1>t DEF FillMarker, End
  <2>4. ~At(t, "mark")' /\ ~At(t, "fill")'
      BY <2>3 DEF At
  <2>5. \A u \in Threads : u = t
      BY DEF Alone
  <2> QED BY <2>2, <2>4, <2>5 DEF MarkInv
<1>13. CASE KillCore
    BY <1>13, <1>i DEF KillCore, MarkInv, At
<1>14. CASE UNCHANGED imageVars
    BY <1>14 DEF imageVars, MarkInv, At
<1> QED
    BY <1>1, <1>2, <1>3, <1>4, <1>5, <1>6, <1>7, <1>8, <1>9, <1>10, <1>11,
       <1>12, <1>13, <1>14 DEF Next, vars

(* A set whose members are equal has one at most. *)
LEMMA AtMostOne ==
  ASSUME NEW S, \A i, j \in S : i = j
  PROVE  Cardinality(S) <= 1
<1>1. CASE S = {}
    BY <1>1, FS_EmptySet
<1>2. CASE S # {}
  <2>1. PICK i : i \in S
      BY <1>2
  <2>2. S = {i}
      BY <2>1
  <2>3. Cardinality({i}) = 1
      BY FS_Singleton
  <2> QED BY <2>2, <2>3
<1> QED BY <1>1, <1>2

(* README.md: "The original desktop can be restored with RESET DESKTOP."   *)
(* With one request at a time no second frame is ever named the original,  *)
(* also when the core is killed with the marker still empty                *)
(* (image_generation.py, generate_boot_image; engine.py,                   *)
(* reset_desktop_image).                                                   *)
THEOREM OriginalIsNamedOnce == ASSUME Alone PROVE Spec => []OneOriginal
<1>1. Init => MarkInv
    BY DEF Init, MarkInv, At, Idle
<1>2. ImageInv /\ MarkInv /\ [Next]_vars => MarkInv'
    BY MarkStep, Alone
<1>3. MarkInv => OneOriginal
    BY AtMostOne DEF MarkInv, OneOriginal
<1> QED BY ImageInvariance, <1>1, <1>2, <1>3, PTL DEF Spec
=============================================================================
