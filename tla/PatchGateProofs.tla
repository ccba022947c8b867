-------------------------- MODULE PatchGateProofs --------------------------
(* Theorems about the gate, for any packets and any proposals of clients.  *)
EXTENDS PatchProposer, TLAPS

-----------------------------------------------------------------------------
(* Prefixes. *)

LEMMA PrefixHead ==
  ASSUME NEW path \in Paths, path # <<>>, NEW q \in Paths, IsPrefix(path, q)
  PROVE  q # <<>> /\ Head(q) = Head(path)
<1>1. /\ Len(path) \in Nat /\ Len(path) >= 1 /\ Len(path) <= Len(q)
      /\ SubSeq(path, 1, Len(path)) = SubSeq(q, 1, Len(path))
  BY DEF IsPrefix, Paths
<1>2. SubSeq(path, 1, Len(path))[1] = path[1] /\ SubSeq(q, 1, Len(path))[1] = q[1]
  BY <1>1 DEF Paths
<1> QED BY <1>1, <1>2 DEF Paths

LEMMA PrefixSecond ==
  ASSUME NEW path \in Paths, Len(path) > 1, NEW q \in Paths, IsPrefix(path, q)
  PROVE  Len(q) > 1 /\ q[2] = path[2]
<1>1. /\ Len(path) \in Nat /\ Len(path) <= Len(q)
      /\ SubSeq(path, 1, Len(path)) = SubSeq(q, 1, Len(path))
  BY DEF IsPrefix, Paths
<1>2. SubSeq(path, 1, Len(path))[2] = path[2] /\ SubSeq(q, 1, Len(path))[2] = q[2]
  BY <1>1 DEF Paths
<1> QED BY <1>1, <1>2 DEF Paths

LEMMA PrefixOfRoot ==
  ASSUME NEW path \in Paths, path # <<>>, NEW r \in Text, IsPrefix(path, <<r>>)
  PROVE  path = <<r>>
<1>1. <<r>> \in Paths
  BY DEF Paths
<1>2. Head(path) = r
  BY <1>1, PrefixHead
<1>3. Len(path) = 1
  <2>1. Len(path) <= Len(<<r>>)
    BY DEF IsPrefix
  <2> QED BY <2>1 DEF Paths
<1> QED BY <1>2, <1>3 DEF Paths

LEMMA PrefixExtends ==
  ASSUME NEW path \in Paths, NEW r \in Paths
  PROVE  path \o r \in Paths /\ IsPrefix(path, path \o r)
<1>1. path \o r \in Seq(Text) /\ Len(path \o r) = Len(path) + Len(r)
  BY DEF Paths
<1>2. SubSeq(path, 1, Len(path)) = SubSeq(path \o r, 1, Len(path))
  BY <1>1 DEF Paths
<1> QED BY <1>1, <1>2 DEF Paths, IsPrefix

LEMMA PrefixOfChild ==
  ASSUME NEW path \in Paths, NEW k \in Text, NEW q \in Paths,
         IsPrefix(path \o <<k>>, q)
  PROVE  IsPrefix(path, q) /\ Len(q) > Len(path)
<1> DEFINE child == path \o <<k>>
<1>1. /\ child \in Seq(Text) /\ Len(child) = Len(path) + 1
      /\ Len(child) <= Len(q) /\ Len(path) \in Nat /\ Len(q) \in Nat
      /\ SubSeq(child, 1, Len(child)) = SubSeq(q, 1, Len(child))
  <2>1. child \in Seq(Text) /\ Len(child) = Len(path) + 1
    BY DEF Paths
  <2>2. IsPrefix(child, q)
    OBVIOUS
  <2>3. Len(child) <= Len(q) /\ SubSeq(child, 1, Len(child)) = SubSeq(q, 1, Len(child))
    BY <2>2 DEF IsPrefix
  <2> QED BY <2>1, <2>3 DEF Paths
<1>2. ASSUME NEW i \in 1 .. Len(path)
      PROVE  path[i] = q[i]
  <2>1. i \in 1 .. Len(child)
    BY <1>1
  <2>2. SubSeq(child, 1, Len(child))[i] = child[i] /\ SubSeq(q, 1, Len(child))[i] = q[i]
    BY <1>1, <2>1 DEF Paths
  <2>3. child[i] = path[i]
    BY <1>1 DEF Paths
  <2> QED BY <1>1, <2>2, <2>3
<1>3. SubSeq(path, 1, Len(path)) = SubSeq(q, 1, Len(path))
  <2>1. /\ SubSeq(path, 1, Len(path)) \in Seq(Text) /\ SubSeq(q, 1, Len(path)) \in Seq(Text)
        /\ Len(SubSeq(path, 1, Len(path))) = Len(path)
        /\ Len(SubSeq(q, 1, Len(path))) = Len(path)
    BY <1>1 DEF Paths
  <2>2. \A i \in 1 .. Len(path) : SubSeq(path, 1, Len(path))[i] = SubSeq(q, 1, Len(path))[i]
    BY <1>1, <1>2 DEF Paths
  <2> QED BY <1>1, <2>1, <2>2
<1> QED BY <1>1, <1>3 DEF IsPrefix

LEMMA RootedPath ==
  ASSUME NEW r \in Text, NEW q \in Paths
  PROVE  /\ <<r>> \o q \in Paths
         /\ Head(<<r>> \o q) = r /\ Tail(<<r>> \o q) = q
         /\ <<r>> \o <<>> = <<r>>
<1> DEFINE p == <<r>> \o q
<1>1. /\ <<r>> \in Seq(Text) /\ Len(<<r>>) = 1 /\ q \in Seq(Text)
  BY DEF Paths
<1>2. p \in Seq(Text) /\ Len(p) = 1 + Len(q) /\ p[1] = r
  BY <1>1
<1>3. \A i \in 1 .. Len(q) : p[i + 1] = q[i]
  BY <1>1
<1>4. Tail(p) \in Seq(Text) /\ Len(Tail(p)) = Len(q)
  BY <1>1, <1>2
<1>5. \A i \in 1 .. Len(q) : Tail(p)[i] = q[i]
  BY <1>1, <1>2, <1>3
<1>6. Tail(p) = q
  BY <1>1, <1>4, <1>5
<1>7. <<r>> \o <<>> = <<r>>
  <2>1. <<>> \in Seq(Text) /\ Len(<<>>) = 0
    OBVIOUS
  <2>2. <<r>> \o <<>> \in Seq(Text) /\ Len(<<r>> \o <<>>) = 1
    BY <1>1, <2>1
  <2>3. (<<r>> \o <<>>)[1] = r
    BY <1>1, <2>1
  <2> QED BY <1>1, <2>2, <2>3
<1> QED BY <1>2, <1>6, <1>7 DEF Paths

LEMMA SuffixBack ==
  ASSUME NEW path \in Paths, NEW r \in Paths
  PROVE  Relative(path, path \o r) = r
<1> DEFINE whole == path \o r
           rest == SubSeq(whole, Len(path) + 1, Len(whole))
<1>1. /\ whole \in Seq(Text) /\ Len(whole) = Len(path) + Len(r)
      /\ Len(path) \in Nat /\ Len(r) \in Nat
  BY DEF Paths
<1>2. rest \in Seq(Text) /\ Len(rest) = Len(r)
  BY <1>1
<1>3. ASSUME NEW i \in 1 .. Len(r) PROVE rest[i] = r[i]
  <2>1. rest[i] = whole[Len(path) + i]
    <3>1. i \in 1 .. Len(whole) - (Len(path) + 1) + 1
      BY <1>1
    <3> QED BY <1>1, <3>1
  <2>2. whole[Len(path) + i] = r[i]
    BY <1>1 DEF Paths
  <2> QED BY <2>1, <2>2
<1>4. rest = r
  BY <1>2, <1>3 DEF Paths
<1> QED BY <1>4 DEF Relative
-----------------------------------------------------------------------------
(* Edits of a document change nothing outside of the path they are made at. *)

Outside(d, e, path) ==
  \A q \in Paths : ~IsPrefix(path, q) =>
    /\ q \in DOMAIN e <=> q \in DOMAIN d
    /\ q \in DOMAIN d => e[q] = d[q]

LEMMA GraftIsLocal ==
  ASSUME NEW d, IsDocument(d), NEW path \in Paths, NEW value, IsDocument(value)
  PROVE  IsDocument(Graft(d, path, value)) /\ Outside(d, Graft(d, path, value), path)
<1> DEFINE e == Graft(d, path, value)
           hung == {path \o r : r \in DOMAIN value}
<1>1. /\ DOMAIN e = (DOMAIN d \ Below(d, path)) \cup hung
      /\ \A p \in DOMAIN e :
           e[p] = IF IsPrefix(path, p) THEN value[Relative(path, p)] ELSE d[p]
      /\ e = [p \in DOMAIN e |-> e[p]]
  BY DEF Graft
<1>2. ASSUME NEW p \in hung
      PROVE  p \in Paths /\ IsPrefix(path, p) /\ e[p] \in Text
  <2> PICK r \in DOMAIN value : p = path \o r
    OBVIOUS
  <2>1. r \in Paths /\ value[r] \in Text
    BY DEF IsDocument
  <2>2. p \in Paths /\ IsPrefix(path, p)
    BY <2>1, PrefixExtends
  <2>3. e[p] = value[r]
    BY <1>1, <2>1, <2>2, SuffixBack
  <2> QED BY <2>1, <2>2, <2>3
<1>3. ASSUME NEW p \in DOMAIN d \ Below(d, path)
      PROVE  p \in Paths /\ ~IsPrefix(path, p) /\ e[p] = d[p] /\ e[p] \in Text
  BY <1>1 DEF Below, IsDocument
<1>4. IsDocument(e)
  <2>1. DOMAIN e \subseteq Paths /\ \A p \in DOMAIN e : e[p] \in Text
    BY <1>1, <1>2, <1>3
  <2> QED BY <1>1, <2>1 DEF IsDocument
<1>5. Outside(d, e, path)
  BY <1>1, <1>2, <1>3 DEF Outside, Below
<1> QED BY <1>4, <1>5

LEMMA WithoutIsLocal ==
  ASSUME NEW d, IsDocument(d), NEW path \in Paths
  PROVE  IsDocument(Without(d, path)) /\ Outside(d, Without(d, path), path)
<1> QED BY DEF IsDocument, Without, Below, Outside

LEMMA AppliedIsLocal ==
  ASSUME NEW d, IsDocument(d), NEW o, IsOperation(o)
  PROVE  IsDocument(Applied(d, o)) /\ Outside(d, Applied(d, o), o.path)
<1>1. Outside(d, d, o.path)
  BY DEF Outside
<1>2. /\ IsDocument(Graft(d, o.path, o.value)) /\ Outside(d, Graft(d, o.path, o.value), o.path)
      /\ IsDocument(Without(d, o.path)) /\ Outside(d, Without(d, o.path), o.path)
  BY GraftIsLocal, WithoutIsLocal DEF IsOperation
<1> QED BY <1>1, <1>2 DEF Applied, IsOperation, OperationKinds

(* from_dict keeps what a document has and adds the roots that it lacks.   *)
LEMMA FromDictAddsRoots ==
  ASSUME NEW d, IsDocument(d)
  PROVE  /\ IsDocument(FromDict(d))
         /\ \A q \in DOMAIN d : q \in DOMAIN FromDict(d) /\ FromDict(d)[q] = d[q]
         /\ \A q \in DOMAIN FromDict(d) \ DOMAIN d : Head(q) \in Missing(d)
         /\ \A r \in ALLOWED_ROOTS : <<r>> \in DOMAIN FromDict(d)
<1> DEFINE e == FromDict(d)
           added == UNION {{<<r>> \o q : q \in DOMAIN Defaults[r]} : r \in Missing(d)}
<1>1. /\ DOMAIN e = DOMAIN d \cup added
      /\ \A p \in DOMAIN e : e[p] = IF p \in DOMAIN d THEN d[p] ELSE Defaults[Head(p)][Tail(p)]
      /\ e = [p \in DOMAIN e |-> e[p]]
  BY DEF FromDict
<1>2. ASSUME NEW p \in added
      PROVE  p \in Paths /\ Head(p) \in Missing(d) /\ Defaults[Head(p)][Tail(p)] \in Text
  <2> PICK r \in Missing(d) : p \in {<<r>> \o q : q \in DOMAIN Defaults[r]}
    OBVIOUS
  <2> PICK q \in DOMAIN Defaults[r] : p = <<r>> \o q
    OBVIOUS
  <2>1. r \in ALLOWED_ROOTS /\ r \in Text
    BY TextAssumption DEF Missing
  <2>2. q \in Paths /\ Defaults[r][q] \in Text
    BY <2>1, GenesisAssumption DEF IsDocument
  <2>3. p \in Paths /\ Head(p) = r /\ Tail(p) = q
    <3>1. r \in Text /\ q \in Paths
      BY <2>1, <2>2
    <3>2. <<r>> \o q \in Paths /\ Head(<<r>> \o q) = r /\ Tail(<<r>> \o q) = q
      BY <3>1, RootedPath
    <3> QED BY <3>2
  <2> QED BY <2>2, <2>3
<1>3. IsDocument(e)
  <2>1. DOMAIN e \subseteq Paths /\ \A p \in DOMAIN e : e[p] \in Text
    BY <1>1, <1>2 DEF IsDocument
  <2> QED BY <1>1, <2>1 DEF IsDocument
<1>4. ASSUME NEW r \in ALLOWED_ROOTS PROVE <<r>> \in DOMAIN e
  <2>1. CASE <<r>> \in DOMAIN d
    BY <2>1, <1>1
  <2>2. CASE <<r>> \notin DOMAIN d
    <3>1. r \in Missing(d) /\ <<>> \in DOMAIN Defaults[r] /\ r \in Text
      BY <2>2, GenesisAssumption, TextAssumption DEF Missing, IsTree
    <3>2. <<r>> \o <<>> = <<r>>
      <4>1. <<>> \in Paths
        BY DEF Paths
      <4> QED BY <3>1, <4>1, RootedPath
    <3> QED BY <1>1, <3>1, <3>2
  <2> QED BY <2>1, <2>2
<1> QED BY <1>1, <1>2, <1>3, <1>4

LEMMA ChildPath ==
  ASSUME NEW path \in Paths, NEW k \in Text
  PROVE  /\ path \o <<k>> \in Paths /\ Len(path \o <<k>>) = Len(path) + 1
         /\ Last(path \o <<k>>) = k /\ IsPrefix(path, path \o <<k>>)
<1>1. <<k>> \in Seq(Text) /\ path \in Seq(Text)
  BY DEF Paths
<1>2. path \o <<k>> \in Seq(Text) /\ Len(path \o <<k>>) = Len(path) + 1
  BY <1>1
<1>3. (path \o <<k>>)[Len(path) + 1] = k
  BY <1>1
<1>4. IsPrefix(path, path \o <<k>>)
  BY <1>1, PrefixExtends DEF Paths
<1> QED BY <1>2, <1>3, <1>4 DEF Paths, Last

(* Setting fields of a dict touches those fields and nothing else.         *)
LEMMA FieldsAreLocal ==
  ASSUME NEW d, IsDocument(d), NEW path \in Paths,
         NEW fields, DOMAIN fields \subseteq Text,
         \A k \in DOMAIN fields : fields[k] \in Text
  PROVE  LET e == WithFields(d, path, fields)
         IN /\ IsDocument(e) /\ Outside(d, e, path)
            /\ \A k \in DOMAIN fields :
                 path \o <<k>> \in DOMAIN e /\ e[path \o <<k>>] = fields[k]
            /\ \A q \in DOMAIN d :
                 (\A k \in DOMAIN fields : ~IsPrefix(path \o <<k>>, q))
                   => q \in DOMAIN e /\ e[q] = d[q]
            /\ \A q \in DOMAIN e \ DOMAIN d : \E k \in DOMAIN fields : q = path \o <<k>>
<1> DEFINE e == WithFields(d, path, fields)
           set == {path \o <<k>> : k \in DOMAIN fields}
           gone == UNION {Below(d, p) : p \in set}
<1>1. /\ DOMAIN e = (DOMAIN d \ gone) \cup set
      /\ \A p \in DOMAIN e : e[p] = IF p \in set THEN fields[Last(p)] ELSE d[p]
      /\ e = [p \in DOMAIN e |-> e[p]]
  BY DEF WithFields
<1>2. ASSUME NEW k \in DOMAIN fields
      PROVE  /\ path \o <<k>> \in Paths /\ IsPrefix(path, path \o <<k>>)
             /\ path \o <<k>> \in DOMAIN e /\ e[path \o <<k>>] = fields[k]
  <2>1. k \in Text
    OBVIOUS
  <2>2. /\ path \o <<k>> \in Paths /\ Last(path \o <<k>>) = k
        /\ IsPrefix(path, path \o <<k>>)
    BY <2>1, ChildPath
  <2> QED BY <1>1, <2>2
<1>3. ASSUME NEW q \in DOMAIN d, \A k \in DOMAIN fields : ~IsPrefix(path \o <<k>>, q)
      PROVE  q \in DOMAIN e /\ e[q] = d[q]
  <2>1. q \notin gone
    BY <1>3 DEF Below
  <2>2. q \notin set
    <3> SUFFICES ASSUME NEW k \in DOMAIN fields, q = path \o <<k>> PROVE FALSE
      OBVIOUS
    <3>1. q \in Seq(Text)
      BY DEF IsDocument, Paths
    <3>2. IsPrefix(q, q)
      BY <3>1 DEF IsPrefix
    <3> QED BY <1>3, <3>2
  <2> QED BY <1>1, <2>1, <2>2
<1>4. ASSUME NEW q \in Paths, ~IsPrefix(path, q), NEW k \in DOMAIN fields
      PROVE  ~IsPrefix(path \o <<k>>, q)
  <2>1. k \in Text
    OBVIOUS
  <2> QED BY <1>4, <2>1, PrefixOfChild
<1>5. IsDocument(e)
  <2>1. ASSUME NEW q \in DOMAIN e PROVE q \in Paths /\ e[q] \in Text
    <3>1. CASE q \in set
      BY <3>1, <1>2
    <3>2. CASE q \notin set
      BY <3>2, <1>1 DEF IsDocument
    <3> QED BY <3>1, <3>2
  <2> QED BY <1>1, <2>1 DEF IsDocument
<1>6. Outside(d, e, path)
  <2> SUFFICES ASSUME NEW q \in Paths, ~IsPrefix(path, q)
               PROVE  /\ q \in DOMAIN e <=> q \in DOMAIN d
                      /\ q \in DOMAIN d => e[q] = d[q]
    BY DEF Outside
  <2>1. q \notin set
    BY <1>2
  <2> QED BY <1>1, <1>3, <1>4, <2>1
<1>7. \A q \in DOMAIN e \ DOMAIN d : \E k \in DOMAIN fields : q = path \o <<k>>
  BY <1>1
<1> QED BY <1>2, <1>3, <1>5, <1>6, <1>7

LEMMA ObjectIdsArePaths ==
  ASSUME NEW d, IsDocument(d), NEW id
  PROVE  id \in ObjectIds(d) <=> <<"objects", id>> \in DOMAIN d
<1>1. ASSUME NEW p \in DOMAIN d, Len(p) = 2, p[1] = "objects"
      PROVE  p = <<"objects", p[2]>>
  BY <1>1 DEF IsDocument, Paths
<1> QED BY <1>1 DEF ObjectIds

LEMMA SameItems ==
  ASSUME NEW s \in Paths, NEW t \in Paths, Len(s) = Len(t),
         \A i \in 1 .. Len(s) : s[i] = t[i]
  PROVE  s = t
BY DEF Paths

LEMMA PairPath ==
  ASSUME NEW a \in Text, NEW b \in Text
  PROVE  <<a>> \o <<b>> = <<a, b>>
<1>1. /\ <<a>> \in Seq(Text) /\ <<b>> \in Seq(Text) /\ <<a, b>> \in Paths
      /\ Len(<<a>>) = 1 /\ Len(<<b>>) = 1 /\ Len(<<a, b>>) = 2
  BY DEF Paths
<1>2. <<a>> \o <<b>> \in Paths /\ Len(<<a>> \o <<b>>) = 2
  BY <1>1 DEF Paths
<1>3. \A i \in 1 .. 2 : (<<a>> \o <<b>>)[i] = <<a, b>>[i]
  BY <1>1
<1> QED BY <1>1, <1>2, <1>3, SameItems

LEMMA TriplePath ==
  ASSUME NEW a \in Text, NEW b \in Text, NEW c \in Text
  PROVE  <<a, b>> \o <<c>> = <<a, b, c>>
<1>1. /\ <<a, b>> \in Seq(Text) /\ <<c>> \in Seq(Text) /\ <<a, b, c>> \in Paths
      /\ Len(<<a, b>>) = 2 /\ Len(<<c>>) = 1 /\ Len(<<a, b, c>>) = 3
  BY DEF Paths
<1>2. <<a, b>> \o <<c>> \in Paths /\ Len(<<a, b>> \o <<c>>) = 3
  BY <1>1 DEF Paths
<1>3. \A i \in 1 .. 3 : (<<a, b>> \o <<c>>)[i] = <<a, b, c>>[i]
  BY <1>1
<1> QED BY <1>1, <1>2, <1>3, SameItems

(* What Sound reads of a document.                                         *)
LEMMA SoundCarries ==
  ASSUME NEW d, IsDocument(d), NEW e, IsDocument(e), Sound(d),
         e[<<"selected_object_id">>] = d[<<"selected_object_id">>],
         \A id : <<"objects", id>> \in DOMAIN e <=> <<"objects", id>> \in DOMAIN d,
         \A id : <<"objects", id>> \in DOMAIN d =>
           e[<<"objects", id>>] = d[<<"objects", id>>],
         \A id, k : <<"objects", id, k>> \in DOMAIN d => <<"objects", id, k>> \in DOMAIN e,
         e[<<"render">>] = "{}",
         <<"render", "status">> \in DOMAIN e => e[<<"render", "status">>] \in RenderStatus
  PROVE  Sound(e)
<1>1. ObjectIds(e) = ObjectIds(d)
  <2>1. \A id : id \in ObjectIds(e) <=> id \in ObjectIds(d)
    <3>1. \A id : id \in ObjectIds(e) <=> <<"objects", id>> \in DOMAIN e
      BY ObjectIdsArePaths
    <3>2. \A id : id \in ObjectIds(d) <=> <<"objects", id>> \in DOMAIN d
      BY ObjectIdsArePaths
    <3> QED BY <3>1, <3>2
  <2> QED BY <2>1
<1>2. \A id \in ObjectIds(d) : <<"objects", id>> \in DOMAIN d
  BY ObjectIdsArePaths
<1>3. e[<<"selected_object_id">>] \in ObjectIds(e) \cup {"surface.command"}
  BY <1>1 DEF Sound
<1>4. ASSUME NEW id \in ObjectIds(e)
      PROVE  /\ id \in Namespaced /\ e[<<"objects", id>>] = "{}"
             /\ <<"objects", id, "type">> \in DOMAIN e
             /\ <<"objects", id, "status">> \in DOMAIN e
  <2>1. id \in ObjectIds(d) /\ <<"objects", id>> \in DOMAIN d
    BY <1>1, <1>2
  <2>2. /\ id \in Namespaced /\ d[<<"objects", id>>] = "{}"
        /\ <<"objects", id, "type">> \in DOMAIN d
        /\ <<"objects", id, "status">> \in DOMAIN d
    BY <2>1 DEF Sound
  <2> QED BY <2>1, <2>2
<1> QED BY <1>3, <1>4 DEF Sound

(* Fields set in render, with a status that render may have.               *)
LEMMA SoundRender ==
  ASSUME NEW d, IsDocument(d), Sound(d), <<"selected_object_id">> \in DOMAIN d,
         <<"render">> \in DOMAIN d,
         NEW fields, DOMAIN fields \subseteq Text,
         \A k \in DOMAIN fields : fields[k] \in Text,
         "status" \in DOMAIN fields, fields["status"] \in RenderStatus
  PROVE  LET e == WithFields(d, <<"render">>, fields)
         IN IsDocument(e) /\ Outside(d, e, <<"render">>) /\ Sound(e)
            /\ \A r \in ALLOWED_ROOTS : <<r>> \in DOMAIN d => <<r>> \in DOMAIN e
<1> DEFINE e == WithFields(d, <<"render">>, fields)
<1>1. <<"render">> \in Paths /\ "render" \in Text
  BY TextAssumption DEF IsDocument, ALLOWED_ROOTS
<1>2. /\ IsDocument(e) /\ Outside(d, e, <<"render">>)
      /\ \A k \in DOMAIN fields :
           <<"render">> \o <<k>> \in DOMAIN e /\ e[<<"render">> \o <<k>>] = fields[k]
      /\ \A q \in DOMAIN d :
           (\A k \in DOMAIN fields : ~IsPrefix(<<"render">> \o <<k>>, q))
             => q \in DOMAIN e /\ e[q] = d[q]
  BY <1>1, FieldsAreLocal
<1>3. ASSUME NEW q \in Paths, q # <<>>, Head(q) # "render"
      PROVE  /\ q \in DOMAIN e <=> q \in DOMAIN d
             /\ q \in DOMAIN d => e[q] = d[q]
  <2>1. ~IsPrefix(<<"render">>, q)
    BY <1>1, <1>3, PrefixHead
  <2> QED BY <1>2, <2>1 DEF Outside
<1>4. e[<<"selected_object_id">>] = d[<<"selected_object_id">>]
  BY <1>3 DEF IsDocument
<1>5. ASSUME NEW id, NEW q \in Paths, q # <<>>, Head(q) = "objects"
      PROVE  /\ q \in DOMAIN e <=> q \in DOMAIN d
             /\ q \in DOMAIN d => e[q] = d[q]
  BY <1>3, <1>5
<1>6. ASSUME NEW id
      PROVE  /\ <<"objects", id>> \in DOMAIN e <=> <<"objects", id>> \in DOMAIN d
             /\ <<"objects", id>> \in DOMAIN d => e[<<"objects", id>>] = d[<<"objects", id>>]
  <2>1. CASE <<"objects", id>> \in Paths
    BY <2>1, <1>5
  <2>2. CASE <<"objects", id>> \notin Paths
    BY <2>2, <1>2 DEF IsDocument
  <2> QED BY <2>1, <2>2
<1>7. \A id, k : <<"objects", id, k>> \in DOMAIN d => <<"objects", id, k>> \in DOMAIN e
  BY <1>2, <1>5 DEF IsDocument
<1>8. <<"render">> \in DOMAIN e /\ e[<<"render">>] = "{}"
  <2>1. ASSUME NEW k \in DOMAIN fields PROVE ~IsPrefix(<<"render">> \o <<k>>, <<"render">>)
    <3>1. k \in Text
      OBVIOUS
    <3>2. Len(<<"render">>) = 1
      OBVIOUS
    <3> QED BY <1>1, <3>1, <3>2, PrefixOfChild
  <2> QED BY <1>2, <2>1 DEF Sound
<1>9. e[<<"render", "status">>] \in RenderStatus
  <2>1. <<"render">> \o <<"status">> = <<"render", "status">>
    BY <1>1, TextAssumption, PairPath
  <2> QED BY <1>2, <2>1
<1>10. Sound(e)
  <2>1. \A id : <<"objects", id>> \in DOMAIN e <=> <<"objects", id>> \in DOMAIN d
    BY <1>6
  <2>2. \A id : <<"objects", id>> \in DOMAIN d => e[<<"objects", id>>] = d[<<"objects", id>>]
    BY <1>6
  <2>3. e[<<"render">>] = "{}" /\ IsDocument(e)
    BY <1>2, <1>8
  <2> HIDE DEF e
  <2> QED BY <2>1, <2>2, <2>3, <1>4, <1>7, <1>9, SoundCarries
<1>11. ASSUME NEW r \in ALLOWED_ROOTS, <<r>> \in DOMAIN d PROVE <<r>> \in DOMAIN e
  <2>1. CASE r = "render"
    BY <2>1, <1>8
  <2>2. CASE r # "render"
    BY <2>2, <1>3, <1>11 DEF IsDocument
  <2> QED BY <2>1, <2>2
<1> QED BY <1>2, <1>10, <1>11

(* An edit under a root that Sound does not read.                          *)
LEMMA SoundElsewhere ==
  ASSUME NEW d, IsDocument(d), Sound(d), NEW e, IsDocument(e),
         NEW path \in Paths, path # <<>>, Outside(d, e, path),
         Head(path) \notin {"selected_object_id", "objects", "render"},
         <<"selected_object_id">> \in DOMAIN d, <<"render">> \in DOMAIN d
  PROVE  Sound(e)
<1>1. ASSUME NEW q \in Paths, q # <<>>,
             Head(q) \in {"selected_object_id", "objects", "render"}
      PROVE  /\ q \in DOMAIN e <=> q \in DOMAIN d
             /\ q \in DOMAIN d => e[q] = d[q]
  <2>1. ~IsPrefix(path, q)
    BY <1>1, PrefixHead
  <2> QED BY <2>1 DEF Outside
<1>2. ASSUME NEW q, q \in DOMAIN d \/ q \in DOMAIN e, q # <<>>,
             Head(q) \in {"selected_object_id", "objects", "render"}
      PROVE  /\ q \in DOMAIN e <=> q \in DOMAIN d
             /\ q \in DOMAIN d => e[q] = d[q]
  BY <1>1, <1>2 DEF IsDocument
<1>3. e[<<"selected_object_id">>] = d[<<"selected_object_id">>]
  BY <1>2
<1>4. ASSUME NEW id
      PROVE  <<"objects", id>> \in DOMAIN e <=> <<"objects", id>> \in DOMAIN d
  BY <1>2
<1>5. ASSUME NEW id, <<"objects", id>> \in DOMAIN d
      PROVE  e[<<"objects", id>>] = d[<<"objects", id>>]
  BY <1>2, <1>5
<1>6. ASSUME NEW id, NEW k, <<"objects", id, k>> \in DOMAIN d
      PROVE  <<"objects", id, k>> \in DOMAIN e
  BY <1>2, <1>6
<1>7. e[<<"render">>] = "{}"
  <2>1. e[<<"render">>] = d[<<"render">>]
    BY <1>2
  <2> QED BY <2>1 DEF Sound
<1>8. <<"render", "status">> \in DOMAIN e => e[<<"render", "status">>] \in RenderStatus
  <2> SUFFICES ASSUME <<"render", "status">> \in DOMAIN e
               PROVE  e[<<"render", "status">>] \in RenderStatus
    OBVIOUS
  <2>1. <<"render", "status">> \in DOMAIN d
        /\ e[<<"render", "status">>] = d[<<"render", "status">>]
    BY <1>2
  <2> QED BY <2>1 DEF Sound
<1> QED BY <1>3, <1>4, <1>5, <1>6, <1>7, <1>8, SoundCarries

LEMMA PrefixOfEqualLength ==
  ASSUME NEW path \in Paths, NEW q \in Paths, IsPrefix(path, q), Len(path) = Len(q)
  PROVE  path = q
<1>1. SubSeq(path, 1, Len(path)) = path /\ SubSeq(q, 1, Len(q)) = q
  <2>1. /\ SubSeq(path, 1, Len(path)) \in Paths /\ Len(SubSeq(path, 1, Len(path))) = Len(path)
        /\ SubSeq(q, 1, Len(q)) \in Paths /\ Len(SubSeq(q, 1, Len(q))) = Len(q)
    BY DEF Paths
  <2>2. /\ \A i \in 1 .. Len(path) : SubSeq(path, 1, Len(path))[i] = path[i]
        /\ \A i \in 1 .. Len(q) : SubSeq(q, 1, Len(q))[i] = q[i]
    BY DEF Paths
  <2> QED BY <2>1, <2>2, SameItems
<1> QED BY <1>1 DEF IsPrefix

(* The status of an object that exists.                                    *)
LEMMA SoundStatus ==
  ASSUME NEW d, IsDocument(d), Sound(d), <<"selected_object_id">> \in DOMAIN d,
         <<"render">> \in DOMAIN d, <<"objects", "node.renderer">> \in DOMAIN d,
         NEW s \in Text
  PROVE  LET path == <<"objects", "node.renderer">>
             e == WithFields(d, path, [status |-> s])
         IN IsDocument(e) /\ Outside(d, e, path) /\ Sound(e)
            /\ \A r \in ALLOWED_ROOTS : <<r>> \in DOMAIN d => <<r>> \in DOMAIN e
<1> DEFINE path == <<"objects", "node.renderer">>
           fields == [status |-> s]
           e == WithFields(d, path, fields)
           child == path \o <<"status">>
<1>1. /\ path \in Paths /\ Len(path) = 2 /\ Head(path) = "objects"
      /\ "status" \in Text /\ DOMAIN fields = {"status"} /\ fields["status"] = s
  <2>1. path \in Paths
    BY DEF IsDocument
  <2>2. Len(path) = 2 /\ Head(path) = "objects"
    OBVIOUS
  <2>3. "status" \in Text
    BY TextAssumption
  <2>4. DOMAIN fields = {"status"} /\ fields["status"] = s
    OBVIOUS
  <2> QED BY <2>1, <2>2, <2>3, <2>4
<1>2. child \in Paths /\ Len(child) = 3
  BY <1>1, ChildPath
<1>3. /\ IsDocument(e) /\ Outside(d, e, path) /\ child \in DOMAIN e
      /\ \A q \in DOMAIN d : ~IsPrefix(child, q) => q \in DOMAIN e /\ e[q] = d[q]
      /\ \A q \in DOMAIN e \ DOMAIN d : q = child
  <2> HIDE DEF fields
  <2>1. DOMAIN fields \subseteq Text /\ \A k \in DOMAIN fields : fields[k] \in Text
    BY <1>1
  <2>2. /\ IsDocument(e) /\ Outside(d, e, path)
        /\ \A k \in DOMAIN fields : path \o <<k>> \in DOMAIN e
        /\ \A q \in DOMAIN d :
             (\A k \in DOMAIN fields : ~IsPrefix(path \o <<k>>, q))
               => q \in DOMAIN e /\ e[q] = d[q]
        /\ \A q \in DOMAIN e \ DOMAIN d : \E k \in DOMAIN fields : q = path \o <<k>>
    BY <1>1, <2>1, FieldsAreLocal
  <2> HIDE DEF e, path
  <2> QED BY <1>1, <2>2
<1>4. ASSUME NEW q, q \in DOMAIN d \/ q \in DOMAIN e, Len(q) < 3
      PROVE  q \in DOMAIN d /\ q \in DOMAIN e /\ e[q] = d[q]
  <2>1. ~IsPrefix(child, q)
    BY <1>2, <1>3, <1>4 DEF IsPrefix, IsDocument, Paths
  <2> QED BY <1>2, <1>3, <1>4, <2>1
<1>5. ASSUME NEW id
      PROVE  /\ <<"objects", id>> \in DOMAIN e <=> <<"objects", id>> \in DOMAIN d
             /\ <<"objects", id>> \in DOMAIN d => e[<<"objects", id>>] = d[<<"objects", id>>]
  <2>1. Len(<<"objects", id>>) < 3
    OBVIOUS
  <2> HIDE DEF e
  <2> QED BY <1>4, <2>1
<1>6. ASSUME NEW id, NEW k, <<"objects", id, k>> \in DOMAIN d
      PROVE  <<"objects", id, k>> \in DOMAIN e
  <2>1. CASE IsPrefix(child, <<"objects", id, k>>)
    <3>1. <<"objects", id, k>> = child
      BY <1>2, <1>6, <2>1, PrefixOfEqualLength DEF IsDocument
    <3> QED BY <1>3, <3>1
  <2>2. CASE ~IsPrefix(child, <<"objects", id, k>>)
    BY <1>3, <1>6, <2>2
  <2> QED BY <2>1, <2>2
<1>7. /\ e[<<"selected_object_id">>] = d[<<"selected_object_id">>]
      /\ e[<<"render">>] = "{}"
  <2>1. Len(<<"selected_object_id">>) < 3 /\ Len(<<"render">>) < 3
    OBVIOUS
  <2>2. e[<<"selected_object_id">>] = d[<<"selected_object_id">>] /\ e[<<"render">>] = d[<<"render">>]
    BY <1>4, <2>1
  <2> QED BY <2>2 DEF Sound
<1>8. <<"render", "status">> \in DOMAIN e => e[<<"render", "status">>] \in RenderStatus
  <2> SUFFICES ASSUME <<"render", "status">> \in DOMAIN e
               PROVE  e[<<"render", "status">>] \in RenderStatus
    OBVIOUS
  <2>1. <<"render", "status">> \in DOMAIN d
        /\ e[<<"render", "status">>] = d[<<"render", "status">>]
    <3>1. Len(<<"render", "status">>) < 3
      OBVIOUS
    <3> QED BY <1>4, <3>1
  <2> QED BY <2>1 DEF Sound
<1>9. Sound(e)
  <2> HIDE DEF e
  <2> QED BY <1>3, <1>5, <1>6, <1>7, <1>8, SoundCarries
<1>10. ASSUME NEW r \in ALLOWED_ROOTS, <<r>> \in DOMAIN d PROVE <<r>> \in DOMAIN e
  BY <1>4, <1>10
<1> QED BY <1>3, <1>9, <1>10
-----------------------------------------------------------------------------
(* The inductive invariant.                                                *)

Whole == <<"layer_state">>

SoundState(d) ==
  /\ IsDocument(d) /\ Sound(d) /\ ProtectedIn(d)
  /\ \A r \in ALLOWED_ROOTS : <<r>> \in DOMAIN d

WorkTyped ==
  /\ step \in Step /\ class \in Text
  /\ ops \in Seq(Range(ops)) /\ done \in Nat
  /\ \A i \in DOMAIN ops : IsOperation(ops[i])

(* The copy is as protected as the document while operations are applied.  *)
DraftSafe ==
  step = "apply" =>
    /\ Valid /\ IsDocument(draft) /\ ProtectedIn(draft)
    /\ SparesLayers => Whole \in DOMAIN draft /\ IdentityOf(draft) = IdentityOf(doc)

GateInv == SoundState(doc) /\ WorkTyped /\ DraftSafe

LEMMA KeepsProtected ==
  ASSUME NEW d, NEW e, NEW path \in Paths, path # <<>>, Outside(d, e, path),
         Head(path) \notin PROTECTED_ROOTS, ProtectedIn(d)
  PROVE  ProtectedIn(e)
<1> SUFFICES ASSUME NEW r \in PROTECTED_ROOTS, <<r>> \in DOMAIN Genesis
             PROVE  <<r>> \in DOMAIN e /\ e[<<r>>] = Genesis[<<r>>]
  BY DEF ProtectedIn
<1>1. <<r>> \in Paths /\ Head(<<r>>) = r /\ <<r>> # <<>>
  <2>1. r \in Text
    BY TextAssumption
  <2> QED BY <2>1 DEF Paths
<1>2. ~IsPrefix(path, <<r>>)
  BY <1>1, PrefixHead
<1>3. <<r>> \in DOMAIN d /\ d[<<r>>] = Genesis[<<r>>]
  BY DEF ProtectedIn
<1> QED BY <1>1, <1>2, <1>3 DEF Outside

(* No path but the layers' own and the identity's reaches the identity.    *)
LEMMA KeepsIdentity ==
  ASSUME NEW d, IsDocument(d), NEW e, IsDocument(e), NEW path \in Paths, path # <<>>,
         Outside(d, e, path), path # Whole,
         ~(Len(path) > 1 /\ Head(path) = "layer_state" /\ path[2] = "identity"),
         Whole \in DOMAIN d
  PROVE  Whole \in DOMAIN e /\ IdentityOf(e) = IdentityOf(d)
<1> DEFINE identity == <<"layer_state", "identity">>
<1>1. "layer_state" \in Text /\ "identity" \in Text
  BY TextAssumption DEF ALLOWED_ROOTS
<1>2. Whole \in DOMAIN e
  <2>1. ~IsPrefix(path, Whole)
    BY <1>1, PrefixOfRoot DEF Whole
  <2> QED BY <2>1 DEF Outside, IsDocument
<1>3. ASSUME NEW q \in Paths, IsPrefix(identity, q)
      PROVE  ~IsPrefix(path, q)
  <2>1. /\ identity \in Paths /\ Len(identity) = 2 /\ identity # <<>>
        /\ Head(identity) = "layer_state" /\ identity[2] = "identity"
    BY <1>1 DEF Paths
  <2>2. Head(q) = "layer_state" /\ q[2] = "identity"
    BY <1>3, <2>1, PrefixHead, PrefixSecond
  <2> SUFFICES ASSUME IsPrefix(path, q) PROVE FALSE
    OBVIOUS
  <2>3. Head(path) = "layer_state"
    BY <2>2, PrefixHead
  <2>4. CASE Len(path) > 1
    BY <2>2, <2>3, <2>4, PrefixSecond
  <2>5. CASE ~(Len(path) > 1)
    BY <2>3, <2>5 DEF Paths, Whole
  <2> QED BY <2>4, <2>5
<1>4. Below(e, identity) = Below(d, identity)
      /\ \A q \in Below(d, identity) : e[q] = d[q]
  BY <1>3 DEF Below, Outside, IsDocument
<1> QED BY <1>2, <1>4 DEF IdentityOf, Restrict
LEMMA FromDictKeeps ==
  ASSUME NEW d, IsDocument(d)
  PROVE  /\ ProtectedIn(d) => ProtectedIn(FromDict(d))
         /\ Whole \in DOMAIN d => /\ Whole \in DOMAIN FromDict(d)
                                  /\ IdentityOf(FromDict(d)) = IdentityOf(d)
<1> DEFINE e == FromDict(d)
           identity == <<"layer_state", "identity">>
<1>1. /\ IsDocument(e)
      /\ \A q \in DOMAIN d : q \in DOMAIN e /\ e[q] = d[q]
      /\ \A q \in DOMAIN e \ DOMAIN d : Head(q) \in Missing(d)
  BY FromDictAddsRoots
<1> HIDE DEF e
<1>2. ProtectedIn(d) => ProtectedIn(e)
  BY <1>1 DEF ProtectedIn
<1>3. ASSUME Whole \in DOMAIN d PROVE IdentityOf(e) = IdentityOf(d)
  <2>1. ASSUME NEW q \in DOMAIN e, IsPrefix(identity, q) PROVE q \in DOMAIN d
    <3>1. "layer_state" \in Text /\ "identity" \in Text
      BY TextAssumption DEF ALLOWED_ROOTS
    <3>2. identity \in Paths /\ identity # <<>> /\ Head(identity) = "layer_state"
      BY <3>1 DEF Paths
    <3>3. Head(q) = "layer_state"
      BY <1>1, <2>1, <3>2, PrefixHead DEF IsDocument
    <3>4. Head(q) \notin Missing(d)
      BY <1>3, <3>3 DEF Missing, Whole
    <3> QED BY <1>1, <3>4
  <2>2. Below(e, identity) = Below(d, identity)
        /\ \A q \in Below(d, identity) : e[q] = d[q]
    BY <1>1, <2>1 DEF Below
  <2> QED BY <2>2 DEF IdentityOf, Restrict
<1> QED BY <1>1, <1>2, <1>3 DEF e

(* A field edit of render keeps a state sound and its identity as it was.  *)
EditsOfRender(d, fields) ==
  LET e == WithFields(d, <<"render">>, fields)
  IN SoundState(e) /\ IdentityOf(e) = IdentityOf(d)

LEMMA RenderEdits ==
  ASSUME NEW d, SoundState(d),
         NEW fields, DOMAIN fields \subseteq Text,
         \A k \in DOMAIN fields : fields[k] \in Text,
         "status" \in DOMAIN fields, fields["status"] \in RenderStatus
  PROVE  EditsOfRender(d, fields)
<1> DEFINE e == WithFields(d, <<"render">>, fields)
<1>1. /\ IsDocument(d) /\ Sound(d) /\ ProtectedIn(d) /\ Whole \in DOMAIN d
      /\ <<"selected_object_id">> \in DOMAIN d /\ <<"render">> \in DOMAIN d
      /\ \A r \in ALLOWED_ROOTS : <<r>> \in DOMAIN d
  BY DEF SoundState, ALLOWED_ROOTS, Whole
<1>2. /\ IsDocument(e) /\ Outside(d, e, <<"render">>) /\ Sound(e)
      /\ \A r \in ALLOWED_ROOTS : <<r>> \in DOMAIN d => <<r>> \in DOMAIN e
  BY <1>1, SoundRender
<1> HIDE DEF e
<1>3. /\ <<"render">> \in Paths /\ <<"render">> # <<>> /\ Head(<<"render">>) = "render"
      /\ <<"render">> # Whole /\ Len(<<"render">>) = 1
      /\ Head(<<"render">>) \notin PROTECTED_ROOTS
  BY <1>1 DEF IsDocument, Whole, PROTECTED_ROOTS
<1>4. ProtectedIn(e)
  BY <1>1, <1>2, <1>3, KeepsProtected
<1>5. IdentityOf(e) = IdentityOf(d)
  BY <1>1, <1>2, <1>3, KeepsIdentity
<1> QED BY <1>1, <1>2, <1>4, <1>5 DEF SoundState, EditsOfRender, e

(* Fields of render are not objects.                                       *)
ObjectIsKept(d, e) ==
  \A id : <<"objects", id>> \in DOMAIN d => <<"objects", id>> \in DOMAIN e

LEMMA RenderKeepsObjects ==
  ASSUME NEW d, SoundState(d),
         NEW fields, DOMAIN fields \subseteq Text,
         \A k \in DOMAIN fields : fields[k] \in Text
  PROVE  ObjectIsKept(d, WithFields(d, <<"render">>, fields))
<1> DEFINE e == WithFields(d, <<"render">>, fields)
<1>1. IsDocument(d) /\ <<"render">> \in Paths
  BY DEF SoundState, ALLOWED_ROOTS, IsDocument
<1>2. Outside(d, e, <<"render">>)
  BY <1>1, FieldsAreLocal
<1> HIDE DEF e
<1>3. ASSUME NEW id, <<"objects", id>> \in DOMAIN d PROVE <<"objects", id>> \in DOMAIN e
  <2>1. <<"objects", id>> \in Paths /\ Head(<<"objects", id>>) # Head(<<"render">>)
    BY <1>1, <1>3 DEF IsDocument
  <2>2. ~IsPrefix(<<"render">>, <<"objects", id>>)
    BY <1>1, <2>1, PrefixHead
  <2> QED BY <1>2, <1>3, <2>1, <2>2 DEF Outside
<1> QED BY <1>3 DEF ObjectIsKept, e

(* What commit_proposal and verify_render set in render.                   *)
RenderEdit(fields) ==
  /\ DOMAIN fields \subseteq Text /\ \A k \in DOMAIN fields : fields[k] \in Text
  /\ {"status", "pending_job_id"} \subseteq DOMAIN fields
  /\ fields["status"] \in RenderStatus
  /\ fields["status"] = "queued" <=> fields["pending_job_id"] # ""

LEMMA ProposalEdits == ASSUME NEW c \in Text PROVE RenderEdit(RenderFields(c))
<1> DEFINE F == RenderFields(c)
<1>1. {"status", "requested_mode", "pending_job_id", "committed_frame_id",
       "queued", "render_job", "verified", "", "frame_native"} \subseteq Text
  BY TextAssumption DEF RenderStatus
<1>2. {"queued", "verified"} \subseteq RenderStatus
  BY DEF RenderStatus
<1>3. CASE c \in ImageModes
  <2>1. /\ DOMAIN F = {"status", "requested_mode", "pending_job_id"}
        /\ F["status"] = "queued" /\ F["requested_mode"] = c
        /\ F["pending_job_id"] = "render_job"
    BY <1>3 DEF RenderFields
  <2> HIDE DEF F
  <2>2. RenderEdit(F)
    BY <1>1, <1>2, <2>1 DEF RenderEdit
  <2> QED BY <2>2 DEF F
<1>4. CASE c \notin ImageModes
  <2>1. /\ DOMAIN F = {"status", "requested_mode", "pending_job_id", "committed_frame_id"}
        /\ F["status"] = "verified" /\ F["requested_mode"] = c
        /\ F["pending_job_id"] = "" /\ F["committed_frame_id"] = "frame_native"
    BY <1>4 DEF RenderFields
  <2> HIDE DEF F
  <2>2. RenderEdit(F)
    BY <1>1, <1>2, <2>1 DEF RenderEdit
  <2> QED BY <2>2 DEF F
<1> QED BY <1>3, <1>4

LEMMA VerdictEdits == ASSUME NEW status \in RenderStatus PROVE RenderEdit(VerdictFields(status))
<1> DEFINE F == VerdictFields(status)
<1>1. {"status", "pending_job_id", "committed_frame_id",
       "render_job", "", "frame_candidate"} \subseteq Text /\ status \in Text
  BY TextAssumption
<1>2. CASE status = "verified"
  <2>1. /\ DOMAIN F = {"status", "pending_job_id", "committed_frame_id"}
        /\ F["status"] = status /\ F["pending_job_id"] = ""
        /\ F["committed_frame_id"] = "frame_candidate"
    BY <1>2 DEF VerdictFields
  <2> HIDE DEF F
  <2>2. RenderEdit(F)
    BY <1>1, <1>2, <2>1 DEF RenderEdit
  <2> QED BY <2>2 DEF F
<1>3. CASE status # "verified"
  <2>1. /\ DOMAIN F = {"status", "pending_job_id"} /\ F["status"] = status
        /\ F["pending_job_id"] = IF status = "queued" THEN "render_job" ELSE ""
    BY <1>3 DEF VerdictFields
  <2> HIDE DEF F
  <2>2. RenderEdit(F)
    BY <1>1, <2>1 DEF RenderEdit
  <2> QED BY <2>2 DEF F
<1> QED BY <1>2, <1>3

LEMMA RenderShows ==
  ASSUME NEW d, IsDocument(d), <<"render">> \in DOMAIN d, NEW fields, RenderEdit(fields)
  PROVE  QueueIsNamed(WithFields(d, <<"render">>, fields))
<1> DEFINE e == WithFields(d, <<"render">>, fields)
<1>1. <<"render">> \in Paths /\ "render" \in Text
  BY TextAssumption DEF IsDocument, ALLOWED_ROOTS
<1>2. \A k \in DOMAIN fields :
        <<"render">> \o <<k>> \in DOMAIN e /\ e[<<"render">> \o <<k>>] = fields[k]
  <2>1. DOMAIN fields \subseteq Text /\ \A k \in DOMAIN fields : fields[k] \in Text
    BY DEF RenderEdit
  <2>2. /\ IsDocument(e) /\ Outside(d, e, <<"render">>)
        /\ \A k \in DOMAIN fields :
             <<"render">> \o <<k>> \in DOMAIN e /\ e[<<"render">> \o <<k>>] = fields[k]
    BY <1>1, <2>1, FieldsAreLocal
  <2> QED BY <2>2
<1> HIDE DEF e
<1>3. /\ <<"render">> \o <<"status">> = <<"render", "status">>
      /\ <<"render">> \o <<"pending_job_id">> = <<"render", "pending_job_id">>
  <2>1. "status" \in Text /\ "pending_job_id" \in Text
    BY TextAssumption
  <2> QED BY <1>1, <2>1, PairPath
<1>4. "status" \in DOMAIN fields /\ "pending_job_id" \in DOMAIN fields
  BY DEF RenderEdit
<1>5. /\ <<"render", "status">> \in DOMAIN e /\ e[<<"render", "status">>] = fields["status"]
      /\ <<"render", "pending_job_id">> \in DOMAIN e
      /\ e[<<"render", "pending_job_id">>] = fields["pending_job_id"]
  BY <1>2, <1>3, <1>4
<1> QED BY <1>5 DEF QueueIsNamed, RenderEdit, e

LEMMA QueueElsewhere ==
  ASSUME NEW d, IsDocument(d), QueueIsNamed(d), NEW e, NEW path \in Paths, path # <<>>,
         Head(path) # "render", Outside(d, e, path)
  PROVE  QueueIsNamed(e)
<1>1. ASSUME NEW q \in DOMAIN d, q # <<>>, Head(q) = "render"
      PROVE  q \in DOMAIN e /\ e[q] = d[q]
  <2>1. q \in Paths /\ ~IsPrefix(path, q)
    BY <1>1, PrefixHead DEF IsDocument
  <2> QED BY <2>1 DEF Outside
<1>2. ASSUME NEW k, <<"render", k>> \in DOMAIN d
      PROVE  <<"render", k>> \in DOMAIN e /\ e[<<"render", k>>] = d[<<"render", k>>]
  <2>1. <<"render", k>> # <<>> /\ Head(<<"render", k>>) = "render"
    OBVIOUS
  <2> QED BY <1>1, <1>2, <2>1
<1>3. /\ <<"render", "status">> \in DOMAIN d /\ <<"render", "pending_job_id">> \in DOMAIN d
  BY DEF QueueIsNamed
<1> QED BY <1>2, <1>3 DEF QueueIsNamed

(* What commit_proposal makes of the copy.                                 *)
LEMMA RenderedIsSound ==
  ASSUME NEW d, SoundState(d), NEW c \in Text
  PROVE  SoundState(RenderedBy(d, c)) /\ IdentityOf(RenderedBy(d, c)) = IdentityOf(d)
<1>1. RenderEdit(RenderFields(c))
  BY ProposalEdits
<1>2. EditsOfRender(d, RenderFields(c))
  BY <1>1, RenderEdits DEF RenderEdit
<1> QED BY <1>2 DEF EditsOfRender, RenderedBy

(* Fields set in any dict of another root that no check reads.             *)
LEMMA LayerEdits ==
  ASSUME NEW d, SoundState(d), NEW fields, DOMAIN fields \subseteq Text,
         \A k \in DOMAIN fields : fields[k] \in Text
  PROVE  LET e == WithFields(d, <<"layer_state", "meta_model">>, fields)
         IN SoundState(e) /\ IdentityOf(e) = IdentityOf(d)
<1> DEFINE path == <<"layer_state", "meta_model">>
           e == WithFields(d, path, fields)
<1>1. /\ IsDocument(d) /\ Sound(d) /\ ProtectedIn(d) /\ Whole \in DOMAIN d
      /\ <<"selected_object_id">> \in DOMAIN d /\ <<"render">> \in DOMAIN d
      /\ \A r \in ALLOWED_ROOTS : <<r>> \in DOMAIN d
  BY DEF SoundState, ALLOWED_ROOTS, Whole
<1>2. /\ path \in Paths /\ path # <<>> /\ Head(path) = "layer_state" /\ Len(path) = 2
      /\ path[2] = "meta_model" /\ path # Whole
  <2>1. "layer_state" \in Text /\ "meta_model" \in Text
    BY TextAssumption DEF ALLOWED_ROOTS
  <2> QED BY <2>1 DEF Paths, Whole
<1>3. /\ IsDocument(e) /\ Outside(d, e, path)
  BY <1>1, <1>2, FieldsAreLocal
<1> HIDE DEF e, path
<1>4. Sound(e)
  BY <1>1, <1>2, <1>3, SoundElsewhere
<1>5. ProtectedIn(e)
  <2>1. Head(path) \notin PROTECTED_ROOTS
    BY <1>2 DEF PROTECTED_ROOTS
  <2> QED BY <1>1, <1>2, <1>3, <2>1, KeepsProtected
<1>6. Whole \in DOMAIN e /\ IdentityOf(e) = IdentityOf(d)
  BY <1>1, <1>2, <1>3, KeepsIdentity
<1>7. ASSUME NEW r \in ALLOWED_ROOTS PROVE <<r>> \in DOMAIN e
  <2>1. <<r>> \in DOMAIN d /\ Len(<<r>>) = 1 /\ <<r>> \in Paths
    BY <1>1 DEF IsDocument
  <2>2. ~IsPrefix(path, <<r>>)
    BY <1>2, <2>1 DEF IsPrefix
  <2> QED BY <1>3, <2>1, <2>2 DEF Outside
<1> QED BY <1>1, <1>3, <1>4, <1>5, <1>6, <1>7 DEF SoundState, e, path

(* The verdict shown by the renderer's node.                               *)
LEMMA RendererEdits ==
  ASSUME NEW d, SoundState(d), <<"objects", "node.renderer">> \in DOMAIN d,
         NEW s \in Text
  PROVE  LET e == WithFields(d, <<"objects", "node.renderer">>, [status |-> s])
         IN SoundState(e) /\ IdentityOf(e) = IdentityOf(d)
<1> DEFINE path == <<"objects", "node.renderer">>
           e == WithFields(d, path, [status |-> s])
<1>1. /\ IsDocument(d) /\ Sound(d) /\ ProtectedIn(d) /\ Whole \in DOMAIN d
      /\ <<"selected_object_id">> \in DOMAIN d /\ <<"render">> \in DOMAIN d
      /\ \A r \in ALLOWED_ROOTS : <<r>> \in DOMAIN d
  BY DEF SoundState, ALLOWED_ROOTS, Whole
<1>2. /\ path \in Paths /\ path # <<>> /\ Head(path) = "objects" /\ path # Whole
  BY <1>1 DEF IsDocument, Whole
<1>3. /\ IsDocument(e) /\ Outside(d, e, path) /\ Sound(e)
      /\ \A r \in ALLOWED_ROOTS : <<r>> \in DOMAIN d => <<r>> \in DOMAIN e
  BY <1>1, SoundStatus
<1> HIDE DEF e, path
<1>4. ProtectedIn(e)
  <2>1. Head(path) \notin PROTECTED_ROOTS
    BY <1>2 DEF PROTECTED_ROOTS
  <2> QED BY <1>1, <1>2, <1>3, <2>1, KeepsProtected
<1>5. IdentityOf(e) = IdentityOf(d)
  BY <1>1, <1>2, <1>3, KeepsIdentity
<1> QED BY <1>1, <1>3, <1>4, <1>5 DEF SoundState, e, path
-----------------------------------------------------------------------------
(* Every step keeps the invariant, and the identity of a proposal that     *)
(* spares the whole of the layers.                                         *)

Kept == GateInv' /\ (SparesLayers => IdentityOf(doc') = IdentityOf(doc))

LEMMA InitKeeps == Init => GateInv
<1> SUFFICES ASSUME Init PROVE GateInv
  OBVIOUS
<1>1. SoundState(doc)
  BY GenesisAssumption DEF Init, SoundState, ProtectedIn
<1>2. WorkTyped
  <2>1. class \in Text
    BY TextAssumption DEF Init, Classes
  <2>2. ops = <<>> /\ <<>> \in Seq(Range(<<>>)) /\ DOMAIN ops = {}
    BY DEF Init
  <2> QED BY <2>1, <2>2 DEF WorkTyped, Init, Step
<1>3. DraftSafe
  BY DEF DraftSafe, Init
<1> QED BY <1>1, <1>2, <1>3 DEF GateInv

LEMMA RestKeeps == Rest => WorkTyped' /\ DraftSafe'
<1> SUFFICES ASSUME Rest PROVE WorkTyped' /\ DraftSafe'
  OBVIOUS
<1>1. class' \in Text
  BY TextAssumption DEF Rest, Classes
<1>2. ops' = <<>> /\ <<>> \in Seq(Range(<<>>)) /\ DOMAIN ops' = {}
  BY DEF Rest
<1> QED BY <1>1, <1>2 DEF WorkTyped, DraftSafe, Rest, Step

LEMMA SubmitKeeps ==
  ASSUME GateInv, NEW who, NEW operations, NEW c, Submit(who, operations, c)
  PROVE  Kept
<1>1. doc' = doc /\ SoundState(doc)'
  BY DEF Submit, world, GateInv
<1>2. WorkTyped'
  BY DEF Submit, WorkTyped, Step
<1>3. DraftSafe'
  BY DEF Submit, DraftSafe
<1> QED BY <1>1, <1>2, <1>3 DEF Kept, GateInv

LEMMA ValidateKeeps == ASSUME GateInv, Validate PROVE Kept
<1>1. doc' = doc /\ SoundState(doc)' /\ ops' = ops
  BY DEF Validate, world, GateInv
<1>2. WorkTyped'
  BY DEF Validate, WorkTyped, GateInv, Step
<1>3. DraftSafe'
  <2>1. Valid' /\ draft' = doc
    BY <1>1 DEF Validate, Valid
  <2>2. IsDocument(doc) /\ ProtectedIn(doc) /\ Whole \in DOMAIN doc
    BY DEF GateInv, SoundState, Whole, ALLOWED_ROOTS
  <2> QED BY <1>1, <2>1, <2>2 DEF DraftSafe
<1> QED BY <1>1, <1>2, <1>3 DEF Kept, GateInv

LEMMA ApplyKeeps == ASSUME GateInv, ApplyOperation PROVE Kept
<1> DEFINE o == ops[done + 1]
<1>1. /\ doc' = doc /\ SoundState(doc)' /\ ops' = ops /\ step' = step
      /\ step = "apply" /\ draft' = Applied(draft, o) /\ done' = done + 1
  BY DEF ApplyOperation, world, GateInv
<1>2. WorkTyped'
  BY <1>1 DEF ApplyOperation, WorkTyped, GateInv
<1>3. /\ Valid /\ IsDocument(draft) /\ ProtectedIn(draft)
      /\ SparesLayers => Whole \in DOMAIN draft /\ IdentityOf(draft) = IdentityOf(doc)
  BY <1>1 DEF GateInv, DraftSafe
<1>4. done + 1 \in DOMAIN ops
  BY DEF ApplyOperation, GateInv, WorkTyped
<1>5. IsOperation(o) /\ Authorized(o) /\ o.path \in Paths
  BY <1>3, <1>4 DEF GateInv, WorkTyped, Valid, IsOperation
<1>6. IsDocument(draft') /\ Outside(draft, draft', o.path)
  BY <1>1, <1>3, <1>5, AppliedIsLocal
<1>7. ProtectedIn(draft')
  <2>1. o.path # <<>> /\ Head(o.path) \notin PROTECTED_ROOTS
    BY <1>5 DEF Authorized
  <2> QED BY <1>3, <1>5, <1>6, <2>1, KeepsProtected
<1>8. SparesLayers => Whole \in DOMAIN draft' /\ IdentityOf(draft') = IdentityOf(doc)
  <2> SUFFICES ASSUME SparesLayers
               PROVE  Whole \in DOMAIN draft' /\ IdentityOf(draft') = IdentityOf(doc)
    OBVIOUS
  <2>1. /\ o.path # <<>> /\ o.path # Whole
        /\ ~(Len(o.path) > 1 /\ Head(o.path) = "layer_state" /\ o.path[2] = "identity")
    BY <1>4, <1>5 DEF Authorized, SparesLayers, Whole
  <2>2. Whole \in DOMAIN draft' /\ IdentityOf(draft') = IdentityOf(draft)
    BY <1>3, <1>5, <1>6, <2>1, KeepsIdentity
  <2> QED BY <1>3, <2>2
<1>9. DraftSafe'
  <2>1. Valid' /\ (SparesLayers' <=> SparesLayers)
    BY <1>1, <1>3 DEF Valid, SparesLayers
  <2> QED BY <1>1, <1>6, <1>7, <1>8, <2>1 DEF DraftSafe, ProtectedIn
<1> QED BY <1>1, <1>2, <1>9 DEF Kept, GateInv

LEMMA RefuseKeeps == ASSUME GateInv, Refuse PROVE Kept
<1>1. doc' = doc /\ SoundState(doc)'
  BY DEF Refuse, world, GateInv
<1> QED BY <1>1, RestKeeps DEF Kept, GateInv, Refuse

LEMMA SealKeeps == ASSUME GateInv, Seal PROVE Kept
<1> DEFINE d == FromDict(draft)
<1>1. /\ Sound(d) /\ doc' = RenderedBy(d, class) /\ Rest /\ class \in Text
      /\ IsDocument(draft) /\ ProtectedIn(draft)
      /\ SparesLayers => Whole \in DOMAIN draft /\ IdentityOf(draft) = IdentityOf(doc)
  BY DEF Seal, GateInv, DraftSafe, WorkTyped
<1>2. /\ IsDocument(d) /\ ProtectedIn(d) /\ \A r \in ALLOWED_ROOTS : <<r>> \in DOMAIN d
      /\ SparesLayers => IdentityOf(d) = IdentityOf(doc)
  BY <1>1, FromDictKeeps, FromDictAddsRoots
<1> HIDE DEF d
<1>3. SoundState(doc') /\ IdentityOf(doc') = IdentityOf(d)
  BY <1>1, <1>2, RenderedIsSound DEF SoundState
<1>4. SoundState(doc)'
  BY <1>3 DEF SoundState, Sound, ProtectedIn
<1> QED BY <1>1, <1>2, <1>3, <1>4, RestKeeps DEF Kept, GateInv

LEMMA WorkRests ==
  ASSUME GateInv, step = "idle", UNCHANGED work
  PROVE  WorkTyped' /\ DraftSafe'
BY DEF GateInv, WorkTyped, DraftSafe, work

LEMMA VerdictKeeps ==
  ASSUME GateInv, NEW status \in RenderStatus, VerifyRender(status)
  PROVE  Kept
<1> DEFINE F == VerdictFields(status)
           d == WithFields(doc, <<"render">>, F)
<1>1. RenderEdit(F)
  BY VerdictEdits
<1>2. /\ step = "idle" /\ UNCHANGED work /\ <<"objects", "node.renderer">> \in DOMAIN doc
      /\ doc' = WithFields(d, <<"objects", "node.renderer">>, [status |-> status])
      /\ SoundState(doc) /\ status \in Text
  BY TextAssumption DEF VerifyRender, GateInv
<1> HIDE DEF F
<1>3. SoundState(d) /\ IdentityOf(d) = IdentityOf(doc)
  BY <1>1, <1>2, RenderEdits DEF EditsOfRender, RenderEdit
<1>4. <<"objects", "node.renderer">> \in DOMAIN d
  <2>1. ObjectIsKept(doc, d)
    BY <1>1, <1>2, RenderKeepsObjects DEF RenderEdit
  <2> QED BY <1>2, <2>1 DEF ObjectIsKept
<1> HIDE DEF d
<1>5. SoundState(doc') /\ IdentityOf(doc') = IdentityOf(d)
  BY <1>2, <1>3, <1>4, RendererEdits
<1>6. SoundState(doc)'
  BY <1>5 DEF SoundState, Sound, ProtectedIn
<1> QED BY <1>2, <1>3, <1>5, <1>6, WorkRests DEF Kept, GateInv

LEMMA ForkFields ==
  LET F == [forked_from |-> "branch", fork_state_hash |-> "hash"]
  IN DOMAIN F \subseteq Text /\ \A k \in DOMAIN F : F[k] \in Text
<1> DEFINE F == [forked_from |-> "branch", fork_state_hash |-> "hash"]
<1>1. {"forked_from", "fork_state_hash", "branch", "hash"} \subseteq Text
  BY TextAssumption
<1>2. /\ DOMAIN F = {"forked_from", "fork_state_hash"}
      /\ F["forked_from"] = "branch" /\ F["fork_state_hash"] = "hash"
  OBVIOUS
<1> HIDE DEF F
<1>3. DOMAIN F \subseteq Text /\ \A k \in DOMAIN F : F[k] \in Text
  BY <1>1, <1>2
<1> QED BY <1>3 DEF F

LEMMA ForkKeeps == ASSUME GateInv, CreateBranch PROVE Kept
<1> DEFINE F == [forked_from |-> "branch", fork_state_hash |-> "hash"]
<1>1. DOMAIN F \subseteq Text /\ \A k \in DOMAIN F : F[k] \in Text
  BY ForkFields
<1>2. /\ step = "idle" /\ UNCHANGED work /\ SoundState(doc)
      /\ doc' = WithFields(doc, <<"layer_state", "meta_model">>, F)
  BY DEF CreateBranch, GateInv
<1> HIDE DEF F
<1>3. SoundState(doc') /\ IdentityOf(doc') = IdentityOf(doc)
  BY <1>1, <1>2, LayerEdits
<1>4. SoundState(doc)'
  BY <1>3 DEF SoundState, Sound, ProtectedIn
<1> QED BY <1>2, <1>3, <1>4, WorkRests DEF Kept, GateInv

LEMMA NextKeeps == ASSUME GateInv, [Next]_vars PROVE GateInv' /\ (UNCHANGED vars \/ Kept)
<1>1. ASSUME NEW p \in Packets, Interact(p) PROVE Kept
  BY <1>1, SubmitKeeps DEF Interact
<1>2. ASSUME NEW q \in Proposals, Commit(q) PROVE Kept
  BY <1>2, SubmitKeeps DEF Commit
<1>3. ASSUME NEW status \in RenderStatus, VerifyRender(status) PROVE Kept
  BY <1>3, VerdictKeeps
<1>4. CASE Validate \/ ApplyOperation \/ Refuse \/ Seal \/ CreateBranch
  <2>1. Kept
    BY <1>4, ValidateKeeps, ApplyKeeps, RefuseKeeps, SealKeeps, ForkKeeps
  <2> QED BY <2>1 DEF Kept
<1>5. CASE UNCHANGED vars
  <2>1. UNCHANGED <<doc, step, class, ops, done, draft>>
    BY <1>5 DEF vars, work, world
  <2> QED BY <1>5, <2>1
        DEF GateInv, SoundState, WorkTyped, DraftSafe, Valid, SparesLayers, ProtectedIn,
            Sound
<1> QED BY <1>1, <1>2, <1>3, <1>4, <1>5 DEF Next, GateStep, Kept

(* validation.py, validate_state_invariants: the invariants hold of every  *)
(* state, though verdicts and forks do not pass the gate and the render    *)
(* fields are set after it.                                                *)
THEOREM WorldStaysSound == Spec => []WorldIsSound
<1>1. GateInv => WorldIsSound
  BY DEF GateInv, SoundState, WorldIsSound
<1> QED BY <1>1, InitKeeps, NextKeeps, PTL DEF Spec

(* docs/SECURITY.md: no proposal, of a packet or of a client, changes what *)
(* is outside of the allowed roots.                                        *)
THEOREM ProtectedStaysKept == Spec => []ProtectedIsKept
<1>1. GateInv => ProtectedIsKept
  BY DEF GateInv, SoundState, ProtectedIsKept
<1> QED BY <1>1, InitKeeps, NextKeeps, PTL DEF Spec

(* validation.py, validate_proposal: the identity layer is patched by a    *)
(* proposal only if it addresses the whole of /layer_state.                *)
THEOREM IdentityStaysKept == Spec => IdentityIsKept
<1>1. ASSUME GateInv, [Next]_vars
      PROVE  [SparesLayers => IdentityOf(doc') = IdentityOf(doc)]_vars
  BY <1>1, NextKeeps DEF Kept
<1> QED BY <1>1, InitKeeps, NextKeeps, PTL DEF Spec, IdentityIsKept

(* engine.py, commit_proposal and verify_render: a state waits for an image *)
(* exactly if it names its job, whatever clients write under /render.      *)
THEOREM QueueStaysNamed == Spec => []QueuedNamesItsJob
<1>1. ASSUME Init PROVE QueuedNamesItsJob
  BY <1>1, GenesisAssumption DEF Init, QueuedNamesItsJob
<1>2. ASSUME GateInv, QueuedNamesItsJob, [Next]_vars PROVE QueuedNamesItsJob'
  <2>1. CASE doc' = doc
    BY <1>2, <2>1 DEF QueuedNamesItsJob
  <2>2. ASSUME Seal PROVE QueueIsNamed(doc')
    <3>1. /\ IsDocument(FromDict(draft)) /\ <<"render">> \in DOMAIN FromDict(draft)
          /\ class \in Text
      BY <1>2, <2>2, FromDictAddsRoots
         DEF GateInv, DraftSafe, WorkTyped, Seal, ALLOWED_ROOTS
    <3>2. RenderEdit(RenderFields(class))
      BY <3>1, ProposalEdits
    <3> QED BY <2>2, <3>1, <3>2, RenderShows DEF Seal, RenderedBy
  <2>3. ASSUME NEW status \in RenderStatus, VerifyRender(status) PROVE QueueIsNamed(doc')
    <3> DEFINE d == WithFields(doc, <<"render">>, VerdictFields(status))
               path == <<"objects", "node.renderer">>
    <3>1. /\ SoundState(doc) /\ path \in DOMAIN doc /\ status \in Text
          /\ doc' = WithFields(d, path, [status |-> status])
      BY <1>2, <2>3, TextAssumption DEF VerifyRender, GateInv
    <3>2. RenderEdit(VerdictFields(status))
      BY <2>3, VerdictEdits
    <3>3. IsDocument(doc) /\ <<"render">> \in DOMAIN doc
      BY <3>1 DEF SoundState, ALLOWED_ROOTS
    <3>4. QueueIsNamed(d)
      BY <3>2, <3>3, RenderShows
    <3>5. SoundState(d)
      BY <3>1, <3>2, RenderEdits DEF EditsOfRender, RenderEdit
    <3>6. path \in Paths /\ path # <<>> /\ Head(path) # "render"
      BY <3>1, <3>3 DEF IsDocument
    <3>7. Outside(d, doc', path)
      <4>1. "status" \in Text /\ IsDocument(d)
        BY <3>5, TextAssumption DEF SoundState
      <4> HIDE DEF d, path
      <4> QED BY <3>1, <3>6, <4>1, FieldsAreLocal
    <3> HIDE DEF d, path
    <3> QED BY <3>4, <3>5, <3>6, <3>7, QueueElsewhere DEF SoundState
  <2>4. ASSUME CreateBranch PROVE QueueIsNamed(doc')
    <3> DEFINE path == <<"layer_state", "meta_model">>
               F == [forked_from |-> "branch", fork_state_hash |-> "hash"]
    <3>1. IsDocument(doc) /\ doc' = WithFields(doc, path, F) /\ path \in DOMAIN doc
      BY <1>2, <2>4 DEF GateInv, SoundState, CreateBranch
    <3>2. path \in Paths /\ path # <<>> /\ Head(path) # "render"
      BY <3>1 DEF IsDocument
    <3>3. DOMAIN F \subseteq Text /\ \A k \in DOMAIN F : F[k] \in Text
      BY ForkFields
    <3> HIDE DEF F, path
    <3>4. Outside(doc, doc', path)
      BY <3>1, <3>2, <3>3, FieldsAreLocal
    <3> QED BY <1>2, <3>1, <3>2, <3>4, QueueElsewhere DEF QueuedNamesItsJob
  <2>5. ASSUME NEW who, NEW operations, NEW c, Submit(who, operations, c)
        PROVE  doc' = doc
    BY <2>5 DEF Submit, world
  <2>6. Validate \/ ApplyOperation \/ Refuse \/ UNCHANGED vars => doc' = doc
    BY DEF Validate, ApplyOperation, Refuse, vars, world
  <2> QED BY <1>2, <2>1, <2>2, <2>3, <2>4, <2>5, <2>6
          DEF Next, GateStep, Interact, Commit, QueuedNamesItsJob
<1> QED BY <1>1, <1>2, InitKeeps, NextKeeps, PTL DEF Spec
-----------------------------------------------------------------------------
(* Trees.  A path is given by its length and its items. *)

LEMMA PrefixItems ==
  ASSUME NEW s \in Paths, NEW t \in Paths
  PROVE  IsPrefix(s, t) <=> Len(s) <= Len(t) /\ \A i \in 1 .. Len(s) : s[i] = t[i]
<1>1. Len(s) \in Nat /\ Len(t) \in Nat /\ s \in Seq(Text) /\ t \in Seq(Text)
  BY DEF Paths
<1>2. CASE Len(s) <= Len(t)
  <2> DEFINE a == SubSeq(s, 1, Len(s))
             b == SubSeq(t, 1, Len(s))
  <2>1. /\ a \in Seq(Text) /\ Len(a) = Len(s) /\ \A i \in 1 .. Len(s) : a[i] = s[i]
        /\ b \in Seq(Text) /\ Len(b) = Len(s) /\ \A i \in 1 .. Len(s) : b[i] = t[i]
    BY <1>1, <1>2
  <2>2. a = b <=> \A i \in 1 .. Len(s) : s[i] = t[i]
    <3>1. ASSUME \A i \in 1 .. Len(s) : s[i] = t[i] PROVE a = b
      BY <2>1, <3>1, SameItems DEF Paths
    <3> QED BY <2>1, <3>1
  <2> QED BY <1>2, <2>2 DEF IsPrefix
<1>3. CASE ~(Len(s) <= Len(t))
  BY <1>3 DEF IsPrefix
<1> QED BY <1>2, <1>3

LEMMA FrontPath ==
  ASSUME NEW path \in Paths, path # <<>>
  PROVE  /\ Front(path) \in Paths /\ Len(Front(path)) = Len(path) - 1
         /\ \A i \in 1 .. Len(path) - 1 : Front(path)[i] = path[i]
         /\ Len(path) \in Nat \ {0}
<1>1. path \in Seq(Text) /\ Len(path) \in Nat \ {0}
  BY DEF Paths
<1>2. Len(path) - 1 <= Len(path) /\ Len(path) - 1 \in Nat
  BY <1>1
<1>3. /\ SubSeq(path, 1, Len(path) - 1) \in Seq(Text)
      /\ Len(SubSeq(path, 1, Len(path) - 1)) = Len(path) - 1
      /\ \A i \in 1 .. Len(path) - 1 : SubSeq(path, 1, Len(path) - 1)[i] = path[i]
  <2> PICK n \in Nat : n = Len(path) - 1
    BY <1>2
  <2>1. n <= Len(path)
    BY <1>2
  <2>2. SubSeq(path, 1, n) \in Seq(Text)
    <3>1. \A i \in 1 .. n : path[i] \in Text
      BY <1>1, <2>1
    <3> QED BY <1>1, <2>1, <3>1
  <2>3. Len(SubSeq(path, 1, n)) = n
    BY <1>1, <2>1
  <2>4. \A i \in 1 .. n : SubSeq(path, 1, n)[i] = path[i]
    BY <1>1, <2>1
  <2> QED BY <2>2, <2>3, <2>4
<1>4. Front(path) = SubSeq(path, 1, Len(path) - 1)
  BY DEF Front
<1> QED BY <1>1, <1>3, <1>4 DEF Paths

LEMMA PrefixOfFront ==
  ASSUME NEW path \in Paths, NEW q \in Paths, q # <<>>, IsPrefix(path, Front(q))
  PROVE  IsPrefix(path, q)
<1>1. /\ Front(q) \in Paths /\ Len(Front(q)) = Len(q) - 1
      /\ \A i \in 1 .. Len(q) - 1 : Front(q)[i] = q[i]
      /\ Len(q) \in Nat /\ Len(path) \in Nat
  BY FrontPath DEF Paths
<1>2. Len(path) <= Len(Front(q)) /\ \A i \in 1 .. Len(path) : path[i] = Front(q)[i]
  BY <1>1, PrefixItems
<1> QED BY <1>1, <1>2, PrefixItems

LEMMA NoPrefixOfFront ==
  ASSUME NEW path \in Paths, path # <<>>
  PROVE  ~IsPrefix(path, Front(path))
BY FrontPath DEF IsPrefix

LEMMA FrontOfChild ==
  ASSUME NEW path \in Paths, NEW k \in Text
  PROVE  path \o <<k>> # <<>> /\ Front(path \o <<k>>) = path
<1> DEFINE child == path \o <<k>>
<1>1. /\ child \in Paths /\ Len(child) = Len(path) + 1 /\ Len(path) \in Nat
      /\ \A i \in 1 .. Len(path) : child[i] = path[i]
  BY DEF Paths
<1>2. child # <<>>
  BY <1>1
<1> HIDE DEF child
<1>3. /\ Front(child) \in Paths /\ Len(Front(child)) = Len(path)
      /\ \A i \in 1 .. Len(path) : Front(child)[i] = path[i]
  BY <1>1, <1>2, FrontPath
<1>4. Front(child) = path
  BY <1>3, SameItems
<1> QED BY <1>2, <1>4 DEF child

LEMMA NothingJoined == ASSUME NEW path \in Paths PROVE path \o <<>> = path
<1>1. path \in Seq(Text) /\ <<>> \in Seq(Text) /\ Len(<<>>) = 0 /\ Len(path) \in Nat
  BY DEF Paths
<1>2. path \o <<>> \in Seq(Text) /\ Len(path \o <<>>) = Len(path)
  BY <1>1
<1>3. \A i \in 1 .. Len(path) : (path \o <<>>)[i] = path[i]
  BY <1>1
<1>4. path \o <<>> \in Paths /\ \A i \in 1 .. Len(path \o <<>>) : (path \o <<>>)[i] = path[i]
  BY <1>2, <1>3 DEF Paths
<1> QED BY <1>2, <1>4, SameItems

LEMMA PathLength ==
  ASSUME NEW p \in Paths
  PROVE  /\ p \in Seq(Text) /\ Len(p) \in Nat /\ p = <<>> <=> Len(p) = 0
         /\ <<>> \in Paths /\ IsPrefix(p, p)
         /\ p # <<>> => <<Head(p)>> \in Paths /\ Len(<<Head(p)>>) = 1
<1>1. p \in Seq(Text) /\ Len(p) \in Nat
  BY DEF Paths
<1>2. p = <<>> <=> Len(p) = 0
  BY <1>1
<1>3. <<>> \in Paths /\ Len(<<>>) = 0
  BY DEF Paths
<1>4. IsPrefix(p, p)
  BY <1>1, PrefixItems
<1>5. p # <<>> => <<Head(p)>> \in Paths /\ Len(<<Head(p)>>) = 1
  BY <1>1 DEF Paths
<1> QED BY <1>1, <1>2, <1>3, <1>4, <1>5

LEMMA LongerIsNoPrefix ==
  ASSUME NEW s \in Paths, NEW t \in Paths, Len(s) > Len(t)
  PROVE  ~IsPrefix(s, t)
BY PathLength, PrefixItems

LEMMA JoinItems ==
  ASSUME NEW s \in Paths, NEW t \in Paths
  PROVE  /\ s \o t \in Paths /\ Len(s \o t) = Len(s) + Len(t)
         /\ Len(s) \in Nat /\ Len(t) \in Nat
         /\ \A i \in 1 .. Len(s) : (s \o t)[i] = s[i]
         /\ \A i \in 1 .. Len(t) : (s \o t)[Len(s) + i] = t[i]
<1>1. s \in Seq(Text) /\ t \in Seq(Text) /\ Len(s) \in Nat /\ Len(t) \in Nat
  BY DEF Paths
<1>2. s \o t \in Seq(Text) /\ Len(s \o t) = Len(s) + Len(t)
  BY <1>1
<1>3. \A i \in 1 .. Len(s) : (s \o t)[i] = s[i]
  BY <1>1
<1>4. \A i \in 1 .. Len(t) : (s \o t)[Len(s) + i] = t[i]
  BY <1>1
<1> QED BY <1>1, <1>2, <1>3, <1>4 DEF Paths

LEMMA JoinedPath ==
  ASSUME NEW path \in Paths, NEW r \in Paths, r # <<>>
  PROVE  /\ path \o r \in Paths /\ path \o r # <<>>
         /\ Front(path \o r) = path \o Front(r)
         /\ Front(r) \in Paths
<1> DEFINE whole == path \o r
           f == path \o Front(r)
<1>1. /\ whole \in Paths /\ Len(whole) = Len(path) + Len(r)
      /\ Len(path) \in Nat /\ Len(r) \in Nat \ {0}
      /\ \A i \in 1 .. Len(path) : whole[i] = path[i]
      /\ \A i \in 1 .. Len(r) : whole[Len(path) + i] = r[i]
  BY JoinItems DEF Paths
<1>2. /\ Front(r) \in Paths /\ Len(Front(r)) = Len(r) - 1
      /\ \A i \in 1 .. Len(r) - 1 : Front(r)[i] = r[i]
  BY FrontPath
<1>3. /\ f \in Paths /\ Len(f) = Len(path) + (Len(r) - 1)
      /\ \A i \in 1 .. Len(path) : f[i] = path[i]
      /\ \A i \in 1 .. Len(r) - 1 : f[Len(path) + i] = Front(r)[i]
  <2> DEFINE g == Front(r)
  <2>1. g \in Paths /\ Len(g) = Len(r) - 1
    BY <1>2
  <2> HIDE DEF g
  <2>2. /\ path \o g \in Paths /\ Len(path \o g) = Len(path) + Len(g)
        /\ \A i \in 1 .. Len(path) : (path \o g)[i] = path[i]
        /\ \A i \in 1 .. Len(g) : (path \o g)[Len(path) + i] = g[i]
    BY <2>1, JoinItems
  <2> QED BY <2>1, <2>2 DEF g
<1>4. whole # <<>>
  BY <1>1
<1> HIDE DEF whole, f
<1>5. /\ Front(whole) \in Paths /\ Len(Front(whole)) = Len(whole) - 1
      /\ \A i \in 1 .. Len(whole) - 1 : Front(whole)[i] = whole[i]
  BY <1>1, <1>4, FrontPath
<1>6. ASSUME NEW i \in 1 .. Len(f) PROVE Front(whole)[i] = f[i]
  <2>1. i \in 1 .. Len(whole) - 1
    BY <1>1, <1>3
  <2>2. CASE i <= Len(path)
    BY <1>1, <1>3, <1>5, <2>1, <2>2
  <2>3. CASE ~(i <= Len(path))
    <3> DEFINE j == i - Len(path)
    <3>1. j \in 1 .. Len(r) - 1 /\ j \in 1 .. Len(r) /\ i = Len(path) + j
      BY <1>1, <1>3, <2>3
    <3> HIDE DEF j
    <3>2. whole[Len(path) + j] = r[j] /\ f[Len(path) + j] = Front(r)[j] /\ Front(r)[j] = r[j]
      BY <1>1, <1>2, <1>3, <3>1
    <3> QED BY <1>5, <2>1, <3>1, <3>2
  <2> QED BY <2>2, <2>3
<1>7. Front(whole) = f
  <2>1. Len(Front(whole)) = Len(f)
    BY <1>1, <1>3, <1>5
  <2> QED BY <1>3, <1>5, <1>6, <2>1, SameItems
<1> QED BY <1>1, <1>2, <1>4, <1>7 DEF whole, f

(* The root that a path is under.                                          *)
LEMMA RootOf ==
  ASSUME NEW path \in Paths, path # <<>>
  PROVE  /\ Head(path) \in Text /\ <<Head(path)>> \in Paths
         /\ IsPrefix(<<Head(path)>>, path)
         /\ Len(path) = 1 => path = <<Head(path)>>
         /\ Len(path) # 1 => Front(path) # <<>> /\ Head(Front(path)) = Head(path)
<1>1. Head(path) \in Text /\ <<Head(path)>> \in Paths /\ Len(path) \in Nat \ {0}
      /\ Head(path) = path[1]
  BY DEF Paths
<1> DEFINE t == <<Head(path)>>
<1>2. t \in Paths /\ Len(t) = 1 /\ t[1] = path[1]
  BY <1>1
<1> HIDE DEF t
<1>3. IsPrefix(t, path)
  BY <1>1, <1>2, PrefixItems
<1>4. Len(path) = 1 => path = t
  BY <1>1, <1>2, SameItems
<1>5. ASSUME Len(path) # 1 PROVE Front(path) # <<>> /\ Head(Front(path)) = Head(path)
  <2>1. /\ Front(path) \in Paths /\ Len(Front(path)) >= 1 /\ Front(path)[1] = path[1]
    BY <1>1, <1>5, FrontPath
  <2> QED BY <1>1, <2>1 DEF Paths
<1> QED BY <1>1, <1>3, <1>4, <1>5 DEF t
-----------------------------------------------------------------------------
(* The edits of a tree. *)

DictAt(d, p) == p \in DOMAIN d /\ d[p] = "{}"

(* What a path's own root is, and what is above it, is not below it.       *)
(* What is not under a path is above or beside it with all it hangs from.  *)
LEMMA AboveIsOutside ==
  ASSUME NEW path \in Paths, path # <<>>, NEW p \in Paths, p # <<>>, ~IsPrefix(path, p)
  PROVE  ~IsPrefix(path, Front(p)) /\ ~IsPrefix(path, <<Head(p)>>)
<1>1. ~IsPrefix(path, Front(p))
  BY PrefixOfFront
<1>2. ASSUME IsPrefix(path, <<Head(p)>>) PROVE FALSE
  <2>1. Head(p) \in Text /\ IsPrefix(<<Head(p)>>, p)
    BY RootOf
  <2>2. path = <<Head(p)>>
    BY <1>2, <2>1, PrefixOfRoot
  <2> QED BY <2>1, <2>2
<1> QED BY <1>1, <1>2

LEMMA RootIsOutside ==
  ASSUME NEW path \in Paths, path # <<>>
  PROVE  ~IsPrefix(path, <<>>)
BY FrontPath DEF IsPrefix

(* Every edit of a tree leaves a tree, if it is made under a dict.         *)
LEMMA WithoutIsTree ==
  ASSUME NEW d, IsDocument(d), IsTree(d), NEW path \in Paths, path # <<>>
  PROVE  IsTree(Without(d, path))
<1> DEFINE e == Without(d, path)
<1>1. /\ DOMAIN e = DOMAIN d \ Below(d, path) /\ \A p \in DOMAIN e : e[p] = d[p]
      /\ DOMAIN e \subseteq Paths
  BY DEF Without, IsDocument
<1> HIDE DEF e
<1>2. \A p \in DOMAIN d : p \in DOMAIN e <=> ~IsPrefix(path, p)
  BY <1>1 DEF Below
<1>3. <<>> \in DOMAIN e
  BY <1>2, RootIsOutside DEF IsTree
<1>4. ASSUME NEW p \in DOMAIN e, p # <<>>
      PROVE  /\ Front(p) \in DOMAIN e /\ e[Front(p)] = "{}"
             /\ <<Head(p)>> \in DOMAIN e
  <2>1. p \in Paths /\ p \in DOMAIN d /\ ~IsPrefix(path, p)
    BY <1>1, <1>2
  <2>2. ~IsPrefix(path, Front(p)) /\ ~IsPrefix(path, <<Head(p)>>)
    BY <1>4, <2>1, AboveIsOutside
  <2>3. /\ Front(p) \in DOMAIN d /\ d[Front(p)] = "{}" /\ <<Head(p)>> \in DOMAIN d
    BY <1>4, <2>1 DEF IsTree
  <2> QED BY <1>1, <1>2, <2>2, <2>3
<1> QED BY <1>3, <1>4 DEF IsTree, e

LEMMA GraftIsTree ==
  ASSUME NEW d, IsDocument(d), IsTree(d), NEW path \in Paths, path # <<>>,
         Front(path) \in DOMAIN d, d[Front(path)] = "{}",
         NEW value, IsDocument(value), IsTree(value)
  PROVE  IsTree(Graft(d, path, value))
<1> DEFINE e == Graft(d, path, value)
           hung == {path \o r : r \in DOMAIN value}
<1>1. /\ DOMAIN e = (DOMAIN d \ Below(d, path)) \cup hung
      /\ \A p \in DOMAIN e :
           e[p] = IF IsPrefix(path, p) THEN value[Relative(path, p)] ELSE d[p]
  BY DEF Graft
<1>2. ASSUME NEW r \in DOMAIN value
      PROVE  r \in Paths /\ path \o r \in DOMAIN e /\ e[path \o r] = value[r]
  <2>1. r \in Paths /\ path \o r \in hung
    BY DEF IsDocument
  <2>2. IsPrefix(path, path \o r) /\ Relative(path, path \o r) = r
    BY <2>1, PrefixExtends, SuffixBack
  <2> QED BY <1>1, <2>1, <2>2
<1>3. ASSUME NEW p \in DOMAIN d, ~IsPrefix(path, p)
      PROVE  p \in Paths /\ p \in DOMAIN e /\ e[p] = d[p]
  BY <1>1, <1>3 DEF Below, IsDocument
<1>4. \A p \in DOMAIN e : p \in hung \/ (p \in DOMAIN d /\ ~IsPrefix(path, p))
  BY <1>1 DEF Below
<1> HIDE DEF e
<1>5. <<>> \in DOMAIN e
  BY <1>3, RootIsOutside DEF IsTree
<1>6. /\ Front(path) \in DOMAIN e /\ e[Front(path)] = "{}"
      /\ <<Head(path)>> \in DOMAIN e
  <2>1. Front(path) \in DOMAIN e /\ e[Front(path)] = "{}"
    BY <1>3, NoPrefixOfFront
  <2>2. path \o <<>> = path /\ path \in DOMAIN e
    <3>1. path \o <<>> = path
      BY NothingJoined
    <3> QED BY <1>2, <3>1 DEF IsTree
  <2>3. CASE Len(path) = 1
    <3>1. path = <<Head(path)>>
      BY <2>3, RootOf
    <3> QED BY <2>1, <2>2, <3>1
  <2>4. CASE Len(path) # 1
    <3>1. Front(path) # <<>> /\ Head(Front(path)) = Head(path)
      BY <2>4, RootOf
    <3>2. <<Head(path)>> \in DOMAIN d
      BY <3>1 DEF IsTree
    <3>3. ~IsPrefix(path, <<Head(path)>>)
      <4>1. Head(path) \in Text
        BY RootOf
      <4>2. path # <<Head(path)>>
        <5>1. Len(<<Head(path)>>) = 1
          OBVIOUS
        <5> QED BY <2>4, <5>1
      <4> QED BY <4>1, <4>2, PrefixOfRoot
    <3> QED BY <1>3, <2>1, <3>2, <3>3
  <2> QED BY <2>1, <2>3, <2>4
<1>7. ASSUME NEW p \in DOMAIN d, ~IsPrefix(path, p), p # <<>>
      PROVE  /\ Front(p) \in DOMAIN e /\ e[Front(p)] = "{}"
             /\ <<Head(p)>> \in DOMAIN e
  <2>1. ~IsPrefix(path, Front(p)) /\ ~IsPrefix(path, <<Head(p)>>)
    BY <1>3, <1>7, AboveIsOutside
  <2>2. /\ Front(p) \in DOMAIN d /\ d[Front(p)] = "{}" /\ <<Head(p)>> \in DOMAIN d
    BY <1>7 DEF IsTree
  <2> QED BY <1>3, <2>1, <2>2
<1>8. ASSUME NEW r \in DOMAIN value
      PROVE  /\ Front(path \o r) \in DOMAIN e /\ e[Front(path \o r)] = "{}"
             /\ <<Head(path \o r)>> \in DOMAIN e
  <2>1. CASE r = <<>>
    <3>1. path \o r = path
      BY <2>1, NothingJoined
    <3> QED BY <1>6, <3>1
  <2>2. CASE r # <<>>
    <3>1. /\ Front(r) \in DOMAIN value /\ value[Front(r)] = "{}" /\ r \in Paths
      BY <1>2, <2>2 DEF IsTree
    <3>2. Front(path \o r) = path \o Front(r)
      BY <2>2, <3>1, JoinedPath
    <3>3. Head(path \o r) = Head(path)
      <4>1. path \o r \in Paths /\ IsPrefix(path, path \o r)
        BY <3>1, PrefixExtends
      <4> QED BY <4>1, PrefixHead
    <3> QED BY <1>2, <1>6, <3>1, <3>2, <3>3
  <2> QED BY <2>1, <2>2
<1>9. ASSUME NEW p \in DOMAIN e, p # <<>>
      PROVE  /\ Front(p) \in DOMAIN e /\ e[Front(p)] = "{}"
             /\ <<Head(p)>> \in DOMAIN e
  <2>1. CASE p \in hung
    <3> PICK r \in DOMAIN value : p = path \o r
      BY <2>1
    <3> QED BY <1>8
  <2>2. CASE p \in DOMAIN d /\ ~IsPrefix(path, p)
    BY <1>7, <1>9, <2>2
  <2> QED BY <1>4, <2>1, <2>2
<1> QED BY <1>5, <1>9 DEF IsTree, e

LEMMA FieldsMakeTree ==
  ASSUME NEW d, IsDocument(d), IsTree(d), NEW path \in Paths, path # <<>>,
         DictAt(d, path),
         NEW fields, DOMAIN fields \subseteq Text
  PROVE  IsTree(WithFields(d, path, fields))
<1> DEFINE e == WithFields(d, path, fields)
           set == {path \o <<k>> : k \in DOMAIN fields}
           gone == UNION {Below(d, p) : p \in set}
<1>1. /\ DOMAIN e = (DOMAIN d \ gone) \cup set
      /\ \A p \in DOMAIN e : e[p] = IF p \in set THEN fields[Last(p)] ELSE d[p]
  BY DEF WithFields
<1>2. ASSUME NEW c \in set
      PROVE  /\ c \in Paths /\ c # <<>> /\ Front(c) = path /\ Len(c) = Len(path) + 1
             /\ IsPrefix(path, c) /\ c \in DOMAIN e
  <2> PICK k \in DOMAIN fields : c = path \o <<k>>
    OBVIOUS
  <2>1. k \in Text
    OBVIOUS
  <2> QED BY <1>1, <2>1, ChildPath, FrontOfChild
<1>3. ASSUME NEW p \in DOMAIN d, \A c \in set : ~IsPrefix(c, p)
      PROVE  p \in DOMAIN e /\ e[p] = d[p]
  <2>1. p \notin gone
    BY <1>3 DEF Below
  <2>2. p \notin set
    <3>1. p \in Paths
      BY DEF IsDocument
    <3>2. IsPrefix(p, p)
      BY <3>1, PathLength
    <3> QED BY <1>3, <3>2
  <2> QED BY <1>1, <2>1, <2>2
<1>4. ASSUME NEW p \in DOMAIN e, p \notin set
      PROVE  p \in DOMAIN d /\ p \in Paths /\ \A c \in set : ~IsPrefix(c, p)
  <2>1. p \in DOMAIN d /\ p \notin gone
    BY <1>1, <1>4
  <2>2. ASSUME NEW c \in set PROVE p \notin Below(d, c)
    BY <2>1
  <2>3. p \in Paths
    BY <2>1 DEF IsDocument
  <2> QED BY <2>1, <2>2, <2>3 DEF Below
<1> HIDE DEF e, set
<1>5. ASSUME NEW p \in DOMAIN d, Len(p) <= Len(path)
      PROVE  p \in DOMAIN e /\ e[p] = d[p]
  <2>1. ASSUME NEW c \in set PROVE ~IsPrefix(c, p)
    <3>1. p \in Paths /\ c \in Paths /\ Len(c) = Len(path) + 1
      BY <1>2 DEF IsDocument
    <3>2. Len(c) > Len(p)
      BY <1>5, <3>1, PathLength
    <3> QED BY <3>1, <3>2, LongerIsNoPrefix
  <2> QED BY <1>3, <2>1
<1>6. <<>> \in DOMAIN e
  <2>1. Len(<<>>) = 0 /\ Len(path) \in Nat
    BY PathLength
  <2>2. <<>> \in DOMAIN d
    BY DEF IsTree
  <2> QED BY <1>5, <2>1, <2>2
<1>7. /\ path \in DOMAIN e /\ e[path] = "{}" /\ <<Head(path)>> \in DOMAIN e
  <2>1. path \in DOMAIN e /\ e[path] = "{}"
    <3>1. Len(path) <= Len(path)
      BY PathLength
    <3> QED BY <1>5, <3>1 DEF DictAt
  <2>2. <<Head(path)>> \in DOMAIN d
    BY DEF IsTree, DictAt
  <2>3. Len(<<Head(path)>>) <= Len(path)
    BY PathLength
  <2> QED BY <1>5, <2>1, <2>2, <2>3
<1>8. ASSUME NEW p \in DOMAIN e, p # <<>>
      PROVE  /\ Front(p) \in DOMAIN e /\ e[Front(p)] = "{}"
             /\ <<Head(p)>> \in DOMAIN e
  <2>1. CASE p \in set
    <3>1. p \in Paths /\ IsPrefix(path, p) /\ Front(p) = path
      BY <1>2, <2>1
    <3>2. Head(p) = Head(path)
      BY <3>1, PrefixHead
    <3> QED BY <1>7, <3>1, <3>2
  <2>2. CASE p \notin set
    <3>1. p \in DOMAIN d /\ p \in Paths /\ \A c \in set : ~IsPrefix(c, p)
      BY <1>4, <2>2
    <3>2. Front(p) \in DOMAIN d /\ d[Front(p)] = "{}" /\ <<Head(p)>> \in DOMAIN d
      BY <1>8, <3>1 DEF IsTree
    <3>3. ASSUME NEW c \in set PROVE ~IsPrefix(c, Front(p)) /\ ~IsPrefix(c, <<Head(p)>>)
      BY <1>2, <1>8, <3>1, AboveIsOutside
    <3> QED BY <1>3, <3>2, <3>3
  <2> QED BY <2>1, <2>2
<1> QED BY <1>6, <1>8 DEF IsTree, e

LEMMA FromDictIsTree ==
  ASSUME NEW d, IsDocument(d), IsTree(d), DictAt(d, <<>>)
  PROVE  IsTree(FromDict(d))
<1> DEFINE e == FromDict(d)
           added == UNION {{<<r>> \o q : q \in DOMAIN Defaults[r]} : r \in Missing(d)}
<1>1. /\ DOMAIN e = DOMAIN d \cup added
      /\ \A p \in DOMAIN e : e[p] = IF p \in DOMAIN d THEN d[p] ELSE Defaults[Head(p)][Tail(p)]
  BY DEF FromDict
<1>2. \A q \in DOMAIN d : q \in DOMAIN e /\ e[q] = d[q]
  BY <1>1
<1>3. ASSUME NEW r \in Missing(d), NEW q \in DOMAIN Defaults[r]
      PROVE  /\ r \in Text /\ q \in Paths
             /\ <<r>> \o q \in Paths /\ <<r>> \o q # <<>>
             /\ Head(<<r>> \o q) = r
             /\ <<r>> \o q \in DOMAIN e /\ e[<<r>> \o q] = Defaults[r][q]
  <2>1. r \in ALLOWED_ROOTS /\ r \in Text
    BY TextAssumption DEF Missing
  <2>2. q \in Paths
    BY <2>1, GenesisAssumption DEF IsDocument
  <2>3. /\ <<r>> \o q \in Paths /\ Head(<<r>> \o q) = r /\ Tail(<<r>> \o q) = q
    BY <2>1, <2>2, RootedPath
  <2>4. <<r>> \o q # <<>>
    <3>1. <<r>> \in Paths /\ Len(<<r>>) = 1
      BY <2>1 DEF Paths
    <3>2. Len(<<r>> \o q) = 1 + Len(q)
      BY <2>2, <3>1, JoinItems
    <3> QED BY <2>2, <2>3, <3>2, PathLength
  <2>5. <<r>> \o q \notin DOMAIN d
    <3>1. <<r>> \notin DOMAIN d
      BY DEF Missing
    <3> QED BY <2>3, <2>4, <3>1 DEF IsTree
  <2>6. <<r>> \o q \in DOMAIN e
    BY <1>1
  <2> QED BY <1>1, <2>1, <2>2, <2>3, <2>4, <2>5, <2>6
<1>4. \A p \in DOMAIN e \ DOMAIN d : p \in added
  BY <1>1
<1> HIDE DEF e
<1>5. DictAt(e, <<>>)
  BY <1>2 DEF DictAt
<1>6. ASSUME NEW r \in Missing(d)
      PROVE  <<r>> \in DOMAIN e /\ Front(<<r>>) = <<>>
  <2>1. <<>> \in DOMAIN Defaults[r] /\ r \in Text
    BY GenesisAssumption, TextAssumption DEF Missing, IsTree
  <2>2. <<r>> \o <<>> = <<r>> /\ <<>> \o <<r>> = <<r>>
    <3>1. <<>> \in Paths /\ <<r>> \in Paths /\ Len(<<>>) = 0 /\ Len(<<r>>) = 1
      BY <2>1 DEF Paths
    <3>2. <<>> \o <<r>> \in Paths /\ Len(<<>> \o <<r>>) = 1 /\ (<<>> \o <<r>>)[1] = r
      <4>1. /\ Len(<<>> \o <<r>>) = Len(<<>>) + Len(<<r>>) /\ <<>> \o <<r>> \in Paths
            /\ \A i \in 1 .. Len(<<r>>) : (<<>> \o <<r>>)[Len(<<>>) + i] = <<r>>[i]
        BY <3>1, JoinItems
      <4> QED BY <3>1, <4>1
    <3>3. <<>> \o <<r>> = <<r>>
      BY <3>1, <3>2, SameItems
    <3> QED BY <3>1, <3>3, NothingJoined
  <2>3. Front(<<>> \o <<r>>) = <<>>
    <3>1. <<>> \in Paths
      BY DEF Paths
    <3> QED BY <2>1, <3>1, FrontOfChild
  <2> QED BY <1>3, <2>1, <2>2, <2>3
<1>7. ASSUME NEW p \in DOMAIN e, p # <<>>
      PROVE  /\ Front(p) \in DOMAIN e /\ e[Front(p)] = "{}"
             /\ <<Head(p)>> \in DOMAIN e
  <2>1. CASE p \in DOMAIN d
    BY <1>2, <1>7, <2>1 DEF IsTree
  <2>2. CASE p \in added
    <3> PICK r \in Missing(d) : p \in {<<r>> \o q : q \in DOMAIN Defaults[r]}
      BY <2>2
    <3> PICK q \in DOMAIN Defaults[r] : p = <<r>> \o q
      OBVIOUS
    <3>1. Head(p) = r /\ <<r>> \in DOMAIN e /\ r \in Text /\ q \in Paths
      BY <1>3, <1>6
    <3>2. CASE q = <<>>
      <4>1. p = <<r>>
        BY <3>1, <3>2, RootedPath
      <4> QED BY <1>5, <1>6, <3>1, <4>1 DEF DictAt
    <3>3. CASE q # <<>>
      <4>1. Front(q) \in DOMAIN Defaults[r] /\ Defaults[r][Front(q)] = "{}"
        BY <3>3, GenesisAssumption DEF IsTree, Missing
      <4>2. <<r>> \in Paths
        BY <3>1 DEF Paths
      <4>3. Front(p) = <<r>> \o Front(q)
        BY <3>1, <3>3, <4>2, JoinedPath
      <4> QED BY <1>3, <3>1, <4>1, <4>3
    <3> QED BY <3>2, <3>3
  <2> QED BY <1>4, <2>1, <2>2
<1> QED BY <1>5, <1>7 DEF IsTree, DictAt, e
-----------------------------------------------------------------------------
(* Documents stay trees. *)

JsonDict(d) == IsDocument(d) /\ IsTree(d) /\ DictAt(d, <<>>)

(* Edits below the root leave a dict at the root.                          *)
LEMMA RootStaysDict ==
  ASSUME NEW d, DictAt(d, <<>>), NEW path \in Paths, path # <<>>,
         NEW e, Outside(d, e, path)
  PROVE  DictAt(e, <<>>)
<1>1. <<>> \in Paths /\ ~IsPrefix(path, <<>>)
  BY PathLength, RootIsOutside
<1> QED BY <1>1 DEF Outside, DictAt

LEMMA AppliedIsJson ==
  ASSUME NEW d, JsonDict(d), NEW o, IsOperation(o), o.path # <<>>, Applicable(d, o)
  PROVE  JsonDict(Applied(d, o))
<1> DEFINE e == Applied(d, o)
<1>1. /\ o.path \in Paths /\ IsDocument(o.value) /\ IsTree(o.value)
      /\ o.op \in {"test", "add", "replace", "remove"}
      /\ IsDocument(d) /\ IsTree(d) /\ DictAt(d, <<>>)
  BY DEF IsOperation, OperationKinds, JsonDict
<1>2. IsDocument(e) /\ Outside(d, e, o.path)
  BY <1>1, AppliedIsLocal
<1>3. DictAt(e, <<>>)
  <2> HIDE DEF e
  <2> QED BY <1>1, <1>2, RootStaysDict
<1>4. IsTree(e)
  <2>1. CASE o.op = "test"
    BY <1>1, <2>1 DEF Applied
  <2>2. CASE o.op = "remove"
    BY <1>1, <2>2, WithoutIsTree DEF Applied
  <2>3. CASE o.op \in {"add", "replace"}
    <3>1. CanSet(d, o) /\ e = IF d[Front(o.path)] = "[]" THEN d ELSE Graft(d, o.path, o.value)
      BY <2>3 DEF Applicable, Applied
    <3>2. CASE d[Front(o.path)] = "[]"
      BY <1>1, <3>1, <3>2
    <3>3. CASE d[Front(o.path)] # "[]"
      <4>1. Front(o.path) \in DOMAIN d /\ d[Front(o.path)] = "{}"
        BY <3>1, <3>3 DEF CanSet
      <4>2. IsTree(Graft(d, o.path, o.value))
        BY <1>1, <4>1, GraftIsTree
      <4> QED BY <3>1, <3>3, <4>2
    <3> QED BY <3>2, <3>3
  <2> QED BY <1>1, <2>1, <2>2, <2>3
<1> QED BY <1>2, <1>3, <1>4 DEF JsonDict

LEMMA FromDictIsJson == ASSUME NEW d, JsonDict(d) PROVE JsonDict(FromDict(d))
<1>1. IsDocument(d) /\ IsTree(d) /\ DictAt(d, <<>>)
  BY DEF JsonDict
<1>2. IsDocument(FromDict(d)) /\ DictAt(FromDict(d), <<>>)
  BY <1>1, FromDictAddsRoots DEF DictAt
<1> QED BY <1>1, <1>2, FromDictIsTree DEF JsonDict

LEMMA FieldsAreJson ==
  ASSUME NEW d, JsonDict(d), NEW path \in Paths, path # <<>>, DictAt(d, path),
         NEW fields, DOMAIN fields \subseteq Text,
         \A k \in DOMAIN fields : fields[k] \in Text
  PROVE  JsonDict(WithFields(d, path, fields))
<1> DEFINE e == WithFields(d, path, fields)
<1>1. IsDocument(d) /\ IsTree(d) /\ DictAt(d, <<>>)
  BY DEF JsonDict
<1>2. IsDocument(e) /\ Outside(d, e, path)
  BY <1>1, FieldsAreLocal
<1>3. IsTree(e)
  BY <1>1, FieldsMakeTree
<1> HIDE DEF e
<1>4. DictAt(e, <<>>)
  BY <1>1, <1>2, RootStaysDict
<1> QED BY <1>2, <1>3, <1>4 DEF JsonDict, e

(* The dicts that verdicts and commits write into are there.               *)
LEMMA SoundDicts ==
  ASSUME NEW d, SoundState(d)
  PROVE  /\ <<"render">> \in Paths /\ <<"render">> # <<>> /\ DictAt(d, <<"render">>)
         /\ <<"objects", "node.renderer">> \in DOMAIN d =>
              /\ <<"objects", "node.renderer">> \in Paths
              /\ <<"objects", "node.renderer">> # <<>>
              /\ DictAt(d, <<"objects", "node.renderer">>)
<1>1. /\ IsDocument(d) /\ Sound(d) /\ <<"render">> \in DOMAIN d
  BY DEF SoundState, ALLOWED_ROOTS
<1>2. /\ <<"render">> \in Paths /\ <<"render">> # <<>> /\ DictAt(d, <<"render">>)
  BY <1>1 DEF IsDocument, Sound, DictAt
<1>3. ASSUME <<"objects", "node.renderer">> \in DOMAIN d
      PROVE  /\ <<"objects", "node.renderer">> \in Paths
             /\ <<"objects", "node.renderer">> # <<>>
             /\ DictAt(d, <<"objects", "node.renderer">>)
  <2>1. "node.renderer" \in ObjectIds(d)
    BY <1>1, <1>3, ObjectIdsArePaths
  <2> QED BY <1>1, <1>3, <2>1 DEF IsDocument, Sound, DictAt
<1> QED BY <1>2, <1>3

LEMMA VerdictIsJson ==
  ASSUME NEW d, SoundState(d), JsonDict(d), NEW status \in RenderStatus,
         <<"objects", "node.renderer">> \in DOMAIN d
  PROVE  JsonDict(WithFields(WithFields(d, <<"render">>, VerdictFields(status)),
                             <<"objects", "node.renderer">>, [status |-> status]))
<1> DEFINE F == VerdictFields(status)
           e == WithFields(d, <<"render">>, F)
           node == <<"objects", "node.renderer">>
           G == [status |-> status]
<1>1. RenderEdit(F)
  BY VerdictEdits
<1> HIDE DEF F
<1>2. JsonDict(e)
  BY <1>1, SoundDicts, FieldsAreJson DEF RenderEdit
<1>3. SoundState(e)
  BY <1>1, RenderEdits DEF EditsOfRender, RenderEdit
<1>4. node \in DOMAIN e
  <2>1. ObjectIsKept(d, e)
    BY <1>1, RenderKeepsObjects DEF RenderEdit
  <2> QED BY <2>1 DEF ObjectIsKept
<1> HIDE DEF e
<1>5. node \in Paths /\ node # <<>> /\ DictAt(e, node)
  BY <1>3, <1>4, SoundDicts
<1>6. DOMAIN G \subseteq Text /\ \A k \in DOMAIN G : G[k] \in Text
  <2>1. DOMAIN G = {"status"} /\ G["status"] = status
    OBVIOUS
  <2>2. "status" \in Text /\ status \in Text
    BY TextAssumption
  <2> HIDE DEF G
  <2> QED BY <2>1, <2>2
<1> HIDE DEF G, node
<1>7. JsonDict(WithFields(e, node, G))
  BY <1>2, <1>5, <1>6, FieldsAreJson
<1> QED BY <1>7 DEF e, F, G, node
-----------------------------------------------------------------------------
(* The inductive invariant of types. *)

TypeInv ==
  /\ JsonDict(doc) /\ JsonDict(draft)
  /\ by \in {"packet", "client"} /\ done <= Len(ops)
  /\ fresh \in BOOLEAN /\ handmade \in BOOLEAN
  /\ commits \in 0 .. MaxCommits /\ (step # "idle" => commits < MaxCommits)

LEMMA EmptyIsJson == JsonDict(EmptyDict)
<1>1. DOMAIN EmptyDict = {<<>>} /\ EmptyDict[<<>>] = "{}" /\ EmptyDict = [p \in {<<>>} |-> "{}"]
  BY DEF EmptyDict, Scalar
<1>2. <<>> \in Paths /\ "{}" \in Text
  <2>1. <<>> \in Paths
    BY DEF Paths
  <2>2. "{}" \in Text
    BY TextAssumption
  <2> QED BY <2>1, <2>2
<1>3. IsDocument(EmptyDict)
  BY <1>1, <1>2 DEF IsDocument
<1> QED BY <1>1, <1>3 DEF JsonDict, IsTree, DictAt

LEMMA RestIsTyped ==
  ASSUME Rest
  PROVE  /\ JsonDict(draft') /\ by' \in {"packet", "client"} /\ done' <= Len(ops')
         /\ step' = "idle"
BY EmptyIsJson DEF Rest

LEMMA RootIsDict ==
  ASSUME NEW d, IsDocument(d), IsTree(d), NEW q \in DOMAIN d, Len(q) = 1
  PROVE  DictAt(d, <<>>)
<1>1. q \in Paths /\ q # <<>>
  <2>1. q \in Paths
    BY DEF IsDocument
  <2> QED BY <2>1, PathLength
<1>2. Front(q) \in Paths /\ Len(Front(q)) = 0
  <2>1. Front(q) \in Paths /\ Len(Front(q)) = Len(q) - 1
    BY <1>1, FrontPath
  <2> QED BY <2>1
<1>3. Front(q) = <<>>
  BY <1>2, PathLength
<1>4. Front(q) \in DOMAIN d /\ d[Front(q)] = "{}"
  BY <1>1 DEF IsTree
<1>5. <<>> \in DOMAIN d /\ d[<<>>] = "{}"
  <2> DEFINE f == Front(q)
  <2>1. f = <<>> /\ f \in DOMAIN d /\ d[f] = "{}"
    BY <1>3, <1>4
  <2> HIDE DEF f
  <2> QED BY <2>1
<1> QED BY <1>5 DEF DictAt

LEMMA GenesisIsJson == JsonDict(Genesis)
<1>1. <<"ui">> \in DOMAIN Genesis /\ IsDocument(Genesis) /\ IsTree(Genesis)
  BY GenesisAssumption DEF ALLOWED_ROOTS
<1>2. Len(<<"ui">>) = 1
  OBVIOUS
<1> QED BY <1>1, <1>2, RootIsDict DEF JsonDict

(* The type invariant holds at boot and is kept by every step.             *)
LEMMA InitIsTyped == Init => TypeInv
<1> SUFFICES ASSUME Init PROVE TypeInv
  OBVIOUS
<1>1. JsonDict(doc) /\ JsonDict(draft)
  BY GenesisIsJson, EmptyIsJson DEF Init
<1>2. done <= Len(ops)
  <2>1. done = 0 /\ ops = <<>>
    BY DEF Init
  <2> QED BY <2>1
<1>3. commits \in 0 .. MaxCommits
  <2>1. commits = 0
    BY DEF Init
  <2> QED BY <2>1, CommitsAssumption
<1> QED BY <1>1, <1>2, <1>3 DEF Init, TypeInv

LEMMA StepIsTyped == ASSUME GateInv, TypeInv, [Next]_vars PROVE TypeInv'
<1>1. /\ JsonDict(doc) /\ JsonDict(draft)
      /\ by \in {"packet", "client"} /\ done <= Len(ops)
      /\ fresh \in BOOLEAN /\ handmade \in BOOLEAN
      /\ commits \in 0 .. MaxCommits /\ (step # "idle" => commits < MaxCommits)
      /\ SoundState(doc)
  BY DEF TypeInv, GateInv
<1>2. ASSUME NEW who \in {"packet", "client"}, NEW operations, NEW c,
             Submit(who, operations, c)
      PROVE  TypeInv'
  <2>1. done' <= Len(ops')
    <3>1. done' = 0 /\ ops' = operations /\ operations \in Seq(Range(operations))
      BY <1>2 DEF Submit
    <3> QED BY <3>1
  <2>2. JsonDict(doc)' /\ JsonDict(draft)'
    BY <1>1, <1>2, EmptyIsJson DEF Submit, world
  <2> QED BY <1>1, <1>2, <2>1, <2>2 DEF TypeInv, Submit, world
<1>3. CASE Validate
  <2>1. JsonDict(doc)' /\ JsonDict(draft)'
    BY <1>1, <1>3 DEF Validate, world
  <2> QED BY <1>1, <1>3, <2>1 DEF TypeInv, Validate, world
<1>4. CASE ApplyOperation
  <2> DEFINE o == ops[done + 1]
  <2>1. /\ step = "apply" /\ done < Len(ops) /\ Applicable(draft, o)
        /\ draft' = Applied(draft, o) /\ done' = done + 1
        /\ UNCHANGED <<step, by, class, ops, doc, fresh, handmade, commits>>
    BY <1>4 DEF ApplyOperation, world
  <2>2. done + 1 \in DOMAIN ops /\ done + 1 <= Len(ops)
    BY <2>1 DEF GateInv, WorkTyped
  <2>3. IsOperation(o) /\ Authorized(o)
    BY <2>1, <2>2 DEF GateInv, WorkTyped, DraftSafe, Valid
  <2>4. JsonDict(draft')
    <3>1. o.path # <<>>
      BY <2>3 DEF Authorized
    <3> QED BY <1>1, <2>1, <2>3, <3>1, AppliedIsJson
  <2>5. JsonDict(draft)' /\ JsonDict(doc)'
    BY <1>1, <2>1, <2>4
  <2> QED BY <1>1, <2>1, <2>2, <2>5 DEF TypeInv
<1>5. CASE Refuse
  <2>1. Rest /\ UNCHANGED <<doc, fresh, handmade, commits>>
    BY <1>5 DEF Refuse, world
  <2> QED BY <1>1, <2>1, RestIsTyped DEF TypeInv
<1>6. CASE Seal
  <2>1. /\ step = "apply" /\ Rest /\ Sound(FromDict(draft))
        /\ doc' = RenderedBy(FromDict(draft), class)
        /\ fresh' = TRUE /\ commits' = commits + 1 /\ handmade' = (handmade \/ by = "client")
        /\ class \in Text /\ IsDocument(draft) /\ ProtectedIn(draft)
    BY <1>6 DEF Seal, GateInv, WorkTyped, DraftSafe
  <2> DEFINE d == FromDict(draft)
             F == RenderFields(class)
  <2>2. JsonDict(d)
    BY <1>1, FromDictIsJson
  <2>3. SoundState(d)
    BY <2>1, FromDictKeeps, FromDictAddsRoots DEF SoundState
  <2>4. RenderEdit(F) /\ doc' = WithFields(d, <<"render">>, F)
    BY <2>1, ProposalEdits DEF RenderedBy
  <2> HIDE DEF d, F
  <2>5. JsonDict(doc')
    BY <2>2, <2>3, <2>4, SoundDicts, FieldsAreJson DEF RenderEdit
  <2>6. commits' \in 0 .. MaxCommits
    <3>1. commits < MaxCommits /\ commits' = commits + 1
      BY <1>1, <2>1
    <3> QED BY <1>1, <3>1, CommitsAssumption
  <2>7. fresh' \in BOOLEAN /\ handmade' \in BOOLEAN
    BY <2>1
  <2> QED BY <2>1, <2>5, <2>6, <2>7, RestIsTyped DEF TypeInv
<1>7. ASSUME NEW status \in RenderStatus, VerifyRender(status)
      PROVE  TypeInv'
  <2>1. /\ doc' = WithFields(WithFields(doc, <<"render">>, VerdictFields(status)),
                             <<"objects", "node.renderer">>, [status |-> status])
        /\ <<"objects", "node.renderer">> \in DOMAIN doc
        /\ fresh' = FALSE /\ UNCHANGED <<step, by, class, ops, done, draft, handmade, commits>>
    BY <1>7 DEF VerifyRender, work
  <2>2. JsonDict(doc')
    BY <1>1, <2>1, VerdictIsJson
  <2> QED BY <1>1, <2>1, <2>2 DEF TypeInv
<1>8. CASE CreateBranch
  <2> DEFINE layer == <<"layer_state", "meta_model">>
             F == [forked_from |-> "branch", fork_state_hash |-> "hash"]
  <2>1. /\ layer \in DOMAIN doc /\ doc[layer] = "{}"
        /\ doc' = WithFields(doc, layer, F)
        /\ commits < MaxCommits /\ fresh' = FALSE /\ commits' = commits + 1
        /\ UNCHANGED <<step, by, class, ops, done, draft, handmade>> /\ step = "idle"
    BY <1>8 DEF CreateBranch, work
  <2>2. layer \in Paths /\ layer # <<>> /\ DictAt(doc, layer)
    BY <1>1, <2>1 DEF SoundState, IsDocument, DictAt
  <2>3. DOMAIN F \subseteq Text /\ \A k \in DOMAIN F : F[k] \in Text
    BY ForkFields
  <2> HIDE DEF F, layer
  <2>4. JsonDict(doc')
    BY <1>1, <2>1, <2>2, <2>3, FieldsAreJson
  <2>5. commits' \in 0 .. MaxCommits
    <3>1. commits < MaxCommits /\ commits' = commits + 1
      BY <2>1
    <3> QED BY <1>1, <3>1, CommitsAssumption
  <2> QED BY <1>1, <2>1, <2>4, <2>5 DEF TypeInv
<1>9. CASE UNCHANGED vars
  <2>1. UNCHANGED <<doc, fresh, handmade, commits, step, by, ops, done, draft>>
    BY <1>9 DEF vars, work, world
  <2> QED BY <1>1, <2>1 DEF TypeInv
<1> QED BY <1>2, <1>3, <1>4, <1>5, <1>6, <1>7, <1>8, <1>9
        DEF Next, GateStep, Interact, Commit

(* SurfaceState (model.py): a state document, and the copy that operations *)
(* are applied to, is a tree of dicts with every root that a state has,    *)
(* whatever proposals add, replace and remove.                             *)
THEOREM DocumentsStayTrees == Spec => []TypeOK
<1>1. ASSUME GateInv, TypeInv PROVE TypeOK
  <2>1. done \in 0 .. Len(ops)
    <3>1. done \in Nat /\ ops \in Seq(Range(ops)) /\ done <= Len(ops)
      BY <1>1 DEF GateInv, WorkTyped, TypeInv
    <3> QED BY <3>1
  <2> QED BY <1>1, <2>1 DEF GateInv, SoundState, WorkTyped, TypeInv, JsonDict, TypeOK
<1> QED BY <1>1, InitKeeps, NextKeeps, InitIsTyped, StepIsTyped, PTL DEF Spec
-----------------------------------------------------------------------------
(* The paths that hold one thing each, which packets replace.              *)
Leaf(p) ==
  /\ p \in Paths
  /\ \/ Len(p) = 1 /\ Head(p) \in {"selected_object_id", "active_focus_id"}
     \/ /\ Len(p) = 2 /\ Head(p) = "ui"
        /\ p[2] \in {"simulation_running", "render_policy", "reduced_motion", "last_command"}
     \/ Len(p) = 2 /\ Head(p) = "render"
     \/ Len(p) = 3 /\ Head(p) = "ui" /\ p[2] \in {"privacy", "inputs"}
     \/ Len(p) = 3 /\ Head(p) = "layer_state" /\ p[2] \in {"events", "meta_model"}
     \/ Len(p) = 3 /\ Head(p) = "objects"

LEMMA LeavesAreApart ==
  ASSUME NEW p, Leaf(p), NEW q, Leaf(q), IsPrefix(p, q)
  PROVE  p = q
<1>1. p \in Paths /\ q \in Paths /\ p # <<>> /\ Len(p) <= Len(q) /\ Len(p) \in 1 .. 3
      /\ Len(q) \in 1 .. 3
  <2>1. p \in Paths /\ q \in Paths /\ Len(p) \in 1 .. 3 /\ Len(q) \in 1 .. 3
    BY DEF Leaf
  <2>2. Len(p) <= Len(q)
    BY DEF IsPrefix
  <2> QED BY <2>1, <2>2, PathLength
<1>2. Head(q) = Head(p) /\ (Len(p) > 1 => q[2] = p[2])
  BY <1>1, PrefixHead, PrefixSecond
<1>3. Len(p) = Len(q)
  BY <1>1, <1>2 DEF Leaf
<1> QED BY <1>1, <1>3, PrefixOfEqualLength

(* The paths above leaves, and lists.                                      *)
Above(q) ==
  /\ q \in Paths
  /\ \/ Len(q) = 1 /\ Head(q) \notin {"selected_object_id", "active_focus_id"}
     \/ Len(q) = 2 /\ Head(q) = "objects"
     \/ Len(q) = 2 /\ Head(q) = "ui" /\ q[2] = "inputs"

LEMMA AboveLeaves == ASSUME NEW p, Leaf(p), NEW q, Above(q) PROVE ~IsPrefix(p, q)
<1> SUFFICES ASSUME IsPrefix(p, q) PROVE FALSE
  OBVIOUS
<1>1. p \in Paths /\ q \in Paths /\ Len(p) \in 1 .. 3 /\ Len(q) \in 1 .. 2
  BY DEF Leaf, Above
<1>2. p # <<>> /\ Len(p) <= Len(q)
  BY <1>1, PathLength DEF IsPrefix
<1>3. Head(q) = Head(p) /\ (Len(p) > 1 => q[2] = p[2])
  BY <1>1, <1>2, PrefixHead, PrefixSecond
<1>4. \/ Len(p) = 1 /\ Head(p) \in {"selected_object_id", "active_focus_id"}
      \/ /\ Len(p) = 2 /\ Head(p) = "ui" /\ p[2] # "inputs"
      \/ Len(p) = 2 /\ Head(p) = "render"
  <2>1. Len(p) # 3
    <3>1. \A m \in 1 .. 3, n \in 1 .. 2 : m <= n => m # 3
      OBVIOUS
    <3> QED BY <1>1, <1>2, <3>1
  <2>2. Len(p) = 2 /\ Head(p) = "ui" => p[2] # "inputs"
    <3>1. Len(p) = 2 /\ Head(p) = "ui" =>
            p[2] \in {"simulation_running", "render_policy", "reduced_motion", "last_command"}
      BY DEF Leaf
    <3> QED BY <3>1
  <2>3. \/ Len(p) = 1 /\ Head(p) \in {"selected_object_id", "active_focus_id"}
        \/ Len(p) = 2 /\ Head(p) = "ui"
        \/ Len(p) = 2 /\ Head(p) = "render"
    BY <2>1 DEF Leaf
  <2> QED BY <2>2, <2>3
<1>5. CASE Len(p) = 1
  BY <1>1, <1>3, <1>4, <1>5 DEF Above
<1>6. CASE Len(p) = 2
  <2>1. Len(q) = 2
    BY <1>1, <1>2, <1>6
  <2> QED BY <1>1, <1>3, <1>4, <1>6, <2>1 DEF Above
<1> QED BY <1>4, <1>5, <1>6

Selection == <<"selected_object_id">>
Status == <<"render", "status">>
Inputs == <<"ui", "inputs">>
Goals == <<"goals">>
Renderer == <<"objects", "node.renderer">>

LEMMA AddressedAreLeaves ==
  ASSUME NEW p \in Addressed, p \in Paths
  PROVE  Leaf(p) /\ Head(p) # "objects" /\ (p[2] # "inputs" \/ Len(p) = 1)
<1>1. CASE p \in {<<"selected_object_id">>, <<"active_focus_id">>}
  <2>1. Len(p) = 1 /\ Head(p) \in {"selected_object_id", "active_focus_id"}
    BY <1>1
  <2> QED BY <2>1 DEF Leaf
<1>2. CASE p \in {<<"render", "status">>, <<"render", "requested_mode">>}
  <2>1. Len(p) = 2 /\ Head(p) = "render" /\ p[2] # "inputs"
    BY <1>2
  <2> QED BY <2>1 DEF Leaf
<1>3. CASE p = <<"layer_state", "events", "last_action">>
  <2>1. Len(p) = 3 /\ Head(p) = "layer_state" /\ p[2] = "events"
    BY <1>3
  <2> QED BY <2>1 DEF Leaf
<1>4. CASE p \in {<<"ui", "simulation_running">>, <<"ui", "render_policy">>,
                  <<"ui", "reduced_motion">>, <<"ui", "last_command">>}
  <2>1. /\ Len(p) = 2 /\ Head(p) = "ui" /\ p[2] # "inputs"
        /\ p[2] \in {"simulation_running", "render_policy", "reduced_motion", "last_command"}
    BY <1>4
  <2> QED BY <2>1 DEF Leaf
<1>5. CASE p \in {<<"ui", "privacy", "cloud_allowed">>,
                  <<"ui", "privacy", "redact_sensitive_inputs">>,
                  <<"ui", "privacy", "frame_retention">>}
  <2>1. Len(p) = 3 /\ Head(p) = "ui" /\ p[2] = "privacy"
    BY <1>5
  <2> QED BY <2>1 DEF Leaf
<1> QED BY <1>1, <1>2, <1>3, <1>4, <1>5 DEF Addressed, UiItem

LEMMA NamedPaths ==
  ASSUME NEW d, IsDocument(d), Furnished(d)
  PROVE  /\ \A p \in Addressed : p \in DOMAIN d /\ Leaf(p)
         /\ Selection \in Addressed /\ Status \in Addressed
         /\ Inputs \in DOMAIN d /\ d[Inputs] = "{}" /\ Above(Inputs)
         /\ Goals \in DOMAIN d /\ d[Goals] = "[]" /\ Above(Goals)
         /\ Renderer \in DOMAIN d /\ Above(Renderer)
<1>1. \A p \in Addressed : p \in DOMAIN d /\ p \in Paths
  BY DEF Furnished, IsDocument
<1>2. \A p \in Addressed : Leaf(p)
  BY <1>1, AddressedAreLeaves
<1>3. Selection \in Addressed /\ Status \in Addressed
  BY DEF Addressed, Selection, Status
<1>4. Inputs \in DOMAIN d /\ d[Inputs] = "{}" /\ Inputs \in Paths
  BY DEF Furnished, IsDocument, Inputs
<1>5. Goals \in DOMAIN d /\ d[Goals] = "[]" /\ Goals \in Paths
  BY DEF Furnished, IsDocument, Goals
<1>6. Renderer \in DOMAIN d /\ Renderer \in Paths
  BY DEF Furnished, IsDocument, Renderer
<1>7. Above(Inputs) /\ Above(Goals) /\ Above(Renderer)
  <2>1. Len(Inputs) = 2 /\ Head(Inputs) = "ui" /\ Inputs[2] = "inputs"
    BY DEF Inputs
  <2>2. Len(Goals) = 1 /\ Head(Goals) = "goals"
    BY DEF Goals
  <2>3. Len(Renderer) = 2 /\ Head(Renderer) = "objects"
    BY DEF Renderer
  <2>4. Above(Inputs)
    BY <1>4, <2>1 DEF Above
  <2>5. Above(Goals)
    BY <1>5, <2>2 DEF Above
  <2>6. Above(Renderer)
    BY <1>6, <2>3 DEF Above
  <2> QED BY <2>4, <2>5, <2>6
<1> QED BY <1>1, <1>2, <1>3, <1>4, <1>5, <1>6, <1>7

(* A document that has what packets address, and is sound.                 *)
Roots(d) == \A r \in ALLOWED_ROOTS : <<r>> \in DOMAIN d
Ready(d) == JsonDict(d) /\ Sound(d) /\ Roots(d) /\ Furnished(d)

(* What the packets' operations leave as it is.                            *)
Keeps(d, e) ==
  /\ \A q \in DOMAIN d : Leaf(q) => q \in DOMAIN e
  /\ \A id \in Text : Exists(d, id) => Exists(e, id)

(* The checks on a state, one by one.                                      *)
LEMMA SoundParts ==
  ASSUME NEW d, IsDocument(d)
  PROVE  Sound(d) <=>
           /\ d[Selection] = "surface.command" \/ Exists(d, d[Selection])
           /\ \A id : Exists(d, id) =>
                /\ id \in Namespaced /\ d[<<"objects", id>>] = "{}"
                /\ <<"objects", id, "type">> \in DOMAIN d
                /\ <<"objects", id, "status">> \in DOMAIN d
           /\ d[<<"render">>] = "{}"
           /\ Status \in DOMAIN d => d[Status] \in RenderStatus
<1>1. \A id : id \in ObjectIds(d) <=> Exists(d, id)
  BY ObjectIdsArePaths DEF Exists
<1>2. d[Selection] \in ObjectIds(d) \cup {"surface.command"}
        <=> d[Selection] = "surface.command" \/ Exists(d, d[Selection])
  BY <1>1
<1> QED BY <1>1, <1>2 DEF Sound, Selection, Status

LEMMA ObjectPaths ==
  ASSUME NEW id, NEW k
  PROVE  /\ <<"objects", id>> \in Paths => Above(<<"objects", id>>)
         /\ <<"objects", id, k>> \in Paths => Leaf(<<"objects", id, k>>)
<1>1. Len(<<"objects", id>>) = 2 /\ Head(<<"objects", id>>) = "objects"
  OBVIOUS
<1>2. Len(<<"objects", id, k>>) = 3 /\ Head(<<"objects", id, k>>) = "objects"
  OBVIOUS
<1>3. <<"objects", id>> \in Paths => Above(<<"objects", id>>)
  BY <1>1 DEF Above
<1>4. <<"objects", id, k>> \in Paths => Leaf(<<"objects", id, k>>)
  BY <1>2 DEF Leaf
<1> QED BY <1>3, <1>4

LEMMA RootPaths ==
  ASSUME NEW r \in Text
  PROVE  /\ <<r>> \in Paths
         /\ IF r \in {"selected_object_id", "active_focus_id"} THEN Leaf(<<r>>)
            ELSE Above(<<r>>)
<1>1. <<r>> \in Paths /\ Len(<<r>>) = 1 /\ Head(<<r>>) = r
  BY DEF Paths
<1> QED BY <1>1 DEF Leaf, Above

(* An edit at some leaves.                                                 *)
Beside(d, e, set) ==
  \A q \in Paths : (\A p \in set : ~IsPrefix(p, q)) =>
    /\ q \in DOMAIN e <=> q \in DOMAIN d
    /\ q \in DOMAIN d => e[q] = d[q]

LEMMA LeavesEdit ==
  ASSUME NEW d, Ready(d), NEW e, JsonDict(e), NEW set, Beside(d, e, set),
         \A p \in set : Leaf(p) /\ p \in DOMAIN e,
         Selection \in set => e[Selection] = "surface.command" \/ Exists(d, e[Selection]),
         Status \in set => e[Status] \in RenderStatus
  PROVE  Ready(e) /\ Keeps(d, e)
<1>1. IsDocument(d) /\ IsDocument(e) /\ Sound(d) /\ Furnished(d) /\ Roots(d)
  BY DEF Ready, JsonDict
<1>2. ASSUME NEW q \in DOMAIN d, Leaf(q)
      PROVE  q \in DOMAIN e /\ (q \notin set => e[q] = d[q])
  <2>1. q \notin set => \A p \in set : ~IsPrefix(p, q)
    BY <1>2, LeavesAreApart
  <2>2. q \in Paths
    BY <1>2 DEF Leaf
  <2> QED BY <2>1, <2>2 DEF Beside
<1>3. ASSUME NEW q, Above(q)
      PROVE  (q \in DOMAIN e <=> q \in DOMAIN d) /\ (q \in DOMAIN d => e[q] = d[q])
  <2>1. q \in Paths /\ \A p \in set : ~IsPrefix(p, q)
    BY <1>3, AboveLeaves DEF Above
  <2> QED BY <2>1 DEF Beside
<1>4. Roots(e)
  <2> SUFFICES ASSUME NEW r \in ALLOWED_ROOTS PROVE <<r>> \in DOMAIN e
    BY DEF Roots
  <2>1. r \in Text /\ <<r>> \in DOMAIN d
    BY <1>1, TextAssumption DEF Roots
  <2> QED BY <1>2, <1>3, <2>1, RootPaths
<1>5. ASSUME NEW id
      PROVE  /\ Exists(e, id) <=> Exists(d, id)
             /\ Exists(d, id) => e[<<"objects", id>>] = d[<<"objects", id>>]
  <2>1. CASE <<"objects", id>> \in Paths
    BY <1>3, <2>1, ObjectPaths DEF Exists
  <2>2. CASE <<"objects", id>> \notin Paths
    BY <1>1, <2>2 DEF Exists, IsDocument
  <2> QED BY <2>1, <2>2
<1>6. ASSUME NEW id, NEW k, <<"objects", id, k>> \in DOMAIN d
      PROVE  <<"objects", id, k>> \in DOMAIN e
  <2>1. Leaf(<<"objects", id, k>>)
    BY <1>1, <1>6, ObjectPaths DEF IsDocument
  <2> QED BY <1>2, <1>6, <2>1
<1>7. Furnished(e)
  <2>1. /\ \A p \in Addressed : p \in DOMAIN d /\ Leaf(p)
        /\ Inputs \in DOMAIN d /\ d[Inputs] = "{}" /\ Above(Inputs)
        /\ Goals \in DOMAIN d /\ d[Goals] = "[]" /\ Above(Goals)
        /\ Renderer \in DOMAIN d /\ Above(Renderer)
    BY <1>1, NamedPaths
  <2>2. Addressed \subseteq DOMAIN e
    BY <1>2, <2>1
  <2>3. /\ Inputs \in DOMAIN e /\ e[Inputs] = "{}"
        /\ Goals \in DOMAIN e /\ e[Goals] = "[]"
        /\ Renderer \in DOMAIN e
    BY <1>3, <2>1
  <2> QED BY <2>2, <2>3 DEF Furnished, Inputs, Goals, Renderer
<1>8. Sound(e)
  <2>1. /\ d[Selection] = "surface.command" \/ Exists(d, d[Selection])
        /\ \A id : Exists(d, id) =>
             /\ id \in Namespaced /\ d[<<"objects", id>>] = "{}"
             /\ <<"objects", id, "type">> \in DOMAIN d
             /\ <<"objects", id, "status">> \in DOMAIN d
        /\ d[<<"render">>] = "{}"
        /\ Status \in DOMAIN d => d[Status] \in RenderStatus
    BY <1>1, SoundParts
  <2>2. Selection \in DOMAIN d /\ Status \in DOMAIN d /\ Leaf(Selection) /\ Leaf(Status)
    BY <1>1, NamedPaths
  <2>3. e[Selection] = "surface.command" \/ Exists(e, e[Selection])
    BY <1>2, <1>5, <2>1, <2>2
  <2>4. e[Status] \in RenderStatus
    BY <1>2, <2>1, <2>2
  <2>5. e[<<"render">>] = "{}"
    <3>1. "render" \in Text /\ <<"render">> \in DOMAIN d
      BY <1>1, TextAssumption DEF Roots, ALLOWED_ROOTS
    <3>2. Above(<<"render">>)
      BY <3>1, RootPaths
    <3> QED BY <1>3, <2>1, <3>1, <3>2
  <2>6. \A id : Exists(e, id) =>
             /\ id \in Namespaced /\ e[<<"objects", id>>] = "{}"
             /\ <<"objects", id, "type">> \in DOMAIN e
             /\ <<"objects", id, "status">> \in DOMAIN e
    BY <1>5, <1>6, <2>1
  <2> QED BY <1>1, <2>3, <2>4, <2>5, <2>6, SoundParts
<1>9. Keeps(d, e)
  BY <1>2, <1>5 DEF Keeps
<1> QED BY <1>4, <1>7, <1>8, <1>9 DEF Ready

LEMMA LeafEdit ==
  ASSUME NEW d, Ready(d), NEW e, JsonDict(e), NEW path, Leaf(path), Outside(d, e, path),
         path \in DOMAIN e,
         path = Selection => e[path] = "surface.command" \/ Exists(d, e[path]),
         path = Status => e[path] \in RenderStatus
  PROVE  Ready(e) /\ Keeps(d, e)
<1>1. Beside(d, e, {path})
  BY DEF Outside, Beside
<1>2. \A p \in {path} : Leaf(p) /\ p \in DOMAIN e
  OBVIOUS
<1>3. Selection \in {path} => e[Selection] = "surface.command" \/ Exists(d, e[Selection])
  OBVIOUS
<1>4. Status \in {path} => e[Status] \in RenderStatus
  OBVIOUS
<1> QED BY <1>1, <1>2, <1>3, <1>4, LeavesEdit

(* A new object.                                                           *)
LEMMA SpawnEdit ==
  ASSUME NEW d, Ready(d), NEW e, JsonDict(e), NEW id \in Namespaced, ~Exists(d, id),
         Outside(d, e, <<"objects", id>>),
         DictAt(e, <<"objects", id>>),
         <<"objects", id, "type">> \in DOMAIN e, <<"objects", id, "status">> \in DOMAIN e
  PROVE  Ready(e) /\ Keeps(d, e) /\ Exists(e, id)
<1> DEFINE path == <<"objects", id>>
<1>1. IsDocument(d) /\ IsTree(d) /\ IsDocument(e) /\ Sound(d) /\ Furnished(d) /\ Roots(d)
  BY DEF Ready, JsonDict
<1>2. path \in Paths /\ Len(path) = 2 /\ path # <<>>
  BY <1>1 DEF IsDocument, DictAt
<1>3. path \notin DOMAIN d /\ Outside(d, e, path)
  BY DEF Exists
<1> HIDE DEF path
<1>4. ASSUME NEW q \in DOMAIN d, Leaf(q) \/ Above(q)
      PROVE  q \in DOMAIN e /\ e[q] = d[q]
  <2>1. q \in Paths /\ Len(q) \in 1 .. 3
    BY <1>4 DEF Leaf, Above
  <2>2. ASSUME IsPrefix(path, q) PROVE FALSE
    <3>1. Len(q) # 2
      BY <1>2, <1>3, <2>1, <2>2, PrefixOfEqualLength
    <3>2. Len(q) = 3
      <4>1. Len(path) <= Len(q)
        BY <2>2 DEF IsPrefix
      <4> QED BY <1>2, <2>1, <3>1, <4>1
    <3>3. Front(q) \in DOMAIN d
      <4>1. q # <<>>
        BY <2>1, PathLength
      <4> QED BY <1>1, <4>1 DEF IsTree
    <3>4. Front(q) \in Paths /\ Len(Front(q)) = 2 /\ \A i \in 1 .. 2 : Front(q)[i] = q[i]
      <4>1. q # <<>>
        BY <2>1, PathLength
      <4>2. /\ Front(q) \in Paths /\ Len(Front(q)) = Len(q) - 1
            /\ \A i \in 1 .. Len(q) - 1 : Front(q)[i] = q[i]
        BY <2>1, <4>1, FrontPath
      <4> QED BY <3>2, <4>2
    <3>5. \A i \in 1 .. 2 : path[i] = q[i]
      BY <1>2, <2>1, <2>2, PrefixItems
    <3>6. Front(q) = path
      BY <1>2, <3>4, <3>5, SameItems
    <3> QED BY <1>3, <3>3, <3>6
  <2> QED BY <1>3, <2>1, <2>2 DEF Outside
<1>5. ASSUME NEW q, Above(q), q # path
      PROVE  q \in DOMAIN e => q \in DOMAIN d
  <2>1. q \in Paths /\ Len(q) \in 1 .. 2
    BY <1>5 DEF Above
  <2>2. ~IsPrefix(path, q)
    <3> SUFFICES ASSUME IsPrefix(path, q) PROVE FALSE
      OBVIOUS
    <3>1. Len(path) <= Len(q)
      BY DEF IsPrefix
    <3>2. Len(q) = Len(path)
      <4> DEFINE m == Len(path)
                 n == Len(q)
      <4>1. m = 2 /\ n \in 1 .. 2 /\ m <= n
        BY <1>2, <2>1, <3>1
      <4> HIDE DEF m, n
      <4>2. n = m
        BY <4>1
      <4> QED BY <4>2 DEF m, n
    <3> QED BY <1>2, <1>5, <2>1, <3>2, PrefixOfEqualLength
  <2> QED BY <1>3, <2>1, <2>2 DEF Outside
<1>6. Roots(e)
  <2> SUFFICES ASSUME NEW r \in ALLOWED_ROOTS PROVE <<r>> \in DOMAIN e
    BY DEF Roots
  <2>1. r \in Text /\ <<r>> \in DOMAIN d
    BY <1>1, TextAssumption DEF Roots
  <2> QED BY <1>4, <2>1, RootPaths
<1>7. ASSUME NEW i, Exists(d, i)
      PROVE  Exists(e, i) /\ e[<<"objects", i>>] = d[<<"objects", i>>]
  <2>1. <<"objects", i>> \in DOMAIN d /\ <<"objects", i>> \in Paths
    BY <1>1, <1>7 DEF Exists, IsDocument
  <2>2. Above(<<"objects", i>>)
    BY <2>1, ObjectPaths
  <2> QED BY <1>4, <2>1, <2>2 DEF Exists
<1>8. ASSUME NEW i, NEW k, <<"objects", i, k>> \in DOMAIN d
      PROVE  <<"objects", i, k>> \in DOMAIN e
  <2>1. Leaf(<<"objects", i, k>>)
    BY <1>1, <1>8, ObjectPaths DEF IsDocument
  <2> QED BY <1>4, <1>8, <2>1
<1>9. ASSUME NEW i, Exists(e, i), i # id PROVE Exists(d, i)
  <2>1. <<"objects", i>> \in DOMAIN e /\ <<"objects", i>> \in Paths
    BY <1>1, <1>9 DEF Exists, IsDocument
  <2>2. Above(<<"objects", i>>) /\ <<"objects", i>> # path
    <3>1. <<"objects", i>> # <<"objects", id>>
      BY <1>9
    <3> QED BY <2>1, <3>1, ObjectPaths DEF path
  <2> QED BY <1>5, <2>1, <2>2 DEF Exists
<1>10. Furnished(e)
  <2>1. /\ \A p \in Addressed : p \in DOMAIN d /\ Leaf(p)
        /\ Inputs \in DOMAIN d /\ d[Inputs] = "{}" /\ Above(Inputs)
        /\ Goals \in DOMAIN d /\ d[Goals] = "[]" /\ Above(Goals)
        /\ Renderer \in DOMAIN d /\ Above(Renderer)
    BY <1>1, NamedPaths
  <2>2. Addressed \subseteq DOMAIN e
    BY <1>4, <2>1
  <2>3. /\ Inputs \in DOMAIN e /\ e[Inputs] = "{}"
        /\ Goals \in DOMAIN e /\ e[Goals] = "[]"
        /\ Renderer \in DOMAIN e
    BY <1>4, <2>1
  <2> QED BY <2>2, <2>3 DEF Furnished, Inputs, Goals, Renderer
<1>11. Sound(e)
  <2>1. /\ d[Selection] = "surface.command" \/ Exists(d, d[Selection])
        /\ \A i : Exists(d, i) =>
             /\ i \in Namespaced /\ d[<<"objects", i>>] = "{}"
             /\ <<"objects", i, "type">> \in DOMAIN d
             /\ <<"objects", i, "status">> \in DOMAIN d
        /\ d[<<"render">>] = "{}"
        /\ Status \in DOMAIN d => d[Status] \in RenderStatus
    BY <1>1, SoundParts
  <2>2. Selection \in DOMAIN d /\ Status \in DOMAIN d /\ Leaf(Selection) /\ Leaf(Status)
    BY <1>1, NamedPaths
  <2>3. e[Selection] = "surface.command" \/ Exists(e, e[Selection])
    BY <1>4, <1>7, <2>1, <2>2
  <2>4. e[Status] \in RenderStatus
    BY <1>4, <2>1, <2>2
  <2>5. e[<<"render">>] = "{}"
    <3>1. "render" \in Text /\ <<"render">> \in DOMAIN d
      BY <1>1, TextAssumption DEF Roots, ALLOWED_ROOTS
    <3>2. Above(<<"render">>)
      BY <3>1, RootPaths
    <3> QED BY <1>4, <2>1, <3>1, <3>2
  <2>6. ASSUME NEW i, Exists(e, i)
        PROVE  /\ i \in Namespaced /\ e[<<"objects", i>>] = "{}"
               /\ <<"objects", i, "type">> \in DOMAIN e
               /\ <<"objects", i, "status">> \in DOMAIN e
    <3>1. CASE i = id
      BY <3>1 DEF DictAt
    <3>2. CASE i # id
      <4>1. Exists(d, i)
        BY <1>9, <2>6, <3>2
      <4> QED BY <1>7, <1>8, <2>1, <4>1
    <3> QED BY <3>1, <3>2
  <2> QED BY <1>1, <2>3, <2>4, <2>5, <2>6, SoundParts
<1>12. Keeps(d, e)
  BY <1>4, <1>7 DEF Keeps
<1>13. Exists(e, id)
  BY DEF Exists, DictAt
<1> QED BY <1>6, <1>10, <1>11, <1>12, <1>13 DEF Ready

(* Setting an item of a dict.                                              *)
LEMMA Setting ==
  ASSUME NEW d, JsonDict(d), NEW o, IsOperation(o), o.op \in {"add", "replace"},
         o.path # <<>>, DictAt(d, Front(o.path)), o.op = "add" \/ o.path \in DOMAIN d
  PROVE  LET e == Applied(d, o)
         IN /\ Applicable(d, o) /\ JsonDict(e) /\ Outside(d, e, o.path)
            /\ o.path \in DOMAIN e /\ e[o.path] = o.value[<<>>]
            /\ \A r \in DOMAIN o.value : o.path \o r \in DOMAIN e
<1> DEFINE e == Applied(d, o)
<1>1. /\ o.path \in Paths /\ IsDocument(o.value) /\ <<>> \in DOMAIN o.value /\ IsDocument(d)
  BY DEF IsOperation, IsTree, JsonDict
<1>2. Applicable(d, o)
  BY DEF Applicable, CanSet, DictAt
<1>3. e = Graft(d, o.path, o.value)
  BY DEF Applied, DictAt
<1>4. JsonDict(e)
  BY <1>2, AppliedIsJson
<1>5. Outside(d, e, o.path)
  BY <1>1, <1>3, GraftIsLocal
<1>6. ASSUME NEW r \in DOMAIN o.value
      PROVE  o.path \o r \in DOMAIN e /\ e[o.path \o r] = o.value[r]
  <2>1. r \in Paths
    BY <1>1 DEF IsDocument
  <2>2. IsPrefix(o.path, o.path \o r) /\ Relative(o.path, o.path \o r) = r
    BY <1>1, <2>1, PrefixExtends, SuffixBack
  <2> QED BY <1>3, <2>2 DEF Graft
<1> HIDE DEF e
<1>7. o.path \in DOMAIN e /\ e[o.path] = o.value[<<>>]
  <2>1. o.path \o <<>> = o.path
    BY <1>1, NothingJoined
  <2> QED BY <1>1, <1>6, <2>1
<1> QED BY <1>2, <1>4, <1>5, <1>6, <1>7 DEF e

LEMMA ParentIsDict ==
  ASSUME NEW d, JsonDict(d), NEW q \in DOMAIN d, q # <<>>
  PROVE  DictAt(d, Front(q))
BY DEF JsonDict, IsTree, DictAt

(* The operations of packets apply, and what they leave is ready too.      *)
Runs(d, o) ==
  /\ Applicable(d, o)
  /\ Ready(Applied(d, o)) /\ Keeps(d, Applied(d, o))

LEMMA KeepsItself == ASSUME NEW d PROVE Keeps(d, d)
BY DEF Keeps

LEMMA TestRuns ==
  ASSUME NEW d, Ready(d), NEW o, o.op = "test", o.path \in DOMAIN d,
         o.value = Subtree(d, o.path)
  PROVE  Runs(d, o)
BY KeepsItself DEF Runs, Applicable, Applied

LEMMA LeafRuns ==
  ASSUME NEW d, Ready(d), NEW o, IsOperation(o), o.op \in {"add", "replace"}, Leaf(o.path),
         o.path \in DOMAIN d \/ (o.op = "add" /\ Front(o.path) = Inputs),
         o.path = Selection =>
           o.value[<<>>] = "surface.command" \/ Exists(d, o.value[<<>>]),
         o.path = Status => o.value[<<>>] \in RenderStatus
  PROVE  Runs(d, o)
<1> DEFINE e == Applied(d, o)
<1>1. JsonDict(d) /\ IsDocument(d) /\ Furnished(d)
  BY DEF Ready, JsonDict
<1>2. o.path # <<>>
  <2>1. o.path \in Paths /\ Len(o.path) \in 1 .. 3
    BY DEF Leaf
  <2> QED BY <2>1, PathLength
<1>3. DictAt(d, Front(o.path)) /\ (o.op = "add" \/ o.path \in DOMAIN d)
  <2>1. CASE o.path \in DOMAIN d
    BY <1>1, <1>2, <2>1, ParentIsDict
  <2>2. CASE o.op = "add" /\ Front(o.path) = Inputs
    BY <1>1, <2>2, NamedPaths DEF DictAt
  <2> QED BY <2>1, <2>2
<1>4. /\ Applicable(d, o) /\ JsonDict(e) /\ Outside(d, e, o.path)
      /\ o.path \in DOMAIN e /\ e[o.path] = o.value[<<>>]
  BY <1>1, <1>2, <1>3, Setting
<1> HIDE DEF e
<1>5. Ready(e) /\ Keeps(d, e)
  BY <1>4, LeafEdit
<1> QED BY <1>4, <1>5 DEF Runs, e

LEMMA GoalRuns ==
  ASSUME NEW d, Ready(d), NEW o, o.op = "add", o.path = <<"goals", "-">>, o.path \in Paths
  PROVE  Runs(d, o)
<1>1. /\ Goals \in DOMAIN d /\ d[Goals] = "[]"
  BY NamedPaths DEF Ready, JsonDict
<1>2. Front(o.path) = Goals
  <2>1. o.path # <<>> /\ Len(o.path) = 2 /\ o.path[1] = "goals"
    OBVIOUS
  <2>2. /\ Front(o.path) \in Paths /\ Len(Front(o.path)) = Len(o.path) - 1
        /\ \A i \in 1 .. Len(o.path) - 1 : Front(o.path)[i] = o.path[i]
    BY <2>1, FrontPath
  <2>3. /\ Goals \in Paths /\ Len(Goals) = 1 /\ Goals[1] = "goals"
    BY <1>1 DEF Goals, Ready, JsonDict, IsDocument
  <2>4. Len(Front(o.path)) = Len(Goals) /\ \A i \in 1 .. Len(Goals) : Front(o.path)[i] = Goals[i]
    BY <2>1, <2>2, <2>3
  <2> QED BY <2>2, <2>3, <2>4, SameItems
<1>3. Last(o.path) = "-"
  BY DEF Last
<1>4. Applicable(d, o) /\ Applied(d, o) = d
  BY <1>1, <1>2, <1>3 DEF Applicable, Applied, CanSet
<1> QED BY <1>4, KeepsItself DEF Runs

LEMMA PairFront ==
  ASSUME NEW p \in Paths, Len(p) = 2
  PROVE  Front(p) \in Paths /\ Len(Front(p)) = 1 /\ Front(p)[1] = p[1]
<1>1. p # <<>>
  BY PathLength
<1>2. /\ Front(p) \in Paths /\ Len(Front(p)) = Len(p) - 1
      /\ \A i \in 1 .. Len(p) - 1 : Front(p)[i] = p[i]
  BY <1>1, FrontPath
<1> QED BY <1>2

LEMMA ObjectHas ==
  ASSUME NEW type, NEW status
  PROVE  LET v == Object(type, status)
         IN {<<"type">>, <<"status">>} \subseteq DOMAIN v /\ v[<<>>] = "{}"
<1> DEFINE items == [type |-> Scalar(type), status |-> Scalar(status)]
           v == Dict(items)
<1>1. DOMAIN items = {"type", "status"}
  OBVIOUS
<1>2. <<>> \in DOMAIN items["type"] /\ <<>> \in DOMAIN items["status"]
  BY DEF Scalar
<1> HIDE DEF items
<1>3. DOMAIN v = {<<>>} \cup UNION {{<<k>> \o q : q \in DOMAIN items[k]} : k \in DOMAIN items}
  BY DEF Dict
<1>4. v[<<>>] = "{}"
  BY DEF Dict
<1>5. <<"type">> \o <<>> \in DOMAIN v /\ <<"status">> \o <<>> \in DOMAIN v
  BY <1>1, <1>2, <1>3
<1>6. <<"type">> \o <<>> = <<"type">> /\ <<"status">> \o <<>> = <<"status">>
  <2>1. "type" \in Text /\ "status" \in Text
    BY TextAssumption
  <2>2. <<>> \in Paths
    BY DEF Paths
  <2> QED BY <2>1, <2>2, RootedPath
<1> QED BY <1>4, <1>5, <1>6 DEF Object, items

LEMMA SpawnRuns ==
  ASSUME NEW d, Ready(d), NEW id \in Namespaced, ~Exists(d, id),
         NEW o, IsOperation(o), o = Add(<<"objects", id>>, Object("entity", "active"))
  PROVE  Runs(d, o) /\ Exists(Applied(d, o), id)
<1> DEFINE e == Applied(d, o)
           path == <<"objects", id>>
<1>1. JsonDict(d) /\ IsDocument(d) /\ Furnished(d)
  BY DEF Ready, JsonDict
<1>2. o.op = "add" /\ o.path = path /\ o.value = Object("entity", "active")
  BY DEF Add
<1>3. path \in Paths /\ path # <<>> /\ Len(path) = 2 /\ path[1] = "objects"
  BY <1>2 DEF IsOperation
<1>4. /\ Renderer \in DOMAIN d /\ Renderer \in Paths /\ Renderer # <<>> /\ Len(Renderer) = 2
      /\ Renderer[1] = "objects"
  BY <1>1, NamedPaths DEF IsDocument, Renderer
<1>5. Front(path) = Front(Renderer)
  <2> HIDE DEF path
  <2>1. /\ Front(path) \in Paths /\ Len(Front(path)) = 1 /\ Front(path)[1] = "objects"
    BY <1>3, PairFront
  <2>2. /\ Front(Renderer) \in Paths /\ Len(Front(Renderer)) = 1
        /\ Front(Renderer)[1] = "objects"
    BY <1>4, PairFront
  <2> QED BY <2>1, <2>2, SameItems
<1>6. DictAt(d, Front(path))
  BY <1>1, <1>4, <1>5, ParentIsDict
<1> HIDE DEF path
<1>7. /\ Applicable(d, o) /\ JsonDict(e) /\ Outside(d, e, path)
      /\ path \in DOMAIN e /\ e[path] = o.value[<<>>]
      /\ \A r \in DOMAIN o.value : path \o r \in DOMAIN e
  BY <1>1, <1>2, <1>3, <1>6, Setting
<1>8. /\ {<<"type">>, <<"status">>} \subseteq DOMAIN o.value /\ o.value[<<>>] = "{}"
  BY <1>2, ObjectHas
<1>9. /\ path \o <<"type">> = <<"objects", id, "type">>
      /\ path \o <<"status">> = <<"objects", id, "status">>
  <2>1. {"type", "status", "objects"} \subseteq Text
    BY TextAssumption DEF ALLOWED_ROOTS
  <2>2. id \in Text
    BY NamespaceAssumption
  <2> QED BY <2>1, <2>2, TriplePath DEF path
<1>10. /\ DictAt(e, path) /\ <<"objects", id, "type">> \in DOMAIN e
       /\ <<"objects", id, "status">> \in DOMAIN e
  BY <1>7, <1>8, <1>9 DEF DictAt
<1> HIDE DEF e
<1>11. Ready(e) /\ Keeps(d, e) /\ Exists(e, id)
  BY <1>7, <1>10, SpawnEdit DEF path
<1> QED BY <1>7, <1>11 DEF Runs, e
-----------------------------------------------------------------------------
(* The operations of packets. *)

Mild(d, first, i, o) ==
  \/ o.op = "test" /\ i = 1 /\ o.path = Selection /\ o.value = Subtree(d, Selection)
  \/ o.op = "add" /\ o.path = <<"goals", "-">>
  \/ o.op = "replace" /\ o.path \in Addressed \ {Selection, Status}
  \/ o.op = "replace" /\ o.path = Status /\ o.value[<<>>] = "queued"
  \/ /\ o.op = "replace" /\ o.path = Selection
     /\ \/ Exists(d, o.value[<<>>])
        \/ i = 2 /\ first = Add(<<"objects", o.value[<<>>]>>, Object("entity", "active"))
  \/ \E id : /\ o.op = "replace" /\ o.path = <<"objects", id, "status">>
             /\ Exists(d, id) \/ id = "node.renderer"
  \/ \E key : /\ o.path = <<"ui", "inputs", key>>
              /\ o.op = "add" \/ (o.op = "replace" /\ o.path \in DOMAIN d)
  \/ \E id \in Namespaced : /\ i = 1 /\ ~Exists(d, id)
                           /\ o = Add(<<"objects", id>>, Object("entity", "active"))

AllMild(d, s) == Len(s) \in Nat \ {0} /\ \A i \in 1 .. Len(s) : Mild(d, s[1], i, s[i])

LEMMA ReplaceIs ==
  ASSUME NEW path, NEW v
  PROVE  /\ Replace(path, v).op = "replace" /\ Replace(path, v).path = path
         /\ Replace(path, v).value[<<>>] = v
BY DEF Replace, Scalar

LEMMA FieldIsMild ==
  ASSUME NEW path \in Addressed \ {Selection, Status}, NEW v, NEW d, NEW first, NEW i
  PROVE  Mild(d, first, i, Replace(path, v))
BY ReplaceIs DEF Mild

LEMMA FieldPaths ==
  /\ <<"active_focus_id">> \in Addressed \ {Selection, Status}
  /\ <<"render", "requested_mode">> \in Addressed \ {Selection, Status}
  /\ <<"ui", "simulation_running">> \in Addressed \ {Selection, Status}
  /\ <<"layer_state", "events", "last_action">> \in Addressed \ {Selection, Status}
  /\ \A kind \in DOMAIN UiItem : UiItem[kind] \in Addressed \ {Selection, Status}
<1>1. /\ <<"active_focus_id">> # Selection /\ <<"active_focus_id">> # Status
      /\ <<"render", "requested_mode">> # Selection /\ <<"render", "requested_mode">> # Status
  BY DEF Selection, Status
<1>2. /\ <<"ui", "simulation_running">> # Selection /\ <<"ui", "simulation_running">> # Status
      /\ <<"layer_state", "events", "last_action">> # Selection
      /\ <<"layer_state", "events", "last_action">> # Status
  BY DEF Selection, Status
<1>3. \A kind \in DOMAIN UiItem : UiItem[kind] # Selection /\ UiItem[kind] # Status
  BY DEF Selection, Status, UiItem
<1> QED BY <1>1, <1>2, <1>3 DEF Addressed

LEMMA TestIsMild ==
  ASSUME NEW d, NEW first
  PROVE  Mild(d, first, 1, TestSelection(d))
BY DEF Mild, TestSelection, Selection

LEMMA PointIsMild ==
  ASSUME NEW p, NEW d
  PROVE  AllMild(d, PointAt(p, d))
<1> DEFINE a == TestSelection(d)
           b == Replace(<<"selected_object_id">>, p.target)
           c == Replace(<<"active_focus_id">>, p.target)
           e == Replace(<<"objects", p.target, "status">>,
                        IF p.kind = "click" THEN "selected" ELSE "active")
<1>1. \A first, i : Mild(d, first, 1, a) /\ Mild(d, first, i, c)
  BY TestIsMild, FieldIsMild, FieldPaths
<1>2. CASE ~Exists(d, p.target)
  <2>1. PointAt(p, d) = <<a, c>>
    BY <1>2 DEF PointAt
  <2> HIDE DEF a, c
  <2>2. AllMild(d, <<a, c>>)
    BY <1>1 DEF AllMild
  <2> QED BY <2>1, <2>2
<1>3. CASE Exists(d, p.target)
  <2>1. \A first, i : Mild(d, first, i, b)
    BY <1>3, ReplaceIs DEF Mild, Selection
  <2>2. \A first, i : Mild(d, first, i, e)
    BY <1>3, ReplaceIs DEF Mild
  <2>3. PointAt(p, d) = <<a, b, c, e>>
    BY <1>3 DEF PointAt
  <2> HIDE DEF a, b, c, e
  <2>4. AllMild(d, <<a, b, c, e>>)
    BY <1>1, <2>1, <2>2 DEF AllMild
  <2> QED BY <2>3, <2>4
<1> QED BY <1>2, <1>3

LEMMA TypeIsMild ==
  ASSUME NEW p, NEW d
  PROVE  AllMild(d, TypeInto(p, d))
<1> DEFINE path == <<"ui", "inputs", InputKey[p.target]>>
           a == TestSelection(d)
           b == [op |-> IF path \in DOMAIN d THEN "replace" ELSE "add", path |-> path,
                 value |-> Dict([text |-> Scalar("typed")])]
           c == Replace(<<"active_focus_id">>, p.target)
<1>1. \A first, i : Mild(d, first, 1, a) /\ Mild(d, first, i, c)
  BY TestIsMild, FieldIsMild, FieldPaths
<1>2. \A first, i : Mild(d, first, i, b)
  <2>1. b.path = path
    OBVIOUS
  <2>2. b.op = "add" \/ (b.op = "replace" /\ path \in DOMAIN d)
    OBVIOUS
  <2> HIDE DEF b
  <2> QED BY <2>1, <2>2 DEF Mild
<1>3. TypeInto(p, d) = <<a, b, c>>
  BY DEF TypeInto
<1> HIDE DEF a, b, c
<1>4. AllMild(d, <<a, b, c>>)
  BY <1>1, <1>2 DEF AllMild
<1> QED BY <1>3, <1>4

LEMMA RenderIsMild ==
  ASSUME NEW p, NEW d
  PROVE  AllMild(d, QueueRender(p))
<1> DEFINE a == Replace(<<"render", "status">>, "queued")
           b == Replace(<<"render", "requested_mode">>, p.kind)
           c == Replace(<<"objects", "node.renderer", "status">>, "queued")
<1>1. \A first, i : Mild(d, first, i, a)
  BY ReplaceIs DEF Mild, Status
<1>2. \A first, i : Mild(d, first, i, b)
  BY FieldIsMild, FieldPaths
<1>3. \A first, i : Mild(d, first, i, c)
  BY ReplaceIs DEF Mild
<1>4. QueueRender(p) = <<a, b, c>>
  BY DEF QueueRender
<1> HIDE DEF a, b, c
<1>5. AllMild(d, <<a, b, c>>)
  BY <1>1, <1>2, <1>3 DEF AllMild
<1> QED BY <1>4, <1>5

LEMMA SpawnIsMild ==
  ASSUME NEW p, p.id \in Spawned, NEW d, ~Exists(d, p.id)
  PROVE  AllMild(d, Spawn(p))
<1> DEFINE a == Add(<<"objects", p.id>>, Object("entity", "active"))
           b == Replace(<<"selected_object_id">>, p.id)
<1>1. Mild(d, a, 1, a)
  <2>1. p.id \in Namespaced
    BY SpawnedAssumption
  <2> HIDE DEF a
  <2>2. a = Add(<<"objects", p.id>>, Object("entity", "active"))
    BY DEF a
  <2> QED BY <2>1, <2>2 DEF Mild
<1>2. Mild(d, a, 2, b)
  <2>1. b.op = "replace" /\ b.path = Selection /\ b.value[<<>>] = p.id
    BY ReplaceIs DEF Selection
  <2> HIDE DEF b
  <2>2. a = Add(<<"objects", b.value[<<>>]>>, Object("entity", "active"))
    BY <2>1
  <2> HIDE DEF a
  <2> QED BY <2>1, <2>2 DEF Mild
<1>3. Spawn(p) = <<a, b>>
  BY DEF Spawn
<1> HIDE DEF a, b
<1>4. AllMild(d, <<a, b>>)
  BY <1>1, <1>2 DEF AllMild
<1> QED BY <1>3, <1>4

LEMMA OneIsMild ==
  ASSUME NEW d, NEW o, \A first, i : Mild(d, first, i, o)
  PROVE  AllMild(d, <<o>>)
BY DEF AllMild

(* Every packet that the proposer does not raise on offers such operations. *)
LEMMA CommandedIsMild ==
  ASSUME NEW p \in Packets, NEW d, Proposable(p, d)
  PROVE  AllMild(d, Commanded(p, d))
<1>1. CASE p.kind \in {"click", "focus"}
  <2>1. Commanded(p, d) = PointAt(p, d)
    BY <1>1 DEF Commanded, ImageModes, UiItem
  <2> QED BY <2>1, PointIsMild
<1>2. CASE p.kind = "type"
  <2>1. Commanded(p, d) = TypeInto(p, d)
    BY <1>2 DEF Commanded, ImageModes, UiItem
  <2> QED BY <2>1, TypeIsMild
<1>3. CASE p.kind \in ImageModes
  <2>1. Commanded(p, d) = QueueRender(p)
    BY <1>3 DEF Commanded, ImageModes, UiItem
  <2> QED BY <2>1, RenderIsMild
<1>4. CASE p.kind \in {"pause", "resume", "toggle_run"}
  <2> DEFINE v == IF p.kind = "resume" \/ (p.kind = "toggle_run" /\ ~Running(d))
                  THEN "true" ELSE "false"
  <2>1. Commanded(p, d) = <<Replace(<<"ui", "simulation_running">>, v)>>
    BY <1>4 DEF Commanded, ImageModes, UiItem, SetRunning
  <2> HIDE DEF v
  <2>2. \A first, i : Mild(d, first, i, Replace(<<"ui", "simulation_running">>, v))
    BY FieldIsMild, FieldPaths
  <2> QED BY <2>1, <2>2, OneIsMild
<1>5. CASE p.kind = "goal"
  <2> DEFINE o == Add(<<"goals", "-">>, Dict([text |-> Scalar("goal")]))
  <2>1. Commanded(p, d) = <<o>>
    BY <1>5 DEF Commanded, ImageModes, UiItem
  <2>2. o.op = "add" /\ o.path = <<"goals", "-">>
    BY DEF Add
  <2> HIDE DEF o
  <2>3. \A first, i : Mild(d, first, i, o)
    BY <2>2 DEF Mild
  <2> QED BY <2>1, <2>3, OneIsMild
<1>6. CASE p.kind = "spawn"
  <2>1. Commanded(p, d) = Spawn(p)
    BY <1>6 DEF Commanded, ImageModes, UiItem
  <2>2. p.id \in Spawned
    BY <1>6 DEF Packets, UiItem, ImageModes
  <2>3. ~Exists(d, p.id)
    BY <1>6 DEF Proposable
  <2> QED BY <2>1, <2>2, <2>3, SpawnIsMild
<1>7. CASE p.kind = "set-status"
  <2> DEFINE o == Replace(<<"objects", p.id, "status">>, "ready")
  <2>1. Commanded(p, d) = <<o>>
    BY <1>7 DEF Commanded, ImageModes, UiItem
  <2>2. Exists(d, p.id)
    BY <1>7 DEF Proposable
  <2>3. \A first, i : Mild(d, first, i, o)
    <3>1. o.op = "replace" /\ o.path = <<"objects", p.id, "status">>
      BY ReplaceIs
    <3> HIDE DEF o
    <3> QED BY <2>2, <3>1 DEF Mild
  <2> HIDE DEF o
  <2> QED BY <2>1, <2>3, OneIsMild
<1>8. CASE p.kind \in DOMAIN UiItem
  <2> DEFINE o == Replace(UiItem[p.kind], p.value)
  <2>1. Commanded(p, d) = <<o>>
    BY <1>8 DEF Commanded, ImageModes, UiItem
  <2>2. \A first, i : Mild(d, first, i, o)
    BY <1>8, FieldIsMild, FieldPaths
  <2> HIDE DEF o
  <2> QED BY <2>1, <2>2, OneIsMild
<1>9. \/ p.kind \in {"click", "focus"} \/ p.kind = "type" \/ p.kind \in ImageModes
      \/ p.kind \in {"pause", "resume", "toggle_run"} \/ p.kind = "goal"
      \/ p.kind = "spawn" \/ p.kind = "set-status" \/ p.kind \in DOMAIN UiItem
  BY DEF Packets
<1> QED BY <1>1, <1>2, <1>3, <1>4, <1>5, <1>6, <1>7, <1>8, <1>9

LEMMA OperationsAreMild ==
  ASSUME NEW p \in Packets, NEW d, Proposable(p, d), Operations(p, d) \in Seq(Range(Operations(p, d)))
  PROVE  AllMild(d, Operations(p, d))
<1> DEFINE s == Commanded(p, d)
           o == [op |-> "replace", path |-> <<"layer_state", "events", "last_action">>,
                 value |-> Dict([kind |-> Scalar(p.kind)])]
           t == Operations(p, d)
<1>1. Len(s) \in Nat \ {0} /\ \A i \in 1 .. Len(s) : Mild(d, s[1], i, s[i])
  BY CommandedIsMild DEF AllMild
<1>2. \A first, i : Mild(d, first, i, o)
  <2>1. o.op = "replace" /\ o.path \in Addressed \ {Selection, Status}
    BY FieldPaths
  <2> HIDE DEF o
  <2> QED BY <2>1 DEF Mild
<1>3. t = Append(s, o)
  BY DEF Operations
<1> HIDE DEF s, o, t
<1>4. Len(t) = Len(s) + 1 /\ t[Len(s) + 1] = o /\ \A i \in 1 .. Len(s) : t[i] = s[i]
  BY <1>1, <1>3
<1>5. ASSUME NEW i \in 1 .. Len(t) PROVE Mild(d, t[1], i, t[i])
  <2>1. t[1] = s[1]
    BY <1>1, <1>4
  <2>2. i \in 1 .. Len(s) \/ i = Len(s) + 1
    BY <1>1, <1>4
  <2> QED BY <1>1, <1>2, <1>4, <2>1, <2>2
<1>6. Len(t) \in Nat \ {0}
  BY <1>1, <1>4
<1>7. AllMild(d, t)
  BY <1>5, <1>6 DEF AllMild
<1> QED BY <1>7 DEF t

(* Where the operations of packets lead.                                   *)
SparesTypes(path) == \A id : path # <<"objects", id, "type">>

LEMMA MildPaths ==
  ASSUME NEW d, NEW first, NEW i, NEW o, IsOperation(o), Mild(d, first, i, o)
  PROVE  \/ Leaf(o.path) /\ SparesTypes(o.path)
         \/ o.op = "add" /\ o.path = <<"goals", "-">>
         \/ \E id \in Namespaced : /\ i = 1 /\ ~Exists(d, id)
                                  /\ o = Add(<<"objects", id>>, Object("entity", "active"))
<1>1. o.path \in Paths
  BY DEF IsOperation
<1>2. CASE o.op \in {"test", "replace"} /\ o.path \in Addressed
  <2>1. Leaf(o.path) /\ Head(o.path) # "objects"
    BY <1>1, <1>2, AddressedAreLeaves
  <2>2. \A id : Head(<<"objects", id, "type">>) = "objects"
    OBVIOUS
  <2>3. \A id : o.path # <<"objects", id, "type">>
    BY <2>1, <2>2
  <2> QED BY <2>1, <2>3 DEF SparesTypes
<1>3. CASE o.op = "add" /\ o.path = <<"goals", "-">>
  BY <1>3
<1>4. CASE \E id : o.op = "replace" /\ o.path = <<"objects", id, "status">>
  <2>1. PICK id : o.path = <<"objects", id, "status">>
    BY <1>4
  <2>2. \A k : o.path # <<"objects", k, "type">>
    BY <2>1
  <2>3. Leaf(o.path)
    BY <1>1, <2>1, ObjectPaths
  <2> QED BY <2>2, <2>3 DEF SparesTypes
<1>5. CASE \E key : o.path = <<"ui", "inputs", key>> /\ o.op \in {"add", "replace"}
  <2>1. Len(o.path) = 3 /\ Head(o.path) = "ui" /\ o.path[2] = "inputs"
    BY <1>5
  <2>2. Leaf(o.path)
    BY <1>1, <2>1 DEF Leaf
  <2>3. \A id : Head(<<"objects", id, "type">>) = "objects"
    OBVIOUS
  <2>4. \A id : o.path # <<"objects", id, "type">>
    BY <2>1, <2>3
  <2> QED BY <2>2, <2>4 DEF SparesTypes
<1>6. CASE \E id \in Namespaced : /\ i = 1 /\ ~Exists(d, id)
                                  /\ o = Add(<<"objects", id>>, Object("entity", "active"))
  BY <1>6
<1>7. Selection \in Addressed /\ Status \in Addressed
  BY DEF Addressed, Selection, Status
<1> QED BY <1>2, <1>3, <1>4, <1>5, <1>6, <1>7 DEF Mild

LEMMA InputRuns ==
  ASSUME NEW d, Ready(d), NEW t, Ready(t), Keeps(d, t), NEW key,
         NEW o, IsOperation(o), o.path = <<"ui", "inputs", key>>,
         o.op = "add" \/ (o.op = "replace" /\ o.path \in DOMAIN d)
  PROVE  Runs(t, o)
<1> DEFINE q == <<"ui", "inputs", key>>
<1>1. o.path = q /\ q \in Paths /\ q # <<>> /\ Len(q) = 3
      /\ q[1] = "ui" /\ q[2] = "inputs" /\ Head(q) = "ui"
  BY DEF IsOperation
<1> HIDE DEF q
<1>2. Leaf(o.path)
  BY <1>1 DEF Leaf
<1>3. o.path \in DOMAIN t \/ (o.op = "add" /\ Front(o.path) = Inputs)
  <2>1. CASE o.op = "replace"
    BY <1>2, <2>1 DEF Keeps
  <2>2. CASE o.op = "add"
    <3>1. /\ Front(q) \in Paths /\ Len(Front(q)) = Len(q) - 1
          /\ \A i \in 1 .. Len(q) - 1 : Front(q)[i] = q[i]
      BY <1>1, FrontPath
    <3>2. Inputs \in Paths
      BY NamedPaths DEF Ready, JsonDict, Above
    <3>3. Len(Inputs) = 2 /\ Inputs[1] = "ui" /\ Inputs[2] = "inputs"
      BY DEF Inputs
    <3>4. Len(Front(q)) = Len(Inputs) /\ \A i \in 1 .. Len(Front(q)) : Front(q)[i] = Inputs[i]
      BY <1>1, <3>1, <3>3
    <3> QED BY <1>1, <2>2, <3>1, <3>2, <3>4, SameItems
  <2> QED BY <2>1, <2>2
<1>4. o.path # Selection /\ o.path # Status
  <2>1. Len(Selection) = 1 /\ Len(Status) = 2
    BY DEF Selection, Status
  <2> QED BY <1>1, <2>1
<1>5. o.op \in {"add", "replace"}
  OBVIOUS
<1> QED BY <1>2, <1>3, <1>4, <1>5, LeafRuns

LEMMA StatusRuns ==
  ASSUME NEW d, Ready(d), NEW t, Ready(t), Keeps(d, t), NEW id,
         Exists(d, id) \/ id = "node.renderer",
         NEW o, IsOperation(o), o.op = "replace", o.path = <<"objects", id, "status">>
  PROVE  Runs(t, o)
<1> DEFINE q == <<"objects", id, "status">>
<1>1. /\ IsDocument(d) /\ IsDocument(t) /\ Sound(t) /\ Furnished(t)
      /\ o.path = q /\ q \in Paths
  BY DEF Ready, JsonDict, IsOperation
<1>2. Exists(t, id)
  <2>1. CASE Exists(d, id)
    <3>1. id \in Text
      <4>1. <<"objects", id>> \in Paths /\ <<"objects", id>>[2] = id /\ Len(<<"objects", id>>) = 2
        BY <1>1, <2>1 DEF Exists, IsDocument
      <4> QED BY <4>1 DEF Paths
    <3> QED BY <2>1, <3>1 DEF Keeps
  <2>2. CASE id = "node.renderer"
    <3>1. Renderer \in DOMAIN t
      BY <1>1, NamedPaths
    <3> QED BY <2>2, <3>1 DEF Exists, Renderer
  <2> QED BY <2>1, <2>2
<1>3. q \in DOMAIN t
  BY <1>1, <1>2, SoundParts
<1>4. Leaf(q)
  BY <1>1, ObjectPaths
<1>5. q # Selection /\ q # Status
  BY DEF Selection, Status
<1> HIDE DEF q
<1>6. Leaf(o.path) /\ o.path \in DOMAIN t /\ o.path # Selection /\ o.path # Status
      /\ o.op \in {"add", "replace"}
  BY <1>1, <1>3, <1>4, <1>5
<1> QED BY <1>6, LeafRuns

LEMMA NamedRuns ==
  ASSUME NEW t, Ready(t), NEW o, IsOperation(o), o.op = "replace", o.path \in Addressed,
         o.path = Selection =>
           o.value[<<>>] = "surface.command" \/ Exists(t, o.value[<<>>]),
         o.path = Status => o.value[<<>>] \in RenderStatus
  PROVE  Runs(t, o)
<1>1. o.path \in DOMAIN t /\ Leaf(o.path)
  BY NamedPaths DEF Ready, JsonDict
<1> QED BY <1>1, LeafRuns

LEMMA MildRuns ==
  ASSUME NEW d, Ready(d), NEW t, Ready(t), Keeps(d, t),
         NEW i, NEW first, NEW o, IsOperation(o), Mild(d, first, i, o),
         i = 1 => t = d,
         \A id : i = 2 /\ first = Add(<<"objects", id>>, Object("entity", "active"))
                   => Exists(t, id)
  PROVE  Runs(t, o)
<1>1. CASE o.op = "test" /\ i = 1 /\ o.path = Selection /\ o.value = Subtree(d, Selection)
  <2>1. Selection \in DOMAIN d
    BY NamedPaths DEF Ready, JsonDict
  <2> QED BY <1>1, <2>1, TestRuns
<1>2. CASE o.op = "add" /\ o.path = <<"goals", "-">>
  <2>1. o.path \in Paths
    BY DEF IsOperation
  <2> QED BY <1>2, <2>1, GoalRuns
<1>3. CASE o.op = "replace" /\ o.path \in Addressed \ {Selection, Status}
  BY <1>3, NamedRuns
<1>4. CASE o.op = "replace" /\ o.path = Status /\ o.value[<<>>] = "queued"
  <2>1. Status \in Addressed /\ Status # Selection /\ "queued" \in RenderStatus
    BY DEF Addressed, Status, Selection, RenderStatus
  <2> QED BY <1>4, <2>1, NamedRuns
<1>5. CASE /\ o.op = "replace" /\ o.path = Selection
           /\ \/ Exists(d, o.value[<<>>])
              \/ i = 2 /\ first = Add(<<"objects", o.value[<<>>]>>, Object("entity", "active"))
  <2> DEFINE v == o.value[<<>>]
  <2>1. Selection \in Addressed /\ Status # Selection
    BY DEF Addressed, Status, Selection
  <2>2. v \in Text
    BY DEF IsOperation, IsTree, IsDocument
  <2> HIDE DEF v
  <2>3. Exists(d, v) => Exists(t, v)
    BY <2>2 DEF Keeps
  <2>4. Exists(t, v)
    BY <1>5, <2>3 DEF v
  <2> QED BY <1>5, <2>1, <2>4, NamedRuns DEF v
<1>6. CASE \E id : /\ o.op = "replace" /\ o.path = <<"objects", id, "status">>
                   /\ Exists(d, id) \/ id = "node.renderer"
  BY <1>6, StatusRuns
<1>7. CASE \E key : /\ o.path = <<"ui", "inputs", key>>
                    /\ o.op = "add" \/ (o.op = "replace" /\ o.path \in DOMAIN d)
  BY <1>7, InputRuns
<1>8. CASE \E id \in Namespaced : /\ i = 1 /\ ~Exists(d, id)
                                  /\ o = Add(<<"objects", id>>, Object("entity", "active"))
  BY <1>8, SpawnRuns
<1> QED BY <1>1, <1>2, <1>3, <1>4, <1>5, <1>6, <1>7, <1>8 DEF Mild

LEMMA SubtreeRoot ==
  ASSUME NEW d, IsDocument(d), NEW p \in DOMAIN d
  PROVE  <<>> \in DOMAIN Subtree(d, p) /\ Subtree(d, p)[<<>>] = d[p]
<1>1. p \in Paths /\ IsPrefix(p, p) /\ p \o <<>> = p /\ <<>> \in Paths
  BY PathLength, NothingJoined DEF IsDocument
<1>2. Relative(p, p) = <<>>
  BY <1>1, SuffixBack
<1>3. <<>> \in {Relative(p, q) : q \in Below(d, p)}
  BY <1>1, <1>2 DEF Below
<1> QED BY <1>1, <1>3 DEF Subtree

(* None of them addresses what a proposal may not touch.                   *)
LEMMA MildAuthorized ==
  ASSUME NEW d, Ready(d), NEW i, NEW first, NEW o, IsOperation(o), Mild(d, first, i, o)
  PROVE  Authorized(o)
<1>1. o.path \in Paths
  BY DEF IsOperation
<1>2. o.op = "test" => o.value # None
  <2> SUFFICES ASSUME o.op = "test", o.value = None PROVE FALSE
    OBVIOUS
  <2>1. o.value = Subtree(d, Selection)
    BY DEF Mild, Add
  <2>2. IsDocument(d) /\ Selection \in DOMAIN d
    BY NamedPaths DEF Ready, JsonDict
  <2>3. d[Selection] = "None"
    <3>1. None[<<>>] = "None"
      BY DEF None, Scalar
    <3> QED BY <2>1, <2>2, <3>1, SubtreeRoot
  <2>4. d[Selection] = "surface.command" \/ d[Selection] \in Namespaced
    BY <2>2, SoundParts DEF Ready
  <2> QED BY <2>3, <2>4, SpawnedAssumption
<1>3. CASE Leaf(o.path)
  <2>1. Len(o.path) \in 1 .. 3 /\ o.path # <<>>
    BY <1>1, <1>3, PathLength DEF Leaf
  <2>2. Head(o.path) \in {"selected_object_id", "active_focus_id", "ui", "render",
                          "layer_state", "objects"}
    BY <1>3 DEF Leaf
  <2>3. Head(o.path) = "objects" => Len(o.path) > 1
    BY <1>3 DEF Leaf
  <2>4. ~(Head(o.path) = "layer_state" /\ o.path[2] = "identity")
    BY <1>3 DEF Leaf
  <2> QED BY <1>2, <2>1, <2>2, <2>3, <2>4 DEF Authorized, ALLOWED_ROOTS, PROTECTED_ROOTS
<1>4. CASE o.path = <<"goals", "-">>
  <2>1. o.path # <<>> /\ Head(o.path) = "goals"
    BY <1>4
  <2> QED BY <1>2, <2>1 DEF Authorized, ALLOWED_ROOTS, PROTECTED_ROOTS
<1>5. CASE \E id : o = Add(<<"objects", id>>, Object("entity", "active"))
  <2>1. o.path # <<>> /\ Head(o.path) = "objects" /\ Len(o.path) = 2 /\ o.op = "add"
    BY <1>5 DEF Add
  <2>2. /\ Head(o.path) \in ALLOWED_ROOTS \ PROTECTED_ROOTS
        /\ Head(o.path) # "layer_state"
    <3>1. Head(o.path) = "objects"
      BY <2>1
    <3> QED BY <3>1 DEF ALLOWED_ROOTS, PROTECTED_ROOTS
  <2> QED BY <1>2, <2>1, <2>2 DEF Authorized
<1>6. \/ Leaf(o.path) /\ SparesTypes(o.path)
      \/ o.op = "add" /\ o.path = <<"goals", "-">>
      \/ \E id \in Namespaced : /\ i = 1 /\ ~Exists(d, id)
                               /\ o = Add(<<"objects", id>>, Object("entity", "active"))
  BY MildPaths
<1>7. \/ Leaf(o.path)
      \/ o.path = <<"goals", "-">>
      \/ \E id : o = Add(<<"objects", id>>, Object("entity", "active"))
  BY <1>6
<1> QED BY <1>3, <1>4, <1>5, <1>7

(* Fields that a verdict, a fork or a commit sets.                         *)
Sets(e, path, fields) ==
  \A k \in DOMAIN fields : path \o <<k>> \in DOMAIN e /\ e[path \o <<k>>] = fields[k]

(* Setting fields of a dict touches these fields only.                     *)
LEMMA FieldsBeside ==
  ASSUME NEW d, IsDocument(d), NEW path \in Paths,
         NEW fields, DOMAIN fields \subseteq Text,
         \A k \in DOMAIN fields : fields[k] \in Text
  PROVE  LET e == WithFields(d, path, fields)
         IN /\ Beside(d, e, {path \o <<k>> : k \in DOMAIN fields})
            /\ Sets(e, path, fields)
<1> DEFINE e == WithFields(d, path, fields)
           set == {path \o <<k>> : k \in DOMAIN fields}
<1>1. /\ \A k \in DOMAIN fields : path \o <<k>> \in DOMAIN e /\ e[path \o <<k>>] = fields[k]
      /\ \A q \in DOMAIN d :
           (\A k \in DOMAIN fields : ~IsPrefix(path \o <<k>>, q)) => q \in DOMAIN e /\ e[q] = d[q]
      /\ \A q \in DOMAIN e \ DOMAIN d : \E k \in DOMAIN fields : q = path \o <<k>>
  BY FieldsAreLocal
<1> HIDE DEF e
<1>2. Beside(d, e, set)
  <2> SUFFICES ASSUME NEW q \in Paths, \A p \in set : ~IsPrefix(p, q)
               PROVE  /\ q \in DOMAIN e <=> q \in DOMAIN d
                      /\ q \in DOMAIN d => e[q] = d[q]
    BY DEF Beside
  <2>1. \A k \in DOMAIN fields : ~IsPrefix(path \o <<k>>, q)
    OBVIOUS
  <2>2. IsPrefix(q, q)
    BY PathLength
  <2>3. \A k \in DOMAIN fields : q # path \o <<k>>
    BY <2>1, <2>2
  <2> QED BY <1>1, <2>1, <2>3
<1> QED BY <1>1, <1>2 DEF e, Sets

LeafFields(path, fields) ==
  \A k \in DOMAIN fields :
    /\ Leaf(path \o <<k>>) /\ path \o <<k>> # Selection
    /\ path \o <<k>> = Status => fields[k] \in RenderStatus

LEMMA FieldsAreReady ==
  ASSUME NEW d, Ready(d), NEW path \in Paths \ {<<>>}, DictAt(d, path),
         NEW fields, DOMAIN fields \subseteq Text,
         \A k \in DOMAIN fields : fields[k] \in Text,
         LeafFields(path, fields)
  PROVE  Ready(WithFields(d, path, fields))
<1> DEFINE e == WithFields(d, path, fields)
           set == {path \o <<k>> : k \in DOMAIN fields}
<1>1. JsonDict(d) /\ IsDocument(d)
  BY DEF Ready, JsonDict
<1>2. JsonDict(e)
  BY <1>1, FieldsAreJson
<1>3. path \in Paths
  OBVIOUS
<1>4. /\ Beside(d, e, set)
      /\ Sets(e, path, fields)
  BY <1>1, <1>3, FieldsBeside
<1> HIDE DEF e
<1>5. \A p \in set : Leaf(p) /\ p \in DOMAIN e
  BY <1>4 DEF LeafFields, Sets
<1>6. Selection \notin set
  BY DEF LeafFields
<1>7. Status \in set => e[Status] \in RenderStatus
  BY <1>4 DEF LeafFields, Sets
<1> HIDE DEF set
<1>8. Ready(e)
  BY <1>2, <1>4, <1>5, <1>6, <1>7, LeavesEdit
<1> QED BY <1>8 DEF e

LEMMA RenderIsReady ==
  ASSUME NEW d, Ready(d), NEW fields, RenderEdit(fields)
  PROVE  Ready(WithFields(d, <<"render">>, fields))
<1> DEFINE path == <<"render">>
<1>1. IsDocument(d) /\ Sound(d) /\ Roots(d)
  BY DEF Ready, JsonDict
<1>2. "render" \in ALLOWED_ROOTS /\ "render" \in Text
  BY TextAssumption DEF ALLOWED_ROOTS
<1>3. path \in Paths /\ Len(path) = 1 /\ Head(path) = "render" /\ path[1] = "render"
  BY <1>2, RootPaths
<1>4. DictAt(d, path)
  BY <1>1, <1>2, SoundParts DEF DictAt, Roots
<1>5. path # <<>>
  OBVIOUS
<1> HIDE DEF path
<1>6. ASSUME NEW k \in DOMAIN fields
      PROVE  /\ Leaf(path \o <<k>>) /\ path \o <<k>> # Selection
             /\ path \o <<k>> = Status => fields[k] \in RenderStatus
  <2>1. k \in Text
    BY <1>6 DEF RenderEdit
  <2>2. /\ path \o <<k>> \in Paths /\ Len(path \o <<k>>) = Len(path) + 1
        /\ Last(path \o <<k>>) = k
    BY <1>3, <2>1, ChildPath
  <2>3. Len(path \o <<k>>) = 2
    BY <1>3, <2>2
  <2>4. path \o <<k>> = <<"render", k>>
    BY <1>2, <2>1, PairPath DEF path
  <2>5. Head(path \o <<k>>) = "render"
    <3>1. Head(<<"render", k>>) = "render"
      OBVIOUS
    <3> QED BY <2>4, <3>1
  <2>6. Leaf(path \o <<k>>)
    BY <2>2, <2>3, <2>5 DEF Leaf
  <2>7. Len(Selection) = 1
    BY DEF Selection
  <2>8. path \o <<k>> = Status => k = "status"
    BY <2>4 DEF Status
  <2>9. k = "status" => fields[k] \in RenderStatus
    BY DEF RenderEdit
  <2> QED BY <2>3, <2>6, <2>7, <2>8, <2>9
<1>7. /\ DOMAIN fields \subseteq Text
      /\ \A k \in DOMAIN fields : fields[k] \in Text
  BY DEF RenderEdit
<1>8. LeafFields(path, fields)
  BY <1>6 DEF LeafFields
<1>9. Ready(WithFields(d, path, fields))
  BY <1>3, <1>4, <1>5, <1>7, <1>8, FieldsAreReady
<1> QED BY <1>9 DEF path

LEMMA DeepFields ==
  ASSUME NEW a \in Text, NEW b \in Text, NEW k \in Text,
         a = "objects" \/ (a = "layer_state" /\ b = "meta_model")
  PROVE  /\ <<a, b>> \in Paths /\ <<a, b>> # <<>>
         /\ Leaf(<<a, b>> \o <<k>>)
         /\ <<a, b>> \o <<k>> # Selection /\ <<a, b>> \o <<k>> # Status
<1>1. <<a, b>> \in Paths /\ <<a, b>> # <<>>
  BY DEF Paths
<1>2. <<a, b>> \o <<k>> = <<a, b, k>>
  BY TriplePath
<1>3. <<a, b, k>> \in Paths
  BY DEF Paths
<1>4. Len(<<a, b, k>>) = 3 /\ Head(<<a, b, k>>) = a /\ <<a, b, k>>[2] = b
  OBVIOUS
<1>5. Leaf(<<a, b, k>>)
  BY <1>3, <1>4 DEF Leaf
<1>6. Len(Selection) = 1 /\ Len(Status) = 2
  BY DEF Selection, Status
<1>7. <<a, b, k>> # Selection /\ <<a, b, k>> # Status
  BY <1>4, <1>6
<1> QED BY <1>1, <1>2, <1>5, <1>7

LEMMA ForkIsReady ==
  ASSUME NEW d, Ready(d), DictAt(d, <<"layer_state", "meta_model">>)
  PROVE  Ready(WithFields(d, <<"layer_state", "meta_model">>,
                          [forked_from |-> "branch", fork_state_hash |-> "hash"]))
<1> DEFINE F == [forked_from |-> "branch", fork_state_hash |-> "hash"]
           path == <<"layer_state", "meta_model">>
<1>1. DOMAIN F \subseteq Text /\ \A k \in DOMAIN F : F[k] \in Text
  BY ForkFields
<1>2. "layer_state" \in Text /\ "meta_model" \in Text
  BY TextAssumption DEF ALLOWED_ROOTS
<1> HIDE DEF F
<1>3. \A k \in DOMAIN F : /\ path \in Paths /\ path # <<>>
                          /\ Leaf(path \o <<k>>)
                          /\ path \o <<k>> # Selection /\ path \o <<k>> # Status
  BY <1>1, <1>2, DeepFields
<1>4. path \in Paths /\ path # <<>>
  BY <1>2 DEF Paths
<1> HIDE DEF path
<1>5. DictAt(d, path)
  BY DEF path
<1>6. LeafFields(path, F)
  BY <1>3 DEF LeafFields
<1>7. Ready(WithFields(d, path, F))
  BY <1>1, <1>4, <1>5, <1>6, FieldsAreReady
<1> QED BY <1>7 DEF F, path

LEMMA VerdictIsReady ==
  ASSUME NEW d, Ready(d), NEW status \in RenderStatus
  PROVE  Ready(WithFields(WithFields(d, <<"render">>, VerdictFields(status)),
                          <<"objects", "node.renderer">>, [status |-> status]))
<1> DEFINE e == WithFields(d, <<"render">>, VerdictFields(status))
           F == [status |-> status]
           path == <<"objects", "node.renderer">>
<1>1. Ready(e)
  BY VerdictEdits, RenderIsReady
<1> HIDE DEF e
<1>2. IsDocument(e) /\ Sound(e) /\ Furnished(e)
  BY <1>1 DEF Ready, JsonDict
<1>3. DOMAIN F = {"status"} /\ F["status"] = status
  OBVIOUS
<1>4. "status" \in Text /\ "objects" \in Text /\ "node.renderer" \in Text /\ status \in Text
  BY TextAssumption, NamespaceAssumption DEF ALLOWED_ROOTS
<1> HIDE DEF F
<1>5. DOMAIN F \subseteq Text /\ \A k \in DOMAIN F : F[k] \in Text
  BY <1>3, <1>4
<1>6. /\ path \in Paths /\ path # <<>>
      /\ \A k \in DOMAIN F : /\ Leaf(path \o <<k>>)
                             /\ path \o <<k>> # Selection /\ path \o <<k>> # Status
  BY <1>3, <1>4, DeepFields
<1>7. DictAt(e, path)
  <2>1. Renderer \in DOMAIN e
    BY <1>2, NamedPaths
  <2> QED BY <1>2, <2>1, SoundParts DEF DictAt, Exists, Renderer
<1> HIDE DEF path
<1>8. LeafFields(path, F)
  BY <1>6 DEF LeafFields
<1>9. Ready(WithFields(e, path, F))
  BY <1>1, <1>5, <1>6, <1>7, <1>8, FieldsAreReady
<1> QED BY <1>9 DEF e, path, F

LEMMA FromDictIsSame ==
  ASSUME NEW d, Ready(d)
  PROVE  FromDict(d) = d
<1>1. Missing(d) = {}
  BY DEF Ready, Roots, Missing
<1>2. FromDict(d) = [p \in DOMAIN d |-> d[p]]
  BY <1>1 DEF FromDict
<1>3. d = [p \in DOMAIN d |-> d[p]]
  BY DEF Ready, JsonDict, IsDocument
<1> QED BY <1>2, <1>3

LEMMA GenesisIsReady == Ready(Genesis)
BY GenesisIsJson, GenesisAssumption, FurnishedAssumption DEF Ready, Roots

(* The objects of a document are in another, and are what they were.       *)
ObjectsStay(d, e) ==
  \A id : Exists(d, id) =>
    /\ Exists(e, id)
    /\ <<"objects", id, "type">> \in DOMAIN e
    /\ e[<<"objects", id, "type">>] = d[<<"objects", id, "type">>]

LEMMA SoundStays ==
  ASSUME NEW d, IsDocument(d), Sound(d)
  PROVE  ObjectsStay(d, d)
BY SoundParts DEF ObjectsStay

(* None of them addresses an object of the document or its type.           *)
LEMMA MildIsBeside ==
  ASSUME NEW d, NEW first, NEW i, NEW o, IsOperation(o), Mild(d, first, i, o),
         NEW id, Exists(d, id), <<"objects", id>> \in Paths, <<"objects", id, "type">> \in Paths
  PROVE  /\ ~IsPrefix(o.path, <<"objects", id>>)
         /\ ~IsPrefix(o.path, <<"objects", id, "type">>)
<1> DEFINE q2 == <<"objects", id>>
           q3 == <<"objects", id, "type">>
<1>1. o.path \in Paths /\ q2 \in Paths /\ q3 \in Paths
  BY DEF IsOperation
<1>2. Above(q2) /\ Leaf(q3)
  BY ObjectPaths
<1>3. /\ Len(q2) = 2 /\ q2[2] = id /\ Head(q2) = "objects"
      /\ Len(q3) = 3 /\ q3[2] = id /\ Head(q3) = "objects"
  OBVIOUS
<1>4. CASE Leaf(o.path) /\ o.path # q3
  <2> HIDE DEF q2, q3
  <2>1. ~IsPrefix(o.path, q2)
    BY <1>2, <1>4, AboveLeaves
  <2>2. ~IsPrefix(o.path, q3)
    BY <1>2, <1>4, LeavesAreApart
  <2> QED BY <2>1, <2>2 DEF q2, q3
<1>5. CASE o.path = <<"goals", "-">>
  <2>1. o.path # <<>> /\ Head(o.path) = "goals"
    BY <1>5
  <2> HIDE DEF q2, q3
  <2>2. ~IsPrefix(o.path, q2) /\ ~IsPrefix(o.path, q3)
    BY <1>1, <1>3, <2>1, PrefixHead
  <2> QED BY <2>2 DEF q2, q3
<1>6. CASE \E j : ~Exists(d, j) /\ o = Add(<<"objects", j>>, Object("entity", "active"))
  <2>1. PICK j : ~Exists(d, j) /\ o = Add(<<"objects", j>>, Object("entity", "active"))
    BY <1>6
  <2>2. o.path = <<"objects", j>>
    BY <2>1 DEF Add
  <2>3. Len(o.path) = 2 /\ o.path[2] = j /\ j # id
    BY <2>1, <2>2
  <2> HIDE DEF q2, q3
  <2>4. ~IsPrefix(o.path, q2) /\ ~IsPrefix(o.path, q3)
    <3>1. Len(o.path) > 1
      BY <2>3
    <3> QED BY <1>1, <1>3, <2>3, <3>1, PrefixSecond
  <2> QED BY <2>4 DEF q2, q3
<1> QED BY <1>4, <1>5, <1>6, MildPaths DEF SparesTypes

LEMMA MildStays ==
  ASSUME NEW d, NEW t, IsDocument(t), ObjectsStay(d, t),
         NEW first, NEW i, NEW o, IsOperation(o), Mild(d, first, i, o)
  PROVE  ObjectsStay(d, Applied(t, o))
<1> DEFINE e == Applied(t, o)
<1>1. Outside(t, e, o.path)
  BY AppliedIsLocal
<1> HIDE DEF e
<1> SUFFICES ASSUME NEW id, Exists(d, id)
             PROVE  /\ Exists(e, id)
                    /\ <<"objects", id, "type">> \in DOMAIN e
                    /\ e[<<"objects", id, "type">>] = d[<<"objects", id, "type">>]
  BY DEF ObjectsStay, e
<1> DEFINE q2 == <<"objects", id>>
           q3 == <<"objects", id, "type">>
<1>2. q2 \in DOMAIN t /\ q3 \in DOMAIN t /\ t[q3] = d[q3]
  BY DEF ObjectsStay, Exists
<1>3. q2 \in Paths /\ q3 \in Paths
  BY <1>2 DEF IsDocument
<1>4. ~IsPrefix(o.path, q2) /\ ~IsPrefix(o.path, q3)
  BY <1>3, MildIsBeside
<1> HIDE DEF q2, q3
<1>5. q2 \in DOMAIN e /\ q3 \in DOMAIN e /\ e[q3] = d[q3]
  BY <1>1, <1>2, <1>3, <1>4 DEF Outside
<1> QED BY <1>5 DEF q2, q3, Exists

LEMMA SealedStays ==
  ASSUME NEW d, NEW t, IsDocument(t), ObjectsStay(d, t),
         NEW fields, DOMAIN fields \subseteq Text,
         \A k \in DOMAIN fields : fields[k] \in Text
  PROVE  ObjectsStay(d, WithFields(FromDict(t), <<"render">>, fields))
<1> DEFINE u == FromDict(t)
           path == <<"render">>
           e == WithFields(u, path, fields)
<1>1. IsDocument(u) /\ \A q \in DOMAIN t : q \in DOMAIN u /\ u[q] = t[q]
  BY FromDictAddsRoots
<1>2. path \in Paths /\ path # <<>> /\ Head(path) = "render"
  <2>1. "render" \in Text
    BY TextAssumption DEF ALLOWED_ROOTS
  <2> QED BY <2>1, RootPaths
<1> HIDE DEF u, path
<1>3. Outside(u, e, path)
  BY <1>1, <1>2, FieldsAreLocal
<1> HIDE DEF e
<1>4. ASSUME NEW id, Exists(d, id)
      PROVE  /\ Exists(e, id)
             /\ <<"objects", id, "type">> \in DOMAIN e
             /\ e[<<"objects", id, "type">>] = d[<<"objects", id, "type">>]
  <2> DEFINE q2 == <<"objects", id>>
             q3 == <<"objects", id, "type">>
  <2>1. q2 \in DOMAIN t /\ q3 \in DOMAIN t /\ t[q3] = d[q3]
    BY <1>4 DEF ObjectsStay, Exists
  <2>2. q2 \in Paths /\ q3 \in Paths /\ Head(q2) = "objects" /\ Head(q3) = "objects"
    BY <2>1 DEF IsDocument
  <2> HIDE DEF q2, q3
  <2>3. ~IsPrefix(path, q2) /\ ~IsPrefix(path, q3)
    BY <1>2, <2>2, PrefixHead
  <2>4. q2 \in DOMAIN e /\ q3 \in DOMAIN e /\ e[q3] = d[q3]
    BY <1>1, <1>3, <2>1, <2>2, <2>3 DEF Outside
  <2> QED BY <2>4 DEF q2, q3, Exists
<1> QED BY <1>4 DEF ObjectsStay, e, u, path
-----------------------------------------------------------------------------
(* What holds while a packet's proposal is served.                         *)

(* The operations are those that the proposer read off this document.      *)
Proposed ==
  by = "packet" => /\ step # "idle" /\ AllMild(doc, ops)
                   /\ step = "check" => done = 0

(* The draft has the objects of the document.                              *)
DraftStays == by = "packet" /\ step = "apply" => ObjectsStay(doc, draft)

(* As long as no client has committed what it made itself, the document    *)
(* has what packets address, and so has the draft; what the first          *)
(* operation adds is there for the second.                                 *)
FirstAdds(id) == ops[1] = Add(<<"objects", id>>, Object("entity", "active"))
DraftIsReady ==
  /\ Ready(draft) /\ Keeps(doc, draft) /\ (done = 0 => draft = doc)
  /\ \A id : done = 1 /\ FirstAdds(id) => Exists(draft, id)
Furnishing ==
  ~handmade => /\ Ready(doc)
               /\ by = "packet" /\ step = "apply" => DraftIsReady

PacketInv == Proposed /\ DraftStays /\ Furnishing

LEMMA InitServes == Init => PacketInv
BY GenesisIsReady DEF Init, PacketInv, Proposed, DraftStays, Furnishing

LEMMA SubmitServes ==
  ASSUME PacketInv, NEW who, NEW operations, NEW c, Submit(who, operations, c),
         who = "packet" => AllMild(doc, operations)
  PROVE  PacketInv'
<1>1. /\ step' = "check" /\ by' = who /\ ops' = operations /\ done' = 0
      /\ doc' = doc /\ handmade' = handmade
  BY DEF Submit, world
<1>2. Proposed'
  BY <1>1 DEF Proposed
<1>3. DraftStays'
  BY <1>1 DEF DraftStays
<1>4. Furnishing'
  BY <1>1 DEF PacketInv, Furnishing
<1> QED BY <1>2, <1>3, <1>4 DEF PacketInv

LEMMA ValidateServes ==
  ASSUME GateInv, PacketInv, Validate
  PROVE  PacketInv'
<1>1. /\ step = "check" /\ step' = "apply" /\ draft' = doc
      /\ UNCHANGED <<by, ops, done, doc, handmade>>
  BY DEF Validate, world
<1>2. ObjectsStay(doc, doc)
  BY SoundStays DEF GateInv, SoundState
<1>3. Proposed'
  BY <1>1 DEF PacketInv, Proposed
<1>4. DraftStays'
  BY <1>1, <1>2 DEF DraftStays
<1>5. Furnishing'
  <2>1. ASSUME by = "packet", ~handmade PROVE DraftIsReady'
    <3>1. done = 0 /\ Ready(doc)
      BY <1>1, <2>1 DEF PacketInv, Proposed, Furnishing
    <3> QED BY <1>1, <3>1, KeepsItself DEF DraftIsReady
  <2> QED BY <1>1, <2>1 DEF PacketInv, Furnishing
<1> QED BY <1>3, <1>4, <1>5 DEF PacketInv

(* The operation that is next, of a packet.                                *)
LEMMA NextIsMild ==
  ASSUME GateInv, PacketInv, by = "packet", step = "apply", done < Len(ops)
  PROVE  /\ IsOperation(ops[done + 1]) /\ Mild(doc, ops[1], done + 1, ops[done + 1])
         /\ done \in Nat
<1>1. /\ done \in Nat /\ ops \in Seq(Range(ops)) /\ \A i \in DOMAIN ops : IsOperation(ops[i])
  BY DEF GateInv, WorkTyped
<1>2. done + 1 \in 1 .. Len(ops) /\ done + 1 \in DOMAIN ops
  BY <1>1
<1> QED BY <1>1, <1>2 DEF PacketInv, Proposed, AllMild

LEMMA NextRuns ==
  ASSUME GateInv, PacketInv, by = "packet", ~handmade, step = "apply", done < Len(ops)
  PROVE  Runs(draft, ops[done + 1])
<1>1. /\ IsOperation(ops[done + 1]) /\ Mild(doc, ops[1], done + 1, ops[done + 1])
      /\ done \in Nat
  BY NextIsMild
<1>2. Ready(doc) /\ DraftIsReady
  BY DEF PacketInv, Furnishing
<1>3. done + 1 = 1 => draft = doc
  BY <1>1, <1>2 DEF DraftIsReady
<1>4. \A id : done + 1 = 2 /\ ops[1] = Add(<<"objects", id>>, Object("entity", "active"))
                => Exists(draft, id)
  BY <1>1, <1>2 DEF DraftIsReady, FirstAdds
<1>5. Ready(draft) /\ Keeps(doc, draft)
  BY <1>2 DEF DraftIsReady
<1> QED BY <1>1, <1>2, <1>3, <1>4, <1>5, MildRuns

LEMMA KeepsFurther ==
  ASSUME NEW d, NEW e, NEW f, Keeps(d, e), Keeps(e, f)
  PROVE  Keeps(d, f)
BY DEF Keeps

LEMMA FirstIsAdded ==
  ASSUME NEW d, Ready(d), NEW o, IsOperation(o), Mild(d, o, 1, o),
         NEW id, o = Add(<<"objects", id>>, Object("entity", "active"))
  PROVE  Exists(Applied(d, o), id)
<1>1. o.op = "add" /\ o.path = <<"objects", id>> /\ Len(o.path) = 2 /\ o.path[2] = id
      /\ Head(o.path) = "objects"
  BY DEF Add
<1>2. ~Leaf(o.path) /\ o.path # <<"goals", "-">>
  <2>1. ~Leaf(o.path)
    BY <1>1 DEF Leaf
  <2>2. Head(<<"goals", "-">>) = "goals"
    OBVIOUS
  <2> QED BY <1>1, <2>1, <2>2
<1>3. PICK j \in Namespaced :
        ~Exists(d, j) /\ o = Add(<<"objects", j>>, Object("entity", "active"))
  BY <1>2, MildPaths
<1>4. j = id
  <2>1. o.path = <<"objects", j>>
    BY <1>3 DEF Add
  <2> QED BY <1>1, <2>1
<1> QED BY <1>3, <1>4, SpawnRuns

LEMMA ApplyServes ==
  ASSUME GateInv, PacketInv, ApplyOperation
  PROVE  PacketInv'
<1> DEFINE o == ops[done + 1]
<1>1. /\ step = "apply" /\ done < Len(ops)
      /\ draft' = Applied(draft, o) /\ done' = done + 1
      /\ UNCHANGED <<step, by, ops, doc, handmade>>
  BY DEF ApplyOperation, world
<1>2. by = "packet" => /\ IsOperation(o) /\ Mild(doc, ops[1], done + 1, o) /\ done \in Nat
  BY <1>1, NextIsMild
<1>3. by = "packet" /\ ~handmade => Runs(draft, o)
  BY <1>1, NextRuns
<1>4. Proposed'
  BY <1>1 DEF PacketInv, Proposed
<1>5. DraftStays'
  <2>1. ASSUME by = "packet" PROVE ObjectsStay(doc, Applied(draft, o))
    <3>1. IsDocument(draft) /\ ObjectsStay(doc, draft)
      BY <1>1, <2>1 DEF GateInv, DraftSafe, PacketInv, DraftStays
    <3> HIDE DEF o
    <3> QED BY <1>2, <2>1, <3>1, MildStays
  <2> QED BY <1>1, <2>1 DEF DraftStays
<1>6. Furnishing'
  <2>1. ASSUME by = "packet", ~handmade PROVE DraftIsReady'
    <3>1. Ready(doc) /\ DraftIsReady
      BY <1>1, <2>1 DEF PacketInv, Furnishing
    <3>2. Ready(Applied(draft, o)) /\ Keeps(draft, Applied(draft, o))
      BY <1>3, <2>1 DEF Runs
    <3>3. Keeps(doc, Applied(draft, o))
      BY <3>1, <3>2, KeepsFurther DEF DraftIsReady
    <3>4. done + 1 # 0
      BY <1>2, <2>1
    <3>5. ASSUME NEW id, done + 1 = 1, FirstAdds(id) PROVE Exists(Applied(draft, o), id)
      <4>1. done = 0
        BY <1>2, <2>1, <3>5
      <4>2. draft = doc /\ o = ops[1]
        BY <3>1, <4>1 DEF DraftIsReady
      <4>3. IsOperation(ops[1]) /\ Mild(doc, ops[1], 1, ops[1])
        BY <1>2, <2>1, <4>1, <4>2
      <4> QED BY <3>1, <3>5, <4>2, <4>3, FirstIsAdded DEF FirstAdds
    <3> HIDE DEF o
    <3> QED BY <1>1, <3>2, <3>3, <3>4, <3>5 DEF DraftIsReady, FirstAdds
  <2> QED BY <1>1, <2>1 DEF PacketInv, Furnishing
<1> QED BY <1>4, <1>5, <1>6 DEF PacketInv

LEMMA RestServes ==
  ASSUME PacketInv, Rest, doc' = doc, handmade' = handmade
  PROVE  PacketInv'
<1>1. by' = "client"
  BY DEF Rest
<1>2. Furnishing'
  BY <1>1 DEF PacketInv, Furnishing
<1> QED BY <1>1, <1>2 DEF PacketInv, Proposed, DraftStays

LEMMA SealServes ==
  ASSUME GateInv, TypeInv, PacketInv, Seal
  PROVE  PacketInv'
<1>1. /\ step = "apply" /\ Rest /\ doc' = RenderedBy(FromDict(draft), class)
      /\ handmade' = (handmade \/ by = "client") /\ class \in Text
  BY DEF Seal, GateInv, WorkTyped
<1>2. by' = "client"
  BY <1>1 DEF Rest
<1>3. ASSUME ~handmade' PROVE Ready(doc')
  <2>1. ~handmade /\ by = "packet"
    BY <1>1, <1>3 DEF TypeInv
  <2>2. Ready(draft)
    BY <1>1, <2>1 DEF PacketInv, Furnishing, DraftIsReady
  <2>3. doc' = WithFields(draft, <<"render">>, RenderFields(class))
    BY <1>1, <2>2, FromDictIsSame DEF RenderedBy
  <2> QED BY <1>1, <2>2, <2>3, ProposalEdits, RenderIsReady
<1>4. Furnishing'
  BY <1>2, <1>3 DEF Furnishing
<1> QED BY <1>2, <1>4 DEF PacketInv, Proposed, DraftStays

(* While the engine rests, verdicts and forks edit the document.           *)
LEMMA EditServes ==
  ASSUME PacketInv, step = "idle", UNCHANGED <<work, handmade>>,
         Ready(doc) => Ready(doc')
  PROVE  PacketInv'
<1>1. step' = step /\ by' = by /\ by # "packet" /\ handmade' = handmade
  BY DEF PacketInv, Proposed, work
<1>2. Furnishing'
  BY <1>1 DEF PacketInv, Furnishing
<1> QED BY <1>1, <1>2 DEF PacketInv, Proposed, DraftStays

LEMMA VerdictServes ==
  ASSUME PacketInv, NEW status \in RenderStatus, VerifyRender(status)
  PROVE  PacketInv'
<1>1. /\ step = "idle" /\ UNCHANGED <<work, handmade>>
      /\ doc' = WithFields(WithFields(doc, <<"render">>, VerdictFields(status)),
                           <<"objects", "node.renderer">>, [status |-> status])
  BY DEF VerifyRender
<1>2. Ready(doc) => Ready(doc')
  BY <1>1, VerdictIsReady
<1> QED BY <1>1, <1>2, EditServes

LEMMA ForkServes ==
  ASSUME PacketInv, CreateBranch
  PROVE  PacketInv'
<1>1. /\ step = "idle" /\ UNCHANGED <<work, handmade>>
      /\ DictAt(doc, <<"layer_state", "meta_model">>)
      /\ doc' = WithFields(doc, <<"layer_state", "meta_model">>,
                           [forked_from |-> "branch", fork_state_hash |-> "hash"])
  BY DEF CreateBranch, DictAt
<1>2. Ready(doc) => Ready(doc')
  BY <1>1, ForkIsReady
<1> QED BY <1>1, <1>2, EditServes

LEMMA StepServes ==
  ASSUME GateInv, TypeInv, PacketInv, [Next]_vars
  PROVE  PacketInv'
<1>1. ASSUME NEW p \in Packets, Interact(p) PROVE PacketInv'
  <2>1. /\ Proposable(p, doc)
        /\ Submit("packet", Operations(p, doc), RenderClass(p))
    BY <1>1 DEF Interact
  <2>2. AllMild(doc, Operations(p, doc))
    BY <2>1, OperationsAreMild DEF Submit
  <2> QED BY <2>1, <2>2, SubmitServes
<1>2. ASSUME NEW q \in Proposals, Commit(q) PROVE PacketInv'
  <2>1. Submit("client", q.operations, q.class)
    BY <1>2 DEF Commit
  <2> QED BY <2>1, SubmitServes
<1>3. CASE Refuse
  <2>1. Rest /\ doc' = doc /\ handmade' = handmade
    BY <1>3 DEF Refuse, world
  <2> QED BY <2>1, RestServes
<1>4. CASE UNCHANGED vars
  <2>1. UNCHANGED <<doc, handmade, step, by, ops, done, draft>>
    BY <1>4 DEF vars, work, world
  <2>2. Proposed' /\ DraftStays'
    BY <2>1 DEF PacketInv, Proposed, DraftStays
  <2>3. Furnishing'
    <3>1. DraftIsReady => DraftIsReady'
      BY <2>1 DEF DraftIsReady, FirstAdds
    <3> QED BY <2>1, <3>1 DEF PacketInv, Furnishing
  <2> QED BY <2>2, <2>3 DEF PacketInv
<1> QED BY <1>1, <1>2, <1>3, <1>4, ValidateServes, ApplyServes, SealServes,
           VerdictServes, ForkServes
        DEF Next, GateStep

(* adapters.py, propose: what the proposer offers for a packet is not      *)
(* refused, by the checks on operations, by an operation that does not     *)
(* apply to the draft, or by the checks on the state that results, in any  *)
(* world that packets, verdicts and forks have made.                       *)
THEOREM OwnPatchesAlwaysApply == Spec => []OwnPatchesApply
<1>1. ASSUME GateInv, PacketInv PROVE OwnPatchesApply
  <2> SUFFICES ASSUME by = "packet", ~handmade PROVE ~Refused
    BY DEF OwnPatchesApply
  <2>1. CASE step = "check"
    <3>1. /\ Ready(doc) /\ AllMild(doc, ops)
          /\ ops \in Seq(Range(ops)) /\ \A i \in DOMAIN ops : IsOperation(ops[i])
      BY <1>1 DEF GateInv, WorkTyped, PacketInv, Proposed, Furnishing
    <3>2. Valid
      <4>1. DOMAIN ops = 1 .. Len(ops) /\ Len(ops) # 0
        BY <3>1 DEF AllMild
      <4>2. ops # <<>>
        BY <4>1
      <4>3. \A i \in DOMAIN ops : Authorized(ops[i])
        BY <3>1, <4>1, MildAuthorized DEF AllMild
      <4> QED BY <4>2, <4>3 DEF Valid
    <3> QED BY <2>1, <3>2 DEF Refused
  <2>2. CASE step = "apply" /\ done < Len(ops)
    <3>1. Runs(draft, ops[done + 1])
      BY <1>1, <2>2, NextRuns
    <3>2. done # Len(ops)
      BY <1>1, <2>2 DEF GateInv, WorkTyped
    <3> QED BY <2>2, <3>1, <3>2 DEF Refused, Runs
  <2>3. CASE step = "apply" /\ done = Len(ops)
    <3>1. Ready(draft)
      BY <1>1, <2>3 DEF PacketInv, Furnishing, DraftIsReady
    <3>2. Sound(FromDict(draft))
      BY <3>1, FromDictIsSame DEF Ready
    <3>3. ~(done < Len(ops))
      BY <2>3
    <3> QED BY <2>3, <3>2, <3>3 DEF Refused
  <2> QED BY <2>1, <2>2, <2>3 DEF Refused
<1> QED BY <1>1, InitKeeps, NextKeeps, InitIsTyped, StepIsTyped, InitServes, StepServes, PTL
        DEF Spec

(* adapters.py, _command_operations: no packet removes an object or        *)
(* changes what it is, even in worlds that clients have edited.            *)
THEOREM PacketsAlwaysKeepObjects == Spec => PacketsKeepObjects
<1>1. ASSUME GateInv, PacketInv, [Next]_vars
      PROVE  [by = "packet" =>
                \A id \in ObjectIds(doc) :
                  <<"objects", id>> \in DOMAIN doc' /\
                  doc'[<<"objects", id, "type">>] = doc[<<"objects", id, "type">>]]_vars
  <2> SUFFICES ASSUME by = "packet", NEW id \in ObjectIds(doc)
               PROVE  <<"objects", id>> \in DOMAIN doc' /\
                      doc'[<<"objects", id, "type">>] = doc[<<"objects", id, "type">>]
    OBVIOUS
  <2>1. step # "idle"
    BY <1>1 DEF PacketInv, Proposed
  <2>2. Exists(doc, id) /\ IsDocument(doc)
    BY <1>1, ObjectIdsArePaths DEF GateInv, SoundState, Exists
  <2>3. CASE doc' = doc
    BY <2>2, <2>3 DEF Exists
  <2>4. CASE Seal
    <3>1. /\ step = "apply" /\ class \in Text
          /\ doc' = WithFields(FromDict(draft), <<"render">>, RenderFields(class))
      BY <1>1, <2>4 DEF Seal, GateInv, WorkTyped, RenderedBy
    <3>2. IsDocument(draft) /\ ObjectsStay(doc, draft)
      BY <1>1, <3>1 DEF GateInv, DraftSafe, PacketInv, DraftStays
    <3>3. ObjectsStay(doc, doc')
      BY <3>1, <3>2, ProposalEdits, SealedStays DEF RenderEdit
    <3> QED BY <2>2, <3>3 DEF ObjectsStay, Exists
  <2>5. doc' = doc \/ Seal
    BY <1>1, <2>1
       DEF Next, GateStep, Interact, Commit, Submit, Validate, ApplyOperation, Refuse,
           VerifyRender, CreateBranch, vars, world
  <2> QED BY <2>3, <2>4, <2>5
<1> QED BY <1>1, InitKeeps, NextKeeps, InitIsTyped, StepIsTyped, InitServes, StepServes, PTL
        DEF Spec, PacketsKeepObjects
=============================================================================
