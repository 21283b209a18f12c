------------------------------ MODULE CodecJSON -------------------------------
(***************************************************************************)
(* The JSON codec of package astral for composite objects, reflective and  *)
(* by blueprint.  A document is a scalar of Scalars, an array of documents *)
(* or an object: a sequence of keys with documents, where a key is what it *)
(* names and the case it is written in.  An empty map is a nil map.  A     *)
(* type that is compiled in without a JSON codec is read by encoding/json  *)
(* itself wherever the code unmarshals into an object by its name.         *)
(***************************************************************************)
EXTENDS Codec

VARIABLE json

JArr(items)  == [j |-> "arr", t |-> items]
JObj(fields) == [j |-> "obj", t |-> fields]
Entry(key, doc) == [key |-> key, as |-> "declared", doc |-> doc]

-----------------------------------------------------------------------------
RECURSIVE MarshalDoc(_, _)

\* The JSON of an element: null for a nil pointer or an absent object.
ElemDoc(e, c) ==
  IF ~elemNeedsPresenceFlag(e) THEN MarshalDoc(e, c)
  ELSE IF c = <<>> THEN JNull ELSE MarshalDoc(e, c[1])

\* JSONAdapter: the name of the type, and the object.
EnvType == <<"envelope", "type">>
EnvObject == <<"envelope", "object">>
FieldKey(i) == <<"field", i>>
MapKey(k) == <<"map", k>>
Envelope(o) == JObj(<<Entry(EnvType, JStr(o.n)), Entry(EnvObject, MarshalDoc(Ref(o.n), o.v))>>)

\* The MarshalJSON of each composite.
StructDoc(n, v) == JObj([i \in DOMAIN v |-> Entry(FieldKey(i), MarshalDoc(Types[n].fields[i], v[i]))])
PtrDoc(t, v) == IF v = <<>> THEN JNull ELSE MarshalDoc(t.e, v[1])
IfaceDoc(v) == IF v = <<>> THEN JNull ELSE Envelope(v[1])
SliceDoc(t, v) == JArr([i \in DOMAIN v |-> ElemDoc(t.e, v[i])])
ArrayDoc(t, v) == JArr([i \in 1 .. t.l |-> ElemDoc(t.e, v[i])])
BundleDoc(v) == IF v = <<>> THEN JNull ELSE JArr([i \in DOMAIN v |-> Envelope(v[i])])
MapDoc(t, v) ==
  LET keys == SortedKeys(t.w, v)
      name(k) == MapKey(IF t.w = 0 THEN k ELSE Numeral(k, 10, 1))
  IN IF DOMAIN v = {} THEN JNull
     ELSE JObj([i \in DOMAIN keys |-> Entry(name(keys[i]), ElemDoc(t.e, v[keys[i]]))])

\* MarshalJSON of a value by its type; both codecs write the same.
MarshalDoc(t, v) ==
  CASE t.t = "scalar" -> Marshal(t.k, v, "json")
    [] t.t = "named" /\ Types[t.n].own = "alias" -> MarshalDoc(Types[t.n].fields[1], v)
    [] t.t = "named" /\ Types[t.n].own # "alias" -> StructDoc(t.n, v)
    [] t.t = "ptr" -> PtrDoc(t, v)
    [] t.t = "iface" -> IfaceDoc(v)
    [] t.t = "slice" -> SliceDoc(t, v)
    [] t.t = "array" -> ArrayDoc(t, v)
    [] t.t = "bundle" -> BundleDoc(v)
    [] t.t = "map" -> MapDoc(t, v)

-----------------------------------------------------------------------------
\* A destination made by New and read into by json.Unmarshal.
ByName(n) == [t |-> "byName", n |-> n]

\* The zero value of a type: what New and a missing field leave.  An element of a
\* carrier's array is a nil pointer.
RECURSIVE ZeroValue(_, _, _)
ZeroValue(prog, t, carried) ==
  CASE t.t = "scalar" -> ZeroOf(t.k)
    [] t.t \in {"named", "byName"} /\ Types[t.n].own = "alias" -> ZeroValue(prog, Types[t.n].fields[1], FALSE)
    [] t.t \in {"named", "byName"} /\ Types[t.n].own # "alias" -> [i \in DOMAIN Types[t.n].fields |-> ZeroValue(prog, Types[t.n].fields[i], t.n \notin prog)]
    [] t.t = "array" -> Repeat(t.l, IF carried \/ ~elemNeedsPresenceFlag(t.e) THEN <<>>
                                    ELSE <<ZeroValue(prog, t.e, FALSE)>>)
    [] t.t = "map" -> Empty
    [] OTHER -> <<>>

\* The lower-cased keys of an object; two that differ only in case are ambiguous.
NeverAmbiguous(doc) == FALSE    \* the last of two keys silently wins
Ambiguous(doc) == \E i, k \in DOMAIN doc.t : i # k /\ doc.t[i].key = doc.t[k].key
HasKey(doc, key) == \E i \in DOMAIN doc.t : doc.t[i].key = key
Member(doc, key) == doc.t[CHOOSE i \in DOMAIN doc.t : doc.t[i].key = key].doc

RECURSIVE UnmarshalDoc(_, _, _, _)

\* JSONAdapter.UnmarshalJSON admits its two keys only, then New by the type.
OpenEnvelope(prog, doc) ==
  LET n == Member(doc, EnvType).t[1]
      o == UnmarshalDoc(prog, ByName(n), Member(doc, EnvObject), ZeroValue(prog, Ref(n), FALSE))
  IN IF \/ doc.j # "obj" \/ Ambiguous(doc)
        \/ \E i \in DOMAIN doc.t : doc.t[i].key \notin {EnvType, EnvObject}
        \/ ~HasKey(doc, EnvType) \/ Member(doc, EnvType).j # "str" \/ ~New(prog, n)
     THEN Bad(<<>>)
     ELSE IF ~HasKey(doc, EnvObject) THEN Good([n |-> n, v |-> ZeroValue(prog, Ref(n), FALSE)])
     ELSE IF o.ok THEN Good([n |-> n, v |-> o.v]) ELSE Bad(<<>>)

\* All of them, or none.
All(results) ==
  IF \A i \in DOMAIN results : results[i].ok THEN Good([i \in DOMAIN results |-> results[i].v]) ELSE Bad(<<>>)

UnmarshalElem(prog, e, doc) ==
  IF ~elemNeedsPresenceFlag(e) THEN UnmarshalDoc(prog, e, doc, <<>>)
  ELSE LET r == UnmarshalDoc(prog, e, doc, ZeroValue(prog, e, FALSE)) IN [r EXCEPT !.v = <<@>>]

\* Keys of a map parse at their width; no entry leaves the map nil.
UnmarshalMap(prog, t, doc) ==
  LET key(i) == IF t.w = 0 THEN Good(doc.t[i].key[2]) ELSE ParseNumeral(doc.t[i].key[2], 10, FALSE, t.w, 0)
      val(i) == UnmarshalElem(prog, t.e, doc.t[i].doc)
  IN IF doc.j = "null" THEN Good(Empty)
     ELSE IF doc.j # "obj" \/ \E i \in DOMAIN doc.t : ~key(i).ok \/ ~val(i).ok THEN Bad(Empty)
     ELSE Good([k \in {key(i).v : i \in DOMAIN doc.t} |-> val(CHOOSE i \in DOMAIN doc.t : key(i).v = k).v])

\* structValue.UnmarshalJSON: a field that is missing keeps its value, and a key of no
\* field is refused.
UnmarshalFields(prog, n, doc, dest) ==
  LET fs == Types[n].fields
      f(i) == IF ~HasKey(doc, FieldKey(i)) THEN Good(dest[i])
              ELSE UnmarshalDoc(prog, fs[i], Member(doc, FieldKey(i)), dest[i])
  IN IF doc.j = "null" THEN Good(dest)
     ELSE IF doc.j # "obj" \/ Ambiguous(doc) THEN Bad(dest)
     ELSE IF \E i \in DOMAIN doc.t : doc.t[i].key \notin {FieldKey(k) : k \in DOMAIN fs} THEN Bad(dest)
     ELSE All([i \in DOMAIN fs |-> f(i)])

Present(r, dest) == IF r.ok THEN Good(<<r.v>>) ELSE Bad(dest)

\* A value behind json.Unmarshal, by way of a pointer or not.
UnmarshalPlain(prog, t, doc, dest) ==
  LET target == CASE t.t = "named" -> ByName(t.n)
                  [] t.t = "ptr" /\ t.e.t = "named" -> Ptr(ByName(t.e.n))
                  [] OTHER -> t
  IN UnmarshalDoc(prog, target, doc, dest)

\* unmarshalFieldJSON: a field of a carrier is read into a new value; null leaves an array
\* of nil elements.
unmarshalFieldJSON(prog, t, doc) ==
  LET zero == ZeroValue(prog, t, TRUE)
  IN IF t.t = "array" /\ doc.j = "null" THEN Good(zero)
     ELSE UnmarshalPlain(prog, IF t.t \in {"slice", "array", "map"} THEN Carrier(t) ELSE t, doc, zero)

\* RuntimeObject.UnmarshalJSON ignores a key of no field.
UnmarshalRuntime(prog, n, doc, dest) ==
  LET fs == Types[n].fields
      f(i) == IF ~HasKey(doc, FieldKey(i)) THEN Good(dest[i])
              ELSE unmarshalFieldJSON(prog, fs[i], Member(doc, FieldKey(i)))
  IN IF doc.j = "null" THEN Good(dest)
     ELSE IF doc.j # "obj" \/ Ambiguous(doc) THEN Bad(dest)
     ELSE All([i \in DOMAIN fs |-> f(i)])

UnmarshalObject(prog, n, doc, dest) ==
  IF ~New(prog, n) THEN Bad(dest)
  ELSE IF Types[n].own = "alias"
  THEN IF n \notin prog /\ doc.j = "null" THEN Good(dest) ELSE UnmarshalDoc(prog, Types[n].fields[1], doc, dest)
  ELSE IF n \in prog THEN UnmarshalFields(prog, n, doc, dest) ELSE UnmarshalRuntime(prog, n, doc, dest)

\* json.Unmarshal into a new object: by its UnmarshalJSON, or field by field by encoding/json,
\* to which of two keys that name a field the last counts and a key of no field nothing.
LastMember(doc, key) == doc.t[Max({i \in DOMAIN doc.t : doc.t[i].key = key})].doc
UnmarshalByName(prog, n, doc, dest) ==
  LET fs == Types[n].fields
      f(i) == IF ~HasKey(doc, FieldKey(i)) THEN Good(dest[i])
              ELSE UnmarshalPlain(prog, fs[i], LastMember(doc, FieldKey(i)), dest[i])
  IN IF n \notin prog \/ Types[n].own # "object" THEN UnmarshalDoc(prog, Ref(n), doc, dest)
     ELSE IF doc.j = "null" THEN Good(dest)
     ELSE IF doc.j # "obj" THEN Bad(dest) ELSE All([i \in DOMAIN fs |-> f(i)])

\* The UnmarshalJSON of each composite.
UnmarshalPtr(prog, t, doc, dest) ==
  IF doc.j = "null" THEN Good(<<>>)
  ELSE Present(UnmarshalDoc(prog, t.e, doc, ZeroValue(prog, t.e, FALSE)), dest)
UnmarshalIface(prog, doc, dest) ==
  IF doc.j = "null" THEN Good(<<>>) ELSE Present(OpenEnvelope(prog, doc), dest)
UnmarshalItems(prog, t, doc) == All([i \in DOMAIN doc.t |-> UnmarshalElem(prog, t.e, doc.t[i])])
UnmarshalSlice(prog, t, doc, dest) ==
  IF doc.j = "null" THEN Good(<<>>)
  ELSE IF doc.j = "arr" THEN UnmarshalItems(prog, t, doc) ELSE Bad(dest)
UnmarshalArray(prog, t, doc, dest) ==
  IF doc.j = "arr" /\ Len(doc.t) = t.l THEN UnmarshalItems(prog, t, doc) ELSE Bad(dest)

\* A member given twice is refused.  A member whose object is null is not read either: null
\* empties the interface that holds the new object, and ResolveObjectID panics.
Panics(doc) == doc.j = "obj" /\ HasKey(doc, EnvObject) /\ Member(doc, EnvObject).j = "null"
UnmarshalBundle(prog, doc, dest) ==
  LET members == All([i \in DOMAIN doc.t |-> OpenEnvelope(prog, doc.t[i])])
  IN IF doc.j = "null" THEN Good(dest)
     ELSE IF doc.j # "arr" \/ ~members.ok \/ ~IsInjective(members.v) \/ \E i \in DOMAIN doc.t : Panics(doc.t[i]) THEN Bad(dest)
     ELSE Good(members.v)

\* UnmarshalJSON of a value by its type, into dest.
UnmarshalDoc(prog, t, doc, dest) ==
  CASE t.t = "scalar" -> Unmarshal(t.k, doc, "json", dest)
    [] t.t = "named" -> UnmarshalObject(prog, t.n, doc, dest)
    [] t.t = "byName" -> UnmarshalByName(prog, t.n, doc, dest)
    [] t.t = "ptr" -> UnmarshalPtr(prog, t, doc, dest)
    [] t.t = "iface" -> UnmarshalIface(prog, doc, dest)
    [] t.t = "slice" -> UnmarshalSlice(prog, t, doc, dest)
    [] t.t = "array" -> UnmarshalArray(prog, t, doc, dest)
    [] t.t = "map" -> UnmarshalMap(prog, t, doc)
    [] t.t = "bundle" -> UnmarshalBundle(prog, doc, dest)

-----------------------------------------------------------------------------
\* A document as another program may write it: with a field left out, a key in another case,
\* a key too many, a key twice, or null in the place of a value, at one place anywhere.
RECURSIVE Harmed(_, _)
Here(kind, doc) ==
  LET keyed == doc.j = "obj" /\ doc.t # <<>> /\ doc.t[1].key[1] # "map"
  IN CASE kind = "null" -> {JNull}
       [] kind = "missing" /\ keyed -> {JObj(RemoveAt(doc.t, i)) : i \in DOMAIN doc.t}
       [] kind = "case" /\ keyed -> {[doc EXCEPT !.t[i].as = "lower"] : i \in DOMAIN doc.t}
       [] kind = "twice" /\ keyed -> {JObj(Append(doc.t, [doc.t[i] EXCEPT !.as = "lower"])) : i \in DOMAIN doc.t}
       [] kind = "excess" /\ keyed -> {JObj(Append(doc.t, Entry(<<"other", 0>>, JNull)))}
       [] kind = "shorter" /\ doc.j = "arr" /\ doc.t # <<>> -> {JArr(Front(doc.t))}
       [] OTHER -> {}
Harmed(kind, doc) ==
  Here(kind, doc) \cup
  CASE doc.j = "arr" -> UNION {{[doc EXCEPT !.t[i] = d] : d \in Harmed(kind, doc.t[i])} : i \in DOMAIN doc.t}
    [] doc.j = "obj" -> UNION {{[doc EXCEPT !.t[i].doc = d] : d \in Harmed(kind, doc.t[i].doc)} : i \in DOMAIN doc.t}
    [] OTHER -> {}

JSONInit ==
  \E n \in DOMAIN Samples : \E v \in Samples[n] :
    json = [at |-> "start", n |-> n, v |-> v, harm |-> "none", doc |-> JNull, reader |-> {}, res |-> Bad(<<>>)]

JSONMarshal ==
  /\ json.at = "start"
  /\ json' = [json EXCEPT !.at = "sent", !.doc = MarshalDoc(Ref(json.n), json.v)]

JSONHarm ==
  /\ json.at = "sent" /\ json.harm = "none"
  /\ \E kind \in {"null", "missing", "case", "twice", "excess", "shorter"} : \E d \in Harmed(kind, json.doc) :
       json' = [json EXCEPT !.harm = kind, !.doc = d]

\* The document is read into a new object.
JSONUnmarshal ==
  /\ json.at = "sent"
  /\ \E prog \in {p \in Programs : New(p, json.n)} :
       json' = [json EXCEPT !.at = "read", !.reader = prog,
                 !.res = UnmarshalDoc(prog, ByName(json.n), json.doc, ZeroValue(prog, Ref(json.n), FALSE))]

JSONNext == JSONMarshal \/ JSONHarm \/ JSONUnmarshal

\* What the binary form w of an object is read as.
ReadsAs(q, v) == q.ok => q.v = [n |-> json.n, v |-> v]
HasBinaryForm(w, r) == w.ok => ReadsAs(Decode(json.reader, w.out), r.v)

\* An object survives JSON.  Written by one program it is read by every other as the same
\* value, whether its types are compiled in or carried by blueprints, and whatever the case
\* of the keys; a key given twice in two cases is refused, except by encoding/json of a
\* compiled type without a JSON codec, to which the last one counts.  What reflection accepts a carrier
\* accepts, as the same value, so that a program which learned a type at run time is never
\* stricter than one compiled with it: only null, which is an absent element to a carrier
\* and a zero one to reflection, and an array left out tell them apart.  And whatever was
\* accepted has a binary form that is read back, if it is within the limits.
JSONCorrect ==
  json.at = "read" =>
    LET r == json.res
        plain == Reaches({"object"}, Ref(json.n), json.v) /\ \E n \in json.reader : Types[n].own = "object"
        compiled == {p \in Programs : json.n \in p}
        read(p) == UnmarshalDoc(p, ByName(json.n), json.doc, ZeroValue(p, Ref(json.n), FALSE))
    IN /\ json.harm \in {"none", "case"} => r = Good(json.v)
       /\ json.harm = "twice" => ~r.ok \/ (plain /\ r = Good(json.v))
       /\ json.harm \notin {"null", "twice"} /\ json.reader \in compiled /\ r.ok
          /\ ~(json.harm = "missing" /\ Reaches({"array"}, Ref(json.n), json.v)) =>
             \A p \in Programs : New(p, json.n) => read(p) = r
       /\ r.ok => HasBinaryForm(Encode(json.reader, json.n, r.v), r)

\* codec_agreement_test.go: "The two codecs must agree byte for byte."  A document that
\* leaves a field out means the same object, hence the same bytes, to every program.
CodecsAgree ==
  json.at = "read" /\ json.harm = "missing" /\ json.res.ok =>
    \A p \in {q \in Programs : New(q, json.n)} :
      LET o == UnmarshalDoc(p, ByName(json.n), json.doc, ZeroValue(p, Ref(json.n), FALSE))
          w == Encode(p, json.n, o.v)
          x == Encode(json.reader, json.n, json.res.v)
      IN o.ok /\ w.ok /\ x.ok => w.out = x.out
=============================================================================
