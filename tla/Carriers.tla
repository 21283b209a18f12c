------------------------------- MODULE Carriers -------------------------------
(***************************************************************************)
(* A RuntimeObject in the hands of an application: fields assigned by Set,  *)
(* which normalizes the Go value it is given, and containers filled through *)
(* RuntimeSlice.Append, RuntimeArray.Set and RuntimeMap.Set.  A Go value    *)
(* given to Set is a record that names its Go type; an element of a         *)
(* container is nil (<<>>) or an object with its type.                      *)
(***************************************************************************)
EXTENDS CodecJSON

CONSTANTS CarrierProgram,   \* the types compiled into the program
          CarrierTypes,     \* the types its RuntimeObjects have
          GoValues,         \* what the application passes to Set
          GoObjects,        \* the objects it puts in containers, [t, v]
          GoKeys,           \* the keys it uses
          MaxElems          \* elements of a container

VARIABLE carrier    \* the type of the object and its fields

GoObject(t, v) == [go |-> "object", t |-> t, v |-> v]

\* The type name of an element: a pointer names what it points to.
ElemName(e) == IF e.t = "ptr" THEN e.e ELSE e

\* specZeroAtErr: containers are empty carriers, of which an array holds nil.
SpecZero(t) == ZeroValue(CarrierProgram, t, TRUE)

NoCarrier == [n |-> <<>>, fields |-> <<>>]

CarrierInit ==
  \E n \in CarrierTypes :
    carrier = [n |-> n, fields |-> [i \in DOMAIN Types[n].fields |-> SpecZero(Types[n].fields[i])]]

-----------------------------------------------------------------------------
\* Strings and bytes are narrowed to the field's width without a check of their length.
normalizeUnchecked(t, x) ==
  IF x.go = t.k.f THEN Good(x.v) ELSE IF x.go = "object" /\ x.t = t THEN Good(x.v) ELSE Bad(0)

\* Strings and bytes are narrowed to the field's width, other natives have one width each,
\* and an object must be of the type, whatever its length.
normalizePrimitive(t, x) ==
  CASE x.go \in {"string", "bytes"} -> IF x.go = t.k.f /\ ~TooLong(t.k.w, x.v) THEN Good(x.v) ELSE Bad(0)
    [] x.go = "int" -> IF t.k = Kind("int", Word) THEN Good(x.n) ELSE Bad(0)
    [] x.go = "object" -> IF x.t = t THEN Good(x.v) ELSE Bad(0)
    [] OTHER -> Bad(0)

\* normalize: the value a field of type t holds for the Go value x, or a refusal.  The
\* objects behind an interface are those of Types; the primitives are left out.
normalize(t, x) ==
  CASE t.t = "scalar" -> normalizePrimitive(t, x)
    [] t.t \in {"named", "bundle"} -> IF x.go = "object" /\ x.t = t THEN Good(x.v) ELSE Bad(0)
    [] t.t = "ptr" -> IF x.go \in {"nil", "Nil"} THEN Good(<<>>)
                      ELSE IF x.go = "object" /\ x.t = t.e THEN Good(<<x.v>>) ELSE Bad(0)
    [] t.t = "iface" -> IF x.go = "Nil" THEN Good(<<>>)
                        ELSE IF x.go = "object" /\ x.t.t = "named" THEN Good(<<[n |-> x.t.n, v |-> x.v]>>) ELSE Bad(0)
    [] t.t = "slice" -> IF x.go = "slice" /\ x.e = ElemName(t.e) THEN Good(<<>>) ELSE Bad(0)
    [] t.t = "array" -> IF x.go = "array" /\ x.e = ElemName(t.e) /\ x.l = t.l THEN Good(SpecZero(t)) ELSE Bad(0)
    [] t.t = "map" -> IF x.go = "map" /\ x.e = ElemName(t.e) /\ x.w = t.w THEN Good(Empty) ELSE Bad(0)

FieldType(i) == Types[carrier.n].fields[i]
Store(i, v) == carrier' = [carrier EXCEPT !.fields[i] = v]

\* RuntimeObject.Set.
SetField(i, x) == LET r == normalize(FieldType(i), x) IN r.ok /\ Store(i, r.v)

\* The Go type of an object: every type that is known by blueprint is a *RuntimeObject.
GoType(t) == IF t.t = "named" /\ t.n \notin CarrierProgram THEN [t |-> "RuntimeObject"] ELSE t
AssignableTo(o, e) == e.t = "iface" \/ GoType(o.t) = GoType(ElemName(e))

\* convertMapKey: only a string, of any length, or a uint64 that the width holds.
convertMapKey(w, key) ==
  IF w = 0 THEN IF key.go = "string" THEN Good(key.s) ELSE Bad(0)
  ELSE IF key.go = "uint64" /\ key.n < Radix ^ w THEN Good(key.n) ELSE Bad(0)

AppendElem(i, o) ==
  /\ FieldType(i).t = "slice" /\ AssignableTo(o, FieldType(i).e) /\ Len(carrier.fields[i]) < MaxElems
  /\ Store(i, Append(carrier.fields[i], <<o>>))
SetArrayElem(i, k, o) ==
  /\ FieldType(i).t = "array" /\ k \in 1 .. FieldType(i).l /\ AssignableTo(o, FieldType(i).e)
  /\ Store(i, [carrier.fields[i] EXCEPT ![k] = <<o>>])
SetMapElem(i, key, o) ==
  /\ FieldType(i).t = "map" /\ convertMapKey(FieldType(i).w, key).ok /\ AssignableTo(o, FieldType(i).e)
  /\ Store(i, (convertMapKey(FieldType(i).w, key).v :> <<o>>) @@ carrier.fields[i])

CarrierNext ==
  \E i \in DOMAIN carrier.fields :
    \/ \E x \in GoValues : SetField(i, x)
    \/ \E o \in GoObjects : \/ AppendElem(i, o)
                            \/ \E k \in 1 .. MaxElems : SetArrayElem(i, k, o)
                            \/ \E key \in GoKeys : SetMapElem(i, key, o)

-----------------------------------------------------------------------------
\* The elements of a container, and the value of a field as the codec sees it.
Elems(i) == {carrier.fields[i][k] : k \in DOMAIN carrier.fields[i]} \ {<<>>}
Foreign(i) ==
  /\ FieldType(i).t \in {"slice", "array", "map"} /\ FieldType(i).e.t # "iface"
  /\ \E c \in Elems(i) : c[1].t # ElemName(FieldType(i).e)
Plain(i) ==
  LET t == FieldType(i)
      cell(c) == IF c = <<>> THEN c ELSE IF t.e.t = "iface" THEN <<[n |-> c[1].t.n, v |-> c[1].v]>> ELSE <<c[1].v>>
  IN IF t.t \notin {"slice", "array", "map"} THEN carrier.fields[i]
     ELSE [k \in DOMAIN carrier.fields[i] |-> cell(carrier.fields[i][k])]

\* The object o was written as w: its own program reads it, and one compiled with the type.
Whole(o, r) == r.ok /\ r.v = o /\ r.in = <<>>
Unset(i) == FieldType(i).t = "array" /\ <<>> \in Range(carrier.fields[i])
Travels(o, w) ==
  /\ w.ok /\ Whole(o, Decode(CarrierProgram, w.out))
  /\ Whole(o, Decode(Names, w.out)) \/ \E i \in DOMAIN carrier.fields : Unset(i)

\* What only WriteTo refuses: a string or bytes beyond the width of the field, and a
\* string key beyond 16 bits of length.
Overlong(i) == FieldType(i).t = "scalar" /\ Refused(FieldType(i).k, carrier.fields[i], "binary")
OverlongKey(i) == FieldType(i).t = "map" /\ LongKey(FieldType(i), carrier.fields[i])

\* What Set and the containers accept can be sent: an object they filled, in any order,
\* encodes, decodes as itself, and a program compiled with the type reads the same value or,
\* of an array with an element never set, refuses it.  Set refuses an over-long Go string or
\* byte slice (narrowString, narrowBytes), and convertMapKey a key too wide.  Two things pass
\* them and are refused by WriteTo, before a length is narrowed: an object the application
\* made over-long itself, such as a String8, and an over-long string key.
CarrierCorrect ==
  carrier # NoCarrier /\ (\A i \in DOMAIN carrier.fields : ~Foreign(i)) =>
    LET v == [i \in DOMAIN carrier.fields |-> Plain(i)]
        w == Encode(CarrierProgram, carrier.n, v)
    IN /\ \A i \in DOMAIN carrier.fields : Overlong(i) => GoObject(FieldType(i), carrier.fields[i]) \in GoValues
       /\ IF \E i \in DOMAIN carrier.fields : Overlong(i) \/ OverlongKey(i) THEN ~w.ok
          ELSE Travels([n |-> carrier.n, v |-> v], w)

\* RuntimeSlice.Append says that "a homogeneous slice will not silently accept a foreign
\* element": the elements of a slice are of its element type.
NoForeignElement == \A i \in DOMAIN carrier.fields : FieldType(i).t = "slice" => ~Foreign(i)
=============================================================================
