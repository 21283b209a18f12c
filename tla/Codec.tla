-------------------------------- MODULE Codec ---------------------------------
(***************************************************************************)
(* The binary codec of package astral for composite objects, in its two    *)
(* implementations: reflection over a type compiled into the program       *)
(* (Objectify), and a carrier driven by a blueprint registered at run time *)
(* (RuntimeObject).  A program is the set of type names compiled into it;  *)
(* the other names it knows from their blueprints.                         *)
(*                                                                         *)
(* A value is: of a scalar, or of a named type with a scalar under it, as  *)
(* in Scalars; of a struct, the sequence of its fields; of a pointer, <<>> *)
(* or <<v>>; of an interface, <<>> or <<[n, v]>>; of a slice or an array,  *)
(* a sequence and of a map a function of elements, where the element v of  *)
(* a value type is <<v>> so that []T and []*T hold the same elements.  A   *)
(* bundle is a sequence of [n, v].                                         *)
(***************************************************************************)
EXTENDS Scalars, FiniteSets

CONSTANTS Types,       \* by name: the fields, and whether it is an alias or has a JSON codec
          MaxDepth,    \* MaxBlueprintDepth: nested frames of one call
          MaxFrames,   \* MaxCodecFrames: frames of one call
          MaxBytes,    \* MaxCodecBytes: bytes one call moves
          MaxNodes     \* MaxBlueprintNodes: objects one construction allocates

Names == DOMAIN Types       \* a name is the sequence of its bytes
NilName == <<Radix - 1>>    \* the registered name of the Nil marker

Kind(f, w) == [f |-> f, w |-> w]
Scalar(k) == [t |-> "scalar", k |-> k]
Ref(n)    == [t |-> "named", n |-> n]
Ptr(e)    == [t |-> "ptr", e |-> e]
Iface     == [t |-> "iface"]
Slice(e)  == [t |-> "slice", e |-> e]
Array(l, e) == [t |-> "array", l |-> l, e |-> e]
BundleType == [t |-> "bundle"]
Map(w, e) == [t |-> "map", w |-> w, e |-> e]    \* of keys of w bytes, of string16 keys if 0

ASSUME CodecAssumption ==
  /\ {MaxDepth, MaxFrames, MaxBytes, MaxNodes} \subseteq Nat /\ NilName \notin Names
  /\ \A n \in Names : n # <<>> /\ n \in Seq(Byte) /\ Types[n].own \in {"value", "object", "alias"}
  \* of a type without a JSON codec: what encoding/json writes as the library does
  /\ \A n \in Names : Types[n].own = "object" =>
        \A f \in Range(Types[n].fields) : f.t \in {"scalar", "named"} \/ (f.t = "ptr" /\ f.e.t \in {"scalar", "named"})

-----------------------------------------------------------------------------
\* The ledger of one call: enter opens a frame, exit closes it, charge counts bytes.

NewLedger == [depth |-> 0, frames |-> 0, bytes |-> 0]
enter(led, k) == [led EXCEPT !.depth = @ + k, !.frames = @ + k]
exit(led, k)  == [led EXCEPT !.depth = @ - k]
Over(led) == led.depth > MaxDepth \/ led.frames > MaxFrames
charge(led, n) == [led EXCEPT !.bytes = @ + n]

Written(led) == [ok |-> TRUE, out |-> <<>>, led |-> led]
Unwritten(led) == [ok |-> FALSE, out |-> <<>>, led |-> led]
Put(r, bs) ==
  IF ~r.ok THEN r
  ELSE [ok |-> r.led.bytes + Len(bs) <= MaxBytes, out |-> r.out \o bs, led |-> charge(r.led, Len(bs))]
Join(r, w) == [ok |-> w.ok, out |-> r.out \o w.out, led |-> w.led]

\* A read takes n bytes, or fails: the stream is short, or the budget is.
Unread(in, led) == [ok |-> FALSE, v |-> <<>>, in |-> in, led |-> led]
Take(v, n, in, led) ==
  IF Len(in) < n \/ led.bytes + n > MaxBytes THEN Unread(in, led)
  ELSE [ok |-> TRUE, v |-> v, in |-> SubSeq(in, n + 1, Len(in)), led |-> charge(led, n)]

\* An element of a pointer or interface type frames itself; another kind gets a flag.
elemNeedsPresenceFlag(e) == e.t \notin {"ptr", "iface"}

\* The pair that starts a typed object: a length and the name.
ObjectTypeBytes(n) == WritePrefixed(1, n)

\* The keys of a map in the order of their bytes.
writeMapKey(w, key) == IF w = 0 THEN WritePrefixed(2, key) ELSE BigEndian(key, w)
BytesLess(a, b) ==
  \E i \in 1 .. Len(b) : /\ Len(a) >= i - 1 /\ \A j \in 1 .. i - 1 : a[j] = b[j]
                         /\ i > Len(a) \/ a[i] < b[i]
SortedKeys(w, m) == SetToSortSeq(DOMAIN m, LAMBDA a, b : BytesLess(writeMapKey(w, a), writeMapKey(w, b)))

\* The Go type of the carrier of a container field: elements of a value type are pointers.
Carrier(t) == IF elemNeedsPresenceFlag(t.e) THEN [t EXCEPT !.e = Ptr(t.e)] ELSE t

-----------------------------------------------------------------------------
\* Writing.  prog is the program, led the ledger of the call.

RECURSIVE WriteVal(_, _, _, _)
RECURSIVE WriteObject(_, _, _, _)

\* A value after its flag, if the flag could be written.
WriteBehind(prog, e, v, flag) == IF flag.ok THEN Join(flag, WriteVal(prog, e, v, flag.led)) ELSE flag

WriteElem(prog, e, c, led) ==
  IF elemNeedsPresenceFlag(e) THEN WriteBehind(prog, e, c[1], Put(Written(led), <<1>>))
  ELSE WriteVal(prog, e, c, led)

RECURSIVE WriteElems(_, _, _, _)
WriteElems(prog, e, cs, acc) ==
  IF cs = <<>> \/ ~acc.ok THEN acc
  ELSE WriteElems(prog, e, Tail(cs), Join(acc, WriteElem(prog, e, Head(cs), acc.led)))

\* sliceValue.WriteTo counts its elements; arrayValue.WriteTo does not.
WriteSlice(prog, t, v, led) == WriteElems(prog, t.e, v, Put(Written(led), BigEndian(Len(v), 4)))
WriteArray(prog, t, v, led) == WriteElems(prog, t.e, v, Written(led))

\* mapValue.WriteTo buffers each key and value behind a writer of its own, and sorts; a
\* string key its length prefix cannot hold is an error.
AddEntry(acc, key, w) == IF w.ok THEN Put(acc, key \o w.out) ELSE [acc EXCEPT !.ok = FALSE]
RECURSIVE WriteEntries(_, _, _, _, _)
WriteEntries(prog, t, m, keys, acc) ==
  IF keys = <<>> \/ ~acc.ok THEN acc
  ELSE WriteEntries(prog, t, m, Tail(keys),
                    AddEntry(acc, writeMapKey(t.w, Head(keys)), WriteElem(prog, t.e, m[Head(keys)], NewLedger)))
LongKey(t, m) == t.w = 0 /\ \E key \in DOMAIN m : TooLong(2, key)
WriteMap(prog, t, m, led) ==
  IF LongKey(t, m) THEN Unwritten(led)
  ELSE WriteEntries(prog, t, m, SortedKeys(t.w, m), Put(Written(led), BigEndian(Cardinality(DOMAIN m), 4)))

\* ptrValue.WriteTo: the nil flag, then the element.
WritePtr(prog, t, v, led) ==
  IF v = <<>> THEN Put(Written(led), <<0>>) ELSE WriteBehind(prog, t.e, v[1], Put(Written(led), <<1>>))

\* interfaceValue.WriteTo: an absent value is a type of no length; another is the name
\* and the value behind the pointer, without a flag.
Exited(r, k) == [r EXCEPT !.led = exit(@, k)]
WriteConcrete(prog, o, tag) ==
  IF ~tag.ok \/ Over(tag.led) THEN Unwritten(tag.led)
  ELSE Join(tag, Exited(WriteVal(prog, Ref(o.n), o.v, tag.led), 1))
WriteInterface(prog, v, led) ==
  IF v = <<>> THEN Put(Written(led), <<0>>)
  ELSE WriteConcrete(prog, v[1], [Put(Written(led), ObjectTypeBytes(v[1].n)) EXCEPT !.led = enter(@, 1)])

\* Bundle.WriteTo: each member is staged under the ledger of the call, then written with
\* its length, so that its bytes are charged twice.
WriteTagged(prog, o, tag) == IF tag.ok THEN Join(tag, WriteObject(prog, o.n, o.v, tag.led)) ELSE tag
AddBlock(acc, w) ==
  IF w.ok THEN Put([acc EXCEPT !.led = w.led], BigEndian(Len(w.out), 4) \o w.out) ELSE Unwritten(w.led)
RECURSIVE WriteMembers(_, _, _)
WriteMembers(prog, os, acc) ==
  IF os = <<>> \/ ~acc.ok THEN acc
  ELSE WriteMembers(prog, Tail(os),
                    AddBlock(acc, WriteTagged(prog, Head(os), Put(Written(acc.led), ObjectTypeBytes(Head(os).n)))))
WriteBundle(prog, v, led) == WriteMembers(prog, v, Put(Written(led), BigEndian(Len(v), 4)))

\* A value by its Go type: one frame for each composite, and one more around a struct
\* with a binary codec of its own but no JSON codec.
Frames(prog, t) ==
  IF t.t = "scalar" THEN 0 ELSE IF t.t # "named" THEN 1
  ELSE IF t.n \in prog /\ Types[t.n].own = "object" THEN 1 ELSE 0
WriteBody(prog, t, v, led) ==
  CASE t.t = "scalar" -> IF Refused(t.k, v, "binary") THEN Unwritten(led)
                         ELSE Put(Written(led), Marshal(t.k, v, "binary"))
    [] t.t = "named" -> WriteObject(prog, t.n, v, led)
    [] t.t = "ptr" -> WritePtr(prog, t, v, led)
    [] t.t = "iface" -> WriteInterface(prog, v, led)
    [] t.t = "slice" -> WriteSlice(prog, t, v, led)
    [] t.t = "array" -> WriteArray(prog, t, v, led)
    [] t.t = "bundle" -> WriteBundle(prog, v, led)
    [] t.t = "map" -> WriteMap(prog, t, v, led)
WriteFramed(prog, t, v, k, in) == IF Over(in) THEN Unwritten(in) ELSE Exited(WriteBody(prog, t, v, in), k)
WriteVal(prog, t, v, led) == WriteFramed(prog, t, v, Frames(prog, t), enter(led, Frames(prog, t)))

\* writeField of a blueprint: the carrier of a container, an optional value behind its flag,
\* a polymorphic one behind its name; the last two open no frame of their own.
WriteMember(prog, e, x, r) ==
  IF ~r.ok THEN r
  ELSE Join(r, IF e.t = "named" THEN WriteObject(prog, e.n, x, r.led) ELSE WriteVal(prog, e, x, r.led))
Announce(t, v) ==
  IF t.t = "ptr" THEN <<1>> ELSE IF t.t = "iface" THEN ObjectTypeBytes(v[1].n) ELSE <<>>
Content(t, v) ==
  CASE t.t \in {"scalar", "named", "bundle"} -> [e |-> t, v |-> v]
    [] t.t \in {"slice", "array", "map"} -> [e |-> Carrier(t), v |-> v]
    [] t.t = "ptr" -> [e |-> t.e, v |-> v[1]]
    [] t.t = "iface" -> [e |-> Ref(v[1].n), v |-> v[1].v]
writeField(prog, t, v, led) ==
  IF t.t \in {"ptr", "iface"} /\ v = <<>> THEN Put(Written(led), <<0>>)
  ELSE WriteMember(prog, Content(t, v).e, Content(t, v).v, Put(Written(led), Announce(t, v)))

\* structValue and RuntimeObject.WriteTo: the fields in their order up to the first error.
WriteField(prog, n, t, v, led) == IF n \in prog THEN WriteVal(prog, t, v, led) ELSE writeField(prog, t, v, led)
RECURSIVE WriteFields(_, _, _, _, _)
WriteFields(prog, n, fs, v, acc) ==
  IF fs = <<>> \/ ~acc.ok THEN acc
  ELSE WriteFields(prog, n, Tail(fs), Tail(v), Join(acc, WriteField(prog, n, Head(fs), Head(v), acc.led)))

\* The WriteTo of an object: an alias writes what is under it; another opens one frame.
WriteObject(prog, n, v, led) ==
  IF Types[n].own = "alias" THEN WriteVal(prog, Types[n].fields[1], v, led)
  ELSE IF Over(enter(led, 1)) THEN Unwritten(enter(led, 1))
  ELSE Exited(WriteFields(prog, n, Types[n].fields, v, Written(enter(led, 1))), 1)

\* Encode: the short form of the type, then the payload, under one ledger.
Encode(prog, n, v) == WriteTagged(prog, [n |-> n, v |-> v], Put(Written(NewLedger), ObjectTypeBytes(n)))

-----------------------------------------------------------------------------
\* Constructing an object by name: a prototype of the program, or a carrier whose fields
\* are the zeros of their specs.  The carriers behind plain references are built with it,
\* to the depth and the number of nodes the budget allows.

RECURSIVE BuildLeft(_, _, _, _)     \* what is left of the budget, -1 when refused
RECURSIVE BuildFields(_, _, _, _)
BuildLeft(prog, n, depth, left) ==
  IF n \in prog THEN left
  ELSE IF depth > MaxDepth \/ left = 0 THEN -1 ELSE BuildFields(prog, Types[n].fields, depth + 1, left - 1)
BuildFields(prog, fs, depth, left) ==
  IF fs = <<>> \/ left < 0 THEN left
  ELSE BuildFields(prog, Tail(fs), depth,
                   IF Head(fs).t = "named" THEN BuildLeft(prog, Head(fs).n, depth, left) ELSE left)

\* specFromType: what a blueprint can say of a field.  An element is an object or a pointer
\* to one, and a field of a builtin type has no name.
Concrete(t) == t.t \in {"named", "bundle"} \/ (t.t = "scalar" /\ t.k.f \notin {"uintValue", "intValue"})
elemTypeName(e) == e.t = "iface" \/ Concrete(e) \/ (e.t = "ptr" /\ Concrete(e.e))
specFromType(t) ==
  \/ t.t = "iface" \/ Concrete(t) \/ (t.t = "ptr" /\ Concrete(t.e))
  \/ t.t \in {"slice", "array", "map"} /\ elemTypeName(t.e)

\* validateBlueprint: no field is, or points to, the type itself.
BlueprintOf(n) ==
  \A f \in Range(Types[n].fields) : specFromType(f) /\ f \notin {Ref(n), Ptr(Ref(n))}
Known(prog, n) == n \in Names /\ (n \in prog \/ BlueprintOf(n))
New(prog, n) == Known(prog, n) /\ BuildLeft(prog, n, 0, MaxNodes) >= 0

\* Reading.
RECURSIVE ReadVal(_, _, _, _)
RECURSIVE ReadObject(_, _, _, _)
RECURSIVE ReadElems(_, _, _, _)

\* A scalar takes the bytes its own encoding has.
TakeScalar(k, u, in, led) ==
  IF u.ok THEN Take(u.v, Len(Marshal(k, u.v, "binary")), in, led) ELSE Unread(in, led)
ReadScalar(k, in, led) == TakeScalar(k, Unmarshal(k, in, "binary", ZeroOf(k)), in, led)

\* The integers and the names of the composite forms themselves.
TakeUint(w, u, in, led) == IF u.ok THEN Take(u.v, w, in, led) ELSE Unread(in, led)
ReadUint(w, in, led) == TakeUint(w, readFixed(in, w, FALSE, 0), in, led)
TakeString(w, u, in, led) == IF u.ok THEN Take(u.v, w + Len(u.v), in, led) ELSE Unread(in, led)
ReadString(w, in, led) == TakeString(w, ReadPrefixed(w, in, <<>>), in, led)

Least(a, b) == IF a < b THEN a ELSE b
Empty == [x \in {} |-> <<>>]

\* Any byte but 0 taken for 1, as ReadFlag without its check would.
ReadAnyFlag(in, led) ==
  IF in = <<>> THEN Unread(in, led) ELSE Take(IF in[1] = 0 THEN 0 ELSE 1, 1, in, led)

\* One byte, 0 or 1: the nil flag of a pointer.
ReadFlag(in, led) ==
  IF in = <<>> \/ in[1] \notin {0, 1} THEN Unread(in, led) ELSE Take(in[1], 1, in, led)

\* The name of a type was read: then a fresh object of that name.
ReadNamed(prog, tag) ==
  IF ~tag.ok \/ ~New(prog, tag.v) THEN Unread(tag.in, tag.led)
  ELSE [ReadObject(prog, tag.v, tag.in, tag.led) EXCEPT !.v = [n |-> tag.v, v |-> @]]

\* No name and "nil" are absence.
ReadPresent(prog, tag) ==
  IF tag.ok /\ tag.v \in {<<>>, NilName} THEN [tag EXCEPT !.v = <<>>]
  ELSE [ReadNamed(prog, tag) EXCEPT !.v = <<@>>]
ReadTagged(prog, in, led) == ReadPresent(prog, ReadString(1, in, led))

\* consumePresenceFlag: a value-typed element has no absent form.
Some(r) == [r EXCEPT !.v = <<@>>]
ReadBehind(prog, e, flag) ==
  IF flag.ok /\ flag.v = 1 THEN Some(ReadVal(prog, e, flag.in, flag.led)) ELSE Unread(flag.in, flag.led)
ReadElem(prog, e, in, led) ==
  IF elemNeedsPresenceFlag(e) THEN ReadBehind(prog, e, ReadFlag(in, led)) ELSE ReadVal(prog, e, in, led)

ReadElems(prog, e, left, acc) ==
  IF left = 0 \/ ~acc.ok THEN acc
  ELSE ReadElems(prog, e, left - 1, [ReadElem(prog, e, acc.in, acc.led) EXCEPT !.v = Append(acc.v, @)])

\* Entries of a map: a later value replaces an earlier one of the same key.
ReadKey(t, in, led) == IF t.w = 0 THEN ReadString(2, in, led) ELSE ReadUint(t.w, in, led)
ReadEntry(prog, t, acc, key) ==
  IF ~key.ok THEN key ELSE [ReadElem(prog, t.e, key.in, key.led) EXCEPT !.v = (key.v :> @) @@ acc.v]
RECURSIVE ReadEntries(_, _, _, _)
ReadEntries(prog, t, left, acc) ==
  IF left = 0 \/ ~acc.ok THEN acc
  ELSE ReadEntries(prog, t, left - 1, ReadEntry(prog, t, acc, ReadKey(t, acc.in, acc.led)))

\* Bundle.ReadFrom: each member is decoded from its own block, of which what follows the
\* object is dropped; a second object of the same id is refused.
ReadBlock(len) ==
  IF len.ok THEN Take(SubSeq(len.in, 1, Least(len.v, Len(len.in))), len.v, len.in, len.led) ELSE len
AddMember(acc, blk, m) ==
  IF ~blk.ok \/ ~m.ok \/ (\E i \in DOMAIN acc.v : acc.v[i] = m.v) THEN Unread(acc.in, acc.led)
  ELSE [ok |-> TRUE, v |-> Append(acc.v, m.v), in |-> blk.in, led |-> m.led]
ReadMember(prog, acc, blk) ==
  AddMember(acc, blk, ReadNamed(prog, ReadString(1, blk.v, blk.led)))
RECURSIVE ReadMembers(_, _, _)
ReadMembers(prog, left, acc) ==
  IF left = 0 \/ ~acc.ok THEN acc
  ELSE ReadMembers(prog, left - 1,
                   ReadMember(prog, acc, ReadBlock(ReadUint(4, acc.in, acc.led))))

\* The count is a claim of the sender: elements are added as they arrive.
Count(in, led) == ReadUint(4, in, led)
AllElems(prog, e, c) == IF c.ok THEN ReadElems(prog, e, c.v, [c EXCEPT !.v = <<>>]) ELSE c
ReadSlice(prog, t, in, led) == AllElems(prog, t.e, Count(in, led))
ReadArray(prog, t, in, led) == ReadElems(prog, t.e, t.l, [Unread(in, led) EXCEPT !.ok = TRUE])
AllEntries(prog, t, c) == IF c.ok THEN ReadEntries(prog, t, c.v, [c EXCEPT !.v = Empty]) ELSE c
ReadMap(prog, t, in, led) == AllEntries(prog, t, Count(in, led))
AllMembers(prog, c) == IF c.ok THEN ReadMembers(prog, c.v, [c EXCEPT !.v = <<>>]) ELSE c
ReadBundle(prog, in, led) == AllMembers(prog, Count(in, led))

ReadFlagged(prog, e, flag) ==
  IF flag.ok /\ flag.v = 0 THEN [flag EXCEPT !.v = <<>>] ELSE ReadBehind(prog, e, flag)
ReadPtr(prog, e, in, led) == ReadFlagged(prog, e, ReadFlag(in, led))

ReadBody(prog, t, in, led) ==
  CASE t.t = "scalar" -> ReadScalar(t.k, in, led)
    [] t.t = "named" -> ReadObject(prog, t.n, in, led)
    [] t.t = "ptr" -> ReadPtr(prog, t.e, in, led)
    [] t.t = "iface" -> ReadTagged(prog, in, led)
    [] t.t = "slice" -> ReadSlice(prog, t, in, led)
    [] t.t = "array" -> ReadArray(prog, t, in, led)
    [] t.t = "map" -> ReadMap(prog, t, in, led)
    [] t.t = "bundle" -> ReadBundle(prog, in, led)
ReadFramed(prog, t, in, k, led) == IF Over(led) THEN Unread(in, led) ELSE Exited(ReadBody(prog, t, in, led), k)
ReadVal(prog, t, in, led) == ReadFramed(prog, t, in, Frames(prog, t), enter(led, Frames(prog, t)))

\* An element that is itself a carrier is built by name, behind a nil flag, and neither it
\* nor its container opens a frame: the slow path of the three containers.
SlowElem(prog, t) == t.e.t = "ptr" /\ t.e.e.t = "named" /\ t.e.e.n \notin prog
ReadNew(prog, n, in, led) == IF New(prog, n) THEN ReadObject(prog, n, in, led) ELSE Unread(in, led)
readRuntimeBlueprintPtr(prog, n, flag) ==
  IF ~flag.ok THEN flag
  ELSE IF flag.v = 0 THEN [flag EXCEPT !.v = <<>>] ELSE Some(ReadNew(prog, n, flag.in, flag.led))

ReadSlowElem(prog, t, acc, key) ==
  IF ~key.ok THEN key
  ELSE [readRuntimeBlueprintPtr(prog, t.e.e.n, ReadFlag(key.in, key.led)) EXCEPT
          !.v = IF t.t = "map" THEN (key.v :> @) @@ acc.v ELSE Append(acc.v, @)]
RECURSIVE ReadSlow(_, _, _, _)
ReadSlow(prog, t, left, acc) ==
  IF left = 0 \/ ~acc.ok THEN acc
  ELSE ReadSlow(prog, t, left - 1,
                ReadSlowElem(prog, t, acc, IF t.t = "map" THEN ReadKey(t, acc.in, acc.led) ELSE acc))

\* RuntimeSlice, RuntimeArray and RuntimeMap.ReadFrom.
ReadCounted(prog, t, count) ==
  IF ~count.ok THEN count ELSE ReadSlow(prog, t, count.v, [count EXCEPT !.v = IF t.t = "map" THEN Empty ELSE <<>>])
ReadCarrier(prog, t, in, led) ==
  IF ~SlowElem(prog, t) THEN ReadVal(prog, t, in, led)
  ELSE ReadCounted(prog, t, IF t.t = "array" THEN [Unread(in, led) EXCEPT !.ok = TRUE, !.v = t.l] ELSE Count(in, led))

\* readField of a blueprint: an object is constructed before it is read.
ReadPlain(prog, e, in, led) == IF e.t = "named" THEN ReadNew(prog, e.n, in, led) ELSE ReadVal(prog, e, in, led)
ReadOptional(prog, e, flag) ==
  IF ~flag.ok THEN flag
  ELSE IF flag.v = 0 THEN [flag EXCEPT !.v = <<>>] ELSE Some(ReadPlain(prog, e, flag.in, flag.led))
readField(prog, t, in, led) ==
  CASE t.t \in {"scalar", "named", "bundle"} -> ReadPlain(prog, t, in, led)
    [] t.t \in {"slice", "array", "map"} -> ReadCarrier(prog, Carrier(t), in, led)
    [] t.t = "ptr" -> ReadOptional(prog, t.e, ReadFlag(in, led))
    [] t.t = "iface" -> ReadTagged(prog, in, led)

\* structValue and RuntimeObject.ReadFrom, field by field.
ReadField(prog, n, t, in, led) == IF n \in prog THEN ReadVal(prog, t, in, led) ELSE readField(prog, t, in, led)
RECURSIVE ReadFields(_, _, _, _)
ReadFields(prog, n, fs, acc) ==
  IF fs = <<>> \/ ~acc.ok THEN acc
  ELSE ReadFields(prog, n, Tail(fs), [ReadField(prog, n, Head(fs), acc.in, acc.led) EXCEPT !.v = Append(acc.v, @)])

ReadObject(prog, n, in, led) ==
  IF Types[n].own = "alias" THEN ReadVal(prog, Types[n].fields[1], in, led)
  ELSE IF Over(enter(led, 1)) THEN Unread(in, enter(led, 1))
  ELSE Exited(ReadFields(prog, n, Types[n].fields, [Unread(in, enter(led, 1)) EXCEPT !.ok = TRUE]), 1)

\* Decode: the type is read before the ledger of the payload is opened.
Decode(prog, wire) ==
  ReadNamed(prog, [ReadString(1, wire, NewLedger) EXCEPT !.led = NewLedger])

-----------------------------------------------------------------------------
\* One object sent by a program and read by another, over a stream that may be harmed.

CONSTANTS Programs,    \* sets of the types compiled into a program, closed under reference
          Samples      \* by name, values of the type
VARIABLE codec

CodecInit ==
  \E n \in DOMAIN Samples, prog \in Programs : \E v \in Samples[n] :
    Known(prog, n) /\ codec = [at |-> "start", n |-> n, v |-> v, prog |-> prog, harm |-> "none", wire |-> <<>>,
             reader |-> {}, res |-> Unread(<<>>, NewLedger)]

CodecEncode ==
  /\ codec.at = "start"
  /\ LET w == Encode(codec.prog, codec.n, codec.v)
     IN codec' = [codec EXCEPT !.at = IF w.ok THEN "sent" ELSE "refused", !.wire = w.out]

\* The stream ends early, a byte of it changes, or another message follows; who sent it no
\* longer matters.
Spoil(kind, wire) == codec' = [codec EXCEPT !.harm = kind, !.wire = wire, !.prog = {}]
CodecHarm ==
  /\ codec.at = "sent" /\ codec.harm = "none"
  /\ \/ \E k \in 0 .. Len(codec.wire) - 1 : Spoil("cut", SubSeq(codec.wire, 1, k))
     \/ \E i \in DOMAIN codec.wire : \E b \in {0, 1, 2, Radix - 1, (codec.wire[i] + 1) % Radix} \ {codec.wire[i]} :
          Spoil("changed", [codec.wire EXCEPT ![i] = b])
     \/ Spoil("followed", Append(codec.wire, 1))

CodecDecode ==
  /\ codec.at = "sent"
  /\ \E prog \in Programs :
       codec' = [codec EXCEPT !.at = "read", !.reader = prog, !.res = Decode(prog, codec.wire)]

CodecNext == CodecEncode \/ CodecHarm \/ CodecDecode

-----------------------------------------------------------------------------
\* What the value at hand is made of, and where the writer does not mirror the reader.
RECURSIVE Reaches(_, _, _)
Reaches(kinds, t, v) ==
  \/ t.t \in kinds
  \/ t.t = "named" /\ Types[t.n].own \in kinds
  \/ t.t = "named" /\ Types[t.n].own # "alias" /\ \E i \in DOMAIN v : Reaches(kinds, Types[t.n].fields[i], v[i])
  \/ t.t = "ptr" /\ v # <<>> /\ Reaches(kinds, t.e, v[1])
  \/ t.t = "iface" /\ v # <<>> /\ Reaches(kinds, Ref(v[1].n), v[1].v)
  \/ t.t = "bundle" /\ \E i \in DOMAIN v : Reaches(kinds, Ref(v[i].n), v[i].v)
  \/ /\ t.t \in {"slice", "array", "map"}
     /\ \E i \in DOMAIN v : IF t.e.t \in {"ptr", "iface"} THEN Reaches(kinds, t.e, v[i])
                            ELSE v[i] # <<>> /\ Reaches(kinds, t.e, v[i][1])

\* Of the writing w and the reading q of another program, and of r written again as w.
SameBytes(w) == w.ok => w.out = codec.wire
SameReading(q, r) == q.ok => q.v = r.v /\ q.in = r.in
Canonical(w, r) == w.ok /\ ~Reaches({"map", "iface", "bundle"}, Ref(r.v.n), r.v.v) => w.out \o r.in = codec.wire

\* An object survives the wire.  Undamaged, it is read as what was sent and to its last
\* byte, the program that wrote it always reads it back (maps aside, which are written
\* outside the ledger they are read under), and what follows it in the stream is left
\* there.  A stream that ends early is an error.  Whatever the bytes, two programs that
\* accept them read the same value, whether the types are compiled into them or carried by
\* blueprints; and two that write a value write the same bytes.  What is accepted is what
\* would be written: no two messages mean the same, but for the order and repetition of
\* map keys, the old spelling of nil, a bundle's slack and the bytes of a Bool.
CodecCorrect ==
  /\ codec.at = "sent" /\ codec.harm = "none" =>
        \A p \in {q \in Programs : Known(q, codec.n)} : SameBytes(Encode(p, codec.n, codec.v))
  /\ codec.at = "read" =>
        LET r == codec.res
        IN /\ codec.harm \in {"none", "followed"} /\ r.ok =>
                 r.v = [n |-> codec.n, v |-> codec.v] /\ Len(r.in) = IF codec.harm = "none" THEN 0 ELSE 1
           /\ codec.harm = "none" /\ codec.reader = codec.prog /\ ~Reaches({"map"}, Ref(codec.n), codec.v) => r.ok
           /\ codec.harm = "cut" => ~r.ok
           /\ r.ok => /\ r.led.depth = 0
                      /\ \A p \in Programs : SameReading(Decode(p, codec.wire), r)
                      /\ Canonical(Encode(codec.reader, r.v.n, r.v.v), r)

\* Encode says that "an implementation that bounds decoding applies the same bound when
\* encoding": the program that encodes an object decodes it.
EncodedDecodes ==
  codec.at = "read" /\ codec.harm = "none" /\ codec.reader = codec.prog => codec.res.ok
=============================================================================
