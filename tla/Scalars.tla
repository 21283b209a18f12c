------------------------------- MODULE Scalars --------------------------------
(***************************************************************************)
(* The scalar types of package astral.  Each has up to three forms: the    *)
(* bytes on the wire, a JSON value and a text.  A behaviour marshals one   *)
(* value in one form, may lose the tail of the wire or see the JSON value  *)
(* replaced by null, and unmarshals what is left into a destination that   *)
(* already holds another value.                                            *)
(*                                                                         *)
(* Radix stands for the 256 values of a byte and Word for the 8 bytes of a *)
(* 64-bit integer, so that every bound of the code (2^8, 2^16, 2^63...) is *)
(* there at its place.  A numeral is its sign and its digits; a text that  *)
(* a library produces and reads back (hex, base64, RFC 3339, a duration)   *)
(* is a record that names the notation.                                    *)
(***************************************************************************)
EXTENDS Integers, Sequences, SequencesExt

CONSTANTS Radix, Word,
          BadChar,      \* a byte of a string that is not UTF-8
          KeyLength, ValidKeys,            \* compressed public keys
          SizeBits, HashBits, DigitBits    \* of an ObjectID and of a zBase32 character

Byte == 0 .. Radix - 1

ASSUME ScalarsAssumption ==
  /\ Radix \in Nat /\ Radix > 7 /\ Word \in Nat /\ Word > 1 /\ BadChar \in Byte
  /\ KeyLength \in Nat \ {0} /\ ValidKeys \subseteq [1 .. KeyLength -> Byte] /\ ValidKeys # {}
  /\ DigitBits \in Nat \ {0} /\ (SizeBits + HashBits) % DigitBits = 0 /\ SizeBits % DigitBits = DigitBits - 1

VARIABLE scalar     \* the type, value and form at hand, the document, the destination

Good(v)   == [ok |-> TRUE, v |-> v]
Bad(dest) == [ok |-> FALSE, v |-> dest]
Repeat(n, e) == [i \in 1 .. n |-> e]

-----------------------------------------------------------------------------
\* Bytes and digits.

BigEndian(n, w) == [i \in 1 .. w |-> (n \div Radix ^ (w - i)) % Radix]
FromDigits(ds, base) ==
  LET upTo[i \in 0 .. Len(ds)] == IF i = 0 THEN 0 ELSE upTo[i - 1] * base + ds[i] IN upTo[Len(ds)]

\* writeFixed: the two's complement of n in w bytes.
writeFixed(n, w) == BigEndian(n % Radix ^ w, w)

\* readFixed: nothing is stored unless all the bytes are there.
AsSigned(n, w) == IF 2 * n >= Radix ^ w THEN n - Radix ^ w ELSE n
readFixed(wire, w, signed, dest) ==
  IF Len(wire) < w THEN Bad(dest)
  ELSE LET n == FromDigits(SubSeq(wire, 1, w), Radix) IN Good(IF signed THEN AsSigned(n, w) ELSE n)

\* strconv.FormatInt and FormatUint, strconv.ParseInt and ParseUint at a width.
Numeral(n, base, least) ==
  LET m == IF n < 0 THEN -n ELSE n
      len == CHOOSE d \in least .. 40 : m < base ^ d /\ (d = least \/ m >= base ^ (d - 1))
  IN [neg |-> n < 0, digits |-> [i \in 1 .. len |-> (m \div base ^ (len - i)) % base]]

ParseNumeral(t, base, signed, w, dest) ==
  LET m == FromDigits(t.digits, base)
      n == IF t.neg THEN -m ELSE m
      limit == Radix ^ w
  IN IF t.digits = <<>> \/ (t.neg /\ ~signed) THEN Bad(dest)
     ELSE IF signed /\ 2 * n >= -limit /\ 2 * n < limit THEN Good(n)
     ELSE IF ~signed /\ n < limit THEN Good(n)
     ELSE Bad(dest)

JNull == [j |-> "null", t |-> <<>>]
JNum(t) == [j |-> "num", t |-> <<t>>]
JStr(t) == [j |-> "str", t |-> <<t>>]

\* encoding/json into a number, a string or a bool: null changes nothing.
FromJSON(doc, sort, parsed, dest) ==
  IF doc.j = "null" THEN Good(dest) ELSE IF doc.j = sort THEN parsed ELSE Bad(dest)
-----------------------------------------------------------------------------
\* Uint8 ... Uint64 and Int8 ... Int64.

MarshalInteger(w, v, form) ==
  CASE form = "binary" -> writeFixed(v, w)
    [] form = "json" -> JNum(Numeral(v, 10, 1))
    [] form = "text" -> Numeral(v, 10, 1)

UnmarshalUint(w, doc, form, dest) ==
  CASE form = "binary" -> readFixed(doc, w, FALSE, dest)
    [] form = "json" -> IF doc.j = "null" THEN Good(dest) ELSE ParseNumeral(doc.t[1], 10, FALSE, w, dest)
    [] form = "text" -> ParseNumeral(doc, 10, FALSE, w, dest)

NarrowParse(w, doc, form, dest) ==
  CASE form = "binary" -> readFixed(doc, w, TRUE, dest)
    [] form = "json" -> IF doc.j = "null" THEN Good(dest) ELSE ParseNumeral(doc.t[1], 10, TRUE, w, dest)
    [] form = "text" -> ParseNumeral(doc, 10, TRUE, 1, dest)
UnmarshalInt(w, doc, form, dest) ==
  CASE form = "binary" -> readFixed(doc, w, TRUE, dest)
    [] form = "json" -> IF doc.j = "null" THEN Good(dest) ELSE ParseNumeral(doc.t[1], 10, TRUE, w, dest)
    [] form = "text" -> ParseNumeral(doc, 10, TRUE, w, dest)

\* The codecs of a field of a builtin type: as above, but null is no number.
UnmarshalUintValue(w, doc, form, dest) ==
  IF form = "json" /\ doc.j = "null" THEN Bad(dest) ELSE UnmarshalUint(w, doc, form, dest)
UnmarshalIntValue(w, doc, form, dest) ==
  IF form = "json" /\ doc.j = "null" THEN Bad(dest) ELSE UnmarshalInt(w, doc, form, dest)

\* Float32 and Float64: a bit pattern, of which the highest is not a number.
NaN(w) == Radix ^ w - 1
MarshalFloat(w, v, form) ==
  CASE form = "binary" -> writeFixed(v, w)
    [] form = "json" -> IF v = NaN(w) THEN JNull ELSE JNum([float |-> v])
    [] form = "text" -> [float |-> v]
UnmarshalFloat(w, doc, form, dest) ==
  CASE form = "binary" -> readFixed(doc, w, FALSE, dest)
    [] form = "json" -> FromJSON(doc, "num", Good(doc.t[1].float), dest)
    [] form = "text" -> Good(doc.float)

\* Bool: any byte but zero reads as true.
MarshalBool(v, form) ==
  CASE form = "binary" -> <<v>>
    [] form = "json" -> [j |-> "bool", t |-> <<v>>]
    [] form = "text" -> IF v = 1 THEN "true" ELSE "false"
UnmarshalBool(doc, form, dest) ==
  CASE form = "binary" -> IF doc = <<>> THEN Bad(dest) ELSE Good(IF doc[1] = 0 THEN 0 ELSE 1)
    [] form = "json" -> FromJSON(doc, "bool", Good(doc.t[1]), dest)
    [] form = "text" -> IF doc \in {"true", "yes", "t", "y"} THEN Good(1)
                        ELSE IF doc \in {"false", "no", "f", "n"} THEN Good(0) ELSE Bad(dest)

-----------------------------------------------------------------------------
\* Values behind a length prefix of w bytes: String8 ... String64, Bytes8 ... Bytes64.

\* The length is checked before it is narrowed to the prefix.
TooLong(w, v) == Len(v) > Radix ^ w - 1
WritePrefixed(w, v) == IF TooLong(w, v) THEN <<>> ELSE writeFixed(Len(v), w) \o v

\* The whole payload is read into a buffer before the destination is assigned.
ReadPrefixed(w, wire, dest) ==
  LET l == readFixed(wire, w, FALSE, 0)
  IN IF ~l.ok \/ Len(wire) < w + l.v THEN Bad(dest) ELSE Good(SubSeq(wire, w + 1, w + l.v))

\* encoding/json writes the replacement character (here 0) for what is not UTF-8.
MarshalString(w, v, form) ==
  CASE form = "binary" -> WritePrefixed(w, v)
    [] form = "json" -> JStr([i \in DOMAIN v |-> IF v[i] = BadChar THEN 0 ELSE v[i]])
    [] form = "text" -> v
UnmarshalString(w, doc, form, dest) ==
  CASE form = "binary" -> ReadPrefixed(w, doc, dest)
    [] form = "json" -> FromJSON(doc, "str", Good(doc.t[1]), dest)
    [] form = "text" -> Good(doc)

\* Bytes are base64 outside the wire, and null is no bytes at all.
MarshalBytes(w, v, form) ==
  CASE form = "binary" -> WritePrefixed(w, v)
    [] form = "json" -> JStr([base64 |-> v])
    [] form = "text" -> [base64 |-> v]
UnmarshalBytes(w, doc, form, dest) ==
  CASE form = "binary" -> ReadPrefixed(w, doc, dest)
    [] form = "json" -> IF doc.j = "null" THEN Good(<<>>) ELSE Good(doc.t[1].base64)
    [] form = "text" -> Good(doc.base64)

-----------------------------------------------------------------------------
\* Nonce: hexadecimal, padded in a text and not in JSON.
NonceDigits == CHOOSE d \in 1 .. 40 : 16 ^ d >= Radix ^ Word /\ (d = 1 \/ 16 ^ (d - 1) < Radix ^ Word)
MarshalNonce(v, form) ==
  CASE form = "binary" -> writeFixed(v, Word)
    [] form = "json" -> JStr(Numeral(v, 16, 1))
    [] form = "text" -> Numeral(v, 16, NonceDigits)
UnmarshalNonce(doc, form, dest) ==
  CASE form = "binary" -> readFixed(doc, Word, FALSE, dest)
    [] form = "json" -> IF doc.j = "null" THEN Bad(dest) ELSE ParseNumeral(doc.t[1], 16, FALSE, Word, dest)
    [] form = "text" -> ParseNumeral(doc, 16, FALSE, Word, IF doc.digits = <<>> THEN 0 ELSE NaN(Word))

\* Zone: a set of three bits; the letters of the bits that are known are its text.
HasBit(v, b) == (v \div b) % 2 = 1
Letters(v) == {z \in {<<"d", 1>>, <<"v", 2>>, <<"n", 4>>} : HasBit(v, z[2])}
Zones(ls) == (IF <<"d", 1>> \in ls THEN 1 ELSE 0) + (IF <<"v", 2>> \in ls THEN 2 ELSE 0)
             + (IF <<"n", 4>> \in ls THEN 4 ELSE 0)
MarshalZone(v, form) ==
  CASE form = "binary" -> writeFixed(v, 1) [] form = "json" -> JStr(Letters(v)) [] form = "text" -> Letters(v)
UnmarshalZone(doc, form, dest) ==
  CASE form = "binary" -> readFixed(doc, 1, FALSE, 0)
    [] form = "json" -> IF doc.j = "null" THEN Good(0) ELSE Good(Zones(doc.t[1]))
    [] form = "text" -> Good(Zones(doc))

\* Time: nanoseconds since 1970, which a word holds for some centuries only.
ZeroTime == -(Radix ^ Word)
MarshalTime(v, form) ==
  CASE form = "binary" -> writeFixed(v, Word)
    [] form = "json" -> JStr([rfc3339 |-> v]) [] form = "text" -> [rfc3339 |-> v]
UnmarshalTime(doc, form, dest) ==
  CASE form = "binary" -> readFixed(doc, Word, TRUE, dest)
    [] form = "json" -> Good(IF doc.j = "null" THEN ZeroTime ELSE doc.t[1].rfc3339)
    [] form = "text" -> Good(doc.rfc3339)

\* Duration: a number in JSON, with units in a text.
MarshalDuration(v, form) ==
  CASE form = "binary" -> writeFixed(v, Word)
    [] form = "json" -> JNum(Numeral(v, 10, 1)) [] form = "text" -> [duration |-> v]
UnmarshalDuration(doc, form, dest) ==
  CASE form = "binary" -> readFixed(doc, Word, TRUE, dest)
    [] form = "json" -> IF doc.j = "null" THEN Good(dest) ELSE ParseNumeral(doc.t[1], 10, TRUE, Word, dest)
    [] form = "text" -> Good(doc.duration)

-----------------------------------------------------------------------------
\* Identity: the zero identity is all null bytes, the word anyone in JSON, and
\* the key of zeros in a text.  What is not a point of the curve is refused,
\* and leaves the destination without a key.
ZeroKey == Repeat(KeyLength, 0)
ParsePubKey(bs) == IF bs \in ValidKeys THEN Good(bs) ELSE Bad(ZeroKey)
ParseIdentity(t, dest) ==
  IF t \in {[hex |-> ZeroKey], [word |-> "anyone"]} THEN Good(ZeroKey)
  ELSE IF DOMAIN t # {"hex"} \/ Len(t.hex) # KeyLength \/ t.hex \notin ValidKeys THEN Bad(dest)
  ELSE Good(t.hex)
MarshalIdentity(v, form) ==
  CASE form = "binary" -> v
    [] form = "json" -> JStr(IF v = ZeroKey THEN [word |-> "anyone"] ELSE [hex |-> v])
    [] form = "text" -> [hex |-> v]
UnmarshalIdentity(doc, form, dest) ==
  CASE form = "binary" -> IF Len(doc) < KeyLength THEN Bad(dest)
                          ELSE IF SubSeq(doc, 1, KeyLength) = ZeroKey THEN Good(ZeroKey)
                          ELSE ParsePubKey(SubSeq(doc, 1, KeyLength))
    [] form = "json" -> IF doc.j = "null" THEN Bad(dest) ELSE ParseIdentity(doc.t[1], dest)
    [] form = "text" -> ParseIdentity(doc, dest)

-----------------------------------------------------------------------------
\* ObjectID: Size and Hash, in bits.  A data1 text is the zBase32 encoding of
\* both without its leading zeros, a data0 text the end of the encoding of the
\* Hash alone, of which the first character also holds the last bits of Size.
\* A character the decoder skips is -1.
IDs == [size : 0 .. 2 ^ SizeBits - 1, hash : 0 .. 2 ^ HashBits - 1]
ZeroID == [size |-> 0, hash |-> 0]
FullBody == (SizeBits + HashBits) \div DigitBits
PartialBody == FullBody - SizeBits \div DigitBits

EncodeID(id) ==
  LET n == id.size * 2 ^ HashBits + id.hash
  IN [i \in 1 .. FullBody |-> (n \div (2 ^ DigitBits) ^ (FullBody - i)) % 2 ^ DigitBits]
decodeID(body) ==
  LET digits == SelectSeq(body, LAMBDA c : c # -1)
      n == FromDigits(digits, 2 ^ DigitBits)
  IN IF Len(digits) # FullBody THEN Bad(ZeroID)
     ELSE Good([size |-> n \div 2 ^ HashBits, hash |-> n % 2 ^ HashBits])

StringID(id) ==
  LET body == EncodeID(id)
      from == CHOOSE i \in 1 .. FullBody + 1 :
                (\A k \in 1 .. i - 1 : body[k] = 0) /\ (i = FullBody + 1 \/ body[i] # 0)
  IN [prefix |-> "data1", body |-> SubSeq(body, from, FullBody)]
PartialString(id) ==
  [prefix |-> "data0",
   body |-> SubSeq(EncodeID([id EXCEPT !.size = 0]), FullBody - PartialBody + 1, FullBody)]

parseFullID(body) ==
  IF Len(body) > FullBody THEN Bad(ZeroID) ELSE decodeID(Repeat(FullBody - Len(body), 0) \o body)
parsePartialID(body) ==
  IF Len(body) # PartialBody \/ body[1] \notin {0, 1} THEN Bad(ZeroID)
  ELSE LET id == decodeID(Repeat(FullBody - PartialBody, 0) \o body)
       IN IF id.ok /\ id.v.size = 0 THEN id ELSE Bad(ZeroID)
ParseID(t, dest) ==
  LET id == CASE t.prefix = "data1" -> parseFullID(t.body)
              [] t.prefix = "data0" -> parsePartialID(t.body)
              [] OTHER -> Bad(ZeroID)
  IN IF id.ok THEN id ELSE Bad(dest)

Bits(n, w) == [i \in 1 .. w |-> (n \div 2 ^ (w - i)) % 2]
MarshalID(v, form) ==
  CASE form = "binary" -> Bits(v.size, SizeBits) \o Bits(v.hash, HashBits)
    [] form = "json" -> JStr(StringID(v))
    [] form = "text" -> StringID(v)

\* ReadFrom fills the destination as the bytes come: the size, then the hash.
UnmarshalID(doc, form, dest) ==
  CASE form = "binary" ->
         LET size == FromDigits(SubSeq(doc, 1, SizeBits), 2)
             got  == SubSeq(doc, SizeBits + 1, IF Len(doc) < SizeBits + HashBits THEN Len(doc)
                                               ELSE SizeBits + HashBits)
             old  == Bits(dest.hash, HashBits)
             hash == FromDigits(got \o SubSeq(old, Len(got) + 1, HashBits), 2)
         IN IF Len(doc) < SizeBits THEN Bad(dest)
            ELSE IF Len(doc) < SizeBits + HashBits THEN Bad([size |-> size, hash |-> hash])
            ELSE Good([size |-> size, hash |-> hash])
    [] form = "json" -> IF doc.j = "null" THEN Good(ZeroID) ELSE ParseID(doc.t[1], dest)
    [] form = "text" -> ParseID(doc, dest)

-----------------------------------------------------------------------------
\* The types by family, and one value of a type in one of its forms.

Widths == {1, 2}
Families == {"uint", "int", "uintValue", "intValue", "float", "string", "bytes"}
ScalarKinds == [f : Families, w : Widths]
               \cup [f : {"bool", "nonce", "zone", "time", "duration", "identity", "id"}, w : {Word}]

\* Values at the edges of each type, one beyond for those that can be out of range.
Edges(k) ==
  CASE k.f \in {"uint", "uintValue", "float"} -> {0, 1, Radix ^ k.w \div 2, Radix ^ k.w - 1}
    [] k.f \in {"int", "intValue"} -> {0, 5, -1, Radix ^ k.w \div 2 - 1, -(Radix ^ k.w \div 2)}
    [] k.f \in {"string", "bytes"} ->
         {<<>>, <<1>>, <<BadChar, 2>>, Repeat(Radix ^ k.w - 1, 1), Repeat(Radix ^ k.w, 1)}
    [] k.f = "bool" -> {0, 1}
    [] k.f = "nonce" -> {0, 1, Radix ^ Word - 1}
    [] k.f = "zone" -> Byte
    [] k.f = "time" -> {0, 7, -1, Radix ^ Word \div 2 - 1, ZeroTime}
    [] k.f = "duration" -> {0, -3, Radix ^ Word \div 2 - 1}
    [] k.f = "identity" -> ValidKeys \cup {ZeroKey}
    [] k.f = "id" -> IDs

Marshal(k, v, form) ==
  CASE k.f \in {"uint", "int", "uintValue", "intValue"} -> MarshalInteger(k.w, v, form)
    [] k.f = "float" -> MarshalFloat(k.w, v, form)
    [] k.f = "string" -> MarshalString(k.w, v, form)
    [] k.f = "bytes" -> MarshalBytes(k.w, v, form)
    [] k.f = "bool" -> MarshalBool(v, form)
    [] k.f = "nonce" -> MarshalNonce(v, form)
    [] k.f = "zone" -> MarshalZone(v, form)
    [] k.f = "time" -> MarshalTime(v, form)
    [] k.f = "duration" -> MarshalDuration(v, form)
    [] k.f = "identity" -> MarshalIdentity(v, form)
    [] k.f = "id" -> MarshalID(v, form)

Unmarshal(k, doc, form, dest) ==
  CASE k.f = "uint" -> UnmarshalUint(k.w, doc, form, dest)
    [] k.f = "int" -> UnmarshalInt(k.w, doc, form, dest)
    [] k.f = "uintValue" -> UnmarshalUintValue(k.w, doc, form, dest)
    [] k.f = "intValue" -> UnmarshalIntValue(k.w, doc, form, dest)
    [] k.f = "float" -> UnmarshalFloat(k.w, doc, form, dest)
    [] k.f = "string" -> UnmarshalString(k.w, doc, form, dest)
    [] k.f = "bytes" -> UnmarshalBytes(k.w, doc, form, dest)
    [] k.f = "bool" -> UnmarshalBool(doc, form, dest)
    [] k.f = "nonce" -> UnmarshalNonce(doc, form, dest)
    [] k.f = "zone" -> UnmarshalZone(doc, form, dest)
    [] k.f = "time" -> UnmarshalTime(doc, form, dest)
    [] k.f = "duration" -> UnmarshalDuration(doc, form, dest)
    [] k.f = "identity" -> UnmarshalIdentity(doc, form, dest)
    [] k.f = "id" -> UnmarshalID(doc, form, dest)

\* What WriteTo and encoding/json report as an error instead of writing.
Refused(k, v, form) ==
  \/ form = "binary" /\ k.f \in {"string", "bytes"} /\ TooLong(k.w, v)
  \/ form = "json" /\ k.f = "float" /\ v = NaN(k.w)

\* The zero value of a Go variable of the type, and what the destination holds
\* before it is read into: another value than zero.
ZeroOf(k) == CASE k.f \in {"string", "bytes"} -> <<>> [] k.f = "identity" -> ZeroKey
               [] k.f = "id" -> ZeroID [] k.f = "time" -> ZeroTime [] OTHER -> 0
Dest(k) == CASE k.f \in {"string", "bytes"} -> <<3>> [] k.f = "bool" -> 1
             [] k.f = "identity" -> CHOOSE key \in ValidKeys : TRUE
             [] k.f = "id" -> [size |-> 1, hash |-> 2 ^ HashBits - 1] [] OTHER -> 3

ScalarInit ==
  \E k \in ScalarKinds, form \in {"binary", "json", "text"} : \E v \in Edges(k) :
     scalar = [at |-> "start", k |-> k, v |-> v, form |-> form, harm |-> "none", doc |-> <<>>, res |-> Bad(Dest(k))]

ScalarMarshal ==
  /\ scalar.at = "start"
  /\ scalar' = IF Refused(scalar.k, scalar.v, scalar.form) THEN [scalar EXCEPT !.at = "refused"]
               ELSE [scalar EXCEPT !.at = "sent", !.doc = Marshal(scalar.k, scalar.v, scalar.form)]

\* The stream ends early; a JSON null; a numeral of one more digit; PartialString
\* in the place of String, as it is or with a bit of Size in its first character.
Harm(kind, doc) ==
  /\ scalar.at = "sent" /\ scalar.harm = "none"
  /\ scalar' = [scalar EXCEPT !.harm = kind, !.doc = doc]
ScalarHarm ==
  \/ scalar.form = "binary" /\ \E n \in 0 .. Len(scalar.doc) - 1 : Harm("cut", SubSeq(scalar.doc, 1, n))
  \/ scalar.form = "json" /\ Harm("null", JNull)
  \/ /\ scalar.form = "text" /\ scalar.k.f \in {"uint", "int", "nonce"}
     /\ Harm("digit", [scalar.doc EXCEPT !.digits = Append(@, 1)])
  \/ scalar.form = "text" /\ scalar.k.f = "id" /\ Harm("partial", PartialString(scalar.v))
  \/ /\ scalar.form = "text" /\ scalar.k.f = "id"
     /\ Harm("sizeBit", [PartialString(scalar.v) EXCEPT !.body[1] = @ + 2])

ScalarUnmarshal ==
  /\ scalar.at = "sent"
  /\ scalar' = [scalar EXCEPT !.at = "read",
                 !.res = Unmarshal(scalar.k, scalar.doc, scalar.form, Dest(scalar.k))]

ScalarNext == ScalarMarshal \/ ScalarHarm \/ ScalarUnmarshal

-----------------------------------------------------------------------------
\* Where a form loses something by design: JSON strings are UTF-8, a zone's text
\* has no letter for the other bits, a word holds no time outside its range.
Lossless(k, v, form) ==
  /\ ~(k.f = "string" /\ form = "json" /\ \E i \in DOMAIN v : v[i] = BadChar)
  /\ ~(k.f = "zone" /\ form # "binary" /\ v > 7)
  /\ ~(k.f = "time" /\ form = "binary" /\ v = ZeroTime)

\* A scalar survives each of its forms: what Marshal writes Unmarshal reads back as the
\* same value, whatever the width (parseIntText and parseUintText parse at the width
\* writeFixed writes; the zero ObjectID and the zero Identity included).  A stream that
\* ends early is an error, and for the types that read into a buffer first it leaves the
\* destination as it was; a numeral too large for the type is an error, never a wrapped
\* value, and only a Nonce is overwritten by it.  A JSON null is refused, or is read as no
\* change, or as the zero value, and when it is refused it changes nothing.  PartialString
\* parses to the same hash with size 0, and a data0 text that carries a bit of Size is
\* refused.
ScalarCorrect ==
  scalar.at = "read" =>
    LET k == scalar.k  res == scalar.res
    IN /\ scalar.harm = "none" /\ Lossless(k, scalar.v, scalar.form) => res = Good(scalar.v)
       /\ scalar.harm = "cut" => ~res.ok /\ (k.f \notin {"zone", "id"} => res.v = Dest(k))
       /\ scalar.harm = "null" => res \in {Bad(Dest(k)), Good(Dest(k)), Good(ZeroOf(k))}
       /\ scalar.harm = "digit" /\ ~res.ok /\ k.f # "nonce" => res.v = Dest(k)
       /\ scalar.harm = "digit" /\ res.ok =>
             /\ res.v \in IF k.f = "int" THEN -(Radix ^ k.w \div 2) .. Radix ^ k.w \div 2 - 1 ELSE 0 .. Radix ^ k.w - 1
             /\ res.v = (IF k.f = "nonce" THEN 16 ELSE 10) * scalar.v + (IF scalar.v < 0 THEN -1 ELSE 1)
       /\ scalar.harm = "partial" => res = Good([scalar.v EXCEPT !.size = 0])
       /\ scalar.harm = "sizeBit" => ~res.ok
=============================================================================
