--------------------------------- MODULE Args ----------------------------------
(***************************************************************************)
(* The arguments of a query, from the caller to the op: query.New writes   *)
(* them behind the path, query.Parse reads them back, and routing.Op binds *)
(* them to the fields of its argument struct, checks what is required and  *)
(* calls the op or refuses the query.                                      *)
(*                                                                         *)
(* A struct is a sequence of fields.  A value is <<x>>, or <<>> for a nil  *)
(* pointer; x is a text, a number, 0 or 1, bytes, or nothing of interest.  *)
(* A text says what it reads as: a numeral, a bool, base64 or plain words. *)
(***************************************************************************)
EXTENDS Scalars, FiniteSets, Functions

CONSTANTS Structs,     \* the argument structs of the ops
          StructArgs,  \* per struct: values a caller puts in one of the same type
          MapArgs,     \* what a caller puts in a query.Args
          RawArgs,     \* arguments given as text: pairs of a key and a text, keys may repeat
          Flags,       \* command lines
          MaxNamed     \* unknown keys an answer names

VARIABLE ask

Words(n)  == [words |-> n]
Num(x)    == [num |-> x]
Truth(b)  == [bool |-> b]
Base64(b) == [base64 |-> b]
Is(t, as) == as \in DOMAIN t
Blank == Words(0)
NoParams == [k \in {} |-> Blank]

-----------------------------------------------------------------------------
\* ParseTag and editValue: unexported and skipped fields are left out, a key tag renames.
FieldName(f) == IF f.key # "" THEN f.key ELSE f.name
Fields(struct) == {i \in DOMAIN struct : ~struct[i].skip}
Field(struct, key) == {i \in Fields(struct) : FieldName(struct[i]) = key}

ZeroField(f) ==
  IF f.ptr THEN <<>>
  ELSE CASE f.kind = "string" -> <<Blank>> [] f.kind = "bytes" -> << <<>> >> [] OTHER -> <<0>>
NewStruct(struct) == [i \in DOMAIN struct |-> ZeroField(struct[i])]

\* reflect's SetInt and SetUint keep the low bytes.
SetUint(n, w) == n % Radix ^ w
SetInt(n, w) == LET m == n % Radix ^ w IN IF 2 * m >= Radix ^ w THEN m - Radix ^ w ELSE m

\* A number is parsed at 64 bits whatever the width of its field.
UnmarshalNumber(f, t) ==
  IF ~Is(t, "num") THEN Bad(<<>>)
  ELSE LET p == ParseNumeral(t.num, 10, f.kind = "int", Word, 0)
       IN IF ~p.ok THEN Bad(<<>>)
          ELSE Good(<<IF f.kind = "int" THEN SetInt(p.v, f.w) ELSE SetUint(p.v, f.w)>>)

UnmarshalText(f, t, dest) ==
  CASE f.kind = "string" -> Good(<<t>>)
    [] f.kind \in {"int", "uint"} -> UnmarshalNumber(f, t)
    [] f.kind = "bool" -> IF Is(t, "bool") THEN Good(<<t.bool>>)
                          ELSE IF Is(t, "num") /\ ~t.num.neg /\ t.num.digits \in {<<0>>, <<1>>} THEN Good(t.num.digits)
                          ELSE Bad(dest)
    [] f.kind = "bytes" -> IF Is(t, "base64") THEN Good(<<t.base64>>) ELSE IF t = Blank THEN Good(<< <<>> >>) ELSE Bad(dest)
    [] f.kind = "list" -> Good(IF dest = <<>> THEN <<0>> ELSE dest)
    [] OTHER -> Bad(dest)

\* Nothing for a nil pointer; a field of another kind has no text.
MarshalText(f, v) ==
  IF f.ptr /\ v = <<>> THEN Good(<<>>)
  ELSE CASE f.kind = "string" -> Good(v)
         [] f.kind \in {"int", "uint"} -> Good(<<Num(Numeral(v[1], 10, 1))>>)
         [] f.kind = "bool" -> Good(<<Truth(v[1])>>)
         [] f.kind = "bytes" -> Good(<<IF v[1] = <<>> THEN Blank ELSE Base64(v[1])>>)
         [] OTHER -> Bad(<<>>)

-----------------------------------------------------------------------------
\* MarshalQuery: the first field without a text fails the whole.
MarshalQuery(struct, vals) ==
  LET text == [i \in Fields(struct) |-> MarshalText(struct[i], vals[i])]
      there == {i \in Fields(struct) : text[i].ok /\ text[i].v # <<>>}
  IN IF \E i \in Fields(struct) : ~text[i].ok THEN Bad(NoParams)
     ELSE Good([k \in {FieldName(struct[i]) : i \in there} |->
                  text[CHOOSE i \in there : FieldName(struct[i]) = k].v[1]])

\* The value of a query.Args: a string, or what %v makes of it (bytes come out in brackets).
MarshalAny(v) ==
  CASE v.go = "string" -> v.t
    [] v.go = "int" -> Num(Numeral(v.n, 10, 1))
    [] v.go = "bool" -> Truth(v.n)
    [] v.go = "bytes" -> Words(1)
MarshalMap(m) == Good([k \in DOMAIN m |-> MarshalAny(m[k])])

\* ArgsToMap: a flag takes the next word as its value, the last one of a name wins.
ArgsToMap(words) ==
  LET f == FoldLeft(LAMBDA acc, w :
             IF acc.flag # "" THEN [flag |-> "", m |-> (acc.flag :> Words(w.n)) @@ acc.m]
             ELSE IF w.flag # "" THEN [acc EXCEPT !.flag = w.flag]
             ELSE [acc EXCEPT !.m = ("arg" :> Words(w.n)) @@ @], [flag |-> "", m |-> NoParams], words)
  IN IF f.flag # "" THEN (f.flag :> Blank) @@ f.m ELSE f.m

\* Parse: a query that is malformed has no arguments, a repeated key keeps its first value.
Parse(raw) ==
  IF raw.malformed THEN NoParams
  ELSE [k \in {raw.pairs[i][1] : i \in DOMAIN raw.pairs} |->
          raw.pairs[CHOOSE i \in DOMAIN raw.pairs : raw.pairs[i][1] = k /\ \A j \in 1 .. i - 1 : raw.pairs[j][1] # k][2]]

\* New: arguments that do not marshal are left off, and the query goes out without them.
Asked(struct, from, given, marshalled) ==
  [at |-> "set", struct |-> struct, from |-> from, given |-> given, sent |-> marshalled.ok,
   params |-> marshalled.v, left |-> DOMAIN marshalled.v, vals |-> NewStruct(struct),
   missing |-> {}, unknown |-> {}, answers |-> 0, err |-> "none"]

ArgsInit == \E s \in Structs :
  \/ \E v \in StructArgs[s] : ask = Asked(s, "struct", v, MarshalQuery(s, v))
  \/ \E m \in MapArgs : ask = Asked(s, "map", <<>>, MarshalMap(m))
  \/ \E r \in RawArgs : ask = Asked(s, "raw", <<>>, Good(Parse(r)))
  \/ \E c \in Flags : ask = Asked(s, "flags", <<>>, Good(ArgsToMap(c)))

-----------------------------------------------------------------------------
\* Mutant form: a key no field has ends the binding.
UnknownStops(key) == ask' = [ask EXCEPT !.left = {}]
\* A key no field has is skipped.
UnknownKey(key) == ask' = [ask EXCEPT !.left = @ \ {key}]

\* SetMany: the keys come in any order, as a map is walked; a value that does not parse ends it.
SetOne ==
  /\ ask.at = "set"
  /\ \E key \in ask.left :
       IF Field(ask.struct, key) = {} THEN UnknownKey(key)
       ELSE LET i == CHOOSE i \in Field(ask.struct, key) : \A j \in Field(ask.struct, key) : i <= j
                r == UnmarshalText(ask.struct[i], ask.params[key], ask.vals[i])
            IN ask' = IF r.ok THEN [ask EXCEPT !.left = @ \ {key}, !.vals[i] = r.v]
                      ELSE [ask EXCEPT !.at = "refuse", !.err = "ErrInvalidArgument"]

\* ObjectType and Spec: a field without an object type has no spec.
Specs(struct) == {i \in Fields(struct) : struct[i].kind \notin {"list", "opaque"}}
\* Only what has a spec can be missing: a required list or opaque field never is, so that
\* the op is called without it.
Missing(struct, params) ==
  {FieldName(struct[i]) : i \in {j \in Specs(struct) : struct[j].required}} \ DOMAIN params

\* checkRequired: the channel format keys are never named unknown, and at most MaxNamed are.
CheckRequired ==
  /\ ask.at = "set" /\ ask.left = {}
  /\ LET missing == Missing(ask.struct, ask.params)
         unknown == {k \in DOMAIN ask.params \ {"in", "out"} : Field(ask.struct, k) = {}}
     IN IF missing = {} THEN ask' = [ask EXCEPT !.at = "called", !.answers = @ + 1]
        ELSE \E named \in SUBSET unknown :
               /\ Cardinality(named) = IF Cardinality(unknown) > MaxNamed THEN MaxNamed ELSE Cardinality(unknown)
               /\ ask' = [ask EXCEPT !.at = "refuse", !.err = "ErrArgumentRequired", !.missing = missing, !.unknown = named]

\* invoke: an op that takes in or out answers over a channel, a raw one rejects the query.
SpeaksChannel(struct) == \E i \in Specs(struct) : FieldName(struct[i]) \in {"in", "out"}
Refuse ==
  /\ ask.at = "refuse"
  /\ ask' = [ask EXCEPT !.at = IF SpeaksChannel(ask.struct) THEN "error_message" ELSE "CodeInvalidQuery", !.answers = @ + 1]

ArgsNext == SetOne \/ CheckRequired \/ Refuse

-----------------------------------------------------------------------------
\* Whether the op should run, and with what, said without an order.
Binds(struct, params) == \A k \in DOMAIN params : \A i \in Field(struct, k) :
                           UnmarshalText(struct[i], params[k], ZeroField(struct[i])).ok
Bound(struct, params) ==
  [i \in DOMAIN struct |->
     IF i \in Fields(struct) /\ FieldName(struct[i]) \in DOMAIN params
     THEN UnmarshalText(struct[i], params[FieldName(struct[i])], ZeroField(struct[i])).v ELSE ZeroField(struct[i])]
Settled == ask.at \in {"called", "error_message", "CodeInvalidQuery"}

\* Whatever the order in which the arguments are bound, a query is answered once, and the op
\* runs exactly when every known argument parses and none that is required is missing; it
\* then sees each argument, and the zero value of what was not given.  A struct of its own
\* type reaches it as the caller filled it, unless New left it off.  A refusal names what is
\* missing, and no argument the op has as unknown (New, Parse, SetMany, checkRequired, invoke).
ArgsCorrect ==
  Settled =>
    LET s == ask.struct p == ask.params IN
    /\ ask.answers = 1
    /\ ask.at = "called" <=> Binds(s, p) /\ Missing(s, p) = {}
    /\ ask.at = "called" => ask.vals = Bound(s, p)
    /\ ask.at = "called" /\ ask.from = "struct" /\ ask.sent =>
         \A i \in DOMAIN s : ask.vals[i] = IF s[i].skip THEN ZeroField(s[i]) ELSE ask.given[i]
    /\ ask.err = "ErrArgumentRequired" =>
         /\ ask.missing # {} /\ \A k \in ask.missing : Field(s, k) # {} /\ k \notin DOMAIN p
         /\ \A k \in ask.unknown : Field(s, k) = {} /\ k \in DOMAIN p
    /\ ask.err = "ErrInvalidArgument" => ~Binds(s, p)
=============================================================================
