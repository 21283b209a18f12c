------------------------------- MODULE MCCore -------------------------------
(***************************************************************************)
(* What the rest of the library stands on: the blocking stream adapters,   *)
(* the helpers of sig, ipc.Listen, the registry of types, the codecs of    *)
(* their objects and the arguments of queries.  The parts share no state:  *)
(* a behaviour exercises one of them and leaves the others as they start.  *)
(***************************************************************************)
EXTENDS AsyncWriter, Dispenser, ContextReader, Ring, Pool, Switch, Queue, Ipc, Registry, Carriers, Args

CONSTANT Parts
VARIABLE part

-----------------------------------------------------------------------------
(* The registry.                                                           *)

Runtime(t, refs, under) == [type |-> t, body |-> [kind |-> "runtime", refs |-> refs, underlying |-> under]]
Compiled(t, kind, refs, under) == [type |-> t, body |-> [kind |-> kind, refs |-> refs, underlying |-> under]]

\* A primitive, a struct ahead of the struct it refers to, which refers to an alias.
MCPrototypes ==
  {Compiled(1, "leaf", {}, 0), Compiled(2, "structProto", {3}, 0), Compiled(3, "structProto", {4}, 0),
   Compiled(4, "aliasProto", {}, 1)}

\* Two shapes for each name: 5 and 6 may refer to each other, 7 to both; one
\* refers to itself and one is an alias of a struct.
MCBlueprints ==
  {Runtime(5, {}, 1), Runtime(5, {6}, 0), Runtime(6, {5, 2}, 0), Runtime(6, {}, 0),
   Runtime(7, {5, 6}, 0), Runtime(7, {7}, 0), Runtime(7, {}, 2)}

-----------------------------------------------------------------------------
(* The codecs: types, the programs that register some of them, and values. *)

MCKeys == {<<1, 0>>, <<2, 5>>}

U8 == Scalar(Kind("uint", 1))
B8 == Scalar(Kind("bytes", 1))
S8 == Scalar(Kind("string", 1))
\* What an application passes to the Set of a carrier, of the right and of wrong types.
MCCarrierProgram == {<<1>>}
MCCarrierTypes == {<<1, 4>>, <<1, 5>>, <<1, 6>>}
MCGoObjects == {[t |-> Ref(<<1>>), v |-> <<4>>], [t |-> Ref(<<1, 2>>), v |-> <<5>>], [t |-> Ref(<<1, 3>>), v |-> <<6>>]}
MCGoKeys == {[go |-> "string", s |-> <<1>>], [go |-> "string", s |-> Repeat(Radix ^ 2, 1)], [go |-> "uint64", n |-> 3], [go |-> "uint64", n |-> 16]}
MCGoValues ==
  {[go |-> "nil"], [go |-> "Nil"], [go |-> "int", n |-> 3], GoObject(S8, <<8>>), GoObject(S8, Repeat(Radix, 8)), GoObject(B8, Repeat(Radix, 8))} \cup
  [go : {"string", "bytes"}, v : {<<2>>, Repeat(Radix, 2)}] \cup
  {GoObject(o.t, o.v) : o \in MCGoObjects} \cup
  [go : {"slice"}, e : {Ref(<<1, 2>>), Ref(<<1, 3>>)}] \cup
  [go : {"array"}, e : {Ref(<<1>>)}, l : {1, 2}] \cup [go : {"map"}, e : {Ref(<<1, 2>>)}, w : {1, 2}]

MCTypes ==
  <<1>> :> [own |-> "object", fields |-> <<U8>>] @@
  <<2>> :> [own |-> "value", fields |-> <<Slice(Ref(<<2>>))>>] @@
  <<3>> :> [own |-> "value", fields |-> <<Ptr(Ref(<<4>>)), Ref(<<1>>)>>] @@
  <<4>> :> [own |-> "object", fields |-> <<Ptr(Ref(<<3>>))>>] @@
  <<5>> :> [own |-> "value", fields |-> <<Iface, Slice(Iface)>>] @@
  <<6>> :> [own |-> "value", fields |-> <<Map(1, Ref(<<6>>))>>] @@
  <<7>> :> [own |-> "value", fields |-> <<Array(2, Ref(<<1>>)), Slice(S8), Ptr(U8)>>] @@
  <<8>> :> [own |-> "value", fields |-> <<Map(0, Ptr(Ref(<<1>>))), Map(1, Iface)>>] @@
  <<9>> :> [own |-> "value", fields |-> <<BundleType>>] @@
  <<10>> :> [own |-> "value", fields |-> <<Ref(<<11>>)>>] @@
  <<11>> :> [own |-> "value", fields |-> <<Ref(<<10>>)>>] @@
  <<12>> :> [own |-> "value", fields |-> <<Slice(Slice(Scalar(Kind("uintValue", 1)))), Ptr(Ref(<<12>>))>>] @@
  <<13>> :> [own |-> "alias", fields |-> <<S8>>] @@
  <<14>> :> [own |-> "value", fields |-> <<Ref(<<13>>), Slice(Ref(<<13>>)), Iface, Array(1, Ptr(Ref(<<1>>)))>>] @@
  <<1, 2>> :> [own |-> "value", fields |-> <<U8>>] @@
  <<1, 3>> :> [own |-> "value", fields |-> <<U8>>] @@
  <<1, 4>> :> [own |-> "value", fields |-> <<S8, Scalar(Kind("int", Word)), Ptr(Ref(<<1>>)), Iface>>] @@
  <<1, 5>> :> [own |-> "value", fields |-> <<Slice(Ref(<<1, 2>>)), Array(1, Ref(<<1>>)), Ref(<<1, 2>>)>>] @@
  <<1, 6>> :> [own |-> "value", fields |-> <<Map(1, Ref(<<1, 2>>)), Map(0, Iface), B8>>]

MCPrograms == {{}, {<<1>>}, {<<i>> : i \in (1 .. 9) \cup (12 .. 14)}, {<<1>>, <<2>>, <<5>>}}

Leaf(x) == <<x>>
RECURSIVE Chain(_)
Chain(n) == IF n = 0 THEN <<<<>>>> ELSE <<<<<<Chain(n - 1)>>>>>>
RECURSIVE Links(_)
Links(n) == IF n = 0 THEN <<<<>>>> ELSE IF n % 2 = 0 THEN <<<<Links(n - 1)>>>> ELSE <<<<Links(n - 1)>>, Leaf(3)>>
Links3(n) == IF n = 0 THEN <<<<>>, Leaf(2)>> ELSE Links(n)
RECURSIVE Nested(_)
Nested(n) == IF n = 0 THEN <<Empty>> ELSE <<5 :> <<Nested(n - 1)>>>>
RECURSIVE Boxed(_)
Boxed(n) == IF n = 0 THEN <<<<>>, <<>>>> ELSE <<<<[n |-> <<5>>, v |-> Boxed(n - 1)]>>, <<>>>>
RECURSIVE Packed(_)
Packed(n) == IF n = 0 THEN <<<<>>>> ELSE <<<<[n |-> <<9>>, v |-> Packed(n - 1)]>>>>

MCSamples ==
  <<1>> :> {Leaf(0), Leaf(7)} @@
  <<2>> :> {Chain(n) : n \in 0 .. 3} \cup {<<<<<<Chain(0)>>, <<Chain(1)>>>>>>, <<Repeat(5, <<Chain(0)>>)>>, <<Repeat(6, <<Chain(0)>>)>>} @@
  <<3>> :> {Links3(n) : n \in {0, 1, 3}} @@
  <<4>> :> {Links(n) : n \in {0, 2, 4}} @@
  <<5>> :> {Boxed(n) : n \in 0 .. 2} \cup {<<<<[n |-> <<1>>, v |-> Leaf(4)]>>, <<<<>>, <<[n |-> <<1>>, v |-> Leaf(9)]>>>>>>} @@
  <<6>> :> {Nested(n) : n \in 0 .. 2} @@
  <<7>> :> {<<<<<<Leaf(0)>>, <<Leaf(2)>>>>, <<>>, <<>>>>, <<<<<<Leaf(1)>>, <<Leaf(2)>>>>, <<<<<<1>>>>, <<<<>>>>>>, <<6>>>>} @@
  <<8>> :> {<<Empty, Empty>>, <<(<<1, 2>> :> <<Leaf(1)>> @@ <<2>> :> <<>>), 3 :> <<>>>>,
            <<<<>> :> <<>>, 3 :> <<[n |-> <<1>>, v |-> Leaf(5)]>> @@ 1 :> <<>>>>} @@
  <<9>> :> {Packed(n) : n \in 0 .. 3} \cup {<<<<[n |-> <<1>>, v |-> Leaf(4)], [n |-> <<1>>, v |-> Leaf(5)]>>>>} @@
  <<12>> :> {<<<<>>, <<>>>>, <<<<<<<<<<3>>, <<4>>>>>>, <<<<>>>>>>, <<<<<<>>, <<>>>>>>>>} @@
  <<14>> :> {<<<<2>>, <<<<<<3>>>>>>, <<[n |-> <<13>>, v |-> <<4>>]>>, <<x>>>> : x \in {<<>>, <<Leaf(3)>>}}

-----------------------------------------------------------------------------
(* The arguments of queries: the structs of ops, and what callers pass.    *)

F(name, kind, w) == [name |-> name, key |-> "", kind |-> kind, ptr |-> FALSE, required |-> FALSE, skip |-> FALSE, w |-> w]
Req(f) == [f EXCEPT !.required = TRUE]
PtrF(f) == [f EXCEPT !.ptr = TRUE]
Keyed(f, k) == [f EXCEPT !.key = k]
Skip(f) == [f EXCEPT !.skip = TRUE]
SA == <<Req(F("id", "uint", 1)), PtrF(F("n", "int", 1)), F("out", "string", 0), Skip(F("s", "string", 0))>>
SB == <<F("id", "bytes", 0), Req(Keyed(PtrF(F("b", "bool", 0)), "n")), Req(F("l", "list", 0))>>
SC == <<PtrF(F("id", "string", 0)), F("o", "opaque", 0), PtrF(F("l", "list", 0))>>
SD == <<PtrF(F("id", "uint", Word)), F("n", "int", 2), Keyed(F("x", "uint", 1), "in")>>
MCStructs == {SA, SB, SC, SD}
MCStructArgs ==
 SA :> {<< <<x>>, y, <<t>>, <<Words(2)>> >> : x \in {0, 15}, y \in {<<>>, <<-8>>, <<7>>}, t \in {Blank, Words(2)}} @@
 SB :> {<< <<x>>, y, <<0>> >> : x \in {<<>>, <<3>>}, y \in {<<>>, <<1>>}} @@
 SC :> {<< x, <<0>>, <<>> >> : x \in {<<>>, <<Words(1)>>}} @@
 SD :> {<< x, <<y>>, <<z>> >> : x \in {<<>>, <<4095>>}, y \in {-128, 0, 127}, z \in {0, 9}}
MCAny == [go : {"int"}, n : {-1, 1, 16, 5000}] \cup [go : {"bool"}, n : {0, 1}] \cup [go : {"bytes"}, b : {<<3>>}]
       \cup [go : {"string"}, t : {Blank, Words(2), Base64(<<3>>)}]
MCMapArgs == UNION {[d -> MCAny] : d \in {{}, {"id"}, {"id", "n"}, {"old", "id"}}} \cup {("id" :> a @@ "old" :> a @@ "older" :> a @@ "in" :> a @@ "l" :> a) : a \in MCAny}
   \cup {("old" :> a @@ "older" :> a @@ "oldest" :> a @@ "in" :> a) : a \in MCAny}
Texts == {Blank, Num([neg |-> FALSE, digits |-> <<1>>]), Truth(1)}
MCRawArgs == [malformed : BOOLEAN, pairs : UNION {[1..n -> {"id", "n"} \X Texts] : n \in 0..3}]
W == {[flag |-> "id", n |-> 3], [flag |-> "n", n |-> 4], [flag |-> "", n |-> 5]}
MCFlags == UNION {[1..n -> W] : n \in 0..4}

-----------------------------------------------------------------------------
codecVars == <<scalar, codec, json, carrier, ask>>
mcVars == <<part, writerVars, dispenserVars, readerVars, ringVars, poolVars, switchVars, queueVars, ipcVars,
            registryVars, codecVars>>

Off == [at |-> "off"]
MCInit ==
  /\ part \in Parts
  /\ WriterInit /\ DispenserInit /\ ReaderInit /\ RingInit /\ PoolInit /\ SwitchInit /\ QueueInit /\ IpcInit
  /\ RegistryInit
  /\ part # "ipc" => first = Nothing
  /\ IF part = "scalar" THEN ScalarInit ELSE scalar = Off
  /\ IF part = "codec" THEN CodecInit ELSE codec = Off
  /\ IF part = "json" THEN JSONInit ELSE json = Off
  /\ IF part = "carrier" THEN CarrierInit ELSE carrier = NoCarrier
  /\ IF part = "args" THEN ArgsInit ELSE ask = Off

Streams == UNCHANGED <<part, ringVars, poolVars, switchVars, queueVars, ipcVars, registryVars, codecVars>>
Helpers == UNCHANGED <<part, writerVars, dispenserVars, readerVars, registryVars, codecVars>>
TypeParts == UNCHANGED <<part, writerVars, dispenserVars, readerVars, ringVars, poolVars, switchVars, queueVars, ipcVars>>

MCNext ==
  \/ part = "writer" /\ WriterNext /\ Streams /\ UNCHANGED <<dispenserVars, readerVars>>
  \/ part = "dispenser" /\ DispenserNext /\ Streams /\ UNCHANGED <<writerVars, readerVars>>
  \/ part = "reader" /\ ReaderNext /\ Streams /\ UNCHANGED <<writerVars, dispenserVars>>
  \/ part = "ring" /\ RingNext /\ Helpers /\ UNCHANGED <<poolVars, switchVars, queueVars, ipcVars>>
  \/ part = "pool" /\ PoolNext /\ Helpers /\ UNCHANGED <<ringVars, switchVars, queueVars, ipcVars>>
  \/ part = "switch" /\ SwitchNext /\ Helpers /\ UNCHANGED <<ringVars, poolVars, queueVars, ipcVars>>
  \/ part = "queue" /\ QueueNext /\ Helpers /\ UNCHANGED <<ringVars, poolVars, switchVars, ipcVars>>
  \/ part = "ipc" /\ IpcNext /\ Helpers /\ UNCHANGED <<ringVars, poolVars, switchVars, queueVars>>
  \/ part = "registry" /\ RegistryNext /\ TypeParts /\ UNCHANGED codecVars
  \/ part = "scalar" /\ ScalarNext /\ TypeParts /\ UNCHANGED <<registryVars, codec, json, carrier, ask>>
  \/ part = "codec" /\ CodecNext /\ TypeParts /\ UNCHANGED <<registryVars, scalar, json, carrier, ask>>
  \/ part = "json" /\ JSONNext /\ TypeParts /\ UNCHANGED <<registryVars, scalar, codec, carrier, ask>>
  \/ part = "carrier" /\ CarrierNext /\ TypeParts /\ UNCHANGED <<registryVars, scalar, codec, json, ask>>
  \/ part = "args" /\ ArgsNext /\ TypeParts /\ UNCHANGED <<registryVars, scalar, codec, json, carrier>>
  \* Only the ring, the pool and the switch must never stop.
  \/ part \notin {"ring", "pool", "switch"} /\ UNCHANGED mcVars

MCSpec == MCInit /\ [][MCNext]_mcVars

\* Whoever is blocked on a stream adapter is released: Sync and Close of the asynchronous
\* writer finish and its overfull buffer drains whatever its output does, Close aborts every
\* Write and Flush of a dispenser, and a canceled read returns.  Each under the fairness of
\* its own part.
StreamsProgress ==
  /\ part = "writer" /\ WriterFairness => WriterProgress
  /\ part = "dispenser" /\ DispenserFairness => CloseReleasesAll
  /\ part = "reader" /\ ReaderFairness => ReaderProgress

\* Callers of Lock with overlapping sets never block each other for good, and nobody who
\* waits on a queue sleeps through a Push or a Close.  Each under the fairness of its own
\* part.
SigProgress ==
  /\ part = "pool" /\ PoolFairness => SomeoneGetsIt
  /\ part = "queue" /\ QueueFairness => QueueProgress
=============================================================================
