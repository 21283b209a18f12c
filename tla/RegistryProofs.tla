---------------------------- MODULE RegistryProofs ----------------------------
(***************************************************************************)
(* The registry of blueprints is sound for any types, blueprints and       *)
(* number of registering goroutines.  The inductive invariant adds that    *)
(* what a goroutine is about to insert resolved, and so still does: the    *)
(* registry only grows.                                                    *)
(***************************************************************************)
EXTENDS Registry, TLAPS

\* A blueprint that passed CheckReferences resolves until it is inserted.
PendingResolve ==
  \A g \in Registrants : registrant[g].at = "insert" => Resolves(registrant[g].level, registrant[g].blueprint.body)

RInv == RegistrySound /\ PendingResolve

\* The one way in which the entries change: a free name of a level is given a body.
Grows(L, N, e) ==
  /\ L \in Registries /\ N \in TypeNames /\ e \in Bodies /\ entries[L][N] = NoEntry
  /\ entries' = [entries EXCEPT ![L][N] = e]

\* A body is never mistaken for the absence of one.
LEMMA BodyIsEntry == \A e \in Bodies : e # NoEntry /\ e.kind # "none"
BY DEF Bodies, NoEntry, Kinds

\* After an insertion a name means what it meant, or is the inserted one, found now.
LEMMA LookupGrows ==
  ASSUME RegistryTypeOK, NEW L, NEW N, NEW e, Grows(L, N, e), NEW l \in Registries, NEW n \in TypeNames
  PROVE  /\ Lookup(l, n)' = Lookup(l, n) \/ (n = N /\ Lookup(l, n)' = e /\ (l = L \/ ~has(l, N)))
         /\ has(l, n) => has(l, n)'
<1>1. entries' \in [Registries -> [TypeNames -> Bodies \cup {NoEntry}]] /\ entries'[L][N] = e
  BY DEF RegistryTypeOK, Grows
<1>2. \A k \in Registries, m \in TypeNames : (k # L \/ m # N) => entries'[k][m] = entries[k][m]
  BY DEF RegistryTypeOK, Grows
<1>3. "parent" \in Registries /\ Registries = {"parent", "child"} /\ e # NoEntry /\ entries[L][N] = NoEntry /\ L \in Registries
  BY BodyIsEntry DEF Registries, Grows
<1> QED BY <1>1, <1>2, <1>3 DEF Lookup, has

\* What is found at the parent is found at the child.
LEMMA ChildSeesParent ==
  ASSUME NEW n, has("parent", n), NEW l \in Registries
  PROVE  has(l, n)
BY DEF has, Lookup, Registries

\* What a runtime blueprint of a level refers to is found at that level, also
\* when the blueprint itself stands in the parent.
LEMMA LookupResolves ==
  ASSUME RegistryTypeOK, ReferencesResolve, NEW l \in Registries, NEW n \in TypeNames, Lookup(l, n).kind = "runtime"
  PROVE  \A r \in Lookup(l, n).refs : has(l, r)
<1>1. CASE Lookup(l, n) = entries[l][n]
  BY <1>1 DEF ReferencesResolve, Resolves
<1>2. CASE Lookup(l, n) = entries["parent"][n]
  BY <1>2, ChildSeesParent DEF ReferencesResolve, Resolves, Registries
<1> QED BY <1>1, <1>2 DEF Lookup

\* What resolved before an insertion resolves after it.
LEMMA GrowthKeepsResolved ==
  ASSUME RInv, NEW L, NEW N, NEW e, Grows(L, N, e), NEW l \in Registries, NEW b \in Bodies, Resolves(l, b)
  PROVE  Resolves(l, b)'
<1>1. b.refs \subseteq TypeNames /\ (b.underlying # 0 => b.underlying \in TypeNames)
  BY DEF Bodies
<1>2. \A m \in TypeNames : has(l, m) => has(l, m)'
  BY LookupGrows DEF RInv, RegistrySound
<1> QED BY <1>1, <1>2 DEF Resolves

\* An insertion adds a runtime blueprint only if it resolves.
LEMMA GrowthResolves ==
  ASSUME RInv, NEW L, NEW N, NEW e, Grows(L, N, e), e.kind = "runtime" => Resolves(L, e)
  PROVE  ReferencesResolve'
<1> SUFFICES ASSUME NEW l \in Registries, NEW n \in TypeNames, NEW b, b = entries'[l][n], b.kind = "runtime"
             PROVE  Resolves(l, b)'
  BY DEF ReferencesResolve, Resolves, has, Lookup
<1>1. Resolves(l, b)
  <2>1. CASE l = L /\ n = N
    BY <2>1 DEF Grows, RInv, RegistrySound, RegistryTypeOK
  <2>2. CASE ~(l = L /\ n = N)
    <3>1. b = entries[l][n]
      BY <2>2 DEF Grows, RInv, RegistrySound, RegistryTypeOK
    <3> QED BY <3>1 DEF RInv, RegistrySound, ReferencesResolve
  <2> QED BY <2>1, <2>2
<1>2. b \in Bodies
  <2>1. b \in Bodies \cup {NoEntry}
    BY DEF Grows, RInv, RegistrySound, RegistryTypeOK
  <2> QED BY <2>1 DEF NoEntry
<1> QED BY <1>1, <1>2, GrowthKeepsResolved

\* An insertion that is no race closes no cycle: nothing refers to the name yet,
\* and the new blueprint refers only to what is there.
LEMMA GrowthNoCycle ==
  ASSUME RInv, NEW L, NEW N, NEW e, Grows(L, N, e),
         e.kind = "runtime" => Resolves(L, e),
         raced' = {} => raced = {} /\ ~has(L, N)
  PROVE  NoCycle'
<1> SUFFICES ASSUME raced' = {}, NEW l \in Registries,
                    NEW S \in SUBSET {n \in TypeNames : Lookup(l, n)'.kind = "runtime"}, S # {}
             PROVE  \E n \in S : Lookup(l, n)'.refs \cap S = {}
  BY DEF NoCycle
<1>1. RegistryTypeOK /\ ReferencesResolve /\ NoCycle /\ raced = {} /\ ~has(L, N)
  BY DEF RInv, RegistrySound
<1>2. \A n \in TypeNames : Lookup(l, n)' = Lookup(l, n) \/ (n = N /\ Lookup(l, n)' = e /\ (l = L \/ ~has(l, N)))
  BY <1>1, LookupGrows
<1>3. CASE \A n \in S : Lookup(l, n)' = Lookup(l, n)
  <2>1. S \in SUBSET {n \in TypeNames : Lookup(l, n).kind = "runtime"}
    BY <1>3
  <2>2. PICK n \in S : Lookup(l, n).refs \cap S = {}
    BY <1>1, <2>1 DEF NoCycle
  <2> QED BY <1>3, <2>2
<1>4. CASE \E n \in S : Lookup(l, n)' # Lookup(l, n)
  <2>1. N \in S /\ Lookup(l, N)' = e /\ ~has(l, N) /\ e.kind = "runtime"
    BY <1>1, <1>2, <1>4
  <2>2. \A n \in S \ {N} : Lookup(l, n)' = Lookup(l, n) /\ Lookup(l, n).kind = "runtime" /\ N \notin Lookup(l, n).refs
    BY <1>1, <1>2, <2>1, LookupResolves
  <2>3. N \notin e.refs
    BY <1>1, <2>1 DEF Resolves
  <2>4. CASE S = {N}
    BY <2>1, <2>3, <2>4
  <2>5. CASE S # {N}
    <3>1. S \ {N} # {} /\ S \ {N} \in SUBSET {n \in TypeNames : Lookup(l, n).kind = "runtime"}
      BY <2>1, <2>2, <2>5
    <3>2. PICK n \in S \ {N} : Lookup(l, n).refs \cap (S \ {N}) = {}
      BY <1>1, <3>1 DEF NoCycle
    <3> QED BY <2>2, <3>2
  <2> QED BY <2>4, <2>5
<1> QED BY <1>3, <1>4

\* A success that was returned before an insertion still tells the truth.
LEMMA GrowthKeepsConfirmed ==
  ASSUME RInv, NEW L, NEW N, NEW e, Grows(L, N, e), NEW c \in confirmed
  PROVE  entries'[c[1]][c[2].type] = c[2].body
<1>1. c[1] \in Registries /\ c[2] \in Blueprints /\ c[2].type \in TypeNames /\ c[2].body \in Bodies
  BY RegistryAssumption DEF RInv, RegistrySound, RegistryTypeOK
<1>2. entries[c[1]][c[2].type] = c[2].body /\ c[2].body # NoEntry
  BY <1>1, BodyIsEntry DEF RInv, RegistrySound, ConfirmedIsStored
<1> QED BY <1>1, <1>2 DEF Grows, RInv, RegistrySound, RegistryTypeOK

\* An empty registry satisfies the invariant.
LEMMA RegistryInitInvariant == RegistryInit => RInv
<1> SUFFICES ASSUME RegistryInit PROVE RInv
  OBVIOUS
<1>1. RegistryTypeOK
  BY DEF RegistryInit, RegistryTypeOK
<1>2. \A l \in Registries, n \in TypeNames : entries[l][n] = NoEntry /\ Lookup(l, n) = NoEntry
  BY DEF RegistryInit, Lookup, Registries
<1>3. NoEntry.kind # "runtime"
  BY DEF NoEntry
<1>4. ReferencesResolve /\ ConfirmedIsStored
  BY <1>2, <1>3 DEF RegistryInit, ReferencesResolve, ConfirmedIsStored
<1>5. NoCycle
  BY <1>2, <1>3 DEF NoCycle
<1>6. PendingResolve
  BY DEF RegistryInit, PendingResolve, NotRegistering
<1> QED BY <1>1, <1>4, <1>5, <1>6 DEF RInv, RegistrySound

\* A step that leaves the entries alone disturbs only what is pending.
LEMMA EntriesKept ==
  ASSUME RInv, UNCHANGED <<entries, confirmed, raced>>, RegistryTypeOK'
  PROVE  /\ RegistrySound'
         /\ \A l, b : Resolves(l, b) => Resolves(l, b)'
BY DEF RInv, RegistrySound, ReferencesResolve, ConfirmedIsStored, NoCycle, Resolves, has, Lookup

\* A prototype is no runtime blueprint: it may refer to anything.
LEMMA AddInvariant ==
  ASSUME RInv, NEW p \in Prototypes, AddPrototype(p)
  PROVE  RInv'
<1>1. p.type \in TypeNames /\ p.body \in Bodies /\ p.body.kind # "runtime"
  BY RegistryAssumption
<1>2. ~has("parent", p.type) /\ Grows("parent", p.type, p.body)
  BY <1>1 DEF AddPrototype, Grows, has, Lookup, Registries
<1>3. RegistryTypeOK'
  BY <1>1 DEF RInv, RegistrySound, RegistryTypeOK, AddPrototype, Registries
<1>4. ReferencesResolve'
  BY <1>1, <1>2, GrowthResolves
<1>5. NoCycle'
  BY <1>1, <1>2, GrowthNoCycle DEF AddPrototype
<1>6. ConfirmedIsStored'
  BY <1>2, GrowthKeepsConfirmed DEF ConfirmedIsStored, AddPrototype
<1>7. PendingResolve'
  <2> SUFFICES ASSUME NEW g \in Registrants, registrant[g].at = "insert"
               PROVE  Resolves(registrant[g].level, registrant[g].blueprint.body)'
    BY DEF PendingResolve, AddPrototype
  <2>1. registrant[g].level \in Registries /\ registrant[g].blueprint \in Blueprints
    BY DEF RInv, RegistrySound, RegistryTypeOK, NotRegistering
  <2>2. PICK l \in Registries, b \in Bodies : l = registrant[g].level /\ b = registrant[g].blueprint.body
    BY <2>1, RegistryAssumption
  <2>3. Resolves(l, b)'
    BY <1>2, <2>2, GrowthKeepsResolved DEF RInv, PendingResolve
  <2> QED BY <2>2, <2>3 DEF AddPrototype
<1> QED BY <1>3, <1>4, <1>5, <1>6, <1>7 DEF RInv, RegistrySound

\* Loading, and the two checks of a registration, leave the entries alone.
LEMMA CheckInvariant ==
  ASSUME RInv,
         \/ Loaded
         \/ \E g \in Registrants, l \in Registries, b \in Blueprints : CheckName(g, l, b)
         \/ \E g \in Registrants : CheckReferences(g)
         \/ UNCHANGED registryVars
  PROVE  RInv'
<1>1. CASE Loaded \/ UNCHANGED registryVars
  <2>1. RegistryTypeOK' /\ UNCHANGED <<entries, confirmed, raced, registrant>>
    BY <1>1 DEF RInv, RegistrySound, RegistryTypeOK, Loaded, registryVars
  <2>2. PendingResolve'
    BY <2>1 DEF RInv, PendingResolve, Resolves, has, Lookup
  <2> QED BY <2>1, <2>2, EntriesKept DEF RInv
<1>2. ASSUME NEW g \in Registrants, NEW l \in Registries, NEW b \in Blueprints, CheckName(g, l, b)
      PROVE  RInv'
  <2>1. RegistryTypeOK' /\ UNCHANGED <<entries, confirmed, raced>>
    BY <1>2 DEF RInv, RegistrySound, RegistryTypeOK, CheckName
  <2>2. PendingResolve'
    BY <1>2 DEF RInv, RegistrySound, RegistryTypeOK, PendingResolve, CheckName, Resolves, has, Lookup
  <2> QED BY <2>1, <2>2, EntriesKept DEF RInv
<1>3. ASSUME NEW g \in Registrants, CheckReferences(g)
      PROVE  RInv'
  <2>1. registrant[g] \in [at : {"references", "insert"}, level : Registries, blueprint : Blueprints]
    BY <1>3 DEF RInv, RegistrySound, RegistryTypeOK, CheckReferences, NotRegistering
  <2>2. RegistryTypeOK' /\ UNCHANGED <<entries, confirmed, raced>>
    BY <1>3, <2>1 DEF RInv, RegistrySound, RegistryTypeOK, CheckReferences
  <2>3. PendingResolve'
    BY <1>3, <2>1 DEF RInv, RegistrySound, RegistryTypeOK, PendingResolve, CheckReferences, NotRegistering, Resolves, has, Lookup
  <2> QED BY <2>2, <2>3, EntriesKept DEF RInv
<1> QED BY <1>1, <1>2, <1>3

\* An insertion that Set accepts gives a free name of the level a body that resolves,
\* and is recorded as a race when a child takes a name of its parent.
LEMMA InsertGrows ==
  ASSUME RInv, NEW g \in Registrants, InsertBlueprint(g), entries' # entries
  PROVE  \E L \in Registries, b \in Blueprints :
           /\ Grows(L, b.type, b.body) /\ Resolves(L, b.body) /\ confirmed' = confirmed \cup {<<L, b>>}
           /\ raced \subseteq raced' /\ raced' \subseteq raced \cup {b.type}
           /\ has(L, b.type) => b.type \in raced'
<1> DEFINE L == registrant[g].level
           b == registrant[g].blueprint
<1>1. L \in Registries /\ b \in Blueprints
  BY DEF RInv, RegistrySound, RegistryTypeOK, InsertBlueprint, NotRegistering
<1>2. b.type \in TypeNames /\ b.body \in Bodies
  BY <1>1, RegistryAssumption
<1>3. Resolves(L, b.body)
  BY DEF RInv, PendingResolve, InsertBlueprint
<1>4. /\ Grows(L, b.type, b.body) /\ confirmed' = confirmed \cup {<<L, b>>}
      /\ raced' = IF L = "child" /\ entries["parent"][b.type] # NoEntry THEN raced \cup {b.type} ELSE raced
  BY <1>1, <1>2 DEF InsertBlueprint, Settable, Grows
<1>5. has(L, b.type) => L = "child" /\ entries["parent"][b.type] # NoEntry
  BY <1>1, <1>4 DEF has, Lookup, Registries, Grows
<1>6. raced \subseteq raced' /\ raced' \subseteq raced \cup {b.type} /\ (has(L, b.type) => b.type \in raced')
  BY <1>4, <1>5
<1> QED BY <1>1, <1>3, <1>4, <1>6

\* The insertion of a registration, and the refusal of a name that was taken meanwhile.
LEMMA InsertInvariant ==
  ASSUME RInv, NEW g \in Registrants, InsertBlueprint(g)
  PROVE  RInv'
<1>1. registrant' = [registrant EXCEPT ![g] = NotRegistering] /\ loading' = loading
  BY DEF InsertBlueprint
<1>2. CASE UNCHANGED <<entries, confirmed, raced>>
  <2>1. RegistryTypeOK'
    BY <1>1, <1>2 DEF RInv, RegistrySound, RegistryTypeOK
  <2>2. PendingResolve'
    BY <1>1, <1>2 DEF RInv, RegistrySound, RegistryTypeOK, PendingResolve, NotRegistering, Resolves, has, Lookup
  <2> QED BY <1>2, <2>1, <2>2, EntriesKept DEF RInv
<1>3. CASE entries' # entries
  <2>1. PICK L \in Registries, b \in Blueprints :
           /\ Grows(L, b.type, b.body) /\ Resolves(L, b.body) /\ confirmed' = confirmed \cup {<<L, b>>}
           /\ raced \subseteq raced' /\ raced' \subseteq raced \cup {b.type}
           /\ has(L, b.type) => b.type \in raced'
    BY <1>3, InsertGrows
  <2>2. b.type \in TypeNames /\ b.body \in Bodies
    BY RegistryAssumption
  <2>3. RegistryTypeOK'
    BY <1>1, <2>1, <2>2 DEF RInv, RegistrySound, RegistryTypeOK, Grows
  <2>4. ReferencesResolve' /\ NoCycle'
    BY <2>1, GrowthResolves, GrowthNoCycle
  <2>5. ConfirmedIsStored'
    <3>1. entries'[L][b.type] = b.body
      BY <2>1, <2>2 DEF Grows, RInv, RegistrySound, RegistryTypeOK
    <3> QED BY <2>1, <3>1, GrowthKeepsConfirmed DEF ConfirmedIsStored
  <2>6. PendingResolve'
    <3> SUFFICES ASSUME NEW h \in Registrants \ {g}, registrant[h].at = "insert", registrant'[h] = registrant[h]
                 PROVE  Resolves(registrant[h].level, registrant[h].blueprint.body)'
      BY <1>1 DEF PendingResolve, NotRegistering, RInv, RegistrySound, RegistryTypeOK
    <3>1. registrant[h].level \in Registries /\ registrant[h].blueprint \in Blueprints
      BY DEF RInv, RegistrySound, RegistryTypeOK, NotRegistering
    <3>2. PICK l \in Registries, d \in Bodies : l = registrant[h].level /\ d = registrant[h].blueprint.body
      BY <3>1, RegistryAssumption
    <3>3. Resolves(l, d)'
      BY <2>1, <3>2, GrowthKeepsResolved DEF RInv, PendingResolve
    <3> QED BY <3>2, <3>3
  <2> QED BY <2>3, <2>4, <2>5, <2>6 DEF RInv, RegistrySound
<1>4. CASE entries' = entries /\ ~UNCHANGED <<confirmed, raced>>
  <2>1. PICK n \in TypeNames, L \in Registries, b \in Bodies :
          entries[L][n] = NoEntry /\ entries' = [entries EXCEPT ![L][n] = b]
    <3>1. registrant[g].level \in Registries /\ registrant[g].blueprint \in Blueprints
      BY DEF RInv, RegistrySound, RegistryTypeOK, InsertBlueprint, NotRegistering
    <3> QED BY <1>4, <3>1, RegistryAssumption DEF InsertBlueprint, Settable
  <2>2. entries'[L][n] = b /\ b # NoEntry
    BY <2>1, BodyIsEntry DEF RInv, RegistrySound, RegistryTypeOK
  <2> QED BY <1>4, <2>1, <2>2
<1> QED BY <1>2, <1>3, <1>4

\* The invariant is inductive.
LEMMA RegistryInductive == RInv /\ [RegistryNext]_registryVars => RInv'
BY AddInvariant, CheckInvariant, InsertInvariant DEF RegistryNext

\* Whatever goroutines register at the same time, a runtime blueprint refers only to
\* types its level knows, what RegisterBlueprint confirmed is what is stored, and no
\* references run in a circle unless a child raced its parent for a name.
THEOREM RegistryIsSound == RegistrySpec => []RegistrySound
<1>1. RInv => RegistrySound
  BY DEF RInv
<1> QED BY <1>1, RegistryInitInvariant, RegistryInductive, PTL DEF RegistrySpec

\* What New makes of a name at a level never changes once there is something, but for
\* a child that inserts a name its parent was given between the check and the insertion.
THEOREM NamesKeepMeaning == RegistrySpec => NameKeepsMeaning
<1> DEFINE Kept == \A l \in Registries, n \in TypeNames : has(l, n) /\ n \notin raced' => Lookup(l, n)' = Lookup(l, n)
<1>1. RInv /\ [RegistryNext]_registryVars => [Kept]_registryVars
  <2> SUFFICES ASSUME RInv, RegistryNext, NEW l \in Registries, NEW n \in TypeNames, has(l, n), n \notin raced'
               PROVE  Lookup(l, n)' = Lookup(l, n)
    OBVIOUS
  <2>1. CASE entries' = entries
    BY <2>1 DEF Lookup
  <2>2. ASSUME NEW p \in Prototypes, AddPrototype(p) PROVE Lookup(l, n)' = Lookup(l, n)
    <3>1. ~has("parent", p.type) /\ Grows("parent", p.type, p.body)
      BY <2>2, RegistryAssumption DEF AddPrototype, Grows, has, Lookup, Registries
    <3> QED BY <3>1, LookupGrows DEF RInv, RegistrySound
  <2>3. ASSUME NEW g \in Registrants, InsertBlueprint(g), entries' # entries PROVE Lookup(l, n)' = Lookup(l, n)
    <3>1. PICK L \in Registries, b \in Blueprints : Grows(L, b.type, b.body) /\ (has(L, b.type) => b.type \in raced')
      BY <2>3, InsertGrows
    <3> QED BY <3>1, LookupGrows DEF RInv, RegistrySound
  <2> QED BY <2>1, <2>2, <2>3 DEF RegistryNext, Loaded, CheckName, CheckReferences
<1> QED BY <1>1, RegistryInitInvariant, RegistryInductive, PTL DEF RegistrySpec, NameKeepsMeaning
=============================================================================
