------------------------------- MODULE Registry -------------------------------
(***************************************************************************)
(* astral.Blueprints: a registry of object types and a child of it.  The   *)
(* prototypes compiled into the program are added first; then goroutines   *)
(* register runtime blueprints at either level, each check and the         *)
(* insertion a step of its own, and AllBlueprints lists everything in the  *)
(* order in which a peer is to register it.  A type name is a number, so   *)
(* that names have an order; a blueprint is its name, what its fields      *)
(* refer to, and for an alias the primitive under it.                      *)
(***************************************************************************)
EXTENDS Naturals, Sequences, SequencesExt, FiniteSets

CONSTANTS TypeNames, Primitives,
          Prototypes,    \* the compile-time prototypes, as records with their type
          Blueprints,    \* the runtime blueprints that may be registered
          Registrants    \* goroutines that register one blueprint after the other

Registries == {"parent", "child"}
Kinds  == {"leaf", "aliasProto", "structProto", "runtime"}
NoEntry   == [kind |-> "none", refs |-> {}, underlying |-> 0]
Bodies == [kind : Kinds, refs : SUBSET TypeNames, underlying : TypeNames \cup {0}]

ASSUME RegistryAssumption ==
  /\ TypeNames \subseteq Nat \ {0} /\ Primitives \subseteq TypeNames
  /\ \A p \in Prototypes : p.type \in TypeNames /\ p.body \in Bodies /\ p.body.kind # "runtime"
  /\ \A b \in Blueprints : b.type \in TypeNames /\ b.body \in Bodies /\ b.body.kind = "runtime"

VARIABLES
  entries,     \* entries of each level, by name
  loading,     \* package initialisation is not over
  registrant,  \* each goroutine: idle, or in RegisterBlueprint at a level
  confirmed,   \* levels and blueprints whose registration returned an ObjectID
  raced        \* names a child took after its parent had been given them

registryVars == <<entries, loading, registrant, confirmed, raced>>

NotRegistering == [at |-> "idle"]

RegistryInit ==
  /\ entries = [l \in Registries |-> [n \in TypeNames |-> NoEntry]] /\ loading = TRUE
  /\ registrant = [g \in Registrants |-> NotRegistering] /\ confirmed = {} /\ raced = {}

\* has and newAt: the level's own entry, then its parent's.
Lookup(l, n) == IF entries[l][n] # NoEntry THEN entries[l][n] ELSE entries["parent"][n]
has(l, n) == Lookup(l, n) # NoEntry

-----------------------------------------------------------------------------
\* MustAdd in a package's init: a prototype of a name that is taken panics.
AddPrototype(p) ==
  /\ loading /\ ~has("parent", p.type)
  /\ entries' = [entries EXCEPT !["parent"][p.type] = p.body]
  /\ UNCHANGED <<loading, registrant, confirmed, raced>>

Loaded ==
  /\ loading /\ \A p \in Prototypes : has("parent", p.type)
  /\ loading' = FALSE /\ UNCHANGED <<entries, registrant, confirmed, raced>>

\* Kind: a blueprint with an Underlying is an alias.
IsAlias(e) == e.kind = "aliasProto" \/ (e.kind = "runtime" /\ e.underlying # 0)

\* validateBlueprint: an alias has no fields and a primitive under it.  Its refusal of a
\* plain or optional field of the type itself is left to Resolves, which refuses any
\* reference to a name that is not there yet.
Valid(b) == b.body.underlying # 0 => b.body.refs = {} /\ b.body.underlying \in Primitives

\* validateReferences, and the reachability of an alias's primitive.
Resolves(l, e) ==
  /\ \A r \in e.refs : has(l, r)
  /\ e.underlying # 0 => has(l, e.underlying)

\* RegisterBlueprint, up to the test that the name is free in the whole chain.
CheckName(g, l, b) ==
  /\ ~loading /\ registrant[g] = NotRegistering /\ Valid(b) /\ ~has(l, b.type)
  /\ registrant' = [registrant EXCEPT ![g] = [at |-> "references", level |-> l, blueprint |-> b]]
  /\ UNCHANGED <<entries, loading, confirmed, raced>>

\* A blueprint that refers to what is not there is refused.
CheckReferences(g) ==
  LET r == registrant[g] IN
  /\ r.at = "references"
  /\ registrant' = [registrant EXCEPT ![g] = IF Resolves(r.level, r.blueprint.body) THEN [r EXCEPT !.at = "insert"] ELSE NotRegistering]
  /\ UNCHANGED <<entries, loading, confirmed, raced>>

\* Replace called for Set.
AlwaysSettable(l, n) == TRUE

\* sig.Map.Set tests and inserts under its lock: an entry that is there by now stays.
Settable(l, n) == entries[l][n] = NoEntry

\* The insertion, at the level only; a name taken meanwhile is ErrAlreadyRegistered.
InsertBlueprint(g) ==
  LET r == registrant[g]  n == r.blueprint.type IN
  /\ r.at = "insert" /\ registrant' = [registrant EXCEPT ![g] = NotRegistering]
  /\ \/ /\ Settable(r.level, n)
        /\ entries' = [entries EXCEPT ![r.level][n] = r.blueprint.body]
        /\ confirmed' = confirmed \cup {<<r.level, r.blueprint>>}
        /\ raced' = IF r.level = "child" /\ entries["parent"][n] # NoEntry THEN raced \cup {n} ELSE raced
     \/ ~Settable(r.level, n) /\ UNCHANGED <<entries, confirmed, raced>>
  /\ UNCHANGED loading

RegistryNext ==
  \/ Loaded \/ \E p \in Prototypes : AddPrototype(p)
  \/ \E g \in Registrants : CheckReferences(g) \/ InsertBlueprint(g)
  \/ \E g \in Registrants, l \in Registries, b \in Blueprints : CheckName(g, l, b)

RegistrySpec == RegistryInit /\ [][RegistryNext]_registryVars

-----------------------------------------------------------------------------
Alphabetical(S) == SetToSortSeq(S, <)

\* orderBlueprintsByReference: passes over the names in alphabetical order emit
\* those all of whose references in the set are out; the rest comes at the end.
OrderByReference(S, body) ==
  LET waits(n, out) == \E r \in body[n].refs \ {n} : r \in S /\ r \notin ToSet(out)
      emit(out, n)  == IF n \in ToSet(out) \/ waits(n, out) THEN out ELSE Append(out, n)
      pass(out, i)  == FoldLeft(emit, out, Alphabetical(S))
      ordered       == FoldLeft(pass, << >>, [i \in 1..Cardinality(S) |-> i])
  IN  ordered \o Alphabetical(S \ ToSet(ordered))

\* The names of a level that its parent has not listed, by what they are.
Local(l) == {n \in TypeNames : entries[l][n] # NoEntry /\ (l = "child" => entries["parent"][n].kind \in {"none", "leaf"})}

Aliases(l)        == Alphabetical({n \in Local(l) : IsAlias(entries[l][n])})
StructProtos(l)   == OrderByReference({n \in Local(l) : entries[l][n].kind = "structProto"}, entries[l])
RuntimeStructs(l) == OrderByReference({n \in Local(l) : entries[l][n].kind = "runtime" /\ entries[l][n].underlying = 0}, entries[l])

\* The structs of the program ahead of the aliases they refer to.
StructsFirst(l) == StructProtos(l) \o Aliases(l) \o RuntimeStructs(l)

\* Aliases, then the structs of the program, then those registered at run time.
LevelOrder(l) == Aliases(l) \o StructProtos(l) \o RuntimeStructs(l)

\* AllBlueprints: the parent's come first.  A leaf has no blueprint.  The code reads the
\* parent and then the child; here nothing is registered between the two reads.
AllBlueprints(l) == LevelOrder("parent") \o IF l = "child" THEN LevelOrder("child") ELSE << >>

-----------------------------------------------------------------------------
RegistryTypeOK ==
  /\ entries \in [Registries -> [TypeNames -> Bodies \cup {NoEntry}]] /\ loading \in BOOLEAN
  /\ confirmed \subseteq Registries \X Blueprints /\ raced \subseteq TypeNames
  /\ registrant \in [Registrants -> {NotRegistering} \cup [at : {"references", "insert"}, level : Registries, blueprint : Blueprints]]

\* A runtime blueprint refers to types that New can make at its level, whatever
\* was registered at the same time: no decode fails for want of a type it names.
ReferencesResolve ==
  \A l \in Registries, n \in TypeNames : entries[l][n].kind = "runtime" => Resolves(l, entries[l][n])

\* RegisterBlueprint's success means what it says: the blueprint is the entry of its name.
ConfirmedIsStored == \A c \in confirmed : entries[c[1]][c[2].type] = c[2].body

\* Following references from runtime blueprint to runtime blueprint ends, so that New
\* ends: every set of them has one that refers to none of the set.  A child that
\* took a name its parent was given meanwhile may close a cycle.
NoCycle ==
  raced = {} => \A l \in Registries : \A S \in SUBSET {n \in TypeNames : Lookup(l, n).kind = "runtime"} :
                  S # {} => \E n \in S : Lookup(l, n).refs \cap S = {}

\* A peer that has the primitives and registers AllBlueprints in its order is never
\* asked for a type it has not been given yet.
Replayable ==
  ~loading => \A l \in Registries :
    LET order == AllBlueprints(l) IN
    /\ \A i, j \in DOMAIN order : i # j => order[i] # order[j]
    /\ \A i, j \in DOMAIN order : i < j =>
         LET e == IF entries["parent"][order[i]] # NoEntry THEN entries["parent"][order[i]] ELSE entries[l][order[i]]
         IN  order[j] \notin e.refs

\* Every name that has a blueprint is listed, wherever in the chain it stands.
Listed ==
  \A l \in Registries :
    LET listed == ToSet(AllBlueprints(l)) IN \A n \in TypeNames : has(l, n) /\ Lookup(l, n).kind # "leaf" => n \in listed

\* What is registered resolves and stays, under any interleaving of registrations.
RegistrySound == RegistryTypeOK /\ ReferencesResolve /\ ConfirmedIsStored /\ NoCycle

\* The registry is sound, and lists what it holds in an order that a peer can follow.
RegistryCorrect == RegistrySound /\ Replayable /\ Listed

\* A name keeps its meaning: what New makes of it at a level never changes once
\* there is something, except when a child inserts a name its parent got meanwhile.
NameKeepsMeaning ==
  [][\A l \in Registries, n \in TypeNames : has(l, n) /\ n \notin raced' => Lookup(l, n)' = Lookup(l, n)]_registryVars
=============================================================================
