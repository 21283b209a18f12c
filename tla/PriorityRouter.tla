---------------------------- MODULE PriorityRouter ----------------------------
(***************************************************************************)
(* lib/routing: PriorityRouter.  Add appends an entry to the set and then  *)
(* sorts the set, two critical sections; RouteQuery clones the entries and *)
(* tries them one after the other.  An entry is its priority and the       *)
(* answer its router will give.                                            *)
(***************************************************************************)
EXTENDS Naturals, Sequences, SequencesExt

CONSTANTS Registrants, Queries,
          Prios, MaxEntries

ASSUME PriorityAssumption == Prios \subseteq Nat /\ MaxEntries \in Nat

RouterAnswers == {"accepted", "rejected", "notfound"}
Entries == [prio : Prios, answer : RouterAnswers]

VARIABLES
  entries,     \* PriorityRouter.entries
  registrant,  \* each caller of Add: "idle" or "sort"
  lookup,      \* each query: the entries it cloned, the next one, and its answer
  quiet        \* the queries that cloned the entries while nobody was inside Add

priorityVars == <<entries, registrant, lookup, quiet>>

Unasked == [clone |-> << >>, next |-> 0, answer |-> "none"]

PriorityInit ==
  /\ entries = << >> /\ registrant = [a \in Registrants |-> "idle"]
  /\ lookup = [q \in Queries |-> Unasked] /\ quiet = {}

\* Add, its first half: sig.Set.Add appends.
AddEntry(a, e) ==
  /\ registrant[a] = "idle" /\ Len(entries) < MaxEntries
  /\ entries' = Append(entries, e) /\ registrant' = [registrant EXCEPT ![a] = "sort"]
  /\ UNCHANGED <<lookup, quiet>>

\* cmp.Compare of the priorities; the sort need not keep the order of equal ones.
Ascending(s) == \A i, j \in DOMAIN s : i < j => s[i].prio <= s[j].prio

\* Add, its second half: sig.Set.Sort.
SortEntries(a) ==
  /\ registrant[a] = "sort" /\ registrant' = [registrant EXCEPT ![a] = "idle"]
  /\ \E p \in SetToAllKPermutations(DOMAIN entries) :
       /\ Len(p) = Len(entries)
       /\ entries' = [i \in DOMAIN entries |-> entries[p[i]]]
  /\ Ascending(entries')
  /\ UNCHANGED <<lookup, quiet>>

\* RouteQuery: the entries are cloned.
CloneEntries(q) ==
  /\ lookup[q].next = 0
  /\ lookup' = [lookup EXCEPT ![q].clone = entries, ![q].next = 1]
  /\ quiet' = IF \A a \in Registrants : registrant[a] = "idle" THEN quiet \cup {q} ELSE quiet
  /\ UNCHANGED <<entries, registrant>>

\* A rejection taken for no route.
FinalIfAccepted(answer) == answer = "accepted"

\* An answer that ends the search.
Final(answer) == answer \in {"accepted", "rejected"}

\* One round of the loop, or the end of it.
TryNext(q) ==
  LET s == lookup[q] IN
  /\ s.next > 0 /\ s.answer = "none"
  /\ lookup' = [lookup EXCEPT ![q] =
       IF s.next > Len(s.clone) THEN [s EXCEPT !.answer = "notfound"]
       ELSE IF Final(s.clone[s.next].answer) THEN [s EXCEPT !.answer = s.clone[s.next].answer]
       ELSE [s EXCEPT !.next = @ + 1]]
  /\ UNCHANGED <<entries, registrant, quiet>>

PriorityNext ==
  \/ \E a \in Registrants : SortEntries(a) \/ \E e \in Entries : AddEntry(a, e)
  \/ \E q \in Queries : CloneEntries(q) \/ TryNext(q)

PrioritySpec == PriorityInit /\ [][PriorityNext]_priorityVars

-----------------------------------------------------------------------------
PriorityTypeOK ==
  /\ entries \in Seq(Entries) /\ registrant \in [Registrants -> {"idle", "sort"}] /\ quiet \subseteq Queries
  /\ \A q \in Queries : /\ lookup[q].clone \in Seq(Entries) /\ lookup[q].next \in 0..(MaxEntries + 1)
                        /\ lookup[q].answer \in RouterAnswers \cup {"none"}

\* When nobody is inside Add the entries are in ascending order of priority,
\* however the halves of concurrent Adds were interleaved.
SortedWhenQuiet == (\A a \in Registrants : registrant[a] = "idle") => Ascending(entries)

\* A query that met no Add is answered by a router of the lowest priority that has
\* a final answer, a rejection included; only when there is none is it not found.
LowestAnswers ==
  \A q \in quiet : lookup[q].answer # "none" =>
    LET final == {e \in ToSet(lookup[q].clone) : e.answer # "notfound"}
        lowest == {e \in final : \A f \in final : e.prio <= f.prio}
    IN  IF final = {} THEN lookup[q].answer = "notfound"
        ELSE \E e \in lowest : e.answer = lookup[q].answer

\* The entries come to order after every Add, and their order decides each query.
PriorityCorrect == PriorityTypeOK /\ SortedWhenQuiet /\ LowestAnswers
=============================================================================
