------------------------------- MODULE TreeQuery -------------------------------
(***************************************************************************)
(* tree.Query: walks a path from the root, creating what is missing, while *)
(* other walkers do the same and nodes are deleted.  Each call to a node   *)
(* (Sub, Create) is a step.  Names are numbers, listed in their order; a   *)
(* client's node is the path it addresses, which Sub builds with append on *)
(* its own path.                                                           *)
(***************************************************************************)
EXTENDS Naturals, Sequences, FiniteSetsExt, SequencesExt

CONSTANTS Walkers,
          Goal(_),      \* the path a walker asks for, without empty segments
          Creates(_),   \* whether it asks with create
          Planted,      \* the paths that exist at first: closed under prefixes
          MaxDeletes    \* bound: nodes deleted by others

ASSUME QueryAssumption ==
  /\ MaxDeletes \in Nat /\ << >> \in Planted
  /\ \A p \in Planted : p # << >> => Front(p) \in Planted

VARIABLES tree,      \* the paths that exist
          walkAt,        \* the node each walker has reached, by the path it addresses
          depth,     \* segments walked
          walker,    \* "sub", "create", "again", "found" or "failed"
          deletes

walkVars == <<tree, walkAt, depth, walker, deletes>>

WalkTypeOK ==
  /\ << >> \in tree /\ \A p \in tree : p # << >> => Front(p) \in tree
  /\ \A w \in Walkers : depth[w] \in 0..Len(Goal(w)) /\ Len(walkAt[w]) = depth[w]
  /\ walker \in [Walkers -> {"sub", "create", "again", "found", "failed"}]
  /\ deletes \in 0..MaxDeletes

WalkInit ==
  /\ tree = Planted
  /\ walkAt = [w \in Walkers |-> << >>] /\ depth = [w \in Walkers |-> 0]
  /\ walker = [w \in Walkers |-> "sub"]
  /\ deletes = 0

-----------------------------------------------------------------------------
Children(p) == {Last(q) : q \in {r \in tree : r # << >> /\ Front(r) = p}}

NextName(w) == Goal(w)[depth[w] + 1]

\* append keeps room for a power of two of segments: after any other number of
\* them, the next one is written in the array the slices share.
Shares(p) == Len(p) \notin {0, 1, 2, 4, 8}

\* The path of child n as Sub leaves it once all children are listed, the last one included.
SubPath(p, n) == Append(p, IF Shares(p) THEN Max(Children(p)) ELSE n)

Descend(w, path) ==
  /\ walkAt' = [walkAt EXCEPT ![w] = path]
  /\ depth' = [depth EXCEPT ![w] = @ + 1]
  /\ walker' = [walker EXCEPT ![w] = IF depth[w] + 1 = Len(Goal(w)) THEN "found" ELSE "sub"]

Goto(w, state) == walker' = [walker EXCEPT ![w] = state] /\ UNCHANGED <<walkAt, depth>>

MayCreate(w) == Creates(w)

\* querySub: list the children; take the one asked for, or go on to create it.
Sub(w) ==
  /\ walker[w] = "sub"
  /\ IF walkAt[w] \in tree /\ NextName(w) \in Children(walkAt[w])
       THEN Descend(w, SubPath(walkAt[w], NextName(w)))
       ELSE Goto(w, IF walkAt[w] \in tree /\ MayCreate(w) THEN "create" ELSE "failed")
  /\ UNCHANGED <<tree, deletes>>

LoseRace(w) == Goto(w, "failed")

FindOther(w) == Goto(w, "again")

Open(p) == tree \cup Prefixes(p)

\* Create: a node of its own answers that the name exists; a remote one opens the
\* path, with whatever of it is missing.
Create(w) ==
  /\ walker[w] = "create"
  /\ LET p == Append(walkAt[w], NextName(w))
     IN \/ p \in tree /\ FindOther(w) /\ UNCHANGED tree
        \/ tree' = Open(p) /\ Descend(w, p)
        \/ walkAt[w] \notin tree /\ Goto(w, "failed") /\ UNCHANGED tree
  /\ UNCHANGED deletes

\* Someone else was faster: list again.
Again(w) ==
  /\ walker[w] = "again"
  /\ IF walkAt[w] \in tree /\ NextName(w) \in Children(walkAt[w])
       THEN Descend(w, SubPath(walkAt[w], NextName(w)))
       ELSE Goto(w, "failed")
  /\ UNCHANGED <<tree, deletes>>

\* Somebody deletes a node that has no subnodes.
Delete(p) ==
  /\ deletes < MaxDeletes
  /\ p # << >> /\ Children(p) = {}
  /\ tree' = tree \ {p}
  /\ deletes' = deletes + 1
  /\ UNCHANGED <<walkAt, depth, walker>>

WalkNext ==
  \/ \E w \in Walkers : Sub(w) \/ Create(w) \/ Again(w)
  \/ \E p \in tree : Delete(p)

WalkSpec == WalkInit /\ [][WalkNext]_walkVars

-----------------------------------------------------------------------------
\* The node a Query returns addresses the path that was asked for.
FindsItsPath == \A w \in Walkers : walker[w] = "found" => walkAt[w] = Goal(w)

\* Walkers that create never get in each other's way: unless nodes are deleted, a
\* Query with create does not fail.
CreatorsAgree == \A w \in Walkers : Creates(w) /\ walker[w] = "failed" => deletes > 0

\* A Query without create leaves nothing behind: only what creators asked for is new.
OnlyAskedFor ==
  tree \subseteq Planted \cup UNION {Prefixes(Goal(w)) : w \in {x \in Walkers : Creates(x)}}

\* Query returns the node of its path, creators agree on the nodes they share, and
\* nothing is created that nobody asked for.
WalkCorrect == WalkTypeOK /\ FindsItsPath /\ CreatorsAgree /\ OnlyAskedFor
=============================================================================
