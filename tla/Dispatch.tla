------------------------------ MODULE Dispatch ------------------------------
(***************************************************************************)
(* lib/routing: ScopeRouter over OpRouters.  Ops are added and scopes      *)
(* mounted and removed by several goroutines while queries are routed;     *)
(* each access to a sig.Map is a step.  An op's name is the sequence of    *)
(* its segments, so "s.a" is <<"s", "a">> and ".spec" is <<"", "spec">>:  *)
(* what precedes the first dot is the head.                                *)
(***************************************************************************)
EXTENDS Naturals, Sequences, SequencesExt, FiniteSets

CONSTANTS Adders, Scopes,
          Names,                   \* the names ops are added under
          MaxOps, MaxRouters

ASSUME DispatchAssumption ==
  /\ "" \notin Scopes /\ Names \subseteq Seq(STRING) \ {<< >>}
  /\ MaxOps \in Nat /\ MaxRouters \in Nat

VARIABLES
  routers,    \* each router made so far, the root first: its kind and its routes
  scopes,     \* ScopeRouter.scopes: the router mounted at each scope, or 0
  adder,      \* where each AddScopedOp is
  ops,        \* how many ops were handed to AddScopedOp
  added,      \* the ops whose AddScopedOp returned nil
  removed,    \* the scopes Remove was called for
  orphans,    \* the routers AddScopedOp made and did not get to mount
  query       \* the query in progress

dispatchVars == <<routers, scopes, adder, ops, added, removed, orphans, query>>

Root   == 1
Idle   == [at |-> "idle", scope |-> "", name |-> << >>, op |-> 0, router |-> 0]
NoOne  == [at |-> "idle", name |-> << >>, rest |-> << >>, router |-> 0, result |-> 0]
FullName(scope, name) == IF scope = "" THEN name ELSE <<scope>> \o name

\* OpRouter.routes holds an op for the name; Set keeps the one that came first.
HasOp(r, name) == \E e \in routers[r].routes : e.name = name
OpOf(r, name)  == (CHOOSE e \in routers[r].routes : e.name = name).op

DispatchInit ==
  /\ routers = << [kind |-> "ops", routes |-> {}] >> /\ scopes = [s \in Scopes |-> 0]
  /\ adder = [a \in Adders |-> Idle] /\ ops = 0 /\ added = {} /\ removed = {} /\ orphans = {}
  /\ query = NoOne

-----------------------------------------------------------------------------
\* AddScopedOp: an empty scope is the root.
AddScopedOp(a, s, n) ==
  /\ adder[a].at = "idle" /\ ops < MaxOps
  /\ ops' = ops + 1
  /\ adder' = [adder EXCEPT ![a] = [at |-> IF s = "" THEN "op" ELSE "get", scope |-> s, name |-> n,
                                    op |-> ops', router |-> IF s = "" THEN Root ELSE 0]]
  /\ UNCHANGED <<routers, scopes, added, removed, orphans, query>>

\* r.scopes.Get.
GetScope(a) ==
  LET r == scopes[adder[a].scope] IN
  /\ adder[a].at = "get"
  /\ adder' = [adder EXCEPT ![a].at = IF r = 0 THEN "set" ELSE "op", ![a].router = r]
  /\ UNCHANGED <<routers, scopes, ops, added, removed, orphans, query>>

\* sig.Map.Set keeps the value a key has.
Mounted(s, r) == IF scopes[s] = 0 THEN r ELSE scopes[s]

\* The new router is mounted unless the scope has one by now; it is used either way.
SetScope(a) ==
  LET s == adder[a].scope  r == Len(routers) + 1 IN
  /\ adder[a].at = "set" /\ r <= MaxRouters
  /\ routers' = Append(routers, [kind |-> "ops", routes |-> {}])
  /\ scopes' = [scopes EXCEPT ![s] = Mounted(s, r)]
  /\ orphans' = IF scopes'[s] = r THEN orphans ELSE orphans \cup {r}
  /\ adder' = [adder EXCEPT ![a].at = "op", ![a].router = r]
  /\ UNCHANGED <<ops, added, removed, query>>

\* Only an OpRouter takes an op, and only under a name it does not have.
Takes(r, n) == routers[r].kind = "ops" /\ ~HasOp(r, n)

\* The type assertion and OpRouter.AddOp.
AddOp(a) ==
  LET c == adder[a] IN
  /\ c.at = "op"
  /\ adder' = [adder EXCEPT ![a] = Idle]
  /\ IF Takes(c.router, c.name)
       THEN /\ routers' = [routers EXCEPT ![c.router].routes = @ \cup {[name |-> c.name, op |-> c.op]}]
            /\ added' = added \cup {[scope |-> c.scope, name |-> c.name, op |-> c.op, router |-> c.router]}
       ELSE UNCHANGED <<routers, added>>
  /\ UNCHANGED <<scopes, ops, removed, orphans, query>>

\* ScopeRouter.Add of a router that is not an OpRouter; it is dropped when the scope is taken.
AddScope(s) ==
  /\ Len(routers) < MaxRouters
  /\ routers' = Append(routers, [kind |-> "other", routes |-> {}])
  /\ scopes' = [scopes EXCEPT ![s] = Mounted(s, Len(routers) + 1)]
  /\ UNCHANGED <<adder, ops, added, removed, orphans, query>>

RemoveScope(s) ==
  /\ scopes[s] # 0
  /\ scopes' = [scopes EXCEPT ![s] = 0] /\ removed' = removed \cup {s}
  /\ UNCHANGED <<routers, adder, ops, added, orphans, query>>

-----------------------------------------------------------------------------
\* The router mounted at the name's scope.
ScopeOf(n) == IF Len(n) > 1 /\ n[1] \in Scopes THEN scopes[n[1]] ELSE 0

\* The prefix left on the name, as if the query were forwarded as it came.
TargetKeeping(n) == IF ScopeOf(n) = 0 THEN [router |-> Root, rest |-> n] ELSE [router |-> ScopeOf(n), rest |-> n]

\* The router a name goes to and what is left of the name there.
Target(n) == IF ScopeOf(n) = 0 THEN [router |-> Root, rest |-> n] ELSE [router |-> ScopeOf(n), rest |-> Tail(n)]

\* ScopeRouter.RouteQuery up to the forwarding of the query.
RouteScope(n) ==
  /\ query.at = "idle"
  /\ query' = [at |-> "forward", name |-> n, rest |-> Target(n).rest, router |-> Target(n).router, result |-> 0]
  /\ UNCHANGED <<routers, scopes, adder, ops, added, removed, orphans>>

\* OpRouter.RouteQuery; a router of another kind does as it likes.
RouteOp ==
  /\ query.at = "forward"
  /\ query' = [query EXCEPT !.at = "done",
                            !.result = IF HasOp(query.router, query.rest) THEN OpOf(query.router, query.rest) ELSE 0]
  /\ UNCHANGED <<routers, scopes, adder, ops, added, removed, orphans>>

QueryEnds ==
  /\ query.at = "done" /\ query' = NoOne
  /\ UNCHANGED <<routers, scopes, adder, ops, added, removed, orphans>>

\* ScopeRouter.HasRoute; a router that is no RouteChecker has none.
HasRoute(n) ==
  LET checked == IF Len(n) = 1 \/ n[1] \notin Scopes \/ scopes[n[1]] = 0
                   THEN [router |-> Root, name |-> n] ELSE [router |-> scopes[n[1]], name |-> Tail(n)]
  IN  HasOp(checked.router, checked.name)

\* ScopeRouter.Spec: the ops of every scope, and those of the root that are not internal.
ScopeSpec ==
  UNION {{<<s>> \o e.name : e \in routers[scopes[s]].routes} : s \in {t \in Scopes : scopes[t] # 0}}
    \cup {e.name : e \in {x \in routers[Root].routes : x.name[1] # ""}}

-----------------------------------------------------------------------------
DispatchNext ==
  \/ \E a \in Adders : \/ \E s \in Scopes \cup {""}, n \in Names : AddScopedOp(a, s, n)
                       \/ GetScope(a) \/ SetScope(a) \/ AddOp(a)
  \/ \E s \in Scopes : AddScope(s) \/ RemoveScope(s)
  \/ \E s \in Scopes \cup {""}, n \in Names : RouteScope(FullName(s, n))
  \/ RouteOp \/ QueryEnds

DispatchSpec == DispatchInit /\ [][DispatchNext]_dispatchVars

-----------------------------------------------------------------------------
DispatchTypeOK ==
  /\ routers \in Seq([kind : {"ops", "other"}, routes : SUBSET [name : Names, op : 1..MaxOps]])
  /\ scopes \in [Scopes -> 0..Len(routers)] /\ ops \in 0..MaxOps
  /\ \A a \in Adders : adder[a].at \in {"idle", "get", "set", "op"} /\ adder[a].router \in 0..Len(routers)
  /\ removed \subseteq Scopes /\ orphans \subseteq DOMAIN routers
  /\ query.at \in {"idle", "forward", "done"} /\ query.result \in 0..MaxOps

\* A name of the root that starts with a mounted scope is not reached.
Shadowed(e) == e.scope = "" /\ ScopeOf(e.name) # 0

\* What AddScopedOp returned nil for is found under its full name from then on,
\* unless its scope was removed, or takes it away from the root.
AddedIsReached ==
  \A e \in added : HasRoute(FullName(e.scope, e.name)) \/ Shadowed(e) \/ e.scope \in removed

\* The same for ops whose router was mounted: the others were added to a router
\* nobody can reach, because two calls made the router of one scope at once.
MountedIsReached ==
  \A e \in added : HasRoute(FullName(e.scope, e.name)) \/ Shadowed(e) \/ e.scope \in removed \/ e.router \in orphans

\* A query that reaches an op reaches one that was added under the query's name,
\* the first such unless the scope was removed in between.
RoutedIsAdded ==
  query.result # 0 =>
    \E e \in added : /\ e.op = query.result /\ FullName(e.scope, e.name) = query.name
                     /\ \A f \in added : f.router = e.router /\ f.name = e.name => f = e

\* HasRoute promises what RouteQuery does, and Spec lists what HasRoute promises
\* and hides internal ops: only a shadowed name is listed and not reached.
ChecksAgree ==
  LET all == {FullName(s, n) : s \in Scopes \cup {""}, n \in Names} IN
  /\ \A n \in all : HasRoute(n) <=> HasOp(Target(n).router, Target(n).rest)
  /\ \A n \in all : HasRoute(n) /\ n[1] # "" => n \in ScopeSpec
  /\ \A n \in ScopeSpec : HasRoute(n) \/ ScopeOf(n) # 0

\* The registered ops are the reachable and listed ones, whatever the order of the calls.
DispatchCorrect == DispatchTypeOK /\ MountedIsReached /\ RoutedIsAdded /\ ChecksAgree
=============================================================================
