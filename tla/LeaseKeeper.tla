------------------------------ MODULE LeaseKeeper ------------------------------
(***************************************************************************)
(* leaseKeeper: an app registers with the node for a lease, on every       *)
(* (re)connect through Hook, and a loop started by the first Hook renews   *)
(* it at a third of the lease last granted, but no more often than         *)
(* minRenewInterval.  Time is counted in units of which minRenewInterval   *)
(* is MinRenew; register takes no time, but Hook and the loop overlap, so  *)
(* what the node granted and what k.granted holds may differ.  The node    *)
(* clamps each request as it likes, and may leave out the lease's body.    *)
(***************************************************************************)
EXTENDS Integers

CONSTANTS Grants,     \* the leases the node grants, 0 among them
          Requested,  \* the lease the app asks for
          MinRenew,   \* minRenewInterval
          MaxTime, MaxHooks, MaxFails  \* bounds

ASSUME LeaseAssumption ==
  /\ Grants \subseteq Nat /\ Requested \in Nat \ {0} /\ MinRenew \in Nat \ {0}
  /\ MaxTime \in Nat /\ MaxHooks \in Nat /\ MaxFails \in Nat

VARIABLES
  now,
  expiry,    \* when the registration lapses at the node; 0 before the first
  lease,     \* history: the lease it was last refreshed for
  granted,   \* k.granted; 0 when nothing was granted yet
  hookLease, \* the answer Hook has not stored yet: a lease, NoBody or NoAnswer
  hooks,     \* runs of Hook so far
  loops,     \* renewal loops running
  renewAt,        \* when the loop's timer fires
  longest,   \* history: the longest lease its timers were armed for since it last renewed
  answer,    \* the answer the loop has not stored yet
  loop,      \* "off", "sleeps", "stores" or "over"
  fails,     \* renewals that have failed in a row
  leaseCtxDone

leaseVars == <<now, expiry, lease, granted, hookLease, hooks, loops, renewAt, longest,
               answer, loop, fails, leaseCtxDone>>

NoBody == -1
NoAnswer == -2
Answers == Grants \union {NoBody, NoAnswer}

LeaseTypeOK ==
  /\ now \in 0..MaxTime /\ expiry \in Nat /\ lease \in Grants \union {0}
  /\ granted \in Grants \union {0}
  /\ hookLease \in Answers /\ hooks \in 0..MaxHooks /\ loops \in 0..1
  /\ renewAt \in Nat /\ longest \in Nat
  /\ answer \in Answers /\ loop \in {"off", "sleeps", "stores", "over"}
  /\ fails \in 0..MaxFails /\ leaseCtxDone \in BOOLEAN

LeaseInit ==
  /\ now = 0 /\ expiry = 0 /\ lease = 0 /\ granted = 0 /\ hookLease = NoAnswer /\ hooks = 0
  /\ loops = 0 /\ renewAt = 0 /\ longest = 0 /\ answer = NoAnswer /\ loop = "off" /\ fails = 0 /\ leaseCtxDone = FALSE

-----------------------------------------------------------------------------
LeaseOr(g) == IF g > 0 THEN g ELSE Requested

\* register: the node refreshes the entry for the lease it grants and answers with
\* that lease or without a body.
NodeGrants(reply) ==
  /\ \E g \in Grants : lease' = g /\ expiry' = now + g /\ reply \in {g, NoBody}
  /\ fails' = 0

Store(g) == granted' = IF g = NoBody THEN granted ELSE g

FloorLow(d) == d \div 3 + 1

Floor(d) == IF d \div 3 > MinRenew THEN d \div 3 ELSE MinRenew

\* run arms its timer with interval(), a third of the lease last granted.
Arm(since) ==
  LET interval == Floor(LeaseOr(granted'))
  IN  /\ renewAt' = now + interval
      /\ longest' = IF LeaseOr(granted') > since THEN LeaseOr(granted') ELSE since

HookRegisters ==
  /\ hookLease = NoAnswer /\ hooks < MaxHooks /\ ~leaseCtxDone
  /\ hooks' = hooks + 1
  /\ \/ \E reply \in Answers : hookLease' = reply /\ NodeGrants(reply)
     \/ UNCHANGED <<hookLease, expiry, lease, fails>>     \* the reconnect is aborted
  /\ UNCHANGED <<now, granted, loops, renewAt, longest, answer, loop, leaseCtxDone>>

once == loop = "off"

HookReturns ==
  /\ hookLease # NoAnswer
  /\ Store(hookLease) /\ hookLease' = NoAnswer
  /\ IF once THEN loops' = loops + 1 /\ loop' = "sleeps" /\ Arm(0)
             ELSE UNCHANGED <<loops, loop, renewAt, longest>>
  /\ UNCHANGED <<now, expiry, lease, hooks, answer, fails, leaseCtxDone>>

\* The renewal fails, and the loop arms its timer again, or the node answers.
TimerFires ==
  /\ loop = "sleeps" /\ now = renewAt
  /\ \/ /\ fails < MaxFails \/ leaseCtxDone
        /\ fails' = IF leaseCtxDone THEN fails ELSE fails + 1
        /\ UNCHANGED <<expiry, lease, granted, answer, loop>> /\ Arm(longest)
     \/ /\ ~leaseCtxDone /\ \E reply \in Answers : answer' = reply /\ NodeGrants(reply)
        /\ loop' = "stores"
        /\ UNCHANGED <<granted, renewAt, longest>>
  /\ UNCHANGED <<now, hookLease, hooks, loops, leaseCtxDone>>

Renewed ==
  /\ loop = "stores"
  /\ Store(answer) /\ answer' = NoAnswer
  /\ loop' = "sleeps" /\ Arm(0)
  /\ UNCHANGED <<now, expiry, lease, hookLease, hooks, loops, fails, leaseCtxDone>>

Stop == leaseCtxDone

LoopEnds ==
  /\ loop = "sleeps" /\ Stop
  /\ loop' = "over" /\ loops' = loops - 1
  /\ UNCHANGED <<now, expiry, lease, granted, hookLease, hooks, renewAt, longest, answer, fails, leaseCtxDone>>

CtxEnds ==
  /\ ~leaseCtxDone /\ leaseCtxDone' = TRUE
  /\ UNCHANGED <<now, expiry, lease, granted, hookLease, hooks, loops, renewAt, longest, answer, loop, fails>>

\* The clock: a call in progress returns, and a timer fires, before it goes on.
Tick ==
  /\ now < MaxTime /\ hookLease = NoAnswer /\ loop # "stores"
  /\ loop = "sleeps" => now < renewAt
  /\ now' = now + 1
  /\ UNCHANGED <<expiry, lease, granted, hookLease, hooks, loops, renewAt, longest, answer, loop, fails, leaseCtxDone>>

LeaseNext ==
  \/ HookRegisters \/ HookReturns \/ TimerFires \/ Renewed \/ LoopEnds \/ CtxEnds \/ Tick

\* A call in progress returns, and a loop whose context has ended notices.
LeaseFairness == WF_leaseVars(LoopEnds) /\ WF_leaseVars(Renewed) /\ WF_leaseVars(HookReturns)

LeaseSpec == LeaseInit /\ [][LeaseNext]_leaseVars /\ LeaseFairness

-----------------------------------------------------------------------------
Registered == loop \in {"sleeps", "stores"} /\ ~leaseCtxDone

\* Renewing at a third of the lease leaves room for two consecutive failures before the
\* registration lapses, whatever the node grants and however Hook and the loop overlap,
\* as long as the lease is not below three times the floor and not shorter than one
\* that a timer still running was armed for (Hook was granted less, or the answer that
\* shortened it had no body).
RoomForTwo ==
  Registered /\ fails <= 2 /\ longest <= lease /\ 3 * MinRenew <= lease => now <= expiry

\* The loop ends with the registrar's context.
RenewalStops == leaseCtxDone /\ loop \in {"sleeps", "stores"} ~> loop = "over"

\* The renewal loop keeps a registration alive through two failed renewals in a row,
\* also when the node changes the lease it grants.
LeaseCorrect == LeaseTypeOK /\ RoomForTwo
=============================================================================
