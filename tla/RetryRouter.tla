----------------------------- MODULE RetryRouter -----------------------------
(***************************************************************************)
(* lib/astrald: RetryRouter.RouteQuery, called by several goroutines that  *)
(* share its Retry (RetryBind in lib/apps is the same loop).  A query is   *)
(* tried, retried after each tick while the node is unavailable, and gives *)
(* up at maxAttempts or when its context ends; a success resets the Retry. *)
(*                                                                         *)
(* sig.Retry is exponential backoff.  Retry starts one timer goroutine     *)
(* unless one is running and hands every caller the same unbuffered        *)
(* channel; when the timer fires the goroutine offers one tick, which is   *)
(* lost when no caller is receiving.  Each operation runs under Retry.mu.  *)
(***************************************************************************)
EXTENDS Naturals, FiniteSets

CONSTANTS Callers,    \* the goroutines that share the Retry
          MinDelay, MaxDelay, Factor

ASSUME RetryAssumption ==
  /\ MinDelay \in Nat \ {0} /\ MaxDelay \in Nat \ {0} /\ MinDelay <= MaxDelay
  /\ Factor \in Nat \ {0}

VARIABLES
  retryCount, nextDelay, running,
  timer,      \* "idle", "armed", "fired" or "stopped"
  clocks,     \* how many timer goroutines wait for the timer
  waiting     \* the callers receiving from retryChan

clockVars == <<retryCount, nextDelay, running, timer, clocks, waiting>>

RetryTypeOK ==
  /\ retryCount \in Nat
  /\ nextDelay \in MinDelay..MaxDelay
  /\ running \in BOOLEAN
  /\ timer \in {"idle", "armed", "fired", "stopped"}
  /\ clocks \in Nat
  /\ waiting \subseteq Callers

RetryInit ==
  /\ retryCount = 0
  /\ nextDelay = MinDelay
  /\ running = FALSE
  /\ timer = "idle"
  /\ clocks = 0
  /\ waiting = {}

\* Retry, and the receive on the channel it returns: every caller selects on it at
\* once, and the delay is long against that step.
RetryUnguarded(c) ==
  /\ waiting' = waiting \cup {c}
  /\ running' = TRUE /\ timer' = "armed" /\ clocks' = clocks + 1
  /\ UNCHANGED <<retryCount, nextDelay>>

DoRetry(c) ==
  /\ waiting' = waiting \cup {c}
  /\ IF running
       THEN UNCHANGED <<running, timer, clocks>>
       ELSE running' = TRUE /\ timer' = "armed" /\ clocks' = clocks + 1
  /\ UNCHANGED <<retryCount, nextDelay>>

TimerFires ==
  /\ timer = "armed"
  /\ timer' = "fired"
  /\ UNCHANGED <<retryCount, nextDelay, running, clocks, waiting>>

Grown(d) == IF d * Factor < MaxDelay THEN d * Factor ELSE MaxDelay

\* The goroutine takes the timer's tick: trigger sends it to one receiving caller,
\* counting it, or drops it.
TickTo(c) ==
  /\ timer = "fired" /\ clocks > 0
  /\ c \in waiting
  /\ waiting' = waiting \ {c}
  /\ retryCount' = retryCount + 1
  /\ nextDelay' = Grown(nextDelay)
  /\ timer' = "idle" /\ clocks' = clocks - 1 /\ running' = FALSE

TickLost ==
  /\ timer = "fired" /\ clocks > 0
  /\ waiting = {}
  /\ timer' = "idle" /\ clocks' = clocks - 1 /\ running' = FALSE
  /\ UNCHANGED <<retryCount, nextDelay, waiting>>

\* Stop leaves no tick behind it, unless the goroutine has already taken it, and
\* nothing tells a goroutine that goes on waiting.
Reset ==
  /\ nextDelay' = MinDelay
  /\ retryCount' = 0
  /\ \/ timer \in {"armed", "fired"} /\ timer' = "stopped"
     \/ timer # "armed" /\ UNCHANGED timer
  /\ UNCHANGED <<running, clocks, waiting>>

-----------------------------------------------------------------------------
(* RetryRouter on top of it.                                               *)

CONSTANTS MaxAttempts,   \* RetryRouter.maxAttempts, 0 for unlimited
          MaxQueries     \* bound: queries routed by one caller

ASSUME RouterAssumption == MaxAttempts \in Nat /\ MaxQueries \in Nat

VARIABLES
  state,     \* each caller: "idle", "trying" or "waiting"
  attempt,   \* its loop variable
  tries,     \* history: how often its present query reached the inner router
  queries,   \* how many queries it has routed
  nodeUp     \* the node is available for good

routesVars == <<clockVars, state, attempt, tries, queries, nodeUp>>

RoutesTypeOK ==
  /\ RetryTypeOK
  /\ state \in [Callers -> {"idle", "trying", "waiting"}]
  /\ attempt \in [Callers -> Nat]
  /\ tries \in [Callers -> Nat]
  /\ queries \in [Callers -> 0..MaxQueries]
  /\ nodeUp \in BOOLEAN

RoutesInit ==
  /\ RetryInit
  /\ state = [c \in Callers |-> "idle"]
  /\ attempt = [c \in Callers |-> 0]
  /\ tries = [c \in Callers |-> 0]
  /\ queries = [c \in Callers |-> 0]
  /\ nodeUp = FALSE

RetryRouteQuery(c) ==
  /\ state[c] = "idle" /\ queries[c] < MaxQueries
  /\ state' = [state EXCEPT ![c] = "trying"]
  /\ attempt' = [attempt EXCEPT ![c] = 0]
  /\ tries' = [tries EXCEPT ![c] = 1]
  /\ queries' = [queries EXCEPT ![c] = @ + 1]
  /\ UNCHANGED nodeUp /\ UNCHANGED clockVars

RetryReturn(c) == state' = [state EXCEPT ![c] = "idle"] /\ UNCHANGED <<attempt, tries, queries, nodeUp>>

Succeeds(c) == state[c] = "trying" /\ Reset /\ RetryReturn(c)

\* Any error but ErrNodeUnavailable is returned at once.
Fails(c) == state[c] = "trying" /\ RetryReturn(c) /\ UNCHANGED clockVars

LastAttempt(c) == MaxAttempts > 0 /\ attempt[c] + 1 >= MaxAttempts

Unavailable(c) ==
  /\ state[c] = "trying" /\ ~nodeUp
  /\ IF LastAttempt(c)
       THEN RetryReturn(c) /\ UNCHANGED clockVars
       ELSE /\ state' = [state EXCEPT ![c] = "waiting"]
            /\ DoRetry(c)
            /\ UNCHANGED <<attempt, tries, queries, nodeUp>>

Ticks(c) ==
  /\ TickTo(c)
  /\ state' = [state EXCEPT ![c] = "trying"]
  /\ attempt' = [attempt EXCEPT ![c] = @ + 1]
  /\ tries' = [tries EXCEPT ![c] = @ + 1]
  /\ UNCHANGED <<queries, nodeUp>>

Canceled(c) ==
  /\ state[c] = "waiting"
  /\ waiting' = waiting \ {c}
  /\ RetryReturn(c)
  /\ UNCHANGED <<retryCount, nextDelay, running, timer, clocks>>

Clock == (TimerFires \/ TickLost) /\ UNCHANGED <<state, attempt, tries, queries, nodeUp>>

NodeComesBack ==
  /\ ~nodeUp /\ nodeUp' = TRUE
  /\ UNCHANGED <<state, attempt, tries, queries>> /\ UNCHANGED clockVars

RoutesNext ==
  \/ Clock \/ NodeComesBack
  \/ \E c \in Callers :
       RetryRouteQuery(c) \/ Succeeds(c) \/ Fails(c) \/ Unavailable(c) \/ Ticks(c) \/ Canceled(c)

\* Timers fire, the timer goroutine runs, and the inner router answers.
RoutesFairness ==
  /\ WF_routesVars(Clock) /\ WF_routesVars(\E c \in Callers : Ticks(c))
  /\ \A c \in Callers : WF_routesVars(Succeeds(c) \/ Fails(c) \/ Unavailable(c))

RoutesSpec == RoutesInit /\ [][RoutesNext]_routesVars /\ RoutesFairness

-----------------------------------------------------------------------------
\* The delay the next timer is armed with is the one the counter stands for:
\* MinDelay grown once per delivered tick since the last Reset, up to MaxDelay.
DelayOf[n \in Nat] == IF n = 0 THEN MinDelay ELSE Grown(DelayOf[n - 1])
DelayMatchesCount == nextDelay = DelayOf[retryCount]

\* There is never a second timer goroutine: whoever calls Retry joins the running clock.
OneClock == clocks <= 1

\* A running clock is one that will tick: Reset restarts the sequence.
RunningClockTicks == running => timer \in {"armed", "fired"}

\* A query reaches the inner router at most maxAttempts times.
AttemptsBounded == MaxAttempts > 0 => \A c \in Callers : tries[c] <= MaxAttempts

\* The queries that share a Retry start one clock between them, its delay follows its
\* count, and no query is tried more often than maxAttempts.
RetryCorrect == RoutesTypeOK /\ DelayMatchesCount /\ OneClock /\ AttemptsBounded
=============================================================================
