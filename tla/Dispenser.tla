------------------------------ MODULE Dispenser ------------------------------
(***************************************************************************)
(* streams.Dispenser: writers pass at most `limit` bytes to the output and *)
(* wait for the limit to grow.  Every method holds the lock of the         *)
(* condition variable from its first to its last line, except in Wait; one *)
(* round of Write's loop is one step.                                      *)
(***************************************************************************)
EXTENDS Integers

CONSTANTS Writers,        \* goroutines that call Write
          Flushers,       \* goroutines that call Flush
          Pieces,         \* the lengths written and the increments of the limit
          MaxGranted,     \* bound: the sum of the increments
          MaxOutputs      \* bound: Write calls per writer

ASSUME DispenserAssumption ==
  /\ Writers \cap Flushers = {} /\ Pieces \subseteq Nat \ {0}
  /\ MaxGranted \in Nat /\ MaxOutputs \in Nat

VARIABLES
  limit, unlimited, shut,
  todo,      \* bytes each writer's call has still to write
  writer,    \* each writer: "idle", "run" or "wait"
  flushes,   \* each Flush call: "idle", "run", "wait" or "returned"
  outputs,   \* Write calls made
  granted,   \* history: the sum of the increments
  metered,   \* history: bytes the output took while the limit was obeyed
  uncharged  \* history: those of them it took in a write it reported as failed

dispenserVars == <<limit, unlimited, shut, todo, writer, flushes, outputs, granted, metered, uncharged>>

DispenserTypeOK ==
  /\ limit \in Nat /\ unlimited \in BOOLEAN /\ shut \in BOOLEAN
  /\ todo \in [Writers -> Nat]
  /\ writer \in [Writers -> {"idle", "run", "wait"}]
  /\ flushes \in [Flushers -> {"idle", "run", "wait", "returned"}]
  /\ outputs \in [Writers -> 0..MaxOutputs]
  /\ granted \in 0..MaxGranted /\ metered \in Nat /\ uncharged \in 0..metered

DispenserInit ==
  /\ limit = 0 /\ unlimited = FALSE /\ shut = FALSE
  /\ todo = [w \in Writers |-> 0]
  /\ writer = [w \in Writers |-> "idle"]
  /\ flushes = [f \in Flushers |-> "idle"]
  /\ outputs = [w \in Writers |-> 0]
  /\ granted = 0 /\ metered = 0 /\ uncharged = 0

\* Broadcast: whoever is in Wait runs again.
Wake(state) == [x \in DOMAIN state |-> IF state[x] = "wait" THEN "run" ELSE state[x]]

WakeFlushers == flushes' = Wake(flushes)

-----------------------------------------------------------------------------
\* Write starts; a closed dispenser refuses at once.
WriteMetered(w, n) ==
  /\ writer[w] = "idle" /\ outputs[w] < MaxOutputs /\ ~shut
  /\ writer' = [writer EXCEPT ![w] = "run"]
  /\ todo' = [todo EXCEPT ![w] = n]
  /\ outputs' = [outputs EXCEPT ![w] = @ + 1]
  /\ UNCHANGED <<limit, unlimited, shut, flushes, granted, metered, uncharged>>

ReturnWrite(w) ==
  /\ writer' = [writer EXCEPT ![w] = "idle"]
  /\ todo' = [todo EXCEPT ![w] = 0]

\* Unlimited, the rest goes straight to the output; closed, the call is aborted.
PassThrough(w) ==
  /\ writer[w] = "run" /\ (unlimited \/ shut)
  /\ ReturnWrite(w)
  /\ UNCHANGED <<limit, unlimited, shut, flushes, outputs, granted, metered, uncharged>>

WaitForLimit(w) ==
  /\ writer[w] = "run" /\ ~unlimited /\ ~shut /\ limit = 0
  /\ writer' = [writer EXCEPT ![w] = "wait"]
  /\ UNCHANGED <<limit, unlimited, shut, todo, flushes, outputs, granted, metered, uncharged>>

\* The largest piece the limit allows.
Piece(w) == IF todo[w] < limit THEN todo[w] ELSE limit

WriteThePiece(w) ==
  /\ writer[w] = "run" /\ ~unlimited /\ ~shut /\ limit > 0
  /\ metered' = metered + Piece(w)
  /\ todo' = [todo EXCEPT ![w] = @ - Piece(w)]
  /\ writer' = [Wake(writer) EXCEPT ![w] = IF todo[w] = Piece(w) THEN "idle" ELSE "run"]
  /\ UNCHANGED <<unlimited, shut, outputs, granted, uncharged>>

WritePieceQuietly(w) == WriteThePiece(w) /\ limit' = limit - Piece(w) /\ UNCHANGED flushes

\* The output takes the piece, the limit is charged and everybody who waits looks again.
WritePiece(w) == WriteThePiece(w) /\ limit' = limit - Piece(w) /\ WakeFlushers

\* The output fails, perhaps after taking some of the bytes: Write returns and
\* the limit is not charged for them.
OutputFails(w) ==
  /\ writer[w] = "run" /\ ~unlimited /\ ~shut /\ limit > 0
  /\ \E n \in 0..Piece(w) : metered' = metered + n /\ uncharged' = uncharged + n
  /\ ReturnWrite(w)
  /\ UNCHANGED <<limit, unlimited, shut, flushes, outputs, granted>>

-----------------------------------------------------------------------------
SetUnlimited(v) ==
  /\ unlimited # v
  /\ unlimited' = v
  /\ writer' = Wake(writer) /\ WakeFlushers
  /\ UNCHANGED <<limit, shut, todo, outputs, granted, metered, uncharged>>

Increase(i) ==
  /\ granted + i <= MaxGranted
  /\ limit' = limit + i
  /\ granted' = granted + i
  /\ writer' = Wake(writer) /\ WakeFlushers
  /\ UNCHANGED <<unlimited, shut, todo, outputs, metered, uncharged>>

CloseDispenser ==
  /\ ~shut
  /\ shut' = TRUE
  /\ writer' = Wake(writer) /\ WakeFlushers
  /\ UNCHANGED <<limit, unlimited, todo, outputs, granted, metered, uncharged>>

Flush(f) ==
  /\ flushes[f] = "idle"
  /\ flushes' = [flushes EXCEPT ![f] = "run"]
  /\ UNCHANGED <<limit, unlimited, shut, todo, writer, outputs, granted, metered, uncharged>>

FlushChecks(f) ==
  /\ flushes[f] = "run"
  /\ flushes' = [flushes EXCEPT ![f] = IF limit = 0 \/ shut THEN "returned" ELSE "wait"]
  /\ UNCHANGED <<limit, unlimited, shut, todo, writer, outputs, granted, metered, uncharged>>

WriterStep(w) == PassThrough(w) \/ WaitForLimit(w) \/ WritePiece(w) \/ OutputFails(w)

DispenserNext ==
  \/ \E w \in Writers : WriterStep(w) \/ \E n \in Pieces : WriteMetered(w, n)
  \/ \E f \in Flushers : Flush(f) \/ FlushChecks(f)
  \/ \E i \in Pieces : Increase(i)
  \/ \E v \in BOOLEAN : SetUnlimited(v)
  \/ CloseDispenser

\* Goroutines that are not waiting run; nobody has to raise the limit.
DispenserFairness ==
  /\ \A w \in Writers : WF_dispenserVars(WriterStep(w))
  /\ \A f \in Flushers : WF_dispenserVars(FlushChecks(f))

DispenserSpec == DispenserInit /\ [][DispenserNext]_dispenserVars /\ DispenserFairness

-----------------------------------------------------------------------------
\* A writer is waiting only with nothing it could do: no room, not unlimited, not closed.
WaitersHaveToWait == \A w \in Writers : writer[w] = "wait" => limit = 0 /\ ~unlimited /\ ~shut

\* Close aborts every blocked Write, and a Flush in progress returns after it.
CloseReleasesAll ==
  shut ~> (\A w \in Writers : writer[w] = "idle") /\ (\A f \in Flushers : flushes[f] \in {"idle", "returned"})

\* A Flush that is waiting is woken by whatever uses up the limit.
FlusherHasToWait == \A f \in Flushers : flushes[f] = "wait" => limit > 0 /\ ~shut

\* While it obeys the limit, the dispenser passes on the bytes it was granted and
\* keeps count of the rest; only what a failing output took comes on top.
WithinGrant == metered + limit = granted + uncharged

\* Nobody sleeps in Write or Flush who could go on, and the limit is obeyed and charged.
DispenserCorrect == DispenserTypeOK /\ WaitersHaveToWait /\ FlusherHasToWait /\ WithinGrant
=============================================================================
