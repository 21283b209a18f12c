----------------------------- MODULE AsyncWriter -----------------------------
(***************************************************************************)
(* streams.AsyncWriter: writes are queued in memory and a flusher goroutine*)
(* writes them to the output.  Everything but three steps of the flusher   *)
(* runs under the condition variable's lock: it stores a write error,      *)
(* closes done and makes its last Broadcast without it.  Chunk i is the    *)
(* i-th accepted write; the queue holds the chunks from `outHead` on.      *)
(***************************************************************************)
EXTENDS Integers, Sequences, Functions, FiniteSets

CONSTANTS Syncers,    \* goroutines that call Sync
          Flusher,    \* the flusher goroutine
          Unheld,       \* the lock's owner when nobody holds it
          Sizes,      \* the lengths of the slices written
          Buffers,    \* the buffer sizes
          MaxWrites   \* bound: accepted writes

ASSUME WriterAssumption ==
  /\ Flusher \notin Syncers /\ Unheld \notin Syncers \cup {Flusher}
  /\ Sizes \subseteq Nat /\ Buffers \subseteq Nat /\ MaxWrites \in Nat

VARIABLES
  accepted,   \* the length of each accepted chunk
  sent,       \* how many of its bytes the output has taken
  outHead,       \* chunks[0]; everything before it was dequeued
  used, bufferSize, writeErr, closed, done,
  ceiling,    \* history: the largest buffer size since the queue was last empty
  outClosed,  \* the output was closed
  flusher,    \* where the flusher is
  sync,       \* where each Sync call is
  mark,       \* history: how many chunks had been accepted when it was called
  lock,       \* who holds cond.L between two steps
  waiting     \* who is in cond.Wait

writerVars == <<accepted, sent, outHead, used, bufferSize, ceiling, writeErr, closed, done, outClosed, flusher, sync, mark, lock, waiting>>
queue == <<accepted, sent, outHead, used, bufferSize, ceiling>>
flags == <<writeErr, closed, done, outClosed>>

WriterTypeOK ==
  /\ accepted \in Seq(Sizes)
  /\ sent \in Seq(Nat) /\ Len(sent) = Len(accepted)
  /\ outHead \in 1..(Len(accepted) + 1)
  /\ used \in Nat /\ bufferSize \in Buffers /\ ceiling \in Buffers
  /\ writeErr \in BOOLEAN /\ closed \in BOOLEAN /\ done \in BOOLEAN /\ outClosed \in BOOLEAN
  /\ flusher \in {"lock", "write", "dequeue", "wait", "close", "finish", "wake", "end"}
  /\ sync \in [Syncers -> {"idle", "lock", "register", "wait", "ok", "failed"}]
  /\ mark \in [Syncers -> Nat]
  /\ lock \in Syncers \cup {Unheld}
  /\ waiting \subseteq Syncers \cup {Flusher}

WriterInit ==
  /\ accepted = <<>> /\ sent = <<>> /\ outHead = 1
  /\ used = 0 /\ bufferSize \in Buffers /\ ceiling = bufferSize
  /\ writeErr = FALSE /\ closed = FALSE /\ done = FALSE /\ outClosed = FALSE
  /\ flusher = "lock"
  /\ sync = [s \in Syncers |-> "idle"]
  /\ mark = [s \in Syncers |-> 0]
  /\ lock = Unheld
  /\ waiting = {}

EmptyQueue == outHead > Len(accepted)

\* Everyone in Wait is woken and goes for the lock again.
Broadcast ==
  /\ waiting' = {}
  /\ sync' = [s \in Syncers |-> IF s \in waiting THEN "lock" ELSE sync[s]]

\* Where a Broadcast by somebody else leaves the flusher.
FlusherWoken == IF Flusher \in waiting THEN "lock" ELSE flusher

-----------------------------------------------------------------------------
(* Write, Close, SetBufferSize and Sync. *)

\* The room left is negative when the buffer was made smaller than what is queued; it
\* then refuses the empty write too.
Room(n) == n <= bufferSize - used

\* A Write that is refused (error, closed, no room) changes nothing.
Write(n) ==
  /\ lock = Unheld /\ Len(accepted) < MaxWrites
  /\ ~writeErr /\ ~closed /\ Room(n)
  /\ accepted' = Append(accepted, n)
  /\ sent' = Append(sent, 0)
  /\ used' = used + n
  /\ Broadcast
  /\ flusher' = FlusherWoken
  /\ UNCHANGED <<outHead, bufferSize, ceiling, mark, lock>> /\ UNCHANGED flags

Close ==
  /\ lock = Unheld /\ ~closed
  /\ closed' = TRUE
  /\ Broadcast
  /\ flusher' = FlusherWoken
  /\ UNCHANGED <<writeErr, done, outClosed, mark, lock>> /\ UNCHANGED queue

SetBufferSize(n) ==
  /\ lock = Unheld /\ bufferSize # n
  /\ bufferSize' = n
  /\ ceiling' = IF EmptyQueue \/ n > ceiling THEN n ELSE ceiling
  /\ UNCHANGED <<accepted, sent, outHead, used, flusher, sync, mark, lock, waiting>> /\ UNCHANGED flags

Sync(s) ==
  /\ sync[s] = "idle"
  /\ sync' = [sync EXCEPT ![s] = "lock"]
  /\ mark' = [mark EXCEPT ![s] = Len(accepted)]
  /\ UNCHANGED <<flusher, lock, waiting>> /\ UNCHANGED queue /\ UNCHANGED flags

\* Sync looks at the error and the queue, and with neither holds the lock until
\* Wait has put it on the list.
SyncChecks(s) ==
  /\ sync[s] = "lock" /\ lock = Unheld
  /\ sync' = [sync EXCEPT ![s] = IF writeErr THEN "failed" ELSE IF EmptyQueue THEN "ok" ELSE "register"]
  /\ lock' = IF writeErr \/ EmptyQueue THEN Unheld ELSE s
  /\ UNCHANGED <<flusher, mark, waiting>> /\ UNCHANGED queue /\ UNCHANGED flags

SyncWaits(s) ==
  /\ sync[s] = "register"
  /\ sync' = [sync EXCEPT ![s] = "wait"]
  /\ waiting' = waiting \cup {s}
  /\ lock' = Unheld
  /\ UNCHANGED <<flusher, mark>> /\ UNCHANGED queue /\ UNCHANGED flags

-----------------------------------------------------------------------------
(* The flusher. *)

\* With the lock: take the first chunk, leave when closed, or wait.
FlusherClosesFirst ==
  /\ flusher = "lock" /\ lock = Unheld
  /\ flusher' = IF closed THEN "close" ELSE IF ~EmptyQueue THEN "write" ELSE "wait"
  /\ waiting' = IF EmptyQueue /\ ~closed THEN waiting \cup {Flusher} ELSE waiting
  /\ UNCHANGED <<sync, mark, lock>> /\ UNCHANGED queue /\ UNCHANGED flags

FlusherChecks ==
  /\ flusher = "lock" /\ lock = Unheld
  /\ flusher' = IF ~EmptyQueue THEN "write" ELSE IF closed THEN "close" ELSE "wait"
  /\ waiting' = IF EmptyQueue /\ ~closed THEN waiting \cup {Flusher} ELSE waiting
  /\ UNCHANGED <<sync, mark, lock>> /\ UNCHANGED queue /\ UNCHANGED flags

\* Writer() takes the lock for a moment; the output takes some of the bytes.
Chunk == outHead

FlusherWrites ==
  /\ flusher = "write" /\ lock = Unheld
  /\ sent[Chunk] < accepted[Chunk]
  /\ \E n \in 1..(accepted[Chunk] - sent[Chunk]) : sent' = [sent EXCEPT ![Chunk] = @ + n]
  /\ UNCHANGED <<accepted, outHead, used, bufferSize, ceiling, flusher, sync, mark, lock, waiting>> /\ UNCHANGED flags

FlusherWrote ==
  /\ flusher = "write" /\ sent[Chunk] = accepted[Chunk]
  /\ flusher' = "dequeue"
  /\ UNCHANGED <<sync, mark, lock, waiting>> /\ UNCHANGED queue /\ UNCHANGED flags

\* writeErr is set without the lock.
FlusherFails ==
  /\ flusher = "write" /\ sent[Chunk] < accepted[Chunk]
  /\ writeErr' = TRUE
  /\ flusher' = "close"
  /\ UNCHANGED <<closed, done, outClosed, sync, mark, lock, waiting>> /\ UNCHANGED queue

Dequeue ==
  /\ flusher = "dequeue" /\ lock = Unheld
  /\ outHead' = outHead + 1
  /\ used' = used - accepted[outHead]
  /\ ceiling' = IF outHead = Len(accepted) THEN bufferSize ELSE ceiling
  /\ Broadcast
  /\ flusher' = "lock"
  /\ UNCHANGED <<accepted, sent, bufferSize, mark, lock>> /\ UNCHANGED flags

\* The deferred function: Writer() under the lock, then Close, close(done) and a
\* Broadcast without it.
CloseOutputUnlocked ==
  /\ flusher = "close"
  /\ outClosed' = TRUE
  /\ flusher' = "finish"
  /\ UNCHANGED <<writeErr, closed, done, sync, mark, lock, waiting>> /\ UNCHANGED queue

CloseOutput ==
  /\ flusher = "close" /\ lock = Unheld
  /\ outClosed' = TRUE
  /\ flusher' = "finish"
  /\ UNCHANGED <<writeErr, closed, done, sync, mark, lock, waiting>> /\ UNCHANGED queue

CloseDone ==
  /\ flusher = "finish"
  /\ done' = TRUE
  /\ flusher' = "wake"
  /\ UNCHANGED <<writeErr, closed, outClosed, sync, mark, lock, waiting>> /\ UNCHANGED queue

LastBroadcast ==
  /\ flusher = "wake"
  /\ Broadcast
  /\ flusher' = "end"
  /\ UNCHANGED <<mark, lock>> /\ UNCHANGED queue /\ UNCHANGED flags

FlusherStep ==
  FlusherChecks \/ FlusherWrites \/ FlusherWrote \/ FlusherFails \/ Dequeue
  \/ CloseOutput \/ CloseDone \/ LastBroadcast

WriterNext ==
  \/ FlusherStep \/ Close
  \/ \E n \in Sizes : Write(n)
  \/ \E n \in Buffers : SetBufferSize(n)
  \/ \E s \in Syncers : Sync(s) \/ SyncChecks(s) \/ SyncWaits(s)

\* The output takes or refuses what it is given, and goroutines that can run do.
\* A lock others keep taking is granted in the end: sync.Mutex hands it over.
WriterFairness ==
  /\ SF_writerVars(FlusherStep)
  /\ \A s \in Syncers : SF_writerVars(SyncChecks(s)) /\ WF_writerVars(SyncWaits(s))

WriterSpec == WriterInit /\ [][WriterNext]_writerVars /\ WriterFairness

-----------------------------------------------------------------------------
(* Properties. *)

\* The output gets the bytes of the accepted writes in their order, none twice:
\* nothing of a chunk is sent before all of the chunks accepted before it.
SentInOrder ==
  \A i \in 1..Len(accepted) :
    /\ sent[i] <= accepted[i]
    /\ sent[i] > 0 => \A j \in 1..(i - 1) : sent[j] = accepted[j]

\* used is the size of what is queued, through every interleaving of Write with the flusher.
UsedIsQueued == used = SumFunctionOnSet(accepted, outHead..Len(accepted))

\* Memory is bounded by the configuration through every change of it: what is queued is at
\* most the largest buffer size in force since the queue was last empty, although the size
\* may by now be below what is queued.
WithinLimit == used <= ceiling

\* A flusher that ended without an error has written everything that was accepted.
DoneMeansWritten == done /\ ~writeErr => \A i \in 1..Len(accepted) : sent[i] = accepted[i]

\* Sync returns nil only when every write accepted before it was called reached the output.
SyncMeansWritten == \A s \in Syncers : sync[s] = "ok" => \A i \in 1..mark[s] : sent[i] = accepted[i]

\* Sync returns once the buffer is empty or a write error has occurred, although
\* the error is stored and announced without the lock.
SyncReturns == \A s \in Syncers : sync[s] = "lock" ~> sync[s] \in {"ok", "failed"}

\* Close ends the flusher, after the queue was drained or an error.
CloseFinishes == closed ~> done

\* A buffer made smaller than what is queued gets within its size again, unless the output
\* fails: while it is overfull no Write, an empty one included, keeps it so.
OverfullDrains == used > bufferSize ~> used <= bufferSize \/ writeErr

\* Accepted bytes leave once, in order and all of them before the writer is done; the
\* accounting is exact and within the configured size; a Sync that succeeds has seen its
\* bytes written.
WriterCorrect ==
  WriterTypeOK /\ SentInOrder /\ UsedIsQueued /\ WithinLimit /\ DoneMeansWritten /\ SyncMeansWritten

\* Sync returns, Close finishes and an overfull buffer drains, whatever the output does.
WriterProgress == SyncReturns /\ CloseFinishes /\ OverfullDrains
=============================================================================
