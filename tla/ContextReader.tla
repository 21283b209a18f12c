---------------------------- MODULE ContextReader ----------------------------
(***************************************************************************)
(* streams.ContextReader: ReadContext stops waiting when its context ends, *)
(* while the goroutine that reads goes on and leaves its data in a buffer  *)
(* for a later call.  A section under the mutex is one step.  Reader       *)
(* goroutines, and the channel each closes at its end, are numbered in the *)
(* order in which they start; r.ch is the number of the one running, or 0. *)
(***************************************************************************)
EXTENDS Naturals, Sequences, FiniteSets

CONSTANTS Callers,   \* goroutines that call ReadContext
          Length,    \* bytes the underlying reader has before it fails
          MaxRead,   \* most bytes a Read returns
          MaxReads,  \* bound: reader goroutines started
          MaxCalls   \* bound: calls of each caller

\* A Read returns a byte or the error, so the bound on the readers cuts nothing off.
ASSUME ReaderAssumption ==
  /\ Length \in Nat /\ MaxRead \in Nat \ {0} /\ MaxCalls \in Nat
  /\ MaxReads \in Nat /\ MaxReads > Length

VARIABLES
  buf, err, ch,
  readers,    \* state of each reader: "reading", "finishing" (ch not closed yet) or "closed"
  taken,      \* bytes the underlying reader has handed out
  caller,     \* each caller: "idle", "lock" or "select"
  waitsOn,    \* the channel a caller in its select copied
  canceled,   \* the contexts of the calls in progress that have ended
  calls,
  delivered,  \* history: the bytes returned, in the order of the returns
  failedAt    \* history: bytes delivered when a caller was first told of the error

readerVars == <<buf, err, ch, readers, taken, caller, waitsOn, canceled, calls, delivered, failedAt>>

Bytes == 1..Length
Never == Length + 1

ReaderTypeOK ==
  /\ buf \in Seq(Bytes) /\ err \in BOOLEAN /\ ch \in 0..MaxReads
  /\ readers \in Seq({"reading", "finishing", "closed"})
  /\ taken \in 0..Length
  /\ caller \in [Callers -> {"idle", "lock", "select"}]
  /\ waitsOn \in [Callers -> 0..MaxReads]
  /\ canceled \subseteq Callers
  /\ calls \in [Callers -> 0..MaxCalls]
  /\ delivered \in Seq(Bytes) /\ failedAt \in 0..Never

ReaderInit ==
  /\ buf = << >> /\ err = FALSE /\ ch = 0
  /\ readers = << >> /\ taken = 0
  /\ caller = [c \in Callers |-> "idle"]
  /\ waitsOn = [c \in Callers |-> 0]
  /\ canceled = {} /\ calls = [c \in Callers |-> 0]
  /\ delivered = << >> /\ failedAt = Never

From(i, n) == [k \in 1..n |-> i + k]

-----------------------------------------------------------------------------
Call(c) ==
  /\ caller[c] = "idle" /\ calls[c] < MaxCalls
  /\ caller' = [caller EXCEPT ![c] = "lock"]
  /\ calls' = [calls EXCEPT ![c] = @ + 1]
  /\ UNCHANGED <<buf, err, ch, readers, taken, waitsOn, canceled, delivered, failedAt>>

Cancel(c) ==
  /\ caller[c] # "idle" /\ c \notin canceled
  /\ canceled' = canceled \cup {c}
  /\ UNCHANGED <<buf, err, ch, readers, taken, caller, waitsOn, calls, delivered, failedAt>>

ReturnRead(c) ==
  /\ caller' = [caller EXCEPT ![c] = "idle"]
  /\ waitsOn' = [waitsOn EXCEPT ![c] = 0]
  /\ canceled' = canceled \ {c}

\* The buffer is served first; p may be shorter than it.
Serve(c) ==
  /\ caller[c] = "lock" /\ buf # << >>
  /\ \E n \in 1..Len(buf) :
       /\ delivered' = delivered \o SubSeq(buf, 1, n)
       /\ buf' = SubSeq(buf, n + 1, Len(buf))
  /\ ReturnRead(c)
  /\ UNCHANGED <<err, ch, readers, taken, calls, failedAt>>

ErrorIsNext == buf = << >> /\ err

Fail(c) ==
  /\ caller[c] = "lock" /\ ErrorIsNext
  /\ failedAt' = IF Len(delivered) < failedAt THEN Len(delivered) ELSE failedAt
  /\ ReturnRead(c)
  /\ UNCHANGED <<buf, err, ch, readers, taken, calls, delivered>>

AlwaysStart == TRUE

NoReader == ch = 0

\* With nothing to return, make sure that a reader runs and wait for it.
Wait(c) ==
  /\ caller[c] = "lock" /\ buf = << >> /\ ~err
  /\ IF NoReader
       THEN /\ Len(readers) < MaxReads
            /\ readers' = Append(readers, "reading")
            /\ ch' = Len(readers) + 1
       ELSE UNCHANGED <<readers, ch>>
  /\ waitsOn' = [waitsOn EXCEPT ![c] = ch']
  /\ caller' = [caller EXCEPT ![c] = "select"]
  /\ UNCHANGED <<buf, err, taken, canceled, calls, delivered, failedAt>>

\* select: the reader is done and the loop goes round, or the context has ended.
ReaderDone(c) ==
  /\ caller[c] = "select" /\ readers[waitsOn[c]] = "closed"
  /\ caller' = [caller EXCEPT ![c] = "lock"]
  /\ UNCHANGED <<buf, err, ch, readers, taken, waitsOn, canceled, calls, delivered, failedAt>>

GiveUp(c) ==
  /\ caller[c] = "select" /\ c \in canceled
  /\ ReturnRead(c)
  /\ UNCHANGED <<buf, err, ch, readers, taken, calls, delivered, failedAt>>

-----------------------------------------------------------------------------
Keep(n) == buf \o From(taken, n)

\* The underlying Read returns n bytes (perhaps with the error, once there are no
\* more), and its result is stored under the lock.
ReadReturns(i) ==
  /\ readers[i] = "reading"
  /\ \E n \in 0..MaxRead :
       /\ taken + n <= Length
       /\ err' \in IF taken + n = Length THEN BOOLEAN ELSE {FALSE}
       /\ n > 0 \/ err'
       /\ buf' = Keep(n)
       /\ taken' = taken + n
  /\ ch' = 0
  /\ readers' = [readers EXCEPT ![i] = "finishing"]
  /\ UNCHANGED <<caller, waitsOn, canceled, calls, delivered, failedAt>>

\* The deferred close runs after the deferred Unlock: another reader may have started.
CloseChannel(i) ==
  /\ readers[i] = "finishing"
  /\ readers' = [readers EXCEPT ![i] = "closed"]
  /\ UNCHANGED <<buf, err, ch, taken, caller, waitsOn, canceled, calls, delivered, failedAt>>

CallerStep(c) == Serve(c) \/ Fail(c) \/ Wait(c) \/ ReaderDone(c) \/ GiveUp(c)

ReaderNext ==
  \/ \E c \in Callers : Call(c) \/ Cancel(c) \/ CallerStep(c)
  \/ \E i \in DOMAIN readers : ReadReturns(i) \/ CloseChannel(i)

\* Goroutines run; the underlying Read need never return.
ReaderFairness ==
  /\ \A c \in Callers : WF_readerVars(CallerStep(c))
  /\ \A i \in 1..MaxReads : WF_readerVars(i \in DOMAIN readers /\ CloseChannel(i))

ReaderSpec == ReaderInit /\ [][ReaderNext]_readerVars /\ ReaderFairness

-----------------------------------------------------------------------------
\* No byte is lost, repeated or reordered, however the calls are canceled: what
\* was returned, followed by what is buffered, is what was read.
NothingLost == delivered \o buf = From(0, taken)

\* A caller is told of the read error only when all the data before it has been returned.
ErrorAfterData == failedAt # Never => failedAt = Length

\* The underlying reader, which need not be safe for concurrent use, is in one Read at a time.
OneRead == Cardinality({i \in DOMAIN readers : readers[i] = "reading"}) <= 1

\* A call whose context ends comes back, though the Read it started may never return.
CanceledReturns == \A c \in Callers : c \in canceled ~> c \notin canceled

\* A caller waiting for a reader that has finished looks at the buffer again or
\* returns; a canceled reader before it takes nothing away from it.
FinishedIsNoticed ==
  \A c \in Callers : caller[c] = "select" /\ readers[waitsOn[c]] # "reading"
                       ~> caller[c] # "select" \/ readers[waitsOn[c]] = "reading"

\* No byte is lost by a canceled ReadContext, the error comes after the data, and the
\* underlying reader is never entered twice.
ReaderCorrect == ReaderTypeOK /\ NothingLost /\ ErrorAfterData /\ OneRead

\* A canceled call returns, and a finished reader wakes everyone who waits for it.
ReaderProgress == CanceledReturns /\ FinishedIsNoticed
=============================================================================
