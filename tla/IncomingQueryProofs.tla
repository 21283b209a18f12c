------------------------- MODULE IncomingQueryProofs -------------------------
(***************************************************************************)
(* The safety properties of IncomingQuery for any set of goroutines the op *)
(* may spawn.  The inductive invariant says who may still send: only the   *)
(* goroutine whose compare-and-swap won, and only while the slot of the    *)
(* response channel is free.                                               *)
(***************************************************************************)
EXTENDS IncomingQuery, TLAPS

Sending(a) == pc[a] \in {"store", "send"}
NobodyAccepted == \A a \in Actors : given[a] # "accepted"

WonMeansResolved == \A a \in Actors : given[a] # "none" => resolved
SendersWon == \A a \in Actors : Sending(a) => given[a] # "none" /\ (a \in Helpers => cont[a] = "run")
SlotFilledOnce == response # <<>> => resolved /\ \A a \in Actors : ~Sending(a)

\* A success still on its way, in the slot, or returned, is an accept.
SuccessIsAccept ==
  /\ \A a \in Actors : pc[a] = "store" => given[a] = "accepted" /\ code[a] = CodeSuccess
  /\ \A a \in Actors : Sending(a) /\ code[a] = CodeSuccess => a \in Workers /\ given[a] = "accepted"
  /\ response = <<CodeSuccess>> => \E a \in Workers : given[a] = "accepted"
  /\ result = <<CodeSuccess>> => \E a \in Workers : given[a] = "accepted"

\* CodeInternalError on its way, in the slot, or returned, was sent by an op that ended unanswered.
OpEnded == pc[Op] \in {"abandon", "return", "done"}
InternalIsUnanswered ==
  /\ \A a \in Actors : Sending(a) /\ code[a] = CodeInternalError =>
       a = Op /\ given[a] = "rejected" /\ cont[a] \in {"abandon", "done"}
  /\ response = <<CodeInternalError>> => OpEnded /\ NobodyAccepted
  /\ result = <<CodeInternalError>> => OpEnded /\ NobodyAccepted /\ resolved

KeptMeansAccepted == (accepted \/ reader # "none" \/ remote = "closed") => ~NobodyAccepted

IInv ==
  /\ QueryTypeOK /\ ResolvedOnce /\ WonMeansResolved /\ SendersWon /\ SlotFilledOnce
  /\ SuccessIsAccept /\ InternalIsUnanswered /\ KeptMeansAccepted

-----------------------------------------------------------------------------
USE DEF CodeSuccess, CodeRejected, CodeInvalidQuery, CodeCanceled, CodeInternalError, CodeTimeout

\* A new query satisfies the invariant: nobody has answered and the slot is empty.
LEMMA InitInvariant == QueryInit => IInv
<1> SUFFICES ASSUME QueryInit PROVE IInv
  OBVIOUS
<1> USE ActorsAssumption DEF QueryInit, Actors, Workers
<1>1. QueryTypeOK
  BY DEF QueryTypeOK, Codes
<1>2. ResolvedOnce /\ WonMeansResolved /\ SendersWon /\ SlotFilledOnce
  BY DEF ResolvedOnce, WonMeansResolved, SendersWon, SlotFilledOnce, Sending
<1>3. SuccessIsAccept /\ InternalIsUnanswered /\ KeptMeansAccepted
  BY DEF SuccessIsAccept, InternalIsUnanswered, KeptMeansAccepted, NobodyAccepted, Sending
<1> QED
  BY <1>1, <1>2, <1>3 DEF IInv

\* AcceptRaw by a goroutine that is not in the middle of an answer keeps the invariant.
LEMMA AcceptInvariant ==
  ASSUME NEW a \in Workers, NEW next \in {"run", "close"}, IInv, pc[a] \in {"bind", "run"},
         a \in Helpers => next = "run", AcceptRaw(a, next)
  PROVE  IInv'
<1> USE ActorsAssumption DEF AcceptRaw, Won, Lost, Goto, Actors, Workers, Codes
<1>1. QueryTypeOK'
  <2>1. CASE resolved
    BY <2>1 DEF IInv, QueryTypeOK
  <2>2. CASE ~resolved
    BY <2>2 DEF IInv, QueryTypeOK
  <2> QED
    BY <2>1, <2>2
<1>2. ResolvedOnce'
  BY DEF IInv, QueryTypeOK, ResolvedOnce, WonMeansResolved, Codes
<1>3. WonMeansResolved'
  BY DEF IInv, QueryTypeOK, WonMeansResolved, Codes
<1>4. SendersWon'
  BY DEF IInv, QueryTypeOK, SendersWon, Sending, Codes
<1>5. SlotFilledOnce'
  BY DEF IInv, QueryTypeOK, SlotFilledOnce, Sending, SendersWon, ResolvedOnce, Codes
<1>6. SuccessIsAccept'
  BY DEF IInv, QueryTypeOK, SuccessIsAccept, Sending, WonMeansResolved, Codes
<1>7. InternalIsUnanswered'
  BY DEF IInv, QueryTypeOK, InternalIsUnanswered, Sending, OpEnded, NobodyAccepted, ResolvedOnce, SlotFilledOnce, WonMeansResolved, Codes
<1>8. KeptMeansAccepted'
  BY DEF IInv, QueryTypeOK, KeptMeansAccepted, NobodyAccepted, WonMeansResolved, Codes
<1> QED
  BY <1>1, <1>2, <1>3, <1>4, <1>5, <1>6, <1>7, <1>8 DEF IInv

\* RejectWithCode by a goroutine that is not in the middle of an answer keeps the
\* invariant; CodeInternalError is only ever sent by an op that has ended.
LEMMA RejectInvariant ==
  ASSUME NEW a \in Actors, NEW c \in Codes, NEW next \in {"run", "return", "abandon", "done"}, IInv,
         pc[a] \in {"bind", "run", "panic", "return", "await"},
         a \in Helpers => next = "run", a = Await => next = "done",
         c = CodeInternalError => a = Op /\ next \in {"abandon", "done"},
         a = Op /\ pc[Op] = "return" => next = "done",
         result' = result \/ (resolved /\ result' \in {<<CodeCanceled>>, <<CodeTimeout>>}),
         RejectWithCode(a, c, next)
  PROVE  IInv'
<1> USE ActorsAssumption DEF RejectWithCode, NewErrRejected, Won, Lost, Goto, pipeVars, Actors, Workers, Codes
<1>1. QueryTypeOK'
  <2>1. CASE resolved
    BY <2>1 DEF IInv, QueryTypeOK
  <2>2. CASE ~resolved
    BY <2>2 DEF IInv, QueryTypeOK
  <2> QED
    BY <2>1, <2>2
<1>2. ResolvedOnce'
  BY DEF IInv, QueryTypeOK, ResolvedOnce, WonMeansResolved, Codes
<1>3. WonMeansResolved'
  BY DEF IInv, QueryTypeOK, WonMeansResolved, Codes
<1>4. SendersWon'
  BY DEF IInv, QueryTypeOK, SendersWon, Sending, Codes
<1>5. SlotFilledOnce'
  BY DEF IInv, QueryTypeOK, SlotFilledOnce, Sending, SendersWon, ResolvedOnce, Codes
<1>6. SuccessIsAccept'
  BY DEF IInv, QueryTypeOK, SuccessIsAccept, Sending, WonMeansResolved, Codes
<1>7. InternalIsUnanswered'
  BY DEF IInv, QueryTypeOK, InternalIsUnanswered, Sending, OpEnded, NobodyAccepted, ResolvedOnce, SlotFilledOnce, WonMeansResolved, Codes
<1>8. KeptMeansAccepted'
  BY DEF IInv, QueryTypeOK, KeptMeansAccepted, NobodyAccepted, WonMeansResolved, Codes
<1> QED
  BY <1>1, <1>2, <1>3, <1>4, <1>5, <1>6, <1>7, <1>8 DEF IInv

\* Every step of the op, of the goroutines it spawned and of the caller keeps the invariant.
LEMMA NextInvariant == IInv /\ [QueryNext]_queryVars => IInv'
<1> SUFFICES ASSUME IInv, [QueryNext]_queryVars PROVE IInv'
  OBVIOUS
<1> USE ActorsAssumption DEF Actors, Workers
<1>1. CASE BindArguments
  <2>1. CASE AcceptRaw(Op, "close")
    BY <1>1, <2>1, AcceptInvariant DEF BindArguments
  <2>2. CASE RejectWithCode(Op, CodeInvalidQuery, "return") /\ UNCHANGED result
    BY <1>1, <2>2, RejectInvariant DEF BindArguments, Codes
  <2>3. CASE Goto(Op, "run") /\ UNCHANGED <<resolved, cont, code, given, response, callerDone, result>> /\ UNCHANGED pipeVars
    BY <1>1, <2>3 DEF BindArguments, Goto, pipeVars, IInv, QueryTypeOK, ResolvedOnce, WonMeansResolved, SendersWon, SlotFilledOnce,
       SuccessIsAccept, InternalIsUnanswered, KeptMeansAccepted, NobodyAccepted, Sending, OpEnded
  <2> QED
    BY <1>1, <2>1, <2>2, <2>3 DEF BindArguments
<1>2. ASSUME NEW a \in Workers, OpAccept(a) PROVE IInv'
  BY <1>2, AcceptInvariant DEF OpAccept
<1>3. ASSUME NEW a \in Workers, OpReject(a) PROVE IInv'
  BY <1>3, RejectInvariant DEF OpReject, OpCodes, Codes
<1>4. CASE RejectAfterPanic
  BY <1>4, RejectInvariant DEF RejectAfterPanic, Codes
<1>5. CASE DeferredReject
  BY <1>5, RejectInvariant DEF DeferredReject, Codes
<1>6. CASE AwaitContext
  BY <1>6, RejectInvariant DEF AwaitContext, GiveUp, Codes
<1>7. CASE AwaitTimeout
  BY <1>7, RejectInvariant DEF AwaitTimeout, GiveUp, Codes
<1>8. ASSUME NEW a \in Helpers, OpSpawn(a) PROVE IInv'
  BY <1>8 DEF OpSpawn, CloseConn, Goto, answer, pipeVars, IInv, QueryTypeOK, Codes, ResolvedOnce, WonMeansResolved, SendersWon, SlotFilledOnce,
     SuccessIsAccept, InternalIsUnanswered, KeptMeansAccepted, NobodyAccepted, Sending, OpEnded
<1>9. ASSUME NEW a \in Workers, OpRead(a) PROVE IInv'
  BY <1>9 DEF OpRead, CloseConn, Goto, answer, pipeVars, IInv, QueryTypeOK, Codes, ResolvedOnce, WonMeansResolved, SendersWon, SlotFilledOnce,
     SuccessIsAccept, InternalIsUnanswered, KeptMeansAccepted, NobodyAccepted, Sending, OpEnded
<1>10. ASSUME NEW a \in Workers, OpClose(a) PROVE IInv'
  BY <1>10 DEF OpClose, CloseConn, Goto, answer, pipeVars, IInv, QueryTypeOK, Codes, ResolvedOnce, WonMeansResolved, SendersWon, SlotFilledOnce,
     SuccessIsAccept, InternalIsUnanswered, KeptMeansAccepted, NobodyAccepted, Sending, OpEnded
<1>11. ASSUME NEW a \in Workers, OpReturn(a) PROVE IInv'
  BY <1>11 DEF OpReturn, CloseConn, Goto, answer, pipeVars, IInv, QueryTypeOK, Codes, ResolvedOnce, WonMeansResolved, SendersWon, SlotFilledOnce,
     SuccessIsAccept, InternalIsUnanswered, KeptMeansAccepted, NobodyAccepted, Sending, OpEnded
<1>12. ASSUME NEW a \in Workers, StoreAccepted(a) PROVE IInv'
  BY <1>12 DEF StoreAccepted, CloseConn, Goto, answer, pipeVars, IInv, QueryTypeOK, Codes, ResolvedOnce, WonMeansResolved, SendersWon, SlotFilledOnce,
     SuccessIsAccept, InternalIsUnanswered, KeptMeansAccepted, NobodyAccepted, Sending, OpEnded
<1>13. ASSUME NEW a \in Workers, SendResponse(a) PROVE IInv'
  BY <1>13 DEF SendResponse, CloseConn, Goto, answer, pipeVars, IInv, QueryTypeOK, Codes, ResolvedOnce, WonMeansResolved, SendersWon, SlotFilledOnce,
     SuccessIsAccept, InternalIsUnanswered, KeptMeansAccepted, NobodyAccepted, Sending, OpEnded
<1>14. CASE CloseAfterBadArguments
  BY <1>14 DEF CloseAfterBadArguments, CloseConn, Goto, answer, pipeVars, IInv, QueryTypeOK, Codes, ResolvedOnce, WonMeansResolved, SendersWon, SlotFilledOnce,
     SuccessIsAccept, InternalIsUnanswered, KeptMeansAccepted, NobodyAccepted, Sending, OpEnded
<1>15. CASE OpPanic
  BY <1>15 DEF OpPanic, CloseConn, Goto, answer, pipeVars, IInv, QueryTypeOK, Codes, ResolvedOnce, WonMeansResolved, SendersWon, SlotFilledOnce,
     SuccessIsAccept, InternalIsUnanswered, KeptMeansAccepted, NobodyAccepted, Sending, OpEnded
<1>16. CASE Abandon
  <2>1. /\ pc' = [pc EXCEPT ![Op] = "return"] /\ pc[Op] = "abandon"
        /\ UNCHANGED <<resolved, cont, code, given, response, result, callerDone, write>>
        /\ accepted' = FALSE
    BY <1>16 DEF Abandon, Goto
  <2>2. /\ reader' = reader \/ reader' = "closed"
        /\ remote' = remote \/ remote' = "closed"
        /\ ~accepted => reader' = reader /\ remote' = remote
    BY <1>16 DEF Abandon, CloseConn
  <2>3. QueryTypeOK'
    BY <2>1, <2>2 DEF IInv, QueryTypeOK
  <2>4. ResolvedOnce' /\ WonMeansResolved' /\ SendersWon' /\ SlotFilledOnce'
    BY <2>1 DEF IInv, QueryTypeOK, ResolvedOnce, WonMeansResolved, SendersWon, SlotFilledOnce, Sending
  <2>5. SuccessIsAccept' /\ InternalIsUnanswered'
    BY <2>1 DEF IInv, QueryTypeOK, SuccessIsAccept, InternalIsUnanswered, Sending, OpEnded, NobodyAccepted
  <2>6. KeptMeansAccepted'
    BY <2>1, <2>2 DEF IInv, KeptMeansAccepted, NobodyAccepted
  <2> QED
    BY <2>3, <2>4, <2>5, <2>6 DEF IInv
<1>17. CASE AwaitResponse
  BY <1>17 DEF AwaitResponse, CloseConn, Goto, answer, pipeVars, IInv, QueryTypeOK, Codes, ResolvedOnce, WonMeansResolved, SendersWon, SlotFilledOnce,
     SuccessIsAccept, InternalIsUnanswered, KeptMeansAccepted, NobodyAccepted, Sending, OpEnded
<1>18. CASE SendUnread
  BY <1>18 DEF SendUnread, CloseConn, Goto, answer, pipeVars, IInv, QueryTypeOK, Codes, ResolvedOnce, WonMeansResolved, SendersWon, SlotFilledOnce,
     SuccessIsAccept, InternalIsUnanswered, KeptMeansAccepted, NobodyAccepted, Sending, OpEnded
<1>19. CASE CallerWrite
  BY <1>19 DEF CallerWrite, CloseConn, Goto, answer, pipeVars, IInv, QueryTypeOK, Codes, ResolvedOnce, WonMeansResolved, SendersWon, SlotFilledOnce,
     SuccessIsAccept, InternalIsUnanswered, KeptMeansAccepted, NobodyAccepted, Sending, OpEnded
<1>20. CASE WriteFails
  BY <1>20 DEF WriteFails, CloseConn, Goto, answer, pipeVars, IInv, QueryTypeOK, Codes, ResolvedOnce, WonMeansResolved, SendersWon, SlotFilledOnce,
     SuccessIsAccept, InternalIsUnanswered, KeptMeansAccepted, NobodyAccepted, Sending, OpEnded
<1>21. CASE CallerClose
  BY <1>21 DEF CallerClose, CloseConn, Goto, answer, pipeVars, IInv, QueryTypeOK, Codes, ResolvedOnce, WonMeansResolved, SendersWon, SlotFilledOnce,
     SuccessIsAccept, InternalIsUnanswered, KeptMeansAccepted, NobodyAccepted, Sending, OpEnded
<1>22. CASE CallerContextEnds
  BY <1>22 DEF CallerContextEnds, CloseConn, Goto, answer, pipeVars, IInv, QueryTypeOK, Codes, ResolvedOnce, WonMeansResolved, SendersWon, SlotFilledOnce,
     SuccessIsAccept, InternalIsUnanswered, KeptMeansAccepted, NobodyAccepted, Sending, OpEnded
<1>23. CASE UNCHANGED queryVars
  BY <1>23 DEF queryVars, IInv, QueryTypeOK, Codes, ResolvedOnce, WonMeansResolved, SendersWon, SlotFilledOnce,
     SuccessIsAccept, InternalIsUnanswered, KeptMeansAccepted, NobodyAccepted, Sending, OpEnded
<1> QED
  BY <1>1, <1>2, <1>3, <1>4, <1>5, <1>6, <1>7, <1>8, <1>9, <1>10, <1>11, <1>12, <1>13, <1>14, <1>15, <1>16, <1>17, <1>18, <1>19, <1>20, <1>21, <1>22, <1>23 DEF QueryNext, OpStep, CallerStep

\* The invariant gives the four properties the model checker checks.
LEMMA InvariantImplies == IInv => ResolvedOnce /\ SendNeverBlocks /\ ResultIsTrue /\ RejectedIsLeftAlone
<1> SUFFICES ASSUME IInv PROVE SendNeverBlocks /\ ResultIsTrue /\ RejectedIsLeftAlone
  BY DEF IInv
<1>1. SendNeverBlocks
  BY DEF IInv, SendNeverBlocks, SlotFilledOnce, Sending
<1>2. ResultIsTrue
  BY DEF IInv, ResultIsTrue, SuccessIsAccept, InternalIsUnanswered, OpEnded, NobodyAccepted
<1>3. RejectedIsLeftAlone
  BY DEF IInv, QueryTypeOK, RejectedIsLeftAlone, KeptMeansAccepted, NobodyAccepted
<1> QED
  BY <1>1, <1>2, <1>3

\* The inductive invariant holds in every reachable state.
THEOREM Invariant == QuerySpec => []IInv
  BY InitInvariant, NextInvariant, PTL DEF QuerySpec

\* However many goroutines an op spawns, one answer, or await itself, resolves the
\* query; nobody who answers blocks on the one-slot response channel; RouteQuery returns
\* a connection only for an accepted query and CodeInternalError only for an op that
\* ended unanswered; and abandon and Close act only on an accepted connection.
THEOREM QueryIsCorrect == QuerySpec => []QueryCorrect
<1>1. IInv => QueryCorrect
  BY InvariantImplies DEF IInv, QueryCorrect
<1> QED BY <1>1, Invariant, PTL
=============================================================================
