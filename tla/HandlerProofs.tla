---------------------------- MODULE HandlerProofs ----------------------------
(***************************************************************************)
(* The safety properties of Handler for any set of connections.  The       *)
(* inductive invariant ties the lock of a connection's writer to Route     *)
(* being on its query, and says that nothing is on the wire until then and *)
(* an Ack once the query is open; and it says who can have closed the      *)
(* listener.                                                               *)
(***************************************************************************)
EXTENDS Handler, TLAPS

\* The writer is locked from ReadQuery to the answer, and Route is on that query.
LockedWhileRouting ==
  \A c \in Conns : /\ locked[c] <=> conn[c] = "routing"
                   /\ conn[c] = "routing" <=> current = c

\* Nothing is written before the answer, and an open query was acknowledged.
SilentUntilAnswered ==
  \A c \in Conns : /\ conn[c] \in {"new", "intake", "offered", "routing"} => wire[c] = <<>>
                   /\ conn[c] = "open" => wire[c] # <<>> /\ wire[c][1] = "ack"

\* The listener is closed by the application, by the end of the context or after it failed.
ClosedForAReason ==
  /\ done \/ listener = "closed" => userClosed \/ ctxDone \/ listener = "failed"
  /\ acceptErr = "failed" => listener = "failed"
  /\ acceptor = "closing" => listener # "open"

IInv ==
  /\ TypeOK /\ LockedWhileRouting /\ SilentUntilAnswered /\ AnswerFirst
  /\ ClosedForAReason /\ ShutdownIsNotAnError

-----------------------------------------------------------------------------
\* A fresh handler satisfies the invariant.
LEMMA InitInvariant == Init => IInv
<1> SUFFICES ASSUME Init PROVE IInv
  OBVIOUS
<1> USE NoneAssumption DEF Init
<1>0. done \in BOOLEAN /\ ctxDone \in BOOLEAN /\ userClosed \in BOOLEAN
  BY Zenon
<1>1. TypeOK
  BY <1>0 DEF TypeOK, Answers, Outcomes
<1>2. LockedWhileRouting /\ SilentUntilAnswered /\ AnswerFirst
  BY DEF LockedWhileRouting, SilentUntilAnswered, AnswerFirst
<1>3. ClosedForAReason /\ ShutdownIsNotAnError
  BY DEF ClosedForAReason, ShutdownIsNotAnError
<1> QED BY <1>1, <1>2, <1>3 DEF IInv

\* Steps that leave the connections and Route alone keep what is said of them.
LEMMA ConnsUntouched ==
  ASSUME IInv, TypeOK', UNCHANGED cvars, UNCHANGED current
  PROVE  LockedWhileRouting' /\ SilentUntilAnswered' /\ AnswerFirst'
BY DEF IInv, cvars, LockedWhileRouting, SilentUntilAnswered, AnswerFirst

\* Steps that leave the handler, its context and Route's result alone keep the reasons.
LEMMA ReasonsUntouched ==
  ASSUME IInv, UNCHANGED hvars, UNCHANGED evars, UNCHANGED ret
  PROVE  ClosedForAReason' /\ ShutdownIsNotAnError'
BY DEF IInv, hvars, evars, ClosedForAReason, ShutdownIsNotAnError

\* The steps of Close, the accept goroutine, the context and closeOnDone.
LEMMA ShutdownInvariant ==
  ASSUME IInv, Close \/ AcceptFails \/ AcceptCloses \/ ListenerFails \/ ContextEnds \/ CloseOnDone
  PROVE  IInv'
<1>1. UNCHANGED cvars /\ UNCHANGED rvars
  BY DEF Close, AcceptFails, AcceptCloses, ListenerFails, ContextEnds, CloseOnDone
<1>2. TypeOK'
  <2> USE DEF Close, AcceptFails, AcceptCloses, ListenerFails, ContextEnds, CloseOnDone, CloseHandler, evars, hvars
  <2>1. /\ done' \in BOOLEAN /\ ctxDone' \in BOOLEAN /\ userClosed' \in BOOLEAN
    BY Zenon DEF IInv, TypeOK
  <2>2. /\ listener' \in {"open", "closed", "failed"}
        /\ acceptErr' \in {"none", "closed", "failed"}
        /\ acceptor' \in {"accept", "closing", "end"} /\ watcher' \in {"wait", "end"}
    BY DEF IInv, TypeOK
  <2> QED BY <1>1, <2>1, <2>2 DEF IInv, TypeOK, cvars, rvars
<1>3. ClosedForAReason' /\ ShutdownIsNotAnError'
  <2> USE DEF IInv, TypeOK, ClosedForAReason, ShutdownIsNotAnError, rvars, CloseHandler
  <2>1. CASE Close
    BY <1>1, <2>1 DEF Close
  <2>2. CASE AcceptFails
    BY <1>1, <2>2 DEF AcceptFails, evars
  <2>3. CASE AcceptCloses
    BY <1>1, <2>3 DEF AcceptCloses, evars
  <2>4. CASE ListenerFails
    BY <1>1, <2>4 DEF ListenerFails, evars
  <2>5. CASE ContextEnds
    BY <1>1, <2>5 DEF ContextEnds, hvars
  <2>6. CASE CloseOnDone
    BY <1>1, <2>6 DEF CloseOnDone
  <2> QED BY <2>1, <2>2, <2>3, <2>4, <2>5, <2>6
<1> QED BY <1>1, <1>2, <1>3, ConnsUntouched DEF rvars, IInv

\* Writing an answer or data keeps the type of the wires.
LEMMA WriteType ==
  ASSUME NEW S, NEW w \in [Conns -> Seq(S)], NEW c \in Conns, NEW e \in S
  PROVE  [w EXCEPT ![c] = Append(w[c], e)] \in [Conns -> Seq(S)]
OBVIOUS

\* A wire that carries one answer and nothing else satisfies AnswerFirst.
LEMMA OneAnswer ==
  ASSUME NEW e \in Answers, NEW w, w = <<e>>
  PROVE  w # <<>> /\ w[1] = e /\ Len(w) = 1 /\ 2..Len(w) = {}
OBVIOUS

\* The steps of a connection before Route reads its query.
LEMMA IntakeInvariant ==
  ASSUME IInv, NEW c \in Conns,
         Accept(c) \/ IntakeRefuses(c) \/ IntakeOffers(c) \/ IntakeDrops(c)
  PROVE  IInv'
<1> USE DEF Accept, IntakeRefuses, IntakeOffers, IntakeDrops
<1>1. /\ UNCHANGED <<locked, target, copying>> /\ UNCHANGED hvars /\ UNCHANGED rvars /\ UNCHANGED evars
      /\ conn[c] \in {"new", "intake", "offered"}
      /\ \E s \in {"intake", "offered", "closed"} : conn' = [conn EXCEPT ![c] = s]
      /\ \/ wire' = wire
         \/ \E e \in {"protocol", "denied"} :
              wire' = [wire EXCEPT ![c] = Append(wire[c], e)] /\ conn' = [conn EXCEPT ![c] = "closed"]
  OBVIOUS
<1>2. wire[c] = <<>>
  BY <1>1 DEF IInv, SilentUntilAnswered
<1>3. TypeOK'
  <2>1. conn' \in [Conns -> {"new", "intake", "offered", "routing", "open", "closed"}]
    BY <1>1 DEF IInv, TypeOK
  <2>2. wire' \in [Conns -> Seq(Answers \cup {"data"})]
    <3>1. wire \in [Conns -> Seq(Answers \cup {"data"})]
      BY DEF IInv, TypeOK
    <3>2. ASSUME NEW e \in {"protocol", "denied"}, wire' = [wire EXCEPT ![c] = Append(wire[c], e)]
          PROVE  wire' \in [Conns -> Seq(Answers \cup {"data"})]
      <4>1. e \in Answers \cup {"data"}
        BY DEF Answers
      <4> QED BY <3>1, <3>2, <4>1, WriteType
    <3> QED BY <1>1, <3>1, <3>2
  <2> QED BY <1>1, <2>1, <2>2 DEF IInv, TypeOK, hvars, rvars, evars
<1>4. LockedWhileRouting'
  BY <1>1 DEF IInv, TypeOK, LockedWhileRouting, rvars
<1>5. SilentUntilAnswered' /\ AnswerFirst'
  <2>1. \A d \in Conns : d # c => conn'[d] = conn[d] /\ wire'[d] = wire[d]
    BY <1>1 DEF IInv, TypeOK
  <2>2. /\ conn'[c] \in {"intake", "offered", "closed"}
        /\ \/ wire'[c] = <<>>
           \/ conn'[c] = "closed" /\ \E e \in {"protocol", "denied"} : wire'[c] = <<e>>
    BY <1>1, <1>2 DEF IInv, TypeOK
  <2>3. SilentUntilAnswered'
    BY <2>1, <2>2 DEF IInv, SilentUntilAnswered
  <2>4. CASE wire'[c] = <<>>
    BY <2>1, <2>3, <2>4 DEF IInv, AnswerFirst
  <2>5. ASSUME NEW e \in {"protocol", "denied"}, wire'[c] = <<e>> PROVE AnswerFirst'
    <3>1. e \in Answers
      BY DEF Answers
    <3> QED BY <2>1, <2>5, <3>1, OneAnswer DEF IInv, AnswerFirst
  <2> QED BY <2>2, <2>3, <2>4, <2>5
<1> QED BY <1>1, <1>3, <1>4, <1>5, ReasonsUntouched DEF IInv, rvars

\* ReadQuery locks the writer of the query that Route turns to.
LEMMA ReadInvariant ==
  ASSUME IInv, NEW c \in Conns, ReadQuery(c)
  PROVE  IInv'
<1>1. /\ loop = "read" /\ conn[c] = "offered" /\ current \notin Conns
      /\ conn' = [conn EXCEPT ![c] = "routing"] /\ locked' = [locked EXCEPT ![c] = TRUE]
      /\ current' = c /\ loop' = "route"
      /\ UNCHANGED <<wire, target, copying, outcome, ret>> /\ UNCHANGED hvars /\ UNCHANGED evars
  BY DEF ReadQuery, IInv, TypeOK
<1>2. TypeOK'
  BY <1>1 DEF IInv, TypeOK, hvars, evars
<1>3. LockedWhileRouting'
  BY <1>1 DEF IInv, TypeOK, LockedWhileRouting
<1>4. SilentUntilAnswered' /\ AnswerFirst'
  BY <1>1 DEF IInv, TypeOK, SilentUntilAnswered, AnswerFirst
<1> QED BY <1>1, <1>2, <1>3, <1>4, ReasonsUntouched DEF IInv

\* Route ends: the error it returns has its cause in the handler's state.
LEMMA EndInvariant ==
  ASSUME IInv, ReadEnds
  PROVE  IInv'
<1>1. /\ loop = "read" /\ done /\ loop' = "end" /\ ret' = RouteErr
      /\ UNCHANGED <<current, outcome>> /\ UNCHANGED hvars /\ UNCHANGED cvars /\ UNCHANGED evars
  BY DEF ReadEnds
<1>2. RouteErr \in {"ctx", "closed", "failed"}
  BY DEF IInv, TypeOK, RouteErr, ReadErr
<1>3. TypeOK'
  BY <1>1, <1>2 DEF IInv, TypeOK, hvars, cvars, evars
<1>4. ClosedForAReason' /\ ShutdownIsNotAnError'
  BY <1>1 DEF IInv, TypeOK, ClosedForAReason, ShutdownIsNotAnError, RouteErr, ReadErr, hvars, evars
<1> QED BY <1>1, <1>3, <1>4, ConnsUntouched DEF IInv

\* Routing: the target is handed the locked writer, and an outcome comes back.
LEMMA RouteInvariant ==
  ASSUME IInv, TargetStarts \/ RouteQuery
  PROVE  IInv'
<1>1. /\ UNCHANGED <<conn, wire, locked, copying>> /\ UNCHANGED hvars /\ UNCHANGED evars
      /\ UNCHANGED <<current, ret>> /\ loop = "route" /\ loop' \in {"route", "answer"}
      /\ outcome' \in Outcomes \cup {"none"} /\ target' \in [Conns -> BOOLEAN]
  BY DEF TargetStarts, RouteQuery, IInv, TypeOK, cvars, rvars
<1>2. TypeOK'
  BY <1>1 DEF IInv, TypeOK, hvars, evars
<1>3. LockedWhileRouting' /\ SilentUntilAnswered' /\ AnswerFirst'
  BY <1>1 DEF IInv, LockedWhileRouting, SilentUntilAnswered, AnswerFirst
<1> QED BY <1>1, <1>2, <1>3, ReasonsUntouched DEF IInv

\* The answer is the first thing written, and it releases the writer.
LEMMA AnswerInvariant ==
  ASSUME IInv, Answer
  PROVE  IInv'
<1>1. PICK c \in Conns : c = current
  BY DEF Answer, IInv, TypeOK
<1>2. /\ loop' = "read" /\ current' = None /\ outcome' = "none"
      /\ wire' = [wire EXCEPT ![c] = Append(wire[c], AnswerOf(outcome))]
      /\ conn' = [conn EXCEPT ![c] = IF outcome = "accepted" THEN "open" ELSE "closed"]
      /\ locked' = [locked EXCEPT ![c] = FALSE]
      /\ UNCHANGED <<target, ret>> /\ UNCHANGED hvars /\ UNCHANGED evars
  BY <1>1 DEF Answer
<1>3. copying' \in [Conns -> BOOLEAN]
  <2>1. \E b \in BOOLEAN : copying' = [copying EXCEPT ![c] = b]
    BY <1>1, Zenon DEF Answer
  <2> QED BY <2>1 DEF IInv, TypeOK
<1>4. /\ conn[c] = "routing" /\ wire[c] = <<>>
      /\ AnswerOf(outcome) \in Answers /\ (outcome = "accepted" => AnswerOf(outcome) = "ack")
  BY <1>1 DEF IInv, LockedWhileRouting, SilentUntilAnswered, AnswerOf, Answers
<1>5. TypeOK'
  <2>1. wire' \in [Conns -> Seq(Answers \cup {"data"})]
    BY <1>2, <1>4, WriteType DEF IInv, TypeOK
  <2>2. conn' \in [Conns -> {"new", "intake", "offered", "routing", "open", "closed"}]
    BY <1>2 DEF IInv, TypeOK
  <2> QED BY <1>2, <1>3, <2>1, <2>2, NoneAssumption DEF IInv, TypeOK, hvars, evars
<1>6. LockedWhileRouting'
  BY <1>1, <1>2, <1>4, NoneAssumption DEF IInv, TypeOK, LockedWhileRouting
<1>7. SilentUntilAnswered' /\ AnswerFirst'
  BY <1>2, <1>4 DEF IInv, TypeOK, SilentUntilAnswered, AnswerFirst
<1> QED BY <1>2, <1>5, <1>6, <1>7, ReasonsUntouched DEF IInv

\* The target's and the dialer's steps on a connection: the lock keeps the target
\* from a query that is being routed.
LEMMA PeerInvariant ==
  ASSUME IInv, NEW c \in Conns,
         TargetWrite(c) \/ TargetClose(c) \/ DialerCloses(c) \/ CopyEnds(c)
  PROVE  IInv'
<1>1. /\ UNCHANGED locked /\ UNCHANGED hvars /\ UNCHANGED rvars /\ UNCHANGED evars
      /\ \/ conn' = conn
         \/ conn' = [conn EXCEPT ![c] = "closed"] /\ conn[c] # "routing" /\ wire' = wire
      /\ \/ wire' = wire
         \/ conn[c] = "open" /\ wire' = [wire EXCEPT ![c] = Append(wire[c], "data")]
  BY DEF TargetWrite, TargetClose, DialerCloses, CopyEnds, IInv, LockedWhileRouting
<1>2. target' \in [Conns -> BOOLEAN] /\ copying' \in [Conns -> BOOLEAN]
  BY DEF TargetWrite, TargetClose, DialerCloses, CopyEnds, IInv, TypeOK
<1>3. TypeOK'
  <2>1. conn' \in [Conns -> {"new", "intake", "offered", "routing", "open", "closed"}]
    BY <1>1 DEF IInv, TypeOK
  <2>2. wire' \in [Conns -> Seq(Answers \cup {"data"})]
    <3>1. wire \in [Conns -> Seq(Answers \cup {"data"})]
      BY DEF IInv, TypeOK
    <3>2. ASSUME NEW e \in {"data"}, wire' = [wire EXCEPT ![c] = Append(wire[c], e)]
          PROVE  wire' \in [Conns -> Seq(Answers \cup {"data"})]
      <4>1. e \in Answers \cup {"data"}
        BY DEF Answers
      <4> QED BY <3>1, <3>2, <4>1, WriteType
    <3> QED BY <1>1, <3>1, <3>2
  <2> QED BY <1>1, <1>2, <2>1, <2>2 DEF IInv, TypeOK, hvars, rvars, evars
<1>4. LockedWhileRouting'
  BY <1>1 DEF IInv, TypeOK, LockedWhileRouting, rvars
<1>5. SilentUntilAnswered' /\ AnswerFirst'
  <2>1. \A d \in Conns : d # c => conn'[d] = conn[d] /\ wire'[d] = wire[d]
    BY <1>1 DEF IInv, TypeOK
  <2>2. CASE wire' = wire
    BY <1>1, <2>1, <2>2 DEF IInv, TypeOK, SilentUntilAnswered, AnswerFirst
  <2>3. CASE conn[c] = "open" /\ wire' = [wire EXCEPT ![c] = Append(wire[c], "data")] /\ conn' = conn
    <3>1. /\ wire[c] \in Seq(Answers \cup {"data"}) /\ wire[c] # <<>> /\ wire[c][1] = "ack"
          /\ \A i \in 2..Len(wire[c]) : wire[c][i] = "data"
      BY <2>3 DEF IInv, TypeOK, SilentUntilAnswered, AnswerFirst
    <3>2. wire'[c] = Append(wire[c], "data")
      BY <2>3 DEF IInv, TypeOK
    <3>3. /\ wire'[c] # <<>> /\ wire'[c][1] = "ack" /\ Len(wire'[c]) = Len(wire[c]) + 1
          /\ \A i \in 2..Len(wire'[c]) : wire'[c][i] = "data"
      BY <3>1, <3>2
    <3> QED BY <2>1, <2>3, <3>3 DEF IInv, SilentUntilAnswered, AnswerFirst, Answers
  <2> QED BY <1>1, <2>2, <2>3
<1> QED BY <1>1, <1>3, <1>4, <1>5, ReasonsUntouched DEF IInv, rvars

-----------------------------------------------------------------------------
\* The invariant holds of every reachable state of the handler.
THEOREM Invariant == Spec => []IInv
<1>1. IInv /\ [Next]_vars => IInv'
  <2> SUFFICES ASSUME IInv, [Next]_vars PROVE IInv'
    OBVIOUS
  <2>1. CASE UNCHANGED vars
    BY <2>1 DEF IInv, vars, TypeOK, LockedWhileRouting, SilentUntilAnswered, AnswerFirst,
              ClosedForAReason, ShutdownIsNotAnError
  <2>2. CASE Next
    BY <2>2, ShutdownInvariant, IntakeInvariant, ReadInvariant, EndInvariant, RouteInvariant,
       AnswerInvariant, PeerInvariant DEF Next
  <2> QED BY <2>1, <2>2
<1> QED BY <1>1, InitInvariant, PTL DEF Spec

\* For any set of connections, the answer is the first thing written to each, data
\* follows only an Ack, and Route returns a listener error only when the listener failed
\* or the application closed the handler.
THEOREM HandlerIsCorrect == Spec => []HandlerCorrect
<1>1. IInv => HandlerCorrect
  BY DEF IInv, HandlerCorrect
<1> QED BY <1>1, Invariant, PTL
=============================================================================
