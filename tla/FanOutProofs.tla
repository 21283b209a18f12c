----------------------------- MODULE FanOutProofs ------------------------------
(***************************************************************************)
(* FanOutCorrect for any number of providers and any number of items.      *)
(* It is not inductive: that an answer is complete rests on every item     *)
(* being accounted for while the context lives, and on the relay closing   *)
(* results only after found was closed.                                    *)
(***************************************************************************)
EXTENDS FanOut, TLAPS

\* Before the providers are asked there is nothing on its way.
Quiet == op.at \in {"start", "error"} =>
           \A p \in Providers : worker[p] = "off" /\ taken[p] = 0 /\ delivered[p] = 0

\* While the context lives, an item that was taken is delivered or on its way.
Accounted == live => \A p \in Providers : taken[p] = delivered[p] + OnWay(p)

\* While the context lives, results is closed only after found.
InOrder == live /\ relay.at = "done" => found = "closed"

FanOutInv == FanOutTypeOK /\ Quiet /\ Accounted /\ InOrder /\ FanOutCorrect

\* The state FanOut starts in satisfies the invariant.
LEMMA FanOutInitially == FanOutInit => FanOutInv
<1> Someone \in Providers BY FanOutAssumption DEF Someone
<1> QED BY DEF FanOutInit, FanOutInv, FanOutTypeOK, Quiet, Accounted, InOrder, FanOutCorrect, OnWay

\* Every step of an op, its workers and its relay preserves the invariant.
LEMMA FanOutStep == FanOutInv /\ [FanOutNext]_fanVars => FanOutInv'
<1> SUFFICES ASSUME FanOutInv, [FanOutNext]_fanVars PROVE FanOutInv' OBVIOUS
<1>0. FanOutTypeOK /\ Quiet /\ Accounted /\ InOrder /\ FanOutCorrect BY DEF FanOutInv
<1>1. CASE OpStart
  <2>1. FanOutTypeOK' BY <1>0, <1>1 DEF OpStart, FanOutTypeOK
  <2>2. op'.at \in {"error", "recv"} /\ op'.of = op.of /\ op'.cut = op.cut BY <1>0, <1>1 DEF OpStart, FanOutTypeOK
  <2> QED BY <1>0, <1>1, <2>1, <2>2 DEF OpStart, FanOutInv, FanOutTypeOK, Quiet, Accounted, InOrder, FanOutCorrect, OnWay
<1>2. CASE CloseFound BY <1>0, <1>2 DEF CloseFound, FanOutInv, FanOutTypeOK, Quiet, Accounted, InOrder, FanOutCorrect, OnWay
<1>3. CASE RelayEnds
  <2>1. FanOutTypeOK' BY <1>0, <1>3 DEF RelayEnds, FanOutTypeOK
  <2>2. relay'.at = "done" /\ relay'.of = relay.of BY <1>0, <1>3 DEF RelayEnds, FanOutTypeOK
  <2> QED BY <1>0, <1>3, <2>1, <2>2 DEF RelayEnds, FanOutInv, FanOutTypeOK, Quiet, Accounted, InOrder, FanOutCorrect, OnWay
<1>4. CASE RelaySends
  <2>1. FanOutTypeOK' BY <1>0, <1>4 DEF RelaySends, FanOutTypeOK
  <2>2. op'.at = "send" /\ op'.of = relay.of /\ op'.cut = op.cut BY <1>0, <1>4 DEF RelaySends, FanOutTypeOK
  <2>3. relay'.at = "recv" /\ relay'.of = relay.of BY <1>0, <1>4 DEF RelaySends, FanOutTypeOK
  <2>4. ASSUME NEW p \in Providers PROVE OnWay(p)' = OnWay(p)
    BY <1>0, <1>4, <2>2, <2>3 DEF RelaySends, OnWay, FanOutTypeOK
  <2>6. Quiet' /\ InOrder' BY <1>0, <1>4, <2>2, <2>3 DEF RelaySends, Quiet, InOrder
  <2>7. Accounted' BY <1>0, <1>4, <2>4 DEF RelaySends, Accounted
  <2>8. FanOutCorrect' BY <1>0, <1>4, <2>2, <2>4 DEF RelaySends, FanOutCorrect
  <2> QED BY <2>1, <2>6, <2>7, <2>8 DEF FanOutInv
<1>5. CASE OpSends
  <2>1. \/ op' = [op EXCEPT !.at = "recv"] /\ delivered' = [delivered EXCEPT ![op.of] = @ + 1] /\ live' = live
        \/ op' = [op EXCEPT !.at = "returned"] /\ live' = FALSE /\ delivered' = delivered
    BY <1>5 DEF OpSends, Return
  <2>2. op'.at \in {"recv", "returned"} /\ op'.of = op.of /\ op'.cut = op.cut
    BY <1>0, <1>5 DEF OpSends, Return, FanOutTypeOK
  <2>3. op.of \in Providers /\ op' \in [at : {"recv", "returned"}, of : Providers, cut : BOOLEAN]
    BY <1>0, <2>1 DEF FanOutTypeOK
  <2>4. CASE live' = FALSE /\ delivered' = delivered
    <3>1. FanOutTypeOK' BY <1>0, <1>5, <2>3, <2>4 DEF OpSends, FanOutTypeOK
    <3>2. ASSUME NEW p \in Providers PROVE OnWay(p)' <= OnWay(p) /\ OnWay(p)' \in Nat /\ OnWay(p) \in Nat
      BY <1>0, <1>5, <2>2 DEF OpSends, OnWay
    <3>3. Quiet' /\ Accounted' /\ InOrder' BY <2>2, <2>4 DEF Quiet, Accounted, InOrder
    <3>4. FanOutCorrect' BY <1>0, <1>5, <2>2, <2>4, <3>2 DEF OpSends, FanOutCorrect, FanOutTypeOK
    <3> QED BY <3>1, <3>3, <3>4 DEF FanOutInv
  <2>5. CASE delivered' = [delivered EXCEPT ![op.of] = @ + 1] /\ live' = live
    <3>1. FanOutTypeOK' BY <1>0, <1>5, <2>3, <2>5 DEF OpSends, FanOutTypeOK
    <3> QED BY <1>0, <1>5, <2>2, <2>3, <2>5, <3>1
            DEF OpSends, FanOutInv, FanOutTypeOK, Quiet, Accounted, InOrder, FanOutCorrect, OnWay
  <2> QED BY <2>1, <2>4, <2>5
<1>6. CASE OpErrs
  <2>1. FanOutTypeOK' BY <1>0, <1>6 DEF OpErrs, Return, FanOutTypeOK
  <2>2. op'.at \in {"eos", "returned"} /\ op'.of = op.of /\ op'.cut = op.cut BY <1>0, <1>6 DEF OpErrs, Return, FanOutTypeOK
  <2>3. live' => live BY <1>6 DEF OpErrs, Return
  <2>4. ASSUME NEW p \in Providers PROVE OnWay(p)' = OnWay(p)
    BY <1>0, <1>6, <2>2 DEF OpErrs, OnWay
  <2>5. Quiet' /\ InOrder' BY <1>0, <1>6, <2>2, <2>3 DEF OpErrs, Quiet, InOrder
  <2>6. Accounted' BY <1>0, <1>6, <2>3, <2>4 DEF OpErrs, Accounted
  <2>7. FanOutCorrect' BY <1>0, <1>6, <2>2, <2>4 DEF OpErrs, FanOutCorrect, Quiet
  <2> QED BY <2>1, <2>5, <2>6, <2>7 DEF FanOutInv
<1>7. CASE OpEnds
  <2>1. op'.at = "eos" /\ op'.of = op.of /\ op'.cut = ~live BY <1>0, <1>7 DEF OpEnds, FanOutTypeOK
  <2>2. op' = [at |-> "eos", of |-> op.of, cut |-> ~live] BY <1>0, <1>7 DEF OpEnds, FanOutTypeOK
  <2>3. (~live) \in BOOLEAN BY <1>0 DEF FanOutTypeOK
  <2>4. FanOutTypeOK' BY <1>0, <1>7, <2>2, <2>3 DEF OpEnds, FanOutTypeOK
  <2>5. ASSUME NEW p \in Providers PROVE OnWay(p)' = OnWay(p)
    BY <1>0, <1>7, <2>1 DEF OpEnds, OnWay
  <2>6. Quiet' /\ InOrder' BY <1>0, <1>7, <2>1 DEF OpEnds, Quiet, InOrder
  <2>7. Accounted' BY <1>0, <1>7, <2>5 DEF OpEnds, Accounted
  <2>8. ASSUME live, NEW p \in Providers PROVE worker[p] = "done" /\ delivered[p] = taken[p]
    <3>1. relay.at = "done" /\ op.at = "recv" /\ worker[p] = "done"
      BY <1>0, <1>7, <2>8 DEF OpEnds, InOrder, FanOutCorrect
    <3>2. OnWay(p) = 0 BY <3>1 DEF OnWay
    <3> QED BY <1>0, <2>8, <3>1, <3>2 DEF Accounted, FanOutTypeOK
  <2>9. FanOutCorrect' BY <1>0, <1>7, <2>1, <2>5, <2>8 DEF OpEnds, FanOutCorrect
  <2> QED BY <2>4, <2>6, <2>7, <2>9 DEF FanOutInv
<1>8. CASE OpEOS
  <2>1. FanOutTypeOK' BY <1>0, <1>8 DEF OpEOS, Return, FanOutTypeOK
  <2>2. op'.at = "returned" BY <1>0, <1>8 DEF OpEOS, Return, FanOutTypeOK
  <2> QED BY <1>0, <1>8, <2>1, <2>2 DEF OpEOS, Return, FanOutInv, FanOutTypeOK, Quiet, Accounted, InOrder, FanOutCorrect, OnWay
<1>9. CASE CtxCancel BY <1>0, <1>9 DEF CtxCancel, FanOutInv, FanOutTypeOK, Quiet, Accounted, InOrder, FanOutCorrect, OnWay
<1>10. ASSUME NEW p \in Providers, WorkerStart(p) PROVE FanOutInv'
  BY <1>0, <1>10 DEF WorkerStart, FanOutInv, FanOutTypeOK, Quiet, Accounted, InOrder, FanOutCorrect, OnWay
<1>11. ASSUME NEW p \in Providers, WorkerTakes(p) PROVE FanOutInv'
  BY <1>0, <1>11 DEF WorkerTakes, FanOutInv, FanOutTypeOK, Quiet, Accounted, InOrder, FanOutCorrect, OnWay
<1>12. ASSUME NEW p \in Providers, WorkerEnds(p) PROVE FanOutInv'
  BY <1>0, <1>12 DEF WorkerEnds, FanOutInv, FanOutTypeOK, Quiet, Accounted, InOrder, FanOutCorrect, OnWay
<1>13. ASSUME NEW p \in Providers, WorkerSends(p) PROVE FanOutInv'
  <2>1. relay'.at = "send" /\ relay'.of = p /\ relay' \in [at : {"recv", "send", "done"}, of : Providers]
    BY <1>0, <1>13 DEF WorkerSends, FanOutTypeOK
  <2> QED BY <1>0, <1>13, <2>1 DEF WorkerSends, FanOutInv, FanOutTypeOK, Quiet, Accounted, InOrder, FanOutCorrect, OnWay
<1>14. ASSUME NEW p \in Providers, WorkerGivesUp(p) PROVE FanOutInv'
  BY <1>0, <1>14 DEF WorkerGivesUp, FanOutInv, FanOutTypeOK, Quiet, Accounted, InOrder, FanOutCorrect, OnWay
<1>15. CASE UNCHANGED fanVars
  BY <1>0, <1>15 DEF fanVars, FanOutInv, FanOutTypeOK, Quiet, Accounted, InOrder, FanOutCorrect, OnWay
<1> QED BY <1>1, <1>2, <1>3, <1>4, <1>5, <1>6, <1>7, <1>8, <1>9, <1>10, <1>11, <1>12, <1>13, <1>14, <1>15
           DEF FanOutNext, WorkerSkips

\* An answer of objects.describe, objects.find or objects.search that ends with EOS while
\* its context lives is complete, however many providers the app has.
THEOREM FanOutComplete == FanOutSpec => []FanOutCorrect
<1>1. FanOutInv => FanOutCorrect BY DEF FanOutInv
<1> QED BY <1>1, FanOutInitially, FanOutStep, PTL DEF FanOutSpec
=============================================================================
