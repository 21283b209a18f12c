-------------------------------- MODULE Signer --------------------------------
(***************************************************************************)
(* crypto.SignerBinding: the node asks for signatures and may cancel a     *)
(* request; each request runs on a goroutine with a context of its own,    *)
(* which ends with the request, with its SignCancel or with the binding.   *)
(* The loop of channel.Handle is the only one to read the channel.         *)
(***************************************************************************)
EXTENDS Naturals, Sequences

CONSTANTS Requests    \* the request ids the node uses, each once

VARIABLES
  signerWire,       \* messages from the node
  asked,      \* requests sent
  revoked,    \* requests for which a SignCancel was sent
  open,       \* the channel, as the node and the binding see it
  loopServing,      \* "handle", "unwind" (Handle has returned) or "done"
  signRequest,    \* each request: "none", "signing", "sent" (the answer), "over"
  contexts,   \* requests whose context has not ended
  cancels,    \* the map of cancel functions
  heard,      \* history: requests whose SignCancel the loop has handled
  answers,    \* history: the answers that reached the channel
  signerCloser      \* a caller of Close: "idle", "waits" or "returned"

signerVars == <<signerWire, asked, revoked, open, loopServing, signRequest, contexts, cancels, heard, answers, signerCloser>>

Message == [kind : {"sign", "cancel"}, id : Requests] \cup [kind : {"other"}]

SignerTypeOK ==
  /\ signerWire \in Seq(Message) /\ open \in BOOLEAN
  /\ loopServing \in {"handle", "unwind", "done"}
  /\ signRequest \in [Requests -> {"none", "signing", "sent", "over"}]
  /\ answers \in Seq(Requests)
  /\ \A s \in {asked, revoked, contexts, cancels, heard} : s \subseteq Requests
  /\ signerCloser \in {"idle", "waits", "returned"}

SignerInit ==
  /\ signerWire = << >> /\ asked = {} /\ revoked = {} /\ open = TRUE
  /\ loopServing = "handle" /\ signRequest = [r \in Requests |-> "none"]
  /\ contexts = {} /\ cancels = {} /\ heard = {} /\ answers = << >>
  /\ signerCloser = "idle"

-----------------------------------------------------------------------------
NodeAsks(r) ==
  /\ open /\ r \notin asked
  /\ signerWire' = Append(signerWire, [kind |-> "sign", id |-> r]) /\ asked' = asked \cup {r}
  /\ UNCHANGED <<revoked, open, loopServing, signRequest, contexts, cancels, heard, answers, signerCloser>>

NodeCancels(r) ==
  /\ open /\ r \in asked \ revoked
  /\ signerWire' = Append(signerWire, [kind |-> "cancel", id |-> r]) /\ revoked' = revoked \cup {r}
  /\ UNCHANGED <<asked, open, loopServing, signRequest, contexts, cancels, heard, answers, signerCloser>>

\* An object the binding does not know: it closes the channel when it reads it.
NodeConfuses ==
  /\ open /\ [kind |-> "other"] \notin {signerWire[i] : i \in DOMAIN signerWire}
  /\ signerWire' = Append(signerWire, [kind |-> "other"])
  /\ UNCHANGED <<asked, revoked, open, loopServing, signRequest, contexts, cancels, heard, answers, signerCloser>>

NodeClosesSigner ==
  /\ open /\ open' = FALSE
  /\ UNCHANGED <<signerWire, asked, revoked, loopServing, signRequest, contexts, cancels, heard, answers, signerCloser>>

-----------------------------------------------------------------------------
RegisterLate(r) == UNCHANGED cancels

\* answer: the cancel function is stored by the loop itself, before the goroutine starts.
RegisterCancel(r) == cancels' = cancels \cup {r}

Sign(r) ==
  /\ signRequest' = [signRequest EXCEPT ![r] = "signing"]
  /\ contexts' = contexts \cup {r}
  /\ RegisterCancel(r)
  /\ UNCHANGED <<open, heard>>

CancelRequest(r) ==
  /\ contexts' = IF r \in cancels THEN contexts \ {r} ELSE contexts
  /\ heard' = heard \cup {r}
  /\ UNCHANGED <<open, signRequest, cancels>>

Handle ==
  /\ loopServing = "handle" /\ signerWire # << >>
  /\ signerWire' = Tail(signerWire)
  /\ CASE Head(signerWire).kind = "sign" -> Sign(Head(signerWire).id)
       [] Head(signerWire).kind = "cancel" -> CancelRequest(Head(signerWire).id)
       [] OTHER -> open' = FALSE /\ UNCHANGED <<signRequest, contexts, cancels, heard>>
  /\ UNCHANGED <<asked, revoked, loopServing, answers, signerCloser>>

\* Receive fails or reports EOF: what was sent before a close may still be read, or not.
HandleReturns ==
  /\ loopServing = "handle" /\ ~open
  /\ loopServing' = "unwind"
  /\ UNCHANGED <<signerWire, asked, revoked, open, signRequest, contexts, cancels, heard, answers, signerCloser>>

EndContexts == contexts' = {}

\* serve's deferred calls: end the requests' contexts, close the channel, close done.
Unwind ==
  /\ loopServing = "unwind"
  /\ loopServing' = "done" /\ open' = FALSE
  /\ EndContexts
  /\ UNCHANGED <<signerWire, asked, revoked, signRequest, cancels, heard, answers, signerCloser>>

-----------------------------------------------------------------------------
\* The handler comes back, with or without a signature, and the answer is sent.
SignerAnswer(r) ==
  /\ signRequest[r] = "signing"
  /\ signRequest' = [signRequest EXCEPT ![r] = "sent"]
  /\ answers' = IF open THEN Append(answers, r) ELSE answers
  /\ UNCHANGED <<signerWire, asked, revoked, open, loopServing, contexts, cancels, heard, signerCloser>>

Forget(r) == cancels' = cancels \ {r}

\* The request's deferred calls.
Finish(r) ==
  /\ signRequest[r] = "sent"
  /\ signRequest' = [signRequest EXCEPT ![r] = "over"]
  /\ Forget(r)
  /\ contexts' = contexts \ {r}
  /\ UNCHANGED <<signerWire, asked, revoked, open, loopServing, heard, answers, signerCloser>>

CloseChannel == open' = FALSE

CloseSigner ==
  /\ signerCloser = "idle"
  /\ signerCloser' = "waits"
  /\ CloseChannel
  /\ UNCHANGED <<signerWire, asked, revoked, loopServing, signRequest, contexts, cancels, heard, answers>>

CloseSignerReturns ==
  /\ signerCloser = "waits" /\ loopServing = "done"
  /\ signerCloser' = "returned"
  /\ UNCHANGED <<signerWire, asked, revoked, open, loopServing, signRequest, contexts, cancels, heard, answers>>

SignerNext ==
  \/ \E r \in Requests : NodeAsks(r) \/ NodeCancels(r) \/ SignerAnswer(r) \/ Finish(r)
  \/ NodeConfuses \/ NodeClosesSigner \/ Handle \/ HandleReturns \/ Unwind
  \/ CloseSigner \/ CloseSignerReturns

\* The binding's goroutines run; a handler returns once its context has ended, and
\* may take for ever before (it may wait for a person).
SignerFairness ==
  /\ WF_signerVars(Handle \/ HandleReturns) /\ WF_signerVars(Unwind) /\ WF_signerVars(CloseSignerReturns)
  /\ \A r \in Requests : WF_signerVars(r \notin contexts /\ SignerAnswer(r)) /\ WF_signerVars(Finish(r))

SignerSpec == SignerInit /\ [][SignerNext]_signerVars /\ SignerFairness

-----------------------------------------------------------------------------
\* A SignCancel the binding has handled ends the context of the request it names,
\* however early it comes after the request.
CancelArrives == \A r \in heard : signRequest[r] = "signing" => r \notin contexts

\* No request outlives its binding: once Done is closed every request's context has ended.
NoneOutlives == loopServing = "done" => contexts = {}

\* Cancel functions are kept for requests in progress only.
NothingLeaks == \A r \in cancels : signRequest[r] \in {"signing", "sent"}

\* A request the node cancels, or whose binding ends, comes to its end.
CanceledEnds ==
  \A r \in Requests : (r \in heard \/ (loopServing = "done" /\ signRequest[r] # "none")) ~> signRequest[r] = "over"

\* Close returns, though handlers may be waiting.
CloseEnds == signerCloser = "waits" ~> signerCloser = "returned"

\* A cancel always finds its request, no handler outlives the binding with a live
\* context, and the map of requests holds only those in progress.
SignerCorrect == SignerTypeOK /\ CancelArrives /\ NoneOutlives /\ NothingLeaks

\* A canceled handler ends and Close returns.
SignerProgress == CanceledEnds /\ CloseEnds
=============================================================================
