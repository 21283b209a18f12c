------------------------------ MODULE Transport ------------------------------
(***************************************************************************)
(* astral/channel over a byte stream: the senders and receivers of every   *)
(* format, and the loops Collect and Handle on top of Receive, Handle with *)
(* the goroutine that closes the channel when its context ends.  The       *)
(* stream is the sequence of the parts the senders write: the type and the *)
(* payload of a binary frame, the stamp before them in the canonical form, *)
(* a JSON document, a line of text.  An object is its type and what its    *)
(* value means to a codec: "line" holds a line break, "long" exceeds the   *)
(* width of its length prefix, "odd" has a length that base64 pads, "nan"  *)
(* has no JSON form and "nested" holds an object of a type that is not     *)
(* registered where it is received.                                        *)
(***************************************************************************)
EXTENDS Naturals, Sequences

LOCAL INSTANCE SequencesExt

CONSTANTS MaxSent, MaxErrors

Objects == [type : {"string"}, body : {"ok", "line", "long"}] \cup [type : {"blob"}, body : {"ok", "odd"}]
      \cup [type : {"struct"}, body : {"ok", "nan", "nested"}] \cup [type : {"unparsed", "foreign"}, body : {"odd"}]

Nothing == [type |-> "none", body |-> "none"]

VARIABLES
  conf,              \* the formats, AllowUnparsed, the loop, and whether the transport is an io.Closer
  stream, streamEnd, \* parts on their way; "open", "closed" after the last part, or "torn" inside one
  put,               \* the objects whose Send returned nil
  latch,             \* streamErr: "none", "eof" or "error"
  arrived, late,     \* the objects Receive returned, and how many of them after an error
  errors,            \* errors a caller of Receive was given
  returned,          \* what the loop returned: "none", "nil", "error", "ctx" or "stop"
  ended,             \* the context has ended
  retErr, watch,     \* Handle's goroutine: "waits", "closes" or "gone"
  shutHere           \* the receiving end has closed the transport

transportVars == <<conf, stream, streamEnd, put, latch, arrived, late, errors, returned, ended, retErr, watch, shutHere>>

-----------------------------------------------------------------------------
(* The formats newSender and newReceiver know.                             *)

FormatPairs == {<<f, f>> : f \in {"binary", "json", "text", "canonical", "base64", "render", "other"}}
      \cup {<<"base64", "text">>}

CanSend(f)    == f # "other"                               \* SenderError otherwise
CanReceive(f) == f \in {"binary", "json", "text", "canonical"}    \* ReceiverError otherwise

Configs == [out : {f[1] : f \in FormatPairs}, in : {f[2] : f \in FormatPairs}, unparsed : BOOLEAN,
            loop : {"receive", "collect", "handle"}, closer : BOOLEAN]

TransportInit ==
  /\ conf \in Configs /\ <<conf.out, conf.in>> \in FormatPairs
  /\ stream = << >> /\ streamEnd = "open" /\ put = << >>
  /\ latch = "none" /\ arrived = << >> /\ late = 0 /\ errors = 0
  /\ returned = "none" /\ ended = FALSE /\ retErr = "nil" /\ shutHere = FALSE
  /\ watch = IF conf.loop = "handle" THEN "waits" ELSE "gone"

-----------------------------------------------------------------------------
(* Senders.  A frame is built whole and written with one Write.            *)

\* A text sender writes a TextMarshaler as text, and anything else in base64.
AsText(o) == conf.out = "text" /\ o.type \in {"string", "blob"}

JSONRefuses(o) == o.type = "unparsed" \/ o.body = "nan"

Refused(o) ==
  CASE conf.out = "json"              -> JSONRefuses(o)
    [] conf.out = "render"            -> FALSE
    [] ~CanSend(conf.out)             -> TRUE
    [] OTHER                          -> o.body = "long" /\ ~AsText(o)

Part(p, o) == [part |-> p, obj |-> o]

BinaryFrame(o)    == <<Part("type", o), Part("payload", o)>>
CanonicalFrame(o) == <<Part("stamp", o), Part("type", o), Part("payload", o)>>
JSONFrame(o)      == <<Part("document", o)>>
RenderFrame(o)    == <<Part("rendered", o)>>

\* MarshalText does not escape a line break: the rest of the text is a line of its own.
TextFrame(o) ==
  IF AsText(o) /\ o.body = "line" THEN <<Part("line", [o EXCEPT !.body = "head"]), Part("rest", o)>>
  ELSE <<Part("line", o)>>

Frame(o) ==
  CASE conf.out = "binary"    -> BinaryFrame(o)
    [] conf.out = "canonical" -> CanonicalFrame(o)
    [] conf.out = "json"      -> JSONFrame(o)
    [] conf.out = "render"    -> RenderFrame(o)
    [] OTHER                  -> TextFrame(o)

RefusedHalfway(o) == stream' = stream \o SubSeq(Frame(o), 1, 1)
SendRefused(o) == UNCHANGED stream

ReceiverVars == <<latch, arrived, late, errors, returned, ended, retErr, watch, shutHere>>

SendObject(o) ==
  /\ streamEnd = "open" /\ Len(put) < MaxSent
  /\ IF Refused(o) THEN SendRefused(o) /\ UNCHANGED put
     ELSE stream' = stream \o Frame(o) /\ put' = Append(put, o)
  /\ UNCHANGED <<conf, streamEnd, ReceiverVars>>

\* The transport breaks inside the frame: Send returns the error of Write.
SendTorn(o) ==
  /\ streamEnd = "open" /\ Len(put) < MaxSent /\ ~Refused(o)
  /\ \E n \in 0..(Len(Frame(o)) - 1) : stream' = stream \o SubSeq(Frame(o), 1, n)
  /\ streamEnd' = "torn"
  /\ UNCHANGED <<conf, put, ReceiverVars>>

PeerCloses == streamEnd = "open" /\ streamEnd' = "closed" /\ UNCHANGED <<conf, stream, put, ReceiverVars>>

-----------------------------------------------------------------------------
(* Receivers.                                                              *)

Registered(o) == o.type \in {"string", "struct"}      \* astral.New finds a blueprint

\* A binary frame is read whole before it is decoded.
BinaryDecode(o) ==
  IF o.type = "blob" \/ conf.unparsed \/ (Registered(o) /\ o.body # "nested") THEN o ELSE Nothing

JSONDecode(o)      == IF Registered(o) /\ o.body # "nested" THEN o ELSE Nothing
CanonicalDecode(o) == IF Registered(o) /\ o.body # "nested" THEN o ELSE Nothing

\* base64.Decode's count is dropped, so a value that reads all there is also
\* reads the bytes of the padding.
Base64Decode(o) == IF o.type = "blob" /\ o.body = "odd" THEN [o EXCEPT !.body = "padded"] ELSE o
ParseText(p)    == IF p.part = "line" THEN p.obj ELSE Nothing        \* "type header missing"
TextDecode(p)   ==
  LET o == ParseText(p) IN
  IF o.type # "blob" /\ ~(Registered(o) /\ o.body # "nested") THEN Nothing
  ELSE IF AsText(o) THEN o ELSE Base64Decode(o)

\* The parts one Receive takes off the stream.  The canonical receiver stops
\* after a type nobody registered.
Taken ==
  CASE conf.in = "binary"    -> 2
    [] conf.in = "canonical" -> IF Len(stream) > 1 /\ ~Registered(stream[2].obj) THEN 2 ELSE 3
    [] OTHER                 -> 1

Aligned == CASE conf.in = "binary"    -> stream[1].part = "type" /\ stream[2].part = "payload"
             [] conf.in = "canonical" -> stream[1].part = "stamp" /\ stream[2].part = "type"
             [] OTHER                 -> TRUE

Decoded ==
  IF ~Aligned THEN Nothing
  ELSE CASE conf.in = "binary"    -> BinaryDecode(stream[1].obj)
         [] conf.in = "canonical" -> CanonicalDecode(stream[2].obj)
         [] conf.in = "json"      -> JSONDecode(stream[1].obj)
         [] OTHER                 -> TextDecode(stream[1])

\* What a stream that has ended is to Receive.  Stamp.ReadFrom compares what
\* it could not read with the magic number, and reports that instead of io.EOF.
EndError ==
  CASE conf.in = "canonical" /\ stream = << >> -> {"error"}
    [] streamEnd = "closed" /\ stream = << >>  -> {"eof"}
    [] conf.in = "text"                        -> {"eof"}
    [] conf.in = "json"                        -> {"error"}
    [] OTHER                                   -> {"eof", "error"}

\* json.Decoder and bufio.Reader may hold what was read before the transport was closed.
MayRead == ~shutHere \/ conf.in \in {"json", "text"}

Latch(err) == latch' = IF conf.in # "binary" /\ CanReceive(conf.in) THEN err ELSE latch

-----------------------------------------------------------------------------
(* Collect and Handle: what they make of an error, and of an object.       *)

CollectReturns(err) == returned' = (IF err = "eof" THEN "nil" ELSE "error") /\ UNCHANGED retErr

HandleReturns(err) ==
  \/ /\ err = "eof" /\ returned' = "nil" /\ UNCHANGED retErr
  \/ /\ err = "error"
     /\ retErr' = IF retErr = "nil" THEN "error" ELSE retErr
     /\ returned' = retErr'

Failed(err) ==
  /\ errors' = errors + 1
  /\ CASE conf.loop = "receive" -> UNCHANGED <<returned, retErr>>
       [] conf.loop = "collect" -> CollectReturns(err)
       [] conf.loop = "handle"  -> HandleReturns(err)

\* The collector may refuse the object; a handler returns nothing.
Delivered(o) ==
  /\ arrived' = Append(arrived, o) /\ late' = IF errors > 0 THEN late + 1 ELSE late
  /\ \/ UNCHANGED returned
     \/ conf.loop = "collect" /\ returned' = "stop"
  /\ UNCHANGED <<latch, errors, retErr>>

Calling == returned = "none" /\ errors < MaxErrors
Elsewhere == UNCHANGED <<conf, streamEnd, put, ended, watch, shutHere>>

ReceiveNext ==
  /\ Calling /\ CanReceive(conf.in) /\ latch = "none" /\ MayRead /\ Len(stream) >= Taken
  /\ stream' = SubSeq(stream, Taken + 1, Len(stream))
  /\ \/ Decoded # Nothing /\ Delivered(Decoded)
     \/ Decoded = Nothing /\ Latch("error") /\ Failed("error") /\ UNCHANGED <<arrived, late>>
  /\ Elsewhere

ReceiveEnd ==
  /\ Calling /\ CanReceive(conf.in) /\ latch = "none" /\ ~shutHere
  /\ streamEnd # "open" /\ Len(stream) < Taken
  /\ stream' = << >>
  /\ \E err \in EndError : Latch(err) /\ Failed(err)
  /\ UNCHANGED <<arrived, late>> /\ Elsewhere

ReceiveLatched ==
  /\ Calling /\ latch # "none" /\ Failed(latch)
  /\ UNCHANGED <<stream, latch, arrived, late>> /\ Elsewhere

ReceiveClosed ==
  /\ Calling /\ CanReceive(conf.in) /\ latch = "none" /\ shutHere
  /\ Latch("error") /\ Failed("error")
  /\ UNCHANGED <<stream, arrived, late>> /\ Elsewhere

ReceiveUnsupported ==
  /\ Calling /\ ~CanReceive(conf.in) /\ Failed("error")
  /\ UNCHANGED <<stream, latch, arrived, late>> /\ Elsewhere

-----------------------------------------------------------------------------
(* The context of Handle, and the goroutine that waits for it.             *)

HandleCtxEnds ==
  /\ conf.loop = "handle" /\ ~ended /\ ended' = TRUE
  /\ UNCHANGED <<conf, stream, streamEnd, put, latch, arrived, late, errors, returned, retErr, watch, shutHere>>

WatchSwaps ==
  /\ watch = "waits" /\ ended
  /\ retErr' = IF retErr = "nil" THEN "ctx" ELSE retErr
  /\ watch' = "closes"
  /\ UNCHANGED <<conf, stream, streamEnd, put, latch, arrived, late, errors, returned, ended, shutHere>>

CloseTransport == shutHere' = (shutHere \/ conf.closer)      \* ErrCloseUnsupported otherwise

WatchCloses ==
  /\ watch = "closes" /\ watch' = "gone" /\ CloseTransport
  /\ UNCHANGED <<conf, stream, streamEnd, put, latch, arrived, late, errors, returned, ended, retErr>>

WatchLeaves ==
  /\ watch = "waits" /\ returned # "none" /\ watch' = "gone"
  /\ UNCHANGED <<conf, stream, streamEnd, put, latch, arrived, late, errors, returned, ended, retErr, shutHere>>

ReceiveStep == ReceiveNext \/ ReceiveEnd \/ ReceiveLatched \/ ReceiveClosed \/ ReceiveUnsupported

TransportNext ==
  \/ \E o \in Objects : SendObject(o) \/ SendTorn(o)
  \/ PeerCloses \/ ReceiveStep
  \/ HandleCtxEnds \/ WatchSwaps \/ WatchCloses \/ WatchLeaves

\* The goroutine that receives runs on, and so does the one that watches the context.
TransportFairness == WF_transportVars(ReceiveStep) /\ WF_transportVars(WatchSwaps) /\ WF_transportVars(WatchCloses)
TransportSpec == TransportInit /\ [][TransportNext]_transportVars /\ TransportFairness

-----------------------------------------------------------------------------
Bodies == {o.body : o \in Objects} \cup {"head", "padded"}
TransportTypeOK ==
  /\ conf \in Configs /\ streamEnd \in {"open", "closed", "torn"} /\ latch \in {"none", "eof", "error"}
  /\ put \in Seq(Objects) /\ \A k \in DOMAIN arrived : arrived[k].body \in Bodies
  /\ late \in 0..Len(arrived) /\ errors \in 0..MaxErrors
  /\ returned \in {"none", "nil", "error", "ctx", "stop"} /\ retErr \in {"nil", "error", "ctx"}
  /\ watch \in {"waits", "closes", "gone"} /\ ended \in BOOLEAN /\ shutHere \in BOOLEAN

\* An object a receiver has no blueprint for, or no form.
Foreign(o) ==
  \/ o.type = "blob" /\ conf.in \in {"json", "canonical"}
  \/ (o.type \in {"unparsed", "foreign"} \/ o.body = "nested") /\ ~(conf.in = "binary" /\ conf.unparsed)

\* An object whose form in the format is not its own: a line break in a text,
\* a blob in base64 that needs padding.
Mangled(o) == \/ conf.out = "text" /\ o.type = "string" /\ o.body = "line"
              \/ conf.out = "base64" /\ o.type = "blob" /\ o.body = "odd"

Own(objects) == SelectSeq(objects, LAMBDA o : ~Foreign(o))

Sound == LET bad == {k \in DOMAIN put : Mangled(put[k])}
         IN  IF bad = {} THEN put ELSE SubSeq(put, 1, (CHOOSE k \in bad : \A j \in bad : k <= j) - 1)

(***************************************************************************)
(* What Receive returns, error or not in between, is what was sent: the    *)
(* objects whose Send returned nil, unchanged and in order, without those  *)
(* the receiver has no blueprint for, whatever Sends failed meanwhile, up  *)
(* to the first whose form the format cannot carry.  A clean end is        *)
(* reported only when nothing that was sent before it is missing.  A       *)
(* receiver other than the binary one returns nothing after its first      *)
(* error.  Handle returns the context's error only when the context ended. *)
(***************************************************************************)
TransportCorrect ==
  /\ TransportTypeOK
  /\ IsPrefix(arrived, Own(put)) \/ IsPrefix(Own(Sound), arrived)
  /\ returned = "nil" /\ streamEnd = "closed" => IsPrefix(Own(Sound), arrived)
  /\ conf.in # "binary" => late = 0
  /\ returned = "ctx" => ended
  /\ shutHere => ended /\ conf.closer

(***************************************************************************)
(* Collect and Handle return once the stream has ended, and Handle once    *)
(* its context has, when the transport can be closed.                      *)
(***************************************************************************)
TransportEnds ==
  ((conf.loop # "receive" /\ streamEnd # "open") \/ (ended /\ conf.closer)) ~> (returned # "none")

(***************************************************************************)
(* Collect "receives objects from the channel until EOF": over a stream    *)
(* that its peer ended after a whole frame, and whose objects are all      *)
(* known, it returns no error.                                             *)
(***************************************************************************)
CleanEndIsEOF ==
  conf.loop = "collect" /\ returned = "error" /\ CanReceive(conf.in) /\ streamEnd = "closed"
    => \E k \in DOMAIN put : Foreign(put[k]) \/ Mangled(put[k])
=============================================================================
