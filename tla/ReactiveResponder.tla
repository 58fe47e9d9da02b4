--------------------------- MODULE ReactiveResponder ---------------------------
(* How the responder cuts the bytes of a connection into frames              *)
(* (reactive/responder.dart, reader.dart, ReactiveReadBuffer).  Bytes arrive  *)
(* in segments of any length; the broker may start to close between two      *)
(* frames, also from a callback of the first one.                            *)
(*                                                                           *)
(* A unit stands for three bytes: the length field, the size by which the    *)
(* header exceeds what frameLength counts.  Unit <<n, i>> is unit i of the   *)
(* n-th frame.  Once the reader is out of step (cause), what it reads as a   *)
(* header is arbitrary and the model stops.                                  *)
EXTENDS Naturals, Sequences, FiniteSets

CONSTANTS Frames,    \* set of [type, body]: what the peer may send
          MaxFrames

HeaderSize == 3      \* reactiveFrameHeaderSize
LengthSize == 1      \* reactiveFrameLengthFieldSize

VARIABLES sent,      \* the frames the peer wrote
          line,      \* units that did not arrive yet
          data, readerIndex,
          handling,  \* inside the loop of handle()
          accepting, sending, activated,   \* of the broker
          handled, skipped,   \* history: frames given to the broker, refused frames
          cause      \* history: why the reader is out of step

brokerVars == <<accepting, sending, activated>>
vars == <<sent, line, data, readerIndex, handling, brokerVars, handled, skipped, cause>>

Init ==
    /\ sent = <<>> /\ line = <<>> /\ data = <<>> /\ readerIndex = 0 /\ handling = FALSE
    /\ accepting = TRUE /\ sending = TRUE /\ activated = FALSE
    /\ handled = <<>> /\ skipped = {} /\ cause = "none"

\* ReactiveWriter: the length field counts what follows it.
Size(f) == HeaderSize + f.body
frameLength(f) == Size(f) - LengthSize

PeerWrites(f) ==
    /\ Len(sent) < MaxFrames
    /\ sent' = Append(sent, f)
    /\ line' = line \o [i \in 1..Size(f) |-> <<Len(sent) + 1, i>>]
    /\ UNCHANGED <<data, readerIndex, handling, brokerVars, handled, skipped, cause>>

\* handle() of one segment, up to its loop.
Handle(length) ==
    /\ ~handling /\ cause = "none" /\ length \in 1..Len(line)
    /\ line' = SubSeq(line, length + 1, Len(line))
    /\ IF sending THEN data' = data \o SubSeq(line, 1, length) /\ handling' = TRUE
       ELSE UNCHANGED <<data, handling>>
    /\ UNCHANGED <<sent, readerIndex, brokerVars, handled, skipped, cause>>

Reset ==
    /\ handling /\ ~(readerIndex < Len(data) /\ sending)
    /\ data' = <<>> /\ readerIndex' = 0 /\ handling' = FALSE
    /\ UNCHANGED <<sent, line, brokerVars, handled, skipped, cause>>

\* A bug to tell apart: what was read of an incomplete frame stays read.
FaultyRestore(available) == readerIndex' = readerIndex + available /\ handling' = FALSE /\ UNCHANGED data

\* An incomplete frame is read again when more has arrived.
Restore(available) == UNCHANGED <<data, readerIndex>> /\ handling' = FALSE

Current == data[readerIndex + 1][1]
Readable == Len(data) - readerIndex
InLoop == handling /\ readerIndex < Len(data) /\ sending /\ cause = "none"

HeaderMissing ==
    /\ InLoop /\ Readable < HeaderSize
    /\ Restore(Readable)
    /\ UNCHANGED <<sent, line, brokerVars, handled, skipped, cause>>

AtFrame(types) == InLoop /\ Readable >= HeaderSize /\ sent[Current].type \in types

\* shrink() at the end of an iteration.
Shrink(count) == data' = SubSeq(data, readerIndex + count + 1, Len(data)) /\ readerIndex' = 0

\* Frames the broker refuses while it closes (SETUP also when it is activated):
\* the loop goes on behind the header.
Refused(type) == type \in {"setup", "channel", "payload"} /\ (~accepting \/ (type = "setup" /\ activated))

Refuse ==
    /\ AtFrame({"setup", "channel", "payload"}) /\ Refused(sent[Current].type)
    /\ readerIndex' = readerIndex + HeaderSize
    /\ skipped' = skipped \cup {Current}
    /\ cause' = IF sent[Current].body = 0 THEN cause ELSE "refused"
    /\ UNCHANGED <<sent, line, data, handling, brokerVars, handled>>

Complete == Readable >= Size(sent[Current])

\* A whole frame is handed over to the broker or to the keep alive timer.
Dispatch ==
    /\ AtFrame({"setup", "lease", "keepalive", "request", "channel", "payload", "cancel", "error"})
    /\ ~Refused(sent[Current].type) /\ Complete
    /\ handled' = Append(handled, Current)
    /\ Shrink(Size(sent[Current]))
    /\ UNCHANGED <<sent, line, handling, accepting, sending, skipped, cause>>
    /\ \/ sent[Current].type = "setup" /\ activated' \in BOOLEAN   \* the codecs may be unknown
       \/ sent[Current].type # "setup" /\ UNCHANGED activated

Incomplete ==
    /\ AtFrame({"lease", "keepalive", "request", "payload", "error"})
    /\ ~Refused(sent[Current].type) /\ ~Complete
    /\ Restore(Readable)
    /\ UNCHANGED <<sent, line, brokerVars, handled, skipped, cause>>

\* readSetupFrame throws on an incomplete frame; of REQUEST_CHANNEL only the
\* count is tested, and the missing payload throws later.
Torn ==
    /\ AtFrame({"setup", "channel"}) /\ ~Refused(sent[Current].type) /\ ~Complete
    /\ IF sent[Current].type = "channel" /\ Readable = HeaderSize
       THEN Restore(Readable) /\ UNCHANGED cause
       ELSE /\ readerIndex' = Len(data) /\ handling' = FALSE /\ cause' = "torn" /\ UNCHANGED data
    /\ UNCHANGED <<sent, line, brokerVars, handled, skipped>>

\* Frames of other types are skipped, by frameLength less the header.
Unknown ==
    /\ AtFrame({"other"})
    /\ LET count == IF frameLength(sent[Current]) > HeaderSize THEN frameLength(sent[Current]) - HeaderSize ELSE 0
       IN  IF Readable < HeaderSize + count
           THEN Restore(Readable) /\ UNCHANGED <<skipped, cause>>
           ELSE /\ Shrink(HeaderSize + count) /\ UNCHANGED handling
                /\ skipped' = skipped \cup {Current}
                /\ cause' = IF HeaderSize + count = Size(sent[Current]) THEN cause ELSE "short"
    /\ UNCHANGED <<sent, line, brokerVars, handled>>

\* broker.close() and its end.
BrokerCloses == accepting /\ accepting' = FALSE
                /\ UNCHANGED <<sent, line, data, readerIndex, handling, sending, activated, handled, skipped, cause>>
BrokerClosed == ~accepting /\ sending /\ sending' = FALSE
                /\ UNCHANGED <<sent, line, data, readerIndex, handling, accepting, activated, handled, skipped, cause>>

Next ==
    \/ \E f \in Frames : PeerWrites(f)
    \/ \E length \in 1..Len(line) : Handle(length)
    \/ Reset \/ HeaderMissing \/ Refuse \/ Dispatch \/ Incomplete \/ Torn \/ Unknown
    \/ BrokerCloses \/ BrokerClosed

Spec == Init /\ [][Next]_vars
-----------------------------------------------------------------------------
\* The next unit to read begins a frame.
InStep == readerIndex < Len(data) => data[readerIndex + 1][2] = 1

\* Frames reach the broker in the order of the peer, none twice.
HandledInOrder ==
    /\ \A i, j \in DOMAIN handled : i < j => handled[i] < handled[j]
    /\ {handled[i] : i \in DOMAIN handled} \cup skipped = 1..(Len(handled) + Cardinality(skipped))

\* handle() returns only when what is left is less than a frame.
NoneLeft == ~handling /\ readerIndex < Len(data) => Readable < Size(sent[Current])

\* However the bytes are cut into segments the responder stays in step: it
\* hands over every complete frame, in order, once, and reads on at the start
\* of the next one.  It falls out of step by a refused frame with a body, by a
\* SETUP or REQUEST_CHANNEL cut in two, or by a frame of a type it does not
\* know, and by nothing else.
FramesInSync == HandledInOrder /\ (cause = "none" => InStep /\ NoneLeft)
=============================================================================
