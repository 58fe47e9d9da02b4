----------------------------- MODULE MCReactive -----------------------------
(* A stream of the reactive protocol and the reader of its frames, one at a  *)
(* time (part).                                                              *)
EXTENDS ReactiveStream

CONSTANTS Frames, MaxFrames

ASSUME FramesAssumption == \A f \in Frames : f.body \in Nat

VARIABLES part, sent, line, data, readerIndex, handling, brokerAccepting, brokerSending,
          activated, handled, skipped, cause

readerVars == <<sent, line, data, readerIndex, handling, brokerAccepting, brokerSending,
                activated, handled, skipped, cause>>

MCSizes == <<{1, 6}, {0, 3, 6}, {1}>>

MCFrames == [type : {"setup", "channel"}, body : {3}] \cup [type : {"lease", "keepalive"}, body : {2}]
              \cup [type : {"request"}, body : {1}] \cup [type : {"payload", "other"}, body : 0..2]
              \cup [type : {"cancel"}, body : {0}] \cup [type : {"error"}, body : {2}]

R == INSTANCE ReactiveResponder WITH accepting <- brokerAccepting, sending <- brokerSending

ReactiveInit == part \in {"stream", "reader"} /\ Init /\ R!Init

ReactiveNext ==
    /\ UNCHANGED part
    /\ \/ part = "stream" /\ Next /\ UNCHANGED readerVars
       \/ part = "reader" /\ R!Next /\ UNCHANGED vars

\* Fair as LiveSpec of the stream is: no action of it is enabled in the reader's behaviours.
ReactiveSpec ==
    /\ ReactiveInit /\ [][ReactiveNext]_<<part, vars, readerVars>>
    /\ WF_vars(part = "stream" /\ Send) /\ WF_vars(part = "stream" /\ WriteDone)
    /\ WF_vars(part = "stream" /\ Timeout) /\ WF_vars(part = "stream" /\ CloseEnds)
-----------------------------------------------------------------------------
\* The responder hands over every complete frame, in order and once, however
\* the bytes are cut into segments, unless a frame was refused, cut or unknown.
FramesInSync == R!FramesInSync
=============================================================================
