---------------------------- MODULE ReactiveStream ----------------------------
(* One direction of a reactive stream: the requester that sends payloads     *)
(* (reactive/requester.dart), the connection, and the peer that puts the     *)
(* fragments together again and grants credits (broker.dart, stream.dart).   *)
(* An action is what the isolate runs between two turns of its event loop.   *)
(* The connection keeps the order of what is written and may break.          *)
EXTENDS Integers, Sequences, SequencesExt, FiniteSetsExt

CONSTANTS Sizes,         \* of the first, second, ... encoded payload, in units of data
          FrameMaxSize, FragmentSize, ChunksLimit,
          Infinity,      \* reactiveInfinityRequestsCount
          Grants,        \* counts of REQUEST_N frames
          MaxGrants

ASSUME StreamAssumption ==
    /\ FrameMaxSize \in Nat /\ FragmentSize \in Nat \ {0} /\ ChunksLimit \in Nat \ {0}
    /\ Infinity \in Nat \ {0} /\ Grants \subseteq 1..Infinity /\ \A i \in DOMAIN Sizes : Sizes[i] \subseteq Nat
    /\ MaxGrants \in Nat

VARIABLES input,      \* events of _input not yet delivered to _send
          paused,     \* how often _subscription is paused
          pending, requested, accepting, sending,
          buffer,     \* frames of ReactiveRequesterBuffer
          fragments,  \* _currentFragments and the rest of the payload they are of
          callback,   \* onDone of the write under way
          grace,      \* the graceful close()
          closed,     \* _subscription is cancelled
          thrown,     \* disassemble threw a RangeError
          connected, wire, back,
          peer,       \* the stream at the other end, and how often it requested
          accepted,   \* history: payloads accepted
          wanted,     \* history: those of them that are not empty
          delivered,  \* history: payloads given to onPayload of the peer
          granted, ignored   \* history: credits that arrived, and the ignored of them

queueVars == <<input, paused, pending, requested, accepting>>
fragmentVars == <<fragments, callback, thrown>>
closeVars == <<sending, grace, closed>>
netVars == <<connected, wire, back>>
peerVars == <<peer, delivered>>
history == <<accepted, wanted, granted, ignored>>
vars == <<queueVars, buffer, fragmentVars, closeVars, netVars, peerVars, history>>

fragmenting == fragments.active
NoFragments == [active |-> FALSE, left |-> <<>>, number |-> 0, count |-> 0, last |-> FALSE]

Init ==
    /\ input = <<>> /\ paused = 1 /\ pending = 0 /\ requested = 0 /\ accepting = TRUE
    /\ buffer = <<>> /\ fragments = NoFragments /\ callback = "none" /\ thrown = FALSE
    /\ sending = TRUE /\ grace = "none" /\ closed = FALSE
    /\ connected = TRUE /\ wire = <<>> /\ back = <<>>
    /\ peer = [live |-> TRUE, accepting |-> TRUE, requests |-> 0, fragments |-> <<>>] /\ delivered = <<>>
    /\ accepted = <<>> /\ wanted = <<>> /\ granted = 0 /\ ignored = 0
-----------------------------------------------------------------------------
(* Frames.  Data is a sequence of units, each with its payload and position; *)
(* payloads with data are numbered.                                          *)

Payload(id, size, last) == [id |-> id, data |-> [i \in 1..size |-> <<id, i>>], last |-> last, frame |-> "payload"]
ControlFrame(kind) == [id |-> 0, data |-> <<>>, last |-> TRUE, frame |-> kind]

\* The flag FOLLOW is only set on a frame without COMPLETE.
writePayloadFrame(data, completed, follow) ==
    [kind |-> "payload", data |-> data, completed |-> completed, follow |-> ~completed /\ follow]

Frame(p) ==
    IF p.frame = "payload" THEN writePayloadFrame(p.data, p.last, FALSE)
    ELSE [kind |-> p.frame, data |-> <<>>, completed |-> FALSE, follow |-> FALSE]

\* sublist throws when the last fragment would be shorter than the others.
Divides(data) == Len(data) % FragmentSize = 0

disassemble(data) ==
    [i \in 1..(Len(data) \div FragmentSize) |-> SubSeq(data, ((i - 1) * FragmentSize) + 1, i * FragmentSize)]

Write(frames) == wire' = IF connected THEN wire \o frames ELSE wire

\* onDone is only called by a write that succeeds.
Await(done) == callback' = IF connected THEN done ELSE "none"
-----------------------------------------------------------------------------
(* Scheduling: what a producer calls.                                        *)

Resumed == IF paused > 0 THEN paused - 1 ELSE 0

\* A bug to tell apart: payloads wait for the next REQUEST_N.
FaultySchedule(p) ==
    /\ input' = Append(input, p) /\ pending' = pending + 1
    /\ accepting' = ~p.last
    /\ requested' = IF p.last /\ requested # Infinity THEN requested + 1 ELSE requested
    /\ UNCHANGED <<paused, buffer, fragmentVars, closeVars, netVars, peerVars, granted, ignored>>

\* The end of a stream comes with a credit of its own.
Schedule(p) ==
    /\ input' = Append(input, p) /\ pending' = pending + 1
    /\ accepting' = ~p.last
    /\ requested' = IF p.last /\ requested # Infinity THEN requested + 1 ELSE requested
    /\ paused' = IF requested' > 0 /\ ~fragmenting /\ sending THEN Resumed ELSE paused
    /\ UNCHANGED <<buffer, fragmentVars, closeVars, netVars, peerVars, granted, ignored>>

SchedulePayload(size, complete) ==
    /\ accepting /\ Len(accepted) < Len(Sizes) /\ size \in Sizes[Len(accepted) + 1]
    /\ LET p == Payload(Len(wanted) + 1, size, complete)
       IN  /\ accepted' = Append(accepted, p)
           /\ wanted' = IF size = 0 THEN wanted ELSE Append(wanted, p)
           /\ Schedule(p)

ScheduleControl(kind) == accepting /\ Schedule(ControlFrame(kind)) /\ UNCHANGED <<accepted, wanted>>
-----------------------------------------------------------------------------
(* _send, called for one event of _input in each turn.                       *)

\* close() behind its graceful wait.
Closed ==
    /\ sending' = FALSE /\ requested' = 0 /\ buffer' = <<>> /\ closed' = TRUE
    /\ accepting' = FALSE
    /\ fragments' = [fragments EXCEPT !.active = FALSE]

\* A bug to tell apart: every batch ends like the last one.
FaultyFollow(chain, i, chunks) == i # chunks

\* Every frame but the last of the last batch.
Follow(chain, i, chunks) == chain.number + chunks < chain.count \/ i # chunks

\* The next batch of a chain of fragments.
fragmentate(chain) ==
    LET chunks == Min({ChunksLimit, Len(chain.left)})
        follow(i) == Follow(chain, i, chunks)
    IN  /\ Write(buffer \o [i \in 1..chunks |->
               writePayloadFrame(chain.left[i], ~follow(i) /\ chain.last, follow(i))])
        /\ Await("next")
        /\ fragments' = [chain EXCEPT !.left = SubSeq(@, chunks + 1, Len(@)), !.number = @ + chunks]
        /\ buffer' = <<>>
        /\ UNCHANGED pending

SendFragmented(p) ==
    /\ Len(p.data) > FrameMaxSize
    /\ paused' = paused + 1
    /\ IF Divides(p.data)
       THEN LET all == disassemble(p.data)
                chain == [active |-> TRUE, left |-> all, number |-> 0, count |-> Len(all), last |-> p.last]
            IN  \/ buffer = <<>> /\ fragmentate(chain)
                \/ /\ buffer # <<>> /\ fragments' = chain
                   /\ Write(buffer) /\ Await("fragmentate")
                   /\ pending' = pending - Len(buffer) /\ buffer' = <<>>
       ELSE fragments' = [fragments EXCEPT !.active = TRUE] /\ UNCHANGED <<wire, callback, pending, buffer>>
    /\ thrown' = (thrown \/ ~Divides(p.data))
    /\ UNCHANGED <<requested, accepting, closeVars>>

SendLast(p) ==
    /\ Len(p.data) <= FrameMaxSize /\ p.last
    /\ Write(Append(buffer, Frame(p)))
    /\ Closed
    /\ UNCHANGED <<paused, pending, callback, thrown, grace>>

Flushes(frames, credit) ==
    \/ Len(frames) >= ChunksLimit
    \/ pending - Len(frames) = 0
    \/ credit = 0

SendNext(p) ==
    /\ Len(p.data) <= FrameMaxSize /\ ~p.last
    /\ LET frames == Append(buffer, Frame(p))
           credit == IF requested = Infinity THEN Infinity ELSE requested - 1
       IN  /\ requested' = credit
           /\ paused' = IF credit = 0 THEN paused + 1 ELSE paused
           /\ IF Flushes(frames, credit)
              THEN Write(frames) /\ pending' = pending - Len(frames) /\ buffer' = <<>>
              ELSE buffer' = frames /\ UNCHANGED <<wire, pending>>
    /\ UNCHANGED <<accepting, fragmentVars, closeVars>>

Send ==
    /\ input # <<>> /\ paused = 0 /\ ~closed
    /\ input' = Tail(input)
    /\ IF sending
       THEN LET p == Head(input) IN SendFragmented(p) \/ SendLast(p) \/ SendNext(p)
       ELSE UNCHANGED <<paused, pending, requested, accepting, buffer, fragmentVars, closeVars, wire>>
    /\ UNCHANGED <<connected, back, peerVars, history>>
-----------------------------------------------------------------------------
(* onDone of the writes of a chain.                                           *)

\* A bug to tell apart: the payloads behind the fragments are forgotten.
FaultyContinue ==
    /\ fragments' = [fragments EXCEPT !.active = FALSE]
    /\ requested' = IF requested = Infinity THEN requested ELSE requested - 1
    /\ UNCHANGED paused

Continue ==
    /\ fragments' = [fragments EXCEPT !.active = FALSE]
    /\ requested' = IF requested = Infinity THEN requested ELSE requested - 1
    /\ paused' = IF requested' > 0 THEN Resumed ELSE paused

fragmentateNext ==
    \/ fragments.number < fragments.count /\ fragmentate(fragments) /\ UNCHANGED <<paused, requested, accepting, closeVars>>
    \/ /\ fragments.number >= fragments.count /\ callback' = "none"
       /\ \/ fragments.last /\ Closed /\ UNCHANGED <<paused, grace>>
          \/ ~fragments.last /\ Continue /\ UNCHANGED <<accepting, buffer, closeVars>>
       /\ UNCHANGED <<pending, wire>>

WriteDone ==
    /\ \/ callback = "fragmentate" /\ fragmentate(fragments) /\ UNCHANGED <<paused, requested, accepting, closeVars>>
       \/ callback = "next" /\ fragmentateNext
    /\ UNCHANGED <<input, thrown, connected, back, peerVars, history>>
-----------------------------------------------------------------------------
(* Closing: by the peer's CANCEL or COMPLETE, or by broker.close, which may   *)
(* wait.  No send completes _closer, since _closing is never set.             *)

Close ==
    /\ grace = "none" /\ grace' = "over"
    /\ Closed
    /\ UNCHANGED <<input, paused, pending, callback, thrown, netVars, peerVars, history>>

CloseGracefully ==
    /\ grace = "none" /\ pending > 0
    /\ accepting' = FALSE /\ grace' = "waiting"
    /\ UNCHANGED <<input, paused, pending, requested, buffer, fragmentVars, sending, closed, netVars, peerVars, history>>

\* A bug to tell apart: the timeout stops the sending and nothing else.
FaultyTimeout ==
    /\ grace = "waiting" /\ grace' = "stuck" /\ sending' = FALSE
    /\ UNCHANGED <<queueVars, buffer, fragmentVars, closed, netVars, peerVars, history>>

Timeout ==
    /\ grace = "waiting"
    /\ grace' = IF fragmenting THEN "stuck" ELSE "timedout"
    /\ sending' = FALSE
    /\ UNCHANGED <<queueVars, buffer, fragmentVars, closed, netVars, peerVars, history>>

CloseEnds ==
    /\ grace = "timedout" /\ grace' = "over"
    /\ Closed
    /\ UNCHANGED <<input, paused, pending, callback, thrown, netVars, peerVars, history>>

\* A write fails: _terminate closes the broker unless it is closing, and
\* what is on its way is lost.
Break ==
    /\ connected
    /\ connected' = FALSE /\ wire' = <<>> /\ back' = <<>> /\ callback' = "none"
    /\ IF grace = "none"
       THEN Closed /\ grace' = "over"
       ELSE UNCHANGED <<requested, accepting, buffer, fragments, closeVars>>
    /\ UNCHANGED <<input, paused, pending, thrown, peerVars, history>>
-----------------------------------------------------------------------------
(* Frames of the peer: REQUEST_N resumes the requester, CANCEL and COMPLETE   *)
(* close it.                                                                  *)

Sum(count) ==
    IF requested = Infinity \/ count >= Infinity \/ requested + count > Infinity THEN Infinity ELSE requested + count

Resume(count) ==
    /\ granted' = granted + count
    /\ IF ~sending \/ fragmenting
       THEN ignored' = ignored + count /\ UNCHANGED <<requested, paused>>
       ELSE requested' = Sum(count) /\ paused' = Resumed /\ UNCHANGED ignored
    /\ UNCHANGED <<accepting, buffer, fragments, closeVars>>

HandleBack ==
    /\ back # <<>> /\ back' = Tail(back)
    /\ \/ Head(back).kind = "request" /\ Resume(Head(back).count)
       \/ /\ Head(back).kind = "end" /\ Closed
          /\ grace' = IF grace = "none" THEN "over" ELSE grace
          /\ UNCHANGED <<paused, granted, ignored>>
    /\ UNCHANGED <<input, pending, callback, thrown, connected, wire, peerVars, accepted, wanted>>

\* The peer: requester.request, and a CANCEL or COMPLETE of its own.
Request(count) ==
    /\ connected /\ peer.live /\ peer.accepting /\ peer.requests < MaxGrants
    /\ peer' = [peer EXCEPT !.requests = @ + 1]
    /\ back' = Append(back, [kind |-> "request", count |-> count])
    /\ UNCHANGED <<queueVars, buffer, fragmentVars, closeVars, connected, wire, delivered, history>>

EndByPeer ==
    /\ connected /\ peer.live /\ peer.accepting
    /\ peer' = [peer EXCEPT !.accepting = FALSE]
    /\ back' = Append(back, [kind |-> "end", count |-> 0])
    /\ UNCHANGED <<queueVars, buffer, fragmentVars, closeVars, connected, wire, delivered, history>>

onPayloadFragment(data, follow) ==
    IF follow THEN peer' = [peer EXCEPT !.fragments = @ \o data] /\ UNCHANGED delivered
    ELSE peer' = [peer EXCEPT !.fragments = <<>>] /\ delivered' = Append(delivered, peer.fragments \o data)

\* broker.receive, handle and cancel of the peer.  Empty data is no payload,
\* and nothing follows the frame that ends a stream.
Receive ==
    /\ wire # <<>> /\ wire' = Tail(wire) /\ peer.live
    /\ LET f == Head(wire)
       IN  \/ /\ f.kind = "payload" /\ f.completed
              /\ peer' = [peer EXCEPT !.live = FALSE, !.accepting = FALSE, !.fragments = <<>>]
              /\ delivered' = IF f.data = <<>> THEN delivered ELSE Append(delivered, peer.fragments \o f.data)
           \/ /\ f.kind = "payload" /\ ~f.completed
              /\ IF f.data = <<>> THEN UNCHANGED peerVars ELSE onPayloadFragment(f.data, f.follow)
           \/ f.kind = "error" /\ UNCHANGED peerVars
           \/ /\ f.kind = "cancel"
              /\ peer' = [peer EXCEPT !.live = FALSE, !.accepting = FALSE] /\ UNCHANGED delivered
    /\ UNCHANGED <<queueVars, buffer, fragmentVars, closeVars, connected, back, history>>

Next ==
    \/ \E size \in UNION Range(Sizes), complete \in BOOLEAN : SchedulePayload(size, complete)
    \/ \E kind \in {"error", "cancel"} : ScheduleControl(kind)
    \/ Send \/ WriteDone
    \/ Close \/ CloseGracefully \/ Timeout \/ CloseEnds \/ Break
    \/ HandleBack \/ Receive \/ EndByPeer
    \/ \E count \in Grants : Request(count)

Spec == Init /\ [][Next]_vars

\* The event loop delivers events and continuations, the transport completes
\* its writes, and the timer of a graceful close expires.
LiveSpec ==
    /\ Spec
    /\ WF_vars(Send) /\ WF_vars(WriteDone) /\ WF_vars(Timeout) /\ WF_vars(CloseEnds)
-----------------------------------------------------------------------------
TypeOK ==
    /\ paused \in 0..1 /\ pending \in Nat /\ requested \in -1..Infinity
    /\ callback \in {"none", "fragmentate", "next"}
    /\ grace \in {"none", "waiting", "timedout", "stuck", "over"}

\* What the peer's onPayload gets is what the producer gave to payload(), in
\* the same order, each payload whole and once, however fragments, chunks,
\* credits and a close interleave; only empty payloads are left out.
DeliveredWhole ==
    /\ Len(delivered) <= Len(wanted)
    /\ \A i \in DOMAIN delivered : delivered[i] = wanted[i].data

Ordinary(payloads) == Cardinality({i \in DOMAIN payloads : ~payloads[i].last})

\* Payloads that were taken from the queue and paid for.
Charged == Ordinary(accepted) - Ordinary(input) - (IF fragmenting /\ ~fragments.last THEN 1 ELSE 0)

\* Every credit is spent on one payload, is still there, or came while a
\* payload was fragmented and was ignored.  The end of the stream adds one,
\* which a payload before it may spend.
CreditsAccounted ==
    sending /\ ~thrown /\ requested # Infinity =>
        /\ requested + Charged - (granted - ignored) \in 0..1
        /\ accepting => requested + Charged = granted - ignored

\* A requester with credit and payloads is not paused.
NoLostCredit ==
    sending /\ ~fragmenting /\ requested > 0 /\ input # <<>> => paused = 0

\* Frames wait in the buffer for more payloads only after a payload was
\* fragmented (which is never taken out of _pending).
HeldBack ==
    sending /\ ~fragmenting /\ input = <<>> /\ buffer # <<>> => fragments.count > 0

\* The flow control of the requester: credits are neither lost nor spent
\* twice, no pause outlives its reason, and what has credit is written.
CreditsInv == TypeOK /\ CreditsAccounted /\ NoLostCredit /\ HeldBack

\* Credit does not lie idle: payloads that wait get it, also behind a chain of
\* fragments, until the requester closes (a broken connection closes it).
CreditIsUsed == []<>(requested <= 0 \/ input = <<>> \/ ~sending \/ grace = "waiting" \/ thrown)

\* A graceful close of the requester ends, unless its timeout falls into a
\* chain of fragments.
CloseSettles == grace = "waiting" ~> (grace = "over" \/ fragments.count > 0 \/ thrown)
=============================================================================
