--------------------------- MODULE ChannelPromise ---------------------------
(***************************************************************************)
(* What the client channels promise their callers, whatever pool, ring and *)
(* executor are behind them: an operation that a call began is owed one    *)
(* completion, with a buffer that is nobody else's meanwhile; what was     *)
(* read belongs to the application until it gives the buffer back; and a   *)
(* channel is destroyed once, after it was closed and when nothing of it   *)
(* is owed.  TransportClient implements it.                                *)
(***************************************************************************)
CONSTANTS
  Channels,     \* client channels
  Operations    \* their operations: records with a channel, an event and a buffer

VARIABLES
  owed,    \* operations that were begun and owe their completion
  given,   \* buffers that the application was given with what was read
  stage    \* of each channel: "open", "closing" or "closed"

vars == <<owed, given, stage>>

Buffered(d) == d.event # "connect"

Init ==
  /\ owed \subseteq {d \in Operations : ~Buffered(d)}
  /\ given = {}
  /\ stage = [c \in Channels |-> "open"]

\* A call begins operations on an open channel, each with a buffer that no other
\* operation works on and that the application does not read.
Begin(c) ==
  LET new == owed' \ owed IN
  /\ stage[c] = "open"
  /\ owed \subseteq owed' /\ new # {}
  /\ \A d \in new : d \in Operations /\ d.channel = c /\ Buffered(d) /\ d.buffer \notin given
  /\ \A d \in new, x \in owed' : Buffered(x) /\ x.buffer = d.buffer => x = d
  /\ UNCHANGED <<given, stage>>

\* An operation is completed, once.  What it read goes to the application; a
\* failed read closes the channel.
Complete(d) ==
  /\ d \in owed
  /\ stage[d.channel] # "closed"
  /\ owed' = owed \ {d}
  /\ \/ UNCHANGED <<given, stage>>
     \/ /\ d.event \in {"read", "receive"}
        /\ given' = given \union {d.buffer}
        /\ UNCHANGED stage
     \/ /\ d.event = "read" /\ stage[d.channel] = "open"
        /\ stage' = [stage EXCEPT ![d.channel] = "closing"]
        /\ UNCHANGED given

\* The application releases what it was given.
GiveBack(b) ==
  /\ b \in given
  /\ given' = given \ {b}
  /\ UNCHANGED <<owed, stage>>

Close(c) ==
  /\ stage[c] = "open"
  /\ stage' = [stage EXCEPT ![c] = "closing"]
  /\ UNCHANGED <<owed, given>>

\* The channel's memory and descriptor are gone.
Destroy(c) ==
  /\ stage[c] = "closing"
  /\ \A d \in owed : d.channel # c
  /\ stage' = [stage EXCEPT ![c] = "closed"]
  /\ UNCHANGED <<owed, given>>

Next ==
  \/ \E c \in Channels : Begin(c) \/ Close(c) \/ Destroy(c)
  \/ \E d \in owed : Complete(d)
  \/ \E b \in given : GiveBack(b)

Spec == Init /\ [][Next]_vars
=============================================================================
