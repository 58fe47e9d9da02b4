------------------------ MODULE TransportDescriptors ------------------------
(***************************************************************************)
(* The channels of a transport and the descriptors they live on: sockets   *)
(* (socket.c), clients (client.c), servers (server.c) and files (file.c),  *)
(* their Dart channels, registries and factories, and the accept loop.     *)
(*                                                                         *)
(* The kernel hands out the lowest free descriptor, so a number is used    *)
(* again as soon as it is closed.  A completion carries a number only: it  *)
(* is delivered to whatever channel the registry has under it by then.     *)
(* Static buffers and the limit of the ring are subjects of TransportClient; *)
(* here a full ring only shows where it silences an accept loop.           *)
(***************************************************************************)
EXTENDS Integers, FiniteSets, FiniteSetsExt

CONSTANTS
  Channels,    \* channel objects; each is created once
  MaxFd,       \* bound of the model: descriptors 1 .. MaxFd; 0 is the standard input
  Openings,    \* what the application opens: a channel of a kind, with option bits
               \* asked for (flags) and refused by the kernel (refused)
  MaxPending   \* bound of the model: data operations under way for a channel

AllKinds == {"server", "unixserver", "datagram", "tcp", "unix", "udp", "file"}

ASSUME OpeningsAssumption ==
  \A r \in Openings : /\ r.channel \in Channels /\ r.kind \in AllKinds
                      /\ r.flags \subseteq 1 .. 29 /\ r.refused \subseteq 1 .. 29

VARIABLES
  table,       \* who opened each descriptor: a channel, or one of Nobody
  chan,        \* the channels
  registry,    \* the registries of the channels, by descriptor
  ring,        \* operations the kernel works on
  cq,          \* completions
  path,        \* the file of the unix sockets exists
  twice        \* two paths of the code closed the descriptor of one channel

vars == <<table, chan, registry, ring, cq, path, twice>>

\* "accepted": no channel has taken the connection yet; "lost": none will.
Nobody == {"free", "stdin", "accepted", "lost"}
None == "none"
Fds == 0 .. MaxFd

ASSUME ChannelsAssumption ==
  /\ IsFiniteSet(Channels) /\ Channels \intersect (Nobody \union {None}) = {}
  /\ MaxFd \in Nat

ASSUME BoundsAssumption == MaxFd >= 1 /\ MaxPending \in Nat \ {0}

Registries == {"servers", "connections", "clients", "files"}
Listening == {"server", "unixserver"}
Connecting == {"tcp", "unix"}
Unused == [stage |-> "none"]
Stages == {"open", "draining", "graceful", "cancelling", "finishing", "closed", "refused"}
Events == {"accept", "connect", "read", "write", "message"}
Operations == [event : Events, fd : Fds, of : Channels, cancelled : BOOLEAN,
               serial : 1 .. MaxPending + Cardinality(Channels)]

Used == {c \in Channels : chan[c] # Unused}

TypeOK ==
  /\ table \in [Fds -> Channels \union Nobody]
  /\ \A c \in Used :
       chan[c] \in [kind : AllKinds \union {"connection"}, fd : Fds, pending : Nat,
                    stage : Stages, server : Channels \union {None}, active : BOOLEAN,
                    closing : BOOLEAN, closer : BOOLEAN, graceful : BOOLEAN, up : BOOLEAN,
                    failing : BOOLEAN, gone : BOOLEAN, misset : BOOLEAN, deaf : BOOLEAN,
                    waits : SUBSET Channels, late : SUBSET Channels]
  /\ registry \in [Registries -> [Fds -> Channels \union {None}]]
  /\ ring \subseteq Operations
  /\ cq \subseteq [op : Operations, result : -1 .. MaxFd]
  /\ path \in BOOLEAN /\ twice \in BOOLEAN

-----------------------------------------------------------------------------
(* Sockets. *)

\* The order in which the options are set: bits of TRANSPORT_SOCKET_OPTION_...
TcpOptions == <<1, 2, 3, 4, 5, 6, 8, 9, 10, 11, 16, 21, 22, 23, 24, 25, 26, 27, 28, 29>>
UdpOptions == <<1, 2, 3, 4, 5, 6, 7, 9, 10, 11, 16, 17, 18, 19, 20>>
UnixOptions == <<1, 2, 5, 6, 8, 9, 10>>

\* The first option asked for and refused ends the function with its bit negated;
\* the descriptor stays open and its number is forgotten.
FirstRefused(options, flags, refused) ==
  LET bad == {i \in DOMAIN options : options[i] \in flags \intersect refused} IN
  IF bad = {} THEN 0 ELSE -(2 ^ options[Min(bad)])

transport_socket_create_tcp(r) == FirstRefused(TcpOptions, r.flags, r.refused)

\* REUSEADDR is set whether asked for or not.
transport_socket_create_udp(r) == FirstRefused(UdpOptions, r.flags \union {3}, r.refused)

transport_socket_create_unix_stream(r) == FirstRefused(UnixOptions, r.flags, r.refused)

\* The field of client and server that the result is kept in has eight bits.
initialization_error(result) ==
  LET byte == result % 256 IN IF byte < 128 THEN byte ELSE byte - 256

\* Bound of the model: an object is left for each connection that was accepted.
ObjectLeft == Cardinality({f \in Fds : table[f] = "accepted"}) < Cardinality(Channels \ Used)

FreeFds == {f \in Fds : table[f] = "free"}

\* system_shutdown_descriptor, whoever opened it.
Shut(f) == [table EXCEPT ![f] = "free"]

-----------------------------------------------------------------------------
(* Operations of the ring. *)

RegistryOf(k) ==
  CASE k \in Listening \union {"datagram"} -> "servers"
    [] k = "connection" -> "connections"
    [] k = "file" -> "files"
    [] OTHER -> "clients"

\* One more operation of channel c on descriptor f, told apart from those running.
Started(event, f, c) ==
  LET running == {o \in ring \union {x.op : x \in cq} : o.event = event /\ o.of = c} IN
  [event |-> event, fd |-> f, of |-> c, cancelled |-> FALSE,
   serial |-> Min(1 .. Cardinality(running) + 1 \ {o.serial : o \in running})]

\* A bug to tell apart: nothing is cancelled.
Faulty_cancel_by_fd(fds) == ring

\* transport_cancel_by_fd, for each of the descriptors.
transport_cancel_by_fd(fds) ==
  {IF o.fd \in fds THEN [o EXCEPT !.cancelled = TRUE] ELSE o : o \in ring}

-----------------------------------------------------------------------------
(* The factories. *)

\* connect() counts as pending; accept does not.
Connects(k) == IF k \in Connecting THEN 1 ELSE 0

NewChannel(k, f, s) ==
  [kind |-> k, fd |-> f, pending |-> Connects(k), stage |-> "open",
   server |-> s, active |-> TRUE, closing |-> FALSE, closer |-> FALSE, graceful |-> FALSE,
   up |-> k \notin Connecting, failing |-> FALSE, gone |-> FALSE, misset |-> FALSE,
   deaf |-> FALSE, waits |-> {}, late |-> {}]

\* The channel is registered, a client connects and a stream server accepts.
Register(c, k, f, misset) ==
  /\ chan' = [chan EXCEPT ![c] = [NewChannel(k, f, None) EXCEPT !.misset = misset]]
  /\ registry' = [registry EXCEPT ![RegistryOf(k)][f] = c]
  /\ ring' = ring \union {Started(event, f, c) :
                            event \in CASE k \in Connecting -> {"connect"}
                                        [] k \in Listening -> {"accept"}
                                        [] OTHER -> {}}

\* The factory sees an error, destroys the native object (with it the file of a
\* unix socket) and throws.
Refuse(c, k) ==
  /\ chan' = [chan EXCEPT ![c] = [NewChannel(k, 0, None) EXCEPT !.stage = "refused"]]
  /\ path' = (path /\ k \notin {"unix", "unixserver"})
  /\ UNCHANGED <<registry, ring>>

\* transport_..._initialize_... and the factory: socket, options, then bind and
\* listen, which may fail (the file of a unix socket must not exist).  An error
\* with a zero low byte is not seen: the channel is made for descriptor 0.
Initialize(r, k, result) ==
  LET c == r.channel IN
  /\ r.kind = k
  /\ chan[c] = Unused /\ ObjectLeft
  /\ \/ Refuse(c, k) /\ UNCHANGED table          \* no socket, or bind or listen fails
     \/ /\ FreeFds # {}
        /\ LET f == Min(FreeFds) IN
           \/ /\ result = 0
              /\ k = "unixserver" => ~path
              /\ path' = (path \/ k = "unixserver")
              /\ table' = [table EXCEPT ![f] = c]
              /\ Register(c, k, f, FALSE)
           \/ /\ result # 0
              /\ table' = [table EXCEPT ![f] = "lost"]
              /\ IF initialization_error(result) < 0
                 THEN Refuse(c, k)
                 ELSE Register(c, k, 0, TRUE) /\ UNCHANGED path
  /\ UNCHANGED <<cq, twice>>

transport_server_initialize_tcp(r) ==
  Initialize(r, "server", transport_socket_create_tcp(r))
transport_server_initialize_udp(r) ==
  Initialize(r, "datagram", transport_socket_create_udp(r))
transport_server_initialize_unix_stream(r) ==
  Initialize(r, "unixserver", transport_socket_create_unix_stream(r))
transport_client_initialize_tcp(r) ==
  Initialize(r, "tcp", transport_socket_create_tcp(r))
transport_client_initialize_udp(r) ==
  Initialize(r, "udp", transport_socket_create_udp(r))
transport_client_initialize_unix_stream(r) ==
  Initialize(r, "unix", transport_socket_create_unix_stream(r))
transport_file_open(r) == Initialize(r, "file", 0)

\* The application starts an operation on a channel that was given to it.
Operate(c, event) ==
  /\ c \in Used
  /\ LET ch == chan[c] IN
     /\ ch.stage = "open" /\ ch.up /\ ~ch.gone
     /\ event \in CASE ch.kind \in {"datagram", "udp"} -> {"message"}
                    [] ch.kind \in Listening -> {}
                    [] OTHER -> {"read", "write"}
     /\ ch.server # None => ~chan[ch.server].closing
     /\ ch.pending < MaxPending
     /\ ring' = ring \union {Started(event, ch.fd, c)}
     /\ chan' = [chan EXCEPT ![c].pending = @ + 1]
  /\ UNCHANGED <<table, registry, cq, path, twice>>

-----------------------------------------------------------------------------
(* Closing. *)

\* The start of close(): cancel and wait for what is pending, or wait only.
Closing(ch, graceful) ==
  [ch EXCEPT !.closing = TRUE,
             !.active = @ /\ graceful /\ ch.pending > 0,
             !.stage = IF ch.pending = 0 THEN "finishing"
                       ELSE IF graceful THEN "graceful" ELSE "cancelling"]

Cancelled(cs, graceful) ==
  IF graceful THEN ring
  ELSE transport_cancel_by_fd({chan[c].fd : c \in {x \in cs : chan[x].pending > 0}})

\* A bug to tell apart: a second close() does everything again.
Unguarded(ch) == ch.stage # "refused"

\* The first close(); another one only waits.
FirstClose(ch) == ch.stage = "open" /\ ~ch.gone

\* close() of a connection, client or file.
Close(c, graceful) ==
  /\ c \in Used
  /\ FirstClose(chan[c])
  /\ RegistryOf(chan[c].kind) # "servers"
  /\ chan' = [chan EXCEPT ![c] = Closing(@, graceful)]
  /\ ring' = Cancelled({c}, graceful)
  /\ UNCHANGED <<table, registry, cq, path, twice>>

\* close() of a server closes its connections first and waits for them: for the
\* whole close() of those it closes, for _closer of those closing already.
CloseServer(s, graceful) ==
  /\ s \in Used
  /\ FirstClose(chan[s]) /\ RegistryOf(chan[s].kind) = "servers"
  /\ LET mine == {x \in Used : chan[x].server = s /\ chan[x].stage # "closed"}
         fresh == {x \in mine : ~chan[x].closing}
     IN
     /\ chan' = [x \in Channels |->
                   IF x \in fresh THEN Closing(chan[x], graceful)
                   ELSE IF x # s THEN chan[x]
                   ELSE [chan[s] EXCEPT !.closing = TRUE, !.stage = "draining",
                                        !.graceful = graceful, !.waits = fresh, !.late = mine \ fresh]]
     /\ ring' = Cancelled(fresh, graceful)
  /\ UNCHANGED <<table, registry, cq, path, twice>>

Drained(s) ==
  /\ \A x \in chan[s].waits : chan[x].stage = "closed"
  /\ \A x \in chan[s].late : chan[x].pending = 0

\* The server goes on: what a datagram server has pending is cancelled.
CloseDrained(s) ==
  /\ s \in Used
  /\ chan[s].stage = "draining"
  /\ Drained(s)
  /\ chan' = [chan EXCEPT ![s] = Closing(@, chan[s].graceful)]
  /\ ring' = Cancelled({s}, chan[s].graceful)
  /\ UNCHANGED <<table, registry, cq, path, twice>>

GracefulTimeout(c) ==
  /\ c \in Used
  /\ chan[c].stage = "graceful" /\ ~chan[c].closer
  /\ chan' = [chan EXCEPT ![c].stage = "cancelling", ![c].active = FALSE]
  /\ ring' = transport_cancel_by_fd({chan[c].fd})
  /\ UNCHANGED <<table, registry, cq, path, twice>>

\* A bug to tell apart: close() does not wait for what is pending.
HastyQuiet(ch) == ch.stage \in {"finishing", "graceful", "cancelling"}

\* What close() waits for.
Quiet(ch) ==
  \/ ch.stage = "finishing"
  \/ ch.stage \in {"graceful", "cancelling"} /\ ch.closer

\* transport_client_destroy, transport_server_destroy: both remove the file.
destroy(k) == path /\ k \notin {"unix", "unixserver"}

\* The descriptor is closed, the registry's entry removed, the object destroyed.
Finish(c) ==
  /\ c \in Used
  /\ Quiet(chan[c])
  /\ table' = Shut(chan[c].fd)
  /\ registry' = [registry EXCEPT ![RegistryOf(chan[c].kind)][chan[c].fd] = None]
  /\ path' = destroy(chan[c].kind)
  /\ chan' = [chan EXCEPT ![c] = [@ EXCEPT !.stage = "closed", !.active = FALSE, !.graceful = FALSE,
                                            !.waits = {}, !.deaf = FALSE]]
  /\ twice' = (twice \/ chan[c].gone)
  /\ UNCHANGED <<ring, cq>>

\* The factory of unix clients, when connect() failed: it closes and destroys the
\* channel, which close() may be doing as well.
ConnectFailed(c) ==
  /\ c \in Used
  /\ chan[c].failing
  /\ table' = Shut(chan[c].fd)
  /\ registry' = [registry EXCEPT !["clients"][chan[c].fd] = None]
  /\ path' = destroy("unix")
  /\ chan' = [chan EXCEPT ![c].failing = FALSE, ![c].gone = TRUE]
  /\ twice' = (twice \/ chan[c].stage = "closed")
  /\ UNCHANGED <<ring, cq>>

-----------------------------------------------------------------------------
(* Completions. *)

\* The kernel ends an operation.  An accept takes a descriptor for the new
\* connection unless its socket was shut down; a unix client needs the file.
KernelComplete(o) ==
  /\ o \in ring
  /\ ring' = ring \ {o}
  /\ \/ /\ cq' = cq \union {[op |-> o, result |-> -1]}
        /\ UNCHANGED table
     \/ /\ o.event # "accept"
        /\ o.event = "connect" => o.fd # 0 /\ (chan[o.of].kind = "unix" => path)
        /\ cq' = cq \union {[op |-> o, result |-> IF o.event = "connect" THEN 0 ELSE 1]}
        /\ UNCHANGED table
     \/ /\ o.event = "accept"
        /\ o.fd # 0 /\ chan[o.of].stage # "closed" /\ FreeFds # {}
        /\ ObjectLeft
        /\ cq' = cq \union {[op |-> o, result |-> Min(FreeFds)]}
        /\ table' = [table EXCEPT ![Min(FreeFds)] = "accepted"]
  /\ UNCHANGED <<chan, registry, path, twice>>

\* A bug to tell apart: the next accept is only asked for after a success.
Faulty_rearms(result) == result > 0

\* notifyAccept asks for the next connection whatever became of this one.
rearms(result) == TRUE

\* notifyAccept of the server that the registry has under the descriptor: none,
\* or a closing one, forgets the connection.  The next accept may find the ring
\* full: the server then hears no more.
NotifyAccept(s, f, result) ==
  IF s = None \/ (s # None /\ chan[s].closing)
  THEN /\ table' = IF result > 0 THEN [table EXCEPT ![result] = "lost"] ELSE table
       /\ UNCHANGED <<chan, registry>>
       /\ ring' = ring
  ELSE \E full \in BOOLEAN :
       /\ IF result > 0
          THEN LET x == CHOOSE x \in Channels : chan[x] = Unused IN
                 /\ table' = [table EXCEPT ![result] = x]
                 /\ registry' = [registry EXCEPT !["connections"][result] = x]
                 /\ chan' = [chan EXCEPT ![x] = NewChannel("connection", result, s),
                                         ![s].deaf = @ \/ full]
          ELSE /\ chan' = [chan EXCEPT ![s].deaf = @ \/ full]
               /\ UNCHANGED <<table, registry>>
       /\ ring' = IF rearms(result) /\ ~full THEN ring \union {Started("accept", f, s)} ELSE ring

\* _pending, _active and _closer when an operation of the channel is over.
Counted(ch) ==
  LET last == ch.pending = 1 /\ ch.closing IN
  [ch EXCEPT !.pending = @ - 1, !.active = @ /\ ~last, !.closer = @ \/ last]

\* notifyConnect: the factory of unix clients acts on any error.
NotifyConnect(c, result) ==
  LET up == chan[c].active /\ result = 0 IN
  /\ chan' = [chan EXCEPT ![c] = [Counted(@) EXCEPT !.up = up,
                                    !.failing = ~up /\ chan[c].kind = "unix"]]
  /\ UNCHANGED <<table, registry, ring>>

\* notify, notifyData, notifyDatagram: a failed read closes a stream channel, a
\* failed write the server's side of one.
NotifyData(c, event, result) ==
  LET ch == chan[c]
      fatal == /\ result < 0 /\ ch.active /\ ~ch.closing
               /\ \/ ch.kind = "connection"
                  \/ ch.kind \in Connecting /\ event = "read"
  IN
  /\ chan' = [chan EXCEPT ![c] = IF fatal THEN Closing(Counted(@), FALSE) ELSE Counted(@)]
  /\ ring' = IF fatal /\ ch.pending > 1 THEN transport_cancel_by_fd({ch.fd}) ELSE ring
  /\ UNCHANGED <<table, registry>>

\* One completion in _process: event and descriptor select registry and channel.
Process(x) ==
  LET o == x.op
      c == registry[RegistryOf(chan[o.of].kind)][o.fd]
  IN
  /\ x \in cq
  /\ cq' = cq \ {x}
  /\ IF o.event = "accept" THEN NotifyAccept(c, o.fd, x.result)
     ELSE IF c = None THEN UNCHANGED <<table, chan, registry, ring>>
     ELSE IF o.event = "connect" THEN NotifyConnect(c, x.result)
     ELSE NotifyData(c, o.event, x.result)
  /\ UNCHANGED <<path, twice>>

-----------------------------------------------------------------------------
Init ==
  /\ table = [f \in Fds |-> IF f = 0 THEN "stdin" ELSE "free"]
  /\ chan = [c \in Channels |-> Unused]
  /\ registry = [r \in Registries |-> [f \in Fds |-> None]]
  /\ ring = {} /\ cq = {}
  /\ path = FALSE /\ twice = FALSE

Open(r) ==
  \/ transport_server_initialize_tcp(r)
  \/ transport_server_initialize_udp(r)
  \/ transport_server_initialize_unix_stream(r)
  \/ transport_client_initialize_tcp(r)
  \/ transport_client_initialize_udp(r)
  \/ transport_client_initialize_unix_stream(r)
  \/ transport_file_open(r)

Next ==
  \/ \E r \in Openings : Open(r)
  \/ \E c \in Channels, event \in Events : Operate(c, event)
  \/ \E c \in Channels, graceful \in BOOLEAN : Close(c, graceful) \/ CloseServer(c, graceful)
  \/ \E c \in Channels :
       CloseDrained(c) \/ GracefulTimeout(c) \/ Finish(c) \/ ConnectFailed(c)
  \/ \E o \in ring : KernelComplete(o)
  \/ \E x \in cq : Process(x)

Spec == Init /\ [][Next]_vars

\* The event loop runs what is due, completions in the order of the queue, so that
\* none is left behind; the kernel ends what it is asked to cancel.
Fairness ==
  /\ \A c \in Channels :
       /\ WF_vars(CloseDrained(c)) /\ WF_vars(GracefulTimeout(c)) /\ WF_vars(Finish(c))
       /\ WF_vars(\E o \in ring : o.of = c /\ o.cancelled /\ KernelComplete(o))
       /\ WF_vars(\E x \in cq : x.op.of = c /\ Process(x))

LiveSpec == Spec /\ Fairness

-----------------------------------------------------------------------------
(* Properties. *)

\* Descriptor 0 stands for a socket whose failure was not seen, and a descriptor
\* closed twice may be another's: the properties say what holds besides.  Two such
\* sockets close descriptor 0 twice, and the second time it may be another's too.
OneMisset == \A x, y \in Used : chan[x].misset /\ chan[y].misset => x = y
Proper(c) == /\ chan[c] # Unused /\ ~chan[c].misset /\ ~twice
             /\ chan[c].fd = 0 => OneMisset

\* The completion of an operation that a channel counts as pending is delivered
\* to this channel: its number is not used again, and its entry stays, until the
\* channel has heard of all its operations.
DeliveredToOwner ==
  \A o \in ring \union {x.op : x \in cq} :
    o.event # "accept" /\ Proper(o.of)
    => registry[RegistryOf(chan[o.of].kind)][o.fd] = o.of

\* A channel that is not closed owns its descriptor: nobody else closed it.
OwnsDescriptor ==
  \A c \in Channels :
    Proper(c) /\ chan[c].stage \notin {"closed", "refused"} /\ ~chan[c].gone
    => table[chan[c].fd] = c

\* A stream server that is not closing has an accept under way, whatever the last
\* one ended with, unless a full ring refused it.
AcceptUnderWay ==
  \A s \in Used :
    chan[s].kind \in Listening /\ ~chan[s].closing /\ chan[s].stage = "open" /\ Proper(s)
    => \/ chan[s].deaf
       \/ \E o \in ring \union {x.op : x \in cq} : o.event = "accept" /\ o.of = s

\* A closed server has no connection left but those that were closing already.
ConnectionsCloseFirst ==
  \A s \in Used : chan[s].stage = "closed" =>
    \A x \in Used : chan[x].server = s /\ chan[x].stage # "closed" => x \in chan[s].late

\* The file of a unix socket does not outlive the last unix server, whose
\* successor could not bind it.
FileRemoved ==
  path => \E s \in Used : chan[s].kind = "unixserver" /\ chan[s].stage \notin {"closed", "refused"}

\* A server hears every connection while it is open and leaves nothing behind when
\* it is closed.
ServersInv == TypeOK /\ AcceptUnderWay /\ ConnectionsCloseFirst /\ FileRemoved

\* Every close() comes to its end, a server's too, which waits for connections
\* that wait for their operations.
EveryCloseEnds ==
  \A c \in Channels :
    (c \in Used /\ chan[c].closing)
    ~> (chan[c].stage = "closed" \/ twice \/ \E x \in Used : chan[x].misset)

\* "unable to set socket option": a channel is only given to the application when
\* the options asked for are set.
OptionsReported == \A c \in Used : ~chan[c].misset
=============================================================================
