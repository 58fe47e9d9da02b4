----------------------- MODULE MCTransportDescriptors -----------------------
(* Option bits with an error that fits the eight bits of initialization_error *)
(* (SO_RCVBUF, 5) and one that does not (TCP_NODELAY, 28).                    *)
EXTENDS TransportDescriptors

CONSTANTS c1, c2, c3

Plain(cs, kinds) == [channel : cs, kind : kinds, flags : {{}}, refused : {{}}]
Failing(c, k, bit) == [channel |-> c, kind |-> k, flags |-> {4, bit}, refused |-> {bit}]

\* Nothing is claimed of what follows a descriptor closed twice.
Sound == ~twice

\* The third channel is left for connections.
MCOpenings ==
  Plain({c1}, {"server", "unixserver", "datagram"}) \union Plain({c2}, {"unix", "file"})
  \union {Failing(c2, "tcp", 28), Failing(c2, "udp", 5)}
=============================================================================
