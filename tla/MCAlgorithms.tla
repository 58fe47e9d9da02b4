---------------------------- MODULE MCAlgorithms ----------------------------
(* The pure algorithms: MessagePack and hashing, one at a time (part).       *)
EXTENDS MCMessagePack

CONSTANTS HashLengths, Pieces, MaxUpdates, MaxResets, SecretSizes, Alignments

VARIABLES part, call, algo, stream, mode, updates, resets

hashVars == <<call, algo, stream, mode, updates, resets>>

H == INSTANCE Hashing WITH Lengths <- HashLengths

ASSUME HashingInputs == H!HashingAssumption

\* Every length of the short paths, and around the blocks of the long one
\* (9 stripes with the shortest secret, 16 with the default one).
MCHashLengths == (0..260) \cup {319, 320, 321, 575, 576, 577, 640, 641, 1023, 1024, 1025, 1089, 1153}

MCPieces == [none |-> {}, XXH32 |-> {0, 1, 15, 16, 17, 33}, XXH64 |-> {0, 1, 31, 32, 33, 66},
             murmur32 |-> 0..5, XXH3 |-> {0, 1, 63, 192, 257, 577}]

AlgorithmsInit ==
    /\ part \in {"tuples", "hashes"} /\ Init /\ H!Init
    /\ part = "hashes" => writer = "native" /\ size = 4   \* one state of the other part

AlgorithmsNext ==
    /\ UNCHANGED part
    /\ \/ part = "tuples" /\ Next /\ UNCHANGED hashVars
       \/ part = "hashes" /\ H!Next /\ UNCHANGED vars

AlgorithmsSpec == AlgorithmsInit /\ [][AlgorithmsNext]_<<part, vars, hashVars>>
-----------------------------------------------------------------------------
\* However the input is cut into pieces, and whatever the state was used for
\* before, the digest of a stream is the hash of the bytes in one call.
StreamEqualsOneShot == H!StreamEqualsOneShot

\* A hash in one call reads its input and nothing else, at every length, and
\* no build of XXH3 adds, scrambles or seeds anything differently.
HashesInv == H!ReadsExact /\ H!BuildsAgree
=============================================================================
