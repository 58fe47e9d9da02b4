---------------------------- MODULE MCMessagePack ----------------------------
(* MessagePack with numbers and lengths on both sides of every boundary.    *)
EXTENDS MessagePack

MCNumbers ==
    {Unsigned(<<n>>) : n \in {0, 127, 128, 255}} \cup
    {Unsigned(<<a, 0>>) : a \in {1, 128}} \cup {Unsigned(<<a, 255>>) : a \in {127, 255}} \cup
    {Unsigned(<<a, 255, 255, 255>>) : a \in {127, 255}} \cup
    {Unsigned(<<1, 0, 0, 0, 0>>)} \cup
    {<<127, 255, 255, 255, 255, 255, 255, 255>>, <<128, 0, 0, 0, 0, 0, 0, 0>>} \cup
    {Signed(<<n>>) : n \in {128, 223, 224}} \cup
    {Signed(<<128, 0>>), Signed(<<255, 127>>), Signed(<<255, 127, 255, 255>>)} \cup
    {Signed(<<255, a, 255, 255, 255>>) : a \in {127, 128}}

\* Those that tupleWriteInt writes as one value.
MCDartNumbers == MCNumbers \ {Unsigned(<<n>>) : n \in {128, 255}}
MCSizes == {0, 2, 15, 16, 72, 65536}
MCLengths == {0, 16, 31, 32, 256, 65535, 65536}
MCRepeats == {2, 8, 64, 72}
MCCapacities == {4, 400}
=============================================================================
