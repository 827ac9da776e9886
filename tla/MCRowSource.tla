---------------------------- MODULE MCRowSource ----------------------------
\* Instances of RowSource.  Limits of one and one make the cache evict on nearly every
\* lookup; three keys, one of them unknown to the dimension, meet every case of it.
EXTENDS RowSource

CONSTANTS k1, k2, k3, v1, v2

MCKeys == {k1, k2, k3}
MCValues == {v1, v2}
MCDimension == [k \in MCKeys |-> IF k = k1 THEN v1 ELSE IF k = k2 THEN v2 ELSE NoValue]

R(kept, k, matches) == [kept |-> kept, key |-> k, matches |-> matches]

Plain == <<R(TRUE, k1, <<>>), R(TRUE, k3, <<>>), R(FALSE, k1, <<>>), R(TRUE, k2, <<>>), R(TRUE, NoValue, <<>>)>>

Crossed == <<R(TRUE, k1, <<2, 0, 2>>), R(TRUE, k3, <<0, 0, 0>>), R(TRUE, k2, <<1, 3, 1>>)>>

S(rows, join, indexed, crosses, first, second) ==
    [rows |-> rows, join |-> join, indexed |-> indexed, crosses |-> crosses,
     asks |-> <<first, second>>]

Sources(rows, crosses, first, second) ==
    {S(rows, join, indexed, crosses, first, second) :
       join \in {"none", "inner", "left"}, indexed \in BOOLEAN}

\* One caller, past two passes: without a row that fits; without CROSS joins; with three.
OneCaller ==
    {S(<<R(TRUE, k3, <<>>)>>, "inner", TRUE, 0, 2, 0), S(<<>>, "none", FALSE, 0, 2, 0)}
        \cup Sources(Plain, 0, 10, 0) \cup Sources(Crossed, 3, 20, 0)

\* Two callers, past the end of the file.
Shared == Sources(Plain, 0, 3, 2)

MCCases == OneCaller \cup Shared

Racing == {S(<<R(TRUE, k1, <<2>>), R(TRUE, k2, <<1>>)>>, "none", FALSE, 1, 3, 3)}
============================================================================
