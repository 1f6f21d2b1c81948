----------------------------- MODULE MCReports -----------------------------
\* Numbers at the edges of a byte, of a varint and of the signs, strings whose length takes one
\* byte and two, services whose arguments are of every type, and filters alone and in chains.
EXTENDS Reports

Short == <<0, 128>>
Long == [k \in 1..128 |-> 7]
Numbers == {0, 1, 127, 128, Mod32 \div 2, Mod32 - 1}
Integers32 == {0, 1, -1, 64, -65, (Mod32 \div 2) - 1, -(Mod32 \div 2)}
MCSample ==
    [string |-> {Short, <<>>, Long}, bool |-> BOOLEAN, uint32 |-> Numbers, enum |-> {0, 1, 3},
     fixed32 |-> {0, 1, Mod32 - 1}, float |-> {0, NegativeZero, Mod32 - 1},
     int32 |-> Integers32, sint32 |-> Integers32]
MCServices ==
    <<[name |-> <<1>>, key |-> 7, types |-> <<"int", "string">>],
      [name |-> <<2>>, key |-> 8, types |-> <<"bool", "float", "int", "bool_array", "int_array">>],
      [name |-> <<3>>, key |-> 9, types |-> <<"float_array", "string_array">>]>>
MCCalls ==
    <<{<<n, s>> : n \in Integers32, s \in {Short, <<>>}},
      {<<b, x, 1, <<b, FALSE>>, <<n>>>> : b \in BOOLEAN, x \in {0, NegativeZero}, n \in {0, -1}},
      {<<xs, ss>> : xs \in {<<>>, <<0, NegativeZero>>}, ss \in {<<>>, <<<<>>, Short>>}}>>

Window(kind, size, turn, first) == [kind |-> kind, window |-> size, every |-> turn, first |-> first]
Timed(kind, period) == [kind |-> kind, period |-> period]
ByDelta == [kind |-> "delta", delta |-> 16]
Without(x) == [kind |-> "filter_out", value |-> x]
Exponential2 == [kind |-> "exponential", alpha |-> 2, every |-> 1]
Either == [kind |-> "or", filters |-> <<Timed("throttle", 2), ByDelta>>]
Quadratic == [kind |-> "polynomial", coefficients |-> <<1, 2, 3>>]
MCChains ==
    {<<Window("median", 3, 1, 1)>>, <<Window("min", 2, 2, 1)>>, <<Window("max", 2, 3, 2)>>,
     <<Window("average", 2, 1, 1)>>, <<Window("average", 3, 2, 0)>>,
     <<Timed("throttle", 2)>>, <<Timed("debounce", 1)>>, <<Timed("heartbeat", 2)>>,
     <<Without(NaN), Timed("heartbeat", 1), ByDelta>>,
     <<Exponential2, Without(8)>>, <<[Exponential2 EXCEPT !.every = 2]>>,
     <<Either, Quadratic>>, <<ByDelta, Timed("debounce", 1), Window("average", 2, 1, 1)>>,
     <<Either, Timed("heartbeat", 2), Timed("debounce", 1)>>}
=============================================================================
