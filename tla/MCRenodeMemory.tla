--------------------------- MODULE MCRenodeMemory ---------------------------
(* Eight bytes in blocks of three, the last one partly used: scalar and    *)
(* unit-stride accesses from every start over one, two and three blocks,   *)
(* gathers and scatters with overlapping elements, masks, a latency of up  *)
(* to two cycles, and addresses at and beyond the end.                     *)
EXTENDS RenodeMemory

Access(kind, addresses, mask, el_size, latency, inst) ==
    [kind |-> kind, addresses |-> addresses, mask |-> mask, el_size |-> el_size,
     latency |-> latency, inst |-> inst]

Scalar ==
    {Access(k, <<a>>, <<TRUE>>, n, 0, TRUE) :
        k \in {"load", "store"}, a \in {0, 1, 2, 5}, n \in {1, 2}}
    \cup {Access(k, <<a>>, <<TRUE>>, n, 0, FALSE) :
        k \in {"load", "store"}, a \in {0, 1, 4, 6, 7, 8, 15}, n \in {4, 7}}
    \cup {Access("load", <<2>>, <<TRUE>>, 2, t, i) : t \in {1, 2}, i \in BOOLEAN}

Vector ==
    {Access(k, <<a>>, m, 2, t, TRUE) :
        k \in {"load", "store"}, a \in {1, 4}, t \in {0, 2},
        m \in {<<TRUE, FALSE, TRUE>>, <<TRUE, TRUE>>}}
    \cup {Access(k, <<a, b, c>>, m, 2, 1, TRUE) :
        k \in {"load", "store"}, a \in {2}, b \in {1, 7, 3}, c \in {2, 5},
        m \in {<<TRUE, TRUE, TRUE>>, <<TRUE, FALSE, TRUE>>}}

\* A row that wraps around into the memory behind elements that are masked off.
Wrapping ==
    {Access(k, <<14>>, <<FALSE, m, TRUE>>, 1, 0, TRUE) :
        k \in {"load", "store"}, m \in BOOLEAN}

MCRequests == Scalar \cup Vector \cup Wrapping
=============================================================================
