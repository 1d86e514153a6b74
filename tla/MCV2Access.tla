----------------------------- MODULE MCV2Access -----------------------------
(* Sixty-four addresses with five regions: one that begins at address 0,    *)
(* two that touch and differ in permission, one of code, and one that ends  *)
(* at the last address, so that accesses wrap out of it.                    *)
EXTENDS V2Access

MCRegions ==
    <<[start |-> 0,  length |-> 4,  perm |-> ReadExecute],
      [start |-> 8,  length |-> 12, perm |-> ReadWrite],
      [start |-> 20, length |-> 8,  perm |-> {"read"}],
      [start |-> 36, length |-> 8,  perm |-> ReadExecute],
      [start |-> 48, length |-> 16, perm |-> ReadWrite]>>

Data == {"read", "write"}
Bases == {0, 4, 8, 10, 12, 16, 18, 20, 24, 40, 48, 56, 60, 62, 63}

Scalars ==
    [op : {"load"}, base : Address, offset : {-3, 0, 5}, size : {1, 2, 4}, perm : {"read"}]
    \cup [op : {"store"}, base : Address, offset : {-3, 0, 5}, size : {1, 2, 4}, perm : {"write"}]
    \cup [op : {"fsw"}, base : Address, offset : {0}, size : {4}, perm : {"write"}]
    \cup [op : {"flh"}, base : Address, offset : {0, 5}, size : {2}, perm : {"read"}, fs : {0, 1}]
    \cup [op : {"fsh"}, base : Address, offset : {0, 5}, size : {2}, perm : {"write"}, fs : {0, 1}]
    \cup [op : {"jal", "jalr"}, base : Address, offset : {0}, size : {4}, perm : {"execute"}]
    \cup [op : {"tile"}, base : Address, size : {4, 8}, vl : {0, 1, 3}, perm : Data]

Masks == {{0, 1, 2, 3}, {0, 2}, {1, 3}, {3}}
Common(op, bases, strides, sizes, fields) ==
    [op : {op}, base : bases, stride : strides, size : sizes, fields : fields,
     vl : {0, 1, 3}, vstart : {0, 1}, vm : {0}, mask : Masks, perm : Data,
     lmul8 : {8}, sew : {1}]

\* Two index registers of four bytes.
IndexRegs == {[r \in 0 .. 1 |-> [b \in 0 .. RegBytes - 1 |-> (k * (r * RegBytes + b)) % ByteValues]]
                : k \in {0, 1, 3}}

Vectors ==
    Common("strided", Bases, {-30, -4, -1, 0, 2, 4, 21, 30, 40}, {1, 4}, {1})
    \cup Common("segment", Bases, {0}, {2}, {1, 3})
    \cup Common("segment_strided", Bases, {-5, 4, 20, 42}, {2}, {2})
    \cup {[c EXCEPT !.lmul8 = 1, !.sew = 4] : c \in Common("strided", {8}, {1}, {1, 4}, {1})}
    \cup [op : {"mask"}, base : Bases, vl : {0, 1, 9}, vstart : {0, 2}, vm : {1}, mask : {{}}, perm : Data]
    \cup [op : {"register"}, base : Bases, regs : {1, 2}, size : {1, 4}, vstart : {0, 2}, vm : {1},
           mask : {{}}, vl : {3}, perm : Data]
    \cup [op : {"indexed"}, base : Bases, size : {2}, fields : {1, 2}, vl : {0, 3}, vstart : {0, 1},
           vm : {0, 1}, mask : Masks, perm : Data, index : IndexRegs, indexWidth : {1, 2}]

MCInstructions == Scalars \cup Vectors
=============================================================================
