---- MODULE MCBgcp ----
(***************************************************************************)
(* A table with one parameter of each kind on two pages, values next to    *)
(* their limits, and data bytes that equal commands.                       *)
(***************************************************************************)
EXTENDS Bgcp, TLC

MCBase == 16

Descriptor(type, size, min, max, list) ==
    [type |-> type, size |-> size, min |-> min, max |-> max, list |-> list]

MCTable == (1 :> Descriptor("1B", 1, 0, 1, <<>>)) @@
           (2 :> Descriptor("8B", 1, 1, 3, <<>>)) @@
           (3 :> Descriptor("CONST_BIN", 4, 0, 1, <<>>)) @@
           (17 :> Descriptor("16B", 2, 14, 18, <<>>)) @@
           (18 :> Descriptor("8B_RANGE", 1, 0, 1, <<2, 9, 5>>)) @@
           (19 :> Descriptor("BIN", 1, 0, 1, <<>>))

MCStart == (1 :> 0) @@ (2 :> 1) @@ (3 :> <<1, 15, 0, 2>>) @@ (17 :> 18) @@ (18 :> 9) @@ (19 :> <<4>>)

\* 20 is not bound.
MCRequests == {Entry(BGCP_FUNC_R, p, <<>>) : p \in {3, 20}}
              \union {Entry(BGCP_FUNC_INC_RW, p, <<>>) : p \in {17, 18}}
              \union {Entry(BGCP_FUNC_DEC_RW, p, <<>>) : p \in {2, 18}}
              \union {Entry(BGCP_FUNC_W, 1, <<2>>), Entry(BGCP_FUNC_W, 17, <<15, 0>>),
                      Entry(BGCP_FUNC_W, 20, <<12, 15>>), Entry(BGCP_FUNC_RW, 1, <<2>>),
                      Entry(BGCP_FUNC_RW, 2, <<14>>), Entry(BGCP_FUNC_RW, 2, <<0>>),
                      Entry(BGCP_FUNC_RW, 17, <<12, 0>>), Entry(BGCP_FUNC_RW, 18, <<5>>),
                      Entry(BGCP_FUNC_RW, 19, <<13>>)}

\* A function, valid or not, and up to three bytes; and reads whose answer
\* does not fit into the queue.
MCNoise == {<<1, 1, 1, 3, 3, 3, 3>>} \union {<<f>> \o s : f \in {0, 2, 4, 5, 7}, s \in UNION {[1..k -> {0, 1, 2, 12, 13, 14, 15}] : k \in 0..3}}

====
