-------------------------- MODULE MCPersistentStores --------------------------
(***************************************************************************)
(* A small instance of PersistentStores for TLC.                           *)
(***************************************************************************)
EXTENDS PersistentStores

File(m, n, i) == [magic |-> m, bin_size |-> n, image |-> i]

\* Good files of two chunks and of one, a header whose length is too short, one
\* of length 0, a file that is too large, and one of another kind.
MCFiles == { File(TRUE, 3, <<"a", "b", "a">>), File(TRUE, 1, <<"b">>),
             File(TRUE, 2, <<"a", "b", "a">>), File(TRUE, 0, <<>>),
             File(TRUE, 4, <<"a", "b", "a", "b">>), File(FALSE, 1, <<"b">>) }

MCFactory == <<"b", "b", "a">>
=============================================================================
