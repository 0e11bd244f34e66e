------------------------------ MODULE MCI2cAsync ------------------------------
(***************************************************************************)
(* Small instances of I2cAsync for TLC.                                    *)
(***************************************************************************)
EXTENDS I2cAsync

\* Two readings with a delay, as in the test "I2C read operation".
TwoReads == << Op(TRUE, FALSE, TRUE, TRUE), Op(TRUE, FALSE, TRUE, TRUE) >>

\* A plain writing, an operation with wrong arguments, a plain reading.
MixedOps == << Op(TRUE, TRUE, FALSE, FALSE), Op(FALSE, TRUE, FALSE, FALSE),
               Op(TRUE, FALSE, FALSE, TRUE) >>
=============================================================================
