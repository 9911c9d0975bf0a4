------------------------------ MODULE MCStream ------------------------------
(* Bytes of 4 values: shorts of 0..15, longs of 0..255.  The sender is     *)
(* 1.0.3.2 at port 6; tag 9 does not fit a short.                   *)
EXTENDS Stream

MCTag    == {-2, 9}
MCSender == [addr |-> 1 + 3 * 16 + 2 * 64, port |-> 1 + 2 * 4]
=============================================================================
