------------------------------ MODULE MCSession ------------------------------
(* Binaries for the runs of Session and SimpleDemo: the command for the first *)
(* just fits the buffer, that for the second is one character too long.       *)
EXTENDS SimpleDemo, TLC

CONSTANTS m1, m2

MCCommandLength == m1 :> kBufferSize - 1 @@ m2 :> kBufferSize

=============================================================================
