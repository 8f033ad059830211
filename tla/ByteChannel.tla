---------------------------- MODULE ByteChannel ----------------------------
(***************************************************************************)
(* What one direction of the relay promises: the bytes given to the writer    *)
(* are the bytes taken from the reader, in order and once each; at most       *)
(* Size of them are held back; and it only reports success when none is.      *)
(* A byte is its position in the reader's stream.                             *)
(***************************************************************************)
EXTENDS Naturals, Sequences

CONSTANT Size          \* bytes the direction may hold
VARIABLES taken,       \* bytes taken from the reader
          delivered,   \* the bytes given to the writer
          finished     \* the direction reported success

Init == taken = 0 /\ delivered = <<>> /\ finished = FALSE

Take == /\ ~finished
        /\ \E n \in 1 .. Size :
              /\ taken + n <= Len(delivered) + Size
              /\ taken' = taken + n
        /\ UNCHANGED <<delivered, finished>>

Give == /\ ~finished
        /\ \E n \in 1 .. Size :
              /\ Len(delivered) + n <= taken
              /\ delivered' = delivered \o [j \in 1 .. n |-> Len(delivered) + j]
        /\ UNCHANGED <<taken, finished>>

Finish == /\ ~finished /\ Len(delivered) = taken
          /\ finished' = TRUE
          /\ UNCHANGED <<taken, delivered>>

Spec == Init /\ [][Take \/ Give \/ Finish]_<<taken, delivered, finished>>
=============================================================================
