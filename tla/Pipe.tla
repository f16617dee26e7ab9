--------------------------------- MODULE Pipe ---------------------------------
(***************************************************************************)
(* What one direction of a stream promises to the two applications that    *)
(* use it: the bytes written come out once each, in the order they were    *)
(* written and unchanged, and the end is reported after the last of them.  *)
(*                                                                         *)
(* The abstract specification of Stream.                                   *)
(***************************************************************************)
EXTENDS Naturals, Sequences

CONSTANT Byte

VARIABLES written,   \* the bytes handed to Write, in order
          finished,  \* TRUE once Write has been called with fin
          taken,     \* the bytes the reader has got, in order
          ended      \* TRUE once the reader has been told of the end

vars == <<written, finished, taken, ended>>

Init == /\ written = <<>>
        /\ finished = FALSE
        /\ taken = <<>>
        /\ ended = FALSE

\* Data, an end, or both are added by the writer.
Put == /\ ~finished
       /\ written' \in Seq(Byte)
       /\ SubSeq(written', 1, Len(written)) = written
       /\ finished' \in BOOLEAN
       /\ UNCHANGED <<taken, ended>>

\* The reader gets the next bytes that were written.
Get == /\ \E n \in Len(taken) + 1 .. Len(written) : taken' = SubSeq(written, 1, n)
       /\ UNCHANGED <<written, finished, ended>>

\* The reader learns of the end, having got everything.
End == /\ finished
       /\ taken = written
       /\ ended' = TRUE
       /\ UNCHANGED <<written, finished, taken>>

Next == Put \/ Get \/ End

Spec == Init /\ [][Next]_vars
===============================================================================
