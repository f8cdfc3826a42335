------------------------------ MODULE ByteStream ------------------------------
(***************************************************************************)
(* What one direction of a redirected TCP connection promises, with bytes *)
(* counted: the writer appends bytes and then ends the stream; the reader *)
(* takes in a growing prefix of what was written, and learns of the end   *)
(* only once it has every byte.  The reader may be reset at any time,     *)
(* after which it takes in nothing more.                                  *)
(***************************************************************************)
EXTENDS Naturals

CONSTANT N   \* bytes the writer may write

VARIABLES written,   \* bytes written so far
          eof,       \* the writer has ended the stream
          received,  \* length of the prefix the reader holds
          finished,  \* the reader has seen the end of the stream
          reset      \* the reader has been reset

vars == <<written, eof, received, finished, reset>>

Init == written = 0 /\ eof = FALSE /\ received = 0 /\ finished = FALSE /\ reset = FALSE

Write == /\ ~eof /\ written < N
         /\ written' = written + 1
         /\ UNCHANGED <<eof, received, finished, reset>>

End == /\ ~eof
       /\ eof' = TRUE
       /\ UNCHANGED <<written, received, finished, reset>>

\* the reader takes in one or more further bytes, in order
Receive == /\ ~reset /\ received < written
           /\ received' \in received + 1 .. written
           /\ UNCHANGED <<written, eof, finished, reset>>

\* the reader learns of the end, after the last byte
Finish == /\ ~reset /\ ~finished /\ eof /\ received = written
          /\ finished' = TRUE
          /\ UNCHANGED <<written, eof, received, reset>>

Reset == /\ ~reset
         /\ reset' = TRUE
         /\ UNCHANGED <<written, eof, received, finished>>

Next == Write \/ End \/ Receive \/ Finish \/ Reset

Spec == Init /\ [][Next]_vars

TypeOK == /\ written \in 0 .. N /\ received \in 0 .. written
          /\ eof \in BOOLEAN /\ finished \in BOOLEAN /\ reset \in BOOLEAN
================================================================================
