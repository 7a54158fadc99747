----------------------------- MODULE RecordFifo -----------------------------
(***************************************************************************)
(* What a buffer of usage records promises to those who pop from it: they  *)
(* are handed the oldest records it still keeps, each once and in the      *)
(* order in which they were put.  Old records may be dropped, but only     *)
(* from the front.                                                         *)
(***************************************************************************)
EXTENDS Integers, Sequences

CONSTANT Records

VARIABLES
    fifo,    \* the records kept, oldest first
    handed   \* everything handed out so far, in order

fifoVars == <<fifo, handed>>

FifoInit == fifo = <<>> /\ handed = <<>>

Without(s, n) == SubSeq(s, n + 1, Len(s))

\* Make room at the front and put a record at the back.
Put(r) ==
    /\ \E n \in 0..Len(fifo) : fifo' = Append(Without(fifo, n), r)
    /\ UNCHANGED handed

\* Drop records from the front, then hand out the next ones.
HandOut ==
    \E n \in 0..Len(fifo) : \E k \in 0..Len(fifo) - n :
        /\ fifo' = Without(fifo, n + k)
        /\ handed' = handed \o SubSeq(fifo, n + 1, n + k)

FifoNext == HandOut \/ \E r \in Records : Put(r)

FifoSpec == FifoInit /\ [][FifoNext]_fifoVars

=============================================================================
