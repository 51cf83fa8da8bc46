----------------------------- MODULE FifoChannel -----------------------------
(***************************************************************************)
(* What the logging pipeline promises of its queues: messages leave it one *)
(* batch after another in the order they were put in, none skipped and     *)
(* none repeated.  Who is there to take a batch is not its concern.        *)
(***************************************************************************)
EXTENDS Naturals, Sequences

CONSTANT Items
VARIABLES queue, out

Init == queue = <<>> /\ out = <<>>

Put(x) ==
  /\ queue' = Append(queue, x)
  /\ UNCHANGED out

(* The first n items leave together.                                       *)
Emit(n) ==
  /\ out' = out \o SubSeq(queue, 1, n)
  /\ queue' = SubSeq(queue, n + 1, Len(queue))

Next == \/ \E x \in Items : Put(x)
        \/ \E n \in 1 .. Len(queue) : Emit(n)

Spec == Init /\ [][Next]_<<queue, out>>
=============================================================================
