------------------------------- MODULE Queues -------------------------------
(***************************************************************************)
(* Filtering of the driver's queues and lists.                             *)
(***************************************************************************)
EXTENDS Naturals, Sequences

\* The elements of q that are in S, in their order.  (SelectSeq by another
\* definition: the provers have none of SelectSeq.)
Select(q, S) ==
  LET sel[i \in 0 .. Len(q)] ==
        IF i = 0 THEN <<>> ELSE IF q[i] \in S THEN Append(sel[i - 1], q[i]) ELSE sel[i - 1]
  IN  sel[Len(q)]

=============================================================================
