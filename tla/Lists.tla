------------------------------- MODULE Lists -------------------------------
(***************************************************************************)
(* Array.prototype.filter, which removeClient, findPrimary and the reports *)
(* use.  SelectSeq is the same; this definition is one the provers can     *)
(* expand (see ListProofs).                                                *)
(***************************************************************************)
EXTENDS Naturals, Sequences, FiniteSets

\* The entries of a list at the places in `keep', in their order: the k-th is
\* the one with k places of `keep' up to its own.
Kept(list, keep) ==
    [k \in 1 .. Cardinality(keep) |->
        list[CHOOSE i \in keep : Cardinality({j \in keep : j <= i}) = k]]
=============================================================================
