------------------------------ MODULE MCWriters ------------------------------
(* Two phones with a bad slot before a good one, and the same ciphertext in both. *)
EXTENDS Writers, TLC

CONSTANTS n1, n2, h1, h2

Rec(ns, h) == [ns |-> ns, hash |-> h]

\* The first slot of n1 never reconciles in; the bytes of the first slot of n2 are wrong.
MCBatch        == (n1 :> <<Rec(n1, h2), Rec(n1, h1)>>) @@ (n2 :> <<Rec(n2, h2), Rec(n2, h1)>>)
MCReconcilable == {Rec(n1, h1), Rec(n2, h1), Rec(n2, h2)}
MCCorrupt      == {Rec(n2, h2)}
MCReads        == {<<n1, h2>>, <<n2, h1>>}

=============================================================================
