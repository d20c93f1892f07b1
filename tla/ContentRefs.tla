----------------------------- MODULE ContentRefs -----------------------------
(***************************************************************************)
(* What the content index promises the rest of the stash, without maps:    *)
(* a relation between namespaces and hashes, and the set of hashes whose   *)
(* bytes have been confirmed to be here.                                   *)
(*                                                                         *)
(*  - a hash is confirmed only while some namespace names it;              *)
(*  - the confirmation is forgotten together with the last reference, and  *)
(*    by nothing else;                                                     *)
(*  - a reference is dropped one (namespace, hash) pair at a time.         *)
(***************************************************************************)
CONSTANTS Namespaces, Hashes

VARIABLES refs,     \* <<ns, h>> : an unreleased entry of ns names h
          landed    \* the hashes whose bytes have been confirmed

vars == <<refs, landed>>

Named(r) == {h \in Hashes : \E ns \in Namespaces : <<ns, h>> \in r}

Init == refs = {} /\ landed = {}

Reference(ns, h) ==
    /\ refs' = refs \cup {<<ns, h>>}
    /\ UNCHANGED landed

Confirm(h) ==
    /\ h \in Named(refs)
    /\ landed' = landed \cup {h}
    /\ UNCHANGED refs

Release(ns, h) ==
    /\ refs' = refs \ {<<ns, h>>}
    /\ landed' = landed \cap Named(refs')

Next == \E h \in Hashes :
            \/ Confirm(h)
            \/ \E ns \in Namespaces : Reference(ns, h) \/ Release(ns, h)

Spec == Init /\ [][Next]_vars

=============================================================================
