---------------------------- MODULE ContentIndex ----------------------------
(***************************************************************************)
(* content.rs: which content hashes the replicated entries of each         *)
(* namespace name, and whether the bytes behind a hash have landed.        *)
(*                                                                         *)
(* The index is a value (the program keeps it behind one mutex, so every   *)
(* operation below is one indivisible step of whoever calls it).  A hash   *)
(* without an entry in the `state` map is "Absent"; a namespace without an *)
(* entry in `by_namespace` names the empty set of hashes.                  *)
(***************************************************************************)
EXTENDS Naturals

CONSTANTS Namespaces,   \* namespace ids
          Hashes        \* content hashes

State == {"Absent", "Wanted", "Present"}

Index == [state : [Hashes -> State], by_namespace : [Namespaces -> SUBSET Hashes]]

\* ContentIndex::new
NewIndex == [state        |-> [h \in Hashes |-> "Absent"],
             by_namespace |-> [ns \in Namespaces |-> {}]]

(***************************************************************************)
(* Queries.                                                                *)
(***************************************************************************)
IsTracked(ix, h)         == ix.state[h] # "Absent"
IsTrackedFor(ix, ns, h)  == h \in ix.by_namespace[ns]
IsPresent(ix, h)         == ix.state[h] = "Present"
IsPresentFor(ix, ns, h)  == IsTrackedFor(ix, ns, h) /\ IsPresent(ix, h)

\* Faulty variants: only what has landed is protected; everything is, for ever.
ReferencedPresent(ix) == {h \in Hashes : IsPresent(ix, h)}
ReferencedForever(ix) == Hashes

\* The liveness set handed to the blob collector.
Referenced(ix) == {h \in Hashes : IsTracked(ix, h)}

\* Faulty variant of `want`: a hash already present is downgraded.
WantDowngrading(ix, ns, h) ==
    [state        |-> [ix.state EXCEPT ![h] = "Wanted"],
     by_namespace |-> [ix.by_namespace EXCEPT ![ns] = @ \cup {h}]]

\* want: an entry of ns names h.  Never downgrades a hash that is present.
Want(ix, ns, h) ==
    [state        |-> [ix.state EXCEPT ![h] = IF @ = "Absent" THEN "Wanted" ELSE @],
     by_namespace |-> [ix.by_namespace EXCEPT ![ns] = @ \cup {h}]]

\* mark_present: the bytes of h are in the store.  Ignores hashes nobody wants.
MarkPresent(ix, h) ==
    [ix EXCEPT !.state[h] = IF @ = "Absent" THEN @ ELSE "Present"]

\* Faulty variant: the hash is dropped although another namespace names it.
DropsAlways(ix, ns, h) == IsTrackedFor(ix, ns, h)

\* The result of forget: this call dropped the last reference to h.
DropsLast(ix, ns, h) ==
    /\ IsTrackedFor(ix, ns, h)
    /\ \A other \in Namespaces \ {ns} : h \notin ix.by_namespace[other]

\* forget: ns stops naming h; with the last reference goes the hash's state.
Forget(ix, ns, h) ==
    [state        |-> [ix.state EXCEPT ![h] = IF DropsLast(ix, ns, h) THEN "Absent" ELSE @],
     by_namespace |-> [ix.by_namespace EXCEPT ![ns] = @ \ {h}]]

=============================================================================
