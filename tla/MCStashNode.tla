----------------------------- MODULE MCStashNode -----------------------------
(***************************************************************************)
(* Small instances of StashNode.  Each cfg picks a scenario (which records *)
(* the phones may write) and the faults that may happen.                   *)
(***************************************************************************)
EXTENDS StashNode, TLC

CONSTANTS n1, n2,    \* namespaces
          h0, h1, h2 \* hashes; h0 is the hash of no bytes

\* Key heads: two authors in hex, and the head of control keys.
Hex == [aa |-> "A", bb |-> "B"]
Fix(head, seq) == [head |-> head, digits |-> SEQ_WIDTH, value |-> seq]
Ctl            == [head |-> "ctl", digits |-> 0, value |-> 0]

Rec(ns, key, hash, ms) == [ns |-> ns, key |-> key, hash |-> hash, timestamp |-> 1000 * ms + 999]

\* Identical ciphertext in two namespaces.
SharedEntries == {Rec(n1, Fix("aa", 1), h1, 0), Rec(n2, Fix("aa", 1), h1, 0)}

\* One author's two fixes, each with its own ciphertext.
TwoFixes == {Rec(n1, Fix("aa", 1), h1, 0), Rec(n1, Fix("aa", 2), h2, 0)}

\* The author of two fixes retires the second.
RetiredFix == TwoFixes \cup {Rec(n1, Fix("aa", 2), h0, 1)}

\* A control slot, overwritten in place.
ControlSlot == {Rec(n1, Ctl, h1, 0), Rec(n1, Ctl, h2, 1)}

\* One fix.
OneFix == {Rec(n1, Fix("aa", 1), h1, 0)}

\* An honest upload of h1, and one whose body does not match.
OneUpload  == {[ns |-> n1, hash |-> h1, matches |-> TRUE]}
TwoUploads == OneUpload \cup {[ns |-> n1, hash |-> h1, matches |-> FALSE]}

=============================================================================
