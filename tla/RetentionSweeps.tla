--------------------------- MODULE RetentionSweeps ---------------------------
(***************************************************************************)
(* The release policy over time: the replica of one namespace changes      *)
(* while the clock advances, and at every instant the policy may be asked. *)
(* The sweep decides on a reading that is old by the time it acts, so what *)
(* matters is how decisions of different instants relate.                  *)
(***************************************************************************)
EXTENDS Retention, Sequences, SequencesExt

CONSTANTS Records,   \* [key, written_ms]
          LastMs     \* bound on the clock

ASSUME RecordsAssumption ==
    /\ \A e \in Records : e.written_ms \in Nat /\ e.key.value \in Nat
    /\ LastMs \in Nat

VARIABLES replica,   \* the records a read of the replica returns
          now        \* now_ms()

vars == <<replica, now>>

Init == replica = {} /\ now = 0

Arrive(e) ==
    /\ e \notin replica
    /\ replica' = replica \cup {e}
    /\ UNCHANGED now

\* The author's tombstone for e arrives: from then on a read does not return
\* e.  The author may write under that key again.
Retire(e) ==
    /\ e \in replica
    /\ replica' = replica \ {e}
    /\ UNCHANGED now

Tick ==
    /\ now < LastMs
    /\ now' = now + 1
    /\ UNCHANGED replica

Next == Tick \/ \E e \in Records : Arrive(e) \/ Retire(e)

Spec == Init /\ [][Next]_vars

Kept == {e \in replica : ~Releasable(e, replica, now)}

(***************************************************************************)
(* latest_by_author, the way the code computes it: a fold over the stream  *)
(* of records, whatever order that is in.                                  *)
(***************************************************************************)
\* Faulty variant: the last one in the stream wins.
BumpLast(latest, e) ==
    IF ~IsFixKey(e.key) THEN latest
    ELSE [a \in DOMAIN latest \cup {FixAuthor(e.key)} |->
             IF a = FixAuthor(e.key) THEN FixSeq(e.key) ELSE latest[a]]

\* entry(author).and_modify(max).or_insert(seq)
Bump(latest, e) ==
    IF ~IsFixKey(e.key) THEN latest
    ELSE LET a   == FixAuthor(e.key)
             seq == FixSeq(e.key)
         IN  [b \in DOMAIN latest \cup {a} |->
                 IF b # a THEN latest[b]
                 ELSE IF a \in DOMAIN latest /\ latest[a] > seq THEN latest[a]
                 ELSE seq]

LatestByAuthor(stream) == FoldLeft(Bump, <<>>, stream)

SupersededIn(e, stream) ==
    IsFixKey(e.key) /\ FixSeq(e.key) < LatestByAuthor(stream)[FixAuthor(e.key)]

(***************************************************************************)
(* Properties.                                                             *)
(***************************************************************************)
\* The decision of release_decisions does not depend on the order in which
\* the docs engine streams the records, and is the one Superseded describes.
StreamOrderIrrelevant ==
    \A stream \in SetToSeqs(replica) : \A e \in replica :
        SupersededIn(e, stream) <=> Superseded(e, replica)

\* The step takes back a later fix of e's author.
LaterFixRetired(e) ==
    \E f \in replica \ replica' : /\ IsFixKey(e.key) /\ IsFixKey(f.key)
                                  /\ FixAuthor(f.key) = FixAuthor(e.key)
                                  /\ FixSeq(e.key) < FixSeq(f.key)

DecisionsStand ==
    \A e \in replica \cap replica' :
        Releasable(e, replica, now) /\ ~Releasable(e, replica', now')
            => ~IsExpired(e.written_ms, now) /\ LaterFixRetired(e)

\* Between a sweep's reading and what it does on it, a decision to release e
\* is taken back only by e's own author, who retires a later fix: not by a
\* record that arrives, not by the clock, and not by another author's
\* tombstone, however either of them is spelt.  One that expired stays so.
DecisionStable == [][DecisionsStand]_vars

\* "Each namespace keeps at most the highest sequence for each author",
\* however the author is spelt in the key.
OneSeqPerAuthor ==
    \A e, f \in Kept :
        IsFixKey(e.key) /\ IsFixKey(f.key) /\ FixAuthor(e.key) = FixAuthor(f.key)
            => FixSeq(e.key) = FixSeq(f.key)

\* The latest dot survives: an author with any fresh fix at the top of its
\* sequence keeps one.
LatestSurvives ==
    \A e \in replica :
        /\ IsFixKey(e.key)
        /\ e.written_ms + RetentionMs >= now
        /\ \A f \in replica : IsFixKey(f.key) /\ FixAuthor(f.key) = FixAuthor(e.key)
                                 => FixSeq(f.key) <= FixSeq(e.key)
        => e \in Kept

=============================================================================
