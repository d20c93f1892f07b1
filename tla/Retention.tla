------------------------------ MODULE Retention ------------------------------
(***************************************************************************)
(* retention.rs: which ciphertext the stash may stop holding, as operators *)
(* on the set of entries one sweep read from one namespace.                *)
(*                                                                         *)
(* An entry has a docs key and a write time.  A key is described by what   *)
(* the decoder looks at: `head`, the text before the first '/'; `digits`,  *)
(* the number of bytes after it when all of them are ASCII digits (0       *)
(* otherwise); `value`, the number those digits spell.                     *)
(***************************************************************************)
EXTENDS Naturals

CONSTANTS HexDecode,     \* the key heads that are non-empty even-length hex -> author bytes
          SEQ_WIDTH,     \* width of the zero-padded sequence number
          MaxU64,        \* largest u64; a wider SEQ_WIDTH-digit number does not parse
          RetentionMs    \* RetentionPolicy.retention_ms

ASSUME RetentionAssumption == RetentionMs \in Nat /\ MaxU64 \in Nat /\ SEQ_WIDTH \in Nat

(***************************************************************************)
(* RetentionPolicy.  Subtraction saturates at zero.                        *)
(***************************************************************************)
SaturatingSub(a, b) == IF a >= b THEN a - b ELSE 0

\* Faulty variant: the subtraction wraps around instead.
CutoffWrapping(now) == (now + MaxU64 + 1 - RetentionMs) % (MaxU64 + 1)

Cutoff(now) == SaturatingSub(now, RetentionMs)

IsExpired(written, now) == written < Cutoff(now)

(***************************************************************************)
(* decode_fix_key: hex(author)/{seq}, anything else is not a fix.          *)
(***************************************************************************)
IsFixKey(key) ==
    /\ key.head \in DOMAIN HexDecode
    /\ key.digits = SEQ_WIDTH
    /\ key.value <= MaxU64

FixAuthor(key) == HexDecode[key.head]
FixSeq(key)    == key.value

(***************************************************************************)
(* Faulty variants of the latest-per-author rule: an equal sequence number *)
(* supersedes; authors are compared by the text of the key, not decoded.   *)
(***************************************************************************)
SupersededByEqual(e, entries) ==
    /\ IsFixKey(e.key)
    /\ \E f \in entries : /\ IsFixKey(f.key)
                          /\ FixAuthor(f.key) = FixAuthor(e.key)
                          /\ FixSeq(e.key) <= FixSeq(f.key)

SupersededByText(e, entries) ==
    /\ IsFixKey(e.key)
    /\ \E f \in entries : /\ IsFixKey(f.key)
                          /\ f.key.head = e.key.head
                          /\ FixSeq(e.key) < FixSeq(f.key)

\* A fix is superseded when the author's highest sequence number is higher.
Superseded(e, entries) ==
    /\ IsFixKey(e.key)
    /\ \E f \in entries : /\ IsFixKey(f.key)
                          /\ FixAuthor(f.key) = FixAuthor(e.key)
                          /\ FixSeq(e.key) < FixSeq(f.key)

\* Faulty variant: only age counts.
ReleasableByAge(e, entries, now) == IsExpired(e.written_ms, now)

\* release_decisions: Some(reason) for e, whichever the reason.
Releasable(e, entries, now) == Superseded(e, entries) \/ IsExpired(e.written_ms, now)

=============================================================================
