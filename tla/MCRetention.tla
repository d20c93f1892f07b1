----------------------------- MODULE MCRetention -----------------------------
(* A small instance of RetentionSweeps. *)
EXTENDS RetentionSweeps

\* hex_decode accepts both cases: two spellings of one author, and another author.
Hex == [aa |-> "A", AA |-> "A", bb |-> "B"]

Key(head, digits, value) == [head |-> head, digits |-> digits, value |-> value]

\* Fixes of both authors, a control key, a key with a short sequence number
\* and one whose number is wider than u64.
MCRecords ==
    {[key |-> Key("aa", 2, 1), written_ms |-> 0],
     [key |-> Key("AA", 2, 2), written_ms |-> 1],
     [key |-> Key("aa", 2, 2), written_ms |-> 2],
     [key |-> Key("bb", 2, 1), written_ms |-> 2],
     [key |-> Key("bb", 1, 3), written_ms |-> 1],
     [key |-> Key("aa", 2, 99), written_ms |-> 0],
     [key |-> Key("ctl", 0, 0), written_ms |-> 1]}

=============================================================================
