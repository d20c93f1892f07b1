---------------------------- MODULE LogRedaction ----------------------------
(***************************************************************************)
(* log_redaction.rs: what is taken out of a formatted log line.            *)
(*                                                                         *)
(* A line is a sequence of characters; a character is told apart only by   *)
(* the classes the scan asks about.  The marker put in place of a run is   *)
(* one element of the output: its brackets belong to no run, and the       *)
(* letters between them are too few and no address, so that it is inert    *)
(* when a line is read again.                                              *)
(***************************************************************************)
EXTENDS Naturals, SequencesExt

CONSTANTS Digits, HexLetters, OtherAlnum, NetworkMarks, OpaqueMarks,  \* classes of characters
          Addresses,    \* the texts that parse as IpAddr or SocketAddr
          MIN_OPAQUE    \* from this length on a run can be an identifier

ASSUME RedactionAssumption == MIN_OPAQUE \in Nat \ {0}

REDACTED == "[REDACTED]"

HexDigits    == Digits \cup HexLetters
NetworkChars == HexDigits \cup NetworkMarks
OpaqueChars  == HexDigits \cup OtherAlnum \cup OpaqueMarks

\* A range is the half-open interval start .. end of offsets, as in the code.
Text(line, range) == SubSeq(line, range.start + 1, range.end)

\* The two loops: the longest runs of characters of one class.
Runs(line, class) ==
    LET within(i) == i \in DOMAIN line /\ line[i] \in class
    IN  {r \in [start : 0..Len(line), end : 0..Len(line)] :
            /\ r.start < r.end
            /\ \A i \in r.start + 1 .. r.end : within(i)
            /\ ~within(r.start) /\ ~within(r.end + 1)}

IsAddress(text) == text \in Addresses

IsIdentifier(text) ==
    /\ Len(text) >= MIN_OPAQUE
    /\ \/ \E i \in DOMAIN text : text[i] \in Digits
       \/ \A i \in DOMAIN text : text[i] \in HexDigits

Ranges(line) == {r \in Runs(line, NetworkChars) : IsAddress(Text(line, r))}
                \cup {r \in Runs(line, OpaqueChars) : IsIdentifier(Text(line, r))}

\* sort_unstable of (start, end)
Before(r, s) == r.start < s.start \/ (r.start = s.start /\ r.end <= s.end)

Sorted(ranges) == CHOOSE seq \in SetToSeqs(ranges) : \A i, j \in DOMAIN seq : i < j => Before(seq[i], seq[j])

\* Faulty variants: a range that begins inside the last one is skipped; it is
\* taken from its own start.
CopySkipping(line, acc, r) ==
    IF r.start < acc.copied THEN acc
    ELSE [output |-> acc.output \o SubSeq(line, acc.copied + 1, r.start) \o <<REDACTED>>,
          copied |-> r.end]

\* One round of the last loop: the text up to the range, then the marker; a
\* range that lies behind what has been copied is dropped.
Copy(line, acc, r) ==
    IF r.end <= acc.copied THEN acc
    ELSE [output |-> acc.output \o SubSeq(line, acc.copied + 1, r.start) \o <<REDACTED>>,
          copied |-> r.end]

\* redact_log_line
RedactLogLine(line) ==
    LET step(acc, r) == Copy(line, acc, r)
        done == FoldLeft(step, [output |-> <<>>, copied |-> 0], Sorted(Ranges(line)))
    IN  done.output \o SubSeq(line, done.copied + 1, Len(line))

(***************************************************************************)
(* The same by positions: a character of a sensitive run is hidden, every  *)
(* other one is kept.                                                      *)
(***************************************************************************)
Masked(line) ==
    [i \in DOMAIN line |->
        IF \E r \in Ranges(line) : i \in r.start + 1 .. r.end THEN REDACTED ELSE line[i]]

\* One marker for any number of them side by side.
Squeezed(acc, c) == IF c = REDACTED /\ acc # <<>> /\ Last(acc) = REDACTED THEN acc ELSE Append(acc, c)

Squeeze(line) == FoldLeft(Squeezed, <<>>, line)

Scrubbed(line, output) == Squeeze(output) = Squeeze(Masked(line))

=============================================================================
