------------------------------ MODULE MCProcess ------------------------------
(***************************************************************************)
(* An instance of StashProcess: a deployment in which one thing at a time  *)
(* is unset, blank, padded, junk, out of range or too wide.                *)
(***************************************************************************)
EXTENDS StashProcess, TLC

(***************************************************************************)
(* Characters and lines.  Two digits with a dot stand for an IPv4 address. *)
(***************************************************************************)
Chars == {"1", "a", "g", ".", ":", " "}

MCAddresses == {<<"1", ".", "1">>, <<"1", ".", "1", ":", "1">>, <<":", ":", "1">>, <<":", ":">>}

MCLines == BoundedSeq(Chars, 5)

\* Two characters that run into an address, without fields; and a harmless
\* message whose field would complete an identifier were it not for the blank,
\* with an address behind it.
MCMessages == {[body |-> <<"g", "g", "1", ".", "1">>, fields |-> <<>>],
               [body |-> <<":", "g", "g">>, fields |-> <<"g", "a", " ", "1", ".", "1">>]}

\* A path that names a namespace.
MCSpans == {<<"a", "a", "1">>}

(***************************************************************************)
(* Environments.                                                           *)
(***************************************************************************)
Value(text)  == [text |-> text, padded |-> FALSE]
Padded(text) == [text |-> text, padded |-> TRUE]
Key(len, lower_hex) == [len |-> len, lower_hex |-> lower_hex, key |-> "seed"]

Base == [PORT |-> None, RETENTION_HOURS |-> None, PRUNE_INTERVAL_MIN |-> None,
         RELAY_URLS |-> None, RELAY_TOKEN |-> None, PSK |-> Padded("psk"),
         SECRET_KEY |-> Key(SECRET_HEX_LEN, TRUE), OTEL_ENDPOINT |-> Value("otel")]

MCEnvs ==
    {Base}
    \cup {[Base EXCEPT !.PORT = v] : v \in {Junk, 0, 8, U16_MAX + 1}}
    \cup {[Base EXCEPT !.RETENTION_HOURS = v] : v \in {Junk, 0, 2, U64_MAX, U64_MAX + 1}}
    \cup {[Base EXCEPT !.PRUNE_INTERVAL_MIN = v] : v \in {Junk, 0, 3, U64_MAX, U64_MAX + 1}}
    \cup {[Base EXCEPT !.RELAY_URLS = v] : v \in {<<Value(""), Padded("relay")>>, <<Value("bad")>>}}
    \cup {[Base EXCEPT !.PSK = v] : v \in {None, Value(""), Padded("")}}
    \cup {[Base EXCEPT !.SECRET_KEY = v] : v \in {None, Key(SECRET_HEX_LEN, FALSE), Key(1, TRUE)}}
    \cup {[Base EXCEPT !.OTEL_ENDPOINT = v] : v \in {None, Padded("")}}

MCHeaders == {None} \cup [scheme : {"bearer", "basic"}, token : {"", "psk", "other"}]

=============================================================================
