------------------------------- MODULE Config -------------------------------
(***************************************************************************)
(* config.rs and the environment main reads besides: what the process      *)
(* makes of its environment variables.                                     *)
(*                                                                         *)
(* The value of a variable is described by what the parsers look at.  None *)
(* is unset.  A number is spelled by a natural, other text is Junk;        *)
(* blanks around either do not matter.  A secret or a URL is a record      *)
(* [text, padded], whose text is "" when there is nothing but blanks.      *)
(***************************************************************************)
EXTENDS Naturals, SequencesExt

CONSTANTS None, Junk,
          U16_MAX, U64_MAX,          \* the largest numbers the parsers accept
          DEFAULT_PORT,
          DEFAULT_RETENTION_HOURS, MIN_RETENTION_HOURS, MAX_RETENTION_HOURS,
          DEFAULT_PRUNE_INTERVAL_MIN, MIN_PRUNE_INTERVAL_MIN, MAX_PRUNE_INTERVAL_MIN,
          MS_PER_HOUR,
          SECRET_HEX_LEN             \* length of a well-formed secret key

ASSUME ConfigAssumption ==
    /\ {U16_MAX, U64_MAX, MS_PER_HOUR} \subseteq Nat
    /\ DEFAULT_PORT \in 1..U16_MAX
    /\ MIN_RETENTION_HOURS \in Nat \ {0}
    /\ DEFAULT_RETENTION_HOURS \in MIN_RETENTION_HOURS..MAX_RETENTION_HOURS
    /\ MIN_PRUNE_INTERVAL_MIN \in Nat \ {0}
    /\ DEFAULT_PRUNE_INTERVAL_MIN \in MIN_PRUNE_INTERVAL_MIN..MAX_PRUNE_INTERVAL_MIN
    /\ MAX_RETENTION_HOURS \in Nat /\ MAX_PRUNE_INTERVAL_MIN \in Nat
    /\ MAX_RETENTION_HOURS * MS_PER_HOUR <= U64_MAX
    /\ {None, Junk} \cap Nat = {}

\* trim().parse::<uN>().ok(): junk and numbers too wide are None.
Parse(value, max) == IF value \in 0..max THEN value ELSE None

UnwrapOr(value, default) == IF value = None THEN default ELSE value

\* Faulty variant: no floor.
ClampAbove(n, low, high) == IF n > high THEN high ELSE n

Clamp(n, low, high) == IF n < low THEN low ELSE IF n > high THEN high ELSE n

\* Faulty variant: blanks make a secret.
SecretAsSent(value) == IF value = None THEN None ELSE value.text

\* map(trim).filter(|v| !v.is_empty())
Secret(value) == IF value = None \/ value.text = "" THEN None ELSE value.text

SaturatingMul(a, b) == IF a * b > U64_MAX THEN U64_MAX ELSE a * b

\* A comma-separated list; blank pieces do not count.
UrlList(pieces) == IF pieces = None THEN <<>>
                   ELSE LET urls == SelectSeq(pieces, LAMBDA v : v.text # "")
                        IN  [i \in DOMAIN urls |-> urls[i].text]

\* RetentionPolicy::from_hours
FromHours(hours) == SaturatingMul(hours, MS_PER_HOUR)

\* StashConfig::from_env
FromEnv(env) ==
    LET port == Parse(env.PORT, U16_MAX)
    IN  [port |-> IF port = 0 THEN DEFAULT_PORT ELSE UnwrapOr(port, DEFAULT_PORT),
         retention_ms |->
             FromHours(Clamp(UnwrapOr(Parse(env.RETENTION_HOURS, U64_MAX), DEFAULT_RETENTION_HOURS),
                             MIN_RETENTION_HOURS, MAX_RETENTION_HOURS)),
         prune_interval_min |->
             Clamp(UnwrapOr(Parse(env.PRUNE_INTERVAL_MIN, U64_MAX), DEFAULT_PRUNE_INTERVAL_MIN),
                   MIN_PRUNE_INTERVAL_MIN, MAX_PRUNE_INTERVAL_MIN),
         relay_urls  |-> UrlList(env.RELAY_URLS),
         relay_token |-> Secret(env.RELAY_TOKEN),
         psk         |-> Secret(env.PSK)]

\* load_secret_key: required, 64 lowercase hex characters once trimmed.
SecretKey(value) ==
    IF value # None /\ value.len = SECRET_HEX_LEN /\ value.lower_hex THEN value.key ELSE None

\* otel_layers: a blank endpoint is none, and slashes at its end do not count.
OtelEndpoint(env) == Secret(env.OTEL_ENDPOINT)

=============================================================================
