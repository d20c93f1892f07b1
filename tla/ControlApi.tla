------------------------------ MODULE ControlApi ------------------------------
(***************************************************************************)
(* api.rs and auth.rs: what the control API checks before the node acts.   *)
(*                                                                         *)
(* Texts are described by what the checks look at: a push token by its     *)
(* `text`, the length of that and whether blanks surround it; a ticket by  *)
(* its trimmed length, whether it is alphanumeric and the namespace it     *)
(* decodes to; a path segment by its length, its alphabet and the          *)
(* namespace it spells; an Authorization header by its scheme in lower     *)
(* case and its trimmed token.                                             *)
(***************************************************************************)
EXTENDS Naturals

CONSTANTS PSK,                             \* the pre-shared key, None when unset
          MIN_TICKET_LEN, MAX_TICKET_LEN, MAX_TOKEN_LEN, NS_HEX_LEN,
          None

BearerToken(header) ==
    IF header # None /\ header.scheme = "bearer" /\ header.token # "" THEN header.token ELSE None

\* An unset key disables the gate.
Authorize(provided) == IF PSK = None THEN "Disabled"
                       ELSE IF provided # None /\ provided = PSK THEN "Ok" ELSE "Denied"

\* psk_guard
Allowed(header) == Authorize(BearerToken(header)) \in {"Disabled", "Ok"}

ParsePlatform(s) == IF s \in {"apns", "fcm"} THEN s ELSE None

LooksLikeTicket(t) == t.len \in MIN_TICKET_LEN..MAX_TICKET_LEN /\ t.alphanumeric

\* The authoritative parse, DocTicket::from_str: None is a parse error.
TicketNamespace(t) == t.ns

ParseNamespaceHex(id) == IF id.len = NS_HEX_LEN /\ id.lower_hex THEN id.ns ELSE None

\* Faulty variant: blanks stay.
TrimNothing(token) == token

Trim(token) == [token EXCEPT !.blanks = FALSE]

\* PushSubscription
Subscription(platform, token) == [platform |-> platform, token |-> token]

\* validate_register: the error, or "ok".
RegisterError(req) ==
    IF ~LooksLikeTicket(req.read_ticket)                   THEN "BadTicket"
    ELSE IF req.push_token = None /\ req.platform = None   THEN "ok"
    ELSE IF req.push_token = None \/ req.platform = None   THEN "IncompletePush"
    ELSE IF req.push_token.len \notin 1..MAX_TOKEN_LEN     THEN "BadToken"
    ELSE IF ParsePlatform(req.platform) = None             THEN "BadPlatform"
    ELSE "ok"

\* The subscription of a valid registration; the token is trimmed.
RegisterSubscription(req) ==
    IF req.push_token = None THEN None
    ELSE Subscription(ParsePlatform(req.platform), Trim(req.push_token))

\* unsubscribe_handler: the token is taken as it was sent.
UnsubscribeValid(req) == ParseNamespaceHex(req.id) # None /\ ParsePlatform(req.platform) # None
UnsubscribeSubscription(req) == Subscription(ParsePlatform(req.platform), req.push_token)

===============================================================================
