----------------------------- MODULE MCRegistry -----------------------------
(* Three phones on two platforms, and two namespaces. *)
EXTENDS Registry, TLC

CONSTANTS p1, p2, p3, n1, n2

Platform == (p1 :> "apns") @@ (p2 :> "fcm") @@ (p3 :> "apns")
Key      == [scheme |-> "bearer", token |-> "key"]
Token(p, blanks, len) == [text |-> p, blanks |-> blanks, len |-> len]

Register(header, ticket, token, platform) ==
    [op |-> "register", header |-> header, read_ticket |-> ticket, push_token |-> token, platform |-> platform]
Delete(header, id, token, platform) ==
    [op |-> "unsubscribe", header |-> header, id |-> id, push_token |-> token, platform |-> platform]

Ticket(ns) == [len |-> MIN_TICKET_LEN, alphanumeric |-> TRUE, ns |-> ns]
Id(ns)     == [len |-> NS_HEX_LEN, lower_hex |-> TRUE, ns |-> ns]

MCDevice == [p \in Phones |-> [platform |-> Platform[p], token |-> Token(p, FALSE, 1)]]

\* Both providers are routed to; one credential is set to nothing.
MCPushEnv == [APNS_BUNDLE_ID |-> "app", FCM_PROJECT_ID |-> "project", APNS_BEARER |-> "jwt", FCM_BEARER |-> ""]

\* Every phone registers with and without its token, which the app may pad,
\* and unsubscribes with the bare token.
Proper(p) ==
    {Register(Key, Ticket(n1), Token(p, TRUE, 1), Platform[p]),
     Register(Key, Ticket(n2), None, None),
     Delete(Key, Id(n1), Token(p, FALSE, 1), Platform[p]),
     Delete(Key, Id(n2), Token(p, FALSE, 1), Platform[p])}
    \cup IF p = p1 THEN {Register(Key, Ticket(n2), Token(p, FALSE, 1), Platform[p])} ELSE {}

\* Requests the checks turn away.
Improper(p) ==
    {Register(None, Ticket(n1), None, None),
     Register([Key EXCEPT !.scheme = "basic"], Ticket(n1), None, None),
     Register([Key EXCEPT !.token = "guess"], Ticket(n1), None, None),
     Register(Key, [Ticket(n1) EXCEPT !.len = MIN_TICKET_LEN - 1], None, None),
     Register(Key, [Ticket(n1) EXCEPT !.len = MAX_TICKET_LEN + 1], None, None),
     Register(Key, Ticket(None), None, None),
     Register(Key, Ticket(n1), Token(p, FALSE, 1), None),
     Register(Key, Ticket(n1), Token(p, TRUE, 0), Platform[p]),
     Register(Key, Ticket(n1), Token(p, FALSE, MAX_TOKEN_LEN + 1), Platform[p]),
     Register(Key, Ticket(n1), Token(p, FALSE, 1), "sms"),
     Delete(Key, [Id(n1) EXCEPT !.lower_hex = FALSE], Token(p, FALSE, 1), Platform[p])}

MCRequests == [p \in Phones |-> IF p = p1 THEN Proper(p) \cup Improper(p) ELSE Proper(p)]

\* The phones and the environment are as the properties suppose.
ASSUME MCAssumption == OwnTokens /\ Routed

=============================================================================
