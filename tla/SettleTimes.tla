----------------------------- MODULE SettleTimes -----------------------------
(***************************************************************************)
(* The settle loop in real time (run_settle_loop, settle_once,             *)
(* fetch_content and the constants of node.rs): how long a fetch lasts,    *)
(* which peers it asks, and what a pass that handles its entries one after *)
(* another and reads the clock once does to the entries behind.            *)
(*                                                                         *)
(* Everything takes no time except a fetch and the wait for the next tick. *)
(* Sweeps and watchers that find the bytes in place are left to StashNode. *)
(***************************************************************************)
EXTENDS Naturals, FiniteSets

CONSTANTS
    Hashes, Peers,
    Author,               \* hash -> the peer its key names
    DeliveredBy,          \* hash -> the peer that handed over its record
    SETTLE_INTERVAL, FETCH_TIMEOUT, WAKE_FALLBACK,
    BASE, CEILING, MaxShift,   \* backoff_ms
    LastArrival,          \* no record arrives later
    Horizon,              \* the last instant
    None

TrackedEntry == [first_seen : Nat, content_present : BOOLEAN, woken : BOOLEAN,
                 next_attempt : Nat, attempts : Nat]

ASSUME SettleAssumption ==
    /\ {SETTLE_INTERVAL, FETCH_TIMEOUT, BASE} \subseteq Nat \ {0}
    /\ {WAKE_FALLBACK, CEILING, MaxShift, LastArrival, Horizon} \subseteq Nat
    /\ Author \in [Hashes -> Peers] /\ DeliveredBy \in [Hashes -> Peers]
    /\ IsFiniteSet(Hashes)
    /\ \A k \in 0..MaxShift : 2^k \in Nat
    /\ None \notin Nat /\ None \notin Hashes /\ None \notin TrackedEntry

VARIABLES
    clock,
    awake,       \* peer -> since when it can be reached, None while it sleeps
    tracked,     \* StashNode.tracked; None before the record arrives
    stored,      \* hash -> when its bytes arrived, None before
    ticker,      \* when the interval is due next
    pass,        \* settle_once
    tries,       \* history: hash -> number of fetches
    announced    \* history: hashes for which wake_for has been called

vars == <<clock, awake, tracked, stored, ticker, pass, tries, announced>>

Least(a, b) == IF a <= b THEN a ELSE b
Later(a, b) == IF a >= b THEN a ELSE b

\* TrackedEntry::backoff_ms
Backoff(attempts) == Least(BASE * 2^Least(attempts, MaxShift), CEILING)

Resting == [pc |-> "idle", now |-> 0, todo |-> {}, item |-> None, since |-> 0, wake |-> {}]

Tracked == {h \in Hashes : tracked[h] # None}

Init ==
    /\ clock = 0
    /\ awake = [p \in Peers |-> None]
    /\ tracked = [h \in Hashes |-> None]
    /\ stored = [h \in Hashes |-> None]
    /\ ticker = 0 /\ pass = Resting
    /\ tries = [h \in Hashes |-> 0] /\ announced = {}

(***************************************************************************)
(* Peers, records and uploads.                                             *)
(***************************************************************************)
WakesUp(p) ==
    /\ awake[p] = None
    /\ awake' = [awake EXCEPT ![p] = clock]
    /\ UNCHANGED <<clock, tracked, stored, ticker, pass, tries, announced>>

FallsAsleep(p) ==
    /\ awake[p] # None
    /\ awake' = [awake EXCEPT ![p] = None]
    /\ UNCHANGED <<clock, tracked, stored, ticker, pass, tries, announced>>

\* The watcher tracks an entry whose bytes are missing.
Track(h) ==
    /\ clock <= LastArrival
    /\ tracked[h] = None /\ stored[h] = None
    /\ tracked' = [tracked EXCEPT ![h] =
                      [first_seen |-> clock, content_present |-> FALSE, woken |-> FALSE,
                       next_attempt |-> 0, attempts |-> 0]]
    /\ UNCHANGED <<clock, awake, stored, ticker, pass, tries, announced>>

\* The bytes arrive by another way: an upload, or the docs engine.
Arrive(h) ==
    /\ h \in Tracked /\ stored[h] = None
    /\ stored' = [stored EXCEPT ![h] = clock]
    /\ UNCHANGED <<clock, awake, tracked, ticker, pass, tries, announced>>

(***************************************************************************)
(* A pass.                                                                 *)
(***************************************************************************)
Outstanding == {h \in Tracked : ~tracked[h].content_present}

PassStart ==
    /\ pass.pc = "idle"
    /\ clock >= ticker
    /\ ticker' = ticker + SETTLE_INTERVAL     \* missed ticks come at once, one after another
    /\ pass' = IF Outstanding = {} THEN Resting
               ELSE [Resting EXCEPT !.pc = "pass", !.now = clock, !.todo = Outstanding]
    /\ UNCHANGED <<clock, awake, tracked, stored, tries, announced>>

Due(h) == pass.now >= tracked[h].next_attempt

\* Faulty variant: an entry that is not due is not even looked for.
LookedForWhenDue(h) == stored[h] # None /\ Due(h)

\* has(hash)
Has(h) == stored[h] # None

Probe(h) ==
    /\ pass.pc = "pass"
    /\ h \in pass.todo
    /\ LET fetch == ~Has(h) /\ Due(h)
       IN  /\ pass' = [pass EXCEPT !.pc = IF Has(h) THEN "there" ELSE IF fetch THEN "fetch" ELSE "missing",
                                   !.item = h, !.todo = @ \ {h}, !.since = clock]
           /\ tries' = IF fetch THEN [tries EXCEPT ![h] = @ + 1] ELSE tries
    /\ UNCHANGED <<clock, awake, tracked, stored, ticker, announced>>

\* Faulty variant: only the author is asked.
AuthorOnly(h) == {Author[h]}

\* The candidates of fetch_content.
Sources(h) == {DeliveredBy[h], Author[h]}

Reachable(h) == \E p \in Sources(h) : awake[p] # None

\* One of the sources has been there for the whole of the fetch, up to now.
ReachableThroughout(h) == \E p \in Sources(h) : awake[p] # None /\ awake[p] <= pass.since

\* Faulty variant: the download is not bounded.
Unbounded == Horizon

\* FETCH_TIMEOUT_SECS
Deadline == pass.since + FETCH_TIMEOUT

FetchOk ==
    /\ pass.pc = "fetch"
    /\ Reachable(pass.item)
    /\ stored' = [stored EXCEPT ![pass.item] = IF @ = None THEN clock ELSE @]
    /\ pass' = [pass EXCEPT !.pc = "there"]
    /\ UNCHANGED <<clock, awake, tracked, ticker, tries, announced>>

\* At once or at the deadline; a peer that is there all the time delivers.
FetchFails ==
    /\ pass.pc = "fetch"
    /\ ~ReachableThroughout(pass.item)
    /\ pass' = [pass EXCEPT !.pc = "missing"]
    /\ UNCHANGED <<clock, awake, tracked, stored, ticker, tries, announced>>

\* Faulty variant: failures are not counted.
TriesUncounted(h) == tracked[h].attempts

\* From MaxShift on, one more changes nothing.
Tries(h) == Least(tracked[h].attempts + 1, MaxShift)

\* What is left of the loop body, once the bytes are there or not.
Settled(h, present) ==
    LET overdue == pass.now >= tracked[h].first_seen + WAKE_FALLBACK
    IN  [tracked[h] EXCEPT
            !.content_present = present,
            !.woken           = @ \/ present \/ overdue,
            !.attempts        = IF ~present /\ Due(h) THEN Tries(h) ELSE @,
            !.next_attempt    = IF ~present /\ Due(h) THEN pass.now + Backoff(Tries(h)) ELSE @]

\* Whatever arrived since the probe is for the next pass.
Apply ==
    /\ pass.pc \in {"there", "missing"}
    /\ LET h == pass.item
           settled == Settled(h, pass.pc = "there")
       IN  /\ tracked' = [tracked EXCEPT ![h] = settled]
           /\ pass' = [pass EXCEPT !.pc = IF pass.todo = {} THEN "wake" ELSE "pass",
                                   !.item = None, !.since = 0,
                                   !.wake = IF settled.woken /\ ~tracked[h].woken THEN @ \cup {h} ELSE @]
    /\ UNCHANGED <<clock, awake, stored, ticker, tries, announced>>

\* run_settle_loop: the wakes of the whole pass.
WakeAll ==
    /\ pass.pc = "wake"
    /\ announced' = announced \cup pass.wake
    /\ pass' = Resting
    /\ UNCHANGED <<clock, awake, tracked, stored, ticker, tries>>

(***************************************************************************)
(* Time passes only while the loop waits for its tick or for a fetch.      *)
(***************************************************************************)
Waiting == \/ pass.pc = "idle" /\ clock < ticker
           \/ pass.pc = "fetch" /\ clock < Deadline

Tick ==
    /\ Waiting
    /\ clock < Horizon
    /\ clock' = clock + 1
    /\ UNCHANGED <<awake, tracked, stored, ticker, pass, tries, announced>>

Next ==
    \/ \E p \in Peers : WakesUp(p) \/ FallsAsleep(p)
    \/ \E h \in Hashes : Track(h) \/ Arrive(h) \/ Probe(h)
    \/ PassStart \/ FetchOk \/ FetchFails \/ Apply \/ WakeAll \/ Tick

Spec == Init /\ [][Next]_vars

(***************************************************************************)
(* Properties.  An entry waits at most for the pass under way and for its  *)
(* turn in the next one; a pass lasts at most one timeout per entry.       *)
(***************************************************************************)
TwoPasses == 2 * Cardinality(Hashes) * FETCH_TIMEOUT + SETTLE_INTERVAL

\* "How long an entry may sit without its content before we wake subscribers
\* anyway": the fallback and two passes full of sleeping peers, no longer.
WokenInTime ==
    \A h \in Tracked \ announced : clock - tracked[h].first_seen <= WAKE_FALLBACK + TwoPasses

\* "Late content still becomes servable": bytes that arrive are in the index,
\* and their entry announced, two such passes later at the latest, however far
\* the backoff of the entry had grown.
ArrivalUsed ==
    \A h \in Tracked :
        stored[h] # None /\ (h \in Outstanding \/ h \notin announced)
            => clock - Later(stored[h], tracked[h].first_seen) <= TwoPasses

\* "Whenever the author is reachable .. the fetch succeeds", and "it can serve
\* content for an author that is long offline": a missing entry has its bytes
\* once either of its two peers has been awake for the ceiling of the backoff
\* and two passes.
PeerUsedInTime ==
    \A h \in Tracked, p \in Peers :
        stored[h] = None /\ p \in {Author[h], DeliveredBy[h]} /\ awake[p] # None
            => clock - Later(awake[p], tracked[h].first_seen) <= CEILING + TwoPasses

\* The earliest instant of the n-th fetch, counted from the first.
NthTry[n \in Nat] == IF n <= 1 THEN 0 ELSE NthTry[n - 1] + Backoff(n - 1)

\* "An author that is asleep for hours costs a couple of attempts, not
\* thousands": although passes last longer than the first backoffs and stamp
\* them with the instant they began, the fetches of an entry keep to the schedule.
BackoffKept ==
    \A h \in Tracked : clock - tracked[h].first_seen >= NthTry[tries[h]]

=============================================================================
