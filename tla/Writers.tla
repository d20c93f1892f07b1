------------------------------- MODULE Writers -------------------------------
(***************************************************************************)
(* Uploads and reads over the control API, end to end: phones offer the    *)
(* ciphertext of their slots to a stash that holds everything in memory    *)
(* and may be restarted at any moment (the PUT and GET handlers of node.rs *)
(* and put_content and content_bytes behind them).                         *)
(*                                                                         *)
(* Of registration, replication, sweeps and the collector only the effect  *)
(* on the index and the store is here; StashNode and Registry have the     *)
(* rest.  A phone does what the comments of PutOutcome and of the handler  *)
(* tell a writer to do with each answer.                                   *)
(***************************************************************************)
EXTENDS ContentIndex, Sequences

CONSTANTS Batch,        \* ns -> the records its phone offers, in order
          Reconcilable, \* records that replication will bring sooner or later
          Corrupt,      \* records whose bytes do not hash to their address
          Reads,        \* <<ns, h>> that somebody asks for
          MaxRestarts

VARIABLES up,         \* a process is running
          restarts,   \* how often it was killed
          known,      \* NamespaceRegistry.known
          replica,    \* records that have reconciled in
          content,    \* StashNode.content
          stored,     \* hashes whose bytes are in the blob store
          tagged,     \* hashes with a persistent tag
          pulled,     \* the hash whose bytes the settle loop has found and not yet marked
          phone,      \* ns -> what its phone is doing; `slot` is a place in its batch
          gets,       \* read -> how far its handler got, or its last answer
          receipts,   \* history: records answered 204 by this process
          released    \* history: records whose hash a sweep of this process let go

store   == <<stored, tagged, pulled>>
history == <<receipts, released>>
vars == <<up, restarts, known, replica, content, stored, tagged, pulled, phone, gets, receipts, released>>

Records == UNION {{Batch[ns][i] : i \in DOMAIN Batch[ns]} : ns \in Namespaces}

ASSUME WritersAssumption ==
    /\ Batch \in [Namespaces -> Seq([ns : Namespaces, hash : Hashes])]
    /\ \A ns \in Namespaces :
           Batch[ns] # <<>> /\ \A i \in DOMAIN Batch[ns] : Batch[ns][i].ns = ns
    /\ Reconcilable \subseteq Records /\ Corrupt \subseteq Records
    /\ Reads \subseteq Namespaces \X Hashes
    /\ MaxRestarts \in Nat

PhonePc == {"register", "offer", "checked", "added", "asleep"}
GetPc   == {"idle", "read", "200", "404"}

Init ==
    /\ up = TRUE /\ restarts = 0
    /\ known = {} /\ replica = {} /\ content = NewIndex /\ stored = {} /\ tagged = {} /\ pulled = {}
    /\ phone = [ns \in Namespaces |-> [pc |-> "register", slot |-> 1]]
    /\ gets = [g \in Reads |-> "idle"]
    /\ receipts = {} /\ released = {}

(***************************************************************************)
(* The phone of one namespace.                                             *)
(***************************************************************************)
Slot(ns) == Batch[ns][phone[ns].slot]

Offering(ns) == [pc |-> "offer", slot |-> 1]

NextSlot(ns) == IF phone[ns].slot < Len(Batch[ns])
                THEN [pc |-> "offer", slot |-> phone[ns].slot + 1]
                ELSE [pc |-> "asleep", slot |-> 1]

\* What a writer does next.  404: register before retrying, from the start.
\* 409: skip the slot and try the others; 400: never this one; 204: the next
\* one; 502 and a broken connection: the next one, too.
AfterPut(ns, status) == IF status = 404 THEN [pc |-> "register", slot |-> 1] ELSE NextSlot(ns)

\* The next sync of the phone offers every slot again.
Sync(ns) ==
    /\ phone[ns].pc = "asleep"
    /\ phone' = [phone EXCEPT ![ns] = Offering(ns)]
    /\ UNCHANGED <<up, restarts, known, replica, content, store, gets, history>>

(***************************************************************************)
(* PUT                                                                     *)
(***************************************************************************)
\* put_content up to add_bytes: the outcome, or "checked".
Verdict(r) ==
    IF r.ns \notin known                           THEN "UnknownNamespace"
    ELSE IF ~IsTrackedFor(content, r.ns, r.hash)   THEN "UntrackedHash"
    ELSE IF r \in Corrupt                          THEN "HashMismatch"
    ELSE "checked"

\* Faulty variant: one status for "no grant" and "no record yet".
StatusCollapsed(outcome) ==
    CASE outcome = "Stored"       -> 204
      [] outcome \in {"UnknownNamespace", "UntrackedHash"} -> 404
      [] outcome = "HashMismatch" -> 400
      [] outcome = "Err"          -> 502

\* put_content_handler
Status(outcome) ==
    CASE outcome = "Stored"           -> 204
      [] outcome = "UnknownNamespace" -> 404
      [] outcome = "UntrackedHash"    -> 409
      [] outcome = "HashMismatch"     -> 400
      [] outcome = "Err"              -> 502

PutCheck(ns) ==
    /\ up
    /\ phone[ns].pc = "offer"
    /\ LET verdict == Verdict(Slot(ns))
       IN  phone' = [phone EXCEPT ![ns] = IF verdict = "checked" THEN [@ EXCEPT !.pc = "checked"]
                                          ELSE AfterPut(ns, Status(verdict))]
    /\ UNCHANGED <<up, restarts, known, replica, content, store, gets, history>>

PutAdd(ns) ==
    /\ phone[ns].pc = "checked"
    /\ stored' = stored \cup {Slot(ns).hash}
    /\ tagged' = tagged \cup {Slot(ns).hash}
    /\ phone' = [phone EXCEPT ![ns].pc = "added"]
    /\ UNCHANGED <<up, restarts, known, replica, content, pulled, gets, history>>

PutMark(ns) ==
    /\ phone[ns].pc = "added"
    /\ content' = MarkPresent(content, Slot(ns).hash)
    /\ receipts' = receipts \cup {Slot(ns)}
    /\ phone' = [phone EXCEPT ![ns] = AfterPut(ns, Status("Stored"))]
    /\ UNCHANGED <<up, restarts, known, replica, store, gets, released>>

\* add_bytes fails, or nobody listens.
PutFails(ns) ==
    /\ phone[ns].pc = "checked" \/ (phone[ns].pc = "offer" /\ ~up)
    /\ phone' = [phone EXCEPT ![ns] = AfterPut(ns, Status("Err"))]
    /\ UNCHANGED <<up, restarts, known, replica, content, store, gets, history>>

(***************************************************************************)
(* GET                                                                     *)
(***************************************************************************)
\* Faulty variant: presence in any namespace will do.
ReadablePresent(ns, h) == IsPresent(content, h)

Readable(ns, h) == IsPresentFor(content, ns, h)

\* Whatever the reason, the answer is 404.
GetCheck(g) ==
    /\ up
    /\ gets[g] # "read"
    /\ gets' = [gets EXCEPT ![g] = IF Readable(g[1], g[2]) THEN "read" ELSE "404"]
    /\ UNCHANGED <<up, restarts, known, replica, content, store, phone, history>>

GetRead(g) ==
    /\ gets[g] = "read"
    /\ gets' = [gets EXCEPT ![g] = IF g[2] \in stored THEN "200" ELSE "404"]
    /\ UNCHANGED <<up, restarts, known, replica, content, store, phone, history>>

(***************************************************************************)
(* The process and what else happens in it.                                *)
(***************************************************************************)
\* Nothing is at rest; handlers are gone, and their phones see a broken connection.
Crash ==
    /\ up
    /\ restarts < MaxRestarts
    /\ up' = FALSE /\ restarts' = restarts + 1
    /\ known' = {} /\ replica' = {} /\ content' = NewIndex
    /\ stored' = {} /\ tagged' = {} /\ pulled' = {}
    /\ phone' = [ns \in Namespaces |-> IF phone[ns].pc \in {"checked", "added"}
                                       THEN AfterPut(ns, Status("Err")) ELSE phone[ns]]
    /\ gets' = [g \in Reads |-> "idle"]
    /\ receipts' = {} /\ released' = {}

Restart ==
    /\ ~up
    /\ up' = TRUE
    /\ UNCHANGED <<restarts, known, replica, content, store, phone, gets, history>>

\* register: 201; any other answer leaves the phone where it is.
Register(ns) ==
    /\ up
    /\ phone[ns].pc = "register"
    /\ known' = known \cup {ns}
    /\ phone' = [phone EXCEPT ![ns] = Offering(ns)]
    /\ UNCHANGED <<up, restarts, replica, content, store, gets, history>>

\* A record reconciles in and its watcher takes it up.
Reconcile(r) ==
    /\ r.ns \in known
    /\ r \in Reconcilable \ replica
    /\ replica' = replica \cup {r}
    /\ content' = Want(content, r.ns, r.hash)
    /\ UNCHANGED <<up, restarts, known, store, phone, gets, history>>

\* The settle loop finds the bytes of a hash on its pass's list, or gets them
\* from a peer.  The list is as old as the pass: what has landed or has been
\* released since may be on it still.
Fetch(h) ==
    /\ pulled = {}
    /\ \E r \in replica : r.hash = h
    /\ stored' = stored \cup {h}
    /\ pulled' = {h}
    /\ UNCHANGED <<up, restarts, known, replica, content, tagged, phone, gets, history>>

\* Some awaits later it marks them present, if anything names them then.
Apply(h) ==
    /\ h \in pulled
    /\ content' = MarkPresent(content, h)
    /\ pulled' = {}
    /\ UNCHANGED <<up, restarts, known, replica, stored, tagged, phone, gets, history>>

\* A sweep lets go of what no other record of the namespace names.
Release(r) ==
    /\ r \in replica \ released
    /\ content' = Forget(content, r.ns, r.hash)
    /\ released' = released \cup {s \in replica : s.ns = r.ns /\ s.hash = r.hash}
    /\ UNCHANGED <<up, restarts, known, replica, store, phone, gets, receipts>>

\* Faulty variant: the collector does not look at the tags.
CollectTagged ==
    /\ stored' = stored \cap Referenced(content)
    /\ UNCHANGED <<up, restarts, known, replica, content, tagged, pulled, phone, gets, history>>

Collect ==
    /\ stored' = stored \cap (Referenced(content) \cup tagged)
    /\ UNCHANGED <<up, restarts, known, replica, content, tagged, pulled, phone, gets, history>>

(***************************************************************************)
(* The whole.                                                              *)
(***************************************************************************)
Writer(ns) == Sync(ns) \/ PutCheck(ns) \/ PutAdd(ns) \/ PutMark(ns) \/ Register(ns)

Next ==
    \/ \E ns \in Namespaces : Writer(ns) \/ PutFails(ns)
    \/ \E g \in Reads : GetCheck(g) \/ GetRead(g)
    \/ \E r \in Records : Reconcile(r) \/ Release(r)
    \/ \E h \in Hashes : Fetch(h) \/ Apply(h)
    \/ Crash \/ Restart \/ Collect

Spec == Init /\ [][Next]_vars

\* The supervisor restarts the process, replication delivers, a phone syncs
\* again, retries and is answered; and the store, offered the same slot again
\* and again, takes it now and then.
FairSpec ==
    /\ Spec
    /\ WF_vars(Restart)
    /\ \A r \in Records : WF_vars(Reconcile(r))
    /\ \A ns \in Namespaces :
           /\ WF_vars(Writer(ns)) /\ WF_vars(~up /\ PutFails(ns))
           /\ \A i \in DOMAIN Batch[ns] : SF_vars(phone[ns].slot = i /\ PutAdd(ns))

(***************************************************************************)
(* Properties.                                                             *)
(***************************************************************************)
Servable(ns, h) == Readable(ns, h) /\ h \in stored

TypeOK ==
    /\ up \in BOOLEAN /\ restarts \in 0..MaxRestarts
    /\ known \subseteq Namespaces /\ replica \subseteq Records /\ content \in Index
    /\ tagged \subseteq stored /\ stored \subseteq Hashes /\ pulled \subseteq Hashes
    /\ phone \in [Namespaces -> [pc : PhonePc, slot : Nat]]
    /\ gets \in [Reads -> GetPc]
    /\ receipts \subseteq Records /\ released \subseteq replica

\* "The stash can now serve these bytes", and goes on doing so: a receipt is
\* good until a sweep releases that very record, whatever is released, uploaded
\* and collected for the other namespaces that hold the same ciphertext.
ReceiptHonoured == \A r \in receipts : Servable(r.ns, r.hash) \/ r \in released

\* "Only when the requested namespace still references it": ciphertext is read
\* through a namespace one of whose records has named it, although the store
\* keeps one copy for all of them.
NoCrossRead ==
    \A g \in Reads : gets[g] = "200" => \E r \in replica : r.ns = g[1] /\ r.hash = g[2]

\* "Skip this slot and offer the rest", "re-register before retrying": through
\* restarts, every slot whose record is here and whose bytes are right ends up
\* readable or released, even behind a slot whose record never arrives.
BatchDelivered ==
    \A r \in Reconcilable \ Corrupt :
        <>[](r \in replica /\ (Servable(r.ns, r.hash) \/ r \in released))

=============================================================================
