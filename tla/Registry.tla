------------------------------- MODULE Registry -------------------------------
(***************************************************************************)
(* Registration, subscriptions and pushes: StashNode::register and its     *)
(* handlers (node.rs), NamespaceRegistry (subscriptions.rs) and            *)
(* HttpPushWaker (waker.rs).  Phones send one request at a time, to a node *)
(* that serves them concurrently; a step is one critical section or one    *)
(* call into the docs engine.                                              *)
(***************************************************************************)
EXTENDS ControlApi, Sequences, FiniteSets

CONSTANTS Phones, Namespaces,
          Requests,      \* phone -> the requests it may send
          Device,        \* phone -> its subscription, as a registry should hold it
          PushEnv,       \* the push environment of the process
          Faults         \* may calls into the docs engine fail and phones hang up?

INSTANCE Push

\* Requests name namespaces and carry tokens as ControlApi describes them, and
\* None is none of the values it stands beside.
ASSUME RegistryAssumption ==
    /\ None \notin Namespaces \cup {"apns", "fcm"}
    /\ \A p \in Phones : \A req \in Requests[p] :
          /\ req.op \in {"register", "unsubscribe"}
          /\ req.op = "register" => req.read_ticket.ns \in Namespaces \cup {None}
          /\ req.op = "unsubscribe" => req.id.ns \in Namespaces \cup {None}
          /\ req.push_token # None => DOMAIN req.push_token = {"text", "blanks", "len"}
    /\ \A ns \in Namespaces, p \in Phones : Bearer(Device[p].platform) # None => Build(ns, Device[p]) # None

VARIABLES imported,   \* namespaces whose capability the docs engine has
          joined,     \* namespaces whose gossip swarm the node has joined
          handles,    \* StashNode.handles
          queue,      \* who holds (the head) and waits for the lock of `handles`, first come first served
          known,      \* Inner.known
          subs,       \* Inner.subs; a namespace without an entry has none
          watchers,   \* ns -> how many watcher tasks were spawned
          serving,    \* phone -> its request and how far the handler got
          told,       \* history: phone -> namespaces it was told it is subscribed to
          inflight    \* pushes being sent

registry == <<known, subs>>
engine   == <<imported, joined>>
vars == <<imported, joined, handles, queue, known, subs, watchers, serving, told, inflight>>

Idle == [pc |-> "idle", req |-> None]
Pcs  == {"idle", "unsubscribe", "lock", "import", "join", "grant", "spawn"}

Init ==
    /\ imported = {} /\ joined = {} /\ handles = {} /\ queue = <<>>
    /\ known = {}
    /\ subs = [ns \in Namespaces |-> {}]
    /\ watchers = [ns \in Namespaces |-> 0]
    /\ serving = [p \in Phones |-> Idle]
    /\ told = [p \in Phones |-> {}]
    /\ inflight = {}

(***************************************************************************)
(* The handlers up to their first critical section.  401, 400 and the      *)
(* parse error of a ticket are answers that change nothing.                *)
(***************************************************************************)
Accepted(req) ==
    /\ Allowed(req.header)
    /\ IF req.op = "register"
       THEN RegisterError(req) = "ok" /\ TicketNamespace(req.read_ticket) # None
       ELSE UnsubscribeValid(req)

Send(p, req) ==
    /\ serving[p].pc = "idle"
    /\ Accepted(req)
    /\ serving' = [serving EXCEPT ![p] = [pc  |-> IF req.op = "register" THEN "lock" ELSE "unsubscribe",
                                          req |-> req]]
    /\ queue' = IF req.op = "register" THEN Append(queue, p) ELSE queue
    /\ UNCHANGED <<engine, handles, registry, watchers, told, inflight>>

\* The namespace and the subscription of the request being served.
Ns(p)  == IF serving[p].req.op = "register" THEN TicketNamespace(serving[p].req.read_ticket)
          ELSE ParseNamespaceHex(serving[p].req.id)
Sub(p) == IF serving[p].req.op = "register" THEN RegisterSubscription(serving[p].req)
          ELSE UnsubscribeSubscription(serving[p].req)

Step(p, pc) == serving' = [serving EXCEPT ![p].pc = pc]
Answer(p)   == serving' = [serving EXCEPT ![p] = Idle]

(***************************************************************************)
(* NamespaceRegistry::register, ::unsubscribe, ::wake_targets              *)
(***************************************************************************)
\* Faulty variant: a namespace without subscriptions counts as new.
IsNewUnsubscribed(ns) == subs[ns] = {}

IsNew(ns) == ns \notin known

\* Faulty variant: the whole entry of the namespace goes.
RemoveAll(ns, sub) == subs' = [subs EXCEPT ![ns] = {}]

RemoveSub(ns, sub) == subs' = [subs EXCEPT ![ns] = @ \ {sub}]

WakeTargets(ns) == subs[ns]

(***************************************************************************)
(* DELETE: 204 whether or not there was a subscription.                    *)
(***************************************************************************)
Unsubscribe(p) ==
    /\ serving[p].pc = "unsubscribe"
    /\ RemoveSub(Ns(p), Sub(p))
    /\ told' = [told EXCEPT ![p] = @ \ {Ns(p)}]
    /\ Answer(p)
    /\ UNCHANGED <<engine, handles, queue, known, watchers, inflight>>

(***************************************************************************)
(* POST: import once under the lock of `handles`, then grant.              *)
(***************************************************************************)
Holds(p) == queue # <<>> /\ Head(queue) = p

Lookup(p) ==
    /\ serving[p].pc = "lock"
    /\ Holds(p)
    /\ IF Ns(p) \in handles
       THEN Step(p, "grant") /\ queue' = Tail(queue)
       ELSE Step(p, "import") /\ UNCHANGED queue
    /\ UNCHANGED <<engine, handles, registry, watchers, told, inflight>>

\* Faulty variant: the handle is kept before the swarm is joined.
ImportKeepsHandle(p) ==
    /\ serving[p].pc = "import"
    /\ imported' = imported \cup {Ns(p)}
    /\ handles' = handles \cup {Ns(p)}
    /\ Step(p, "join")
    /\ UNCHANGED <<joined, queue, registry, watchers, told, inflight>>

\* import_namespace
ImportOk(p) ==
    /\ serving[p].pc = "import"
    /\ imported' = imported \cup {Ns(p)}
    /\ Step(p, "join")
    /\ UNCHANGED <<joined, handles, queue, registry, watchers, told, inflight>>

\* start_sync with no peers, then the handle is kept and the lock released.
JoinOk(p) ==
    /\ serving[p].pc = "join"
    /\ joined' = joined \cup {Ns(p)}
    /\ handles' = handles \cup {Ns(p)}
    /\ queue' = Tail(queue)
    /\ Step(p, "grant")
    /\ UNCHANGED <<imported, registry, watchers, told, inflight>>

\* The queue of the lock without p.
Leave(p) == LET k == CHOOSE i \in DOMAIN queue : queue[i] = p
            IN  [i \in 1..(Len(queue) - 1) |-> queue[IF i < k THEN i ELSE i + 1]]

\* Faulty variant: an error path that forgets the lock.
GiveUpHoldingLock(p) ==
    /\ Faults
    /\ serving[p].pc \in {"lock", "import", "join"}
    /\ queue' = IF serving[p].pc = "lock" THEN Leave(p) ELSE queue
    /\ Answer(p)
    /\ UNCHANGED <<engine, handles, registry, watchers, told, inflight>>

\* 502, or the phone hangs up and the handler is dropped at its await: the
\* guard is dropped with it, and so is its place in the queue.
GiveUp(p) ==
    /\ Faults
    /\ serving[p].pc \in {"lock", "import", "join"}
    /\ queue' = Leave(p)
    /\ Answer(p)
    /\ UNCHANGED <<engine, handles, registry, watchers, told, inflight>>

Created(p) == /\ Answer(p)
              /\ told' = IF Sub(p) = None THEN told ELSE [told EXCEPT ![p] = @ \cup {Ns(p)}]

Grant(p) ==
    /\ serving[p].pc = "grant"
    /\ known' = known \cup {Ns(p)}
    /\ subs' = IF Sub(p) = None THEN subs ELSE [subs EXCEPT ![Ns(p)] = @ \cup {Sub(p)}]
    /\ IF IsNew(Ns(p)) THEN Step(p, "spawn") /\ UNCHANGED told ELSE Created(p)
    /\ UNCHANGED <<engine, handles, queue, watchers, inflight>>

SpawnWatch(p) ==
    /\ serving[p].pc = "spawn"
    /\ watchers' = [watchers EXCEPT ![Ns(p)] = @ + 1]
    /\ Created(p)
    /\ UNCHANGED <<engine, handles, queue, registry, inflight>>

(***************************************************************************)
(* wake_for and HttpPushWaker: one push per target whose platform has a    *)
(* credential, sent by a task of its own, once.  A push is in flight from  *)
(* when its target is read.                                                *)
(***************************************************************************)
\* EnvelopeRef and PassthroughDelivery::admit; the author, the sequence number
\* and the bytes of an envelope play no part in the passthrough's verdict.
Envelope(ns)    == [namespace |-> ns]
Admit(envelope) == "Accept"

\* Faulty variant: a target without a credential ends the loop before the rest.
PushesUntilMissing(ns) ==
    IF IsNoop \/ \E s \in WakeTargets(ns) : Build(ns, s) = None THEN {}
    ELSE {Build(ns, s) : s \in WakeTargets(ns)}

\* HttpPushWaker::wake, or NoopWaker::wake
Pushes(ns) == IF IsNoop THEN {} ELSE {Build(ns, s) : s \in WakeTargets(ns)} \ {None}

Wake(ns) ==
    /\ watchers[ns] > 0
    /\ Admit(Envelope(ns)) = "Accept"
    /\ WakeTargets(ns) # {}
    /\ inflight' = inflight \cup Pushes(ns)
    /\ UNCHANGED <<engine, handles, queue, registry, watchers, serving, told>>

\* The provider answered, with whatever status, or the request failed: only a log line tells.
Sent(push) ==
    /\ push \in inflight
    /\ inflight' = inflight \ {push}
    /\ UNCHANGED <<engine, handles, queue, registry, watchers, serving, told>>

\* The handler of p's request runs on.
Serve(p) == Unsubscribe(p) \/ Lookup(p) \/ ImportOk(p) \/ JoinOk(p) \/ Grant(p) \/ SpawnWatch(p)

Next == \/ \E p \in Phones : Serve(p) \/ GiveUp(p) \/ \E req \in Requests[p] : Send(p, req)
        \/ \E ns \in Namespaces : Wake(ns)
        \/ \E push \in inflight : Sent(push)

Spec == Init /\ [][Next]_vars

\* The runtime polls every handler, and the docs engine answers every call.
FairSpec == Spec /\ \A p \in Phones : WF_vars(Serve(p))

(***************************************************************************)
(* Properties.                                                             *)
(***************************************************************************)
\* Types; what the registry and the pushes may contain; and that a handler in
\* the critical section holds the lock, which everyone waits for only once.
TypeOK ==
    /\ imported \subseteq Namespaces /\ joined \subseteq imported /\ known \subseteq Namespaces
    /\ \A ns \in Namespaces : \A s \in subs[ns] : s.platform \in {"apns", "fcm"} /\ ~s.token.blanks
    /\ watchers \in [Namespaces -> Nat]
    /\ \A p \in Phones : serving[p].pc \in Pcs /\ told[p] \subseteq Namespaces
    /\ \A x \in inflight : x.request.ns \in Namespaces /\ x.bearer # None
    /\ \A p \in Phones : serving[p].pc \in {"import", "join"} => Holds(p)
    /\ \A i, j \in DOMAIN queue : queue[i] = queue[j] => i = j

\* "Start watching the namespace once": however registrations race, fail and
\* are repeated, a granted namespace has one watcher, or is about to.
OneWatcher ==
    \A ns \in Namespaces :
        watchers[ns] + Cardinality({p \in Phones : serving[p].pc = "spawn" /\ Ns(p) = ns})
            = IF ns \in known THEN 1 ELSE 0

\* A granted namespace has a handle, and a namespace with a handle has joined
\* its swarm: a registration that failed half way is started over by the next.
GrantedIsJoined == known \subseteq handles /\ handles \subseteq joined

\* A phone presents a token of its own, which it may pad when it registers
\* and sends bare when it unsubscribes.
OwnTokens ==
    /\ \A p \in Phones : /\ Device[p] # None
                         /\ Device[p] = Subscription(Device[p].platform, Device[p].token)
                         /\ \A q \in Phones : Device[p] = Device[q] => p = q
    /\ \A p \in Phones : \A req \in Requests[p] : Accepted(req) =>
          IF req.op = "register"
          THEN \/ req.push_token = None
               \/ Device[p] = Subscription(req.platform, [req.push_token EXCEPT !.blanks = FALSE])
          ELSE Device[p] = Subscription(req.platform, req.push_token)

\* A provider the process has a credential for has its route too.
Routed ==
    /\ \A p \in Phones : Device[p].platform \in {"apns", "fcm"}
    /\ Bearer("apns") # None => PushEnv.APNS_BUNDLE_ID \notin {None, ""}
    /\ Bearer("fcm") # None => PushEnv.FCM_PROJECT_ID \notin {None, ""}

\* What a phone was last told is what the registry holds: a failed or
\* abandoned registration changes nothing, another phone's request neither
\* adds nor removes this phone's subscription, 204 means it is gone.  (OwnTokens)
SubscribedAsTold ==
    \A p \in Phones, ns \in Namespaces :
        serving[p].pc = "idle" => (ns \in told[p] <=> Device[p] \in subs[ns])

\* A wake issued now would reach every phone that was told it is subscribed
\* and whose platform has a credential, whoever else is subscribed, through its
\* own provider with that provider's credential and route, and no phone that
\* was told it is not.
WakesAsTold ==
    \A p \in Phones, ns \in Namespaces :
        LET d == Device[p]
            reached == \E x \in Pushes(ns) :
                /\ x.request.ns = ns /\ x.request.to = d.token /\ x.request.provider = d.platform
                /\ IF d.platform = "apns"
                   THEN x.bearer = PushEnv.APNS_BEARER /\ x.request.topic = PushEnv.APNS_BUNDLE_ID
                   ELSE x.bearer = PushEnv.FCM_BEARER /\ x.request.topic = PushEnv.FCM_PROJECT_ID
        IN  serving[p].pc = "idle" /\ Bearer(d.platform) # None => (ns \in told[p] <=> reached)

\* Every request is answered: no failure leaves the lock of `handles` held.
RequestAnswered == \A p \in Phones : serving[p].pc # "idle" ~> serving[p].pc = "idle"

===============================================================================
