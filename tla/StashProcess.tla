---------------------------- MODULE StashProcess ----------------------------
(***************************************************************************)
(* bin/trail-stash.rs with the start of StashNode::spawn, the end of       *)
(* serve_control_api and the pipelines of telemetry.rs: one process of the *)
(* stash after another, as a supervisor starts and stops them.             *)
(***************************************************************************)
EXTENDS Config, LogRedaction, FiniteSets

CONSTANTS Envs,       \* the environments a deployment may set
          BadUrls,    \* relay URLs that do not parse
          Lines,      \* the lines it may have occasion to log
          Messages,   \* the events it does log: a body, and fields
          Spans,      \* the fields of the spans it opens (url.path)
          Headers,    \* Authorization headers a caller may send
          Faults      \* may sockets, signal handlers and the collector fail?

\* The text of a key that is set is a text; a line and a body are sequences of
\* characters.
ASSUME ProcessAssumption ==
    /\ \A e \in Envs : e.PSK # None => e.PSK.text # None
    /\ \A line \in Lines : line \in Seq(Range(line))
    /\ \A event \in Messages : event.body \in Seq(Range(event.body))

VARIABLES env,        \* what the deployment sets; read at a start only
          config,     \* StashConfig of the process, None without one
          phase,      \* how far main has got
          outcome,    \* how the last process ended
          stop,       \* shutdown_signal has something to return for
          serve,      \* the task of serve_control_api
          pruning,    \* the period of the prune loop, 0 before it is spawned
          open,       \* PROVIDERS is Some: log lines go to the collector, too
          pending,    \* log records and spans batched and not yet exported
          collected,  \* those the collector has, of this process
          refused,    \* those it refused
          console,    \* what this process printed
          due         \* history: the records and spans it made while `open`

io   == <<open, pending, collected, refused, console, due>>
main == <<env, config, phase, outcome, stop, serve, pruning>>
vars == <<env, config, phase, outcome, stop, serve, pruning,
          open, pending, collected, refused, console, due>>

Running == phase # "down"

Init ==
    /\ env \in Envs
    /\ config = None /\ phase = "down" /\ outcome = "none"
    /\ stop = FALSE /\ serve = "none" /\ pruning = 0
    /\ open = FALSE /\ pending = {} /\ collected = {} /\ refused = {} /\ console = {} /\ due = {}

\* The process is gone, and with it everything it held in memory.
Ends(how) ==
    /\ phase' = "down" /\ outcome' = how
    /\ config' = None /\ stop' = FALSE /\ serve' = "none" /\ pruning' = 0
    /\ open' = FALSE /\ pending' = {}
    /\ UNCHANGED <<env, collected, refused, console, due>>

\* The operator edits the deployment between two processes.
Redeploy ==
    /\ ~Running
    /\ env' \in Envs
    /\ UNCHANGED <<config, phase, outcome, stop, serve, pruning, io>>

(***************************************************************************)
(* main                                                                    *)
(***************************************************************************)
\* Without a well-formed key the process ends before tracing is set up.
BootRefused ==
    /\ ~Running
    /\ SecretKey(env.SECRET_KEY) = None
    /\ outcome' = "error"
    /\ collected' = {} /\ refused' = {} /\ console' = {} /\ due' = {}
    /\ UNCHANGED <<env, config, phase, stop, serve, pruning, open, pending>>

\* otel_layers: export only with an endpoint and exporters that build.
OtelLayers == IF OtelEndpoint(env) = None THEN {FALSE} ELSE {TRUE} \cup {b \in {FALSE} : Faults}

\* init_tracing, once there is a key.
Boot ==
    /\ ~Running
    /\ SecretKey(env.SECRET_KEY) # None
    /\ config' = FromEnv(env)
    /\ phase' = "spawning" /\ outcome' = "none"
    /\ open' \in OtelLayers
    /\ collected' = {} /\ refused' = {} /\ console' = {} /\ due' = {}
    /\ UNCHANGED <<env, stop, serve, pruning, pending>>

RelaysParse == \A i \in DOMAIN config.relay_urls : config.relay_urls[i] \notin BadUrls

\* StashNode::spawn, the two tasks, and the first poll of shutdown_signal,
\* which returns at once when the handler of SIGTERM cannot be installed.
SpawnOk ==
    /\ phase = "spawning"
    /\ RelaysParse
    /\ phase' = "waiting"
    /\ serve' = "binding"
    /\ pruning' = config.prune_interval_min * 60
    /\ stop' \in {FALSE} \cup {b \in {TRUE} : Faults}
    /\ UNCHANGED <<env, config, outcome, io>>

\* An invalid relay URL, or an endpoint that cannot be bound.
SpawnFails ==
    /\ phase = "spawning"
    /\ ~RelaysParse \/ Faults
    /\ Ends("error")

\* Faulty variant: main awaits the task first and looks at the signal then.
StopSignalledLate ==
    /\ phase = "waiting"
    /\ stop /\ serve = "failed"
    /\ phase' = "stopping"
    /\ UNCHANGED <<env, config, outcome, stop, serve, pruning, io>>

\* The select of main: the first of the two that is ready.
StopSignalled ==
    /\ phase = "waiting"
    /\ stop
    /\ phase' = "stopping"
    /\ UNCHANGED <<env, config, outcome, stop, serve, pruning, io>>

\* Faulty variant: main awaits the signal first and looks at the task then.
ServeFailureEndsLate ==
    /\ phase = "stopping"
    /\ serve = "failed"
    /\ Ends("error")

\* `?` on the task's result: the end of main without the final flush.
ServeFailureEnds ==
    /\ phase = "waiting"
    /\ serve = "failed"
    /\ Ends("error")

\* Faulty variant: the last batch is dropped with the process.
ShutdownSilently ==
    /\ phase = "stopping"
    /\ phase' = "flushed"
    /\ open' = FALSE /\ pending' = {}
    /\ UNCHANGED <<env, config, outcome, stop, serve, pruning, collected, refused, console, due>>

\* The collector takes a batch of logs or of spans or, the error being
\* dropped, does not.
Export ==
    /\ pending' = {}
    /\ \E lost \in {{}} \cup {x \in SUBSET pending : Faults} :
           /\ collected' = collected \cup (pending \ lost)
           /\ refused' = refused \cup lost

\* telemetry::shutdown
Shutdown ==
    /\ phase = "stopping"
    /\ phase' = "flushed"
    /\ open' = FALSE
    /\ Export
    /\ UNCHANGED <<env, config, outcome, stop, serve, pruning, console, due>>

Return == phase = "flushed" /\ Ends("ok")

(***************************************************************************)
(* The tasks and the outside.                                              *)
(***************************************************************************)
\* serve_control_api: the listener is bound, or it is not; nothing else ends it.
Bind ==
    /\ serve = "binding"
    /\ serve' \in {"listening"} \cup {s \in {"failed"} : Faults}
    /\ UNCHANGED <<env, config, phase, outcome, stop, pruning, io>>

\* Format::default: the message, and behind it the fields.
Formatted(event) ==
    IF event.fields = <<>> THEN event.body ELSE event.body \o <<" ">> \o event.fields

\* RedactingFormat::format_event
Printed(line) == RedactLogLine(line)

\* Faulty variant: the body goes to the collector as it is.
ExportedAsIs(event) == [body |-> event.body, attributes |-> event.fields]

\* RedactingLogProcessor::emit: the body is redacted, the attributes are not.
Exported(event) == [body |-> RedactLogLine(event.body), attributes |-> event.fields]

\* What the OTLP layers make of an event or a span, while there are any.
Record(x) ==
    /\ due' = IF open THEN due \cup {x} ELSE due
    /\ pending' = IF open THEN pending \cup {x} ELSE pending

\* An event, through the layers of init_tracing.
Emit(event) ==
    /\ Running
    /\ console' = console \cup {Printed(Formatted(event))}
    /\ Record(Exported(event))
    /\ UNCHANGED <<main, open, collected, refused>>

\* The span of a request ends: a record without a body, with its path as it
\* is; the console has no line for it.
SpanEnds(fields) ==
    /\ Running
    /\ Record([body |-> None, attributes |-> fields])
    /\ UNCHANGED <<main, open, collected, refused, console>>

\* The batch processors export now and then.
ExportBatch ==
    /\ open /\ pending # {}
    /\ Export
    /\ UNCHANGED <<main, open, console, due>>

\* SIGINT or SIGTERM once the handlers are installed ..
Signal ==
    /\ phase \in {"waiting", "stopping", "flushed"}
    /\ stop' = TRUE
    /\ UNCHANGED <<env, config, phase, outcome, serve, pruning, io>>

\* .. and SIGKILL, a signal without a handler yet, or the end of the machine.
Killed == Running /\ Ends("killed")

Process == BootRefused \/ Boot \/ SpawnOk \/ SpawnFails \/ StopSignalled \/ ServeFailureEnds
           \/ Shutdown \/ Return \/ Bind

Next == \/ Process \/ Redeploy \/ ExportBatch \/ Signal \/ Killed
        \/ \E event \in Messages : Emit(event)
        \/ \E fields \in Spans : SpanEnds(fields)

Spec == Init /\ [][Next]_vars

\* The runtime polls main and the serving task.
FairSpec == /\ Spec
            /\ WF_vars(SpawnOk \/ SpawnFails) /\ WF_vars(StopSignalled \/ ServeFailureEnds)
            /\ WF_vars(Shutdown) /\ WF_vars(Return) /\ WF_vars(Bind)

(***************************************************************************)
(* Properties.                                                             *)
(***************************************************************************)
\* "All numeric knobs are clamped to sane bounds", whatever the deployment
\* says: a port that can be bound, a window of hours that is within its bounds
\* in milliseconds, too, and a period tokio::time::interval accepts.
KnobsSane ==
    config # None =>
        /\ config.port \in 1..U16_MAX
        /\ config.retention_ms \in MIN_RETENTION_HOURS * MS_PER_HOUR..MAX_RETENTION_HOURS * MS_PER_HOUR
        /\ phase # "spawning" =>
               pruning \in MIN_PRUNE_INTERVAL_MIN * 60..MAX_PRUNE_INTERVAL_MIN * 60

\* The gate of the control API with the key of this process; tickets, tokens
\* and paths play no part in it.
Gate == INSTANCE ControlApi WITH PSK <- config.psk, MIN_TICKET_LEN <- 0, MAX_TICKET_LEN <- 0,
                                 MAX_TOKEN_LEN <- 0, NS_HEX_LEN <- 0

\* "TRAIL_STASH_PSK .. None disables the gate": a listening process lets a
\* caller in exactly when the deployment sets no key, or nothing but blanks, or
\* the caller bears the key without the blanks around it.
GateAsDeployed ==
    serve = "listening" =>
        \A header \in Headers :
            Gate!Allowed(header) <=>
                \/ env.PSK = None
                \/ env.PSK.text \in {"", Gate!BearerToken(header)}

EveryLineScrubbed == \A line \in Lines : Scrubbed(line, Printed(line))

\* "Redact IP addresses and long identity-like tokens from a fully formatted
\* log event", however sensitive runs overlap or touch: whatever a running
\* process logs, nothing of any of them is printed, and nothing else is lost,
\* repeated or moved.
ScrubbedExactly == Running => EveryLineScrubbed

\* "The OTLP mirror of the console RedactingFormat. See the module docs for why
\* attributes are not covered": the body of an exported log record, redacted
\* apart from the fields, is the text the console has for it, where the message
\* is redacted together with them; the two differ in the attributes alone, and
\* there by no more than their redaction.
ExportMirrorsConsole ==
    \A x \in pending \cup collected \cup refused :
        x.body # None => Formatted([body |-> x.body, fields |-> RedactLogLine(x.attributes)]) \in console

\* "The final batches flush on SIGTERM instead of dying with the process":
\* every log record and span of a gracefully stopped process was handed to the
\* collector.
CollectorSawConsole == outcome = "ok" => due \subseteq collected \cup refused

\* A process that is up serves, or ends so that its supervisor can start
\* another one; it is never up and deaf.
ServesOrStops == phase = "waiting" ~> (serve = "listening" \/ phase = "down")

\* "This just exits promptly": a signal stops the process, whatever the
\* serving task and the collector do.
SignalStops == (phase = "waiting" /\ stop) ~> phase = "down"

=============================================================================
