--------------------------- MODULE DecisionLogger ---------------------------
(***************************************************************************)
(* The decision log plugin (pkg/plugins/decision_logs): its configuration  *)
(* is turned into a Benthos stream of a buffer and outputs; an output may  *)
(* drop and mask events by decisions of the policies, which processors     *)
(* prepare when they are constructed and again when the policies change.   *)
(* Start waits until every processor it counted has been constructed by    *)
(* the goroutine that runs the stream.                                     *)
(*                                                                         *)
(* An event is the set of its leaves <<path, value>> with the lists of     *)
(* erased and masked paths.  Policies are a version number; MaskAt and     *)
(* DropAt say what the decisions of a version are.  Retries, TLS and       *)
(* credentials are settings that are passed on and left out.               *)
(***************************************************************************)
EXTENDS Naturals, Integers, Sequences, FiniteSets, SequencesExt

CONSTANTS
    DLConfigs,   \* configurations: [buffer, outputs]
    DLEvents,    \* events that are logged, a function from names to leaf sets
    MaskAt,      \* version -> sequence of mask rules [op, path, val]
    DropAt,      \* version -> is the event dropped?
    MaxVersions, \* bound on policy versions
    MaxStarts    \* bound on starts

VARIABLES
    dlcfg,     \* the configuration
    dlphase,   \* new, starting, running, failed, hung
    dlstream,  \* p.stream: none, open, stopped
    building,  \* the stream under construction: processors still to construct
    registering, \* the processor whose register call is between its two parts
    waiting,   \* the WaitGroup counter
    prep,      \* a processor's prepared query: policy version
    callbacks, \* processors the compiler trigger updates
    missed,    \* history: processors a commit passed over while registering
    version,   \* the policies
    logged,    \* events in the stream and the outputs yet to handle them
    sent,      \* what the outputs received: [ev, out, rules, mask]
    dlcrash,   \* has Log or Stop dereferenced a nil stream?
    starts     \* number of starts

\* The rules that the policies of some version give.
MaskRules == UNION {ToSet(MaskAt[v]) : v \in 1 .. MaxVersions}

\* A configuration has its outputs in a list, and a mask decision is a list of
\* rules.
ASSUME LoggerAssumption ==
    /\ MaxVersions \in Nat \ {0} /\ MaxStarts \in Nat
    /\ \A c \in DLConfigs :
          c = [buffer |-> c.buffer, outputs |-> c.outputs] /\ c.outputs \in Seq(ToSet(c.outputs))
    /\ \A v \in 1 .. MaxVersions : MaskAt[v] \in Seq(MaskRules)
    /\ \A r \in MaskRules : r.op \in {"remove", "upsert"}

dlvars == <<dlcfg, dlphase, dlstream, building, registering, waiting, prep,
            callbacks, missed, version, logged, sent, dlcrash, starts>>

----------------------------------------------------------------------------
(* Configuration: factory.Validate, outputFromRaw and the Benthos methods.  *)

\* The deprecated "array" flag counts when no format is given.
BatchingBackCompat(b) ==
    IF b.format = "" /\ b.array THEN [b EXCEPT !.format = "array"] ELSE b

\* What outputFromRaw accepts: a known type whose required settings are given
\* and whose certificate files can be read.
OutputAccepted(o) ==
    \/ o.kind \in {"http", "console", "experimental"}
    \/ o.kind \in {"kafka", "splunk", "s3", "service", "gcs"} /\ ~o.missing

\* How outputFromRaw completes an accepted output.
OutputFromRaw(o) ==
    CASE o.kind \in {"http", "kafka", "s3"} ->
           [o EXCEPT !.batching = BatchingBackCompat(@)]
      [] o.kind = "splunk" -> [o EXCEPT !.batching.format = "lines"]
      [] o.kind = "service" ->
           [o EXCEPT !.kind = "http",
                     !.batching = [on |-> TRUE, format |-> "array",
                                   array |-> FALSE, compress |-> TRUE]]
      [] OTHER -> o

\* Faulty variant: the format "none" does not end the function early.
BatchProcessorsAlways(b) ==
    IF ~b.on THEN <<>>
    ELSE <<IF b.format = "array" THEN "json_array" ELSE "lines">>
         \o IF b.compress THEN <<"gzip">> ELSE <<>>

\* batchOpts.Benthos: the processors that make one message of a batch.
BatchProcessors(b) ==
    IF ~b.on \/ b.format = "none" THEN <<>>
    ELSE <<IF b.format = "array" THEN "json_array" ELSE "lines">>
         \o IF b.compress THEN <<"gzip">> ELSE <<>>

\* The object S3 and GCS write a message or a batch to: its name's suffixes.
ObjectSuffix(o) ==
    IF ~o.batching.on \/ o.batching.format = "none" THEN <<"json">>
    ELSE <<IF o.batching.format = "array" THEN "json" ELSE "jsonl">>
         \o IF o.batching.compress THEN <<"gz">> ELSE <<>>

NumOutputProcessors(o) ==
    IF o.kind = "experimental" THEN 0
    ELSE (IF o.mask THEN 1 ELSE 0) + (IF o.drop THEN 1 ELSE 0)

\* OutputProcessors.Extra: drop before mask.  Splunk wraps the event last, by
\* a processor of Benthos.
Extra(o) ==
    IF o.kind = "experimental" THEN <<>>
    ELSE (IF o.drop THEN <<"dl_drop">> ELSE <<>>) \o (IF o.mask THEN <<"dl_mask">> ELSE <<>>)
OwnProcessors(i, o) == [k \in DOMAIN Extra(o) |-> <<i, Extra(o)[k]>>]

\* The processors of the plugin in the stream's configuration, each with the
\* index of its output: those of the first k outputs.
StreamUpTo(outs) ==
    LET procs[k \in 0 .. Len(outs)] ==
            IF k = 0 THEN <<>> ELSE procs[k - 1] \o OwnProcessors(k, outs[k])
    IN procs
StreamProcessors(outs) == StreamUpTo(outs)[Len(outs)]

\* What Start adds to the WaitGroup for the first k outputs.
CountUpTo(outs) ==
    LET count[k \in 0 .. Len(outs)] ==
            IF k = 0 THEN 0 ELSE count[k - 1] + NumOutputProcessors(outs[k])
    IN count
ProcessorCount(outs) == CountUpTo(outs)[Len(outs)]

\* Validate: a known buffer and at least one output, all of them valid.
Validate(c) ==
    /\ c.buffer \in {"memory", "unbuffered", "disk"} /\ c.outputs # <<>>
    /\ \A i \in DOMAIN c.outputs : OutputAccepted(c.outputs[i])
Completed(c) ==
    [c EXCEPT !.outputs = [i \in DOMAIN @ |-> OutputFromRaw(@[i])]]

----------------------------------------------------------------------------
(* Masks.                                                                   *)

NoEvent == [leaves |-> {}, erased |-> <<>>, masked |-> <<>>]
Logged(e) == [leaves |-> DLEvents[e], erased |-> <<>>, masked |-> <<>>]

\* Faulty variant: erases the leaf at path only, not what lies below it.
RemovePathLeaf(ev, path) ==
    LET gone == {l \in ev.leaves : l[1] = path} IN
    IF ~\E l \in ev.leaves : IsPrefix(path, l[1]) THEN ev
    ELSE [ev EXCEPT !.leaves = @ \ gone, !.erased = Append(@, path)]

RemovePath(ev, path) ==
    LET gone == {l \in ev.leaves : IsPrefix(path, l[1])} IN
    IF gone = {} THEN ev
    ELSE [ev EXCEPT !.leaves = @ \ gone, !.erased = Append(@, path)]

\* An event without the top-level key becomes an empty event; a scalar on the
\* way leaves the event as it is.
Upsert(ev, path, val) ==
    IF ~\E l \in ev.leaves : l[1][1] = path[1] THEN NoEvent
    ELSE IF \E l \in ev.leaves : l[1] # path /\ IsPrefix(l[1], path) THEN ev
    ELSE [ev EXCEPT !.leaves = {l \in @ : ~IsPrefix(path, l[1])}
                                \cup {<<path, val>>},
                    !.masked = Append(@, path)]

\* The event after the first k rules.
MaskRule(ev, r) == IF r.op = "remove" THEN RemovePath(ev, r.path) ELSE Upsert(ev, r.path, r.val)
MaskedBy(rules, ev) ==
    LET after[k \in 0 .. Len(rules)] == IF k = 0 THEN ev ELSE MaskRule(after[k - 1], rules[k])
    IN after
MaskEvent(rules, ev) == MaskedBy(rules, ev)[Len(rules)]

----------------------------------------------------------------------------
DLInit ==
    /\ dlcfg \in {Completed(c) : c \in {d \in DLConfigs : Validate(d)}}
    /\ dlphase = "new" /\ dlstream = "none"
    /\ building = <<>> /\ registering = <<>> /\ waiting = 0
    /\ prep = <<>> /\ callbacks = {} /\ missed = {} /\ version = 1
    /\ logged = <<>> /\ sent = {} /\ dlcrash = FALSE /\ starts = 0

\* Start up to the goroutine: callbacks are cleared, the processors counted,
\* the compiler trigger registered (again) and the stream built.  Building may
\* refuse the configuration, and p.stream is then nil.
StartStream(cfg) ==
    /\ starts < MaxStarts /\ starts' = starts + 1
    /\ dlcfg' = cfg /\ callbacks' = {} /\ missed' = {}
    /\ registering' = <<>> /\ prep' = <<>>
    /\ \/ /\ dlphase' = "starting"
          /\ waiting' = ProcessorCount(cfg.outputs)
          /\ building' = StreamProcessors(cfg.outputs)
          /\ UNCHANGED dlstream
       \/ /\ dlphase' = "failed" /\ dlstream' = "none"
          /\ waiting' = 0 /\ building' = <<>>
    /\ UNCHANGED <<version, logged, sent, dlcrash>>

LoggerStart == dlphase = "new" /\ StartStream(dlcfg)

\* The stream's goroutine constructs the next processor, whose register call
\* prepares its query in a read transaction ...
ConstructPrepare ==
    /\ dlphase = "starting" /\ building # <<>> /\ registering = <<>>
    /\ registering' = <<Head(building)>>
    /\ prep' = [p \in DOMAIN prep \cup {Head(building)} |->
                    IF p = Head(building) THEN version ELSE prep[p]]
    /\ UNCHANGED <<dlcfg, dlphase, dlstream, building, waiting, callbacks,
                   missed, version, logged, sent, dlcrash, starts>>

\* Faulty variant: the constructor of a mask does not report to the WaitGroup.
ConstructRegisterDropOnly ==
    /\ registering # <<>>
    /\ callbacks' = callbacks \cup {registering[1]}
    /\ building' = Tail(building) /\ registering' = <<>>
    /\ waiting' = IF registering[1][2] = "dl_mask" THEN waiting ELSE waiting - 1
    /\ UNCHANGED <<dlcfg, dlphase, dlstream, prep, missed, version, logged,
                   sent, dlcrash, starts>>

\* Faulty variant: mask and drop report to the WaitGroup twice.
ConstructRegisterTwice ==
    /\ registering # <<>>
    /\ callbacks' = callbacks \cup {registering[1]}
    /\ building' = Tail(building) /\ registering' = <<>>
    /\ waiting' = waiting - 2
    /\ UNCHANGED <<dlcfg, dlphase, dlstream, prep, missed, version, logged,
                   sent, dlcrash, starts>>

\* ... and adds it to the callbacks after the transaction.
ConstructRegister ==
    /\ registering # <<>>
    /\ callbacks' = callbacks \cup {registering[1]}
    /\ building' = Tail(building) /\ registering' = <<>>
    /\ waiting' = waiting - 1
    /\ UNCHANGED <<dlcfg, dlphase, dlstream, prep, missed, version, logged,
                   sent, dlcrash, starts>>

\* Running the stream fails before it constructs the (next) processor, as when
\* the disk buffer cannot be opened: nobody reports to the WaitGroup any more.
RunFails ==
    /\ dlphase = "starting" /\ building # <<>> /\ registering = <<>>
    /\ dlcfg.buffer = "disk"
    /\ dlphase' = "hung" /\ building' = <<>>
    /\ UNCHANGED <<dlcfg, dlstream, registering, waiting, prep, callbacks,
                   missed, version, logged, sent, dlcrash, starts>>

\* newStream returns once the counter is zero.
StartReturns ==
    /\ dlphase = "starting" /\ waiting = 0
    /\ dlphase' = "running" /\ dlstream' = "open"
    /\ UNCHANGED <<dlcfg, building, registering, waiting, prep, callbacks,
                   missed, version, logged, sent, dlcrash, starts>>

\* Faulty variant: the first callback only.
CompilerTriggerFirst ==
    /\ version < MaxVersions /\ version' = version + 1
    /\ prep' = [p \in DOMAIN prep |->
                    IF p \in callbacks /\ p[1] = 1 THEN version' ELSE prep[p]]
    /\ missed' = missed \cup {p \in DOMAIN prep : p \notin callbacks}
    /\ UNCHANGED <<dlcfg, dlphase, dlstream, building, registering, waiting,
                   callbacks, logged, sent, dlcrash, starts>>

\* Policies change: the compiler trigger updates the registered processors.
CompilerTrigger ==
    /\ version < MaxVersions /\ version' = version + 1
    /\ prep' = [p \in DOMAIN prep |->
                    IF p \in callbacks THEN version' ELSE prep[p]]
    /\ missed' = missed \cup {p \in DOMAIN prep : p \notin callbacks}
    /\ UNCHANGED <<dlcfg, dlphase, dlstream, building, registering, waiting,
                   callbacks, logged, sent, dlcrash, starts>>

\* Log: a nil stream crashes, a stopped one returns an error.
LogEvent(e) ==
    /\ dlphase # "new" /\ e \notin DOMAIN logged
    /\ \A s \in sent : s.name # e
    /\ CASE dlstream = "none" -> dlphase = "failed" /\ dlcrash' = TRUE /\ UNCHANGED logged
         [] dlstream = "stopped" -> UNCHANGED <<logged, dlcrash>>
         [] OTHER -> /\ logged' = [n \in DOMAIN logged \cup {e} |->
                          IF n = e THEN DOMAIN dlcfg.outputs ELSE logged[n]]
                     /\ UNCHANGED dlcrash
    /\ UNCHANGED <<dlcfg, dlphase, dlstream, building, registering, waiting,
                   prep, callbacks, missed, version, sent, starts>>

\* An output drops the event or masks and sends it.
Deliver(e, i) ==
    /\ dlstream = "open" /\ e \in DOMAIN logged /\ i \in logged[e]
    /\ LET has(p) == p \in ToSet(Extra(dlcfg.outputs[i]))
           rules == IF has("dl_mask") THEN MaskAt[prep[<<i, "dl_mask">>]] ELSE <<>>
       IN sent' = IF has("dl_drop") /\ DropAt[prep[<<i, "dl_drop">>]] THEN sent
                  ELSE sent \cup {[name |-> e, out |-> i, rules |-> rules,
                                   result |-> MaskEvent(rules, Logged(e))]}
    /\ logged' = IF logged[e] = {i}
                 THEN [n \in DOMAIN logged \ {e} |-> logged[n]]
                 ELSE [logged EXCEPT ![e] = @ \ {i}]
    /\ UNCHANGED <<dlcfg, dlphase, dlstream, building, registering, waiting,
                   prep, callbacks, missed, version, dlcrash, starts>>

\* Reconfigure: stop the stream, which drains it, and start with the new
\* configuration.  Stopping a nil stream crashes.
LoggerReconfigure(cfg) ==
    /\ dlphase = "running" /\ DOMAIN logged = {} /\ dlstream = "open"
    /\ starts < MaxStarts
    /\ dlphase' = "restarting" /\ dlstream' = "stopped" /\ dlcfg' = cfg
    /\ UNCHANGED <<building, registering, waiting, prep, callbacks, missed,
                   version, logged, sent, dlcrash, starts>>

LoggerRestart == dlphase = "restarting" /\ StartStream(dlcfg)

LoggerStop ==
    /\ dlphase \in {"running", "failed"} /\ DOMAIN logged = {}
    /\ dlphase' = "stopped"
    /\ IF dlstream = "none" THEN dlcrash' = TRUE /\ UNCHANGED dlstream
       ELSE dlstream' = "stopped" /\ UNCHANGED dlcrash
    /\ UNCHANGED <<dlcfg, building, registering, waiting, prep, callbacks,
                   missed, version, logged, sent, starts>>

LoggerStep == ConstructPrepare \/ ConstructRegister \/ StartReturns

DLNext ==
    \/ LoggerStart \/ LoggerRestart \/ LoggerStop \/ LoggerStep
    \/ RunFails \/ CompilerTrigger
    \/ \E c \in {d \in DLConfigs : Validate(d)} : LoggerReconfigure(Completed(c))
    \/ \E e \in DOMAIN DLEvents : LogEvent(e)
    \/ \E e \in DOMAIN DLEvents : \E i \in DOMAIN dlcfg.outputs : Deliver(e, i)

\* The goroutine that constructs the processors runs.
DLFairness == WF_dlvars(LoggerStep)

DLSpec == DLInit /\ [][DLNext]_dlvars /\ DLFairness

----------------------------------------------------------------------------
DLTypeOK ==
    /\ dlphase \in {"new", "starting", "running", "failed", "hung",
                    "restarting", "stopped"}
    /\ dlstream \in {"none", "open", "stopped"} /\ waiting \in Nat
    /\ callbacks \subseteq DOMAIN prep /\ dlcrash \in BOOLEAN

\* Once Start has returned, a processor decides with the policies of the last
\* commit, unless a commit came between the two halves of its registration:
\* then it is stale until the next one.
ProcessorsCurrent ==
    dlphase = "running" =>
        \A p \in DOMAIN prep : prep[p] # version => p \in missed

\* Start returns unless running the stream fails.
StartEnds == dlphase = "starting" ~> dlphase # "starting"

\* What an output sends holds no field its mask removed, and every field that
\* no rule touches, unless a rule upserts below a key that the event does not
\* have, or has no more after the rules before it, which empties the event.
MaskExact ==
    \A s \in sent :
        LET ev == DLEvents[s.name]
            rules == ToSet(s.rules)
            keep == {l \in ev : \A r \in rules :
                         ~IsPrefix(r.path, l[1]) /\ ~IsPrefix(l[1], r.path)}
            empties(k) ==
                /\ s.rules[k].op = "upsert"
                /\ ~\E l \in MaskedBy(s.rules, Logged(s.name))[k - 1].leaves : l[1][1] = s.rules[k].path[1]
        IN \/ \E k \in DOMAIN s.rules : empties(k)
           \/ /\ keep \subseteq s.result.leaves
              /\ \A l \in s.result.leaves : \A r \in rules :
                    r.op = "remove" /\ IsPrefix(r.path, l[1]) =>
                       \E u \in rules : u.op = "upsert" /\ u.path = l[1]

\* The name of the object a batch is written to says what the batch's
\* processors made of it.
NamesMatchContent ==
    \A i \in DOMAIN dlcfg.outputs :
        LET o == dlcfg.outputs[i]
            procs == BatchProcessors(o.batching) IN
        o.kind \in {"s3", "gcs"} =>
            /\ (ObjectSuffix(o)[1] = "jsonl") <=> ("lines" \in {procs[k] : k \in DOMAIN procs})
            /\ (Len(ObjectSuffix(o)) = 2) <=> ("gzip" \in {procs[k] : k \in DOMAIN procs})

\* The three together: what an output sends, and under which name, is what the
\* current policies and its configuration ask for.
LoggerSafety == ProcessorsCurrent /\ MaskExact /\ NamesMatchContent
=============================================================================
