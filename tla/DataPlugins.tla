---------------------------- MODULE DataPlugins ----------------------------
(***************************************************************************)
(* The data plugins: the umbrella plugin that starts, reconfigures and     *)
(* stops them (pkg/plugins/data/data.go), the polling loop that each runs, *)
(* and the transform that writes what a poll fetched into the store        *)
(* (pkg/plugins/data/transform).                                           *)
(*                                                                         *)
(* A source holds a version, 0 when it is empty.  The exit and doneExit    *)
(* channels are fields of the plugin that Start replaces, so a loop that   *)
(* outlives its Stop looks at the channels of the next one.                *)
(***************************************************************************)
EXTENDS Naturals, FiniteSets, Functions

CONSTANTS
    Refs,        \* mount points of data plugins
    NameOf,      \* the name of the plugin type at a mount point
    FirstConfigs,\* configurations of the umbrella to start with: mount point -> configuration
    NextConfigs, \* configurations that Reconfigure may bring
    KindChoices, \* source kinds per mount point: http, localfile, git, s3, ...
    HasRule,     \* mount points with a transform rule
    MaxSource,   \* bound: versions of a source
    DFaults,     \* bound: failed transforms
    DCancels,    \* bound: Stops that give up waiting
    MaxReconfigures

\* The kinds of sources.
Kinds == {"http", "localfile", "git", "s3", "okta", "ldap", "mongodb", "kafka", "pulsar"}

ASSUME DataAssumption ==
    /\ HasRule \subseteq Refs /\ KindChoices \subseteq [Refs -> Kinds]
    /\ \A c \in FirstConfigs \cup NextConfigs : DOMAIN c \subseteq Refs
    /\ MaxSource \in Nat /\ DFaults \in Nat /\ DCancels \in Nat /\ MaxReconfigures \in Nat

VARIABLES
    dkind,    \* the kind of each source
    dcfg,     \* the umbrella's own configuration (Data.config)
    dplug,    \* the plugins (Data.plugins): configuration, exit closed?, doneExit
    dloop,    \* their loops: state, fetched version, version last seen
    ready,    \* mount points whose transform is loaded
    dsrc,     \* version of each source
    ddata,    \* the store below each mount point
    dsaved,   \* ... when Reconfigure's transaction began
    dwmu,     \* is the store's writer lock held by Reconfigure?
    owned,    \* protected paths, by plugin name (store.dataPlugins)
    dpc,      \* what the umbrella is doing
    dtodo,    \* the plugins it still has to look at
    dcur,     \* the plugin it is stopping, as a set
    dnext,    \* the configuration of the Reconfigure under way
    dcount,   \* Reconfigures, faults and cancellations so far
    dcrash    \* why the process has crashed, or "no"

dataVars == <<dkind, dcfg, dplug, dloop, ready, dsrc, ddata, dsaved, dwmu, owned,
              dpc, dtodo, dcur, dnext, dcount, dcrash>>

Loops == {1, 2}
NoVersion == MaxSource + 1
\* What the store holds besides a version: nothing, an empty object (MakeDir),
\* a client's value.
Absent == MaxSource + 2
EmptyDir == MaxSource + 3
ClientValue == MaxSource + 4
NoOwner == "none"

-----------------------------------------------------------------------------
(* The sources: does a poll that finds version v ingest it, and which      *)
(* version does the loop know after the fetch, after a successful ingest   *)
(* and after a failed one?                                                 *)

Poll(ingest, fetched, ok, fail) ==
    [ingest |-> ingest, fetched |-> fetched, ok |-> ok, fail |-> fail]

\* Faulty variant: the ETag is kept as soon as the response is there.
HTTPPollEager(seen, v) == Poll(v # seen, v, v, v)

\* The ETag is kept only if everything went well.
HTTPPoll(seen, v) == Poll(v # seen, seen, v, seen)
\* Any error forgets the hash of the file.
FilePoll(seen, v) == Poll(v # seen, seen, v, NoVersion)
\* The repository is up to date once fetched, whatever becomes of the commit.
GitPoll(seen, v) == Poll(v # seen, v, v, v)
\* No object, no ingest: what was there stays.
S3Poll(seen, v) == Poll(v # 0, seen, seen, seen)
\* Everything is fetched and ingested anew in each round.
OktaPoll(seen, v) == Poll(TRUE, seen, seen, seen)
LDAPPoll(seen, v) == Poll(TRUE, seen, seen, seen)
MongoPoll(seen, v) == Poll(TRUE, seen, seen, seen)
\* Records that were fetched are not fetched again.
KafkaPoll(seen, v) == Poll(v # seen, v, v, v)
PulsarPoll(seen, v) == Poll(v # seen, v, v, v)

PollOf(kind, seen, v) ==
    CASE kind = "http"      -> HTTPPoll(seen, v)
      [] kind = "localfile" -> FilePoll(seen, v)
      [] kind = "git"       -> GitPoll(seen, v)
      [] kind = "s3"        -> S3Poll(seen, v)
      [] kind = "okta"      -> OktaPoll(seen, v)
      [] kind = "ldap"      -> LDAPPoll(seen, v)
      [] kind = "mongodb"   -> MongoPoll(seen, v)
      [] kind = "kafka"     -> KafkaPoll(seen, v)
      [] kind = "pulsar"    -> PulsarPoll(seen, v)

\* Only the Kafka loop asks whether the transform is loaded before it fetches
\* (Ready never holds without a rule), and only git and s3 wait in Stop
\* without looking at the context.
ChecksReady(kind) == kind = "kafka"
IgnoresContext(kind) == kind \in {"git", "s3"}

\* Kinds whose loop tries a version again until the store has it.
Retries(kind) == kind \in {"http", "localfile", "okta", "ldap", "mongodb"}
-----------------------------------------------------------------------------
NoLoop == [st |-> "none", got |-> NoVersion, seen |-> NoVersion]
NewPlugin(c) == [cfg |-> c, exit |-> FALSE, done |-> "nil"]

DataInit ==
    /\ dkind \in KindChoices
    /\ dcfg \in FirstConfigs
    /\ dplug = [r \in DOMAIN dcfg |-> NewPlugin(dcfg[r])]
    /\ dloop = [r \in Refs |-> [k \in Loops |-> NoLoop]]
    /\ ready = {}
    /\ dsrc = [r \in Refs |-> 0]
    /\ ddata = [r \in Refs |-> Absent]
    /\ dsaved = ddata
    /\ dwmu = FALSE
    /\ owned = [n \in {NameOf[r] : r \in Refs} |-> NoOwner]
    /\ dpc = "new" /\ dtodo = {} /\ dcur = {} /\ dnext = dcfg
    /\ dcount = [reconf |-> 0, fault |-> 0, cancel |-> 0]
    /\ dcrash = "no"

Live(r) == {k \in Loops : dloop[r][k].st \in {"select", "ingest"}}

\* Start of one plugin: MakeDir in a write transaction, new channels, a loop.
StartPlugin(r, c) ==
    /\ ~dwmu
    /\ Live(r) # Loops
    /\ LET k == CHOOSE k \in Loops \ Live(r) : TRUE
       IN dloop' = [dloop EXCEPT ![r][k] = [NoLoop EXCEPT !.st = "select"]]
    /\ ddata' = [ddata EXCEPT ![r] = IF @ = Absent THEN EmptyDir ELSE @]
    /\ dplug' = [dplug EXCEPT ![r] = [cfg |-> c, exit |-> FALSE, done |-> "open"]]

\* RegisterDataPlugin: the paths are kept by plugin name.
Register(r) == owned' = [owned EXCEPT ![NameOf[r]] = r]
Unregister(r) == owned' = [owned EXCEPT ![NameOf[r]] = NoOwner]

\* Start of the umbrella.
Start ==
    /\ dpc = "new"
    /\ dpc' = "starting" /\ dtodo' = DOMAIN dplug
    /\ UNCHANGED <<dkind, dcfg, dplug, dloop, ready, dsrc, ddata, dsaved, dwmu, owned, dcur, dnext, dcount, dcrash>>

StartOne(r) ==
    /\ dpc = "starting" /\ r \in dtodo
    /\ StartPlugin(r, dplug[r].cfg) /\ Register(r)
    /\ dtodo' = dtodo \ {r}
    /\ UNCHANGED <<dkind, dcfg, ready, dsrc, dsaved, dwmu, dpc, dcur, dnext, dcount, dcrash>>

\* Reconfigure: a mount point that the umbrella's own configuration lacks gets
\* a new plugin, which carries its configuration from the start.
Reconfigure(next) ==
    /\ dpc = "on" /\ dcount.reconf < MaxReconfigures
    /\ dcount' = [dcount EXCEPT !.reconf = @ + 1]
    /\ dnext' = next
    /\ dplug' = [r \in DOMAIN dplug \cup (DOMAIN next \ DOMAIN dcfg) |->
                    IF r \in DOMAIN next \ DOMAIN dcfg THEN NewPlugin(next[r]) ELSE dplug[r]]
    /\ dtodo' = DOMAIN dplug \ DOMAIN next
    /\ dsaved' = ddata
    /\ dpc' = "removing"
    /\ UNCHANGED <<dkind, dcfg, dloop, ready, dsrc, ddata, dwmu, owned, dcur, dcrash>>

\* The rest of Reconfigure looks at every plugin, outside the transaction.
ToReconfigure ==
    /\ dwmu' = FALSE
    /\ dpc' = "reconfiguring" /\ dtodo' = DOMAIN dplug

\* A plugin that is not in the new configuration: its data is removed in the
\* transaction, which the first removal locks, then it is stopped.
RemoveOne(r) ==
    /\ dpc = "removing" /\ r \in dtodo
    /\ ddata[r] # Absent
    /\ ddata' = [ddata EXCEPT ![r] = Absent]
    /\ dwmu' = TRUE
    /\ dpc' = "stopping removed" /\ dcur' = {r}
    /\ dplug' = [dplug EXCEPT ![r].exit = (dplug[r].done # "nil")]
    /\ dcrash' = IF dplug[r].done # "nil" /\ dplug[r].exit THEN "channel closed twice" ELSE dcrash
    /\ UNCHANGED <<dkind, dcfg, dloop, ready, dsrc, dsaved, owned, dtodo, dnext, dcount>>

\* Nothing there to remove is an error: the transaction is aborted.
RemoveFails(r) ==
    /\ dpc = "removing" /\ r \in dtodo
    /\ ddata[r] = Absent
    /\ ddata' = IF dwmu THEN dsaved ELSE ddata
    /\ ToReconfigure
    /\ UNCHANGED <<dkind, dcfg, dplug, dloop, ready, dsrc, dsaved, owned, dcur, dnext, dcount, dcrash>>

\* Faulty variant: Stop closes the channel and does not wait.
StoppedAtOnce(r) == dcount' = dcount

\* Stop returns when the loop has closed doneExit, or when it gives up.
Stopped(r) ==
    \/ dplug[r].done # "open" /\ dcount' = dcount
    \/ /\ dplug[r].done = "open" /\ ~IgnoresContext(dkind[r]) /\ dcount.cancel < DCancels
       /\ dcount' = [dcount EXCEPT !.cancel = @ + 1]

RemovedOne(r) ==
    /\ dpc = "stopping removed" /\ dcur = {r} /\ Stopped(r)
    /\ Unregister(r)
    /\ dplug' = Restrict(dplug, DOMAIN dplug \ {r})
    /\ dtodo' = dtodo \ {r} /\ dcur' = {}
    /\ dpc' = "removing"
    /\ UNCHANGED <<dkind, dcfg, dloop, ready, dsrc, ddata, dsaved, dwmu, dnext, dcrash>>

RemovedAll ==
    /\ dpc = "removing" /\ dtodo = {}
    /\ ToReconfigure
    /\ UNCHANGED <<dkind, dcfg, dplug, dloop, ready, dsrc, ddata, dsaved, owned, dcur, dnext, dcount, dcrash>>

\* Reconfigure of a plugin: an equal configuration changes nothing, and a
\* plugin without one (its removal failed) has no value to look at.
ReconfigureOne(r) ==
    /\ dpc = "reconfiguring" /\ r \in dtodo
    /\ \/ /\ r \notin DOMAIN dnext
          /\ dcrash' = "no configuration"
          /\ UNCHANGED <<dplug, dloop, ddata, owned, dpc, dtodo, dcur>>
       \/ /\ r \in DOMAIN dnext /\ dplug[r].cfg = dnext[r]
          /\ Register(r) /\ dtodo' = dtodo \ {r}
          /\ UNCHANGED <<dplug, dloop, ddata, dpc, dcur, dcrash>>
       \/ /\ r \in DOMAIN dnext /\ dplug[r].cfg # dnext[r] /\ dplug[r].done = "nil"
          /\ StartPlugin(r, dnext[r]) /\ Register(r) /\ dtodo' = dtodo \ {r}
          /\ UNCHANGED <<dpc, dcur, dcrash>>
       \/ /\ r \in DOMAIN dnext /\ dplug[r].cfg # dnext[r] /\ dplug[r].done # "nil"
          /\ dplug' = [dplug EXCEPT ![r].exit = TRUE]
          /\ dcrash' = IF dplug[r].exit THEN "channel closed twice" ELSE dcrash
          /\ dpc' = "stopping changed" /\ dcur' = {r}
          /\ UNCHANGED <<dloop, ddata, owned, dtodo>>
    /\ UNCHANGED <<dkind, dcfg, ready, dsrc, dsaved, dwmu, dnext, dcount>>

RestartOne(r) ==
    /\ dpc = "stopping changed" /\ dcur = {r} /\ Stopped(r)
    /\ StartPlugin(r, dnext[r]) /\ Register(r)
    /\ dtodo' = dtodo \ {r} /\ dcur' = {}
    /\ dpc' = "reconfiguring"
    /\ UNCHANGED <<dkind, dcfg, ready, dsrc, dsaved, dwmu, dnext, dcrash>>

\* The loops of Start, Reconfigure and Stop are over.
Finished ==
    /\ dtodo = {}
    /\ \/ dpc \in {"starting", "reconfiguring"} /\ dpc' = "on"
       \/ dpc = "stopping" /\ dpc' = "off"
    /\ UNCHANGED <<dkind, dcfg, dplug, dloop, ready, dsrc, ddata, dsaved, dwmu, owned, dtodo, dcur, dnext, dcount, dcrash>>

\* Stop of the umbrella.
Stop ==
    /\ dpc = "on"
    /\ dpc' = "stopping" /\ dtodo' = DOMAIN dplug
    /\ UNCHANGED <<dkind, dcfg, dplug, dloop, ready, dsrc, ddata, dsaved, dwmu, owned, dcur, dnext, dcount, dcrash>>

StopOne(r) ==
    /\ dpc = "stopping" /\ r \in dtodo /\ dcur = {}
    /\ dplug' = [dplug EXCEPT ![r].exit = (dplug[r].done # "nil")]
    /\ dcrash' = IF dplug[r].done # "nil" /\ dplug[r].exit THEN "channel closed twice" ELSE dcrash
    /\ dcur' = {r}
    /\ UNCHANGED <<dkind, dcfg, dloop, ready, dsrc, ddata, dsaved, dwmu, owned, dpc, dtodo, dnext, dcount>>

StoppedOne(r) ==
    /\ dpc = "stopping" /\ dcur = {r} /\ Stopped(r)
    /\ Unregister(r)
    /\ dtodo' = dtodo \ {r} /\ dcur' = {}
    /\ UNCHANGED <<dkind, dcfg, dplug, dloop, ready, dsrc, ddata, dsaved, dwmu, dpc, dnext, dcrash>>
-----------------------------------------------------------------------------
(* A loop.  A plugin that was removed lives on in the loop it left.        *)

ExitClosed(r) == (r \in DOMAIN dplug => dplug[r].exit)

\* Faulty variant: the loop returns without closing doneExit.
LoopExitSilently(r, k) ==
    /\ dloop[r][k].st = "select" /\ ExitClosed(r)
    /\ dloop' = [dloop EXCEPT ![r][k] = NoLoop]
    /\ UNCHANGED <<dkind, dcfg, dplug, ready, dsrc, ddata, dsaved, dwmu, owned, dpc, dtodo, dcur, dnext, dcount, dcrash>>

\* The loop sees the closed channel and closes doneExit.
LoopExit(r, k) ==
    /\ dloop[r][k].st = "select" /\ ExitClosed(r)
    /\ dloop' = [dloop EXCEPT ![r][k] = NoLoop]
    /\ dplug' = IF r \in DOMAIN dplug THEN [dplug EXCEPT ![r].done = "closed"] ELSE dplug
    /\ dcrash' = IF r \in DOMAIN dplug /\ dplug[r].done = "closed" THEN "channel closed twice" ELSE dcrash
    /\ UNCHANGED <<dkind, dcfg, ready, dsrc, ddata, dsaved, dwmu, owned, dpc, dtodo, dcur, dnext, dcount>>

\* The timer fires, also when the exit channel is closed.
LoopPoll(r, k) ==
    LET l == dloop[r][k]
        p == PollOf(dkind[r], l.seen, dsrc[r])
    IN /\ l.st = "select"
       /\ ChecksReady(dkind[r]) => r \in ready
       /\ p.ingest
       /\ dloop' = [dloop EXCEPT ![r][k] = [st |-> "ingest", got |-> dsrc[r], seen |-> p.fetched]]
       /\ UNCHANGED <<dkind, dcfg, dplug, ready, dsrc, ddata, dsaved, dwmu, owned, dpc, dtodo, dcur, dnext, dcount, dcrash>>

\* Ingest waits for the writer lock, transforms, replaces and commits.  The
\* transform may fail or not be loaded; replacing a path that is gone fails.
LoopIngest(r, k) ==
    LET l == dloop[r][k]
        p == PollOf(dkind[r], l.seen, l.got)
        Back(seen) == dloop' = [dloop EXCEPT ![r][k] = [NoLoop EXCEPT !.st = "select", !.seen = seen]]
    IN /\ l.st = "ingest" /\ ~dwmu
       /\ \/ /\ r \in HasRule /\ r \notin ready
             /\ dcrash' = "transform not loaded"
             /\ UNCHANGED <<dloop, ddata, dcount>>
          \/ /\ r \in HasRule => r \in ready
             /\ ddata[r] # Absent
             /\ ddata' = [ddata EXCEPT ![r] = l.got]
             /\ Back(p.ok)
             /\ UNCHANGED <<dcount, dcrash>>
          \/ /\ r \in HasRule => r \in ready
             /\ \/ ddata[r] = Absent /\ dcount' = dcount
                \/ /\ ddata[r] # Absent /\ r \in HasRule /\ dcount.fault < DFaults
                   /\ dcount' = [dcount EXCEPT !.fault = @ + 1]
             /\ Back(p.fail)
             /\ UNCHANGED <<ddata, dcrash>>
       /\ UNCHANGED <<dkind, dcfg, dplug, ready, dsrc, dsaved, dwmu, owned, dpc, dtodo, dcur, dnext>>

\* compilerTrigger: a policy with the rule was activated.
TransformsTrigger(r) ==
    /\ dpc # "new" /\ r \in DOMAIN dplug \cap HasRule /\ r \notin ready /\ ~dwmu
    /\ ready' = ready \cup {r}
    /\ UNCHANGED <<dkind, dcfg, dplug, dloop, dsrc, ddata, dsaved, dwmu, owned, dpc, dtodo, dcur, dnext, dcount, dcrash>>

\* The source changes (a change that no loop could see is left out).
SourceChanges(r) ==
    /\ dsrc[r] < MaxSource /\ Live(r) # {}
    /\ dsrc' = [dsrc EXCEPT ![r] = @ + 1]
    /\ UNCHANGED <<dkind, dcfg, dplug, dloop, ready, ddata, dsaved, dwmu, owned, dpc, dtodo, dcur, dnext, dcount, dcrash>>

\* A client writes to a path: checkDataPlugins refuses an owned one.
ClientWrite(r) ==
    /\ \A n \in DOMAIN owned : owned[n] # r
    /\ ~dwmu /\ dpc \in {"on", "off"}
    /\ ddata' = [ddata EXCEPT ![r] = ClientValue]
    /\ UNCHANGED <<dkind, dcfg, dplug, dloop, ready, dsrc, dsaved, dwmu, owned, dpc, dtodo, dcur, dnext, dcount, dcrash>>

Umbrella ==
    \/ Start \/ Finished \/ Stop \/ RemovedAll
    \/ \E next \in NextConfigs : Reconfigure(next)
    \/ \E r \in DOMAIN dplug :
         StartOne(r) \/ RemoveOne(r) \/ RemoveFails(r) \/ RemovedOne(r)
         \/ ReconfigureOne(r) \/ RestartOne(r) \/ StopOne(r) \/ StoppedOne(r)

LoopStep(r, k) == LoopExit(r, k) \/ LoopPoll(r, k) \/ LoopIngest(r, k)

DataNext ==
    /\ dcrash = "no"
    /\ \/ Umbrella
       \/ \E r \in Refs, k \in Loops : LoopStep(r, k)
       \/ \E r \in Refs : TransformsTrigger(r) \/ SourceChanges(r) \/ ClientWrite(r)

\* The loops run and, as select picks at random, notice a closed channel in
\* the end; the umbrella finishes what it has begun.  Nothing makes a context
\* end, so giving up is not required of anyone.
DataFairness ==
    /\ \A r \in Refs, k \in Loops :
         /\ WF_dataVars(dcrash = "no" /\ LoopStep(r, k))
         /\ SF_dataVars(dcrash = "no" /\ LoopExit(r, k))
    /\ WF_dataVars(/\ dcrash = "no" /\ dpc \notin {"new", "on", "off"}
                   /\ Umbrella /\ dcount'.cancel = dcount.cancel)

DataSpec == DataInit /\ [][DataNext]_dataVars /\ DataFairness
-----------------------------------------------------------------------------
(* Properties.                                                             *)

DataTypeOK ==
    /\ DOMAIN dplug \subseteq Refs
    /\ \A r \in DOMAIN dplug : dplug[r].exit \in BOOLEAN /\ dplug[r].done \in {"nil", "open", "closed"}
    /\ \A r \in Refs, k \in Loops :
         /\ dloop[r][k].st \in {"none", "select", "ingest"}
         /\ {dloop[r][k].got, dloop[r][k].seen} \subseteq 0 .. NoVersion
    /\ ready \subseteq HasRule /\ dtodo \subseteq Refs /\ dcur \subseteq Refs
    /\ dsrc \in [Refs -> 0 .. MaxSource]
    /\ ddata \in [Refs -> 0 .. ClientValue]

\* Only a Stop that gave up waiting leaves two loops for one mount point: both
\* would poll, and write in turn.
OneLoopPerPlugin ==
    dcount.cancel = 0 => \A r \in Refs : Cardinality(Live(r)) <= 1

\* Once Start or Reconfigure is done, the path of each running plugin is
\* protected: a client's write to it is refused (docs: "writes to the data
\* path using the REST API will be forbidden").
RunningPathsProtected ==
    dpc = "on" => \A r \in DOMAIN dplug : Live(r) # {} => owned[NameOf[r]] = r

\* What a removed plugin wrote does not come back after Reconfigure, not even
\* from a poll that was under way.
RemovedDataStaysRemoved ==
    dpc = "on" /\ dcount.cancel = 0 =>
        \A r \in Refs \ DOMAIN dplug : ddata[r] \in {Absent, ClientValue}

\* The process crashes only if a loop that does not ask for its transform got
\* ahead of the policy, if a plugin that Reconfigure added is removed again, or
\* if a loop outlived its Stop.
CrashesHaveACause ==
    /\ dcrash = "transform not loaded" => \E r \in HasRule : ~ChecksReady(dkind[r])
    /\ dcrash = "no configuration" => DOMAIN dplug \ DOMAIN dcfg # {}
    /\ dcrash = "channel closed twice" => dcount.cancel > 0

\* The four together: what the umbrella and its loops keep to in every
\* interleaving of Reconfigure with the polls.
DataSafety ==
    OneLoopPerPlugin /\ RunningPathsProtected /\ RemovedDataStaysRemoved /\ CrashesHaveACause

\* Reconfigure waits in its own transaction for a loop that waits for that
\* transaction to end.
WaitsForItself ==
    dwmu /\ \E r \in dcur, k \in Loops : dloop[r][k].st = "ingest"

\* Reconfigure comes to an end unless it waits for itself.
ReconfigureEnds ==
    (dpc \in {"removing", "stopping removed", "reconfiguring", "stopping changed"})
        ~> (dpc = "on" \/ dcrash # "no" \/ WaitsForItself)

\* The store keeps up with a source that is polled again after a failure, as
\* long as the loop runs.
EventuallyFresh ==
    \A r \in Refs : []<>(Retries(dkind[r]) => ddata[r] = dsrc[r] \/ Live(r) = {}
                            \/ dcrash # "no" \/ WaitsForItself)
=============================================================================
