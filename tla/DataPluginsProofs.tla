-------------------------- MODULE DataPluginsProofs -------------------------
(***************************************************************************)
(* Proofs about the data plugins, for any number of mount points, for      *)
(* every sequence of configurations and every mix of sources.              *)
(***************************************************************************)
EXTENDS DataPlugins, FiniteSetTheorems, TLAPS

-----------------------------------------------------------------------------
(* The inductive invariant.                                                *)

Configs == UNION {{c[r] : r \in DOMAIN c} : c \in FirstConfigs \cup NextConfigs}
PluginRecords == [cfg : Configs, exit : BOOLEAN, done : {"nil", "open", "closed"}]
LoopRecords == [st : {"none", "select", "ingest"}, got : 0 .. NoVersion, seen : 0 .. NoVersion]
CountRecords == [reconf : Nat, fault : Nat, cancel : Nat]
Removing == {"removing", "stopping removed"}
Changing == {"reconfiguring", "stopping changed"}
DataStates == Removing \cup Changing \cup {"new", "starting", "on", "stopping", "off"}

TypesInv ==
    /\ dkind \in [Refs -> Kinds]
    /\ dcfg \in FirstConfigs /\ dnext \in FirstConfigs \cup NextConfigs
    /\ DOMAIN dplug \subseteq Refs /\ dplug \in [DOMAIN dplug -> PluginRecords]
    /\ dloop \in [Refs -> [Loops -> LoopRecords]]
    /\ ready \subseteq HasRule /\ dtodo \subseteq DOMAIN dplug
    /\ dsrc \in [Refs -> 0 .. MaxSource]
    /\ ddata \in [Refs -> 0 .. ClientValue] /\ dsaved \in [Refs -> 0 .. ClientValue]
    /\ dwmu \in BOOLEAN /\ DOMAIN owned = {NameOf[r] : r \in Refs}
    /\ dpc \in DataStates
    /\ dcount \in CountRecords

\* Which plugin the umbrella waits for, and which it has still to look at.
UmbrellaInv ==
    /\ dcur # {} => dpc \in {"stopping removed", "stopping changed", "stopping"}
    /\ dpc \in {"stopping removed", "stopping changed"} => dcur # {}
    /\ \A r \in dcur : dcur = {r} /\ r \in dtodo
    /\ dwmu => dpc \in Removing
    /\ dpc \in {"new", "starting"} => DOMAIN dplug = DOMAIN dcfg
    /\ dpc \in Removing => dtodo = DOMAIN dplug \ DOMAIN dnext
    /\ dpc = "stopping removed" => dwmu /\ \A r \in dcur : ddata[r] = Absent
    /\ dpc = "stopping changed" => dcur \subseteq DOMAIN dnext /\ dcur \subseteq DOMAIN dcfg
    /\ dpc \in Changing => DOMAIN dplug \subseteq DOMAIN dnext \/ DOMAIN dplug \ DOMAIN dcfg # {}

\* A mount point that only a later configuration names is never started.
AddedAt(r) ==
    r \notin DOMAIN dcfg =>
        /\ Live(r) = {}
        /\ r \in DOMAIN dplug =>
             /\ dplug[r].done = "nil"
             /\ dpc \in Removing \cup Changing /\ r \in DOMAIN dnext => dplug[r].cfg = dnext[r]

\* The path of a plugin with a loop is protected, and a plugin that was started
\* has its directory.
PathAt(r) ==
    r \in DOMAIN dplug =>
        /\ Live(r) # {} /\ dpc \notin {"stopping", "off"} => owned[NameOf[r]] = r
        /\ r \in DOMAIN dcfg /\ (dpc \notin {"new", "starting"} \/ (dpc = "starting" /\ r \notin dtodo)) =>
             /\ ~(dpc = "stopping removed" /\ r \in dcur) => ddata[r] # Absent
             /\ dpc \in Removing => dsaved[r] # Absent

\* While no Stop gave up, the channels of a plugin tell whether it has a loop.
PluginAt(r) ==
    /\ r \in DOMAIN dplug =>
         /\ dplug[r].done = "nil" => Live(r) = {} /\ ~dplug[r].exit
         /\ dplug[r].done = "open" => \E k \in Loops : Live(r) = {k}
         /\ dplug[r].done = "closed" => Live(r) = {} /\ dplug[r].exit
         /\ dplug[r].exit => r \in dcur \/ (dpc \in {"stopping", "off"} /\ r \notin dtodo)
         /\ dpc = "new" \/ (dpc = "starting" /\ r \in dtodo) => dplug[r].done = "nil"
    /\ r \notin DOMAIN dplug => Live(r) = {}

\* The removal has failed, and the umbrella will come to the plugin that has
\* no configuration.
Doomed == dpc \in Changing /\ \E r \in dtodo : r \notin DOMAIN dnext

GoneAt(r) == r \in Refs \ DOMAIN dplug => ddata[r] \in {Absent, ClientValue} \/ Doomed

QuietInv == dcount.cancel = 0 => \A r \in Refs : PluginAt(r) /\ GoneAt(r)

\* A loop that asks for its transform ingests only once it is loaded.
ReadyInv ==
    \A r \in Refs, k \in Loops :
        dloop[r][k].st = "ingest" =>
            (ChecksReady(dkind[r]) => r \in ready)

IData ==
    /\ TypesInv /\ UmbrellaInv /\ QuietInv /\ ReadyInv /\ CrashesHaveACause
    /\ \A r \in Refs : AddedAt(r) /\ PathAt(r)

-----------------------------------------------------------------------------
(* Types.                                                                  *)

LEMMA Bounds ==
    /\ MaxSource \in Nat /\ NoVersion = MaxSource + 1 /\ Absent = MaxSource + 2
    /\ EmptyDir = MaxSource + 3 /\ ClientValue = MaxSource + 4
    /\ {Absent, EmptyDir, ClientValue} \subseteq 0 .. ClientValue
    /\ Absent # ClientValue /\ Absent # EmptyDir
    /\ \A v \in 0 .. NoVersion : v \in 0 .. ClientValue /\ v # Absent
    /\ 0 .. MaxSource \subseteq 0 .. NoVersion /\ NoVersion \in 0 .. NoVersion
BY DataAssumption DEF NoVersion, Absent, EmptyDir, ClientValue

\* A loop knows a version of its source or none.
LEMMA PollTypes ==
    ASSUME NEW kind \in Kinds, NEW seen \in 0 .. NoVersion, NEW v \in 0 .. NoVersion
    PROVE  /\ PollOf(kind, seen, v).fetched \in 0 .. NoVersion
           /\ PollOf(kind, seen, v).ok \in 0 .. NoVersion
           /\ PollOf(kind, seen, v).fail \in 0 .. NoVersion
<1>0. \A i, a, b, c : Poll(i, a, b, c).fetched = a /\ Poll(i, a, b, c).ok = b /\ Poll(i, a, b, c).fail = c
  BY DEF Poll
<1>n. NoVersion \in 0 .. NoVersion
  BY Bounds
<1>1. CASE kind = "http"
  BY <1>0, <1>1 DEF PollOf, HTTPPoll
<1>2. CASE kind = "localfile"
  BY <1>0, <1>2, <1>n DEF PollOf, FilePoll
<1>3. CASE kind = "git"
  BY <1>0, <1>3 DEF PollOf, GitPoll
<1>4. CASE kind = "s3"
  BY <1>0, <1>4 DEF PollOf, S3Poll
<1>5. CASE kind = "okta"
  BY <1>5 DEF PollOf, OktaPoll, Poll
<1>6. CASE kind = "ldap"
  BY <1>6 DEF PollOf, LDAPPoll, Poll
<1>7. CASE kind = "mongodb"
  BY <1>7 DEF PollOf, MongoPoll, Poll
<1>8. CASE kind = "kafka"
  BY <1>0, <1>8 DEF PollOf, KafkaPoll
<1>9. CASE kind = "pulsar"
  BY <1>0, <1>9 DEF PollOf, PulsarPoll
<1> QED
  BY <1>1, <1>2, <1>3, <1>4, <1>5, <1>6, <1>7, <1>8, <1>9 DEF Kinds

LEMMA NoLoopType == NoLoop \in LoopRecords /\ NoLoop.st = "none" /\ NoLoop.seen = NoVersion
BY Bounds DEF NoLoop, LoopRecords

\* The configuration of a mount point is one of the configurations'.
LEMMA ConfigType ==
    ASSUME NEW c \in FirstConfigs \cup NextConfigs, NEW r \in DOMAIN c
    PROVE  c[r] \in Configs /\ r \in Refs
BY DataAssumption DEF Configs

LEMMA NewPluginType ==
    ASSUME NEW c \in Configs
    PROVE  NewPlugin(c) \in PluginRecords /\ NewPlugin(c).done = "nil" /\ ~NewPlugin(c).exit
           /\ NewPlugin(c).cfg = c
BY DEF NewPlugin, PluginRecords

\* A step of one loop.
LEMMA OneLoopMoves ==
    ASSUME TypesInv, NEW r \in Refs, NEW k \in Loops, NEW l \in LoopRecords,
           dloop' = [dloop EXCEPT ![r] = [dloop[r] EXCEPT ![k] = l]]
    PROVE  /\ dloop' \in [Refs -> [Loops -> LoopRecords]]
           /\ dloop'[r][k] = l
           /\ \A j \in Loops \ {k} : dloop'[r][j] = dloop[r][j]
           /\ \A s \in Refs \ {r} : dloop'[s] = dloop[s] /\ Live(s)' = Live(s)
           /\ Live(r)' = IF l.st \in {"select", "ingest"} THEN Live(r) \cup {k} ELSE Live(r) \ {k}
<1>1. dloop[r] \in [Loops -> LoopRecords]
  BY DEF TypesInv
<1> HIDE DEF LoopRecords
<1>2. /\ dloop' \in [Refs -> [Loops -> LoopRecords]]
      /\ dloop'[r][k] = l
      /\ \A j \in Loops \ {k} : dloop'[r][j] = dloop[r][j]
      /\ \A s \in Refs \ {r} : dloop'[s] = dloop[s]
  BY <1>1 DEF TypesInv
<1>3. \A s \in Refs \ {r} : Live(s)' = Live(s)
  BY <1>2 DEF Live
<1>4. Live(r)' = IF l.st \in {"select", "ingest"} THEN Live(r) \cup {k} ELSE Live(r) \ {k}
  BY <1>2 DEF Live
<1> QED
  BY <1>2, <1>3, <1>4

\* What Start of a plugin does.
LEMMA StartEffect ==
    ASSUME TypesInv, NEW r \in DOMAIN dplug, NEW c \in Configs, StartPlugin(r, c)
    PROVE  /\ ~dwmu
           /\ dloop' \in [Refs -> [Loops -> LoopRecords]]
           /\ \E k \in Loops \ Live(r) : Live(r)' = Live(r) \cup {k}
           /\ \A s \in Refs \ {r} : Live(s)' = Live(s)
           /\ \A s \in Refs, k \in Loops : dloop'[s][k].st = "ingest" => dloop[s][k].st = "ingest"
           /\ ddata' \in [Refs -> 0 .. ClientValue]
           /\ ddata'[r] # Absent
           /\ \A s \in Refs \ {r} : ddata'[s] = ddata[s]
           /\ DOMAIN dplug' = DOMAIN dplug
           /\ dplug' \in [DOMAIN dplug -> PluginRecords]
           /\ dplug'[r].cfg = c /\ dplug'[r].exit = FALSE /\ dplug'[r].done = "open"
           /\ \A s \in DOMAIN dplug \ {r} : dplug'[s] = dplug[s]
<1>0. r \in Refs /\ ~dwmu
  BY DEF TypesInv, StartPlugin
<1>1. PICK k \in Loops \ Live(r) :
        dloop' = [dloop EXCEPT ![r] = [dloop[r] EXCEPT ![k] = [NoLoop EXCEPT !.st = "select"]]]
  <2>1. Live(r) # Loops /\ Live(r) \subseteq Loops
    BY DEF StartPlugin, Live
  <2>2. \E k \in Loops \ Live(r) : TRUE
    BY <2>1
  <2> DEFINE k == CHOOSE k \in Loops \ Live(r) : TRUE
  <2>3. k \in Loops \ Live(r)
    BY <2>2
  <2>4. dloop' = [dloop EXCEPT ![r][k] = [NoLoop EXCEPT !.st = "select"]]
    BY DEF StartPlugin
  <2> HIDE DEF k
  <2> QED
    BY <2>3, <2>4
<1> DEFINE l == [NoLoop EXCEPT !.st = "select"]
<1>2. l \in LoopRecords /\ l.st = "select"
  BY NoLoopType DEF LoopRecords
<1> HIDE DEF l
<1>3. dloop' = [dloop EXCEPT ![r] = [dloop[r] EXCEPT ![k] = l]]
  BY <1>1 DEF l
<1>4. /\ dloop' \in [Refs -> [Loops -> LoopRecords]]
      /\ dloop'[r][k] = l
      /\ \A j \in Loops \ {k} : dloop'[r][j] = dloop[r][j]
      /\ \A s \in Refs \ {r} : dloop'[s] = dloop[s] /\ Live(s)' = Live(s)
      /\ Live(r)' = Live(r) \cup {k}
  <2>1. k \in Loops
    BY <1>1
  <2>2. Live(r)' = IF l.st \in {"select", "ingest"} THEN Live(r) \cup {k} ELSE Live(r) \ {k}
    BY <1>0, <1>2, <1>3, <2>1, OneLoopMoves
  <2>3. Live(r)' = Live(r) \cup {k}
    BY <1>2, <2>2
  <2> QED
    BY <1>0, <1>2, <1>3, <2>1, <2>3, OneLoopMoves
<1>5. \A s \in Refs, j \in Loops : dloop'[s][j].st = "ingest" => dloop[s][j].st = "ingest"
  BY <1>2, <1>4
<1>6. /\ ddata' \in [Refs -> 0 .. ClientValue] /\ ddata'[r] # Absent
      /\ \A s \in Refs \ {r} : ddata'[s] = ddata[s]
  BY <1>0, Bounds DEF TypesInv, StartPlugin
<1> DEFINE p == [cfg |-> c, exit |-> FALSE, done |-> "open"]
<1>7. p \in PluginRecords /\ p.cfg = c /\ p.exit = FALSE /\ p.done = "open"
  BY DEF PluginRecords
<1>8. dplug' = [dplug EXCEPT ![r] = p]
  BY DEF StartPlugin
<1> HIDE DEF p
<1>9. /\ DOMAIN dplug' = DOMAIN dplug /\ dplug' \in [DOMAIN dplug -> PluginRecords]
      /\ dplug'[r] = p /\ \A s \in DOMAIN dplug \ {r} : dplug'[s] = dplug[s]
  BY <1>7, <1>8 DEF TypesInv
<1> QED
  BY <1>0, <1>4, <1>5, <1>6, <1>7, <1>9

LEMMA DataInitially == DataInit => IData
<1> SUFFICES ASSUME DataInit PROVE IData
  OBVIOUS
<1>1. \A r \in DOMAIN dcfg : r \in Refs /\ dcfg[r] \in Configs
  BY ConfigType DEF DataInit
<1>2. DOMAIN dplug = DOMAIN dcfg /\ dplug \in [DOMAIN dplug -> PluginRecords]
      /\ \A r \in DOMAIN dplug : dplug[r].done = "nil" /\ ~dplug[r].exit
  BY <1>1, NewPluginType DEF DataInit
<1>3. dloop \in [Refs -> [Loops -> LoopRecords]] /\ \A r \in Refs : Live(r) = {}
  BY NoLoopType DEF DataInit, Live
<1>4. dcount \in CountRecords /\ dcount.cancel = 0
  BY DEF DataInit, CountRecords
<1>5. TypesInv
  <2>1. 0 \in 0 .. MaxSource /\ Absent \in 0 .. ClientValue
    BY Bounds
  <2> QED
    BY <1>1, <1>2, <1>3, <1>4, <2>1, DataAssumption DEF DataInit, TypesInv, DataStates
<1>6. UmbrellaInv
  BY <1>2 DEF DataInit, UmbrellaInv, Removing, Changing
<1>7. QuietInv
  BY <1>2, <1>3 DEF DataInit, QuietInv, PluginAt, GoneAt
<1>8. ReadyInv
  BY <1>3, NoLoopType DEF DataInit, ReadyInv
<1>9. CrashesHaveACause
  BY DEF DataInit, CrashesHaveACause
<1>10. ASSUME NEW r \in Refs PROVE AddedAt(r) /\ PathAt(r)
  BY <1>2, <1>3 DEF DataInit, AddedAt, PathAt, Removing, Changing
<1> QED
  BY <1>5, <1>6, <1>7, <1>8, <1>9, <1>10 DEF IData

-----------------------------------------------------------------------------
(* The loops and the clients.                                              *)

\* Steps that leave the plugins and the umbrella alone: data changes only
\* below a mount point with a loop, or by a client.
LEMMA UmbrellaRests ==
    ASSUME IData, TypesInv',
           UNCHANGED <<dkind, dcfg, dplug, dsaved, dwmu, owned, dpc, dtodo, dcur, dnext>>,
           \A s \in Refs : Live(s)' = Live(s), dcount'.cancel = dcount.cancel,
           \A s \in Refs : \/ ddata'[s] = ddata[s]
                           \/ /\ ~dwmu /\ ddata'[s] # Absent
                              /\ ddata'[s] = ClientValue \/ Live(s) # {}
    PROVE  UmbrellaInv' /\ QuietInv' /\ \A r \in Refs : AddedAt(r)' /\ PathAt(r)'
<1>1. UmbrellaInv'
  <2>1. dpc = "stopping removed" => \A r \in dcur : ddata'[r] = ddata[r]
    BY DEF IData, UmbrellaInv, TypesInv
  <2> QED
    BY <2>1 DEF IData, UmbrellaInv
<1>2. ASSUME NEW r \in Refs PROVE AddedAt(r)' /\ PathAt(r)'
  <2>1. AddedAt(r) /\ PathAt(r)
    BY DEF IData
  <2>2. AddedAt(r)'
    BY <2>1 DEF AddedAt
  <2>3. PathAt(r)'
    BY <2>1 DEF PathAt
  <2> QED
    BY <2>2, <2>3
<1>3. ASSUME NEW r \in Refs, dcount.cancel = 0 PROVE PluginAt(r)' /\ GoneAt(r)'
  <2>1. PluginAt(r) /\ GoneAt(r)
    BY <1>3 DEF IData, QuietInv
  <2>2. PluginAt(r)'
    BY <2>1 DEF PluginAt
  <2>3. Doomed' <=> Doomed
    BY DEF Doomed
  <2>4. GoneAt(r)'
    BY <2>1, <2>3 DEF GoneAt, PluginAt
  <2> QED
    BY <2>2, <2>4
<1>4. QuietInv'
  BY <1>3 DEF QuietInv
<1> QED
  BY <1>1, <1>2, <1>4

LEMMA LoopPollKeeps ==
    ASSUME IData, dcrash = "no", NEW r \in Refs, NEW k \in Loops, LoopPoll(r, k)
    PROVE  IData'
<1> DEFINE p == PollOf(dkind[r], dloop[r][k].seen, dsrc[r])
           l == [st |-> "ingest", got |-> dsrc[r], seen |-> p.fetched]
<1>0. TypesInv /\ dloop[r][k] \in LoopRecords
  BY DEF IData, TypesInv
<1>1. l \in LoopRecords /\ l.st = "ingest"
  <2>1. dkind[r] \in Kinds /\ dloop[r][k].seen \in 0 .. NoVersion /\ dsrc[r] \in 0 .. NoVersion
    BY <1>0, Bounds DEF TypesInv, LoopRecords
  <2>2. p.fetched \in 0 .. NoVersion
    BY <2>1, PollTypes
  <2> HIDE DEF p
  <2> QED
    BY <2>1, <2>2 DEF LoopRecords
<1>2. /\ dloop' = [dloop EXCEPT ![r] = [dloop[r] EXCEPT ![k] = l]]
      /\ dloop[r][k].st = "select" /\ (ChecksReady(dkind[r]) => r \in ready)
      /\ UNCHANGED <<dkind, dcfg, dplug, ready, dsrc, ddata, dsaved, dwmu, owned, dpc, dtodo, dcur, dnext, dcount, dcrash>>
  BY DEF LoopPoll
<1> HIDE DEF l
<1>3. /\ dloop' \in [Refs -> [Loops -> LoopRecords]] /\ dloop'[r][k] = l
      /\ \A j \in Loops \ {k} : dloop'[r][j] = dloop[r][j]
      /\ \A s \in Refs \ {r} : dloop'[s] = dloop[s] /\ Live(s)' = Live(s)
  BY <1>0, <1>1, <1>2, OneLoopMoves
<1>4. Live(r)' = Live(r)
  <2>1. k \in Live(r)
    BY <1>2 DEF Live
  <2>2. Live(r)' = IF l.st \in {"select", "ingest"} THEN Live(r) \cup {k} ELSE Live(r) \ {k}
    BY <1>0, <1>1, <1>2, OneLoopMoves
  <2> QED
    BY <1>1, <2>1, <2>2
<1>5. TypesInv'
  BY <1>0, <1>2, <1>3 DEF TypesInv
<1>6. UmbrellaInv' /\ QuietInv' /\ \A s \in Refs : AddedAt(s)' /\ PathAt(s)'
  BY <1>2, <1>3, <1>4, <1>5, UmbrellaRests
<1>7. ReadyInv'
  BY <1>2, <1>3 DEF IData, ReadyInv
<1>8. CrashesHaveACause'
  BY <1>2 DEF CrashesHaveACause
<1> QED
  BY <1>5, <1>6, <1>7, <1>8 DEF IData

LEMMA LoopIngestKeeps ==
    ASSUME IData, dcrash = "no", NEW r \in Refs, NEW k \in Loops, LoopIngest(r, k)
    PROVE  IData'
<1> DEFINE p == PollOf(dkind[r], dloop[r][k].seen, dloop[r][k].got)
           Back(seen) == [NoLoop EXCEPT !.st = "select", !.seen = seen]
           got == dloop[r][k].got
<1>0. TypesInv /\ dloop[r][k] \in LoopRecords /\ got \in 0 .. NoVersion
  BY DEF IData, TypesInv, LoopRecords
<1>1. /\ dloop[r][k].st = "ingest" /\ ~dwmu
      /\ UNCHANGED <<dkind, dcfg, dplug, ready, dsrc, dsaved, dwmu, owned, dpc, dtodo, dcur, dnext>>
  BY DEF LoopIngest
<1>2. k \in Live(r)
  BY <1>1 DEF Live
<1>3. /\ p.ok \in 0 .. NoVersion /\ p.fail \in 0 .. NoVersion
  <2>1. dkind[r] \in Kinds /\ dloop[r][k].seen \in 0 .. NoVersion
    BY <1>0 DEF TypesInv, LoopRecords
  <2> QED
    BY <1>0, <2>1, PollTypes
<1> HIDE DEF p
<1>4. \A v \in 0 .. NoVersion : Back(v) \in LoopRecords /\ Back(v).st = "select"
  BY NoLoopType DEF LoopRecords
<1> HIDE DEF Back
<1>5. CASE /\ r \in HasRule /\ r \notin ready
           /\ dcrash' = "transform not loaded"
           /\ UNCHANGED <<dloop, ddata, dcount>>
  <2>1. TypesInv'
    BY <1>0, <1>1, <1>5 DEF TypesInv
  <2>2. UmbrellaInv' /\ QuietInv' /\ \A s \in Refs : AddedAt(s)' /\ PathAt(s)'
    BY <1>1, <1>5, <2>1, UmbrellaRests DEF Live
  <2>3. ReadyInv'
    BY <1>1, <1>5 DEF IData, ReadyInv
  <2>4. CrashesHaveACause'
    BY <1>1, <1>5 DEF IData, ReadyInv, CrashesHaveACause
  <2> QED
    BY <2>1, <2>2, <2>3, <2>4 DEF IData
<1>6. ASSUME NEW l \in LoopRecords, l.st = "select",
             dloop' = [dloop EXCEPT ![r] = [dloop[r] EXCEPT ![k] = l]],
             dcount' \in CountRecords, dcount'.cancel = dcount.cancel, dcrash' = dcrash,
             \/ ddata' = ddata
             \/ ddata[r] # Absent /\ ddata' = [ddata EXCEPT ![r] = got]
      PROVE  IData'
  <2>1. /\ dloop' \in [Refs -> [Loops -> LoopRecords]] /\ dloop'[r][k] = l
        /\ \A j \in Loops \ {k} : dloop'[r][j] = dloop[r][j]
        /\ \A s \in Refs \ {r} : dloop'[s] = dloop[s] /\ Live(s)' = Live(s)
    BY <1>0, <1>6, OneLoopMoves
  <2>2. Live(r)' = Live(r)
    <3>1. Live(r)' = IF l.st \in {"select", "ingest"} THEN Live(r) \cup {k} ELSE Live(r) \ {k}
      BY <1>0, <1>6, OneLoopMoves
    <3> QED
      BY <1>2, <1>6, <3>1
  <2>3. got \in 0 .. ClientValue /\ got # Absent
    BY <1>0, Bounds
  <2> HIDE DEF got
  <2>4. /\ ddata' \in [Refs -> 0 .. ClientValue]
        /\ \A s \in Refs : ddata'[s] = ddata[s] \/ (s = r /\ ddata'[s] # Absent)
    BY <1>0, <1>6, <2>3 DEF TypesInv
  <2>5. TypesInv'
    BY <1>0, <1>1, <1>6, <2>1, <2>4 DEF TypesInv
  <2>6. UmbrellaInv' /\ QuietInv' /\ \A s \in Refs : AddedAt(s)' /\ PathAt(s)'
    BY <1>1, <1>2, <1>6, <2>1, <2>2, <2>4, <2>5, UmbrellaRests
  <2>7. ReadyInv'
    BY <1>1, <1>6, <2>1 DEF IData, ReadyInv
  <2>8. CrashesHaveACause'
    BY <1>6 DEF CrashesHaveACause
  <2> QED
    BY <2>5, <2>6, <2>7, <2>8 DEF IData
<1>7. dcount \in CountRecords /\ [dcount EXCEPT !.fault = @ + 1] \in CountRecords
      /\ [dcount EXCEPT !.fault = @ + 1].cancel = dcount.cancel
  BY <1>0 DEF TypesInv, CountRecords
<1>8. CASE /\ ddata[r] # Absent
           /\ ddata' = [ddata EXCEPT ![r] = got]
           /\ dloop' = [dloop EXCEPT ![r] = [dloop[r] EXCEPT ![k] = Back(p.ok)]]
           /\ UNCHANGED <<dcount, dcrash>>
  BY <1>3, <1>4, <1>6, <1>7, <1>8
<1>9. CASE /\ dcount' \in {dcount, [dcount EXCEPT !.fault = @ + 1]}
           /\ dloop' = [dloop EXCEPT ![r] = [dloop[r] EXCEPT ![k] = Back(p.fail)]]
           /\ UNCHANGED <<ddata, dcrash>>
  BY <1>3, <1>4, <1>6, <1>7, <1>9
<1> QED
  BY <1>5, <1>8, <1>9 DEF LoopIngest, Back, p

LEMMA OutsideKeeps ==
    ASSUME IData, dcrash = "no", NEW r \in Refs,
           TransformsTrigger(r) \/ SourceChanges(r) \/ ClientWrite(r)
    PROVE  IData'
<1>0. TypesInv
  BY DEF IData
<1>1. CASE TransformsTrigger(r)
  <2>1. TypesInv'
    BY <1>0, <1>1 DEF TypesInv, TransformsTrigger
  <2>2. UmbrellaInv' /\ QuietInv' /\ \A s \in Refs : AddedAt(s)' /\ PathAt(s)'
    BY <1>1, <2>1, UmbrellaRests DEF TransformsTrigger, Live
  <2> QED
    BY <1>1, <2>1, <2>2 DEF IData, ReadyInv, CrashesHaveACause, TransformsTrigger
<1>2. CASE SourceChanges(r)
  <2>1. dsrc' \in [Refs -> 0 .. MaxSource]
    BY <1>0, <1>2, Bounds DEF TypesInv, SourceChanges
  <2>2. TypesInv'
    BY <1>0, <1>2, <2>1 DEF TypesInv, SourceChanges
  <2>3. UmbrellaInv' /\ QuietInv' /\ \A s \in Refs : AddedAt(s)' /\ PathAt(s)'
    BY <1>2, <2>2, UmbrellaRests DEF SourceChanges, Live
  <2> QED
    BY <1>2, <2>2, <2>3 DEF IData, ReadyInv, CrashesHaveACause, SourceChanges
<1>3. CASE ClientWrite(r)
  <2>1. /\ ddata' \in [Refs -> 0 .. ClientValue] /\ ~dwmu
        /\ \A s \in Refs : ddata'[s] = ddata[s] \/ (ddata'[s] = ClientValue /\ ClientValue # Absent)
    BY <1>0, <1>3, Bounds DEF TypesInv, ClientWrite
  <2>2. TypesInv'
    BY <1>0, <1>3, <2>1 DEF TypesInv, ClientWrite
  <2>3. UmbrellaInv' /\ QuietInv' /\ \A s \in Refs : AddedAt(s)' /\ PathAt(s)'
    BY <1>3, <2>1, <2>2, UmbrellaRests DEF ClientWrite, Live
  <2> QED
    BY <1>3, <2>2, <2>3 DEF IData, ReadyInv, CrashesHaveACause, ClientWrite
<1> QED
  BY <1>1, <1>2, <1>3

LEMMA NonZero == \A n \in Nat : n # 0 => n > 0
OBVIOUS

LEMMA ClosedTwice ==
    ASSUME TypesInv, dcount'.cancel = dcount.cancel,
           dcrash' = "no" \/ (dcrash' = "channel closed twice" /\ dcount.cancel # 0)
    PROVE  CrashesHaveACause'
<1>1. dcount.cancel # 0 => dcount.cancel > 0
  <2>1. dcount.cancel \in Nat
    BY DEF TypesInv, CountRecords
  <2> QED
    BY <2>1, NonZero
<1>2. dcrash' = "channel closed twice" => dcount'.cancel > 0
  BY <1>1
<1>3. dcrash' # "transform not loaded" /\ dcrash' # "no configuration"
  OBVIOUS
<1> QED
  BY <1>2, <1>3 DEF CrashesHaveACause

\* A loop ends: its plugin, if it is still there, was told to exit.
LEMMA LoopExitKeeps ==
    ASSUME IData, dcrash = "no", NEW r \in Refs, NEW k \in Loops, LoopExit(r, k)
    PROVE  IData'
<1>0. TypesInv /\ AddedAt(r) /\ PathAt(r)
  BY DEF IData
<1>1. /\ dloop' = [dloop EXCEPT ![r] = [dloop[r] EXCEPT ![k] = NoLoop]]
      /\ dloop[r][k].st = "select" /\ (r \in DOMAIN dplug => dplug[r].exit)
      /\ UNCHANGED <<dkind, dcfg, ready, dsrc, ddata, dsaved, dwmu, owned, dpc, dtodo, dcur, dnext, dcount>>
  BY DEF LoopExit, ExitClosed
<1>2. /\ dloop' \in [Refs -> [Loops -> LoopRecords]] /\ dloop'[r][k] = NoLoop
      /\ \A j \in Loops \ {k} : dloop'[r][j] = dloop[r][j]
      /\ \A s \in Refs \ {r} : dloop'[s] = dloop[s] /\ Live(s)' = Live(s)
      /\ k \in Live(r) /\ Live(r)' = Live(r) \ {k}
  <2>1. k \in Live(r)
    BY <1>1 DEF Live
  <2>2. Live(r)' = IF NoLoop.st \in {"select", "ingest"} THEN Live(r) \cup {k} ELSE Live(r) \ {k}
    BY <1>0, <1>1, NoLoopType, OneLoopMoves
  <2>3. Live(r)' = Live(r) \ {k}
    BY <2>2, NoLoopType
  <2>4. /\ dloop' \in [Refs -> [Loops -> LoopRecords]] /\ dloop'[r][k] = NoLoop
        /\ \A j \in Loops \ {k} : dloop'[r][j] = dloop[r][j]
        /\ \A s \in Refs \ {r} : dloop'[s] = dloop[s] /\ Live(s)' = Live(s)
    BY <1>0, <1>1, NoLoopType, OneLoopMoves
  <2> QED
    BY <2>1, <2>3, <2>4
<1>3. /\ DOMAIN dplug' = DOMAIN dplug /\ dplug' \in [DOMAIN dplug -> PluginRecords]
      /\ \A s \in DOMAIN dplug \ {r} : dplug'[s] = dplug[s]
      /\ r \in DOMAIN dplug => /\ dplug'[r].done = "closed" /\ dplug'[r].exit = dplug[r].exit
                               /\ dplug'[r].cfg = dplug[r].cfg
  <2>1. CASE r \in DOMAIN dplug
    <3>1. dplug' = [dplug EXCEPT ![r] = [dplug[r] EXCEPT !.done = "closed"]] /\ dplug[r] \in PluginRecords
      BY <1>0, <2>1 DEF LoopExit, TypesInv
    <3> DEFINE p == [dplug[r] EXCEPT !.done = "closed"]
    <3>2. p \in PluginRecords /\ p.done = "closed" /\ p.exit = dplug[r].exit /\ p.cfg = dplug[r].cfg
      BY <3>1 DEF PluginRecords
    <3> HIDE DEF p
    <3>3. dplug' = [dplug EXCEPT ![r] = p]
      BY <3>1 DEF p
    <3> QED
      BY <1>0, <2>1, <3>2, <3>3 DEF TypesInv
  <2>2. CASE r \notin DOMAIN dplug
    BY <1>0, <2>2 DEF LoopExit, TypesInv
  <2> QED
    BY <2>1, <2>2
<1>4. TypesInv'
  BY <1>0, <1>1, <1>2, <1>3 DEF TypesInv
<1>5. UmbrellaInv'
  BY <1>1, <1>3 DEF IData, UmbrellaInv
<1>6. ASSUME NEW s \in Refs PROVE AddedAt(s)' /\ PathAt(s)'
  <2>1. AddedAt(s) /\ PathAt(s)
    BY DEF IData
  <2>2. CASE s = r
    <3>1. r \in DOMAIN dcfg
      BY <1>0, <1>2 DEF AddedAt
    <3>2. AddedAt(s)'
      BY <1>1, <2>2, <3>1 DEF AddedAt
    <3>3. PathAt(s)'
      BY <1>0, <1>1, <1>2, <1>3, <2>2 DEF PathAt
    <3> QED
      BY <3>2, <3>3
  <2>3. CASE s # r
    <3>1. AddedAt(s)'
      BY <1>1, <1>2, <1>3, <2>1, <2>3 DEF AddedAt
    <3>2. PathAt(s)'
      BY <1>1, <1>2, <1>3, <2>1, <2>3 DEF PathAt
    <3> QED
      BY <3>1, <3>2
  <2> QED
    BY <2>2, <2>3
<1>7. dcount.cancel = 0 => r \in DOMAIN dplug /\ dplug[r].done = "open" /\ Live(r) = {k}
  <2>1. dcount.cancel = 0 => PluginAt(r)
    BY DEF IData, QuietInv
  <2>2. r \in DOMAIN dplug => dplug[r].done \in {"nil", "open", "closed"}
    BY <1>0 DEF TypesInv, PluginRecords
  <2> QED
    BY <1>2, <2>1, <2>2 DEF PluginAt
<1>8. ASSUME NEW s \in Refs, dcount.cancel = 0 PROVE PluginAt(s)' /\ GoneAt(s)'
  <2>1. PluginAt(s) /\ GoneAt(s)
    BY <1>8 DEF IData, QuietInv
  <2>2. PluginAt(s)'
    <3>1. CASE s = r
      <4>1. Live(r)' = {}
        BY <1>2, <1>7, <1>8
      <4>2. dplug'[r].done = "closed" /\ dplug'[r].exit /\ r \in DOMAIN dplug
        BY <1>1, <1>3, <1>7, <1>8
      <4> QED
        BY <1>1, <1>3, <1>7, <1>8, <2>1, <3>1, <4>1, <4>2 DEF PluginAt
    <3>2. CASE s # r
      BY <1>1, <1>2, <1>3, <2>1, <3>2 DEF PluginAt
    <3> QED
      BY <3>1, <3>2
  <2>3. GoneAt(s)'
    BY <1>1, <1>3, <2>1 DEF GoneAt, Doomed
  <2> QED
    BY <2>2, <2>3
<1>9. QuietInv'
  BY <1>1, <1>8 DEF QuietInv
<1>10. ReadyInv'
  BY <1>1, <1>2, NoLoopType DEF IData, ReadyInv
<1>11. CrashesHaveACause'
  <2>1. \/ dcrash' = "no"
        \/ dcrash' = "channel closed twice" /\ dcount.cancel # 0
    BY <1>7 DEF LoopExit
  <2> QED
    BY <1>0, <1>1, <2>1, ClosedTwice
<1> QED
  BY <1>4, <1>5, <1>6, <1>9, <1>10, <1>11 DEF IData

-----------------------------------------------------------------------------
(* The umbrella.                                                           *)

\* The paths are kept by plugin name: plugins of one type share an entry.
DistinctNames == \A r, s \in Refs : NameOf[r] = NameOf[s] => r = s

LEMMA OwnedEffect ==
    ASSUME DistinctNames, TypesInv, NEW r \in Refs, NEW v, owned' = [owned EXCEPT ![NameOf[r]] = v]
    PROVE  /\ DOMAIN owned' = {NameOf[s] : s \in Refs}
           /\ owned'[NameOf[r]] = v
           /\ \A s \in Refs \ {r} : owned'[NameOf[s]] = owned[NameOf[s]]
BY DEF DistinctNames, TypesInv

LEMMA ExitEffect ==
    ASSUME TypesInv, NEW r \in DOMAIN dplug, NEW x \in BOOLEAN,
           dplug' = [dplug EXCEPT ![r].exit = x]
    PROVE  /\ DOMAIN dplug' = DOMAIN dplug /\ dplug' \in [DOMAIN dplug -> PluginRecords]
           /\ \A s \in DOMAIN dplug \ {r} : dplug'[s] = dplug[s]
           /\ dplug'[r].exit = x /\ dplug'[r].done = dplug[r].done /\ dplug'[r].cfg = dplug[r].cfg
<1>1. dplug' = [dplug EXCEPT ![r] = [dplug[r] EXCEPT !.exit = x]] /\ dplug[r] \in PluginRecords
  BY DEF TypesInv
<1> DEFINE p == [dplug[r] EXCEPT !.exit = x]
<1>2. p \in PluginRecords /\ p.exit = x /\ p.done = dplug[r].done /\ p.cfg = dplug[r].cfg
  BY <1>1 DEF PluginRecords
<1> HIDE DEF p
<1>3. dplug' = [dplug EXCEPT ![r] = p]
  BY <1>1 DEF p
<1> QED
  BY <1>2, <1>3 DEF TypesInv

LEMMA StoppedEffect ==
    ASSUME TypesInv, NEW r, Stopped(r)
    PROVE  /\ dcount' \in CountRecords
           /\ dcount'.cancel = 0 => dcount.cancel = 0 /\ dplug[r].done # "open"
           /\ dcount'.cancel >= dcount.cancel
BY DEF TypesInv, CountRecords, Stopped

LEMMA LoopsRest ==
    ASSUME UNCHANGED <<dkind, dloop, ready>>
    PROVE  (\A r \in Refs : Live(r)' = Live(r)) /\ (ReadyInv => ReadyInv')
BY DEF Live, ReadyInv

LEMMA StartsKeep ==
    ASSUME DistinctNames, IData, dcrash = "no", NEW r \in DOMAIN dplug, r \in DOMAIN dcfg, r \in dtodo,
           NEW c \in Configs, StartPlugin(r, c), Register(r),
           dtodo' = dtodo \ {r}, dcur' = {}, dcur \subseteq {r},
           UNCHANGED <<dkind, dcfg, ready, dsrc, dsaved, dwmu, dnext, dcrash>>,
           \/ dpc \in {"starting", "reconfiguring"} /\ dpc' = dpc
           \/ dpc = "stopping changed" /\ dpc' = "reconfiguring",
           dcount' \in CountRecords,
           dcount'.cancel = 0 => dcount.cancel = 0 /\ Live(r) = {},
           dpc \in Changing => r \in DOMAIN dnext
    PROVE  IData'
<1>0. TypesInv /\ UmbrellaInv /\ r \in Refs
  BY DEF IData, TypesInv
<1>1. /\ ~dwmu
      /\ dloop' \in [Refs -> [Loops -> LoopRecords]]
      /\ \E k \in Loops : Live(r)' = Live(r) \cup {k}
      /\ \A s \in Refs \ {r} : Live(s)' = Live(s)
      /\ \A s \in Refs, k \in Loops : dloop'[s][k].st = "ingest" => dloop[s][k].st = "ingest"
      /\ ddata' \in [Refs -> 0 .. ClientValue]
      /\ ddata'[r] # Absent
      /\ \A s \in Refs \ {r} : ddata'[s] = ddata[s]
      /\ DOMAIN dplug' = DOMAIN dplug
      /\ dplug' \in [DOMAIN dplug -> PluginRecords]
      /\ dplug'[r].cfg = c /\ dplug'[r].exit = FALSE /\ dplug'[r].done = "open"
      /\ \A s \in DOMAIN dplug \ {r} : dplug'[s] = dplug[s]
  BY <1>0, StartEffect
<1>2. /\ DOMAIN owned' = {NameOf[s] : s \in Refs} /\ owned'[NameOf[r]] = r
      /\ \A s \in Refs \ {r} : owned'[NameOf[s]] = owned[NameOf[s]]
  BY <1>0, OwnedEffect DEF Register
<1>3. /\ dpc' \in {"starting", "reconfiguring"}
      /\ (dpc' \in Changing) <=> (dpc \in Changing)
      /\ dpc' \notin Removing /\ dpc \notin Removing
      /\ (dpc = "starting") <=> (dpc' = "starting")
  BY DEF Changing, Removing
<1>4. TypesInv'
  BY <1>0, <1>1, <1>2, <1>3 DEF TypesInv, DataStates, Changing
<1>5. UmbrellaInv'
  BY <1>0, <1>1, <1>3 DEF UmbrellaInv, Removing
<1>6. ASSUME NEW s \in Refs PROVE AddedAt(s)' /\ PathAt(s)'
  <2>1. AddedAt(s) /\ PathAt(s)
    BY DEF IData
  <2>2. AddedAt(s)'
    BY <1>1, <1>3, <2>1 DEF AddedAt, Removing, Changing
  <2>3. PathAt(s)'
    <3>1. CASE s = r
      BY <1>1, <1>2, <1>3, <3>1 DEF PathAt
    <3>2. CASE s # r
      BY <1>1, <1>2, <1>3, <2>1, <3>2 DEF PathAt
    <3> QED
      BY <3>1, <3>2
  <2> QED
    BY <2>2, <2>3
<1>7. ASSUME NEW s \in Refs, dcount'.cancel = 0 PROVE PluginAt(s)' /\ GoneAt(s)'
  <2>1. PluginAt(s) /\ GoneAt(s)
    BY <1>7 DEF IData, QuietInv
  <2>2. PluginAt(s)'
    <3>1. CASE s = r
      <4>1. \E k \in Loops : Live(r)' = {k}
        BY <1>1, <1>7
      <4> QED
        BY <1>1, <1>3, <3>1, <4>1 DEF PluginAt
    <3>2. CASE s # r
      BY <1>1, <1>3, <2>1, <3>2 DEF PluginAt
    <3> QED
      BY <3>1, <3>2
  <2>3. Doomed => Doomed'
    BY <1>3 DEF Doomed
  <2>4. GoneAt(s)'
    BY <1>1, <2>1, <2>3 DEF GoneAt
  <2> QED
    BY <2>2, <2>4
<1>8. QuietInv'
  BY <1>7 DEF QuietInv
<1>9. ReadyInv'
  BY <1>1 DEF IData, ReadyInv
<1>10. CrashesHaveACause'
  BY DEF CrashesHaveACause
<1> QED
  BY <1>4, <1>5, <1>6, <1>8, <1>9, <1>10 DEF IData

LEMMA StartKeeps == ASSUME IData, dcrash = "no", Start \/ Stop PROVE IData'
<1>0. TypesInv /\ UmbrellaInv
  BY DEF IData
<1>1. /\ \/ dpc = "new" /\ dpc' = "starting"
         \/ dpc = "on" /\ dpc' = "stopping"
      /\ dtodo' = DOMAIN dplug
      /\ UNCHANGED <<dkind, dcfg, dplug, dloop, ready, dsrc, ddata, dsaved, dwmu, owned, dcur, dnext, dcount, dcrash>>
  BY DEF Start, Stop
<1>2. (\A r \in Refs : Live(r)' = Live(r)) /\ ReadyInv'
  BY <1>1, LoopsRest DEF IData
<1>3. TypesInv'
  BY <1>0, <1>1 DEF TypesInv, DataStates
<1>4. UmbrellaInv'
  BY <1>0, <1>1 DEF UmbrellaInv, Removing, Changing
<1>5. ASSUME NEW s \in Refs PROVE AddedAt(s)' /\ PathAt(s)'
  <2>1. AddedAt(s) /\ PathAt(s)
    BY DEF IData
  <2>2. AddedAt(s)'
    BY <1>1, <1>2, <2>1 DEF AddedAt, Removing, Changing
  <2>3. PathAt(s)'
    BY <1>1, <1>2, <2>1 DEF PathAt, Removing
  <2> QED
    BY <2>2, <2>3
<1>6. ASSUME NEW s \in Refs, dcount'.cancel = 0 PROVE PluginAt(s)' /\ GoneAt(s)'
  <2>1. PluginAt(s) /\ GoneAt(s)
    BY <1>1, <1>6 DEF IData, QuietInv
  <2>2. PluginAt(s)'
    BY <1>0, <1>1, <1>2, <2>1 DEF PluginAt, UmbrellaInv
  <2>3. GoneAt(s)'
    BY <1>1, <2>1 DEF GoneAt, Doomed, Changing
  <2> QED
    BY <2>2, <2>3
<1>7. QuietInv' /\ CrashesHaveACause'
  BY <1>1, <1>6 DEF QuietInv, CrashesHaveACause
<1> QED
  BY <1>2, <1>3, <1>4, <1>5, <1>7 DEF IData

LEMMA StartOneKeeps ==
    ASSUME DistinctNames, IData, dcrash = "no", NEW r \in DOMAIN dplug, StartOne(r)
    PROVE  IData'
<1>0. TypesInv /\ UmbrellaInv
  BY DEF IData
<1>1. /\ dpc = "starting" /\ r \in dtodo /\ StartPlugin(r, dplug[r].cfg) /\ Register(r)
      /\ dtodo' = dtodo \ {r}
      /\ UNCHANGED <<dkind, dcfg, ready, dsrc, dsaved, dwmu, dpc, dcur, dnext, dcount, dcrash>>
  BY DEF StartOne
<1>2. dcur = {} /\ r \in DOMAIN dcfg /\ dpc \notin Changing
  BY <1>0, <1>1 DEF UmbrellaInv, Changing
<1>3. dplug[r].cfg \in Configs /\ dcount' \in CountRecords /\ r \in Refs
  BY <1>0, <1>1 DEF TypesInv, PluginRecords
<1>4. dcount'.cancel = 0 => dcount.cancel = 0 /\ Live(r) = {}
  BY <1>1, <1>3 DEF IData, QuietInv, PluginAt
<1> QED
  BY <1>1, <1>2, <1>3, <1>4, StartsKeep

\* A mount point that the first configuration lacks gets a plugin that nothing
\* starts.
LEMMA ReconfigureKeeps ==
    ASSUME IData, dcrash = "no", NEW next \in NextConfigs, Reconfigure(next)
    PROVE  IData'
<1> DEFINE added == DOMAIN next \ DOMAIN dcfg
<1>0. TypesInv /\ UmbrellaInv
  BY DEF IData
<1>1. /\ dpc = "on" /\ dpc' = "removing" /\ dnext' = next
      /\ dplug' = [r \in DOMAIN dplug \cup added |-> IF r \in added THEN NewPlugin(next[r]) ELSE dplug[r]]
      /\ dtodo' = DOMAIN dplug \ DOMAIN next
      /\ dsaved' = ddata
      /\ dcount' = [dcount EXCEPT !.reconf = @ + 1]
      /\ UNCHANGED <<dkind, dcfg, dloop, ready, dsrc, ddata, dwmu, owned, dcur, dcrash>>
  BY DEF Reconfigure
<1>2. (\A r \in Refs : Live(r)' = Live(r)) /\ ReadyInv'
  BY <1>1, LoopsRest DEF IData
<1>3. dcount' \in CountRecords /\ dcount'.cancel = dcount.cancel
  BY <1>0, <1>1 DEF TypesInv, CountRecords
<1>4. dcur = {} /\ ~dwmu
  BY <1>0, <1>1 DEF UmbrellaInv, Removing
<1>5. \A r \in added : /\ r \in Refs /\ NewPlugin(next[r]) \in PluginRecords
                       /\ NewPlugin(next[r]).done = "nil" /\ ~NewPlugin(next[r]).exit
                       /\ NewPlugin(next[r]).cfg = next[r]
  <2> SUFFICES ASSUME NEW r \in added
               PROVE  /\ r \in Refs /\ NewPlugin(next[r]) \in PluginRecords
                      /\ NewPlugin(next[r]).done = "nil" /\ ~NewPlugin(next[r]).exit
                      /\ NewPlugin(next[r]).cfg = next[r]
    OBVIOUS
  <2>1. next[r] \in Configs /\ r \in Refs
    BY ConfigType
  <2> QED
    BY <2>1, NewPluginType
<1>6. /\ DOMAIN dplug' = DOMAIN dplug \cup added
      /\ \A r \in added : dplug'[r] = NewPlugin(next[r])
      /\ \A r \in DOMAIN dplug \ added : dplug'[r] = dplug[r]
  BY <1>1
<1>7. dplug' \in [DOMAIN dplug' -> PluginRecords] /\ DOMAIN dplug' \subseteq Refs
  <2>1. \A r \in DOMAIN dplug : dplug[r] \in PluginRecords
    BY <1>0 DEF TypesInv
  <2>2. \A r \in DOMAIN dplug \cup added : dplug'[r] \in PluginRecords
    BY <1>5, <1>6, <2>1
  <2> QED
    BY <1>0, <1>1, <1>5, <1>6, <2>2 DEF TypesInv
<1>8. \A r \in added : r \in DOMAIN next /\ r \notin DOMAIN dcfg
  OBVIOUS
<1>9. \A r \in DOMAIN next : r \in DOMAIN dcfg \/ r \in added
  OBVIOUS
<1> HIDE DEF added
<1>10. TypesInv'
  BY <1>0, <1>1, <1>3, <1>6, <1>7 DEF TypesInv, DataStates, Removing
<1>11. UmbrellaInv'
  BY <1>0, <1>1, <1>4, <1>6, <1>8 DEF UmbrellaInv, Removing, Changing
<1>12. ASSUME NEW s \in Refs PROVE AddedAt(s)' /\ PathAt(s)'
  <2>1. AddedAt(s) /\ PathAt(s)
    BY DEF IData
  <2>2. AddedAt(s)'
    <3>1. CASE s \in added
      BY <1>1, <1>2, <1>5, <1>6, <1>8, <2>1, <3>1 DEF AddedAt
    <3>2. CASE s \notin added
      BY <1>1, <1>2, <1>6, <1>9, <2>1, <3>2 DEF AddedAt
    <3> QED
      BY <3>1, <3>2
  <2>3. PathAt(s)'
    <3>1. CASE s \in added
      BY <1>1, <1>2, <1>8, <2>1, <3>1 DEF AddedAt, PathAt
    <3>2. CASE s \notin added
      BY <1>1, <1>2, <1>6, <2>1, <3>2 DEF PathAt
    <3> QED
      BY <3>1, <3>2
  <2> QED
    BY <2>2, <2>3
<1>13. ASSUME NEW s \in Refs, dcount'.cancel = 0 PROVE PluginAt(s)' /\ GoneAt(s)'
  <2>1. PluginAt(s) /\ GoneAt(s) /\ AddedAt(s)
    BY <1>3, <1>13 DEF IData, QuietInv
  <2>2. PluginAt(s)'
    <3>1. CASE s \in added
      BY <1>1, <1>2, <1>5, <1>6, <1>8, <2>1, <3>1 DEF AddedAt, PluginAt
    <3>2. CASE s \notin added
      BY <1>1, <1>2, <1>4, <1>6, <2>1, <3>2 DEF PluginAt
    <3> QED
      BY <3>1, <3>2
  <2>3. GoneAt(s)'
    BY <1>1, <1>6, <2>1 DEF GoneAt, Doomed, Changing
  <2> QED
    BY <2>2, <2>3
<1>14. QuietInv' /\ CrashesHaveACause'
  BY <1>1, <1>13 DEF QuietInv, CrashesHaveACause
<1> QED
  BY <1>2, <1>10, <1>11, <1>12, <1>14 DEF IData

\* Reconfigure removes the data of a plugin and Stop closes its channel, or the
\* umbrella's Stop only closes the channel.
LEMMA CloseKeeps ==
    ASSUME IData, dcrash = "no", NEW r \in DOMAIN dplug, RemoveOne(r) \/ StopOne(r)
    PROVE  IData'
<1>0. TypesInv /\ UmbrellaInv /\ r \in Refs
  BY DEF IData, TypesInv
<1>1. /\ r \in dtodo /\ dcur = {} /\ dcur' = {r}
      /\ dplug' = [dplug EXCEPT ![r].exit = (dplug[r].done # "nil")]
      /\ dcrash' = IF dplug[r].done # "nil" /\ dplug[r].exit THEN "channel closed twice" ELSE dcrash
      /\ UNCHANGED <<dkind, dcfg, dloop, ready, dsrc, dsaved, owned, dtodo, dnext, dcount>>
      /\ \/ /\ dpc = "removing" /\ dpc' = "stopping removed" /\ dwmu' = TRUE
            /\ ddata' = [ddata EXCEPT ![r] = Absent]
         \/ dpc = "stopping" /\ dpc' = "stopping" /\ UNCHANGED <<ddata, dwmu>>
  BY <1>0 DEF RemoveOne, StopOne, UmbrellaInv
<1>2. (\A s \in Refs : Live(s)' = Live(s)) /\ ReadyInv'
  BY <1>1, LoopsRest DEF IData
<1>3. /\ DOMAIN dplug' = DOMAIN dplug /\ dplug' \in [DOMAIN dplug -> PluginRecords]
      /\ \A s \in DOMAIN dplug \ {r} : dplug'[s] = dplug[s]
      /\ dplug'[r].exit = (dplug[r].done # "nil") /\ dplug'[r].done = dplug[r].done
      /\ dplug'[r].cfg = dplug[r].cfg
  BY <1>0, <1>1, ExitEffect
<1>4. /\ ddata' \in [Refs -> 0 .. ClientValue]
      /\ \A s \in Refs \ {r} : ddata'[s] = ddata[s]
      /\ dpc' = "stopping removed" => ddata'[r] = Absent
      /\ dpc' = "stopping" => ddata'[r] = ddata[r]
  BY <1>0, <1>1, Bounds DEF TypesInv
<1>5. TypesInv'
  BY <1>0, <1>1, <1>3, <1>4 DEF TypesInv, DataStates, Removing
<1>6. UmbrellaInv'
  <2>1. CASE dpc = "stopping"
    <3>1. dpc' = dpc /\ dpc \notin Removing /\ dpc \notin Changing /\ dwmu' = dwmu
      BY <1>1, <2>1 DEF Removing, Changing
    <3> QED
      BY <1>0, <1>1, <1>3, <2>1, <3>1 DEF UmbrellaInv
  <2>2. CASE dpc = "removing"
    <3>1. dpc' = "stopping removed" /\ dwmu' = TRUE /\ dpc' \in Removing /\ dpc' \notin Changing
          /\ dpc \in Removing
      BY <1>1, <2>2 DEF Removing, Changing
    <3> QED
      BY <1>0, <1>1, <1>3, <1>4, <3>1 DEF UmbrellaInv
  <2> QED
    BY <1>1, <2>1, <2>2
<1>7. ASSUME NEW s \in Refs PROVE AddedAt(s)' /\ PathAt(s)'
  <2>1. AddedAt(s) /\ PathAt(s)
    BY DEF IData
  <2>2. AddedAt(s)'
    BY <1>1, <1>2, <1>3, <2>1 DEF AddedAt, Removing, Changing
  <2>3. PathAt(s)'
    <3>1. CASE s = r
      BY <1>1, <1>2, <1>3, <1>4, <2>1, <3>1 DEF PathAt, Removing
    <3>2. CASE s # r
      BY <1>1, <1>2, <1>3, <1>4, <2>1, <3>2 DEF PathAt, Removing
    <3> QED
      BY <3>1, <3>2
  <2> QED
    BY <2>2, <2>3
<1>8. dcount.cancel = 0 => ~dplug[r].exit
  BY <1>0, <1>1 DEF IData, QuietInv, PluginAt
<1>9. ASSUME NEW s \in Refs, dcount.cancel = 0 PROVE PluginAt(s)' /\ GoneAt(s)'
  <2>1. PluginAt(s) /\ GoneAt(s)
    BY <1>9 DEF IData, QuietInv
  <2>2. PluginAt(s)'
    <3>1. CASE s = r
      BY <1>1, <1>2, <1>3, <2>1, <3>1 DEF PluginAt
    <3>2. CASE s # r
      BY <1>1, <1>2, <1>3, <2>1, <3>2 DEF PluginAt
    <3> QED
      BY <3>1, <3>2
  <2>3. GoneAt(s)'
    BY <1>1, <1>3, <1>4, <2>1 DEF GoneAt, Doomed, Changing
  <2> QED
    BY <2>2, <2>3
<1>10. QuietInv'
  BY <1>1, <1>9 DEF QuietInv
<1>11. CrashesHaveACause'
  BY <1>0, <1>1, <1>8, ClosedTwice
<1> QED
  BY <1>2, <1>5, <1>6, <1>7, <1>10, <1>11 DEF IData

\* Reconfigure leaves its transaction: everything is removed, or it found
\* nothing to remove, and then a plugin without configuration stays.
LEMMA RemovalEndsKeeps ==
    ASSUME IData, dcrash = "no",
           RemovedAll \/ \E r \in DOMAIN dplug : RemoveFails(r)
    PROVE  IData'
<1>0. TypesInv /\ UmbrellaInv
  BY DEF IData
<1>1. /\ dpc = "removing" /\ dpc' = "reconfiguring" /\ dwmu' = FALSE /\ dtodo' = DOMAIN dplug
      /\ UNCHANGED <<dkind, dcfg, dplug, dloop, ready, dsrc, dsaved, owned, dcur, dnext, dcount, dcrash>>
      /\ ddata' = ddata \/ ddata' = dsaved
  BY DEF RemovedAll, RemoveFails, ToReconfigure
<1>2. (\A s \in Refs : Live(s)' = Live(s)) /\ ReadyInv'
  BY <1>1, LoopsRest DEF IData
<1>3. dcur = {} /\ dtodo = DOMAIN dplug \ DOMAIN dnext
  BY <1>0, <1>1 DEF UmbrellaInv, Removing
<1>4. \/ DOMAIN dplug \subseteq DOMAIN dnext /\ ddata' = ddata
      \/ (\E r \in DOMAIN dplug : r \notin DOMAIN dnext) /\ DOMAIN dplug \ DOMAIN dcfg # {}
  <2>1. CASE RemovedAll
    BY <1>3, <2>1 DEF RemovedAll
  <2>2. ASSUME NEW r \in DOMAIN dplug, RemoveFails(r)
        PROVE  r \notin DOMAIN dnext /\ r \notin DOMAIN dcfg
    <3>1. r \in dtodo /\ ddata[r] = Absent /\ PathAt(r)
      BY <1>0, <2>2 DEF RemoveFails, IData, TypesInv
    <3> QED
      BY <1>1, <1>3, <3>1 DEF PathAt
  <2> QED
    BY <2>1, <2>2
<1>5. TypesInv'
  BY <1>0, <1>1 DEF TypesInv, DataStates, Changing
<1>6. UmbrellaInv'
  BY <1>1, <1>3, <1>4 DEF UmbrellaInv, Removing, Changing
<1>7. ASSUME NEW s \in Refs PROVE AddedAt(s)' /\ PathAt(s)'
  <2>1. AddedAt(s) /\ PathAt(s)
    BY DEF IData
  <2>2. AddedAt(s)'
    BY <1>1, <1>2, <2>1 DEF AddedAt, Removing, Changing
  <2>3. PathAt(s)'
    BY <1>1, <1>2, <1>3, <2>1 DEF PathAt, Removing
  <2> QED
    BY <2>2, <2>3
<1>8. ASSUME NEW s \in Refs, dcount.cancel = 0 PROVE PluginAt(s)' /\ GoneAt(s)'
  <2>1. PluginAt(s) /\ GoneAt(s)
    BY <1>8 DEF IData, QuietInv
  <2>2. PluginAt(s)'
    BY <1>1, <1>2, <1>3, <2>1 DEF PluginAt
  <2>3. GoneAt(s)'
    BY <1>1, <1>4, <2>1 DEF GoneAt, Doomed, Changing
  <2> QED
    BY <2>2, <2>3
<1>9. QuietInv' /\ CrashesHaveACause'
  BY <1>1, <1>8 DEF QuietInv, CrashesHaveACause
<1> QED
  BY <1>2, <1>5, <1>6, <1>7, <1>9 DEF IData

\* A removed plugin goes, once its loop has ended or Stop has given up.
LEMMA RemovedOneKeeps ==
    ASSUME DistinctNames, IData, dcrash = "no", NEW r \in DOMAIN dplug, RemovedOne(r)
    PROVE  IData'
<1>0. TypesInv /\ UmbrellaInv /\ r \in Refs
  BY DEF IData, TypesInv
<1>1. /\ dpc = "stopping removed" /\ dpc' = "removing" /\ dcur = {r} /\ dcur' = {}
      /\ dplug' = [s \in DOMAIN dplug \ {r} |-> dplug[s]]
      /\ dtodo' = dtodo \ {r} /\ Stopped(r)
      /\ owned' = [owned EXCEPT ![NameOf[r]] = NoOwner]
      /\ UNCHANGED <<dkind, dcfg, dloop, ready, dsrc, ddata, dsaved, dwmu, dnext, dcrash>>
  BY DEF RemovedOne, Restrict, Unregister
<1>2. (\A s \in Refs : Live(s)' = Live(s)) /\ ReadyInv'
  BY <1>1, LoopsRest DEF IData
<1>3. /\ DOMAIN dplug' = DOMAIN dplug \ {r} /\ dplug' \in [DOMAIN dplug' -> PluginRecords]
      /\ \A s \in DOMAIN dplug \ {r} : dplug'[s] = dplug[s]
  BY <1>0, <1>1 DEF TypesInv
<1>4. /\ DOMAIN owned' = {NameOf[s] : s \in Refs}
      /\ \A s \in Refs \ {r} : owned'[NameOf[s]] = owned[NameOf[s]]
  BY <1>0, <1>1, OwnedEffect
<1>5. /\ dcount' \in CountRecords
      /\ dcount'.cancel = 0 => dcount.cancel = 0 /\ dplug[r].done # "open"
  BY <1>0, <1>1, StoppedEffect
<1>6. TypesInv'
  BY <1>0, <1>1, <1>3, <1>4, <1>5 DEF TypesInv, DataStates, Removing
<1>7. UmbrellaInv'
  BY <1>0, <1>1, <1>3 DEF UmbrellaInv, Removing, Changing
<1>8. ASSUME NEW s \in Refs PROVE AddedAt(s)' /\ PathAt(s)'
  <2>1. AddedAt(s) /\ PathAt(s)
    BY DEF IData
  <2>2. AddedAt(s)'
    BY <1>1, <1>2, <1>3, <2>1 DEF AddedAt, Removing, Changing
  <2>3. PathAt(s)'
    BY <1>1, <1>2, <1>3, <1>4, <2>1 DEF PathAt, Removing
  <2> QED
    BY <2>2, <2>3
<1>9. ASSUME NEW s \in Refs, dcount'.cancel = 0 PROVE PluginAt(s)' /\ GoneAt(s)'
  <2>1. PluginAt(s) /\ GoneAt(s) /\ dplug[r].done # "open"
    BY <1>5, <1>9 DEF IData, QuietInv
  <2>2. CASE s = r
    <3>1. dplug[r].done \in {"nil", "closed"}
      BY <1>0, <2>1 DEF TypesInv, PluginRecords
    <3>2. PluginAt(s)'
      BY <1>2, <1>3, <2>1, <2>2, <3>1 DEF PluginAt
    <3>3. GoneAt(s)'
      BY <1>0, <1>1, <2>2 DEF GoneAt, UmbrellaInv
    <3> QED
      BY <3>2, <3>3
  <2>3. CASE s # r
    <3>1. PluginAt(s)'
      BY <1>1, <1>2, <1>3, <2>1, <2>3 DEF PluginAt
    <3>2. GoneAt(s)'
      BY <1>1, <1>3, <2>1, <2>3 DEF GoneAt, Doomed, Changing
    <3> QED
      BY <3>1, <3>2
  <2> QED
    BY <2>2, <2>3
<1>10. QuietInv' /\ CrashesHaveACause'
  BY <1>1, <1>9 DEF QuietInv, CrashesHaveACause
<1> QED
  BY <1>2, <1>6, <1>7, <1>8, <1>10 DEF IData

LEMMA StoppedOneKeeps ==
    ASSUME DistinctNames, IData, dcrash = "no", NEW r \in DOMAIN dplug, StoppedOne(r)
    PROVE  IData'
<1>0. TypesInv /\ UmbrellaInv /\ r \in Refs
  BY DEF IData, TypesInv
<1>1. /\ dpc = "stopping" /\ dcur = {r} /\ dcur' = {}
      /\ dtodo' = dtodo \ {r} /\ Stopped(r)
      /\ owned' = [owned EXCEPT ![NameOf[r]] = NoOwner]
      /\ UNCHANGED <<dkind, dcfg, dplug, dloop, ready, dsrc, ddata, dsaved, dwmu, dpc, dnext, dcrash>>
  BY DEF StoppedOne, Unregister
<1>2. (\A s \in Refs : Live(s)' = Live(s)) /\ ReadyInv'
  BY <1>1, LoopsRest DEF IData
<1>3. DOMAIN owned' = {NameOf[s] : s \in Refs}
  BY <1>0, <1>1, OwnedEffect
<1>4. /\ dcount' \in CountRecords
      /\ dcount'.cancel = 0 => dcount.cancel = 0
  BY <1>0, <1>1, StoppedEffect
<1>5. TypesInv'
  BY <1>0, <1>1, <1>3, <1>4 DEF TypesInv
<1>6. UmbrellaInv'
  BY <1>0, <1>1 DEF UmbrellaInv, Removing, Changing
<1>7. ASSUME NEW s \in Refs PROVE AddedAt(s)' /\ PathAt(s)'
  <2>1. AddedAt(s) /\ PathAt(s)
    BY DEF IData
  <2>2. AddedAt(s)'
    BY <1>1, <1>2, <2>1 DEF AddedAt
  <2>3. PathAt(s)'
    BY <1>1, <1>2, <2>1 DEF PathAt, Removing
  <2> QED
    BY <2>2, <2>3
<1>8. ASSUME NEW s \in Refs, dcount'.cancel = 0 PROVE PluginAt(s)' /\ GoneAt(s)'
  <2>1. PluginAt(s) /\ GoneAt(s)
    BY <1>4, <1>8 DEF IData, QuietInv
  <2>2. PluginAt(s)'
    BY <1>1, <1>2, <2>1 DEF PluginAt
  <2>3. GoneAt(s)'
    BY <1>1, <2>1 DEF GoneAt, Doomed, Changing
  <2> QED
    BY <2>2, <2>3
<1>9. QuietInv' /\ CrashesHaveACause'
  BY <1>1, <1>8 DEF QuietInv, CrashesHaveACause
<1> QED
  BY <1>2, <1>5, <1>6, <1>7, <1>9 DEF IData

LEMMA FinishedKeeps == ASSUME IData, dcrash = "no", Finished PROVE IData'
<1>0. TypesInv /\ UmbrellaInv
  BY DEF IData
<1>1. /\ dtodo = {}
      /\ \/ dpc \in {"starting", "reconfiguring"} /\ dpc' = "on"
         \/ dpc = "stopping" /\ dpc' = "off"
      /\ UNCHANGED <<dkind, dcfg, dplug, dloop, ready, dsrc, ddata, dsaved, dwmu, owned, dtodo, dcur, dnext, dcount, dcrash>>
  BY DEF Finished
<1>2. (\A s \in Refs : Live(s)' = Live(s)) /\ ReadyInv'
  BY <1>1, LoopsRest DEF IData
<1>3. dcur = {} /\ ~dwmu
  BY <1>0, <1>1 DEF UmbrellaInv, Removing
<1>4. TypesInv'
  BY <1>0, <1>1 DEF TypesInv, DataStates
<1>5. UmbrellaInv'
  BY <1>1, <1>3 DEF UmbrellaInv, Removing, Changing
<1>6. ASSUME NEW s \in Refs PROVE AddedAt(s)' /\ PathAt(s)'
  <2>1. AddedAt(s) /\ PathAt(s)
    BY DEF IData
  <2>2. AddedAt(s)'
    BY <1>1, <1>2, <2>1 DEF AddedAt, Removing, Changing
  <2>3. PathAt(s)'
    BY <1>1, <1>2, <2>1 DEF PathAt, Removing
  <2> QED
    BY <2>2, <2>3
<1>7. ASSUME NEW s \in Refs, dcount.cancel = 0 PROVE PluginAt(s)' /\ GoneAt(s)'
  <2>1. PluginAt(s) /\ GoneAt(s)
    BY <1>7 DEF IData, QuietInv
  <2>2. PluginAt(s)'
    BY <1>1, <1>2, <1>3, <2>1 DEF PluginAt
  <2>3. GoneAt(s)'
    BY <1>1, <2>1 DEF GoneAt, Doomed
  <2> QED
    BY <2>2, <2>3
<1>8. QuietInv' /\ CrashesHaveACause'
  BY <1>1, <1>7 DEF QuietInv, CrashesHaveACause
<1> QED
  BY <1>2, <1>4, <1>5, <1>6, <1>8 DEF IData

LEMMA RestartOneKeeps ==
    ASSUME DistinctNames, IData, dcrash = "no", NEW r \in DOMAIN dplug, RestartOne(r)
    PROVE  IData'
<1>0. TypesInv /\ UmbrellaInv /\ r \in Refs
  BY DEF IData, TypesInv
<1>1. /\ dpc = "stopping changed" /\ dpc' = "reconfiguring" /\ dcur = {r} /\ dcur' = {}
      /\ Stopped(r) /\ StartPlugin(r, dnext[r]) /\ Register(r) /\ dtodo' = dtodo \ {r}
      /\ UNCHANGED <<dkind, dcfg, ready, dsrc, dsaved, dwmu, dnext, dcrash>>
  BY DEF RestartOne
<1>2. r \in DOMAIN dnext /\ r \in DOMAIN dcfg /\ r \in dtodo
  BY <1>0, <1>1 DEF UmbrellaInv
<1>3. dnext[r] \in Configs
  BY <1>0, <1>2, ConfigType DEF TypesInv
<1>4. /\ dcount' \in CountRecords
      /\ dcount'.cancel = 0 => dcount.cancel = 0 /\ dplug[r].done # "open"
  BY <1>0, <1>1, StoppedEffect
<1>5. dcount'.cancel = 0 => dcount.cancel = 0 /\ Live(r) = {}
  <2>1. dplug[r].done \in {"nil", "open", "closed"}
    BY <1>0 DEF TypesInv, PluginRecords
  <2> QED
    BY <1>0, <1>4, <2>1 DEF IData, QuietInv, PluginAt
<1> QED
  BY <1>0, <1>1, <1>2, <1>3, <1>4, <1>5, StartsKeep

LEMMA ReconfigureOneKeeps ==
    ASSUME DistinctNames, IData, dcrash = "no", NEW r \in DOMAIN dplug, ReconfigureOne(r)
    PROVE  IData'
<1>0. TypesInv /\ UmbrellaInv /\ r \in Refs
  BY DEF IData, TypesInv
<1>1. /\ dpc = "reconfiguring" /\ r \in dtodo
      /\ UNCHANGED <<dkind, dcfg, ready, dsrc, dsaved, dwmu, dnext, dcount>>
  BY DEF ReconfigureOne
<1>2. dcur = {} /\ dpc \in Changing /\ dpc \notin Removing
  BY <1>0, <1>1 DEF UmbrellaInv, Changing, Removing
<1>3. CASE /\ r \notin DOMAIN dnext
           /\ dcrash' = "no configuration"
           /\ UNCHANGED <<dplug, dloop, ddata, owned, dpc, dtodo, dcur>>
  <2>1. TypesInv'
    BY <1>0, <1>1, <1>3 DEF TypesInv
  <2>2. UmbrellaInv' /\ QuietInv' /\ \A s \in Refs : AddedAt(s)' /\ PathAt(s)'
    BY <1>1, <1>3, <2>1, UmbrellaRests DEF Live
  <2>3. ReadyInv'
    BY <1>1, <1>3, LoopsRest DEF IData
  <2>4. DOMAIN dplug \ DOMAIN dcfg # {}
    BY <1>0, <1>2, <1>3 DEF UmbrellaInv
  <2>5. CrashesHaveACause'
    BY <1>1, <1>3, <2>4 DEF CrashesHaveACause
  <2> QED
    BY <2>1, <2>2, <2>3, <2>5 DEF IData
<1>4. CASE /\ r \in DOMAIN dnext
           /\ Register(r) /\ dtodo' = dtodo \ {r}
           /\ UNCHANGED <<dplug, dloop, ddata, dpc, dcur, dcrash>>
  <2>1. /\ DOMAIN owned' = {NameOf[s] : s \in Refs} /\ owned'[NameOf[r]] = r
        /\ \A s \in Refs \ {r} : owned'[NameOf[s]] = owned[NameOf[s]]
    BY <1>0, <1>4, OwnedEffect DEF Register
  <2>2. (\A s \in Refs : Live(s)' = Live(s)) /\ ReadyInv'
    BY <1>1, <1>4, LoopsRest DEF IData
  <2>3. TypesInv'
    BY <1>0, <1>1, <1>4, <2>1 DEF TypesInv
  <2>4. UmbrellaInv'
    BY <1>0, <1>1, <1>2, <1>4 DEF UmbrellaInv
  <2>5. ASSUME NEW s \in Refs PROVE AddedAt(s)' /\ PathAt(s)'
    <3>1. AddedAt(s) /\ PathAt(s)
      BY DEF IData
    <3>2. AddedAt(s)'
      BY <1>1, <1>4, <2>2, <3>1 DEF AddedAt
    <3>3. PathAt(s)'
      BY <1>1, <1>4, <2>1, <2>2, <3>1 DEF PathAt
    <3> QED
      BY <3>2, <3>3
  <2>6. ASSUME NEW s \in Refs, dcount.cancel = 0 PROVE PluginAt(s)' /\ GoneAt(s)'
    <3>1. PluginAt(s) /\ GoneAt(s)
      BY <2>6 DEF IData, QuietInv
    <3>2. PluginAt(s)'
      BY <1>1, <1>4, <2>2, <3>1 DEF PluginAt
    <3>3. Doomed => Doomed'
      BY <1>1, <1>4 DEF Doomed
    <3>4. GoneAt(s)'
      BY <1>4, <3>1, <3>3 DEF GoneAt
    <3> QED
      BY <3>2, <3>4
  <2>7. QuietInv' /\ CrashesHaveACause'
    BY <1>1, <1>4, <2>6 DEF QuietInv, CrashesHaveACause
  <2> QED
    BY <2>2, <2>3, <2>4, <2>5, <2>7 DEF IData
<1>5. CASE /\ r \in DOMAIN dnext /\ dplug[r].cfg # dnext[r] /\ dplug[r].done = "nil"
           /\ StartPlugin(r, dnext[r]) /\ Register(r) /\ dtodo' = dtodo \ {r}
           /\ UNCHANGED <<dpc, dcur, dcrash>>
  <2>1. dnext[r] \in Configs /\ dcount' \in CountRecords
    BY <1>0, <1>1, <1>5, ConfigType DEF TypesInv
  <2>2. r \in DOMAIN dcfg
    BY <1>0, <1>2, <1>5 DEF IData, AddedAt
  <2>3. dcount'.cancel = 0 => dcount.cancel = 0 /\ Live(r) = {}
    BY <1>0, <1>1, <1>5 DEF IData, QuietInv, PluginAt
  <2> QED
    BY <1>1, <1>2, <1>5, <2>1, <2>2, <2>3, StartsKeep
<1>6. CASE /\ r \in DOMAIN dnext /\ dplug[r].done # "nil"
           /\ dplug' = [dplug EXCEPT ![r].exit = TRUE]
           /\ dcrash' = IF dplug[r].exit THEN "channel closed twice" ELSE dcrash
           /\ dpc' = "stopping changed" /\ dcur' = {r}
           /\ UNCHANGED <<dloop, ddata, owned, dtodo>>
  <2>1. /\ DOMAIN dplug' = DOMAIN dplug /\ dplug' \in [DOMAIN dplug -> PluginRecords]
        /\ \A s \in DOMAIN dplug \ {r} : dplug'[s] = dplug[s]
        /\ dplug'[r].exit = TRUE /\ dplug'[r].done = dplug[r].done /\ dplug'[r].cfg = dplug[r].cfg
    BY <1>0, <1>6, ExitEffect
  <2>2. (\A s \in Refs : Live(s)' = Live(s)) /\ ReadyInv'
    BY <1>1, <1>6, LoopsRest DEF IData
  <2>3. r \in DOMAIN dcfg /\ dpc' \in Changing /\ dpc' \notin Removing
    BY <1>0, <1>6 DEF IData, AddedAt, Changing, Removing
  <2>4. TypesInv'
    BY <1>0, <1>1, <1>6, <2>1, <2>3 DEF TypesInv, DataStates
  <2>5. UmbrellaInv'
    BY <1>0, <1>1, <1>2, <1>6, <2>1, <2>3 DEF UmbrellaInv
  <2>6. ASSUME NEW s \in Refs PROVE AddedAt(s)' /\ PathAt(s)'
    <3>1. AddedAt(s) /\ PathAt(s)
      BY DEF IData
    <3>2. AddedAt(s)'
      BY <1>1, <1>2, <1>6, <2>1, <2>2, <2>3, <3>1 DEF AddedAt
    <3>3. PathAt(s)'
      BY <1>1, <1>6, <2>1, <2>2, <2>3, <3>1 DEF PathAt
    <3> QED
      BY <3>2, <3>3
  <2>7. dcount.cancel = 0 => ~dplug[r].exit
    BY <1>0, <1>1, <1>2 DEF IData, QuietInv, PluginAt
  <2>8. ASSUME NEW s \in Refs, dcount.cancel = 0 PROVE PluginAt(s)' /\ GoneAt(s)'
    <3>1. PluginAt(s) /\ GoneAt(s)
      BY <2>8 DEF IData, QuietInv
    <3>2. PluginAt(s)'
      <4>1. CASE s = r
        BY <1>1, <1>6, <2>1, <2>2, <3>1, <4>1 DEF PluginAt
      <4>2. CASE s # r
        BY <1>1, <1>2, <1>6, <2>1, <2>2, <3>1, <4>2 DEF PluginAt
      <4> QED
        BY <4>1, <4>2
    <3>3. Doomed => Doomed'
      BY <1>1, <1>6, <2>3 DEF Doomed
    <3>4. GoneAt(s)'
      BY <1>6, <2>1, <3>1, <3>3 DEF GoneAt
    <3> QED
      BY <3>2, <3>4
  <2>9. QuietInv'
    BY <1>1, <2>8 DEF QuietInv
  <2>10. CrashesHaveACause'
    BY <1>0, <1>1, <1>6, <2>7, ClosedTwice
  <2> QED
    BY <2>2, <2>4, <2>5, <2>6, <2>9, <2>10 DEF IData
<1> QED
  BY <1>3, <1>4, <1>5, <1>6 DEF ReconfigureOne

-----------------------------------------------------------------------------
(* The theorems.                                                           *)

LEMMA DataStepKeeps == DistinctNames /\ IData /\ [DataNext]_dataVars => IData'
<1> SUFFICES ASSUME DistinctNames, IData, [DataNext]_dataVars PROVE IData'
  OBVIOUS
<1>1. CASE UNCHANGED dataVars
  <2>1. TypesInv'
    BY <1>1 DEF dataVars, IData, TypesInv
  <2>2. UmbrellaInv' /\ QuietInv' /\ \A s \in Refs : AddedAt(s)' /\ PathAt(s)'
    BY <1>1, <2>1, UmbrellaRests DEF dataVars, Live
  <2>3. ReadyInv' /\ CrashesHaveACause'
    BY <1>1 DEF dataVars, IData, ReadyInv, CrashesHaveACause
  <2> QED
    BY <2>1, <2>2, <2>3 DEF IData
<1>2. CASE dcrash = "no" /\ Umbrella
  <2>1. ASSUME NEW r \in DOMAIN dplug,
               StartOne(r) \/ RemoveOne(r) \/ RemoveFails(r) \/ RemovedOne(r)
                 \/ ReconfigureOne(r) \/ RestartOne(r) \/ StopOne(r) \/ StoppedOne(r)
        PROVE  IData'
    BY <1>2, <2>1, StartOneKeeps, CloseKeeps, RemovalEndsKeeps, RemovedOneKeeps,
       ReconfigureOneKeeps, RestartOneKeeps, StoppedOneKeeps
  <2> QED
    BY <1>2, <2>1, StartKeeps, FinishedKeeps, RemovalEndsKeeps, ReconfigureKeeps DEF Umbrella
<1>3. ASSUME dcrash = "no", NEW r \in Refs, NEW k \in Loops, LoopStep(r, k) PROVE IData'
  BY <1>3, LoopExitKeeps, LoopPollKeeps, LoopIngestKeeps DEF LoopStep
<1>4. ASSUME dcrash = "no", NEW r \in Refs, TransformsTrigger(r) \/ SourceChanges(r) \/ ClientWrite(r)
      PROVE IData'
  BY <1>4, OutsideKeeps
<1> QED
  BY <1>1, <1>2, <1>3, <1>4 DEF DataNext

LEMMA DataInvariance == DistinctNames /\ DataSpec => []IData
<1> SUFFICES ASSUME DistinctNames PROVE DataSpec => []IData
  OBVIOUS
<1>1. IData /\ [DataNext]_dataVars => IData'
  BY DataStepKeeps
<1> QED
  BY <1>1, DataInitially, PTL DEF DataSpec

LEMMA DataSafe == IData => DataSafety
<1> SUFFICES ASSUME IData PROVE DataSafety
  OBVIOUS
<1>1. OneLoopPerPlugin
  <2> SUFFICES ASSUME dcount.cancel = 0, NEW r \in Refs PROVE Cardinality(Live(r)) <= 1
    BY DEF OneLoopPerPlugin
  <2>1. PluginAt(r)
    BY DEF IData, QuietInv
  <2>2. r \in DOMAIN dplug => dplug[r].done \in {"nil", "open", "closed"}
    BY DEF IData, TypesInv, PluginRecords
  <2>3. Live(r) = {} \/ \E k \in Loops : Live(r) = {k}
    BY <2>1, <2>2 DEF PluginAt
  <2>4. Cardinality(Live(r)) \in {0, 1}
    BY <2>3, FS_EmptySet, FS_Singleton
  <2> QED
    BY <2>4
<1>2. RunningPathsProtected
  BY DEF IData, TypesInv, PathAt, RunningPathsProtected
<1>3. RemovedDataStaysRemoved
  BY DEF IData, QuietInv, GoneAt, Doomed, Changing, RemovedDataStaysRemoved
<1>4. CrashesHaveACause
  BY DEF IData
<1> QED
  BY <1>1, <1>2, <1>3, <1>4 DEF DataSafety

\* For any mount points, sources and configurations whose plugins have types of
\* their own: one loop per plugin, running paths protected, removed data gone
\* and no crash without one of the three causes, however Reconfigure and the
\* polls interleave.
THEOREM DataPluginsAreSafe == DistinctNames /\ DataSpec => []DataSafety
BY DataInvariance, DataSafe, PTL

\* Type correctness of the data plugins.
THEOREM DataTypes == DistinctNames /\ DataSpec => []DataTypeOK
<1>1. IData => DataTypeOK
  <2> SUFFICES ASSUME IData PROVE DataTypeOK
    OBVIOUS
  <2>1. \A r \in Refs, k \in Loops : dloop[r][k] \in LoopRecords
    BY DEF IData, TypesInv
  <2>2. dcur \subseteq dtodo /\ dtodo \subseteq Refs
    BY DEF IData, TypesInv, UmbrellaInv
  <2> QED
    BY <2>1, <2>2 DEF IData, TypesInv, DataTypeOK, LoopRecords, PluginRecords
<1> QED
  BY <1>1, DataInvariance, PTL
=============================================================================
