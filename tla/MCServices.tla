------------------------------ MODULE MCServices ------------------------------
(* Instances of the services that run beside the evaluation of policies, or   *)
(* ask for it: the data plugins, live impact analysis, the decision logger    *)
(* and filters of data.  They share no state in these models, so a behaviour  *)
(* runs one of them, chosen at the start.                                     *)
EXTENDS DataPlugins, ImpactJob, DecisionLogger, MCFilters

VARIABLE part \* the service that runs

servicesVars == <<part, dataVars, impactVars, dlvars, filterVars>>

-----------------------------------------------------------------------------
(* Data plugins: at "p" a source whose Stop gives up with its context, or    *)
(* one whose Stop waits all the same; at "q" a git source.                   *)
DataRefs == {"p", "q"}
DataNames == [r \in DataRefs |-> r]
DataFirst == {"p" :> 1}
DataNexts == {"p" :> 2 @@ "q" :> 1, "q" :> 1}
DataKinds == {"p" :> k @@ "q" :> "git" : k \in {"http", "s3"}}

(* Decision logger. *)
Batch(format, array, compress) ==
    [on |-> TRUE, format |-> format, array |-> array, compress |-> compress]
NoBatch == [on |-> FALSE, format |-> "", array |-> FALSE, compress |-> FALSE]
Out(kind, drop, mask, batching, missing) ==
    [kind |-> kind, drop |-> drop, mask |-> mask, batching |-> batching, missing |-> missing]
Config(buffer, outputs) == [buffer |-> buffer, outputs |-> outputs]

LoggerConfigs == {
    Config("memory", <<Out("s3", FALSE, TRUE, Batch("", TRUE, TRUE), FALSE),
                       Out("splunk", TRUE, TRUE, Batch("none", FALSE, FALSE), FALSE)>>),
    Config("disk", <<Out("gcs", TRUE, FALSE, Batch("", TRUE, FALSE), FALSE),
                     Out("service", FALSE, TRUE, NoBatch, FALSE)>>),
    Config("unbuffered", <<Out("s3", FALSE, FALSE, Batch("none", FALSE, TRUE), FALSE)>>),
    Config("memory", <<Out("console", FALSE, FALSE, NoBatch, FALSE),
                       Out("experimental", TRUE, FALSE, NoBatch, FALSE),
                       Out("kafka", FALSE, TRUE, Batch("lines", FALSE, TRUE), FALSE)>>),
    Config("memory", <<Out("http", FALSE, FALSE, NoBatch, FALSE),
                       Out("s3", FALSE, FALSE, NoBatch, TRUE)>>),
    Config("memory", <<Out("ftp", FALSE, FALSE, NoBatch, FALSE)>>),
    Config("memory", <<>>) }

LoggerEvents == [e1 |-> {<<<<"input", "a", "b">>, 1>>, <<<<"input", "c">>, 2>>, <<<<"decision_id">>, 3>>}]
Rule(op, path, val) == [op |-> op, path |-> path, val |-> val]
LoggerMask == <<
    <<Rule("remove", <<"input", "a">>, 0), Rule("upsert", <<"input", "c", "d">>, 9)>>,
    <<Rule("upsert", <<"input", "a">>, 9), Rule("remove", <<"input", "c">>, 0),
      Rule("remove", <<"input", "z">>, 0), Rule("upsert", <<"input", "z">>, 0)>>,
    <<Rule("remove", <<"input">>, 0), Rule("upsert", <<"input", "c">>, 0)>> >>
LoggerDrop == <<FALSE, TRUE, FALSE>>
-----------------------------------------------------------------------------
ServicesInit ==
    /\ part \in {"data", "impact", "logger", "filters"}
    /\ DataInit /\ ImpactInit /\ DLInit /\ FilterInit
    /\ part # "data" => dkind = CHOOSE k \in KindChoices : TRUE
    /\ part # "logger" => dlcfg = Completed(CHOOSE c \in DLConfigs : Validate(c))

ServicesNext ==
    \/ part = "data" /\ DataNext /\ UNCHANGED <<part, impactVars, dlvars, filterVars>>
    \/ part = "impact" /\ ImpactNext /\ UNCHANGED <<part, dataVars, dlvars, filterVars>>
    \/ part = "logger" /\ DLNext /\ UNCHANGED <<part, dataVars, impactVars, filterVars>>
    \/ part = "filters" /\ FilterNext /\ UNCHANGED <<part, dataVars, impactVars, dlvars>>

\* A service that does not run has nothing to be fair to: no action under its
\* fairness is enabled before it starts.
ServicesSpec ==
    /\ ServicesInit /\ [][ServicesNext]_servicesVars
    /\ DataFairness /\ ImpactFairness /\ DLFairness

\* The types of the services that keep state.
ServicesTypeOK == DataTypeOK /\ ImpactTypeOK /\ DLTypeOK
=============================================================================
