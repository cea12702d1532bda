---------------------------- MODULE BuiltinCaches ----------------------------
(* Built-in functions that ask a service (pkg/builtins, and rego.eval of      *)
(* pkg/vm/rego.go): sql.send, mongodb.find and find_one, dynamodb.get and     *)
(* query, neo4j.query, redis.query, vault.send.  All of them look into a      *)
(* cache of the query and into one that all queries share, ask on a miss, and *)
(* fill the caches.  Most keep their clients in a pool; sql.send also keeps   *)
(* prepared statements, which are closed when they are evicted and unused.    *)
(*                                                                            *)
(* A call is a record: the function, its target (address and account), the    *)
(* query, and the options cache, cache_duration, raise_error, consistent_read.*)
(* An answer says which function asked whom what, when, and whether it failed.*)
EXTENDS Integers, Sequences, SequencesExt, FiniteSets

CONSTANTS
    Queriers,    \* evaluations that run at the same time
    CallScripts, \* the calls each of them makes
    MaxClock,
    CallFaults,  \* failures of services in one behaviour
    MaxPrepared  \* max_prepared_statements

VARIABLES
    clock,
    interCache,  \* answers kept across queries, by key
    clients,     \* the pools of clients: what a client was opened for, by key
    prepared,    \* statements in the cache of each connection, oldest first
    statements,  \* all statements ever prepared
    querier,     \* the evaluations
    callFaults   \* failures left

callVars == <<clock, interCache, clients, prepared, statements, querier, callFaults>>
-----------------------------------------------------------------------------
ServiceCalls == {"sql.send", "mongodb.find", "mongodb.find_one", "dynamodb.get", "dynamodb.query",
                 "neo4j.query", "redis.query", "vault.send", "rego.eval"}
\* All calls of all scripts, and the databases that sql.send is asked for.
CallsMade == UNION {UNION {ToSet(s[i]) : i \in Queriers} : s \in CallScripts}
Databases == {c.target : c \in {d \in CallsMade : d.fn = "sql.send"}}

\* A connection has room for at least one statement (sqlsend.go:205).
ASSUME CallAssumption ==
    /\ IsFiniteSet(Queriers) /\ MaxClock \in Nat /\ CallFaults \in Nat /\ MaxPrepared \in Nat \ {0}
    /\ \A s \in CallScripts, i \in Queriers : s[i] \in Seq(CallsMade)
    /\ \A c \in CallsMade :
          /\ c = [fn |-> c.fn, target |-> c.target, query |-> c.query, cache |-> c.cache,
                  ttl |-> c.ttl, raise |-> c.raise, strong |-> c.strong]
          /\ c.fn \in ServiceCalls /\ c.ttl \in Nat /\ {c.cache, c.raise, c.strong} \subseteq BOOLEAN

Mongo == {"mongodb.find", "mongodb.find_one"}
Unpooled == {"neo4j.query", "redis.query", "rego.eval"}

(* What each function makes of a call: the key of its answer, the name of the *)
(* query's cache it looks in and of the one it stores in, whether it uses the *)
(* shared cache, whether it raises errors, the key of its client.  The key of *)
(* an answer is the request object, which does not name the function: only    *)
(* the keys a request may have tell the functions apart.                      *)
Request(c) == [c EXCEPT !.fn = ""]
Profile(c, name, pool) ==
    [key |-> <<name, Request(c)>>, looksIn |-> c.fn, storesIn |-> c.fn, shared |-> c.cache,
     raises |-> c.raise, client |-> <<pool, c.target>>]
SQLSend(c) == Profile(c, c.fn, c.fn)
\* Both finds have the same keys, and find_one looks where find stores.
MongoDBFind(c) == Profile(c, "mongodb", "mongodb")
MongoDBFindOne(c) == [Profile(c, "mongodb", "mongodb") EXCEPT !.looksIn = "mongodb.find"]
DynamoDBGet(c) == [Profile(c, c.fn, "dynamodb") EXCEPT !.shared = @ /\ ~c.strong]
DynamoDBQuery(c) == [Profile(c, c.fn, "dynamodb") EXCEPT !.shared = @ /\ ~c.strong]
\* These two store under the name of the counter of hits, and redis.query
\* raises errors when it is told not to.
Neo4jQuery(c) == [Profile(c, c.fn, c.fn) EXCEPT !.storesIn = "neo4j_interquery_cache_hits"]
RedisQuery(c) == [Profile(c, c.fn, c.fn) EXCEPT !.storesIn = "redis_interquery_cache_hits", !.raises = ~@]
\* The key is the part that names the secret (vault.go:191); vaultKey has the
\* address and the secret of a role, not the role.
VaultSend(c) == [Profile(c, c.fn, c.fn) EXCEPT !.key = <<c.fn, [query |-> c.query]>>, !.client = <<c.fn, c.target.at>>]
\* The key is made of the modules and the path.
RegoEval(c) == [Profile(c, c.fn, c.fn) EXCEPT !.key = <<c.fn, [query |-> c.query]>>]

Of(c) ==
    CASE c.fn = "sql.send" -> SQLSend(c)
      [] c.fn = "mongodb.find" -> MongoDBFind(c)
      [] c.fn = "mongodb.find_one" -> MongoDBFindOne(c)
      [] c.fn = "dynamodb.get" -> DynamoDBGet(c)
      [] c.fn = "dynamodb.query" -> DynamoDBQuery(c)
      [] c.fn = "neo4j.query" -> Neo4jQuery(c)
      [] c.fn = "redis.query" -> RedisQuery(c)
      [] c.fn = "vault.send" -> VaultSend(c)
      [] c.fn = "rego.eval" -> RegoEval(c)
-----------------------------------------------------------------------------
NoAnswer == [fn |-> ""]
Answer(c, from, at, failed) == [fn |-> c.fn, from |-> from, query |-> c.query, at |-> at, failed |-> failed]
NewQuerier(todo) ==
    [pc |-> "idle", time |-> 0, todo |-> todo, intra |-> << >>, from |-> << >>, stmt |-> 0,
     out |-> 0, answer |-> NoAnswer, got |-> {}]

CallInit ==
    /\ clock = 0 /\ interCache = << >> /\ clients = << >> /\ statements = << >>
    /\ prepared = [d \in Databases |-> << >>]
    /\ callFaults = CallFaults
    /\ \E s \in CallScripts : querier = [i \in Queriers |-> NewQuerier(s[i])]

\* A cache in which v is kept under k.
Keeping(f, k, v) == [x \in DOMAIN f \cup {k} |-> IF x = k THEN v ELSE f[x]]

At(i, pc) == querier[i].pc = pc
Doing(i) == Head(querier[i].todo)
GoTo(i, pc) == querier' = [querier EXCEPT ![i].pc = pc]
\* A call ends with an answer; a raised error is an answer that failed.
Answered(i, a) == [querier[i] EXCEPT !.pc = "ready", !.todo = Tail(@), !.answer = NoAnswer,
                                     !.got = {[call |-> Doing(i), answer |-> a]}]
Fault(i, from) ==
    /\ callFaults > 0 /\ callFaults' = callFaults - 1
    /\ querier' = [querier EXCEPT ![i].pc = "store", ![i].answer = Answer(Doing(i), from, clock, TRUE)]

\* The time of a query, which expiry is measured by, is taken once.
BeginQuery(i) ==
    /\ At(i, "idle")
    /\ querier' = [querier EXCEPT ![i].pc = "ready", ![i].time = clock]
    /\ UNCHANGED <<clock, interCache, clients, prepared, statements, callFaults>>

\* checkCaches: the shared cache first.
InterQueryHit(i, c) ==
    /\ Of(c).shared /\ Of(c).key \in DOMAIN interCache
    /\ querier[i].time < interCache[Of(c).key].expires
IntraKey(c, name) == <<name, Of(c).key>>
CheckCaches(i) ==
    /\ At(i, "ready") /\ querier[i].todo # << >>
    /\ LET c == Doing(i)
           own == IntraKey(c, Of(c).looksIn)
       IN  querier' = [querier EXCEPT ![i] =
               IF InterQueryHit(i, c) THEN Answered(i, interCache[Of(c).key].answer)
               ELSE IF own \in DOMAIN querier[i].intra THEN Answered(i, querier[i].intra[own])
               ELSE IF c.fn \in Unpooled THEN [@ EXCEPT !.pc = "run", !.from = c.target]
               ELSE [@ EXCEPT !.pc = "client"]]
    /\ UNCHANGED <<clock, interCache, clients, prepared, statements, callFaults>>
-----------------------------------------------------------------------------
(* Pools: a client is opened without the lock, and the one that is there      *)
(* first is used by all.                                                      *)
WithClient(i) == IF Doing(i).fn = "sql.send" THEN "statement" ELSE "run"
GetClient(i) ==
    /\ At(i, "client")
    /\ IF Of(Doing(i)).client \in DOMAIN clients
       THEN querier' = [querier EXCEPT ![i].pc = WithClient(i), ![i].from = clients[Of(Doing(i)).client]]
       ELSE GoTo(i, "open")
    /\ UNCHANGED <<clock, interCache, clients, prepared, statements, callFaults>>
OpenClient(i) ==
    /\ At(i, "open")
    /\ LET k == Of(Doing(i)).client
           pool == IF k \in DOMAIN clients THEN clients ELSE Keeping(clients, k, Doing(i).target)
       IN  /\ clients' = pool
           /\ querier' = [querier EXCEPT ![i].pc = WithClient(i), ![i].from = pool[k]]
    /\ UNCHANGED <<clock, interCache, prepared, statements, callFaults>>
OpenFails(i) ==
    /\ At(i, "open") /\ Fault(i, Doing(i).target)
    /\ UNCHANGED <<clock, interCache, clients, prepared, statements>>
-----------------------------------------------------------------------------
(* Prepared statements (databaseConnection.Query).                            *)
\* databaseStmt.Release: closed when it is to be closed and nobody uses it.
ReleaseStmt(s, n, close) ==
    LET active == s.active - n
        closed == s.closed \/ close
    IN  [s EXCEPT !.active = active, !.closed = closed, !.open = @ /\ ~(closed /\ active = 0)]
StatementOf(i) ==
    {k \in DOMAIN prepared[querier[i].from] : statements[prepared[querier[i].from][k]].query = Doing(i).query}

LookupStatement(i) ==
    /\ At(i, "statement")
    /\ \/ StatementOf(i) = {} /\ GoTo(i, "prepare") /\ UNCHANGED prepared
       \/ \E k \in StatementOf(i) :
             LET n == prepared[querier[i].from][k]
             IN  /\ prepared' = [prepared EXCEPT ![querier[i].from] = Append(RemoveAt(@, k), n)]
                 /\ querier' = [querier EXCEPT ![i].pc = "acquire", ![i].stmt = n]
    /\ UNCHANGED <<clock, interCache, clients, statements, callFaults>>
AcquireStatement(i) ==
    /\ At(i, "acquire")
    /\ LET n == querier[i].stmt
       IN  IF statements[n].closed THEN GoTo(i, "prepare") /\ UNCHANGED statements
           ELSE GoTo(i, "run") /\ statements' = [statements EXCEPT ![n].active = @ + 1]
    /\ UNCHANGED <<clock, interCache, clients, prepared, callFaults>>
PrepareStatement(i) ==
    /\ At(i, "prepare")
    /\ statements' = Append(statements, [query |-> Doing(i).query, active |-> 1, closed |-> FALSE, open |-> TRUE])
    /\ querier' = [querier EXCEPT ![i].pc = "add", ![i].stmt = Len(statements) + 1]
    /\ UNCHANGED <<clock, interCache, clients, prepared, callFaults>>
PrepareFails(i) ==
    /\ At(i, "prepare") /\ Fault(i, querier[i].from)
    /\ UNCHANGED <<clock, interCache, clients, prepared, statements>>
\* PeekOrAdd; the evicted statement is released after the cache is unlocked.
AddStatement(i) ==
    /\ At(i, "add")
    /\ LET n == querier[i].stmt
           own == prepared[querier[i].from]
           full == Len(own) = MaxPrepared
       IN  IF StatementOf(i) # {}
           THEN /\ statements' = [statements EXCEPT ![n] = ReleaseStmt(@, 1, TRUE)]
                /\ GoTo(i, "statement") /\ UNCHANGED prepared
           ELSE /\ prepared' = [prepared EXCEPT ![querier[i].from] = Append(IF full THEN Tail(own) ELSE own, n)]
                /\ querier' = [querier EXCEPT ![i].pc = IF full THEN "evict" ELSE "run",
                                              ![i].out = IF full THEN Head(own) ELSE 0]
                /\ UNCHANGED statements
    /\ UNCHANGED <<clock, interCache, clients, callFaults>>
EvictStatement(i) ==
    /\ At(i, "evict")
    /\ statements' = [statements EXCEPT ![querier[i].out] = ReleaseStmt(@, 0, TRUE)]
    /\ querier' = [querier EXCEPT ![i].pc = "run", ![i].out = 0]
    /\ UNCHANGED <<clock, interCache, clients, prepared, callFaults>>
-----------------------------------------------------------------------------
\* The service answers, or fails; the statement is released in either case.
Released(i) ==
    IF Doing(i).fn = "sql.send" THEN [statements EXCEPT ![querier[i].stmt] = ReleaseStmt(@, 1, FALSE)] ELSE statements
RunCall(i) ==
    /\ At(i, "run")
    /\ querier' = [querier EXCEPT ![i].pc = "store", ![i].answer = Answer(Doing(i), querier[i].from, clock, FALSE)]
    /\ statements' = Released(i)
    /\ UNCHANGED <<clock, interCache, clients, prepared, callFaults>>
RunFails(i) ==
    /\ At(i, "run") /\ Fault(i, querier[i].from)
    /\ statements' = Released(i)
    /\ UNCHANGED <<clock, interCache, clients, prepared>>

\* Faulty variant: errors are stored before they are raised.
IsNeverRaised(c, a) == a.failed /\ c.fn = "rego.eval"
\* An error that is raised goes to the caller before anything is stored; one
\* that is not becomes a response like any other.  rego.eval stores what it
\* compiled, and an error of its own compiler for the query only.
IsRaised(c, a) == a.failed /\ (Of(c).raises \/ c.fn = "rego.eval")
InsertCaches(i) ==
    /\ At(i, "store")
    /\ LET c == Doing(i)
           a == querier[i].answer
           entry == [answer |-> a, expires |-> querier[i].time + c.ttl]
           raised == Answered(i, a)
           kept == [raised EXCEPT !.intra = Keeping(@, IntraKey(c, Of(c).storesIn), a)]
       IN  \/ /\ IsRaised(c, a)
              /\ querier' = [querier EXCEPT ![i] = raised] /\ UNCHANGED interCache
           \/ /\ a.failed /\ c.fn = "rego.eval"
              /\ querier' = [querier EXCEPT ![i] = kept] /\ UNCHANGED interCache
           \/ /\ ~IsRaised(c, a)
              /\ interCache' = IF Of(c).shared THEN Keeping(interCache, Of(c).key, entry) ELSE interCache
              /\ querier' = [querier EXCEPT ![i] = kept]
    /\ UNCHANGED <<clock, clients, prepared, statements, callFaults>>

EndQuery(i) ==
    /\ At(i, "ready") /\ querier[i].todo = << >>
    /\ querier' = [querier EXCEPT ![i].pc = "done", ![i].intra = << >>]
    /\ UNCHANGED <<clock, interCache, clients, prepared, statements, callFaults>>

\* The shared cache drops entries when it is full or when they are stale.
DropEntry ==
    /\ \E k \in DOMAIN interCache : interCache' = [x \in DOMAIN interCache \ {k} |-> interCache[x]]
    /\ UNCHANGED <<clock, clients, prepared, statements, querier, callFaults>>
Tick ==
    /\ clock < MaxClock /\ clock' = clock + 1
    /\ UNCHANGED <<interCache, clients, prepared, statements, querier, callFaults>>

QueryStep(i) ==
    \/ BeginQuery(i) \/ CheckCaches(i) \/ GetClient(i) \/ OpenClient(i) \/ OpenFails(i)
    \/ LookupStatement(i) \/ AcquireStatement(i) \/ PrepareStatement(i) \/ PrepareFails(i)
    \/ AddStatement(i) \/ EvictStatement(i) \/ RunCall(i) \/ RunFails(i) \/ InsertCaches(i) \/ EndQuery(i)
CallNext == (\E i \in Queriers : QueryStep(i)) \/ DropEntry \/ Tick
CallSpec == CallInit /\ [][CallNext]_callVars
-----------------------------------------------------------------------------
CallTypeOK ==
    /\ clock \in 0 .. MaxClock /\ callFaults \in 0 .. CallFaults
    /\ statements \in Seq([query : {c.query : c \in CallsMade}, active : Nat, closed : BOOLEAN, open : BOOLEAN])
    /\ prepared \in [Databases -> Seq(DOMAIN statements)]
    /\ \A d \in Databases : Len(prepared[d]) <= MaxPrepared
    /\ \A i \in Queriers : querier[i].stmt \in 0 .. Len(statements)

\* What a call returns was asked by the same function of the same target, with
\* the same query, in this very query or no longer ago than the duration the
\* call allows; a consistent read was asked in this very query.  Two families
\* are left out, whose keys do not say enough: the finds of mongodb share their
\* key (mongodb.go:401), and vault.send leaves out the target (vault.go:191).
AnswersBelong ==
    \A i \in Queriers : \A got \in querier[i].got :
        LET c == got.call
            a == got.answer
        IN  /\ a.query = c.query
            /\ c.fn \notin Mongo => a.fn = c.fn
            /\ c.fn \notin {"vault.send", "rego.eval"} =>
                  a.from = c.target /\ (a.at >= querier[i].time \/ querier[i].time < a.at + c.ttl)
            /\ ~Of(c).shared => a.at >= querier[i].time
\* An error is in the cache across queries only under keys whose calls do not
\* raise errors, vault.send apart, whose key does not say so.
RaisedNotCached ==
    \A k \in DOMAIN interCache : \A c \in CallsMade :
        interCache[k].answer.failed /\ Of(c).key = k /\ c.fn # "vault.send" =>
            c.fn # "rego.eval" /\ ~Of(c).raises
\* A call runs on an open statement of its own query, and a statement that is
\* open is in the cache, in use, or about to be released by its eviction.
StatementsSafe ==
    /\ \A i \in Queriers : At(i, "run") /\ Doing(i).fn = "sql.send" =>
          statements[querier[i].stmt].open /\ statements[querier[i].stmt].query = Doing(i).query
    /\ \A n \in DOMAIN statements : statements[n].open =>
          \/ \E d \in Databases : n \in ToSet(prepared[d])
          \/ statements[n].active > 0 \/ \E i \in Queriers : querier[i].out = n
\* The three of them: calls get their own answers, however the caches, the
\* pools and the statements are shared (builtins.go:238, sqlsend.go:445).
CallSafety == AnswersBelong /\ RaisedNotCached /\ StatementsSafe
=============================================================================
