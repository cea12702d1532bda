------------------------- MODULE BuiltinCachesProofs -------------------------
(***************************************************************************)
(* Proof that calls of the built-in functions get their own answers and    *)
(* run on open statements, for any scripts, number of evaluations and size *)
(* of the statement cache.                                                 *)
(*                                                                         *)
(* None of the three parts of CallSafety is inductive.  For the answers,   *)
(* every entry of a cache is traced to a call that stored it, and two      *)
(* calls with one key agree in what the property compares.  For the        *)
(* statements, the counter of a statement is the number of evaluations     *)
(* that use it, and one that nobody closed is where it can be found.       *)
(***************************************************************************)
EXTENDS BuiltinCaches, TLAPS, FiniteSetTheorems

Fields == {"pc", "time", "todo", "intra", "from", "stmt", "out", "answer", "got"}
Steps == {"idle", "ready", "client", "open", "statement", "acquire", "prepare",
          "add", "evict", "run", "store", "done"}
\* The steps of a call that has a client.
Connected == {"statement", "acquire", "prepare", "add", "evict", "run"}
\* The steps of a call that has a statement.
WithStatement(i) ==
    \/ querier[i].pc \in {"acquire", "add", "evict"}
    \/ querier[i].pc = "run" /\ Doing(i).fn = "sql.send"
\* The statements an evaluation has acquired.
Using(i, n) ==
    /\ querier[i].stmt = n
    /\ querier[i].pc \in {"add", "evict", "run"} /\ Doing(i).fn = "sql.send"
Users(n) == {i \in Queriers : Using(i, n)}

\* a is what d asked for.
AskedBy(d, a) ==
    /\ a.fn = d.fn /\ a.query = d.query /\ a.at \in Nat /\ a.failed \in BOOLEAN
    /\ d.fn # "vault.send" => a.from = d.target

\* An evaluation: its clock, and where its call is.
QuerierAt(i) ==
    /\ DOMAIN querier[i] = Fields /\ querier[i].pc \in Steps
    /\ querier[i].time \in 0 .. clock /\ querier[i].todo \in Seq(CallsMade)
    /\ querier[i].stmt \in 0 .. Len(statements) /\ querier[i].out \in 0 .. Len(statements)
    /\ querier[i].pc \notin {"idle", "ready", "done"} => querier[i].todo # << >>
    /\ querier[i].pc \in {"statement", "acquire", "prepare", "add", "evict"} => Doing(i).fn = "sql.send"
    /\ querier[i].pc \in Connected /\ Doing(i).fn # "vault.send" => querier[i].from = Doing(i).target
    /\ querier[i].pc = "store" => AskedBy(Doing(i), querier[i].answer) /\ querier[i].answer.at >= querier[i].time

\* What the evaluation has: its own cache was filled by calls it made itself.
OwnAt(i) ==
    /\ querier[i].pc = "idle" => querier[i].got = {} /\ querier[i].intra = << >>
    /\ \A k \in DOMAIN querier[i].intra : \E d \in CallsMade :
          /\ k = IntraKey(d, Of(d).storesIn)
          /\ AskedBy(d, querier[i].intra[k]) /\ querier[i].intra[k].at >= querier[i].time

\* The shared cache: an entry was stored by a call that may share its answer,
\* is no older than that call, and no error it would have raised.
SharedInv ==
    \A k \in DOMAIN interCache : \E d \in CallsMade :
        /\ k = Of(d).key /\ AskedBy(d, interCache[k].answer)
        /\ interCache[k].expires \in Nat /\ interCache[k].expires <= interCache[k].answer.at + d.ttl
        /\ ~IsRaised(d, interCache[k].answer)

\* A client that is not of vault.send was opened for the target in its key.
ClientInv == \A k \in DOMAIN clients : k[1] # "vault.send" => clients[k] = k[2]

\* Where a statement that nobody closed can be: in the cache of a connection,
\* on its way out of one or into one.
Located(n) ==
    \/ \E d \in Databases : n \in ToSet(prepared[d])
    \/ \E i \in Queriers : querier[i].out = n \/ (querier[i].pc = "add" /\ querier[i].stmt = n)

\* The counter of a statement counts its users; one that is not closed can be
\* found or has yet to be added; the last user, or the eviction, closes it.
StatementAt(n) ==
    /\ statements[n].active = Cardinality(Users(n))
    /\ ~statements[n].open => statements[n].closed /\ statements[n].active = 0
    /\ statements[n].closed /\ statements[n].active = 0 => ~statements[n].open
    /\ ~statements[n].closed => Located(n)
\* A call has a statement of its query.
HasAt(i) ==
    /\ WithStatement(i) => querier[i].stmt \in DOMAIN statements /\ statements[querier[i].stmt].query = Doing(i).query
    /\ querier[i].pc = "evict" <=> querier[i].out # 0

ICall ==
    /\ CallTypeOK /\ DOMAIN querier = Queriers
    /\ \A i \in Queriers : QuerierAt(i) /\ OwnAt(i) /\ HasAt(i)
    /\ SharedInv /\ ClientInv
    /\ \A n \in DOMAIN statements : StatementAt(n)
    /\ AnswersBelong

-----------------------------------------------------------------------------
(* Calls and their keys.                                                   *)

LEMMA CallFacts ==
  ASSUME NEW c \in CallsMade
  PROVE  /\ DOMAIN c = {"fn", "target", "query", "cache", "ttl", "raise", "strong"}
         /\ c.fn \in ServiceCalls /\ c.ttl \in Nat
         /\ c.cache \in BOOLEAN /\ c.raise \in BOOLEAN /\ c.strong \in BOOLEAN
  BY CallAssumption

LEMMA RequestFacts ==
  ASSUME NEW c \in CallsMade
  PROVE  /\ Request(c).target = c.target /\ Request(c).query = c.query
         /\ Request(c).ttl = c.ttl /\ Request(c).raise = c.raise
  BY CallFacts DEF Request

\* What each function makes of a call.
LEMMA OfFacts ==
  ASSUME NEW c \in CallsMade
  PROVE  /\ c.fn \in {"vault.send", "rego.eval"} => Of(c).key = <<c.fn, [query |-> c.query]>>
         /\ c.fn \in Mongo => Of(c).key = <<"mongodb", Request(c)>>
         /\ c.fn \notin Mongo \cup {"vault.send", "rego.eval"} => Of(c).key = <<c.fn, Request(c)>>
         /\ c.fn = "vault.send" => Of(c).client = <<"vault.send", c.target.at>>
         /\ c.fn # "vault.send" => Of(c).client[1] # "vault.send" /\ Of(c).client[2] = c.target
         /\ Of(c).raises = (IF c.fn = "redis.query" THEN ~c.raise ELSE c.raise)
         /\ Of(c).shared \in BOOLEAN
<1> USE CallFacts DEF Of, Profile, Mongo
<1>1. CASE c.fn = "sql.send"
  BY <1>1 DEF SQLSend
<1>2. CASE c.fn = "mongodb.find"
  BY <1>2 DEF MongoDBFind
<1>3. CASE c.fn = "mongodb.find_one"
  BY <1>3 DEF MongoDBFindOne
<1>4. CASE c.fn = "dynamodb.get"
  BY <1>4 DEF DynamoDBGet
<1>5. CASE c.fn = "dynamodb.query"
  BY <1>5 DEF DynamoDBQuery
<1>6. CASE c.fn = "neo4j.query"
  BY <1>6 DEF Neo4jQuery
<1>7. CASE c.fn = "redis.query"
  BY <1>7 DEF RedisQuery
<1>8. CASE c.fn = "vault.send"
  BY <1>8 DEF VaultSend
<1>9. CASE c.fn = "rego.eval"
  BY <1>9 DEF RegoEval
<1> QED BY <1>1, <1>2, <1>3, <1>4, <1>5, <1>6, <1>7, <1>8, <1>9 DEF ServiceCalls

\* Calls with one key agree in the query; they are calls of one function unless
\* they are both finds, and but for vault.send and rego.eval they agree in
\* the target and the options as well.
LEMMA SameKey ==
  ASSUME NEW c \in CallsMade, NEW d \in CallsMade, Of(c).key = Of(d).key
  PROVE  /\ c.query = d.query
         /\ c.fn \notin Mongo => d.fn = c.fn
         /\ c.fn \in Mongo => d.fn \in Mongo
         /\ c.fn \notin {"vault.send", "rego.eval"} =>
               c.target = d.target /\ c.ttl = d.ttl /\ c.raise = d.raise
<1> DEFINE first(e) == IF e.fn \in Mongo THEN "mongodb" ELSE e.fn
<1> DEFINE second(e) == IF e.fn \in {"vault.send", "rego.eval"} THEN [query |-> e.query] ELSE Request(e)
<1>1. ASSUME NEW e \in CallsMade
      PROVE  Of(e).key = <<first(e), second(e)>>
  BY <1>1, OfFacts DEF Mongo
<1>2. first(c) = first(d) /\ second(c) = second(d)
  <2> HIDE DEF first, second
  <2> QED BY <1>1
<1>3. c.fn \in Mongo <=> d.fn \in Mongo
  BY <1>2, CallFacts DEF Mongo, ServiceCalls
<1>4. c.fn \notin Mongo => d.fn = c.fn
  BY <1>2, <1>3
<1>5. c.fn \in {"vault.send", "rego.eval"} => d.fn = c.fn /\ c.query = d.query
  BY <1>2, <1>4 DEF Mongo
<1>6. c.fn \notin {"vault.send", "rego.eval"} => Request(c) = Request(d)
  BY <1>2, <1>3, <1>4 DEF Mongo
<1> QED BY <1>3, <1>4, <1>5, <1>6, RequestFacts

\* The answer a belongs to the call c of a query that began at t.
Belongs(c, a, t) ==
    /\ a.query = c.query
    /\ c.fn \notin Mongo => a.fn = c.fn
    /\ c.fn \notin {"vault.send", "rego.eval"} =>
          a.from = c.target /\ (a.at >= t \/ t < a.at + c.ttl)
    /\ ~Of(c).shared => a.at >= t
BelongsAt(i) == \A got \in querier[i].got : Belongs(got.call, got.answer, querier[i].time)

LEMMA BelongsEverywhere == AnswersBelong <=> \A i \in Queriers : BelongsAt(i)
  BY DEF AnswersBelong, BelongsAt, Belongs

\* What was asked in the same query belongs to any call with its key.
LEMMA OwnBelongs ==
  ASSUME NEW c \in CallsMade, NEW d \in CallsMade, Of(c).key = Of(d).key,
         NEW a, AskedBy(d, a), NEW t \in Nat, a.at >= t
  PROVE  Belongs(c, a, t)
<1>1. a.at \in Nat /\ a.query = d.query /\ a.fn = d.fn
  BY DEF AskedBy
<1>2. c.fn \notin {"vault.send", "rego.eval"} => d.fn # "vault.send"
  BY SameKey DEF Mongo
<1>3. c.fn \notin {"vault.send", "rego.eval"} => a.from = c.target
  BY <1>2, SameKey DEF AskedBy
<1> QED BY <1>1, <1>3, SameKey DEF Belongs

\* What the shared cache holds belongs to a call that shares its key, until
\* it expires.
LEMMA SharedBelongs ==
  ASSUME NEW c \in CallsMade, NEW d \in CallsMade, Of(c).key = Of(d).key, Of(c).shared,
         NEW a, AskedBy(d, a), NEW t \in Nat, NEW e \in Nat, e <= a.at + d.ttl, t < e
  PROVE  Belongs(c, a, t)
<1>1. a.at \in Nat /\ a.query = d.query /\ a.fn = d.fn /\ c.ttl \in Nat /\ d.ttl \in Nat
  BY CallFacts DEF AskedBy
<1>2. c.fn \notin {"vault.send", "rego.eval"} => d.fn # "vault.send"
  BY SameKey DEF Mongo
<1>3. c.fn \notin {"vault.send", "rego.eval"} => a.from = c.target /\ t < a.at + c.ttl
  BY <1>1, <1>2, SameKey DEF AskedBy
<1> QED BY <1>1, <1>3, SameKey DEF Belongs

-----------------------------------------------------------------------------
(* Steps of an evaluation.                                                 *)

\* The type of the call that is made.
LEMMA DoingFacts ==
  ASSUME NEW i \in Queriers, QuerierAt(i), querier[i].todo # << >>
  PROVE  Doing(i) \in CallsMade /\ Tail(querier[i].todo) \in Seq(CallsMade)
  BY DEF QuerierAt, Doing

\* A connected call of sql.send is connected to a database.
LEMMA ConnectedTo ==
  ASSUME NEW i \in Queriers, QuerierAt(i), querier[i].pc \in Connected, Doing(i).fn = "sql.send"
  PROVE  querier[i].from = Doing(i).target /\ querier[i].from \in Databases
<1>1. querier[i].todo # << >>
  BY DEF QuerierAt, Connected
<1> QED BY <1>1, DoingFacts DEF QuerierAt, Databases

\* Statements are only added, and keep their query.
StatementsGrow ==
    /\ Len(statements') >= Len(statements)
    /\ \A n \in DOMAIN statements : n \in DOMAIN statements' /\ statements'[n].query = statements[n].query

\* An evaluation that does nothing is not disturbed.
LEMMA OthersKept ==
  ASSUME ICall, NEW j \in Queriers, querier'[j] = querier[j], clock' \in Nat, clock' >= clock,
         Len(statements') \in Nat, StatementsGrow
  PROVE  QuerierAt(j)' /\ OwnAt(j)' /\ HasAt(j)' /\ BelongsAt(j)'
<1>1. QuerierAt(j) /\ OwnAt(j) /\ HasAt(j) /\ BelongsAt(j)
  BY BelongsEverywhere DEF ICall
<1>2. clock \in Nat /\ Len(statements) \in Nat
  BY DEF ICall, CallTypeOK
<1>3. QuerierAt(j)'
  BY <1>1, <1>2 DEF QuerierAt, StatementsGrow, Doing, AskedBy
<1>4. OwnAt(j)'
  BY <1>1 DEF OwnAt, IntraKey, AskedBy
<1>5. HasAt(j)'
  BY <1>1 DEF HasAt, WithStatement, Doing, StatementsGrow
<1>6. BelongsAt(j)'
  BY <1>1 DEF BelongsAt, Belongs
<1> QED BY <1>3, <1>4, <1>5, <1>6

LEMMA UsersFinite ==
  ASSUME ICall, NEW n
  PROVE  IsFiniteSet(Users(n)) /\ Cardinality(Users(n)) \in Nat
<1>1. Users(n) \subseteq Queriers
  BY DEF Users
<1> QED BY <1>1, CallAssumption, FS_Subset, FS_CardinalityType

\* Two sets of users that differ by one evaluation.
LEMMA OneMore ==
  ASSUME NEW S, NEW T, NEW i, IsFiniteSet(S), i \notin S, T = S \cup {i}
  PROVE  Cardinality(T) = Cardinality(S) + 1 /\ IsFiniteSet(T)
  BY FS_AddElement
LEMMA OneLess ==
  ASSUME NEW S, NEW T, NEW i, IsFiniteSet(S), i \in S, T = S \ {i}
  PROVE  Cardinality(T) = Cardinality(S) - 1
  BY FS_RemoveElement

\* A step that neither begins nor ends the use of a statement.
Idle(i) == ~(querier[i].pc \in {"add", "evict"} \/ (querier[i].pc = "run" /\ Doing(i).fn = "sql.send"))
LEMMA Quiet ==
  ASSUME ICall, NEW i \in Queriers, statements' = statements, Idle(i), Idle(i)',
         \A d \in Databases : ToSet(prepared'[d]) = ToSet(prepared[d]),
         \A j \in Queriers \ {i} : querier'[j] = querier[j],
         querier'[i].out = querier[i].out,
         NEW n \in DOMAIN statements
  PROVE  StatementAt(n)'
<1>1. StatementAt(n)
  BY DEF ICall
<1>2. ~Using(i, n) /\ ~Using(i, n)'
  BY DEF Idle, Using
<1>3. \A j \in Queriers \ {i} : Using(j, n)' = Using(j, n)
  BY DEF Using, Doing
<1>4. Users(n)' = Users(n)
  BY <1>2, <1>3 DEF Users
<1>5. statements'[n] = statements[n]
  OBVIOUS
<1>6. \A j \in Queriers : querier'[j].out = n <=> querier[j].out = n
  OBVIOUS
<1>7. \A j \in Queriers : (querier'[j].pc = "add" /\ querier'[j].stmt = n) <=> (querier[j].pc = "add" /\ querier[j].stmt = n)
  BY DEF Idle
<1> QED BY <1>1, <1>4, <1>5, <1>6, <1>7 DEF StatementAt, Located

\* A step of one evaluation that leaves the statements alone.
LEMMA QuietStep ==
  ASSUME ICall, NEW i \in Queriers,
         DOMAIN querier' = Queriers, \A j \in Queriers \ {i} : querier'[j] = querier[j],
         statements' = statements, clock' = clock, callFaults' \in 0 .. CallFaults,
         prepared' \in [Databases -> Seq(DOMAIN statements)],
         \A d \in Databases : ToSet(prepared'[d]) = ToSet(prepared[d]) /\ Len(prepared'[d]) <= MaxPrepared,
         SharedInv', ClientInv', Idle(i), Idle(i)', querier'[i].out = querier[i].out,
         QuerierAt(i)', OwnAt(i)', HasAt(i)', BelongsAt(i)'
  PROVE  ICall'
<1>1. StatementsGrow /\ clock' \in Nat /\ clock' >= clock /\ Len(statements') \in Nat
  BY DEF StatementsGrow, ICall, CallTypeOK
<1>2. \A j \in Queriers : QuerierAt(j)' /\ OwnAt(j)' /\ HasAt(j)' /\ BelongsAt(j)'
  <2> SUFFICES ASSUME NEW j \in Queriers \ {i}
               PROVE  QuerierAt(j)' /\ OwnAt(j)' /\ HasAt(j)' /\ BelongsAt(j)'
    OBVIOUS
  <2> QED BY <1>1, OthersKept
<1>3. \A n \in DOMAIN statements' : StatementAt(n)'
  BY Quiet
<1>4. AnswersBelong'
  BY <1>2 DEF AnswersBelong, BelongsAt, Belongs
<1>5. CallTypeOK'
  <2>1. \A j \in Queriers : querier'[j].stmt \in 0 .. Len(statements')
    BY <1>2 DEF QuerierAt
  <2> QED BY <2>1 DEF ICall, CallTypeOK
<1> QED BY <1>2, <1>3, <1>4, <1>5 DEF ICall

\* Nothing changes in the caches.
LEMMA SharedKept ==
  ASSUME ICall, interCache' = interCache, clients' = clients
  PROVE  SharedInv' /\ ClientInv'
  BY DEF ICall, SharedInv, ClientInv, AskedBy, IsRaised
LEMMA PreparedKept ==
  ASSUME ICall, prepared' = prepared
  PROVE  /\ prepared' \in [Databases -> Seq(DOMAIN statements)]
         /\ \A d \in Databases : ToSet(prepared'[d]) = ToSet(prepared[d]) /\ Len(prepared'[d]) <= MaxPrepared
  BY DEF ICall, CallTypeOK
LEMMA OwnKept ==
  ASSUME ICall, NEW i \in Queriers, querier'[i].intra = querier[i].intra, querier'[i].got = querier[i].got,
         querier'[i].time = querier[i].time, querier'[i].pc # "idle"
  PROVE  OwnAt(i)' /\ BelongsAt(i)'
<1>1. OwnAt(i) /\ BelongsAt(i)
  BY BelongsEverywhere DEF ICall
<1>2. OwnAt(i)'
  BY <1>1 DEF OwnAt, IntraKey, AskedBy
<1>3. BelongsAt(i)'
  BY <1>1 DEF BelongsAt, Belongs
<1> QED BY <1>2, <1>3

\* A call ends.
LEMMA CallEnds ==
  ASSUME ICall, NEW i \in Queriers, querier[i].todo # << >>, querier[i].pc \in {"ready", "store"},
         NEW a, Belongs(Doing(i), a, querier[i].time),
         NEW m, NEW q, q = Answered(i, a) \/ q = [Answered(i, a) EXCEPT !.intra = m],
         q.intra = querier[i].intra \/ \A k \in DOMAIN q.intra : \E d \in CallsMade :
            k = IntraKey(d, Of(d).storesIn) /\ AskedBy(d, q.intra[k]) /\ q.intra[k].at >= querier[i].time,
         querier' = [querier EXCEPT ![i] = q], SharedInv',
         UNCHANGED <<clock, clients, prepared, statements, callFaults>>
  PROVE  ICall'
<1>1. /\ QuerierAt(i) /\ OwnAt(i) /\ HasAt(i) /\ BelongsAt(i) /\ DOMAIN querier = Queriers
      /\ Doing(i) \in CallsMade /\ Tail(querier[i].todo) \in Seq(CallsMade)
  BY BelongsEverywhere, DoingFacts DEF ICall
<1>2. /\ DOMAIN q = Fields /\ q.pc = "ready" /\ q.todo = Tail(querier[i].todo) /\ q.time = querier[i].time
      /\ q.stmt = querier[i].stmt /\ q.out = querier[i].out
      /\ q.got = {[call |-> Doing(i), answer |-> a]}
  <2> DOMAIN querier[i] = Fields
    BY <1>1 DEF QuerierAt
  <2> QED BY DEF Answered, Fields
<1>3. querier'[i] = q /\ DOMAIN querier' = Queriers /\ \A j \in Queriers \ {i} : querier'[j] = querier[j]
  BY <1>1
<1>4. QuerierAt(i)'
  BY <1>1, <1>2, <1>3 DEF QuerierAt, Steps, Connected
<1>5. OwnAt(i)'
  <2> HIDE DEF IntraKey
  <2> QED BY <1>1, <1>2, <1>3 DEF OwnAt, AskedBy
<1>6. HasAt(i)'
  BY <1>1, <1>2, <1>3 DEF HasAt, WithStatement
<1>7. BelongsAt(i)'
  BY <1>2, <1>3 DEF BelongsAt, Belongs
<1>8. Idle(i) /\ Idle(i)'
  BY <1>2, <1>3 DEF Idle
<1>9. ClientInv'
  BY DEF ICall, ClientInv
<1> QED BY <1>2, <1>3, <1>4, <1>5, <1>6, <1>7, <1>8, <1>9, PreparedKept, QuietStep DEF ICall, CallTypeOK

\* A call goes on, without a statement of its own before or after.
LEMMA CallGoesOn ==
  ASSUME ICall, NEW i \in Queriers, DOMAIN querier' = Queriers, \A j \in Queriers \ {i} : querier'[j] = querier[j],
         DOMAIN querier'[i] = Fields, querier'[i].todo = querier[i].todo, querier'[i].time = querier[i].time,
         querier'[i].intra = querier[i].intra, querier'[i].got = querier[i].got,
         querier'[i].out = querier[i].out, querier'[i].stmt = querier[i].stmt,
         querier[i].todo # << >>, querier[i].pc \notin {"idle", "add", "evict"},
         ~(querier[i].pc = "run" /\ Doing(i).fn = "sql.send"),
         \/ querier'[i].pc \in {"client", "open"}
         \/ querier'[i].pc \in {"statement", "prepare"} /\ Doing(i).fn = "sql.send" /\ querier'[i].from = Doing(i).target
         \/ querier'[i].pc = "run" /\ Doing(i).fn # "sql.send"
               /\ (Doing(i).fn # "vault.send" => querier'[i].from = Doing(i).target)
         \/ querier'[i].pc = "store" /\ AskedBy(Doing(i), querier'[i].answer)
               /\ querier'[i].answer.at >= querier[i].time,
         clock' = clock, statements' = statements, prepared' = prepared, callFaults' \in 0 .. CallFaults,
         SharedInv', ClientInv'
  PROVE  ICall'
<1>1. QuerierAt(i) /\ OwnAt(i) /\ HasAt(i) /\ Doing(i)' = Doing(i)
  BY DEF ICall, Doing
<1>2. QuerierAt(i)'
  BY <1>1 DEF QuerierAt, Steps, Connected, AskedBy
<1>3. OwnAt(i)' /\ BelongsAt(i)'
  BY OwnKept
<1>4. Idle(i) /\ Idle(i)'
  BY <1>1 DEF Idle
<1>5. HasAt(i)'
  BY <1>1 DEF HasAt, WithStatement
<1> QED BY <1>2, <1>3, <1>4, <1>5, PreparedKept, QuietStep DEF ICall, CallTypeOK

LEMMA BeginKeeps ==
  ASSUME ICall, NEW i \in Queriers, BeginQuery(i)
  PROVE  ICall'
<1>1. QuerierAt(i) /\ OwnAt(i) /\ HasAt(i) /\ DOMAIN querier[i] = Fields /\ DOMAIN querier = Queriers /\ clock \in Nat
  BY DEF ICall, QuerierAt, CallTypeOK
<1>2. /\ DOMAIN querier' = Queriers /\ \A j \in Queriers \ {i} : querier'[j] = querier[j]
      /\ DOMAIN querier'[i] = Fields /\ querier'[i].pc = "ready" /\ querier'[i].time = clock
      /\ querier'[i].todo = querier[i].todo /\ querier'[i].intra = querier[i].intra
      /\ querier'[i].stmt = querier[i].stmt /\ querier'[i].out = querier[i].out /\ querier'[i].got = querier[i].got
  BY <1>1 DEF BeginQuery, Fields
<1>3. querier[i].pc = "idle" /\ querier[i].got = {} /\ querier[i].intra = << >>
  BY <1>1 DEF BeginQuery, At, OwnAt
<1>4. QuerierAt(i)'
  BY <1>1, <1>2 DEF QuerierAt, Steps, Connected, BeginQuery
<1>5. OwnAt(i)' /\ BelongsAt(i)'
  <2>1. DOMAIN querier'[i].intra = {}
    BY <1>2, <1>3
  <2> QED BY <2>1, <1>2, <1>3 DEF OwnAt, BelongsAt
<1>6. HasAt(i)'
  BY <1>1, <1>2, <1>3 DEF HasAt, WithStatement
<1>7. Idle(i) /\ Idle(i)'
  BY <1>2, <1>3 DEF Idle
<1> QED BY <1>2, <1>4, <1>5, <1>6, <1>7, SharedKept, PreparedKept, QuietStep DEF ICall, CallTypeOK, BeginQuery

LEMMA CheckKeeps ==
  ASSUME ICall, NEW i \in Queriers, CheckCaches(i)
  PROVE  ICall'
<1> DEFINE c == Doing(i)
           own == IntraKey(c, Of(c).looksIn)
<1>1. /\ QuerierAt(i) /\ OwnAt(i) /\ DOMAIN querier[i] = Fields /\ DOMAIN querier = Queriers
      /\ querier[i].time \in Nat /\ querier[i].todo # << >> /\ querier[i].pc = "ready" /\ c \in CallsMade
  BY DoingFacts DEF ICall, QuerierAt, CheckCaches, At
<1>2. CASE InterQueryHit(i, c)
  <2> DEFINE k == Of(c).key
  <2>1. k \in DOMAIN interCache /\ Of(c).shared /\ querier[i].time < interCache[k].expires
    BY <1>2 DEF InterQueryHit
  <2>2. PICK d \in CallsMade : /\ k = Of(d).key /\ AskedBy(d, interCache[k].answer) /\ interCache[k].expires \in Nat
                                /\ interCache[k].expires <= interCache[k].answer.at + d.ttl
    BY <2>1 DEF ICall, SharedInv
  <2>3. Belongs(c, interCache[k].answer, querier[i].time)
    BY <1>1, <2>1, <2>2, SharedBelongs
  <2>4. querier' = [querier EXCEPT ![i] = Answered(i, interCache[k].answer)]
    BY <1>2 DEF CheckCaches
  <2>5. Answered(i, interCache[k].answer).intra = querier[i].intra
    BY <1>1 DEF Answered, Fields
  <2> QED BY <1>1, <2>3, <2>4, <2>5, CallEnds, SharedKept DEF CheckCaches
<1>3. CASE ~InterQueryHit(i, c) /\ own \in DOMAIN querier[i].intra
  <2> DEFINE a == querier[i].intra[own]
  <2>1. PICK d \in CallsMade : own = IntraKey(d, Of(d).storesIn) /\ AskedBy(d, a) /\ a.at >= querier[i].time
    BY <1>1, <1>3 DEF OwnAt
  <2>2. Of(c).key = Of(d).key
    BY <2>1 DEF IntraKey
  <2>3. Belongs(c, a, querier[i].time)
    BY <1>1, <2>1, <2>2, OwnBelongs
  <2>4. querier' = [querier EXCEPT ![i] = Answered(i, a)]
    BY <1>3 DEF CheckCaches
  <2>5. Answered(i, a).intra = querier[i].intra
    BY <1>1 DEF Answered, Fields
  <2> QED BY <1>1, <2>3, <2>4, <2>5, CallEnds, SharedKept DEF CheckCaches
<1>4. CASE ~InterQueryHit(i, c) /\ own \notin DOMAIN querier[i].intra
  <2>1. querier' = [querier EXCEPT ![i] = IF c.fn \in Unpooled THEN [@ EXCEPT !.pc = "run", !.from = c.target]
                                          ELSE [@ EXCEPT !.pc = "client"]]
    BY <1>4 DEF CheckCaches
  <2>2. /\ DOMAIN querier' = Queriers /\ \A j \in Queriers \ {i} : querier'[j] = querier[j]
        /\ DOMAIN querier'[i] = Fields /\ querier'[i].todo = querier[i].todo /\ querier'[i].time = querier[i].time
        /\ querier'[i].intra = querier[i].intra /\ querier'[i].got = querier[i].got
        /\ querier'[i].out = querier[i].out /\ querier'[i].stmt = querier[i].stmt
        /\ (querier'[i].pc = "client" \/ (querier'[i].pc = "run" /\ c.fn \in Unpooled /\ querier'[i].from = c.target))
    BY <1>1, <2>1 DEF Fields
  <2> QED BY <1>1, <2>2, CallGoesOn, SharedKept DEF CheckCaches, ICall, CallTypeOK, Unpooled
<1> QED BY <1>2, <1>3, <1>4

\* A client for the key of a call is a client for its target.
LEMMA ClientFits ==
  ASSUME ICall, NEW c \in CallsMade, Of(c).client \in DOMAIN clients, c.fn # "vault.send"
  PROVE  clients[Of(c).client] = c.target
  BY OfFacts DEF ICall, ClientInv

LEMMA GetKeeps ==
  ASSUME ICall, NEW i \in Queriers, GetClient(i)
  PROVE  ICall'
<1> DEFINE c == Doing(i)
<1>1. /\ QuerierAt(i) /\ DOMAIN querier[i] = Fields /\ DOMAIN querier = Queriers
      /\ querier[i].todo # << >> /\ querier[i].pc = "client" /\ c \in CallsMade
  BY DoingFacts DEF ICall, QuerierAt, GetClient, At
<1>2. /\ DOMAIN querier' = Queriers /\ \A j \in Queriers \ {i} : querier'[j] = querier[j]
      /\ DOMAIN querier'[i] = Fields /\ querier'[i].todo = querier[i].todo /\ querier'[i].time = querier[i].time
      /\ querier'[i].intra = querier[i].intra /\ querier'[i].got = querier[i].got
      /\ querier'[i].out = querier[i].out /\ querier'[i].stmt = querier[i].stmt
      /\ \/ querier'[i].pc = "open"
         \/ /\ querier'[i].pc = WithClient(i) /\ Of(c).client \in DOMAIN clients
            /\ querier'[i].from = clients[Of(c).client]
  BY <1>1 DEF GetClient, GoTo, Fields
<1>3. querier'[i].pc = "open" \/ (c.fn # "vault.send" => querier'[i].from = c.target)
  BY <1>1, <1>2, ClientFits
<1> QED BY <1>1, <1>2, <1>3, CallGoesOn, SharedKept DEF GetClient, ICall, CallTypeOK, WithClient

LEMMA OpenKeeps ==
  ASSUME ICall, NEW i \in Queriers, OpenClient(i)
  PROVE  ICall'
<1> DEFINE c == Doing(i)
           k == Of(c).client
<1>1. /\ QuerierAt(i) /\ DOMAIN querier[i] = Fields /\ DOMAIN querier = Queriers
      /\ querier[i].todo # << >> /\ querier[i].pc = "open" /\ c \in CallsMade
  BY DoingFacts DEF ICall, QuerierAt, OpenClient, At
<1>2. /\ DOMAIN querier' = Queriers /\ \A j \in Queriers \ {i} : querier'[j] = querier[j]
      /\ DOMAIN querier'[i] = Fields /\ querier'[i].todo = querier[i].todo /\ querier'[i].time = querier[i].time
      /\ querier'[i].intra = querier[i].intra /\ querier'[i].got = querier[i].got
      /\ querier'[i].out = querier[i].out /\ querier'[i].stmt = querier[i].stmt
      /\ querier'[i].pc = WithClient(i) /\ querier'[i].from = clients'[k]
  BY <1>1 DEF OpenClient, Fields
<1>3. clients' = (IF k \in DOMAIN clients THEN clients ELSE Keeping(clients, k, c.target))
  BY DEF OpenClient
<1>4. c.fn # "vault.send" => clients'[k] = c.target
  BY <1>1, <1>3, ClientFits DEF Keeping
<1>5. ClientInv'
  <2> SUFFICES ASSUME NEW l \in DOMAIN clients', l[1] # "vault.send"
               PROVE  clients'[l] = l[2]
    BY DEF ClientInv
  <2>1. CASE l \in DOMAIN clients
    <3>1. clients'[l] = clients[l]
      BY <2>1, <1>3 DEF Keeping
    <3> QED BY <2>1, <3>1 DEF ICall, ClientInv
  <2>2. CASE l \notin DOMAIN clients
    <3>1. l = k /\ clients'[l] = c.target
      BY <2>2, <1>3 DEF Keeping
    <3>2. c.fn = "vault.send" => k = <<"vault.send", c.target.at>>
      BY <1>1, OfFacts
    <3>3. c.fn # "vault.send"
      BY <3>1, <3>2
    <3> QED BY <3>1, <3>3, <1>1, OfFacts
  <2> QED BY <2>1, <2>2
<1>6. SharedInv'
  BY DEF ICall, SharedInv, AskedBy, IsRaised, OpenClient
<1> QED BY <1>1, <1>2, <1>4, <1>5, <1>6, CallGoesOn DEF OpenClient, ICall, CallTypeOK, WithClient

\* A failure before anything was acquired.
LEMMA FaultKeeps ==
  ASSUME ICall, NEW i \in Queriers, querier[i].pc \in {"open", "prepare"}, NEW from, Fault(i, from),
         Doing(i).fn # "vault.send" => from = Doing(i).target,
         UNCHANGED <<clock, interCache, clients, prepared, statements>>
  PROVE  ICall'
<1>1. /\ QuerierAt(i) /\ DOMAIN querier[i] = Fields /\ DOMAIN querier = Queriers /\ clock \in Nat
      /\ querier[i].todo # << >> /\ Doing(i) \in CallsMade /\ querier[i].time \in 0 .. clock
  BY DoingFacts DEF ICall, QuerierAt, CallTypeOK
<1>2. /\ DOMAIN querier' = Queriers /\ \A j \in Queriers \ {i} : querier'[j] = querier[j]
      /\ DOMAIN querier'[i] = Fields /\ querier'[i].todo = querier[i].todo /\ querier'[i].time = querier[i].time
      /\ querier'[i].intra = querier[i].intra /\ querier'[i].got = querier[i].got
      /\ querier'[i].out = querier[i].out /\ querier'[i].stmt = querier[i].stmt
      /\ querier'[i].pc = "store" /\ querier'[i].answer = Answer(Doing(i), from, clock, TRUE)
  BY <1>1 DEF Fault, Fields
<1>3. AskedBy(Doing(i), querier'[i].answer) /\ querier'[i].answer.at >= querier[i].time
  BY <1>1, <1>2 DEF AskedBy, Answer
<1>4. callFaults' \in 0 .. CallFaults
  BY CallAssumption DEF Fault, ICall, CallTypeOK
<1> QED BY <1>1, <1>2, <1>3, <1>4, CallGoesOn, SharedKept

LEMMA OpenFailsKeeps ==
  ASSUME ICall, NEW i \in Queriers, OpenFails(i)
  PROVE  ICall'
  BY FaultKeeps DEF OpenFails, At
LEMMA PrepareFailsKeeps ==
  ASSUME ICall, NEW i \in Queriers, PrepareFails(i)
  PROVE  ICall'
<1>1. querier[i].pc = "prepare" /\ querier[i].from = Doing(i).target
  BY DEF PrepareFails, At, ICall, QuerierAt, Connected
<1> QED BY <1>1, FaultKeeps DEF PrepareFails

LEMMA EndKeeps ==
  ASSUME ICall, NEW i \in Queriers, EndQuery(i)
  PROVE  ICall'
<1>1. /\ QuerierAt(i) /\ OwnAt(i) /\ HasAt(i) /\ BelongsAt(i) /\ DOMAIN querier[i] = Fields
      /\ DOMAIN querier = Queriers /\ querier[i].pc = "ready"
  BY BelongsEverywhere DEF ICall, QuerierAt, EndQuery, At
<1>2. /\ DOMAIN querier' = Queriers /\ \A j \in Queriers \ {i} : querier'[j] = querier[j]
      /\ DOMAIN querier'[i] = Fields /\ querier'[i].todo = querier[i].todo /\ querier'[i].time = querier[i].time
      /\ querier'[i].intra = << >> /\ querier'[i].got = querier[i].got /\ querier'[i].pc = "done"
      /\ querier'[i].out = querier[i].out /\ querier'[i].stmt = querier[i].stmt
  BY <1>1 DEF EndQuery, Fields
<1>3. QuerierAt(i)'
  BY <1>1, <1>2 DEF QuerierAt, Steps, Connected, EndQuery
<1>4. OwnAt(i)' /\ BelongsAt(i)'
  <2>1. DOMAIN querier'[i].intra = {}
    BY <1>2
  <2> QED BY <2>1, <1>1, <1>2 DEF OwnAt, BelongsAt, Belongs
<1>5. HasAt(i)'
  BY <1>1, <1>2 DEF HasAt, WithStatement
<1>6. Idle(i) /\ Idle(i)'
  BY <1>1, <1>2 DEF Idle
<1> QED BY <1>2, <1>3, <1>4, <1>5, <1>6, SharedKept, PreparedKept, QuietStep DEF ICall, CallTypeOK, EndQuery

LEMMA InsertKeeps ==
  ASSUME ICall, NEW i \in Queriers, InsertCaches(i)
  PROVE  ICall'
<1> DEFINE c == Doing(i)
           a == querier[i].answer
           entry == [answer |-> a, expires |-> querier[i].time + c.ttl]
           own == IntraKey(c, Of(c).storesIn)
           kept == [Answered(i, a) EXCEPT !.intra = Keeping(@, own, a)]
<1>1. /\ QuerierAt(i) /\ OwnAt(i) /\ DOMAIN querier[i] = Fields /\ DOMAIN querier = Queriers
      /\ querier[i].todo # << >> /\ querier[i].pc = "store" /\ c \in CallsMade /\ querier[i].time \in Nat
      /\ AskedBy(c, a) /\ a.at >= querier[i].time
  BY DoingFacts DEF ICall, QuerierAt, InsertCaches, At
<1>2. Belongs(c, a, querier[i].time)
  BY <1>1, OwnBelongs
<1>3. Answered(i, a).intra = querier[i].intra /\ DOMAIN Answered(i, a) = Fields
  BY <1>1 DEF Answered, Fields
<1>4. kept.intra = Keeping(querier[i].intra, own, a)
  BY <1>3 DEF Fields
<1>5. \A k \in DOMAIN kept.intra : \E d \in CallsMade :
        k = IntraKey(d, Of(d).storesIn) /\ AskedBy(d, kept.intra[k]) /\ kept.intra[k].at >= querier[i].time
  <2> HIDE DEF kept, own, a
  <2> SUFFICES ASSUME NEW k \in DOMAIN kept.intra
               PROVE  \E d \in CallsMade : /\ k = IntraKey(d, Of(d).storesIn) /\ AskedBy(d, kept.intra[k])
                                            /\ kept.intra[k].at >= querier[i].time
    OBVIOUS
  <2>1. CASE k = own
    <3>1. kept.intra[k] = a
      BY <2>1, <1>4 DEF Keeping
    <3> QED BY <3>1, <2>1, <1>1 DEF own
  <2>2. CASE k # own
    <3>1. k \in DOMAIN querier[i].intra /\ kept.intra[k] = querier[i].intra[k]
      BY <2>2, <1>4 DEF Keeping
    <3> QED BY <3>1, <1>1 DEF OwnAt
  <2> QED BY <2>1, <2>2
<1>6. \/ /\ querier' = [querier EXCEPT ![i] = Answered(i, a)] /\ interCache' = interCache
      \/ /\ querier' = [querier EXCEPT ![i] = kept]
         /\ \/ interCache' = interCache
            \/ ~IsRaised(c, a) /\ interCache' = Keeping(interCache, Of(c).key, entry)
  BY DEF InsertCaches
<1>7. SharedInv'
  <2>1. CASE interCache' = interCache
    BY <2>1 DEF ICall, SharedInv, AskedBy, IsRaised
  <2>2. CASE ~IsRaised(c, a) /\ interCache' = Keeping(interCache, Of(c).key, entry)
    <3> SUFFICES ASSUME NEW k \in DOMAIN interCache'
                 PROVE  \E d \in CallsMade :
                          /\ k = Of(d).key /\ AskedBy(d, interCache'[k].answer)
                          /\ interCache'[k].expires \in Nat /\ interCache'[k].expires <= interCache'[k].answer.at + d.ttl
                          /\ ~IsRaised(d, interCache'[k].answer)
      BY DEF SharedInv, AskedBy, IsRaised
    <3>1. CASE k = Of(c).key
      <4>1. interCache'[k] = entry
        BY <2>2, <3>1 DEF Keeping
      <4>2. interCache'[k].answer = a /\ interCache'[k].expires = querier[i].time + c.ttl
        BY <4>1
      <4>3. c.ttl \in Nat /\ a.at \in Nat
        BY <1>1, CallFacts DEF AskedBy
      <4> HIDE DEF c, a, entry
      <4> QED BY <4>2, <4>3, <3>1, <2>2, <1>1
    <3>2. CASE k # Of(c).key
      <4>1. k \in DOMAIN interCache /\ interCache'[k] = interCache[k]
        BY <2>2, <3>2 DEF Keeping
      <4> QED BY <4>1 DEF ICall, SharedInv
    <3> QED BY <3>1, <3>2
  <2> QED BY <1>6, <2>1, <2>2
<1>8. UNCHANGED <<clock, clients, prepared, statements, callFaults>>
  BY DEF InsertCaches
<1> HIDE DEF c, a, kept, entry, own
<1>9. CASE querier' = [querier EXCEPT ![i] = Answered(i, a)]
  <2> DEFINE q == Answered(i, a)
  <2>1. q.intra = querier[i].intra
    BY <1>3
  <2> HIDE DEF q
  <2> QED BY <1>1, <1>2, <1>7, <1>8, <1>9, <2>1, CallEnds DEF c, q
<1>10. CASE querier' = [querier EXCEPT ![i] = kept]
  <2>1. kept = [Answered(i, a) EXCEPT !.intra = Keeping(querier[i].intra, own, a)]
    BY <1>3 DEF kept
  <2> DEFINE m == Keeping(querier[i].intra, own, a)
  <2> HIDE DEF m
  <2> QED BY <1>1, <1>2, <1>5, <1>7, <1>8, <1>10, <2>1, CallEnds DEF c, m
<1> QED BY <1>6, <1>9, <1>10

LEMMA DropKeeps ==
  ASSUME ICall, DropEntry
  PROVE  ICall'
<1>1. SharedInv'
  <2>1. PICK k \in DOMAIN interCache : interCache' = [x \in DOMAIN interCache \ {k} |-> interCache[x]]
    BY DEF DropEntry
  <2>2. \A x \in DOMAIN interCache' : x \in DOMAIN interCache /\ interCache'[x] = interCache[x]
    BY <2>1
  <2> QED BY <2>2 DEF ICall, SharedInv, AskedBy, IsRaised
<1>2. UNCHANGED <<clock, clients, prepared, statements, querier, callFaults>>
  BY DEF DropEntry
<1>3. CallTypeOK' /\ ClientInv' /\ AnswersBelong' /\ DOMAIN querier' = Queriers
  BY <1>2 DEF ICall, CallTypeOK, ClientInv, AnswersBelong
<1>4. \A i \in Queriers : QuerierAt(i)' /\ OwnAt(i)' /\ HasAt(i)'
  BY <1>2 DEF ICall, QuerierAt, OwnAt, HasAt, WithStatement, Doing, AskedBy, IntraKey
<1>5. \A n \in DOMAIN statements' : StatementAt(n)'
  BY <1>2 DEF ICall, StatementAt, Located, Users, Using, Doing
<1> QED BY <1>1, <1>3, <1>4, <1>5 DEF ICall

LEMMA TickKeeps ==
  ASSUME ICall, Tick
  PROVE  ICall'
<1>1. /\ UNCHANGED <<interCache, clients, prepared, statements, querier, callFaults>>
      /\ clock' \in 0 .. MaxClock /\ clock \in Nat /\ clock' = clock + 1
  BY CallAssumption DEF Tick, ICall, CallTypeOK
<1>2. CallTypeOK' /\ ClientInv' /\ AnswersBelong' /\ SharedInv' /\ DOMAIN querier' = Queriers
  BY <1>1 DEF ICall, CallTypeOK, ClientInv, AnswersBelong, SharedInv, AskedBy, IsRaised
<1>3. StatementsGrow /\ Len(statements') \in Nat
  BY <1>1 DEF StatementsGrow, ICall, CallTypeOK
<1>4. \A i \in Queriers : QuerierAt(i)' /\ OwnAt(i)' /\ HasAt(i)'
  BY <1>1, <1>3, OthersKept
<1>5. \A n \in DOMAIN statements' : StatementAt(n)'
  BY <1>1 DEF ICall, StatementAt, Located, Users, Using, Doing
<1> QED BY <1>2, <1>4, <1>5 DEF ICall

-----------------------------------------------------------------------------
(* Statements.                                                             *)

StatementTypes == [query : {c.query : c \in CallsMade}, active : Nat, closed : BOOLEAN, open : BOOLEAN]

\* A statement that is used again goes to the end of its cache.
LEMMA MovedToEnd ==
  ASSUME NEW S, NEW p \in Seq(S), NEW k \in DOMAIN p
  PROVE  LET q == Append(RemoveAt(p, k), p[k])
         IN  q \in Seq(S) /\ Len(q) = Len(p) /\ ToSet(q) = ToSet(p)
<1> DEFINE q == Append(RemoveAt(p, k), p[k])
           l == SubSeq(p, 1, k - 1)
           r == SubSeq(p, k + 1, Len(p))
<1>1. k \in 1 .. Len(p) /\ Len(p) \in Nat /\ p[k] \in S
  OBVIOUS
<1>2. l \in Seq(S) /\ r \in Seq(S) /\ Len(l) = k - 1 /\ Len(r) = Len(p) - k
  BY <1>1
<1>3. /\ \A x \in 1 .. k - 1 : l[x] = p[x]
      /\ \A x \in 1 .. Len(p) - k : r[x] = p[x + k]
  BY <1>1
<1>4. RemoveAt(p, k) = l \o r
  BY DEF RemoveAt
<1> HIDE DEF l, r
<1>5. /\ l \o r \in Seq(S) /\ Len(l \o r) = Len(p) - 1
      /\ \A x \in 1 .. k - 1 : (l \o r)[x] = p[x]
      /\ \A x \in k .. Len(p) - 1 : (l \o r)[x] = p[x + 1]
  <2>1. l \o r \in Seq(S) /\ Len(l \o r) = Len(p) - 1
    BY <1>1, <1>2
  <2>2. \A x \in 1 .. k - 1 : (l \o r)[x] = l[x]
    BY <1>1, <1>2
  <2>3. \A x \in k .. Len(p) - 1 : (l \o r)[x] = r[x - (k - 1)]
    BY <1>1, <1>2
  <2>4. \A x \in k .. Len(p) - 1 : x - (k - 1) \in 1 .. Len(p) - k /\ (x - (k - 1)) + k = x + 1
    BY <1>1
  <2> QED BY <1>3, <2>1, <2>2, <2>3, <2>4
<1>6. /\ q \in Seq(S) /\ Len(q) = Len(p) /\ q[Len(p)] = p[k]
      /\ \A x \in 1 .. k - 1 : q[x] = p[x]
      /\ \A x \in k .. Len(p) - 1 : q[x] = p[x + 1]
  BY <1>1, <1>4, <1>5
<1> HIDE DEF q
<1>7. \A x \in DOMAIN q : q[x] \in ToSet(p)
  BY <1>1, <1>6 DEF ToSet
<1>8. \A x \in DOMAIN p : p[x] \in ToSet(q)
  <2> SUFFICES ASSUME NEW x \in DOMAIN p PROVE \E y \in DOMAIN q : q[y] = p[x]
    BY DEF ToSet
  <2>1. CASE x < k
    BY <2>1, <1>1, <1>6
  <2>2. CASE x = k
    BY <2>2, <1>1, <1>6
  <2>3. CASE x > k
    <3>1. x - 1 \in k .. Len(p) - 1 /\ (x - 1) + 1 = x /\ x - 1 \in DOMAIN q
      BY <2>3, <1>1, <1>6
    <3> QED BY <3>1, <1>6
  <2> QED BY <2>1, <2>2, <2>3, <1>1
<1>9. ToSet(q) = ToSet(p)
  BY <1>7, <1>8 DEF ToSet
<1> QED BY <1>6, <1>9 DEF q

\* The parts of the invariant, after a step of one evaluation in sql.send.
LEMMA StatementStep ==
  ASSUME ICall, NEW i \in Queriers,
         DOMAIN querier' = Queriers, \A j \in Queriers \ {i} : querier'[j] = querier[j],
         DOMAIN querier'[i] = Fields, querier'[i].time = querier[i].time,
         querier'[i].intra = querier[i].intra, querier'[i].got = querier[i].got, querier'[i].pc # "idle",
         clock' = clock, interCache' = interCache, clients' = clients, callFaults' \in 0 .. CallFaults,
         statements' \in Seq(StatementTypes), StatementsGrow,
         prepared' \in [Databases -> Seq(DOMAIN statements')], \A d \in Databases : Len(prepared'[d]) <= MaxPrepared,
         QuerierAt(i)', HasAt(i)', \A n \in DOMAIN statements' : StatementAt(n)'
  PROVE  ICall'
<1>1. clock' \in Nat /\ clock' >= clock /\ Len(statements') \in Nat
  BY DEF ICall, CallTypeOK
<1>2. OwnAt(i)' /\ BelongsAt(i)'
  BY OwnKept
<1>3. \A j \in Queriers : QuerierAt(j)' /\ OwnAt(j)' /\ HasAt(j)' /\ BelongsAt(j)'
  <2> SUFFICES ASSUME NEW j \in Queriers \ {i}
               PROVE  QuerierAt(j)' /\ OwnAt(j)' /\ HasAt(j)' /\ BelongsAt(j)'
    BY <1>2
  <2> QED BY <1>1, OthersKept
<1>4. AnswersBelong'
  BY <1>3 DEF AnswersBelong, BelongsAt, Belongs
<1>5. CallTypeOK'
  <2>1. \A j \in Queriers : querier'[j].stmt \in 0 .. Len(statements')
    BY <1>3 DEF QuerierAt
  <2> QED BY <2>1 DEF ICall, CallTypeOK, StatementTypes
<1>6. SharedInv' /\ ClientInv'
  BY SharedKept
<1> QED BY <1>3, <1>4, <1>5, <1>6 DEF ICall

\* A statement that the step is not about.
LEMMA StatementKept ==
  ASSUME ICall, NEW n \in DOMAIN statements, statements'[n] = statements[n],
         \A j \in Queriers : Using(j, n)' <=> Using(j, n), Located(n) => Located(n)'
  PROVE  StatementAt(n)'
<1>1. StatementAt(n)
  BY DEF ICall
<1>2. Users(n)' = Users(n)
  BY DEF Users
<1> QED BY <1>1, <1>2 DEF StatementAt

LEMMA LookupKeeps ==
  ASSUME ICall, NEW i \in Queriers, LookupStatement(i)
  PROVE  ICall'
<1> DEFINE c == Doing(i)
           f == querier[i].from
<1>1. /\ QuerierAt(i) /\ HasAt(i) /\ DOMAIN querier[i] = Fields /\ DOMAIN querier = Queriers
      /\ querier[i].todo # << >> /\ querier[i].pc = "statement" /\ c \in CallsMade /\ c.fn = "sql.send"
      /\ f = c.target /\ f \in Databases
  BY DoingFacts, ConnectedTo DEF ICall, QuerierAt, LookupStatement, At, Connected
<1>2. UNCHANGED <<clock, interCache, clients, statements, callFaults>>
  BY DEF LookupStatement
<1>3. CASE GoTo(i, "prepare") /\ UNCHANGED prepared
  <2>1. /\ DOMAIN querier' = Queriers /\ \A j \in Queriers \ {i} : querier'[j] = querier[j]
        /\ DOMAIN querier'[i] = Fields /\ querier'[i].todo = querier[i].todo /\ querier'[i].time = querier[i].time
        /\ querier'[i].intra = querier[i].intra /\ querier'[i].got = querier[i].got
        /\ querier'[i].out = querier[i].out /\ querier'[i].stmt = querier[i].stmt
        /\ querier'[i].pc = "prepare" /\ querier'[i].from = c.target
    BY <1>1, <1>3 DEF GoTo, Fields
  <2> QED BY <1>1, <1>2, <1>3, <2>1, CallGoesOn, SharedKept DEF ICall, CallTypeOK
<1>4. ASSUME NEW k \in StatementOf(i),
             prepared' = [prepared EXCEPT ![f] = Append(RemoveAt(@, k), prepared[f][k])],
             querier' = [querier EXCEPT ![i].pc = "acquire", ![i].stmt = prepared[f][k]]
      PROVE  ICall'
  <2> DEFINE n == prepared[f][k]
             moved == Append(RemoveAt(prepared[f], k), n)
  <2>1. /\ prepared \in [Databases -> Seq(DOMAIN statements)] /\ prepared[f] \in Seq(DOMAIN statements)
        /\ k \in DOMAIN prepared[f] /\ n \in DOMAIN statements /\ statements[n].query = c.query
        /\ Len(statements) \in Nat
    BY <1>1 DEF ICall, CallTypeOK, StatementOf
  <2>2. moved \in Seq(DOMAIN statements) /\ Len(moved) = Len(prepared[f]) /\ ToSet(moved) = ToSet(prepared[f])
    BY <2>1, MovedToEnd
  <2>3. prepared' = [prepared EXCEPT ![f] = moved]
    BY <1>4, <2>1, <1>1
  <2> HIDE DEF moved, n, f, c
  <2>4. /\ prepared' \in [Databases -> Seq(DOMAIN statements)]
        /\ \A d \in Databases : ToSet(prepared'[d]) = ToSet(prepared[d]) /\ Len(prepared'[d]) <= MaxPrepared
    BY <1>1, <2>1, <2>2, <2>3 DEF ICall, CallTypeOK
  <2>5. /\ DOMAIN querier' = Queriers /\ \A j \in Queriers \ {i} : querier'[j] = querier[j]
        /\ DOMAIN querier'[i] = Fields /\ querier'[i].todo = querier[i].todo /\ querier'[i].time = querier[i].time
        /\ querier'[i].intra = querier[i].intra /\ querier'[i].got = querier[i].got
        /\ querier'[i].out = querier[i].out /\ querier'[i].stmt = n
        /\ querier'[i].pc = "acquire" /\ querier'[i].from = querier[i].from
    BY <1>1, <1>4 DEF Fields, n, f
  <2>6. Doing(i)' = c
    BY <2>5 DEF Doing, c
  <2>7. QuerierAt(i)'
    BY <1>1, <1>2, <2>1, <2>5, <2>6 DEF QuerierAt, Steps, f
  <2>8. HasAt(i)'
    BY <1>1, <1>2, <2>1, <2>5, <2>6 DEF HasAt
  <2>9. OwnAt(i)' /\ BelongsAt(i)'
    BY <2>5, OwnKept
  <2>10. Idle(i) /\ Idle(i)'
    BY <1>1, <2>5 DEF Idle
  <2> QED BY <1>2, <2>4, <2>5, <2>7, <2>8, <2>9, <2>10, SharedKept, QuietStep DEF ICall, CallTypeOK
<1> QED BY <1>3, <1>4 DEF LookupStatement

LEMMA StatementsTyped ==
  ASSUME ICall
  PROVE  /\ statements \in Seq(StatementTypes) /\ Len(statements) \in Nat
         /\ \A n \in DOMAIN statements : statements[n] \in StatementTypes
<1>1. statements \in Seq(StatementTypes)
  BY DEF ICall, CallTypeOK, StatementTypes
<1> QED BY <1>1
LEMMA StatementFields ==
  ASSUME NEW s \in StatementTypes, NEW a \in Nat
  PROVE  s.active \in Nat /\ s.closed \in BOOLEAN /\ s.open \in BOOLEAN /\ [s EXCEPT !.active = a] \in StatementTypes
  BY DEF StatementTypes

LEMMA AcquireKeeps ==
  ASSUME ICall, NEW i \in Queriers, AcquireStatement(i)
  PROVE  ICall'
<1> DEFINE c == Doing(i)
<1>0. PICK n : n = querier[i].stmt
  OBVIOUS
<1>1. /\ QuerierAt(i) /\ HasAt(i) /\ DOMAIN querier[i] = Fields /\ DOMAIN querier = Queriers
      /\ querier[i].todo # << >> /\ querier[i].pc = "acquire" /\ c \in CallsMade /\ c.fn = "sql.send"
      /\ querier[i].from = c.target
  BY DoingFacts, ConnectedTo DEF ICall, QuerierAt, AcquireStatement, At, Connected
<1>2. UNCHANGED <<clock, interCache, clients, prepared, callFaults>>
  BY DEF AcquireStatement
<1>3. n \in DOMAIN statements /\ statements[n].query = c.query
  BY <1>0, <1>1 DEF HasAt, WithStatement
<1>4. /\ statements \in Seq(StatementTypes) /\ statements[n] \in StatementTypes /\ Len(statements) \in Nat
      /\ callFaults' \in 0 .. CallFaults
  <2>1. callFaults' \in 0 .. CallFaults
    BY <1>2 DEF ICall, CallTypeOK
  <2> QED BY <1>3, <2>1, StatementsTyped
<1>5. ASSUME NEW pc, querier' = [querier EXCEPT ![i].pc = pc]
      PROVE  /\ DOMAIN querier' = Queriers /\ \A j \in Queriers \ {i} : querier'[j] = querier[j]
             /\ DOMAIN querier'[i] = Fields /\ querier'[i].todo = querier[i].todo /\ querier'[i].time = querier[i].time
             /\ querier'[i].intra = querier[i].intra /\ querier'[i].got = querier[i].got
             /\ querier'[i].out = querier[i].out /\ querier'[i].stmt = n
             /\ querier'[i].pc = pc /\ querier'[i].from = c.target /\ Doing(i)' = c
  BY <1>0, <1>1, <1>5 DEF Fields, Doing
<1>6. CASE statements[n].closed
  <2>1. querier' = [querier EXCEPT ![i].pc = "prepare"] /\ statements' = statements
    BY <1>0, <1>6 DEF AcquireStatement, GoTo
  <2> QED BY <1>0, <1>1, <1>2, <1>5, <2>1, CallGoesOn, SharedKept DEF ICall, CallTypeOK
<1>7. CASE ~statements[n].closed
  <2>1. querier' = [querier EXCEPT ![i].pc = "run"] /\ statements' = [statements EXCEPT ![n].active = @ + 1]
    BY <1>0, <1>7 DEF AcquireStatement, GoTo
  <2>0. statements[n].active + 1 \in Nat
    BY <1>4 DEF StatementTypes
  <2>2. /\ DOMAIN querier' = Queriers /\ \A j \in Queriers \ {i} : querier'[j] = querier[j]
        /\ DOMAIN querier'[i] = Fields /\ querier'[i].todo = querier[i].todo /\ querier'[i].time = querier[i].time
        /\ querier'[i].intra = querier[i].intra /\ querier'[i].got = querier[i].got
        /\ querier'[i].out = querier[i].out /\ querier'[i].stmt = n
        /\ querier'[i].pc = "run" /\ querier'[i].from = c.target /\ Doing(i)' = c
    BY <1>5, <2>1
  <2>3. /\ statements'[n] = [statements[n] EXCEPT !.active = @ + 1] /\ DOMAIN statements' = DOMAIN statements
        /\ \A m \in DOMAIN statements \ {n} : statements'[m] = statements[m]
        /\ Len(statements') = Len(statements) /\ statements' \in Seq(StatementTypes)
    <3>1. [statements[n] EXCEPT !.active = @ + 1] \in StatementTypes
      BY <2>0, <1>4, StatementFields
    <3> QED BY <1>3, <1>4, <2>1, <3>1
  <2>4. /\ statements'[n].active = statements[n].active + 1 /\ statements'[n].query = statements[n].query
        /\ statements'[n].closed = statements[n].closed /\ statements'[n].open = statements[n].open
    <3> HIDE DEF c
    <3> DEFINE s == statements[n]
    <3>1. s \in StatementTypes /\ s.active + 1 \in Nat /\ statements'[n] = [s EXCEPT !.active = s.active + 1]
      BY <1>4, <2>0, <2>3
    <3> HIDE DEF s
    <3>2. statements'[n].active = s.active + 1 /\ statements'[n].query = s.query
          /\ statements'[n].closed = s.closed /\ statements'[n].open = s.open
      BY <3>1 DEF StatementTypes
    <3> QED BY <3>2 DEF s
  <2>5. StatementsGrow
    <3>1. \A m \in DOMAIN statements : statements'[m].query = statements[m].query
      BY <2>3, <2>4
    <3>2. Len(statements') >= Len(statements) /\ DOMAIN statements' = DOMAIN statements
      BY <1>4, <2>3
    <3> QED BY <3>1, <3>2 DEF StatementsGrow
  <2> HIDE DEF c
  <2>6. QuerierAt(i)' /\ HasAt(i)'
    BY <1>1, <1>2, <1>3, <2>2, <2>3, <2>4 DEF QuerierAt, HasAt, Steps, WithStatement
  <2>7. \A j \in Queriers \ {i} : \A m : Using(j, m)' <=> Using(j, m)
    BY <2>2 DEF Using, Doing
  <2>8. \A m : ~Using(i, m)
    BY <1>1 DEF Using
  <2>9. \A m : Using(i, m)' <=> m = n
    BY <1>1, <2>2 DEF Using
  <2>10. \A m : Located(m) => Located(m)'
    BY <1>1, <1>2, <2>2 DEF Located
  <2>11. StatementAt(n)'
    <3>1. Users(n)' = Users(n) \cup {i} /\ i \notin Users(n)
      BY <2>7, <2>8, <2>9 DEF Users
    <3>2. IsFiniteSet(Users(n)) /\ Cardinality(Users(n)) \in Nat
      BY UsersFinite
    <3>3. Cardinality(Users(n)') = Cardinality(Users(n)) + 1
      BY <3>1, <3>2, OneMore
    <3>4. StatementAt(n)
      BY <1>3 DEF ICall
    <3>5. statements[n].open
      BY <1>7, <3>4 DEF StatementAt
    <3> QED BY <1>7, <2>4, <2>10, <3>2, <3>3, <3>4, <3>5 DEF StatementAt
  <2>12. \A m \in DOMAIN statements \ {n} : StatementAt(m)'
    BY <2>3, <2>7, <2>8, <2>9, <2>10, StatementKept
  <2>13. prepared' \in [Databases -> Seq(DOMAIN statements')] /\ \A d \in Databases : Len(prepared'[d]) <= MaxPrepared
    BY <1>2, <2>3 DEF ICall, CallTypeOK
  <2> QED BY <1>2, <1>4, <2>2, <2>3, <2>5, <2>6, <2>11, <2>12, <2>13, StatementStep
<1> QED BY <1>6, <1>7

LEMMA PrepareKeeps ==
  ASSUME ICall, NEW i \in Queriers, PrepareStatement(i)
  PROVE  ICall'
<1>0. PICK n : n = Len(statements) + 1
  OBVIOUS
<1> DEFINE c == Doing(i)
           new == [query |-> c.query, active |-> 1, closed |-> FALSE, open |-> TRUE]
<1>1. /\ QuerierAt(i) /\ HasAt(i) /\ DOMAIN querier[i] = Fields /\ DOMAIN querier = Queriers
      /\ querier[i].todo # << >> /\ querier[i].pc = "prepare" /\ c \in CallsMade /\ c.fn = "sql.send"
      /\ querier[i].from = c.target
  BY DoingFacts, ConnectedTo DEF ICall, QuerierAt, PrepareStatement, At, Connected
<1>2. /\ UNCHANGED <<clock, interCache, clients, prepared, callFaults>> /\ statements' = Append(statements, new)
      /\ querier' = [querier EXCEPT ![i].pc = "add", ![i].stmt = n]
  BY <1>0 DEF PrepareStatement
<1>3. /\ statements \in Seq(StatementTypes) /\ callFaults' \in 0 .. CallFaults /\ Len(statements) \in Nat
      /\ new \in StatementTypes /\ prepared \in [Databases -> Seq(DOMAIN statements)]
      /\ \A d \in Databases : Len(prepared[d]) <= MaxPrepared
  <2>1. new \in StatementTypes
    BY <1>1 DEF StatementTypes
  <2>2. /\ prepared \in [Databases -> Seq(DOMAIN statements)] /\ callFaults' \in 0 .. CallFaults
        /\ \A d \in Databases : Len(prepared[d]) <= MaxPrepared
    BY <1>2 DEF ICall, CallTypeOK
  <2> QED BY <2>1, <2>2, StatementsTyped
<1>4. /\ DOMAIN querier' = Queriers /\ \A j \in Queriers \ {i} : querier'[j] = querier[j]
      /\ DOMAIN querier'[i] = Fields /\ querier'[i].todo = querier[i].todo /\ querier'[i].time = querier[i].time
      /\ querier'[i].intra = querier[i].intra /\ querier'[i].got = querier[i].got
      /\ querier'[i].out = querier[i].out /\ querier'[i].stmt = n
      /\ querier'[i].pc = "add" /\ querier'[i].from = c.target /\ Doing(i)' = c
  BY <1>1, <1>2 DEF Fields, Doing
<1>5. /\ statements' \in Seq(StatementTypes) /\ Len(statements') = n /\ statements'[n] = new
      /\ \A m \in DOMAIN statements : m \in DOMAIN statements' /\ statements'[m] = statements[m]
      /\ DOMAIN statements' = DOMAIN statements \cup {n} /\ n \notin DOMAIN statements
  <2> HIDE DEF new
  <2> QED BY <1>0, <1>2, <1>3
<1>6. new.active = 1 /\ ~new.closed /\ new.open /\ new.query = c.query
  OBVIOUS
<1>7. StatementsGrow
  BY <1>3, <1>5 DEF StatementsGrow
<1> HIDE DEF c, new
<1>8. QuerierAt(i)' /\ HasAt(i)'
  BY <1>0, <1>1, <1>2, <1>3, <1>4, <1>5, <1>6 DEF QuerierAt, HasAt, Steps, WithStatement
<1>9. \A j \in Queriers \ {i} : \A m : Using(j, m)' <=> Using(j, m)
  BY <1>4 DEF Using, Doing
<1>10. \A m : ~Using(i, m)
  BY <1>1 DEF Using
<1>11. \A m : Using(i, m)' <=> m = n
  BY <1>1, <1>4 DEF Using
<1>12. \A m : Located(m) => Located(m)'
  BY <1>1, <1>2, <1>4 DEF Located
<1>13. StatementAt(n)'
  <2>1. \A j \in Queriers : querier[j].stmt \in 0 .. Len(statements)
    BY DEF ICall, QuerierAt
  <2>2. \A j \in Queriers : ~Using(j, n)
    BY <2>1, <1>0, <1>3 DEF Using
  <2>3. Users(n)' = {i}
    BY <2>2, <1>9, <1>11 DEF Users
  <2>4. Cardinality({i}) = 1
    BY FS_Singleton
  <2>5. Located(n)'
    BY <1>4 DEF Located
  <2> QED BY <1>5, <1>6, <2>3, <2>4, <2>5 DEF StatementAt
<1>14. \A m \in DOMAIN statements : StatementAt(m)'
  <2> SUFFICES ASSUME NEW m \in DOMAIN statements PROVE StatementAt(m)'
    OBVIOUS
  <2>1. m # n
    BY <1>5
  <2> QED BY <2>1, <1>5, <1>9, <1>10, <1>11, <1>12, StatementKept
<1>15. prepared' \in [Databases -> Seq(DOMAIN statements')] /\ \A d \in Databases : Len(prepared'[d]) <= MaxPrepared
  <2>1. DOMAIN statements \subseteq DOMAIN statements'
    BY <1>5
  <2>2. Seq(DOMAIN statements) \subseteq Seq(DOMAIN statements')
    BY <2>1
  <2> QED BY <1>2, <1>3, <2>2
<1> QED BY <1>2, <1>3, <1>4, <1>5, <1>7, <1>8, <1>13, <1>14, <1>15, StatementStep

\* Release: the fields of the statement.
LEMMA ReleasedFields ==
  ASSUME NEW s \in StatementTypes, NEW k \in {0, 1}, k <= s.active, NEW close \in BOOLEAN
  PROVE  LET r == ReleaseStmt(s, k, close)
         IN  /\ r \in StatementTypes /\ r.query = s.query /\ r.active = s.active - k
             /\ r.closed <=> s.closed \/ close
             /\ r.open <=> s.open /\ ~(r.closed /\ r.active = 0)
<1> DEFINE r == ReleaseStmt(s, k, close)
<1>1. s.active - k \in Nat
  BY DEF StatementTypes
<1>2. r.active = s.active - k /\ r.query = s.query /\ r.closed = (s.closed \/ close)
  BY DEF ReleaseStmt, StatementTypes
<1>3. r.open = (s.open /\ ~((s.closed \/ close) /\ s.active - k = 0))
  BY DEF ReleaseStmt, StatementTypes
<1>4. r \in StatementTypes
  BY <1>1 DEF ReleaseStmt, StatementTypes
<1> QED BY <1>2, <1>3, <1>4

\* Release of a statement, as k of its users leave.
LEMMA ReleaseStep ==
  ASSUME ICall, NEW m \in DOMAIN statements, NEW k \in {0, 1}, k <= statements[m].active, NEW close \in BOOLEAN,
         statements' = [statements EXCEPT ![m] = ReleaseStmt(@, k, close)]
  PROVE  /\ statements' \in Seq(StatementTypes) /\ DOMAIN statements' = DOMAIN statements /\ StatementsGrow
         /\ Len(statements') = Len(statements)
         /\ \A n \in DOMAIN statements \ {m} : statements'[n] = statements[n]
         /\ statements'[m].query = statements[m].query
         /\ Cardinality(Users(m)') = Cardinality(Users(m)) - k /\ (Located(m)' \/ close \/ (Located(m) => Located(m)'))
               => StatementAt(m)'
<1>1. statements \in Seq(StatementTypes) /\ statements[m] \in StatementTypes /\ Len(statements) \in Nat
  BY StatementsTyped
<1> DEFINE r == ReleaseStmt(statements[m], k, close)
<1>2. /\ r \in StatementTypes /\ r.query = statements[m].query /\ r.active = statements[m].active - k
      /\ r.closed <=> statements[m].closed \/ close
      /\ r.open <=> statements[m].open /\ ~(r.closed /\ r.active = 0)
  BY <1>1, ReleasedFields
<1>3. statements' = [statements EXCEPT ![m] = r]
  OBVIOUS
<1> HIDE DEF r
<1>4. /\ statements' \in Seq(StatementTypes) /\ DOMAIN statements' = DOMAIN statements /\ statements'[m] = r
      /\ \A n \in DOMAIN statements \ {m} : statements'[n] = statements[n]
      /\ Len(statements') = Len(statements)
  BY <1>1, <1>2, <1>3
<1>5. StatementsGrow
  <2>1. \A n \in DOMAIN statements : statements'[n].query = statements[n].query
    BY <1>2, <1>4
  <2> QED BY <2>1, <1>1, <1>4 DEF StatementsGrow
<1>6. ASSUME Cardinality(Users(m)') = Cardinality(Users(m)) - k, Located(m)' \/ close \/ (Located(m) => Located(m)')
      PROVE  StatementAt(m)'
  <2>1. StatementAt(m)
    BY DEF ICall
  <2>2. statements[m].active \in Nat /\ statements[m].closed \in BOOLEAN /\ statements[m].open \in BOOLEAN
    BY <1>1, StatementFields
  <2>3. statements'[m].active = Cardinality(Users(m)')
    BY <1>2, <1>4, <1>6, <2>1 DEF StatementAt
  <2>4. ~r.open => r.closed /\ r.active = 0
    BY <1>2, <2>1, <2>2 DEF StatementAt
  <2>5. r.closed /\ r.active = 0 => ~r.open
    BY <1>2
  <2>6. ~r.closed => Located(m)'
    BY <1>2, <1>6, <2>1 DEF StatementAt
  <2> QED BY <1>4, <2>3, <2>4, <2>5, <2>6 DEF StatementAt
<1> QED BY <1>2, <1>4, <1>5, <1>6

\* A user of a statement is counted.
LEMMA UsedIsActive ==
  ASSUME ICall, NEW i \in Queriers, NEW n \in DOMAIN statements, Using(i, n)
  PROVE  statements[n].active \in Nat /\ 1 <= statements[n].active /\ statements[n].open
<1>1. StatementAt(n) /\ i \in Users(n)
  BY DEF ICall, Users
<1>2. IsFiniteSet(Users(n)) /\ Cardinality(Users(n)) \in Nat
  BY UsersFinite
<1>3. Cardinality(Users(n)) # 0
  BY <1>1, <1>2, FS_EmptySet
<1> QED BY <1>1, <1>2, <1>3 DEF StatementAt

LEMMA EvictKeeps ==
  ASSUME ICall, NEW i \in Queriers, EvictStatement(i)
  PROVE  ICall'
<1> DEFINE c == Doing(i)
<1>0. PICK m : m = querier[i].out
  OBVIOUS
<1>1. /\ QuerierAt(i) /\ HasAt(i) /\ DOMAIN querier[i] = Fields /\ DOMAIN querier = Queriers
      /\ querier[i].todo # << >> /\ querier[i].pc = "evict" /\ c \in CallsMade /\ c.fn = "sql.send"
      /\ querier[i].from = c.target
  BY DoingFacts, ConnectedTo DEF ICall, QuerierAt, EvictStatement, At, Connected
<1>2. /\ UNCHANGED <<clock, interCache, clients, prepared, callFaults>>
      /\ statements' = [statements EXCEPT ![m] = ReleaseStmt(@, 0, TRUE)]
      /\ querier' = [querier EXCEPT ![i].pc = "run", ![i].out = 0]
  BY <1>0 DEF EvictStatement
<1>3. m \in DOMAIN statements /\ 0 <= statements[m].active /\ querier[i].stmt \in DOMAIN statements /\ m # 0
  <2>1. statements \in Seq(StatementTypes) /\ Len(statements) \in Nat
    BY StatementsTyped
  <2>2. m \in 1 .. Len(statements)
    BY <1>0, <1>1, <2>1 DEF QuerierAt, HasAt
  <2>3. statements[m] \in StatementTypes
    BY <2>1, <2>2
  <2>4. statements[m].active \in Nat
    BY <2>3, StatementFields
  <2> QED BY <2>1, <2>2, <2>4, <1>1 DEF HasAt, WithStatement
<1>4. /\ DOMAIN querier' = Queriers /\ \A j \in Queriers \ {i} : querier'[j] = querier[j]
      /\ DOMAIN querier'[i] = Fields /\ querier'[i].todo = querier[i].todo /\ querier'[i].time = querier[i].time
      /\ querier'[i].intra = querier[i].intra /\ querier'[i].got = querier[i].got
      /\ querier'[i].out = 0 /\ querier'[i].stmt = querier[i].stmt
      /\ querier'[i].pc = "run" /\ querier'[i].from = c.target /\ Doing(i)' = c
  BY <1>1, <1>2 DEF Fields, Doing
<1> HIDE DEF c
<1>5. \A j \in Queriers : \A n : Using(j, n)' <=> Using(j, n)
  <2>1. \A j \in Queriers \ {i} : \A n : Using(j, n)' <=> Using(j, n)
    BY <1>4 DEF Using, Doing
  <2>2. \A n : Using(i, n)' <=> Using(i, n)
    BY <1>1, <1>4 DEF Using, c
  <2> QED BY <2>1, <2>2
<1>6. Users(m)' = Users(m) /\ Cardinality(Users(m)) \in Nat
  BY <1>5, UsersFinite DEF Users
<1>7. Cardinality(Users(m)') = Cardinality(Users(m)) - 0
  BY <1>6
<1>8. /\ statements' \in Seq(StatementTypes) /\ DOMAIN statements' = DOMAIN statements /\ StatementsGrow
      /\ Len(statements') = Len(statements)
      /\ \A n \in DOMAIN statements \ {m} : statements'[n] = statements[n]
      /\ StatementAt(m)'
  BY <1>2, <1>3, <1>7, ReleaseStep
<1>9. \A n \in DOMAIN statements \ {m} : Located(n) => Located(n)'
  BY <1>0, <1>1, <1>2, <1>4 DEF Located
<1>10. \A n \in DOMAIN statements \ {m} : StatementAt(n)'
  BY <1>5, <1>8, <1>9, StatementKept
<1>11. QuerierAt(i)'
  BY <1>1, <1>2, <1>4, <1>8 DEF QuerierAt, Steps
<1>12. HasAt(i)'
  <2>1. statements'[querier[i].stmt].query = statements[querier[i].stmt].query
    BY <1>3, <1>8 DEF StatementsGrow
  <2> QED BY <1>1, <1>3, <1>4, <1>8, <2>1 DEF HasAt, WithStatement, c
<1>13. prepared' \in [Databases -> Seq(DOMAIN statements')] /\ \A d \in Databases : Len(prepared'[d]) <= MaxPrepared
  BY <1>2, <1>8 DEF ICall, CallTypeOK
<1>14. callFaults' \in 0 .. CallFaults
  BY <1>2 DEF ICall, CallTypeOK
<1> QED BY <1>2, <1>4, <1>8, <1>10, <1>11, <1>12, <1>13, <1>14, StatementStep

\* The user of a statement releases it and goes elsewhere.
LEMMA ReleaseKeeps ==
  ASSUME ICall, NEW i \in Queriers, NEW n, n = querier[i].stmt, Using(i, n), querier[i].out = 0,
         n \in DOMAIN statements, NEW close \in BOOLEAN,
         statements' = [statements EXCEPT ![n] = ReleaseStmt(@, 1, close)],
         querier[i].pc = "add" => close,
         DOMAIN querier' = Queriers, \A j \in Queriers \ {i} : querier'[j] = querier[j],
         DOMAIN querier'[i] = Fields, querier'[i].todo = querier[i].todo, querier'[i].time = querier[i].time,
         querier'[i].intra = querier[i].intra, querier'[i].got = querier[i].got,
         querier'[i].out = 0, querier'[i].stmt = n,
         \/ querier'[i].pc = "statement" /\ querier'[i].from = Doing(i).target
         \/ querier'[i].pc = "store" /\ AskedBy(Doing(i), querier'[i].answer)
               /\ querier'[i].answer.at >= querier[i].time,
         clock' = clock, interCache' = interCache, clients' = clients, prepared' = prepared,
         callFaults' \in 0 .. CallFaults
  PROVE  ICall'
<1>1. /\ QuerierAt(i) /\ querier[i].todo # << >> /\ querier[i].pc \in {"add", "evict", "run"}
      /\ Doing(i).fn = "sql.send" /\ Doing(i)' = Doing(i)
  BY DEF ICall, QuerierAt, Using, Doing
<1>2. statements[n].active \in Nat /\ 1 <= statements[n].active
  BY UsedIsActive
<1>3. \A j \in Queriers \ {i} : \A m : Using(j, m)' <=> Using(j, m)
  BY DEF Using, Doing
<1>4. \A m : ~Using(i, m)'
  BY DEF Using
<1>5. \A m : Using(i, m) <=> m = n
  BY DEF Using
<1>6. Cardinality(Users(n)') = Cardinality(Users(n)) - 1
  <2>1. Users(n)' = Users(n) \ {i} /\ i \in Users(n)
    BY <1>3, <1>4 DEF Users
  <2> QED BY <2>1, UsersFinite, OneLess
<1>7. \A m : Located(m) => Located(m)' \/ (querier[i].pc = "add" /\ m = n) \/ m = 0
  BY DEF Located
<1>8. n # 0 /\ \A m \in DOMAIN statements : m # 0
  BY StatementsTyped
<1>9. /\ statements' \in Seq(StatementTypes) /\ DOMAIN statements' = DOMAIN statements /\ StatementsGrow
      /\ Len(statements') = Len(statements)
      /\ \A m \in DOMAIN statements \ {n} : statements'[m] = statements[m]
      /\ StatementAt(n)'
  <2>1. Located(n)' \/ close \/ (Located(n) => Located(n)')
    BY <1>7, <1>8
  <2> QED BY <1>2, <1>6, <2>1, ReleaseStep
<1>10. \A m \in DOMAIN statements \ {n} : StatementAt(m)'
  BY <1>3, <1>4, <1>5, <1>7, <1>8, <1>9, StatementKept
<1>11. QuerierAt(i)'
  BY <1>1, <1>9 DEF QuerierAt, Steps, Connected, AskedBy
<1>12. HasAt(i)'
  BY DEF HasAt, WithStatement
<1>13. prepared' \in [Databases -> Seq(DOMAIN statements')] /\ \A d \in Databases : Len(prepared'[d]) <= MaxPrepared
  BY <1>9 DEF ICall, CallTypeOK
<1> QED BY <1>9, <1>10, <1>11, <1>12, <1>13, StatementStep

\* The cache of a connection takes a statement in, and gives up its oldest
\* when it is full.
LEMMA TakenIn ==
  ASSUME NEW S, NEW p \in Seq(S), NEW n \in S, Len(p) <= MaxPrepared
  PROVE  LET full == Len(p) = MaxPrepared
             q == Append(IF full THEN Tail(p) ELSE p, n)
         IN  /\ q \in Seq(S) /\ Len(q) <= MaxPrepared /\ n \in ToSet(q)
             /\ full => p # << >> /\ Head(p) \in S
             /\ \A m \in ToSet(p) : m \in ToSet(q) \/ (full /\ m = Head(p))
<1> DEFINE full == Len(p) = MaxPrepared
           r == IF full THEN Tail(p) ELSE p
           q == Append(r, n)
<1>1. MaxPrepared \in Nat /\ MaxPrepared >= 1 /\ Len(p) \in Nat
  BY CallAssumption
<1>2. full => p # << >> /\ Head(p) \in S /\ Head(p) = p[1]
  BY <1>1
<1>3. /\ r \in Seq(S) /\ Len(r) \in Nat /\ Len(r) + 1 <= MaxPrepared
      /\ full => Len(r) = Len(p) - 1 /\ \A x \in 1 .. Len(r) : r[x] = p[x + 1]
      /\ ~full => r = p
  <2>1. CASE full
    BY <2>1, <1>1, <1>2
  <2>2. CASE ~full
    BY <2>2, <1>1
  <2> QED BY <2>1, <2>2
<1> HIDE DEF r
<1>4. /\ q \in Seq(S) /\ Len(q) = Len(r) + 1 /\ q[Len(r) + 1] = n
      /\ \A x \in 1 .. Len(r) : q[x] = r[x]
  BY <1>3
<1> HIDE DEF q
<1>5. n \in ToSet(q)
  BY <1>3, <1>4 DEF ToSet
<1>6. ASSUME NEW x \in DOMAIN p
      PROVE  p[x] \in ToSet(q) \/ (full /\ p[x] = Head(p))
  <2>1. CASE full /\ x = 1
    BY <2>1, <1>2
  <2>2. CASE full /\ x # 1
    <3>1. x - 1 \in 1 .. Len(r) /\ (x - 1) + 1 = x /\ x - 1 \in DOMAIN q
      BY <2>2, <1>1, <1>3, <1>4
    <3>2. q[x - 1] = p[x]
      BY <3>1, <2>2, <1>3, <1>4
    <3> QED BY <3>1, <3>2 DEF ToSet
  <2>3. CASE ~full
    BY <2>3, <1>1, <1>3, <1>4 DEF ToSet
  <2> QED BY <2>1, <2>2, <2>3
<1>7. \A m \in ToSet(p) : m \in ToSet(q) \/ (full /\ m = Head(p))
  BY <1>6 DEF ToSet
<1> QED BY <1>2, <1>3, <1>4, <1>5, <1>7 DEF q, r

LEMMA AddKeeps ==
  ASSUME ICall, NEW i \in Queriers, AddStatement(i)
  PROVE  ICall'
<1> DEFINE c == Doing(i)
<1>0. PICK n, f, p : n = querier[i].stmt /\ f = querier[i].from /\ p = prepared[f]
  OBVIOUS
<1>1. /\ QuerierAt(i) /\ HasAt(i) /\ DOMAIN querier[i] = Fields /\ DOMAIN querier = Queriers
      /\ querier[i].todo # << >> /\ querier[i].pc = "add" /\ c \in CallsMade /\ c.fn = "sql.send"
      /\ f = c.target /\ f \in Databases /\ querier[i].out = 0
      /\ n \in DOMAIN statements /\ statements[n].query = c.query
  BY <1>0, DoingFacts, ConnectedTo DEF ICall, QuerierAt, AddStatement, At, Connected, HasAt, WithStatement
<1>2. UNCHANGED <<clock, interCache, clients, callFaults>>
  BY DEF AddStatement
<1>3. /\ statements \in Seq(StatementTypes) /\ Len(statements) \in Nat /\ callFaults' \in 0 .. CallFaults
      /\ prepared \in [Databases -> Seq(DOMAIN statements)] /\ \A d \in Databases : Len(prepared[d]) <= MaxPrepared
  <2>1. /\ prepared \in [Databases -> Seq(DOMAIN statements)] /\ \A d \in Databases : Len(prepared[d]) <= MaxPrepared
        /\ callFaults' \in 0 .. CallFaults
    BY <1>2 DEF ICall, CallTypeOK
  <2> QED BY <2>1, StatementsTyped
<1>4. CASE StatementOf(i) # {}
  <2>1. /\ statements' = [statements EXCEPT ![n] = ReleaseStmt(@, 1, TRUE)] /\ prepared' = prepared
        /\ querier' = [querier EXCEPT ![i].pc = "statement"]
    BY <1>0, <1>4 DEF AddStatement, GoTo
  <2>2. /\ DOMAIN querier' = Queriers /\ \A j \in Queriers \ {i} : querier'[j] = querier[j]
        /\ DOMAIN querier'[i] = Fields /\ querier'[i].todo = querier[i].todo /\ querier'[i].time = querier[i].time
        /\ querier'[i].intra = querier[i].intra /\ querier'[i].got = querier[i].got
        /\ querier'[i].out = 0 /\ querier'[i].stmt = n
        /\ querier'[i].pc = "statement" /\ querier'[i].from = c.target
    BY <1>0, <1>1, <2>1 DEF Fields
  <2>3. Using(i, n)
    BY <1>0, <1>1 DEF Using
  <2> QED BY <1>0, <1>1, <1>2, <1>3, <2>1, <2>2, <2>3, ReleaseKeeps
<1>5. CASE StatementOf(i) = {}
  <2>0. PICK full \in BOOLEAN : full <=> Len(p) = MaxPrepared
    OBVIOUS
  <2>1. PICK q, o, pc : /\ q = Append(IF full THEN Tail(p) ELSE p, n) /\ o = (IF full THEN Head(p) ELSE 0)
                        /\ pc = (IF full THEN "evict" ELSE "run")
    OBVIOUS
  <2>2. /\ prepared' = [prepared EXCEPT ![f] = q] /\ statements' = statements
        /\ querier' = [querier EXCEPT ![i].pc = pc, ![i].out = o]
    BY <1>0, <1>5, <2>0, <2>1 DEF AddStatement
  <2>3. p \in Seq(DOMAIN statements) /\ Len(p) <= MaxPrepared
    BY <1>0, <1>1, <1>3
  <2>4. /\ q \in Seq(DOMAIN statements) /\ Len(q) <= MaxPrepared /\ n \in ToSet(q)
        /\ full => Head(p) \in DOMAIN statements
        /\ \A m \in ToSet(p) : m \in ToSet(q) \/ (full /\ m = Head(p))
    BY <1>1, <2>0, <2>1, <2>3, TakenIn
  <2>5. /\ DOMAIN querier' = Queriers /\ \A j \in Queriers \ {i} : querier'[j] = querier[j]
        /\ DOMAIN querier'[i] = Fields /\ querier'[i].todo = querier[i].todo /\ querier'[i].time = querier[i].time
        /\ querier'[i].intra = querier[i].intra /\ querier'[i].got = querier[i].got
        /\ querier'[i].out = o /\ querier'[i].stmt = n
        /\ querier'[i].pc = pc /\ querier'[i].from = c.target /\ Doing(i)' = c
    BY <1>0, <1>1, <2>2 DEF Fields, Doing
  <2>6. /\ prepared' \in [Databases -> Seq(DOMAIN statements')] /\ \A d \in Databases : Len(prepared'[d]) <= MaxPrepared
        /\ prepared'[f] = q /\ \A d \in Databases \ {f} : prepared'[d] = prepared[d]
    BY <1>1, <1>3, <2>2, <2>4
  <2>7. /\ o \in 0 .. Len(statements) /\ pc \in {"evict", "run"} /\ (pc = "evict" <=> o # 0)
        /\ full => o = Head(p)
    BY <1>3, <2>1, <2>4
  <2> HIDE DEF c
  <2>8. QuerierAt(i)' /\ HasAt(i)'
    <3>1. QuerierAt(i)'
      BY <1>0, <1>1, <1>2, <1>3, <2>2, <2>5, <2>7 DEF QuerierAt, Steps
    <3>2. HasAt(i)'
      BY <1>1, <2>2, <2>5, <2>7 DEF HasAt, WithStatement
    <3> QED BY <3>1, <3>2
  <2>9. \A j \in Queriers : \A m : Using(j, m)' <=> Using(j, m)
    <3>1. \A j \in Queriers \ {i} : \A m : Using(j, m)' <=> Using(j, m)
      BY <2>5 DEF Using, Doing
    <3>2. \A m : Using(i, m)' <=> Using(i, m)
      BY <1>0, <1>1, <2>5, <2>7 DEF Using, c
    <3> QED BY <3>1, <3>2
  <2>10. ASSUME NEW m \in DOMAIN statements, Located(m) PROVE Located(m)'
    <3>0. m # 0
      BY <1>3
    <3>1. CASE \E d \in Databases : m \in ToSet(prepared[d])
      <4>1. PICK d \in Databases : m \in ToSet(prepared[d])
        BY <3>1
      <4>2. CASE d # f
        BY <4>1, <4>2, <2>6 DEF Located
      <4>3. CASE d = f
        <5>1. m \in ToSet(q) \/ o = m
          BY <1>0, <4>1, <4>3, <2>4, <2>7
        <5> QED BY <5>1, <1>1, <2>5, <2>6 DEF Located
      <4> QED BY <4>2, <4>3
    <3>2. CASE \E j \in Queriers \ {i} : querier[j].out = m \/ (querier[j].pc = "add" /\ querier[j].stmt = m)
      BY <3>2, <2>5 DEF Located
    <3>3. CASE m = n
      BY <3>3, <1>1, <2>4, <2>6 DEF Located
    <3> QED BY <2>10, <1>0, <1>1, <3>0, <3>1, <3>2, <3>3 DEF Located
  <2>11. \A m \in DOMAIN statements' : StatementAt(m)'
    BY <2>2, <2>9, <2>10, StatementKept
  <2>12. StatementsGrow
    BY <1>3, <2>2 DEF StatementsGrow
  <2> QED BY <1>2, <1>3, <2>2, <2>5, <2>6, <2>7, <2>8, <2>11, <2>12, StatementStep
<1> QED BY <1>4, <1>5

-----------------------------------------------------------------------------
(* The service answers or fails, and the theorems.                         *)

LEMMA AnswerKeeps ==
  ASSUME ICall, NEW i \in Queriers, At(i, "run"), NEW failed \in BOOLEAN,
         querier' = [querier EXCEPT ![i].pc = "store",
                                    ![i].answer = Answer(Doing(i), querier[i].from, clock, failed)],
         statements' = Released(i), callFaults' \in 0 .. CallFaults,
         UNCHANGED <<clock, interCache, clients, prepared>>
  PROVE  ICall'
<1> DEFINE c == Doing(i)
<1>0. PICK n : n = querier[i].stmt
  OBVIOUS
<1>1. /\ QuerierAt(i) /\ HasAt(i) /\ DOMAIN querier[i] = Fields /\ DOMAIN querier = Queriers /\ clock \in Nat
      /\ querier[i].todo # << >> /\ querier[i].pc = "run" /\ c \in CallsMade /\ querier[i].time \in 0 .. clock
      /\ querier[i].out = 0 /\ (c.fn # "vault.send" => querier[i].from = c.target)
  <2>1. QuerierAt(i) /\ HasAt(i) /\ DOMAIN querier = Queriers /\ clock \in Nat /\ querier[i].pc = "run"
    BY DEF ICall, CallTypeOK, At
  <2>2. /\ DOMAIN querier[i] = Fields /\ querier[i].todo # << >> /\ querier[i].time \in 0 .. clock
        /\ (c.fn # "vault.send" => querier[i].from = c.target)
    BY <2>1 DEF QuerierAt, Connected
  <2>3. c \in CallsMade
    BY <2>1, <2>2, DoingFacts
  <2>4. querier[i].out = 0
    BY <2>1 DEF HasAt
  <2> QED BY <2>1, <2>2, <2>3, <2>4
<1>2. /\ DOMAIN querier' = Queriers /\ \A j \in Queriers \ {i} : querier'[j] = querier[j]
      /\ DOMAIN querier'[i] = Fields /\ querier'[i].todo = querier[i].todo /\ querier'[i].time = querier[i].time
      /\ querier'[i].intra = querier[i].intra /\ querier'[i].got = querier[i].got
      /\ querier'[i].out = 0 /\ querier'[i].stmt = n
      /\ querier'[i].pc = "store" /\ querier'[i].answer = Answer(c, querier[i].from, clock, failed)
  BY <1>0, <1>1 DEF Fields
<1>3. AskedBy(c, querier'[i].answer) /\ querier'[i].answer.at >= querier[i].time
  BY <1>1, <1>2 DEF AskedBy, Answer
<1>4. CASE c.fn = "sql.send"
  <2>1. statements' = [statements EXCEPT ![n] = ReleaseStmt(@, 1, FALSE)]
    BY <1>0, <1>4 DEF Released
  <2>2. Using(i, n) /\ n \in DOMAIN statements
    BY <1>0, <1>1, <1>4 DEF Using, HasAt, WithStatement
  <2> QED BY <1>0, <1>1, <1>2, <1>3, <2>1, <2>2, ReleaseKeeps
<1>5. CASE c.fn # "sql.send"
  <2>1. statements' = statements
    BY <1>5 DEF Released
  <2> QED BY <1>0, <1>1, <1>2, <1>3, <1>5, <2>1, CallGoesOn, SharedKept
<1> QED BY <1>4, <1>5

LEMMA RunKeeps ==
  ASSUME ICall, NEW i \in Queriers, RunCall(i) \/ RunFails(i)
  PROVE  ICall'
<1>1. CASE RunCall(i)
  BY <1>1, AnswerKeeps DEF RunCall, ICall, CallTypeOK
<1>2. CASE RunFails(i)
  <2>1. callFaults' \in 0 .. CallFaults
    BY <1>2, CallAssumption DEF RunFails, Fault, ICall, CallTypeOK
  <2> QED BY <1>2, <2>1, AnswerKeeps DEF RunFails, Fault
<1> QED BY <1>1, <1>2

LEMMA CallInitially == CallInit => ICall
<1> SUFFICES ASSUME CallInit PROVE ICall
  OBVIOUS
<1>1. PICK s \in CallScripts : querier = [i \in Queriers |-> NewQuerier(s[i])]
  BY DEF CallInit
<1>2. /\ clock = 0 /\ interCache = << >> /\ clients = << >> /\ statements = << >> /\ callFaults = CallFaults
      /\ prepared = [d \in Databases |-> << >>]
  BY DEF CallInit
<1>3. DOMAIN statements = {} /\ DOMAIN interCache = {} /\ DOMAIN clients = {} /\ Len(statements) = 0
  BY <1>2
<1>4. ASSUME NEW i \in Queriers
      PROVE  /\ DOMAIN querier[i] = Fields /\ querier[i].pc = "idle" /\ querier[i].time = 0
             /\ querier[i].todo = s[i] /\ s[i] \in Seq(CallsMade) /\ querier[i].intra = << >>
             /\ querier[i].stmt = 0 /\ querier[i].out = 0 /\ querier[i].got = {}
  <2>1. querier[i] = NewQuerier(s[i])
    BY <1>1
  <2> QED BY <2>1, CallAssumption DEF NewQuerier, Fields
<1>5. CallTypeOK
  <2>1. callFaults \in 0 .. CallFaults /\ clock \in 0 .. MaxClock
    BY <1>2, CallAssumption
  <2>2. \A d \in Databases : prepared[d] = << >> /\ Len(prepared[d]) <= MaxPrepared
    BY <1>2, CallAssumption
  <2>3. << >> \in Seq(DOMAIN statements)
    OBVIOUS
  <2>4. prepared \in [Databases -> Seq(DOMAIN statements)]
    BY <2>3, <1>2
  <2>5. statements \in Seq(StatementTypes)
    BY <1>2
  <2> QED BY <1>3, <1>4, <2>1, <2>2, <2>4, <2>5 DEF CallTypeOK, StatementTypes
<1>6. ASSUME NEW i \in Queriers
      PROVE  QuerierAt(i) /\ OwnAt(i) /\ HasAt(i)
  <2>1. QuerierAt(i)
    BY <1>2, <1>3, <1>4 DEF QuerierAt, Steps, Connected
  <2>2. DOMAIN querier[i].intra = {}
    BY <1>4
  <2> QED BY <1>4, <2>1, <2>2 DEF OwnAt, HasAt, WithStatement
<1>7. AnswersBelong
  BY <1>4 DEF AnswersBelong
<1> QED BY <1>1, <1>3, <1>5, <1>6, <1>7 DEF ICall, SharedInv, ClientInv

LEMMA CallStepKeeps == ICall /\ [CallNext]_callVars => ICall'
<1> SUFFICES ASSUME ICall, [CallNext]_callVars PROVE ICall'
  OBVIOUS
<1>1. ASSUME NEW i \in Queriers, QueryStep(i) PROVE ICall'
  BY <1>1, BeginKeeps, CheckKeeps, GetKeeps, OpenKeeps, OpenFailsKeeps, LookupKeeps, AcquireKeeps, PrepareKeeps,
     PrepareFailsKeeps, AddKeeps, EvictKeeps, RunKeeps, InsertKeeps, EndKeeps DEF QueryStep
<1>2. CASE UNCHANGED callVars
  <2>1. UNCHANGED <<clock, interCache, clients, prepared, statements, querier, callFaults>>
    BY <1>2 DEF callVars
  <2>2. CallTypeOK' /\ ClientInv' /\ AnswersBelong' /\ SharedInv' /\ DOMAIN querier' = Queriers
    BY <2>1 DEF ICall, CallTypeOK, ClientInv, AnswersBelong, SharedInv, AskedBy, IsRaised
  <2>3. \A i \in Queriers : QuerierAt(i)' /\ OwnAt(i)' /\ HasAt(i)'
    BY <2>1 DEF ICall, QuerierAt, OwnAt, HasAt, WithStatement, Doing, AskedBy, IntraKey
  <2>4. \A n \in DOMAIN statements' : StatementAt(n)'
    BY <2>1 DEF ICall, StatementAt, Located, Users, Using, Doing
  <2> QED BY <2>2, <2>3, <2>4 DEF ICall
<1> QED BY <1>1, <1>2, DropKeeps, TickKeeps DEF CallNext

\* What the invariant says of errors: a call with the key of an entry agrees
\* with the call that stored it in whether errors are raised.
LEMMA NothingRaisedIsKept == ICall => RaisedNotCached
<1> SUFFICES ASSUME ICall, NEW k \in DOMAIN interCache, NEW c \in CallsMade,
                    interCache[k].answer.failed, Of(c).key = k, c.fn # "vault.send"
             PROVE  c.fn # "rego.eval" /\ ~Of(c).raises
  BY DEF RaisedNotCached
<1>1. PICK d \in CallsMade : k = Of(d).key /\ ~IsRaised(d, interCache[k].answer)
  BY DEF ICall, SharedInv
<1>2. ~Of(d).raises /\ d.fn # "rego.eval"
  BY <1>1 DEF IsRaised
<1>3. /\ c.fn \notin Mongo => d.fn = c.fn
      /\ c.fn \in Mongo => d.fn \in Mongo
      /\ c.fn \notin {"vault.send", "rego.eval"} => c.raise = d.raise
  BY <1>1, SameKey
<1>4. c.fn # "rego.eval"
  BY <1>2, <1>3 DEF Mongo
<1>5. c.raise = d.raise /\ (c.fn = "redis.query" <=> d.fn = "redis.query")
  BY <1>3, <1>4 DEF Mongo
<1>6. Of(c).raises = Of(d).raises
  BY <1>5, OfFacts
<1> QED BY <1>2, <1>4, <1>6

\* What it says of statements: a user is counted, so its statement is open,
\* and one that is open is where it can be found or is used.
LEMMA OpenWhileUsed == ICall => StatementsSafe
<1> SUFFICES ASSUME ICall PROVE StatementsSafe
  OBVIOUS
<1>1. ASSUME NEW i \in Queriers, At(i, "run"), Doing(i).fn = "sql.send"
      PROVE  statements[querier[i].stmt].open /\ statements[querier[i].stmt].query = Doing(i).query
  <2>1. querier[i].stmt \in DOMAIN statements /\ statements[querier[i].stmt].query = Doing(i).query
    BY <1>1 DEF ICall, HasAt, WithStatement, At
  <2>2. Using(i, querier[i].stmt)
    BY <1>1 DEF Using, At
  <2> QED BY <2>1, <2>2, UsedIsActive
<1>2. ASSUME NEW n \in DOMAIN statements, statements[n].open
      PROVE  \/ \E d \in Databases : n \in ToSet(prepared[d])
             \/ statements[n].active > 0 \/ \E i \in Queriers : querier[i].out = n
  <2>1. statements[n].active \in Nat
    BY StatementsTyped, StatementFields
  <2>2. StatementAt(n)
    BY DEF ICall
  <2>3. CASE statements[n].active = 0
    <3>1. Located(n)
      BY <1>2, <2>2, <2>3 DEF StatementAt
    <3>2. ASSUME NEW i \in Queriers, querier[i].pc = "add", querier[i].stmt = n PROVE FALSE
      <4>1. Using(i, n)
        BY <3>2 DEF Using, ICall, QuerierAt
      <4> QED BY <4>1, <2>3, UsedIsActive
    <3> QED BY <3>1, <3>2 DEF Located
  <2> QED BY <2>1, <2>3
<1> QED BY <1>1, <1>2 DEF StatementsSafe

\* However many evaluations call the built-in functions at the same time, with
\* any scripts, failures and evictions: a call returns an answer to itself, asked
\* in its query or not longer ago than it allows; no cache across queries keeps
\* an error that the call raises; and sql.send runs on a statement of its own
\* query that is open, while no statement is left open that nobody can close
\* (checkCaches, builtins.go:238; databaseConnection.Query, sqlsend.go:445).
THEOREM CallsAreSafe == CallSpec => []CallSafety
<1>1. CallInit => ICall
  BY CallInitially
<1>2. ICall /\ [CallNext]_callVars => ICall'
  BY CallStepKeeps
<1>3. ICall => CallSafety
  BY NothingRaisedIsKept, OpenWhileUsed DEF ICall, CallSafety
<1> QED BY <1>1, <1>2, <1>3, PTL DEF CallSpec

\* The shared state keeps its type, and no connection keeps more statements
\* than max_prepared_statements (sqlsend.go:205).
THEOREM CallTypes == CallSpec => []CallTypeOK
<1>1. CallInit => ICall
  BY CallInitially
<1>2. ICall /\ [CallNext]_callVars => ICall'
  BY CallStepKeeps
<1>3. ICall => CallTypeOK
  BY DEF ICall
<1> QED BY <1>1, <1>2, <1>3, PTL DEF CallSpec
=============================================================================
