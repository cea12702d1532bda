------------------------------ MODULE KeyManager ------------------------------
(* The external key manager (pkg/ekm): a hook that puts secrets of a vault    *)
(* into the configuration, at the start and whenever discovery brings another *)
(* one, and into the calls of http.send that policies make meanwhile.         *)
(*                                                                            *)
(* The secrets change, and the vault goes away and comes back, between any    *)
(* two reads: VaultContents[i] is what it holds at a time, nothing when it    *)
(* cannot be reached.  Documents are [t |-> "map", m], [t |-> "arr", e],      *)
(* [t |-> "str", s] with s a sequence of texts and of places for a secret,    *)
(* or another scalar.  A specification "path:field/section" is                *)
(* <<path, <<field, section>>>>; one that is malformed has another length.    *)
EXTENDS Integers, Sequences, SequencesExt, FiniteSets, TLC

CONSTANTS
    VaultContents,  \* what the vault holds, one version after the other
    EkmConfigs,     \* configurations: [ekm, addr, access, given, file, services, keys, send, doc]
    EkmEnv,         \* what of VAULT_ADDR and VAULT_TOKEN is set
    HTTPCalls,      \* calls of http.send: [object, url, params, headers]
    Callers         \* evaluations that may call at the same time

VARIABLES
    vaultAt,   \* the version the vault is at
    conf,      \* the configuration being worked on, and how far
    sender,    \* [patched, state]: the built-in function, and lState
    applied,   \* the overrides of the last configuration that got to http.send
    send       \* Callers -> the call each is in

ekmVars == <<vaultAt, conf, sender, applied, send>>
Vault == VaultContents[vaultAt]
-----------------------------------------------------------------------------
(* Reading secrets. *)
NoSecret == "(failed)"
\* Strings, and numbers as they are written.
LookupString(v) == IF v.t \in {"str", "num"} THEN v.v ELSE NoSecret
LookupKey(vault, spec) ==
    IF Len(spec) # 2 THEN NoSecret
    ELSE LET path == spec[1]
             f == spec[2]
             value == vault[path][f[1]]
         IN  CASE path \notin DOMAIN vault \/ Len(f) \notin 1 .. 2 -> NoSecret
               [] OTHER -> CASE f[1] \notin DOMAIN vault[path] -> NoSecret
                             [] OTHER -> CASE value.t = "map" /\ (Len(f) = 1 \/ f[Len(f)] \notin DOMAIN value.m) -> NoSecret
                                           [] value.t = "map" -> LookupString(value.m[f[2]])
                                           [] Len(f) # 1 -> NoSecret
                                           [] OTHER -> LookupString(value)

TextPiece(v) == [secret |-> FALSE, v |-> v]
SecretPiece(spec) == [secret |-> TRUE, v |-> spec]
Document(members) == [t |-> "map", m |-> members]
TextDoc(v) == [t |-> "str", s |-> <<TextPiece(v)>>]
-----------------------------------------------------------------------------
(* Overrides: names with dots, each with the specification of its secret.     *)
(* Go ranges over them in any order.                                          *)

\* convertOverrideToMap for one name.  Below a name that has a value already
\* nothing is put; a name on the way to others takes their place.
RECURSIVE PutName(_, _, _)
PutName(members, name, value) ==
    IF Len(name) = 1 THEN (Head(name) :> value) @@ members
    ELSE LET sub == IF Head(name) \in DOMAIN members THEN members[Head(name)] ELSE Document(<< >>)
         IN  IF sub.t # "map" THEN members
             ELSE (Head(name) :> Document(PutName(sub.m, Tail(name), value))) @@ members
PutOverride(members, name, secret) ==
    IF secret \in {NoSecret, ""} THEN members ELSE PutName(members, name, TextDoc(secret))
ConvertOverrides(vault, overrides, order) ==
    FoldLeft(LAMBDA acc, name : PutOverride(acc, name, LookupKey(vault, overrides[name])), << >>, order)

\* Values of the source go first, maps are merged.
RECURSIVE MergeValues(_, _)
MergeValues(dest, src) ==
    [k \in DOMAIN dest \cup DOMAIN src |->
        IF k \notin DOMAIN src THEN dest[k]
        ELSE IF k \notin DOMAIN dest \/ src[k].t # "map" THEN src[k]
        ELSE IF dest[k].t # "map" THEN src[k]
        ELSE Document(MergeValues(dest[k].m, src[k].m))]

BadDocument == [t |-> "bad"]
\* A section that is not there counts as an empty map; a list cannot be read.
Filter(vault, doc, overrides, order) ==
    IF overrides = << >> THEN doc
    ELSE IF doc.t \notin {"map", "none"} THEN BadDocument
    ELSE Document(MergeValues(IF doc.t = "map" THEN doc.m ELSE << >>, ConvertOverrides(vault, overrides, order)))
-----------------------------------------------------------------------------
(* Places for secrets, in services, keys and the plugins' configurations.     *)
BadPiece == [secret |-> FALSE, v |-> NoSecret]
ReplaceString(vault, s) ==
    [i \in DOMAIN s |-> IF s[i].secret THEN TextPiece(LookupKey(vault, s[i].v)) ELSE s[i]] \o << >>
RECURSIVE ReplaceLeaves(_, _)
ReplaceLeaves(vault, doc) ==
    CASE doc.t = "map" -> Document([k \in DOMAIN doc.m |-> ReplaceLeaves(vault, doc.m[k])])
      [] doc.t = "arr" -> [t |-> "arr", e |-> [i \in DOMAIN doc.e |-> ReplaceLeaves(vault, doc.e[i])] \o << >>]
      [] doc.t = "str" -> [t |-> "str", s |-> ReplaceString(vault, doc.s)]
      [] OTHER -> doc
\* All texts of a document, with where they are.
RECURSIVE Texts(_, _)
Texts(doc, at) ==
    CASE doc.t = "map" -> UNION {Texts(doc.m[k], Append(at, k)) : k \in DOMAIN doc.m}
      [] doc.t = "arr" -> UNION {Texts(doc.e[i], Append(at, ToString(i))) : i \in DOMAIN doc.e}
      [] doc.t = "str" -> {[at |-> at, s |-> doc.s]}
      [] OTHER -> {}
ReplaceRaw(vault, doc) ==
    LET new == ReplaceLeaves(vault, doc)
    IN  IF doc.t # "map" \/ \E x \in Texts(new, << >>) : BadPiece \in ToSet(x.s) THEN BadDocument ELSE new
-----------------------------------------------------------------------------
(* onConfig, up to the next time it reads from the vault.                     *)
ConfGoes(c) == conf' = c /\ UNCHANGED <<vaultAt, sender, applied, send>>
\* At the start the program exits with the error; discovery keeps what it had.
ConfFails == ConfGoes([phase |-> IF conf.up THEN "failed" ELSE "exited", up |-> conf.up])
ConfIn(phase) == conf.phase = phase
NoConf == [phase |-> "idle", up |-> FALSE]
OrdersOf(S) == SetToSeqs(S)

\* A configuration without the hook's section is left as it is, and so is
\* what http.send does.
OnConfig(c) ==
    /\ conf.phase \in {"idle", "unused", "done", "failed"}
    /\ ConfGoes(IF c.ekm = "none" THEN [phase |-> "unused", up |-> TRUE]
                ELSE [phase |-> "connect", up |-> conf.up, given |-> c, since |-> vaultAt,
                      doc |-> c.doc, todo |-> DOMAIN c.doc.plugins])
\* unmarshalAndValidate; a section with no vault is a nil pointer by then.
ValidConfig(c) == c.ekm = "vault" /\ c.addr # "malformed" /\ (c.addr # "" \/ "addr" \in EkmEnv)
Reachable == Vault # << >>
Login(c) ==
    CASE c.access \in {"kubernetes", "approle"} -> c.given /\ Reachable
      [] c.access = "token" -> c.given \/ c.file = "ok" \/ (c.file = "none" /\ "token" \in EkmEnv)
      [] OTHER -> FALSE
Connect ==
    /\ ConfIn("connect")
    /\ CASE conf.given.ekm = "empty" -> ConfGoes([conf EXCEPT !.phase = "panicked"])
         [] ValidConfig(conf.given) /\ Login(conf.given) -> ConfGoes([conf EXCEPT !.phase = "services"])
         [] OTHER -> ConfFails

\* One section of the configuration takes the outcome, or the hook fails.
Takes(section, doc, next) ==
    IF doc = BadDocument THEN ConfFails ELSE ConfGoes([conf EXCEPT !.phase = next, !.doc[section] = doc])
OverrideServices ==
    /\ ConfIn("services")
    /\ \E order \in OrdersOf(DOMAIN conf.given.services) :
           Takes("services", Filter(Vault, conf.doc.services, conf.given.services, order), "keys")
OverrideKeys ==
    /\ ConfIn("keys")
    /\ \E order \in OrdersOf(DOMAIN conf.given.keys) :
           Takes("keys", Filter(Vault, conf.doc.keys, conf.given.keys, order), "httpsend")

\* Faulty variant: hosts are told apart, schemes are not.
ServerOfHost(url) == [scheme |-> "https", host |-> url.host]
ServerOf(url) == [scheme |-> url.scheme, host |-> url.host]
\* Of two entries for a server the one that comes later in Go's order stays.
SendTable(entries, order) ==
    FoldLeft(LAMBDA acc, i : (ServerOf(entries[i].url) :> entries[i].set) @@ acc, << >>, order)
Readable(entries) == {i \in DOMAIN entries : entries[i].url.kind = "url"}
NoState == [entries |-> << >>, is |-> FALSE]
\* registerHTTPSend replaces the function only before the first state;
\* resetHTTPSend puts the original back and keeps the state.
RegisterHTTPSend(table) == sender' = [patched |-> sender.patched \/ ~sender.state.is, state |-> [entries |-> table, is |-> TRUE]]
ResetHTTPSend == sender' = [sender EXCEPT !.patched = FALSE]
\* Every call that is under way may see what is applied now.
AlsoAllowed(table) ==
    send' = [c \in Callers |-> IF send[c].phase = "called" THEN [send[c] EXCEPT !.allowed = @ \cup {table}] ELSE send[c]]
ConfigureHTTPSend ==
    /\ ConfIn("httpsend")
    /\ conf' = [conf EXCEPT !.phase = "replace services"]
    /\ IF conf.given.send = << >> THEN ResetHTTPSend /\ applied' = << >>
       ELSE \E order \in OrdersOf(Readable(conf.given.send)) :
                RegisterHTTPSend(SendTable(conf.given.send, order)) /\ applied' = SendTable(conf.given.send, order)
    /\ AlsoAllowed(applied')
    /\ UNCHANGED vaultAt

\* replaceV2: the sections that are there, then the plugins in any order.  A
\* secret that cannot be had fails all, after http.send has changed.
Replaced(doc) == IF doc.t = "none" THEN doc ELSE ReplaceRaw(Vault, doc)
ReplaceServices == ConfIn("replace services") /\ Takes("services", Replaced(conf.doc.services), "replace keys")
ReplaceKeys == ConfIn("replace keys") /\ Takes("keys", Replaced(conf.doc.keys), "replace plugins")
ReplacePlugins ==
    /\ ConfIn("replace plugins")
    /\ \E p \in conf.todo :
           LET new == ReplaceRaw(Vault, conf.doc.plugins[p])
           IN  IF new = BadDocument THEN ConfFails ELSE ConfGoes([conf EXCEPT !.doc.plugins[p] = new, !.todo = @ \ {p}])
ReplaceEnds == ConfIn("replace plugins") /\ conf.todo = {} /\ ConfGoes([conf EXCEPT !.phase = "done", !.up = TRUE])
-----------------------------------------------------------------------------
(* http.send.  A call takes the built-in function, and later, in the patched  *)
(* one, the state.                                                            *)
NoSend == [phase |-> "none"]
CallGoes(c, s) == send' = [send EXCEPT ![c] = s] /\ UNCHANGED <<vaultAt, conf, sender, applied>>
CallHTTPSend(c, call) ==
    /\ conf.up /\ send[c].phase \in {"none", "sent", "panicked"}
    /\ CallGoes(c, [phase |-> IF sender.patched THEN "called" ELSE "sent", call |-> call, sent |-> call,
                 since |-> vaultAt, allowed |-> IF sender.patched THEN {applied} ELSE {}, todo |-> {}])
Original(c) == CallGoes(c, [send[c] EXCEPT !.phase = "sent"])
Unmatched(c) == CallGoes(c, [send[c] EXCEPT !.phase = "sent", !.allowed = {}])
\* The patched function, up to the overrides it has found for the server.
GetState(c) ==
    /\ send[c].phase = "called"
    /\ LET call == send[c].call
           table == sender.state.entries
           set == table[ServerOf(call.url)]
       IN  CASE ~call.object \/ call.url.kind \in {"none", "malformed"} -> Unmatched(c)
             [] call.url.kind = "other" -> CallGoes(c, [send[c] EXCEPT !.phase = "panicked"])
             [] OTHER -> IF ServerOf(call.url) \notin DOMAIN table THEN Unmatched(c)
                         ELSE CallGoes(c, [send[c] EXCEPT !.phase = "inserting", !.allowed = {table},
                                            !.todo = {<<"params", k>> : k \in DOMAIN set.params}
                                                     \cup {<<"headers", k>> : k \in DOMAIN set.headers}] @@ [set |-> set])

\* Scheme and bearer of a header, the first with a default.
HeaderFromParts(vault, parts) ==
    LET of(k) == IF k \in DOMAIN parts THEN LookupKey(vault, parts[k]) ELSE NoSecret
        scheme == IF of("scheme") \in {NoSecret, ""} THEN "Bearer" ELSE of("scheme")
    IN  IF of("bearer") \in {NoSecret, ""} THEN << >> ELSE <<scheme, of("bearer")>>
\* The value to put in, or nothing.
ParamValue(vault, p) ==
    LET v == IF p.kind = "one" THEN LookupKey(vault, p.spec) ELSE NoSecret
    IN  IF v = NoSecret THEN << >> ELSE <<v>>
HeaderValue(vault, h) == IF h.kind = "parts" THEN HeaderFromParts(vault, h.parts) ELSE ParamValue(vault, h)
\* Headers that are no object stay as they are.
InsertHeader(call, name, value) ==
    IF call.headers.t = "other" THEN call ELSE [call EXCEPT !.headers = [t |-> "obj", m |-> (name :> value) @@ call.headers.m]]
InsertParam(call, name, value) == [call EXCEPT !.params = (name :> value) @@ @]
InsertOverride(c, item) ==
    /\ send[c].phase = "inserting" /\ item \in send[c].todo
    /\ LET name == item[2]
           value == IF item[1] = "params" THEN ParamValue(Vault, send[c].set.params[name]) ELSE HeaderValue(Vault, send[c].set.headers[name])
           with == IF item[1] = "params" THEN InsertParam(send[c].sent, name, value) ELSE InsertHeader(send[c].sent, name, value)
       IN  CallGoes(c, [send[c] EXCEPT !.todo = @ \ {item}, !.sent = IF value = << >> THEN @ ELSE with])
SendRequest(c) == send[c].phase = "inserting" /\ send[c].todo = {} /\ Original(c)
-----------------------------------------------------------------------------
VaultChanges ==
    /\ vaultAt < Len(VaultContents) /\ vaultAt' = vaultAt + 1
    /\ UNCHANGED <<conf, sender, applied, send>>

EkmInit ==
    /\ vaultAt = 1 /\ conf = NoConf /\ applied = << >> /\ send = [c \in Callers |-> NoSend]
    /\ sender = [patched |-> FALSE, state |-> NoState]
ConfNext ==
    \/ \E c \in EkmConfigs : OnConfig(c)
    \/ Connect \/ OverrideServices \/ OverrideKeys \/ ConfigureHTTPSend
    \/ ReplaceServices \/ ReplaceKeys \/ ReplacePlugins \/ ReplaceEnds
CallerNext(c) ==
    \/ \E call \in HTTPCalls : CallHTTPSend(c, call)
    \/ GetState(c) \/ SendRequest(c)
    \/ send[c].phase = "inserting" /\ \E item \in send[c].todo : InsertOverride(c, item)
EkmNext ==
    /\ conf.phase # "panicked"
    /\ ConfNext \/ (\E c \in Callers : CallerNext(c)) \/ VaultChanges
EkmSpec == EkmInit /\ [][EkmNext]_ekmVars
-----------------------------------------------------------------------------
\* The versions of the vault that were there while something ran.
VersionsSince(n) == {VaultContents[i] : i \in n .. vaultAt}

\* A configuration that the hook has passed has no place for a secret left.  A
\* text in it is one of those given, with secrets the vault had while the hook
\* ran, or an override; an override whose secret was always there is in place
\* in whatever order Go went through them, unless one for a part of its name
\* took its place.
SectionResolved(given, overrides, doc) ==
    LET seen == VersionsSince(conf.since)
        steady(name) == \A v \in seen : LookupKey(v, overrides[name]) \notin {NoSecret, ""}
        shorter(name) == {n \in DOMAIN overrides : Len(n) < Len(name) /\ IsPrefix(n, name)}
        secret(name) == {<<TextPiece(LookupKey(v, overrides[name]))>> : v \in seen}
        filled(s) == {ReplaceString(v, s) : v \in seen}
    IN  /\ \A x \in Texts(doc, << >>) :
              \/ x.at \in DOMAIN overrides /\ x.s \in secret(x.at)
              \/ \E y \in Texts(given, << >>) : y.at = x.at /\ x.s \in filled(y.s)
        /\ \A name \in DOMAIN overrides :
              steady(name) /\ shorter(name) = {} =>
                  \E x \in Texts(doc, << >>) : x.at = name /\ x.s \in secret(name)
ConfigResolved ==
    ConfIn("done") =>
        /\ SectionResolved(conf.given.doc.services, conf.given.services, conf.doc.services)
        /\ SectionResolved(conf.given.doc.keys, conf.given.keys, conf.doc.keys)
        /\ \A p \in DOMAIN conf.doc.plugins : SectionResolved(conf.given.doc.plugins[p], << >>, conf.doc.plugins[p])

\* A request carries, beside what the policy gave, only secrets that a
\* configuration applied during the call has for exactly its server; what is
\* not overridden goes out as it was given.  The state a call is about to take
\* is one that was applied since it began.
SecretsForServer(s, table) ==
    LET to == {u \in DOMAIN table : u.scheme = s.call.url.scheme /\ u.host = s.call.url.host}
        seen == VersionsSince(s.since)
        params == UNION {{<<k, ParamValue(v, table[u].params[k])>> : k \in DOMAIN table[u].params} : u \in to, v \in seen}
        headers == UNION {{<<k, HeaderValue(v, table[u].headers[k])>> : k \in DOMAIN table[u].headers} : u \in to, v \in seen}
    IN  /\ DOMAIN s.call.params \subseteq DOMAIN s.sent.params
        /\ \A k \in DOMAIN s.sent.params :
              (k \in DOMAIN s.call.params /\ s.sent.params[k] = s.call.params[k]) \/ <<k, s.sent.params[k]>> \in params
        /\ s.call.headers.t = "other" => s.sent.headers = s.call.headers
        /\ DOMAIN s.call.headers.m \subseteq DOMAIN s.sent.headers.m
        /\ \A k \in DOMAIN s.sent.headers.m :
              (k \in DOMAIN s.call.headers.m /\ s.sent.headers.m[k] = s.call.headers.m[k]) \/ <<k, s.sent.headers.m[k]>> \in headers
SecretsStayWithTheirServer ==
    \A c \in Callers :
      /\ send[c].phase = "called" => sender.state.entries \in send[c].allowed
      /\ send[c].phase = "sent" =>
        \/ send[c].sent = send[c].call
        \/ /\ send[c].call.url.kind = "url"
           /\ \E table \in send[c].allowed : SecretsForServer(send[c], table)
\* The patched function never runs without a state to look at.
PatchedHasState == sender.patched => sender.state.is
EkmSafety == ConfigResolved /\ SecretsStayWithTheirServer /\ PatchedHasState
=============================================================================
