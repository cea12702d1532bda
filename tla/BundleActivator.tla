-------------------------- MODULE BundleActivator --------------------------
(***************************************************************************)
(* Activation of bundles in the store (pkg/plugins/bundle/activator.go).   *)
(* One call activates several snapshot and delta bundles inside a write    *)
(* transaction, which its caller (OPA's bundle plugin, external) commits   *)
(* when the call succeeds and aborts when it fails.                        *)
(*                                                                         *)
(* The store's document is the set of its leaves, <<path, value>>; objects *)
(* without leaves, which erasing and MakeDir leave behind, are not told    *)
(* apart from absent ones.  A module is [id, package, rule, needs].        *)
(***************************************************************************)
EXTENDS Naturals, Sequences, FiniteSets, SequencesExt

CONSTANTS
    BNames,       \* names of bundles
    BundleSets,   \* what one call activates: functions from names to bundles
    ClientLeaves, \* leaves that clients write
    ClientModules,\* modules that clients put
    NameStarts,   \* pairs of names where one string starts the other
    NoBundle

\* A bundle as the reader of OPA hands it on: patches and packages lie in its
\* roots (data of raw files may not: DoDFS).
BPaths == Seq(STRING)
WellFormed(b) ==
    /\ b.type \in {"snapshot", "delta"} /\ b.roots \subseteq BPaths
    /\ b.patches \in Seq(ToSet(b.patches))
    /\ \A p \in ToSet(b.patches) : p.path \in BPaths /\ \E r \in b.roots : IsPrefix(r, p.path)
    /\ \A m \in b.modules : m.package \in BPaths /\ \E r \in b.roots : IsPrefix(r, m.package)
    /\ \A f \in b.files : f.dir \in BPaths /\ \A l \in f.leaves : l[1] \in BPaths
    /\ NoBundle # [roots |-> b.roots, wasm |-> b.wasm, etag |-> b.etag]

ASSUME BundleAssumption ==
    /\ \A bs \in BundleSets : /\ IsFiniteSet(DOMAIN bs) /\ DOMAIN bs \subseteq BNames
                              /\ \A n \in DOMAIN bs : WellFormed(bs[n])
    /\ \A l \in ClientLeaves : l = <<l[1], l[2]>> /\ l[1] \in BPaths
    /\ \A m \in ClientModules : m.package \in BPaths

VARIABLES
    leaves,    \* the store's leaves
    modules,   \* the store's policies
    manifests, \* /system/bundles: name -> [roots, wasm, etag] or NoBundle
    shipped,   \* history: what each active snapshot and its deltas put there
    ownedAll   \* history: has a bundle had the root ""?

bvars == <<leaves, modules, manifests, shipped, ownedAll>>

----------------------------------------------------------------------------
RootContains(root, path) == IsPrefix(root, path)           \* RootPathsContain
Overlap(a, b) == IsPrefix(a, b) \/ IsPrefix(b, a)      \* RootPathsOverlap
UnderAny(roots, path) == \E r \in roots : RootContains(r, path)
LeavesUnder(ls, roots) == {l \in ls : UnderAny(roots, l[1])}

\* strings.HasPrefix(root, path): the last name of path may end early.
StringPrefix(path, root) ==
    /\ Len(path) <= Len(root)
    /\ \A i \in 1 .. Len(path) :
         \/ path[i] = root[i]
         \/ i = Len(path) /\ <<path[i], root[i]>> \in NameStarts

Store(ls, mods, manifest) == [leaves |-> ls, modules |-> mods, manifests |-> manifest]
Stored(st) == [ok |-> TRUE, st |-> st]
Rejected == [ok |-> FALSE]

\* Faulty variant: bundles activated together are not compared.
OverlapWithActiveOnly(st, bs) ==
    \E n \in DOMAIN bs : \E m \in BNames \ DOMAIN bs :
        /\ st.manifests[m] # NoBundle
        /\ \E r \in bs[n].roots, q \in st.manifests[m].roots : Overlap(r, q)

\* A new bundle's roots against those of every other bundle, where the new
\* roots of the bundles being activated replace their old ones.
HasRootsOverlap(st, bs) ==
    LET active == {n \in BNames : st.manifests[n] # NoBundle}
        roots(n) == IF n \in DOMAIN bs THEN bs[n].roots ELSE st.manifests[n].roots
    IN \E n \in DOMAIN bs : \E m \in (active \cup DOMAIN bs) \ {n} :
         \E r \in roots(n), q \in roots(m) : Overlap(r, q)

\* store.Write(AddOp): what is at or below path goes; a leaf above it is in
\* the way (MakeDir fails).
AddOp(ls, path, val) ==
    IF \E l \in ls : l[1] # path /\ IsPrefix(l[1], path) THEN Rejected
    ELSE Stored({l \in ls : ~IsPrefix(path, l[1])} \cup {<<path, val>>})

PatchLeaves(ls, p) ==
    LET there == \E l \in ls : IsPrefix(p.path, l[1]) IN
    CASE p.op = "upsert" -> AddOp(ls, p.path, p.val)
      [] p.op = "replace" /\ there -> AddOp(ls, p.path, p.val)
      [] p.op = "remove" /\ there -> Stored({l \in ls : ~IsPrefix(p.path, l[1])})
      [] OTHER -> Rejected

\* The patches of a bundle in their order, the first k of them; one that fails
\* fails them all.
PatchedUpTo(ls, patches) ==
    LET after[k \in 0 .. Len(patches)] ==
            IF k = 0 THEN Stored(ls)
            ELSE IF after[k - 1].ok THEN PatchLeaves(after[k - 1].st, patches[k]) ELSE Rejected
    IN after
ApplyPatches(ls, patches) == PatchedUpTo(ls, patches)[Len(patches)]

EqualWasmResolversAndRoots(a, b) == a.roots = b.roots /\ a.wasm = b.wasm

\* External: ast.CheckPathConflicts: no document at the path of a rule.
PathConflict(mods, ls) ==
    \E m \in mods, l \in ls : IsPrefix(m.rule, l[1])

ManifestOf(b) == [roots |-> b.roots, wasm |-> b.wasm, etag |-> b.etag]
WriteManifests(st, bs) ==
    Store(st.leaves, st.modules,
          [n \in BNames |-> IF n \in DOMAIN bs THEN ManifestOf(bs[n]) ELSE st.manifests[n]])

EraseData(ls, roots) ==
    {l \in ls : \A r \in roots : r # <<>> => ~IsPrefix(r, l[1])}

ErasePolicies(mods, roots) == {m \in mods : ~UnderAny(roots, m.package)}

EraseBundles(st, names, roots) ==
    Store(EraseData(st.leaves, roots), ErasePolicies(st.modules, roots),
          [n \in BNames |-> IF n \in names THEN NoBundle ELSE st.manifests[n]])

\* A raw bundle's files: every name on the way to a leaf lies in a root or
\* starts one.  The directory of a file that holds no object is walked twice.
DoDFS(file, roots) ==
    roots = {<<>>} \/
    \A l \in file.leaves :
        LET path == file.dir \o (IF l[1] = <<>> THEN file.dir ELSE l[1])
            sub(k) == SubSeq(path, 1, k)
        IN \E k \in Len(file.dir) + 1 .. Len(path) :
             /\ UnderAny(roots, sub(k))
             /\ \A j \in Len(file.dir) + 1 .. k - 1 :
                  \E r \in roots : StringPrefix(sub(j), r)

\* External: compilation fails when a rule a module needs is missing.
CompileModules(mods) == \A m \in mods : m.needs \subseteq {u.rule : u \in mods}

BundleLeaves(b) ==
    UNION {{<<f.dir \o l[1], l[2]>> : l \in f.leaves} : f \in b.files}

\* Faulty variant: leaves outside the roots are written too.
WriteBundleDataUnfiltered(ls, roots, new) ==
    LET rest == {l \in ls : ~UnderAny(roots, l[1])}
    IN IF \E r \in roots, l \in rest : IsPrefix(l[1], r) THEN Rejected
       ELSE Stored(rest \cup new)

\* Only what lies at or below a root is written, in either format; the root
\* itself replaces everything.
WriteBundleData(ls, roots, new) ==
    LET there == {r \in roots : r = <<>> \/ \E l \in new : IsPrefix(r, l[1])}
        rest == {l \in ls : ~UnderAny(there, l[1])}
    IN IF \E r \in there, l \in rest : IsPrefix(l[1], r) THEN Rejected
       ELSE Stored(rest \cup LeavesUnder(new, there))

\* What one bundle does to the store: the patches of a delta, the data and the
\* modules of a snapshot.
WithBundle(st, r, mods) ==
    IF r.ok THEN Stored(Store(r.st, st.modules \cup mods, st.manifests)) ELSE Rejected
WriteBundle(st, b) ==
    IF b.type = "delta" THEN WithBundle(st, ApplyPatches(st.leaves, b.patches), {})
    ELSE WithBundle(st, WriteBundleData(st.leaves, b.roots, BundleLeaves(b)), b.modules)

\* The loops over the bundles of one type, after k names of an order of all
\* names: that of a Go map is any.
NameOrders(bs) == Bijection(1 .. Cardinality(DOMAIN bs), DOMAIN bs)
WrittenUpTo(st, bs, order) ==
    LET after[k \in 0 .. Len(order)] ==
            IF k = 0 THEN Stored(st)
            ELSE IF after[k - 1].ok /\ order[k] \in DOMAIN bs THEN WriteBundle(after[k - 1].st, bs[order[k]])
            ELSE after[k - 1]
    IN after
WriteDataAndModules(st, bs, order) == WrittenUpTo(st, bs, order)[Len(order)]

\* The manifest in the store, if any, must agree on roots and resolvers; the
\* compiler has none of the store's modules yet.
WithManifests(r, bs) == IF r.ok THEN Stored(WriteManifests(r.st, bs)) ELSE Rejected
ActivateDeltaBundles(st, bs, order) ==
    IF \E n \in DOMAIN bs : /\ st.manifests[n] # NoBundle
                            /\ ~EqualWasmResolversAndRoots(bs[n], st.manifests[n])
    THEN Rejected
    ELSE WithManifests(WriteDataAndModules(st, bs, order), bs)

RestrictTo(bs, type) ==
    [n \in {m \in DOMAIN bs : bs[m].type = type} |-> bs[n]]

\* Faulty variant: the roots a bundle gives up are not erased.
OldRootsForgotten(st, snaps) == UNION {snaps[n].roots : n \in DOMAIN snaps}

\* What a snapshot erases: the roots it had and the roots it has.
RootsToErase(st, snaps) ==
    UNION {snaps[n].roots \cup
           (IF st.manifests[n] = NoBundle THEN {} ELSE st.manifests[n].roots)
             : n \in DOMAIN snaps}

\* The snapshots, in a store from which their roots were erased.
Conclude(r, mods, snaps) ==
    IF ~CompileModules(mods) \/ ~r.ok THEN Rejected
    ELSE IF PathConflict(mods, r.st.leaves) THEN Rejected
    ELSE WithManifests(r, snaps)
ActivateSnapshots(erased, snaps, order) ==
    Conclude(WriteDataAndModules(erased, snaps, order),
             erased.modules \cup UNION {snaps[n].modules : n \in DOMAIN snaps}, snaps)
FilesInRoots(b) == b.raw => \A f \in b.files : DoDFS(f, b.roots)
AfterDeltas(r, old, snaps, order) ==
    IF ~r.ok \/ \E n \in DOMAIN snaps : ~FilesInRoots(snaps[n]) THEN Rejected
    ELSE ActivateSnapshots(EraseBundles(r.st, DOMAIN snaps, RootsToErase(old, snaps)), snaps, order)
ActivateBundles(st, bs, order) ==
    LET deltas == RestrictTo(bs, "delta")
    IN  IF HasRootsOverlap(st, bs) THEN Rejected
        ELSE AfterDeltas(ActivateDeltaBundles(st, deltas, order), st, RestrictTo(bs, "snapshot"), order)

----------------------------------------------------------------------------
BundleInit ==
    /\ leaves = {} /\ modules = {}
    /\ manifests = [n \in BNames |-> NoBundle]
    /\ shipped = [n \in BNames |-> [based |-> FALSE, leaves |-> {}, modules |-> {}]]
    /\ ownedAll = FALSE

\* History: a snapshot's own leaves inside its roots, then its patches.
Ship(n, b) ==
    IF b.type = "snapshot"
    THEN [based |-> TRUE, leaves |-> LeavesUnder(BundleLeaves(b), b.roots),
          modules |-> b.modules]
    ELSE IF shipped[n].based
    THEN [based |-> TRUE, leaves |-> ApplyPatches(shipped[n].leaves, b.patches).st,
          modules |-> shipped[n].modules]
    ELSE shipped[n]

\* The plugin activates downloaded bundles and commits, or aborts.
Activated(r, bs) ==
    /\ r.ok
    /\ leaves' = r.st.leaves /\ modules' = r.st.modules
    /\ manifests' = r.st.manifests
    /\ shipped' = [n \in BNames |-> IF n \in DOMAIN bs THEN Ship(n, bs[n])
                                    ELSE shipped[n]]
    /\ ownedAll' = (ownedAll \/ \E n \in DOMAIN bs : <<>> \in bs[n].roots)
Activate(bs) ==
    \E order \in NameOrders(bs) :
        Activated(ActivateBundles(Store(leaves, modules, manifests), bs, order), bs)

ActiveRoots == UNION {manifests[n].roots : n \in {m \in BNames : manifests[m] # NoBundle}}

\* A client writes data or a policy no active bundle owns (checkPathScope).
Accepted(r) == r.ok /\ leaves' = r.st
ClientData(l) ==
    /\ \A r \in ActiveRoots : ~Overlap(r, l[1])
    /\ Accepted(AddOp(leaves, l[1], l[2]))
    /\ UNCHANGED <<modules, manifests, shipped, ownedAll>>

ClientPolicy(m) ==
    /\ \A r \in ActiveRoots : ~Overlap(r, m.package)
    /\ CompileModules(modules \cup {m}) /\ ~PathConflict({m}, leaves)
    /\ modules' = modules \cup {m}
    /\ UNCHANGED <<leaves, manifests, shipped, ownedAll>>

BundleNext ==
    \/ \E bs \in BundleSets : Activate(bs)
    \/ \E l \in ClientLeaves : ClientData(l)
    \/ \E m \in ClientModules : ClientPolicy(m)

BundleSpec == BundleInit /\ [][BundleNext]_bvars

----------------------------------------------------------------------------
\* Two active bundles never own the same path, although several bundles are
\* activated at once and may exchange roots.
RootsDisjoint ==
    \A n, m \in BNames : n # m /\ manifests[n] # NoBundle /\ manifests[m] # NoBundle =>
        \A r \in manifests[n].roots, q \in manifests[m].roots : ~Overlap(r, q)

\* Below the roots of an active bundle the store holds exactly what its last
\* snapshot and the deltas since put there, nothing of an earlier revision,
\* of a client, or of a bundle that owned the root before; outside of them it
\* holds what clients put there, and nothing of a bundle that left, unless a
\* bundle had the root "" before: its data is not erased when it narrows.
BundleDataExact ==
    \A n \in BNames : manifests[n] # NoBundle /\ shipped[n].based =>
        /\ LeavesUnder(leaves, manifests[n].roots) = shipped[n].leaves
        /\ {m \in modules : UnderAny(manifests[n].roots, m.package)} = shipped[n].modules
        /\ \A l \in leaves : \/ UnderAny(ActiveRoots, l[1]) \/ ownedAll
                              \/ l \in ClientLeaves
        /\ \A m \in modules : UnderAny(ActiveRoots, m.package) \/ m \in ClientModules

\* Both together: every path has one owner, and holds what that owner put there.
BundleSafety == RootsDisjoint /\ BundleDataExact

\* Activation leaves alone what lies outside the old and the new roots of the
\* bundles it activates.
OthersUntouched ==
    [][bvars' # bvars => \A bs \in BundleSets : Activate(bs) =>
         LET roots == (UNION {bs[n].roots : n \in DOMAIN bs})
                      \cup (UNION {manifests[n].roots : n \in {m \in DOMAIN bs : manifests[m] # NoBundle}})
         IN /\ {l \in leaves : ~UnderAny(roots, l[1])}
                 = {l \in leaves' : ~UnderAny(roots, l[1])}
            /\ {m \in modules : ~UnderAny(roots, m.package)}
                 = {m \in modules' : ~UnderAny(roots, m.package)}]_bvars
=============================================================================
