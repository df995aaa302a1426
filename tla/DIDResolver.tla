------------------------------ MODULE DIDResolver ------------------------------
(***************************************************************************)
(* The DID resolvers of src/vdr/didservice/resolvers.go: resolve with its  *)
(* controller check (resolve and resolveControllers call each other with a *)
(* depth counter), and ServiceResolver.ResolveEx, which follows service    *)
(* references from document to document.                                  *)
(*                                                                         *)
(* The DID store is fixed within a behaviour; each step is one call of     *)
(* Resolver.Resolve or ServiceResolver.Resolve, whose result is recorded.  *)
(* A document is a record of its controllers (in order), whether it has a  *)
(* capabilityInvocation key, and its service of the queried type: none, a  *)
(* plain endpoint, or a reference to the same service type on another DID. *)
(* The two recursive algorithms are RECURSIVE operators and are checked   *)
(* against reference definitions written as functions over the depth.     *)
(***************************************************************************)
EXTENDS Naturals, Sequences, FiniteSets, Functions

CONSTANTS
    DIDs,                   \* the DIDs of the store
    Docs,                   \* candidate documents
    NotFound,               \* the store has no document for the DID
    MaxControllerDepth,     \* maxControllerDepth, line 41
    MaxServiceDepth,        \* maxDepth given to ServiceResolver.Resolve
    None

ASSUME ResolverAssumption ==
    /\ MaxControllerDepth \in Nat /\ MaxServiceDepth \in Nat
    /\ Docs \subseteq [controllers: Seq(DIDs), capInv: BOOLEAN,
                       service: {None, "endpoint"} \cup DIDs]
    /\ NotFound \notin Docs

VARIABLES
    store,      \* the documents of the DID store
    resolved,   \* result of the last Resolve per DID
    served      \* result of the last ServiceResolver.Resolve per DID

vars == <<store, resolved, served>>

-----------------------------------------------------------------------------
(* Results.                                                                *)

Ok(d) == [ok |-> TRUE, did |-> d, err |-> None]
Err(e) == [ok |-> FALSE, did |-> None, err |-> e]

\* didservice.IsDeactivated: no controllers and no capabilityInvocation.
IsDeactivated(doc) == Len(doc.controllers) = 0 /\ ~doc.capInv

\* The store's Resolve without metadata: a deactivated document is
\* ErrDeactivated.
StoreResolve(d) ==
    IF store[d] = NotFound THEN Err("notFound")
    ELSE IF IsDeactivated(store[d]) THEN Err("deactivated")
    ELSE Ok(d)

-----------------------------------------------------------------------------
(* resolve and resolveControllers (lines 52-130).                          *)

RECURSIVE ResolveAt(_, _), ControllersAt(_, _), ResolveRefs(_, _, _, _),
          ResolveRefsOpaque(_, _, _, _)

\* resolveControllers without the line-71 check, for the mutant below.
ResolveAtNoEmptyCheck(d, depth) ==
    LET r == StoreResolve(d) IN
    IF depth >= MaxControllerDepth THEN Err("tooDeep")
    ELSE IF ~r.ok THEN r
    ELSE IF Len(store[d].controllers) = 0 THEN r
    ELSE LET c == ControllersAt(d, depth + 1) IN
         IF ~c.ok THEN Err(c.err) ELSE r

\* resolve (lines 52-77), with metadata nil: a document with controllers
\* needs one that is active, found through resolveControllers at depth+1.
ResolveAt(d, depth) ==
    LET r == StoreResolve(d) IN
    IF depth >= MaxControllerDepth THEN Err("tooDeep")
    ELSE IF ~r.ok THEN r
    ELSE IF Len(store[d].controllers) = 0 THEN r
    ELSE LET c == ControllersAt(d, depth + 1) IN
         IF ~c.ok THEN Err(c.err)
         ELSE IF c.leaves = {} THEN Err("noActiveController")
         ELSE r

\* Mutant: line 115 wraps the error with %v, so errors.Is no longer sees
\* its kind.
ResolveRefsOpaque(refs, i, depth, leaves) ==
    IF i > Len(refs) THEN [ok |-> TRUE, leaves |-> leaves, err |-> None]
    ELSE LET r == ResolveAt(refs[i], depth) IN
         IF r.err \in {"deactivated", "noActiveController"}
         THEN ResolveRefsOpaque(refs, i + 1, depth, leaves)
         ELSE IF ~r.ok THEN [ok |-> FALSE, leaves |-> {}, err |-> "unable to resolve controller ref"]
         ELSE ResolveRefsOpaque(refs, i + 1, depth, leaves \cup {refs[i]})

\* Lines 106-118: resolve the references in order; a deactivated or
\* controller-less one is skipped, any other error ends the loop.
ResolveRefs(refs, i, depth, leaves) ==
    IF i > Len(refs) THEN [ok |-> TRUE, leaves |-> leaves, err |-> None]
    ELSE LET r == ResolveAt(refs[i], depth) IN
         IF r.err \in {"deactivated", "noActiveController"}
         THEN ResolveRefs(refs, i + 1, depth, leaves)
         ELSE IF ~r.ok THEN [ok |-> FALSE, leaves |-> {}, err |-> r.err]
         ELSE ResolveRefs(refs, i + 1, depth, leaves \cup {refs[i]})

\* resolveControllers (lines 84-130): the document is its own leaf when it
\* has no controllers or lists itself, and has a capabilityInvocation key;
\* other controllers are resolved; deactivated leaves are filtered out.
ControllersAt(d, depth) ==
    LET doc == store[d]
        self == IF doc.capInv /\ (Len(doc.controllers) = 0 \/ d \in Range(doc.controllers))
                THEN {d} ELSE {}
        r == ResolveRefs(SelectSeq(doc.controllers, LAMBDA x : x # d), 1, depth, self)
    IN  [r EXCEPT !.leaves = {l \in @ : ~IsDeactivated(store[l])}]

-----------------------------------------------------------------------------
(* ServiceResolver.ResolveEx (lines 289-343).                              *)

RECURSIVE ResolveEx(_, _), ResolveExOffByOne(_, _)

\* Mutant: the depth check of line 294 off by one.
ResolveExOffByOne(d, depth) ==
    LET r == ResolveAt(d, 0) IN
    IF depth > MaxServiceDepth THEN Err("referenceTooDeep")
    ELSE IF ~r.ok THEN r
    ELSE IF store[d].service = None THEN Err("serviceNotFound")
    ELSE IF store[d].service = "endpoint" THEN Ok(d)
    ELSE ResolveExOffByOne(store[d].service, depth + 1)

\* The service of the queried type on d's document (resolved with the
\* controller check): a plain endpoint is the answer, a reference is
\* followed one level deeper.  The document cache of the call only saves
\* lookups, as the store does not change during it.
ResolveEx(d, depth) ==
    LET r == ResolveAt(d, 0) IN
    IF depth >= MaxServiceDepth THEN Err("referenceTooDeep")
    ELSE IF ~r.ok THEN r
    ELSE IF store[d].service = None THEN Err("serviceNotFound")
    ELSE IF store[d].service = "endpoint" THEN Ok(d)
    ELSE ResolveEx(store[d].service, depth + 1)

-----------------------------------------------------------------------------
(* Actions.                                                                *)

Init ==
    /\ store \in [DIDs -> Docs \cup {NotFound}]
    /\ resolved = [d \in DIDs |-> None]
    /\ served = [d \in DIDs |-> None]

\* Resolver.Resolve (line 48).
Resolve(d) ==
    /\ resolved' = [resolved EXCEPT ![d] = ResolveAt(d, 0)]
    /\ UNCHANGED <<store, served>>

\* ServiceResolver.Resolve (line 289) for the service of d.
ResolveService(d) ==
    /\ served' = [served EXCEPT ![d] = ResolveEx(d, 0)]
    /\ UNCHANGED <<store, resolved>>

Next == \E d \in DIDs : Resolve(d) \/ ResolveService(d)

Spec == Init /\ [][Next]_vars

-----------------------------------------------------------------------------
(* Reference definitions and properties.                                   *)

Result == [ok: {TRUE}, did: DIDs, err: {None}]
    \cup [ok: {FALSE}, did: {None},
          err: {"notFound", "deactivated", "tooDeep", "noActiveController",
                "referenceTooDeep", "serviceNotFound"}]

TypeOK ==
    /\ store \in [DIDs -> Docs \cup {NotFound}]
    /\ resolved \in [DIDs -> Result \cup {None}]
    /\ served \in [DIDs -> Result \cup {None}]

\* Active[k]: the DIDs whose document is found, not deactivated, and is a
\* root (no controllers), its own controller with a capabilityInvocation
\* key, or controlled by a DID of Active[k-1]: a chain of k levels.
Active[k \in 0..MaxControllerDepth] ==
    IF k = 0 THEN {}
    ELSE {d \in DIDs :
            /\ StoreResolve(d).ok
            /\ LET doc == store[d] IN
               \/ Len(doc.controllers) = 0
               \/ doc.capInv /\ d \in Range(doc.controllers)
               \/ \E c \in Range(doc.controllers) \ {d} : c \in Active[k - 1]}

\* Resolve only accepts a document that an active controller chain of at
\* most maxControllerDepth levels reaches, although resolve and
\* resolveControllers skip deactivated controllers and stop at the depth
\* bound.
ResolveSound ==
    \A d \in DIDs : resolved[d] # None /\ resolved[d].ok => d \in Active[MaxControllerDepth]

\* Hop[k]: the DID reached after k service references from d, or None.
Hop(d) ==
    LET h[k \in 0..MaxServiceDepth] ==
            IF k = 0 THEN d
            ELSE IF h[k - 1] = None THEN None
            ELSE LET prev == h[k - 1] IN
                 IF ResolveAt(prev, 0).ok /\ store[prev].service \in DIDs
                 THEN store[prev].service ELSE None
    IN  h

\* ServiceResolver.Resolve ends on the first document of the reference
\* chain whose service is a plain endpoint, when that document is reached
\* within maxDepth documents and every document before it resolves.
ServiceMatchesReferenceChain ==
    \A d \in DIDs :
        served[d] # None =>
            (served[d].ok <=>
                \E k \in 0..(MaxServiceDepth - 1) :
                    /\ Hop(d)[k] # None
                    /\ ResolveAt(Hop(d)[k], 0).ok
                    /\ store[Hop(d)[k]].service = "endpoint"
                    /\ served[d].did = Hop(d)[k])

=============================================================================
