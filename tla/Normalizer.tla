------------------------------ MODULE Normalizer ------------------------------
(****************************************************************************)
(* Paths: the normaliser of phase 1 (internal/discovery/normalizer.go) and  *)
(* the expansion of managed operations in phase 2                           *)
(* (internal/managed/expander.go), which must meet in phase 3.              *)
(*                                                                          *)
(* A path is the sequence of its segments behind the leading slash, so that *)
(* a trailing slash is a last segment Empty.  Query strings, which          *)
(* Normalize cuts off, are left out.                                        *)
(****************************************************************************)
EXTENDS Integers, Sequences

CONSTANTS
    Segment,      \* segments of paths
    Empty,        \* the empty segment
    Id,           \* "{id}"
    Placeholder,  \* segments of a target with a match of apimPlaceholderRe
    Rewritten,    \* Rewritten[s]: segment s with "{id}" for each match
    Dynamic,      \* segments that match a builtin or a user pattern
    Excluded      \* segments that match an exclude pattern

ASSUME NormalizerAssumption ==
    /\ {Empty, Id} \cup Placeholder \cup Dynamic \cup Excluded \subseteq Segment
    /\ Empty # Id /\ Empty \notin Placeholder \cup Dynamic /\ Id \notin Dynamic
    /\ Rewritten \in [Placeholder -> Segment \ {Empty}]

Path == Seq(Segment)

\* normalizeSegment: an exclude pattern wins.
NormalizeSegment(s) == IF s \in Dynamic \ Excluded THEN Id ELSE s

\* A single trailing slash is cut off, but "/" stays.
Trimmed(p) ==
    IF Len(p) > 1 /\ p[Len(p)] = Empty THEN SubSeq(p, 1, Len(p) - 1) ELSE p

\* Empty segments stay; "" and "/" have nothing to normalise.
Normalize(p) ==
    [i \in 1 .. Len(Trimmed(p)) |->
        IF p[i] = Empty THEN Empty ELSE NormalizeSegment(p[i])]

----------------------------------------------------------------------------
(* Managed operations. *)

\* Pass A: {name} becomes {id}, also inside of a segment.
PassA(p) == [i \in 1 .. Len(p) |-> IF p[i] \in Placeholder THEN Rewritten[p[i]] ELSE p[i]]

\* The placeholders of a target are whole segments.
IsWhole(target) ==
    \A i \in 1 .. Len(target) : target[i] \in Placeholder => Rewritten[target[i]] = Id

\* normalizePath: pass A, then the normaliser of phase 1.
NormalizePath(p) == Normalize(PassA(p))

\* composeGatewayPath; an absent version is Empty.
ComposeGatewayPath(context, version, target) ==
    (IF version = Empty \/ (context # <<>> /\ context[Len(context)] = version)
     THEN context
     ELSE Append(context, version)) \o target

\* The endpoint's path is taken as it is.
BackendPath_Untrimmed(endpoint, target) == endpoint \o target

\* p up to its last segment that is not Empty.
TrimRight(p) ==
    SubSeq(p, 1, CHOOSE n \in 0 .. Len(p) :
                    /\ n = 0 \/ p[n] # Empty
                    /\ \A i \in n + 1 .. Len(p) : p[i] = Empty)

\* backendBasePath: the path of the endpoint URL without trailing slashes.
BackendPath(endpoint, target) == TrimRight(endpoint) \o target

\* Expand: the two paths of an operation.
ManagedPaths(op) ==
    {NormalizePath(ComposeGatewayPath(op.context, op.version, op.target)),
     NormalizePath(BackendPath(op.endpoint, op.target))}

\* What a client sends to a target, with value v[i] for the placeholder at i.
Sent(target, v) ==
    [i \in 1 .. Len(target) |-> IF target[i] \in Placeholder THEN v[i] ELSE target[i]]

TargetsWith(op, values) == {Sent(op.target, v) : v \in [1 .. Len(op.target) -> values]}

\* What is observed of these calls: the URL in front of the gateway, which has
\* the version once, and the URL in front of the backend, without the slashes
\* at the end of its endpoint.
CallsWith(op, values) ==
    UNION {{op.public \o target, op.base \o target} : target \in TargetsWith(op, values)}
=============================================================================
