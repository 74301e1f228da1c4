-------------------------------- MODULE Merger --------------------------------
(****************************************************************************)
(* The rows of a phase 1 cycle: classification of the DeepFlow rows         *)
(* (internal/discovery/classifier.go), noise filter (pipeline.go) and merge *)
(* (merger.go).  DeepFlow returns its rows in any order.                    *)
(****************************************************************************)
EXTENDS Normalizer, FiniteSetsExt, SequencesExt

CONSTANTS
    Input,         \* positions of the DeepFlow rows
    Signal,        \* DeepFlow rows, as records
    Operation,     \* operations of the managed APIs, as records
    Noise,         \* paths that the noise filter drops
    NoiseDomain,   \* request domains that it drops
    SkipInternal,  \* discovery.skip_internal
    ClientsCap,    \* clientsCap: 20 in the code
    SampleCap      \* 300 in the code

ASSUME MergerAssumption ==
    /\ IsFiniteSet(Input)
    /\ \A s \in Signal : s.first \in Int /\ s.last \in Int /\ s.rows \in Nat /\ s.port \in Nat
    /\ SkipInternal \in BOOLEAN
    /\ ClientsCap \in Nat \ {0} /\ SampleCap \in Nat \ {0}

\* The gateway serves an operation below its context, which ends with the
\* version or is followed by it, and calls the backend below the path of its
\* endpoint without trailing slashes; no base has placeholders.
ASSUME OperationAssumption ==
    \A op \in Operation :
       /\ op.context \in Path /\ op.version \in Segment
       /\ op.base \in Path /\ op.target \in Path /\ op.public \in Path
       /\ op.base = <<>> \/ op.base[Len(op.base)] # Empty
       /\ op.endpoint \in Path
       /\ \E n \in 0 .. Len(op.endpoint) : op.endpoint = op.base \o [i \in 1 .. n |-> Empty]
       /\ \/ /\ op.public = op.context
             /\ op.version = Empty \/ (op.context # <<>> /\ op.context[Len(op.context)] = op.version)
          \/ /\ op.public = Append(op.context, op.version)
             /\ op.version # Empty /\ (op.context = <<>> \/ op.context[Len(op.context)] # op.version)
       /\ \A i \in 1 .. Len(op.public) : op.public[i] \notin Placeholder
       /\ \A i \in 1 .. Len(op.base) : op.base[i] \notin Placeholder

VARIABLES
    signals,   \* the DeepFlow rows of the window
    todo,      \* positions that are not merged yet
    bucket,    \* bucket[k]: the merged row of key k
    top        \* top[k]: its TopClients, when all rows are merged

mergerVars == <<signals, todo, bucket, top>>

None == "none"

----------------------------------------------------------------------------
(* Classification. *)

InCluster == {"pod", "node"}

\* ServiceIdentity, or None for env_kind "skip".
ServiceIdentity(s) ==
    CASE s.serverType \in InCluster /\ s.k8sService # None -> s.k8sService
      [] s.serverType = "chost" /\ s.host # None -> s.host
      [] OTHER -> None

\* directionFor
IsInternal(s) ==
    IF s.tap = "client"
    THEN s.clientType \in InCluster \cup {"chost"}
    ELSE s.clientType # "internet"

\* classifyClient: the workload of a cluster client, or else the address.
ClientIdentity(s) ==
    IF s.clientType \in InCluster /\ s.workload # None THEN s.workload ELSE s.clientIP

Kept(s) ==
    /\ s.path \notin Noise /\ s.domain \notin NoiseDomain
    /\ ServiceIdentity(s) # None
    /\ SkipInternal => ~IsInternal(s)

KeyOf(s) == <<ServiceIdentity(s), s.method, Normalize(s.path)>>

----------------------------------------------------------------------------
(* The merge. *)

NewRow(s) ==
    [first |-> s.first, last |-> s.last, rows |-> 0, flows |-> 0,
     internal |-> 0, external |-> 0, sample |-> {}, clients |-> <<>>,
     ports |-> <<>>, pod |-> s.pod, domain |-> s.domain]

\* appendUniqueCapped: the first values, up to the cap.
AppendUnique(sample, value, cap) ==
    IF value = None \/ Cardinality(sample) >= cap THEN sample ELSE sample \cup {value}

\* Observations of the row's callers; anonymous ones are skipped.
Counted(clients, s) ==
    LET c == ClientIdentity(s)
    IN  IF c = None THEN clients
        ELSE [x \in DOMAIN clients \cup {c} |->
                (IF x \in DOMAIN clients THEN clients[x] ELSE 0)
                  + (IF x = c THEN s.rows ELSE 0)]

\* The port of the first signal of a caller that has one.
PortsSeen(ports, s) ==
    LET c == ClientIdentity(s)
    IN  IF c = None THEN ports
        ELSE [x \in DOMAIN ports \cup {c} |->
                IF x \notin DOMAIN ports \/ (x = c /\ ports[x] = 0) THEN s.port ELSE ports[x]]

\* Every signal that has a pod replaces it.
SamplePod_AnyTap(pod, s) == IF s.pod # None THEN s.pod ELSE pod

\* The pod of the last signal tapped in the server process, or else of the
\* first signal that has one; the workload goes the same way.
SamplePod(pod, s) ==
    IF (pod = None \/ s.tap = "process") /\ s.pod # None THEN s.pod ELSE pod

\* Durations, status codes and URL samples are left out.
Folded(row, s) ==
    [first    |-> Min({row.first, s.first}),
     last     |-> Max({row.last, s.last}),
     rows     |-> row.rows + s.rows,
     flows    |-> row.flows + 1,
     internal |-> row.internal + (IF IsInternal(s) THEN s.rows ELSE 0),
     external |-> row.external + (IF IsInternal(s) THEN 0 ELSE s.rows),
     sample   |-> AppendUnique(row.sample, s.clientIP, SampleCap),
     clients  |-> Counted(row.clients, s),
     ports    |-> PortsSeen(row.ports, s),
     pod      |-> SamplePod(row.pod, s),
     domain   |-> row.domain]

Merged(s) ==
    LET k == KeyOf(s)
        row == IF k \in DOMAIN bucket THEN bucket[k] ELSE NewRow(s)
    IN  [x \in DOMAIN bucket \cup {k} |-> IF x = k THEN Folded(row, s) ELSE bucket[x]]

\* sort.Slice by observations; names, which break ties, have no order here.
Sorted(clients) ==
    CHOOSE list \in SetToSeqs(DOMAIN clients) :
        \A i, j \in DOMAIN list : i < j => clients[list[i]] >= clients[list[j]]

\* The list is not sorted.
TopClients_Unsorted(clients) ==
    LET list == SetToSeq(DOMAIN clients)
    IN  SubSeq(list, 1, Min({Len(list), ClientsCap}))

\* Sorted by observations and cut.
TopClients(clients) ==
    LET list == Sorted(clients)
    IN  SubSeq(list, 1, Min({Len(list), ClientsCap}))

MergerInit ==
    /\ signals \in [Input -> Signal]
    /\ todo = Input
    /\ bucket = <<>>
    /\ top = <<>>

\* The next signal: dropped, or folded into the row of its key.
Fold(i) ==
    /\ i \in todo
    /\ todo' = todo \ {i}
    /\ bucket' = IF Kept(signals[i]) THEN Merged(signals[i]) ELSE bucket
    /\ UNCHANGED <<signals, top>>

Resolve ==
    /\ todo = {} /\ top = <<>> /\ bucket # <<>>
    /\ top' = [k \in DOMAIN bucket |-> TopClients(bucket[k].clients)]
    /\ UNCHANGED <<signals, todo, bucket>>

MergerNext == Resolve \/ \E i \in Input : Fold(i)

MergerSpec == MergerInit /\ [][MergerNext]_mergerVars

----------------------------------------------------------------------------
(* Properties. *)

\* The signals that have been merged under a key.
MergedUnder(k) == {i \in Input \ todo : Kept(signals[i]) /\ KeyOf(signals[i]) = k}

\* The rows that DeepFlow counted at the positions.
RowsAt(positions) == SumFunctionOnSet([i \in Input |-> signals[i].rows], positions)

CallersAt(positions) == {ClientIdentity(signals[i]) : i \in positions} \ {None}
By(positions, c) == {i \in positions : ClientIdentity(signals[i]) = c}

\* What does not depend on the order of the DeepFlow rows.
Totals(row, P) ==
    /\ row.first = Min({signals[i].first : i \in P})
    /\ row.last = Max({signals[i].last : i \in P})
    /\ row.flows = Cardinality(P)
    /\ row.rows = RowsAt(P)
    /\ row.internal = RowsAt({i \in P : IsInternal(signals[i])})
    /\ row.internal + row.external = row.rows
    /\ row.clients = [c \in CallersAt(P) |-> RowsAt(By(P, c))]

\* The pods that may stand for the signals at the positions: a pod that the tap
\* in the server process saw wins over the others.
PodsOf(positions) ==
    LET known == {i \in positions : signals[i].pod # None}
        process == {i \in known : signals[i].tap = "process"}
    IN  {signals[i].pod : i \in IF process # {} THEN process ELSE known}

AddressesOf(positions) == {signals[i].clientIP : i \in positions} \ {None}
PortsOf(positions) == {signals[i].port : i \in positions} \ {0}

\* What depends on it (merger.go:93, 131-132, 141-146, 171-173).
Samples(row, P) ==
    /\ row.sample \subseteq AddressesOf(P)
    /\ Cardinality(row.sample) = Min({SampleCap, Cardinality(AddressesOf(P))})
    /\ IF PodsOf(P) = {} THEN row.pod = None ELSE row.pod \in PodsOf(P)
    /\ row.domain \in {signals[i].domain : i \in P}
    /\ DOMAIN row.ports = CallersAt(P)
    /\ \A c \in CallersAt(P) :
          IF PortsOf(By(P, c)) = {} THEN row.ports[c] = 0 ELSE row.ports[c] \in PortsOf(By(P, c))

\* Whatever the order of the DeepFlow rows, a merged row has the same window,
\* the same number of signals and of observations, internal and external, and
\* the same observations for each caller.  The order chooses addresses, pod,
\* domain and the port of a caller, yet nothing is lost that some signal has:
\* the addresses are all there if they fit, and the pod is one that the server
\* process saw if there is any.
MergedRowIsSummary ==
    \A k \in DOMAIN bucket :
       Totals(bucket[k], MergedUnder(k)) /\ Samples(bucket[k], MergedUnder(k))

\* A caller that is missing from the top clients of a row made, over all its
\* signals, no more observations than any that is listed (merger.go:46-47).
TopCallersKept ==
    LET made(k, c) == RowsAt(By(MergedUnder(k), c))
    IN  \A k \in DOMAIN top :
          \A i \in Input : \A c \in ToSet(top[k]) :
             LET d == ClientIdentity(signals[i])
             IN  d # None /\ d \notin ToSet(top[k]) => made(k, d) <= made(k, c)

\* The row of a call whose parameters are whole segments and all look dynamic
\* has a path of the operation, through the gateway or behind it, so that phase 3
\* can join the two (expander.go:12-17).
DynamicCallsMatch ==
    \A i \in Input \ todo : \A op \in Operation :
       Kept(signals[i]) /\ IsWhole(op.target)
          /\ signals[i].path \in CallsWith(op, Dynamic \ Excluded)
          => KeyOf(signals[i])[3] \in ManagedPaths(op)
=============================================================================
