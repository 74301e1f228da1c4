---------------------------- MODULE ReportProofs ----------------------------
(****************************************************************************)
(* Proofs about Report, for any catalogue, replicas, limits and offsets:    *)
(* what the readers of the report may rely on.                              *)
(****************************************************************************)
EXTENDS Report, PipelinesProofs, FiniteSetTheorems

\* Readers change nothing of the server: every theorem about the pipelines
\* holds beside them.
THEOREM ReadersOnlyRead == ReportSpec => Spec
<1>1. ReportInit => Init
  BY DEF ReportInit
<1>2. [ReportNext]_<<vars, ranked, shown>> => [Next]_vars
  BY DEF ReportNext, ServerStep, ReadPage, ReadDetail
<1> QED
  BY <1>1, <1>2, PTL DEF ReportSpec, Spec

\* What clients are shown are rows of the view.
LEMMA ShowAddsViewRows ==
    ASSUME ReadPage \/ ReadDetail
    PROVE  /\ UNCHANGED vars /\ UNCHANGED ranked
           /\ \E rows \in SUBSET view : Show(rows)
BY DEF ReadPage, ReadDetail, Page, Selected

\* The view's order and what clients were shown keep their types.
THEOREM ReportTypes == ReportSpec => []ReportTypeOK
<1>1. ReportInit /\ TypeOK => ReportTypeOK
  BY DEF ReportInit, ReportTypeOK, Time
<1>2. ReportTypeOK /\ TypeOK' /\ [ReportNext]_<<vars, ranked, shown>> => ReportTypeOK'
  <2> SUFFICES ASSUME ReportTypeOK, TypeOK', [ReportNext]_<<vars, ranked, shown>>
               PROVE  ReportTypeOK'
    OBVIOUS
  <2>1. lastSeen \in [Endpoint -> Time] /\ view \subseteq Finding
    BY DEF ReportTypeOK, TypeOK, CatalogueTypeOK
  <2>2. CASE ServerStep
    BY <2>1, <2>2 DEF ServerStep, ReportTypeOK
  <2>3. CASE ReadPage \/ ReadDetail
    BY <2>1, <2>3, ShowAddsViewRows DEF Show, ReportTypeOK
  <2>4. CASE UNCHANGED <<vars, ranked, shown>>
    BY <2>4 DEF ReportTypeOK
  <2> QED BY <2>2, <2>3, <2>4 DEF ReportNext
<1> QED
  BY <1>1, <1>2, ReadersOnlyRead, TypeCorrectness, PTL DEF ReportSpec

\* The list of untrafficked operations agrees with the anchors of phase 3,
\* because retention spares them once they are flagged.
THEOREM AnchorsAreTrafficked == ReportSpec => []AnchoredNotUntrafficked
<1>1. AnchorsActiveUnlessOvertaken => AnchoredNotUntrafficked
  BY DEF AnchorsActiveUnlessOvertaken, AnchoredNotUntrafficked, Untrafficked
<1> QED
  BY <1>1, ReadersOnlyRead, AnchorsGoInactiveByRaceOnly, PTL

----------------------------------------------------------------------------
(* No verdict is shown after a newer one. *)

\* No row that is in the view, or would be after a refresh, is older than one
\* that was shown, ...
ShownBehind ==
    \A w \in shown :
        /\ w.at <= now
        /\ \A v \in view : v.endpoint = w.endpoint => v.at >= w.at
        /\ \A f \in findings : Newest(f) /\ f.endpoint = w.endpoint => f.at >= w.at

\* ... and one time was shown last of an endpoint.
ShownInv ==
    /\ ShownBehind
    /\ \A v, w \in shown : v.endpoint = w.endpoint => v.at = w.at

\* What was shown stays behind the newest finding, even if retention deletes
\* the row of the endpoint and phase 1 inserts it again.
LEMMA ShownStaysBehind ==
    ASSUME TypeOK, FindingsInv, ReferentialIntegrity', Next,
           NEW w \in Finding, w.at <= now,
           \A f \in findings : Newest(f) /\ f.endpoint = w.endpoint => f.at >= w.at,
           NEW f \in findings', f.endpoint = w.endpoint,
           \A g \in findings' : g.endpoint = f.endpoint => g.at <= f.at
    PROVE  f.at >= w.at
<1>1. now \in Nat /\ w.at \in Nat /\ \A g \in findings : g.at \in Nat
  BY DEF TypeOK, CatalogueTypeOK, Time, Finding
<1>2. CASE f \notin findings
  <2>1. PICK r \in Replica : CycleClassify(r)
    BY <1>2, OnlyClassifyFinds
  <2>2. f.at = now
    BY <1>2, <2>1 DEF CycleClassify, Classify, NewFindings
  <2> QED BY <1>1, <2>2
<1>3. CASE f \in findings
  <2>1. PICK n \in findings : n.endpoint = f.endpoint /\ n.at >= f.at /\ Newest(n)
    BY <1>3, NewestExists
  <2>2. n.at >= w.at
    BY <2>1
  <2>3. n.endpoint \in discovered'
    BY <2>1 DEF ReferentialIntegrity
  <2>4. PICK g \in findings' : g.endpoint = n.endpoint /\ g.at >= n.at
    BY <2>1, <2>3, NewestKept
  <2>5. g.at <= f.at
    BY <2>1, <2>4
  <2>6. g.at \in Nat
    <3>1. TypeOK'
      BY StepTypes
    <3> QED BY <3>1 DEF TypeOK, CatalogueTypeOK, Time, Finding
  <2> QED BY <1>1, <1>3, <2>2, <2>4, <2>5, <2>6
<1> QED BY <1>2, <1>3

LEMMA ShownAfterServerStep ==
    ASSUME ReportTypeOK, FindingsInv, ViewInv, FindingsInv', ReferentialIntegrity',
           ShownInv, Next, UNCHANGED shown
    PROVE  ShownInv'
<1>1. /\ shown \subseteq Finding
      /\ \A w \in Finding : w.at \in Nat
      /\ TypeOK /\ findings \subseteq Finding /\ now \in Nat
  BY DEF ReportTypeOK, TypeOK, CatalogueTypeOK, Finding, Time
<1>2. now' \in Nat /\ now <= now'
  <2>1. now' = now \/ now' = now + 1
    BY DEF Next, Tick, Publishing, CycleStep, SyncStep, RetentionStep, Crash
  <2> QED BY <1>1, <2>1
<1>3. SUFFICES ASSUME NEW w \in shown
               PROVE  /\ w.at <= now'
                      /\ \A v \in view' : v.endpoint = w.endpoint => v.at >= w.at
                      /\ \A f \in findings' :
                            Newest(f)' /\ f.endpoint = w.endpoint => f.at >= w.at
  BY DEF ShownInv, ShownBehind
<1>4. w.at <= now'
  BY <1>1, <1>2 DEF ShownInv, ShownBehind
<1>5. ASSUME NEW f \in findings', Newest(f)', f.endpoint = w.endpoint PROVE f.at >= w.at
  BY <1>1, <1>5, ShownStaysBehind DEF ShownInv, ShownBehind, Newest
<1>6. ASSUME NEW v \in view', v.endpoint = w.endpoint PROVE v.at >= w.at
  <2>1. CASE UNCHANGED view
    BY <1>6, <2>1 DEF ShownInv, ShownBehind
  <2>2. ASSUME NEW r \in Replica, CycleRefreshView(r) PROVE v.at >= w.at
    BY <1>6, <2>2 DEF CycleRefreshView, RefreshView, ShownInv, ShownBehind
  <2> QED BY <2>1, <2>2, OnlyRefreshChangesView
<1> QED BY <1>4, <1>5, <1>6

\* A reader is shown rows of the view, which are behind the newest findings.
LEMMA ShownAfterRead ==
    ASSUME ReportTypeOK, FindingsInv, ViewInv, ShownInv, UNCHANGED vars,
           NEW rows \in SUBSET view, Show(rows)
    PROVE  ShownInv'
<1> USE DEF vars, tables
<1>1. \A v \in view : v.at \in Nat
  BY DEF ReportTypeOK, TypeOK, CatalogueTypeOK, Finding, Time
<1>2. SUFFICES ASSUME NEW w \in shown'
               PROVE  /\ w.at <= now
                      /\ \A v \in view : v.endpoint = w.endpoint => v.at >= w.at
                      /\ \A f \in findings :
                            Newest(f) /\ f.endpoint = w.endpoint => f.at >= w.at
                      /\ \A v \in shown' : v.endpoint = w.endpoint => v.at = w.at
  BY DEF ShownInv, ShownBehind, Newest
<1>3. CASE w \in rows
  BY <1>1, <1>3 DEF FindingsInv, ViewInv, Show
<1>4. CASE w \notin rows
  BY <1>4 DEF ShownInv, ShownBehind, Show
<1> QED BY <1>3, <1>4

LEMMA ShownInvariant == ReportSpec => []ShownInv
<1>1. ReportInit => ShownInv
  BY DEF ReportInit, ShownInv, ShownBehind
<1>2. /\ ReportTypeOK /\ FindingsInv /\ FindingsInv' /\ ViewInv /\ ReferentialIntegrity'
      /\ ShownInv /\ [ReportNext]_<<vars, ranked, shown>>
      => ShownInv'
  <2> SUFFICES ASSUME ReportTypeOK, FindingsInv, FindingsInv', ViewInv,
                      ReferentialIntegrity', ShownInv,
                      [ReportNext]_<<vars, ranked, shown>>
               PROVE  ShownInv'
    OBVIOUS
  <2>1. CASE ServerStep
    BY <2>1, ShownAfterServerStep DEF ServerStep
  <2>2. CASE ReadPage \/ ReadDetail
    BY <2>2, ShowAddsViewRows, ShownAfterRead
  <2>3. CASE UNCHANGED <<vars, ranked, shown>>
    BY <2>3 DEF ShownInv, ShownBehind, Newest, vars, tables
  <2> QED BY <2>1, <2>2, <2>3 DEF ReportNext
<1> QED
  BY <1>1, <1>2, ReportTypes, ReadersOnlyRead, FindingsInvariant, ViewInvariant,
     RowsReferToRows, PTL DEF ReportSpec

\* Verdicts reach readers in order.
THEOREM VerdictsShownInOrder == ReportSpec => ReaderNeverSeesOlder
<1> DEFINE Holds == \A w \in shown, v \in shown' : v.endpoint = w.endpoint => v.at >= w.at
<1>1. ReportTypeOK /\ ViewInv /\ ShownInv /\ [ReportNext]_<<vars, ranked, shown>>
         => [Holds]_shown
  <2> SUFFICES ASSUME ReportTypeOK, ShownInv, ReadPage \/ ReadDetail PROVE Holds
    BY DEF ReportNext, ServerStep
  <2>1. PICK rows \in SUBSET view : Show(rows)
    BY ShowAddsViewRows
  <2>2. \A w \in shown : w.at \in Nat
    BY DEF ReportTypeOK, Finding, Time
  <2> QED BY <2>1, <2>2 DEF Show, ShownInv, ShownBehind, ViewInv
<1> QED
  BY <1>1, ReportTypes, ReadersOnlyRead, ViewInvariant, ShownInvariant, PTL
     DEF ReportSpec, ReaderNeverSeesOlder

----------------------------------------------------------------------------
(* The pages of a list. *)

\* The step of the client's walk from a first offset, at most 0, on which the
\* row at rank is shown.
LEMMA PageOfRank ==
    ASSUME NEW size \in Nat \ {0}, NEW rank \in Nat, NEW first \in Int, first <= 0
    PROVE  \E k \in 0 .. rank - first :
              LET offset == first + k * size
              IN  /\ offset <= rank
                  /\ rank \in RowOffset(offset) .. RowOffset(offset) + size - 1
<1> DEFINE k == (rank - first) \div size
           rest == (rank - first) % size
           offset == first + k * size
<1>1. rank - first \in Nat
  OBVIOUS
<1>2. /\ k \in Nat /\ rest \in 0 .. size - 1
      /\ rank - first = (size * k) + rest
  BY <1>1
<1> HIDE DEF k, rest
<1>3. k <= size * k /\ size * k \in Nat /\ k * size = size * k
  BY <1>2
<1>4. k \in 0 .. rank - first
  BY <1>2, <1>3
<1>5. offset = rank - rest /\ offset \in Int
  BY <1>2, <1>3
<1> HIDE DEF offset
<1>6. offset <= rank /\ rank \in RowOffset(offset) .. RowOffset(offset) + size - 1
  BY <1>2, <1>5 DEF RowOffset
<1> QED BY <1>4, <1>6 DEF offset

\* The rank of a row, from which LIMIT and OFFSET cut.
LEMMA RankOfRow ==
    ASSUME ReportTypeOK, NEW rows \in SUBSET Finding, IsFiniteSet(rows), NEW v \in rows
    PROVE  /\ Cardinality({w \in rows : Before(w, v)}) \in Nat
           /\ Cardinality(rows) \in Nat
           /\ Cardinality({w \in rows : Before(w, v)}) < Cardinality(rows)
<1> DEFINE front == {w \in rows : Before(w, v)}
<1>1. ~Before(v, v)
  <2>1. v.endpoint \in Endpoint
    BY DEF Finding
  <2>2. ranked[v.endpoint] \in Nat /\ RowId[v.endpoint] \in Nat
    BY <2>1, ReportAssumption DEF ReportTypeOK, Time
  <2> QED BY <2>2 DEF Before
<1>2. front \in SUBSET (rows \ {v})
  BY <1>1
<1> HIDE DEF front
<1>3. /\ IsFiniteSet(rows \ {v}) /\ Cardinality(rows \ {v}) = Cardinality(rows) - 1
      /\ Cardinality(rows) \in Nat
  BY FS_RemoveElement, FS_CardinalityType
<1>4. /\ IsFiniteSet(front) /\ Cardinality(front) <= Cardinality(rows \ {v})
      /\ Cardinality(front) \in Nat
  BY <1>2, <1>3, FS_Subset, FS_CardinalityType
<1> QED BY <1>3, <1>4 DEF front

\* A list is shown to its last row to a client that begins at its start.
LEMMA WalkShowsAll ==
    ASSUME ReportTypeOK, NEW rows \in SUBSET Finding, IsFiniteSet(rows),
           NEW limit \in AskedLimit, NEW first \in AskedOffset, first <= 0
    PROVE  Walk(rows, limit, first) = rows
<1> DEFINE total == Cardinality(rows)
           size == EchoedLimit(limit)
           asked == {first + k * size : k \in 0 .. total - first}
<1>1. size \in Nat \ {0} /\ size = RowLimit(limit) /\ first \in Int
  BY ReportAssumption DEF EchoedLimit, RowLimit
<1>2. Walk(rows, limit, first)
        = UNION {Page(rows, RowLimit(limit), RowOffset(o)) : o \in {x \in asked : x < total}}
  BY DEF Walk
<1> HIDE DEF asked, size, total
<1>3. \A n, o : Page(rows, n, o) \subseteq rows
  BY DEF Page
<1>4. ASSUME NEW v \in rows
      PROVE  \E o \in {x \in asked : x < total} : v \in Page(rows, RowLimit(limit), RowOffset(o))
  <2> DEFINE rank == Cardinality({w \in rows : Before(w, v)})
  <2>1. rank \in Nat /\ total \in Nat /\ rank < total
    BY RankOfRow DEF total
  <2> HIDE DEF rank
  <2>2. PICK k \in 0 .. rank - first :
            /\ first + k * size <= rank
            /\ rank \in RowOffset(first + k * size) .. RowOffset(first + k * size) + size - 1
    BY <1>1, <2>1, PageOfRank
  <2> DEFINE o == first + k * size
  <2>3. k \in 0 .. total - first
    BY <1>1, <2>1, <2>2
  <2>4. o \in asked
    BY <2>3 DEF asked
  <2>5. o \in Int /\ o < total
    BY <1>1, <2>1, <2>2
  <2>6. v \in Page(rows, RowLimit(limit), RowOffset(o))
    BY <1>1, <2>2 DEF Page, rank
  <2> QED BY <2>4, <2>5, <2>6
<1> QED BY <1>2, <1>3, <1>4

\* Every client that follows the pagination block sees every row, for every
\* number of rows, every limit and every bound of the limits: the handler and
\* the repository clamp alike.
THEOREM PagingIsComplete == ReportSpec => []PagesComplete
<1>1. ReportTypeOK => PagesComplete
  <2> SUFFICES ASSUME ReportTypeOK
               PROVE  PagesComplete
    OBVIOUS
  <2> DEFINE Row(e) == [endpoint |-> e, verdict |-> "shadow", at |-> now]
             rows == [endpoint : active, verdict : {"shadow"}, at : {now}]
  <2>1. rows \in SUBSET Finding
    BY DEF ReportTypeOK, TypeOK, CatalogueTypeOK, Finding, Verdict
  <2>2. IsFiniteSet(rows)
    <3>1. IsFiniteSet(active)
      BY FS_Subset, ReportAssumption DEF ReportTypeOK, TypeOK, CatalogueTypeOK
    <3>2. [e \in active |-> Row(e)] \in Surjection(active, rows)
      <4>1. \A v \in rows : v.endpoint \in active /\ v = Row(v.endpoint)
        OBVIOUS
      <4>2. \A e \in active : Row(e) \in rows
        OBVIOUS
      <4> HIDE DEF Row, rows
      <4> QED BY <4>1, <4>2 DEF Surjection
    <3> QED BY <3>1, <3>2, FS_Surjection
  <2> QED BY <2>1, <2>2, WalkShowsAll DEF PagesComplete
<1> QED BY <1>1, ReportTypes, PTL
=============================================================================
