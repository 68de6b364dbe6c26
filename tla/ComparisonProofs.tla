-------------------------- MODULE ComparisonProofs --------------------------
(***************************************************************************)
(* Proofs about the comparison of two assessments: what it reports of the  *)
(* findings and the verdicts, for any source and any change of it.         *)
(***************************************************************************)
EXTENDS ComparisonChecks, FiniteSetTheorems, FunctionTheorems, SequenceTheorems,
        WellFoundedInduction, TLAPS

(***************************************************************************)
(* Counting.                                                               *)
(***************************************************************************)

\* Of some subsets of a finite set, one has no other of them within it.
LEMMA MinimalSubset ==
  ASSUME NEW S, IsFiniteSet(S), NEW F, F \subseteq SUBSET S, F # {}
  PROVE  \E T \in F : \A U \in F : U \subseteq T => U = T
<1>1. IsWellFoundedOn(StrictSubsetOrdering(S), SUBSET S)
  BY FS_StrictSubsetOrderingWellFounded, FS_FiniteSubsetsOfFinite
<1>2. PICK T \in F : \A U \in F : ~ (<<U, T>> \in StrictSubsetOrdering(S))
  BY <1>1, WFMin
<1> QED BY <1>2 DEF StrictSubsetOrdering

\* A one-to-one map counts the set that it maps onto.
LEMMA CountedByMap ==
  ASSUME NEW S, IsFiniteSet(S), NEW T, NEW f \in [S -> T],
         \A x, y \in S : f[x] = f[y] => x = y,
         \A t \in T : \E x \in S : f[x] = t
  PROVE  IsFiniteSet(T) /\ Cardinality(T) = Cardinality(S)
<1>1. f \in Bijection(S, T)
  BY Fun_IsBij
<1>2. ExistsBijection(S, T)
  BY <1>1, Fun_ExistsBij
<1> QED BY <1>2, FS_Bijection

(***************************************************************************)
(* Findings in the order of their lines.                                   *)
(***************************************************************************)
Ordered(fs) ==
  /\ IsFiniteSet(fs)
  /\ \A f \in fs : f.line \in Nat /\ f.id = f.line
  /\ \A f, g \in fs : f.line = g.line => f = g

Position(f, fs) == Cardinality({g \in fs : NotAfter(g, f)})

\* Every finding has a place of its own, and every place a finding.
LEMMA PositionsCount ==
  ASSUME NEW fs, Ordered(fs)
  PROVE  /\ Cardinality(fs) \in Nat
         /\ \A f \in fs : Position(f, fs) \in 1 .. Cardinality(fs)
         /\ \A f, g \in fs : Position(f, fs) = Position(g, fs) => f = g
         /\ \A p \in 1 .. Cardinality(fs) : \E f \in fs : Position(f, fs) = p
<1> DEFINE UpTo(f) == {g \in fs : NotAfter(g, f)}
<1>0. /\ IsFiniteSet(fs) /\ Cardinality(fs) \in Nat
      /\ \A f, g \in fs : NotAfter(f, g) <=> f.line <= g.line
      /\ \A f \in fs : f.line \in Nat
      /\ \A f, g \in fs : f.line = g.line => f = g
  BY FS_CardinalityType DEF Ordered, NotAfter
<1>1. ASSUME NEW f \in fs
      PROVE  /\ IsFiniteSet(UpTo(f)) /\ Cardinality(UpTo(f)) \in 1 .. Cardinality(fs)
             /\ f \in UpTo(f)
  <2>1. f \in UpTo(f) /\ UpTo(f) \in SUBSET fs
    BY <1>0
  <2>2. IsFiniteSet(UpTo(f)) /\ Cardinality(UpTo(f)) <= Cardinality(fs)
    BY <1>0, <2>1, FS_Subset
  <2>3. Cardinality(UpTo(f)) \in Nat /\ Cardinality(UpTo(f)) # 0
    BY <2>1, <2>2, FS_CardinalityType, FS_EmptySet
  <2> HIDE DEF UpTo
  <2> QED BY <1>0, <2>1, <2>2, <2>3
<1>2. ASSUME NEW f \in fs, NEW g \in fs, f.line < g.line
      PROVE  Cardinality(UpTo(f)) # Cardinality(UpTo(g))
  <2>1. UpTo(f) \in SUBSET UpTo(g) /\ g \in UpTo(g) /\ g \notin UpTo(f)
    BY <1>0, <1>2
  <2> HIDE DEF UpTo
  <2> QED BY <1>1, <2>1, FS_Subset
<1>3. ASSUME NEW f \in fs, NEW g \in fs, Cardinality(UpTo(f)) = Cardinality(UpTo(g))
      PROVE  f = g
  <2>1. ~(f.line < g.line) /\ ~(g.line < f.line)
    BY <1>2, <1>3
  <2> QED BY <1>0, <2>1
<1> DEFINE at == [f \in fs |-> Position(f, fs)]
<1>4. /\ at \in [fs -> 1 .. Cardinality(fs)]
      /\ \A f, g \in fs : at[f] = at[g] => f = g
  BY <1>1, <1>3 DEF Position
<1>5. at \in Injection(fs, 1 .. Cardinality(fs))
  <2> HIDE DEF at
  <2> QED BY <1>4, Fun_IsInj
<1>6. IsFiniteSet(1 .. Cardinality(fs)) /\ Cardinality(1 .. Cardinality(fs)) = Cardinality(fs)
  BY <1>0, FS_Interval
<1>7. at \in Surjection(fs, 1 .. Cardinality(fs))
  <2> HIDE DEF at
  <2> QED BY <1>5, <1>6, FS_Injection
<1>8. \A p \in 1 .. Cardinality(fs) : \E f \in fs : at[f] = p
  <2> HIDE DEF at
  <2> QED BY <1>7, Fun_SurjectionProperties
<1> QED BY <1>0, <1>1, <1>3, <1>8 DEF Position

(***************************************************************************)
(* A finding's slot is its key and its place among those with the key.     *)
(* Findings of two assessments match where their slots are the same.       *)
(***************************************************************************)
Slot(f, fs) == <<FindingKey(f), Position(f, WithKey(fs, FindingKey(f)))>>

Slots(fs) == {Slot(f, fs) : f \in fs}

LEMMA KeysOrdered ==
  ASSUME NEW fs, Ordered(fs), NEW key
  PROVE  Ordered(WithKey(fs, key)) /\ Cardinality(WithKey(fs, key)) \in Nat
<1>1. WithKey(fs, key) \in SUBSET fs
  BY DEF WithKey
<1> QED BY <1>1, FS_Subset, FS_CardinalityType DEF Ordered

LEMMA SlotsCount ==
  ASSUME NEW fs, Ordered(fs)
  PROVE  /\ \A key, p : <<key, p>> \in Slots(fs)
                          <=> p \in 1 .. Cardinality(WithKey(fs, key))
         /\ \A f, g \in fs : Slot(f, fs) = Slot(g, fs) => f = g
<1>1. ASSUME NEW f \in fs, NEW g \in fs, Slot(f, fs) = Slot(g, fs)
      PROVE  f = g
  <2> DEFINE key == FindingKey(f)
  <2>1. FindingKey(g) = key /\ Position(f, WithKey(fs, key)) = Position(g, WithKey(fs, key))
    BY <1>1 DEF Slot
  <2>2. f \in WithKey(fs, key) /\ g \in WithKey(fs, key)
    BY <2>1 DEF WithKey
  <2> HIDE DEF key
  <2> QED BY <2>1, <2>2, KeysOrdered, PositionsCount
<1>2. ASSUME NEW key, NEW p, <<key, p>> \in Slots(fs)
      PROVE  p \in 1 .. Cardinality(WithKey(fs, key))
  <2>1. PICK f \in fs : key = FindingKey(f) /\ p = Position(f, WithKey(fs, key))
    BY <1>2 DEF Slots, Slot
  <2>2. f \in WithKey(fs, key)
    BY <2>1 DEF WithKey
  <2> QED BY <2>1, <2>2, KeysOrdered, PositionsCount
<1>3. ASSUME NEW key, NEW p \in 1 .. Cardinality(WithKey(fs, key))
      PROVE  <<key, p>> \in Slots(fs)
  <2>1. PICK f \in WithKey(fs, key) : Position(f, WithKey(fs, key)) = p
    BY KeysOrdered, PositionsCount
  <2>2. f \in fs /\ FindingKey(f) = key
    BY <2>1 DEF WithKey
  <2>3. Slot(f, fs) = <<key, p>>
    BY <2>1, <2>2 DEF Slot
  <2> QED BY <2>2, <2>3 DEF Slots
<1> QED BY <1>1, <1>2, <1>3

SlotIn(fs, S) == {f \in fs : Slot(f, fs) \in S}

\* The findings whose slots are in a set are as many as the slots.
LEMMA CountBySlots ==
  ASSUME NEW fs, Ordered(fs), NEW S
  PROVE  /\ IsFiniteSet(SlotIn(fs, S)) /\ IsFiniteSet(Slots(fs) \cap S)
         /\ Cardinality(SlotIn(fs, S)) = Cardinality(Slots(fs) \cap S)
<1> DEFINE those == SlotIn(fs, S)
           map == [f \in those |-> Slot(f, fs)]
<1>1. IsFiniteSet(those)
  <2>1. those \in SUBSET fs
    BY DEF SlotIn
  <2> HIDE DEF those
  <2> QED BY <2>1, FS_Subset DEF Ordered
<1>2. /\ map \in [those -> Slots(fs) \cap S]
      /\ \A f, g \in those : map[f] = map[g] => f = g
      /\ \A t \in Slots(fs) \cap S : \E f \in those : map[f] = t
  BY SlotsCount DEF Slots, SlotIn
<1> HIDE DEF those, map
<1>3. IsFiniteSet(Slots(fs) \cap S) /\ Cardinality(Slots(fs) \cap S) = Cardinality(those)
  BY <1>1, <1>2, CountedByMap
<1> QED BY <1>1, <1>3 DEF those

\* What CompareFindings reports, by the slots.
LEMMA ComparedBySlots ==
  ASSUME NEW before, Ordered(before), NEW after, Ordered(after)
  PROVE  CompareFindings(before, after) =
           [new |-> {f \in after : Slot(f, after) \notin Slots(before)},
            resolved |-> {f \in before : Slot(f, before) \notin Slots(after)},
            unchanged |-> {f \in after : Slot(f, after) \in Slots(before)}]
<1> DEFINE B(key) == WithKey(before, key)
           A(key) == WithKey(after, key)
           keys == {FindingKey(f) : f \in before \cup after}
           splits == {Split(B(key), A(key)) : key \in keys}
<1>1. ASSUME NEW key
      PROVE  /\ Cardinality(A(key)) \in Nat /\ Cardinality(B(key)) \in Nat
             /\ \A f \in A(key) : Position(f, A(key)) \in 1 .. Cardinality(A(key))
             /\ \A f \in B(key) : Position(f, B(key)) \in 1 .. Cardinality(B(key))
  BY KeysOrdered, PositionsCount
<1>2. ASSUME NEW key
      PROVE  Split(B(key), A(key)) =
               [new |-> {f \in A(key) : Slot(f, after) \notin Slots(before)},
                resolved |-> {f \in B(key) : Slot(f, before) \notin Slots(after)},
                unchanged |-> {f \in A(key) : Slot(f, after) \in Slots(before)}]
  <2> DEFINE a == Cardinality(A(key))
             b == Cardinality(B(key))
             n == Matched(B(key), A(key))
  <2>1. \A f \in A(key) : /\ Slot(f, after) = <<key, Position(f, A(key))>>
                          /\ Slot(f, after) \in Slots(before)
                               <=> Position(f, A(key)) \in 1 .. b
    BY SlotsCount DEF Slot, WithKey
  <2>2. \A f \in B(key) : /\ Slot(f, before) = <<key, Position(f, B(key))>>
                          /\ Slot(f, before) \in Slots(after)
                               <=> Position(f, B(key)) \in 1 .. a
    BY SlotsCount DEF Slot, WithKey
  <2>3. n = IF b < a THEN b ELSE a
    BY DEF Matched
  <2> HIDE DEF a, b, n
  <2>4. a \in Nat /\ b \in Nat /\ n \in Nat
    BY <1>1, <2>3 DEF a, b
  <2>5. \A f \in A(key) : Position(f, A(key)) \in 1 .. a
    BY <1>1 DEF a
  <2>6. \A f \in B(key) : Position(f, B(key)) \in 1 .. b
    BY <1>1 DEF b
  <2>7. First(n, A(key)) = {f \in A(key) : Slot(f, after) \in Slots(before)}
    <3>1. \A f \in A(key) : Position(f, A(key)) <= n <=> Position(f, A(key)) \in 1 .. b
      BY <2>3, <2>4, <2>5
    <3>2. First(n, A(key)) = {f \in A(key) : Position(f, A(key)) <= n}
      BY DEF First, Position
    <3> HIDE DEF A, B
    <3> QED BY <2>1, <3>1, <3>2
  <2>8. First(n, B(key)) = {f \in B(key) : Slot(f, before) \in Slots(after)}
    <3>1. \A f \in B(key) : Position(f, B(key)) <= n <=> Position(f, B(key)) \in 1 .. a
      BY <2>3, <2>4, <2>6
    <3>2. First(n, B(key)) = {f \in B(key) : Position(f, B(key)) <= n}
      BY DEF First, Position
    <3> HIDE DEF A, B
    <3> QED BY <2>2, <3>1, <3>2
  <2>9. Split(B(key), A(key)) =
          [new |-> A(key) \ First(n, A(key)), resolved |-> B(key) \ First(n, B(key)),
           unchanged |-> First(n, A(key))]
    BY DEF Split, n
  <2> HIDE DEF A, B
  <2> QED BY <2>7, <2>8, <2>9
<1>3. /\ UNION {split.new : split \in splits}
           = {f \in after : Slot(f, after) \notin Slots(before)}
      /\ UNION {split.resolved : split \in splits}
           = {f \in before : Slot(f, before) \notin Slots(after)}
      /\ UNION {split.unchanged : split \in splits}
           = {f \in after : Slot(f, after) \in Slots(before)}
  <2>1. /\ \A f \in after : FindingKey(f) \in keys /\ f \in A(FindingKey(f))
        /\ \A f \in before : FindingKey(f) \in keys /\ f \in B(FindingKey(f))
        /\ \A key : A(key) \subseteq after /\ B(key) \subseteq before
    BY DEF WithKey
  <2> HIDE DEF A, B, keys
  <2>2. \A f : f \in UNION {split.new : split \in splits}
               <=> \E key \in keys : f \in Split(B(key), A(key)).new
    OBVIOUS
  <2>3. \A f : f \in UNION {split.resolved : split \in splits}
               <=> \E key \in keys : f \in Split(B(key), A(key)).resolved
    OBVIOUS
  <2>4. \A f : f \in UNION {split.unchanged : split \in splits}
               <=> \E key \in keys : f \in Split(B(key), A(key)).unchanged
    OBVIOUS
  <2>5. \A key : /\ Split(B(key), A(key)).new
                      = {f \in A(key) : Slot(f, after) \notin Slots(before)}
                 /\ Split(B(key), A(key)).resolved
                      = {f \in B(key) : Slot(f, before) \notin Slots(after)}
                 /\ Split(B(key), A(key)).unchanged
                      = {f \in A(key) : Slot(f, after) \in Slots(before)}
    BY <1>2
  <2> HIDE DEF splits
  <2>6. \A f : f \in UNION {split.new : split \in splits}
               <=> f \in after /\ Slot(f, after) \notin Slots(before)
    BY <2>1, <2>2, <2>5
  <2>7. \A f : f \in UNION {split.resolved : split \in splits}
               <=> f \in before /\ Slot(f, before) \notin Slots(after)
    BY <2>1, <2>3, <2>5
  <2>8. \A f : f \in UNION {split.unchanged : split \in splits}
               <=> f \in after /\ Slot(f, after) \in Slots(before)
    BY <2>1, <2>4, <2>5
  <2> QED BY <2>6, <2>7, <2>8
<1>4. CompareFindings(before, after) =
        [new |-> UNION {split.new : split \in splits},
         resolved |-> UNION {split.resolved : split \in splits},
         unchanged |-> UNION {split.unchanged : split \in splits}]
  BY DEF CompareFindings
<1> QED BY <1>3, <1>4

(***************************************************************************)
(* The lines of the two assessments.                                       *)
(***************************************************************************)
IsSource(lines) == lines \in Seq(LineKind)

LinesHold ==
  /\ IsSource(source)
  /\ baseline # None => IsSource(baseline)
  /\ \/ overrides = {}
     \/ \E which \in {"baseline", "current"}, d \in Domains, category \in Verdicts :
          overrides = {[of |-> which, domain |-> d, category |-> category]}

LEMMA FindingsOfLines ==
  ASSUME NEW lines, IsSource(lines)
  PROVE  /\ Ordered(FindingsIn(lines))
         /\ DOMAIN lines = 1 .. Len(lines) /\ Len(lines) \in Nat
         /\ \A i \in DOMAIN lines : lines[i] \in LineKind
         /\ \A f \in FindingsIn(lines) :
              /\ f.id \in DOMAIN lines /\ f = FindingAt(lines, f.id)
              /\ lines[f.id].rule # "none"
<1>1. /\ DOMAIN lines = 1 .. Len(lines) /\ Len(lines) \in Nat
      /\ \A i \in DOMAIN lines : lines[i] \in LineKind
  BY LenProperties, ElementOfSeq DEF IsSource
<1>2. \A f \in FindingsIn(lines) :
        /\ f.id \in DOMAIN lines /\ f = FindingAt(lines, f.id)
        /\ lines[f.id].rule # "none"
  BY DEF FindingsIn, FindingAt
<1>3. \A f \in FindingsIn(lines) : f.line = f.id /\ f.line \in Nat
  BY <1>1 DEF FindingsIn, FindingAt
<1>4. \A f, g \in FindingsIn(lines) : f.line = g.line => f = g
  BY <1>2, <1>3
<1>5. IsFiniteSet(FindingsIn(lines))
  <2> DEFINE at == [f \in FindingsIn(lines) |-> f.id]
  <2>1. at \in [FindingsIn(lines) -> 1 .. Len(lines)]
    BY <1>1, <1>2
  <2>2. \A f, g \in FindingsIn(lines) : at[f] = at[g] => f = g
    BY <1>2
  <2> HIDE DEF at
  <2>3. at \in Injection(FindingsIn(lines), 1 .. Len(lines))
    BY <2>1, <2>2, Fun_IsInj
  <2>4. IsFiniteSet(1 .. Len(lines))
    BY <1>1, FS_Interval
  <2> QED BY <2>3, <2>4, FS_Injection
<1> QED BY <1>1, <1>2, <1>3, <1>4, <1>5 DEF Ordered

LEMMA RowsCompare ==
  ASSUME LinesHold, baseline # None
  PROVE  /\ Compatible(Before, Now) /\ Compatible(Now, Before)
         /\ Comparison = Compared(Before, Now, FALSE)
         /\ CompareLoaded(Now, Before) = Compared(Before, Now, TRUE)
         /\ Comparison.findings = CompareFindings(FindingsIn(baseline), FindingsIn(source))
         /\ Comparison.domains = CompareScores(Before.scores, Now.scores)
<1>1. Compatible(Before, Now) /\ Compatible(Now, Before)
  BY DEF Compatible, Before, Now, Stored, CompletedStatuses
<1>2. /\ Before.created = 1 /\ Now.created = 2
      /\ Before.findings = FindingsIn(baseline) /\ Now.findings = FindingsIn(source)
  BY DEF Before, Now, Stored
<1>3. /\ Comparison = Compared(Before, Now, FALSE)
      /\ CompareLoaded(Now, Before) = Compared(Before, Now, TRUE)
  BY <1>1, <1>2 DEF Comparison, CompareLoaded
<1> QED BY <1>1, <1>2, <1>3 DEF Compared

(***************************************************************************)
(* The lines stay lines of the source.                                     *)
(***************************************************************************)
LEMMA KindsAreLines ==
  /\ Kinds \subseteq LineKind /\ Recurring \subseteq LineKind
  /\ Allowed \subseteq LineKind
BY ChecksAssumption DEF Allowed

LEMMA InsertedLines ==
  ASSUME NEW lines, IsSource(lines), NEW i \in 1 .. Len(lines) + 1,
         NEW kind \in LineKind,
         NEW longer, longer = Seqs!InsertAt(lines, i, kind)
  PROVE  /\ IsSource(longer) /\ Len(longer) = Len(lines) + 1
         /\ \A j \in 1 .. i - 1 : longer[j] = lines[j]
         /\ longer[i] = kind
         /\ \A j \in i .. Len(lines) : longer[j + 1] = lines[j]
<1>0. Len(lines) \in Nat /\ lines \in Seq(LineKind)
  BY LenProperties DEF IsSource
<1> DEFINE head == SubSeq(lines, 1, i - 1)
           tail == SubSeq(lines, i, Len(lines))
<1>1. /\ head \in Seq(LineKind) /\ Len(head) = i - 1
      /\ \A j \in 1 .. i - 1 : head[j] = lines[j]
  BY <1>0, SubSeqProperties
<1>2. /\ tail \in Seq(LineKind) /\ Len(tail) = Len(lines) + 1 - i
      /\ \A j \in 1 .. Len(lines) + 1 - i : tail[j] = lines[i + j - 1]
  BY <1>0, SubSeqProperties
<1>3. longer = (head \o <<kind>>) \o tail
  BY DEF Seqs!InsertAt
<1> HIDE DEF head, tail
<1> DEFINE front == head \o <<kind>>
<1>4. /\ front \in Seq(LineKind) /\ Len(front) = i /\ front[i] = kind
      /\ \A j \in 1 .. i - 1 : front[j] = lines[j]
  BY <1>1, ConcatProperties
<1>5. longer = front \o tail
  BY <1>3
<1> HIDE DEF front
<1>6. /\ longer \in Seq(LineKind) /\ Len(longer) = Len(lines) + 1
      /\ \A j \in 1 .. i : longer[j] = front[j]
      /\ \A j \in 1 .. Len(lines) + 1 - i : longer[i + j] = tail[j]
  BY <1>0, <1>2, <1>4, <1>5, ConcatProperties
<1>7. ASSUME NEW j \in i .. Len(lines) PROVE longer[j + 1] = lines[j]
  <2>1. j + 1 - i \in 1 .. Len(lines) + 1 - i /\ i + (j + 1 - i) = j + 1
        /\ i + (j + 1 - i) - 1 = j
    BY <1>0
  <2> QED BY ZenonT(60), <1>2, <1>6, <2>1
<1>8. /\ longer[i] = kind
      /\ \A j \in 1 .. i - 1 : longer[j] = lines[j]
  BY <1>4, <1>6
<1>9. IsSource(longer) /\ Len(longer) = Len(lines) + 1
  BY <1>6 DEF IsSource
<1> QED BY <1>7, <1>8, <1>9

LEMMA RemovedLines ==
  ASSUME NEW lines, IsSource(lines), NEW i \in 1 .. Len(lines),
         NEW shorter, shorter = Seqs!RemoveAt(lines, i)
  PROVE  IsSource(shorter) /\ Len(shorter) < Len(lines)
<1>0. Len(lines) \in Nat /\ lines \in Seq(LineKind)
  BY LenProperties DEF IsSource
<1> DEFINE head == SubSeq(lines, 1, i - 1)
           tail == SubSeq(lines, i + 1, Len(lines))
<1>1. head \in Seq(LineKind) /\ Len(head) = i - 1
  BY <1>0, SubSeqProperties
<1>2. tail \in Seq(LineKind)
  BY <1>0, SubSeqProperties
<1>3. Len(tail) = IF i + 1 <= Len(lines) THEN Len(lines) - (i + 1) + 1 ELSE 0
  BY <1>0, SubSeqProperties
<1>4. shorter = head \o tail
  BY DEF Seqs!RemoveAt
<1> HIDE DEF head, tail
<1>5. Len(tail) <= Len(lines) - i /\ Len(tail) \in Nat
  <2>1. CASE i + 1 <= Len(lines)
    BY <1>0, <1>3, <2>1
  <2>2. CASE ~(i + 1 <= Len(lines))
    BY <1>0, <1>3, <2>2
  <2> QED BY <2>1, <2>2
<1>6. shorter \in Seq(LineKind) /\ Len(shorter) = Len(head) + Len(tail)
  BY <1>1, <1>2, <1>4, ConcatProperties
<1> QED BY <1>0, <1>1, <1>5, <1>6 DEF IsSource

LEMMA LinesHoldNext ==
  ASSUME LinesHold, [Next]_vars
  PROVE  LinesHold'
<1> USE DEF LinesHold
<1>1. CASE InsertLine
  <2>1. PICK i \in 1 .. Len(source) + 1, kind \in Allowed :
          source' = Seqs!InsertAt(source, i, kind)
    BY <1>1 DEF InsertLine
  <2>2. IsSource(source')
    BY <2>1, KindsAreLines, InsertedLines
  <2> QED BY <1>1, <2>2 DEF InsertLine
<1>2. CASE RemoveLine
  <2>1. PICK i \in 1 .. Len(source) : source' = Seqs!RemoveAt(source, i)
    BY <1>2, LenProperties DEF RemoveLine, IsSource
  <2>2. IsSource(source')
    BY <2>1, RemovedLines
  <2> QED BY <1>2, <2>2 DEF RemoveLine
<1>3. CASE WorsenLine
  <2>1. PICK i \in DOMAIN source :
          /\ source' \in {[source EXCEPT ![i].severity = NextOf(Worse, @)],
                          [source EXCEPT ![i].confidence = NextOf(Surer, @)]}
          /\ source'[i] \in Allowed
    BY <1>3 DEF WorsenLine
  <2>2. PICK kind : source' = [source EXCEPT ![i] = kind]
    BY <2>1
  <2>3. source'[i] = kind /\ kind \in LineKind
    BY <2>1, <2>2, KindsAreLines
  <2>4. IsSource(source')
    BY <2>2, <2>3, ExceptSeq DEF IsSource
  <2> QED BY <1>3, <2>4 DEF WorsenLine
<1>4. CASE Assess
  BY <1>4 DEF Assess
<1>5. CASE Override
  BY <1>5 DEF Override
<1>6. CASE UNCHANGED vars
  BY <1>6 DEF vars
<1> QED BY <1>1, <1>2, <1>3, <1>4, <1>5, <1>6 DEF Next

\* The lines are lines, and at most one score is overridden (a bound).
THEOREM LinesInvariant == Spec => []LinesHold
<1>1. Init => LinesHold
  <2> SUFFICES ASSUME Init PROVE LinesHold
    OBVIOUS
  <2>1. <<>> \in Seq(LineKind)
    OBVIOUS
  <2> QED BY <2>1 DEF Init, LinesHold, IsSource
<1>2. LinesHold /\ [Next]_vars => LinesHold'
  BY LinesHoldNext
<1> QED BY <1>1, <1>2, PTL DEF Spec

\* Every finding of the two assessments is told once, as many of the earlier
\* are not resolved as are unchanged, and no key is both resolved and new.
THEOREM FindingsAreNeverLost == Spec => []NoFindingIsLost
<1>1. ASSUME LinesHold PROVE NoFindingIsLost
  <2> SUFFICES ASSUME baseline # None,
                      NEW before, before = FindingsIn(baseline),
                      NEW after, after = FindingsIn(source),
                      NEW found, found = Comparison.findings
               PROVE  /\ found.new \cup found.unchanged = after
                      /\ found.new \cap found.unchanged = {}
                      /\ found.resolved \subseteq before
                      /\ Cardinality(before \ found.resolved) = Cardinality(found.unchanged)
                      /\ \A f \in found.new, g \in found.resolved :
                           FindingKey(f) # FindingKey(g)
    BY DEF NoFindingIsLost
  <2>1. Ordered(before) /\ Ordered(after)
    BY <1>1, FindingsOfLines DEF LinesHold
  <2>2. found = CompareFindings(before, after)
    BY <1>1, RowsCompare
  <2>3. /\ found.new = {f \in after : Slot(f, after) \notin Slots(before)}
        /\ found.resolved = {f \in before : Slot(f, before) \notin Slots(after)}
        /\ found.unchanged = {f \in after : Slot(f, after) \in Slots(before)}
    BY <2>1, <2>2, ComparedBySlots
  <2>4. before \ found.resolved = {f \in before : Slot(f, before) \in Slots(after)}
    BY <2>3
  <2>5. Cardinality(before \ found.resolved) = Cardinality(found.unchanged)
    <3>0. /\ found.unchanged = SlotIn(after, Slots(before))
          /\ before \ found.resolved = SlotIn(before, Slots(after))
      BY <2>3, <2>4 DEF SlotIn
    <3>1. Cardinality(found.unchanged) = Cardinality(Slots(after) \cap Slots(before))
      BY <2>1, <3>0, CountBySlots
    <3>2. Cardinality(before \ found.resolved)
            = Cardinality(Slots(before) \cap Slots(after))
      BY <2>1, <3>0, CountBySlots
    <3>3. Slots(before) \cap Slots(after) = Slots(after) \cap Slots(before)
      OBVIOUS
    <3> QED BY <3>1, <3>2, <3>3
  <2>6. ASSUME NEW f \in found.new, NEW g \in found.resolved,
               FindingKey(f) = FindingKey(g)
        PROVE  FALSE
    <3> DEFINE key == FindingKey(f)
               p == Position(f, WithKey(after, key))
               q == Position(g, WithKey(before, key))
               a == Cardinality(WithKey(after, key))
               b == Cardinality(WithKey(before, key))
    <3>1. /\ f \in after /\ Slot(f, after) = <<key, p>> /\ <<key, p>> \in Slots(after)
          /\ <<key, p>> \notin Slots(before)
          /\ g \in before /\ Slot(g, before) = <<key, q>> /\ <<key, q>> \in Slots(before)
          /\ <<key, q>> \notin Slots(after)
      BY <2>3, <2>6 DEF Slot, Slots
    <3>2. a \in Nat /\ b \in Nat
      BY <2>1, KeysOrdered
    <3> HIDE DEF key, p, q
    <3>3. /\ p \in 1 .. a /\ p \notin 1 .. b
          /\ q \in 1 .. b /\ q \notin 1 .. a
      BY <2>1, <3>1, SlotsCount
    <3> HIDE DEF a, b
    <3> QED BY <3>2, <3>3
  <2> QED BY <2>3, <2>5, <2>6
<1> QED BY <1>1, LinesInvariant, PTL

\* The report is the same whichever of the two was chosen for the baseline.
THEOREM ChoiceNeverMatters == Spec => []ChoiceDoesNotMatter
<1>1. ASSUME LinesHold PROVE ChoiceDoesNotMatter
  <2> SUFFICES ASSUME baseline # None
               PROVE  CompareLoaded(Now, Before) = [Comparison EXCEPT !.reordered = TRUE]
    BY DEF ChoiceDoesNotMatter
  <2>1. /\ Comparison = Compared(Before, Now, FALSE)
        /\ CompareLoaded(Now, Before) = Compared(Before, Now, TRUE)
    BY <1>1, RowsCompare
  <2> DEFINE findings == CompareFindings(Before.findings, Now.findings)
             domains == CompareScores(Before.scores, Now.scores)
             no == FALSE
             yes == TRUE
  <2>2. /\ Comparison
             = [reordered |-> no, findings |-> findings, domains |-> domains]
        /\ CompareLoaded(Now, Before)
             = [reordered |-> yes, findings |-> findings, domains |-> domains]
    BY <2>1 DEF Compared
  <2> HIDE DEF findings, domains, no, yes
  <2>3. CompareLoaded(Now, Before) = [Comparison EXCEPT !.reordered = yes]
    BY <2>2
  <2> QED BY <2>3 DEF yes
<1> QED BY <1>1, LinesInvariant, PTL

(***************************************************************************)
(* One more line.                                                          *)
(***************************************************************************)
LinesOf(lines, C) == {j \in DOMAIN lines : lines[j] \in C}

\* Inserting a line adds one to the lines of the sets that it is in.
LEMMA LinesOfLonger ==
  ASSUME NEW lines, IsSource(lines), NEW i \in 1 .. Len(lines) + 1,
         NEW kind \in LineKind,
         NEW longer, longer = Seqs!InsertAt(lines, i, kind), NEW C
  PROVE  /\ IsFiniteSet(LinesOf(lines, C)) /\ Cardinality(LinesOf(lines, C)) \in Nat
         /\ Cardinality(LinesOf(longer, C))
              = IF kind \in C THEN Cardinality(LinesOf(lines, C)) + 1
                              ELSE Cardinality(LinesOf(lines, C))
<1> DEFINE those == LinesOf(lines, C)
           others == LinesOf(longer, C) \ {i}
           map == [j \in those |-> IF j < i THEN j ELSE j + 1]
<1>1. /\ Len(lines) \in Nat /\ DOMAIN lines = 1 .. Len(lines)
      /\ DOMAIN longer = 1 .. Len(lines) + 1
      /\ \A j \in 1 .. i - 1 : longer[j] = lines[j]
      /\ longer[i] = kind
      /\ \A j \in i .. Len(lines) : longer[j + 1] = lines[j]
  BY InsertedLines, LenProperties DEF IsSource
<1>2. IsFiniteSet(those) /\ Cardinality(those) \in Nat
  <2>1. those \in SUBSET (1 .. Len(lines))
    BY <1>1 DEF LinesOf
  <2>2. IsFiniteSet(1 .. Len(lines))
    BY <1>1, FS_Interval
  <2> HIDE DEF those
  <2> QED BY <2>1, <2>2, FS_Subset, FS_CardinalityType
<1>3. \A j \in those : j \in 1 .. Len(lines) /\ lines[j] \in C
  BY <1>1 DEF LinesOf
<1>4. \A j : j \in others <=> /\ j \in 1 .. Len(lines) + 1 /\ j # i /\ longer[j] \in C
  BY <1>1 DEF LinesOf
<1>5. \A j \in 1 .. Len(lines) : j \in those <=> lines[j] \in C
  BY <1>1 DEF LinesOf
<1> HIDE DEF those, others
<1>6. map \in [those -> others]
  BY <1>1, <1>3, <1>4
<1>7. \A j, k \in those : map[j] = map[k] => j = k
  BY <1>1, <1>3
<1>8. ASSUME NEW t \in others PROVE \E j \in those : map[j] = t
  <2>1. CASE t < i
    <3>1. t \in 1 .. Len(lines) /\ lines[t] = longer[t] /\ longer[t] \in C
      BY <1>1, <1>4, <2>1
    <3> QED BY <1>5, <2>1, <3>1
  <2>2. CASE ~(t < i)
    <3>1. t - 1 \in i .. Len(lines) /\ (t - 1) + 1 = t /\ longer[t] \in C
      BY <1>1, <1>4, <2>2
    <3>2. t - 1 \in those /\ ~(t - 1 < i)
      BY <1>1, <1>5, <3>1
    <3> QED BY <3>1, <3>2
  <2> QED BY <2>1, <2>2
<1> HIDE DEF map
<1>9. IsFiniteSet(others) /\ Cardinality(others) = Cardinality(those)
  BY <1>2, <1>6, <1>7, <1>8, CountedByMap
<1>10. i \notin others /\ i \in DOMAIN longer
  BY <1>1, <1>4
<1>11. CASE kind \in C
  <2>1. LinesOf(longer, C) = others \cup {i}
    BY <1>1, <1>10, <1>11 DEF others, LinesOf
  <2> QED BY ZenonT(60), <1>2, <1>9, <1>10, <1>11, <2>1, FS_AddElement DEF those
<1>12. CASE kind \notin C
  <2>1. LinesOf(longer, C) = others
    BY <1>1, <1>10, <1>12 DEF others, LinesOf
  <2> QED BY <1>2, <1>9, <1>12, <2>1 DEF those
<1> QED BY <1>11, <1>12

(***************************************************************************)
(* Findings are counted by the lines that have them.                       *)
(***************************************************************************)
KindKey(kind) == [rule |-> kind.rule, path |-> kind.path, evidence |-> kind.evidence]

Telling == {kind \in LineKind : kind.rule # "none"}

KindsWith(key) == {kind \in Telling : KindKey(kind) = key}

\* Findings are as many as the lines they are on: all of them, and those with a key.
LEMMA FindingsByLines ==
  ASSUME NEW lines, IsSource(lines), NEW key
  PROVE  /\ Cardinality(WithKey(FindingsIn(lines), key))
              = Cardinality(LinesOf(lines, KindsWith(key)))
         /\ Cardinality(FindingsIn(lines)) = Cardinality(LinesOf(lines, Telling))
<1> DEFINE fs == FindingsIn(lines)
<1>1. /\ IsFiniteSet(fs) /\ DOMAIN lines = 1 .. Len(lines) /\ Len(lines) \in Nat
      /\ \A i \in DOMAIN lines : lines[i] \in LineKind
  BY FindingsOfLines DEF Ordered
<1>2. ASSUME NEW part \in SUBSET fs, NEW C \in SUBSET LineKind,
             \A i \in DOMAIN lines : lines[i] \in C <=> FindingAt(lines, i) \in part
      PROVE  Cardinality(part) = Cardinality(LinesOf(lines, C))
  <2> DEFINE map == [f \in part |-> f.id]
  <2>1. \A f \in part : f.id \in DOMAIN lines /\ f = FindingAt(lines, f.id)
    BY FindingsOfLines
  <2>2. map \in [part -> LinesOf(lines, C)]
    BY <1>2, <2>1 DEF LinesOf
  <2>3. \A f, g \in part : map[f] = map[g] => f = g
    BY <2>1
  <2>4. ASSUME NEW i \in LinesOf(lines, C) PROVE \E f \in part : map[f] = i
    <3>1. FindingAt(lines, i) \in part /\ FindingAt(lines, i).id = i
      BY <1>2, <2>4 DEF LinesOf, FindingAt
    <3> QED BY <3>1
  <2>5. IsFiniteSet(part)
    BY <1>1, FS_Subset
  <2> HIDE DEF map
  <2> QED BY <2>2, <2>3, <2>4, <2>5, CountedByMap
<1>3. \A i \in DOMAIN lines : FindingAt(lines, i) \in fs <=> lines[i] \in Telling
  <2> SUFFICES ASSUME NEW i \in DOMAIN lines
               PROVE  FindingAt(lines, i) \in fs <=> lines[i].rule # "none"
    BY <1>1 DEF Telling
  <2>1. lines[i].rule # "none" => FindingAt(lines, i) \in fs
    BY DEF FindingsIn
  <2>2. FindingAt(lines, i) \in fs => lines[FindingAt(lines, i).id].rule # "none"
    BY FindingsOfLines
  <2>3. FindingAt(lines, i).id = i
    BY DEF FindingAt
  <2> QED BY <2>1, <2>2, <2>3
<1>4. \A i \in DOMAIN lines : FindingKey(FindingAt(lines, i)) = KindKey(lines[i])
  BY DEF FindingKey, FindingAt, KindKey
<1>5. \A i \in DOMAIN lines : FindingAt(lines, i) \in WithKey(fs, key)
                                <=> lines[i] \in KindsWith(key)
  BY <1>3, <1>4 DEF WithKey, KindsWith
<1>6. /\ WithKey(fs, key) \in SUBSET fs /\ fs \in SUBSET fs
      /\ KindsWith(key) \in SUBSET LineKind /\ Telling \in SUBSET LineKind
  BY DEF WithKey, KindsWith, Telling
<1> HIDE DEF fs
<1>7. Cardinality(WithKey(fs, key)) = Cardinality(LinesOf(lines, KindsWith(key)))
  BY <1>2, <1>5, <1>6
<1>8. Cardinality(fs) = Cardinality(LinesOf(lines, Telling))
  BY <1>2, <1>3, <1>6
<1> QED BY <1>7, <1>8 DEF fs

\* What one more line does to the slots of the findings.
LEMMA SlotsOfLonger ==
  ASSUME NEW lines, IsSource(lines), NEW i \in 1 .. Len(lines) + 1,
         NEW kind \in LineKind,
         NEW longer, longer = Seqs!InsertAt(lines, i, kind),
         NEW were, were = Slots(FindingsIn(lines)),
         NEW are, are = Slots(FindingsIn(longer))
  PROVE  /\ \/ /\ are = were
               /\ Cardinality(FindingsIn(longer)) = Cardinality(FindingsIn(lines))
            \/ /\ \E slot : slot \notin were /\ are = were \cup {slot}
               /\ Cardinality(FindingsIn(longer)) = Cardinality(FindingsIn(lines)) + 1
<1> DEFINE N(key) == Cardinality(LinesOf(lines, KindsWith(key)))
           M(key) == Cardinality(LinesOf(longer, KindsWith(key)))
<1>1. IsSource(longer) /\ Ordered(FindingsIn(lines)) /\ Ordered(FindingsIn(longer))
  BY InsertedLines, FindingsOfLines
<1>2. ASSUME NEW key
      PROVE  /\ N(key) \in Nat
             /\ M(key) = IF kind \in KindsWith(key) THEN N(key) + 1 ELSE N(key)
             /\ \A p : <<key, p>> \in were <=> p \in 1 .. N(key)
             /\ \A p : <<key, p>> \in are <=> p \in 1 .. M(key)
  <2>1. /\ N(key) \in Nat
        /\ M(key) = IF kind \in KindsWith(key) THEN N(key) + 1 ELSE N(key)
    BY LinesOfLonger
  <2>2. /\ Cardinality(WithKey(FindingsIn(lines), key)) = N(key)
        /\ Cardinality(WithKey(FindingsIn(longer), key)) = M(key)
    BY <1>1, FindingsByLines
  <2> HIDE DEF N, M
  <2>3. \A p : <<key, p>> \in were <=> p \in 1 .. N(key)
    BY <1>1, <2>2, SlotsCount
  <2>4. \A p : <<key, p>> \in are <=> p \in 1 .. M(key)
    BY <1>1, <2>2, SlotsCount
  <2> QED BY <2>1, <2>3, <2>4
<1>3. /\ \A slot \in were : \E key, p : slot = <<key, p>>
      /\ \A slot \in are : \E key, p : slot = <<key, p>>
  <2>1. \A fs : \A slot \in Slots(fs) : \E key, p : slot = <<key, p>>
    BY DEF Slots, Slot
  <2> QED BY <2>1
<1>4. /\ Cardinality(FindingsIn(longer))
           = IF kind \in Telling THEN Cardinality(FindingsIn(lines)) + 1
                                 ELSE Cardinality(FindingsIn(lines))
  BY <1>1, FindingsByLines, LinesOfLonger
<1> HIDE DEF N, M
<1>5. CASE kind \notin Telling
  <2>1. \A key : kind \notin KindsWith(key)
    BY <1>5 DEF KindsWith
  <2>2. \A key, p : <<key, p>> \in are <=> <<key, p>> \in were
    BY <1>2, <2>1
  <2>3. ASSUME NEW s PROVE s \in are <=> s \in were
    <3>1. CASE \E key, p : s = <<key, p>>
      BY <2>2, <3>1
    <3>2. CASE ~ \E key, p : s = <<key, p>>
      BY <1>3, <3>2
    <3> QED BY <3>1, <3>2
  <2>4. are = were
    BY <2>3
  <2> QED BY <1>4, <1>5, <2>4
<1>6. CASE kind \in Telling
  <2> DEFINE k == KindKey(kind)
             slot == <<k, N(k) + 1>>
  <2>1. \A key : kind \in KindsWith(key) <=> key = k
    BY <1>6 DEF KindsWith
  <2> HIDE DEF k
  <2>2. \A key : key # k => \A p : <<key, p>> \in are <=> <<key, p>> \in were
    BY <1>2, <2>1
  <2>3. N(k) \in Nat /\ M(k) = N(k) + 1
    BY <1>2, <2>1
  <2>4. \A p : p \in 1 .. M(k) <=> p \in 1 .. N(k) \/ p = N(k) + 1
    BY <2>3
  <2>5. \A p : <<k, p>> \in are <=> <<k, p>> \in were \/ p = N(k) + 1
    BY <1>2, <2>4
  <2>6. slot \notin were
    <3>1. N(k) + 1 \notin 1 .. N(k)
      BY <2>3
    <3> QED BY <1>2, <3>1
  <2>7. ASSUME NEW s PROVE s \in are <=> s \in were \cup {slot}
    <3>1. CASE \E key, p : s = <<key, p>>
      BY <2>2, <2>5, <3>1
    <3>2. CASE ~ \E key, p : s = <<key, p>>
      BY <1>3, <3>2
    <3> QED BY <3>1, <3>2
  <2>8. are = were \cup {slot}
    BY <2>7
  <2> QED BY <1>4, <1>6, <2>6, <2>8
<1> QED BY <1>5, <1>6

\* What is told is how many slots the two have alone and in common.
LEMMA ToldBySlots ==
  ASSUME NEW lines, IsSource(lines), IsSource(baseline),
         NEW B, B = Slots(FindingsIn(baseline)), NEW A, A = Slots(FindingsIn(lines))
  PROVE  /\ Told(lines) = [new |-> Cardinality(A \ B), resolved |-> Cardinality(B \ A),
                           unchanged |-> Cardinality(A \cap B)]
         /\ IsFiniteSet(A) /\ IsFiniteSet(B)
<1> DEFINE before == FindingsIn(baseline)
           after == FindingsIn(lines)
           found == CompareFindings(before, after)
<1>1. Ordered(before) /\ Ordered(after)
  BY FindingsOfLines
<1>2. found = [new |-> {f \in after : Slot(f, after) \notin B},
               resolved |-> {f \in before : Slot(f, before) \notin A},
               unchanged |-> {f \in after : Slot(f, after) \in B}]
  <2> HIDE DEF before, after
  <2> QED BY <1>1, ComparedBySlots DEF before, after
<1>3. /\ found.new = SlotIn(after, A \ B)
      /\ found.resolved = SlotIn(before, B \ A)
      /\ found.unchanged = SlotIn(after, B)
  BY <1>2 DEF SlotIn, Slots
<1>4. /\ Cardinality(found.new) = Cardinality(A \cap (A \ B))
      /\ Cardinality(found.resolved) = Cardinality(B \cap (B \ A))
      /\ Cardinality(found.unchanged) = Cardinality(A \cap B)
      /\ IsFiniteSet(A \cap A) /\ IsFiniteSet(B \cap B)
  BY <1>1, <1>3, CountBySlots
<1>5. A \cap (A \ B) = A \ B /\ B \cap (B \ A) = B \ A /\ A \cap A = A /\ B \cap B = B
  OBVIOUS
<1>6. DOMAIN found = {"new", "resolved", "unchanged"}
  BY <1>2
<1>7. Told(lines) = [field \in DOMAIN found |-> Cardinality(found[field])]
  BY DEF Told
<1> HIDE DEF found
<1> QED BY <1>4, <1>5, <1>6, <1>7

\* What a step does to the lines.
LEMMA LinesStep ==
  ASSUME LinesHold, [Next]_vars
  PROVE  \/ source' = source
         \/ \E i \in 1 .. Len(source) + 1, kind \in LineKind :
              source' = Seqs!InsertAt(source, i, kind)
         \/ Len(source') < Len(source)
         \/ /\ Len(source') = Len(source)
            /\ \E i \in 1 .. Len(source), kind \in LineKind :
                 /\ source' = [source EXCEPT ![i] = kind]
                 /\ kind \in {[source[i] EXCEPT !.severity = NextOf(Worse, @)],
                              [source[i] EXCEPT !.confidence = NextOf(Surer, @)]}
<1>0. source \in Seq(LineKind) /\ Len(source) \in Nat /\ DOMAIN source = 1 .. Len(source)
  BY LenProperties DEF LinesHold, IsSource
<1>1. CASE InsertLine
  BY <1>1, KindsAreLines DEF InsertLine
<1>2. CASE RemoveLine
  <2>1. PICK i \in 1 .. Len(source) : source' = Seqs!RemoveAt(source, i)
    BY <1>0, <1>2 DEF RemoveLine
  <2>2. Len(source') < Len(source)
    BY <2>1, RemovedLines DEF LinesHold
  <2> QED BY <2>2
<1>3. CASE WorsenLine
  <2>1. PICK i \in 1 .. Len(source) :
          /\ source' \in {[source EXCEPT ![i].severity = NextOf(Worse, @)],
                          [source EXCEPT ![i].confidence = NextOf(Surer, @)]}
          /\ source'[i] \in Allowed
    BY <1>0, <1>3 DEF WorsenLine
  <2>2. PICK kind : /\ source' = [source EXCEPT ![i] = kind]
                    /\ kind \in {[source[i] EXCEPT !.severity = NextOf(Worse, @)],
                                 [source[i] EXCEPT !.confidence = NextOf(Surer, @)]}
    BY <2>1
  <2>3. source'[i] = kind /\ kind \in LineKind
    BY <1>0, <2>1, <2>2, KindsAreLines
  <2>4. Len(source') = Len(source)
    BY <1>0, <2>2, <2>3, ExceptSeq
  <2> QED BY <2>2, <2>3, <2>4
<1>4. CASE UNCHANGED source
  BY <1>4
<1> QED BY <1>1, <1>2, <1>3, <1>4 DEF Next, Assess, Override, vars

\* A step that adds a line: one more finding is told as one more that is new,
\* or as one resolved less and one unchanged more; a line without a finding
\* changes nothing that is told.  Removed and reweighed lines are not spoken of.
THEOREM EditsAreAlwaysTold == Spec => EditsAreTold
<1>1. ASSUME LinesHold, [Next]_vars
      PROVE  [baseline # None /\ Len(source') > Len(source) =>
                \A was \in {Told(source)}, lines \in {source'} :
                  \/ /\ Cardinality(FindingsIn(lines)) = Cardinality(FindingsIn(source))
                     /\ Told(lines) = was
                  \/ /\ Cardinality(FindingsIn(lines))
                          = Cardinality(FindingsIn(source)) + 1
                     /\ Told(lines) \in
                          {[was EXCEPT !.new = @ + 1],
                           [was EXCEPT !.resolved = @ - 1, !.unchanged = @ + 1]}]_vars
  <2> SUFFICES ASSUME baseline # None, Len(source') > Len(source),
                      NEW was, was = Told(source), NEW lines, lines = source'
               PROVE  \/ /\ Cardinality(FindingsIn(lines))
                              = Cardinality(FindingsIn(source))
                         /\ Told(lines) = was
                      \/ /\ Cardinality(FindingsIn(lines))
                              = Cardinality(FindingsIn(source)) + 1
                         /\ Told(lines) \in
                              {[was EXCEPT !.new = @ + 1],
                               [was EXCEPT !.resolved = @ - 1, !.unchanged = @ + 1]}
    OBVIOUS
  <2>1. PICK i \in 1 .. Len(source) + 1, kind \in LineKind :
          lines = Seqs!InsertAt(source, i, kind)
    BY <1>1, LinesStep
  <2>2. IsSource(source) /\ IsSource(baseline) /\ IsSource(lines)
    BY <1>1, <2>1, InsertedLines DEF LinesHold
  <2> DEFINE B == Slots(FindingsIn(baseline))
             A == Slots(FindingsIn(source))
             C == Slots(FindingsIn(lines))
  <2>3. /\ was = [new |-> Cardinality(A \ B), resolved |-> Cardinality(B \ A),
                  unchanged |-> Cardinality(A \cap B)]
        /\ Told(lines) = [new |-> Cardinality(C \ B), resolved |-> Cardinality(B \ C),
                          unchanged |-> Cardinality(C \cap B)]
        /\ IsFiniteSet(A) /\ IsFiniteSet(B) /\ IsFiniteSet(C)
    BY <2>2, ToldBySlots
  <2>4. \/ /\ C = A
           /\ Cardinality(FindingsIn(lines)) = Cardinality(FindingsIn(source))
        \/ /\ \E slot : slot \notin A /\ C = A \cup {slot}
           /\ Cardinality(FindingsIn(lines)) = Cardinality(FindingsIn(source)) + 1
    BY <2>1, <2>2, SlotsOfLonger
  <2> HIDE DEF A, B, C
  <2>7. PICK n, r, u : /\ n = Cardinality(A \ B) /\ r = Cardinality(B \ A)
                       /\ u = Cardinality(A \cap B)
    OBVIOUS
  <2>8. was = [new |-> n, resolved |-> r, unchanged |-> u]
    BY <2>3, <2>7
  <2>9. /\ [was EXCEPT !.new = @ + 1]
             = [new |-> n + 1, resolved |-> r, unchanged |-> u]
        /\ [was EXCEPT !.resolved = @ - 1, !.unchanged = @ + 1]
             = [new |-> n, resolved |-> r - 1, unchanged |-> u + 1]
    <3>1. was \in [new : {n}, resolved : {r}, unchanged : {u}]
      BY <2>8
    <3>2. [was EXCEPT !.new = @ + 1] = [new |-> n + 1, resolved |-> r, unchanged |-> u]
      BY ONLY <3>1
    <3>3. PICK w : w = [was EXCEPT !.resolved = @ - 1]
      OBVIOUS
    <3>4. w \in [new : {n}, resolved : {r - 1}, unchanged : {u}]
      BY ONLY <3>1, <3>3
    <3>5. [w EXCEPT !.unchanged = was.unchanged + 1]
            = [new |-> n, resolved |-> r - 1, unchanged |-> u + 1]
      BY ONLY <3>1, <3>4
    <3>6. [was EXCEPT !.resolved = @ - 1, !.unchanged = @ + 1]
            = [w EXCEPT !.unchanged = was.unchanged + 1]
      BY <3>3, Zenon
    <3> QED BY <3>2, <3>5, <3>6, Zenon
  <2>5. CASE C = A /\ Cardinality(FindingsIn(lines)) = Cardinality(FindingsIn(source))
    BY <2>3, <2>5
  <2>6. CASE /\ \E slot : slot \notin A /\ C = A \cup {slot}
             /\ Cardinality(FindingsIn(lines)) = Cardinality(FindingsIn(source)) + 1
    <3>1. PICK slot : slot \notin A /\ C = A \cup {slot}
      BY <2>6
    <3>2. /\ IsFiniteSet(A \ B) /\ IsFiniteSet(B \ A) /\ IsFiniteSet(A \cap B)
          /\ A \ B \in SUBSET A /\ B \ A \in SUBSET B /\ A \cap B \in SUBSET A
      BY <2>3, FS_Subset
    <3>3. CASE slot \in B
      <4>1. /\ C \ B = A \ B /\ B \ C = (B \ A) \ {slot} /\ slot \in B \ A
            /\ C \cap B = (A \cap B) \cup {slot} /\ slot \notin A \cap B
        BY <3>1, <3>3
      <4>2. Cardinality(B \ C) = Cardinality(B \ A) - 1
        <5>1. PICK alone : alone = B \ A
          OBVIOUS
        <5>2. IsFiniteSet(alone) /\ slot \in alone /\ B \ C = alone \ {slot}
          BY <3>2, <4>1, <5>1
        <5>3. Cardinality(alone \ {slot}) = Cardinality(alone) - 1
          BY <5>2, FS_RemoveElement
        <5> QED BY <5>1, <5>2, <5>3
      <4>3. Cardinality(C \cap B) = Cardinality(A \cap B) + 1
        BY <3>2, <4>1, FS_AddElement
      <4>4. Told(lines) = [new |-> n, resolved |-> r - 1, unchanged |-> u + 1]
        BY <2>3, <2>7, <4>1, <4>2, <4>3
      <4>5. Told(lines) = [was EXCEPT !.resolved = @ - 1, !.unchanged = @ + 1]
        BY <2>9, <4>4, Zenon
      <4> QED BY <2>6, <4>5
    <3>4. CASE slot \notin B
      <4>1. /\ C \ B = (A \ B) \cup {slot} /\ slot \notin A \ B
            /\ B \ C = B \ A /\ C \cap B = A \cap B
        BY <3>1, <3>4
      <4>2. Cardinality(C \ B) = Cardinality(A \ B) + 1
        BY <3>2, <4>1, FS_AddElement
      <4>3. Told(lines) = [new |-> n + 1, resolved |-> r, unchanged |-> u]
        BY <2>3, <2>7, <4>1, <4>2
      <4>4. Told(lines) = [was EXCEPT !.new = @ + 1]
        BY <2>9, <4>3, Zenon
      <4> QED BY <2>6, <4>4
    <3> QED BY <3>3, <3>4
  <2> QED BY <2>4, <2>5, <2>6
<1> QED BY <1>1, LinesInvariant, PTL DEF Spec, EditsAreTold

(***************************************************************************)
(* The weight of findings: the sum of their deductions, in any order.      *)
(***************************************************************************)
SumOf(fs) ==
  MapThenFoldSet(LAMBDA m, n : m + n, 0, Deduction,
                 LAMBDA rest : CHOOSE f \in rest : TRUE, fs)

Pick(part) == CHOOSE f \in part : TRUE

IsSum(fs, sum) ==
  sum = [part \in SUBSET fs |->
           IF part = {} THEN 0 ELSE Deduction(Pick(part)) + sum[part \ {Pick(part)}]]

LEMMA SumsAgree ==
  ASSUME NEW S, IsFiniteSet(S), NEW T, NEW s, IsSum(S, s), NEW t, IsSum(T, t),
         NEW part \in SUBSET S, part \in SUBSET T
  PROVE  s[part] = t[part]
<1> DEFINE bad == {U \in SUBSET S : U \subseteq T /\ s[U] # t[U]}
<1>1. SUFFICES ASSUME bad # {} PROVE FALSE
  OBVIOUS
<1>2. bad \subseteq SUBSET S
  OBVIOUS
<1>3. PICK U \in bad : \A V \in bad : V \subseteq U => V = U
  <2> HIDE DEF bad
  <2> QED BY <1>1, <1>2, MinimalSubset
<1>4. U \subseteq S /\ U \subseteq T /\ s[U] # t[U]
  OBVIOUS
<1>5. CASE U = {}
  BY <1>4, <1>5 DEF IsSum
<1>6. CASE U # {}
  <2> DEFINE V == U \ {Pick(U)}
  <2>1. Pick(U) \in U
    BY <1>6 DEF Pick
  <2>2. V \subseteq U /\ V # U /\ V \subseteq S /\ V \subseteq T
    BY <1>4, <2>1
  <2>3. s[V] = t[V]
    BY <1>3, <2>2
  <2>4. s[U] = Deduction(Pick(U)) + s[V]
    BY <1>4, <1>6 DEF IsSum
  <2>5. t[U] = Deduction(Pick(U)) + t[V]
    BY <1>4, <1>6 DEF IsSum
  <2> QED BY <1>4, <2>3, <2>4, <2>5
<1> QED BY <1>5, <1>6

LEMMA SumExists ==
  ASSUME NEW S, IsFiniteSet(S)
  PROVE  \E sum : IsSum(S, sum)
<1> DEFINE bad == {T \in SUBSET S : ~ \E sum : IsSum(T, sum)}
<1>1. SUFFICES ASSUME bad # {} PROVE FALSE
  OBVIOUS
<1>2. bad \subseteq SUBSET S
  OBVIOUS
<1>3. PICK T \in bad : \A U \in bad : U \subseteq T => U = T
  <2> HIDE DEF bad
  <2> QED BY <1>1, <1>2, MinimalSubset
<1>4. T \in SUBSET S /\ ~ \E sum : IsSum(T, sum)
  OBVIOUS
<1>5. \A U \in SUBSET T : U # T => \E sum : IsSum(U, sum)
  BY <1>3, <1>4
<1>6. \A U \in SUBSET T : IsFiniteSet(U)
  BY <1>4, FS_Subset
<1> HIDE DEF bad
<1> DEFINE V(U) == (CHOOSE sum : IsSum(U, sum))[U]
           s == [part \in SUBSET T |->
                   IF part = {} THEN 0 ELSE Deduction(Pick(part)) + V(part \ {Pick(part)})]
<1>7. ASSUME NEW U \in SUBSET T, U # T, NEW g, IsSum(U, g)
      PROVE  V(U) = g[U]
  <2>1. PICK sum : sum = CHOOSE h : IsSum(U, h)
    OBVIOUS
  <2>2. IsSum(U, sum)
    BY <1>7, <2>1
  <2>3. V(U) = sum[U]
    BY <2>1
  <2>4. sum[U] = g[U]
    BY <1>6, <1>7, <2>2, SumsAgree
  <2> QED BY <2>3, <2>4
<1>8. ASSUME NEW U \in SUBSET T, U # T
      PROVE  s[U] = V(U)
  <2>1. PICK g : IsSum(U, g)
    BY <1>5, <1>8
  <2>2. V(U) = g[U]
    BY <1>7, <1>8, <2>1
  <2>3. CASE U = {}
    <3>1. g[U] = 0
      BY <2>1, <2>3 DEF IsSum
    <3>2. s[U] = 0
      BY <2>3
    <3> QED BY <2>2, <3>1, <3>2
  <2>4. CASE U # {}
    <3> DEFINE R == U \ {Pick(U)}
    <3>1. Pick(U) \in U
      BY <2>4 DEF Pick
    <3>2. R \in SUBSET U /\ R \in SUBSET T /\ R # T
      BY <3>1
    <3>3. g[U] = Deduction(Pick(U)) + g[R]
      BY <2>1, <2>4 DEF IsSum
    <3>4. s[U] = Deduction(Pick(U)) + V(R)
      BY <2>4
    <3>5. PICK h : IsSum(R, h)
      BY <1>5, <3>2
    <3>6. V(R) = h[R]
      BY <1>7, <3>2, <3>5
    <3>7. h[R] = g[R]
      <4>1. R \in SUBSET R /\ IsFiniteSet(R)
        BY <1>6, <3>2
      <4> HIDE DEF R
      <4> QED BY <2>1, <3>2, <3>5, <4>1, SumsAgree
    <3> QED BY <2>2, <3>3, <3>4, <3>6, <3>7
  <2> QED BY <2>3, <2>4
<1>9. ASSUME NEW part \in SUBSET T, part # {}
      PROVE  s[part] = Deduction(Pick(part)) + s[part \ {Pick(part)}]
  <2>1. Pick(part) \in part
    BY <1>9 DEF Pick
  <2>2. part \ {Pick(part)} \in SUBSET T /\ part \ {Pick(part)} # T
    BY <2>1
  <2>3. s[part \ {Pick(part)}] = V(part \ {Pick(part)})
    BY <1>8, <2>2
  <2>4. s[part] = Deduction(Pick(part)) + V(part \ {Pick(part)})
    BY <1>9
  <2> QED BY <2>3, <2>4
<1>10. s[{}] = 0 /\ DOMAIN s = SUBSET T /\ s = [part \in SUBSET T |-> s[part]]
  OBVIOUS
<1> HIDE DEF s, V
<1>11. IsSum(T, s)
  <2>1. \A part \in SUBSET T : s[part] = IF part = {} THEN 0
                                 ELSE Deduction(Pick(part)) + s[part \ {Pick(part)}]
    BY <1>9, <1>10
  <2> QED BY <1>10, <2>1 DEF IsSum
<1> QED BY <1>4, <1>11

LEMMA SumIs ==
  ASSUME NEW S, IsFiniteSet(S)
  PROVE  \E sum : IsSum(S, sum) /\ SumOf(S) = sum[S]
BY SumExists DEF SumOf, MapThenFoldSet, IsSum, Pick

\* The sum is of one finding and of the rest.
LEMMA SumStep ==
  ASSUME NEW fs, IsFiniteSet(fs)
  PROVE  /\ fs = {} => SumOf(fs) = 0
         /\ fs # {} => /\ Pick(fs) \in fs
                       /\ SumOf(fs) = Deduction(Pick(fs)) + SumOf(fs \ {Pick(fs)})
<1>1. PICK sum : IsSum(fs, sum) /\ SumOf(fs) = sum[fs]
  BY SumIs
<1>2. CASE fs = {}
  BY <1>1, <1>2 DEF IsSum
<1>3. CASE fs # {}
  <2> DEFINE rest == fs \ {Pick(fs)}
  <2>1. Pick(fs) \in fs
    BY <1>3 DEF Pick
  <2>2. rest \in SUBSET fs /\ rest \in SUBSET rest
    OBVIOUS
  <2>3. SumOf(fs) = Deduction(Pick(fs)) + sum[rest]
    BY <1>1, <1>3 DEF IsSum
  <2> HIDE DEF rest
  <2>4. IsFiniteSet(rest)
    BY <2>2, FS_Subset
  <2>5. PICK part : IsSum(rest, part) /\ SumOf(rest) = part[rest]
    BY <2>4, SumIs
  <2>6. sum[rest] = part[rest]
    BY <1>1, <2>2, <2>5, SumsAgree
  <2>7. SumOf(fs) = Deduction(Pick(fs)) + SumOf(rest)
    BY <2>3, <2>5, <2>6
  <2> QED BY <1>3, <2>1, <2>7 DEF rest
<1> QED BY <1>2, <1>3

Weighed(fs) ==
  /\ IsFiniteSet(fs)
  /\ \A f \in fs : f.severity \in Severities /\ f.confidence \in Confidences

LEMMA DeductionIsNat ==
  ASSUME NEW f, f.severity \in Severities, f.confidence \in Confidences
  PROVE  Deduction(f) \in Nat
BY DEF Deduction, Severities, Confidences, SeverityDeduction, ConfidenceMultiplier

LEMMA PartsWeighed ==
  ASSUME NEW fs, Weighed(fs), NEW part, part \subseteq fs
  PROVE  Weighed(part)
BY FS_Subset DEF Weighed

LEMMA SumIsNat ==
  ASSUME NEW fs, Weighed(fs)
  PROVE  SumOf(fs) \in Nat
<1> DEFINE bad == {T \in SUBSET fs : SumOf(T) \notin Nat}
<1>1. SUFFICES ASSUME bad # {} PROVE FALSE
  OBVIOUS
<1>2. bad \subseteq SUBSET fs /\ IsFiniteSet(fs)
  BY DEF Weighed
<1>3. PICK T \in bad : \A U \in bad : U \subseteq T => U = T
  <2> HIDE DEF bad
  <2> QED BY <1>1, <1>2, MinimalSubset
<1>4. T \in SUBSET fs /\ SumOf(T) \notin Nat
  OBVIOUS
<1>5. Weighed(T) /\ IsFiniteSet(T)
  BY <1>4, PartsWeighed DEF Weighed
<1>6. T # {} /\ Pick(T) \in T /\ SumOf(T) = Deduction(Pick(T)) + SumOf(T \ {Pick(T)})
  BY <1>4, <1>5, SumStep
<1>7. T \ {Pick(T)} \in SUBSET fs /\ T \ {Pick(T)} # T
  BY <1>4, <1>6
<1>8. SumOf(T \ {Pick(T)}) \in Nat
  BY <1>3, <1>7
<1>9. Deduction(Pick(T)) \in Nat
  BY <1>5, <1>6, DeductionIsNat DEF Weighed
<1> QED BY <1>4, <1>6, <1>8, <1>9

\* Whichever finding is taken first.
LEMMA SumOfAny ==
  ASSUME NEW fs, Weighed(fs), NEW x \in fs
  PROVE  SumOf(fs) = Deduction(x) + SumOf(fs \ {x})
<1> DEFINE Splits(T, y) == SumOf(T) = Deduction(y) + SumOf(T \ {y})
           bad == {T \in SUBSET fs : \E y \in T : ~Splits(T, y)}
<1>1. SUFFICES ASSUME bad # {} PROVE FALSE
  OBVIOUS
<1>2. bad \subseteq SUBSET fs /\ IsFiniteSet(fs)
  BY DEF Weighed
<1>3. PICK T \in bad : \A U \in bad : U \subseteq T => U = T
  <2> HIDE DEF bad
  <2> QED BY <1>1, <1>2, MinimalSubset
<1>4. PICK y \in T : ~Splits(T, y)
  OBVIOUS
<1>5. T \in SUBSET fs
  OBVIOUS
<1>6. \A U \in SUBSET T : U # T => \A z \in U : Splits(U, z)
  BY <1>3, <1>5
<1> HIDE DEF bad
<1> DEFINE c == Pick(T)
           T1 == T \ {c}
           T2 == T \ {y}
           T3 == T \ {c, y}
<1>7. Weighed(T) /\ IsFiniteSet(T)
  BY <1>5, PartsWeighed DEF Weighed
<1>8. c \in T /\ SumOf(T) = Deduction(c) + SumOf(T1)
  BY <1>4, <1>7, SumStep
<1>9. c # y
  BY <1>4, <1>8
<1>10. /\ T1 \in SUBSET T /\ T1 # T /\ y \in T1 /\ T1 \ {y} = T3
       /\ T2 \in SUBSET T /\ T2 # T /\ c \in T2 /\ T2 \ {c} = T3 /\ T3 \subseteq T
  BY <1>4, <1>8, <1>9
<1>11. SumOf(T1) = Deduction(y) + SumOf(T3)
  BY <1>6, <1>10
<1>12. SumOf(T2) = Deduction(c) + SumOf(T3)
  BY <1>6, <1>10
<1>13. Deduction(c) \in Nat /\ Deduction(y) \in Nat
  BY <1>4, <1>7, <1>8, DeductionIsNat DEF Weighed
<1>14. SumOf(T3) \in Nat
  BY <1>7, <1>10, PartsWeighed, SumIsNat
<1>15. SumOf(T) # Deduction(y) + SumOf(T2)
  BY <1>4
<1> HIDE DEF c, T1, T2, T3
<1> QED BY <1>8, <1>11, <1>12, <1>13, <1>14, <1>15

\* As many findings, none of them lighter, weigh no less.
LEMMA SumIsMonotone ==
  ASSUME NEW fs, Weighed(fs), NEW gs, Weighed(gs), NEW h \in [fs -> gs],
         \A x, y \in fs : h[x] = h[y] => x = y,
         \A x \in fs : Deduction(x) <= Deduction(h[x])
  PROVE  SumOf(fs) <= SumOf(gs)
<1> DEFINE Into(T, G) == \A x \in T : h[x] \in G
           bad == {T \in SUBSET fs : \E G \in SUBSET gs : Into(T, G) /\ ~(SumOf(T) <= SumOf(G))}
<1>1. SUFFICES ASSUME bad # {} PROVE FALSE
  <2>1. fs \in SUBSET fs /\ gs \in SUBSET gs /\ Into(fs, gs)
    OBVIOUS
  <2> QED BY <2>1
<1>2. bad \subseteq SUBSET fs /\ IsFiniteSet(fs)
  BY DEF Weighed
<1>3. PICK T \in bad : \A U \in bad : U \subseteq T => U = T
  <2> HIDE DEF bad
  <2> QED BY <1>1, <1>2, MinimalSubset
<1>4. PICK G \in SUBSET gs : Into(T, G) /\ ~(SumOf(T) <= SumOf(G))
  OBVIOUS
<1>5. T \in SUBSET fs
  OBVIOUS
<1>6. \A U \in SUBSET T : U # T =>
        \A H \in SUBSET gs : Into(U, H) => SumOf(U) <= SumOf(H)
  BY <1>3, <1>5
<1> HIDE DEF bad
<1>7. Weighed(T) /\ Weighed(G) /\ IsFiniteSet(T)
  BY <1>4, <1>5, PartsWeighed DEF Weighed
<1>8. SumOf(G) \in Nat
  BY <1>7, SumIsNat
<1>9. T # {}
  <2>1. T = {} => SumOf(T) = 0
    BY <1>7, SumStep
  <2> QED BY <1>4, <1>8, <2>1
<1>10. PICK x \in T : TRUE
  BY <1>9
<1> DEFINE U == T \ {x}
           H == G \ {h[x]}
<1>11. h[x] \in G /\ x \in fs /\ h[x] \in gs
  BY <1>4, <1>5, <1>10
<1>12. U \in SUBSET T /\ U # T /\ H \in SUBSET gs /\ U \subseteq fs /\ H \subseteq gs
  BY <1>4, <1>5, <1>10
<1>13. Into(U, H)
  BY <1>4, <1>5, <1>10
<1>14. SumOf(U) <= SumOf(H)
  BY <1>6, <1>12, <1>13
<1>15. SumOf(T) = Deduction(x) + SumOf(U)
  BY <1>7, <1>10, SumOfAny
<1>16. SumOf(G) = Deduction(h[x]) + SumOf(H)
  BY <1>7, <1>11, SumOfAny
<1>17. SumOf(U) \in Nat /\ SumOf(H) \in Nat
  BY <1>12, PartsWeighed, SumIsNat
<1>18. Deduction(x) \in Nat /\ Deduction(h[x]) \in Nat /\ Deduction(x) <= Deduction(h[x])
  BY <1>11, DeductionIsNat DEF Weighed
<1>19. ~(SumOf(T) <= SumOf(G))
  BY <1>4
<1> HIDE DEF U, H, Into
<1> QED BY <1>14, <1>15, <1>16, <1>17, <1>18, <1>19

(***************************************************************************)
(* Verdicts.                                                               *)
(***************************************************************************)
LEMMA Ranks ==
  /\ Rank("ACCEPTABLE") = 1 /\ Rank("ACCEPTABLE_WITH_OBSERVATIONS") = 2
  /\ Rank("REMEDIATION_REQUIRED") = 3 /\ Rank("HIGH_RISK") = 4
  /\ Rank("CRITICAL_RISK") = 5
  /\ ~Ranked("INSUFFICIENT_EVIDENCE") /\ ~Ranked("MANUAL_REVIEW_REQUIRED")
<1>1. /\ DOMAIN Ranking = 1 .. 5
      /\ Ranking[1] = "ACCEPTABLE" /\ Ranking[2] = "ACCEPTABLE_WITH_OBSERVATIONS"
      /\ Ranking[3] = "REMEDIATION_REQUIRED" /\ Ranking[4] = "HIGH_RISK"
      /\ Ranking[5] = "CRITICAL_RISK"
  BY DEF Ranking
<1>2. \A i \in DOMAIN Ranking : i = 1 \/ i = 2 \/ i = 3 \/ i = 4 \/ i = 5
  BY <1>1
<1>3. \A i, j \in DOMAIN Ranking : Ranking[i] = Ranking[j] => i = j
  BY <1>1, <1>2
<1>4. ASSUME NEW i \in DOMAIN Ranking PROVE Rank(Ranking[i]) = i
  BY <1>3 DEF Rank
<1>5. ~Ranked("INSUFFICIENT_EVIDENCE") /\ ~Ranked("MANUAL_REVIEW_REQUIRED")
  BY <1>1, <1>2 DEF Ranked
<1>6. 1 \in DOMAIN Ranking /\ 2 \in DOMAIN Ranking /\ 3 \in DOMAIN Ranking
      /\ 4 \in DOMAIN Ranking /\ 5 \in DOMAIN Ranking
  BY <1>1
<1> QED BY <1>1, <1>4, <1>5, <1>6

LEMMA CategoriesMonotone ==
  ASSUME NEW m \in Int, NEW n \in Int, n <= m
  PROVE  /\ Rank(CategoryOf(m)) <= Rank(CategoryOf(n))
         /\ Rank(CategoryOf(m)) \in 1 .. 4
BY Ranks DEF CategoryOf, HighRiskThreshold, RemediationRequiredThreshold,
             AcceptableWithObservationsThreshold

\* A verdict on findings among which others are found again, none of them
\* lighter, is no better than the verdict on the others.
LEMMA VerdictIsMonotone ==
  ASSUME NEW fs, Weighed(fs), NEW gs, Weighed(gs), NEW h \in [fs -> gs],
         \A x, y \in fs : h[x] = h[y] => x = y,
         \A x \in fs : /\ Deduction(x) <= Deduction(h[x])
                       /\ x.severity = "CRITICAL" => h[x].severity = "CRITICAL",
         NEW e, NEW k,
         Ranked(DecisionCategory(fs, e)), Ranked(DecisionCategory(gs, k))
  PROVE  Rank(DecisionCategory(fs, e)) <= Rank(DecisionCategory(gs, k))
<1> DEFINE Critical(part) == \E f \in part : f.severity = "CRITICAL"
           CategoryFor(part) == IF Critical(part) THEN "CRITICAL_RISK"
                                ELSE CategoryOf(WeightedScore(part))
<1>1. DecisionCategory(fs, e) = CategoryFor(fs)
  BY Ranks DEF DecisionCategory
<1>2. DecisionCategory(gs, k) = CategoryFor(gs)
  BY Ranks DEF DecisionCategory
<1>3. Critical(fs) => Critical(gs)
  OBVIOUS
<1>4. SumOf(fs) \in Nat /\ SumOf(gs) \in Nat /\ SumOf(fs) <= SumOf(gs)
  BY SumIsNat, SumIsMonotone
<1>5. /\ WeightedScore(fs) = AtLeastZero(1000 - SumOf(fs))
      /\ WeightedScore(gs) = AtLeastZero(1000 - SumOf(gs))
  BY DEF WeightedScore, SumOf
<1>6. /\ WeightedScore(fs) \in Int /\ WeightedScore(gs) \in Int
      /\ WeightedScore(gs) <= WeightedScore(fs)
  BY <1>4, <1>5 DEF AtLeastZero
<1>7. /\ Rank(CategoryOf(WeightedScore(fs))) <= Rank(CategoryOf(WeightedScore(gs)))
      /\ Rank(CategoryOf(WeightedScore(fs))) \in 1 .. 4
      /\ Rank(CategoryOf(WeightedScore(gs))) \in 1 .. 4
  BY <1>6, CategoriesMonotone
<1>8. Rank("CRITICAL_RISK") = 5
  BY Ranks
<1> HIDE DEF Critical
<1> QED BY <1>1, <1>2, <1>3, <1>7, <1>8

Heavier(kind, other) ==
  /\ kind.path = other.path
  /\ kind.rule # "none" => other.rule # "none"
  /\ Deduction(kind) <= Deduction(other)
  /\ kind.severity = "CRITICAL" => other.severity = "CRITICAL"

LEMMA FindingsWeighed ==
  ASSUME NEW lines, IsSource(lines), NEW d
  PROVE  Weighed(FindingsIn(lines)) /\ Weighed(InDomain(FindingsIn(lines), d))
<1>1. IsFiniteSet(FindingsIn(lines))
  BY FindingsOfLines DEF Ordered
<1>2. \A f \in FindingsIn(lines) : f.severity \in Severities /\ f.confidence \in Confidences
  <2> SUFFICES ASSUME NEW f \in FindingsIn(lines)
               PROVE  f.severity \in Severities /\ f.confidence \in Confidences
    OBVIOUS
  <2>1. lines[f.id] \in LineKind /\ f = FindingAt(lines, f.id)
    BY FindingsOfLines
  <2>2. f.severity = lines[f.id].severity /\ f.confidence = lines[f.id].confidence
    BY <2>1 DEF FindingAt
  <2> QED BY <2>1, <2>2 DEF LineKind
<1>3. Weighed(FindingsIn(lines))
  BY <1>1, <1>2 DEF Weighed
<1>4. InDomain(FindingsIn(lines), d) \subseteq FindingsIn(lines)
  BY DEF InDomain
<1> QED BY <1>3, <1>4, PartsWeighed

\* Lines that are found again, none of them lighter, among others.
LEMMA LinesAreMonotone ==
  ASSUME NEW lines, IsSource(lines), NEW others, IsSource(others),
         NEW to \in [1 .. Len(lines) -> 1 .. Len(others)],
         \A i, j \in 1 .. Len(lines) : to[i] = to[j] => i = j,
         \A i \in 1 .. Len(lines) : Heavier(lines[i], others[to[i]]),
         NEW d \in Domains,
         NEW was, was = Verdict(lines)[d], NEW is, is = Verdict(others)[d],
         Ranked(was), Ranked(is)
  PROVE  Rank(was) <= Rank(is)
<1> DEFINE fs == InDomain(FindingsIn(lines), d)
           gs == InDomain(FindingsIn(others), d)
           h == [f \in fs |-> FindingAt(others, to[f.id])]
<1>1. /\ was = DecisionCategory(fs, d \in Mapped(lines))
      /\ is = DecisionCategory(gs, d \in Mapped(others))
  BY DEF Verdict, ScoreAllDomains
<1>2. Weighed(fs) /\ Weighed(gs)
  BY FindingsWeighed
<1>3. ASSUME NEW f \in fs
      PROVE  /\ f.id \in 1 .. Len(lines) /\ f = FindingAt(lines, f.id)
             /\ to[f.id] \in 1 .. Len(others) /\ h[f].id = to[f.id]
             /\ h[f] \in gs
             /\ Deduction(f) <= Deduction(h[f])
             /\ f.severity = "CRITICAL" => h[f].severity = "CRITICAL"
  <2>1. /\ f \in FindingsIn(lines) /\ d \in f.domains
        /\ f.id \in 1 .. Len(lines) /\ f = FindingAt(lines, f.id)
        /\ lines[f.id].rule # "none"
    BY FindingsOfLines DEF InDomain
  <2> DEFINE i == to[f.id]
  <2>2. i \in 1 .. Len(others) /\ i \in DOMAIN others
    BY <2>1, FindingsOfLines
  <2>3. h[f] = FindingAt(others, i)
    OBVIOUS
  <2>4. Heavier(lines[f.id], others[i])
    BY <2>1
  <2> HIDE DEF h, i
  <2>5. /\ h[f].id = i /\ h[f].severity = others[i].severity
        /\ h[f].confidence = others[i].confidence
        /\ h[f].domains = {DomainOfPath[others[i].path]}
    BY <2>3 DEF FindingAt
  <2>6. /\ f.severity = lines[f.id].severity /\ f.confidence = lines[f.id].confidence
        /\ f.domains = {DomainOfPath[lines[f.id].path]}
    BY <2>1 DEF FindingAt
  <2>7. h[f] \in FindingsIn(others)
    BY <2>1, <2>2, <2>3, <2>4 DEF FindingsIn, Heavier
  <2>8. d \in h[f].domains
    BY <2>1, <2>4, <2>5, <2>6 DEF Heavier
  <2>9. Deduction(f) = Deduction(lines[f.id]) /\ Deduction(h[f]) = Deduction(others[i])
    BY <2>5, <2>6 DEF Deduction
  <2> QED BY <2>1, <2>2, <2>4, <2>5, <2>6, <2>7, <2>8, <2>9 DEF Heavier, InDomain, i
<1>4. h \in [fs -> gs]
  BY <1>3
<1>5. \A x, y \in fs : h[x] = h[y] => x = y
  BY <1>3
<1> HIDE DEF fs, gs, h
<1>6. \A x \in fs : /\ Deduction(x) <= Deduction(h[x])
                    /\ x.severity = "CRITICAL" => h[x].severity = "CRITICAL"
  BY <1>3
<1> QED BY <1>1, <1>2, <1>4, <1>5, <1>6, VerdictIsMonotone

LEMMA NextValues ==
  /\ NextOf(Worse, "INFO") = "LOW" /\ NextOf(Worse, "LOW") = "MEDIUM"
  /\ NextOf(Worse, "MEDIUM") = "HIGH" /\ NextOf(Worse, "HIGH") = "CRITICAL"
  /\ NextOf(Worse, "CRITICAL") = "CRITICAL"
  /\ NextOf(Surer, "LOW") = "MEDIUM" /\ NextOf(Surer, "MEDIUM") = "HIGH"
  /\ NextOf(Surer, "HIGH") = "HIGH"
<1>1. ASSUME NEW order, NEW n \in Nat, Len(order) = n, DOMAIN order = 1 .. n,
             \A i, j \in 1 .. n : order[i] = order[j] => i = j, NEW i \in 1 .. n
      PROVE  NextOf(order, order[i]) = IF i < n THEN order[i + 1] ELSE order[i]
  <2> DEFINE k == CHOOSE j \in DOMAIN order : order[j] = order[i]
  <2>1. k = i
    BY <1>1
  <2>2. NextOf(order, order[i]) = IF k < Len(order) THEN order[k + 1] ELSE order[i]
    BY DEF NextOf
  <2> HIDE DEF k
  <2> QED BY <1>1, <2>1, <2>2
<1>2. /\ Len(Worse) = 5 /\ DOMAIN Worse = 1 .. 5
      /\ Worse[1] = "INFO" /\ Worse[2] = "LOW" /\ Worse[3] = "MEDIUM"
      /\ Worse[4] = "HIGH" /\ Worse[5] = "CRITICAL"
  BY DEF Worse
<1>3. /\ Len(Surer) = 3 /\ DOMAIN Surer = 1 .. 3
      /\ Surer[1] = "LOW" /\ Surer[2] = "MEDIUM" /\ Surer[3] = "HIGH"
  BY DEF Surer
<1>4. \A i, j \in 1 .. 5 : Worse[i] = Worse[j] => i = j
  <2>1. \A i \in 1 .. 5 : i = 1 \/ i = 2 \/ i = 3 \/ i = 4 \/ i = 5
    OBVIOUS
  <2> QED BY <1>2, <2>1
<1>5. \A i, j \in 1 .. 3 : Surer[i] = Surer[j] => i = j
  <2>1. \A i \in 1 .. 3 : i = 1 \/ i = 2 \/ i = 3
    OBVIOUS
  <2> QED BY <1>3, <2>1
<1>6. \A i \in 1 .. 5 :
        NextOf(Worse, Worse[i]) = IF i < 5 THEN Worse[i + 1] ELSE Worse[i]
  BY ZenonT(60), <1>1, <1>2, <1>4
<1>7. \A i \in 1 .. 3 :
        NextOf(Surer, Surer[i]) = IF i < 3 THEN Surer[i + 1] ELSE Surer[i]
  BY <1>1, <1>3, <1>5
<1>8. /\ NextOf(Worse, Worse[1]) = Worse[2] /\ NextOf(Worse, Worse[2]) = Worse[3]
      /\ NextOf(Worse, Worse[3]) = Worse[4] /\ NextOf(Worse, Worse[4]) = Worse[5]
      /\ NextOf(Worse, Worse[5]) = Worse[5]
  BY <1>6
<1>9. /\ NextOf(Surer, Surer[1]) = Surer[2] /\ NextOf(Surer, Surer[2]) = Surer[3]
      /\ NextOf(Surer, Surer[3]) = Surer[3]
  BY <1>7
<1> QED BY <1>2, <1>3, <1>8, <1>9

\* What is rated more severe, or found more surely, is heavier.
LEMMA WorseIsHeavier ==
  ASSUME NEW kind \in LineKind, NEW other,
         other \in {[kind EXCEPT !.severity = NextOf(Worse, @)],
                    [kind EXCEPT !.confidence = NextOf(Surer, @)]}
  PROVE  Heavier(kind, other)
<1>1. kind.severity \in Severities /\ kind.confidence \in Confidences
  BY DEF LineKind
<1>2. /\ other.path = kind.path /\ other.rule = kind.rule
      /\ \/ /\ other.severity = NextOf(Worse, kind.severity)
            /\ other.confidence = kind.confidence
         \/ /\ other.severity = kind.severity
            /\ other.confidence = NextOf(Surer, kind.confidence)
  BY DEF LineKind
<1>3. /\ SeverityDeduction.CRITICAL = 40 /\ SeverityDeduction.HIGH = 25
      /\ SeverityDeduction.MEDIUM = 12 /\ SeverityDeduction.LOW = 5
      /\ SeverityDeduction.INFO = 1
      /\ ConfidenceMultiplier.HIGH = 10 /\ ConfidenceMultiplier.MEDIUM = 7
      /\ ConfidenceMultiplier.LOW = 4
  BY DEF SeverityDeduction, ConfidenceMultiplier
<1>4. /\ SeverityDeduction[kind.severity] \in Nat
      /\ SeverityDeduction[NextOf(Worse, kind.severity)] \in Nat
      /\ SeverityDeduction[kind.severity] <= SeverityDeduction[NextOf(Worse, kind.severity)]
      /\ kind.severity = "CRITICAL" => NextOf(Worse, kind.severity) = "CRITICAL"
  BY <1>1, <1>3, NextValues DEF Severities
<1>5. /\ ConfidenceMultiplier[kind.confidence] \in Nat
      /\ ConfidenceMultiplier[NextOf(Surer, kind.confidence)] \in Nat
      /\ ConfidenceMultiplier[kind.confidence]
           <= ConfidenceMultiplier[NextOf(Surer, kind.confidence)]
  BY <1>1, <1>3, NextValues DEF Confidences
<1>6. Deduction(kind) <= Deduction(other)
  <2>1. /\ Deduction(kind) = SeverityDeduction[kind.severity]
                               * ConfidenceMultiplier[kind.confidence]
        /\ Deduction(other) = SeverityDeduction[other.severity]
                               * ConfidenceMultiplier[other.confidence]
    BY DEF Deduction
  <2>2. \A a, b, c \in Nat : a <= b => a * c <= b * c /\ c * a <= c * b
    OBVIOUS
  <2>3. CASE /\ other.severity = NextOf(Worse, kind.severity)
             /\ other.confidence = kind.confidence
    BY <1>4, <1>5, <2>1, <2>2, <2>3
  <2>4. CASE /\ other.severity = kind.severity
             /\ other.confidence = NextOf(Surer, kind.confidence)
    BY <1>4, <1>5, <2>1, <2>2, <2>4
  <2> QED BY <1>2, <2>3, <2>4
<1> QED BY <1>2, <1>4, <1>6 DEF Heavier

LEMMA HeavierItself ==
  ASSUME NEW kind \in LineKind
  PROVE  Heavier(kind, kind)
BY DeductionIsNat DEF Heavier, LineKind

\* A line more, or one that is rated more severe or found more surely, makes
\* no verdict better that the scoring engine asserts before and after.
THEOREM VerdictsNeverGetBetter == Spec => NeverBetter
<1>1. ASSUME LinesHold, [Next]_vars
      PROVE  Len(source') >= Len(source) =>
               LET was == Verdict(source)
                   is == Verdict(source')
               IN  \A d \in Domains :
                     Ranked(was[d]) /\ Ranked(is[d]) => Rank(was[d]) <= Rank(is[d])
  <2>1. SUFFICES ASSUME Len(source') >= Len(source), NEW d \in Domains,
                        NEW lines, lines = source',
                        NEW was, was = Verdict(source)[d],
                        NEW is, is = Verdict(lines)[d], Ranked(was), Ranked(is)
                 PROVE  Rank(was) <= Rank(is)
    OBVIOUS
  <2>2. IsSource(source) /\ IsSource(lines)
    BY <1>1, <2>1, LinesHoldNext DEF LinesHold
  <2>3. Len(source) \in Nat /\ \A i \in 1 .. Len(source) : source[i] \in LineKind
    BY <2>2, FindingsOfLines
  <2> DEFINE Covers(to) ==
               /\ to \in [1 .. Len(source) -> 1 .. Len(lines)]
               /\ \A i, j \in 1 .. Len(source) : to[i] = to[j] => i = j
               /\ \A i \in 1 .. Len(source) : Heavier(source[i], lines[to[i]])
  <2>4. \E to : Covers(to)
    <3> DEFINE same == [i \in 1 .. Len(source) |-> i]
    <3>1. CASE source' = source
      <4>1. Covers(same)
        BY <2>1, <2>3, <3>1, HeavierItself
      <4> QED BY <4>1
    <3>2. CASE \E i \in 1 .. Len(source) + 1, kind \in LineKind :
                 source' = Seqs!InsertAt(source, i, kind)
      <4>1. PICK i \in 1 .. Len(source) + 1, kind \in LineKind :
              lines = Seqs!InsertAt(source, i, kind)
        BY <2>1, <3>2
      <4>2. /\ Len(lines) = Len(source) + 1
            /\ \A j \in 1 .. i - 1 : lines[j] = source[j]
            /\ \A j \in i .. Len(source) : lines[j + 1] = source[j]
        BY <2>2, <4>1, InsertedLines
      <4> DEFINE moved == [j \in 1 .. Len(source) |-> IF j < i THEN j ELSE j + 1]
      <4>3. ASSUME NEW j \in 1 .. Len(source)
            PROVE  moved[j] \in 1 .. Len(lines) /\ lines[moved[j]] = source[j]
        <5>1. CASE j < i
          BY <2>3, <4>2, <5>1
        <5>2. CASE ~(j < i)
          BY <2>3, <4>2, <5>2
        <5> QED BY <5>1, <5>2
      <4>4. \A j, k \in 1 .. Len(source) : moved[j] = moved[k] => j = k
        BY <2>3
      <4>5. moved = [j \in 1 .. Len(source) |-> moved[j]]
        OBVIOUS
      <4> HIDE DEF moved
      <4>6. Covers(moved)
        BY <2>3, <4>3, <4>4, <4>5, HeavierItself
      <4> QED BY <4>6
    <3>3. CASE /\ Len(source') = Len(source)
               /\ \E i \in 1 .. Len(source), kind \in LineKind :
                    /\ source' = [source EXCEPT ![i] = kind]
                    /\ kind \in {[source[i] EXCEPT !.severity = NextOf(Worse, @)],
                                 [source[i] EXCEPT !.confidence = NextOf(Surer, @)]}
      <4>1. PICK i \in 1 .. Len(source), kind \in LineKind :
              /\ lines = [source EXCEPT ![i] = kind]
              /\ kind \in {[source[i] EXCEPT !.severity = NextOf(Worse, @)],
                           [source[i] EXCEPT !.confidence = NextOf(Surer, @)]}
        BY <2>1, <3>3
      <4>2. Len(lines) = Len(source) /\ DOMAIN source = 1 .. Len(source)
        BY <2>1, <2>2, <3>3, FindingsOfLines
      <4>3. Heavier(source[i], kind)
        BY <2>3, <4>1, WorseIsHeavier
      <4>4. \A j \in 1 .. Len(source) : Heavier(source[j], lines[j])
        BY <2>3, <4>1, <4>2, <4>3, HeavierItself
      <4>5. Covers(same)
        BY <4>2, <4>4
      <4> QED BY <4>5
    <3>4. CASE Len(source') < Len(source)
      <4>1. Len(lines) \in Nat /\ Len(lines) >= Len(source) /\ Len(lines) < Len(source)
        BY <2>1, <2>2, <3>4, FindingsOfLines
      <4> QED BY <2>3, <4>1
    <3> QED BY <1>1, <3>1, <3>2, <3>3, <3>4, LinesStep
  <2>5. PICK to : Covers(to)
    BY <2>4
  <2> QED BY <2>1, <2>2, <2>5, LinesAreMonotone
<1> QED BY <1>1, LinesInvariant, PTL DEF Spec, NeverBetter

(***************************************************************************)
(* The rows of the scores, and which of them count.                        *)
(***************************************************************************)
LEMMA FourAreFinite ==
  ASSUME NEW a, NEW b, NEW c, NEW d
  PROVE  IsFiniteSet({a, b, c, d})
<1>1. IsFiniteSet({a} \cup {b}) /\ IsFiniteSet({c} \cup {d})
  BY FS_Singleton, FS_Union
<1>2. IsFiniteSet(({a} \cup {b}) \cup ({c} \cup {d}))
  BY <1>1, FS_Union
<1>3. ({a} \cup {b}) \cup ({c} \cup {d}) = {a, b, c, d}
  OBVIOUS
<1> QED BY <1>2, <1>3

LEMMA DomainsAreFinite == IsFiniteSet(Domains)
<1> DEFINE A == {"core_banking", "payments", "credit_lending", "investments_trading"}
           B == {"onboarding_identity_access", "transaction_processing_reporting",
                 "fraud_controls", "privacy_data_protection"}
           C == {"application_security", "infrastructure_api_security",
                 "database_controls_sod", "change_management"}
           D == {"monitoring_observability", "business_continuity_dr",
                 "model_ai_governance", "human_approval_auditability"}
<1>1. IsFiniteSet(A) /\ IsFiniteSet(B) /\ IsFiniteSet(C) /\ IsFiniteSet(D)
  BY FourAreFinite
<1>2. BankingDomain = (A \cup B) \cup (C \cup D)
  BY DEF BankingDomain
<1> HIDE DEF A, B, C, D
<1>3. IsFiniteSet(A \cup B) /\ IsFiniteSet(C \cup D)
  BY <1>1, FS_Union
<1>4. IsFiniteSet(BankingDomain)
  BY <1>2, <1>3, FS_Union
<1> QED BY <1>4, DomainsAssumption, FS_Subset

\* A finite set has its elements in some order, each of them once.
LEMMA SetInOrder ==
  ASSUME NEW S, IsFiniteSet(S), NEW s, s = Seqs!SetToSeq(S)
  PROVE  /\ s \in Seq(S) /\ Len(s) = Cardinality(S) /\ Len(s) \in Nat
         /\ DOMAIN s = 1 .. Len(s)
         /\ \A i, j \in 1 .. Len(s) : s[i] = s[j] => i = j
         /\ \A x \in S : \E i \in 1 .. Len(s) : s[i] = x
<1> DEFINE n == Cardinality(S)
<1>1. PICK f : f \in Bijection(1 .. n, S)
  BY FS_CardinalityType DEF ExistsBijection
<1>2. f \in [1 .. n -> S] /\ \A i, j \in 1 .. n : f[i] = f[j] => i = j
  BY <1>1 DEF Bijection, Injection, IsInjective
<1>3. f \in [1 .. n -> S] /\ Seqs!IsInjective(f)
  BY <1>2 DEF Seqs!IsInjective
<1>4. Seqs!Cardinality(S) = n
  BY DEF Seqs!Cardinality, Cardinality
<1>5. Seqs!SetToSeq(S) = CHOOSE g \in [1 .. n -> S] : Seqs!IsInjective(g)
  BY <1>4 DEF Seqs!SetToSeq
<1>6. s \in [1 .. n -> S] /\ Seqs!IsInjective(s)
  BY <1>3, <1>5, Zenon
<1>7. s \in [1 .. n -> S] /\ \A i, j \in 1 .. n : s[i] = s[j] => i = j
  BY <1>6 DEF Seqs!IsInjective
<1>8. n \in Nat
  BY FS_CardinalityType
<1>9. IsFiniteSet(1 .. n) /\ Cardinality(1 .. n) = n
  BY <1>8, FS_Interval
<1>10. s \in Injection(1 .. n, S)
  BY <1>7, Fun_IsInj
<1>11. s \in Surjection(1 .. n, S)
  BY <1>9, <1>10, FS_Injection
<1>12. \A x \in S : \E i \in 1 .. n : s[i] = x
  BY <1>11 DEF Surjection
<1>13. s \in Seq(S)
  BY <1>7, <1>8
<1>14. Len(s) = n
  BY <1>7, <1>8, <1>13, LenProperties
<1> QED BY <1>7, <1>8, <1>12, <1>13, <1>14

LEMMA DomainsInOrder ==
  /\ Len(DomainOrder) \in Nat /\ DOMAIN DomainOrder = 1 .. Len(DomainOrder)
  /\ \A n \in 1 .. Len(DomainOrder) : DomainOrder[n] \in Domains
  /\ \A m, n \in 1 .. Len(DomainOrder) : DomainOrder[m] = DomainOrder[n] => m = n
  /\ \A d \in Domains : \E n \in 1 .. Len(DomainOrder) : DomainOrder[n] = d
<1>1. DomainOrder = Seqs!SetToSeq(Domains)
  BY DEF DomainOrder
<1>2. DomainOrder \in Seq(Domains)
  BY <1>1, DomainsAreFinite, SetInOrder
<1>3. \A n \in 1 .. Len(DomainOrder) : DomainOrder[n] \in Domains
  BY <1>2, ElementOfSeq
<1> QED BY <1>1, <1>3, DomainsAreFinite, SetInOrder

CountingOf(rows) ==
  {i \in DOMAIN rows : rows[i].at \notin {rows[j].overrideOf : j \in DOMAIN rows}}

\* Where no two of the rows that count are of one domain, they are what counts.
LEMMA CountingRows ==
  ASSUME NEW rows, NEW C, C = CountingOf(rows), C \subseteq Nat,
         \A i, j \in C : rows[i].domain = rows[j].domain => i = j,
         NEW scores, scores = EffectiveScores(rows)
  PROVE  /\ \A d : d \in DOMAIN scores <=> \E i \in C : d = rows[i].domain
         /\ \A i \in C : scores[rows[i].domain] = rows[i]
<1> DEFINE Stays(i) == \A j \in C : rows[j].domain = rows[i].domain =>
                         \/ rows[j].at < rows[i].at
                         \/ rows[j].at = rows[i].at /\ i <= j
           Row(d) == CHOOSE i \in C : rows[i].domain = d /\ Stays(i)
<1>1. scores = [d \in {rows[i].domain : i \in C} |-> rows[Row(d)]]
  BY DEF EffectiveScores, CountingOf
<1>2. \A i \in C : Stays(i)
  OBVIOUS
<1> HIDE DEF Stays
<1>3. ASSUME NEW i \in C PROVE Row(rows[i].domain) = i
  BY <1>2, <1>3
<1> HIDE DEF Row
<1> QED BY <1>1, <1>3

\* What a domain's score is, overridden or not.
DecidedFor(which, lines, d) ==
  LET own == {o \in overrides : o.of = which /\ o.domain = d}
  IN  IF own = {} THEN Verdict(lines)[d] ELSE (CHOOSE o \in own : TRUE).category

EngineRow(lines, n) ==
  ScoreRow(DomainOrder[n], Verdict(lines)[DomainOrder[n]], n, NoRow)

OverrideRow(o) ==
  ScoreRow(o.domain, o.category, Len(DomainOrder) + 1,
           CHOOSE n \in DOMAIN DomainOrder : DomainOrder[n] = o.domain)

LEMMA RowsOfEngine ==
  ASSUME NEW lines, NEW S, \A n \in 1 .. Len(DomainOrder) : EngineRow(lines, n) \in S
  PROVE  /\ EngineRows(lines) \in Seq(S) /\ Len(EngineRows(lines)) = Len(DomainOrder)
         /\ \A n \in 1 .. Len(DomainOrder) : EngineRows(lines)[n] = EngineRow(lines, n)
<1>1. EngineRows(lines) = [n \in 1 .. Len(DomainOrder) |-> EngineRow(lines, n)]
  BY DomainsInOrder DEF EngineRows, EngineRow
<1>2. EngineRows(lines) \in [1 .. Len(DomainOrder) -> S]
  BY <1>1
<1>3. Len(DomainOrder) \in Nat
  BY DomainsInOrder
<1>4. EngineRows(lines) \in Seq(S)
  BY <1>2, <1>3
<1>5. Len(EngineRows(lines)) = Len(DomainOrder)
  BY <1>2, <1>3, <1>4, LenProperties
<1> QED BY <1>1, <1>4, <1>5

EngineFirst(rows, N, order) ==
  /\ \A m, n \in 1 .. N : order[m] = order[n] => m = n
  /\ \A n \in 1 .. N : /\ rows[n].domain = order[n]
                        /\ rows[n].at = n /\ rows[n].overrideOf = 0

\* One row of each domain: all of them count.
LEMMA EngineAlone ==
  ASSUME NEW rows, NEW N \in Nat, DOMAIN rows = 1 .. N, NEW order,
         EngineFirst(rows, N, order),
         NEW scores, scores = EffectiveScores(rows)
  PROVE  /\ \A d : d \in DOMAIN scores <=> \E n \in 1 .. N : d = order[n]
         /\ \A n \in 1 .. N : scores[order[n]] = rows[n]
<1> USE DEF EngineFirst
<1> DEFINE C == CountingOf(rows)
<1>1. \A i : i \in C <=> /\ i \in 1 .. N
                         /\ \A j \in 1 .. N : rows[j].overrideOf # rows[i].at
  BY DEF CountingOf
<1> HIDE DEF C
<1>2. \A i \in 1 .. N : i # 0
  OBVIOUS
<1>3. \A i : i \in C <=> i \in 1 .. N
  BY <1>1, <1>2
<1>4. C \subseteq Nat
  BY <1>3
<1>5. \A i, j \in C : rows[i].domain = rows[j].domain => i = j
  BY <1>3
<1>6. /\ \A d : d \in DOMAIN scores <=> \E i \in C : d = rows[i].domain
      /\ \A i \in C : scores[rows[i].domain] = rows[i]
  <2>1. C = CountingOf(rows)
    BY DEF C
  <2> QED BY <1>4, <1>5, <2>1, CountingRows
<1>7. \A n \in 1 .. N : scores[order[n]] = rows[n]
  BY <1>3, <1>6
<1>8. \A d : d \in DOMAIN scores <=> \E i \in C : d = rows[i].domain
  BY <1>6
<1> QED BY <1>3, <1>7, <1>8

\* One more row, in place of the one that it overrides.
LEMMA EngineOverridden ==
  ASSUME NEW rows, NEW N \in Nat, DOMAIN rows = 1 .. N + 1, NEW order,
         EngineFirst(rows, N, order),
         NEW k \in 1 .. N, NEW last, last = N + 1,
         rows[last].domain = order[k], rows[last].at = last,
         rows[last].overrideOf = k,
         NEW scores, scores = EffectiveScores(rows)
  PROVE  /\ \A d : d \in DOMAIN scores <=> \E n \in 1 .. N : d = order[n]
         /\ scores[order[k]] = rows[last]
         /\ \A n \in 1 .. N : n # k => scores[order[n]] = rows[n]
<1> USE DEF EngineFirst
<1> DEFINE C == CountingOf(rows)
<1>1. \A i : i \in C <=> /\ i \in 1 .. N + 1
                         /\ \A j \in 1 .. N + 1 : rows[j].overrideOf # rows[i].at
  BY DEF CountingOf
<1> HIDE DEF C
<1>2. /\ \A i : i \in 1 .. N + 1 <=> i \in 1 .. N \/ i = last
      /\ last \notin 1 .. N /\ last # 0 /\ last \in Nat /\ k # 0
      /\ \A i \in 1 .. N : i # 0 /\ i \in Nat
  OBVIOUS
<1>3. \A i : i \in C <=> (i \in 1 .. N /\ i # k) \/ i = last
  <2>1. k \notin C
    BY <1>1, <1>2
  <2>2. last \in C
    BY <1>1, <1>2
  <2>3. \A i \in 1 .. N : i # k => i \in C
    BY <1>1, <1>2
  <2> QED BY <1>1, <1>2, <2>1, <2>2, <2>3
<1>4. C \subseteq Nat
  BY <1>2, <1>3
<1>5. \A i, j \in C : rows[i].domain = rows[j].domain => i = j
  BY <1>2, <1>3
<1>6. /\ \A d : d \in DOMAIN scores <=> \E i \in C : d = rows[i].domain
      /\ \A i \in C : scores[rows[i].domain] = rows[i]
  <2>1. C = CountingOf(rows)
    BY DEF C
  <2> QED BY <1>4, <1>5, <2>1, CountingRows
<1>7. scores[order[k]] = rows[last]
  BY <1>3, <1>6
<1>8. \A n \in 1 .. N : n # k => scores[order[n]] = rows[n]
  BY <1>3, <1>6
<1>9. ASSUME NEW d PROVE (\E i \in C : d = rows[i].domain) <=> (\E n \in 1 .. N : d = order[n])
  <2>1. ASSUME NEW i \in C, d = rows[i].domain PROVE \E n \in 1 .. N : d = order[n]
    BY <1>3, <2>1
  <2>2. ASSUME NEW n \in 1 .. N, d = order[n] PROVE \E i \in C : d = rows[i].domain
    <3>1. CASE n = k
      BY <1>3, <2>2, <3>1
    <3>2. CASE n # k
      BY <1>3, <2>2, <3>2
    <3> QED BY <3>1, <3>2
  <2> QED BY <2>1, <2>2
<1>10. \A d : d \in DOMAIN scores <=> \E i \in C : d = rows[i].domain
  BY <1>6
<1>11. \A d : d \in DOMAIN scores <=> \E n \in 1 .. N : d = order[n]
  <2>1. ASSUME NEW d
        PROVE  d \in DOMAIN scores <=> \E n \in 1 .. N : d = order[n]
    <3>1. d \in DOMAIN scores <=> \E i \in C : d = rows[i].domain
      BY <1>10
    <3>2. (\E i \in C : d = rows[i].domain) <=> (\E n \in 1 .. N : d = order[n])
      BY ZenonT(60), <1>9
    <3> QED BY <3>1, <3>2
  <2> QED BY <2>1
<1> QED BY <1>7, <1>8, <1>11

\* The rows of a stored assessment, in their order.
ScoresOf(which, lines) == EngineRows(lines) \o OverrideRows(which)

OwnOverrides(which) == {o \in overrides : o.of = which}

LEMMA StoredRows ==
  ASSUME LinesHold, NEW which, NEW lines,
         NEW rows, rows = ScoresOf(which, lines),
         NEW own, own = OwnOverrides(which),
         NEW N, N = Len(DomainOrder)
  PROVE  /\ \A n \in 1 .. N : rows[n] = EngineRow(lines, n)
         /\ \/ own = {} /\ DOMAIN rows = 1 .. N
            \/ \E o \in own : /\ own = {o} /\ o.domain \in Domains
                              /\ DOMAIN rows = 1 .. N + 1
                              /\ rows[N + 1] = OverrideRow(o)
<1> DEFINE over == OverrideRows(which)
           engine == EngineRows(lines)
<1>1. N \in Nat
  BY DomainsInOrder
<1>2. over = Seqs!SetToSeq({OverrideRow(o) : o \in own})
  BY DEF OverrideRows, OverrideRow, OwnOverrides
<1>3. own = {} \/ \E o \in own : own = {o} /\ o.domain \in Domains
  BY DEF LinesHold, OwnOverrides
<1> HIDE DEF over
<1>4. CASE own = {}
  <2> DEFINE S == {EngineRow(lines, n) : n \in 1 .. N}
  <2>1. \A n \in 1 .. N : EngineRow(lines, n) \in S
    OBVIOUS
  <2> HIDE DEF S
  <2>2. engine \in Seq(S) /\ Len(engine) = N
        /\ \A n \in 1 .. N : engine[n] = EngineRow(lines, n)
    BY <2>1, RowsOfEngine
  <2> HIDE DEF engine
  <2>3. {OverrideRow(o) : o \in own} = {}
    BY <1>4
  <2>4. over \in Seq({}) /\ Len(over) = 0
    BY <1>2, <2>3, SetInOrder, FS_EmptySet
  <2>5. over \in Seq(S)
    BY <2>4
  <2>6. rows = engine \o over
    BY DEF engine, over, ScoresOf
  <2>7. /\ rows \in Seq(S) /\ Len(rows) = N + 0
        /\ \A n \in 1 .. N : rows[n] = engine[n]
    BY <1>1, <2>2, <2>4, <2>5, <2>6, ConcatProperties
  <2>8. DOMAIN rows = 1 .. N
    BY <1>1, <2>7, LenProperties
  <2> QED BY <1>4, <2>2, <2>7, <2>8
<1>5. CASE \E o \in own : own = {o} /\ o.domain \in Domains
  <2>0. PICK o \in own : own = {o} /\ o.domain \in Domains
    BY <1>5
  <2> DEFINE R == OverrideRow(o)
             S == {EngineRow(lines, n) : n \in 1 .. N} \cup {R}
  <2>1. R \in S /\ \A n \in 1 .. N : EngineRow(lines, n) \in S
    OBVIOUS
  <2>2. {OverrideRow(x) : x \in own} = {R}
    BY <2>0
  <2> HIDE DEF S, R
  <2>3. engine \in Seq(S) /\ Len(engine) = N
        /\ \A n \in 1 .. N : engine[n] = EngineRow(lines, n)
    BY <2>1, RowsOfEngine
  <2> HIDE DEF engine
  <2>4. over \in Seq({R}) /\ Len(over) = 1
    <3>1. IsFiniteSet({R}) /\ Cardinality({R}) = 1
      BY FS_Singleton
    <3>2. over = Seqs!SetToSeq({R})
      BY <1>2, <2>2
    <3> QED BY <3>1, <3>2, SetInOrder
  <2>5. over \in Seq(S)
    <3>1. {R} \subseteq S
      BY <2>1
    <3> QED BY <2>4, <3>1
  <2>6. over[1] \in {R}
    <3>1. 1 \in 1 .. Len(over)
      BY <2>4
    <3> QED BY <2>4, <3>1, ElementOfSeq
  <2>7. rows = engine \o over
    BY DEF engine, over, ScoresOf
  <2>8. /\ rows \in Seq(S) /\ Len(rows) = Len(engine) + Len(over)
        /\ \A i \in 1 .. Len(engine) + Len(over) :
             rows[i] = IF i <= Len(engine) THEN engine[i] ELSE over[i - Len(engine)]
    BY <2>3, <2>5, <2>7, ConcatProperties
  <2>9. /\ rows \in Seq(S) /\ Len(rows) = N + 1
        /\ \A i \in 1 .. N + 1 : rows[i] = IF i <= N THEN engine[i] ELSE over[i - N]
    BY <2>3, <2>4, <2>8
  <2>10. \A n \in 1 .. N : rows[n] = engine[n]
    <3>1. \A n \in 1 .. N : n \in 1 .. N + 1 /\ n <= N
      BY <1>1
    <3> QED BY <2>9, <3>1
  <2>11. rows[N + 1] = over[1]
    <3>1. N + 1 \in 1 .. N + 1 /\ ~(N + 1 <= N) /\ (N + 1) - N = 1
      BY <1>1
    <3> QED BY <2>9, <3>1
  <2>12. DOMAIN rows = 1 .. N + 1
    BY <2>9, LenProperties
  <2> QED BY <2>0, <2>3, <2>6, <2>10, <2>11, <2>12 DEF R
<1> QED BY <1>3, <1>4, <1>5

LEMMA StoredScores ==
  ASSUME LinesHold, NEW which, NEW lines,
         NEW rows, rows = ScoresOf(which, lines),
         NEW scores, scores = EffectiveScores(rows)
  PROVE  /\ DOMAIN scores = Domains
         /\ \A d \in Domains : scores[d].category = DecidedFor(which, lines, d)
<1>1. PICK N, order, own : /\ N = Len(DomainOrder) /\ order = DomainOrder
                           /\ own = OwnOverrides(which)
  OBVIOUS
<1>2. /\ N \in Nat /\ DOMAIN order = 1 .. N
      /\ \A n \in 1 .. N : order[n] \in Domains
      /\ \A m, n \in 1 .. N : order[m] = order[n] => m = n
      /\ \A d \in Domains : \E n \in 1 .. N : order[n] = d
  BY <1>1, DomainsInOrder
<1>3. /\ \A n \in 1 .. N : rows[n] = EngineRow(lines, n)
      /\ \/ own = {} /\ DOMAIN rows = 1 .. N
         \/ \E o \in own : /\ own = {o} /\ o.domain \in Domains
                           /\ DOMAIN rows = 1 .. N + 1
                           /\ rows[N + 1] = OverrideRow(o)
  BY <1>1, StoredRows
<1>4. \A n \in 1 .. N : /\ rows[n].domain = order[n]
                        /\ rows[n].category = Verdict(lines)[order[n]]
                        /\ rows[n].at = n /\ rows[n].overrideOf = 0
  <2>1. \A n : /\ EngineRow(lines, n).domain = DomainOrder[n]
               /\ EngineRow(lines, n).category = Verdict(lines)[DomainOrder[n]]
               /\ EngineRow(lines, n).at = n /\ EngineRow(lines, n).overrideOf = 0
    BY DEF EngineRow, ScoreRow, NoRow
  <2> QED BY <1>1, <1>3, <2>1
<1>0. EngineFirst(rows, N, order)
  BY <1>2, <1>4 DEF EngineFirst
<1>5. \A d : d \in Domains <=> \E n \in 1 .. N : d = order[n]
  BY <1>2
<1>6. ASSUME NEW d, \A o \in own : o.domain # d
      PROVE  DecidedFor(which, lines, d) = Verdict(lines)[d]
  <2>1. {o \in overrides : o.of = which /\ o.domain = d} = {}
    BY <1>1, <1>6 DEF OwnOverrides
  <2> QED BY <2>1 DEF DecidedFor
<1>7. ASSUME NEW o \in own, own = {o}
      PROVE  DecidedFor(which, lines, o.domain) = o.category
  <2>1. {x \in overrides : x.of = which /\ x.domain = o.domain} = {o}
    BY <1>1, <1>7 DEF OwnOverrides
  <2> QED BY <2>1 DEF DecidedFor
<1>8. CASE own = {} /\ DOMAIN rows = 1 .. N
  <2>1. /\ \A d : d \in DOMAIN scores <=> \E n \in 1 .. N : d = order[n]
        /\ \A n \in 1 .. N : scores[order[n]] = rows[n]
    BY <1>0, <1>2, <1>8, EngineAlone
  <2>2. DOMAIN scores = Domains
    BY <1>5, <2>1
  <2>3. \A n \in 1 .. N : scores[order[n]].category = Verdict(lines)[order[n]]
    BY <1>4, <2>1
  <2>4. \A d : DecidedFor(which, lines, d) = Verdict(lines)[d]
    BY <1>6, <1>8
  <2> QED BY <1>2, <2>2, <2>3, <2>4
<1>9. CASE \E o \in own : /\ own = {o} /\ o.domain \in Domains
                          /\ DOMAIN rows = 1 .. N + 1
                          /\ rows[N + 1] = OverrideRow(o)
  <2>1. PICK o \in own : /\ own = {o} /\ o.domain \in Domains
                         /\ DOMAIN rows = 1 .. N + 1
                         /\ rows[N + 1] = OverrideRow(o)
    BY <1>9
  <2>2. PICK k \in 1 .. N : order[k] = o.domain
    BY <1>2, <2>1
  <2>3. PICK last : last = N + 1
    OBVIOUS
  <2>4. (CHOOSE n \in DOMAIN DomainOrder : DomainOrder[n] = o.domain) = k
    BY <1>1, <1>2, <2>2
  <2>5. /\ rows[last].domain = order[k] /\ rows[last].at = last
        /\ rows[last].overrideOf = k /\ rows[last].category = o.category
    <3>1. /\ OverrideRow(o).domain = o.domain /\ OverrideRow(o).category = o.category
          /\ OverrideRow(o).at = Len(DomainOrder) + 1 /\ OverrideRow(o).overrideOf = k
      BY <2>4 DEF OverrideRow, ScoreRow
    <3> QED BY <1>1, <2>1, <2>2, <2>3, <3>1
  <2>6. /\ \A d : d \in DOMAIN scores <=> \E n \in 1 .. N : d = order[n]
        /\ scores[order[k]] = rows[last]
        /\ \A n \in 1 .. N : n # k => scores[order[n]] = rows[n]
    BY SMTT(30), <1>0, <1>2, <2>1, <2>3, <2>5, EngineOverridden
  <2>7. DOMAIN scores = Domains
    BY <1>5, <2>6
  <2>8. ASSUME NEW n \in 1 .. N
        PROVE  scores[order[n]].category = DecidedFor(which, lines, order[n])
    <3>1. CASE n = k
      BY <1>7, <2>1, <2>2, <2>5, <2>6, <3>1
    <3>2. CASE n # k
      <4>1. order[n] # o.domain
        BY <1>2, <2>2, <3>2
      <4>2. DecidedFor(which, lines, order[n]) = Verdict(lines)[order[n]]
        BY <1>6, <2>1, <4>1
      <4> QED BY <1>4, <2>6, <3>2, <4>2
    <3> QED BY <3>1, <3>2
  <2> QED BY <1>2, <2>7, <2>8
<1> QED BY <1>3, <1>8, <1>9

\* What is shown of a domain is what was decided of it.
LEMMA DomainsShown ==
  ASSUME LinesHold, baseline # None, NEW change \in Comparison.domains
  PROVE  /\ change.domain \in Domains
         /\ change.baseline = DecidedFor("baseline", baseline, change.domain)
         /\ change.current = DecidedFor("current", source, change.domain)
<1> DEFINE before == EffectiveScores(Before.scores)
           after == EffectiveScores(Now.scores)
<1>1. /\ Before.scores = ScoresOf("baseline", baseline)
      /\ Now.scores = ScoresOf("current", source)
  BY DEF Before, Now, Stored, ScoresOf
<1>2. /\ DOMAIN before = Domains
      /\ \A d \in Domains : before[d].category = DecidedFor("baseline", baseline, d)
  BY <1>1, StoredScores
<1>3. /\ DOMAIN after = Domains
      /\ \A d \in Domains : after[d].category = DecidedFor("current", source, d)
  BY <1>1, StoredScores
<1>4. change \in {[domain |-> d, baseline |-> CategoryIn(before, d),
                   current |-> CategoryIn(after, d)] : d \in DOMAIN before \cup DOMAIN after}
  BY RowsCompare DEF CompareScores
<1> HIDE DEF before, after
<1>5. PICK d \in Domains : /\ change.domain = d
                           /\ change.baseline = CategoryIn(before, d)
                           /\ change.current = CategoryIn(after, d)
  BY <1>2, <1>3, <1>4
<1> QED BY <1>2, <1>3, <1>5 DEF CategoryIn

\* The comparison shows what managers decided, and the engine's verdicts
\* where they decided nothing.
THEOREM OverridesAreAlwaysShown == Spec => []OverridesAreShown
<1>1. ASSUME LinesHold PROVE OverridesAreShown
  BY <1>1, DomainsShown DEF OverridesAreShown, DecidedFor
<1> QED BY <1>1, LinesInvariant, PTL

LEMMA RankIsNat ==
  ASSUME NEW category, Ranked(category)
  PROVE  Rank(category) \in 1 .. 5
<1>1. DOMAIN Ranking = 1 .. 5
  BY DEF Ranking
<1> QED BY <1>1 DEF Ranked, Rank

Alike(fs) ==
  \A f, g \in fs : FindingKey(f) = FindingKey(g) =>
    f.severity = g.severity /\ f.confidence = g.confidence

\* A domain of which every finding matches one of another assessment has
\* there no better a verdict, where keys tell weights.
LEMMA MatchedVerdicts ==
  ASSUME NEW lines, IsSource(lines), NEW others, IsSource(others), NEW d \in Domains,
         NEW A, A = FindingsIn(lines), NEW B, B = FindingsIn(others),
         \A f \in InDomain(A, d) : Slot(f, A) \in Slots(B),
         Alike(InDomain(A \cup B, d)),
         NEW was, was = Verdict(lines)[d], NEW is, is = Verdict(others)[d],
         Ranked(was), Ranked(is)
  PROVE  Rank(was) <= Rank(is)
<1> DEFINE fs == InDomain(A, d)
           gs == InDomain(B, d)
           h == [f \in fs |-> CHOOSE g \in B : Slot(g, B) = Slot(f, A)]
<1>1. /\ was = DecisionCategory(fs, d \in Mapped(lines))
      /\ is = DecisionCategory(gs, d \in Mapped(others))
  BY DEF Verdict, ScoreAllDomains
<1>2. Weighed(fs) /\ Weighed(gs)
  BY FindingsWeighed
<1>3. \A f \in A \cup B : f.domains = {DomainOfPath[f.path]}
  <2>1. \A i : /\ FindingAt(lines, i).domains = {DomainOfPath[FindingAt(lines, i).path]}
               /\ FindingAt(others, i).domains = {DomainOfPath[FindingAt(others, i).path]}
    BY DEF FindingAt
  <2>2. \A f \in A : f = FindingAt(lines, f.id)
    BY FindingsOfLines
  <2>3. \A f \in B : f = FindingAt(others, f.id)
    BY FindingsOfLines
  <2> QED BY <2>1, <2>2, <2>3
<1>4. ASSUME NEW f \in fs
      PROVE  /\ h[f] \in gs /\ Slot(h[f], B) = Slot(f, A)
             /\ h[f].severity = f.severity /\ h[f].confidence = f.confidence
  <2>1. f \in A /\ d \in f.domains
    BY DEF InDomain
  <2>2. \E g \in B : Slot(g, B) = Slot(f, A)
    <3>1. Slot(f, A) \in Slots(B)
      OBVIOUS
    <3> QED BY <3>1 DEF Slots
  <2>3. h[f] \in B /\ Slot(h[f], B) = Slot(f, A)
    <3>1. h[f] = CHOOSE g \in B : Slot(g, B) = Slot(f, A)
      OBVIOUS
    <3> HIDE DEF h
    <3> QED BY <2>2, <3>1
  <2> HIDE DEF h
  <2>4. FindingKey(h[f]) = FindingKey(f)
    BY <2>3 DEF Slot
  <2>5. h[f].path = f.path
    BY <2>4 DEF FindingKey
  <2>6. d \in h[f].domains
    BY <1>3, <2>1, <2>3, <2>5
  <2>7. h[f] \in InDomain(A \cup B, d) /\ f \in InDomain(A \cup B, d)
    BY <2>1, <2>3, <2>6 DEF InDomain
  <2>8. h[f].severity = f.severity /\ h[f].confidence = f.confidence
    BY <2>4, <2>7 DEF Alike
  <2> QED BY <2>3, <2>6, <2>8 DEF InDomain
<1>5. h \in [fs -> gs]
  <2>1. h = [f \in fs |-> h[f]]
    OBVIOUS
  <2> HIDE DEF h
  <2> QED BY <1>4, <2>1
<1>6. \A x, y \in fs : h[x] = h[y] => x = y
  <2>1. \A x, y \in A : Slot(x, A) = Slot(y, A) => x = y
    BY FindingsOfLines, SlotsCount
  <2>2. fs \subseteq A
    BY DEF InDomain
  <2> HIDE DEF fs, h
  <2> QED BY <1>4, <2>1, <2>2
<1> HIDE DEF h
<1>7. \A x \in fs : /\ Deduction(x) <= Deduction(h[x])
                    /\ x.severity = "CRITICAL" => h[x].severity = "CRITICAL"
  <2> TAKE x \in fs
  <2>1. Deduction(x) \in Nat
    BY <1>2, DeductionIsNat DEF Weighed
  <2>2. Deduction(h[x]) = Deduction(x)
    BY <1>4 DEF Deduction
  <2> HIDE DEF fs
  <2> QED BY <1>4, <2>1, <2>2
<1> HIDE DEF fs, gs
<1> QED BY <1>1, <1>2, <1>5, <1>6, <1>7, VerdictIsMonotone

\* Of two verdicts on a domain that both have a rank and with no override of
\* it, the worse one comes with a new finding and the better one with a
\* resolved one, in a domain where findings that share a key weigh the same.
\* Nothing is said of verdicts without a rank (insufficient evidence, manual
\* review) or of domains where redaction makes keys equal.
THEOREM ChangesAreAlwaysExplained == Spec => []ChangesAreExplained
<1>1. ASSUME LinesHold PROVE ChangesAreExplained
  <2>1. SUFFICES ASSUME baseline # None, NEW change \in Comparison.domains,
                        NEW d, d = change.domain,
                        Ranked(change.baseline), Ranked(change.current),
                        ~ \E o \in overrides : o.domain = d, KeysTellWeight(d),
                        NEW found, found = Comparison.findings
                 PROVE  /\ Rank(change.current) > Rank(change.baseline)
                             => InDomain(found.new, d) # {}
                        /\ Rank(change.current) < Rank(change.baseline)
                             => InDomain(found.resolved, d) # {}
    BY DEF ChangesAreExplained
  <2> DEFINE A == FindingsIn(source)
             B == FindingsIn(baseline)
  <2>2. IsSource(source) /\ IsSource(baseline)
    BY <1>1, <2>1 DEF LinesHold
  <2>3. /\ d \in Domains
        /\ change.baseline = Verdict(baseline)[d]
        /\ change.current = Verdict(source)[d]
    <3>1. \A which : {o \in overrides : o.of = which /\ o.domain = d} = {}
      BY <2>1
    <3> QED BY <1>1, <2>1, <3>1, DomainsShown DEF DecidedFor
  <2>4. Ordered(A) /\ Ordered(B)
    BY <2>2, FindingsOfLines
  <2>5. found = CompareFindings(B, A)
    BY <1>1, <2>1, RowsCompare
  <2>6. Alike(InDomain(A \cup B, d)) /\ Alike(InDomain(B \cup A, d))
    <3>1. A \cup B = B \cup A
      OBVIOUS
    <3>2. Alike(InDomain(A \cup B, d))
      BY <2>1 DEF KeysTellWeight, Alike
    <3> HIDE DEF A, B
    <3> QED BY <3>1, <3>2
  <2>7. Rank(change.baseline) \in 1 .. 5 /\ Rank(change.current) \in 1 .. 5
    BY <2>1, RankIsNat
  <2> HIDE DEF A, B
  <2>8. /\ found.new = {f \in A : Slot(f, A) \notin Slots(B)}
        /\ found.resolved = {f \in B : Slot(f, B) \notin Slots(A)}
    BY <2>4, <2>5, ComparedBySlots
  <2>9. ASSUME InDomain(found.new, d) = {}
        PROVE  Rank(change.current) <= Rank(change.baseline)
    <3>1. \A f \in InDomain(A, d) : Slot(f, A) \in Slots(B)
      BY <2>8, <2>9 DEF InDomain
    <3> QED BY <2>1, <2>2, <2>3, <2>6, <3>1, MatchedVerdicts DEF A, B
  <2>10. ASSUME InDomain(found.resolved, d) = {}
         PROVE  Rank(change.baseline) <= Rank(change.current)
    <3>1. \A f \in InDomain(B, d) : Slot(f, B) \in Slots(A)
      BY <2>8, <2>10 DEF InDomain
    <3> QED BY <2>1, <2>2, <2>3, <2>6, <3>1, MatchedVerdicts DEF A, B
  <2> QED BY <2>7, <2>9, <2>10
<1> QED BY <1>1, LinesInvariant, PTL
=============================================================================
