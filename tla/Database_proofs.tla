-------------------------- MODULE Database_proofs ---------------------------
(***************************************************************************)
(* The quota holds for every set of contents, sizes and quotas.  The sum   *)
(* over the rows is a fold whose order CHOOSE picks; SumAdds shows that    *)
(* the order does not matter, by the least set for which it would.         *)
(*                                                                         *)
(* After the chunks, the migrations, for every number of processes, and    *)
(* the settings, for every configuration: what a save that was cut short   *)
(* left is told row by row.                                                *)
(***************************************************************************)
EXTENDS ChunkStore, Settings, Migrations, FiniteSetTheorems, TLAPS

Pick(s) == CHOOSE x \in s : TRUE

(* sums[s] is the sum of f over the subset s of S.                          *)
IsSums(sums, f, S) ==
  sums = [s \in SUBSET S |-> IF s = {} THEN 0 ELSE f[Pick(s)] + sums[s \ {Pick(s)}]]

SizeOf == [d \in Data |-> Size(d)]

(* The rows of r are finitely many and tell the size of their content.     *)
Sized(r) == IsFiniteSet(Stored(r)) /\ \A d \in Stored(r) : r[d].size = Size(d)

QuotaInv == TypeOK /\ Sized(rows) /\ quota <= widest /\ RowsWithinQuota
-----------------------------------------------------------------------------
(* A nonempty set of naturals has a least element.                         *)
LEMMA LeastNatural ==
  ASSUME NEW T \in SUBSET Nat, T # {}
  PROVE  \E n \in T : \A m \in T : n <= m
<1>1. IsWellFoundedOn(OpToRel(<, Nat), Nat)
  BY NatLessThanWellFounded
<1>2. PICK n \in T : \A m \in T : ~(<<m, n>> \in OpToRel(<, Nat))
  BY <1>1, WFMin
<1>3. \A m \in T : ~(m < n)
  BY <1>2, Zenon DEF OpToRel
<1> QED
  BY <1>3

(* A nonempty family of finite sets has a member none of whose elements can *)
(* be taken away within the family.                                        *)
LEMMA LeastSubset ==
  ASSUME NEW S, IsFiniteSet(S), NEW B \in SUBSET (SUBSET S), B # {}
  PROVE  \E s \in B : \A x \in s : s \ {x} \notin B
<1> DEFINE T == {Cardinality(s) : s \in B}
<1>1. \A s \in B : IsFiniteSet(s) /\ Cardinality(s) \in Nat
  BY FS_Subset, FS_CardinalityType
<1>2. T \in SUBSET Nat /\ T # {}
  BY <1>1
<1>3. PICK n \in T : \A m \in T : n <= m
  <2> HIDE DEF T
  <2> QED
    BY <1>2, LeastNatural
<1>4. PICK s \in B : n = Cardinality(s)
  BY <1>3
<1>5. ASSUME NEW x \in s, s \ {x} \in B
      PROVE  FALSE
  <2>1. Cardinality(s \ {x}) = Cardinality(s) - 1
    BY <1>1, <1>5, FS_RemoveElement
  <2>2. Cardinality(s) <= Cardinality(s \ {x})
    BY <1>3, <1>4, <1>5
  <2> QED
    BY <1>1, <2>1, <2>2
<1> QED
  BY <1>4, <1>5

LEMMA PickIn ==
  ASSUME NEW s, s # {}
  PROVE  Pick(s) \in s
BY DEF Pick

(* The recursion of the fold has a solution, built cardinality by           *)
(* cardinality.                                                            *)
LEMMA SumsExist ==
  ASSUME NEW S, IsFiniteSet(S), NEW f
  PROVE  \E sums : IsSums(sums, f, S)
<1> DEFINE Step(h, s) == IF s = {} THEN 0 ELSE f[Pick(s)] + h[s \ {Pick(s)}]
           Solves(h, k) == \A s \in SUBSET S : Cardinality(s) <= k => h[s] = Step(h, s)
           Unsolved == {k \in Nat : ~\E h : Solves(h, k)}
<1>1. \A s \in SUBSET S : IsFiniteSet(s) /\ Cardinality(s) \in Nat
  BY FS_Subset, FS_CardinalityType
<1>2. Unsolved = {}
  <2> SUFFICES ASSUME Unsolved # {} PROVE FALSE
    OBVIOUS
  <2>1. PICK k \in Unsolved : \A m \in Unsolved : k <= m
    <3>1. Unsolved \in SUBSET Nat
      OBVIOUS
    <3> HIDE DEF Unsolved
    <3> QED
      BY <3>1, LeastNatural
  <2>2. CASE k = 0
    <3> DEFINE h == [s \in SUBSET S |-> 0]
    <3>1. ASSUME NEW s \in SUBSET S, Cardinality(s) <= 0
          PROVE  h[s] = Step(h, s)
      <4>1. s = {}
        BY <1>1, <3>1, FS_EmptySet
      <4> QED
        BY <4>1
    <3>2. Solves(h, 0)
      BY <3>1
    <3> QED
      BY <2>1, <2>2, <3>2
  <2>3. CASE k # 0
    <3>0. k \in Nat
      BY <2>1
    <3>1. k - 1 \in Nat /\ k - 1 \notin Unsolved
      <4>1. k - 1 \in Nat /\ ~(k <= k - 1)
        BY <2>3, <3>0
      <4> HIDE DEF Unsolved
      <4> QED
        BY <2>1, <4>1
    <3>2. PICK h : Solves(h, k - 1)
      BY <3>1
    <3> DEFINE g == [s \in SUBSET S |-> Step(h, s)]
    <3>3. ASSUME NEW s \in SUBSET S, Cardinality(s) <= k
          PROVE  g[s] = Step(g, s)
      <4>1. CASE s = {}
        BY <4>1
      <4>2. CASE s # {}
        <5>1. PICK r : r = s \ {Pick(s)}
          OBVIOUS
        <5>2. r \in SUBSET S /\ Cardinality(r) = Cardinality(s) - 1
          BY <1>1, <4>2, <5>1, PickIn, FS_RemoveElement
        <5>3. Cardinality(r) <= k - 1
          BY <1>1, <2>1, <3>3, <5>2
        <5>4. h[r] = Step(h, r)
          BY <3>2, <5>2, <5>3
        <5>5. g[r] = h[r]
          BY <5>2, <5>4
        <5>6. g[s] = f[Pick(s)] + h[r]
          BY <4>2, <5>1
        <5> QED
          BY <4>2, <5>1, <5>5, <5>6
      <4> QED
        BY <4>1, <4>2
    <3>4. Solves(g, k)
      BY <3>3
    <3> QED
      BY <2>1, <3>4
  <2> QED
    BY <2>2, <2>3
<1>3. PICK h : Solves(h, Cardinality(S))
  <2>1. Cardinality(S) \in Nat
    BY FS_CardinalityType
  <2> QED
    BY <1>2, <2>1
<1> DEFINE sums == [s \in SUBSET S |-> h[s]]
<1>4. ASSUME NEW s \in SUBSET S
      PROVE  sums[s] = Step(sums, s)
  <2>1. h[s] = Step(h, s)
    <3>1. Cardinality(s) <= Cardinality(S)
      BY FS_Subset
    <3> QED
      BY <1>3, <3>1
  <2>2. CASE s = {}
    BY <2>1, <2>2
  <2>3. CASE s # {}
    <3>1. s \ {Pick(s)} \in SUBSET S
      OBVIOUS
    <3> QED
      BY <2>1, <2>3, <3>1
  <2> QED
    BY <2>2, <2>3
<1>5. sums = [s \in SUBSET S |-> Step(sums, s)]
  <2>1. sums = [s \in SUBSET S |-> sums[s]]
    OBVIOUS
  <2> HIDE DEF sums
  <2> QED
    BY <1>4, <2>1
<1>6. IsSums(sums, f, S)
  BY <1>5 DEF IsSums
<1> QED
  BY <1>6

(* Sums of naturals are naturals, and any element may be taken first.       *)
LEMMA SumAdds ==
  ASSUME NEW S, IsFiniteSet(S), NEW f \in [S -> Nat], NEW sums, IsSums(sums, f, S)
  PROVE  /\ \A s \in SUBSET S : sums[s] \in Nat
         /\ \A s \in SUBSET S : \A x \in s : sums[s] = f[x] + sums[s \ {x}]
<1>1. sums[{}] = 0
  BY DEF IsSums
<1>2. ASSUME NEW s \in SUBSET S, s # {}
      PROVE  sums[s] = f[Pick(s)] + sums[s \ {Pick(s)}]
  BY <1>2 DEF IsSums
<1>3. ASSUME NEW s \in SUBSET S, sums[s] \notin Nat
      PROVE  FALSE
  <2> DEFINE B == {u \in SUBSET S : sums[u] \notin Nat}
  <2>1. B \in SUBSET (SUBSET S) /\ B # {}
    BY <1>3
  <2>2. PICK u \in B : \A x \in u : u \ {x} \notin B
    <3> HIDE DEF B
    <3> QED
      BY <2>1, LeastSubset
  <2>3. u # {}
    <3>1. sums[u] # 0
      BY <2>2
    <3> QED
      BY <1>1, <3>1, Zenon
  <2>4. Pick(u) \in u /\ sums[u \ {Pick(u)}] \in Nat
    BY <2>2, <2>3, PickIn
  <2> QED
    BY <1>2, <2>2, <2>3, <2>4
<1>4. ASSUME NEW s \in SUBSET S, NEW x \in s, sums[s] # f[x] + sums[s \ {x}]
      PROVE  FALSE
  <2> DEFINE Off(u) == \E y \in u : sums[u] # f[y] + sums[u \ {y}]
             B == {u \in SUBSET S : Off(u)}
  <2>1. B \in SUBSET (SUBSET S) /\ B # {}
    BY <1>4
  <2>2. PICK u \in B : \A y \in u : u \ {y} \notin B
    <3> HIDE DEF B
    <3> QED
      BY <2>1, LeastSubset
  <2>3. PICK y \in u : sums[u] # f[y] + sums[u \ {y}]
    BY <2>2
  <2>4. PICK p \in u : p = Pick(u)
    BY <2>3, PickIn
  <2>5. u \in SUBSET S /\ u # {}
    BY <2>2, <2>3
  <2>6. sums[u] = f[p] + sums[u \ {p}]
    BY <1>2, <2>4, <2>5
  <2>7. p # y
    BY <2>3, <2>6
  <2>8. sums[u \ {p}] = f[y] + sums[(u \ {p}) \ {y}]
    <3>1. y \in u \ {p} /\ ~Off(u \ {p})
      BY <2>2, <2>5, <2>7
    <3> QED
      BY <3>1
  <2>9. sums[u \ {y}] = f[p] + sums[(u \ {y}) \ {p}]
    <3>1. p \in u \ {y} /\ ~Off(u \ {y})
      BY <2>2, <2>5, <2>7
    <3> QED
      BY <3>1
  <2>10. PICK v : v = (u \ {p}) \ {y} /\ v = (u \ {y}) \ {p}
    OBVIOUS
  <2>11. PICK a \in Nat, b \in Nat, c \in Nat : a = f[p] /\ b = f[y] /\ c = sums[v]
    BY <1>3, <2>5, <2>10
  <2>12. sums[u] = a + (b + c)
    BY <2>6, <2>8, <2>10, <2>11, Zenon
  <2>13. f[y] + sums[u \ {y}] = b + (a + c)
    BY <2>9, <2>10, <2>11, Zenon
  <2>14. a + (b + c) = b + (a + c)
    OBVIOUS
  <2> QED
    BY <2>3, <2>12, <2>13, <2>14, Zenon
<1> QED
  BY <1>3, <1>4

(* What the fold computes depends on the elements folded over only.         *)
LEMMA SumsAgree ==
  ASSUME NEW S, IsFiniteSet(S), NEW T \in SUBSET S, NEW f,
         NEW sums, IsSums(sums, f, S), NEW part, IsSums(part, f, T)
  PROVE  part[T] = sums[T]
<1> DEFINE B == {s \in SUBSET T : part[s] # sums[s]}
<1> SUFFICES ASSUME B # {} PROVE FALSE
  OBVIOUS
<1>1. B \in SUBSET (SUBSET S)
  OBVIOUS
<1>2. PICK s \in B : \A x \in s : s \ {x} \notin B
  <2> HIDE DEF B
  <2> QED
    BY <1>1, LeastSubset
<1>3. s \in SUBSET T /\ s \in SUBSET S
  BY <1>2
<1>4. s # {}
  BY <1>2, <1>3 DEF IsSums
<1>5. /\ part[s] = f[Pick(s)] + part[s \ {Pick(s)}]
      /\ sums[s] = f[Pick(s)] + sums[s \ {Pick(s)}]
  BY <1>3, <1>4 DEF IsSums
<1>6. part[s \ {Pick(s)}] = sums[s \ {Pick(s)}]
  BY <1>2, <1>4, PickIn
<1> QED
  BY <1>2, <1>5, <1>6
-----------------------------------------------------------------------------
LEMMA SizeOfType == SizeOf \in [Data -> Nat]
BY ChunkAssumption DEF SizeOf

(* The rows count what their contents weigh.                               *)
LEMMA BytesAreSizes ==
  ASSUME NEW r, Sized(r), NEW S \in SUBSET Data, IsFiniteSet(S), Stored(r) \subseteq S,
         NEW sums, IsSums(sums, SizeOf, S)
  PROVE  Bytes(r) = sums[Stored(r)]
<1> DEFINE T == Stored(r)
           Solves(h) == h = [s \in SUBSET T |-> IF s = {} THEN 0
                               ELSE r[CHOOSE x \in s : TRUE].size + h[s \ {CHOOSE x \in s : TRUE}]]
           part == CHOOSE h : Solves(h)
<1>1. IsFiniteSet(T) /\ T \in SUBSET Data /\ \A d \in T : r[d].size = SizeOf[d]
  BY DEF Sized, Stored, SizeOf
<1>2. ASSUME NEW h
      PROVE  [s \in SUBSET T |-> IF s = {} THEN 0 ELSE SizeOf[Pick(s)] + h[s \ {Pick(s)}]]
               = [s \in SUBSET T |-> IF s = {} THEN 0
                    ELSE r[CHOOSE x \in s : TRUE].size + h[s \ {CHOOSE x \in s : TRUE}]]
  <2>1. ASSUME NEW s \in SUBSET T, s # {}
        PROVE  SizeOf[Pick(s)] = r[Pick(s)].size
    BY <1>1, <2>1, PickIn
  <2> HIDE DEF T
  <2> QED
    BY <2>1 DEF Pick
<1>3. \A h : IsSums(h, SizeOf, T) <=> Solves(h)
  <2> SUFFICES ASSUME NEW h PROVE IsSums(h, SizeOf, T) <=> Solves(h)
    OBVIOUS
  <2> DEFINE sizes == [s \in SUBSET T |-> IF s = {} THEN 0 ELSE SizeOf[Pick(s)] + h[s \ {Pick(s)}]]
             picked == [s \in SUBSET T |-> IF s = {} THEN 0
                          ELSE r[CHOOSE x \in s : TRUE].size + h[s \ {CHOOSE x \in s : TRUE}]]
  <2>1. sizes = picked
    BY <1>2
  <2>2. IsSums(h, SizeOf, T) <=> h = sizes
    BY DEF IsSums
  <2>3. Solves(h) <=> h = picked
    OBVIOUS
  <2> HIDE DEF sizes, picked, Solves
  <2> QED
    BY <2>1, <2>2, <2>3
<1>4. \E h : IsSums(h, SizeOf, T)
  <2> HIDE DEF T
  <2> QED
    BY <1>1, SumsExist
<1>5. IsSums(part, SizeOf, T)
  <2>1. Solves(part)
    <3> HIDE DEF Solves
    <3> QED
      BY <1>3, <1>4
  <2> HIDE DEF Solves, part
  <2> QED
    BY <1>3, <2>1
<1>6. Bytes(r) = part[T]
  BY DEF Bytes, MapThenSumSet, MapThenFoldSet
<1>7. part[T] = sums[T]
  <2> HIDE DEF part, T
  <2> QED
    BY <1>5, SumsAgree DEF T
<1> QED
  BY <1>6, <1>7

(* A row that is new adds its content's size, one that was there adds       *)
(* nothing.                                                                *)
LEMMA RowAdds ==
  ASSUME NEW r, Sized(r), NEW q, Sized(q), NEW d \in Data, Stored(q) = Stored(r) \cup {d}
  PROVE  /\ Bytes(r) \in Nat /\ Bytes(q) \in Nat
         /\ Bytes(q) <= Bytes(r) + Size(d) /\ Bytes(r) <= Bytes(q)
<1> DEFINE S == Stored(r) \cup {d}
<1>1. IsFiniteSet(S) /\ S \in SUBSET Data
  BY FS_AddElement DEF Sized, Stored
<1>2. PICK sums : IsSums(sums, SizeOf, S)
  BY <1>1, SumsExist
<1>3. Bytes(r) = sums[Stored(r)]
  BY <1>1, <1>2, BytesAreSizes
<1>4. Bytes(q) = sums[S]
  <2>1. Stored(q) = S
    OBVIOUS
  <2> HIDE DEF S
  <2> QED
    BY <1>1, <1>2, <2>1, BytesAreSizes
<1>5. PICK f \in [S -> Nat] : IsSums(sums, f, S) /\ f[d] = Size(d)
  <2> DEFINE f == [x \in S |-> SizeOf[x]]
  <2>1. f \in [S -> Nat] /\ f[d] = Size(d)
    BY <1>1, SizeOfType DEF SizeOf
  <2>2. [s \in SUBSET S |-> IF s = {} THEN 0 ELSE SizeOf[Pick(s)] + sums[s \ {Pick(s)}]]
          = [s \in SUBSET S |-> IF s = {} THEN 0 ELSE f[Pick(s)] + sums[s \ {Pick(s)}]]
    <3>1. ASSUME NEW s \in SUBSET S, s # {}
          PROVE  SizeOf[Pick(s)] = f[Pick(s)]
      BY <3>1, PickIn
    <3> HIDE DEF S, f
    <3> QED
      BY <3>1
  <2>3. IsSums(sums, f, S)
    BY <1>2, <2>2, Zenon DEF IsSums
  <2> QED
    BY <2>1, <2>3
<1>6. sums[Stored(r)] \in Nat /\ sums[S] \in Nat
  BY <1>1, <1>5, SumAdds
<1>7. sums[S] <= sums[Stored(r)] + Size(d) /\ sums[Stored(r)] <= sums[S]
  <2>1. CASE d \in Stored(r)
    <3>1. S = Stored(r) /\ Size(d) \in Nat
      BY <2>1, ChunkAssumption
    <3> QED
      BY <1>6, <3>1
  <2>2. CASE d \notin Stored(r)
    <3>1. S \in SUBSET S /\ d \in S
      OBVIOUS
    <3>2. sums[S] = f[d] + sums[S \ {d}]
      <4> HIDE DEF S
      <4> QED
        BY <1>1, <1>5, <3>1, SumAdds
    <3>3. S \ {d} = Stored(r)
      BY <2>2
    <3>4. sums[S] = Size(d) + sums[Stored(r)]
      BY <1>5, <3>2, <3>3, Zenon
    <3>5. Size(d) \in Nat
      BY ChunkAssumption
    <3> QED
      BY <1>6, <3>4, <3>5
  <2> QED
    BY <2>1, <2>2
<1> QED
  BY <1>3, <1>4, <1>6, <1>7

(* Rows of the same contents count the same, a natural.                    *)
LEMMA BytesSame ==
  ASSUME NEW r, Sized(r), NEW q, Sized(q), Stored(q) = Stored(r)
  PROVE  Bytes(r) \in Nat /\ Bytes(q) = Bytes(r)
<1>1. IsFiniteSet(Stored(r)) /\ Stored(r) \in SUBSET Data
  BY DEF Sized, Stored
<1>2. PICK sums : IsSums(sums, SizeOf, Stored(r))
  BY <1>1, SumsExist
<1>3. Bytes(r) = sums[Stored(r)] /\ Bytes(q) = sums[Stored(r)]
  BY <1>1, <1>2, BytesAreSizes
<1>4. CASE Stored(r) = {}
  BY <1>2, <1>3, <1>4 DEF IsSums
<1>5. CASE Stored(r) # {}
  <2>1. PICK d \in Stored(r) : TRUE
    BY <1>5
  <2>2. d \in Data /\ Stored(r) = Stored(r) \cup {d}
    BY <1>1, <2>1
  <2>3. Bytes(r) \in Nat
    BY <2>2, RowAdds
  <2> QED
    BY <1>3, <2>3
<1> QED
  BY <1>4, <1>5

(* Leaving rows out leaves rows that tell their sizes.                     *)
LEMMA WithoutSized ==
  ASSUME NEW r, Sized(r), NEW contents
  PROVE  Stored(Without(r, contents)) = Stored(r) \ contents /\ Sized(Without(r, contents))
<1>1. Stored(Without(r, contents)) = Stored(r) \ contents
  BY DEF Stored, Without
<1>2. IsFiniteSet(Stored(r) \ contents)
  BY FS_Subset DEF Sized
<1>3. \A d \in Stored(r) \ contents : Without(r, contents)[d].size = Size(d)
  BY DEF Sized, Stored, Without
<1> QED
  BY <1>1, <1>2, <1>3 DEF Sized
-----------------------------------------------------------------------------
LEMMA InitChunkType == Init => TypeOK
<1> SUFFICES ASSUME Init PROVE TypeOK
  OBVIOUS
<1> QED
  BY ChunkAssumption DEF Init, TypeOK

(* What a row is after the chunk d came as (t, i).                          *)
LEMMA SavedRow ==
  ASSUME TypeOK, NEW t \in Transfer, NEW i \in Index, NEW d \in Data, NEW outcome,
         SaveStoredChunk(t, i, d, outcome), outcome = "both"
  PROVE  /\ rows' \in [Data -> Row \cup {NoRow}]
         /\ rows'[d] \in Row /\ rows'[d].path = <<t, i>> /\ rows'[d].size = Size(d)
         /\ \A e \in Data \ {d} : rows'[e] = rows[e]
<1> DEFINE row == [transfer |-> IF rows[d] = NoRow THEN t ELSE rows[d].transfer,
                   index |-> IF rows[d] = NoRow THEN i ELSE rows[d].index,
                   path |-> <<t, i>>, size |-> Size(d), expires |-> now + Retention]
<1>1. rows' = [rows EXCEPT ![d] = row]
  BY DEF SaveStoredChunk
<1>2. row \in Row
  <2>1. rows[d] \in Row \cup {NoRow}
    BY DEF TypeOK
  <2>2. now + Retention \in 0 .. MaxTime + Retention
    BY ChunkAssumption DEF TypeOK
  <2>3. (IF rows[d] = NoRow THEN t ELSE rows[d].transfer) \in Transfer
    BY <2>1 DEF Row
  <2>4. (IF rows[d] = NoRow THEN i ELSE rows[d].index) \in Index
    BY <2>1 DEF Row
  <2> QED
    BY <2>2, <2>3, <2>4 DEF Row, Path
<1>3. rows \in [Data -> Row \cup {NoRow}]
  BY DEF TypeOK
<1>4. row.path = <<t, i>> /\ row.size = Size(d)
  OBVIOUS
<1> HIDE DEF row
<1> QED
  BY <1>1, <1>2, <1>3, <1>4

LEMMA FileChunkType ==
  ASSUME TypeOK, NEW t \in Transfer, NEW i \in Index, NEW d \in Data, NEW claimed,
         NEW unread, NEW outcome, FileChunk(t, i, d, claimed, unread, outcome)
  PROVE  TypeOK'
<1>1. rows' \in [Data -> Row \cup {NoRow}]
  <2>1. CASE UNCHANGED rows
    BY <2>1 DEF TypeOK
  <2>2. CASE ~UNCHANGED rows
    <3>1. SaveStoredChunk(t, i, d, outcome) /\ outcome = "both"
      BY <2>2 DEF FileChunk, SaveStoredChunk
    <3> QED
      BY <3>1, SavedRow
  <2> QED
    BY <2>1, <2>2
<1>2. files' \in [Path -> Data \cup {NoFile, "torn"}]
  <2>1. CASE UNCHANGED files
    BY <2>1 DEF TypeOK
  <2>2. CASE WriteFile(<<t, i>>, d, outcome)
    BY <2>2 DEF WriteFile, TypeOK
  <2> QED
    BY <2>1, <2>2 DEF FileChunk
<1>3. ack' \in {"none", "success", "failure"} /\ blind' \subseteq Data
  <2>1. CASE Taken(d, claimed, unread)
    BY <2>1 DEF FileChunk, TypeOK
  <2>2. CASE ~Taken(d, claimed, unread)
    BY <2>2 DEF FileChunk, TypeOK
  <2> QED
    BY <2>1, <2>2
<1> QED
  BY <1>1, <1>2, <1>3 DEF FileChunk, TypeOK

LEMMA MaxOfTwo ==
  ASSUME NEW a \in Nat, NEW b \in Nat
  PROVE  Max({a, b}) \in {a, b} /\ a <= Max({a, b}) /\ b <= Max({a, b})
<1>1. \E x \in {a, b} : \A y \in {a, b} : x >= y
  OBVIOUS
<1> QED
  BY <1>1 DEF Max

LEMMA NextChunkType == TypeOK /\ [Next]_vars => TypeOK'
<1> SUFFICES ASSUME TypeOK, [Next]_vars PROVE TypeOK'
  OBVIOUS
<1>1. CASE Tick
  BY <1>1, ChunkAssumption DEF Tick, TypeOK
<1>2. ASSUME NEW q \in Quota, SaveStorageSettings(q)
      PROVE  TypeOK'
  <2>1. widest \in Quota /\ widest \in Nat /\ q \in Nat
    BY ChunkAssumption DEF TypeOK
  <2>2. Max({widest, q}) \in Quota
    BY <2>1, MaxOfTwo
  <2> QED
    BY <1>2, <2>2 DEF SaveStorageSettings, TypeOK
<1>3. ASSUME NEW t \in Transfer, NEW i \in Index, NEW d \in Data, NEW claimed \in Data,
             NEW unread \in SUBSET Read, NEW outcome \in Outcome,
             FileChunk(t, i, d, claimed, unread, outcome)
      PROVE  TypeOK'
  BY <1>3, FileChunkType
<1>4. CASE UNCHANGED vars
  BY <1>4 DEF vars, TypeOK
<1> QED
  BY <1>1, <1>2, <1>3, <1>4 DEF Next

(* The file and the row of a chunk (lib.rs 1525-1574) are what save_chunk   *)
(* and save_stored_chunk write, whichever of them fails.                    *)
THEOREM ChunkTypeCorrect == Spec => []TypeOK
BY InitChunkType, NextChunkType, PTL DEF Spec
-----------------------------------------------------------------------------
LEMMA InitQuota == Init => QuotaInv
<1> SUFFICES ASSUME Init PROVE QuotaInv
  OBVIOUS
<1>1. Stored(rows) = {}
  BY DEF Init, Stored
<1>2. Sized(rows)
  BY <1>1, FS_EmptySet DEF Sized
<1>3. quota = widest /\ widest \in Nat
  BY ChunkAssumption DEF Init
<1>4. Bytes(Without(rows, blind)) = 0
  <2>1. Sized(Without(rows, blind)) /\ Stored(Without(rows, blind)) = {}
    BY <1>1, <1>2, WithoutSized
  <2>2. PICK sums : IsSums(sums, SizeOf, {})
    BY FS_EmptySet, SumsExist
  <2>3. Bytes(Without(rows, blind)) = sums[{}]
    BY <2>1, <2>2, FS_EmptySet, BytesAreSizes
  <2> QED
    BY <2>2, <2>3 DEF IsSums
<1>5. RowsWithinQuota
  BY <1>3, <1>4 DEF RowsWithinQuota, Init
<1> QED
  BY <1>2, <1>3, <1>5, InitChunkType DEF QuotaInv

(* A chunk is accepted with its row.  When the sum was read, what is        *)
(* counted next is what was compared with the quota, or less when the row   *)
(* was there; when it was not, the row leaves the rows that are counted.    *)
LEMMA FileChunkQuota ==
  ASSUME QuotaInv, NEW t \in Transfer, NEW i \in Index, NEW d \in Data, NEW claimed,
         NEW unread, NEW outcome, FileChunk(t, i, d, claimed, unread, outcome),
         Taken(d, claimed, unread), outcome = "both"
  PROVE  /\ Sized(rows') /\ Bytes(Without(rows', blind')) <= widest'
         /\ \A e \in blind' : Size(e) <= widest'
<1>1. TypeOK /\ Sized(rows) /\ quota <= widest /\ RowsWithinQuota
  BY DEF QuotaInv
<1>2. /\ Fits(d, unread) /\ SaveStoredChunk(t, i, d, outcome) /\ UNCHANGED <<quota, widest>>
      /\ blind' = IF "sum" \in unread THEN blind \cup {d} ELSE {}
  BY DEF FileChunk, Taken
<1>3. /\ rows'[d] \in Row /\ rows'[d].size = Size(d)
      /\ \A e \in Data \ {d} : rows'[e] = rows[e]
  BY <1>1, <1>2, SavedRow
<1>4. Stored(rows') = Stored(rows) \cup {d}
  BY <1>3, AbsentAssumption DEF Stored
<1>5. Sized(rows')
  <2>1. IsFiniteSet(Stored(rows'))
    BY <1>1, <1>4, FS_AddElement DEF Sized
  <2>2. \A e \in Stored(rows') : rows'[e].size = Size(e)
    BY <1>1, <1>3, <1>4 DEF Sized, Stored
  <2> QED
    BY <2>1, <2>2 DEF Sized
<1>6. PICK w \in Nat, k \in Nat : w = widest /\ k = quota /\ k <= w
  BY <1>1, ChunkAssumption DEF TypeOK
<1>7. Size(d) \in Nat
  BY ChunkAssumption
<1>8. PICK r, q : r = rows /\ q = rows'
  OBVIOUS
<1>9. CASE "sum" \notin unread
  <2>1. Sized(Without(q, {})) /\ Stored(Without(q, {})) = Stored(r) \cup {d}
    BY <1>4, <1>5, <1>8, WithoutSized
  <2>2. /\ Bytes(r) \in Nat /\ Bytes(Without(q, {})) \in Nat
        /\ Bytes(Without(q, {})) <= Bytes(r) + Size(d)
    BY <1>1, <1>8, <2>1, RowAdds
  <2>3. Bytes(r) + Size(d) <= k
    BY <1>2, <1>6, <1>8, <1>9 DEF Fits, Counted, StoredChunkBytes
  <2>4. Bytes(Without(q, {})) <= w
    BY <1>6, <1>7, <2>2, <2>3
  <2> QED
    BY <1>2, <1>5, <1>6, <1>8, <1>9, <2>4
<1>10. CASE "sum" \in unread
  <2> DEFINE seen == Without(r, blind)
             left == Without(q, blind \cup {d})
  <2>1. Sized(seen) /\ Stored(seen) = Stored(r) \ blind
    BY <1>1, <1>8, WithoutSized
  <2>2. Sized(left) /\ Stored(left) = Stored(seen) \ {d}
    BY <1>4, <1>5, <1>8, <2>1, WithoutSized
  <2>3. Bytes(seen) <= w /\ \A e \in blind : Size(e) <= w
    BY <1>1, <1>6, <1>8 DEF RowsWithinQuota
  <2>4. Bytes(left) <= w
    <3> HIDE DEF seen, left
    <3>1. CASE d \in Stored(seen)
      <4>1. Stored(seen) = Stored(left) \cup {d}
        BY <2>2, <3>1
      <4>2. Bytes(left) \in Nat /\ Bytes(seen) \in Nat /\ Bytes(left) <= Bytes(seen)
        BY <2>1, <2>2, <4>1, RowAdds
      <4> QED
        BY <1>6, <2>3, <4>2
    <3>2. CASE d \notin Stored(seen)
      <4>1. Stored(left) = Stored(seen)
        BY <2>2, <3>2
      <4>2. Bytes(left) = Bytes(seen)
        BY <2>1, <2>2, <4>1, BytesSame
      <4> QED
        BY <2>3, <4>2
    <3> QED
      BY <3>1, <3>2
  <2>5. Size(d) <= w
    BY <1>2, <1>6, <1>7, <1>10 DEF Fits, Counted
  <2>6. blind' = blind \cup {d} /\ widest' = w
    BY <1>2, <1>6, <1>10
  <2> QED
    BY <1>5, <1>8, <2>3, <2>4, <2>5, <2>6
<1> QED
  BY <1>9, <1>10

LEMMA NextQuota == QuotaInv /\ [Next]_vars => QuotaInv'
<1> SUFFICES ASSUME QuotaInv, [Next]_vars PROVE QuotaInv'
  OBVIOUS
<1> DEFINE Counts == /\ Sized(rows') /\ Bytes(Without(rows', blind')) <= widest'
                     /\ \A e \in blind' : Size(e) <= widest'
<1>1. /\ TypeOK /\ TypeOK' /\ Sized(rows) /\ quota <= widest
      /\ Bytes(Without(rows, blind)) <= widest /\ \A e \in blind : Size(e) <= widest
  BY NextChunkType DEF QuotaInv, RowsWithinQuota
<1> SUFFICES Counts /\ quota' <= widest'
  <2>1. RowsWithinQuota' <=> /\ Bytes(Without(rows', blind')) <= widest'
                            /\ \A e \in blind' : Size(e) <= widest'
    BY DEF RowsWithinQuota, Bytes, Without, Stored, MapThenSumSet, MapThenFoldSet
  <2>2. Sized(rows)' <=> Sized(rows')
    BY DEF Sized, Stored
  <2> QED
    BY <1>1, <2>1, <2>2 DEF QuotaInv
<1>2. CASE UNCHANGED <<rows, quota, widest, blind>>
  BY <1>1, <1>2
<1>3. ASSUME NEW q \in Quota, SaveStorageSettings(q)
      PROVE  Counts /\ quota' <= widest'
  <2>1. PICK w \in Nat : w = widest
    BY <1>1, ChunkAssumption DEF TypeOK
  <2>2. PICK k \in Nat : k = q
    BY ChunkAssumption
  <2>3. w <= Max({w, k}) /\ k <= Max({w, k}) /\ Max({w, k}) \in Nat
    BY MaxOfTwo
  <2>4. quota' = k /\ widest' = Max({w, k}) /\ rows' = rows /\ blind' = blind
    BY <1>3, <2>1, <2>2 DEF SaveStorageSettings
  <2>5. Bytes(Without(rows, blind)) \in Nat
    <3>1. Sized(Without(rows, blind))
      BY <1>1, WithoutSized
    <3> QED
      BY <3>1, BytesSame
  <2>6. \A e \in blind : Size(e) \in Nat
    BY <1>1, ChunkAssumption DEF TypeOK
  <2> QED
    BY <1>1, <2>1, <2>3, <2>4, <2>5, <2>6
<1>4. ASSUME NEW t \in Transfer, NEW i \in Index, NEW d \in Data, NEW claimed \in Data,
             NEW unread \in SUBSET Read, NEW outcome \in Outcome,
             FileChunk(t, i, d, claimed, unread, outcome)
      PROVE  Counts /\ quota' <= widest'
  <2>1. UNCHANGED <<quota, widest>>
    BY <1>4 DEF FileChunk
  <2>2. CASE Taken(d, claimed, unread) /\ outcome = "both"
    BY <1>1, <1>4, <2>1, <2>2, FileChunkQuota
  <2>3. CASE ~(Taken(d, claimed, unread) /\ outcome = "both")
    <3>1. UNCHANGED <<rows, blind>>
      BY <1>4, <2>3 DEF FileChunk, SaveStoredChunk
    <3> QED
      BY <1>2, <2>1, <3>1
  <2> QED
    BY <2>2, <2>3
<1> QED
  BY <1>2, <1>3, <1>4 DEF Next, Tick, vars

(* The quota check of P2pRequest::FileChunk (lib.rs 1540-1549): however     *)
(* chunks, repetitions, failures, crashes and changes of the quota follow   *)
(* each other, the rows count no more than the largest quota there was, but *)
(* for the contents admitted while the sum was not read, each of which      *)
(* stays within it by itself.                                               *)
THEOREM RowsWithinQuotaHolds == Spec => []RowsWithinQuota
<1>1. Spec => []QuotaInv
  BY InitQuota, NextQuota, PTL DEF Spec
<1>2. QuotaInv => RowsWithinQuota
  BY DEF QuotaInv
<1> QED
  BY <1>1, <1>2, PTL
-----------------------------------------------------------------------------
LEMMA NextRowsHaveFiles == TypeOK /\ RowsHaveFiles /\ [Next]_vars => RowsHaveFiles'
<1> SUFFICES ASSUME TypeOK, RowsHaveFiles, [Next]_vars PROVE RowsHaveFiles'
  OBVIOUS
<1>1. CASE UNCHANGED <<rows, files>>
  BY <1>1 DEF RowsHaveFiles
<1>2. ASSUME NEW t \in Transfer, NEW i \in Index, NEW d \in Data, NEW claimed \in Data,
             NEW unread \in SUBSET Read, NEW outcome \in Outcome,
             FileChunk(t, i, d, claimed, unread, outcome),
             ~UNCHANGED <<rows, files>>
      PROVE  RowsHaveFiles'
  <2>1. WriteFile(<<t, i>>, d, outcome) /\ SaveStoredChunk(t, i, d, outcome)
    BY <1>2 DEF FileChunk
  <2>2. /\ files \in [Path -> Data \cup {NoFile, "torn"}] /\ <<t, i>> \in Path
        /\ rows \in [Data -> Row \cup {NoRow}]
    BY DEF TypeOK, Path
  <2>3. /\ files'[<<t, i>>] # NoFile
        /\ \A path \in Path : files[path] # NoFile => files'[path] # NoFile
    BY <2>1, <2>2, AbsentAssumption DEF WriteFile
  <2>4. ASSUME NEW e \in Data, rows'[e] # NoRow
        PROVE  files'[rows'[e].path] # NoFile
    <3>1. CASE rows'[e] = rows[e]
      <4>1. rows[e].path \in Path /\ files[rows[e].path] # NoFile
        BY <2>2, <2>4, <3>1 DEF RowsHaveFiles, Row
      <4> QED
        BY <2>3, <3>1, <4>1
    <3>2. CASE rows'[e] # rows[e]
      <4>1. outcome = "both"
        BY <2>1, <3>2 DEF SaveStoredChunk
      <4>2. e = d /\ rows'[e].path = <<t, i>>
        BY <2>1, <3>2, <4>1, SavedRow
      <4> QED
        BY <2>3, <4>2
    <3> QED
      BY <3>1, <3>2
  <2> QED
    BY <2>4 DEF RowsHaveFiles
<1> QED
  BY <1>1, <1>2 DEF Next, Tick, SaveStorageSettings, vars

(* P2pRequest::FileChunk writes the file before the row (lib.rs 1549-1566): *)
(* whatever fails and wherever the process ends, no row is without a file.  *)
THEOREM RowsHaveFilesHolds == Spec => []RowsHaveFiles
<1>1. Init => RowsHaveFiles
  BY DEF Init, RowsHaveFiles
<1> QED
  BY <1>1, NextRowsHaveFiles, ChunkTypeCorrect, PTL DEF Spec
-----------------------------------------------------------------------------
(* The invariant holds however many processes migrate, fail and end.        *)
THEOREM MigrationsCorrect == MigrationsSpec => []MigrationInv
<1>. USE DEF MigrationInv, MigrationsTypeOK, VersionTold, V1Created, OpenHasSchema, Schema
<1>1. MigrationsInit => MigrationInv
  BY DEF MigrationsInit
<1>2. MigrationInv /\ [MigrationsNext]_migrationsVars => MigrationInv'
  <2>. SUFFICES ASSUME MigrationInv, [MigrationsNext]_migrationsVars PROVE MigrationInv'
    OBVIOUS
  <2>1. ASSUME NEW p \in Process, InitDb(p) PROVE MigrationInv'
    BY <2>1 DEF InitDb, Goto, CURRENT_DB_VERSION
  <2>2. ASSUME NEW p \in Process, MigrateV0(p) PROVE MigrationInv'
    BY <2>2 DEF MigrateV0, Goto
  <2>3. ASSUME NEW p \in Process, MigrateV1ToV2(p) PROVE MigrationInv'
    BY <2>3 DEF MigrateV1ToV2, Goto
  <2>4. ASSUME NEW p \in Process, Fail(p) PROVE MigrationInv'
    BY <2>4 DEF Fail, Goto
  <2>5. ASSUME NEW p \in Process, Crash(p) PROVE MigrationInv'
    BY <2>5 DEF Crash, Goto
  <2>6. CASE UNCHANGED migrationsVars
    BY <2>6 DEF migrationsVars
  <2>. QED BY <2>1, <2>2, <2>3, <2>4, <2>5, <2>6 DEF MigrationsNext
<1>. QED BY <1>1, <1>2, PTL DEF MigrationsSpec

(* db.rs:5-227: a connection that init_db returns has every table, whatever *)
(* version it found, whoever else migrates, and whatever failed before.     *)
THEOREM OpenHasSchemaHolds == MigrationsSpec => []OpenHasSchema
<1>1. MigrationInv => OpenHasSchema
  BY DEF MigrationInv
<1>. QED BY MigrationsCorrect, <1>1, PTL
-----------------------------------------------------------------------------
(* Settings.  A row that is read is of one configuration, the last complete *)
(* one or a later one; while a save is under way, its rows so far are its.  *)
IsTable(rows_) == rows_ = [key \in KeySet |-> rows_[key]]

Saving == [busy : {TRUE}, config : FullConfig, at : 1 .. 7, table : {"settings", "app_settings"}]

RowsRead ==
  \A key \in KeySet :
    \/ \E c \in since : app_settings[key] = Written(c, key)
    \/ /\ key # "storage" /\ app_settings[key] = Absent /\ Default \in since
       /\ settings[key] = Absent \/ \E c \in since : settings[key] = Written(c, key)

Progress ==
  writing # Idle =>
    /\ writing \in Saving /\ writing.config \in since
    /\ \A i \in 1 .. 6 : i < writing.at => app_settings[Keys[i]] = Written(writing.config, Keys[i])

SettingsInv ==
  /\ IsTable(settings) /\ IsTable(app_settings) /\ since \subseteq FullConfig
  /\ RowsRead /\ Progress /\ NextSessionSame

LEMMA SixKeys ==
  /\ Len(Keys) = 6 /\ \A i \in 1 .. 6 : Keys[i] \in KeySet
  /\ KeySet = {"bootstrap_ip", "bootstrap_addrs", "tor_enabled", "default_ttl", "storage", "accept_relay"}
BY DEF Keys, KeySet

LEMMA EveryKey == \A key \in KeySet : \E i \in 1 .. 6 : key = Keys[i]
BY DEF Keys, KeySet

LEMMA WrittenIsThere == \A c, key : Written(c, key) # Absent
BY DEF Written, Absent

LEMMA DefaultIsConfig == Default \in FullConfig
BY DEF Default, FullConfig

LEMMA SavingIsNotIdle == \A w \in Saving : w # Idle
BY DEF Saving, Idle

(* Every value is read back as it was written.                             *)
LEMMA ReadBack ==
  ASSUME NEW c \in FullConfig
  PROVE  /\ Written(c, "bootstrap_ip").value = c["bootstrap_ip"]
         /\ \A own : BootstrapAddrs(Written(c, "bootstrap_addrs"), own) = c["bootstrap_addrs"]
         /\ SettingBool(Written(c, "tor_enabled")) = c["tor_enabled"]
         /\ SettingOptI64(Written(c, "default_ttl")) = c["default_ttl"]
         /\ Written(c, "storage").value = c["storage"]
         /\ SettingBool(Written(c, "accept_relay")) = c["accept_relay"]
<1>1. Written(c, "bootstrap_ip").value = c["bootstrap_ip"]
  BY DEF Written, Text
<1>2. \A own : BootstrapAddrs(Written(c, "bootstrap_addrs"), own) = c["bootstrap_addrs"]
  BY WrittenIsThere DEF BootstrapAddrs, Written, Text
<1>3. SettingBool(Written(c, "tor_enabled")) = c["tor_enabled"]
  BY WrittenIsThere DEF SettingBool, Written, Text, FullConfig
<1>4. SettingOptI64(Written(c, "default_ttl")) = c["default_ttl"]
  BY WrittenIsThere, SettingsAssumption DEF SettingOptI64, Written, Text, FullConfig
<1>5. Written(c, "storage").value = c["storage"]
  BY DEF Written, Text
<1>6. SettingBool(Written(c, "accept_relay")) = c["accept_relay"]
  BY WrittenIsThere DEF SettingBool, Written, Text, FullConfig
<1> QED
  BY <1>1, <1>2, <1>3, <1>4, <1>5, <1>6

(* A row that is not there is read as the default.                         *)
LEMMA DefaultsRead ==
  /\ Default["bootstrap_ip"] = "" /\ Default["bootstrap_addrs"] = FromIp("")
  /\ SettingBool(Absent) = Default["tor_enabled"]
  /\ SettingOptI64(Absent) = Default["default_ttl"]
  /\ SettingBool(Absent) = Default["accept_relay"]
  /\ \A own : BootstrapAddrs(Absent, own) = FromIp(own)
BY DEF Default, FromIp, SettingBool, SettingOptI64, BootstrapAddrs

(* The fields of what load_full_config_from_db returns.                    *)
LEMMA Loaded ==
  /\ LoadFullConfig["bootstrap_ip"] =
       IF LoadSetting("bootstrap_ip") = Absent THEN "" ELSE LoadSetting("bootstrap_ip").value
  /\ LoadFullConfig["bootstrap_addrs"] =
       BootstrapAddrs(LoadSetting("bootstrap_addrs"), LoadFullConfig["bootstrap_ip"])
  /\ LoadFullConfig["tor_enabled"] = SettingBool(LoadSetting("tor_enabled"))
  /\ LoadFullConfig["default_ttl"] = SettingOptI64(LoadSetting("default_ttl"))
  /\ LoadFullConfig["storage"] = app_settings["storage"].value
  /\ LoadFullConfig["accept_relay"] = SettingBool(LoadSetting("accept_relay"))
BY DEF LoadFullConfig

(* What load_setting finds.                                                *)
LEMMA RowFound ==
  ASSUME RowsRead, NEW key \in KeySet
  PROVE  \/ \E c \in since : LoadSetting(key) = Written(c, key)
         \/ key # "storage" /\ LoadSetting(key) = Absent /\ Default \in since
BY WrittenIsThere DEF RowsRead, LoadSetting

(* Each setting that is read is of a configuration of since.                *)
LEMMA ReadsOldOrNew ==
  ASSUME since \subseteq FullConfig, RowsRead
  PROVE  OldOrNew
<1> SUFFICES ASSUME NEW key \in KeySet
             PROVE  \/ \E c \in since : LoadFullConfig[key] = c[key]
                    \/ /\ key = "bootstrap_addrs"
                       /\ \E c \in since : LoadFullConfig[key] = FromIp(c.bootstrap_ip)
  BY DEF OldOrNew
<1>1. \A c \in since : c \in FullConfig /\ c.bootstrap_ip = c["bootstrap_ip"]
  OBVIOUS
<1>2. \E c \in since : LoadFullConfig["bootstrap_ip"] = c["bootstrap_ip"]
  <2>1. CASE \E c \in since : LoadSetting("bootstrap_ip") = Written(c, "bootstrap_ip")
    BY <1>1, <2>1, WrittenIsThere, ReadBack, Loaded
  <2>2. CASE LoadSetting("bootstrap_ip") = Absent /\ Default \in since
    BY <2>2, DefaultsRead, Loaded
  <2> QED
    BY <2>1, <2>2, RowFound, SixKeys
<1>3. CASE key = "bootstrap_ip"
  BY <1>2, <1>3
<1>4. CASE key = "bootstrap_addrs"
  <2>1. CASE \E c \in since : LoadSetting(key) = Written(c, key)
    BY <1>1, <1>4, <2>1, ReadBack, Loaded
  <2>2. CASE LoadSetting(key) = Absent
    BY <1>1, <1>2, <1>4, <2>2, DefaultsRead, Loaded
  <2> QED
    BY <2>1, <2>2, RowFound
<1>5. CASE key = "tor_enabled"
  <2>1. ASSUME NEW c \in since, LoadSetting("tor_enabled") = Written(c, "tor_enabled")
        PROVE  LoadFullConfig["tor_enabled"] = c["tor_enabled"]
    BY <2>1, ReadBack, Loaded
  <2>2. ASSUME LoadSetting("tor_enabled") = Absent
        PROVE  LoadFullConfig["tor_enabled"] = Default["tor_enabled"]
    BY <2>2, DefaultsRead, Loaded
  <2> QED
    BY <1>5, <2>1, <2>2, RowFound
<1>6. CASE key = "default_ttl"
  <2>1. ASSUME NEW c \in since, LoadSetting("default_ttl") = Written(c, "default_ttl")
        PROVE  LoadFullConfig["default_ttl"] = c["default_ttl"]
    BY <2>1, ReadBack, Loaded
  <2>2. ASSUME LoadSetting("default_ttl") = Absent
        PROVE  LoadFullConfig["default_ttl"] = Default["default_ttl"]
    BY <2>2, DefaultsRead, Loaded
  <2> QED
    BY <1>6, <2>1, <2>2, RowFound
<1>7. CASE key = "storage"
  <2>1. \E c \in since : app_settings["storage"] = Written(c, "storage")
    BY <1>7 DEF RowsRead
  <2> QED
    BY <1>1, <1>7, <2>1, ReadBack, Loaded
<1>8. CASE key = "accept_relay"
  <2>1. ASSUME NEW c \in since, LoadSetting("accept_relay") = Written(c, "accept_relay")
        PROVE  LoadFullConfig["accept_relay"] = c["accept_relay"]
    BY <2>1, ReadBack, Loaded
  <2>2. ASSUME LoadSetting("accept_relay") = Absent
        PROVE  LoadFullConfig["accept_relay"] = Default["accept_relay"]
    BY <2>2, DefaultsRead, Loaded
  <2> QED
    BY <1>8, <2>1, <2>2, RowFound
<1> QED
  BY <1>3, <1>4, <1>5, <1>6, <1>7, <1>8, SixKeys

(* When every newer row is of one configuration, that is what is read.      *)
LEMMA ReadsWhatWasSaved ==
  ASSUME NEW c \in FullConfig, \A key \in KeySet : app_settings[key] = Written(c, key)
  PROVE  LoadFullConfig = c
<1>1. \A key \in KeySet : LoadSetting(key) = Written(c, key)
  BY WrittenIsThere DEF LoadSetting
<1>2. /\ LoadFullConfig["bootstrap_ip"] = c["bootstrap_ip"]
      /\ LoadFullConfig["bootstrap_addrs"] = c["bootstrap_addrs"]
      /\ LoadFullConfig["tor_enabled"] = c["tor_enabled"]
      /\ LoadFullConfig["default_ttl"] = c["default_ttl"]
      /\ LoadFullConfig["storage"] = c["storage"]
      /\ LoadFullConfig["accept_relay"] = c["accept_relay"]
  <2>1. LoadFullConfig["bootstrap_ip"] = c["bootstrap_ip"]
    <3>1. LoadSetting("bootstrap_ip") = Written(c, "bootstrap_ip")
      BY <1>1, SixKeys
    <3>2. LoadSetting("bootstrap_ip") # Absent
      BY <3>1, WrittenIsThere
    <3> QED
      BY <3>1, <3>2, ReadBack, Loaded
  <2>2. LoadFullConfig["bootstrap_addrs"] = c["bootstrap_addrs"]
    BY <1>1, SixKeys, ReadBack, Loaded
  <2>3. LoadFullConfig["tor_enabled"] = c["tor_enabled"]
    BY <1>1, SixKeys, ReadBack, Loaded
  <2>4. LoadFullConfig["default_ttl"] = c["default_ttl"]
    BY <1>1, SixKeys, ReadBack, Loaded
  <2>5. LoadFullConfig["storage"] = c["storage"]
    BY SixKeys, ReadBack, Loaded
  <2>6. LoadFullConfig["accept_relay"] = c["accept_relay"]
    BY <1>1, SixKeys, ReadBack, Loaded
  <2> QED
    BY <2>1, <2>2, <2>3, <2>4, <2>5, <2>6
<1>3. LoadFullConfig = [bootstrap_ip |-> LoadFullConfig["bootstrap_ip"],
                        bootstrap_addrs |-> LoadFullConfig["bootstrap_addrs"],
                        tor_enabled |-> LoadFullConfig["tor_enabled"],
                        default_ttl |-> LoadFullConfig["default_ttl"],
                        storage |-> LoadFullConfig["storage"],
                        accept_relay |-> LoadFullConfig["accept_relay"]]
  BY DEF LoadFullConfig
<1>4. c = [bootstrap_ip |-> c["bootstrap_ip"], bootstrap_addrs |-> c["bootstrap_addrs"],
           tor_enabled |-> c["tor_enabled"], default_ttl |-> c["default_ttl"],
           storage |-> c["storage"], accept_relay |-> c["accept_relay"]]
  BY DEF FullConfig
<1> QED
  BY <1>2, <1>3, <1>4

LEMMA InitSettings == SettingsInit => SettingsInv
<1> SUFFICES ASSUME SettingsInit PROVE SettingsInv
  OBVIOUS
<1>1. /\ settings = [key \in KeySet |-> Absent] /\ since = {Default} /\ writing = Idle /\ ~open
      /\ app_settings = [settings EXCEPT !["storage"] = Written(Default, "storage")]
  BY DEF SettingsInit
<1>2. \A key \in KeySet :
        app_settings[key] = IF key = "storage" THEN Written(Default, "storage") ELSE Absent
  BY <1>1
<1>3. RowsRead
  BY <1>1, <1>2 DEF RowsRead
<1>4. IsTable(settings) /\ IsTable(app_settings)
  BY <1>1 DEF IsTable
<1> QED
  BY <1>1, <1>3, <1>4, DefaultIsConfig DEF SettingsInv, Progress, NextSessionSame

LEMMA SettingsStartKeeps ==
  ASSUME SettingsInv, StartSession PROVE SettingsInv'
<1>1. /\ UNCHANGED <<settings, app_settings, writing, since>> /\ writing = Idle
      /\ runtime' = LoadFullConfig
  BY DEF StartSession, tables
<1>2. LoadFullConfig' = LoadFullConfig
  BY <1>1 DEF LoadFullConfig, LoadSetting
<1> QED
  BY <1>1, <1>2 DEF SettingsInv, IsTable, RowsRead, Progress, NextSessionSame

LEMMA SaveSettingsKeeps ==
  ASSUME SettingsInv, NEW c \in Configs, NEW given \in BOOLEAN, SaveSettings(c, given)
  PROVE  SettingsInv'
<1> DEFINE config == IF given THEN c ELSE [c EXCEPT !.bootstrap_addrs = FromIp(c.bootstrap_ip)]
<1>1. config \in FullConfig
  <2>1. c \in FullConfig
    BY SettingsAssumption
  <2>2. FromIp(c.bootstrap_ip) \in SUBSET {Ip, "other"}
    BY <2>1 DEF FullConfig, FromIp
  <2>3. [c EXCEPT !.bootstrap_addrs = FromIp(c.bootstrap_ip)] \in FullConfig
    BY <2>1, <2>2 DEF FullConfig
  <2> QED
    BY <2>1, <2>3
<1>2. /\ UNCHANGED <<settings, app_settings>> /\ since' = since \cup {config}
      /\ writing' = [busy |-> TRUE, config |-> config, at |-> 1, table |-> "settings"]
  BY DEF SaveSettings, tables
<1> HIDE DEF config
<1>3. writing' \in Saving /\ writing'.config = config /\ writing'.at = 1
  BY <1>1, <1>2 DEF Saving
<1>4. RowsRead'
  BY <1>2 DEF SettingsInv, RowsRead
<1>5. Progress'
  BY <1>2, <1>3 DEF Progress
<1>6. NextSessionSame'
  BY <1>3, SavingIsNotIdle DEF NextSessionSame
<1> QED
  BY <1>1, <1>2, <1>4, <1>5, <1>6 DEF SettingsInv, IsTable

(* A statement writes one row of the configuration being saved.            *)
LEMMA StatementKeeps ==
  ASSUME SettingsInv, Statement PROVE SettingsInv'
<1> DEFINE key == Keys[writing.at]
           row == Written(writing.config, key)
<1>1. /\ writing \in Saving /\ writing.config \in since /\ writing.at \in 1 .. 6
      /\ UNCHANGED <<runtime, open, disturbed, since>>
  <2>1. writing \in Saving /\ writing.config \in since /\ writing.at <= 6
    BY SixKeys DEF Statement, SettingsInv, Progress
  <2>2. \A w \in Saving : w.at \in 1 .. 7
    BY DEF Saving
  <2>3. \A k \in 1 .. 7 : k <= 6 => k \in 1 .. 6
    OBVIOUS
  <2> QED
    BY <2>1, <2>2, <2>3 DEF Statement
<1>2. key \in KeySet /\ row # Absent
  BY <1>1, SixKeys, WrittenIsThere
<1>3. PICK w \in Saving : w = writing /\ w.at \in 1 .. 6
  BY <1>1
<1>4. /\ writing' \in Saving /\ writing'.config = writing.config
      /\ \/ writing'.at = writing.at /\ writing.table = "settings" /\ key # "storage"
         \/ writing'.at = writing.at + 1 /\ (writing.table = "app_settings" \/ key = "storage")
  <2>1. CASE key = "storage"
    <3>1. writing' = [w EXCEPT !.at = @ + 1]
      BY <1>3, <2>1 DEF Statement
    <3>2. [w EXCEPT !.at = @ + 1] \in Saving
      <4>1. w.at + 1 \in 1 .. 7
        BY <1>3
      <4> QED
        BY <1>3, <4>1 DEF Saving
    <3>3. [w EXCEPT !.at = @ + 1].at = w.at + 1 /\ [w EXCEPT !.at = @ + 1].config = w.config
      BY <1>3 DEF Saving
    <3> QED
      BY <1>3, <2>1, <3>1, <3>2, <3>3
  <2>2. CASE key # "storage" /\ w.table = "settings"
    <3>1. writing' = [w EXCEPT !.table = "app_settings"]
      BY <1>3, <2>2 DEF Statement, NextStatement
    <3>2. [w EXCEPT !.table = "app_settings"] \in Saving
      BY <1>3 DEF Saving
    <3>3. /\ [w EXCEPT !.table = "app_settings"].at = w.at
          /\ [w EXCEPT !.table = "app_settings"].config = w.config
      BY <1>3 DEF Saving
    <3> QED
      BY <1>3, <2>2, <3>1, <3>2, <3>3
  <2>3. CASE key # "storage" /\ w.table = "app_settings"
    <3>1. writing' = [w EXCEPT !.at = @ + 1, !.table = "settings"]
      BY <1>3, <2>3 DEF Statement, NextStatement
    <3>2. [w EXCEPT !.at = @ + 1, !.table = "settings"] \in Saving
      <4>1. w.at + 1 \in 1 .. 7
        BY <1>3
      <4> QED
        BY <1>3, <4>1 DEF Saving
    <3>3. /\ [w EXCEPT !.at = @ + 1, !.table = "settings"].at = w.at + 1
          /\ [w EXCEPT !.at = @ + 1, !.table = "settings"].config = w.config
      BY <1>3 DEF Saving
    <3> QED
      BY <1>3, <2>3, <3>1, <3>2, <3>3
  <2> QED
    BY <1>3, <2>1, <2>2, <2>3 DEF Saving
<1>5. IF writing.table = "settings" /\ key # "storage"
      THEN settings' = [settings EXCEPT ![key] = row] /\ UNCHANGED app_settings
      ELSE app_settings' = [app_settings EXCEPT ![key] = row] /\ UNCHANGED settings
  BY DEF Statement
<1> HIDE DEF key, row
<1>6. IsTable(settings) /\ IsTable(app_settings) /\ RowsRead /\ since \subseteq FullConfig
  BY DEF SettingsInv
<1>7. IsTable(settings') /\ IsTable(app_settings')
  BY <1>5, <1>6 DEF IsTable
<1>8. \A k \in KeySet : /\ app_settings'[k] = app_settings[k] \/ (k = key /\ app_settings'[k] = row)
                        /\ settings'[k] = settings[k] \/ (k = key /\ settings'[k] = row)
  BY <1>2, <1>5, <1>6 DEF IsTable
<1>9. RowsRead'
  <2> SUFFICES ASSUME NEW k \in KeySet
               PROVE  \/ \E c \in since : app_settings'[k] = Written(c, k)
                      \/ /\ k # "storage" /\ app_settings'[k] = Absent /\ Default \in since
                         /\ settings'[k] = Absent \/ \E c \in since : settings'[k] = Written(c, k)
    BY <1>1 DEF RowsRead
  <2>1. k = key => row = Written(writing.config, k)
    BY DEF row
  <2> QED
    BY <1>1, <1>6, <1>8, <2>1 DEF RowsRead
<1>10. Progress'
  <2> SUFFICES ASSUME NEW i \in 1 .. 6, i < writing'.at
               PROVE  app_settings'[Keys[i]] = Written(writing.config, Keys[i])
    BY <1>1, <1>4 DEF Progress
  <2>1. Keys[i] \in KeySet
    BY SixKeys
  <2>2. CASE i < writing.at
    <3>1. app_settings[Keys[i]] = Written(writing.config, Keys[i])
      BY <1>1, <2>2, SavingIsNotIdle DEF SettingsInv, Progress
    <3> QED
      BY <1>8, <2>1, <3>1 DEF row
  <2>3. CASE ~(i < writing.at)
    <3>1. i = writing.at /\ (writing.table = "app_settings" \/ key = "storage")
      BY <1>1, <1>4, <2>3
    <3>2. app_settings' = [app_settings EXCEPT ![key] = row]
      BY <1>5, <3>1
    <3>3. Keys[i] = key
      BY <3>1 DEF key
    <3> QED
      BY <1>6, <2>1, <3>2, <3>3 DEF IsTable, row
  <2> QED
    BY <2>2, <2>3
<1>11. NextSessionSame'
  BY <1>4, SavingIsNotIdle DEF NextSessionSame
<1> QED
  BY <1>1, <1>6, <1>7, <1>9, <1>10, <1>11 DEF SettingsInv, IsTable

LEMMA SavedKeeps ==
  ASSUME SettingsInv, Saved PROVE SettingsInv'
<1>1. /\ writing \in Saving /\ writing.config \in since /\ writing.at = 7
      /\ \A i \in 1 .. 6 : app_settings[Keys[i]] = Written(writing.config, Keys[i])
  <2>1. /\ writing \in Saving /\ writing.config \in since /\ writing.at > 6
        /\ \A i \in 1 .. 6 : i < writing.at => app_settings[Keys[i]] = Written(writing.config, Keys[i])
    BY SixKeys DEF Saved, SettingsInv, Progress
  <2>2. \A w \in Saving : w.at \in 1 .. 7
    BY DEF Saving
  <2>3. \A k \in 1 .. 7 : k > 6 => k = 7
    OBVIOUS
  <2>4. writing.at = 7
    BY <2>1, <2>2, <2>3
  <2> QED
    BY <2>1, <2>4
<1>2. /\ UNCHANGED <<settings, app_settings, open>> /\ writing' = Idle
      /\ runtime' = writing.config /\ since' = {writing.config}
  BY DEF Saved, tables
<1>3. writing.config \in FullConfig
  BY <1>1 DEF SettingsInv
<1>4. \A key \in KeySet : app_settings[key] = Written(writing.config, key)
  BY <1>1, EveryKey
<1>5. LoadFullConfig' = LoadFullConfig
  BY <1>2 DEF LoadFullConfig, LoadSetting
<1>6. LoadFullConfig = writing.config
  BY <1>3, <1>4, ReadsWhatWasSaved
<1>7. RowsRead'
  BY <1>2, <1>4 DEF RowsRead
<1> QED
  BY <1>2, <1>3, <1>5, <1>6, <1>7 DEF SettingsInv, IsTable, Progress, NextSessionSame

LEMMA NextSettings ==
  ASSUME SettingsInv, [SettingsNext]_settingsVars PROVE SettingsInv'
<1>1. CASE StartSession
  BY <1>1, SettingsStartKeeps
<1>2. ASSUME NEW c \in Configs, NEW given \in BOOLEAN, SaveSettings(c, given) PROVE SettingsInv'
  BY <1>2, SaveSettingsKeeps
<1>3. CASE Statement
  BY <1>3, StatementKeeps
<1>4. CASE Saved
  BY <1>4, SavedKeeps
<1>5. CASE StatementFails
  BY <1>5 DEF StatementFails, tables, SettingsInv, IsTable, RowsRead, Progress, NextSessionSame
<1>6. CASE Restart
  BY <1>6 DEF Restart, tables, SettingsInv, IsTable, RowsRead, Progress, NextSessionSame
<1>7. CASE UNCHANGED settingsVars
  <2>1. UNCHANGED <<settings, app_settings, runtime, open, writing, disturbed, since>>
    BY <1>7 DEF settingsVars
  <2>2. LoadFullConfig' = LoadFullConfig
    BY <2>1 DEF LoadFullConfig, LoadSetting
  <2> QED
    BY <2>1, <2>2 DEF SettingsInv, IsTable, RowsRead, Progress, NextSessionSame
<1> QED
  BY <1>1, <1>2, <1>3, <1>4, <1>5, <1>6, <1>7 DEF SettingsNext

(* save_full_config_to_db (db.rs) writes row by row, and may fail or end    *)
(* between any two: for every number and content of saves.                 *)
THEOREM SettingsCorrect == SettingsSpec => []SettingsInv
BY InitSettings, NextSettings, PTL DEF SettingsSpec

(* load_full_config_from_db never makes up a value: each was saved          *)
(* completely or tried since, or derives from such an address.              *)
THEOREM OldOrNewHolds == SettingsSpec => []OldOrNew
<1>1. SettingsInv => OldOrNew
  BY ReadsOldOrNew DEF SettingsInv
<1> QED
  BY <1>1, SettingsCorrect, PTL

(* The runtime_config of a session whose saves were not cut short is what   *)
(* the next StartSession loads.                                            *)
THEOREM NextSessionSameHolds == SettingsSpec => []NextSessionSame
<1>1. SettingsInv => NextSessionSame
  BY DEF SettingsInv
<1> QED
  BY <1>1, SettingsCorrect, PTL
=============================================================================
