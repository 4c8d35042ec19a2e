------------------------- MODULE RpmsgCtrlLifeProofs -------------------------
(***************************************************************************)
(* The lives of endpoints and requests in RpmsgCtrl, while no caller       *)
(* clears groups or resets the device and the remote core acknowledges a   *)
(* close before the endpoint goes away: for any set of callers, ids,       *)
(* groups and notify objects, any bound on calls, whichever sends fail,    *)
(* waits time out, creations are refused and files are open.               *)
(***************************************************************************)
EXTENDS RpmsgCtrlProofs

USE ConstantsAssumption

-----------------------------------------------------------------------------
(* Induction over the natural numbers, as the search for a least element.  *)

LEMMA NatMin ==
  ASSUME NEW T \in SUBSET Nat, T # {}
  PROVE  \E x \in T : \A y \in T : x <= y
<1> DEFINE R == StrictSubsetOrdering(Nat)
           U == {0..x : x \in T}
<1>1. IsWellFoundedOn(R, FiniteSubsetsOf(Nat))
  BY FS_StrictSubsetOrderingWellFounded
<1>2. U \subseteq FiniteSubsetsOf(Nat) /\ U # {}
  <2>1. \A x \in T : IsFiniteSet(0..x) /\ 0..x \subseteq Nat
    BY FS_Interval
  <2>2. QED
    BY <2>1 DEF FiniteSubsetsOf
<1>3. ASSUME NEW x \in T, NEW y \in T, y < x PROVE <<0..y, 0..x>> \in R
  <2> DEFINE a == 0..y
             b == 0..x
  <2>1. x \in b /\ x \notin a /\ a \subseteq b /\ a \in SUBSET Nat /\ b \in SUBSET Nat
    BY <1>3
  <2> HIDE DEF a, b
  <2>2. <<a, b>> \in R
    BY <2>1 DEF StrictSubsetOrdering
  <2>3. QED
    BY <2>2 DEF a, b
<1> HIDE DEF R, U
<1>4. PICK z \in U : \A w \in U : <<w, z>> \notin R
  BY <1>1, <1>2, WFMin
<1>5. PICK x \in T : z = 0..x
  BY <1>4 DEF U
<1>6. ASSUME NEW y \in T, y < x PROVE FALSE
  <2>1. 0..y \in U
    BY DEF U
  <2>2. QED
    BY <1>3, <1>4, <1>5, <1>6, <2>1
<1>7. QED
  BY <1>6

-----------------------------------------------------------------------------
(* A traversal of the wait list.                                           *)

\* f is the first n + 1 cells of a traversal of l
Walk(l, f, n) == f = [k \in 0..n |-> IF k = 0 THEN l.nxt[Anchor] ELSE l.nxt[f[k - 1]]]

LEMMA WalkOn ==
  ASSUME NEW l, NEW n \in Nat, NEW f, Walk(l, f, n)
  PROVE  \E g : Walk(l, g, n + 1)
<1> DEFINE g == [k \in 0..(n + 1) |-> IF k = 0 THEN l.nxt[Anchor] ELSE l.nxt[f[k - 1]]]
<1>1. \A k \in 0..n : f[k] = IF k = 0 THEN l.nxt[Anchor] ELSE l.nxt[f[k - 1]]
  BY DEF Walk
<1>2. \A k \in 0..(n + 1) : g[k] = IF k = 0 THEN l.nxt[Anchor] ELSE l.nxt[f[k - 1]]
  OBVIOUS
<1> HIDE DEF g
<1>3. \A k \in 0..n : g[k] = f[k]
  BY <1>1, <1>2
<1>4. \A k \in 0..(n + 1) : k # 0 => g[k - 1] = f[k - 1]
  BY <1>3
<1>5. Walk(l, g, n + 1)
  BY <1>4 DEF g, Walk
<1>6. QED
  BY <1>5

LEMMA Walks ==
  ASSUME NEW l, NEW n \in Nat
  PROVE  \E f : Walk(l, f, n)
<1> DEFINE T == {m \in Nat : ~ \E f : Walk(l, f, m)}
<1> HIDE DEF T
<1>1. SUFFICES ASSUME T # {} PROVE FALSE
  BY DEF T
<1>2. PICK m \in T : \A k \in T : m <= k
  <2>1. T \in SUBSET Nat
    BY DEF T
  <2>2. QED
    BY <1>1, <2>1, NatMin
<1>3. m \in Nat /\ m # 0
  <2>1. Walk(l, [k \in 0..0 |-> l.nxt[Anchor]], 0)
    BY DEF Walk
  <2>2. QED
    BY <2>1 DEF T
<1>4. m - 1 \in Nat /\ m - 1 \notin T
  BY <1>2, <1>3
<1>5. PICK f : Walk(l, f, m - 1)
  BY <1>4 DEF T
<1>6. PICK g : Walk(l, g, (m - 1) + 1)
  BY <1>4, <1>5, WalkOn
<1>7. (m - 1) + 1 = m
  BY <1>3
<1>8. QED
  BY <1>6, <1>7 DEF T

LEMMA CellsFinite == IsFiniteSet(Cells) /\ Cardinality(Cells) \in Nat
<1>1. IsFiniteSet({Ctrl})
  BY FS_Singleton
<1>2. IsFiniteSet(Cells)
  BY <1>1, FS_Union DEF Cells
<1>3. QED
  BY <1>2, FS_CardinalityType

\* What Path computes: each cell is the successor of the one before
LEMMA PathIsWalk ==
  ASSUME NEW l
  PROVE  /\ DOMAIN Path(l) = 0..Cardinality(Cells)
         /\ \A k \in 0..Cardinality(Cells) :
              Path(l)[k] = IF k = 0 THEN l.nxt[Anchor] ELSE l.nxt[Path(l)[k - 1]]
<1>1. PICK f : Walk(l, f, Cardinality(Cells))
  BY CellsFinite, Walks
<1>2. f = [k \in 0..Cardinality(Cells) |-> IF k = 0 THEN l.nxt[Anchor] ELSE l.nxt[f[k - 1]]]
  BY <1>1 DEF Walk
<1>3. Path(l) = [k \in 0..Cardinality(Cells) |->
                   IF k = 0 THEN l.nxt[Anchor] ELSE l.nxt[Path(l)[k - 1]]]
  BY <1>2 DEF Path
<1>4. QED
  BY <1>3

\* l is the doubly linked list of s[1], ..., s[m]
Chain(l, m, s) ==
  /\ l.nxt[Anchor] = (IF m = 0 THEN Anchor ELSE s[1])
  /\ l.prv[Anchor] = (IF m = 0 THEN Anchor ELSE s[m])
  /\ \A k \in 1..m : /\ l.nxt[s[k]] = (IF k = m THEN Anchor ELSE s[k + 1])
                     /\ l.prv[s[k]] = (IF k = 1 THEN Anchor ELSE s[k - 1])
  /\ \A j, k \in 1..m : s[j] = s[k] => j = k

\* A chain is no longer than there are cells
LEMMA ChainBound ==
  ASSUME NEW m \in Nat, NEW s \in [1..m -> Cells], \A j, k \in 1..m : s[j] = s[k] => j = k
  PROVE  m <= Cardinality(Cells)
<1>1. s \in Injection(1..m, Cells)
  BY DEF Injection, IsInjective
<1>2. Cardinality(1..m) <= Cardinality(Cells)
  BY <1>1, CellsFinite, FS_Injection
<1>3. Cardinality(1..m) = m
  BY FS_Interval
<1>4. QED
  BY <1>2, <1>3

\* The traversal of a chain visits its cells in order and comes to the anchor
LEMMA ChainPath ==
  ASSUME NEW l, NEW m \in Nat, NEW s \in [1..m -> Cells], Chain(l, m, s)
  PROVE  \A k \in 0..m : /\ k \in 0..Cardinality(Cells)
                         /\ Path(l)[k] = IF k = m THEN Anchor ELSE s[k + 1]
<1>1. m <= Cardinality(Cells) /\ Cardinality(Cells) \in Nat
  BY ChainBound, CellsFinite DEF Chain
<1> DEFINE p == Path(l)
           T == {k \in 0..m : p[k] # IF k = m THEN Anchor ELSE s[k + 1]}
<1>2. \A k \in 0..m : p[k] = IF k = 0 THEN l.nxt[Anchor] ELSE l.nxt[p[k - 1]]
  <2>1. \A k \in 0..Cardinality(Cells) : p[k] = IF k = 0 THEN l.nxt[Anchor] ELSE l.nxt[p[k - 1]]
    BY PathIsWalk
  <2> HIDE DEF p
  <2>2. \A k \in 0..m : k \in 0..Cardinality(Cells)
    BY <1>1
  <2>3. QED
    BY <2>1, <2>2
<1> HIDE DEF p, T
<1>3. T = {}
  <2>1. SUFFICES ASSUME T # {} PROVE FALSE
    OBVIOUS
  <2>2. T \in SUBSET Nat
    BY DEF T
  <2>3. PICK k \in T : \A j \in T : k <= j
    BY <2>1, <2>2, NatMin
  <2>4. k \in 0..m /\ p[k] # IF k = m THEN Anchor ELSE s[k + 1]
    BY DEF T
  <2>5. k # 0
    BY <1>2, <2>4 DEF Chain
  <2>6. k - 1 \in 0..m /\ k \in 1..m /\ k - 1 \notin T
    BY <2>3, <2>4, <2>5
  <2>7. p[k - 1] = s[k]
    BY <2>4, <2>6 DEF T
  <2>8. p[k] = l.nxt[s[k]]
    BY <1>2, <2>4, <2>5, <2>7
  <2>9. QED
    BY <2>4, <2>6, <2>8 DEF Chain
<1>4. QED
  BY <1>1, <1>3 DEF p, T

\* A search of a chain comes to an end: at the anchor or at the first cell that
\* has the id
LEMMA ChainSearch ==
  ASSUME NEW l, NEW m \in Nat, NEW s \in [1..m -> Cells], Chain(l, m, s), NEW id
  PROVE  /\ \E c \in Cells \cup {Anchor} : StopsAt(l, id, c)
         /\ \A c \in Cells : StopsAt(l, id, c) =>
              \E k \in 1..m : /\ s[k] = c /\ obj[c].id = id
                              /\ \A j \in 1..m : j < k => obj[s[j]].id # id
         /\ StopsAt(l, id, Anchor) => \A k \in 1..m : obj[s[k]].id # id
<1> DEFINE p == Path(l)
           S == {Anchor} \cup {d \in Cells : obj[d].id = id}
<1>1. /\ DOMAIN p = 0..Cardinality(Cells) /\ Cardinality(Cells) \in Nat
      /\ \A k \in 0..m : k \in DOMAIN p /\ p[k] = IF k = m THEN Anchor ELSE s[k + 1]
  <2>1. DOMAIN p = 0..Cardinality(Cells)
    BY PathIsWalk
  <2>2. QED
    BY <2>1, ChainPath, CellsFinite
<1> HIDE DEF p
<1>2. \A c : StopsAt(l, id, c) <=>
              c \in S /\ \E k \in DOMAIN p : p[k] = c /\ \A j \in 0..(k - 1) : p[j] \notin S
  BY DEF StopsAt, p
<1>3. Anchor \in S /\ Anchor \notin Cells /\ \A c \in Cells : c \in S <=> obj[c].id = id
  BY DEF Cells
<1>4. ASSUME NEW c \in Cells \cup {Anchor}, StopsAt(l, id, c)
      PROVE  \E k \in 0..m : p[k] = c /\ \A j \in 0..(k - 1) : p[j] \notin S
  <2>1. PICK k \in DOMAIN p : p[k] = c /\ \A j \in 0..(k - 1) : p[j] \notin S
    BY <1>2, <1>4
  <2>2. p[m] \in S
    BY <1>1, <1>3
  <2>3. k <= m
    BY <1>1, <2>1, <2>2
  <2>4. QED
    BY <1>1, <2>1, <2>3
<1>5. \E c \in Cells \cup {Anchor} : StopsAt(l, id, c)
  <2> DEFINE T == {k \in 0..m : p[k] \in S}
  <2>1. T \in SUBSET Nat /\ m \in T
    BY <1>1, <1>3
  <2> HIDE DEF T
  <2>2. PICK k \in T : \A j \in T : k <= j
    BY <2>1, NatMin
  <2>3. k \in 0..m /\ p[k] \in S /\ \A j \in 0..(k - 1) : p[j] \notin S
    BY <2>2 DEF T
  <2>4. k \in DOMAIN p
    BY <1>1, <2>3
  <2>5. StopsAt(l, id, p[k])
    BY <1>2, <2>3, <2>4
  <2>6. QED
    BY <2>3, <2>5
<1>6. ASSUME NEW c \in Cells, StopsAt(l, id, c)
      PROVE  \E k \in 1..m : /\ s[k] = c /\ obj[c].id = id
                             /\ \A j \in 1..m : j < k => obj[s[j]].id # id
  <2>1. PICK k \in 0..m : p[k] = c /\ \A j \in 0..(k - 1) : p[j] \notin S
    BY <1>4, <1>6
  <2>2. k # m /\ s[k + 1] = c
    BY <1>1, <1>3, <2>1
  <2>3. obj[c].id = id
    BY <1>2, <1>3, <1>6
  <2>4. ASSUME NEW j \in 1..m, j < k + 1 PROVE obj[s[j]].id # id
    <3>1. j - 1 \in 0..(k - 1) /\ j - 1 \in 0..m /\ j - 1 # m
      BY <2>4
    <3>2. p[j - 1] = s[j]
      BY <1>1, <3>1
    <3>3. QED
      BY <1>3, <2>1, <3>1, <3>2
  <2>5. k + 1 \in 1..m
    BY <2>1, <2>2
  <2>6. QED
    BY <2>2, <2>3, <2>4, <2>5
<1>7. ASSUME StopsAt(l, id, Anchor), NEW k \in 1..m PROVE obj[s[k]].id # id
  <2>1. PICK q \in 0..m : p[q] = Anchor /\ \A j \in 0..(q - 1) : p[j] \notin S
    BY <1>4, <1>7
  <2>2. q = m
    BY <1>1, <1>3, <2>1
  <2>3. k - 1 \in 0..(q - 1) /\ k - 1 \in 0..m /\ k - 1 # m
    BY <2>2
  <2>4. p[k - 1] = s[k]
    BY <1>1, <2>3
  <2>5. QED
    BY <1>3, <2>1, <2>3, <2>4
<1>8. QED
  BY <1>5, <1>6, <1>7

\* list_add puts a cell in front
LEMMA ChainLinked ==
  ASSUME NEW l \in ListType, NEW m \in Nat, NEW s \in [1..m -> Cells], Chain(l, m, s),
         NEW n \in Cells, \A k \in 1..m : s[k] # n
  PROVE  LET r == [k \in 1..(m + 1) |-> IF k = 1 THEN n ELSE s[k - 1]] IN
         r \in [1..(m + 1) -> Cells] /\ Chain(Linked(l, n), m + 1, r)
<1> DEFINE r == [k \in 1..(m + 1) |-> IF k = 1 THEN n ELSE s[k - 1]]
           f == l.nxt[Anchor]
           w == Linked(l, n)
<1>1. /\ r \in [1..(m + 1) -> Cells] /\ r[1] = n
      /\ \A k \in 1..(m + 1) : k # 1 => r[k] = s[k - 1] /\ k - 1 \in 1..m
      /\ \A k \in 1..m : r[k + 1] = s[k]
  OBVIOUS
<1>2. /\ \A c \in Cells \cup {Anchor} :
           w.nxt[c] = IF c = Anchor THEN n ELSE IF c = n THEN f ELSE l.nxt[c]
      /\ \A c \in Cells \cup {Anchor} :
           w.prv[c] = IF c = n THEN Anchor ELSE IF c = f THEN n ELSE l.prv[c]
  BY DEF Linked, ListType, Cells
<1>3. Anchor \notin Cells /\ f = IF m = 0 THEN Anchor ELSE s[1]
  BY DEF Chain, Cells
<1> HIDE DEF r, f, w
<1>4. w.nxt[Anchor] = r[1]
  BY <1>1, <1>2
<1>5. w.prv[Anchor] = r[m + 1]
  BY <1>1, <1>2, <1>3 DEF Chain
<1>6. ASSUME NEW k \in 1..(m + 1)
      PROVE  /\ w.nxt[r[k]] = (IF k = m + 1 THEN Anchor ELSE r[k + 1])
             /\ w.prv[r[k]] = (IF k = 1 THEN Anchor ELSE r[k - 1])
  <2>1. CASE k = 1
    BY <1>1, <1>2, <1>3, <2>1
  <2>2. CASE k = 2
    BY <1>1, <1>2, <1>3, <2>2 DEF Chain
  <2>3. CASE k > 2
    <3>1. r[k] = s[k - 1] /\ k - 1 \in 1..m /\ r[k - 1] = s[k - 2] /\ k - 1 # 1
      BY <1>1, <2>3
    <3>2. r[k] # n /\ r[k] # f /\ r[k] # Anchor /\ r[k] \in Cells
      BY <1>3, <3>1 DEF Chain
    <3>3. w.nxt[r[k]] = l.nxt[s[k - 1]] /\ w.prv[r[k]] = l.prv[s[k - 1]]
      BY <1>2, <3>1, <3>2
    <3>4. k # m + 1 => r[k + 1] = s[k]
      BY <1>1
    <3>5. QED
      BY <3>1, <3>3, <3>4 DEF Chain
  <2>4. QED
    BY <2>1, <2>2, <2>3
<1>7. ASSUME NEW j \in 1..(m + 1), NEW k \in 1..(m + 1), r[j] = r[k] PROVE j = k
  BY <1>1, <1>7 DEF Chain
<1>8. Chain(w, m + 1, r)
  BY <1>4, <1>5, <1>6, <1>7 DEF Chain
<1>9. QED
  BY <1>1, <1>8 DEF r, w

\* list_del takes a cell out
LEMMA ChainUnlinked ==
  ASSUME NEW l \in ListType, NEW m \in Nat, NEW s \in [1..m -> Cells], Chain(l, m, s),
         NEW q \in 1..m
  PROVE  LET r == [k \in 1..(m - 1) |-> IF k < q THEN s[k] ELSE s[k + 1]] IN
         r \in [1..(m - 1) -> Cells] /\ Chain(Unlinked(l, s[q]), m - 1, r)
<1> DEFINE r == [k \in 1..(m - 1) |-> IF k < q THEN s[k] ELSE s[k + 1]]
           n == s[q]
           w == Unlinked(l, n)
<1>1. /\ r \in [1..(m - 1) -> Cells]
      /\ \A k \in 1..(m - 1) : k < q => r[k] = s[k]
      /\ \A k \in 1..(m - 1) : k >= q => r[k] = s[k + 1] /\ k + 1 \in 1..m
      /\ n \in Cells /\ Anchor \notin Cells
  BY DEF Cells
<1>2. /\ l.nxt[n] = IF q = m THEN Anchor ELSE s[q + 1]
      /\ l.prv[n] = IF q = 1 THEN Anchor ELSE s[q - 1]
      /\ \A k \in 1..m : s[k] = n => k = q
  BY DEF Chain
<1>3. l.nxt[n] # n
  BY <1>1, <1>2
<1>4. /\ \A c \in Cells \cup {Anchor} :
           w.nxt[c] = IF c = n THEN n ELSE IF c = l.prv[n] THEN l.nxt[n] ELSE l.nxt[c]
      /\ \A c \in Cells \cup {Anchor} :
           w.prv[c] = IF c = n THEN n ELSE IF c = l.nxt[n] THEN l.prv[n] ELSE l.prv[c]
  BY <1>1, <1>3 DEF Unlinked, ListType
<1> HIDE DEF r, n, w
<1>5. w.nxt[Anchor] = (IF m - 1 = 0 THEN Anchor ELSE r[1])
  <2>1. CASE q = 1
    BY <1>1, <1>2, <1>4, <2>1
  <2>2. CASE q # 1
    <3>1. s[q - 1] \in Cells /\ l.prv[n] # Anchor /\ Anchor # n
      BY <1>1, <1>2, <2>2
    <3>2. w.nxt[Anchor] = l.nxt[Anchor]
      BY <1>4, <3>1
    <3>3. QED
      BY <1>1, <2>2, <3>2 DEF Chain
  <2>3. QED
    BY <2>1, <2>2
<1>6. w.prv[Anchor] = (IF m - 1 = 0 THEN Anchor ELSE r[m - 1])
  <2>1. CASE q = m
    BY <1>1, <1>2, <1>4, <2>1
  <2>2. CASE q # m
    <3>1. s[q + 1] \in Cells /\ l.nxt[n] # Anchor /\ Anchor # n
      BY <1>1, <1>2, <2>2
    <3>2. w.prv[Anchor] = l.prv[Anchor]
      BY <1>4, <3>1
    <3>3. m - 1 \in 1..(m - 1) /\ m - 1 >= q
      BY <2>2
    <3>4. r[m - 1] = s[m]
      BY <1>1, <3>3
    <3>5. QED
      BY <3>2, <3>3, <3>4 DEF Chain
  <2>3. QED
    BY <2>1, <2>2
<1>7. ASSUME NEW k \in 1..(m - 1)
      PROVE  /\ w.nxt[r[k]] = (IF k = m - 1 THEN Anchor ELSE r[k + 1])
             /\ w.prv[r[k]] = (IF k = 1 THEN Anchor ELSE r[k - 1])
  <2>1. CASE k < q
    <3>1. r[k] = s[k] /\ k \in 1..m /\ s[k] # n /\ s[k] \in Cells
      BY <1>1, <1>2, <2>1
    <3>2. w.prv[s[k]] = l.prv[s[k]]
      <4>1. s[k] # l.nxt[n]
        BY <1>1, <1>2, <2>1, <3>1 DEF Chain
      <4>2. QED
        BY <1>4, <3>1, <4>1
    <3>3. k # 1 => r[k - 1] = s[k - 1]
      BY <1>1, <2>1
    <3>4. w.prv[r[k]] = (IF k = 1 THEN Anchor ELSE r[k - 1])
      BY <3>1, <3>2, <3>3 DEF Chain
    <3>5. CASE k = q - 1
      <4>1. l.prv[n] = s[k]
        BY <1>2, <3>5
      <4>2. w.nxt[s[k]] = l.nxt[n]
        BY <1>4, <3>1, <4>1
      <4>3. k # m - 1 => r[k + 1] = s[q + 1]
        BY <1>1, <3>5
      <4>4. QED
        BY <1>2, <3>1, <3>4, <3>5, <4>2, <4>3
    <3>6. CASE k # q - 1
      <4>1. s[k] # l.prv[n]
        BY <1>1, <1>2, <2>1, <3>1, <3>6 DEF Chain
      <4>2. w.nxt[s[k]] = l.nxt[s[k]]
        BY <1>4, <3>1, <4>1
      <4>3. k + 1 < q /\ k # m - 1 /\ k # m /\ r[k + 1] = s[k + 1]
        BY <1>1, <2>1, <3>6
      <4>4. QED
        BY <3>1, <3>4, <4>2, <4>3 DEF Chain
    <3>7. QED
      BY <3>5, <3>6
  <2>2. CASE k >= q
    <3>1. r[k] = s[k + 1] /\ k + 1 \in 1..m /\ s[k + 1] # n /\ s[k + 1] \in Cells
      BY <1>1, <1>2, <2>2
    <3>2. w.nxt[s[k + 1]] = l.nxt[s[k + 1]]
      <4>1. s[k + 1] # l.prv[n]
        BY <1>1, <1>2, <2>2, <3>1 DEF Chain
      <4>2. QED
        BY <1>4, <3>1, <4>1
    <3>3. k # m - 1 => r[k + 1] = s[k + 2]
      BY <1>1, <2>2
    <3>4. w.nxt[r[k]] = (IF k = m - 1 THEN Anchor ELSE r[k + 1])
      BY <3>1, <3>2, <3>3 DEF Chain
    <3>5. CASE k = q
      <4>1. l.nxt[n] = s[k + 1]
        BY <1>2, <3>1, <3>5
      <4>2. w.prv[s[k + 1]] = l.prv[n]
        BY <1>4, <3>1, <4>1
      <4>3. k # 1 => r[k - 1] = s[q - 1]
        BY <1>1, <3>5
      <4>4. QED
        BY <1>2, <3>1, <3>4, <3>5, <4>2, <4>3
    <3>6. CASE k # q
      <4>1. s[k + 1] # l.nxt[n]
        BY <1>1, <1>2, <2>2, <3>1, <3>6 DEF Chain
      <4>2. w.prv[s[k + 1]] = l.prv[s[k + 1]]
        BY <1>4, <3>1, <4>1
      <4>3. k # 1 /\ r[k - 1] = s[k]
        BY <1>1, <2>2, <3>6
      <4>4. QED
        BY <3>1, <3>4, <4>2, <4>3 DEF Chain
    <3>7. QED
      BY <3>5, <3>6
  <2>3. QED
    BY <2>1, <2>2
<1>8. ASSUME NEW j \in 1..(m - 1), NEW k \in 1..(m - 1), r[j] = r[k] PROVE j = k
  <2> DEFINE a == IF j < q THEN j ELSE j + 1
             b == IF k < q THEN k ELSE k + 1
  <2>1. a \in 1..m /\ b \in 1..m
    BY <1>1
  <2>2. s[a] = s[b]
    BY <1>1, <1>8
  <2>3. a = b
    BY <2>1, <2>2 DEF Chain
  <2>4. QED
    BY <2>3
<1>9. Chain(w, m - 1, r)
  BY <1>5, <1>6, <1>7, <1>8 DEF Chain
<1>10. QED
  BY <1>1, <1>9 DEF r, n, w

-----------------------------------------------------------------------------
(* The inductive invariant.                                                *)

\* No caller clears or resets, and acknowledgements come first
Orderly == ~Resets /\ ~GoneFirst

Busy(t) == th[t].pc # "idle"
Creating(t) == Busy(t) /\ th[t].op = "create"
Releasing(t) == Busy(t) /\ th[t].op = "release"
Waiting(t) == th[t].pc \in {"send", "mark", "wait", "del"}
Entered(n) == \E k \in DOMAIN epts : epts[k] = n

\* The messages under way to the remote core and to Linux
Outgoing == {toR[k] : k \in DOMAIN toR}
Incoming == {toL[k] : k \in DOMAIN toL}
Silent(i) == /\ \A m \in Outgoing : m.id # i
             /\ \A m \in Incoming : m.id # i
Real(i) == dev[i] = "bound" /\ Silent(i)

\* The request of t is the one that the present life of its id belongs to: a
\* creation until it is reported or has failed, a release until it is answered
\* or has timed out
Owns(t) ==
  \/ Creating(t) /\ th[t].pc # "bind"
  \/ /\ Releasing(t)
     /\ \/ th[t].pc \in {"found", "send"}
        \/ th[t].pc = "wait" /\ obj[th[t].node].done = 0
        \/ th[t].pc = "del" /\ th[t].res = "unsent"

\* A caller's place, its object and its file agree
Placed(t) ==
  Busy(t) =>
    /\ th[t].node \in Nodes /\ th[t].id \in Ids
    /\ obj[th[t].node].used /\ obj[th[t].node].id = th[t].id
    /\ \/ /\ th[t].op = "create" /\ ~closing[t]
          /\ th[t].pc \in {"send", "mark", "wait", "del", "list", "bind"}
       \/ /\ th[t].op = "release"
          /\ th[t].pc \in {"found", "send", "wait", "del", "drop"}
    /\ Entered(th[t].node) <=> (th[t].op = "release" \/ th[t].pc = "bind")

Places ==
  /\ \A t \in Threads : Placed(t)
  /\ \A t, u \in Threads : Busy(t) /\ Busy(u) /\ th[t].node = th[u].node => t = u
  /\ \A j, k \in DOMAIN epts : epts[j] = epts[k] => j = k
  /\ \A n \in Nodes : Entered(n) => obj[n].used /\ obj[n].id \in Ids
  /\ obj[Ctrl].id = 0

\* The list holds the nodes of those who wait, and of two with one id that of
\* the owner comes first
Ordered(m, s) ==
  /\ \A n \in Nodes : (\E k \in 1..m : s[k] = n) <=>
                        \E t \in Threads : Waiting(t) /\ th[t].node = n
  /\ \A t, u \in Threads : \A j, k \in 1..m :
       /\ t # u /\ Waiting(t) /\ Waiting(u) /\ Owns(t) /\ th[t].id = th[u].id
       /\ s[j] = th[t].node /\ s[k] = th[u].node
       => j < k
Queued == \E m \in Nat : \E s \in [1..m -> Cells] : Chain(wait, m, s) /\ Ordered(m, s)

\* What may be under way about one id: one message, or an acknowledgement and
\* behind it the end of the endpoint
Messages ==
  /\ \A m \in Outgoing :
       /\ m.id \in ida
       /\ \/ m.cmd = "create" /\ dev[m.id] = "none"
          \/ m.cmd \in {"bound", "release"} /\ dev[m.id] = "bound"
  /\ \A m \in Incoming :
       /\ m.id \in ida
       /\ m.k = "new" => dev[m.id] = "none"
       /\ m.k = "gone" => dev[m.id] = "bound"
       /\ m.k = "ack" => dev[m.id] # "removed" /\ (m.ok => dev[m.id] = "bound")
  /\ \A j, k \in DOMAIN toR : toR[j].id = toR[k].id => j = k
  /\ \A j, k \in DOMAIN toL :
       toL[j].id = toL[k].id /\ j < k => toL[j].k = "ack" /\ toL[k].k = "gone"
  /\ \A m \in Outgoing, p \in Incoming : m.id # p.id

\* A creation that the remote confirmed
Confirmed(t) ==
  \/ th[t].pc = "list"
  \/ th[t].pc = "del" /\ th[t].res = "ok"
  \/ /\ th[t].pc \in {"mark", "wait"}
     /\ obj[th[t].node].status = "ok" /\ obj[th[t].node].done > 0

\* An owner's messages are its own
Stamped(t) ==
  /\ \A m \in Outgoing : m.id = th[t].id => m.by = t /\ m.seq = calls[t]
  /\ \A m \in Incoming : m.id = th[t].id => m.by = t /\ m.seq = calls[t]

CreationOk(t) ==
  /\ th[t].id \in ida /\ dev[th[t].id] # "removed"
  /\ \A m \in Outgoing : m.id = th[t].id => m.cmd # "release"
  /\ \A m \in Incoming : m.id = th[t].id => m.k # "gone"
  /\ th[t].pc = "send" => /\ Silent(th[t].id) /\ dev[th[t].id] = "none"
                          /\ obj[th[t].node].status # "ok" /\ obj[th[t].node].done = 0
  /\ th[t].pc \in {"mark", "wait"} /\ obj[th[t].node].done > 0 => Silent(th[t].id)
  /\ Confirmed(t) => Real(th[t].id)

ReleaseOk(t) ==
  IF th[t].pc = "wait"
    THEN \/ \E m \in Outgoing : m.id = th[t].id /\ m.cmd = "release"
         \/ \E m \in Incoming : m.id = th[t].id /\ m.k = "ack"
    ELSE Real(th[t].id)

Owned(t) ==
  Owns(t) => /\ Stamped(t)
             /\ th[t].op = "create" => CreationOk(t)
             /\ th[t].op = "release" => ReleaseOk(t)

Owners ==
  /\ \A t, u \in Threads : Owns(t) /\ Owns(u) /\ th[t].id = th[u].id => t = u
  /\ \A t \in Threads : Owned(t)

\* An entry that no finished request is about to remove, and one that no
\* request removes
Standing(n) ==
  Entered(n) /\ \A t \in Threads : Releasing(t) /\ th[t].node = n => Owns(t)
Unheld(n) == \A t \in Threads : Releasing(t) => th[t].node # n

Stands(n) ==
  Standing(n) =>
    /\ EntryOf(obj[n].id, n)
    /\ \A t \in Threads : Owns(t) /\ th[t].id = obj[n].id => th[t].node = n
    /\ Unheld(n) => Real(obj[n].id)
Standings == \A n \in Nodes : Stands(n)

\* The caller who may release i, and an entry of i that nobody uses
Claims(t, i) ==
  i \in known[t] \/ (i \in mine[t] /\ ~(Releasing(t) /\ th[t].id = i))
FreeEntry(n, i) ==
  Entered(n) /\ obj[n].id = i /\ \A u \in Threads : Busy(u) => th[u].node # n

Claimed ==
  /\ \A t \in Threads, i \in Ids : Claims(t, i) => \E n \in Nodes : FreeEntry(n, i)
  /\ \A t, u \in Threads, i \in Ids : Claims(t, i) /\ Claims(u, i) => t = u
  /\ \A t \in Threads : closing[t] => known[t] \cap mine[t] = {}
  /\ \A t \in Threads : Releasing(t) /\ ~closing[t] => th[t].id \notin mine[t]

Taken == \A i \in Ids : dev[i] # "none" => i \in ida

LifeInv ==
  /\ Orderly /\ TypeInv /\ ~hung
  /\ Places /\ Queued /\ Messages /\ Owners /\ Standings /\ Claimed /\ Taken

\* The object that the receive callback has looked up, without the lock since:
\* that of the acknowledged id's owner if it has one, and once it is freed the
\* id has none.  While it is not freed its status only says "ok" if the
\* acknowledgement does.
Sought == Head(toL)
AckOk ==
  found # Nothing =>
    /\ \A t \in Threads : Owns(t) /\ th[t].id = Sought.id =>
         found.live /\ th[t].node = found.node
    /\ found.live =>
         /\ found.node \in Nodes
         /\ obj[found.node].used /\ obj[found.node].id = Sought.id
         /\ found.stored /\ obj[found.node].status = "ok" => Sought.ok

FullInv == LifeInv /\ AckOk

-----------------------------------------------------------------------------
(* What the invariant says of one caller, id or entry.                     *)

LEMMA MessageTypes ==
  ASSUME TypeInv
  PROVE  /\ Outgoing \subseteq ToRemote /\ Incoming \subseteq ToLinux
         /\ \A k \in DOMAIN toR : toR[k] \in Outgoing
         /\ \A k \in DOMAIN toL : toL[k] \in Incoming
  BY ElementOfSeq DEF TypeInv, QueuesType, Outgoing, Incoming

\* The first entry of an id is the only first one
LEMMA EntryUnique ==
  ASSUME NEW i, NEW n, NEW q, EntryOf(i, n), EntryOf(i, q), epts \in Seq(Nodes)
  PROVE  n = q
<1>1. PICK j \in DOMAIN epts : /\ epts[j] = n /\ obj[n].id = i
                              /\ \A x \in 1..(j - 1) : obj[epts[x]].id # i
  BY DEF EntryOf
<1>2. PICK k \in DOMAIN epts : /\ epts[k] = q /\ obj[q].id = i
                              /\ \A x \in 1..(k - 1) : obj[epts[x]].id # i
  BY DEF EntryOf
<1>3. j \in Nat \ {0} /\ k \in Nat \ {0}
  BY LenProperties
<1>4. ~(j < k) /\ ~(k < j)
  BY <1>1, <1>2, <1>3
<1>5. QED
  BY <1>1, <1>2, <1>3, <1>4

\* The id of an owner is taken
LEMMA OwnerTaken ==
  ASSUME TypeInv, Places, Messages, Owners, Taken, NEW t \in Threads, Owns(t)
  PROVE  th[t].id \in ida
<1>1. th[t].id \in Ids /\ (th[t].op = "create" \/ th[t].op = "release") /\ Owned(t)
  BY DEF Places, Placed, Owners, Owns, Creating, Releasing, Busy
<1>2. CASE th[t].op = "create"
  BY <1>1, <1>2 DEF Owned, CreationOk
<1>3. CASE th[t].op = "release"
  BY <1>1, <1>3 DEF Owned, ReleaseOk, Real, Messages, Taken
<1>4. QED
  BY <1>1, <1>2, <1>3

\* The id of an entry that stands is taken
LEMMA EntryTaken ==
  ASSUME TypeInv, Places, Messages, Owners, Standings, Taken, NEW n \in Nodes, Standing(n)
  PROVE  obj[n].id \in ida
<1>1. obj[n].id \in Ids
  BY DEF Places, Standing
<1>2. CASE Unheld(n)
  BY <1>1, <1>2 DEF Standings, Stands, Real, Taken
<1>3. CASE ~Unheld(n)
  <2>1. PICK t \in Threads : Releasing(t) /\ th[t].node = n
    BY <1>3 DEF Unheld
  <2>2. Owns(t) /\ obj[n].id = th[t].id
    BY <2>1 DEF Standing, Places, Placed, Releasing
  <2>3. QED
    BY <2>2, OwnerTaken
<1>4. QED
  BY <1>2, <1>3

\* An owner's id is not that of an entry that stands unheld
LEMMA OwnerElsewhere ==
  ASSUME Places, Standings, NEW t \in Threads, Owns(t), th[t].pc # "bind",
         NEW n \in Nodes, Standing(n), Unheld(n)
  PROVE  th[t].id # obj[n].id
<1>1. SUFFICES ASSUME th[t].id = obj[n].id PROVE FALSE
  OBVIOUS
<1>2. th[t].node = n
  BY <1>1 DEF Standings, Stands
<1>3. Entered(n) /\ Busy(t)
  BY DEF Standing, Owns, Creating, Releasing
<1>4. th[t].op = "release"
  BY <1>2, <1>3 DEF Places, Placed
<1>5. QED
  BY <1>2, <1>3, <1>4 DEF Unheld, Releasing

\* Whoever may release an id finds the id's entry, which nobody else uses
LEMMA ClaimStands ==
  ASSUME TypeInv, Places, Standings, Claimed, NEW t \in Threads, NEW i \in Ids, Claims(t, i)
  PROVE  \E n \in Nodes :
           /\ FreeEntry(n, i) /\ Standing(n) /\ Unheld(n) /\ EntryOf(i, n) /\ Real(i)
           /\ \A q \in Nodes : EntryOf(i, q) => q = n
           /\ \A u \in Threads : Owns(u) => th[u].id # i
<1>1. PICK n \in Nodes : FreeEntry(n, i)
  BY DEF Claimed
<1>2. Standing(n) /\ Unheld(n) /\ obj[n].id = i
  BY <1>1 DEF FreeEntry, Standing, Unheld, Releasing
<1>3. EntryOf(i, n) /\ Real(i)
  BY <1>2 DEF Standings, Stands
<1>4. \A q \in Nodes : EntryOf(i, q) => q = n
  BY <1>3, EntryUnique DEF TypeInv
<1>5. ASSUME NEW u \in Threads, Owns(u), th[u].id = i PROVE FALSE
  <2>1. th[u].node = n
    BY <1>2, <1>5 DEF Standings, Stands
  <2>2. QED
    BY <1>1, <1>5, <2>1 DEF FreeEntry, Owns, Creating, Releasing
<1>6. QED
  BY <1>1, <1>2, <1>3, <1>4, <1>5

-----------------------------------------------------------------------------
(* What steps of one caller keep.                                          *)

\* The wait list is as it was, whoever waited still does and nobody became an
\* owner
LEMMA QueuedKept ==
  ASSUME Queued, wait' = wait,
         \A t \in Threads : /\ Waiting(t)' <=> Waiting(t)
                            /\ Waiting(t) => /\ th'[t].node = th[t].node
                                             /\ th'[t].id = th[t].id
                                             /\ Owns(t)' => Owns(t)
  PROVE  Queued'
<1>1. PICK m \in Nat : \E s \in [1..m -> Cells] : Chain(wait, m, s) /\ Ordered(m, s)
  BY DEF Queued
<1>2. PICK s \in [1..m -> Cells] : Chain(wait, m, s) /\ Ordered(m, s)
  BY <1>1
<1>3. Ordered(m, s)'
  <2>1. ASSUME NEW n \in Nodes
        PROVE  (\E k \in 1..m : s[k] = n) <=> \E t \in Threads : Waiting(t)' /\ th'[t].node = n
    BY <1>2 DEF Ordered
  <2>2. ASSUME NEW t \in Threads, NEW u \in Threads, NEW j \in 1..m, NEW k \in 1..m,
               t # u, Waiting(t)', Waiting(u)', Owns(t)', th'[t].id = th'[u].id,
               s[j] = th'[t].node, s[k] = th'[u].node
        PROVE  j < k
    <3>1. /\ Waiting(t) /\ Waiting(u) /\ Owns(t) /\ th[t].id = th[u].id
          /\ s[j] = th[t].node /\ s[k] = th[u].node
      BY <2>2
    <3>2. QED
      BY <1>2, <2>2, <3>1 DEF Ordered
  <2>3. QED
    BY <2>1, <2>2 DEF Ordered
<1>4. Chain(wait', m, s)
  BY <1>2
<1>5. QED
  BY <1>3, <1>4 DEF Queued

\* A call goes on, up to its removal from the list or to its entry
LEMMA GoesOn ==
  ASSUME TypeInv, Places, Claimed, NEW t \in Threads, Busy(t), th[t].pc # "bind",
         \A u \in Threads : u # t => th'[u] = th[u],
         th'[t].op = th[t].op, th'[t].node = th[t].node, th'[t].id = th[t].id,
         \/ th[t].op = "create" /\ th'[t].pc \in {"send", "mark", "wait", "del", "list"}
         \/ th[t].op = "release" /\ th'[t].pc \in {"found", "send", "wait", "del", "drop"},
         \A c \in Cells : obj'[c].used = obj[c].used /\ obj'[c].id = obj[c].id,
         UNCHANGED <<epts, mine, known, closing>>
  PROVE  Places' /\ Claimed'
<1>1. /\ \A u \in Threads : /\ Busy(u)' <=> Busy(u)
                            /\ Releasing(u)' <=> Releasing(u)
                            /\ th'[u].node = th[u].node /\ th'[u].id = th[u].id
      /\ \A n : Entered(n)' <=> Entered(n)
      /\ \A n \in Nodes : obj'[n].used = obj[n].used /\ obj'[n].id = obj[n].id
      /\ Ctrl \in Cells
  BY DEF Busy, Releasing, Entered, Cells
<1>2. Placed(t)'
  BY <1>1 DEF Places, Placed, Busy
<1>3. \A u \in Threads : u # t => Placed(u)'
  BY <1>1 DEF Places, Placed, Busy
<1>4. Places'
  BY <1>1, <1>2, <1>3 DEF Places
<1>5. /\ \A u \in Threads, i \in Ids : Claims(u, i)' <=> Claims(u, i)
      /\ \A n \in Nodes, i \in Ids : FreeEntry(n, i)' <=> FreeEntry(n, i)
  BY <1>1 DEF Claims, FreeEntry
<1>6. Claimed'
  BY <1>1, <1>5 DEF Claimed
<1>7. QED
  BY <1>4, <1>6

\* Nothing but t's request, its object and its place changes
LEMMA OwnersKept ==
  ASSUME Owners, NEW t \in Threads,
         \A u \in Threads : u # t => /\ th'[u] = th[u] /\ calls'[u] = calls[u]
                                     /\ Busy(u) => obj'[th[u].node] = obj[th[u].node],
         Owns(t)' => Owns(t) /\ th'[t].id = th[t].id,
         Owned(t)', UNCHANGED <<ida, dev, toR, toL>>
  PROVE  Owners'
<1>1. Outgoing' = Outgoing /\ Incoming' = Incoming
  BY DEF Outgoing, Incoming
<1>2. ASSUME NEW u \in Threads, u # t PROVE (Owns(u)' <=> Owns(u)) /\ Owned(u)'
  <2>1. Owns(u)' <=> Owns(u)
    BY <1>2 DEF Owns, Creating, Releasing, Busy
  <2>2. SUFFICES ASSUME Owns(u) PROVE Owned(u)'
    BY <2>1 DEF Owned
  <2>3. Busy(u) /\ th'[u] = th[u] /\ calls'[u] = calls[u] /\ obj'[th[u].node] = obj[th[u].node]
    BY <1>2, <2>2 DEF Owns, Creating, Releasing
  <2>4. Owned(u)
    BY DEF Owners
  <2>5. Stamped(u)' <=> Stamped(u)
    BY <1>1, <2>3 DEF Stamped
  <2>6. CreationOk(u)' <=> CreationOk(u)
    BY <1>1, <2>3 DEF CreationOk, Confirmed, Silent, Real
  <2>7. ReleaseOk(u)' <=> ReleaseOk(u)
    BY <1>1, <2>3 DEF ReleaseOk, Silent, Real
  <2>8. QED
    BY <2>1, <2>3, <2>4, <2>5, <2>6, <2>7 DEF Owned
<1>3. ASSUME NEW u \in Threads, NEW v \in Threads, Owns(u)', Owns(v)', th'[u].id = th'[v].id
      PROVE  u = v
  <2>1. Owns(u) /\ Owns(v) /\ th[u].id = th[v].id
    BY <1>2, <1>3
  <2>2. QED
    BY <2>1 DEF Owners
<1>4. QED
  BY <1>2, <1>3 DEF Owners

\* The entries and who releases them are as before
LEMMA StandingsKept ==
  ASSUME Standings,
         \A u \in Threads : /\ Owns(u)' => /\ Owns(u) /\ th'[u].id = th[u].id
                                           /\ th'[u].node = th[u].node
                            /\ Releasing(u)' <=> Releasing(u)
                            /\ Releasing(u) => th'[u].node = th[u].node,
         \A n \in Nodes : Entered(n) => obj'[n].id = obj[n].id,
         epts \in Seq(Nodes), UNCHANGED <<epts, dev, toR, toL>>
  PROVE  Standings'
<1>1. Outgoing' = Outgoing /\ Incoming' = Incoming
  BY DEF Outgoing, Incoming
<1>2. SUFFICES ASSUME NEW n \in Nodes, Standing(n)' PROVE Stands(n)'
  BY DEF Standings, Stands
<1>3. Standing(n) /\ Entered(n)
  BY <1>2 DEF Standing, Entered
<1>4. Stands(n) /\ obj'[n].id = obj[n].id
  BY <1>3 DEF Standings
<1>5. EntryOf(obj[n].id, n)'
  <2>1. PICK k \in DOMAIN epts : /\ epts[k] = n
                                /\ \A j \in 1..(k - 1) : obj[epts[j]].id # obj[n].id
    BY <1>3, <1>4 DEF Stands, EntryOf
  <2>2. \A j \in DOMAIN epts : epts[j] \in Nodes /\ Entered(epts[j])
    BY ElementOfSeq DEF Entered
  <2>3. \A j \in 1..(k - 1) : j \in DOMAIN epts
    BY LenProperties
  <2>4. \A j \in 1..(k - 1) : obj'[epts[j]].id = obj[epts[j]].id
    BY <2>2, <2>3
  <2>5. QED
    BY <1>4, <2>1, <2>4 DEF EntryOf
<1>6. Unheld(n)' <=> Unheld(n)
  BY DEF Unheld
<1>7. Real(obj[n].id)' <=> Real(obj[n].id)
  BY <1>1, <1>4 DEF Real, Silent
<1>8. QED
  BY <1>3, <1>4, <1>5, <1>6, <1>7 DEF Stands

\* Messages and ids that a step leaves alone
LEMMA MessagesKept ==
  ASSUME Messages, Taken, UNCHANGED <<ida, dev, toR, toL>>
  PROVE  Messages' /\ Taken'
  BY DEF Messages, Taken, Outgoing, Incoming

\* t starts to wait: its object becomes the first of the list
LEMMA QueuedLinked ==
  ASSUME TypeInv, Queued, NEW t \in Threads, NEW n \in Nodes, wait' = Linked(wait, n),
         ~Waiting(t), Waiting(t)', th'[t].node = n,
         \A u \in Threads : Waiting(u) => th[u].node # n,
         \A u \in Threads : u # t =>
           /\ Waiting(u)' <=> Waiting(u)
           /\ Waiting(u) => /\ th'[u].node = th[u].node /\ th'[u].id = th[u].id
                            /\ Owns(u)' => Owns(u)
                            /\ Owns(u) => th[u].id # th'[t].id
  PROVE  Queued'
<1>1. PICK m \in Nat : \E s \in [1..m -> Cells] : Chain(wait, m, s) /\ Ordered(m, s)
  BY DEF Queued
<1>2. PICK s \in [1..m -> Cells] : Chain(wait, m, s) /\ Ordered(m, s)
  BY <1>1
<1> DEFINE r == [k \in 1..(m + 1) |-> IF k = 1 THEN n ELSE s[k - 1]]
<1>3. \A k \in 1..m : s[k] # n
  BY <1>2 DEF Ordered
<1>4. r \in [1..(m + 1) -> Cells] /\ Chain(wait', m + 1, r)
  <2>1. wait \in ListType /\ n \in Cells
    BY DEF TypeInv, Cells
  <2>2. QED
    BY <1>2, <1>3, <2>1, ChainLinked
<1>5. /\ r[1] = n /\ 1 \in 1..(m + 1)
      /\ \A k \in 1..(m + 1) : k # 1 => r[k] = s[k - 1] /\ k - 1 \in 1..m
      /\ \A k \in 1..m : r[k + 1] = s[k] /\ k + 1 \in 1..(m + 1)
  OBVIOUS
<1> HIDE DEF r
<1>6. ASSUME NEW q \in Nodes
      PROVE  (\E k \in 1..(m + 1) : r[k] = q) <=> \E u \in Threads : Waiting(u)' /\ th'[u].node = q
  <2>1. CASE q = n
    BY <1>5, <2>1
  <2>2. CASE q # n
    <3>1. (\E k \in 1..(m + 1) : r[k] = q) <=> \E k \in 1..m : s[k] = q
      BY <1>5, <2>2
    <3>2. (\E u \in Threads : Waiting(u)' /\ th'[u].node = q)
            <=> \E u \in Threads : Waiting(u) /\ th[u].node = q
      BY <2>2
    <3>3. QED
      BY <1>2, <3>1, <3>2 DEF Ordered
  <2>3. QED
    BY <2>1, <2>2
<1>7. ASSUME NEW v \in Threads, NEW u \in Threads, NEW j \in 1..(m + 1), NEW k \in 1..(m + 1),
             v # u, Waiting(v)', Waiting(u)', Owns(v)', th'[v].id = th'[u].id,
             r[j] = th'[v].node, r[k] = th'[u].node
      PROVE  j < k
  <2>1. u # t
    BY <1>7
  <2>2. th'[u].node # n /\ Waiting(u) /\ th'[u].node = th[u].node /\ th'[u].id = th[u].id
    BY <1>7, <2>1
  <2>3. k # 1 /\ k - 1 \in 1..m /\ s[k - 1] = th[u].node
    BY <1>5, <1>7, <2>2
  <2>4. CASE v = t
    <3>1. j = 1
      <4>1. SUFFICES ASSUME j # 1 PROVE FALSE
        OBVIOUS
      <4>2. j - 1 \in 1..m /\ s[j - 1] = n
        BY <1>5, <1>7, <2>4, <4>1
      <4>3. QED
        BY <1>3, <4>2
    <3>2. QED
      BY <2>3, <3>1
  <2>5. CASE v # t
    <3>1. Waiting(v) /\ Owns(v) /\ th[v].id = th[u].id /\ th'[v].node = th[v].node
      BY <1>7, <2>2, <2>5
    <3>2. j # 1 /\ j - 1 \in 1..m /\ s[j - 1] = th[v].node
      BY <1>5, <1>7, <3>1
    <3>3. j - 1 < k - 1
      BY <1>2, <1>7, <2>2, <2>3, <3>1, <3>2 DEF Ordered
    <3>4. QED
      BY <3>3
  <2>6. QED
    BY <2>4, <2>5
<1>8. Ordered(m + 1, r)'
  BY <1>6, <1>7 DEF Ordered
<1>9. m + 1 \in Nat
  OBVIOUS
<1>10. QED
  BY <1>4, <1>8, <1>9 DEF Queued

\* t stops to wait: its object leaves the list
LEMMA QueuedUnlinked ==
  ASSUME TypeInv, Queued, NEW t \in Threads, wait' = Unlinked(wait, th[t].node),
         Waiting(t), ~Waiting(t)', th[t].node \in Nodes,
         \A u \in Threads : u # t =>
           /\ Waiting(u)' <=> Waiting(u)
           /\ Waiting(u) => /\ th'[u].node = th[u].node /\ th'[u].id = th[u].id
                            /\ th[u].node # th[t].node
                            /\ Owns(u)' => Owns(u)
  PROVE  Queued'
<1>1. PICK m \in Nat : \E s \in [1..m -> Cells] : Chain(wait, m, s) /\ Ordered(m, s)
  BY DEF Queued
<1>2. PICK s \in [1..m -> Cells] : Chain(wait, m, s) /\ Ordered(m, s)
  BY <1>1
<1>3. PICK q \in 1..m : s[q] = th[t].node
  BY <1>2 DEF Ordered
<1> DEFINE r == [k \in 1..(m - 1) |-> IF k < q THEN s[k] ELSE s[k + 1]]
<1>4. r \in [1..(m - 1) -> Cells] /\ Chain(wait', m - 1, r)
  <2>1. wait \in ListType /\ wait' = Unlinked(wait, s[q])
    BY <1>3 DEF TypeInv
  <2>2. r \in [1..(m - 1) -> Cells] /\ Chain(Unlinked(wait, s[q]), m - 1, r)
    BY <1>2, <2>1, ChainUnlinked
  <2>3. QED
    BY <2>1, <2>2
<1> DEFINE Old(k) == IF k < q THEN k ELSE k + 1
<1>5. /\ \A k \in 1..(m - 1) : Old(k) \in 1..m /\ r[k] = s[Old(k)] /\ Old(k) # q
      /\ \A j, k \in 1..(m - 1) : Old(j) < Old(k) => j < k
      /\ \A j \in 1..m : j # q => \E k \in 1..(m - 1) : r[k] = s[j]
  <2>1. /\ \A k \in 1..(m - 1) : Old(k) \in 1..m /\ r[k] = s[Old(k)] /\ Old(k) # q
        /\ \A j, k \in 1..(m - 1) : Old(j) < Old(k) => j < k
    OBVIOUS
  <2>2. ASSUME NEW j \in 1..m, j # q PROVE \E k \in 1..(m - 1) : r[k] = s[j]
    <3>1. CASE j < q
      <4>1. j \in 1..(m - 1) /\ r[j] = s[j]
        BY <3>1
      <4>2. QED
        BY <4>1
    <3>2. CASE j > q
      <4>1. j - 1 \in 1..(m - 1) /\ ~(j - 1 < q) /\ (j - 1) + 1 = j
        BY <3>2
      <4>2. r[j - 1] = s[j]
        BY <4>1
      <4>3. QED
        BY <4>1, <4>2
    <3>3. QED
      BY <2>2, <3>1, <3>2
  <2>3. QED
    BY <2>1, <2>2
<1>6. \A k \in 1..m : s[k] = th[t].node => k = q
  BY <1>2, <1>3 DEF Chain
<1> HIDE DEF r, Old
<1>7. ASSUME NEW n \in Nodes
      PROVE  (\E k \in 1..(m - 1) : r[k] = n) <=> \E u \in Threads : Waiting(u)' /\ th'[u].node = n
  <2>1. CASE n = th[t].node
    <3>1. ~ \E k \in 1..(m - 1) : r[k] = n
      BY <1>5, <1>6, <2>1
    <3>2. ~ \E u \in Threads : Waiting(u)' /\ th'[u].node = n
      BY <2>1
    <3>3. QED
      BY <3>1, <3>2
  <2>2. CASE n # th[t].node
    <3>1. (\E k \in 1..(m - 1) : r[k] = n) <=> \E k \in 1..m : s[k] = n
      <4>1. ASSUME NEW k \in 1..(m - 1), r[k] = n PROVE \E j \in 1..m : s[j] = n
        BY <1>5, <4>1
      <4>2. ASSUME NEW k \in 1..m, s[k] = n PROVE \E j \in 1..(m - 1) : r[j] = n
        <5>1. k # q
          BY <1>3, <2>2, <4>2
        <5>2. QED
          BY <1>5, <4>2, <5>1
      <4>3. QED
        BY <4>1, <4>2
    <3>2. (\E u \in Threads : Waiting(u)' /\ th'[u].node = n)
            <=> \E u \in Threads : Waiting(u) /\ th[u].node = n
      BY <2>2
    <3>3. QED
      BY <1>2, <3>1, <3>2 DEF Ordered
  <2>3. QED
    BY <2>1, <2>2
<1>8. ASSUME NEW v \in Threads, NEW u \in Threads, NEW j \in 1..(m - 1), NEW k \in 1..(m - 1),
             v # u, Waiting(v)', Waiting(u)', Owns(v)', th'[v].id = th'[u].id,
             r[j] = th'[v].node, r[k] = th'[u].node
      PROVE  j < k
  <2>1. v # t /\ u # t
    BY <1>8
  <2>2. /\ Waiting(v) /\ Waiting(u) /\ Owns(v) /\ th[v].id = th[u].id
        /\ s[Old(j)] = th[v].node /\ s[Old(k)] = th[u].node
        /\ Old(j) \in 1..m /\ Old(k) \in 1..m
    BY <1>5, <1>8, <2>1
  <2>3. Old(j) < Old(k)
    BY <1>2, <1>8, <2>2 DEF Ordered
  <2>4. QED
    BY <1>5, <2>3
<1>9. Ordered(m - 1, r)'
  BY <1>7, <1>8 DEF Ordered
<1>10. m - 1 \in Nat
  BY <1>3
<1>11. QED
  BY <1>4, <1>9, <1>10 DEF Queued

-----------------------------------------------------------------------------
(* The steps of a call.                                                    *)

\* Where a call stands after a Goto, and that nobody else moved
LEMMA Moved ==
  ASSUME TypeInv, NEW t \in Threads, NEW pc, Goto(t, pc)
  PROVE  /\ th'[t] = [th[t] EXCEPT !.pc = pc]
         /\ th'[t].pc = pc /\ th'[t].op = th[t].op /\ th'[t].node = th[t].node
         /\ th'[t].id = th[t].id /\ th'[t].grp = th[t].grp /\ th'[t].af = th[t].af
         /\ th'[t].res = th[t].res
         /\ \A u \in Threads : u # t => th'[u] = th[u]
  BY DEF Goto, TypeInv, Callers, CallType

LEMMA LifeReleaseWait ==
  ASSUME LifeInv, TypeInv', NEW t \in Threads, ReleaseWait(t)
  PROVE  LifeInv'
<1> DEFINE n == th[t].node
<1>1. /\ th[t].pc = "found" /\ ~hung /\ obj' = [obj EXCEPT ![n].done = 0]
      /\ wait' = Linked(wait, n) /\ calls' = [calls EXCEPT ![t] = @ + 1] /\ Goto(t, "send")
      /\ UNCHANGED <<ida, epts, mine, auto, closing, known, dev, open, rem, toR, toL, hung>>
  BY DEF ReleaseWait, At, files, devs
<1>2. /\ TypeInv /\ Places /\ Queued /\ Messages /\ Owners /\ Standings /\ Claimed /\ Taken
  BY DEF LifeInv
<1>3. /\ th'[t].pc = "send" /\ th'[t].op = th[t].op /\ th'[t].node = n /\ th'[t].id = th[t].id
      /\ \A u \in Threads : u # t => th'[u] = th[u] /\ calls'[u] = calls[u]
  <2>1. \A u \in Threads : u # t => calls'[u] = calls[u]
    BY <1>1, <1>2 DEF TypeInv
  <2>2. QED
    BY <1>1, <1>2, <2>1, Moved
<1>4. Busy(t) /\ Releasing(t) /\ Owns(t) /\ n \in Nodes /\ th[t].op = "release"
  BY <1>1, <1>2 DEF Busy, Releasing, Owns, Places, Placed
<1>5. /\ \A c \in Cells : /\ obj'[c].used = obj[c].used /\ obj'[c].id = obj[c].id
                          /\ c # n => obj'[c] = obj[c]
      /\ \A u \in Threads : u # t /\ Busy(u) => th[u].node # n /\ obj'[th[u].node] = obj[th[u].node]
  <2>1. \A c \in Cells : /\ obj'[c].used = obj[c].used /\ obj'[c].id = obj[c].id
                         /\ c # n => obj'[c] = obj[c]
    BY <1>1, <1>2, <1>4 DEF TypeInv, NotifyType, Cells
  <2>2. \A u \in Threads : u # t /\ Busy(u) => th[u].node # n /\ th[u].node \in Cells
    BY <1>2, <1>4 DEF Places, Placed, Cells
  <2>3. QED
    BY <2>1, <2>2
<1>6. Places' /\ Claimed'
  BY <1>1, <1>2, <1>3, <1>4, <1>5, GoesOn
<1>7. Messages' /\ Taken'
  BY <1>1, <1>2, MessagesKept
<1>8. Outgoing' = Outgoing /\ Incoming' = Incoming
  BY <1>1 DEF Outgoing, Incoming
<1>9. Real(th[t].id) /\ Real(th[t].id)'
  <2>1. ReleaseOk(t)
    BY <1>2, <1>4 DEF Owners, Owned
  <2>2. Real(th[t].id)
    BY <1>1, <2>1 DEF ReleaseOk
  <2>3. QED
    BY <1>1, <1>3, <1>8, <2>2 DEF Real, Silent
<1>10. Owned(t)'
  <2>1. Stamped(t)'
    BY <1>3, <1>9 DEF Stamped, Real, Silent
  <2>2. ReleaseOk(t)'
    BY <1>3, <1>9 DEF ReleaseOk
  <2>3. QED
    BY <1>3, <1>4, <2>1, <2>2 DEF Owned
<1>11. Owners'
  BY <1>1, <1>2, <1>3, <1>4, <1>5, <1>10, OwnersKept
<1>12. \A u \in Threads : u # t => (Owns(u)' <=> Owns(u)) /\ (Releasing(u)' <=> Releasing(u))
  BY <1>3, <1>5 DEF Owns, Creating, Releasing, Busy
<1>13. Releasing(t)'
  BY <1>3, <1>4 DEF Releasing, Busy
<1>14. Standings'
  <2>1. \A q \in Nodes : Entered(q) => obj'[q].id = obj[q].id
    BY <1>5 DEF Cells
  <2>2. \A u \in Threads : /\ Owns(u)' => /\ Owns(u) /\ th'[u].id = th[u].id
                                          /\ th'[u].node = th[u].node
                           /\ Releasing(u)' <=> Releasing(u)
                           /\ Releasing(u) => th'[u].node = th[u].node
    BY <1>3, <1>4, <1>12, <1>13
  <2>3. QED
    BY <1>1, <1>2, <2>1, <2>2, StandingsKept DEF TypeInv
<1>15. Queued'
  <2>1. ~Waiting(t) /\ Waiting(t)'
    BY <1>1, <1>3 DEF Waiting
  <2>2. \A u \in Threads : Waiting(u) => Busy(u) /\ th[u].node # n
    BY <1>5, <2>1 DEF Waiting, Busy
  <2>3. \A u \in Threads : u # t /\ Owns(u) => th[u].id # th'[t].id
    BY <1>2, <1>3, <1>4 DEF Owners
  <2>4. \A u \in Threads : u # t => (Waiting(u)' <=> Waiting(u))
    BY <1>3 DEF Waiting
  <2>5. QED
    BY <1>1, <1>2, <1>3, <1>4, <1>12, <2>1, <2>2, <2>3, <2>4, QueuedLinked
<1>16. QED
  BY <1>1, <1>2, <1>6, <1>7, <1>11, <1>14, <1>15 DEF LifeInv, Orderly

\* A step of t that leaves the lists, the queues and the devices alone, goes on
\* with the call and does not make t an owner
LEMMA LifeGoesOn ==
  ASSUME LifeInv, TypeInv', NEW t \in Threads, Busy(t), th[t].pc # "bind",
         \A u \in Threads : u # t => th'[u] = th[u],
         th'[t].op = th[t].op, th'[t].node = th[t].node, th'[t].id = th[t].id,
         \/ th[t].op = "create" /\ th'[t].pc \in {"send", "mark", "wait", "del", "list"}
         \/ th[t].op = "release" /\ th'[t].pc \in {"found", "send", "wait", "del", "drop"},
         \A c \in Cells : obj'[c].used = obj[c].used /\ obj'[c].id = obj[c].id,
         \A c \in Cells : c # th[t].node => obj'[c] = obj[c],
         Owns(t)' => Owns(t), Owned(t)', Queued',
         UNCHANGED <<ida, epts, mine, known, closing, calls, dev, toR, toL, hung>>
  PROVE  LifeInv'
<1>1. /\ TypeInv /\ Places /\ Queued /\ Messages /\ Owners /\ Standings /\ Claimed /\ Taken
  BY DEF LifeInv
<1>2. Places' /\ Claimed'
  BY <1>1, GoesOn
<1>3. Messages' /\ Taken'
  BY <1>1, MessagesKept
<1>4. \A u \in Threads : u # t /\ Busy(u) =>
         th[u].node # th[t].node /\ obj'[th[u].node] = obj[th[u].node]
  BY <1>1 DEF Places, Placed, Cells
<1>5. Owners'
  BY <1>1, <1>4, OwnersKept
<1>6. \A u \in Threads : u # t => (Owns(u)' <=> Owns(u)) /\ (Releasing(u)' <=> Releasing(u))
  BY <1>4 DEF Owns, Creating, Releasing, Busy
<1>7. Releasing(t)' <=> Releasing(t)
  BY DEF Releasing, Busy
<1>8. Standings'
  <2>1. \A q \in Nodes : Entered(q) => obj'[q].id = obj[q].id
    BY DEF Cells
  <2>2. \A u \in Threads : /\ Owns(u)' => /\ Owns(u) /\ th'[u].id = th[u].id
                                          /\ th'[u].node = th[u].node
                           /\ Releasing(u)' <=> Releasing(u)
                           /\ Releasing(u) => th'[u].node = th[u].node
    BY <1>6, <1>7
  <2>3. QED
    BY <1>1, <2>1, <2>2, StandingsKept DEF TypeInv
<1>9. QED
  BY <1>2, <1>3, <1>5, <1>8 DEF LifeInv, Orderly

LEMMA LifeMark ==
  ASSUME LifeInv, TypeInv', NEW t \in Threads, Mark(t)
  PROVE  LifeInv'
<1> DEFINE n == th[t].node
<1>1. /\ th[t].pc = "mark" /\ obj' = [obj EXCEPT ![n].status = "failed"] /\ Goto(t, "wait")
      /\ UNCHANGED <<ida, wait, epts, mine, known, closing, calls, dev, toR, toL, hung>>
  BY DEF Mark, files, devs
<1>2. /\ TypeInv /\ Places /\ Queued /\ Owners
  BY DEF LifeInv
<1>3. /\ th'[t].pc = "wait" /\ th'[t].op = th[t].op /\ th'[t].node = n /\ th'[t].id = th[t].id
      /\ \A u \in Threads : u # t => th'[u] = th[u]
  BY <1>1, <1>2, Moved
<1>4. Busy(t) /\ Creating(t) /\ Owns(t) /\ n \in Nodes /\ th[t].op = "create"
  BY <1>1, <1>2 DEF Busy, Creating, Owns, Places, Placed
<1>5. \A c \in Cells : /\ obj'[c].used = obj[c].used /\ obj'[c].id = obj[c].id
                       /\ obj'[c].done = obj[c].done
                       /\ c # n => obj'[c] = obj[c]
  BY <1>1, <1>2, <1>4 DEF TypeInv, NotifyType, Cells
<1>6. obj'[n].status = "failed"
  BY <1>1, <1>2, <1>4 DEF TypeInv, NotifyType, Cells
<1>7. Outgoing' = Outgoing /\ Incoming' = Incoming
  BY <1>1 DEF Outgoing, Incoming
<1>8. Owned(t)'
  <2>1. Stamped(t) /\ CreationOk(t)
    BY <1>2, <1>4 DEF Owners, Owned
  <2>2. Stamped(t)'
    BY <1>1, <1>3, <1>7, <2>1 DEF Stamped
  <2>3. ~Confirmed(t)'
    BY <1>3, <1>6 DEF Confirmed
  <2>4. obj'[n].done > 0 => Silent(th[t].id)'
    BY <1>1, <1>3, <1>4, <1>5, <1>7, <2>1 DEF CreationOk, Silent, Cells
  <2>5. CreationOk(t)'
    BY <1>1, <1>3, <1>7, <2>1, <2>3, <2>4 DEF CreationOk
  <2>6. QED
    BY <1>3, <1>4, <2>2, <2>5 DEF Owned
<1>9. Queued'
  <2>1. \A u \in Threads : u # t => (Owns(u)' => Owns(u))
    <3>1. \A u \in Threads : u # t /\ Busy(u) => obj'[th[u].node].done = obj[th[u].node].done
      <4>1. \A u \in Threads : Busy(u) => th[u].node \in Cells
        BY <1>2 DEF Places, Placed, Cells
      <4>2. QED
        BY <1>5, <4>1
    <3>2. QED
      BY <1>3, <3>1 DEF Owns, Creating, Releasing, Busy
  <2>2. \A u \in Threads : Waiting(u)' <=> Waiting(u)
    BY <1>1, <1>3 DEF Waiting
  <2>3. QED
    BY <1>1, <1>2, <1>3, <1>4, <2>1, <2>2, QueuedKept
<1>10. QED
  BY <1>1, <1>3, <1>4, <1>5, <1>8, <1>9, LifeGoesOn

\* The wait ends: whoever is the owner of a release is not any more
LEMMA LifeWaitEnds ==
  ASSUME LifeInv, TypeInv', NEW t \in Threads, WaitDone(t) \/ WaitTimeout(t)
  PROVE  LifeInv'
<1> DEFINE n == th[t].node
<1>1. /\ th[t].pc = "wait"
      /\ UNCHANGED <<ida, wait, epts, mine, known, closing, calls, dev, toR, toL, hung>>
  BY DEF WaitDone, WaitTimeout, files, devs
<1>2. /\ TypeInv /\ Places /\ Queued /\ Owners
  BY DEF LifeInv
<1>3. Busy(t) /\ n \in Nodes /\ (th[t].op = "create" \/ th[t].op = "release")
  BY <1>1, <1>2 DEF Busy, Places, Placed
<1>4. /\ th'[t].pc = "del" /\ th'[t].op = th[t].op /\ th'[t].node = n /\ th'[t].id = th[t].id
      /\ th'[t].res \in {"ok", "bad"} /\ (th'[t].res = "ok" => obj[n].status = "ok" /\ obj[n].done > 0)
      /\ \A u \in Threads : u # t => th'[u] = th[u]
  <2>1. CASE WaitDone(t)
    <3>1. /\ th' = [th EXCEPT ![t].pc = "del",
                              ![t].res = IF obj[n].status = "ok" THEN "ok" ELSE "bad"]
          /\ obj[n].done > 0
      BY <2>1 DEF WaitDone
    <3>2. QED
      BY <1>2, <3>1 DEF TypeInv, Callers, CallType
  <2>2. CASE WaitTimeout(t)
    <3>1. th' = [th EXCEPT ![t].pc = "del", ![t].res = "bad"]
      BY <2>2 DEF WaitTimeout
    <3>2. QED
      BY <1>2, <3>1 DEF TypeInv, Callers, CallType
  <2>3. QED
    BY <2>1, <2>2
<1>5. \A c \in Cells : /\ obj'[c].used = obj[c].used /\ obj'[c].id = obj[c].id
                       /\ c # n => obj'[c] = obj[c]
  <2>1. obj' = obj \/ obj' = [obj EXCEPT ![n].done = @ - 1]
    BY DEF WaitDone, WaitTimeout
  <2>2. n \in Cells /\ obj \in [Cells -> NotifyType]
    BY <1>2, <1>3 DEF TypeInv, Cells
  <2>3. \A c \in Cells : c # n => obj'[c] = obj[c]
    BY <2>1, <2>2
  <2>4. obj'[n].used = obj[n].used /\ obj'[n].id = obj[n].id
    BY <2>1, <2>2 DEF NotifyType
  <2>5. QED
    BY <2>3, <2>4
<1>6. Outgoing' = Outgoing /\ Incoming' = Incoming
  BY <1>1 DEF Outgoing, Incoming
<1>7. Owns(t)' => Owns(t) /\ th[t].op = "create"
  BY <1>1, <1>3, <1>4 DEF Owns, Creating, Releasing, Busy
<1>8. Owned(t)'
  <2>1. SUFFICES ASSUME Owns(t), th[t].op = "create" PROVE Stamped(t)' /\ CreationOk(t)'
    BY <1>4, <1>7 DEF Owned
  <2>2. Stamped(t) /\ CreationOk(t)
    BY <1>2, <2>1 DEF Owners, Owned
  <2>3. Stamped(t)'
    BY <1>1, <1>4, <1>6, <2>2 DEF Stamped
  <2>4. Confirmed(t)' => Confirmed(t)
    BY <1>1, <1>4 DEF Confirmed
  <2>5. CreationOk(t)'
    BY <1>1, <1>4, <1>6, <2>2, <2>4 DEF CreationOk, Real, Silent
  <2>6. QED
    BY <2>3, <2>5
<1>9. Queued'
  <2>1. \A u \in Threads : u # t => (Owns(u)' => Owns(u))
    <3>1. \A u \in Threads : u # t /\ Busy(u) => obj'[th[u].node] = obj[th[u].node]
      BY <1>2, <1>3, <1>5 DEF Places, Placed, Cells
    <3>2. QED
      BY <1>4, <3>1 DEF Owns, Creating, Releasing, Busy
  <2>2. \A u \in Threads : Waiting(u)' <=> Waiting(u)
    BY <1>1, <1>4 DEF Waiting
  <2>3. QED
    BY <1>1, <1>2, <1>4, <1>7, <2>1, <2>2, QueuedKept
<1>10. QED
  BY <1>1, <1>3, <1>4, <1>5, <1>7, <1>8, <1>9, LifeGoesOn

-----------------------------------------------------------------------------
(* Steps that send, take or answer a message about one id.                 *)

\* Only messages about i come or go
Aside(i) ==
  /\ \A m \in Outgoing' : m \in Outgoing \/ m.id = i
  /\ \A m \in Outgoing : m \in Outgoing' \/ m.id = i
  /\ \A m \in Incoming' : m \in Incoming \/ m.id = i
  /\ \A m \in Incoming : m \in Incoming' \/ m.id = i

\* The requests about other ids do not notice
LEMMA OwnersAside ==
  ASSUME Owners, Places, NEW i, Aside(i),
         \A j \in ida : j # i => j \in ida', \A j \in Ids : j # i => dev'[j] = dev[j],
         \A u \in Threads : Owns(u)' =>
           /\ Owns(u) /\ th'[u].id = th[u].id
           /\ IF th[u].id = i THEN Owned(u)'
              ELSE /\ th'[u] = th[u] /\ calls'[u] = calls[u]
                   /\ obj'[th[u].node] = obj[th[u].node]
  PROVE  Owners'
<1>1. ASSUME NEW u \in Threads, Owns(u)' PROVE Owned(u)'
  <2>1. SUFFICES ASSUME th[u].id # i PROVE Owned(u)'
    BY <1>1
  <2>2. th'[u] = th[u] /\ calls'[u] = calls[u] /\ obj'[th[u].node] = obj[th[u].node] /\ Owns(u)
    BY <1>1, <2>1
  <2>3. Owned(u) /\ th[u].id \in Ids
    BY <2>2 DEF Owners, Places, Placed, Owns, Creating, Releasing
  <2>4. Silent(th[u].id) => Silent(th[u].id)'
    BY <2>1, <2>2 DEF Silent, Aside
  <2>5. Real(th[u].id) => Real(th[u].id)'
    BY <2>1, <2>2, <2>3, <2>4 DEF Real
  <2>6. Stamped(u) => Stamped(u)'
    BY <2>1, <2>2 DEF Stamped, Aside
  <2>7. CreationOk(u) => CreationOk(u)'
    <3>1. SUFFICES ASSUME CreationOk(u) PROVE CreationOk(u)'
      OBVIOUS
    <3>2. th'[u].id \in ida' /\ dev'[th'[u].id] = dev[th[u].id]
      BY <2>1, <2>2, <2>3, <3>1 DEF CreationOk
    <3>3. /\ \A m \in Outgoing' : m.id = th'[u].id => m.cmd # "release"
          /\ \A m \in Incoming' : m.id = th'[u].id => m.k # "gone"
      BY <2>1, <2>2, <3>1 DEF CreationOk, Aside
    <3>4. th'[u].pc = "send" => /\ Silent(th[u].id)' /\ dev'[th'[u].id] = "none"
                                /\ obj'[th'[u].node].status # "ok" /\ obj'[th'[u].node].done = 0
      BY <2>2, <2>4, <3>1, <3>2 DEF CreationOk
    <3>5. Confirmed(u)' => Real(th[u].id)'
      BY <2>2, <2>5, <3>1 DEF CreationOk, Confirmed
    <3>6. th'[u].pc \in {"mark", "wait"} /\ obj'[th'[u].node].done > 0 => Silent(th[u].id)'
      BY <2>2, <2>4, <3>1 DEF CreationOk
    <3>7. QED
      BY <2>2, <3>1, <3>2, <3>3, <3>4, <3>5, <3>6 DEF CreationOk
  <2>8. ReleaseOk(u) => ReleaseOk(u)'
    <3>1. SUFFICES ASSUME ReleaseOk(u) PROVE ReleaseOk(u)'
      OBVIOUS
    <3>2. CASE th[u].pc = "wait"
      <4>1. CASE \E m \in Outgoing : m.id = th[u].id /\ m.cmd = "release"
        BY <2>1, <2>2, <3>2, <4>1 DEF ReleaseOk, Aside
      <4>2. CASE \E m \in Incoming : m.id = th[u].id /\ m.k = "ack"
        BY <2>1, <2>2, <3>2, <4>2 DEF ReleaseOk, Aside
      <4>3. QED
        BY <3>1, <3>2, <4>1, <4>2 DEF ReleaseOk
    <3>3. CASE th[u].pc # "wait"
      BY <2>2, <2>5, <3>1, <3>3 DEF ReleaseOk
    <3>4. QED
      BY <3>2, <3>3
  <2>9. QED
    BY <2>2, <2>3, <2>6, <2>7, <2>8 DEF Owned
<1>2. ASSUME NEW u \in Threads, NEW v \in Threads, Owns(u)', Owns(v)', th'[u].id = th'[v].id
      PROVE  u = v
  <2>1. Owns(u) /\ Owns(v) /\ th[u].id = th[v].id
    BY <1>2
  <2>2. QED
    BY <2>1 DEF Owners
<1>3. \A u \in Threads : Owned(u)'
  BY <1>1 DEF Owned
<1>4. QED
  BY <1>2, <1>3 DEF Owners

\* Nor do the entries of other ids
LEMMA StandingsAside ==
  ASSUME Standings, Places, NEW i, Aside(i), \A j \in Ids : j # i => dev'[j] = dev[j],
         \A n \in Nodes : Standing(n) /\ Unheld(n) => obj[n].id # i,
         \A u \in Threads : /\ Owns(u)' => /\ Owns(u) /\ th'[u].id = th[u].id
                                           /\ th'[u].node = th[u].node
                            /\ Releasing(u)' <=> Releasing(u)
                            /\ Releasing(u) => th'[u].node = th[u].node,
         \A n \in Nodes : Entered(n) => obj'[n].id = obj[n].id,
         epts \in Seq(Nodes), UNCHANGED epts
  PROVE  Standings'
<1>2. SUFFICES ASSUME NEW n \in Nodes, Standing(n)' PROVE Stands(n)'
  BY DEF Standings, Stands
<1>3. Standing(n) /\ Entered(n)
  BY <1>2 DEF Standing, Entered
<1>4. Stands(n) /\ obj'[n].id = obj[n].id
  BY <1>3 DEF Standings
<1>5. EntryOf(obj[n].id, n)'
  <2>1. PICK k \in DOMAIN epts : /\ epts[k] = n
                                /\ \A j \in 1..(k - 1) : obj[epts[j]].id # obj[n].id
    BY <1>3, <1>4 DEF Stands, EntryOf
  <2>2. \A j \in DOMAIN epts : epts[j] \in Nodes /\ Entered(epts[j])
    BY ElementOfSeq DEF Entered
  <2>3. \A j \in 1..(k - 1) : j \in DOMAIN epts
    BY LenProperties
  <2>4. \A j \in 1..(k - 1) : obj'[epts[j]].id = obj[epts[j]].id
    BY <2>2, <2>3
  <2>5. QED
    BY <1>4, <2>1, <2>4 DEF EntryOf
<1>6. Unheld(n)' <=> Unheld(n)
  BY DEF Unheld
<1>7. Unheld(n) => Real(obj[n].id)'
  <2>1. obj[n].id \in Ids
    BY <1>3 DEF Places
  <2>2. QED
    BY <1>3, <1>4, <2>1 DEF Stands, Real, Silent, Aside
<1>8. QED
  BY <1>3, <1>4, <1>5, <1>6, <1>7 DEF Stands

\* A message is put at the end of a queue
LEMMA SentR ==
  ASSUME TypeInv, NEW m \in ToRemote, toR' = Append(toR, m)
  PROVE  /\ Outgoing' = Outgoing \cup {m}
         /\ DOMAIN toR' = 1..(Len(toR) + 1) /\ DOMAIN toR = 1..Len(toR) /\ Len(toR) \in Nat
         /\ \A k \in DOMAIN toR : toR'[k] = toR[k] /\ toR[k] \in Outgoing
         /\ toR'[Len(toR) + 1] = m
<1>1. /\ DOMAIN toR' = 1..(Len(toR) + 1) /\ DOMAIN toR = 1..Len(toR) /\ Len(toR) \in Nat
      /\ \A k \in DOMAIN toR : toR'[k] = toR[k]
      /\ toR'[Len(toR) + 1] = m
  BY Appended, LenProperties DEF TypeInv, QueuesType
<1>2. ASSUME NEW x PROVE x \in Outgoing' <=> x \in Outgoing \cup {m}
  <2>1. ASSUME x \in Outgoing' PROVE x \in Outgoing \cup {m}
    <3>1. PICK k \in DOMAIN toR' : toR'[k] = x
      BY <2>1 DEF Outgoing
    <3>2. k \in DOMAIN toR \/ k = Len(toR) + 1
      BY <1>1, <3>1
    <3>3. QED
      BY <1>1, <3>1, <3>2 DEF Outgoing
  <2>2. ASSUME x \in Outgoing PROVE x \in Outgoing'
    <3>1. PICK k \in DOMAIN toR : toR[k] = x
      BY <2>2 DEF Outgoing
    <3>2. k \in DOMAIN toR' /\ toR'[k] = x
      BY <1>1, <3>1
    <3>3. QED
      BY <3>2 DEF Outgoing
  <2>3. m \in Outgoing'
    <3>1. Len(toR) + 1 \in DOMAIN toR'
      BY <1>1
    <3>2. QED
      BY <1>1, <3>1 DEF Outgoing
  <2>4. QED
    BY <2>1, <2>2, <2>3
<1>3. \A k \in DOMAIN toR : toR[k] \in Outgoing
  BY DEF Outgoing
<1>4. QED
  BY <1>1, <1>2, <1>3

\* The oldest message to the remote core is taken: it was the only one of its id
LEMMA TakenR ==
  ASSUME TypeInv, Messages, toR # << >>, toR' = Tail(toR)
  PROVE  LET h == Head(toR) IN
         /\ h \in Outgoing /\ h \in ToRemote
         /\ \A m \in Outgoing' : m \in Outgoing /\ m.id # h.id
         /\ \A m \in Outgoing : m \in Outgoing' \/ m = h
         /\ \A j, k \in DOMAIN toR' : toR'[j].id = toR'[k].id => j = k
<1> DEFINE h == Head(toR)
<1>1. /\ h = toR[1] /\ h \in ToRemote /\ 1 \in DOMAIN toR /\ DOMAIN toR = 1..Len(toR)
      /\ Len(toR) \in Nat /\ DOMAIN toR' = 1..(Len(toR) - 1)
      /\ \A k \in DOMAIN toR' : k + 1 \in DOMAIN toR /\ toR'[k] = toR[k + 1]
  BY Taken1, LenProperties DEF TypeInv, QueuesType
<1> HIDE DEF h
<1>2. h \in Outgoing
  BY <1>1 DEF Outgoing
<1>3. ASSUME NEW m \in Outgoing' PROVE m \in Outgoing /\ m.id # h.id
  <2>1. PICK k \in DOMAIN toR' : toR'[k] = m
    BY DEF Outgoing
  <2>2. k + 1 \in DOMAIN toR /\ toR[k + 1] = m /\ k + 1 # 1
    BY <1>1, <2>1
  <2>3. QED
    BY <1>1, <2>2 DEF Outgoing, Messages
<1>4. ASSUME NEW m \in Outgoing PROVE m \in Outgoing' \/ m = h
  <2>1. PICK k \in DOMAIN toR : toR[k] = m
    BY DEF Outgoing
  <2>2. k # 1 => k - 1 \in DOMAIN toR' /\ toR'[k - 1] = m
    BY <1>1, <2>1
  <2>3. QED
    BY <1>1, <2>1, <2>2 DEF Outgoing
<1>5. ASSUME NEW j \in DOMAIN toR', NEW k \in DOMAIN toR', toR'[j].id = toR'[k].id PROVE j = k
  <2>1. /\ j + 1 \in DOMAIN toR /\ toR'[j] = toR[j + 1] /\ j \in Nat
        /\ k + 1 \in DOMAIN toR /\ toR'[k] = toR[k + 1] /\ k \in Nat
    BY <1>1
  <2>2. j + 1 = k + 1
    BY <1>5, <2>1 DEF Messages
  <2>3. QED
    BY <2>1, <2>2
<1>6. QED
  BY <1>1, <1>2, <1>3, <1>4, <1>5 DEF h

\* The oldest message to Linux is taken: behind an acknowledgement of the same
\* id there may be the end of the endpoint, and nothing else
LEMMA TakenL ==
  ASSUME TypeInv, Messages, toL # << >>, toL' = Tail(toL)
  PROVE  LET h == Head(toL) IN
         /\ h \in Incoming /\ h \in ToLinux
         /\ \A m \in Incoming' : /\ m \in Incoming
                                 /\ m.id = h.id => h.k = "ack" /\ m.k = "gone"
         /\ \A m \in Incoming : m \in Incoming' \/ m = h
         /\ \A j, k \in DOMAIN toL' : toL'[j].id = toL'[k].id /\ j < k =>
              toL'[j].k = "ack" /\ toL'[k].k = "gone"
<1> DEFINE h == Head(toL)
<1>1. /\ h = toL[1] /\ h \in ToLinux /\ 1 \in DOMAIN toL /\ DOMAIN toL = 1..Len(toL)
      /\ Len(toL) \in Nat /\ DOMAIN toL' = 1..(Len(toL) - 1)
      /\ \A k \in DOMAIN toL' : k + 1 \in DOMAIN toL /\ toL'[k] = toL[k + 1]
  BY Taken1, LenProperties DEF TypeInv, QueuesType
<1> HIDE DEF h
<1>2. h \in Incoming
  BY <1>1 DEF Incoming
<1>3. ASSUME NEW m \in Incoming'
      PROVE  m \in Incoming /\ (m.id = h.id => h.k = "ack" /\ m.k = "gone")
  <2>1. PICK k \in DOMAIN toL' : toL'[k] = m
    BY DEF Incoming
  <2>2. k + 1 \in DOMAIN toL /\ toL[k + 1] = m /\ 1 < k + 1
    BY <1>1, <2>1
  <2>3. QED
    BY <1>1, <2>2 DEF Incoming, Messages
<1>4. ASSUME NEW m \in Incoming PROVE m \in Incoming' \/ m = h
  <2>1. PICK k \in DOMAIN toL : toL[k] = m
    BY DEF Incoming
  <2>2. k # 1 => k - 1 \in DOMAIN toL' /\ toL'[k - 1] = m
    BY <1>1, <2>1
  <2>3. QED
    BY <1>1, <2>1, <2>2 DEF Incoming
<1>5. ASSUME NEW j \in DOMAIN toL', NEW k \in DOMAIN toL', toL'[j].id = toL'[k].id, j < k
      PROVE  toL'[j].k = "ack" /\ toL'[k].k = "gone"
  <2>1. /\ j + 1 \in DOMAIN toL /\ toL'[j] = toL[j + 1]
        /\ k + 1 \in DOMAIN toL /\ toL'[k] = toL[k + 1] /\ j + 1 < k + 1
    BY <1>1, <1>5
  <2>2. QED
    BY <1>5, <2>1 DEF Messages
<1>6. QED
  BY <1>1, <1>2, <1>3, <1>4, <1>5 DEF h

LEMMA LifeSend ==
  ASSUME LifeInv, TypeInv', NEW t \in Threads, Send(t)
  PROVE  LifeInv'
<1> DEFINE n == th[t].node
           i == th[t].id
           m == Request(t)
<1>1. /\ th[t].pc = "send"
      /\ UNCHANGED <<ida, obj, wait, epts, mine, known, closing, calls, dev, toL, hung>>
      /\ \/ toR' = Append(toR, m) /\ Goto(t, IF th[t].op = "create" THEN "mark" ELSE "wait")
         \/ th' = [th EXCEPT ![t].pc = "del", ![t].res = "unsent"] /\ UNCHANGED toR
  BY DEF Send, files, devs
<1>2. TypeInv /\ Places /\ Queued /\ Messages /\ Owners /\ Standings /\ Claimed /\ Taken /\ Orderly
  BY DEF LifeInv
<1>3. /\ Busy(t) /\ Owns(t) /\ n \in Nodes /\ i \in Ids
      /\ \/ th[t].op = "create" /\ Creating(t)
         \/ th[t].op = "release" /\ Releasing(t)
  BY <1>1, <1>2 DEF Busy, Creating, Releasing, Owns, Places, Placed
<1>4. /\ Silent(i)
      /\ th[t].op = "create" => CreationOk(t) /\ i \in ida /\ dev[i] = "none"
      /\ th[t].op = "release" => Real(i) /\ i \in ida
  <2>1. Owned(t)
    BY <1>2 DEF Owners
  <2>2. CASE th[t].op = "create"
    BY <1>1, <1>3, <2>1, <2>2 DEF Owned, CreationOk
  <2>3. CASE th[t].op = "release"
    <3>1. Real(i)
      BY <1>1, <1>3, <2>1, <2>3 DEF Owned, ReleaseOk
    <3>2. i \in ida
      BY <1>2, <1>3, <3>1 DEF Real, Taken
    <3>3. QED
      BY <2>3, <3>1, <3>2 DEF Real
  <2>4. QED
    BY <1>3, <2>2, <2>3
<1>5. \A u \in Threads : u # t /\ Owns(u) => th[u].id # i
  BY <1>2, <1>3 DEF Owners
<1>6. CASE th' = [th EXCEPT ![t].pc = "del", ![t].res = "unsent"] /\ UNCHANGED toR
  <2>1. /\ th'[t].pc = "del" /\ th'[t].res = "unsent" /\ th'[t].op = th[t].op
        /\ th'[t].node = n /\ th'[t].id = i
        /\ \A u \in Threads : u # t => th'[u] = th[u]
    BY <1>2, <1>6 DEF TypeInv, Callers, CallType
  <2>2. Outgoing' = Outgoing /\ Incoming' = Incoming
    BY <1>1, <1>6 DEF Outgoing, Incoming
  <2>3. Owned(t)'
    <3>1. Stamped(t)'
      BY <1>4, <2>1, <2>2 DEF Stamped, Silent
    <3>2. CASE th[t].op = "create"
      <4>1. ~Confirmed(t)'
        BY <2>1 DEF Confirmed
      <4>2. CreationOk(t)'
        BY <1>1, <1>4, <2>1, <2>2, <3>2, <4>1 DEF CreationOk
      <4>3. QED
        BY <2>1, <3>1, <3>2, <4>2 DEF Owned
    <3>3. CASE th[t].op = "release"
      <4>1. ReleaseOk(t)'
        BY <1>1, <1>4, <2>1, <2>2, <3>3 DEF ReleaseOk, Real, Silent
      <4>2. QED
        BY <2>1, <3>1, <3>3, <4>1 DEF Owned
    <3>4. QED
      BY <1>3, <3>2, <3>3
  <2>4. Queued'
    <3>1. \A u \in Threads : u # t => (Owns(u)' => Owns(u))
      BY <1>1, <2>1 DEF Owns, Creating, Releasing, Busy
    <3>2. \A u \in Threads : Waiting(u)' <=> Waiting(u)
      BY <1>1, <2>1 DEF Waiting
    <3>3. QED
      BY <1>1, <1>2, <1>3, <2>1, <3>1, <3>2, QueuedKept
  <2>5. QED
    BY <1>1, <1>3, <1>6, <2>1, <2>3, <2>4, LifeGoesOn
<1>7. CASE toR' = Append(toR, m) /\ Goto(t, IF th[t].op = "create" THEN "mark" ELSE "wait")
  <2>1. /\ th'[t].pc = (IF th[t].op = "create" THEN "mark" ELSE "wait")
        /\ th'[t].op = th[t].op /\ th'[t].node = n /\ th'[t].id = i
        /\ \A u \in Threads : u # t => th'[u] = th[u]
    BY <1>2, <1>7, Moved
  <2>2. /\ m.id = i /\ m.cmd = th[t].op /\ m.by = t /\ m.seq = calls[t] /\ m \in ToRemote
    BY <1>2, <1>3 DEF Request, ToRemote, TypeInv, Callers, CallType
  <2>3. /\ Outgoing' = Outgoing \cup {m}
        /\ DOMAIN toR' = 1..(Len(toR) + 1) /\ DOMAIN toR = 1..Len(toR) /\ Len(toR) \in Nat
        /\ \A k \in DOMAIN toR : toR'[k] = toR[k] /\ toR[k] \in Outgoing
        /\ toR'[Len(toR) + 1] = m
    BY <1>2, <1>7, <2>2, SentR
  <2>4. Incoming' = Incoming
    BY <1>1 DEF Incoming
  <2> HIDE DEF m
  <2>5. Places' /\ Claimed'
    BY <1>1, <1>2, <1>3, <2>1, GoesOn
  <2>6. Messages' /\ Taken'
    <3>1. \A x \in Outgoing' :
            /\ x.id \in ida'
            /\ \/ x.cmd = "create" /\ dev'[x.id] = "none"
               \/ x.cmd \in {"bound", "release"} /\ dev'[x.id] = "bound"
      BY <1>1, <1>2, <1>3, <1>4, <2>2, <2>3 DEF Messages, Real
    <3>2. \A j, k \in DOMAIN toR' : toR'[j].id = toR'[k].id => j = k
      <4>1. \A k \in DOMAIN toR : toR'[k].id # i
        BY <1>4, <2>3 DEF Silent
      <4>2. \A k \in DOMAIN toR' : k \in DOMAIN toR \/ k = Len(toR) + 1
        BY <2>3
      <4>3. \A j, k \in DOMAIN toR : toR'[j].id = toR'[k].id => j = k
        BY <1>2, <2>3 DEF Messages
      <4>4. QED
        BY <2>2, <2>3, <4>1, <4>2, <4>3
    <3>3. \A x \in Outgoing', p \in Incoming' : x.id # p.id
      BY <1>2, <1>4, <2>2, <2>3, <2>4 DEF Messages, Silent
    <3>4. QED
      BY <1>1, <1>2, <2>4, <3>1, <3>2, <3>3 DEF Messages, Taken
  <2>7. Aside(i)
    BY <2>2, <2>3, <2>4 DEF Aside
  <2>8. Owned(t)'
    <3>1. Stamped(t)'
      BY <1>1, <1>4, <2>1, <2>2, <2>3, <2>4 DEF Stamped, Silent
    <3>2. CASE th[t].op = "create"
      <4>1. CreationOk(t) /\ obj[n].status # "ok" /\ obj[n].done = 0
        BY <1>1, <1>4, <3>2 DEF CreationOk
      <4>2. ~Confirmed(t)'
        BY <1>1, <2>1, <3>2, <4>1 DEF Confirmed
      <4>3. CreationOk(t)'
        BY <1>1, <2>1, <2>2, <2>3, <2>4, <3>2, <4>1, <4>2 DEF CreationOk
      <4>4. QED
        BY <2>1, <3>1, <3>2, <4>3 DEF Owned
    <3>3. CASE th[t].op = "release"
      <4>1. ReleaseOk(t)'
        BY <2>1, <2>2, <2>3, <3>3 DEF ReleaseOk
      <4>2. QED
        BY <2>1, <3>1, <3>3, <4>1 DEF Owned
    <3>4. QED
      BY <1>3, <3>2, <3>3
  <2>9. \A u \in Threads : u # t => (Owns(u)' <=> Owns(u)) /\ (Releasing(u)' <=> Releasing(u))
    BY <1>1, <2>1 DEF Owns, Creating, Releasing, Busy
  <2>10. Owners'
    <3>1. \A u \in Threads : Owns(u)' =>
            /\ Owns(u) /\ th'[u].id = th[u].id
            /\ IF th[u].id = i THEN Owned(u)'
               ELSE /\ th'[u] = th[u] /\ calls'[u] = calls[u]
                    /\ obj'[th[u].node] = obj[th[u].node]
      BY <1>1, <1>3, <1>5, <2>1, <2>8, <2>9
    <3>2. QED
      BY <1>1, <1>2, <2>7, <3>1, OwnersAside
  <2>11. Standings'
    <3>1. \A u \in Threads : /\ Owns(u)' => /\ Owns(u) /\ th'[u].id = th[u].id
                                            /\ th'[u].node = th[u].node
                             /\ Releasing(u)' <=> Releasing(u)
                             /\ Releasing(u) => th'[u].node = th[u].node
      BY <1>1, <1>3, <2>1, <2>9 DEF Releasing, Busy
    <3>2. \A q \in Nodes : Standing(q) /\ Unheld(q) => obj[q].id # i
      BY <1>1, <1>2, <1>3, OwnerElsewhere
    <3>3. QED
      BY <1>1, <1>2, <2>7, <3>1, <3>2, StandingsAside DEF TypeInv
  <2>12. Queued'
    <3>1. \A u \in Threads : Waiting(u)' <=> Waiting(u)
      BY <1>1, <2>1 DEF Waiting
    <3>2. QED
      BY <1>1, <1>2, <1>3, <2>1, <2>9, <3>1, QueuedKept
  <2>13. QED
    BY <1>1, <1>2, <2>5, <2>6, <2>10, <2>11, <2>12 DEF LifeInv, Orderly
<1>8. QED
  BY <1>1, <1>6, <1>7

\* What the remote core does with the oldest request: it answers under the same
\* id, and a request for a release always with an acknowledgement
LEMMA RemoteAnswers ==
  ASSUME TypeInv, Messages, Orderly, RemoteStep
  PROVE  LET h == Head(toR) IN
         /\ toR # << >> /\ toR' = Tail(toR) /\ h \in Outgoing
         /\ \A m \in Incoming : m \in Incoming'
         /\ \A m \in Incoming' :
              \/ m \in Incoming
              \/ /\ m.id = h.id /\ m.by = h.by /\ m.seq = h.seq
                 /\ \/ h.cmd = "create" /\ (m.k = "new" \/ (m.k = "ack" /\ ~m.ok))
                    \/ h.cmd = "bound" /\ m.k = "ack"
                    \/ h.cmd = "release" /\ m.k \in {"ack", "gone"}
         /\ h.cmd = "release" => \E m \in Incoming' : m.id = h.id /\ m.k = "ack"
         /\ \A j, k \in DOMAIN toL' : toL'[j].id = toL'[k].id /\ j < k =>
              toL'[j].k = "ack" /\ toL'[k].k = "gone"
<1> DEFINE h == Head(toR)
<1>1. /\ toR # << >> /\ h = toR[1] /\ h \in ToRemote
      /\ \A k \in DOMAIN toL : k \in DOMAIN toL' /\ toL'[k] = toL[k]
      /\ \/ /\ DOMAIN toL' = 1..(Len(toL) + 1)
            /\ \/ /\ h.cmd = "create"
                  /\ \/ toL'[Len(toL) + 1] = Event("new", h, h.id)
                     \/ toL'[Len(toL) + 1] = Answer(h, FALSE)
               \/ h.cmd = "bound" /\ toL'[Len(toL) + 1] = Answer(h, TRUE)
               \/ h.cmd = "release" /\ toL'[Len(toL) + 1] = Answer(h, FALSE)
               \/ h.cmd \in {"clear", "reset"}
         \/ h.cmd = "bound" /\ UNCHANGED toL
         \/ /\ h.cmd = "release" /\ DOMAIN toL' = 1..(Len(toL) + 2)
            /\ toL'[Len(toL) + 1] = Answer(h, TRUE)
            /\ toL'[Len(toL) + 2] = Event("gone", h, h.id)
  <2>1. ~GoneFirst
    BY DEF Orderly
  <2>2. QED
    BY <2>1, RemoteQueues
<1>2. h \in Outgoing /\ h.cmd \in {"create", "bound", "release"}
  <2>1. 1 \in DOMAIN toR
    BY <1>1, EmptySeq, LenProperties DEF TypeInv, QueuesType
  <2>2. h \in Outgoing
    BY <1>1, <2>1 DEF Outgoing
  <2>3. QED
    BY <2>2 DEF Messages
<1>3. toR' = Tail(toR)
  BY <1>2 DEF RemoteStep, RemoteCreate, RemoteBound, RemoteRelease, RemoteReset, Asked
<1>4. /\ DOMAIN toL = 1..Len(toL) /\ Len(toL) \in Nat
      /\ \A k \in DOMAIN toL : toL[k] \in Incoming /\ toL[k].id # h.id
  BY <1>2, LenProperties DEF TypeInv, QueuesType, Incoming, Messages
<1> DEFINE a == Answer(h, TRUE)
           f == Answer(h, FALSE)
           e == Event("new", h, h.id)
           g == Event("gone", h, h.id)
<1>5. /\ a.id = h.id /\ a.by = h.by /\ a.seq = h.seq /\ a.k = "ack"
      /\ f.id = h.id /\ f.by = h.by /\ f.seq = h.seq /\ f.k = "ack" /\ ~f.ok
      /\ e.id = h.id /\ e.by = h.by /\ e.seq = h.seq /\ e.k = "new"
      /\ g.id = h.id /\ g.by = h.by /\ g.seq = h.seq /\ g.k = "gone"
  BY DEF Answer, Event
<1> DEFINE l == Len(toL)
           One(x) == DOMAIN toL' = 1..(l + 1) /\ toL'[l + 1] = x
<1>12. \/ h.cmd = "create" /\ (One(e) \/ One(f))
       \/ h.cmd = "bound" /\ One(a)
       \/ h.cmd = "bound" /\ DOMAIN toL' = 1..l
       \/ h.cmd = "release" /\ One(f)
       \/ h.cmd = "release" /\ DOMAIN toL' = 1..(l + 2) /\ toL'[l + 1] = a /\ toL'[l + 2] = g
  BY <1>1, <1>2, <1>4
<1>13. l \in Nat /\ DOMAIN toL = 1..l
  BY <1>4
<1> HIDE DEF h, a, f, e, g, l
<1>6. ASSUME NEW m \in Incoming PROVE m \in Incoming'
  <2>1. PICK k \in DOMAIN toL : toL[k] = m
    BY DEF Incoming
  <2>2. k \in DOMAIN toL' /\ toL'[k] = m
    BY <1>1, <2>1
  <2>3. QED
    BY <2>2 DEF Incoming
<1>7. ASSUME NEW k \in DOMAIN toL', k \notin DOMAIN toL
      PROVE  /\ k \in Nat
             /\ \/ h.cmd = "create" /\ k = l + 1 /\ (toL'[k] = e \/ toL'[k] = f)
                \/ h.cmd = "bound" /\ k = l + 1 /\ toL'[k] = a
                \/ h.cmd = "release" /\ k = l + 1 /\ toL'[k] \in {a, f}
                \/ h.cmd = "release" /\ k = l + 2 /\ toL'[k] = g /\ toL'[l + 1] = a
  <2>1. CASE DOMAIN toL' = 1..(l + 1)
    <3>1. k = l + 1 /\ k \in Nat
      BY <1>7, <1>13, <2>1
    <3>2. l + 1 # l + 2
      BY <1>13
    <3>3. DOMAIN toL' # 1..(l + 2) /\ DOMAIN toL' # 1..l
      <4>1. l + 2 \in 1..(l + 2) /\ l + 2 \notin 1..(l + 1) /\ l + 1 \notin 1..l /\ l + 1 \in 1..(l + 1)
        BY <1>13
      <4>2. QED
        BY <2>1, <4>1
    <3>4. QED
      BY <1>12, <3>1, <3>3
  <2>2. CASE DOMAIN toL' = 1..l
    BY <1>7, <1>13, <2>2
  <2>3. CASE h.cmd = "release" /\ DOMAIN toL' = 1..(l + 2) /\ toL'[l + 1] = a /\ toL'[l + 2] = g
    <3>1. (k = l + 1 \/ k = l + 2) /\ k \in Nat
      BY <1>7, <1>13, <2>3
    <3>2. QED
      BY <2>3, <3>1
  <2>4. QED
    BY <1>12, <2>1, <2>2, <2>3
<1>8. ASSUME NEW m \in Incoming'
      PROVE  \/ m \in Incoming
             \/ /\ m.id = h.id /\ m.by = h.by /\ m.seq = h.seq
                /\ \/ h.cmd = "create" /\ (m.k = "new" \/ (m.k = "ack" /\ ~m.ok))
                   \/ h.cmd = "bound" /\ m.k = "ack"
                   \/ h.cmd = "release" /\ m.k \in {"ack", "gone"}
  <2>1. PICK k \in DOMAIN toL' : toL'[k] = m
    BY DEF Incoming
  <2>2. CASE k \in DOMAIN toL
    BY <1>1, <1>4, <2>1, <2>2
  <2>3. CASE k \notin DOMAIN toL
    BY <1>5, <1>7, <2>1, <2>3
  <2>4. QED
    BY <2>2, <2>3
<1>9. ASSUME h.cmd = "release" PROVE \E m \in Incoming' : m.id = h.id /\ m.k = "ack"
  <2>1. l + 1 \in DOMAIN toL' /\ toL'[l + 1] \in {a, f}
    <3>1. l + 1 \in 1..(l + 1) /\ l + 1 \in 1..(l + 2)
      BY <1>13
    <3>2. QED
      BY <1>9, <1>12, <3>1
  <2>2. toL'[l + 1] \in Incoming'
    BY <2>1 DEF Incoming
  <2>3. QED
    BY <1>5, <2>1, <2>2
<1>10. ASSUME NEW j \in DOMAIN toL', NEW k \in DOMAIN toL', toL'[j].id = toL'[k].id, j < k
       PROVE  toL'[j].k = "ack" /\ toL'[k].k = "gone"
  <2>1. CASE k \in DOMAIN toL
    <3>1. j \in DOMAIN toL
      <4>1. SUFFICES ASSUME j \notin DOMAIN toL PROVE FALSE
        OBVIOUS
      <4>2. j \in Nat /\ (j = l + 1 \/ j = l + 2)
        BY <1>7, <4>1
      <4>3. QED
        BY <1>10, <1>13, <2>1, <4>2
    <3>2. toL'[j] = toL[j] /\ toL'[k] = toL[k]
      BY <1>1, <2>1, <3>1
    <3>3. QED
      BY <1>10, <2>1, <3>1, <3>2 DEF Messages
  <2>2. CASE k \notin DOMAIN toL
    <3>1. toL'[k].id = h.id
      BY <1>5, <1>7, <2>2
    <3>2. j \notin DOMAIN toL
      BY <1>1, <1>4, <1>10, <3>1
    <3>3. k = l + 2 /\ j = l + 1
      BY <1>7, <1>10, <1>13, <2>2, <3>2
    <3>4. toL'[k] = g /\ toL'[j] = a
      BY <1>7, <1>13, <2>2, <3>3
    <3>5. QED
      BY <1>5, <3>4
  <2>3. QED
    BY <2>1, <2>2
<1>11. QED
  BY <1>1, <1>2, <1>3, <1>6, <1>8, <1>9, <1>10 DEF h

\* A step about id i that leaves callers, objects and entries alone
LEMMA LifeAside ==
  ASSUME LifeInv, TypeInv', NEW i, Aside(i), ~Real(i),
         \A j \in ida : j # i => j \in ida', \A j \in Ids : j # i => dev'[j] = dev[j],
         \A u \in Threads : Owns(u) /\ th[u].id = i => Owned(u)',
         Messages', Taken',
         UNCHANGED <<th, obj, wait, epts, mine, known, closing, calls, hung>>
  PROVE  LifeInv'
<1>1. Places /\ Queued /\ Owners /\ Standings /\ Claimed /\ Orderly /\ epts \in Seq(Nodes)
  BY DEF LifeInv, TypeInv
<1>2. Places'
  BY <1>1 DEF Places, Placed, Busy, Entered
<1>3. \A u \in Threads : /\ Owns(u)' <=> Owns(u)
                         /\ Releasing(u)' <=> Releasing(u)
                         /\ Waiting(u)' <=> Waiting(u)
  BY DEF Owns, Creating, Releasing, Busy, Waiting
<1>4. Queued'
  BY <1>1, <1>3, QueuedKept
<1>5. Owners'
  BY <1>1, <1>3, OwnersAside
<1>6. Standings'
  <2>1. \A n \in Nodes : Standing(n) /\ Unheld(n) => obj[n].id # i
    BY <1>1 DEF Standings, Stands
  <2>2. QED
    BY <1>1, <1>3, <2>1, StandingsAside
<1>7. Claimed'
  BY <1>1 DEF Claimed, Claims, FreeEntry, Entered, Busy, Releasing
<1>8. QED
  BY <1>1, <1>2, <1>4, <1>5, <1>6, <1>7 DEF LifeInv, Orderly

LEMMA LifeRemote ==
  ASSUME LifeInv, TypeInv', RemoteStep
  PROVE  LifeInv'
<1> DEFINE h == Head(toR)
           i == h.id
<1>1. UNCHANGED <<ida, obj, wait, epts, th, mine, known, closing, calls, dev, hung>>
  BY DEF RemoteStep, RemoteCreate, RemoteBound, RemoteRelease, RemoteReset, RemoteOnly, files, devs
<1>2. TypeInv /\ Places /\ Messages /\ Owners /\ Taken /\ Orderly
  BY DEF LifeInv
<1>3. /\ toR # << >> /\ toR' = Tail(toR) /\ h \in Outgoing
      /\ \A m \in Incoming : m \in Incoming'
      /\ \A m \in Incoming' :
           \/ m \in Incoming
           \/ /\ m.id = i /\ m.by = h.by /\ m.seq = h.seq
              /\ \/ h.cmd = "create" /\ (m.k = "new" \/ (m.k = "ack" /\ ~m.ok))
                 \/ h.cmd = "bound" /\ m.k = "ack"
                 \/ h.cmd = "release" /\ m.k \in {"ack", "gone"}
      /\ h.cmd = "release" => \E m \in Incoming' : m.id = i /\ m.k = "ack"
      /\ \A j, k \in DOMAIN toL' : toL'[j].id = toL'[k].id /\ j < k =>
           toL'[j].k = "ack" /\ toL'[k].k = "gone"
  BY <1>2, RemoteAnswers
<1>4. /\ \A m \in Outgoing' : m \in Outgoing /\ m.id # i
      /\ \A m \in Outgoing : m \in Outgoing' \/ m = h
      /\ \A j, k \in DOMAIN toR' : toR'[j].id = toR'[k].id => j = k
  BY <1>2, <1>3, TakenR
<1> HIDE DEF h
<1>5. /\ i \in ida
      /\ \/ h.cmd = "create" /\ dev[i] = "none"
         \/ h.cmd \in {"bound", "release"} /\ dev[i] = "bound"
      /\ \A m \in Incoming : m.id # i
      /\ ~Silent(i)
  BY <1>2, <1>3 DEF Messages, Silent
<1>6. Aside(i)
  BY <1>3, <1>4 DEF Aside
<1>7. Messages' /\ Taken'
  <2>1. \A m \in Incoming' :
          /\ m.id \in ida
          /\ m.k = "new" => dev[m.id] = "none"
          /\ m.k = "gone" => dev[m.id] = "bound"
          /\ m.k = "ack" => dev[m.id] # "removed" /\ (m.ok => dev[m.id] = "bound")
    <3>1. SUFFICES ASSUME NEW m \in Incoming', m \notin Incoming
                   PROVE  /\ m.id \in ida
                          /\ m.k = "new" => dev[m.id] = "none"
                          /\ m.k = "gone" => dev[m.id] = "bound"
                          /\ m.k = "ack" => dev[m.id] # "removed" /\ (m.ok => dev[m.id] = "bound")
      BY <1>2 DEF Messages
    <3>2. QED
      BY <1>3, <1>5, <3>1
  <2>2. \A m \in Outgoing', p \in Incoming' : m.id # p.id
    BY <1>2, <1>3, <1>4 DEF Messages
  <2>3. QED
    BY <1>1, <1>2, <1>3, <1>4, <2>1, <2>2 DEF Messages, Taken
<1>8. ASSUME NEW u \in Threads, Owns(u), th[u].id = i PROVE Owned(u)'
  <2>1. Stamped(u) /\ (th[u].op = "create" => CreationOk(u)) /\ (th[u].op = "release" => ReleaseOk(u))
    BY <1>2, <1>8 DEF Owners, Owned
  <2>2. Stamped(u)'
    BY <1>1, <1>3, <1>4, <1>8, <2>1 DEF Stamped
  <2>3. ASSUME th[u].op = "create" PROVE CreationOk(u)'
    <3>1. /\ CreationOk(u) /\ th[u].pc # "send" /\ ~Confirmed(u) /\ h.cmd # "release"
          /\ ~(th[u].pc \in {"mark", "wait"} /\ obj[th[u].node].done > 0)
      BY <1>3, <1>5, <1>8, <2>1, <2>3 DEF CreationOk, Real
    <3>2. th'[u].pc # "send" /\ ~Confirmed(u)'
      BY <1>1, <3>1 DEF Confirmed
    <3>3. QED
      BY <1>1, <1>3, <1>4, <1>8, <3>1, <3>2 DEF CreationOk
  <2>4. ASSUME th[u].op = "release" PROVE ReleaseOk(u)'
    <3>1. th[u].pc = "wait"
      BY <1>5, <1>8, <2>1, <2>4 DEF ReleaseOk, Real
    <3>2. PICK m \in Outgoing : m.id = i /\ m.cmd = "release"
      BY <1>5, <1>8, <2>1, <2>4, <3>1 DEF ReleaseOk
    <3>3. h.cmd = "release"
      BY <1>4, <3>2
    <3>4. QED
      BY <1>1, <1>3, <1>8, <3>1, <3>3 DEF ReleaseOk
  <2>5. QED
    BY <1>1, <2>2, <2>3, <2>4 DEF Owned
<1>9. QED
  BY <1>1, <1>5, <1>6, <1>7, <1>8, LifeAside DEF Real

LEMMA LifeNewCb ==
  ASSUME LifeInv, TypeInv', NewCb
  PROVE  LifeInv'
<1> DEFINE h == Head(toL)
           i == h.id
           b == [cmd |-> "bound", id |-> i, grp |-> None, by |-> h.by, seq |-> h.seq]
<1>1. /\ toL # << >> /\ toL' = Tail(toL) /\ h.k = "new" /\ dev[i] = "none"
      /\ dev' = [dev EXCEPT ![i] = "bound"] /\ toR' = Append(toR, b)
      /\ UNCHANGED <<ida, obj, wait, epts, th, mine, known, closing, calls, hung>>
  BY DEF NewCb, Take, files
<1>2. TypeInv /\ Places /\ Messages /\ Owners /\ Taken
  BY DEF LifeInv
<1>3. /\ h \in Incoming /\ h \in ToLinux
      /\ \A m \in Incoming' : m \in Incoming /\ m.id # i
      /\ \A m \in Incoming : m \in Incoming' \/ m = h
      /\ \A j, k \in DOMAIN toL' : toL'[j].id = toL'[k].id /\ j < k =>
           toL'[j].k = "ack" /\ toL'[k].k = "gone"
  BY <1>1, <1>2, TakenL
<1>4. b \in ToRemote
  BY <1>3 DEF ToRemote, ToLinux
<1>5. /\ Outgoing' = Outgoing \cup {b}
      /\ DOMAIN toR' = 1..(Len(toR) + 1) /\ DOMAIN toR = 1..Len(toR) /\ Len(toR) \in Nat
      /\ \A k \in DOMAIN toR : toR'[k] = toR[k] /\ toR[k] \in Outgoing
      /\ toR'[Len(toR) + 1] = b
  BY <1>1, <1>2, <1>4, SentR
<1>6. b.id = i /\ b.cmd = "bound" /\ b.by = h.by /\ b.seq = h.seq
  OBVIOUS
<1> HIDE DEF h, b
<1>7. /\ i \in ida /\ \A m \in Outgoing : m.id # i
      /\ ~Silent(i) /\ dev'[i] = "bound" /\ \A j \in Ids : j # i => dev'[j] = dev[j]
  <2>1. i \in ida /\ \A m \in Outgoing : m.id # i
    BY <1>2, <1>3 DEF Messages
  <2>2. dev \in [Ids -> {"none", "bound", "removed"}] /\ ida \subseteq Ids
    BY <1>2 DEF TypeInv, DevicesType
  <2>3. DOMAIN dev' = DOMAIN dev /\ dev'[i] = "bound" /\ \A j \in Ids : j # i => dev'[j] = dev[j]
    BY <1>1, <2>1, <2>2
  <2>4. QED
    BY <1>3, <2>1, <2>3 DEF Silent
<1>8. Aside(i)
  BY <1>3, <1>5, <1>6 DEF Aside
<1>9. Messages' /\ Taken'
  <2>1. \A m \in Outgoing' :
          /\ m.id \in ida'
          /\ \/ m.cmd = "create" /\ dev'[m.id] = "none"
             \/ m.cmd \in {"bound", "release"} /\ dev'[m.id] = "bound"
    BY <1>1, <1>2, <1>5, <1>6, <1>7 DEF Messages
  <2>2. \A m \in Incoming' :
          /\ m.id \in ida'
          /\ m.k = "new" => dev'[m.id] = "none"
          /\ m.k = "gone" => dev'[m.id] = "bound"
          /\ m.k = "ack" => dev'[m.id] # "removed" /\ (m.ok => dev'[m.id] = "bound")
    BY <1>1, <1>2, <1>3, <1>7 DEF Messages
  <2>3. \A j, k \in DOMAIN toR' : toR'[j].id = toR'[k].id => j = k
    <3>1. \A k \in DOMAIN toR : toR'[k].id # i
      BY <1>5, <1>7
    <3>2. \A k \in DOMAIN toR' : k \in DOMAIN toR \/ k = Len(toR) + 1
      BY <1>5
    <3>3. \A j, k \in DOMAIN toR : toR'[j].id = toR'[k].id => j = k
      BY <1>2, <1>5 DEF Messages
    <3>4. QED
      BY <1>5, <1>6, <3>1, <3>2, <3>3
  <2>4. \A m \in Outgoing', p \in Incoming' : m.id # p.id
    BY <1>2, <1>3, <1>5, <1>6 DEF Messages
  <2>5. Taken'
    BY <1>1, <1>2, <1>7 DEF Taken
  <2>6. QED
    BY <1>3, <2>1, <2>2, <2>3, <2>4, <2>5 DEF Messages
<1>10. ASSUME NEW u \in Threads, Owns(u), th[u].id = i PROVE Owned(u)'
  <2>1. Stamped(u) /\ (th[u].op = "create" => CreationOk(u)) /\ (th[u].op = "release" => ReleaseOk(u))
    BY <1>2, <1>10 DEF Owners, Owned
  <2>2. Stamped(u)'
    BY <1>1, <1>3, <1>5, <1>6, <1>10, <2>1 DEF Stamped
  <2>3. ASSUME th[u].op = "create" PROVE CreationOk(u)'
    <3>1. /\ CreationOk(u) /\ th[u].pc # "send" /\ ~Confirmed(u)
          /\ ~(th[u].pc \in {"mark", "wait"} /\ obj[th[u].node].done > 0)
      BY <1>7, <1>10, <2>1, <2>3 DEF CreationOk, Real
    <3>2. th'[u].pc # "send" /\ ~Confirmed(u)'
      BY <1>1, <3>1 DEF Confirmed
    <3>3. QED
      BY <1>1, <1>3, <1>5, <1>6, <1>7, <1>10, <3>1, <3>2 DEF CreationOk
  <2>4. ASSUME th[u].op = "release" PROVE FALSE
    <3>1. th[u].pc = "wait"
      BY <1>7, <1>10, <2>1, <2>4 DEF ReleaseOk, Real
    <3>2. PICK m \in Incoming : m.id = i /\ m.k = "ack"
      BY <1>7, <1>10, <2>1, <2>4, <3>1 DEF ReleaseOk
    <3>3. QED
      BY <1>1, <1>3, <3>2
  <2>5. QED
    BY <1>1, <2>2, <2>3, <2>4 DEF Owned
<1>11. QED
  BY <1>1, <1>7, <1>8, <1>9, <1>10, LifeAside DEF Real

\* The end of endpoint i, or of the last file that held its device: nothing is
\* under way about i and no request owns it
LEMMA LifeEnds ==
  ASSUME LifeInv, TypeInv', NEW i \in Ids, Aside(i), dev[i] # "none", ~Real(i),
         \A u \in Threads : Owns(u) => th[u].id # i,
         \A m \in Outgoing' : m \in Outgoing /\ m.id # i,
         \A m \in Incoming' : m \in Incoming /\ m.id # i,
         \A j, k \in DOMAIN toR' : toR'[j].id = toR'[k].id => j = k,
         \A j, k \in DOMAIN toL' : toL'[j].id = toL'[k].id /\ j < k =>
           toL'[j].k = "ack" /\ toL'[k].k = "gone",
         \/ LastPut(i)
         \/ dev' = [dev EXCEPT ![i] = "removed"] /\ ida' = ida,
         UNCHANGED <<th, obj, wait, epts, mine, known, closing, calls, hung>>
  PROVE  LifeInv'
<1>1. Messages /\ Taken /\ dev \in [Ids -> {"none", "bound", "removed"}] /\ ida \subseteq Ids
  BY DEF LifeInv, TypeInv, DevicesType
<1>2. /\ \A j \in Ids : j # i => dev'[j] = dev[j]
      /\ \A j \in ida : j # i => j \in ida'
      /\ ida' \subseteq ida /\ (dev'[i] # "none" => i \in ida')
  BY <1>1 DEF LastPut, Taken
<1>3. Taken'
  BY <1>1, <1>2 DEF Taken
<1>4. Messages'
  <2>1. \A m \in Outgoing' :
          /\ m.id \in ida'
          /\ \/ m.cmd = "create" /\ dev'[m.id] = "none"
             \/ m.cmd \in {"bound", "release"} /\ dev'[m.id] = "bound"
    BY <1>1, <1>2 DEF Messages
  <2>2. \A m \in Incoming' :
          /\ m.id \in ida'
          /\ m.k = "new" => dev'[m.id] = "none"
          /\ m.k = "gone" => dev'[m.id] = "bound"
          /\ m.k = "ack" => dev'[m.id] # "removed" /\ (m.ok => dev'[m.id] = "bound")
    <3>1. SUFFICES ASSUME NEW m \in Incoming'
                   PROVE  /\ m.id \in ida'
                          /\ m.k = "new" => dev'[m.id] = "none"
                          /\ m.k = "gone" => dev'[m.id] = "bound"
                          /\ m.k = "ack" => dev'[m.id] # "removed" /\ (m.ok => dev'[m.id] = "bound")
      OBVIOUS
    <3>2. m \in Incoming /\ m.id # i
      BY <3>1
    <3>3. m.id \in ida /\ m.id \in ida' /\ dev'[m.id] = dev[m.id]
      BY <1>1, <1>2, <3>2 DEF Messages
    <3>4. /\ m.k = "new" => dev[m.id] = "none"
          /\ m.k = "gone" => dev[m.id] = "bound"
          /\ m.k = "ack" => dev[m.id] # "removed" /\ (m.ok => dev[m.id] = "bound")
      BY <1>1, <3>2 DEF Messages
    <3>5. QED
      BY <3>3, <3>4
  <2>3. \A m \in Outgoing', p \in Incoming' : m.id # p.id
    BY <1>1 DEF Messages
  <2>4. QED
    BY <2>1, <2>2, <2>3 DEF Messages
<1>5. QED
  BY <1>2, <1>3, <1>4, LifeAside

LEMMA LifeGoneCb ==
  ASSUME LifeInv, TypeInv', GoneCb
  PROVE  LifeInv'
<1> DEFINE h == Head(toL)
           i == h.id
<1>1. /\ toL # << >> /\ toL' = Tail(toL) /\ h.k = "gone" /\ dev[i] = "bound"
      /\ LastPut(i) \/ (dev' = [dev EXCEPT ![i] = "removed"] /\ ida' = ida)
      /\ UNCHANGED <<obj, wait, epts, th, mine, known, closing, calls, toR, hung>>
  BY DEF GoneCb, Take, files
<1>2. TypeInv /\ Places /\ Messages /\ Owners
  BY DEF LifeInv
<1>3. /\ h \in Incoming /\ h \in ToLinux
      /\ \A m \in Incoming' : m \in Incoming /\ m.id # i
      /\ \A m \in Incoming : m \in Incoming' \/ m = h
      /\ \A j, k \in DOMAIN toL' : toL'[j].id = toL'[k].id /\ j < k =>
           toL'[j].k = "ack" /\ toL'[k].k = "gone"
  BY <1>1, <1>2, TakenL
<1> HIDE DEF h
<1>4. Outgoing' = Outgoing
  BY <1>1 DEF Outgoing
<1>5. i \in Ids /\ ~Silent(i) /\ \A m \in Outgoing : m.id # i
  BY <1>2, <1>3 DEF Messages, Silent, TypeInv
<1>6. ASSUME NEW u \in Threads, Owns(u), th[u].id = i PROVE FALSE
  <2>1. Owned(u) /\ (th[u].op = "create" \/ th[u].op = "release")
    BY <1>2, <1>6 DEF Owners, Owns, Creating, Releasing
  <2>2. th[u].op = "release" /\ ReleaseOk(u)
    BY <1>1, <1>3, <1>6, <2>1 DEF Owned, CreationOk
  <2>3. th[u].pc = "wait"
    BY <1>5, <1>6, <2>2 DEF ReleaseOk, Real
  <2>4. PICK m \in Incoming : m.id = i /\ m.k = "ack"
    BY <1>5, <1>6, <2>2, <2>3 DEF ReleaseOk
  <2>5. QED
    BY <1>1, <1>3, <2>4
<1>7. \A j, k \in DOMAIN toR' : toR'[j].id = toR'[k].id => j = k
  BY <1>1, <1>2 DEF Messages
<1>8. Aside(i)
  BY <1>3, <1>4 DEF Aside
<1>9. QED
  BY <1>1, <1>3, <1>4, <1>5, <1>6, <1>7, <1>8, LifeEnds DEF Real

LEMMA LifeDevices ==
  ASSUME LifeInv, TypeInv', NEW i \in Ids, OpenDev(i) \/ CloseDev(i)
  PROVE  LifeInv'
<1>1. UNCHANGED <<obj, wait, epts, th, mine, known, closing, calls, toR, toL, hung>>
  BY DEF OpenDev, CloseDev, files
<1>2. TypeInv /\ Places /\ Messages /\ Owners /\ Taken
  BY DEF LifeInv
<1>3. Outgoing' = Outgoing /\ Incoming' = Incoming
  BY <1>1 DEF Outgoing, Incoming
<1>4. Aside(0)
  BY <1>3 DEF Aside
<1>5. CASE dev[i] = "removed" /\ LastPut(i)
  <2>1. (\A m \in Outgoing : m.id # i) /\ (\A m \in Incoming : m.id # i)
    <3>1. \A m \in Outgoing : dev[m.id] # "removed"
      BY <1>2 DEF Messages
    <3>2. \A m \in Incoming : m.k = "new" \/ m.k = "gone" \/ m.k = "ack"
      BY <1>2, MessageTypes DEF ToLinux
    <3>3. \A m \in Incoming : dev[m.id] # "removed"
      BY <1>2, <3>2 DEF Messages
    <3>4. QED
      BY <1>5, <3>1, <3>3
  <2>2. ASSUME NEW u \in Threads, Owns(u), th[u].id = i PROVE FALSE
    <3>1. Owned(u) /\ (th[u].op = "create" \/ th[u].op = "release")
      BY <1>2, <2>2 DEF Owners, Owns, Creating, Releasing
    <3>2. QED
      BY <1>5, <2>1, <2>2, <3>1 DEF Owned, CreationOk, ReleaseOk, Real
  <2>3. /\ \A j, k \in DOMAIN toR' : toR'[j].id = toR'[k].id => j = k
        /\ \A j, k \in DOMAIN toL' : toL'[j].id = toL'[k].id /\ j < k =>
             toL'[j].k = "ack" /\ toL'[k].k = "gone"
    BY <1>1, <1>2 DEF Messages
  <2>4. Aside(i)
    BY <1>3 DEF Aside
  <2>5. QED
    BY <1>1, <1>3, <1>5, <2>1, <2>2, <2>3, <2>4, LifeEnds DEF Real
<1>6. CASE UNCHANGED <<ida, dev>>
  <2>1. Messages' /\ Taken'
    BY <1>1, <1>2, <1>6, MessagesKept
  <2>2. \A u \in Threads : Owns(u) => th[u].id # 0
    BY <1>2 DEF Places, Placed, Owns, Creating, Releasing
  <2>3. ~Real(0) \/ Real(0)
    OBVIOUS
  <2>4. Places /\ Queued /\ Owners /\ Standings /\ Claimed /\ Orderly /\ ~hung
    BY DEF LifeInv
  <2>5. Places'
    BY <1>1, <2>4 DEF Places, Placed, Busy, Entered
  <2>6. \A u \in Threads : /\ Owns(u)' <=> Owns(u)
                           /\ Releasing(u)' <=> Releasing(u)
                           /\ Waiting(u)' <=> Waiting(u)
    BY <1>1 DEF Owns, Creating, Releasing, Busy, Waiting
  <2>7. Queued'
    BY <1>1, <2>4, <2>6, QueuedKept
  <2>8. Owners'
    BY <1>1, <1>4, <1>6, <2>2, <2>4, <2>6, OwnersAside
  <2>9. Standings'
    BY <1>1, <1>2, <1>6, <2>4, <2>6, StandingsKept DEF TypeInv
  <2>10. Claimed'
    BY <1>1, <2>4 DEF Claimed, Claims, FreeEntry, Entered, Busy, Releasing
  <2>11. QED
    BY <1>1, <2>1, <2>4, <2>5, <2>7, <2>8, <2>9, <2>10 DEF LifeInv, Orderly
<1>7. QED
  BY <1>5, <1>6 DEF OpenDev, CloseDev

\* Whom an acknowledgement reaches: if the owner of its id waits, the owner
LEMMA OwnerFound ==
  ASSUME LifeInv, NEW i \in Ids
  PROVE  /\ \E c \in Cells \cup {Anchor} : StopsAt(wait, i, c)
         /\ \A c \in Cells : StopsAt(wait, i, c) =>
              /\ c \in Nodes /\ obj[c].used /\ obj[c].id = i
              /\ \A t \in Threads : Owns(t) /\ Waiting(t) /\ th[t].id = i => th[t].node = c
         /\ StopsAt(wait, i, Anchor) =>
              \A t \in Threads : Waiting(t) => th[t].id # i
<1>1. Places /\ Queued
  BY DEF LifeInv
<1>2. PICK m \in Nat : \E s \in [1..m -> Cells] : Chain(wait, m, s) /\ Ordered(m, s)
  BY <1>1 DEF Queued
<1>3. PICK s \in [1..m -> Cells] : Chain(wait, m, s) /\ Ordered(m, s)
  BY <1>2
<1>4. /\ \E c \in Cells \cup {Anchor} : StopsAt(wait, i, c)
      /\ \A c \in Cells : StopsAt(wait, i, c) =>
           \E k \in 1..m : /\ s[k] = c /\ obj[c].id = i
                           /\ \A j \in 1..m : j < k => obj[s[j]].id # i
      /\ StopsAt(wait, i, Anchor) => \A k \in 1..m : obj[s[k]].id # i
  BY <1>3, ChainSearch
<1>5. ASSUME NEW t \in Threads, Waiting(t)
      PROVE  /\ th[t].node \in Nodes /\ obj[th[t].node].id = th[t].id /\ obj[th[t].node].used
             /\ \E k \in 1..m : s[k] = th[t].node
  <2>1. th[t].node \in Nodes /\ obj[th[t].node].id = th[t].id /\ obj[th[t].node].used
    BY <1>1, <1>5 DEF Places, Placed, Busy, Waiting
  <2>2. QED
    BY <1>3, <1>5, <2>1 DEF Ordered
<1>6. ASSUME NEW c \in Cells, StopsAt(wait, i, c)
      PROVE  /\ c \in Nodes /\ obj[c].used /\ obj[c].id = i
             /\ \A t \in Threads : Owns(t) /\ Waiting(t) /\ th[t].id = i => th[t].node = c
  <2>1. PICK k \in 1..m : s[k] = c /\ obj[c].id = i /\ \A j \in 1..m : j < k => obj[s[j]].id # i
    BY <1>4, <1>6
  <2>2. c \in Nodes
    BY <1>1, <2>1 DEF Places, Cells
  <2>3. PICK u \in Threads : Waiting(u) /\ th[u].node = c
    BY <1>3, <2>1, <2>2 DEF Ordered
  <2>4. ASSUME NEW t \in Threads, Owns(t), Waiting(t), th[t].id = i PROVE th[t].node = c
    <3>1. PICK j \in 1..m : s[j] = th[t].node
      BY <1>5, <2>4
    <3>2. ~(j < k)
      BY <1>5, <2>1, <2>4, <3>1
    <3>3. th[u].id = i
      BY <1>5, <2>1, <2>3
    <3>4. t # u => j < k
      BY <1>3, <2>1, <2>3, <2>4, <3>1, <3>3 DEF Ordered
    <3>5. QED
      BY <2>3, <3>2, <3>4
  <2>5. QED
    BY <1>5, <2>1, <2>2, <2>3, <2>4
<1>7. ASSUME StopsAt(wait, i, Anchor), NEW t \in Threads, Waiting(t) PROVE th[t].id # i
  BY <1>4, <1>5, <1>7
<1>8. QED
  BY <1>4, <1>6, <1>7

\* A step that changes nothing the invariant speaks of
LEMMA LifeStill ==
  ASSUME LifeInv, TypeInv',
         UNCHANGED <<ida, obj, wait, epts, th, mine, closing, known, calls, dev, toR, toL, hung>>
  PROVE  LifeInv'
<1>1. /\ TypeInv /\ Places /\ Queued /\ Messages /\ Owners /\ Standings /\ Claimed /\ Taken
      /\ Orderly /\ ~hung
  BY DEF LifeInv
<1>2. Messages' /\ Taken'
  BY <1>1, MessagesKept
<1>3. \A t \in Threads : (Waiting(t)' <=> Waiting(t)) /\ (Owns(t)' <=> Owns(t))
  BY DEF Waiting, Owns, Creating, Releasing, Busy
<1>4. Queued'
  BY <1>1, <1>3, QueuedKept
<1>5. Places' /\ Claimed'
  BY <1>1 DEF Places, Placed, Entered, Claimed, Claims, FreeEntry, Busy, Releasing
<1>6. Owners'
  BY <1>1 DEF Owners, Owned, Owns, Creating, Releasing, Busy, Stamped, CreationOk,
     ReleaseOk, Confirmed, Real, Silent, Outgoing, Incoming
<1>7. Standings'
  BY <1>1 DEF Standings, Stands, Standing, Unheld, EntryOf, Entered, Real, Silent,
     Outgoing, Incoming, Owns, Creating, Releasing, Busy
<1>8. QED
  BY <1>1, <1>2, <1>4, <1>5, <1>6, <1>7 DEF LifeInv, Orderly

\* An owner about whose id something is under way has sent its request and has
\* not been answered: it waits
LEMMA OwnerWaits ==
  ASSUME Places, Owners, NEW t \in Threads, Owns(t), ~Silent(th[t].id)
  PROVE  /\ Waiting(t) /\ th[t].pc # "send"
         /\ th[t].op = "create" => ~Confirmed(t)
         /\ th[t].op = "create" /\ th[t].pc \in {"mark", "wait"} => ~(obj[th[t].node].done > 0)
         /\ th[t].op = "release" => th[t].pc = "wait"
<1>1. Owned(t) /\ Placed(t) /\ Busy(t)
  BY DEF Owners, Places, Owns, Creating, Releasing
<1>2. CASE th[t].op = "create"
  <2>1. CreationOk(t) /\ ~Confirmed(t) /\ th[t].pc # "send" /\ th[t].pc # "bind"
    BY <1>1, <1>2 DEF Owned, CreationOk, Real, Owns, Creating, Releasing
  <2>2. QED
    BY <1>1, <1>2, <2>1 DEF Placed, Waiting, Confirmed, CreationOk
<1>3. CASE th[t].op = "release"
  BY <1>1, <1>3 DEF Owned, ReleaseOk, Real, Waiting
<1>4. QED
  BY <1>1, <1>2, <1>3 DEF Placed

\* The acknowledgement under way and its id
LEMMA AckHead ==
  ASSUME LifeInv, toL # << >>, Sought.k = "ack"
  PROVE  /\ Sought \in Incoming /\ Sought.id \in Ids /\ ~Silent(Sought.id)
         /\ \A m \in Outgoing : m.id # Sought.id
         /\ dev[Sought.id] # "removed" /\ (Sought.ok => dev[Sought.id] = "bound")
<1>1. TypeInv /\ Messages
  BY DEF LifeInv
<1>2. Sought = toL[1] /\ 1 \in DOMAIN toL
  BY <1>1, Taken1 DEF TypeInv, QueuesType, Sought
<1>3. Sought \in Incoming
  BY <1>2 DEF Incoming
<1>4. /\ Sought.id \in ida /\ ida \subseteq Ids /\ \A m \in Outgoing : m.id # Sought.id
      /\ dev[Sought.id] # "removed" /\ (Sought.ok => dev[Sought.id] = "bound")
  BY <1>1, <1>3 DEF Messages, TypeInv
<1>5. ~Silent(Sought.id)
  BY <1>3 DEF Silent
<1>6. QED
  BY <1>3, <1>4, <1>5

LEMMA LifeAckFind ==
  ASSUME FullInv, TypeInv', AckFind
  PROVE  FullInv'
<1> DEFINE h == Head(toL)
           i == h.id
<1>1. /\ toL # << >> /\ h.k = "ack" /\ Sought = h
      /\ UNCHANGED <<ida, obj, wait, epts, th, mine, known, closing, calls, dev, toR>>
      /\ \/ /\ \E c \in Cells : /\ StopsAt(wait, i, c)
                                /\ found' = [node |-> c, stored |-> FALSE, live |-> TRUE]
            /\ UNCHANGED <<toL, hung>>
         \/ StopsAt(wait, i, Anchor) /\ toL' = Tail(toL) /\ UNCHANGED hung /\ found' = Nothing
         \/ \A c \in Cells \cup {Anchor} : ~StopsAt(wait, i, c)
  BY DEF AckFind, files, devs, Sought
<1>2. LifeInv /\ TypeInv /\ Places /\ Messages /\ Owners /\ Taken
  BY DEF FullInv, LifeInv
<1>3. /\ h \in Incoming /\ i \in Ids /\ ~Silent(i) /\ \A m \in Outgoing : m.id # i
  BY <1>1, <1>2, AckHead
<1>4. /\ \E c \in Cells \cup {Anchor} : StopsAt(wait, i, c)
      /\ \A c \in Cells : StopsAt(wait, i, c) =>
           /\ c \in Nodes /\ obj[c].used /\ obj[c].id = i
           /\ \A t \in Threads : Owns(t) /\ Waiting(t) /\ th[t].id = i => th[t].node = c
      /\ StopsAt(wait, i, Anchor) =>
           \A t \in Threads : Waiting(t) => th[t].id # i
  BY <1>2, <1>3, OwnerFound
<1>5. \A t \in Threads : Owns(t) /\ th[t].id = i => Waiting(t)
  BY <1>2, <1>3, OwnerWaits
<1>6. CASE /\ \E c \in Cells : /\ StopsAt(wait, i, c)
                               /\ found' = [node |-> c, stored |-> FALSE, live |-> TRUE]
           /\ UNCHANGED <<toL, hung>>
  <2>1. LifeInv'
    BY <1>1, <1>2, <1>6, LifeStill
  <2>2. PICK c \in Cells : /\ StopsAt(wait, i, c)
                           /\ found' = [node |-> c, stored |-> FALSE, live |-> TRUE]
    BY <1>6
  <2>3. \A t \in Threads : (Owns(t)' <=> Owns(t)) /\ th'[t] = th[t]
    BY <1>1 DEF Owns, Creating, Releasing, Busy
  <2>4. found'.live /\ found'.node = c /\ ~found'.stored /\ Sought' = h
    BY <1>6, <2>2 DEF Sought
  <2>5. c \in Nodes /\ obj[c].used /\ obj[c].id = i
    BY <1>4, <2>2
  <2>6. \A t \in Threads : Owns(t) /\ th[t].id = i => th[t].node = c
    BY <1>4, <1>5, <2>2
  <2>7. AckOk'
    BY <1>1, <2>3, <2>4, <2>5, <2>6 DEF AckOk
  <2>8. QED
    BY <2>1, <2>7 DEF FullInv
<1>7. CASE StopsAt(wait, i, Anchor) /\ toL' = Tail(toL) /\ UNCHANGED hung /\ found' = Nothing
  <2>1. /\ \A m \in Incoming' : m \in Incoming
        /\ \A m \in Incoming : m \in Incoming' \/ m = h
        /\ \A j, k \in DOMAIN toL' : toL'[j].id = toL'[k].id /\ j < k =>
             toL'[j].k = "ack" /\ toL'[k].k = "gone"
    BY <1>1, <1>2, <1>7, TakenL
  <2> HIDE DEF h
  <2>2. Outgoing' = Outgoing
    BY <1>1 DEF Outgoing
  <2>3. Messages' /\ Taken'
    BY <1>1, <1>2, <2>1, <2>2 DEF Messages, Taken
  <2>4. Aside(i)
    BY <2>1, <2>2 DEF Aside
  <2>5. \A t \in Threads : Owns(t) => th[t].id # i
    BY <1>4, <1>5, <1>7
  <2>6. LifeInv'
    BY <1>1, <1>2, <1>3, <1>7, <2>3, <2>4, <2>5, LifeAside DEF Real
  <2>7. QED
    BY <1>7, <2>6 DEF FullInv, AckOk
<1>8. QED
  BY <1>1, <1>4, <1>6, <1>7

\* The object that is written into: if the owner of the id waits, the owner's
LEMMA AckTarget ==
  ASSUME FullInv, found # Nothing, found.live
  PROVE  /\ toL # << >> /\ Sought.k = "ack" /\ Sought.id \in Ids /\ ~Silent(Sought.id)
         /\ found.node \in Nodes /\ found.node \in Cells /\ obj[found.node].id = Sought.id
         /\ \A u \in Threads : Owns(u) /\ th[u].id = Sought.id => th[u].node = found.node
         /\ \A u \in Threads : Owns(u) /\ th[u].id # Sought.id =>
              th[u].node # found.node /\ th[u].node \in Cells
<1>1. LifeInv /\ AckOk /\ TypeInv /\ Places
  BY DEF FullInv, LifeInv
<1>2. toL # << >> /\ Sought.k = "ack"
  BY <1>1 DEF TypeInv, AckType, Sought
<1>3. /\ found.node \in Nodes /\ obj[found.node].id = Sought.id
      /\ \A u \in Threads : Owns(u) /\ th[u].id = Sought.id => th[u].node = found.node
  BY <1>1 DEF AckOk
<1>4. \A u \in Threads : Owns(u) => th[u].node \in Cells /\ obj[th[u].node].id = th[u].id
  BY <1>1 DEF Places, Placed, Owns, Creating, Releasing, Cells
<1>5. Sought.id \in Ids /\ ~Silent(Sought.id)
  BY <1>1, <1>2, AckHead
<1>6. QED
  BY <1>2, <1>3, <1>4, <1>5 DEF Cells

\* The ids and uses of objects, and who owns a request, do not depend on what
\* the callback writes
LEMMA LifeWritten ==
  ASSUME Places, Claimed,
         \A c \in Cells : obj'[c].used = obj[c].used /\ obj'[c].id = obj[c].id,
         UNCHANGED <<epts, th, mine, known, closing>>
  PROVE  Places' /\ Claimed'
<1>1. /\ \A n \in Nodes : obj'[n].used = obj[n].used /\ obj'[n].id = obj[n].id
      /\ obj'[Ctrl].id = obj[Ctrl].id
  BY DEF Cells
<1>2. /\ \A u \in Threads : /\ Busy(u)' <=> Busy(u)
                            /\ Releasing(u)' <=> Releasing(u)
      /\ \A n : Entered(n)' <=> Entered(n)
  BY DEF Busy, Releasing, Entered
<1>3. Places'
  BY <1>1, <1>2 DEF Places, Placed
<1>4. /\ \A u \in Threads, j \in Ids : Claims(u, j)' <=> Claims(u, j)
      /\ \A n \in Nodes, j \in Ids : FreeEntry(n, j)' <=> FreeEntry(n, j)
  BY <1>1, <1>2 DEF Claims, FreeEntry
<1>5. Claimed'
  BY <1>2, <1>4 DEF Claimed
<1>6. QED
  BY <1>3, <1>5

LEMMA LifeAckStatus ==
  ASSUME FullInv, TypeInv', AckStatus, ~stray'
  PROVE  FullInv'
<1> DEFINE h == Head(toL)
           i == h.id
           c == found.node
<1>1. /\ found # Nothing /\ ~found.stored /\ found.live /\ Sought = h /\ Sought' = h
      /\ obj' = [obj EXCEPT ![c].status = IF h.ok THEN "ok" ELSE "failed"]
      /\ found' = [found EXCEPT !.stored = TRUE]
      /\ UNCHANGED <<ida, wait, epts, th, mine, known, closing, calls, dev, toR, toL, hung>>
  BY DEF AckStatus, Touch, files, devs, Sought
<1>2. /\ TypeInv /\ Places /\ Queued /\ Messages /\ Owners /\ Standings /\ Claimed /\ Taken
      /\ Orderly /\ ~hung /\ AckOk
  BY DEF FullInv, LifeInv
<1>3. /\ i \in Ids /\ ~Silent(i) /\ c \in Nodes /\ c \in Cells /\ obj[c].id = i
      /\ \A u \in Threads : Owns(u) /\ th[u].id = i => th[u].node = c
      /\ \A u \in Threads : Owns(u) /\ th[u].id # i => th[u].node # c /\ th[u].node \in Cells
  BY <1>1, AckTarget
<1> HIDE DEF h
<1>4. /\ \A d \in Cells : /\ obj'[d].used = obj[d].used /\ obj'[d].id = obj[d].id
                          /\ obj'[d].done = obj[d].done
                          /\ d # c => obj'[d] = obj[d]
      /\ obj'[c].status = IF h.ok THEN "ok" ELSE "failed"
  BY <1>1, <1>2, <1>3 DEF TypeInv, NotifyType
<1>5. Places' /\ Claimed'
  BY <1>1, <1>2, <1>4, LifeWritten
<1>6. \A u \in Threads : /\ Owns(u)' <=> Owns(u)
                         /\ Releasing(u)' <=> Releasing(u)
                         /\ Waiting(u)' <=> Waiting(u)
  <2>1. \A u \in Threads : Busy(u) => obj'[th[u].node].done = obj[th[u].node].done
    BY <1>2, <1>4 DEF Places, Placed, Cells
  <2>2. QED
    BY <1>1, <2>1 DEF Owns, Creating, Releasing, Busy, Waiting
<1>7. Queued'
  BY <1>1, <1>2, <1>6, QueuedKept
<1>8. Messages' /\ Taken'
  BY <1>1, <1>2, MessagesKept
<1>9. Outgoing' = Outgoing /\ Incoming' = Incoming
  BY <1>1 DEF Outgoing, Incoming
<1>10. ASSUME NEW u \in Threads, Owns(u)', th[u].id = i PROVE Owned(u)'
  <2>1. /\ Owns(u) /\ Stamped(u) /\ (th[u].op = "create" => CreationOk(u))
        /\ (th[u].op = "release" => ReleaseOk(u))
    BY <1>2, <1>6, <1>10 DEF Owners, Owned
  <2>2. Stamped(u)'
    BY <1>1, <1>9, <2>1 DEF Stamped
  <2>3. /\ th[u].pc # "send" /\ th[u].node = c
        /\ th[u].op = "create" => ~Confirmed(u)
        /\ th[u].op = "create" /\ th[u].pc \in {"mark", "wait"} => ~(obj[c].done > 0)
    BY <1>2, <1>3, <1>10, <2>1, OwnerWaits
  <2>4. ASSUME th[u].op = "create" PROVE CreationOk(u)'
    <3>1. ~Confirmed(u)'
      BY <1>1, <1>3, <1>4, <2>3, <2>4 DEF Confirmed
    <3>2. QED
      BY <1>1, <1>3, <1>4, <1>9, <2>1, <2>3, <2>4, <3>1 DEF CreationOk
  <2>5. ReleaseOk(u)' <=> ReleaseOk(u)
    BY <1>1, <1>9 DEF ReleaseOk, Real, Silent
  <2>6. QED
    BY <1>1, <2>1, <2>2, <2>4, <2>5 DEF Owned
<1>11. Owners'
  <2>1. Aside(i)
    BY <1>9 DEF Aside
  <2>2. \A u \in Threads : Owns(u)' =>
          /\ Owns(u) /\ th'[u].id = th[u].id
          /\ IF th[u].id = i THEN Owned(u)'
             ELSE /\ th'[u] = th[u] /\ calls'[u] = calls[u]
                  /\ obj'[th[u].node] = obj[th[u].node]
    BY <1>1, <1>3, <1>4, <1>6, <1>10
  <2>3. QED
    BY <1>1, <1>2, <2>1, <2>2, OwnersAside
<1>12. Standings'
  <2>1. \A n \in Nodes : Entered(n) => obj'[n].id = obj[n].id
    BY <1>4 DEF Cells
  <2>2. QED
    BY <1>1, <1>2, <1>6, <2>1, StandingsKept DEF TypeInv
<1>13. LifeInv'
  BY <1>1, <1>2, <1>5, <1>7, <1>8, <1>11, <1>12 DEF LifeInv, Orderly
<1>14. AckOk'
  <2>1. found'.node = c /\ found'.live /\ found'.stored
    <3>1. found \in [node: Cells, stored: BOOLEAN, live: BOOLEAN]
      BY <1>1, <1>2 DEF TypeInv, AckType, Looked
    <3>2. QED
      BY <1>1, <3>1
  <2>2. obj'[c].used /\ obj'[c].id = i /\ (obj'[c].status = "ok" => h.ok)
    BY <1>1, <1>2, <1>3, <1>4 DEF AckOk
  <2>3. \A u \in Threads : Owns(u)' /\ th'[u].id = i => th'[u].node = c
    BY <1>1, <1>3, <1>6
  <2>4. QED
    BY <1>1, <1>3, <2>1, <2>2, <2>3 DEF AckOk
<1>15. QED
  BY <1>13, <1>14 DEF FullInv

LEMMA LifeAckComplete ==
  ASSUME FullInv, TypeInv', AckComplete, ~stray'
  PROVE  FullInv'
<1> DEFINE h == Head(toL)
           i == h.id
           c == found.node
<1>1. /\ found.stored /\ found.live /\ Sought = h
      /\ obj' = [obj EXCEPT ![c].done = @ + 1]
      /\ found' = Nothing /\ toL' = Tail(toL)
      /\ UNCHANGED <<ida, wait, epts, th, mine, known, closing, calls, dev, toR, hung>>
  BY DEF AckComplete, Touch, files, devs, Sought
<1>2. found # Nothing
  BY <1>1 DEF Nothing
<1>3. /\ TypeInv /\ Places /\ Queued /\ Messages /\ Owners /\ Standings /\ Claimed /\ Taken
      /\ Orderly /\ ~hung /\ AckOk
  BY DEF FullInv, LifeInv
<1>4. /\ toL # << >> /\ h.k = "ack" /\ i \in Ids /\ ~Silent(i)
      /\ c \in Nodes /\ c \in Cells /\ obj[c].id = i
      /\ \A u \in Threads : Owns(u) /\ th[u].id = i => th[u].node = c
      /\ \A u \in Threads : Owns(u) /\ th[u].id # i => th[u].node # c /\ th[u].node \in Cells
  BY <1>1, <1>2, AckTarget
<1>5. obj[c].status = "ok" => h.ok
  BY <1>1, <1>2, <1>3 DEF AckOk
<1>6. /\ h \in Incoming
      /\ \A m \in Incoming' : m \in Incoming /\ (m.id = i => m.k = "gone")
      /\ \A m \in Incoming : m \in Incoming' \/ m = h
      /\ \A j, k \in DOMAIN toL' : toL'[j].id = toL'[k].id /\ j < k =>
           toL'[j].k = "ack" /\ toL'[k].k = "gone"
  BY <1>1, <1>3, <1>4, TakenL
<1>7. (\A m \in Outgoing : m.id # i) /\ (h.ok => dev[i] = "bound")
  BY <1>1, <1>3, <1>4, AckHead DEF FullInv
<1> HIDE DEF h
<1>8. Outgoing' = Outgoing
  BY <1>1 DEF Outgoing
<1>9. /\ \A d \in Cells : /\ obj'[d].used = obj[d].used /\ obj'[d].id = obj[d].id
                          /\ obj'[d].status = obj[d].status
                          /\ d # c => obj'[d] = obj[d]
      /\ obj'[c].done > 0
  BY <1>1, <1>3, <1>4 DEF TypeInv, NotifyType
<1>10. Places' /\ Claimed'
  BY <1>1, <1>3, <1>9, LifeWritten
<1>11. \A u \in Threads : /\ Owns(u)' => Owns(u)
                          /\ Releasing(u)' <=> Releasing(u)
                          /\ Waiting(u)' <=> Waiting(u)
  <2>1. \A u \in Threads : Busy(u) /\ obj'[th[u].node].done = 0 => obj[th[u].node].done = 0
    BY <1>3, <1>9 DEF Places, Placed, Cells
  <2>2. QED
    BY <1>1, <2>1 DEF Owns, Creating, Releasing, Busy, Waiting
<1>12. Queued'
  BY <1>1, <1>3, <1>11, QueuedKept
<1>13. Messages' /\ Taken'
  BY <1>1, <1>3, <1>6, <1>8 DEF Messages, Taken
<1>14. Aside(i)
  BY <1>6, <1>8 DEF Aside
<1>15. ASSUME NEW u \in Threads, Owns(u)', th[u].id = i PROVE Owned(u)'
  <2>1. /\ Owns(u) /\ Stamped(u) /\ (th[u].op = "create" => CreationOk(u))
        /\ (th[u].op = "release" => ReleaseOk(u))
    BY <1>3, <1>11, <1>15 DEF Owners, Owned
  <2>2. Stamped(u)'
    BY <1>1, <1>6, <1>8, <2>1 DEF Stamped
  <2>3. /\ th[u].pc # "send" /\ th[u].node = c
        /\ th[u].op = "create" => ~Confirmed(u)
        /\ th[u].op = "release" => th[u].pc = "wait"
    BY <1>3, <1>4, <1>15, <2>1, OwnerWaits
  <2>4. ASSUME th[u].op = "create" PROVE CreationOk(u)'
    <3>1. \A m \in Incoming' : m.id # i
      BY <1>6, <1>15, <2>1, <2>4 DEF CreationOk
    <3>2. Silent(th[u].id)'
      BY <1>1, <1>7, <1>8, <1>15, <3>1 DEF Silent
    <3>3. Confirmed(u)' => h.ok
      BY <1>1, <1>4, <1>5, <1>9, <2>3, <2>4 DEF Confirmed
    <3>4. Confirmed(u)' => Real(th[u].id)'
      BY <1>1, <1>7, <1>15, <3>2, <3>3 DEF Real
    <3>5. QED
      BY <1>1, <1>6, <1>8, <1>15, <2>1, <2>3, <2>4, <3>1, <3>2, <3>4 DEF CreationOk
  <2>5. ASSUME th[u].op = "release" PROVE FALSE
    <3>1. obj'[th[u].node].done = 0
      BY <1>1, <1>15, <2>3, <2>5 DEF Owns, Creating, Releasing
    <3>2. QED
      BY <1>9, <2>3, <3>1
  <2>6. QED
    BY <1>1, <2>2, <2>4, <2>5 DEF Owned
<1>16. Owners'
  <2>1. \A u \in Threads : Owns(u)' =>
          /\ Owns(u) /\ th'[u].id = th[u].id
          /\ IF th[u].id = i THEN Owned(u)'
             ELSE /\ th'[u] = th[u] /\ calls'[u] = calls[u]
                  /\ obj'[th[u].node] = obj[th[u].node]
    BY <1>1, <1>4, <1>9, <1>11, <1>15
  <2>2. QED
    BY <1>1, <1>3, <1>14, <2>1, OwnersAside
<1>17. Standings'
  <2>1. \A n \in Nodes : Standing(n) /\ Unheld(n) => obj[n].id # i
    BY <1>3, <1>4 DEF Standings, Stands, Real
  <2>2. \A n \in Nodes : Entered(n) => obj'[n].id = obj[n].id
    BY <1>9 DEF Cells
  <2>3. QED
    BY <1>1, <1>3, <1>11, <1>14, <2>1, <2>2, StandingsAside DEF TypeInv
<1>18. LifeInv'
  BY <1>1, <1>3, <1>10, <1>12, <1>13, <1>16, <1>17 DEF LifeInv, Orderly
<1>19. QED
  BY <1>1, <1>18 DEF FullInv, AckOk

-----------------------------------------------------------------------------
(* The first and the last steps of a call.                                 *)

\* A new creation, with an id and an object of its own
LEMMA LifeCreate ==
  ASSUME LifeInv, TypeInv', NEW t \in Threads, NEW g \in Groups, NEW af \in BOOLEAN,
         Create(t, g, af)
  PROVE  LifeInv'
<1>1. PICK i \in Ids, n \in Nodes :
        /\ i \notin ida /\ ~obj[n].used /\ ida' = ida \cup {i}
        /\ obj' = [obj EXCEPT ![n] = [FreeObj EXCEPT !.used = TRUE, !.id = i]]
        /\ wait' = Linked(wait, n)
        /\ th' = [th EXCEPT ![t] = [pc |-> "send", op |-> "create", node |-> n,
                                    id |-> i, grp |-> g, af |-> af, res |-> "none"]]
  BY DEF Create, LowestId
<1>2. /\ th[t].pc = "idle" /\ ~closing[t] /\ calls' = [calls EXCEPT ![t] = @ + 1]
      /\ UNCHANGED <<epts, mine, known, closing, dev, toR, toL, hung>>
  BY DEF Create, MayCall, At, files, devs
<1>3. /\ TypeInv /\ Places /\ Queued /\ Messages /\ Owners /\ Standings /\ Claimed /\ Taken
      /\ Orderly /\ ~hung
  BY DEF LifeInv
<1>4. /\ th'[t].pc = "send" /\ th'[t].op = "create" /\ th'[t].node = n /\ th'[t].id = i
      /\ \A u \in Threads : u # t => th'[u] = th[u] /\ calls'[u] = calls[u]
  BY <1>1, <1>2, <1>3 DEF TypeInv, Callers
<1>5. /\ obj'[n].used /\ obj'[n].id = i /\ obj'[n].status = "none" /\ obj'[n].done = 0
      /\ \A c \in Cells : c # n => obj'[c] = obj[c]
      /\ n \in Cells
  BY <1>1, <1>3 DEF TypeInv, FreeObj, Cells
<1>6. /\ \A u \in Threads : Busy(u) => u # t /\ th[u].node # n /\ th[u].node \in Cells
      /\ ~Entered(n)
      /\ \A q \in Nodes : Entered(q) => q # n /\ obj'[q] = obj[q]
      /\ n # Ctrl /\ ~Busy(t)
  BY <1>1, <1>2, <1>3, <1>5 DEF Places, Placed, Busy, Cells
<1>7. /\ \A q : Entered(q)' <=> Entered(q)
      /\ \A u \in Threads : u # t => /\ Busy(u)' <=> Busy(u)
                                     /\ Releasing(u)' <=> Releasing(u)
                                     /\ Waiting(u)' <=> Waiting(u)
                                     /\ Owns(u)' <=> Owns(u)
      /\ Busy(t)' /\ Creating(t)' /\ Owns(t)' /\ Waiting(t)' /\ ~Releasing(t)'
      /\ ~Releasing(t) /\ ~Waiting(t) /\ ~Owns(t)
  <2>1. \A u \in Threads : u # t => /\ Busy(u)' <=> Busy(u)
                                    /\ Releasing(u)' <=> Releasing(u)
                                    /\ Waiting(u)' <=> Waiting(u)
                                    /\ Creating(u)' <=> Creating(u)
                                    /\ Busy(u) => obj'[th[u].node] = obj[th[u].node]
    BY <1>4, <1>5, <1>6 DEF Busy, Releasing, Creating, Waiting
  <2>2. \A u \in Threads : u # t => (Owns(u)' <=> Owns(u))
    BY <1>4, <2>1 DEF Owns, Releasing
  <2>3. /\ Busy(t)' /\ Creating(t)' /\ Owns(t)' /\ Waiting(t)' /\ ~Releasing(t)'
        /\ ~Releasing(t) /\ ~Waiting(t) /\ ~Owns(t)
    BY <1>2, <1>4 DEF Owns, Busy, Releasing, Creating, Waiting
  <2>4. \A q : Entered(q)' <=> Entered(q)
    BY <1>2 DEF Entered
  <2>5. QED
    BY <2>1, <2>2, <2>3, <2>4
<1>8. Places'
  <2>1. Placed(t)'
    BY <1>2, <1>4, <1>5, <1>6, <1>7 DEF Placed
  <2>2. ASSUME NEW u \in Threads, u # t PROVE Placed(u)'
    <3>1. SUFFICES ASSUME Busy(u) PROVE Placed(u)'
      BY <1>7, <2>2 DEF Placed
    <3>2. Placed(u) /\ obj'[th[u].node] = obj[th[u].node] /\ th'[u] = th[u]
      BY <1>3, <1>4, <1>5, <1>6, <2>2, <3>1 DEF Places
    <3>3. QED
      BY <1>2, <1>7, <2>2, <3>1, <3>2 DEF Placed
  <2>3. \A u, v \in Threads : Busy(u)' /\ Busy(v)' /\ th'[u].node = th'[v].node => u = v
    BY <1>3, <1>4, <1>6, <1>7 DEF Places
  <2>4. obj'[Ctrl].id = 0
    BY <1>3, <1>5, <1>6 DEF Places, Cells
  <2>5. \A q \in Nodes : Entered(q)' => obj'[q].used /\ obj'[q].id \in Ids
    BY <1>3, <1>6, <1>7 DEF Places
  <2>6. QED
    BY <1>2, <1>3, <2>1, <2>2, <2>3, <2>4, <2>5 DEF Places
<1>9. \A u \in Threads : Owns(u) => th[u].id # i
  BY <1>1, <1>3, OwnerTaken
<1>10. Queued'
  <2>1. \A u \in Threads : Waiting(u) => th[u].node # n
    BY <1>6 DEF Waiting, Busy
  <2>2. QED
    BY <1>1, <1>3, <1>4, <1>7, <1>9, <2>1, QueuedLinked
<1>11. Outgoing' = Outgoing /\ Incoming' = Incoming
  BY <1>2 DEF Outgoing, Incoming
<1>12. (\A m \in Outgoing : m.id # i) /\ (\A m \in Incoming : m.id # i) /\ dev[i] = "none"
  BY <1>1, <1>3 DEF Messages, Taken
<1>13. Messages' /\ Taken'
  BY <1>1, <1>2, <1>3, <1>11 DEF Messages, Taken
<1>14. Owners'
  <2>1. Owned(t)'
    <3>1. Stamped(t)'
      BY <1>4, <1>11, <1>12 DEF Stamped
    <3>2. CreationOk(t)'
      BY <1>1, <1>2, <1>4, <1>5, <1>11, <1>12 DEF CreationOk, Confirmed, Silent
    <3>3. QED
      BY <1>4, <3>1, <3>2 DEF Owned
  <2>2. ASSUME NEW u \in Threads, u # t PROVE Owned(u)'
    <3>1. SUFFICES ASSUME Owns(u) PROVE Owned(u)'
      BY <1>7, <2>2 DEF Owned
    <3>2. /\ Owned(u) /\ obj'[th[u].node] = obj[th[u].node] /\ th'[u] = th[u]
          /\ calls'[u] = calls[u] /\ Owns(u)'
      BY <1>3, <1>4, <1>5, <1>6, <1>7, <2>2, <3>1 DEF Owners, Owns, Creating, Releasing
    <3>3. Stamped(u) => Stamped(u)'
      BY <1>11, <3>2 DEF Stamped
    <3>4. CreationOk(u) => CreationOk(u)'
      <4>1. th[u].id \in ida => th[u].id \in ida'
        BY <1>1
      <4>2. Confirmed(u)' <=> Confirmed(u)
        BY <3>2 DEF Confirmed
      <4>3. QED
        BY <1>2, <1>11, <3>2, <4>1, <4>2 DEF CreationOk, Real, Silent
    <3>5. ReleaseOk(u) => ReleaseOk(u)'
      BY <1>2, <1>11, <3>2 DEF ReleaseOk, Real, Silent
    <3>6. QED
      BY <3>1, <3>2, <3>3, <3>4, <3>5 DEF Owned
  <2>3. \A u, v \in Threads : Owns(u)' /\ Owns(v)' /\ th'[u].id = th'[v].id => u = v
    BY <1>3, <1>4, <1>7, <1>9 DEF Owners
  <2>4. QED
    BY <2>1, <2>2, <2>3 DEF Owners
<1>15. Standings'
  <2>1. SUFFICES ASSUME NEW q \in Nodes, Standing(q)' PROVE Stands(q)'
    BY DEF Standings, Stands
  <2>2. Standing(q) /\ Entered(q) /\ obj'[q] = obj[q] /\ q # n
    BY <1>4, <1>6, <1>7, <2>1 DEF Standing
  <2>3. Stands(q) /\ obj[q].id # i
    BY <1>1, <1>3, <2>2, EntryTaken DEF Standings
  <2>4. EntryOf(obj[q].id, q)'
    <3>1. PICK k \in DOMAIN epts : /\ epts[k] = q
                                  /\ \A j \in 1..(k - 1) : obj[epts[j]].id # obj[q].id
      BY <2>2, <2>3 DEF Stands, EntryOf
    <3>2. \A j \in DOMAIN epts : epts[j] \in Nodes /\ Entered(epts[j])
      BY <1>3, ElementOfSeq DEF Entered, TypeInv
    <3>3. \A j \in 1..(k - 1) : j \in DOMAIN epts
      BY <1>3, LenProperties DEF TypeInv
    <3>4. \A j \in 1..(k - 1) : obj'[epts[j]] = obj[epts[j]]
      BY <1>6, <3>2, <3>3
    <3>5. QED
      BY <1>2, <2>2, <3>1, <3>4 DEF EntryOf
  <2>5. \A u \in Threads : Owns(u)' /\ th'[u].id = obj'[q].id => th'[u].node = q
    BY <1>4, <1>7, <2>2, <2>3 DEF Stands
  <2>6. Unheld(q)' => Unheld(q)
    BY <1>4, <1>7 DEF Unheld
  <2>7. Unheld(q)' => Real(obj[q].id)'
    BY <1>2, <1>11, <2>2, <2>3, <2>6 DEF Stands, Real, Silent
  <2>8. QED
    BY <2>2, <2>4, <2>5, <2>7 DEF Stands
<1>16. Claimed'
  <2>1. \A u \in Threads, j \in Ids : Claims(u, j)' <=> Claims(u, j)
    BY <1>2, <1>4, <1>7 DEF Claims
  <2>2. \A q \in Nodes, j \in Ids : FreeEntry(q, j) => FreeEntry(q, j)'
    BY <1>4, <1>6, <1>7 DEF FreeEntry
  <2>3. \A u \in Threads : Releasing(u)' /\ ~closing'[u] => th'[u].id \notin mine'[u]
    BY <1>2, <1>3, <1>4, <1>7 DEF Claimed
  <2>4. \A u \in Threads, j \in Ids : Claims(u, j)' => \E q \in Nodes : FreeEntry(q, j)'
    BY <1>3, <2>1, <2>2 DEF Claimed
  <2>5. \A u, v \in Threads, j \in Ids : Claims(u, j)' /\ Claims(v, j)' => u = v
    BY <1>3, <2>1 DEF Claimed
  <2>6. \A u \in Threads : closing'[u] => known'[u] \cap mine'[u] = {}
    BY <1>2, <1>3 DEF Claimed
  <2>7. QED
    BY <2>3, <2>4, <2>5, <2>6 DEF Claimed
<1>17. QED
  BY <1>2, <1>3, <1>8, <1>10, <1>13, <1>14, <1>15, <1>16 DEF LifeInv, Orderly

\* A release begins: its entry is found, and nobody else uses it
LEMMA LifeBeginRelease ==
  ASSUME LifeInv, TypeInv', NEW t \in Threads, NEW i \in Ids, th[t].pc = "idle",
         Claims(t, i), BeginRelease(t, i),
         ~Claims(t, i)', \A j \in Ids : Claims(t, j)' => Claims(t, j),
         \A u \in Threads : u # t => known'[u] = known[u] /\ mine'[u] = mine[u],
         closing[t] => known'[t] \cap mine'[t] = {}, closing[t] \/ i \notin mine'[t],
         UNCHANGED <<ida, obj, wait, epts, closing, calls, dev, toR, toL, hung>>
  PROVE  LifeInv'
<1>1. /\ TypeInv /\ Places /\ Queued /\ Messages /\ Owners /\ Standings /\ Claimed /\ Taken
      /\ Orderly /\ ~hung
  BY DEF LifeInv
<1>2. PICK n \in Nodes :
        /\ FreeEntry(n, i) /\ Standing(n) /\ Unheld(n) /\ EntryOf(i, n) /\ Real(i)
        /\ \A q \in Nodes : EntryOf(i, q) => q = n
        /\ \A u \in Threads : Owns(u) => th[u].id # i
  BY <1>1, ClaimStands
<1>3. th' = [th EXCEPT ![t] = [Idle EXCEPT !.pc = "found", !.op = "release",
                                           !.node = n, !.id = i]]
  BY <1>2 DEF BeginRelease
<1>4. /\ th'[t].pc = "found" /\ th'[t].op = "release" /\ th'[t].node = n /\ th'[t].id = i
      /\ \A u \in Threads : u # t => th'[u] = th[u]
  BY <1>1, <1>3 DEF TypeInv, Callers, Idle
<1>5. /\ Entered(n) /\ obj[n].id = i /\ obj[n].used
      /\ \A u \in Threads : Busy(u) => th[u].node # n
  BY <1>1, <1>2 DEF FreeEntry, Places
<1>6. /\ \A q : Entered(q)' <=> Entered(q)
      /\ \A u \in Threads : u # t => /\ Busy(u)' <=> Busy(u)
                                     /\ Releasing(u)' <=> Releasing(u)
                                     /\ Waiting(u)' <=> Waiting(u)
                                     /\ Owns(u)' <=> Owns(u)
      /\ Busy(t)' /\ Releasing(t)' /\ Owns(t)' /\ ~Waiting(t)' /\ ~Creating(t)'
      /\ ~Busy(t) /\ ~Releasing(t) /\ ~Waiting(t) /\ ~Owns(t)
  BY <1>4 DEF Owns, Busy, Releasing, Creating, Waiting, Entered
<1>7. Places'
  <2>1. Placed(t)'
    BY <1>4, <1>5, <1>6 DEF Placed
  <2>2. \A u \in Threads : u # t => Placed(u)'
    BY <1>1, <1>4, <1>6 DEF Places, Placed
  <2>3. \A u, v \in Threads : Busy(u)' /\ Busy(v)' /\ th'[u].node = th'[v].node => u = v
    BY <1>1, <1>4, <1>5, <1>6 DEF Places
  <2>4. QED
    BY <1>1, <1>6, <2>1, <2>2, <2>3 DEF Places
<1>8. Queued'
  BY <1>1, <1>4, <1>6, QueuedKept
<1>9. Messages' /\ Taken'
  BY <1>1, MessagesKept
<1>10. Outgoing' = Outgoing /\ Incoming' = Incoming
  BY DEF Outgoing, Incoming
<1>11. Owners'
  <2>1. Owned(t)'
    BY <1>2, <1>4, <1>10 DEF Owned, Stamped, ReleaseOk, Real, Silent
  <2>2. ASSUME NEW u \in Threads, u # t PROVE Owned(u)'
    <3>1. Owned(u) /\ th'[u] = th[u]
      BY <1>1, <1>4, <2>2 DEF Owners
    <3>2. Stamped(u)' <=> Stamped(u)
      BY <1>10, <3>1 DEF Stamped
    <3>3. CreationOk(u)' <=> CreationOk(u)
      BY <1>10, <3>1 DEF CreationOk, Confirmed, Real, Silent
    <3>4. ReleaseOk(u)' <=> ReleaseOk(u)
      BY <1>10, <3>1 DEF ReleaseOk, Real, Silent
    <3>5. QED
      BY <1>6, <2>2, <3>1, <3>2, <3>3, <3>4 DEF Owned
  <2>3. \A u, v \in Threads : Owns(u)' /\ Owns(v)' /\ th'[u].id = th'[v].id => u = v
    BY <1>1, <1>2, <1>4, <1>6 DEF Owners
  <2>4. QED
    BY <2>1, <2>2, <2>3 DEF Owners
<1>12. Standings'
  <2>1. SUFFICES ASSUME NEW q \in Nodes, Standing(q)' PROVE Stands(q)'
    BY DEF Standings, Stands
  <2>2. Standing(q) /\ Stands(q)
    BY <1>1, <1>4, <1>6, <2>1 DEF Standing, Standings
  <2>3. EntryOf(obj[q].id, q) /\ EntryOf(obj[q].id, q)'
    BY <2>2 DEF Stands, EntryOf
  <2>4. obj[q].id = i => q = n
    BY <1>2, <2>3
  <2>5. \A u \in Threads : Owns(u)' /\ th'[u].id = obj'[q].id => th'[u].node = q
    BY <1>4, <1>6, <2>2, <2>4 DEF Stands
  <2>6. Unheld(q)' => Unheld(q)
    BY <1>4, <1>6 DEF Unheld
  <2>7. Unheld(q)' => Real(obj[q].id)'
    BY <1>10, <2>2, <2>6 DEF Stands, Real, Silent
  <2>8. QED
    BY <2>3, <2>5, <2>7 DEF Stands
<1>13. Claimed'
  <2>1. \A u \in Threads, j \in Ids : Claims(u, j)' => Claims(u, j) /\ (j = i => u # t)
    BY <1>4, <1>6 DEF Claims
  <2>2. \A u \in Threads : Claims(u, i)' => FALSE
    BY <1>1, <2>1 DEF Claimed
  <2>3. ASSUME NEW u \in Threads, NEW j \in Ids, Claims(u, j)'
        PROVE  \E q \in Nodes : FreeEntry(q, j)'
    <3>1. j # i /\ Claims(u, j)
      BY <2>1, <2>2, <2>3
    <3>2. PICK q \in Nodes : FreeEntry(q, j)
      BY <1>1, <3>1 DEF Claimed
    <3>3. q # n
      BY <1>5, <3>1, <3>2 DEF FreeEntry
    <3>4. FreeEntry(q, j)'
      BY <1>4, <1>6, <3>2, <3>3 DEF FreeEntry
    <3>5. QED
      BY <3>4
  <2>4. \A u, v \in Threads, j \in Ids : Claims(u, j)' /\ Claims(v, j)' => u = v
    BY <1>1, <2>1 DEF Claimed
  <2>5. \A u \in Threads : closing'[u] => known'[u] \cap mine'[u] = {}
    BY <1>1 DEF Claimed
  <2>6. \A u \in Threads : Releasing(u)' /\ ~closing'[u] => th'[u].id \notin mine'[u]
    BY <1>1, <1>4, <1>6 DEF Claimed
  <2>7. QED
    BY <2>3, <2>4, <2>5, <2>6 DEF Claimed
<1>14. QED
  BY <1>1, <1>7, <1>8, <1>9, <1>11, <1>12, <1>13 DEF LifeInv, Orderly

LEMMA LifeDestroy ==
  ASSUME LifeInv, TypeInv', NEW t \in Threads, NEW i \in Ids, Destroy(t, i)
  PROVE  LifeInv'
<1>1. /\ th[t].pc = "idle" /\ ~closing[t] /\ i \in known[t]
      /\ mine' = [mine EXCEPT ![t] = @ \ {i}] /\ known' = [known EXCEPT ![t] = @ \ {i}]
      /\ BeginRelease(t, i)
      /\ UNCHANGED <<ida, obj, wait, epts, closing, calls, dev, toR, toL, hung>>
  BY DEF Destroy, At, devs
<1>2. TypeInv
  BY DEF LifeInv
<1>3. /\ mine'[t] = mine[t] \ {i} /\ known'[t] = known[t] \ {i}
      /\ \A u \in Threads : u # t => known'[u] = known[u] /\ mine'[u] = mine[u]
  BY <1>1, <1>2 DEF TypeInv, FilesType
<1>4. Claims(t, i) /\ ~Claims(t, i)'
  BY <1>1, <1>3 DEF Claims
<1>5. \A j \in Ids : Claims(t, j)' => Claims(t, j)
  BY <1>1, <1>3 DEF Claims, Releasing, Busy
<1>6. QED
  BY <1>1, <1>3, <1>4, <1>5, LifeBeginRelease

\* A step that only changes which endpoints a file has, and takes claims away
LEMMA LifeClaims ==
  ASSUME LifeInv, TypeInv', NEW t \in Threads, th[t].pc = "idle",
         \A i \in Ids : Claims(t, i)' => Claims(t, i),
         \A u \in Threads : u # t => /\ known'[u] = known[u] /\ mine'[u] = mine[u]
                                     /\ closing'[u] = closing[u],
         closing'[t] => known'[t] \cap mine'[t] = {},
         UNCHANGED <<ida, obj, wait, epts, th, calls, dev, toR, toL, hung>>
  PROVE  LifeInv'
<1>1. /\ TypeInv /\ Places /\ Queued /\ Messages /\ Owners /\ Standings /\ Claimed /\ Taken
      /\ Orderly /\ ~hung
  BY DEF LifeInv
<1>2. /\ \A q : Entered(q)' <=> Entered(q)
      /\ \A u \in Threads : /\ Busy(u)' <=> Busy(u)
                            /\ Releasing(u)' <=> Releasing(u)
                            /\ Waiting(u)' <=> Waiting(u)
                            /\ Owns(u)' <=> Owns(u)
      /\ ~Busy(t) /\ ~Releasing(t)
  BY DEF Owns, Busy, Releasing, Creating, Waiting, Entered
<1>3. Places'
  <2>1. Placed(t)'
    BY <1>2 DEF Placed
  <2>2. \A u \in Threads : u # t => Placed(u)'
    BY <1>1, <1>2 DEF Places, Placed
  <2>3. QED
    BY <1>1, <1>2, <2>1, <2>2 DEF Places
<1>4. Queued'
  BY <1>1, <1>2, QueuedKept
<1>5. Messages' /\ Taken'
  BY <1>1, MessagesKept
<1>6. Outgoing' = Outgoing /\ Incoming' = Incoming
  BY DEF Outgoing, Incoming
<1>7. Owned(t)'
  BY <1>2 DEF Owned, Owns, Creating, Releasing
<1>8. Owners'
  BY <1>1, <1>2, <1>7, OwnersKept
<1>9. Standings'
  BY <1>1, <1>2, StandingsKept DEF TypeInv
<1>10. Claimed'
  <2>1. \A u \in Threads, j \in Ids : Claims(u, j)' => Claims(u, j)
    BY <1>2 DEF Claims
  <2>2. \A q \in Nodes, j \in Ids : FreeEntry(q, j)' <=> FreeEntry(q, j)
    BY <1>2 DEF FreeEntry
  <2>3. \A u \in Threads : Releasing(u)' /\ ~closing'[u] => th'[u].id \notin mine'[u]
    BY <1>1, <1>2 DEF Claimed
  <2>4. \A u \in Threads : closing'[u] => known'[u] \cap mine'[u] = {}
    BY <1>1 DEF Claimed
  <2>5. \A u \in Threads, j \in Ids : Claims(u, j)' => \E q \in Nodes : FreeEntry(q, j)'
    BY <1>1, <2>1, <2>2 DEF Claimed
  <2>6. \A u, v \in Threads, j \in Ids : Claims(u, j)' /\ Claims(v, j)' => u = v
    BY <1>1, <2>1 DEF Claimed
  <2>7. QED
    BY <2>3, <2>4, <2>5, <2>6 DEF Claimed
<1>11. QED
  BY <1>1, <1>3, <1>4, <1>5, <1>8, <1>9, <1>10 DEF LifeInv, Orderly

LEMMA LifeCloseFile ==
  ASSUME LifeInv, TypeInv', NEW t \in Threads, CloseFile(t)
  PROVE  LifeInv'
<1>1. /\ th[t].pc = "idle" /\ closing' = [closing EXCEPT ![t] = TRUE]
      /\ known' = [known EXCEPT ![t] = @ \ mine[t]] /\ mine' = mine
      /\ UNCHANGED <<ida, obj, wait, epts, th, calls, dev, toR, toL, hung>>
  BY DEF CloseFile, At, devs
<1>2. TypeInv
  BY DEF LifeInv
<1>3. /\ known'[t] = known[t] \ mine[t]
      /\ \A u \in Threads : u # t => /\ known'[u] = known[u] /\ mine'[u] = mine[u]
                                     /\ closing'[u] = closing[u]
  BY <1>1, <1>2 DEF TypeInv, FilesType
<1>4. \A i \in Ids : Claims(t, i)' => Claims(t, i)
  BY <1>1, <1>3 DEF Claims, Releasing, Busy
<1>5. known'[t] \cap mine'[t] = {}
  BY <1>1, <1>3
<1>6. QED
  BY <1>1, <1>3, <1>4, <1>5, LifeClaims

LEMMA LifeAutoRelease ==
  ASSUME LifeInv, TypeInv', NEW t \in Threads, AutoRelease(t)
  PROVE  LifeInv'
<1>1. /\ th[t].pc = "idle" /\ closing[t]
      /\ UNCHANGED <<ida, obj, wait, epts, known, calls, dev, toR, toL, hung>>
  BY DEF AutoRelease, At, devs
<1>2. TypeInv /\ Places /\ Standings /\ Claimed
  BY DEF LifeInv
<1>3. CASE mine[t] = {}
  <2>1. closing' = [closing EXCEPT ![t] = FALSE] /\ th' = th /\ mine' = mine
    BY <1>3 DEF AutoRelease
  <2>2. /\ ~closing'[t]
        /\ \A u \in Threads : u # t => closing'[u] = closing[u]
    BY <1>2, <2>1 DEF TypeInv, FilesType
  <2>3. \A i \in Ids : Claims(t, i)' => Claims(t, i)
    BY <1>1, <2>1 DEF Claims, Releasing, Busy
  <2>4. QED
    BY <1>1, <2>1, <2>2, <2>3, LifeClaims
<1>4. CASE mine[t] # {}
  <2>1. PICK i \in mine[t] :
          /\ BeginRelease(t, i) /\ closing' = closing
          /\ mine' = IF \E n \in Nodes : EntryOf(i, n) THEN mine
                     ELSE [mine EXCEPT ![t] = @ \ {i}]
    BY <1>4 DEF AutoRelease
  <2>2. i \in Ids /\ Claims(t, i)
    BY <1>1, <1>2, <2>1 DEF TypeInv, FilesType, Claims, Releasing, Busy
  <2>3. \E n \in Nodes : EntryOf(i, n)
    BY <1>2, <2>2, ClaimStands
  <2>4. mine' = mine
    BY <2>1, <2>3
  <2>5. th'[t].op = "release" /\ th'[t].id = i /\ th'[t].pc = "found"
    <3>1. PICK n \in Nodes :
            th' = [th EXCEPT ![t] = [Idle EXCEPT !.pc = "found", !.op = "release",
                                                 !.node = n, !.id = i]]
      BY <2>1, <2>3 DEF BeginRelease
    <3>2. QED
      BY <1>2, <3>1 DEF TypeInv, Callers, Idle
  <2>6. known[t] \cap mine[t] = {}
    BY <1>1, <1>2 DEF Claimed
  <2>7. ~Claims(t, i)'
    BY <1>1, <2>1, <2>4, <2>5, <2>6 DEF Claims, Releasing, Busy
  <2>8. \A j \in Ids : Claims(t, j)' => Claims(t, j)
    BY <1>1, <2>4 DEF Claims, Releasing, Busy
  <2>9. QED
    BY <1>1, <2>1, <2>2, <2>4, <2>6, <2>7, <2>8, LifeBeginRelease
<1>5. QED
  BY <1>3, <1>4

\* A call ends, or is entered in the list: only its object and its entry change
LEMMA PlacesEnd ==
  ASSUME Places, NEW t \in Threads, Busy(t), Placed(t)',
         Busy(t)' => th'[t].node = th[t].node,
         \A u \in Threads : u # t => th'[u] = th[u],
         \A c \in Cells : c # th[t].node => obj'[c] = obj[c], UNCHANGED closing,
         \A q \in Nodes : q # th[t].node => (Entered(q)' <=> Entered(q)),
         \A q \in Nodes : q = th[t].node /\ Entered(q)' => obj'[q] = obj[q],
         \A j, k \in DOMAIN epts' : epts'[j] = epts'[k] => j = k
  PROVE  Places'
<1> DEFINE n == th[t].node
<1>1. /\ n \in Nodes /\ obj[n].used /\ obj[n].id \in Ids /\ n # Ctrl
      /\ \A u \in Threads : u # t /\ Busy(u) => th[u].node # n
  BY DEF Places, Placed
<1> HIDE DEF n
<1>2. ASSUME NEW u \in Threads, u # t PROVE Placed(u)'
  <2>1. SUFFICES ASSUME Busy(u) PROVE Placed(u)'
    BY <1>2 DEF Placed, Busy
  <2>2. /\ Placed(u) /\ th[u].node \in Nodes /\ th[u].node # n
        /\ obj'[th[u].node] = obj[th[u].node] /\ th'[u] = th[u]
    BY <1>1, <1>2, <2>1 DEF Places, Placed, Cells, n
  <2>3. \A q \in Nodes : q # n => (Entered(q)' <=> Entered(q))
    BY DEF n
  <2>4. QED
    BY <2>1, <2>2, <2>3 DEF Placed, Busy
<1>3. \A u, v \in Threads : Busy(u)' /\ Busy(v)' /\ th'[u].node = th'[v].node => u = v
  <2>1. \A u \in Threads : Busy(u)' => Busy(u) /\ th'[u].node = th[u].node
    BY DEF Busy
  <2>2. QED
    BY <2>1 DEF Places
<1>4. ASSUME NEW q \in Nodes, Entered(q)' PROVE obj'[q].used /\ obj'[q].id \in Ids
  <2>1. CASE q = n
    <3>1. obj'[q] = obj[q]
      BY <1>4, <2>1 DEF n
    <3>2. QED
      BY <1>1, <2>1, <3>1
  <2>2. CASE q # n
    <3>1. Entered(q) /\ obj'[q] = obj[q]
      BY <1>4, <2>2 DEF n, Cells
    <3>2. QED
      BY <3>1 DEF Places
  <2>3. QED
    BY <2>1, <2>2
<1>5. obj'[Ctrl].id = 0
  BY <1>1 DEF Places, Cells, n
<1>6. \A u \in Threads : Placed(u)'
  BY <1>2
<1>7. QED
  BY <1>3, <1>4, <1>5, <1>6 DEF Places

LEMMA ClaimedKept ==
  ASSUME Claimed,
         \A u \in Threads, j \in Ids : Claims(u, j)' => Claims(u, j),
         \A q \in Nodes, j \in Ids : FreeEntry(q, j) => FreeEntry(q, j)',
         \A u \in Threads : closing'[u] => known'[u] \cap mine'[u] = {},
         \A u \in Threads : Releasing(u)' /\ ~closing'[u] => th'[u].id \notin mine'[u]
  PROVE  Claimed'
<1>1. \A u \in Threads, j \in Ids : Claims(u, j)' => \E q \in Nodes : FreeEntry(q, j)'
  BY DEF Claimed
<1>2. \A u, v \in Threads, j \in Ids : Claims(u, j)' /\ Claims(v, j)' => u = v
  BY DEF Claimed
<1>3. QED
  BY <1>1, <1>2 DEF Claimed

LEMMA LifeNotifyDel ==
  ASSUME LifeInv, TypeInv', NEW t \in Threads, NotifyDel(t)
  PROVE  LifeInv'
<1> DEFINE n == th[t].node
           i == th[t].id
<1>1. /\ th[t].pc = "del" /\ wait' = Unlinked(wait, n)
      /\ mine' = (IF closing[t] /\ th[t].res = "unsent" THEN [mine EXCEPT ![t] = @ \ {i}]
                                                        ELSE mine)
      /\ UNCHANGED <<ida, epts, closing, known, calls, dev, toR, toL, hung>>
  BY DEF NotifyDel, At, devs
<1>2. /\ TypeInv /\ Places /\ Queued /\ Messages /\ Owners /\ Standings /\ Claimed /\ Taken
      /\ Orderly /\ ~hung
  BY DEF LifeInv
<1>3. /\ Busy(t) /\ n \in Nodes /\ i \in Ids /\ obj[n].id = i
      /\ th[t].op = "create" \/ th[t].op = "release"
      /\ th[t].op = "create" => ~closing[t] /\ ~Entered(n)
      /\ th[t].op = "release" => Entered(n)
      /\ Waiting(t)
  BY <1>1, <1>2 DEF Busy, Places, Placed, Waiting
<1>4. \/ th[t].op = "create" /\ th[t].res = "ok" /\ Goto(t, "list") /\ obj' = obj
      \/ th[t].op = "create" /\ Return(t) /\ obj' = [obj EXCEPT ![n] = FreeObj]
      \/ th[t].op = "release" /\ th[t].res # "unsent" /\ Goto(t, "drop") /\ obj' = obj
      \/ th[t].op = "release" /\ th[t].res = "unsent" /\ Return(t) /\ obj' = obj
  BY <1>3 DEF NotifyDel
<1>5. /\ \A u \in Threads : u # t => th'[u] = th[u]
      /\ th'[t].pc \in {"list", "drop", "idle"}
      /\ \A c \in Cells : c # n => obj'[c] = obj[c]
  <2>1. CASE Goto(t, "list") \/ Goto(t, "drop")
    BY <1>2, <1>4, <2>1, Moved DEF TypeInv
  <2>2. CASE Return(t)
    BY <1>2, <1>4, <2>2 DEF TypeInv, Callers, Return, Idle
  <2>3. QED
    BY <1>4, <2>1, <2>2
<1>6. \A u \in Threads : u # t =>
        /\ Busy(u)' <=> Busy(u)
        /\ Releasing(u)' <=> Releasing(u)
        /\ Waiting(u)' <=> Waiting(u)
        /\ Owns(u)' <=> Owns(u)
        /\ Busy(u) => th[u].node # n /\ obj'[th[u].node] = obj[th[u].node]
  <2>1. \A u \in Threads : u # t /\ Busy(u) => th[u].node # n /\ th[u].node \in Cells
    BY <1>2, <1>3 DEF Places, Placed, Cells
  <2>2. QED
    BY <1>5, <2>1 DEF Owns, Busy, Releasing, Creating, Waiting
<1>7. Queued'
  <2>1. ~Waiting(t)'
    BY <1>5 DEF Waiting
  <2>2. \A u \in Threads : Waiting(u) => Busy(u)
    BY DEF Waiting, Busy
  <2>3. QED
    BY <1>1, <1>2, <1>3, <1>5, <1>6, <2>1, <2>2, QueuedUnlinked
<1>8. Outgoing' = Outgoing /\ Incoming' = Incoming
  BY <1>1 DEF Outgoing, Incoming
<1>9. CASE th[t].op = "create" /\ th[t].res = "ok" /\ Goto(t, "list") /\ obj' = obj
  <2>1. th'[t].pc = "list" /\ th'[t].op = th[t].op /\ th'[t].node = n /\ th'[t].id = i
    BY <1>2, <1>9, Moved
  <2>2. Owns(t) /\ Confirmed(t) /\ Stamped(t) /\ CreationOk(t)
    BY <1>1, <1>2, <1>3, <1>9 DEF Owns, Creating, Confirmed, Owners, Owned
  <2>3. Stamped(t)'
    BY <1>1, <1>8, <2>1, <2>2 DEF Stamped
  <2>4. CreationOk(t)'
    BY <1>1, <1>8, <2>1, <2>2 DEF CreationOk, Real, Silent
  <2>5. Owned(t)'
    BY <1>9, <2>1, <2>3, <2>4 DEF Owned
  <2>6. mine' = mine
    BY <1>1, <1>9
  <2>7. QED
    BY <1>1, <1>3, <1>5, <1>7, <1>9, <2>1, <2>2, <2>5, <2>6, LifeGoesOn
<1>10. CASE th[t].op = "release" /\ th[t].res # "unsent" /\ Goto(t, "drop") /\ obj' = obj
  <2>1. th'[t].pc = "drop" /\ th'[t].op = th[t].op /\ th'[t].node = n /\ th'[t].id = i
    BY <1>2, <1>10, Moved
  <2>2. ~Owns(t)'
    BY <1>10, <2>1 DEF Owns, Creating, Releasing
  <2>3. Owned(t)'
    BY <2>2 DEF Owned
  <2>4. mine' = mine
    BY <1>1, <1>10
  <2>5. QED
    BY <1>1, <1>3, <1>5, <1>7, <1>10, <2>1, <2>2, <2>3, <2>4, LifeGoesOn
<1>11. CASE Return(t)
  <2>1. th'[t].pc = "idle" /\ ~Busy(t)' /\ ~Owns(t)' /\ ~Releasing(t)'
    BY <1>2, <1>11 DEF TypeInv, Callers, Return, Idle, Busy, Owns, Creating, Releasing
  <2>10. th[t].op = "release" => obj' = obj /\ th[t].res = "unsent"
    <3>1. ~Goto(t, "drop")
      <4>1. SUFFICES ASSUME Goto(t, "drop") PROVE FALSE
        OBVIOUS
      <4>2. th'[t].pc = "drop"
        BY <1>2, <4>1, Moved
      <4>3. QED
        BY <2>1, <4>2
    <3>2. QED
      BY <1>4, <3>1
  <2>2. \A q \in Nodes : Entered(q) =>
          /\ obj'[q] = obj[q]
          /\ q = n => th[t].op = "release"
    <3>1. obj' = obj \/ ~Entered(n)
      BY <1>3, <1>4
    <3>2. QED
      BY <1>3, <1>5, <3>1 DEF Cells
  <2>3. \A q : Entered(q)' <=> Entered(q)
    BY <1>1 DEF Entered
  <2>4. Places'
    <3>1. Placed(t)'
      BY <2>1 DEF Placed
    <3>2. \A q \in Nodes : q = n /\ Entered(q)' => obj'[q] = obj[q]
      BY <2>2, <2>3
    <3>3. \A j, k \in DOMAIN epts' : epts'[j] = epts'[k] => j = k
      BY <1>1, <1>2 DEF Places
    <3>4. QED
      BY <1>1, <1>2, <1>3, <1>5, <2>1, <2>3, <3>1, <3>2, <3>3, PlacesEnd
  <2>5. Owners'
    <3>1. Owned(t)'
      BY <2>1 DEF Owned
    <3>2. QED
      BY <1>1, <1>2, <1>5, <1>6, <2>1, <3>1, OwnersKept
  <2>6. Messages' /\ Taken'
    BY <1>1, <1>2, MessagesKept
  <2>7. Standings'
    <3>1. CASE th[t].op = "create"
      <4>1. ~Releasing(t)
        BY <3>1 DEF Releasing
      <4>2. QED
        BY <1>1, <1>2, <1>5, <1>6, <2>1, <2>2, <4>1, StandingsKept DEF TypeInv, Releasing
    <3>2. CASE th[t].op = "release"
      <4>1. obj' = obj /\ th[t].res = "unsent" /\ Owns(t)
        BY <1>1, <1>3, <2>10, <3>2 DEF Owns, Releasing
      <4>2. Real(i)
        BY <1>1, <1>2, <3>2, <4>1 DEF Owners, Owned, ReleaseOk
      <4>3. SUFFICES ASSUME NEW q \in Nodes, Standing(q)' PROVE Stands(q)'
        BY DEF Standings, Stands
      <4>4. Standing(q)
        <5>1. Entered(q)
          BY <2>3, <4>3 DEF Standing
        <5>2. \A u \in Threads : u # t /\ Releasing(u) /\ th[u].node = q => Owns(u)
          BY <1>5, <1>6, <4>3 DEF Standing
        <5>3. QED
          BY <4>1, <5>1, <5>2 DEF Standing
      <4>5. EntryOf(obj[q].id, q)'
        BY <1>1, <1>2, <4>1, <4>4 DEF Standings, Stands, EntryOf
      <4>6. \A u \in Threads : Owns(u)' /\ th'[u].id = obj'[q].id => th'[u].node = q
        BY <1>2, <1>5, <1>6, <2>1, <4>1, <4>4 DEF Standings, Stands
      <4>7. Unheld(q)' => Real(obj[q].id)
        <5>1. CASE q = n
          BY <1>3, <4>2, <5>1
        <5>2. CASE q # n
          <6>1. Unheld(q)' => Unheld(q)
            BY <1>5, <1>6, <5>2 DEF Unheld
          <6>2. QED
            BY <1>2, <4>4, <6>1 DEF Standings, Stands
        <5>3. QED
          BY <5>1, <5>2
      <4>8. Unheld(q)' => Real(obj[q].id)'
        BY <1>1, <1>8, <4>1, <4>7 DEF Real, Silent
      <4>9. QED
        BY <4>1, <4>5, <4>6, <4>8 DEF Stands
    <3>3. QED
      BY <1>3, <3>1, <3>2
  <2>8. Claimed'
    <3>1. \A u \in Threads : u # t => mine'[u] = mine[u]
      BY <1>1, <1>2 DEF TypeInv, FilesType
    <3>2. mine'[t] \subseteq mine[t] /\ (th[t].op = "release" => i \notin mine'[t])
      <4>1. mine'[t] \subseteq mine[t]
        BY <1>1, <1>2 DEF TypeInv, FilesType
      <4>2. ASSUME th[t].op = "release", closing[t] PROVE i \notin mine'[t]
        <5>1. th[t].res = "unsent"
          BY <2>10, <4>2
        <5>2. QED
          BY <1>1, <1>2, <4>2, <5>1 DEF TypeInv, FilesType
      <4>3. ASSUME th[t].op = "release", ~closing[t] PROVE i \notin mine'[t]
        BY <1>1, <1>2, <1>3, <4>3 DEF Claimed, Releasing
      <4>4. QED
        BY <4>1, <4>2, <4>3
    <3>3. \A u \in Threads, j \in Ids : Claims(u, j)' => Claims(u, j)
      BY <1>1, <1>5, <1>6, <2>1, <3>1, <3>2 DEF Claims, Releasing
    <3>4. \A q \in Nodes, j \in Ids : FreeEntry(q, j) => FreeEntry(q, j)'
      BY <1>5, <1>6, <2>1, <2>2, <2>3 DEF FreeEntry
    <3>5. \A u \in Threads : closing'[u] => known'[u] \cap mine'[u] = {}
      BY <1>1, <1>2, <3>1, <3>2 DEF Claimed
    <3>6. \A u \in Threads : Releasing(u)' /\ ~closing'[u] => th'[u].id \notin mine'[u]
      BY <1>1, <1>2, <1>5, <1>6, <2>1, <3>1 DEF Claimed
    <3>7. QED
      BY <1>2, <3>3, <3>4, <3>5, <3>6, ClaimedKept
  <2>9. QED
    BY <1>1, <1>2, <1>7, <2>4, <2>5, <2>6, <2>7, <2>8 DEF LifeInv, Orderly
<1>12. QED
  BY <1>4, <1>9, <1>10, <1>11

LEMMA LifeBind ==
  ASSUME LifeInv, TypeInv', NEW t \in Threads, Bind(t)
  PROVE  LifeInv'
<1> DEFINE n == th[t].node
           i == th[t].id
<1>1. /\ th[t].pc = "bind" /\ Return(t)
      /\ mine' = [mine EXCEPT ![t] = @ \cup {i}]
      /\ known' = IF i \in mine[t] THEN known ELSE [known EXCEPT ![t] = @ \cup {i}]
      /\ UNCHANGED <<ida, obj, wait, epts, closing, calls, dev, toR, toL, hung>>
  BY DEF Bind, devs
<1>2. /\ TypeInv /\ Places /\ Queued /\ Messages /\ Owners /\ Standings /\ Claimed /\ Taken
      /\ Orderly /\ ~hung
  BY DEF LifeInv
<1>3. /\ Busy(t) /\ n \in Nodes /\ i \in Ids /\ obj[n].id = i /\ ~closing[t] /\ Entered(n)
      /\ ~Waiting(t) /\ ~Releasing(t) /\ ~Owns(t)
  BY <1>1, <1>2 DEF Busy, Places, Placed, Waiting, Releasing, Owns, Creating
<1>4. /\ th'[t].pc = "idle" /\ \A u \in Threads : u # t => th'[u] = th[u]
  BY <1>1, <1>2 DEF TypeInv, Callers, Return, Idle
<1>5. /\ \A u \in Threads : u # t => /\ Busy(u)' <=> Busy(u)
                                     /\ Releasing(u)' <=> Releasing(u)
                                     /\ Waiting(u)' <=> Waiting(u)
                                     /\ Owns(u)' <=> Owns(u)
      /\ ~Busy(t)' /\ ~Releasing(t)' /\ ~Waiting(t)' /\ ~Owns(t)'
      /\ \A q : Entered(q)' <=> Entered(q)
  BY <1>1, <1>4 DEF Owns, Busy, Releasing, Creating, Waiting, Entered
<1>6. Places'
  <2>1. Placed(t)'
    BY <1>5 DEF Placed
  <2>2. \A j, k \in DOMAIN epts' : epts'[j] = epts'[k] => j = k
    BY <1>1, <1>2 DEF Places
  <2>3. QED
    BY <1>1, <1>2, <1>3, <1>4, <1>5, <2>1, <2>2, PlacesEnd
<1>7. Queued'
  BY <1>1, <1>2, <1>3, <1>4, <1>5, QueuedKept
<1>8. Messages' /\ Taken'
  BY <1>1, <1>2, MessagesKept
<1>9. Owners'
  <2>1. Owned(t)'
    BY <1>5 DEF Owned
  <2>2. QED
    BY <1>1, <1>2, <1>4, <1>5, <2>1, OwnersKept
<1>10. Standings'
  BY <1>1, <1>2, <1>3, <1>4, <1>5, StandingsKept DEF TypeInv
<1>11. /\ \A q \in Nodes, j \in Ids : q = n /\ j = i => FreeEntry(q, j)'
      /\ \A u \in Threads : ~Claims(u, i)
  <2>1. \A u \in Threads : u # t /\ Busy(u) => th[u].node # n
    BY <1>2, <1>3 DEF Places
  <2>2. \A q \in Nodes, j \in Ids : q = n /\ j = i => FreeEntry(q, j)'
    BY <1>1, <1>3, <1>4, <1>5, <2>1 DEF FreeEntry
  <2>3. Standing(n)
    BY <1>3, <2>1 DEF Standing, Releasing
  <2>4. EntryOf(i, n)
    BY <1>2, <1>3, <2>3 DEF Standings, Stands
  <2>5. ASSUME NEW u \in Threads, Claims(u, i) PROVE FALSE
    <3>1. PICK q \in Nodes : FreeEntry(q, i) /\ EntryOf(i, q)
      BY <1>2, <1>3, <2>5, ClaimStands
    <3>2. q = n
      BY <1>2, <2>4, <3>1, EntryUnique DEF TypeInv
    <3>3. QED
      BY <1>3, <3>1, <3>2 DEF FreeEntry
  <2>6. QED
    BY <2>2, <2>5
<1>12. Claimed'
  <2>1. i \notin mine[t] /\ i \notin known[t]
    BY <1>3, <1>11 DEF Claims
  <2>2. /\ mine'[t] = mine[t] \cup {i} /\ known'[t] = known[t] \cup {i}
        /\ \A u \in Threads : u # t => mine'[u] = mine[u] /\ known'[u] = known[u]
    BY <1>1, <1>2, <2>1 DEF TypeInv, FilesType
  <2>3. \A u \in Threads, j \in Ids : Claims(u, j)' => Claims(u, j) \/ (u = t /\ j = i)
    BY <1>3, <1>4, <1>5, <2>2 DEF Claims
  <2>4. \A q \in Nodes, j \in Ids : FreeEntry(q, j) => FreeEntry(q, j)'
    BY <1>1, <1>4, <1>5 DEF FreeEntry
  <2>5. ASSUME NEW u \in Threads, NEW j \in Ids, Claims(u, j)'
        PROVE  \E q \in Nodes : FreeEntry(q, j)'
    <3>1. CASE Claims(u, j)
      BY <1>2, <2>4, <3>1 DEF Claimed
    <3>2. CASE j = i
      BY <1>3, <1>11, <3>2
    <3>3. QED
      BY <2>3, <2>5, <3>1, <3>2
  <2>6. \A u, v \in Threads, j \in Ids : Claims(u, j)' /\ Claims(v, j)' => u = v
    BY <1>2, <1>11, <2>3 DEF Claimed
  <2>7. \A u \in Threads : closing'[u] => known'[u] \cap mine'[u] = {}
    BY <1>1, <1>2, <1>3, <2>2 DEF Claimed
  <2>8. \A u \in Threads : Releasing(u)' /\ ~closing'[u] => th'[u].id \notin mine'[u]
    BY <1>1, <1>2, <1>4, <1>5, <2>2 DEF Claimed
  <2>9. QED
    BY <2>5, <2>6, <2>7, <2>8 DEF Claimed
<1>13. QED
  BY <1>1, <1>2, <1>6, <1>7, <1>8, <1>9, <1>10, <1>12 DEF LifeInv, Orderly

LEMMA LifeEptsAdd ==
  ASSUME LifeInv, TypeInv', NEW t \in Threads, EptsAdd(t)
  PROVE  LifeInv'
<1> DEFINE n == th[t].node
           i == th[t].id
<1>1. /\ th[t].pc = "list" /\ epts' = <<n>> \o epts
      /\ \/ Goto(t, "bind") /\ known' = known
         \/ Return(t) /\ known' = [known EXCEPT ![t] = @ \cup {i}]
      /\ UNCHANGED <<ida, obj, wait, mine, closing, calls, dev, toR, toL, hung>>
  BY DEF EptsAdd, At, devs
<1>2. /\ TypeInv /\ Places /\ Queued /\ Messages /\ Owners /\ Standings /\ Claimed /\ Taken
      /\ Orderly /\ ~hung
  BY DEF LifeInv
<1>3. /\ Busy(t) /\ n \in Nodes /\ i \in Ids /\ obj[n].id = i /\ obj[n].used /\ ~closing[t]
      /\ th[t].op = "create" /\ ~Entered(n) /\ ~Waiting(t) /\ ~Releasing(t) /\ Owns(t)
      /\ \A u \in Threads : u # t /\ Busy(u) => th[u].node # n
  BY <1>1, <1>2 DEF Busy, Places, Placed, Waiting, Releasing, Owns, Creating
<1>4. Real(i) /\ \A u \in Threads : u # t /\ Owns(u) => th[u].id # i
  BY <1>1, <1>2, <1>3 DEF Owners, Owned, CreationOk, Confirmed
<1>5. /\ \A u \in Threads : u # t => th'[u] = th[u]
      /\ \/ th'[t].pc = "bind" /\ th'[t].op = "create" /\ known' = known
         \/ th'[t].pc = "idle" /\ known' = [known EXCEPT ![t] = @ \cup {i}]
      /\ th'[t].pc = "bind" => th'[t].node = n /\ th'[t].id = i
  <2>1. CASE Goto(t, "bind") /\ known' = known
    <3>1. /\ th'[t].pc = "bind" /\ th'[t].op = th[t].op /\ th'[t].node = n /\ th'[t].id = i
          /\ \A u \in Threads : u # t => th'[u] = th[u]
      BY <1>2, <2>1, Moved
    <3>2. QED
      BY <1>3, <2>1, <3>1
  <2>2. CASE Return(t) /\ known' = [known EXCEPT ![t] = @ \cup {i}]
    BY <1>2, <2>2 DEF TypeInv, Callers, Return, Idle
  <2>3. QED
    BY <1>1, <2>1, <2>2
<1>6. /\ DOMAIN epts' = 1..(Len(epts) + 1) /\ DOMAIN epts = 1..Len(epts) /\ Len(epts) \in Nat
      /\ epts'[1] = n /\ \A k \in DOMAIN epts : epts'[k + 1] = epts[k] /\ k + 1 \in DOMAIN epts'
      /\ \A k \in DOMAIN epts' : k # 1 => k - 1 \in DOMAIN epts /\ epts'[k] = epts[k - 1]
      /\ 1 \in DOMAIN epts'
  <2>1. /\ DOMAIN epts' = 1..(Len(epts) + 1) /\ DOMAIN epts = 1..Len(epts) /\ Len(epts) \in Nat
        /\ epts'[1] = n /\ \A k \in DOMAIN epts : epts'[k + 1] = epts[k]
    BY <1>1, <1>2, <1>3, Prepended, LenProperties DEF TypeInv
  <2>2. ASSUME NEW k \in DOMAIN epts', k # 1
        PROVE  k - 1 \in DOMAIN epts /\ epts'[k] = epts[k - 1]
    <3>1. k - 1 \in DOMAIN epts /\ (k - 1) + 1 = k
      BY <2>1, <2>2
    <3>2. QED
      BY <2>1, <3>1
  <2>3. QED
    BY <2>1, <2>2
<1>7. \A q : Entered(q)' <=> Entered(q) \/ q = n
  BY <1>6 DEF Entered
<1>8. /\ \A u \in Threads : u # t => /\ Busy(u)' <=> Busy(u)
                                     /\ Releasing(u)' <=> Releasing(u)
                                     /\ Waiting(u)' <=> Waiting(u)
                                     /\ Owns(u)' <=> Owns(u)
      /\ ~Releasing(t)' /\ ~Waiting(t)' /\ ~Owns(t)'
      /\ Busy(t)' => th'[t].pc = "bind"
  BY <1>1, <1>5 DEF Owns, Busy, Releasing, Creating, Waiting
<1>9. Places'
  <2>1. Placed(t)'
    BY <1>1, <1>3, <1>5, <1>7, <1>8 DEF Placed
  <2>2. \A j, k \in DOMAIN epts' : epts'[j] = epts'[k] => j = k
    <3>1. \A k \in DOMAIN epts : epts[k] # n
      BY <1>3 DEF Entered
    <3>2. ASSUME NEW j \in DOMAIN epts', NEW k \in DOMAIN epts', epts'[j] = epts'[k] PROVE j = k
      <4>1. j = 1 <=> k = 1
        BY <1>6, <3>1, <3>2
      <4>2. CASE j # 1
        <5>1. /\ j - 1 \in DOMAIN epts /\ k - 1 \in DOMAIN epts
              /\ epts[j - 1] = epts[k - 1]
          BY <1>6, <3>2, <4>1, <4>2
        <5>2. j - 1 = k - 1
          BY <1>2, <5>1 DEF Places
        <5>3. j \in Nat /\ k \in Nat
          BY <1>6
        <5>4. QED
          BY <5>2, <5>3
      <4>3. QED
        BY <4>1, <4>2
    <3>3. QED
      BY <3>2
  <2>3. QED
    BY <1>1, <1>2, <1>3, <1>5, <1>7, <1>8, <2>1, <2>2, PlacesEnd
<1>10. Queued'
  BY <1>1, <1>2, <1>3, <1>5, <1>8, QueuedKept
<1>11. Messages' /\ Taken'
  BY <1>1, <1>2, MessagesKept
<1>12. Outgoing' = Outgoing /\ Incoming' = Incoming
  BY <1>1 DEF Outgoing, Incoming
<1>13. Owners'
  <2>1. Owned(t)'
    BY <1>8 DEF Owned
  <2>2. QED
    BY <1>1, <1>2, <1>5, <1>8, <2>1, OwnersKept
<1>14. Standings'
  <2>1. SUFFICES ASSUME NEW q \in Nodes, Standing(q)' PROVE Stands(q)'
    BY DEF Standings, Stands
  <2>2. CASE q = n
    <3>1. EntryOf(obj[q].id, q)'
      BY <1>1, <1>6, <2>2 DEF EntryOf
    <3>2. \A u \in Threads : Owns(u)' => th'[u].id # obj'[q].id
      BY <1>1, <1>3, <1>4, <1>5, <1>8, <2>2
    <3>3. obj'[q].id = i /\ dev'[i] = "bound" /\ Silent(i)
      BY <1>1, <1>3, <1>4, <2>2 DEF Real
    <3>4. Real(obj[q].id)'
      BY <1>12, <3>3 DEF Real, Silent
    <3>5. QED
      BY <3>1, <3>2, <3>4 DEF Stands
  <2>3. CASE q # n
    <3>1. Standing(q) /\ Stands(q)
      BY <1>2, <1>5, <1>7, <1>8, <2>1, <2>3 DEF Standing, Standings
    <3>2. obj[q].id # i
      BY <1>3, <2>3, <3>1 DEF Stands
    <3>3. EntryOf(obj[q].id, q)'
      <4>1. PICK k \in DOMAIN epts : /\ epts[k] = q
                                    /\ \A j \in 1..(k - 1) : obj[epts[j]].id # obj[q].id
        BY <3>1 DEF Stands, EntryOf
      <4>2. k + 1 \in DOMAIN epts' /\ epts'[k + 1] = q
        BY <1>6, <4>1
      <4>3. ASSUME NEW j \in 1..((k + 1) - 1) PROVE obj'[epts'[j]].id # obj'[q].id
        <5>1. CASE j = 1
          BY <1>1, <1>3, <1>6, <3>2, <5>1
        <5>2. CASE j # 1
          <6>1. j - 1 \in 1..(k - 1) /\ j \in DOMAIN epts'
            BY <1>6, <4>3, <5>2
          <6>2. epts'[j] = epts[j - 1]
            BY <1>6, <5>2, <6>1
          <6>3. QED
            BY <1>1, <4>1, <6>1, <6>2
        <5>3. QED
          BY <5>1, <5>2
      <4>4. QED
        BY <4>2, <4>3 DEF EntryOf
    <3>4. \A u \in Threads : Owns(u)' /\ th'[u].id = obj'[q].id => th'[u].node = q
      BY <1>1, <1>5, <1>8, <3>1 DEF Stands
    <3>5. Unheld(q)' => Unheld(q)
      BY <1>3, <1>5, <1>8 DEF Unheld
    <3>6. Unheld(q)' => Real(obj[q].id)'
      BY <1>1, <1>12, <3>1, <3>5 DEF Stands, Real, Silent
    <3>7. QED
      BY <3>3, <3>4, <3>6 DEF Stands
  <2>4. QED
    BY <2>2, <2>3
<1>15. \A u \in Threads : ~Claims(u, i)
  BY <1>2, <1>3, ClaimStands
<1>16. \A q \in Nodes, j \in Ids : FreeEntry(q, j) => FreeEntry(q, j)'
  <2>1. SUFFICES ASSUME NEW q \in Nodes, NEW j \in Ids, FreeEntry(q, j)
                 PROVE  FreeEntry(q, j)'
    OBVIOUS
  <2>2. q # n
    BY <1>3, <2>1 DEF FreeEntry
  <2>3. QED
    BY <1>1, <1>5, <1>7, <1>8, <2>1, <2>2 DEF FreeEntry
<1>17. Claimed'
  <2>1. /\ \A u \in Threads : u # t => known'[u] = known[u]
        /\ known'[t] = known[t] \/ (known'[t] = known[t] \cup {i} /\ th'[t].pc = "idle")
    BY <1>2, <1>5 DEF TypeInv, FilesType
  <2>2. \A u \in Threads, j \in Ids :
          Claims(u, j)' => Claims(u, j) \/ (u = t /\ j = i /\ th'[t].pc = "idle")
    BY <1>1, <1>3, <1>5, <1>8, <2>1 DEF Claims
  <2>3. ASSUME NEW u \in Threads, NEW j \in Ids, Claims(u, j)'
        PROVE  \E q \in Nodes : FreeEntry(q, j)'
    <3>1. CASE Claims(u, j)
      BY <1>2, <1>16, <3>1 DEF Claimed
    <3>2. CASE j = i /\ th'[t].pc = "idle"
      <4>1. \A v \in Threads : Busy(v)' => th'[v].node # n
        BY <1>3, <1>5, <1>8, <3>2 DEF Busy
      <4>2. \A q \in Nodes : q = n => FreeEntry(q, j)'
        BY <1>1, <1>3, <1>7, <3>2, <4>1 DEF FreeEntry
      <4>3. QED
        BY <1>3, <4>2
    <3>3. QED
      BY <2>2, <2>3, <3>1, <3>2
  <2>4. \A u, v \in Threads, j \in Ids : Claims(u, j)' /\ Claims(v, j)' => u = v
    BY <1>2, <1>15, <2>2 DEF Claimed
  <2>5. \A u \in Threads : closing'[u] => known'[u] \cap mine'[u] = {}
    BY <1>1, <1>2, <1>3, <2>1 DEF Claimed
  <2>6. \A u \in Threads : Releasing(u)' /\ ~closing'[u] => th'[u].id \notin mine'[u]
    BY <1>1, <1>2, <1>5, <1>8 DEF Claimed
  <2>7. QED
    BY <2>3, <2>4, <2>5, <2>6 DEF Claimed
<1>18. QED
  BY <1>1, <1>2, <1>9, <1>10, <1>11, <1>13, <1>14, <1>17 DEF LifeInv, Orderly

LEMMA LifeEptsDel ==
  ASSUME LifeInv, TypeInv', NEW t \in Threads, EptsDel(t)
  PROVE  LifeInv'
<1> DEFINE n == th[t].node
           i == th[t].id
<1>1. /\ th[t].pc = "drop" /\ Return(t)
      /\ mine' = (IF closing[t] THEN [mine EXCEPT ![t] = @ \ {i}] ELSE mine)
      /\ UNCHANGED <<ida, wait, closing, known, calls, dev, toR, toL, hung>>
  BY DEF EptsDel, At, devs
<1>2. /\ TypeInv /\ Places /\ Queued /\ Messages /\ Owners /\ Standings /\ Claimed /\ Taken
      /\ Orderly /\ ~hung
  BY DEF LifeInv
<1>3. /\ Busy(t) /\ n \in Nodes /\ i \in Ids /\ obj[n].id = i /\ th[t].op = "release"
      /\ Entered(n) /\ ~Waiting(t) /\ Releasing(t) /\ ~Owns(t)
      /\ \A u \in Threads : u # t /\ Busy(u) => th[u].node # n
  BY <1>1, <1>2 DEF Busy, Places, Placed, Waiting, Releasing, Owns, Creating
<1>4. /\ th'[t].pc = "idle" /\ \A u \in Threads : u # t => th'[u] = th[u]
  BY <1>1, <1>2 DEF TypeInv, Callers, Return, Idle
<1>5. PICK x \in DOMAIN epts : epts[x] = n /\ epts' = Without(epts, x)
  BY <1>3 DEF EptsDel
<1>6. /\ DOMAIN epts = 1..Len(epts) /\ Len(epts) \in Nat /\ DOMAIN epts' = 1..(Len(epts) - 1)
      /\ \A j \in DOMAIN epts' : /\ j \in DOMAIN epts /\ j + 1 \in DOMAIN epts
                                 /\ epts'[j] = IF j < x THEN epts[j] ELSE epts[j + 1]
      /\ \A j, k \in DOMAIN epts : epts[j] = epts[k] => j = k
  BY <1>2, <1>5, Shortened, LenProperties DEF TypeInv, Places
<1>7. \A q \in Nodes : Entered(q)' <=> Entered(q) /\ q # n
  <2>1. ASSUME NEW q \in Nodes, Entered(q)' PROVE Entered(q) /\ q # n
    <3>1. PICK j \in DOMAIN epts' : epts'[j] = q
      BY <2>1 DEF Entered
    <3>2. PICK k \in DOMAIN epts : epts[k] = q /\ k # x
      <4>1. j \in Nat /\ x \in Nat
        BY <1>6
      <4>2. CASE j < x
        BY <1>6, <3>1, <4>1, <4>2
      <4>3. CASE ~(j < x)
        <5>1. j + 1 # x /\ j + 1 \in DOMAIN epts /\ epts[j + 1] = q
          BY <1>6, <3>1, <4>1, <4>3
        <5>2. QED
          BY <5>1
      <4>4. QED
        BY <4>2, <4>3
    <3>3. QED
      BY <1>5, <1>6, <3>2 DEF Entered
  <2>2. ASSUME NEW q \in Nodes, Entered(q), q # n PROVE Entered(q)'
    <3>1. PICK k \in DOMAIN epts : epts[k] = q
      BY <2>2 DEF Entered
    <3>2. k \in Nat /\ x \in Nat /\ k # x /\ k \in 1..Len(epts) /\ x \in 1..Len(epts)
      BY <1>5, <1>6, <2>2, <3>1
    <3>3. CASE k < x
      <4>1. k \in DOMAIN epts' /\ epts'[k] = q
        BY <1>6, <3>1, <3>2, <3>3
      <4>2. QED
        BY <4>1 DEF Entered
    <3>4. CASE k > x
      <4>1. k - 1 \in 1..(Len(epts) - 1) /\ ~(k - 1 < x) /\ (k - 1) + 1 = k
        BY <1>6, <3>2, <3>4
      <4>2. k - 1 \in DOMAIN epts' /\ epts'[k - 1] = q
        BY <1>6, <3>1, <4>1
      <4>3. QED
        BY <4>2 DEF Entered
    <3>5. QED
      BY <3>2, <3>3, <3>4
  <2>3. QED
    BY <2>1, <2>2
<1>8. \A c \in Cells : c # n => obj'[c] = obj[c]
  BY <1>3 DEF EptsDel, Dropped
<1>9. /\ \A u \in Threads : u # t => /\ Busy(u)' <=> Busy(u)
                                     /\ Releasing(u)' <=> Releasing(u)
                                     /\ Waiting(u)' <=> Waiting(u)
                                     /\ Owns(u)' <=> Owns(u)
                                     /\ Busy(u) => obj'[th[u].node] = obj[th[u].node]
      /\ ~Busy(t)' /\ ~Releasing(t)' /\ ~Waiting(t)' /\ ~Owns(t)'
  <2>1. \A u \in Threads : u # t /\ Busy(u) => th[u].node \in Cells /\ th[u].node # n
    BY <1>2, <1>3 DEF Places, Placed, Cells
  <2>2. QED
    BY <1>4, <1>8, <2>1 DEF Owns, Busy, Releasing, Creating, Waiting
<1>10. Places'
  <2>1. Placed(t)'
    BY <1>9 DEF Placed
  <2>2. \A j, k \in DOMAIN epts' : epts'[j] = epts'[k] => j = k
    <3>1. ASSUME NEW j \in DOMAIN epts', NEW k \in DOMAIN epts', epts'[j] = epts'[k] PROVE j = k
      <4>1. j \in Nat /\ k \in Nat /\ x \in Nat
        BY <1>6
      <4> DEFINE Old(y) == IF y < x THEN y ELSE y + 1
      <4>2. /\ Old(j) \in DOMAIN epts /\ epts'[j] = epts[Old(j)]
            /\ Old(k) \in DOMAIN epts /\ epts'[k] = epts[Old(k)]
        BY <1>6
      <4>3. Old(j) = Old(k)
        <5> HIDE DEF Old
        <5>1. QED
          BY <1>6, <3>1, <4>2
      <4>4. QED
        BY <4>1, <4>3
    <3>2. QED
      BY <3>1
  <2>3. \A q \in Nodes : q = th[t].node /\ Entered(q)' => obj'[q] = obj[q]
    BY <1>7
  <2>4. \A q \in Nodes : q # th[t].node => (Entered(q)' <=> Entered(q))
    BY <1>7
  <2>5. QED
    BY <1>1, <1>2, <1>3, <1>4, <1>8, <1>9, <2>1, <2>2, <2>3, <2>4, PlacesEnd
<1>11. Queued'
  BY <1>1, <1>2, <1>3, <1>4, <1>9, QueuedKept
<1>12. Messages' /\ Taken'
  BY <1>1, <1>2, MessagesKept
<1>13. Outgoing' = Outgoing /\ Incoming' = Incoming
  BY <1>1 DEF Outgoing, Incoming
<1>14. Owners'
  <2>1. Owned(t)'
    BY <1>9 DEF Owned
  <2>2. QED
    BY <1>1, <1>2, <1>4, <1>9, <2>1, OwnersKept
<1>15. Standings'
  <2>1. SUFFICES ASSUME NEW q \in Nodes, Standing(q)' PROVE Stands(q)'
    BY DEF Standings, Stands
  <2>2. Entered(q) /\ q # n /\ obj'[q] = obj[q]
    BY <1>7, <1>8, <2>1 DEF Standing, Cells
  <2>3. Standing(q) /\ Stands(q)
    BY <1>2, <1>4, <1>9, <2>1, <2>2 DEF Standing, Standings
  <2>4. EntryOf(obj[q].id, q)'
    <3>1. PICK k \in DOMAIN epts : /\ epts[k] = q
                                  /\ \A j \in 1..(k - 1) : obj[epts[j]].id # obj[q].id
      BY <2>3 DEF Stands, EntryOf
    <3>2. k \in Nat /\ x \in Nat /\ k # x /\ k \in 1..Len(epts) /\ x \in 1..Len(epts)
      BY <1>5, <1>6, <2>2, <3>1
    <3>3. \A j \in DOMAIN epts' : obj'[epts'[j]] = obj[epts'[j]]
      <4>1. \A j \in DOMAIN epts' : epts'[j] \in Nodes
        BY ElementOfSeq DEF TypeInv
      <4>2. \A j \in DOMAIN epts' : epts'[j] # n
        BY <1>3, <1>7 DEF Entered
      <4>3. QED
        BY <1>8, <4>1, <4>2 DEF Cells
    <3>4. CASE k < x
      <4>1. k \in DOMAIN epts' /\ epts'[k] = q
        BY <1>6, <3>1, <3>2, <3>4
      <4>2. \A j \in 1..(k - 1) : j \in DOMAIN epts' /\ epts'[j] = epts[j]
        BY <1>6, <3>2, <3>4
      <4>3. \A j \in 1..(k - 1) : obj'[epts'[j]].id # obj'[q].id
        BY <2>2, <3>1, <3>3, <4>2
      <4>4. QED
        BY <2>2, <3>1, <4>1, <4>3 DEF EntryOf
    <3>5. CASE k > x
      <4>1. k - 1 \in 1..(Len(epts) - 1) /\ ~(k - 1 < x) /\ (k - 1) + 1 = k
        BY <1>6, <3>2, <3>5
      <4>2. k - 1 \in DOMAIN epts' /\ epts'[k - 1] = q
        BY <1>6, <3>1, <4>1
      <4>3. ASSUME NEW j \in 1..((k - 1) - 1) PROVE obj'[epts'[j]].id # obj'[q].id
        <5>1. j \in DOMAIN epts' /\ j \in 1..(k - 1) /\ j + 1 \in 1..(k - 1)
          BY <1>6, <3>2, <4>3
        <5>2. epts'[j] = epts[j] \/ epts'[j] = epts[j + 1]
          BY <1>6, <5>1
        <5>3. QED
          BY <2>2, <3>1, <3>3, <5>1, <5>2
      <4>4. QED
        BY <2>2, <4>2, <4>3 DEF EntryOf
    <3>6. QED
      BY <3>2, <3>4, <3>5
  <2>5. \A u \in Threads : Owns(u)' /\ th'[u].id = obj'[q].id => th'[u].node = q
    BY <1>4, <1>9, <2>2, <2>3 DEF Stands
  <2>6. Unheld(q)' => Unheld(q)
    BY <1>4, <1>9, <2>2 DEF Unheld
  <2>7. Unheld(q)' => Real(obj[q].id)'
    BY <1>1, <1>13, <2>2, <2>3, <2>6 DEF Stands, Real, Silent
  <2>8. QED
    BY <2>2, <2>4, <2>5, <2>7 DEF Stands
<1>16. Claimed'
  <2>1. \A u \in Threads : u # t => mine'[u] = mine[u]
    BY <1>1, <1>2 DEF TypeInv, FilesType
  <2>2. mine'[t] \subseteq mine[t] /\ i \notin mine'[t]
    <3>1. CASE closing[t]
      BY <1>1, <1>2, <3>1 DEF TypeInv, FilesType
    <3>2. CASE ~closing[t]
      BY <1>1, <1>2, <1>3, <3>2 DEF Claimed
    <3>3. QED
      BY <3>1, <3>2
  <2>3. \A u \in Threads, j \in Ids : Claims(u, j)' => Claims(u, j)
    BY <1>1, <1>3, <1>4, <1>9, <2>1, <2>2 DEF Claims
  <2>4. \A q \in Nodes, j \in Ids : FreeEntry(q, j) => FreeEntry(q, j)'
    <3>1. SUFFICES ASSUME NEW q \in Nodes, NEW j \in Ids, FreeEntry(q, j)
                   PROVE  FreeEntry(q, j)'
      OBVIOUS
    <3>2. q # n /\ Entered(q)
      BY <1>3, <3>1 DEF FreeEntry
    <3>3. Entered(q)' /\ obj'[q] = obj[q]
      BY <1>7, <1>8, <3>2 DEF Cells
    <3>4. QED
      BY <1>4, <1>9, <3>1, <3>3 DEF FreeEntry
  <2>5. \A u \in Threads : closing'[u] => known'[u] \cap mine'[u] = {}
    BY <1>1, <1>2, <2>1, <2>2 DEF Claimed
  <2>6. \A u \in Threads : Releasing(u)' /\ ~closing'[u] => th'[u].id \notin mine'[u]
    BY <1>1, <1>2, <1>4, <1>9, <2>1 DEF Claimed
  <2>7. QED
    BY <1>2, <2>3, <2>4, <2>5, <2>6, ClaimedKept
<1>17. QED
  BY <1>1, <1>2, <1>10, <1>11, <1>12, <1>14, <1>15, <1>16 DEF LifeInv, Orderly


-----------------------------------------------------------------------------
(* The invariant holds.                                                    *)

\* At first the list holds ctrl_notify alone
LEMMA InitQueued == Init => Queued
<1>1. SUFFICES ASSUME Init PROVE Queued
  OBVIOUS
<1> DEFINE l == [nxt |-> [c \in Cells \cup {Anchor} |-> c],
                 prv |-> [c \in Cells \cup {Anchor} |-> c]]
           z == [k \in 1..0 |-> Ctrl]
           s == [k \in 1..1 |-> Ctrl]
<1>2. l \in ListType /\ wait = Linked(l, Ctrl) /\ \A t \in Threads : th[t].pc = "idle"
  BY <1>1 DEF Init, Idle, ListType
<1>3. Chain(wait, 1, s)
  <2>1. /\ wait.nxt[Anchor] = Ctrl /\ wait.prv[Anchor] = Ctrl
        /\ wait.nxt[Ctrl] = Anchor /\ wait.prv[Ctrl] = Anchor
    BY <1>2 DEF Linked, Cells
  <2>2. QED
    BY <2>1 DEF Chain
<1>4. Ordered(1, s)
  <2>1. \A n \in Nodes : ~ \E k \in 1..1 : s[k] = n
    OBVIOUS
  <2>2. \A t \in Threads : ~Waiting(t)
    BY <1>2 DEF Waiting
  <2>3. QED
    BY <2>1, <2>2 DEF Ordered
<1>5. s \in [1..1 -> Cells] /\ 1 \in Nat
  BY DEF Cells
<1> HIDE DEF s
<1>6. QED
  BY <1>3, <1>4, <1>5 DEF Queued

LEMMA InitLife == Init /\ Orderly => LifeInv
<1>1. SUFFICES ASSUME Init, Orderly PROVE LifeInv
  OBVIOUS
<1>2. /\ \A t \in Threads : /\ ~Busy(t) /\ ~Owns(t) /\ ~Releasing(t)
                            /\ known[t] = {} /\ mine[t] = {} /\ closing[t] = FALSE
      /\ DOMAIN epts = {} /\ DOMAIN toR = {} /\ DOMAIN toL = {}
      /\ ida = {} /\ \A i \in Ids : dev[i] = "none"
  BY <1>1 DEF Init, Busy, Owns, Creating, Releasing, Idle
<1>3. /\ \A n : ~Entered(n) /\ Outgoing = {} /\ Incoming = {}
      /\ \A t \in Threads, i \in Ids : ~Claims(t, i)
  BY <1>2 DEF Entered, Outgoing, Incoming, Claims
<1>4. obj[Ctrl].id = 0
  BY <1>1 DEF Init, FreeObj, Cells
<1>5. Places
  BY <1>2, <1>3, <1>4 DEF Places, Placed
<1>6. Messages /\ Taken
  BY <1>2, <1>3 DEF Messages, Taken
<1>7. Owners /\ Standings
  BY <1>2, <1>3 DEF Owners, Owned, Standings, Stands, Standing
<1>8. Claimed
  BY <1>2, <1>3 DEF Claimed
<1>9. TypeInv /\ Queued
  BY <1>1, InitType, InitQueued
<1>10. ~hung
  BY <1>1 DEF Init
<1>11. QED
  BY <1>1, <1>5, <1>6, <1>7, <1>8, <1>9, <1>10 DEF LifeInv

-----------------------------------------------------------------------------
(* What the receive callback has looked up, during the other steps.        *)

\* A step that leaves found alone: nobody becomes an owner but of an id about
\* which nothing is under way
LEMMA AckKept ==
  ASSUME FullInv, LifeInv', UNCHANGED found, found # Nothing => Sought' = Sought,
         \A t \in Threads : Owns(t)' =>
           \/ Owns(t) /\ th'[t].id = th[t].id /\ th'[t].node = th[t].node
           \/ th'[t].pc \in {"found", "send"},
         LET c == found.node IN
         found.live /\ c \in Nodes /\ obj[c].used =>
           /\ obj'[c].used /\ obj'[c].id = obj[c].id
           /\ obj'[c].status = "ok" => obj[c].status = "ok"
  PROVE  AckOk'
<1>1. SUFFICES ASSUME found # Nothing PROVE AckOk'
  BY DEF AckOk
<1>2. AckOk /\ TypeInv' /\ Places' /\ Owners' /\ Sought' = Sought
  BY <1>1 DEF FullInv, LifeInv
<1>3. ~Silent(Sought.id)'
  <2>1. toL' # << >> /\ toL' \in Seq(ToLinux)
    BY <1>1, <1>2 DEF TypeInv, AckType, QueuesType
  <2>2. Sought' = toL'[1] /\ 1 \in DOMAIN toL'
    BY <2>1, Taken1 DEF Sought
  <2>3. Sought \in Incoming'
    BY <1>2, <2>2 DEF Incoming
  <2>4. QED
    BY <1>2, <2>3 DEF Silent
<1>4. ASSUME NEW t \in Threads, Owns(t)', th'[t].id = Sought.id
      PROVE  found'.live /\ th'[t].node = found'.node
  <2>1. th'[t].pc \notin {"found", "send"}
    <3>1. SUFFICES ASSUME th'[t].pc \in {"found", "send"} PROVE Silent(th[t].id)'
      BY <1>2, <1>3, <1>4 DEF Silent
    <3>2. Owned(t)' /\ Placed(t)' /\ Busy(t)'
      BY <1>2, <1>4 DEF Owners, Places, Owns, Creating, Releasing
    <3>3. CASE th'[t].op = "create"
      BY <3>1, <3>2, <3>3, <1>4 DEF Owned, CreationOk, Placed
    <3>4. CASE th'[t].op = "release"
      BY <3>1, <3>2, <3>4, <1>4 DEF Owned, ReleaseOk, Real
    <3>5. QED
      BY <3>2, <3>3, <3>4 DEF Placed
  <2>2. QED
    BY <1>1, <1>2, <1>4, <2>1 DEF AckOk
<1>5. ASSUME found'.live
      PROVE  /\ found'.node \in Nodes
             /\ obj'[found'.node].used /\ obj'[found'.node].id = Sought.id
             /\ found'.stored /\ obj'[found'.node].status = "ok" => Sought.ok
  BY <1>1, <1>2, <1>5 DEF AckOk
<1>6. QED
  BY <1>1, <1>2, <1>4, <1>5 DEF AckOk

\* t's call ends and its object is freed
LEMMA AckFreed ==
  ASSUME FullInv, LifeInv', NEW t \in Threads, Busy(t), ~Owns(t)', UNCHANGED toL,
         Freed({th[t].node}), \A c \in Cells : c # th[t].node => obj'[c] = obj[c],
         \A u \in Threads : u # t => th'[u] = th[u]
  PROVE  AckOk'
<1> DEFINE n == th[t].node
<1>1. Places /\ TypeInv /\ AckOk /\ Sought' = Sought
  BY DEF FullInv, LifeInv, Sought
<1>2. \A u \in Threads : u # t /\ Busy(u) => th[u].node # n /\ th[u].node \in Cells
  BY <1>1 DEF Places, Placed, Cells
<1>3. \A u \in Threads : Owns(u)' =>
        Owns(u) /\ u # t /\ th'[u].id = th[u].id /\ th'[u].node = th[u].node
  BY <1>2 DEF Owns, Creating, Releasing, Busy
<1>4. CASE found.node # n
  <2>1. UNCHANGED found
    BY <1>4 DEF Freed
  <2>2. found.node \in Nodes => obj'[found.node] = obj[found.node]
    BY <1>4 DEF Cells
  <2>3. QED
    BY <1>1, <1>3, <2>1, <2>2, AckKept
<1>5. CASE found.node = n
  <2>1. found # Nothing
    <3>1. n \in Nodes /\ None \notin Nodes
      BY <1>1 DEF Places, Placed
    <3>2. QED
      BY <1>5, <3>1 DEF Nothing
  <2>2. ~found'.live
    <3>1. found \in [node: Cells, stored: BOOLEAN, live: BOOLEAN]
      BY <1>1, <2>1 DEF TypeInv, AckType, Looked
    <3>2. found' = [found EXCEPT !.live = FALSE]
      BY <1>5 DEF Freed
    <3>3. QED
      BY <3>1, <3>2
  <2>3. \A u \in Threads : Owns(u)' => th'[u].id # Sought.id
    <3>1. SUFFICES ASSUME NEW u \in Threads, Owns(u)', th'[u].id = Sought.id PROVE FALSE
      OBVIOUS
    <3>2. Owns(u) /\ u # t /\ th[u].id = Sought.id /\ Busy(u)
      BY <1>3, <3>1 DEF Owns, Creating, Releasing
    <3>3. th[u].node = found.node
      BY <1>1, <2>1, <3>2 DEF AckOk
    <3>4. QED
      BY <1>2, <1>5, <3>2, <3>3
  <2>4. QED
    BY <1>1, <2>2, <2>3 DEF AckOk
<1>6. QED
  BY <1>4, <1>5

\* Where a step of t that frees nothing leads, and which objects it changes
LEMMA CallMoves ==
  ASSUME TypeInv, Places, NEW t \in Threads,
         \/ \E g \in Groups, af \in BOOLEAN : Create(t, g, af)
         \/ \E i \in Ids : Destroy(t, i)
         \/ CloseFile(t) \/ AutoRelease(t) \/ ReleaseWait(t) \/ Send(t) \/ Mark(t)
         \/ WaitDone(t) \/ WaitTimeout(t) \/ EptsAdd(t) \/ Bind(t)
  PROVE  /\ \A u \in Threads : u # t => th'[u] = th[u]
         /\ \A c \in Cells : obj[c].used =>
              /\ obj'[c].used /\ obj'[c].id = obj[c].id
              /\ obj'[c].status = "ok" => obj[c].status = "ok"
         /\ \A u \in Threads : u # t /\ Busy(u) => obj'[th[u].node] = obj[th[u].node]
         /\ Owns(t)' => \/ Owns(t) /\ th'[t].id = th[t].id /\ th'[t].node = th[t].node
                        \/ th'[t].pc \in {"found", "send"}
<1> DEFINE n == th[t].node
<1>1. /\ th \in [Threads -> CallType] /\ obj \in [Cells -> NotifyType]
      /\ Placed(t) /\ Nodes \subseteq Cells
      /\ \A u \in Threads : Busy(u) => th[u].node \in Cells /\ obj[th[u].node].used
      /\ Busy(t) => \A u \in Threads : u # t /\ Busy(u) => th[u].node # n
  BY DEF TypeInv, Callers, Places, Placed, Cells
<1>2. CASE \E g \in Groups, af \in BOOLEAN : Create(t, g, af)
  <2> PICK g \in Groups, af \in BOOLEAN : Create(t, g, af)
    BY <1>2
  <2>1. PICK i \in Ids, q \in Nodes :
          /\ ~obj[q].used
          /\ obj' = [obj EXCEPT ![q] = [FreeObj EXCEPT !.used = TRUE, !.id = i]]
          /\ th' = [th EXCEPT ![t] = [pc |-> "send", op |-> "create", node |-> q,
                                      id |-> i, grp |-> g, af |-> af, res |-> "none"]]
    BY DEF Create
  <2>2. \A c \in Cells : c # q => obj'[c] = obj[c]
    BY <1>1, <2>1
  <2>3. th'[t].pc = "send" /\ \A u \in Threads : u # t => th'[u] = th[u]
    BY <1>1, <2>1
  <2>4. QED
    BY <1>1, <2>1, <2>2, <2>3
<1>3. CASE (\E i \in Ids : Destroy(t, i)) \/ AutoRelease(t) \/ CloseFile(t)
  <2>1. obj' = obj
    BY <1>3 DEF Destroy, AutoRelease, CloseFile
  <2>2. \/ th' = th
        \/ Return(t)
        \/ \E q \in Nodes, i \in Ids \cup mine[t] :
             th' = [th EXCEPT ![t] = [Idle EXCEPT !.pc = "found", !.op = "release",
                                                  !.node = q, !.id = i]]
    BY <1>3 DEF Destroy, AutoRelease, CloseFile, BeginRelease
  <2>3. CASE th' = th
    BY <2>1, <2>3 DEF Owns, Creating, Releasing, Busy
  <2>4. CASE th' # th
    <3>1. /\ th'[t].pc \in {"idle", "found"}
          /\ \A u \in Threads : u # t => th'[u] = th[u]
      <4>1. CASE Return(t)
        BY <1>1, <4>1 DEF Return, Idle
      <4>2. CASE \E q \in Nodes, i \in Ids \cup mine[t] :
                   th' = [th EXCEPT ![t] = [Idle EXCEPT !.pc = "found", !.op = "release",
                                                        !.node = q, !.id = i]]
        BY <1>1, <4>2 DEF Idle
      <4>3. QED
        BY <2>2, <2>4, <4>1, <4>2
    <3>2. Owns(t)' => th'[t].pc = "found"
      BY <3>1 DEF Owns, Creating, Releasing, Busy
    <3>3. QED
      BY <2>1, <3>1, <3>2
  <2>5. QED
    BY <2>3, <2>4
<1>4. CASE ReleaseWait(t)
  <2>1. th[t].pc = "found" /\ obj' = [obj EXCEPT ![n].done = 0] /\ Goto(t, "send")
    BY <1>4 DEF ReleaseWait, At
  <2>2. Busy(t) /\ th'[t].pc = "send" /\ \A u \in Threads : u # t => th'[u] = th[u]
    BY <2>1, Moved DEF Busy
  <2>3. \A c \in Cells : /\ obj'[c].used = obj[c].used /\ obj'[c].id = obj[c].id
                         /\ obj'[c].status = obj[c].status
                         /\ c # n => obj'[c] = obj[c]
    BY <1>1, <2>1 DEF NotifyType
  <2>4. QED
    BY <1>1, <2>2, <2>3
<1>5. CASE Send(t)
  <2>1. /\ th[t].pc = "send" /\ obj' = obj
        /\ \/ Goto(t, IF th[t].op = "create" THEN "mark" ELSE "wait")
           \/ th' = [th EXCEPT ![t].pc = "del", ![t].res = "unsent"]
    BY <1>5 DEF Send
  <2>2. /\ th'[t].node = n /\ th'[t].id = th[t].id
        /\ \A u \in Threads : u # t => th'[u] = th[u]
    BY <1>1, <2>1 DEF Goto, CallType
  <2>3. Owns(t)
    BY <1>1, <2>1 DEF Placed, Owns, Creating, Releasing, Busy
  <2>4. QED
    BY <2>1, <2>2, <2>3
<1>6. CASE Mark(t)
  <2>1. th[t].pc = "mark" /\ obj' = [obj EXCEPT ![n].status = "failed"] /\ Goto(t, "wait")
    BY <1>6 DEF Mark
  <2>2. /\ Busy(t) /\ th'[t].node = n /\ th'[t].id = th[t].id
        /\ \A u \in Threads : u # t => th'[u] = th[u]
    BY <2>1, Moved DEF Busy
  <2>3. \A c \in Cells : /\ obj'[c].used = obj[c].used /\ obj'[c].id = obj[c].id
                         /\ obj'[c].status = "ok" => obj[c].status = "ok"
                         /\ c # n => obj'[c] = obj[c]
    BY <1>1, <2>1 DEF NotifyType
  <2>4. Owns(t)
    BY <1>1, <2>1, <2>2 DEF Placed, Owns, Creating
  <2>5. QED
    BY <1>1, <2>2, <2>3, <2>4
<1>7. CASE WaitDone(t) \/ WaitTimeout(t)
  <2>1. /\ th[t].pc = "wait"
        /\ \/ \E r \in {"ok", "bad"} : th' = [th EXCEPT ![t].pc = "del", ![t].res = r]
        /\ obj' = obj \/ obj' = [obj EXCEPT ![n].done = @ - 1]
    BY <1>7 DEF WaitDone, WaitTimeout
  <2>2. /\ Busy(t) /\ th'[t].node = n /\ th'[t].id = th[t].id /\ th'[t].op = th[t].op
        /\ th'[t].pc = "del" /\ th'[t].res # "unsent"
        /\ \A u \in Threads : u # t => th'[u] = th[u]
    BY <1>1, <2>1 DEF Busy, CallType
  <2>3. \A c \in Cells : /\ obj'[c].used = obj[c].used /\ obj'[c].id = obj[c].id
                         /\ obj'[c].status = obj[c].status
                         /\ c # n => obj'[c] = obj[c]
    BY <1>1, <2>1 DEF NotifyType
  <2>4. Owns(t)' => Owns(t)
    BY <2>1, <2>2 DEF Owns, Creating, Releasing, Busy
  <2>5. QED
    BY <1>1, <2>2, <2>3, <2>4
<1>8. CASE EptsAdd(t) \/ Bind(t)
  <2>1. obj' = obj /\ (Goto(t, "bind") \/ Return(t))
    BY <1>8 DEF EptsAdd, Bind
  <2>2. th'[t].pc \in {"idle", "bind"} /\ \A u \in Threads : u # t => th'[u] = th[u]
    BY <1>1, <2>1 DEF Return, Idle, Goto, CallType
  <2>3. ~Owns(t)'
    BY <2>2 DEF Owns, Creating, Releasing, Busy
  <2>4. QED
    BY <2>1, <2>2, <2>3
<1>9. QED
  BY <1>2, <1>3, <1>4, <1>5, <1>6, <1>7, <1>8

LEMMA AckCall ==
  ASSUME FullInv, LifeInv', NEW t \in Threads,
         NewCall(t) \/ CallStep(t) \/ WaitTimeout(t)
  PROVE  AckOk'
<1>1. LifeInv /\ TypeInv /\ Places /\ ~Resets
  BY DEF FullInv, LifeInv, Orderly
<1>2. CASE \/ \E g \in Groups, af \in BOOLEAN : Create(t, g, af)
           \/ \E i \in Ids : Destroy(t, i)
           \/ CloseFile(t) \/ AutoRelease(t) \/ ReleaseWait(t) \/ Send(t) \/ Mark(t)
           \/ WaitDone(t) \/ WaitTimeout(t) \/ EptsAdd(t) \/ Bind(t)
  <2>1. UNCHANGED <<toL, found>>
    BY <1>2 DEF Create, Destroy, CloseFile, AutoRelease, ReleaseWait, Send, Mark, WaitDone,
       WaitTimeout, EptsAdd, Bind, pending
  <2>2. /\ \A u \in Threads : u # t => th'[u] = th[u]
        /\ \A c \in Cells : obj[c].used =>
             /\ obj'[c].used /\ obj'[c].id = obj[c].id
             /\ obj'[c].status = "ok" => obj[c].status = "ok"
        /\ \A u \in Threads : u # t /\ Busy(u) => obj'[th[u].node] = obj[th[u].node]
        /\ Owns(t)' => \/ Owns(t) /\ th'[t].id = th[t].id /\ th'[t].node = th[t].node
                       \/ th'[t].pc \in {"found", "send"}
    BY <1>1, <1>2, CallMoves
  <2>3. \A u \in Threads : u # t => (Owns(u)' => Owns(u)) /\ th'[u] = th[u]
    BY <2>2 DEF Owns, Creating, Releasing, Busy
  <2>4. QED
    BY <2>1, <2>2, <2>3, AckKept DEF Sought, Cells
<1>3. CASE NotifyDel(t)
  <2>1. /\ th[t].pc = "del" /\ UNCHANGED toL /\ Busy(t)
        /\ \/ Goto(t, "list") /\ th[t].op = "create" /\ UNCHANGED <<obj, found>>
           \/ /\ (Goto(t, "drop") /\ th[t].op # "create") \/ Return(t)
              /\ UNCHANGED <<obj, found>>
           \/ /\ Return(t) /\ Freed({th[t].node})
              /\ obj' = [obj EXCEPT ![th[t].node] = FreeObj]
    BY <1>3 DEF NotifyDel, At, Busy
  <2>2. CASE Goto(t, "list") /\ th[t].op = "create" /\ UNCHANGED <<obj, found>>
    <3>1. Owns(t)
      BY <2>1, <2>2 DEF Owns, Creating
    <3>2. /\ th'[t].id = th[t].id /\ th'[t].node = th[t].node
          /\ \A u \in Threads : u # t => th'[u] = th[u]
      BY <1>1, <2>2, Moved
    <3>3. \A u \in Threads : u # t => (Owns(u)' => Owns(u))
      BY <2>2, <3>2 DEF Owns, Creating, Releasing, Busy
    <3>4. QED
      BY <2>1, <2>2, <3>1, <3>2, <3>3, AckKept DEF Sought
  <2>3. ASSUME (Goto(t, "drop") /\ th[t].op # "create") \/ Return(t)
        PROVE  ~Owns(t)' /\ \A u \in Threads : u # t => th'[u] = th[u]
    <3>1. th \in [Threads -> CallType]
      BY <1>1 DEF TypeInv, Callers
    <3>2. /\ \/ th'[t].pc = "idle"
             \/ th'[t].pc = "drop" /\ th'[t].op # "create"
          /\ \A u \in Threads : u # t => th'[u] = th[u]
      BY <2>3, <3>1 DEF Return, Idle, Goto, CallType
    <3>3. QED
      BY <3>2 DEF Owns, Creating, Releasing, Busy
  <2>4. CASE /\ (Goto(t, "drop") /\ th[t].op # "create") \/ Return(t)
             /\ UNCHANGED <<obj, found>>
    <3>1. \A u \in Threads : Owns(u)' =>
            Owns(u) /\ th'[u].id = th[u].id /\ th'[u].node = th[u].node
      BY <2>3, <2>4 DEF Owns, Creating, Releasing, Busy
    <3>2. QED
      BY <2>1, <2>4, <3>1, AckKept DEF Sought
  <2>5. CASE /\ Return(t) /\ Freed({th[t].node})
             /\ obj' = [obj EXCEPT ![th[t].node] = FreeObj]
    <3>1. \A c \in Cells : c # th[t].node => obj'[c] = obj[c]
      BY <1>1, <2>5 DEF TypeInv
    <3>2. QED
      BY <2>1, <2>3, <2>5, <3>1, AckFreed
  <2>6. QED
    BY <2>1, <2>2, <2>4, <2>5
<1>4. CASE EptsDel(t)
  <2>1. /\ th[t].pc = "drop" /\ Return(t) /\ UNCHANGED toL /\ Freed(Dropped(t))
        /\ obj' = [c \in Cells |-> IF c \in Dropped(t) THEN FreeObj ELSE obj[c]]
    BY <1>4 DEF EptsDel, At
  <2>2. Busy(t) /\ th[t].op = "release"
    BY <1>1, <2>1 DEF Busy, Places, Placed
  <2>3. Dropped(t) = {th[t].node}
    BY <2>2 DEF Dropped
  <2>4. /\ ~Owns(t)' /\ \A u \in Threads : u # t => th'[u] = th[u]
    <3>1. th'[t].pc = "idle" /\ \A u \in Threads : u # t => th'[u] = th[u]
      BY <1>1, <2>1 DEF Return, Idle, TypeInv, Callers
    <3>2. QED
      BY <3>1 DEF Owns, Creating, Releasing, Busy
  <2>5. \A c \in Cells : c # th[t].node => obj'[c] = obj[c]
    BY <2>1, <2>3
  <2>6. QED
    BY <2>1, <2>2, <2>3, <2>4, <2>5, AckFreed
<1>5. QED
  BY <1>1, <1>2, <1>3, <1>4 DEF NewCall, Reset, CallStep

\* The other callbacks wait for this one to end, and the remote core only adds
\* messages behind its own
LEMMA AckOther ==
  ASSUME FullInv, LifeInv',
         NewCb \/ GoneCb \/ RemoteStep \/ \E i \in Ids : OpenDev(i) \/ CloseDev(i)
  PROVE  AckOk'
<1>1. TypeInv /\ TypeInv'
  BY DEF FullInv, LifeInv
<1>2. UNCHANGED <<th, obj, found>>
  BY DEF NewCb, GoneCb, RemoteStep, RemoteCreate, RemoteBound, RemoteRelease, RemoteReset,
     RemoteOnly, OpenDev, CloseDev, pending
<1>3. ASSUME found # Nothing PROVE Sought' = Sought
  <2>1. toL # << >> /\ Head(toL).k = "ack" /\ toL' # << >>
    BY <1>1, <1>2, <1>3 DEF TypeInv, AckType
  <2>2. ~NewCb /\ ~GoneCb
    BY <2>1 DEF NewCb, GoneCb, Take
  <2>3. CASE RemoteStep
    <3>1. toL \in Seq(ToLinux) /\ toL' \in Seq(ToLinux)
      BY <1>1 DEF TypeInv, QueuesType
    <3>2. /\ Head(toL) = toL[1] /\ 1 \in DOMAIN toL /\ Head(toL') = toL'[1]
      BY <2>1, <3>1, Taken1
    <3>3. toL'[1] = toL[1]
      BY <1>1, <2>3, <3>2, RemoteQueues
    <3>4. QED
      BY <3>2, <3>3 DEF Sought
  <2>4. CASE \E i \in Ids : OpenDev(i) \/ CloseDev(i)
    BY <2>4 DEF OpenDev, CloseDev, Sought
  <2>5. QED
    BY <2>2, <2>3, <2>4
<1>4. \A t \in Threads : Owns(t)' =>
        Owns(t) /\ th'[t].id = th[t].id /\ th'[t].node = th[t].node
  BY <1>2 DEF Owns, Creating, Releasing, Busy
<1>5. QED
  BY <1>2, <1>3, <1>4, AckKept

LEMMA LifeSame == FullInv /\ UNCHANGED vars => FullInv'
<1>1. SUFFICES ASSUME FullInv, UNCHANGED vars PROVE FullInv'
  OBVIOUS
<1>2. UNCHANGED <<ida, obj, wait, epts, th, mine, closing, known, calls, dev, toR, toL, hung, found>>
  BY <1>1 DEF vars, files, devs, pending
<1>3. LifeInv /\ TypeInv /\ AckOk
  BY <1>1 DEF FullInv, LifeInv
<1>4. TypeInv'
  BY <1>1, <1>3, TypeStep
<1>5. LifeInv'
  BY <1>2, <1>3, <1>4, LifeStill
<1>6. \A t \in Threads : Owns(t)' <=> Owns(t)
  BY <1>2 DEF Owns, Creating, Releasing, Busy
<1>7. AckOk'
  BY <1>2, <1>3, <1>6 DEF AckOk, Sought
<1>8. QED
  BY <1>5, <1>7 DEF FullInv

\* Once a freed object was written into, nothing is claimed
LEMMA LifeStep == FullInv /\ ~stray' /\ [Next]_vars => FullInv'
<1>1. SUFFICES ASSUME FullInv, ~stray', [Next]_vars PROVE FullInv'
  OBVIOUS
<1>2. LifeInv /\ TypeInv' /\ Orderly
  BY <1>1, TypeStep DEF FullInv, LifeInv
<1>3. ASSUME NEW t \in Threads, NewCall(t) PROVE FullInv'
  <2>1. ~Resets
    BY <1>2 DEF Orderly
  <2>2. \/ \E g \in Groups, af \in BOOLEAN : Create(t, g, af)
        \/ \E i \in Ids : Destroy(t, i)
        \/ CloseFile(t)
    BY <1>3, <2>1 DEF NewCall, Reset
  <2>3. LifeInv'
    BY <1>2, <2>2, LifeCreate, LifeDestroy, LifeCloseFile
  <2>4. QED
    BY <1>1, <1>3, <2>3, AckCall DEF FullInv
<1>4. ASSUME NEW t \in Threads, CallStep(t) \/ WaitTimeout(t) PROVE FullInv'
  <2>1. LifeInv'
    BY <1>2, <1>4, LifeReleaseWait, LifeSend, LifeMark, LifeWaitEnds, LifeNotifyDel,
       LifeEptsAdd, LifeBind, LifeEptsDel, LifeAutoRelease DEF CallStep
  <2>2. QED
    BY <1>1, <1>4, <2>1, AckCall DEF FullInv
<1>5. ASSUME NewCb \/ GoneCb \/ RemoteStep \/ \E i \in Ids : OpenDev(i) \/ CloseDev(i)
      PROVE FullInv'
  <2>1. LifeInv'
    BY <1>2, <1>5, LifeNewCb, LifeGoneCb, LifeRemote, LifeDevices
  <2>2. QED
    BY <1>1, <1>5, <2>1, AckOther DEF FullInv
<1>6. ASSUME AckFind \/ AckStatus \/ AckComplete PROVE FullInv'
  BY <1>1, <1>2, <1>6, LifeAckFind, LifeAckStatus, LifeAckComplete
<1>7. \/ UNCHANGED vars
      \/ \E t \in Threads : NewCall(t) \/ CallStep(t) \/ WaitTimeout(t)
      \/ RxStep \/ RemoteStep \/ \E i \in Ids : OpenDev(i) \/ CloseDev(i)
  BY <1>1 DEF Next
<1>8. QED
  BY <1>1, <1>3, <1>4, <1>5, <1>6, <1>7, LifeSame DEF RxStep

\* stray is never taken back
LEMMA StrayStays == TypeInv /\ stray /\ [Next]_vars => stray'
<1>1. SUFFICES ASSUME TypeInv, stray, [Next]_vars PROVE stray'
  OBVIOUS
<1>2. CASE Next
  BY <1>1, <1>2 DEF Next, NewCall, Create, Destroy, Reset, CloseFile, CallStep, ReleaseWait,
     Send, Mark, WaitDone, WaitTimeout, NotifyDel, EptsAdd, Bind, EptsDel, AutoRelease,
     OpenDev, CloseDev, RxStep, AckFind, AckStatus, AckComplete, Touch, NewCb, GoneCb,
     RemoteStep, RemoteCreate, RemoteBound, RemoteRelease, RemoteReset, RemoteOnly, pending
<1>3. CASE UNCHANGED vars
  BY <1>1, <1>3 DEF vars, pending
<1>4. QED
  BY <1>1, <1>2, <1>3

LEMMA LifeHolds == Spec /\ Orderly => [](stray \/ FullInv)
<1>1. Init /\ Orderly => TypeInv /\ (stray \/ FullInv)
  BY InitLife, InitType DEF Init, FullInv, AckOk
<1>2. TypeInv /\ (stray \/ FullInv) /\ [Next]_vars => TypeInv' /\ (stray \/ FullInv)'
  BY StrayStays, LifeStep, TypeStep
<1>3. QED
  BY <1>1, <1>2, PTL DEF Spec

-----------------------------------------------------------------------------
(* What it says of the calls.                                              *)

LEMMA LifeNotHung == FullInv => NeverHung
  BY DEF FullInv, LifeInv, NeverHung

LEMMA LifeTruthful == stray \/ FullInv => CreateTruthful
<1>1. SUFFICES ASSUME LifeInv, NEW t \in Threads, At(t, "list") PROVE dev[th[t].id] = "bound"
  BY DEF CreateTruthful, FullInv
<1>2. Places /\ Owners /\ th[t].pc = "list"
  BY <1>1 DEF LifeInv, At
<1>3. Owns(t) /\ th[t].op = "create" /\ Confirmed(t)
  BY <1>2 DEF Places, Placed, Owns, Creating, Busy, Confirmed
<1>4. QED
  BY <1>2, <1>3 DEF Owners, Owned, CreationOk, Real

LEMMA LifeEntries == stray \/ FullInv => EntriesReal
<1>1. SUFFICES ASSUME LifeInv, Quiescent, NEW k \in DOMAIN epts
               PROVE  dev[obj[epts[k]].id] = "bound"
  BY DEF EntriesReal, Entries, FullInv
<1> DEFINE n == epts[k]
<1>2. TypeInv /\ Standings
  BY <1>1 DEF LifeInv
<1>3. \A t \in Threads : ~Releasing(t)
  BY <1>1 DEF Quiescent, At, Releasing, Busy
<1>4. n \in Nodes /\ Standing(n) /\ Unheld(n)
  BY <1>2, <1>3, ElementOfSeq, LenProperties DEF TypeInv, Standing, Unheld, Entered
<1>5. QED
  BY <1>2, <1>4 DEF Standings, Stands, Real

LEMMA LifeMatched == stray \/ FullInv => AckMatched
<1>1. SUFFICES ASSUME FullInv, found # Nothing, found.live, NEW t \in Threads,
                      Unanswered(t), th[t].node = found.node
               PROVE  t = Sought.by /\ Sought.seq = calls[t] /\ th[t].pc # "send"
  BY DEF AckMatched, Sought
<1>2. LifeInv /\ Places /\ Owners /\ TypeInv /\ AckOk
  BY <1>1 DEF FullInv, LifeInv
<1>3. Busy(t) /\ Placed(t)
  BY <1>1, <1>2 DEF Unanswered, Busy, Places
<1>4. th[t].id = Sought.id /\ Owns(t)
  BY <1>1, <1>2, <1>3 DEF AckOk, Placed, Unanswered, Owns, Creating, Releasing
<1>5. Sought \in Incoming /\ ~Silent(Sought.id)
  <2>1. toL # << >> /\ Sought.k = "ack"
    BY <1>1, <1>2 DEF TypeInv, AckType, Sought
  <2>2. QED
    BY <1>2, <2>1, AckHead
<1>6. Sought.by = t /\ Sought.seq = calls[t]
  BY <1>2, <1>4, <1>5 DEF Owners, Owned, Stamped, Owns, Creating, Releasing, Placed
<1>7. th[t].pc # "send"
  BY <1>2, <1>4, <1>5, OwnerWaits
<1>8. QED
  BY <1>6, <1>7

\* Unless the receive callback has written into an object that its caller, timed
\* out, had freed, it always finds the end of the wait list.  RpmsgCtrl: callers
\* link their notify objects in ctrldev->wait and unlink them under the lock, and
\* rpmsg_ctrldev_notify_find (rpmsg_master.c) searches the list whenever an
\* acknowledgement arrives.  For runs without clear and reset, which link
\* ctrl_notify a second time: the pointers form one list in every state.
THEOREM NeverHangs == Spec /\ Orderly => [](~stray => NeverHung)
<1>1. stray \/ FullInv => (~stray => NeverHung)
  BY LifeNotHung
<1>2. QED
  BY <1>1, LifeHolds, PTL

\* The object that the receive callback has looked up is that of the caller
\* whose request is acknowledged, or of nobody who waits, until it is completed
\* or freed.  RpmsgCtrl: rpmsg_ctrldev_cb (rpmsg_master.c) only has an id to go
\* by and completes without the lock, while requests time out, their answers
\* arrive late, and ids are given out again.  For runs without clear and reset
\* in which the remote acknowledges a close before the endpoint goes, until the
\* callback first writes into a freed object.
THEOREM AcksMatch == Spec /\ Orderly => []AckMatched
  BY LifeHolds, LifeMatched, PTL

\* A creation that is about to report success has made its device, unless the
\* receive callback has written into a freed object before.  RpmsgCtrl:
\* rpmsg_ctrldev_create_eptdev (rpmsg_master.c) reads the status of its notify
\* object, which an acknowledgement or a refusal may have set and which it sets
\* itself once the request is sent.  For the same runs as AcksMatch.
THEOREM CreationsTruthful == Spec /\ Orderly => []CreateTruthful
  BY LifeHolds, LifeTruthful, PTL

\* When nothing is in progress, every entry of ctrldev->epts stands for a
\* device, unless the receive callback has written into a freed object before.
\* RpmsgCtrl: a release removes its entry whether its request was acknowledged
\* or timed out (rpmsg_ctrldev_release_eptdev, rpmsg_master.c).  For the same
\* runs as AcksMatch: a clear and a reset do leave entries without a device.
THEOREM EntriesAreReal == Spec /\ Orderly => []EntriesReal
  BY LifeHolds, LifeEntries, PTL

=============================================================================
