---------------------------- MODULE OperatorProofs ----------------------------
(***************************************************************************)
(* What the operators that the services are built from compute: the usage  *)
(* rows of a session, folds over a sequence, and the chunks and batches    *)
(* that fit the budgets of the agent tools, for documents of any length.   *)
(*                                                                         *)
(* The induction theorems of the library take a predicate as a parameter;  *)
(* here induction is over a set of naturals (Ladder), and the function     *)
(* that a fold is defined by is shown to exist by it (FoldExists).         *)
(***************************************************************************)
EXTENDS UsageLog, ToolBudget, Chunker, SequenceTheorems, WellFoundedInduction, TLAPS

-----------------------------------------------------------------------------
(* Usage rows                                                              *)

\* A provider call may add a row; nothing goes down with it.
LEMMA LoggedRows ==
    ASSUME NEW a \in Account, NEW op \in UsageOperation, NEW b \in LogEvent(a, op)
    PROVE  b \in Account /\ b.lost = a.lost
<1>1. [a EXCEPT !.open = @ \cup {op}] \in Account
  BY DEF Account
<1>2. [a EXCEPT !.open = @ \cup {op}].lost = a.lost
  BY DEF Account
<1> QED
  BY <1>1, <1>2 DEF LogEvent

\* A commit keeps every open row.
LEMMA CommittedRows ==
    ASSUME NEW a \in Account
    PROVE  Committed(a) \in Account /\ Committed(a).lost = a.lost /\ Committed(a).open = {}
  BY DEF Account, Committed

LEMMA ClosedRows ==
    ASSUME NEW a \in Account
    PROVE  Closed(a) \in Account
  BY DEF Account, Closed

-----------------------------------------------------------------------------
(* Intervals and induction                                                 *)

\* An element that is above all others is the maximum.
LEMMA MaxIs ==
    ASSUME NEW S \in SUBSET Int, NEW m \in S, \A y \in S : m >= y
    PROVE  Max(S) = m
<1>1. PICK x \in S : x = Max(S) /\ \A y \in S : x >= y
  BY DEF Max
<1>2. x >= m /\ m >= x /\ x \in Int /\ m \in Int
  BY <1>1
<1> QED
  BY <1>1, <1>2

LEMMA MinIs ==
    ASSUME NEW S \in SUBSET Int, NEW m \in S, \A y \in S : m <= y
    PROVE  Min(S) = m
<1>1. PICK x \in S : x = Min(S) /\ \A y \in S : x <= y
  BY DEF Min
<1>2. x <= m /\ m <= x /\ x \in Int /\ m \in Int
  BY <1>1
<1> QED
  BY <1>1, <1>2

LEMMA MinOfTwo ==
    ASSUME NEW a \in Int, NEW b \in Int
    PROVE  Min({a, b}) = IF a <= b THEN a ELSE b
<1>1. {a, b} \in SUBSET Int /\ a \in {a, b} /\ b \in {a, b}
  OBVIOUS
<1>2. CASE a <= b
  <2>1. \A y \in {a, b} : a <= y
    BY <1>2
  <2> QED
    BY <1>1, <1>2, <2>1, MinIs
<1>3. CASE ~(a <= b)
  <2>1. \A y \in {a, b} : b <= y
    BY <1>3
  <2> QED
    BY <1>1, <1>3, <2>1, MinIs
<1> QED
  BY <1>2, <1>3

\* The first k numbers are the first k - 1 and their maximum.
LEMMA Interval ==
    ASSUME NEW n \in Nat, NEW k \in 1 .. n
    PROVE  /\ 1 .. k \in SUBSET (1 .. n) /\ 1 .. k # {}
           /\ Max(1 .. k) = k /\ (1 .. k) \ {k} = 1 .. (k - 1)
<1>1. k \in 1 .. k /\ \A y \in 1 .. k : k >= y /\ y \in 1 .. n
  OBVIOUS
<1>2. 1 .. k \in SUBSET Int
  OBVIOUS
<1>3. Max(1 .. k) = k
  BY <1>1, <1>2, MaxIs
<1>4. \A y : y \in (1 .. k) \ {k} <=> y \in 1 .. (k - 1)
  OBVIOUS
<1> QED
  BY <1>1, <1>3, <1>4

\* A set that has 0, and every number up to n whose predecessor it has, has them all.
LEMMA Ladder ==
    ASSUME NEW n \in Nat, NEW P, 0 \in P, \A k \in 1 .. n : k - 1 \in P => k \in P
    PROVE  0 .. n \subseteq P
<1> DEFINE T == {k \in Nat : k <= n /\ k \notin P}
<1>1. SUFFICES ASSUME T # {} PROVE FALSE
  OBVIOUS
<1>2. PICK m \in T : \A k \in T : ~ (<<k, m>> \in OpToRel(<, Nat))
  BY <1>1, WFMin, NatLessThanWellFounded
<1>3. m # 0 /\ m \in 1 .. n /\ m - 1 \in Nat
  OBVIOUS
<1>4. m - 1 \notin T
  <2> SUFFICES ASSUME m - 1 \in T PROVE FALSE
    OBVIOUS
  <2>1. m - 1 < m /\ m \in Nat
    BY <1>3
  <2>2. <<m - 1, m>> \in OpToRel(<, Nat)
    BY <1>3, <2>1 DEF OpToRel
  <2> QED
    BY <1>2, <2>2
<1> QED
  BY <1>3, <1>4

\* A set of numbers up to n has a maximum.
LEMMA MaxIn ==
    ASSUME NEW n \in Nat, NEW S \in SUBSET (1 .. n), S # {}
    PROVE  Max(S) \in S /\ \A y \in S : Max(S) >= y
<1> DEFINE P == {k \in 0 .. n : \A T \in SUBSET (1 .. k) : T # {} => \E m \in T : \A y \in T : m >= y}
<1>1. 0 \in P
  <2>1. 0 \in 0 .. n /\ \A T \in SUBSET (1 .. 0) : T = {}
    OBVIOUS
  <2> QED
    BY <2>1
<1>2. ASSUME NEW k \in 1 .. n, k - 1 \in P PROVE k \in P
  <2> SUFFICES ASSUME NEW T \in SUBSET (1 .. k), T # {} PROVE \E m \in T : \A y \in T : m >= y
    OBVIOUS
  <2>1. CASE k \in T
    <3>1. \A y \in 1 .. k : k >= y
      OBVIOUS
    <3> QED
      BY <2>1, <3>1
  <2>2. CASE k \notin T
    <3>1. \A y \in 1 .. k : y # k => y \in 1 .. (k - 1)
      OBVIOUS
    <3>2. T \in SUBSET (1 .. (k - 1))
      BY <2>2, <3>1
    <3> QED
      BY <1>2, <3>2
  <2> QED
    BY <2>1, <2>2
<1> HIDE DEF P
<1>3. n \in P
  <2>1. 0 .. n \subseteq P
    BY <1>1, <1>2, Ladder
  <2> QED
    BY <2>1
<1>4. \E m \in S : \A y \in S : m >= y
  BY <1>3 DEF P
<1> QED
  BY <1>4 DEF Max

-----------------------------------------------------------------------------
(* Folds                                                                   *)

\* The recursion of a fold over 1 .. n, from the largest element down, with the
\* values in V: H[k] is what element k does to a value.
Solves(g, base, H, n) ==
    \A s \in SUBSET (1 .. n) : g[s] = IF s = {} THEN base ELSE H[Max(s)][g[s \ {Max(s)}]]

\* One more element can always be folded.
LEMMA FoldExtends ==
    ASSUME NEW k \in Nat \ {0}, NEW V, NEW base \in V, NEW H, H[k] \in [V -> V],
           NEW f \in [SUBSET (1 .. (k - 1)) -> V], Solves(f, base, H, k - 1)
    PROVE  \E g \in [SUBSET (1 .. k) -> V] : Solves(g, base, H, k)
<1> DEFINE g == [s \in SUBSET (1 .. k) |-> IF k \in s THEN H[k][f[s \ {k}]] ELSE f[s]]
<1>1. ASSUME NEW s \in SUBSET (1 .. k)
      PROVE  /\ s \ {k} \in SUBSET (1 .. (k - 1))
             /\ k \in s => Max(s) = k
  <2>1. \A y \in s : y \in Int /\ k >= y /\ (y # k => y \in 1 .. (k - 1))
    <3>1. \A y \in 1 .. k : y \in Int /\ k >= y /\ (y # k => y \in 1 .. (k - 1))
      OBVIOUS
    <3> QED
      BY <3>1
  <2>2. s \in SUBSET Int
    BY <2>1
  <2>3. k \in s => Max(s) = k
    BY <2>1, <2>2, MaxIs
  <2> QED
    BY <2>1, <2>3
<1>2. \A s \in SUBSET (1 .. k) : k \notin s => s \in SUBSET (1 .. (k - 1))
  BY <1>1
<1>3. g \in [SUBSET (1 .. k) -> V]
  <2>1. ASSUME NEW s \in SUBSET (1 .. k) PROVE (IF k \in s THEN H[k][f[s \ {k}]] ELSE f[s]) \in V
    BY <1>1, <1>2
  <2> QED
    BY <2>1
<1>4. ASSUME NEW s \in SUBSET (1 .. k)
      PROVE  g[s] = IF s = {} THEN base ELSE H[Max(s)][g[s \ {Max(s)}]]
  <2>1. CASE k \in s
    <3>1. Max(s) = k /\ s \ {k} \in SUBSET (1 .. k) /\ k \notin s \ {k} /\ s # {}
      BY <1>1, <2>1
    <3>2. g[s \ {k}] = f[s \ {k}] /\ g[s] = H[k][f[s \ {k}]]
      BY <2>1, <3>1
    <3> HIDE DEF g
    <3> QED
      BY <3>1, <3>2
  <2>2. CASE k \notin s
    <3>1. s \in SUBSET (1 .. (k - 1)) /\ s \ {Max(s)} \in SUBSET (1 .. k) /\ k \notin s \ {Max(s)}
      BY <1>2, <2>2
    <3>2. g[s] = f[s] /\ g[s \ {Max(s)}] = f[s \ {Max(s)}]
      BY <2>2, <3>1
    <3> HIDE DEF g
    <3>3. f[s] = IF s = {} THEN base ELSE H[Max(s)][f[s \ {Max(s)}]]
      BY <3>1 DEF Solves
    <3> QED
      BY <3>2, <3>3
  <2> QED
    BY <2>1, <2>2
<1> HIDE DEF g
<1>5. Solves(g, base, H, k)
  BY <1>4 DEF Solves
<1> QED
  BY <1>3, <1>5

LEMMA FoldExists ==
    ASSUME NEW n \in Nat, NEW V, NEW base \in V, NEW H \in [1 .. n -> [V -> V]]
    PROVE  \E g \in [SUBSET (1 .. n) -> V] : Solves(g, base, H, n)
<1> DEFINE P == {k \in 0 .. n : \E g \in [SUBSET (1 .. k) -> V] : Solves(g, base, H, k)}
<1>1. 0 \in P
  <2> DEFINE g == [s \in SUBSET (1 .. 0) |-> base]
  <2>1. g \in [SUBSET (1 .. 0) -> V]
    OBVIOUS
  <2>2. \A s \in SUBSET (1 .. 0) : s = {} /\ g[s] = base
    OBVIOUS
  <2> HIDE DEF g
  <2>3. Solves(g, base, H, 0)
    BY <2>2 DEF Solves
  <2>4. 0 \in 0 .. n
    OBVIOUS
  <2>5. \E h \in [SUBSET (1 .. 0) -> V] : Solves(h, base, H, 0)
    BY <2>1, <2>3
  <2> QED
    BY <2>4, <2>5
<1>2. ASSUME NEW k \in 1 .. n, k - 1 \in P PROVE k \in P
  <2>1. PICK f \in [SUBSET (1 .. (k - 1)) -> V] : Solves(f, base, H, k - 1)
    BY <1>2
  <2>2. k \in Nat \ {0} /\ H[k] \in [V -> V] /\ k \in 0 .. n
    OBVIOUS
  <2>3. \E g \in [SUBSET (1 .. k) -> V] : Solves(g, base, H, k)
    BY <2>1, <2>2, FoldExtends
  <2> QED
    BY <2>2, <2>3
<1> HIDE DEF P
<1>3. n \in P
  <2>1. 0 .. n \subseteq P
    BY <1>1, <1>2, Ladder
  <2> QED
    BY <2>1
<1> QED
  BY <1>3 DEF P

\* f is what a fold has in hand along a sequence of n elements.
Walk(f, base, H, n) == f[0] = base /\ \A k \in 1 .. n : f[k] = H[k][f[k - 1]]

LEMMA WalkExists ==
    ASSUME NEW n \in Nat, NEW V, NEW base \in V, NEW H \in [1 .. n -> [V -> V]]
    PROVE  \E f \in [0 .. n -> V] : Walk(f, base, H, n)
<1>0. PICK g \in [SUBSET (1 .. n) -> V] : Solves(g, base, H, n)
  BY FoldExists
<1> DEFINE f == [k \in 0 .. n |-> g[1 .. k]]
<1>1. \A k \in 0 .. n : 1 .. k \in SUBSET (1 .. n)
  OBVIOUS
<1>2. f \in [0 .. n -> V] /\ f[0] = g[1 .. 0]
  BY <1>1
<1>3. g[1 .. 0] = base
  <2>1. 1 .. 0 = {} /\ 1 .. 0 \in SUBSET (1 .. n)
    OBVIOUS
  <2> QED
    BY <1>0, <2>1 DEF Solves
<1>4. ASSUME NEW k \in 1 .. n PROVE f[k] = H[k][f[k - 1]]
  <2>1. g[1 .. k] = H[k][g[1 .. (k - 1)]]
    BY <1>0, Interval DEF Solves
  <2>2. k \in 0 .. n /\ k - 1 \in 0 .. n
    OBVIOUS
  <2> QED
    BY <2>1, <2>2
<1> HIDE DEF f
<1>5. Walk(f, base, H, n)
  BY <1>2, <1>3, <1>4 DEF Walk
<1> QED
  BY <1>2, <1>5

-----------------------------------------------------------------------------
(* The chunks that fit a budget                                            *)

\* The budget takes at least a chunk of a document, and never more than there is.
LEMMA SelectedWithin ==
    ASSUME NEW tokens \in Seq(Nat \ {0}), tokens # <<>>, NEW budget
    PROVE  SelectedChunks(tokens, budget) \in 1 .. Len(tokens)
<1> DEFINE Fit(n) == \A k \in 1 .. n : /\ k > 1 => TokensUpTo(tokens, k) <= budget
                                       /\ k < n => TokensUpTo(tokens, k) < budget
           S == {n \in DOMAIN tokens : Fit(n)}
<1>1. Len(tokens) \in Nat /\ DOMAIN tokens = 1 .. Len(tokens) /\ Len(tokens) > 0
  BY EmptySeq
<1>2. Fit(1)
  <2>1. \A k \in 1 .. 1 : ~ (k > 1) /\ ~ (k < 1)
    OBVIOUS
  <2> QED
    BY <2>1
<1> HIDE DEF Fit
<1>3. 1 \in S /\ S \subseteq 1 .. Len(tokens)
  BY <1>1, <1>2
<1>4. SelectedChunks(tokens, budget) = Max(S)
  BY DEF SelectedChunks, Fit
<1> HIDE DEF S
<1>5. Max(S) \in S
  BY <1>1, <1>3, MaxIn
<1> QED
  BY <1>3, <1>4, <1>5

-----------------------------------------------------------------------------
(* The batches of a summary                                                *)

\* Batches that are closed, the one that is open and the tokens in it.
Packing == [done : Seq(SUBSET Nat), batch : SUBSET Nat, used : Nat]

LEMMA AddedBatch ==
    ASSUME NEW tokens \in Seq(Nat \ {0}), NEW budget, NEW v \in Packing, NEW i \in 1 .. Len(tokens)
    PROVE  LET w == AddToBatch(tokens, budget, v, i)
           IN  /\ w \in Packing
               /\ \/ w.done = Append(v.done, v.batch) /\ w.batch = {i}
                  \/ w.done = v.done /\ w.batch = v.batch \cup {i}
<1>1. tokens[i] \in Nat /\ i \in Nat /\ v.used + tokens[i] \in Nat
  <2>1. tokens[i] \in Nat /\ i \in Nat /\ v.used \in Nat
    BY DEF Packing
  <2> QED
    BY <2>1
<1>2. {i} \in SUBSET Nat /\ v.batch \cup {i} \in SUBSET Nat
  BY <1>1 DEF Packing
<1>3. Append(v.done, v.batch) \in Seq(SUBSET Nat)
  <2>1. v.done \in Seq(SUBSET Nat) /\ v.batch \in SUBSET Nat
    BY DEF Packing
  <2> QED
    BY <2>1, AppendProperties
<1>4. CASE v.batch # {} /\ v.used + tokens[i] > budget
  BY <1>1, <1>2, <1>3, <1>4 DEF AddToBatch, Packing
<1>5. CASE ~(v.batch # {} /\ v.used + tokens[i] > budget)
  <2>1. AddToBatch(tokens, budget, v, i) = [v EXCEPT !.batch = @ \cup {i}, !.used = @ + tokens[i]]
    BY <1>5 DEF AddToBatch
  <2> QED
    BY <1>1, <1>2, <2>1 DEF Packing
<1> QED
  BY <1>4, <1>5

\* What the loop has in hand after each chunk.
LEMMA PackWalks ==
    ASSUME NEW tokens \in Seq(Nat \ {0}), NEW budget
    PROVE  \E f \in [0 .. Len(tokens) -> Packing] :
              /\ f[0] = NothingPacked
              /\ \A k \in 1 .. Len(tokens) : f[k] = AddToBatch(tokens, budget, f[k - 1], k)
              /\ LET end == f[Len(tokens)]
                 IN  PackIntoBatches(tokens, budget) =
                        IF end.batch = {} THEN end.done ELSE Append(end.done, end.batch)
<1>1. PICK n \in Nat : n = Len(tokens) /\ DOMAIN tokens = 1 .. n
  OBVIOUS
<1> DEFINE seq == [i \in 1 .. n |-> i]
           Body(h) == [s \in SUBSET (1 .. n) |->
                          IF s = {} THEN NothingPacked
                          ELSE AddToBatch(tokens, budget, h[s \ {Max(s)}], seq[Max(s)])]
           iter == CHOOSE h : h = Body(h)
           H == [k \in 1 .. n |-> [v \in Packing |-> AddToBatch(tokens, budget, v, k)]]
<1>2. PackIntoBatches(tokens, budget) =
         IF iter[1 .. n].batch = {} THEN iter[1 .. n].done
         ELSE Append(iter[1 .. n].done, iter[1 .. n].batch)
  BY <1>1 DEF PackIntoBatches, FoldLeft, MapThenFoldSet
<1>3. NothingPacked \in Packing
  BY EmptySeq DEF NothingPacked, Packing
<1>4. H \in [1 .. n -> [Packing -> Packing]]
  BY <1>1, AddedBatch
<1>5. PICK g \in [SUBSET (1 .. n) -> Packing] : Solves(g, NothingPacked, H, n)
  <2> HIDE DEF H
  <2> QED
    BY <1>3, <1>4, FoldExists
<1>6. ASSUME NEW s \in SUBSET (1 .. n)
      PROVE  g[s] = IF s = {} THEN NothingPacked
                    ELSE AddToBatch(tokens, budget, g[s \ {Max(s)}], seq[Max(s)])
  <2>1. CASE s # {}
    <3>1. Max(s) \in 1 .. n /\ s \ {Max(s)} \in SUBSET (1 .. n)
      BY <2>1, MaxIn
    <3>2. g[s \ {Max(s)}] \in Packing /\ seq[Max(s)] = Max(s)
      BY <3>1
    <3>3. H[Max(s)][g[s \ {Max(s)}]] = AddToBatch(tokens, budget, g[s \ {Max(s)}], Max(s))
      BY <3>1, <3>2
    <3> HIDE DEF H, seq
    <3> QED
      BY <1>5, <2>1, <3>2, <3>3 DEF Solves
  <2>2. CASE s = {}
    BY <1>5, <2>2 DEF Solves
  <2> QED
    BY <2>1, <2>2
<1>7. g = Body(g)
  BY <1>6
<1>8. iter = Body(iter)
  BY <1>7
<1> HIDE DEF iter, H
<1>9. iter[1 .. 0] = NothingPacked
  <2>1. 1 .. 0 = {} /\ 1 .. 0 \in SUBSET (1 .. n)
    OBVIOUS
  <2> QED
    BY <1>8, <2>1
<1>10. ASSUME NEW k \in 1 .. n PROVE iter[1 .. k] = AddToBatch(tokens, budget, iter[1 .. (k - 1)], k)
  <2>1. 1 .. k \in SUBSET (1 .. n) /\ 1 .. k # {} /\ Max(1 .. k) = k /\ (1 .. k) \ {k} = 1 .. (k - 1)
    BY Interval
  <2>2. seq[k] = k
    OBVIOUS
  <2> HIDE DEF seq
  <2>3. iter[1 .. k] = AddToBatch(tokens, budget, iter[(1 .. k) \ {Max(1 .. k)}], seq[Max(1 .. k)])
    BY <1>8, <2>1
  <2> QED
    BY <2>1, <2>2, <2>3
<1> DEFINE P == {k \in 0 .. n : iter[1 .. k] \in Packing}
<1>11. 0 .. n \subseteq P
  <2>1. 0 \in P
    BY <1>3, <1>9
  <2>2. ASSUME NEW k \in 1 .. n, k - 1 \in P PROVE k \in P
    <3>1. iter[1 .. (k - 1)] \in Packing /\ k \in 1 .. Len(tokens)
      BY <1>1, <2>2
    <3>2. AddToBatch(tokens, budget, iter[1 .. (k - 1)], k) \in Packing
      BY <3>1, AddedBatch
    <3> QED
      BY <1>10, <3>2
  <2> HIDE DEF P
  <2> QED
    BY <2>1, <2>2, Ladder
<1> DEFINE f == [k \in 0 .. n |-> iter[1 .. k]]
<1>12. f \in [0 .. n -> Packing] /\ f[0] = NothingPacked /\ f[n] = iter[1 .. n]
  BY <1>9, <1>11
<1>13. \A k \in 1 .. n : f[k] = AddToBatch(tokens, budget, f[k - 1], k)
  <2> TAKE k \in 1 .. n
  <2>1. k \in 0 .. n /\ k - 1 \in 0 .. n
    OBVIOUS
  <2>2. f[k] = iter[1 .. k] /\ f[k - 1] = iter[1 .. (k - 1)]
    BY <2>1
  <2> HIDE DEF f
  <2> QED
    BY <1>10, <2>2
<1>14. PackIntoBatches(tokens, budget) =
          IF f[n].batch = {} THEN f[n].done ELSE Append(f[n].done, f[n].batch)
  BY <1>2, <1>12
<1> HIDE DEF f
<1> QED
  BY <1>1, <1>12, <1>13, <1>14

\* Every chunk is in a batch, and no batch holds anything else.
LEMMA BatchesHoldAll ==
    ASSUME NEW tokens \in Seq(Nat \ {0}), NEW budget
    PROVE  /\ PackIntoBatches(tokens, budget) \in Seq(SUBSET Nat)
           /\ \A i \in 1 .. Len(tokens) : \E b \in 1 .. Len(PackIntoBatches(tokens, budget)) :
                 i \in PackIntoBatches(tokens, budget)[b]
<1> DEFINE n == Len(tokens)
           Holds(v, i) == i \in v.batch \/ \E b \in 1 .. Len(v.done) : i \in v.done[b]
<1>1. PICK f \in [0 .. n -> Packing] :
          /\ f[0] = NothingPacked
          /\ \A k \in 1 .. n : f[k] = AddToBatch(tokens, budget, f[k - 1], k)
          /\ PackIntoBatches(tokens, budget) =
                IF f[n].batch = {} THEN f[n].done ELSE Append(f[n].done, f[n].batch)
  BY PackWalks
<1>2. n \in Nat
  OBVIOUS
<1>3. ASSUME NEW v \in Packing, NEW i, Holds(v, i)
      PROVE  \E b \in 1 .. Len(Append(v.done, v.batch)) : i \in Append(v.done, v.batch)[b]
  <2>1. v.done \in Seq(SUBSET Nat) /\ v.batch \in SUBSET Nat
    BY DEF Packing
  <2>2. /\ Len(Append(v.done, v.batch)) = Len(v.done) + 1 /\ Len(v.done) \in Nat
        /\ Append(v.done, v.batch)[Len(v.done) + 1] = v.batch
        /\ \A b \in 1 .. Len(v.done) : Append(v.done, v.batch)[b] = v.done[b]
    BY <2>1, AppendProperties
  <2>3. Len(v.done) + 1 \in 1 .. (Len(v.done) + 1) /\ \A b \in 1 .. Len(v.done) : b \in 1 .. (Len(v.done) + 1)
    BY <2>2
  <2> QED
    BY <1>3, <2>2, <2>3
<1> DEFINE P == {k \in 0 .. n : \A i \in 1 .. k : Holds(f[k], i)}
<1>4. 0 \in P
  BY <1>2
<1>5. ASSUME NEW k \in 1 .. n, k - 1 \in P PROVE k \in P
  <2>0. k - 1 \in 0 .. n /\ k \in 0 .. n
    BY <1>2
  <2>1. f[k - 1] \in Packing /\ f[k] = AddToBatch(tokens, budget, f[k - 1], k) /\ k \in 0 .. n
    BY <1>1, <2>0
  <2>2. \/ f[k].done = Append(f[k - 1].done, f[k - 1].batch) /\ f[k].batch = {k}
        \/ f[k].done = f[k - 1].done /\ f[k].batch = f[k - 1].batch \cup {k}
    BY <2>1, AddedBatch
  <2>3. ASSUME NEW i \in 1 .. k PROVE Holds(f[k], i)
    <3>1. CASE i = k
      BY <2>2, <3>1
    <3>2. CASE i # k
      <4>1. i \in 1 .. (k - 1)
        BY <1>2, <3>2
      <4>2. Holds(f[k - 1], i)
        BY <1>5, <4>1
      <4>3. CASE f[k].done = Append(f[k - 1].done, f[k - 1].batch)
        BY <1>3, <2>1, <4>2, <4>3
      <4>4. CASE f[k].done = f[k - 1].done /\ f[k].batch = f[k - 1].batch \cup {k}
        BY <4>2, <4>4
      <4> QED
        BY <2>2, <4>3, <4>4
    <3> QED
      BY <3>1, <3>2
  <2> HIDE DEF Holds
  <2> QED
    BY <2>1, <2>3
<1>6. \A i \in 1 .. n : Holds(f[n], i)
  <2> HIDE DEF P
  <2>1. 0 .. n \subseteq P
    BY <1>2, <1>4, <1>5, Ladder
  <2>2. n \in P
    BY <1>2, <2>1
  <2> QED
    BY <2>2 DEF P
<1>7. f[n] \in Packing /\ f[n].done \in Seq(SUBSET Nat) /\ f[n].batch \in SUBSET Nat
  BY <1>1, <1>2 DEF Packing
<1>8. CASE f[n].batch = {}
  BY <1>1, <1>6, <1>7, <1>8
<1>9. CASE f[n].batch # {}
  <2>1. Append(f[n].done, f[n].batch) \in Seq(SUBSET Nat)
    BY <1>7, AppendProperties
  <2>2. \A i \in 1 .. n : \E b \in 1 .. Len(Append(f[n].done, f[n].batch)) : i \in Append(f[n].done, f[n].batch)[b]
    BY <1>3, <1>6, <1>7
  <2> QED
    BY <1>1, <1>9, <2>1, <2>2
<1> QED
  BY <1>8, <1>9

-----------------------------------------------------------------------------
(* Sequences of sequences                                                  *)

\* A sequence of sequences is flattened by appending one after the other.
LEMMA FlattenWalks ==
    ASSUME NEW S, NEW ss \in Seq(Seq(S))
    PROVE  \E f \in [0 .. Len(ss) -> Seq(S)] :
              /\ f[0] = <<>> /\ f[Len(ss)] = FlattenSeq(ss)
              /\ \A k \in 1 .. Len(ss) : f[k] = f[k - 1] \o ss[k]
<1>1. PICK n \in Nat : n = Len(ss)
  OBVIOUS
<1>2. <<>> \in Seq(S) /\ \A k \in 1 .. n : ss[k] \in Seq(S)
  BY <1>1
<1>3. \A v \in Seq(S) : <<>> \o v = v /\ \A u \in Seq(S) : u \o v \in Seq(S)
  BY ConcatEmptySeq, ConcatProperties
<1>4. CASE n = 0
  <2> DEFINE f == [k \in 0 .. 0 |-> <<>>]
  <2>1. f \in [0 .. 0 -> Seq(S)] /\ f[0] = <<>>
    BY <1>2
  <2>2. FlattenSeq(ss) = <<>>
    <3>1. ss = <<>>
      BY <1>1, <1>4, EmptySeq
    <3> QED
      BY <3>1 DEF FlattenSeq
  <2> HIDE DEF f
  <2> QED
    BY <1>1, <1>4, <2>1, <2>2
<1>5. CASE n # 0
  <2> DEFINE Body(h) == [i \in 1 .. n |-> IF i = 1 THEN ss[i] ELSE h[i - 1] \o ss[i]]
             flatten == CHOOSE h : h = Body(h)
             H == [k \in 1 .. n |-> [v \in Seq(S) |-> v \o ss[k]]]
  <2>1. FlattenSeq(ss) = flatten[n]
    BY <1>1, <1>5 DEF FlattenSeq
  <2>2. H \in [1 .. n -> [Seq(S) -> Seq(S)]]
    BY <1>2, <1>3
  <2>3. PICK f \in [0 .. n -> Seq(S)] : f[0] = <<>> /\ \A k \in 1 .. n : f[k] = H[k][f[k - 1]]
    <3> HIDE DEF H
    <3>1. PICK base \in Seq(S) : base = <<>>
      BY <1>2
    <3>2. PICK f \in [0 .. n -> Seq(S)] : Walk(f, base, H, n)
      BY <2>2, <3>1, WalkExists
    <3> QED
      BY <3>1, <3>2 DEF Walk
  <2>4. \A k \in 1 .. n : f[k] = f[k - 1] \o ss[k]
    <3> TAKE k \in 1 .. n
    <3>1. k - 1 \in 0 .. n
      OBVIOUS
    <3> QED
      BY <2>3, <3>1
  <2> HIDE DEF H
  <2>10. f[1] = ss[1]
    <3>1. 1 \in 1 .. n /\ 1 - 1 = 0 /\ ss[1] \in Seq(S)
      BY <1>1, <1>2, <1>5
    <3>2. f[1] = f[0] \o ss[1]
      BY <2>4, <3>1
    <3> QED
      BY <1>3, <2>3, <3>1, <3>2
  <2> DEFINE h == [i \in 1 .. n |-> f[i]]
  <2>5. h = Body(h)
    <3>1. ASSUME NEW i \in 1 .. n PROVE h[i] = IF i = 1 THEN ss[i] ELSE h[i - 1] \o ss[i]
      <4>1. i = 1 => f[i] = ss[i]
        BY <2>10
      <4>2. i # 1 => i - 1 \in 1 .. n
        OBVIOUS
      <4> QED
        BY <2>4, <4>1, <4>2
    <3> QED
      BY <3>1
  <2>6. flatten = Body(flatten)
    BY <2>5
  <2> HIDE DEF flatten, h
  <2> DEFINE P == {k \in 0 .. n : k # 0 => flatten[k] = f[k]}
  <2>7. 0 \in P
    OBVIOUS
  <2>8. ASSUME NEW k \in 1 .. n, k - 1 \in P PROVE k \in P
    <3>1. CASE k = 1
      BY <2>6, <2>10, <3>1
    <3>2. CASE k # 1
      <4>1. flatten[k] = flatten[k - 1] \o ss[k]
        BY <2>6, <3>2
      <4>2. k - 1 # 0 /\ k # 0 /\ k \in 0 .. n
        BY <3>2
      <4>3. flatten[k - 1] = f[k - 1]
        BY <2>8, <4>2
      <4>4. flatten[k] = f[k]
        BY <2>4, <4>1, <4>3
      <4> QED
        BY <4>2, <4>4
    <3> QED
      BY <3>1, <3>2
  <2>9. flatten[n] = f[n]
    <3> HIDE DEF P
    <3>1. 0 .. n \subseteq P
      BY <2>7, <2>8, Ladder
    <3>2. n \in P
      BY <3>1
    <3> QED
      BY <1>5, <3>2 DEF P
  <2> QED
    BY <1>1, <2>1, <2>3, <2>4, <2>9
<1> QED
  BY <1>4, <1>5

\* What a sequence appended to another is made of.
LEMMA Appended ==
    ASSUME NEW S, NEW u \in Seq(S), NEW v \in Seq(S), NEW w, w = u \o v
    PROVE  /\ w \in Seq(S) /\ Len(w) = Len(u) + Len(v) /\ Len(u) \in Nat /\ Len(v) \in Nat
           /\ \A i \in 1 .. Len(u) : i \in 1 .. Len(w) /\ w[i] = u[i]
           /\ \A i \in 1 .. Len(v) : Len(u) + i \in 1 .. Len(w) /\ w[Len(u) + i] = v[i]
           /\ \A i \in 1 .. Len(w) :
                 \/ i \in 1 .. Len(u) /\ w[i] = u[i]
                 \/ i > Len(u) /\ i - Len(u) \in 1 .. Len(v) /\ w[i] = v[i - Len(u)]
<1>1. /\ w \in Seq(S) /\ Len(w) = Len(u) + Len(v)
      /\ \A i \in 1 .. Len(w) : w[i] = IF i <= Len(u) THEN u[i] ELSE v[i - Len(u)]
  BY ConcatProperties
<1>2. PICK m \in Nat, n \in Nat : m = Len(u) /\ n = Len(v)
  OBVIOUS
<1>3. \A i \in 1 .. m : i \in 1 .. m + n /\ i <= m
  OBVIOUS
<1>4. \A i \in 1 .. n : m + i \in 1 .. m + n /\ ~(m + i <= m) /\ (m + i) - m = i
  OBVIOUS
<1>5. \A i \in 1 .. m + n : i \in 1 .. m \/ (~(i <= m) /\ i > m /\ i - m \in 1 .. n)
  OBVIOUS
<1> QED
  BY <1>1, <1>2, <1>3, <1>4, <1>5

\* s has the elements of all of them, in order.
Flat(s, ss) ==
    /\ \A i \in 1 .. Len(s) : \E a \in 1 .. Len(ss) : \E b \in 1 .. Len(ss[a]) : s[i] = ss[a][b]
    /\ \A a \in 1 .. Len(ss) : \A b \in 1 .. Len(ss[a]) : \E i \in 1 .. Len(s) : s[i] = ss[a][b]
    /\ \A i, j \in 1 .. Len(s) :
          i < j => \E a, c \in 1 .. Len(ss) : \E b \in 1 .. Len(ss[a]), d \in 1 .. Len(ss[c]) :
                      /\ s[i] = ss[a][b] /\ s[j] = ss[c][d]
                      /\ a < c \/ (a = c /\ b < d)

LEMMA Flattened ==
    ASSUME NEW S, NEW ss \in Seq(Seq(S))
    PROVE  FlattenSeq(ss) \in Seq(S) /\ Flat(FlattenSeq(ss), ss)
<1> DEFINE n == Len(ss)
           From(s, k) == \A i \in 1 .. Len(s) : \E a \in 1 .. k : \E b \in 1 .. Len(ss[a]) : s[i] = ss[a][b]
           All(s, k) == \A a \in 1 .. k : \A b \in 1 .. Len(ss[a]) : \E i \in 1 .. Len(s) : s[i] = ss[a][b]
           Ordered(s, k) == \A i, j \in 1 .. Len(s) :
                 i < j => \E a, c \in 1 .. k : \E b \in 1 .. Len(ss[a]), d \in 1 .. Len(ss[c]) :
                             /\ s[i] = ss[a][b] /\ s[j] = ss[c][d]
                             /\ a < c \/ (a = c /\ b < d)
<1>1. n \in Nat /\ \A k \in 1 .. n : ss[k] \in Seq(S)
  OBVIOUS
<1>2. PICK f \in [0 .. n -> Seq(S)] :
          /\ f[0] = <<>> /\ f[n] = FlattenSeq(ss)
          /\ \A k \in 1 .. n : f[k] = f[k - 1] \o ss[k]
  BY FlattenWalks
<1> DEFINE P == {k \in 0 .. n : From(f[k], k) /\ All(f[k], k) /\ Ordered(f[k], k)}
<1>3. 0 \in P
  <2>1. Len(f[0]) = 0 /\ 0 \in 0 .. n
    BY <1>1, <1>2
  <2> QED
    BY <2>1
<1>4. ASSUME NEW k \in 1 .. n, k - 1 \in P PROVE k \in P
  <2>1. /\ k - 1 \in 0 .. n /\ k \in 0 .. n /\ k \in 1 .. k
        /\ \A a \in 1 .. k - 1 : a \in 1 .. k /\ a < k
        /\ \A a \in 1 .. k : a # k => a \in 1 .. k - 1
    BY <1>1
  <2>2. PICK u \in Seq(S) : u = f[k - 1]
    BY <1>2, <2>1
  <2>3. PICK v \in Seq(S) : v = ss[k]
    BY <1>1
  <2>4. PICK w \in Seq(S) : w = f[k]
    BY <1>2, <2>1
  <2>5. /\ w = u \o v /\ Len(w) = Len(u) + Len(v) /\ Len(u) \in Nat /\ Len(v) \in Nat
        /\ \A i \in 1 .. Len(u) : i \in 1 .. Len(w) /\ w[i] = u[i]
        /\ \A i \in 1 .. Len(v) : Len(u) + i \in 1 .. Len(w) /\ w[Len(u) + i] = v[i]
    <3>1. w = u \o v
      BY <1>2, <2>2, <2>3, <2>4
    <3> QED
      BY <3>1, Appended
  <2>6. ASSUME NEW i \in 1 .. Len(w)
        PROVE  \/ i \in 1 .. Len(u) /\ w[i] = u[i]
               \/ i - Len(u) \in 1 .. Len(v) /\ w[i] = v[i - Len(u)] /\ i > Len(u)
    BY <2>5, Appended
  <2>7. From(u, k - 1) /\ All(u, k - 1) /\ Ordered(u, k - 1)
    BY <1>4, <2>2
  <2>8. From(w, k)
    <3> SUFFICES ASSUME NEW i \in 1 .. Len(w)
                 PROVE  \E a \in 1 .. k : \E b \in 1 .. Len(ss[a]) : w[i] = ss[a][b]
      OBVIOUS
    <3>1. CASE i \in 1 .. Len(u) /\ w[i] = u[i]
      <4>1. PICK a \in 1 .. k - 1 : \E b \in 1 .. Len(ss[a]) : u[i] = ss[a][b]
        BY <2>7, <3>1
      <4> QED
        BY <2>1, <3>1, <4>1
    <3>2. CASE i - Len(u) \in 1 .. Len(v) /\ w[i] = v[i - Len(u)]
      BY <2>1, <2>3, <3>2
    <3> QED
      BY <2>6, <3>1, <3>2
  <2>9. All(w, k)
    <3> SUFFICES ASSUME NEW a \in 1 .. k, NEW b \in 1 .. Len(ss[a])
                 PROVE  \E i \in 1 .. Len(w) : w[i] = ss[a][b]
      OBVIOUS
    <3>1. CASE a = k
      BY <2>3, <2>5, <3>1
    <3>2. CASE a # k
      <4>1. PICK i \in 1 .. Len(u) : u[i] = ss[a][b]
        BY <2>1, <2>7, <3>2
      <4> QED
        BY <2>5, <4>1
    <3> QED
      BY <3>1, <3>2
  <2>10. Ordered(w, k)
    <3> SUFFICES ASSUME NEW i \in 1 .. Len(w), NEW j \in 1 .. Len(w), i < j
                 PROVE  \E a, c \in 1 .. k : \E b \in 1 .. Len(ss[a]), d \in 1 .. Len(ss[c]) :
                             /\ w[i] = ss[a][b] /\ w[j] = ss[c][d]
                             /\ a < c \/ (a = c /\ b < d)
      OBVIOUS
    <3>1. CASE j \in 1 .. Len(u) /\ w[j] = u[j]
      <4>1. i \in 1 .. Len(u) /\ w[i] = u[i]
        BY <2>5, <3>1
      <4>2. PICK a \in 1 .. k - 1, c \in 1 .. k - 1 : \E b \in 1 .. Len(ss[a]), d \in 1 .. Len(ss[c]) :
                    /\ u[i] = ss[a][b] /\ u[j] = ss[c][d]
                    /\ a < c \/ (a = c /\ b < d)
        BY <2>7, <3>1, <4>1
      <4> QED
        BY <2>1, <3>1, <4>1, <4>2
    <3>2. CASE j - Len(u) \in 1 .. Len(v) /\ w[j] = v[j - Len(u)] /\ i \in 1 .. Len(u) /\ w[i] = u[i]
      <4>1. PICK a \in 1 .. k - 1 : \E b \in 1 .. Len(ss[a]) : u[i] = ss[a][b]
        BY <2>7, <3>2
      <4> QED
        BY <2>1, <2>3, <3>2, <4>1
    <3>3. CASE /\ j - Len(u) \in 1 .. Len(v) /\ w[j] = v[j - Len(u)]
               /\ i - Len(u) \in 1 .. Len(v) /\ w[i] = v[i - Len(u)]
      <4>1. i - Len(u) < j - Len(u)
        BY <2>5
      <4> QED
        BY <2>1, <2>3, <3>3, <4>1
    <3> QED
      BY <2>6, <3>1, <3>2, <3>3
  <2> HIDE DEF From, All, Ordered
  <2> QED
    BY <2>1, <2>4, <2>8, <2>9, <2>10
<1> HIDE DEF P
<1>5. n \in P
  <2>1. 0 .. n \subseteq P
    BY <1>1, <1>3, <1>4, Ladder
  <2> QED
    BY <1>1, <2>1
<1>6. FlattenSeq(ss) \in Seq(S)
  BY <1>1, <1>2
<1>7. From(FlattenSeq(ss), n) /\ All(FlattenSeq(ss), n) /\ Ordered(FlattenSeq(ss), n)
  BY <1>2, <1>5 DEF P
<1> QED
  BY <1>6, <1>7 DEF Flat

-----------------------------------------------------------------------------
(* The content of a chunk                                                  *)

Tok == Nat \X Nat \X Nat

\* The tokens of T that are in s are in the order of the text.
Sorted(s, T) ==
    \A j, k \in 1 .. Len(s) : j < k /\ s[j] \in T /\ s[k] \in T => Before(s[j], s[k])

\* What A has of T is before what B has of it.
Below(A, B, T) == \A x \in A \cap T, y \in B \cap T : Before(x, y)

LEMMA Elements ==
    ASSUME NEW S, NEW s \in Seq(S)
    PROVE  /\ ToSet(s) = {s[i] : i \in 1 .. Len(s)}
           /\ \A x : x \in ToSet(s) <=> \E i \in 1 .. Len(s) : x = s[i]
           /\ \A i \in 1 .. Len(s) : s[i] \in ToSet(s)
           /\ ToSet(s) \subseteq S
<1>1. DOMAIN s = 1 .. Len(s) /\ \A i \in 1 .. Len(s) : s[i] \in S
  OBVIOUS
<1>2. ToSet(s) = {s[i] : i \in 1 .. Len(s)}
  BY <1>1 DEF ToSet
<1> QED
  BY <1>1, <1>2

\* In g the part p begins after d tokens: after the whole w, or after the joint behind it.
Begins(g, w, p, d) ==
    /\ d = Len(w) \/ d = Len(w) + 1
    /\ Len(g) = d + Len(p)
    /\ \A i \in 1 .. Len(w) : i \in 1 .. Len(g) /\ g[i] = w[i]
    /\ \A i \in 1 .. Len(p) : d + i \in 1 .. Len(g) /\ g[d + i] = p[i]
    /\ \A i \in 1 .. Len(g) :
          \/ i \in 1 .. Len(w) /\ g[i] = w[i]
          \/ g[i] = Joint
          \/ i > d /\ i - d \in 1 .. Len(p) /\ g[i] = p[i - d]

LEMMA GluedParts ==
    ASSUME NEW w \in Seq(Tok), NEW p \in Seq(Tok), NEW g, g = Glued(w, p)
    PROVE  /\ g \in Seq(Tok)
           /\ Len(w) = 0 => g = p
           /\ \E d \in Nat : Begins(g, w, p, d)
<1>0. Len(w) \in Nat /\ Len(p) \in Nat /\ (Len(w) = 0 => w = <<>>)
  BY EmptySeq
<1>1. CASE w = <<>>
  <2>1. g = p /\ Len(w) = 0
    BY <1>1 DEF Glued
  <2>2. Begins(g, w, p, 0)
    BY <1>0, <2>1 DEF Begins
  <2> QED
    BY <2>1, <2>2
<1>2. CASE w # <<>>
  <2>1. g = Append(w, Joint) \o p
    BY <1>2 DEF Glued
  <2>2. Joint \in Tok
    BY DEF Joint, Tok
  <2>3. PICK u \in Seq(Tok) : u = Append(w, Joint)
    BY <2>2, AppendProperties
  <2>4. /\ Len(u) = Len(w) + 1 /\ u[Len(w) + 1] = Joint
        /\ \A i \in 1 .. Len(w) : u[i] = w[i]
    BY <2>2, <2>3, AppendProperties
  <2>5. /\ g \in Seq(Tok) /\ Len(g) = Len(u) + Len(p)
        /\ \A i \in 1 .. Len(u) : i \in 1 .. Len(g) /\ g[i] = u[i]
        /\ \A i \in 1 .. Len(p) : Len(u) + i \in 1 .. Len(g) /\ g[Len(u) + i] = p[i]
        /\ \A i \in 1 .. Len(g) :
              \/ i \in 1 .. Len(u) /\ g[i] = u[i]
              \/ i > Len(u) /\ i - Len(u) \in 1 .. Len(p) /\ g[i] = p[i - Len(u)]
    BY <2>1, <2>3, Appended
  <2>6. \A i \in 1 .. Len(w) + 1 : i \in 1 .. Len(w) \/ i = Len(w) + 1
    BY <1>0
  <2>7. \A i \in 1 .. Len(w) : i \in 1 .. Len(u)
    BY <1>0, <2>4
  <2>8. Len(w) # 0
    BY <1>0, <1>2
  <2>9. Begins(g, w, p, Len(u))
    BY <1>0, <2>4, <2>5, <2>6, <2>7 DEF Begins
  <2>10. Len(u) \in Nat
    OBVIOUS
  <2> QED
    BY <2>5, <2>8, <2>9, <2>10
<1> QED
  BY <1>1, <1>2

\* Gluing adds nothing of T, loses nothing of it and keeps its order.
LEMMA GluedKeeps ==
    ASSUME NEW w \in Seq(Tok), NEW p \in Seq(Tok), NEW T, Joint \notin T
    PROVE  /\ Glued(w, p) \in Seq(Tok)
           /\ Len(Glued(w, p)) <= Len(w) + 1 + Len(p)
           /\ \A x \in T : x \in ToSet(Glued(w, p)) <=> x \in ToSet(w) \/ x \in ToSet(p)
           /\ Sorted(w, T) /\ Sorted(p, T) /\ Below(ToSet(w), ToSet(p), T) => Sorted(Glued(w, p), T)
<1>1. PICK g : g = Glued(w, p)
  OBVIOUS
<1>2. g \in Seq(Tok)
  BY <1>1, GluedParts
<1>10. PICK d \in Nat : Begins(g, w, p, d)
  BY <1>1, GluedParts
<1>3. /\ d = Len(w) \/ d = Len(w) + 1
      /\ Len(g) = d + Len(p)
      /\ \A i \in 1 .. Len(w) : i \in 1 .. Len(g) /\ g[i] = w[i]
      /\ \A i \in 1 .. Len(p) : d + i \in 1 .. Len(g) /\ g[d + i] = p[i]
      /\ \A i \in 1 .. Len(g) :
            \/ i \in 1 .. Len(w) /\ g[i] = w[i]
            \/ g[i] = Joint
            \/ i > d /\ i - d \in 1 .. Len(p) /\ g[i] = p[i - d]
  BY <1>10 DEF Begins
<1>4. Len(g) <= Len(w) + 1 + Len(p)
  BY <1>3
<1>5. ASSUME NEW x \in T
      PROVE  x \in ToSet(g) <=> x \in ToSet(w) \/ x \in ToSet(p)
  <2>1. x \in ToSet(g) => x \in ToSet(w) \/ x \in ToSet(p)
    <3> SUFFICES ASSUME NEW i \in 1 .. Len(g), x = g[i] PROVE x \in ToSet(w) \/ x \in ToSet(p)
      BY <1>2, Elements
    <3> QED
      BY <1>3, Elements
  <2>2. x \in ToSet(w) => x \in ToSet(g)
    <3> SUFFICES ASSUME NEW i \in 1 .. Len(w), x = w[i] PROVE x \in ToSet(g)
      BY Elements
    <3> QED
      BY <1>2, <1>3, Elements
  <2>3. x \in ToSet(p) => x \in ToSet(g)
    <3> SUFFICES ASSUME NEW i \in 1 .. Len(p), x = p[i] PROVE x \in ToSet(g)
      BY Elements
    <3> QED
      BY <1>2, <1>3, Elements
  <2> QED
    BY <2>1, <2>2, <2>3
<1>6. ASSUME Sorted(w, T), Sorted(p, T), Below(ToSet(w), ToSet(p), T)
      PROVE  Sorted(g, T)
  <2> SUFFICES ASSUME NEW j \in 1 .. Len(g), NEW k \in 1 .. Len(g), j < k, g[j] \in T, g[k] \in T
               PROVE  Before(g[j], g[k])
    BY DEF Sorted
  <2>1. CASE k \in 1 .. Len(w) /\ g[k] = w[k]
    <3>1. j \in 1 .. Len(w) /\ g[j] = w[j]
      BY <1>3, <2>1
    <3> QED
      BY <1>6, <2>1, <3>1 DEF Sorted
  <2>2. CASE k > d /\ k - d \in 1 .. Len(p) /\ g[k] = p[k - d]
    <3>1. CASE j \in 1 .. Len(w) /\ g[j] = w[j]
      <4>1. g[j] \in ToSet(w) /\ g[k] \in ToSet(p)
        BY <2>2, <3>1, Elements
      <4> QED
        BY <1>6, <4>1 DEF Below
    <3>2. CASE j > d /\ j - d \in 1 .. Len(p) /\ g[j] = p[j - d]
      <4>1. j - d < k - d
        OBVIOUS
      <4> QED
        BY <1>6, <2>2, <3>2, <4>1 DEF Sorted
    <3> QED
      BY <1>3, <3>1, <3>2
  <2> QED
    BY <1>3, <2>1, <2>2
<1> QED
  BY <1>1, <1>2, <1>4, <1>5, <1>6

LEMMA JoinedWalks ==
    ASSUME NEW parts \in Seq(Seq(Tok))
    PROVE  \E f \in [0 .. Len(parts) -> Seq(Tok)] :
              /\ f[0] = <<>> /\ f[Len(parts)] = Joined(parts)
              /\ \A k \in 1 .. Len(parts) : f[k] = Glued(f[k - 1], parts[k])
<1>1. PICK n \in Nat : n = Len(parts) /\ DOMAIN parts = 1 .. n
  OBVIOUS
<1> DEFINE Body(h) == [s \in SUBSET (1 .. n) |->
                          IF s = {} THEN <<>> ELSE Glued(h[s \ {Max(s)}], parts[Max(s)])]
           iter == CHOOSE h : h = Body(h)
           H == [k \in 1 .. n |-> [v \in Seq(Tok) |-> Glued(v, parts[k])]]
<1>2. Joined(parts) = iter[1 .. n]
  BY <1>1 DEF Joined, FoldLeft, MapThenFoldSet
<1>3. <<>> \in Seq(Tok) /\ \A k \in 1 .. n : parts[k] \in Seq(Tok)
  BY <1>1
<1>4. H \in [1 .. n -> [Seq(Tok) -> Seq(Tok)]]
  BY <1>3, GluedParts
<1>5. PICK base \in Seq(Tok) : base = <<>>
  BY <1>3
<1>6. PICK g \in [SUBSET (1 .. n) -> Seq(Tok)] : Solves(g, base, H, n)
  <2> HIDE DEF H
  <2> QED
    BY <1>4, FoldExists
<1>7. ASSUME NEW s \in SUBSET (1 .. n)
      PROVE  g[s] = IF s = {} THEN <<>> ELSE Glued(g[s \ {Max(s)}], parts[Max(s)])
  <2>1. CASE s # {}
    <3>1. Max(s) \in 1 .. n /\ s \ {Max(s)} \in SUBSET (1 .. n)
      BY <2>1, MaxIn
    <3>2. g[s \ {Max(s)}] \in Seq(Tok)
      BY <3>1
    <3>3. H[Max(s)][g[s \ {Max(s)}]] = Glued(g[s \ {Max(s)}], parts[Max(s)])
      BY <3>1, <3>2
    <3> HIDE DEF H
    <3> QED
      BY <1>6, <2>1, <3>3 DEF Solves
  <2>2. CASE s = {}
    BY <1>5, <1>6, <2>2 DEF Solves
  <2> QED
    BY <2>1, <2>2
<1>8. g = Body(g)
  BY <1>7
<1>9. iter = Body(iter)
  BY <1>8
<1> HIDE DEF iter, H
<1>10. iter[1 .. 0] = <<>>
  <2>1. 1 .. 0 = {} /\ 1 .. 0 \in SUBSET (1 .. n)
    OBVIOUS
  <2> QED
    BY <1>9, <2>1
<1>11. ASSUME NEW k \in 1 .. n PROVE iter[1 .. k] = Glued(iter[1 .. (k - 1)], parts[k])
  <2>1. 1 .. k \in SUBSET (1 .. n) /\ 1 .. k # {} /\ Max(1 .. k) = k /\ (1 .. k) \ {k} = 1 .. (k - 1)
    BY Interval
  <2>2. iter[1 .. k] = Glued(iter[(1 .. k) \ {Max(1 .. k)}], parts[Max(1 .. k)])
    BY <1>9, <2>1
  <2> QED
    BY <2>1, <2>2
<1> DEFINE P == {k \in 0 .. n : iter[1 .. k] \in Seq(Tok)}
<1>12. 0 .. n \subseteq P
  <2>1. 0 \in P
    <3>1. 0 \in 0 .. n /\ iter[1 .. 0] \in Seq(Tok)
      BY <1>3, <1>10
    <3> HIDE DEF P
    <3> QED
      BY <3>1 DEF P
  <2>2. ASSUME NEW k \in 1 .. n, k - 1 \in P PROVE k \in P
    <3>1. Glued(iter[1 .. (k - 1)], parts[k]) \in Seq(Tok)
      BY <1>3, <2>2, GluedParts
    <3> QED
      BY <1>11, <3>1
  <2> HIDE DEF P
  <2> QED
    BY <2>1, <2>2, Ladder
<1> DEFINE f == [k \in 0 .. n |-> iter[1 .. k]]
<1>13. f \in [0 .. n -> Seq(Tok)] /\ f[0] = <<>> /\ f[n] = iter[1 .. n]
  BY <1>10, <1>12
<1>14. \A k \in 1 .. n : f[k] = Glued(f[k - 1], parts[k])
  <2> TAKE k \in 1 .. n
  <2>1. k \in 0 .. n /\ k - 1 \in 0 .. n
    OBVIOUS
  <2>2. f[k] = iter[1 .. k] /\ f[k - 1] = iter[1 .. (k - 1)]
    BY <2>1
  <2> HIDE DEF f
  <2> QED
    BY <1>11, <2>2
<1> HIDE DEF f
<1> QED
  BY <1>1, <1>2, <1>13, <1>14

\* The parts of a chunk keep their tokens and their order when they are joined.
LEMMA JoinedKeeps ==
    ASSUME NEW parts \in Seq(Seq(Tok)), NEW T, Joint \notin T
    PROVE  /\ Joined(parts) \in Seq(Tok)
           /\ \A x \in T : x \in ToSet(Joined(parts)) <=> \E i \in 1 .. Len(parts) : x \in ToSet(parts[i])
           /\ /\ \A i \in 1 .. Len(parts) : Sorted(parts[i], T)
              /\ \A i, j \in 1 .. Len(parts) : i < j => Below(ToSet(parts[i]), ToSet(parts[j]), T)
              => Sorted(Joined(parts), T)
<1>1. PICK n \in Nat : n = Len(parts)
  OBVIOUS
<1>2. PICK f \in [0 .. n -> Seq(Tok)] :
         /\ f[0] = <<>> /\ f[n] = Joined(parts)
         /\ \A k \in 1 .. n : f[k] = Glued(f[k - 1], parts[k])
  BY <1>1, JoinedWalks
<1> DEFINE Has(k) == \A x \in T : x \in ToSet(f[k]) <=> \E i \in 1 .. k : x \in ToSet(parts[i])
           Order == /\ \A i \in 1 .. n : Sorted(parts[i], T)
                    /\ \A i, j \in 1 .. n : i < j => Below(ToSet(parts[i]), ToSet(parts[j]), T)
           P == {k \in 0 .. n : Has(k) /\ (Order => Sorted(f[k], T))}
<1>3. 0 \in P
  <2>1. Len(f[0]) = 0 /\ ToSet(f[0]) = {}
    BY <1>2, EmptySeq DEF ToSet
  <2>2. Sorted(f[0], T)
    BY <2>1 DEF Sorted
  <2>3. \A i : i \notin 1 .. 0
    OBVIOUS
  <2>4. 0 \in 0 .. n
    OBVIOUS
  <2> QED
    BY <2>1, <2>2, <2>3, <2>4
<1>4. ASSUME NEW k \in 1 .. n, k - 1 \in P PROVE k \in P
  <2>1. /\ k - 1 \in 0 .. n /\ k \in 0 .. n /\ k \in 1 .. k
        /\ \A i \in 1 .. k - 1 : i \in 1 .. k /\ i < k /\ i \in 1 .. n
        /\ \A i \in 1 .. k : i # k => i \in 1 .. k - 1
    OBVIOUS
  <2>2. PICK w \in Seq(Tok) : w = f[k - 1]
    BY <1>2, <2>1
  <2>3. PICK p \in Seq(Tok) : p = parts[k]
    BY <1>1
  <2>4. f[k] = Glued(w, p)
    BY <1>2, <2>2, <2>3
  <2>5. /\ \A x \in T : x \in ToSet(f[k]) <=> x \in ToSet(w) \/ x \in ToSet(p)
        /\ Sorted(w, T) /\ Sorted(p, T) /\ Below(ToSet(w), ToSet(p), T) => Sorted(f[k], T)
    BY <2>4, GluedKeeps
  <2>6. \A x \in T : x \in ToSet(w) <=> \E i \in 1 .. k - 1 : x \in ToSet(parts[i])
    BY <1>4, <2>2
  <2>7. Has(k)
    BY <2>1, <2>3, <2>5, <2>6
  <2>8. ASSUME Order PROVE Sorted(f[k], T)
    <3>1. Sorted(w, T)
      BY <1>4, <2>2, <2>8
    <3>2. Sorted(p, T)
      BY <2>3, <2>8
    <3>3. Below(ToSet(w), ToSet(p), T)
      <4> SUFFICES ASSUME NEW x \in ToSet(w) \cap T, NEW y \in ToSet(p) \cap T PROVE Before(x, y)
        BY DEF Below
      <4>1. PICK i \in 1 .. k - 1 : x \in ToSet(parts[i])
        BY <2>6
      <4>2. Below(ToSet(parts[i]), ToSet(parts[k]), T)
        BY <2>1, <2>8
      <4> QED
        BY <2>3, <4>1, <4>2 DEF Below
    <3> QED
      BY <2>5, <3>1, <3>2, <3>3
  <2> HIDE DEF Has, Order
  <2> QED
    BY <2>1, <2>7, <2>8
<1> HIDE DEF P
<1>5. n \in P
  <2>1. 0 .. n \subseteq P
    BY <1>3, <1>4, Ladder
  <2> QED
    BY <2>1
<1>6. Has(n) /\ (Order => Sorted(f[n], T))
  BY <1>5 DEF P
<1>7. Joined(parts) \in Seq(Tok)
  <2>1. n \in 0 .. n
    OBVIOUS
  <2> QED
    BY <1>2, <2>1
<1> QED
  BY <1>1, <1>2, <1>6, <1>7

LEMMA JoinedShort ==
    ASSUME NEW parts \in Seq(Seq(Tok))
    PROVE  /\ Len(parts) = 1 => Joined(parts) = parts[1]
           /\ Len(parts) = 2 => Len(Joined(parts)) <= Len(parts[1]) + 1 + Len(parts[2])
           /\ Len(parts) = 3 =>
                 Len(Joined(parts)) <= Len(parts[1]) + 1 + Len(parts[2]) + 1 + Len(parts[3])
<1>1. PICK n \in Nat : n = Len(parts)
  OBVIOUS
<1>2. PICK f \in [0 .. n -> Seq(Tok)] :
         /\ f[0] = <<>> /\ f[n] = Joined(parts)
         /\ \A k \in 1 .. n : f[k] = Glued(f[k - 1], parts[k])
  BY <1>1, JoinedWalks
<1>3. ASSUME n >= 1 PROVE f[1] = parts[1]
  <2>1. 1 \in 1 .. n /\ 1 - 1 = 0
    BY <1>3
  <2> QED
    BY <1>2, <2>1 DEF Glued
<1>4. ASSUME NEW k \in 1 .. n
      PROVE  /\ f[k - 1] \in Seq(Tok) /\ f[k] \in Seq(Tok) /\ parts[k] \in Seq(Tok)
             /\ Len(f[k]) <= Len(f[k - 1]) + 1 + Len(parts[k])
  <2>1. k - 1 \in 0 .. n /\ k \in 0 .. n
    OBVIOUS
  <2>2. PICK w \in Seq(Tok) : w = f[k - 1]
    BY <1>2, <2>1
  <2>3. PICK p \in Seq(Tok) : p = parts[k]
    BY <1>1
  <2>4. f[k] = Glued(w, p)
    BY <1>2, <2>2, <2>3
  <2>5. PICK T : T = {}
    OBVIOUS
  <2>6. Joint \notin T
    BY <2>5
  <2>7. f[k] \in Seq(Tok) /\ Len(f[k]) <= Len(w) + 1 + Len(p)
    BY <2>4, <2>6, GluedKeeps
  <2> QED
    BY <2>2, <2>3, <2>7
<1>5. CASE n = 1
  BY <1>1, <1>2, <1>3, <1>5
<1>6. ASSUME n >= 2
      PROVE  Len(f[2]) <= Len(parts[1]) + 1 + Len(parts[2]) /\ Len(f[2]) \in Nat
  <2>1. 2 \in 1 .. n /\ 2 - 1 = 1
    BY <1>6
  <2>2. /\ f[2] \in Seq(Tok)
        /\ Len(f[2]) <= Len(f[1]) + 1 + Len(parts[2])
    BY <1>4, <2>1
  <2>3. f[1] = parts[1]
    BY <1>3, <1>6
  <2>4. Len(f[2]) \in Nat
    BY <2>2
  <2> QED
    BY <2>2, <2>3, <2>4
<1>7. CASE n = 2
  <2>3. n >= 2
    BY <1>7
  <2>1. Len(f[2]) <= Len(parts[1]) + 1 + Len(parts[2])
    BY <1>6, <2>3, Zenon
  <2>2. Joined(parts) = f[2] /\ Len(parts) = 2
    BY <1>1, <1>2, <1>7
  <2> QED
    BY <2>1, <2>2
<1>8. CASE n = 3
  <2>1. 1 \in 1 .. n /\ 2 \in 1 .. n /\ 3 \in 1 .. n /\ 3 - 1 = 2
    BY <1>8
  <2>2. /\ f[3] \in Seq(Tok) /\ parts[1] \in Seq(Tok) /\ parts[2] \in Seq(Tok) /\ parts[3] \in Seq(Tok)
        /\ Len(f[3]) <= Len(f[2]) + 1 + Len(parts[3])
    BY <1>4, <2>1
  <2>3. PICK a \in Nat, b \in Nat, c \in Nat, d \in Nat, e \in Nat :
           a = Len(parts[1]) /\ b = Len(parts[2]) /\ c = Len(parts[3]) /\ d = Len(f[2]) /\ e = Len(f[3])
    <3>3. n >= 2
      BY <1>8
    <3>1. Len(f[2]) \in Nat
      BY <1>6, <3>3
    <3>4. \A s \in Seq(Tok) : Len(s) \in Nat
      OBVIOUS
    <3>2. Len(parts[1]) \in Nat /\ Len(parts[2]) \in Nat /\ Len(parts[3]) \in Nat /\ Len(f[3]) \in Nat
      BY <2>2, <3>4, Zenon
    <3> QED
      BY <3>1, <3>2
  <2>4. d <= a + 1 + b /\ e <= d + 1 + c
    <3>1. Len(f[2]) <= Len(parts[1]) + 1 + Len(parts[2])
      <4>1. n >= 2
        BY <1>8
      <4> QED
        BY <1>6, <4>1, Zenon
    <3> QED
      BY <2>2, <2>3, <3>1
  <2>5. e <= a + 1 + b + 1 + c
    BY <2>4
  <2>6. Joined(parts) = f[3] /\ Len(parts) = 3
    BY <1>1, <1>2, <1>8
  <2> QED
    BY <2>3, <2>5, <2>6
<1> QED
  BY <1>1, <1>5, <1>7, <1>8

Unit == [tokens : Seq(Tok), section : Nat, opens : BOOLEAN]

\* A set of numbers up to n has a minimum.
LEMMA MinIn ==
    ASSUME NEW n \in Nat, NEW S \in SUBSET (1 .. n), S # {}
    PROVE  Min(S) \in S
<1> DEFINE T == {k \in Nat : k \in S}
<1>4. T # {}
  <2>1. PICK x : x \in S
    OBVIOUS
  <2>2. x \in 1 .. n
    BY <2>1
  <2>3. x \in T
    BY <2>1, <2>2
  <2> QED
    BY <2>3
<1>1. PICK m \in T : \A k \in T : ~ (<<k, m>> \in OpToRel(<, Nat))
  BY <1>4, WFMin, NatLessThanWellFounded
<1>2. \A k \in S : m <= k
  <2> SUFFICES ASSUME NEW k \in S, k < m PROVE FALSE
    OBVIOUS
  <2>1. k \in T /\ k \in Nat /\ m \in Nat
    OBVIOUS
  <2>2. <<k, m>> \in OpToRel(<, Nat)
    BY <2>1 DEF OpToRel
  <2> QED
    BY <1>1, <2>1, <2>2
<1>3. m \in S /\ S \in SUBSET Int
  OBVIOUS
<1> QED
  BY <1>2, <1>3, MinIs

LEMMA StampAdds ==
    ASSUME NEW s \in Nat
    PROVE  Stamp(s) \in Seq(Tok) /\ Len(Stamp(s)) = HeadingTokens /\ \A x \in ToSet(Stamp(s)) : x[1] = 0
<1>1. HeadingTokens \in Nat
  BY ChunkAssumption
<1>2. \A k \in 1 .. HeadingTokens : <<0, s, k>> \in Tok /\ <<0, s, k>>[1] = 0
  BY <1>1 DEF Tok
<1>3. Stamp(s) \in [1 .. HeadingTokens -> Tok]
  BY <1>2 DEF Stamp
<1>4. Stamp(s) \in Seq(Tok) /\ Len(Stamp(s)) = HeadingTokens
  BY <1>1, <1>3
<1>5. \A k \in 1 .. HeadingTokens : Stamp(s)[k][1] = 0
  BY <1>2 DEF Stamp
<1> QED
  BY <1>4, <1>5, Elements

\* The parts of a chunk: a stamp or none, the overlap or none, and the body.
Laid(parts, st, pf, head, overlap, body) ==
    \/ st = <<>> /\ pf = <<>> /\ Len(parts) = 1 /\ parts[1] = body
    \/ st = <<>> /\ pf = <<overlap>> /\ Len(parts) = 2 /\ parts[1] = overlap /\ parts[2] = body
    \/ st = <<head>> /\ pf = <<>> /\ Len(parts) = 2 /\ parts[1] = head /\ parts[2] = body
    \/ /\ st = <<head>> /\ pf = <<overlap>>
       /\ Len(parts) = 3 /\ parts[1] = head /\ parts[2] = overlap /\ parts[3] = body

LEMMA ThreeParts ==
    ASSUME NEW head \in Seq(Tok), NEW overlap \in Seq(Tok), NEW body \in Seq(Tok),
           NEW st \in {<<>>, <<head>>}, NEW pf \in {<<>>, <<overlap>>},
           NEW parts, parts = st \o pf \o <<body>>
    PROVE  parts \in Seq(Seq(Tok)) /\ Laid(parts, st, pf, head, overlap, body)
<1> DEFINE S == Seq(Tok)
<1>1. \A x \in S : <<x>> \in Seq(S) /\ Len(<<x>>) = 1 /\ <<x>>[1] = x
  OBVIOUS
<1>2. <<>> \in Seq(S) /\ Len(<<>>) = 0
  OBVIOUS
<1>3. st \in Seq(S) /\ pf \in Seq(S) /\ <<body>> \in Seq(S) /\ head \in S /\ overlap \in S /\ body \in S
  BY <1>1, <1>2
<1> HIDE DEF S
<1>4. PICK u : u = st \o pf
  OBVIOUS
<1>5. /\ u \in Seq(S) /\ Len(u) = Len(st) + Len(pf)
      /\ \A i \in 1 .. Len(st) : u[i] = st[i]
      /\ \A i \in 1 .. Len(pf) : u[Len(st) + i] = pf[i]
  BY <1>3, <1>4, Appended
<1>6. /\ parts \in Seq(S) /\ Len(parts) = Len(u) + Len(<<body>>)
      /\ \A i \in 1 .. Len(u) : parts[i] = u[i]
      /\ \A i \in 1 .. Len(<<body>>) : parts[Len(u) + i] = <<body>>[i]
  BY <1>3, <1>4, <1>5, Appended
<1>7. Len(parts) = Len(u) + 1 /\ parts[Len(u) + 1] = body
  <2>1. Len(<<body>>) = 1 /\ <<body>>[1] = body
    OBVIOUS
  <2>2. 1 \in 1 .. Len(<<body>>)
    BY <2>1
  <2> QED
    BY <1>6, <2>1, <2>2
<1>8. /\ st = <<>> => Len(st) = 0
      /\ st # <<>> => st = <<head>> /\ Len(st) = 1 /\ st[1] = head
      /\ pf = <<>> => Len(pf) = 0
      /\ pf # <<>> => pf = <<overlap>> /\ Len(pf) = 1 /\ pf[1] = overlap
  BY <1>1, <1>2, <1>3
<1>9. CASE st = <<>> /\ pf = <<>>
  BY <1>5, <1>6, <1>7, <1>8, <1>9 DEF S, Laid
<1>13. 1 \in 1 .. 1 /\ 0 + 1 = 1 /\ 1 + 1 = 2 /\ 1 \in 1 .. 2 /\ 2 \in 1 .. 2 /\ 2 + 1 = 3
  OBVIOUS
<1>10. CASE st = <<>> /\ pf # <<>>
  <2>1. Len(u) = 1 /\ u[1] = overlap
    <3>1. Len(st) = 0 /\ Len(pf) = 1 /\ pf[1] = overlap
      BY <1>8, <1>10
    <3> QED
      BY <1>5, <1>13, <3>1
  <2> QED
    BY <1>6, <1>7, <1>8, <1>10, <1>13, <2>1 DEF S, Laid
<1>11. CASE st # <<>> /\ pf = <<>>
  <2>1. Len(u) = 1 /\ u[1] = head
    <3>1. Len(st) = 1 /\ Len(pf) = 0 /\ st[1] = head
      BY <1>8, <1>11
    <3> QED
      BY <1>5, <1>13, <3>1
  <2> QED
    BY <1>6, <1>7, <1>8, <1>11, <1>13, <2>1 DEF S, Laid
<1>12. CASE st # <<>> /\ pf # <<>>
  <2>1. Len(u) = 2 /\ u[1] = head /\ u[2] = overlap
    <3>1. Len(st) = 1 /\ Len(pf) = 1 /\ st[1] = head /\ pf[1] = overlap
      BY <1>8, <1>12
    <3> QED
      BY <1>5, <1>13, <3>1
  <2> QED
    BY <1>6, <1>7, <1>8, <1>12, <1>13, <2>1 DEF S, Laid
<1> QED
  BY <1>9, <1>10, <1>11, <1>12

\* The text of a chunk has the tokens of the overlap and of its units, in their order;
\* a single unit is exceeded by the overlap, a stamp and two joints at most.
LEMMA Formatted ==
    ASSUME NEW units \in Seq(Unit), units # <<>>, NEW overlap \in Seq(Tok),
           NEW T, \A x \in T : x[1] # 0
    PROVE  /\ FormatContent(units, overlap) \in Seq(Tok)
           /\ \A x \in T : x \in ToSet(FormatContent(units, overlap)) <=>
                 \/ x \in ToSet(overlap)
                 \/ \E i \in 1 .. Len(units) : x \in ToSet(units[i].tokens)
           /\ /\ Sorted(overlap, T)
              /\ \A i \in 1 .. Len(units) :
                    /\ Sorted(units[i].tokens, T)
                    /\ Below(ToSet(overlap), ToSet(units[i].tokens), T)
              /\ \A i, j \in 1 .. Len(units) :
                    i < j => Below(ToSet(units[i].tokens), ToSet(units[j].tokens), T)
              => Sorted(FormatContent(units, overlap), T)
           /\ Len(units) = 1 =>
                 Len(FormatContent(units, overlap)) <=
                    HeadingTokens + Len(overlap) + 2 + Len(units[1].tokens)
<1>1. PICK n \in Nat : n = Len(units) /\ DOMAIN units = 1 .. n /\ n # 0
  BY EmptySeq
<1> DEFINE sections == {i \in DOMAIN units : units[i].section # 0}
           stamp == IF sections = {} \/ units[1].opens THEN <<>>
                    ELSE <<Stamp(units[Min(sections)].section)>>
           prefix == IF overlap = <<>> THEN <<>> ELSE <<overlap>>
           bodies == [i \in DOMAIN units |-> units[i].tokens]
           content == FormatContent(units, overlap)
<1>2. content = Joined(stamp \o prefix \o <<Joined(bodies)>>)
  BY DEF FormatContent
<1>3. Joint \notin T /\ \A k \in Nat : T \cap ToSet(Stamp(k)) = {}
  <2>1. Joint[1] = 0
    BY DEF Joint
  <2> QED
    BY <2>1, StampAdds
<1>4. \A i \in 1 .. n : units[i].tokens \in Seq(Tok) /\ units[i].section \in Nat
  <2>1. \A i \in 1 .. n : units[i] \in Unit
    BY <1>1
  <2> QED
    BY <2>1 DEF Unit
<1>5. bodies \in Seq(Seq(Tok)) /\ Len(bodies) = n /\ \A i \in 1 .. n : bodies[i] = units[i].tokens
  BY <1>1, <1>4
<1>6. PICK head \in Seq(Tok) :
         /\ stamp \in {<<>>, <<head>>} /\ Len(head) = HeadingTokens /\ T \cap ToSet(head) = {}
  <2>1. CASE stamp = <<>>
    <3>1. 0 \in Nat
      OBVIOUS
    <3> HIDE DEF stamp
    <3> QED
      BY <1>3, <2>1, <3>1, StampAdds
  <2>2. CASE stamp # <<>>
    <3>1. sections # {} /\ sections \in SUBSET (1 .. n)
      BY <1>1, <2>2
    <3>2. Min(sections) \in 1 .. n
      BY <3>1, MinIn
    <3>3. PICK k \in Nat : k = units[Min(sections)].section
      BY <1>4, <3>2
    <3>4. stamp = <<Stamp(k)>>
      BY <2>2, <3>3
    <3> HIDE DEF stamp
    <3> QED
      BY <1>3, <3>4, StampAdds
  <2> QED
    BY <2>1, <2>2
<1>7. prefix \in {<<>>, <<overlap>>} /\ (prefix = <<>> => overlap = <<>>)
  OBVIOUS
<1> HIDE DEF stamp, prefix, bodies, sections, content
<1>8. PICK body \in Seq(Tok) : body = Joined(bodies)
  BY <1>3, <1>5, JoinedKeeps
<1>17. PICK parts \in Seq(Seq(Tok)) :
          parts = stamp \o prefix \o <<body>> /\ Laid(parts, stamp, prefix, head, overlap, body)
  <2>1. PICK parts : parts = stamp \o prefix \o <<body>>
    OBVIOUS
  <2>2. stamp \in {<<>>, <<head>>} /\ prefix \in {<<>>, <<overlap>>}
    BY <1>6, <1>7
  <2>3. parts \in Seq(Seq(Tok)) /\ Laid(parts, stamp, prefix, head, overlap, body)
    BY <2>1, <2>2, ThreeParts
  <2> QED
    BY <2>1, <2>3
<1>9. /\ parts = stamp \o prefix \o <<body>>
      /\ \/ stamp = <<>> /\ prefix = <<>> /\ Len(parts) = 1 /\ parts[1] = body
         \/ /\ stamp = <<>> /\ prefix = <<overlap>>
            /\ Len(parts) = 2 /\ parts[1] = overlap /\ parts[2] = body
         \/ /\ stamp = <<head>> /\ prefix = <<>>
            /\ Len(parts) = 2 /\ parts[1] = head /\ parts[2] = body
         \/ /\ stamp = <<head>> /\ prefix = <<overlap>>
            /\ Len(parts) = 3 /\ parts[1] = head /\ parts[2] = overlap /\ parts[3] = body
  BY <1>17 DEF Laid
<1>10. content = Joined(parts)
  BY <1>2, <1>8, <1>9
<1>11. content \in Seq(Tok)
  BY <1>3, <1>10, JoinedKeeps
<1>12. \A x \in T : x \in ToSet(body) <=> \E i \in 1 .. n : x \in ToSet(units[i].tokens)
  BY <1>3, <1>5, <1>8, JoinedKeeps
<1>13. overlap = <<>> => ToSet(overlap) = {} /\ Sorted(overlap, T) /\ Len(overlap) = 0
  <2>1. ASSUME overlap = <<>> PROVE Len(overlap) = 0
    BY <2>1, EmptySeq
  <2>2. ASSUME Len(overlap) = 0 PROVE ToSet(overlap) = {} /\ Sorted(overlap, T)
    <3>1. \A i : i \notin 1 .. 0
      OBVIOUS
    <3>2. \A x : x \notin ToSet(overlap)
      <4>1. \A x : x \in ToSet(overlap) <=> \E i \in 1 .. Len(overlap) : x = overlap[i]
        BY Elements
      <4> QED
        BY <2>2, <3>1, <4>1
    <3> QED
      BY <2>2, <3>1, <3>2 DEF Sorted
  <2> QED
    BY <2>1, <2>2
<1>14. ASSUME NEW x \in T
       PROVE  x \in ToSet(content) <=> x \in ToSet(overlap) \/ x \in ToSet(body)
  <2>1. x \in ToSet(content) <=> \E i \in 1 .. Len(parts) : x \in ToSet(parts[i])
    BY <1>3, <1>10, JoinedKeeps
  <2>2. x \notin ToSet(head) /\ (prefix = <<>> => x \notin ToSet(overlap))
    BY <1>6, <1>7, <1>13
  <2>3. 1 .. 1 = {1} /\ 1 .. 2 = {1, 2} /\ 1 .. 3 = {1, 2, 3} /\ <<overlap>> # <<>>
    OBVIOUS
  <2> QED
    BY <1>9, <2>1, <2>2, <2>3
<1>15. ASSUME /\ Sorted(overlap, T)
              /\ \A i \in 1 .. n :
                    /\ Sorted(units[i].tokens, T)
                    /\ Below(ToSet(overlap), ToSet(units[i].tokens), T)
              /\ \A i, j \in 1 .. n : i < j => Below(ToSet(units[i].tokens), ToSet(units[j].tokens), T)
       PROVE  Sorted(content, T)
  <2>1. Sorted(body, T)
    BY <1>3, <1>5, <1>8, <1>15, JoinedKeeps
  <2>2. Below(ToSet(overlap), ToSet(body), T)
    BY <1>12, <1>15 DEF Below
  <2>3. Sorted(head, T) /\ \A A : Below(ToSet(head), A, T)
    BY <1>6, Elements DEF Sorted, Below
  <2>4. \A i \in 1 .. Len(parts) : Sorted(parts[i], T)
    <3>1. 1 .. 1 = {1} /\ 1 .. 2 = {1, 2} /\ 1 .. 3 = {1, 2, 3}
      OBVIOUS
    <3> QED
      BY <1>9, <1>15, <2>1, <2>3, <3>1
  <2>5. ASSUME NEW i \in 1 .. Len(parts), NEW j \in 1 .. Len(parts), i < j
        PROVE  Below(ToSet(parts[i]), ToSet(parts[j]), T)
    <3>1. CASE parts[i] = head
      BY <2>3, <3>1
    <3>2. CASE parts[i] # head
      <4>1. parts[i] = overlap /\ parts[j] = body
        <5>1. 1 .. 1 = {1} /\ 1 .. 2 = {1, 2} /\ 1 .. 3 = {1, 2, 3}
          OBVIOUS
        <5>2. CASE Len(parts) = 1
          BY <2>5, <5>1, <5>2
        <5>3. CASE Len(parts) = 2
          <6>1. i = 1 /\ j = 2
            BY <2>5, <5>1, <5>3
          <6> QED
            BY <1>9, <3>2, <5>3, <6>1
        <5>4. CASE Len(parts) = 3
          <6>1. i = 1 \/ (i = 2 /\ j = 3)
            BY <2>5, <5>1, <5>4
          <6>2. parts[1] = head /\ parts[2] = overlap /\ parts[3] = body
            BY <1>9, <5>4
          <6>3. CASE i = 1
            BY <3>2, <6>2, <6>3
          <6>4. CASE i = 2 /\ j = 3
            BY <6>2, <6>4
          <6> QED
            BY <6>1, <6>3, <6>4
        <5> QED
          BY <1>9, <5>2, <5>3, <5>4
      <4> QED
        BY <2>2, <4>1
    <3> QED
      BY <3>1, <3>2
  <2> QED
    BY <1>3, <1>10, <2>4, <2>5, JoinedKeeps
<1>16. ASSUME n = 1
       PROVE  Len(content) <= HeadingTokens + Len(overlap) + 2 + Len(units[1].tokens)
  <2>1. body = units[1].tokens
    <3>1. bodies[1] = units[1].tokens /\ Len(bodies) = 1
      BY <1>5, <1>16
    <3>2. Joined(bodies) = bodies[1]
      BY <1>5, <3>1, JoinedShort
    <3> QED
      BY <1>8, <3>1, <3>2
  <2>2. PICK a \in Nat, b \in Nat, c \in Nat, h \in Nat :
           a = Len(content) /\ b = Len(overlap) /\ c = Len(body) /\ h = HeadingTokens /\ h = Len(head)
    BY <1>6, <1>11
  <2>3. a <= h + b + 2 + c
    <3>1. CASE Len(parts) = 1
      <4>1. content = body
        BY <1>9, <1>10, <3>1, JoinedShort
      <4> QED
        BY <2>2, <4>1
    <3>2. CASE Len(parts) = 2
      <4>1. Len(content) <= Len(parts[1]) + 1 + Len(parts[2])
        BY <1>10, <3>2, JoinedShort
      <4>2. parts[1] \in {head, overlap} /\ parts[2] = body
        BY <1>9, <3>2
      <4> QED
        BY <2>2, <4>1, <4>2
    <3>3. CASE Len(parts) = 3
      <4>1. Len(content) <= Len(parts[1]) + 1 + Len(parts[2]) + 1 + Len(parts[3])
        BY <1>10, <3>3, JoinedShort
      <4>2. parts[1] = head /\ parts[2] = overlap /\ parts[3] = body
        BY <1>9, <3>3
      <4> QED
        BY <2>2, <4>1, <4>2
    <3> QED
      BY <1>9, <3>1, <3>2, <3>3
  <2> QED
    BY <2>1, <2>2, <2>3
<1> QED
  BY <1>1, <1>11, <1>12, <1>14, <1>15, <1>16 DEF content

LEMMA ReplacementTyped == Replacement \in Tok /\ Replacement[1] = 0
BY DEF Replacement, Tok

\* s is the slice from i to j, but for torn tokens.
IsDecoded(tokens, s, i, j) ==
    /\ s \in Seq(Tok) /\ Len(s) = j - i + 1
    /\ \A k \in 1 .. j - i + 1 :
          /\ i + k - 1 \in 1 .. Len(tokens) /\ i + k - 1 \in i .. j
          /\ s[k] = tokens[i + k - 1] \/ s[k] = Replacement
          /\ ~Torn(tokens, i, j, i + k - 1) => s[k] = tokens[i + k - 1]

\* A slice of tokens decodes to its tokens, but for torn ones.
LEMMA Decoded ==
    ASSUME NEW tokens \in Seq(Tok), NEW i \in Nat \ {0}, NEW j \in 0 .. Len(tokens), i <= j + 1
    PROVE  IsDecoded(tokens, Decode(tokens, i, j), i, j)
<1>1. PICK n \in Nat : n = j - i + 1
  <2>1. j - i + 1 \in Nat
    OBVIOUS
  <2> QED
    BY <2>1
<1>2. PICK s : s = Decode(tokens, i, j)
  OBVIOUS
<1>3. s = [k \in 1 .. n |-> IF Torn(tokens, i, j, i + k - 1) THEN Replacement ELSE tokens[i + k - 1]]
  BY <1>1, <1>2 DEF Decode
<1>4. \A k \in 1 .. n : i + k - 1 \in 1 .. Len(tokens) /\ i + k - 1 \in i .. j
  BY <1>1
<1>5. ASSUME NEW k \in 1 .. n
      PROVE  /\ s[k] \in Tok
             /\ s[k] = tokens[i + k - 1] \/ s[k] = Replacement
             /\ ~Torn(tokens, i, j, i + k - 1) => s[k] = tokens[i + k - 1]
  <2>1. PICK h \in 1 .. Len(tokens) : h = i + k - 1
    BY <1>4
  <2>2. tokens[h] \in Tok
    OBVIOUS
  <2>3. s[k] = IF Torn(tokens, i, j, h) THEN Replacement ELSE tokens[h]
    BY <1>3, <2>1
  <2>4. CASE Torn(tokens, i, j, h)
    BY <2>1, <2>3, <2>4, ReplacementTyped
  <2>5. CASE ~Torn(tokens, i, j, h)
    BY <2>1, <2>2, <2>3, <2>5
  <2> QED
    BY <2>4, <2>5
<1>6. s = [k \in 1 .. n |-> s[k]]
  BY <1>3
<1>7. s \in Seq(Tok) /\ Len(s) = n
  <2>1. s \in [1 .. n -> Tok]
    BY <1>5, <1>6
  <2> QED
    BY <2>1
<1>8. IsDecoded(tokens, s, i, j)
  BY <1>1, <1>4, <1>5, <1>7 DEF IsDecoded
<1> QED
  BY <1>2, <1>8

\* The overlap is the end of the chunk, but for torn tokens.
LEMMA SuffixOfChunk ==
    ASSUME NEW content \in Seq(Tok), NEW T, \A x \in T : x[1] # 0
    PROVE  /\ OverlapSuffix(content) \in Seq(Tok)
           /\ Len(OverlapSuffix(content)) <= ChunkOverlap
           /\ \A x \in ToSet(OverlapSuffix(content)) \cap T :
                 \E k \in 1 .. Len(content) : content[k] = x /\ k > Len(content) - ChunkOverlap
           /\ Sorted(content, T) => Sorted(OverlapSuffix(content), T)
<1>1. PICK n \in Nat, o \in Nat : n = Len(content) /\ o = ChunkOverlap
  BY ChunkAssumption
<1>2. PICK s : s = OverlapSuffix(content)
  OBVIOUS
<1>3. Replacement \notin T
  BY ReplacementTyped
<1>4. CASE n <= o
  <2>1. s = content
    BY <1>1, <1>2, <1>4 DEF OverlapSuffix
  <2>2. ASSUME NEW x \in ToSet(s)
        PROVE  \E k \in 1 .. n : content[k] = x /\ k > n - o
    <3>1. PICK k \in 1 .. n : content[k] = x
      BY <1>1, <2>1, Elements
    <3>2. k > n - o
      BY <1>4
    <3> QED
      BY <3>1, <3>2
  <2> QED
    BY <1>1, <1>2, <1>4, <2>1, <2>2
<1>5. CASE ~(n <= o)
  <2>1. PICK a \in Nat \ {0} : a = n - o + 1 /\ a <= n + 1 /\ n - a + 1 = o
    <3>1. n - o + 1 \in Nat \ {0} /\ n - o + 1 <= n + 1 /\ n - (n - o + 1) + 1 = o
      BY <1>5
    <3> QED
      BY <3>1
  <2>2. s = Decode(content, a, n)
    BY <1>1, <1>2, <1>5, <2>1 DEF OverlapSuffix
  <2>3. /\ s \in Seq(Tok) /\ Len(s) = n - a + 1
        /\ \A k \in 1 .. n - a + 1 :
              /\ a + k - 1 \in 1 .. n /\ a + k - 1 \in a .. n
              /\ s[k] = content[a + k - 1] \/ s[k] = Replacement
    <3>1. n \in 0 .. Len(content)
      BY <1>1
    <3>2. IsDecoded(content, s, a, n)
      BY <2>1, <2>2, <3>1, Decoded
    <3> QED
      BY <1>1, <3>2 DEF IsDecoded
  <2>4. Len(s) = o /\ \A k \in 1 .. o : /\ a + k - 1 \in 1 .. n /\ a + k - 1 > n - o
                                        /\ s[k] \in T => s[k] = content[a + k - 1]
    <3>1. \A k \in 1 .. o : a + k - 1 > n - o
      BY <2>1
    <3> QED
      BY <1>3, <2>1, <2>3, <3>1
  <2>5. ASSUME NEW x \in ToSet(s), x \in T
        PROVE  \E k \in 1 .. n : content[k] = x /\ k > n - o
    <3>1. PICK i \in 1 .. o : x = s[i]
      BY <2>3, <2>4, Elements
    <3> QED
      BY <2>4, <2>5, <3>1
  <2>6. ASSUME Sorted(content, T) PROVE Sorted(s, T)
    <3> SUFFICES ASSUME NEW j \in 1 .. o, NEW k \in 1 .. o, j < k, s[j] \in T, s[k] \in T
                 PROVE  Before(s[j], s[k])
      BY <2>4 DEF Sorted
    <3>1. a + j - 1 < a + k - 1
      OBVIOUS
    <3>2. s[j] = content[a + j - 1] /\ s[k] = content[a + k - 1]
      BY <2>4
    <3>3. a + j - 1 \in 1 .. n /\ a + k - 1 \in 1 .. n
      BY <2>4
    <3> QED
      BY <1>1, <2>6, <3>1, <3>2, <3>3 DEF Sorted
  <2> QED
    BY <1>1, <1>2, <2>3, <2>4, <2>5, <2>6
<1> QED
  BY <1>4, <1>5

-----------------------------------------------------------------------------
(* The chunks of a sequence of units                                       *)

Chunk == [content : Seq(Tok), index : Nat, section : Nat]

PackState == [chunks : Seq(Chunk), units : Seq(Unit), overlap : Seq(Tok)]

LEMMA SectionTyped ==
    ASSUME NEW units \in Seq(Unit)
    PROVE  SectionOf(units) \in Nat
<1>1. PICK n \in Nat : n = Len(units) /\ DOMAIN units = 1 .. n
  OBVIOUS
<1> DEFINE sections == {i \in DOMAIN units : units[i].section # 0}
<1>2. SectionOf(units) = IF sections = {} THEN 0 ELSE units[Max(sections)].section
  BY DEF SectionOf
<1>3. sections \in SUBSET (1 .. n)
  BY <1>1
<1> HIDE DEF sections
<1>4. CASE sections = {}
  BY <1>2, <1>4
<1>5. CASE sections # {}
  <2>1. Max(sections) \in 1 .. n
    BY <1>3, <1>5, MaxIn
  <2>2. units[Max(sections)] \in Unit
    BY <1>1, <2>1
  <2> QED
    BY <1>2, <1>5, <2>2 DEF Unit
<1> QED
  BY <1>4, <1>5

\* What closing a chunk does, when there is one to close.
LEMMA EmitFields ==
    ASSUME NEW v \in PackState, NEW w, w = EmitChunk(v)
    PROVE  /\ w \in PackState /\ w.units = <<>>
           /\ v.units = <<>> => w = v
           /\ v.units # <<>> =>
                 \E chunk \in Chunk :
                    /\ chunk.content = FormatContent(v.units, v.overlap)
                    /\ chunk.index = Len(v.chunks)
                    /\ w.chunks = Append(v.chunks, chunk)
                    /\ w.overlap = OverlapSuffix(FormatContent(v.units, v.overlap))
<1>1. v.chunks \in Seq(Chunk) /\ v.units \in Seq(Unit) /\ v.overlap \in Seq(Tok)
  BY DEF PackState
<1>2. CASE v.units = <<>>
  BY <1>2 DEF EmitChunk
<1>3. CASE v.units # <<>>
  <2>1. PICK T : T = {}
    OBVIOUS
  <2>2. PICK content \in Seq(Tok) : content = FormatContent(v.units, v.overlap)
    <3>1. \A x \in T : x[1] # 0
      BY <2>1
    <3> QED
      BY <1>1, <1>3, <3>1, Formatted
  <2>3. PICK i \in Nat, s \in Nat : i = Len(v.chunks) /\ s = SectionOf(v.units)
    BY <1>1, SectionTyped
  <2>4. PICK chunk \in Chunk : chunk = [content |-> content, index |-> i, section |-> s]
    BY DEF Chunk
  <2>5. PICK overlap \in Seq(Tok) : overlap = OverlapSuffix(content)
    <3>1. \A x \in T : x[1] # 0
      BY <2>1
    <3> QED
      BY <3>1, SuffixOfChunk
  <2>6. PICK chunks \in Seq(Chunk) : chunks = Append(v.chunks, chunk)
    BY <1>1, AppendProperties
  <2>7. PICK none \in Seq(Unit) : none = <<>>
    BY EmptySeq
  <2>8. w = [chunks |-> chunks, units |-> none, overlap |-> overlap]
    BY <1>3, <2>2, <2>3, <2>4, <2>5, <2>6, <2>7 DEF EmitChunk
  <2>9. w \in PackState /\ w.units = none /\ w.chunks = chunks /\ w.overlap = overlap
    BY <2>8 DEF PackState
  <2>10. chunk.content = content /\ chunk.index = i
    BY <2>4
  <2> QED
    BY <1>3, <2>2, <2>3, <2>5, <2>6, <2>7, <2>9, <2>10
<1> QED
  BY <1>2, <1>3

\* Adding a unit: it joins the open chunk, or closes it and opens one of its own.
LEMMA AddFields ==
    ASSUME NEW v \in PackState, NEW u \in Unit, NEW w, w = AddUnit(v, u)
    PROVE  /\ w \in PackState
           /\ \/ /\ Fits(Append(v.units, u), v.overlap)
                 /\ w.units = Append(v.units, u) /\ w.chunks = v.chunks /\ w.overlap = v.overlap
              \/ /\ w.units = <<u>>
                 /\ w.chunks = EmitChunk(v).chunks /\ w.overlap = EmitChunk(v).overlap
<1>1. v.units \in Seq(Unit) /\ Append(v.units, u) \in Seq(Unit) /\ <<u>> \in Seq(Unit)
  <2>1. v.units \in Seq(Unit)
    BY DEF PackState
  <2>2. Append(v.units, u) \in Seq(Unit)
    BY <2>1, AppendProperties
  <2> QED
    BY <2>1, <2>2
<1>2. CASE Fits(Append(v.units, u), v.overlap)
  <2>1. PICK added \in Seq(Unit) : added = Append(v.units, u)
    BY <1>1
  <2>2. w = [v EXCEPT !.units = added]
    BY <1>2, <2>1 DEF AddUnit
  <2>3. w \in PackState /\ w.units = added /\ w.chunks = v.chunks /\ w.overlap = v.overlap
    BY <2>2 DEF PackState
  <2> QED
    BY <1>2, <2>1, <2>3
<1>3. CASE ~Fits(Append(v.units, u), v.overlap)
  <2>1. PICK closed \in PackState : closed = EmitChunk(v) /\ closed.units = <<>>
    BY EmitFields
  <2>2. EmitChunk(closed) = closed
    BY <2>1 DEF EmitChunk
  <2>3. PICK single \in Seq(Unit) : single = <<u>>
    BY <1>1
  <2>4. w = [closed EXCEPT !.units = single]
    BY <1>3, <2>1, <2>2, <2>3 DEF AddUnit
  <2>5. w \in PackState /\ w.units = single /\ w.chunks = closed.chunks /\ w.overlap = closed.overlap
    BY <2>4 DEF PackState
  <2> QED
    BY <2>1, <2>3, <2>5
<1> QED
  BY <1>2, <1>3

LEMMA PackedWalks ==
    ASSUME NEW units \in Seq(Unit)
    PROVE  \E f \in [0 .. Len(units) -> PackState] :
              /\ f[0] = NoChunks /\ f[Len(units)] = FoldLeft(AddUnit, NoChunks, units)
              /\ \A k \in 1 .. Len(units) : f[k] = AddUnit(f[k - 1], units[k])
<1>1. PICK n \in Nat : n = Len(units) /\ DOMAIN units = 1 .. n
  OBVIOUS
<1> DEFINE Body(h) == [s \in SUBSET (1 .. n) |->
                          IF s = {} THEN NoChunks ELSE AddUnit(h[s \ {Max(s)}], units[Max(s)])]
           iter == CHOOSE h : h = Body(h)
           H == [k \in 1 .. n |-> [v \in PackState |-> AddUnit(v, units[k])]]
<1>2. FoldLeft(AddUnit, NoChunks, units) = iter[1 .. n]
  BY <1>1 DEF FoldLeft, MapThenFoldSet
<1>3. NoChunks \in PackState /\ \A k \in 1 .. n : units[k] \in Unit
  BY <1>1 DEF NoChunks, PackState
<1>4. H \in [1 .. n -> [PackState -> PackState]]
  BY <1>3, AddFields
<1>5. PICK base \in PackState : base = NoChunks
  BY <1>3
<1>6. PICK g \in [SUBSET (1 .. n) -> PackState] : Solves(g, base, H, n)
  <2> HIDE DEF H
  <2> QED
    BY <1>4, FoldExists
<1>7. ASSUME NEW s \in SUBSET (1 .. n)
      PROVE  g[s] = IF s = {} THEN NoChunks ELSE AddUnit(g[s \ {Max(s)}], units[Max(s)])
  <2>1. CASE s # {}
    <3>1. Max(s) \in 1 .. n /\ s \ {Max(s)} \in SUBSET (1 .. n)
      BY <2>1, MaxIn
    <3>2. g[s \ {Max(s)}] \in PackState
      BY <3>1
    <3>3. H[Max(s)][g[s \ {Max(s)}]] = AddUnit(g[s \ {Max(s)}], units[Max(s)])
      BY <3>1, <3>2
    <3> HIDE DEF H
    <3> QED
      BY <1>6, <2>1, <3>3 DEF Solves
  <2>2. CASE s = {}
    BY <1>5, <1>6, <2>2 DEF Solves
  <2> QED
    BY <2>1, <2>2
<1>8. g = Body(g)
  BY <1>7
<1>9. iter = Body(iter)
  BY <1>8
<1> HIDE DEF iter, H
<1>10. iter[1 .. 0] = NoChunks
  <2>1. 1 .. 0 = {} /\ 1 .. 0 \in SUBSET (1 .. n)
    OBVIOUS
  <2> QED
    BY <1>9, <2>1
<1>11. ASSUME NEW k \in 1 .. n PROVE iter[1 .. k] = AddUnit(iter[1 .. (k - 1)], units[k])
  <2>1. 1 .. k \in SUBSET (1 .. n) /\ 1 .. k # {} /\ Max(1 .. k) = k /\ (1 .. k) \ {k} = 1 .. (k - 1)
    BY Interval
  <2>2. iter[1 .. k] = AddUnit(iter[(1 .. k) \ {Max(1 .. k)}], units[Max(1 .. k)])
    BY <1>9, <2>1
  <2> QED
    BY <2>1, <2>2
<1> DEFINE P == {k \in 0 .. n : iter[1 .. k] \in PackState}
<1>12. 0 .. n \subseteq P
  <2>1. 0 \in P
    <3>1. 0 \in 0 .. n /\ iter[1 .. 0] \in PackState
      BY <1>3, <1>10
    <3> HIDE DEF P
    <3> QED
      BY <3>1 DEF P
  <2>2. ASSUME NEW k \in 1 .. n, k - 1 \in P PROVE k \in P
    <3>1. AddUnit(iter[1 .. (k - 1)], units[k]) \in PackState
      BY <1>3, <2>2, AddFields
    <3> QED
      BY <1>11, <3>1
  <2> HIDE DEF P
  <2> QED
    BY <2>1, <2>2, Ladder
<1> DEFINE f == [k \in 0 .. n |-> iter[1 .. k]]
<1>13. f \in [0 .. n -> PackState] /\ f[0] = NoChunks /\ f[n] = iter[1 .. n]
  BY <1>10, <1>12
<1>14. \A k \in 1 .. n : f[k] = AddUnit(f[k - 1], units[k])
  <2> TAKE k \in 1 .. n
  <2>1. k \in 0 .. n /\ k - 1 \in 0 .. n
    OBVIOUS
  <2>2. f[k] = iter[1 .. k] /\ f[k - 1] = iter[1 .. (k - 1)]
    BY <2>1
  <2> HIDE DEF f
  <2> QED
    BY <1>11, <2>2
<1> HIDE DEF f
<1> QED
  BY <1>1, <1>2, <1>13, <1>14

\* The tokens of the text that the first m units have.
OfUnits(units, m) == {x \in Tok : x[1] # 0 /\ \E j \in 1 .. m : x \in ToSet(units[j].tokens)}

\* The units are in the order of the text and none is larger than a chunk.
UnitsInOrder(units, T) ==
    /\ units \in Seq(Unit)
    /\ OfUnits(units, Len(units)) \subseteq T /\ \A x \in T : x[1] # 0
    /\ \A i \in 1 .. Len(units) : Sorted(units[i].tokens, T) /\ Len(units[i].tokens) <= ChunkSize
    /\ \A i, j \in 1 .. Len(units) :
          i < j => Below(ToSet(units[i].tokens), ToSet(units[j].tokens), T)

ChunkBound == ChunkSize + ChunkOverlap + HeadingTokens + 2

\* x is among the tokens of a chunk that the next one repeats.
Repeated(x, last) == \E k \in 1 .. Len(last) : last[k] = x /\ k > Len(last) - ChunkOverlap

Continues(last, content, T) ==
    \A x \in ToSet(content) \cap T :
        (\A y \in ToSet(last) \cap T : Before(y, x)) \/ Repeated(x, last)

\* The chunks are those of the first m units.
ChunksHold(units, T, chunks, m) ==
    /\ \A i \in 1 .. Len(chunks) :
          /\ chunks[i].index = i - 1
          /\ Len(chunks[i].content) <= ChunkBound
          /\ Sorted(chunks[i].content, T)
          /\ ToSet(chunks[i].content) \cap T \subseteq OfUnits(units, m)
          /\ i > 1 => Continues(chunks[i - 1].content, chunks[i].content, T)
    /\ \A x \in OfUnits(units, m) : \E i \in 1 .. Len(chunks) : x \in ToSet(chunks[i].content)

\* The overlap is the end of the last of them.
OverlapHolds(units, T, chunks, overlap, m) ==
    /\ Len(overlap) <= ChunkOverlap
    /\ Sorted(overlap, T)
    /\ ToSet(overlap) \cap T \subseteq OfUnits(units, m)
    /\ Len(chunks) > 0 => \A x \in ToSet(overlap) \cap T : Repeated(x, chunks[Len(chunks)].content)

\* After k units: the first m are in chunks, the others are collected for the next one.
Holding(units, T, v, m, k) ==
    /\ ChunksHold(units, T, v.chunks, m)
    /\ OverlapHolds(units, T, v.chunks, v.overlap, m)
    /\ Len(v.units) = k - m /\ \A i \in 1 .. k - m : v.units[i] = units[m + i]
    /\ v.units # <<>> => Len(FormatContent(v.units, v.overlap)) <= ChunkBound

LEMMA OfUnitsGrows ==
    ASSUME NEW units \in Seq(Unit), NEW k \in 0 .. Len(units), NEW m \in 0 .. k
    PROVE  /\ OfUnits(units, m) \subseteq OfUnits(units, k)
           /\ \A i \in 1 .. k : \A x \in ToSet(units[i].tokens) : x[1] # 0 => x \in OfUnits(units, k)
           /\ \A x \in OfUnits(units, k) :
                 x \notin OfUnits(units, m) =>
                    \E i \in 1 .. k - m : m + i \in 1 .. k /\ x \in ToSet(units[m + i].tokens)
<1>1. \A i \in 1 .. m : i \in 1 .. k
  OBVIOUS
<1>2. \A i \in 1 .. k : i \in 1 .. Len(units) /\ units[i] \in Unit /\ units[i].tokens \in Seq(Tok)
  <2>1. \A i \in 1 .. k : i \in 1 .. Len(units) /\ units[i] \in Unit
    OBVIOUS
  <2> QED
    BY <2>1 DEF Unit
<1>3. \A i \in 1 .. k : ToSet(units[i].tokens) \subseteq Tok
  BY <1>2, Elements
<1>4. ASSUME NEW x \in OfUnits(units, k), x \notin OfUnits(units, m)
      PROVE  \E i \in 1 .. k - m : m + i \in 1 .. k /\ x \in ToSet(units[m + i].tokens)
  <2>1. PICK j \in 1 .. k : x \in ToSet(units[j].tokens)
    BY DEF OfUnits
  <2>2. j \notin 1 .. m
    BY <1>4, <2>1 DEF OfUnits
  <2>3. j - m \in 1 .. k - m /\ m + (j - m) = j
    BY <2>2
  <2> QED
    BY <2>1, <2>3
<1> QED
  BY <1>1, <1>3, <1>4 DEF OfUnits

\* Closing a chunk.
LEMMA EmitHolds ==
    ASSUME NEW units, NEW T, UnitsInOrder(units, T), NEW k \in 0 .. Len(units), NEW m \in 0 .. k,
           NEW v \in PackState, Holding(units, T, v, m, k), NEW w, w = EmitChunk(v)
    PROVE  w \in PackState /\ w.units = <<>> /\ Holding(units, T, w, k, k)
<1>1. w \in PackState /\ w.units = <<>> /\ Len(w.units) = 0
  BY EmitFields, EmptySeq
<1>2. units \in Seq(Unit) /\ Len(units) \in Nat
  BY DEF UnitsInOrder
<1>3. v.chunks \in Seq(Chunk) /\ v.units \in Seq(Unit) /\ v.overlap \in Seq(Tok)
  BY DEF PackState
<1>4. Len(v.units) = k - m /\ \A i \in 1 .. k - m : v.units[i] = units[m + i]
  BY DEF Holding
<1>5. CASE v.units = <<>>
  <2>1. w = v
    BY <1>5, EmitFields
  <2>2. m = k
    BY <1>4, <1>5, EmptySeq
  <2> QED
    BY <1>1, <2>1, <2>2
<1>6. CASE v.units # <<>>
  <2>1. PICK content \in Seq(Tok) : content = FormatContent(v.units, v.overlap)
    <3>1. \A x \in T : x[1] # 0
      BY DEF UnitsInOrder
    <3> QED
      BY <1>3, <1>6, <3>1, Formatted
  <2>2. PICK chunk \in Chunk :
           /\ chunk.content = content /\ chunk.index = Len(v.chunks)
           /\ w.chunks = Append(v.chunks, chunk)
           /\ w.overlap = OverlapSuffix(content)
    BY <1>6, <2>1, EmitFields
  <2>3. PICK n \in Nat : n = Len(v.chunks)
    BY <1>3
  <2>4. PICK chunks \in Seq(Chunk) : chunks = w.chunks
    BY <1>1 DEF PackState
  <2>5. Len(chunks) = n + 1 /\ chunks[n + 1] = chunk /\ \A i \in 1 .. n : chunks[i] = v.chunks[i]
    BY <1>3, <2>2, <2>3, <2>4, AppendProperties
  <2>6. \A i \in 1 .. Len(v.units) : m + i \in 1 .. Len(units) /\ m + i \in 1 .. k /\ v.units[i] = units[m + i]
    BY <1>2, <1>4
  <2>7. ToSet(v.overlap) \cap T \subseteq OfUnits(units, m)
    BY DEF Holding, OverlapHolds
  <2>8. \A x \in T : x \in ToSet(content) <=>
           x \in ToSet(v.overlap) \/ \E i \in 1 .. Len(v.units) : x \in ToSet(v.units[i].tokens)
    <3>1. \A x \in T : x[1] # 0
      BY DEF UnitsInOrder
    <3> QED
      BY <1>3, <1>6, <2>1, <3>1, Formatted
  \* What is collected comes after all that is in chunks.
  <2>9. ASSUME NEW x \in OfUnits(units, m) \cap T, NEW i \in 1 .. Len(v.units),
               NEW y \in ToSet(v.units[i].tokens) \cap T
        PROVE  Before(x, y)
    <3>1. PICK j \in 1 .. m : x \in ToSet(units[j].tokens)
      BY DEF OfUnits
    <3>2. j \in 1 .. Len(units) /\ j < m + i
      BY <1>2
    <3> QED
      BY <2>6, <3>1, <3>2 DEF UnitsInOrder, Below
  <2>10. Sorted(content, T)
    <3>1. \A x \in T : x[1] # 0
      BY DEF UnitsInOrder
    <3>2. Sorted(v.overlap, T)
      BY DEF Holding, OverlapHolds
    <3>3. \A i \in 1 .. Len(v.units) :
             Sorted(v.units[i].tokens, T) /\ Below(ToSet(v.overlap), ToSet(v.units[i].tokens), T)
      BY <2>6, <2>7, <2>9 DEF UnitsInOrder, Below
    <3>4. ASSUME NEW i \in 1 .. Len(v.units), NEW j \in 1 .. Len(v.units), i < j
          PROVE  Below(ToSet(v.units[i].tokens), ToSet(v.units[j].tokens), T)
      <4>1. m + i < m + j
        BY <1>4, <3>4
      <4> QED
        BY <2>6, <4>1 DEF UnitsInOrder
    <3> QED
      BY <1>3, <1>6, <2>1, <3>1, <3>2, <3>3, <3>4, Formatted
  <2>11. OfUnits(units, m) \subseteq OfUnits(units, k) /\ OfUnits(units, k) \subseteq T
    <3>1. OfUnits(units, k) \subseteq OfUnits(units, Len(units))
      <4>1. Len(units) \in 0 .. Len(units)
        BY <1>2
      <4> QED
        BY <1>2, <4>1, OfUnitsGrows
    <3> QED
      BY <1>2, <3>1, OfUnitsGrows DEF UnitsInOrder
  <2>12. ToSet(content) \cap T \subseteq OfUnits(units, k)
    <3> SUFFICES ASSUME NEW x \in ToSet(content), x \in T PROVE x \in OfUnits(units, k)
      OBVIOUS
    <3>1. CASE x \in ToSet(v.overlap)
      BY <2>7, <2>11, <3>1
    <3>2. ASSUME NEW i \in 1 .. Len(v.units), x \in ToSet(v.units[i].tokens) PROVE x \in OfUnits(units, k)
      <4>1. x[1] # 0
        BY DEF UnitsInOrder
      <4> QED
        BY <1>2, <2>6, <3>2, <4>1, OfUnitsGrows
    <3> QED
      BY <2>8, <3>1, <3>2
  <2>13. ASSUME n > 0 PROVE Continues(chunks[n].content, content, T)
    <3> SUFFICES ASSUME NEW x \in ToSet(content) \cap T
                 PROVE  (\A y \in ToSet(chunks[n].content) \cap T : Before(y, x)) \/ Repeated(x, chunks[n].content)
      BY DEF Continues
    <3>1. n \in 1 .. n /\ chunks[n] = v.chunks[n]
      BY <2>5, <2>13
    <3>2. CASE x \in ToSet(v.overlap)
      BY <2>3, <2>13, <3>1, <3>2 DEF Holding, OverlapHolds
    <3>3. ASSUME NEW i \in 1 .. Len(v.units), x \in ToSet(v.units[i].tokens)
          PROVE  \A y \in ToSet(chunks[n].content) \cap T : Before(y, x)
      <4>1. ToSet(v.chunks[n].content) \cap T \subseteq OfUnits(units, m)
        BY <2>3, <3>1 DEF Holding, ChunksHold
      <4> QED
        BY <2>9, <3>1, <3>3, <4>1
    <3> QED
      BY <2>8, <3>2, <3>3
  <2>14. ChunksHold(units, T, chunks, k)
    <3>1. ASSUME NEW i \in 1 .. Len(chunks)
          PROVE  /\ chunks[i].index = i - 1
                 /\ Len(chunks[i].content) <= ChunkBound
                 /\ Sorted(chunks[i].content, T)
                 /\ ToSet(chunks[i].content) \cap T \subseteq OfUnits(units, k)
                 /\ i > 1 => Continues(chunks[i - 1].content, chunks[i].content, T)
      <4>1. CASE i = n + 1
        <5>1. Len(content) <= ChunkBound
          BY <1>6, <2>1 DEF Holding
        <5>2. chunks[i].content = content /\ chunks[i].index = n /\ i - 1 = n /\ (i > 1 => n > 0)
          BY <2>2, <2>3, <2>5, <4>1
        <5> QED
          BY <2>10, <2>12, <2>13, <5>1, <5>2
      <4>2. CASE i # n + 1
        <5>1. i \in 1 .. n /\ (i > 1 => i - 1 \in 1 .. n)
          BY <2>5, <4>2
        <5>2. chunks[i] = v.chunks[i] /\ (i > 1 => chunks[i - 1] = v.chunks[i - 1])
          BY <2>5, <5>1
        <5>3. /\ v.chunks[i].index = i - 1
              /\ Len(v.chunks[i].content) <= ChunkBound
              /\ Sorted(v.chunks[i].content, T)
              /\ ToSet(v.chunks[i].content) \cap T \subseteq OfUnits(units, m)
              /\ i > 1 => Continues(v.chunks[i - 1].content, v.chunks[i].content, T)
          BY <2>3, <5>1 DEF Holding, ChunksHold
        <5> QED
          BY <2>11, <5>2, <5>3
      <4> QED
        BY <4>1, <4>2
    <3>2. ASSUME NEW x \in OfUnits(units, k)
          PROVE  \E i \in 1 .. Len(chunks) : x \in ToSet(chunks[i].content)
      <4>1. CASE x \in OfUnits(units, m)
        <5>1. PICK i \in 1 .. n : x \in ToSet(v.chunks[i].content)
          BY <2>3, <4>1 DEF Holding, ChunksHold
        <5>2. i \in 1 .. Len(chunks)
          BY <2>5
        <5> QED
          BY <2>5, <5>1, <5>2
      <4>2. CASE x \notin OfUnits(units, m)
        <5>1. PICK i \in 1 .. k - m : x \in ToSet(units[m + i].tokens)
          BY <1>2, <4>2, OfUnitsGrows
        <5>2. x \in ToSet(content)
          BY <1>4, <2>8, <2>11, <5>1
        <5>3. n + 1 \in 1 .. Len(chunks)
          BY <2>5
        <5> QED
          BY <2>2, <2>5, <5>2, <5>3
      <4> QED
        BY <4>1, <4>2
    <3> QED
      BY <3>1, <3>2 DEF ChunksHold
  <2>15. OverlapHolds(units, T, chunks, w.overlap, k)
    <3>1. /\ w.overlap \in Seq(Tok) /\ Len(w.overlap) <= ChunkOverlap
          /\ \A x \in ToSet(w.overlap) \cap T : Repeated(x, content)
          /\ Sorted(w.overlap, T)
      <4>1. \A x \in T : x[1] # 0
        BY DEF UnitsInOrder
      <4> QED
        BY <2>2, <2>10, <4>1, SuffixOfChunk DEF Repeated
    <3>2. \A x \in ToSet(w.overlap) \cap T : x \in ToSet(content)
      BY <3>1, Elements DEF Repeated
    <3>3. chunks[Len(chunks)].content = content
      BY <2>2, <2>5
    <3> QED
      BY <2>12, <3>1, <3>2, <3>3 DEF OverlapHolds
  <2>16. Len(w.units) = k - k /\ \A i \in 1 .. k - k : w.units[i] = units[k + i]
    <3>1. \A i : i \notin 1 .. k - k
      OBVIOUS
    <3> QED
      BY <1>1, <3>1
  <2> QED
    BY <1>1, <2>4, <2>14, <2>15, <2>16 DEF Holding
<1> QED
  BY <1>5, <1>6

\* Adding a unit, whether it fits, fits after the chunk is closed or does not fit at all.
LEMMA AddHolds ==
    ASSUME NEW units, NEW T, UnitsInOrder(units, T), NEW k \in 1 .. Len(units), NEW m \in 0 .. k - 1,
           NEW v \in PackState, Holding(units, T, v, m, k - 1), NEW w, w = AddUnit(v, units[k])
    PROVE  w \in PackState /\ \E j \in 0 .. k : Holding(units, T, w, j, k)
<1>1. units \in Seq(Unit) /\ Len(units) \in Nat
  BY DEF UnitsInOrder
<1>2. PICK u \in Unit : u = units[k]
  BY <1>1
<1>3. w \in PackState
  BY <1>2, AddFields
<1>4. v.units \in Seq(Unit)
  BY DEF PackState
<1>5. k - 1 \in 0 .. Len(units) /\ k - 1 \in 0 .. k /\ m \in 0 .. k
  BY <1>1
<1>6. CASE /\ Fits(Append(v.units, u), v.overlap)
           /\ w.units = Append(v.units, u) /\ w.chunks = v.chunks /\ w.overlap = v.overlap
  <2>1. Len(v.units) = (k - 1) - m /\ \A i \in 1 .. (k - 1) - m : v.units[i] = units[m + i]
    BY DEF Holding
  <2>2. /\ Len(w.units) = Len(v.units) + 1 /\ w.units[Len(v.units) + 1] = u
        /\ \A i \in 1 .. Len(v.units) : w.units[i] = v.units[i]
    BY <1>4, <1>6, AppendProperties
  <2>3. Len(w.units) = k - m
    BY <2>1, <2>2
  <2>4. \A i \in 1 .. k - m : w.units[i] = units[m + i]
    <3> TAKE i \in 1 .. k - m
    <3>1. CASE i = k - m
      <4>1. Len(v.units) + 1 = i /\ m + i = k
        BY <2>1, <3>1
      <4> QED
        BY <1>2, <2>2, <4>1
    <3>2. CASE i # k - m
      <4>1. i \in 1 .. (k - 1) - m
        BY <3>2
      <4> QED
        BY <2>1, <2>2, <4>1
    <3> QED
      BY <3>1, <3>2
  <2>5. Len(FormatContent(w.units, w.overlap)) <= ChunkBound
    <3>1. PICK c \in Seq(Tok) : c = FormatContent(w.units, w.overlap)
      <4>1. PICK E : E = {}
        OBVIOUS
      <4>2. \A x \in E : x[1] # 0
        BY <4>1
      <4>3. w.units \in Seq(Unit) /\ w.overlap \in Seq(Tok)
        BY <1>3 DEF PackState
      <4>4. w.units # <<>>
        BY <2>3, EmptySeq
      <4> QED
        BY <4>2, <4>3, <4>4, Formatted
    <3>2. Len(c) <= ChunkSize
      BY <1>6, <3>1 DEF Fits
    <3>3. ChunkSize \in Nat /\ ChunkOverlap \in Nat /\ HeadingTokens \in Nat /\ Len(c) \in Nat
      BY ChunkAssumption
    <3> QED
      BY <3>1, <3>2, <3>3 DEF ChunkBound
  <2>6. Holding(units, T, w, m, k)
    BY <1>6, <2>3, <2>4, <2>5 DEF Holding
  <2> QED
    BY <1>3, <1>5, <2>6
<1>7. CASE w.units = <<u>> /\ w.chunks = EmitChunk(v).chunks /\ w.overlap = EmitChunk(v).overlap
  <2>1. PICK closed \in PackState :
           /\ closed = EmitChunk(v) /\ closed.units = <<>>
           /\ Holding(units, T, closed, k - 1, k - 1)
    BY <1>5, EmitHolds
  <2>2. w.units = <<u>> /\ w.units \in Seq(Unit) /\ w.overlap \in Seq(Tok)
    BY <1>3, <1>7 DEF PackState
  <2>3. Len(w.units) = 1 /\ w.units[1] = u /\ w.units # <<>>
    BY <2>2
  <2>4. Len(w.units) = k - (k - 1) /\ \A i \in 1 .. k - (k - 1) : w.units[i] = units[(k - 1) + i]
    <3>1. k - (k - 1) = 1 /\ (k - 1) + 1 = k /\ 1 .. 1 = {1}
      OBVIOUS
    <3> QED
      BY <1>2, <2>3, <3>1
  <2>5. Len(FormatContent(w.units, w.overlap)) <= ChunkBound
    <3>1. PICK E : E = {}
      OBVIOUS
    <3>2. \A x \in E : x[1] # 0
      BY <3>1
    <3>3. PICK c \in Seq(Tok) :
             /\ c = FormatContent(w.units, w.overlap)
             /\ Len(c) <= HeadingTokens + Len(w.overlap) + 2 + Len(u.tokens)
      BY <2>2, <2>3, <3>2, Formatted
    <3>4. Len(w.overlap) <= ChunkOverlap
      BY <1>7, <2>1 DEF Holding, OverlapHolds
    <3>5. Len(u.tokens) <= ChunkSize
      BY <1>2 DEF UnitsInOrder
    <3>6. u.tokens \in Seq(Tok)
      BY DEF Unit
    <3>7. PICK a \in Nat, b \in Nat, d \in Nat : a = Len(c) /\ b = Len(w.overlap) /\ d = Len(u.tokens)
      BY <2>2, <3>6
    <3>8. ChunkSize \in Nat /\ ChunkOverlap \in Nat /\ HeadingTokens \in Nat
      BY ChunkAssumption
    <3>10. PICK z \in Nat, o \in Nat, h \in Nat : z = ChunkSize /\ o = ChunkOverlap /\ h = HeadingTokens
      BY <3>8
    <3>11. a <= h + b + 2 + d /\ b <= o /\ d <= z
      BY <3>3, <3>4, <3>5, <3>7, <3>10
    <3>9. a <= z + o + h + 2
      BY <3>11
    <3> QED
      BY <3>3, <3>7, <3>9, <3>10 DEF ChunkBound
  <2>6. Holding(units, T, w, k - 1, k)
    BY <1>7, <2>1, <2>4, <2>5 DEF Holding
  <2> QED
    BY <1>3, <1>5, <2>6
<1> QED
  BY <1>2, <1>6, <1>7, AddFields

\* All units in chunks.
LEMMA PackedHolds ==
    ASSUME NEW units, NEW T, UnitsInOrder(units, T), NEW chunks,
           chunks = EmitChunk(FoldLeft(AddUnit, NoChunks, units)).chunks
    PROVE  chunks \in Seq(Chunk) /\ ChunksHold(units, T, chunks, Len(units))
<1>1. units \in Seq(Unit)
  BY DEF UnitsInOrder
<1>2. PICK n \in Nat : n = Len(units)
  BY <1>1
<1>3. PICK f \in [0 .. n -> PackState] :
         /\ f[0] = NoChunks /\ f[n] = FoldLeft(AddUnit, NoChunks, units)
         /\ \A k \in 1 .. n : f[k] = AddUnit(f[k - 1], units[k])
  BY <1>1, <1>2, PackedWalks
<1> DEFINE P == {k \in 0 .. n : \E m \in 0 .. k : Holding(units, T, f[k], m, k)}
<1>4. 0 \in P
  <2>1. \A i : i \notin 1 .. 0 /\ i \notin 1 .. 0 - 0
    OBVIOUS
  <2>2. NoChunks.chunks = <<>> /\ NoChunks.units = <<>> /\ NoChunks.overlap = <<>>
    BY DEF NoChunks
  <2>3. Len(<<>>) = 0
    OBVIOUS
  <2>4. ToSet(<<>>) = {}
    BY DEF ToSet
  <2>5. OfUnits(units, 0) = {}
    BY <2>1 DEF OfUnits
  <2>6. ChunksHold(units, T, <<>>, 0)
    BY <2>1, <2>3, <2>5 DEF ChunksHold
  <2>7. OverlapHolds(units, T, <<>>, <<>>, 0)
    <3>1. ChunkOverlap \in Nat
      BY ChunkAssumption
    <3> QED
      BY <2>1, <2>3, <2>4, <3>1 DEF OverlapHolds, Sorted
  <2>8. Holding(units, T, NoChunks, 0, 0)
    <3>1. Len(<<>>) = 0 - 0
      OBVIOUS
    <3> QED
      BY <2>1, <2>2, <2>6, <2>7, <3>1 DEF Holding
  <2>9. 0 \in 0 .. 0 /\ 0 \in 0 .. n
    OBVIOUS
  <2> QED
    BY <1>3, <2>8, <2>9
<1>5. ASSUME NEW k \in 1 .. n, k - 1 \in P PROVE k \in P
  <2>1. k - 1 \in 0 .. n /\ k \in 0 .. n /\ k \in 1 .. Len(units)
    BY <1>2
  <2>2. PICK v \in PackState : v = f[k - 1]
    BY <1>3, <2>1
  <2>3. PICK m \in 0 .. k - 1 : Holding(units, T, v, m, k - 1)
    BY <1>5, <2>2
  <2>4. PICK w : w = f[k]
    OBVIOUS
  <2>5. w = AddUnit(v, units[k])
    BY <1>3, <2>2, <2>4
  <2>6. \E j \in 0 .. k : Holding(units, T, w, j, k)
    BY <2>1, <2>3, <2>5, AddHolds
  <2> QED
    BY <2>1, <2>4, <2>6
<1> HIDE DEF P
<1>6. n \in P
  <2>1. 0 .. n \subseteq P
    BY <1>4, <1>5, Ladder
  <2> QED
    BY <2>1
<1>7. PICK m \in 0 .. n : Holding(units, T, f[n], m, n)
  BY <1>6 DEF P
<1>8. PICK v \in PackState : v = f[n] /\ v = FoldLeft(AddUnit, NoChunks, units)
  <2>1. n \in 0 .. n
    OBVIOUS
  <2> QED
    BY <1>3, <2>1
<1>9. PICK w : w = EmitChunk(v)
  OBVIOUS
<1>10. w \in PackState /\ Holding(units, T, w, n, n)
  <2>1. n \in 0 .. Len(units) /\ m \in 0 .. n
    BY <1>2
  <2> QED
    BY <1>7, <1>8, <1>9, <2>1, EmitHolds
<1>11. chunks = w.chunks
  BY <1>8, <1>9
<1> QED
  BY <1>2, <1>10, <1>11 DEF Holding, PackState

-----------------------------------------------------------------------------
(* The units of a document                                                 *)

LEMMA PlacesInOrder ==
    ASSUME NEW doc \in Document
    PROVE  /\ Places(doc) \in Seq(Nat \X Nat)
           /\ \A i \in 1 .. Len(Places(doc)) :
                 /\ Places(doc)[i][1] \in 1 .. Len(doc)
                 /\ Places(doc)[i][2] \in 1 .. Len(doc[Places(doc)[i][1]])
           /\ \A s \in 1 .. Len(doc) : \A p \in 1 .. Len(doc[s]) :
                 \E i \in 1 .. Len(Places(doc)) : Places(doc)[i] = <<s, p>>
           /\ \A i, j \in 1 .. Len(Places(doc)) :
                 i < j => \/ Places(doc)[i][1] < Places(doc)[j][1]
                          \/ /\ Places(doc)[i][1] = Places(doc)[j][1]
                             /\ Places(doc)[i][2] < Places(doc)[j][2]
<1>1. PICK n \in Nat : n = Len(doc) /\ DOMAIN doc = 1 .. n
  BY DEF Document
<1>2. \A s \in 1 .. n : /\ doc[s] \in Seq(Paragraph)
                        /\ DOMAIN doc[s] = 1 .. Len(doc[s]) /\ Len(doc[s]) \in Nat
  BY <1>1 DEF Document
<1> DEFINE nested == [s \in 1 .. n |-> [p \in 1 .. Len(doc[s]) |-> <<s, p>>]]
<1>3. Places(doc) = FlattenSeq(nested)
  <2>1. [s \in DOMAIN doc |-> [p \in DOMAIN doc[s] |-> <<s, p>>]] = nested
    BY <1>1, <1>2
  <2> QED
    BY <2>1 DEF Places
<1>4. ASSUME NEW s \in 1 .. n
      PROVE  /\ nested[s] \in Seq(Nat \X Nat) /\ Len(nested[s]) = Len(doc[s])
             /\ \A p \in 1 .. Len(doc[s]) : nested[s][p] = <<s, p>>
  <2>1. \A p \in 1 .. Len(doc[s]) : <<s, p>> \in Nat \X Nat
    OBVIOUS
  <2>2. nested[s] = [p \in 1 .. Len(doc[s]) |-> <<s, p>>] /\ Len(doc[s]) \in Nat
    BY <1>2
  <2>3. nested[s] \in [1 .. Len(doc[s]) -> Nat \X Nat]
    BY <2>1, <2>2
  <2> HIDE DEF nested
  <2> QED
    BY <2>2, <2>3
<1>5. nested \in Seq(Seq(Nat \X Nat)) /\ Len(nested) = n
  <2>1. nested = [s \in 1 .. n |-> nested[s]]
    OBVIOUS
  <2> HIDE DEF nested
  <2>2. nested \in [1 .. n -> Seq(Nat \X Nat)]
    BY <1>4, <2>1
  <2> QED
    BY <2>2
<1> HIDE DEF nested
<1>6. PICK places : places = Places(doc)
  OBVIOUS
<1>7. places \in Seq(Nat \X Nat) /\ Flat(places, nested)
  BY <1>3, <1>5, <1>6, Flattened
<1>8. ASSUME NEW i \in 1 .. Len(places)
      PROVE  places[i][1] \in 1 .. n /\ places[i][2] \in 1 .. Len(doc[places[i][1]])
  <2>1. PICK a \in 1 .. n : \E b \in 1 .. Len(nested[a]) : places[i] = nested[a][b]
    BY <1>5, <1>7 DEF Flat
  <2>2. PICK b \in 1 .. Len(doc[a]) : places[i] = <<a, b>>
    BY <1>4, <2>1
  <2> QED
    BY <2>2
<1>9. ASSUME NEW s \in 1 .. n, NEW p \in 1 .. Len(doc[s])
      PROVE  \E i \in 1 .. Len(places) : places[i] = <<s, p>>
  <2>1. s \in 1 .. Len(nested) /\ p \in 1 .. Len(nested[s]) /\ nested[s][p] = <<s, p>>
    BY <1>4, <1>5
  <2>2. \A a \in 1 .. Len(nested) : \A b \in 1 .. Len(nested[a]) :
           \E i \in 1 .. Len(places) : places[i] = nested[a][b]
    BY <1>7 DEF Flat
  <2>3. \E i \in 1 .. Len(places) : places[i] = nested[s][p]
    BY <2>1, <2>2, Zenon
  <2> QED
    BY <2>1, <2>3
<1>10. ASSUME NEW i \in 1 .. Len(places), NEW j \in 1 .. Len(places), i < j
       PROVE  \/ places[i][1] < places[j][1]
              \/ places[i][1] = places[j][1] /\ places[i][2] < places[j][2]
  <2>1. PICK a \in 1 .. Len(nested), c \in 1 .. Len(nested) : \E b \in 1 .. Len(nested[a]), d \in 1 .. Len(nested[c]) :
                        /\ places[i] = nested[a][b] /\ places[j] = nested[c][d]
                        /\ a < c \/ (a = c /\ b < d)
    BY <1>7, <1>10, Zenon DEF Flat
  <2>2. PICK b \in 1 .. Len(nested[a]), d \in 1 .. Len(nested[c]) :
                        /\ places[i] = nested[a][b] /\ places[j] = nested[c][d]
                        /\ a < c \/ (a = c /\ b < d)
    BY <2>1
  <2>3. places[i] = <<a, b>> /\ places[j] = <<c, d>>
    BY <1>4, <1>5, <2>2
  <2> QED
    BY <2>2, <2>3
<1> QED
  BY <1>1, <1>6, <1>7, <1>8, <1>9, <1>10

\* Multiples of z up to n, and where in them a number lies.
LEMMA Division ==
    ASSUME NEW x \in Nat, NEW z \in Nat \ {0}
    PROVE  x \div z \in Nat /\ x % z \in 0 .. z - 1 /\ x = z * (x \div z) + (x % z)
  OBVIOUS

LEMMA Multiples ==
    ASSUME NEW z \in Nat \ {0}, NEW a \in Nat, NEW b \in Nat
    PROVE  /\ z * a \in Nat /\ z * (a + 1) = z * a + z
           /\ a < b => z * (a + 1) <= z * b
           /\ z * a < z * b => a < b
<1>1. z * a \in Nat /\ z * (a + 1) = z * a + z
  OBVIOUS
<1>2. ASSUME NEW c \in Nat, NEW d \in Nat, c <= d PROVE z * c <= z * d
  <2>1. PICK e \in Nat : d = c + e
    <3>1. d - c \in Nat /\ d = c + (d - c)
      BY <1>2
    <3> QED
      BY <3>1
  <2>2. z * (c + e) = z * c + z * e /\ z * e \in Nat /\ z * c \in Nat
    OBVIOUS
  <2>3. PICK g \in Nat, h \in Nat : g = z * c /\ h = z * e
    BY <2>2
  <2>4. z * d = g + h
    BY <2>1, <2>2, <2>3
  <2> QED
    BY <2>3, <2>4
<1>3. ASSUME a < b PROVE z * (a + 1) <= z * b
  <2>1. a + 1 \in Nat /\ a + 1 <= b
    BY <1>3
  <2> QED
    BY <1>2, <2>1
<1>4. ASSUME z * a < z * b PROVE a < b
  <2>1. b <= a => z * b <= z * a
    BY <1>2
  <2>2. z * a \in Nat /\ z * b \in Nat
    OBVIOUS
  <2> QED
    BY <1>4, <2>1, <2>2
<1> QED
  BY <1>1, <1>3, <1>4

LEMMA MultiplesDivide ==
    ASSUME NEW z \in Nat \ {0}, NEW a \in Nat
    PROVE  (z * a) % z = 0
<1>1. PICK x \in Nat : x = z * a
  BY Multiples
<1>2. PICK q \in Nat, r \in 0 .. z - 1 : r = x % z /\ x = z * q + r
  BY Division
<1>3. PICK y \in Nat : y = z * q
  BY Multiples
<1>4. CASE r = 0
  BY <1>1, <1>2, <1>4
<1>5. CASE r # 0
  <2>1. z * q < z * a
    BY <1>1, <1>2, <1>3, <1>5
  <2>2. z * (q + 1) <= z * a /\ z * (q + 1) = y + z
    BY <1>3, <2>1, Multiples
  <2> QED
    BY <1>1, <1>2, <1>3, <2>2
<1> QED
  BY <1>4, <1>5

\* Slice j of a unit has its tokens from lo + 1 to hi, but for torn ones.
Slice(unit, slice, lo, hi) ==
    /\ slice \in Unit
    /\ Len(slice.tokens) <= ChunkSize
    /\ \A k \in 1 .. Len(slice.tokens) :
          /\ lo + k \in 1 .. Len(unit.tokens) /\ lo + k <= hi
          /\ slice.tokens[k] = unit.tokens[lo + k] \/ slice.tokens[k] = Replacement
    /\ \A i \in 1 .. Len(unit.tokens) :
          i > lo /\ i <= hi /\ ~Torn(unit.tokens, lo + 1, hi, i) =>
              i - lo \in 1 .. Len(slice.tokens) /\ slice.tokens[i - lo] = unit.tokens[i]

\* Token i is of a character that a cut between two slices falls into.
Cut(tokens, i) ==
    \E c \in 1 .. Len(tokens) - 1 :
        /\ c % ChunkSize = 0
        /\ \/ i <= c /\ \A h \in i + 1 .. c + 1 : tokens[h] \in Inside
           \/ i > c /\ \A h \in c + 1 .. i : tokens[h] \in Inside

\* Every token of the unit that no cut concerns is in a slice.
Sliced(unit, slices) ==
    unit.tokens[1] \notin Inside =>
        \A i \in 1 .. Len(unit.tokens) :
            ~Cut(unit.tokens, i) =>
                \E j \in 1 .. Len(slices) : \E k \in 1 .. Len(slices[j].tokens) :
                    slices[j].tokens[k] = unit.tokens[i]

\* The slices of a unit have its tokens in their order, all but those of cut characters.
LEMMA HardSplitInOrder ==
    ASSUME NEW unit \in Unit, NEW slices, slices = HardSplit(unit)
    PROVE  /\ slices \in Seq(Unit)
           /\ \A j \in 1 .. Len(slices) :
                 \E lo \in Nat, hi \in Nat : Slice(unit, slices[j], lo, hi)
           /\ Sliced(unit, slices)
           /\ \A j, l \in 1 .. Len(slices) :
                 j < l => \E lo \in Nat, hi \in Nat, low \in Nat, high \in Nat :
                             Slice(unit, slices[j], lo, hi) /\ Slice(unit, slices[l], low, high) /\ hi <= low
<1>1. PICK n \in Nat, z \in Nat \ {0} : n = Len(unit.tokens) /\ z = ChunkSize /\ unit.tokens \in Seq(Tok)
  BY ChunkAssumption DEF Unit
<1>2. CASE n <= z
  <2>1. slices = <<unit>>
    BY <1>1, <1>2 DEF HardSplit
  <2>2. slices \in Seq(Unit) /\ Len(slices) = 1 /\ slices[1] = unit
    BY <2>1
  <2>3. Slice(unit, unit, 0, n)
    BY <1>1, <1>2 DEF Slice
  <2>4. 0 \in Nat /\ 1 .. 1 = {1} /\ \A j, l \in {1} : ~(j < l)
    OBVIOUS
  <2>5. Sliced(unit, slices)
    BY <1>1, <2>2, <2>4 DEF Sliced
  <2> QED
    BY <1>1, <2>2, <2>3, <2>4, <2>5
<1>3. CASE ~(n <= z)
  <2> DEFINE Low(j) == (j - 1) * z
             High(j) == IF j * z <= n THEN j * z ELSE n
             count == (n + z - 1) \div z
  <2>1. slices = [j \in 1 .. count |->
                    [unit EXCEPT !.tokens = Decode(@, (j - 1) * z + 1, Min({j * z, n})),
                                 !.opens = @ /\ j = 1]]
    BY <1>1, <1>3 DEF HardSplit
  <2>2. n + z - 1 \in Nat
    BY <1>3
  <2>3. count \in Nat /\ n <= z * count /\ z * count <= n + z - 1
    <3>1. PICK x \in Nat : x = n + z - 1
      BY <2>2
    <3>2. PICK q \in Nat, r \in 0 .. z - 1 : q = x \div z /\ x = z * q + r
      BY Division
    <3>3. PICK y \in Nat : y = z * q
      BY Multiples
    <3>4. n <= y
      BY <3>1, <3>2, <3>3
    <3> QED
      BY <3>1, <3>2, <3>3, <3>4
  <2> HIDE DEF count
  <2>4. ASSUME NEW j \in 1 .. count
        PROVE  /\ Low(j) \in Nat /\ High(j) \in Nat /\ j * z = Low(j) + z
               /\ Low(j) <= High(j) /\ Min({j * z, n}) = High(j) /\ High(j) <= n /\ High(j) <= Low(j) + z
               /\ \A i \in 1 .. n : i <= Low(j) + z => i <= High(j)
    <3>1. PICK i \in Nat : j = i + 1
      <4>1. j - 1 \in Nat /\ j = (j - 1) + 1
        BY <2>3
      <4> QED
        BY <4>1
    <3>2. PICK y \in Nat : y = z * i
      BY Multiples
    <3>3. i * z = y /\ j * z = y + z
      BY <3>1, <3>2
    <3>4. Low(j) = y /\ Low(j) \in Nat
      BY <3>1, <3>3
    <3>5. Min({y + z, n}) = IF y + z <= n THEN y + z ELSE n
      BY MinOfTwo
    <3>6. y <= n
      <4>1. i < count
        BY <2>3, <3>1
      <4>2. z * (i + 1) <= z * count /\ z * (i + 1) = y + z
        BY <2>3, <3>2, <4>1, Multiples
      <4>3. PICK m \in Nat : m = z * count
        BY <2>3, Multiples
      <4> QED
        BY <2>3, <4>2, <4>3
    <3> QED
      BY <3>3, <3>4, <3>5, <3>6
  <2>5. ASSUME NEW j \in 1 .. count
        PROVE  Slice(unit, slices[j], Low(j), High(j))
    <3>1. PICK lo \in Nat, hi \in Nat : lo = Low(j) /\ hi = High(j)
      BY <2>4
    <3>2. lo <= hi /\ hi <= n /\ hi <= lo + z
      BY <2>4, <3>1
    <3>3. PICK s : s = Decode(unit.tokens, lo + 1, hi)
      OBVIOUS
    <3>4. /\ s \in Seq(Tok) /\ Len(s) = hi - lo
          /\ \A k \in 1 .. hi - lo :
                /\ lo + k \in 1 .. n
                /\ s[k] = unit.tokens[lo + k] \/ s[k] = Replacement
                /\ ~Torn(unit.tokens, lo + 1, hi, lo + k) => s[k] = unit.tokens[lo + k]
      <4>1. PICK a \in Nat \ {0} : a = lo + 1 /\ a <= hi + 1 /\ hi - a + 1 = hi - lo
        <5>1. lo + 1 \in Nat \ {0} /\ lo + 1 <= hi + 1 /\ hi - (lo + 1) + 1 = hi - lo
          BY <3>2
        <5> QED
          BY <5>1
      <4>2. /\ s \in Seq(Tok) /\ Len(s) = hi - a + 1
            /\ \A k \in 1 .. hi - a + 1 :
                  /\ a + k - 1 \in 1 .. n
                  /\ s[k] = unit.tokens[a + k - 1] \/ s[k] = Replacement
                  /\ ~Torn(unit.tokens, a, hi, a + k - 1) => s[k] = unit.tokens[a + k - 1]
        <5>1. hi \in 0 .. Len(unit.tokens)
          BY <1>1, <3>2
        <5>2. IsDecoded(unit.tokens, s, a, hi)
          BY <1>1, <3>3, <4>1, <5>1, Decoded
        <5> QED
          BY <1>1, <5>2 DEF IsDecoded
      <4>3. \A k \in 1 .. hi - lo : a + k - 1 = lo + k
        BY <4>1
      <4> QED
        BY <4>1, <4>2, <4>3
    <3>5. PICK opens \in BOOLEAN : opens = (unit.opens /\ j = 1)
      OBVIOUS
    <3>6. slices[j] = [unit EXCEPT !.tokens = s, !.opens = opens]
      <4>1. Min({j * z, n}) = hi /\ (j - 1) * z = lo
        BY <2>4, <3>1
      <4> QED
        BY <2>1, <3>3, <3>5, <4>1
    <3>7. slices[j] \in Unit /\ slices[j].tokens = s
      BY <3>4, <3>6 DEF Unit
    <3>8. Len(s) <= z
      BY <3>2, <3>4
    <3>9. ASSUME NEW k \in 1 .. Len(s)
          PROVE  /\ lo + k \in 1 .. n /\ lo + k <= hi
                 /\ s[k] = unit.tokens[lo + k] \/ s[k] = Replacement
                 /\ ~Torn(unit.tokens, lo + 1, hi, lo + k) => s[k] = unit.tokens[lo + k]
      <4>1. lo + k <= hi
        BY <3>4
      <4> QED
        BY <3>4, <4>1
    <3>10. ASSUME NEW i \in 1 .. n, i > lo, i <= hi, ~Torn(unit.tokens, lo + 1, hi, i)
           PROVE  i - lo \in 1 .. Len(s) /\ s[i - lo] = unit.tokens[i]
      <4>1. i - lo \in 1 .. Len(s)
        BY <3>4, <3>10
      <4>2. lo + (i - lo) = i
        OBVIOUS
      <4> QED
        BY <3>9, <3>10, <4>1, <4>2
    <3> QED
      BY <1>1, <3>1, <3>7, <3>8, <3>9, <3>10 DEF Slice
  <2>6. slices \in Seq(Unit) /\ Len(slices) = count
    <3>1. \A j \in 1 .. count : slices[j] \in Unit
      BY <2>5 DEF Slice
    <3>2. slices = [j \in 1 .. count |-> slices[j]]
      BY <2>1
    <3>3. slices \in [1 .. count -> Unit]
      BY <3>1, <3>2
    <3> QED
      BY <2>3, <3>3
  <2>7. ASSUME unit.tokens[1] \notin Inside, NEW i \in 1 .. n, ~Cut(unit.tokens, i)
        PROVE  \E j \in 1 .. count : \E k \in 1 .. Len(slices[j].tokens) :
                  slices[j].tokens[k] = unit.tokens[i]
    <3>1. PICK x \in Nat : i = x + 1
      <4>1. i - 1 \in Nat /\ i = (i - 1) + 1
        OBVIOUS
      <4> QED
        BY <4>1
    <3>2. PICK q \in Nat, r \in 0 .. z - 1 : x = z * q + r
      BY Division
    <3>3. PICK y \in Nat : y = z * q
      BY Multiples
    <3>4. z * q < z * count
      <4>1. PICK m \in Nat : m = z * count
        BY <2>3, Multiples
      <4> QED
        BY <2>3, <3>1, <3>2, <3>3, <4>1
    <3>5. q < count
      BY <2>3, <3>4, Multiples
    <3>6. q + 1 \in 1 .. count /\ (q + 1) - 1 = q
      BY <2>3, <3>5
    <3>7. Low(q + 1) = y
      BY <3>3, <3>6
    <3>8. i > y /\ i <= y + z
      BY <3>1, <3>2, <3>3
    <3>9. i <= High(q + 1)
      BY <2>4, <3>6, <3>7, <3>8
    <3>10. Slice(unit, slices[q + 1], Low(q + 1), High(q + 1))
      BY <2>5, <3>6
    <3>12. PICK hi \in Nat : hi = High(q + 1) /\ hi <= n /\ (hi < n => hi = y + z)
      <4>1. (q + 1) * z = y + z
        BY <2>4, <3>6, <3>7
      <4> QED
        BY <2>4, <3>6, <4>1
    <3> HIDE DEF Low, High
    <3>13. ~Torn(unit.tokens, y + 1, hi, i)
      <4>1. ASSUME \A h \in y + 1 .. i : unit.tokens[h] \in Inside PROVE FALSE
        <5>1. CASE y = 0
          <6>1. 1 \in y + 1 .. i
            BY <5>1
          <6> QED
            BY <2>7, <4>1, <6>1
        <5>2. CASE y # 0
          <6>1. y \in 1 .. n - 1 /\ i > y
            BY <3>8, <5>2
          <6>2. y % ChunkSize = 0
            BY <1>1, <3>3, MultiplesDivide
          <6> QED
            BY <1>1, <2>7, <4>1, <6>1, <6>2 DEF Cut
        <5> QED
          BY <5>1, <5>2
      <4>2. ASSUME hi < n, \A h \in i + 1 .. hi + 1 : unit.tokens[h] \in Inside PROVE FALSE
        <5>1. hi \in 1 .. n - 1 /\ i <= hi
          BY <3>9, <3>12, <4>2
        <5>2. hi % ChunkSize = 0
          <6>1. hi = z * (q + 1)
            BY <3>3, <3>12, <4>2, Multiples
          <6> QED
            BY <1>1, <6>1, MultiplesDivide
        <5> QED
          BY <1>1, <2>7, <4>2, <5>1, <5>2 DEF Cut
      <4> QED
        BY <1>1, <4>1, <4>2 DEF Torn
    <3>11. /\ i - y \in 1 .. Len(slices[q + 1].tokens)
           /\ slices[q + 1].tokens[i - y] = unit.tokens[i]
      BY <1>1, <3>7, <3>8, <3>9, <3>10, <3>12, <3>13 DEF Slice
    <3> QED
      BY <3>6, <3>11
  <2>8. ASSUME NEW j \in 1 .. count, NEW l \in 1 .. count, j < l
        PROVE  High(j) <= Low(l)
    <3>1. PICK y \in Nat : y = Low(j) /\ High(j) <= y + z
      BY <2>4
    <3>2. PICK a \in Nat, b \in Nat : j = a + 1 /\ l = b + 1 /\ a < b
      <4>1. j - 1 \in Nat /\ l - 1 \in Nat /\ j - 1 < l - 1 /\ j = (j - 1) + 1 /\ l = (l - 1) + 1
        BY <2>8
      <4> QED
        BY <4>1
    <3>3. z * (a + 1) <= z * b /\ z * (a + 1) = z * a + z
      BY <3>2, Multiples
    <3>4. Low(j) = z * a /\ Low(l) = z * b
      BY <3>2
    <3>5. PICK w \in Nat, h \in Nat : w = Low(l) /\ h = High(j)
      BY <2>4
    <3> HIDE DEF Low, High
    <3> QED
      BY <3>1, <3>3, <3>4, <3>5
  <2>9. \A j \in 1 .. count : Low(j) \in Nat /\ High(j) \in Nat
    BY <2>4
  <2> HIDE DEF Low, High
  <2> QED
    BY <1>1, <2>5, <2>6, <2>7, <2>8, <2>9 DEF Sliced
<1> QED
  BY <1>2, <1>3

\* Token k of paragraph p of segment s is of the text.
LEMMA TextTokens ==
    ASSUME NEW doc \in Document
    PROVE  /\ \A s \in 1 .. Len(doc) : \A p \in 1 .. Len(doc[s]) : \A k \in 1 .. doc[s][p].size :
                 <<s, p, k>> \in TokensOfText(doc)
           /\ \A x \in TokensOfText(doc) :
                 \E s \in 1 .. Len(doc) : \E p \in 1 .. Len(doc[s]) : \E k \in 1 .. doc[s][p].size :
                    x = <<s, p, k>>
           /\ TokensOfText(doc) \subseteq Tok /\ \A x \in TokensOfText(doc) : x[1] # 0
<1>1. PICK n \in Nat : n = Len(doc) /\ DOMAIN doc = 1 .. n
  BY DEF Document
<1>2. \A s \in 1 .. n : /\ doc[s] \in Seq(Paragraph)
                        /\ DOMAIN doc[s] = 1 .. Len(doc[s]) /\ Len(doc[s]) \in Nat
  BY <1>1 DEF Document
<1>3. ASSUME NEW s \in 1 .. n, NEW p \in 1 .. Len(doc[s]), NEW k \in 1 .. doc[s][p].size
      PROVE  <<s, p, k>> \in TokensOfText(doc)
  <2>1. <<s, p, k>> \in {<<s, p, j>> : j \in 1 .. doc[s][p].size}
    OBVIOUS
  <2>2. <<s, p, k>> \in UNION {{<<s, q, j>> : j \in 1 .. doc[s][q].size} : q \in DOMAIN doc[s]}
    BY <1>2, <2>1
  <2> QED
    BY <1>1, <2>2 DEF TokensOfText
<1>4. ASSUME NEW x \in TokensOfText(doc)
      PROVE  \E s \in 1 .. n : \E p \in 1 .. Len(doc[s]) : \E k \in 1 .. doc[s][p].size : x = <<s, p, k>>
  <2>1. PICK s \in 1 .. n :
           x \in UNION {{<<s, q, j>> : j \in 1 .. doc[s][q].size} : q \in DOMAIN doc[s]}
    BY <1>1 DEF TokensOfText
  <2>2. PICK p \in 1 .. Len(doc[s]) : x \in {<<s, p, j>> : j \in 1 .. doc[s][p].size}
    BY <1>2, <2>1
  <2> QED
    BY <2>2
<1>5. ASSUME NEW x \in TokensOfText(doc) PROVE x \in Tok /\ x[1] # 0
  <2>1. PICK s \in 1 .. n : \E p \in 1 .. Len(doc[s]) : \E k \in 1 .. doc[s][p].size : x = <<s, p, k>>
    BY <1>4
  <2>2. PICK p \in 1 .. Len(doc[s]) : \E k \in 1 .. doc[s][p].size : x = <<s, p, k>>
    BY <2>1
  <2>3. PICK k \in 1 .. doc[s][p].size : x = <<s, p, k>>
    BY <2>2
  <2>4. doc[s][p].size \in Nat
    <3>1. doc[s][p] \in Paragraph
      BY <1>2
    <3> QED
      BY <3>1 DEF Paragraph
  <2>5. s \in Nat /\ p \in Nat /\ k \in Nat /\ s # 0
    BY <1>2, <2>4
  <2> QED
    BY <2>3, <2>5 DEF Tok
<1> QED
  BY <1>1, <1>3, <1>4, <1>5

\* Unit u has the tokens of paragraph p of segment s.
Whole(doc, u, s, p) ==
    /\ s \in 1 .. Len(doc) /\ p \in 1 .. Len(doc[s])
    /\ u \in Unit /\ Len(u.tokens) = doc[s][p].size
    /\ \A k \in 1 .. Len(u.tokens) : u.tokens[k] = <<s, p, k>>

LEMMA ParagraphsWhole ==
    ASSUME NEW doc \in Document
    PROVE  /\ ParagraphUnits(doc) \in Seq(Unit) /\ Len(ParagraphUnits(doc)) = Len(Places(doc))
           /\ \A i \in 1 .. Len(Places(doc)) :
                 Whole(doc, ParagraphUnits(doc)[i], Places(doc)[i][1], Places(doc)[i][2])
<1>1. PICK places : places = Places(doc)
  OBVIOUS
<1>2. /\ places \in Seq(Nat \X Nat)
      /\ \A i \in 1 .. Len(places) :
            /\ places[i][1] \in 1 .. Len(doc)
            /\ places[i][2] \in 1 .. Len(doc[places[i][1]])
  BY <1>1, PlacesInOrder
<1>3. PICK n \in Nat : n = Len(places) /\ DOMAIN places = 1 .. n
  BY <1>2
<1> DEFINE paragraph(i) == doc[places[i][1]][places[i][2]]
           headings(i) == {h \in 1 .. i : paragraph(h).heading}
           tokens(i) == [k \in 1 .. paragraph(i).size |-> <<places[i][1], places[i][2], k>>]
           section(i) == IF headings(i) = {} THEN 0 ELSE Max(headings(i))
           units == ParagraphUnits(doc)
<1>4. units = [i \in 1 .. n |->
                  [tokens |-> tokens(i), section |-> section(i), opens |-> paragraph(i).heading]]
  BY <1>1, <1>3 DEF ParagraphUnits
<1>5. ASSUME NEW i \in 1 .. n
      PROVE  paragraph(i).size \in Nat /\ paragraph(i).heading \in BOOLEAN /\ section(i) \in Nat
  <2>1. places[i][1] \in 1 .. Len(doc) /\ places[i][2] \in 1 .. Len(doc[places[i][1]])
    BY <1>2, <1>3
  <2>2. doc[places[i][1]] \in Seq(Paragraph)
    BY <2>1 DEF Document
  <2>3. paragraph(i) \in Paragraph
    <3>1. PICK s, p : s = places[i][1] /\ p = places[i][2]
      OBVIOUS
    <3>2. doc[s] \in Seq(Paragraph) /\ p \in 1 .. Len(doc[s])
      BY <2>1, <2>2, <3>1
    <3>3. doc[s][p] \in Paragraph
      BY <3>2
    <3> QED
      BY <3>1, <3>3
  <2>4. section(i) \in Nat
    <3>1. CASE headings(i) = {}
      BY <3>1
    <3>2. CASE headings(i) # {}
      <4>1. headings(i) \in SUBSET (1 .. i) /\ i \in Nat
        OBVIOUS
      <4> HIDE DEF headings
      <4>2. Max(headings(i)) \in 1 .. i
        BY <3>2, <4>1, MaxIn
      <4> QED
        BY <3>2, <4>1, <4>2
    <3> QED
      BY <3>1, <3>2
  <2> HIDE DEF paragraph, section
  <2> QED
    BY <2>3, <2>4 DEF Paragraph
<1>6. ASSUME NEW i \in 1 .. n
      PROVE  Whole(doc, units[i], places[i][1], places[i][2])
  <2>1. places[i][1] \in 1 .. Len(doc) /\ places[i][2] \in 1 .. Len(doc[places[i][1]])
    BY <1>2, <1>3
  <2>2. PICK s \in Nat, p \in Nat : s = places[i][1] /\ p = places[i][2]
    BY <1>2, <1>3
  <2>3. PICK m \in Nat : m = paragraph(i).size
    BY <1>5
  <2>4. PICK t : t = tokens(i)
    OBVIOUS
  <2>5. t \in Seq(Tok) /\ Len(t) = m /\ \A k \in 1 .. m : t[k] = <<s, p, k>>
    <3>1. t = [k \in 1 .. m |-> <<s, p, k>>]
      BY <2>2, <2>3, <2>4
    <3>2. \A k \in 1 .. m : <<s, p, k>> \in Tok
      BY DEF Tok
    <3>3. t \in [1 .. m -> Tok]
      BY <3>1, <3>2
    <3> QED
      BY <3>1, <3>3
  <2>6. PICK c \in Nat, h \in BOOLEAN : c = section(i) /\ h = paragraph(i).heading
    BY <1>5
  <2>7. units[i] = [tokens |-> t, section |-> c, opens |-> h]
    BY <1>4, <2>4, <2>6
  <2>8. units[i] \in Unit /\ units[i].tokens = t
    BY <2>5, <2>7 DEF Unit
  <2> HIDE DEF units
  <2> QED
    BY <2>1, <2>2, <2>3, <2>5, <2>8 DEF Whole
<1>7. units \in Seq(Unit) /\ Len(units) = n
  <2>1. units = [i \in 1 .. n |-> units[i]]
    BY <1>4
  <2>2. \A i \in 1 .. n : units[i] \in Unit
    BY <1>6 DEF Whole
  <2> HIDE DEF units
  <2>3. units \in [1 .. n -> Unit]
    BY <2>1, <2>2
  <2> QED
    BY <2>3
<1> QED
  BY <1>1, <1>3, <1>6, <1>7

\* The slice has the tokens of paragraph p of segment s that follow the first lo, but
\* for torn ones.
Portion(slice, T, s, p, lo) ==
    \A k \in 1 .. Len(slice.tokens) :
        \/ slice.tokens[k] = <<s, p, lo + k>> /\ slice.tokens[k] \in T
        \/ slice.tokens[k] = Replacement

\* The units of a document are its tokens in their order, in portions of at most the
\* size of a chunk; only severed characters are missing.
LEMMA SplitInOrder ==
    ASSUME NEW doc \in Document
    PROVE  /\ UnitsInOrder(SplitUnits(doc), TokensOfText(doc))
           /\ TokensOfText(doc) \ Severed(doc) \subseteq OfUnits(SplitUnits(doc), Len(SplitUnits(doc)))
<1>1. PICK whole \in Seq(Unit) :
         /\ whole = ParagraphUnits(doc) /\ Len(whole) = Len(Places(doc)) /\ DOMAIN whole = 1 .. Len(whole)
         /\ \A i \in 1 .. Len(whole) : Whole(doc, whole[i], Places(doc)[i][1], Places(doc)[i][2])
  BY ParagraphsWhole
<1>2. PICK n \in Nat : n = Len(whole)
  OBVIOUS
<1> DEFINE ss == [i \in 1 .. n |-> HardSplit(whole[i])]
<1>3. \A i \in 1 .. n : whole[i] \in Unit
  BY <1>2
<1>4. \A i \in 1 .. n : ss[i] = HardSplit(whole[i]) /\ ss[i] \in Seq(Unit)
  BY <1>3, HardSplitInOrder
<1>5. ss \in Seq(Seq(Unit)) /\ Len(ss) = n
  <2>1. ss = [i \in 1 .. n |-> ss[i]]
    OBVIOUS
  <2>2. ss \in [1 .. n -> Seq(Unit)]
    BY <1>4, <2>1
  <2> HIDE DEF ss
  <2> QED
    BY <2>2
<1>6. PICK units : units = SplitUnits(doc) /\ units = FlattenSeq(ss)
  <2>1. SplitUnits(doc) = FlattenSeq(ss)
    BY <1>1, <1>2 DEF SplitUnits
  <2> QED
    BY <2>1
<1> HIDE DEF ss
<1>7. units \in Seq(Unit) /\ Flat(units, ss)
  BY <1>5, <1>6, Flattened
<1>8. PICK T : T = TokensOfText(doc)
  OBVIOUS
<1>16. Replacement \notin T
  BY <1>8, ReplacementTyped, TextTokens
<1>9. ASSUME NEW a \in 1 .. n, NEW b \in 1 .. Len(ss[a])
      PROVE  \E lo \in Nat, hi \in Nat :
                /\ Slice(whole[a], ss[a][b], lo, hi)
                /\ Portion(ss[a][b], T, Places(doc)[a][1], Places(doc)[a][2], lo)
  <2>1. PICK s, p : s = Places(doc)[a][1] /\ p = Places(doc)[a][2] /\ Whole(doc, whole[a], s, p)
    BY <1>1, <1>2
  <2>2. PICK lo \in Nat, hi \in Nat : Slice(whole[a], ss[a][b], lo, hi)
    BY <1>3, <1>4, HardSplitInOrder
  <2>3. s \in 1 .. Len(doc) /\ p \in 1 .. Len(doc[s])
    BY <2>1 DEF Whole
  <2>4. s \in Nat /\ p \in Nat
    BY <2>3
  <2>5. ASSUME NEW k \in 1 .. Len(ss[a][b].tokens)
        PROVE  \/ (ss[a][b].tokens[k] = <<s, p, lo + k>> /\ ss[a][b].tokens[k] \in T)
               \/ ss[a][b].tokens[k] = Replacement
    <3>1. /\ lo + k \in 1 .. Len(whole[a].tokens)
          /\ ss[a][b].tokens[k] = whole[a].tokens[lo + k] \/ ss[a][b].tokens[k] = Replacement
      BY <2>2 DEF Slice
    <3>2. /\ ss[a][b].tokens[k] = <<s, p, lo + k>> \/ ss[a][b].tokens[k] = Replacement
          /\ lo + k \in 1 .. doc[s][p].size
      BY <2>1, <3>1 DEF Whole
    <3>3. <<s, p, lo + k>> \in T
      BY <1>8, <2>3, <3>2, TextTokens
    <3> QED
      BY <3>2, <3>3
  <2> QED
    BY <2>1, <2>2, <2>5 DEF Portion
<1>10. ASSUME NEW i \in 1 .. Len(units)
       PROVE  \E a \in 1 .. n : \E b \in 1 .. Len(ss[a]) : units[i] = ss[a][b]
  BY <1>5, <1>7 DEF Flat
<1>11. ASSUME NEW i \in 1 .. Len(units)
       PROVE  /\ Sorted(units[i].tokens, T) /\ Len(units[i].tokens) <= ChunkSize
              /\ \A x \in ToSet(units[i].tokens) : x[1] # 0 => x \in T
  <2>1. PICK a \in 1 .. n : \E b \in 1 .. Len(ss[a]) : units[i] = ss[a][b]
    BY <1>10
  <2>2. PICK b \in 1 .. Len(ss[a]) : units[i] = ss[a][b]
    BY <2>1
  <2>9. PICK s, p : s = Places(doc)[a][1] /\ p = Places(doc)[a][2]
    OBVIOUS
  <2>3. PICK lo \in Nat, hi \in Nat : Slice(whole[a], ss[a][b], lo, hi) /\ Portion(ss[a][b], T, s, p, lo)
    BY <1>9, <2>9
  <2>4. PICK t \in Seq(Tok) : t = units[i].tokens
    <3>1. units[i] \in Unit
      BY <1>7
    <3> QED
      BY <3>1 DEF Unit
  <2>5. Len(t) <= ChunkSize
    BY <2>2, <2>3, <2>4 DEF Slice
  <2>6. \A k \in 1 .. Len(t) :
           (t[k] = <<s, p, lo + k>> /\ t[k] \in T) \/ t[k] = Replacement
    BY <2>2, <2>3, <2>4 DEF Portion
  <2>7. Sorted(t, T)
    <3> SUFFICES ASSUME NEW j \in 1 .. Len(t), NEW k \in 1 .. Len(t), j < k, t[j] \in T, t[k] \in T
                 PROVE  Before(t[j], t[k])
      BY DEF Sorted
    <3>2. lo + j < lo + k
      OBVIOUS
    <3>1. t[j] = <<s, p, lo + j>> /\ t[k] = <<s, p, lo + k>> /\ lo + j < lo + k
      BY <1>16, <2>6, <3>2
    <3> QED
      BY <3>1 DEF Before
  <2>8. \A x \in ToSet(t) : x[1] # 0 => x \in T
    <3> SUFFICES ASSUME NEW x \in ToSet(t), x[1] # 0 PROVE x \in T
      OBVIOUS
    <3>1. PICK k \in 1 .. Len(t) : x = t[k]
      BY Elements
    <3> QED
      BY <2>6, <3>1, ReplacementTyped
  <2> QED
    BY <2>4, <2>5, <2>7, <2>8
<1>12. ASSUME NEW i \in 1 .. Len(units), NEW j \in 1 .. Len(units), i < j
       PROVE  Below(ToSet(units[i].tokens), ToSet(units[j].tokens), T)
  <2>1. PICK a \in 1 .. Len(ss), c \in 1 .. Len(ss) : \E b \in 1 .. Len(ss[a]), d \in 1 .. Len(ss[c]) :
           /\ units[i] = ss[a][b] /\ units[j] = ss[c][d]
           /\ a < c \/ (a = c /\ b < d)
    BY <1>7, <1>12, Zenon DEF Flat
  <2>2. PICK b \in 1 .. Len(ss[a]), d \in 1 .. Len(ss[c]) :
           /\ units[i] = ss[a][b] /\ units[j] = ss[c][d]
           /\ a < c \/ (a = c /\ b < d)
    BY <2>1
  <2>3. a \in 1 .. n /\ c \in 1 .. n
    BY <1>5
  <2>4. units[i].tokens \in Seq(Tok) /\ units[j].tokens \in Seq(Tok)
    <3>1. units[i] \in Unit /\ units[j] \in Unit
      BY <1>7
    <3> QED
      BY <3>1 DEF Unit
  <2> SUFFICES ASSUME NEW x \in ToSet(units[i].tokens) \cap T, NEW y \in ToSet(units[j].tokens) \cap T
               PROVE  Before(x, y)
    BY DEF Below
  <2>5. PICK k \in 1 .. Len(ss[a][b].tokens), m \in 1 .. Len(ss[c][d].tokens) :
           x = ss[a][b].tokens[k] /\ y = ss[c][d].tokens[m]
    <3>1. (\E k \in 1 .. Len(units[i].tokens) : x = units[i].tokens[k])
          /\ \E m \in 1 .. Len(units[j].tokens) : y = units[j].tokens[m]
      BY <2>4, Elements
    <3> QED
      BY <2>2, <3>1
  <2>6. CASE a < c
    <3>1. PICK s, p, lo :
             s = Places(doc)[a][1] /\ p = Places(doc)[a][2] /\ x = <<s, p, lo + k>>
      <4>1. PICK lo \in Nat, hi \in Nat :
               Portion(ss[a][b], T, Places(doc)[a][1], Places(doc)[a][2], lo)
        BY <1>9, <2>3
      <4> QED
        BY <1>16, <2>5, <4>1 DEF Portion
    <3>2. PICK q, r, low :
             q = Places(doc)[c][1] /\ r = Places(doc)[c][2] /\ y = <<q, r, low + m>>
      <4>1. PICK low \in Nat, high \in Nat :
               Portion(ss[c][d], T, Places(doc)[c][1], Places(doc)[c][2], low)
        BY <1>9, <2>3
      <4> QED
        BY <1>16, <2>5, <4>1 DEF Portion
    <3>3. s < q \/ (s = q /\ p < r)
      <4>1. a \in 1 .. Len(Places(doc)) /\ c \in 1 .. Len(Places(doc))
        BY <1>1, <1>2, <2>3
      <4> QED
        BY <2>6, <3>1, <3>2, <4>1, PlacesInOrder
    <3> QED
      BY <3>1, <3>2, <3>3 DEF Before
  <2>7. CASE a = c /\ b < d
    <3>1. b \in 1 .. Len(ss[a]) /\ d \in 1 .. Len(ss[a])
      BY <2>7
    <3>2. PICK lo \in Nat, hi \in Nat, low \in Nat, high \in Nat :
             Slice(whole[a], ss[a][b], lo, hi) /\ Slice(whole[a], ss[a][d], low, high) /\ hi <= low
      BY <1>3, <1>4, <2>3, <2>7, <3>1, HardSplitInOrder
    <3>3. PICK s, p : Whole(doc, whole[a], s, p)
      BY <1>1, <1>2, <2>3
    <3>4. /\ lo + k \in 1 .. Len(whole[a].tokens) /\ lo + k <= hi /\ x = whole[a].tokens[lo + k]
          /\ low + m \in 1 .. Len(whole[a].tokens) /\ y = whole[a].tokens[low + m]
      BY <1>16, <2>5, <2>7, <3>2 DEF Slice
    <3>5. x = <<s, p, lo + k>> /\ y = <<s, p, low + m>> /\ lo + k < low + m
      <4>1. x = <<s, p, lo + k>> /\ y = <<s, p, low + m>>
        BY <3>3, <3>4 DEF Whole
      <4>2. PICK v \in Nat, w \in Nat : v = lo + k /\ w = low + m /\ w > low
        OBVIOUS
      <4>3. v <= hi /\ hi <= low
        BY <3>2, <3>4, <4>2
      <4>4. v < w
        BY <4>2, <4>3
      <4> QED
        BY <4>1, <4>2, <4>4
    <3> QED
      BY <3>5 DEF Before
  <2> QED
    BY <2>2, <2>6, <2>7
<1>13. ASSUME NEW x \in T \ Severed(doc)
       PROVE  x \in OfUnits(units, Len(units))
  <2>1. PICK s \in 1 .. Len(doc) : \E p \in 1 .. Len(doc[s]) : \E k \in 1 .. doc[s][p].size : x = <<s, p, k>>
    BY <1>8, TextTokens
  <2>2. PICK p \in 1 .. Len(doc[s]) : \E k \in 1 .. doc[s][p].size : x = <<s, p, k>>
    BY <2>1
  <2>3. PICK k \in 1 .. doc[s][p].size : x = <<s, p, k>>
    BY <2>2
  <2>4. PICK a \in 1 .. Len(Places(doc)) : Places(doc)[a] = <<s, p>>
    BY PlacesInOrder
  <2>5. a \in 1 .. n /\ Whole(doc, whole[a], s, p)
    BY <1>1, <1>2, <2>4
  <2>6. k \in 1 .. Len(whole[a].tokens) /\ whole[a].tokens[k] = x
    BY <2>3, <2>5 DEF Whole
  <2>7. PICK b \in 1 .. Len(ss[a]) : \E m \in 1 .. Len(ss[a][b].tokens) : ss[a][b].tokens[m] = x
    <3>2. PICK slices : slices = ss[a]
      OBVIOUS
    <3>3. slices = HardSplit(whole[a]) /\ whole[a] \in Unit
      BY <1>3, <1>4, <2>5, <3>2
    <3>4. Sliced(whole[a], slices)
      BY <3>3, HardSplitInOrder
    <3>5. whole[a].tokens[1] \notin Inside
      <4>1. 1 \in 1 .. Len(whole[a].tokens)
        BY <2>6
      <4>2. whole[a].tokens[1] = <<s, p, 1>>
        BY <2>5, <4>1 DEF Whole
      <4> QED
        BY <4>2, InsideAssumption
    <3>6. ~Cut(whole[a].tokens, k)
      <4> SUFFICES ASSUME Cut(whole[a].tokens, k) PROVE x \in Severed(doc)
        BY <1>13
      <4>1. PICK size : size = doc[s][p].size /\ size = Len(whole[a].tokens)
        BY <2>5 DEF Whole
      <4>2. PICK c \in 1 .. size - 1 :
               /\ c % ChunkSize = 0
               /\ \/ k <= c /\ \A h \in k + 1 .. c + 1 : whole[a].tokens[h] \in Inside
                  \/ k > c /\ \A h \in c + 1 .. k : whole[a].tokens[h] \in Inside
        BY <4>1 DEF Cut
      <4>3. \A h \in 1 .. size : whole[a].tokens[h] = <<s, p, h>>
        BY <2>5, <4>1 DEF Whole
      <4>4. size \in Nat /\ k \in 1 .. size
        <5>1. whole[a] \in Unit
          BY <2>5 DEF Whole
        <5>2. whole[a].tokens \in Seq(Tok)
          BY <5>1 DEF Unit
        <5> QED
          BY <2>6, <4>1, <5>2
      <4>5. /\ k <= c => \A h \in k + 1 .. c + 1 : h \in 1 .. size
            /\ k > c => \A h \in c + 1 .. k : h \in 1 .. size
        BY <4>4
      <4>6. \/ k <= c /\ \A h \in k + 1 .. c + 1 : <<s, p, h>> \in Inside
            \/ k > c /\ \A h \in c + 1 .. k : <<s, p, h>> \in Inside
        BY <4>2, <4>3, <4>5
      <4>7. x[1] = s /\ x[2] = p /\ x[3] = k /\ x \in TokensOfText(doc)
        BY <1>8, <2>3
      <4> QED
        BY <4>1, <4>2, <4>6, <4>7 DEF Severed
    <3>1. \A i \in 1 .. Len(whole[a].tokens) :
             ~Cut(whole[a].tokens, i) =>
                \E j \in 1 .. Len(ss[a]) : \E m \in 1 .. Len(ss[a][j].tokens) :
                   ss[a][j].tokens[m] = whole[a].tokens[i]
      BY <3>2, <3>4, <3>5 DEF Sliced
    <3> QED
      BY <2>6, <3>1, <3>6
  <2>8. PICK i \in 1 .. Len(units) : units[i] = ss[a][b]
    <3>1. a \in 1 .. Len(ss)
      BY <1>5, <2>5
    <3> QED
      BY <1>7, <3>1, Zenon DEF Flat
  <2>9. units[i].tokens \in Seq(Tok)
    <3>1. units[i] \in Unit
      BY <1>7
    <3> QED
      BY <3>1 DEF Unit
  <2>10. x \in ToSet(units[i].tokens)
    BY <2>7, <2>8, <2>9, Elements
  <2>11. x \in Tok
    BY <1>8, TextTokens
  <2> QED
    BY <1>8, <2>10, <2>11, TextTokens DEF OfUnits
<1>14. OfUnits(units, Len(units)) \subseteq T
  BY <1>11 DEF OfUnits
<1>15. \A x \in T : x[1] # 0
  BY <1>8, TextTokens
<1> QED
  BY <1>6, <1>7, <1>8, <1>11, <1>12, <1>13, <1>14, <1>15 DEF UnitsInOrder

\* What the chunker makes of a document: typed chunks that hold its tokens, all but
\* those of severed characters.
LEMMA ChunksOfDocument ==
    ASSUME NEW doc \in Document, NEW chunks, chunks = chunk_extraction_result(doc)
    PROVE  /\ chunks \in Seq(Chunk)
           /\ \E units \in Seq(Unit) :
                 /\ TokensOfText(doc) \ Severed(doc) \subseteq OfUnits(units, Len(units))
                 /\ ChunksHold(units, TokensOfText(doc), chunks, Len(units))
<1>1. PICK units, T : units = SplitUnits(doc) /\ T = TokensOfText(doc)
  OBVIOUS
<1>2. UnitsInOrder(units, T) /\ T \ Severed(doc) \subseteq OfUnits(units, Len(units))
  BY <1>1, SplitInOrder
<1>3. chunks = EmitChunk(FoldLeft(AddUnit, NoChunks, units)).chunks
  BY <1>1 DEF chunk_extraction_result, Packed
<1>4. chunks \in Seq(Chunk) /\ ChunksHold(units, T, chunks, Len(units))
  BY <1>2, <1>3, PackedHolds
<1> QED
  BY <1>1, <1>2, <1>4 DEF UnitsInOrder
=============================================================================
