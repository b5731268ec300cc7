-------------------------- MODULE ContestScoreProofs --------------------------
(***************************************************************************)
(* The live board of a contest and its result, for every number of users,  *)
(* problems and submissions.                                               *)
(*                                                                         *)
(* However many consumers score at once and whatever fails, what the live  *)
(* board credits is backed by rows, and a problem is counted no more often *)
(* than the user has accepted submissions.  Until two results of one user  *)
(* are handled at once, no two consumers write one hash (Serial): then     *)
(* each problem counts once and the board shows what was counted, and with *)
(* verdicts in the order of submission and no failed call the board once   *)
(* settled is what the trigger computes.                                   *)
(*                                                                         *)
(* The second half is about ContestRoom, which reads the same keys: that   *)
(* its snapshots and ticks show the phones only what was counted, that the *)
(* place in the list is the rank Redis gives, how that rank and the        *)
(* result's agree, and that the one consumer ContestRoom has is the one    *)
(* of a contest with a single consumer.                                    *)
(***************************************************************************)
EXTENDS ContestScore, SequenceTheorems, FiniteSetTheorems, TLAPS

-----------------------------------------------------------------------------
(* Sums over finite sets.  MapThenSumSet is a recursive function over the  *)
(* subsets of a finite set; what it computes is found by looking at a      *)
(* smallest subset for which a claim fails.                                *)

\* The member a fold takes next.
First(s) == CHOOSE x \in s : TRUE

\* g is the fold of f over the subsets of S.
Folds(g, f, S) ==
    g = [s \in SUBSET S |-> IF s = {} THEN 0 ELSE f[First(s)] + g[s \ {First(s)}]]

SumOf(f, S) == MapThenSumSet(LAMBDA x : f[x], S)

LEMMA CardOneMore ==
    ASSUME NEW S, IsFiniteSet(S), NEW x, x \notin S, NEW T, T = S \cup {x}
    PROVE  Cardinality(T) = Cardinality(S) + 1
  BY FS_AddElement

(* Among the subsets of a finite set that have a property one is smallest. *)
LEMMA SmallestSubset ==
    ASSUME NEW S, IsFiniteSet(S), NEW Bad, Bad \subseteq SUBSET S, Bad # {}
    PROVE  \E T \in Bad : \A U \in Bad : U \subseteq T => U = T
<1>1. IsWellFoundedOn(StrictSubsetOrdering(S), SUBSET S)
  BY FS_StrictSubsetOrderingWellFounded, FS_FiniteSubsetsOfFinite
<1>2. PICK T \in Bad : \A U \in Bad : ~ (<<U, T>> \in StrictSubsetOrdering(S))
  BY <1>1, WFMin
<1>3. ASSUME NEW U \in Bad, U \subseteq T, U # T PROVE FALSE
  BY <1>2, <1>3 DEF StrictSubsetOrdering
<1> QED BY <1>3

LEMMA FirstOf ==
    ASSUME NEW s, s # {}
    PROVE  First(s) \in s /\ s \ {First(s)} \subseteq s /\ s \ {First(s)} # s
<1>1. \E x \in s : TRUE
  OBVIOUS
<1>2. First(s) \in s
  BY <1>1, Zenon DEF First
<1> QED BY <1>2

(* Folds over two sets agree on what is part of both.                      *)
LEMMA FoldsAgree ==
    ASSUME NEW S, IsFiniteSet(S), NEW U, U \subseteq S, NEW f, NEW h,
           \A x \in U : f[x] = h[x],
           NEW g, Folds(g, f, S), NEW k, Folds(k, h, U)
    PROVE  \A s \in SUBSET U : g[s] = k[s]
<1> DEFINE Bad == {s \in SUBSET U : g[s] # k[s]}
<1> SUFFICES ASSUME Bad # {} PROVE FALSE
  OBVIOUS
<1>1. PICK s \in Bad : \A r \in Bad : r \subseteq s => r = s
  <2>1. IsFiniteSet(U)
    BY FS_Subset
  <2>2. Bad \subseteq SUBSET U
    OBVIOUS
  <2> HIDE DEF Bad
  <2> QED BY <2>1, <2>2, SmallestSubset
<1>2. s \in SUBSET U /\ s \in SUBSET S /\ g[s] # k[s]
  OBVIOUS
<1>3. /\ g[s] = IF s = {} THEN 0 ELSE f[First(s)] + g[s \ {First(s)}]
      /\ k[s] = IF s = {} THEN 0 ELSE h[First(s)] + k[s \ {First(s)}]
  BY <1>2 DEF Folds
<1>4. s # {}
  BY <1>2, <1>3
<1> DEFINE r == s \ {First(s)}
<1>5. First(s) \in U /\ r \subseteq s /\ r # s
  BY <1>2, <1>4, FirstOf
<1>6. g[r] = k[r]
  BY <1>1, <1>2, <1>5
<1> QED BY <1>2, <1>3, <1>4, <1>5, <1>6

(* There is a fold over every finite set.                                  *)
LEMMA FoldExists ==
    ASSUME NEW S, IsFiniteSet(S), NEW f
    PROVE  \E g : Folds(g, f, S)
<1> DEFINE Bad == {T \in SUBSET S : ~ \E g : Folds(g, f, T)}
<1> SUFFICES ASSUME Bad # {} PROVE FALSE
  OBVIOUS
<1>1. PICK T \in Bad : \A U \in Bad : U \subseteq T => U = T
  <2>1. Bad \subseteq SUBSET S
    OBVIOUS
  <2> HIDE DEF Bad
  <2> QED BY <2>1, SmallestSubset
<1>2. T \in SUBSET S /\ IsFiniteSet(T)
  BY FS_Subset
<1> DEFINE G(s) == CHOOSE g : Folds(g, f, s)
<1>3. ASSUME NEW s \in SUBSET T, s # T PROVE Folds(G(s), f, s) /\ IsFiniteSet(s)
  <2>1. s \notin Bad /\ s \in SUBSET S
    BY <1>1, <1>2, <1>3
  <2>2. \E g : Folds(g, f, s)
    BY <2>1
  <2>3. Folds(G(s), f, s)
    BY <2>2, Zenon
  <2> QED BY <1>2, <2>1, <2>3, FS_Subset
<1> HIDE DEF G
<1> DEFINE k == [s \in SUBSET T |->
                    IF s = {} THEN 0
                    ELSE f[First(s)] + G(s \ {First(s)})[s \ {First(s)}]]
<1>4. ASSUME NEW s \in SUBSET T, s # T PROVE k[s] = G(s)[s]
  <2>1. G(s)[s] = IF s = {} THEN 0 ELSE f[First(s)] + G(s)[s \ {First(s)}]
    <3>1. Folds(G(s), f, s) /\ s \in SUBSET s
      BY <1>3, <1>4
    <3> QED BY <3>1 DEF Folds
  <2>2. CASE s = {}
    BY <2>1, <2>2
  <2>3. CASE s # {}
    <3> DEFINE r == s \ {First(s)}
    <3>1. r \in SUBSET T /\ r # T /\ r \subseteq s
      BY <1>4, <2>3, FirstOf
    <3>2. Folds(G(r), f, r) /\ Folds(G(s), f, s) /\ IsFiniteSet(s)
      BY <1>3, <1>4, <3>1
    <3> HIDE DEF r
    <3>3. \A q \in SUBSET r : G(s)[q] = G(r)[q]
      BY <3>1, <3>2, FoldsAgree
    <3>4. G(s)[r] = G(r)[r]
      BY <3>3
    <3>5. k[s] = f[First(s)] + G(r)[r]
      BY <2>3 DEF r
    <3>6. G(s)[s] = f[First(s)] + G(s)[r]
      BY <2>1, <2>3 DEF r
    <3> QED BY <3>4, <3>5, <3>6
  <2> QED BY <2>2, <2>3
<1>5. Folds(k, f, T)
  <2>1. ASSUME NEW s \in SUBSET T
        PROVE  k[s] = IF s = {} THEN 0 ELSE f[First(s)] + k[s \ {First(s)}]
    <3>1. CASE s = {}
      BY <3>1
    <3>2. CASE s # {}
      <4> DEFINE r == s \ {First(s)}
      <4>1. r \in SUBSET T /\ r # T
        BY <3>2, FirstOf
      <4>2. k[r] = G(r)[r]
        BY <1>4, <4>1
      <4>3. k[s] = f[First(s)] + G(r)[r]
        BY <3>2
      <4> QED BY <3>2, <4>2, <4>3
    <3> QED BY <3>1, <3>2
  <2>2. k = [s \in SUBSET T |-> k[s]]
    OBVIOUS
  <2>3. [s \in SUBSET T |-> k[s]]
            = [s \in SUBSET T |-> IF s = {} THEN 0 ELSE f[First(s)] + k[s \ {First(s)}]]
    <3> HIDE DEF k
    <3> QED BY <2>1
  <2> HIDE DEF k
  <2> QED BY <2>2, <2>3 DEF Folds
<1> HIDE DEF k
<1> QED BY <1>5

(* The sum is what any fold of its function computes.                      *)
LEMMA SumIsFold ==
    ASSUME NEW S, IsFiniteSet(S), NEW f, NEW U, U \subseteq S, NEW g, Folds(g, f, S)
    PROVE  SumOf(f, U) = g[U]
<1> DEFINE k == CHOOSE h : Folds(h, f, U)
<1>1. IsFiniteSet(U)
  BY FS_Subset
<1>2. \E h : Folds(h, f, U)
  BY <1>1, FoldExists
<1>3. Folds(k, f, U)
  BY <1>2, Zenon
<1>4. SumOf(f, U) = k[U]
  BY DEF SumOf, MapThenSumSet, MapThenFoldSet, Folds, First
<1> HIDE DEF k
<1>5. \A s \in SUBSET U : g[s] = k[s]
  BY <1>3, FoldsAgree
<1> QED BY <1>4, <1>5

LEMMA SumEmpty ==
    ASSUME NEW f
    PROVE  SumOf(f, {}) = 0
<1>1. IsFiniteSet({})
  BY FS_EmptySet
<1>2. PICK g : Folds(g, f, {})
  BY <1>1, FoldExists
<1>3. SumOf(f, {}) = g[{}]
  BY <1>1, <1>2, SumIsFold
<1>4. g[{}] = 0
  BY <1>2 DEF Folds
<1> QED BY <1>3, <1>4

\* A sum is its first summand and the others.
LEMMA SumFirst ==
    ASSUME NEW S, IsFiniteSet(S), NEW f, S # {}
    PROVE  SumOf(f, S) = f[First(S)] + SumOf(f, S \ {First(S)})
<1>1. PICK g : Folds(g, f, S)
  BY FoldExists
<1>2. SumOf(f, S) = g[S] /\ SumOf(f, S \ {First(S)}) = g[S \ {First(S)}]
  BY <1>1, SumIsFold
<1>3. g[S] = f[First(S)] + g[S \ {First(S)}]
  BY <1>1 DEF Folds
<1> QED BY <1>2, <1>3

(* Functions that agree on a set have the same sum.                        *)
LEMMA SumSame ==
    ASSUME NEW S, IsFiniteSet(S), NEW f, NEW h, \A x \in S : f[x] = h[x]
    PROVE  SumOf(f, S) = SumOf(h, S)
<1>1. PICK g : Folds(g, f, S)
  BY FoldExists
<1>2. PICK k : Folds(k, h, S)
  BY FoldExists
<1>3. SumOf(f, S) = g[S] /\ SumOf(h, S) = k[S]
  BY <1>1, <1>2, SumIsFold
<1>4. \A s \in SUBSET S : g[s] = k[s]
  BY <1>1, <1>2, FoldsAgree
<1> QED BY <1>3, <1>4

(* A sum of natural numbers is one.                                        *)
LEMMA SumNat ==
    ASSUME NEW S, IsFiniteSet(S), NEW f, \A x \in S : f[x] \in Nat
    PROVE  SumOf(f, S) \in Nat
<1> DEFINE Bad == {T \in SUBSET S : SumOf(f, T) \notin Nat}
<1> SUFFICES ASSUME Bad # {} PROVE FALSE
  <2> S \in SUBSET S
    OBVIOUS
  <2> QED OBVIOUS
<1>1. PICK T \in Bad : \A U \in Bad : U \subseteq T => U = T
  <2>1. Bad \subseteq SUBSET S
    OBVIOUS
  <2> HIDE DEF Bad
  <2> QED BY <2>1, SmallestSubset
<1>2. IsFiniteSet(T)
  BY FS_Subset
<1>3. T # {}
  BY SumEmpty
<1> DEFINE r == T \ {First(T)}
<1>4. First(T) \in T /\ r \subseteq T /\ r # T
  BY <1>3, FirstOf
<1>5. SumOf(f, T) = f[First(T)] + SumOf(f, r)
  BY <1>2, <1>3, SumFirst
<1>6. SumOf(f, r) \in Nat
  BY <1>1, <1>4
<1>7. f[First(T)] \in Nat
  BY <1>4
<1> HIDE DEF r
<1>8. SumOf(f, T) \in Nat
  BY <1>5, <1>6, <1>7
<1> QED BY <1>8

(* Taking a summand away, whichever it is.                                 *)
LEMMA SumRemove ==
    ASSUME NEW S, IsFiniteSet(S), NEW f, \A x \in S : f[x] \in Nat, NEW y \in S
    PROVE  SumOf(f, S) = f[y] + SumOf(f, S \ {y})
<1> DEFINE Bad == {T \in SUBSET S : \E z \in T : SumOf(f, T) # f[z] + SumOf(f, T \ {z})}
<1> SUFFICES ASSUME Bad # {} PROVE FALSE
  <2> S \in SUBSET S
    OBVIOUS
  <2> QED OBVIOUS
<1>1. PICK T \in Bad : \A U \in Bad : U \subseteq T => U = T
  <2>1. Bad \subseteq SUBSET S
    OBVIOUS
  <2> HIDE DEF Bad
  <2> QED BY <2>1, SmallestSubset
<1>2. PICK z \in T : SumOf(f, T) # f[z] + SumOf(f, T \ {z})
  OBVIOUS
<1>3. IsFiniteSet(T) /\ T # {} /\ T \subseteq S
  BY <1>2, FS_Subset
<1>4. PICK x \in T : x = First(T)
  BY <1>3, FirstOf
<1>5. SumOf(f, T) = f[x] + SumOf(f, T \ {x})
  BY <1>3, <1>4, SumFirst
<1>6. x # z
  BY <1>2, <1>5
<1>7. SumOf(f, T \ {x}) = f[z] + SumOf(f, (T \ {x}) \ {z})
  <2>1. T \ {x} \in SUBSET S /\ T \ {x} \notin Bad /\ z \in T \ {x}
    BY <1>1, <1>3, <1>6
  <2> QED BY <2>1
<1>8. SumOf(f, T \ {z}) = f[x] + SumOf(f, (T \ {z}) \ {x})
  <2>1. T \ {z} \in SUBSET S /\ T \ {z} \notin Bad /\ x \in T \ {z}
    BY <1>1, <1>3, <1>6
  <2> QED BY <2>1
<1>9. PICK m \in Nat : m = SumOf(f, (T \ {x}) \ {z}) /\ m = SumOf(f, (T \ {z}) \ {x})
  <2>1. (T \ {x}) \ {z} = (T \ {z}) \ {x}
    OBVIOUS
  <2>2. IsFiniteSet((T \ {x}) \ {z}) /\ \A w \in (T \ {x}) \ {z} : f[w] \in Nat
    BY <1>3, FS_Subset
  <2>3. SumOf(f, (T \ {x}) \ {z}) \in Nat
    BY <2>2, SumNat
  <2> QED BY <2>1, <2>3
<1>10. f[x] \in Nat /\ f[z] \in Nat
  BY <1>3
<1> HIDE DEF Bad
<1> QED BY <1>2, <1>5, <1>7, <1>8, <1>9, <1>10

(* Adding a summand.                                                       *)
LEMMA SumAdd ==
    ASSUME NEW S, IsFiniteSet(S), NEW f, NEW y, y \notin S,
           \A x \in S \cup {y} : f[x] \in Nat
    PROVE  SumOf(f, S \cup {y}) = SumOf(f, S) + f[y] /\ SumOf(f, S) \in Nat
<1>1. IsFiniteSet(S \cup {y}) /\ (S \cup {y}) \ {y} = S
  BY FS_AddElement
<1>2. SumOf(f, S \cup {y}) = f[y] + SumOf(f, (S \cup {y}) \ {y})
  BY <1>1, SumRemove
<1>3. SumOf(f, S) \in Nat /\ f[y] \in Nat
  BY SumNat
<1> QED BY <1>1, <1>2, <1>3

-----------------------------------------------------------------------------
(* Jobs and rows.                                                          *)

RowType == [user : Users, problem : Problems, status : Judged \cup {"PENDING"}]

Busy(c) == job[c].pc # "idle"

\* A job is about a row that was stored, and knows whether it is accepted.
JobOK(c) ==
    LET s == job[c].row IN
    /\ ~ Busy(c) => job[c] = Idle
    /\ Busy(c) => s \in DOMAIN rows /\ rows[s].status # "PENDING"
    /\ job[c].pc \in {"fails", "solve", "post"} => rows[s].status = "ACCEPTED"
    /\ job[c].pc = "fail" => rows[s].status = "REJECTED"

JobInv ==
    /\ TypeOK
    /\ \A c \in Consumers : JobOK(c)
    /\ \A c, d \in Consumers : c # d /\ Busy(c) /\ Busy(d) => job[c].row # job[d].row

LEMMA RowFacts ==
    ASSUME TypeOK
    PROVE  /\ rows \in Seq(RowType) /\ Len(rows) \in Nat /\ DOMAIN rows = 1..Len(rows)
           /\ \A s \in DOMAIN rows : rows[s] \in RowType /\ s \in 1..MaxRows
<1>1. rows \in Seq(RowType)
  BY DEF TypeOK, RowType
<1>2. Len(rows) \in Nat /\ DOMAIN rows = 1..Len(rows) /\ Len(rows) <= MaxRows
  BY <1>1, LenProperties DEF TypeOK
<1>3. ASSUME NEW s \in DOMAIN rows PROVE rows[s] \in RowType /\ s \in 1..MaxRows
  BY <1>1, <1>2, <1>3, ElementOfSeq, ScoreAssumption
<1> QED BY <1>1, <1>2, <1>3

\* What is known of the user and the problem of a busy job.
LEMMA JobFacts ==
    ASSUME JobInv, NEW c \in Consumers
    PROVE  /\ job \in [Consumers -> Job] /\ job[c] \in Job /\ JobOK(c)
           /\ Busy(c) => /\ job[c].row \in DOMAIN rows /\ rows[job[c].row] \in RowType
                         /\ User(c) \in Users /\ Problem(c) \in Problems
                         /\ stats \in [Users -> Stats] /\ stats[User(c)] \in Stats
<1>1. job \in [Consumers -> Job] /\ JobOK(c) /\ stats \in [Users -> Stats]
  BY DEF JobInv, TypeOK, BoardTypeOK
<1>2. Busy(c) => job[c].row \in DOMAIN rows /\ rows[job[c].row] \in RowType
  BY <1>1, RowFacts DEF JobInv, JobOK
<1> QED BY <1>1, <1>2 DEF User, Problem, RowType

(* A consumer goes on with its row or is done with it.                     *)
LEMMA JobMoves ==
    ASSUME JobInv, TypeOK', NEW c \in Consumers, Busy(c), UNCHANGED rows, NEW state,
           job' = [job EXCEPT ![c] = state],
           \/ state = Idle
           \/ /\ state.pc # "idle" /\ state.row = job[c].row
              /\ state.pc \in {"fails", "solve", "post"} =>
                    rows[job[c].row].status = "ACCEPTED"
              /\ state.pc = "fail" => rows[job[c].row].status = "REJECTED"
    PROVE  JobInv'
<1>1. /\ job \in [Consumers -> Job] /\ job'[c] = state
      /\ \A d \in Consumers : d # c => job'[d] = job[d]
  BY JobFacts
<1>2. JobOK(c)'
  <2>1. JobOK(c)
    BY JobFacts
  <2>2. CASE state = Idle
    BY <1>1, <2>2 DEF JobOK, Busy, Idle
  <2>3. CASE state # Idle
    BY <1>1, <2>1, <2>3 DEF JobOK, Busy
  <2> QED BY <2>2, <2>3
<1>3. ASSUME NEW d \in Consumers, d # c PROVE JobOK(d)'
  <2>1. JobOK(d) /\ job'[d] = job[d]
    BY <1>1, <1>3 DEF JobInv
  <2> QED BY <2>1 DEF JobOK, Busy
<1>4. \A d \in Consumers : JobOK(d)'
  BY <1>2, <1>3
<1>5. \A d \in Consumers : Busy(d)' => Busy(d) /\ job'[d].row = job[d].row
  BY <1>1 DEF Busy, Idle
<1>6. ASSUME NEW d \in Consumers, NEW e \in Consumers, d # e, Busy(d)', Busy(e)'
      PROVE  job'[d].row # job'[e].row
  BY <1>5, <1>6 DEF JobInv
<1> QED BY <1>4, <1>6 DEF JobInv

(* A finite sum of penalties is a natural number.                          *)
LEMMA RowsOfFinite ==
    ASSUME TypeOK, NEW u, NEW p, NEW v
    PROVE  /\ IsFiniteSet(DOMAIN rows) /\ Cardinality(DOMAIN rows) = Len(rows)
           /\ RowsOf(u, p, v) \subseteq DOMAIN rows /\ IsFiniteSet(RowsOf(u, p, v))
<1>1. Len(rows) \in Nat /\ DOMAIN rows = 1..Len(rows)
  BY RowFacts
<1>2. IsFiniteSet(DOMAIN rows) /\ Cardinality(DOMAIN rows) = Len(rows)
  <2>1. /\ IsFiniteSet(1..Len(rows))
        /\ Cardinality(1..Len(rows)) = IF 1 > Len(rows) THEN 0 ELSE Len(rows) - 1 + 1
    BY <1>1, FS_Interval
  <2>2. PICK n \in Nat : n = Len(rows)
    BY <1>1
  <2>3. (IF 1 > n THEN 0 ELSE n - 1 + 1) = n
    OBVIOUS
  <2> QED BY <1>1, <2>1, <2>2, <2>3
<1>3. RowsOf(u, p, v) \subseteq DOMAIN rows
  BY DEF RowsOf
<1> QED BY <1>2, <1>3, FS_Subset

\* The failures that count, by problem.
FailsBefore(u) == [p \in Problems |-> Cardinality(fails_before_ac(u, p))]

LEMMA FirstAcFinite ==
    ASSUME TypeOK, NEW u
    PROVE  /\ first_ac(u) \subseteq Problems /\ IsFiniteSet(first_ac(u))
           /\ Cardinality(first_ac(u)) \in Nat
           /\ \A p \in Problems : FailsBefore(u)[p] \in Nat
<1>1. first_ac(u) \subseteq Problems
  BY DEF first_ac
<1>2. ASSUME NEW p \in Problems PROVE FailsBefore(u)[p] \in Nat
  <2>1. fails_before_ac(u, p) \subseteq RowsOf(u, p, "REJECTED")
    BY DEF fails_before_ac
  <2>2. IsFiniteSet(fails_before_ac(u, p))
    BY <2>1, RowsOfFinite, FS_Subset
  <2> QED BY <1>2, <2>2, FS_CardinalityType DEF FailsBefore
<1> QED BY <1>1, <1>2, FS_Subset, FS_CardinalityType, ScoreAssumption

LEMMA TotalPenalty ==
    ASSUME TypeOK, NEW u
    PROVE  /\ total_penalty(u) = SumOf([p \in Problems |-> PENALTY_PER_WRONG * FailsBefore(u)[p]],
                                       first_ac(u))
           /\ total_penalty(u) \in Nat
<1> DEFINE A == first_ac(u)
           f == [p \in Problems |-> PENALTY_PER_WRONG * FailsBefore(u)[p]]
           k == CHOOSE h : h = [s \in SUBSET A |->
                    IF s = {} THEN 0
                    ELSE PENALTY_PER_WRONG * Cardinality(fails_before_ac(u, First(s)))
                         + h[s \ {First(s)}]]
<1>1. total_penalty(u) = k[A]
  BY DEF total_penalty, MapThenSumSet, MapThenFoldSet, First
<1>2. A \subseteq Problems /\ IsFiniteSet(A)
  BY FirstAcFinite
<1> HIDE DEF A
<1>3. ASSUME NEW h
      PROVE  Folds(h, f, A) <=> h = [s \in SUBSET A |->
                    IF s = {} THEN 0
                    ELSE PENALTY_PER_WRONG * Cardinality(fails_before_ac(u, First(s)))
                         + h[s \ {First(s)}]]
  <2>1. ASSUME NEW s \in SUBSET A, s # {}
        PROVE  f[First(s)] = PENALTY_PER_WRONG * Cardinality(fails_before_ac(u, First(s)))
    <3>1. First(s) \in Problems
      BY <1>2, <2>1, FirstOf
    <3> QED BY <3>1 DEF FailsBefore
  <2> HIDE DEF f
  <2>2. ASSUME NEW s \in SUBSET A
        PROVE  (IF s = {} THEN 0 ELSE f[First(s)] + h[s \ {First(s)}])
                 = (IF s = {} THEN 0
                    ELSE PENALTY_PER_WRONG * Cardinality(fails_before_ac(u, First(s)))
                         + h[s \ {First(s)}])
    BY <2>1, <2>2
  <2>3. [s \in SUBSET A |-> IF s = {} THEN 0 ELSE f[First(s)] + h[s \ {First(s)}]]
          = [s \in SUBSET A |->
                    IF s = {} THEN 0
                    ELSE PENALTY_PER_WRONG * Cardinality(fails_before_ac(u, First(s)))
                         + h[s \ {First(s)}]]
    BY <2>2
  <2> QED BY <2>3 DEF Folds
<1> HIDE DEF f
<1>4. \E h : Folds(h, f, A)
  BY <1>2, FoldExists
<1>5. k = [s \in SUBSET A |->
                    IF s = {} THEN 0
                    ELSE PENALTY_PER_WRONG * Cardinality(fails_before_ac(u, First(s)))
                         + k[s \ {First(s)}]]
  BY <1>3, <1>4, Zenon
<1>6. Folds(k, f, A)
  BY <1>3, <1>5
<1> HIDE DEF k
<1>7. SumOf(f, A) = k[A]
  BY <1>2, <1>6, SumIsFold
<1>8. \A p \in A : f[p] \in Nat
  BY <1>2, FirstAcFinite DEF f, PENALTY_PER_WRONG
<1>9. SumOf(f, A) \in Nat
  BY <1>2, <1>8, SumNat
<1> QED BY <1>1, <1>7, <1>9 DEF A, f

-----------------------------------------------------------------------------
(* What a step does to the board.                                          *)

Quiet == UNCHANGED <<rows, redisVars, job, upsets>>

Submits(u, p) ==
    /\ Len(rows) < MaxRows
    /\ rows' = Append(rows, [user |-> u, problem |-> p, status |-> "PENDING"])
    /\ UNCHANGED <<redisVars, job, upsets>>

Stores(c, s, verdict) ==
    /\ ~ Busy(c) /\ rows[s].status = "PENDING"
    /\ rows' = [rows EXCEPT ![s].status = verdict]
    /\ job' = [job EXCEPT ![c] = [Idle EXCEPT !.pc = "meta", !.row = s]]
    /\ upsets' = upsets \cup (IF NextOfUser(s) THEN {} ELSE {"order"})
                      \cup (IF BeingScored(rows[s].user) THEN {"race"} ELSE {})
    /\ UNCHANGED redisVars

\* A consumer reads what it needs, finds the problem solved, or gives up.
Reads(c, state) ==
    \/ job[c].pc = "meta" /\ state = [job[c] EXCEPT !.pc = "status"]
    \/ /\ job[c].pc = "status" /\ stats[User(c)].status[Problem(c)] # "AC"
       /\ state = [job[c] EXCEPT
              !.pc = IF rows[job[c].row].status = "ACCEPTED" THEN "fails" ELSE "fail"]
    \/ /\ job[c].pc = "fails"
       /\ state = [job[c] EXCEPT !.pc = "solve", !.fails = stats[User(c)].fails[Problem(c)]]

Leaves(c, state) ==
    /\ state = Idle
    /\ \/ job[c].pc = "status" /\ stats[User(c)].status[Problem(c)] = "AC"
       \/ "fault" \in upsets'

Moves(c, state) ==
    /\ Busy(c) /\ (Reads(c, state) \/ Leaves(c, state))
    /\ job' = [job EXCEPT ![c] = state]
    /\ upsets' \in {upsets, upsets \cup {"fault"}}
    /\ UNCHANGED <<rows, redisVars>>

Solves(c, state) ==
    /\ job[c].pc = "solve" /\ CountSolved(User(c), Problem(c), job[c].fails)
    /\ \/ state = [job[c] EXCEPT !.pc = "post", !.score = Score(stats'[User(c)])]
       \/ state = Idle /\ "fault" \in upsets'
    /\ job' = [job EXCEPT ![c] = state]
    /\ upsets' \in {upsets, upsets \cup {"fault"}}
    /\ UNCHANGED rows

CountsFail(c) ==
    /\ job[c].pc = "fail" /\ CountFail(User(c), Problem(c))
    /\ Done(c)
    /\ upsets' \in {upsets, upsets \cup {"fault"}}
    /\ UNCHANGED rows

Posts(c) ==
    /\ job[c].pc = "post" /\ SetScore(User(c), job[c].score)
    /\ Done(c)
    /\ UNCHANGED <<rows, upsets>>

BoardStep ==
    \/ Quiet
    \/ \E u \in Users, p \in Problems : Submits(u, p)
    \/ \E c \in Consumers :
          \/ \E s \in DOMAIN rows, verdict \in Judged : Stores(c, s, verdict)
          \/ \E state : Moves(c, state) \/ Solves(c, state)
          \/ CountsFail(c) \/ Posts(c)

(* Every step is one of these.                                             *)
LEMMA StepEffects ==
    ASSUME JobInv, [Next]_vars
    PROVE  BoardStep
<1> USE JobFacts
<1>1. CASE UNCHANGED vars
  BY <1>1 DEF vars, Quiet, BoardStep
<1>2. CASE Clock \/ sweepContestLifecycle
  BY <1>2 DEF Clock, sweepContestLifecycle, Start, Finish, Quiet, BoardStep
<1>3. ASSUME NEW u \in Users, registerForContest(u) PROVE BoardStep
  BY <1>3 DEF registerForContest, CheckWindow, InsertParticipant, Quiet, BoardStep
<1>4. ASSUME NEW u \in Users, NEW p \in Problems, Submit(u, p) PROVE BoardStep
  BY <1>4 DEF Submit, Submits, BoardStep
<1>5. ASSUME NEW c \in Consumers, NEW s \in DOMAIN rows, NEW verdict \in Judged,
             Store(c, s, verdict)
      PROVE  BoardStep
  <2>1. ~ Busy(c)
    BY <1>5 DEF Store, Busy, Idle
  <2>2. Stores(c, s, verdict)
    BY <1>5, <2>1 DEF Store, Stores
  <2> QED BY <2>2 DEF BoardStep
<1>6. ASSUME NEW c \in Consumers, ScoreStep(c) PROVE BoardStep
  <2> SUFFICES ASSUME NEW state,
                   \/ Moves(c, state) \/ Solves(c, state)
                   \/ CountsFail(c) \/ Posts(c)
               PROVE  BoardStep
    <3>1. \E state : \/ Moves(c, state) \/ Solves(c, state)
                     \/ CountsFail(c) \/ Posts(c)
      <4> USE DEF redisVars
      <4>1. job \in [Consumers -> Job] /\ job[c] \in Job
        BY JobFacts
      <4>2. CASE getContestMeta(c)
        <5>1. Moves(c, [job[c] EXCEPT !.pc = "status"])
          BY <4>1, <4>2 DEF getContestMeta, Goto, Moves, Reads, Busy, Job
        <5> QED BY <5>1
      <4>3. CASE ReadStatus(c)
        <5>1. CASE stats[User(c)].status[Problem(c)] = "AC"
          <6>1. Moves(c, Idle)
            BY <4>1, <4>3, <5>1 DEF ReadStatus, Done, Moves, Leaves, Busy
          <6> QED BY <6>1
        <5>2. CASE stats[User(c)].status[Problem(c)] # "AC"
          <6> DEFINE state == [job[c] EXCEPT
                  !.pc = IF rows[job[c].row].status = "ACCEPTED" THEN "fails" ELSE "fail"]
          <6>1. Moves(c, state)
            BY <4>1, <4>3, <5>2 DEF ReadStatus, Goto, Moves, Reads, Busy, Job
          <6> QED BY <6>1
        <5> QED BY <5>1, <5>2
      <4>4. CASE ReadFails(c)
        <5> DEFINE state == [job[c] EXCEPT !.pc = "solve",
                                           !.fails = stats[User(c)].fails[Problem(c)]]
        <5>1. Moves(c, state)
          BY <4>1, <4>4 DEF ReadFails, Moves, Reads, Busy, Job
        <5> QED BY <5>1
      <4>5. CASE Solve(c)
        <5> DEFINE state == [job[c] EXCEPT !.pc = "post", !.score = Score(stats'[User(c)])]
        <5>1. Solves(c, state)
          BY <4>1, <4>5 DEF Solve, Solves, Job
        <5> QED BY <5>1
      <4>6. CASE PostScore(c)
        BY <4>6 DEF PostScore, Posts
      <4>7. CASE Fail(c)
        BY <4>7 DEF Fail, CountsFail
      <4>8. CASE RedisFails(c)
        <5>1. Moves(c, Idle) \/ Solves(c, Idle) \/ CountsFail(c)
          BY <4>1, <4>8 DEF RedisFails, Done, Moves, Leaves, Solves, CountsFail, Busy
        <5> QED BY <5>1
      <4>9. CASE Crash(c)
        <5>1. Moves(c, Idle)
          BY <4>1, <4>9 DEF Crash, Done, Moves, Leaves, Busy
        <5> QED BY <5>1
      <4> QED BY <1>6, <4>2, <4>3, <4>4, <4>5, <4>6, <4>7, <4>8, <4>9 DEF ScoreStep
    <3> QED BY <3>1
  <2> QED BY DEF BoardStep
<1>7. ASSUME Next PROVE BoardStep
  <2>1. CASE \E u \in Users : registerForContest(u) \/ \E p \in Problems : Submit(u, p)
    BY <1>3, <1>4, <2>1
  <2>2. CASE \E c \in Consumers :
                \E s \in DOMAIN rows, verdict \in Judged : Store(c, s, verdict)
    BY <1>5, <2>2
  <2>3. CASE \E c \in Consumers : ScoreStep(c)
    BY <1>6, <2>3
  <2> QED BY <1>2, <1>7, <2>1, <2>2, <2>3 DEF Next
<1> QED BY <1>1, <1>7

(* The hash of a user before and after a block of updateContestScore.      *)
SolvedIn(old, new, p, n) ==
    /\ new \in Stats
    /\ new.solvedCount = old.solvedCount + 1
    /\ new.totalPenaltySeconds = old.totalPenaltySeconds + n * PENALTY_PER_WRONG
    /\ new.status = [old.status EXCEPT ![p] = "AC"]
    /\ new.fails = old.fails

FailedIn(old, new, p) ==
    /\ new \in Stats
    /\ new.solvedCount = old.solvedCount
    /\ new.totalPenaltySeconds = old.totalPenaltySeconds
    /\ new.status = old.status
    /\ new.fails = [old.fails EXCEPT ![p] = old.fails[p] + 1]

OnlyOf(u) ==
    stats' \in [Users -> Stats] /\ \A v \in Users : v # u => stats'[v] = stats[v]

\* What the blocks write is well-formed.
LEMMA NewStats ==
    ASSUME NEW old \in Stats, NEW m \in Nat, NEW p \in Problems
    PROVE  /\ [old EXCEPT !.solvedCount = @ + 1, !.totalPenaltySeconds = @ + m,
                          !.status[p] = "AC"] \in Stats
           /\ [old EXCEPT !.fails[p] = @ + 1] \in Stats
<1>1. ASSUME NEW new \in [Problems -> {"", "AC"}], NEW n \in Nat, NEW k \in Nat
      PROVE  [old EXCEPT !.solvedCount = k, !.totalPenaltySeconds = n, !.status = new] \in Stats
  BY DEF Stats
<1>2. ASSUME NEW new \in [Problems -> Nat] PROVE [old EXCEPT !.fails = new] \in Stats
  BY DEF Stats
<1>3. /\ old.solvedCount \in Nat /\ old.totalPenaltySeconds \in Nat
      /\ old.status \in [Problems -> {"", "AC"}] /\ old.fails \in [Problems -> Nat]
  BY DEF Stats
<1>4. /\ old.solvedCount + 1 \in Nat /\ old.totalPenaltySeconds + m \in Nat
      /\ [old.status EXCEPT ![p] = "AC"] \in [Problems -> {"", "AC"}]
      /\ [old.fails EXCEPT ![p] = @ + 1] \in [Problems -> Nat]
  <2>1. PICK f \in [Problems -> Nat] : f = old.fails
    BY <1>3
  <2>2. [f EXCEPT ![p] = @ + 1] \in [Problems -> Nat]
    OBVIOUS
  <2>3. PICK i \in Nat, j \in Nat : i = old.solvedCount /\ j = old.totalPenaltySeconds
    BY <1>3
  <2>4. i + 1 \in Nat /\ j + m \in Nat
    OBVIOUS
  <2>5. [old.status EXCEPT ![p] = "AC"] \in [Problems -> {"", "AC"}]
    BY <1>3
  <2> QED BY <2>1, <2>2, <2>3, <2>4, <2>5
<1>5. [old EXCEPT !.solvedCount = old.solvedCount + 1,
                  !.totalPenaltySeconds = old.totalPenaltySeconds + m,
                  !.status = [old.status EXCEPT ![p] = "AC"]] \in Stats
  BY <1>1, <1>4, Zenon
<1>6. [old EXCEPT !.fails = [old.fails EXCEPT ![p] = @ + 1]] \in Stats
  BY <1>2, <1>4, Zenon
<1> QED BY <1>5, <1>6

LEMMA SolvedBlock ==
    ASSUME stats \in [Users -> Stats], NEW u \in Users, NEW p \in Problems,
           NEW n \in Nat, CountSolved(u, p, n)
    PROVE  SolvedIn(stats[u], stats'[u], p, n) /\ OnlyOf(u)
<1>1. PICK m \in Nat : m = n * PENALTY_PER_WRONG
  BY DEF PENALTY_PER_WRONG
<1>2. stats' = [stats EXCEPT
          ![u].solvedCount = @ + 1, ![u].totalPenaltySeconds = @ + m, ![u].status[p] = "AC"]
  BY <1>1 DEF CountSolved
<1>3. DOMAIN stats' = Users /\ \A v \in Users : v # u => stats'[v] = stats[v]
  BY <1>2
<1>4. PICK old \in Stats : old = stats[u]
  OBVIOUS
<1>5. stats'[u] = [old EXCEPT !.solvedCount = @ + 1, !.totalPenaltySeconds = @ + m,
                              !.status[p] = "AC"]
  BY <1>2, <1>4
<1>6. [old EXCEPT !.solvedCount = @ + 1, !.totalPenaltySeconds = @ + m,
                  !.status[p] = "AC"] \in Stats
  BY <1>4, NewStats
<1>7. SolvedIn(stats[u], stats'[u], p, n)
  BY <1>1, <1>4, <1>5, <1>6 DEF Stats, SolvedIn
<1>8. stats' \in [Users -> Stats]
  BY <1>2, <1>3, <1>5, <1>6
<1> QED BY <1>3, <1>7, <1>8 DEF OnlyOf

LEMMA FailedBlock ==
    ASSUME stats \in [Users -> Stats], NEW u \in Users, NEW p \in Problems, CountFail(u, p)
    PROVE  FailedIn(stats[u], stats'[u], p) /\ OnlyOf(u)
<1>1. stats' = [stats EXCEPT ![u].fails[p] = @ + 1]
  BY DEF CountFail
<1>2. DOMAIN stats' = Users /\ \A v \in Users : v # u => stats'[v] = stats[v]
  BY <1>1
<1>3. PICK old \in Stats : old = stats[u]
  OBVIOUS
<1>4. stats'[u] = [old EXCEPT !.fails[p] = @ + 1]
  BY <1>1, <1>3
<1>5. [old EXCEPT !.fails[p] = @ + 1] \in Stats
  BY <1>3, NewStats
<1>6. FailedIn(stats[u], stats'[u], p)
  BY <1>3, <1>4, <1>5 DEF Stats, FailedIn
<1>7. stats' \in [Users -> Stats]
  BY <1>1, <1>2, <1>4, <1>5
<1> QED BY <1>2, <1>6, <1>7 DEF OnlyOf

\* The contest's own columns and tables.
ContestTypeOK ==
    /\ clock \in {"before", "open", "over"}
    /\ status \in {"DRAFT", "RUNNING", "FINISHED"}
    /\ participants \in [Users -> Participant \cup {NotRegistered}]
    /\ registering \subseteq Users

LEMMA FinalizeType ==
    ASSUME TypeOK
    PROVE  finalize_contest \in [Users -> Participant \cup {NotRegistered}]
<1>1. ASSUME NEW u \in Users
      PROVE  [totalScore   |-> Cardinality(first_ac(u)),
              totalPenalty |-> total_penalty(u),
              rank         |-> 1 + Cardinality({v \in ranked : Before(v, u)})] \in Participant
  <2>1. Cardinality(first_ac(u)) \in Nat /\ total_penalty(u) \in Nat
    BY FirstAcFinite, TotalPenalty
  <2>2. {v \in ranked : Before(v, u)} \in SUBSET Users
    BY DEF ranked
  <2>3. Cardinality({v \in ranked : Before(v, u)}) \in Nat
    BY <2>2, FS_Subset, FS_CardinalityType, ScoreAssumption
  <2> QED BY <2>1, <2>3 DEF Participant
<1>2. \A u \in Users : participants[u] \in Participant \cup {NotRegistered}
  BY DEF TypeOK
<1> QED BY <1>1, <1>2 DEF finalize_contest

LEMMA ContestTypeStep ==
    ASSUME TypeOK, [Next]_vars
    PROVE  ContestTypeOK'
<1> USE DEF TypeOK, ContestTypeOK
<1>1. CASE UNCHANGED contestVars
  BY <1>1 DEF contestVars
<1>2. CASE Clock
  BY <1>2 DEF Clock
<1>3. CASE Start
  BY <1>3 DEF Start
<1>4. CASE Finish
  <2>1. finalize_contest \in [Users -> Participant \cup {NotRegistered}]
    BY FinalizeType
  <2> QED BY <1>4, <2>1 DEF Finish
<1>5. ASSUME NEW u \in Users, registerForContest(u) PROVE ContestTypeOK'
  <2>1. CASE CheckWindow(u)
    BY <2>1 DEF CheckWindow
  <2>2. CASE InsertParticipant(u)
    <3>1. [totalScore |-> 0, totalPenalty |-> 0, rank |-> 0] \in Participant
      BY DEF Participant
    <3> QED BY <2>2, <3>1 DEF InsertParticipant
  <2> QED BY <1>5, <2>1, <2>2 DEF registerForContest
<1> HIDE DEF TypeOK, ContestTypeOK
<1>6. CASE Next
  <2>1. CASE sweepContestLifecycle
    BY <1>3, <1>4, <2>1 DEF sweepContestLifecycle
  <2>2. CASE \E u \in Users, p \in Problems : Submit(u, p)
    BY <1>1, <2>2 DEF Submit
  <2>3. CASE \E c \in Consumers :
                \E s \in DOMAIN rows, verdict \in Judged : Store(c, s, verdict)
    BY <1>1, <2>3 DEF Store
  <2>4. CASE \E c \in Consumers : ScoreStep(c)
    BY <1>1, <2>4 DEF ScoreStep, getContestMeta, ReadStatus, ReadFails, Solve, PostScore,
                      Fail, RedisFails, Crash
  <2> QED BY <1>2, <1>5, <1>6, <2>1, <2>2, <2>3, <2>4 DEF Next
<1> QED BY <1>1, <1>6 DEF vars, contestVars

(* The job of a consumer that goes on is well-formed, whatever it read.    *)
LEMMA ReadTypes ==
    ASSUME JobInv, NEW c \in Consumers, NEW state, Busy(c), Reads(c, state)
    PROVE  /\ state \in Job /\ state.pc # "idle" /\ state.row = job[c].row
           /\ state.pc = "fails" => rows[job[c].row].status = "ACCEPTED"
           /\ state.pc = "solve" => rows[job[c].row].status = "ACCEPTED"
           /\ state.pc = "fail" => rows[job[c].row].status = "REJECTED"
           /\ state.pc # "post"
<1>1. PICK j \in Job : j = job[c]
  BY JobFacts
<1>2. PICK row \in RowType : row = rows[j.row] /\ row.status # "PENDING"
  BY <1>1, JobFacts DEF JobOK
<1>3. row.status \in Judged
  BY <1>2 DEF RowType
<1>4. CASE j.pc = "meta" /\ state = [j EXCEPT !.pc = "status"]
  BY <1>1, <1>4 DEF Job
<1>5. CASE state = [j EXCEPT !.pc = IF row.status = "ACCEPTED" THEN "fails" ELSE "fail"]
  BY <1>1, <1>2, <1>3, <1>5 DEF Job, Judged
<1>6. CASE /\ j.pc = "fails"
           /\ state = [j EXCEPT !.pc = "solve", !.fails = stats[User(c)].fails[Problem(c)]]
  <2>1. stats[User(c)].fails[Problem(c)] \in Nat
    BY JobFacts DEF Stats
  <2>2. row.status = "ACCEPTED"
    BY <1>1, <1>2, <1>6, JobFacts DEF JobOK
  <2> QED BY <1>1, <1>2, <1>6, <2>1, <2>2 DEF Job
<1> QED BY <1>1, <1>2, <1>4, <1>5, <1>6 DEF Reads

LEMMA IdleType == Idle \in Job /\ Idle.pc = "idle"
<1>1. 0 \in 0..MaxRows
  BY ScoreAssumption
<1> QED BY <1>1 DEF Idle, Job

(* The invariant of rows and jobs is inductive, whatever fails and however *)
(* many consumers there are.                                               *)
LEMMA SubmitJobs ==
    ASSUME JobInv, NEW u \in Users, NEW p \in Problems, Submits(u, p), ContestTypeOK'
    PROVE  JobInv'
<1> DEFINE new == [user |-> u, problem |-> p, status |-> "PENDING"]
<1>1. /\ rows \in Seq(RowType) /\ Len(rows) \in Nat /\ DOMAIN rows = 1..Len(rows)
  BY RowFacts DEF JobInv
<1>2. new \in RowType
  BY DEF RowType
<1>3. rows' = Append(rows, new)
  BY DEF Submits
<1> HIDE DEF new
<1>4. /\ rows' \in Seq(RowType) /\ Len(rows') = Len(rows) + 1
      /\ \A s \in 1..Len(rows) : rows'[s] = rows[s]
  BY <1>1, <1>2, <1>3, AppendProperties
<1>5. DOMAIN rows' = 1..Len(rows')
  BY <1>4, LenProperties
<1>5a. Len(rows') <= MaxRows
  BY <1>1, <1>4, ScoreAssumption DEF Submits
<1>6. TypeOK'
  BY <1>4, <1>5a DEF JobInv, TypeOK, BoardTypeOK, ContestTypeOK, Submits, redisVars, RowType
<1>7. ASSUME NEW c \in Consumers PROVE JobOK(c)'
  <2>1. JobOK(c) /\ job' = job
    BY DEF JobInv, Submits
  <2>2. Busy(c) => job[c].row \in DOMAIN rows /\ rows'[job[c].row] = rows[job[c].row]
    BY <1>1, <1>4, <2>1 DEF JobOK
  <2>3. Busy(c) => job[c].row \in DOMAIN rows'
    BY <1>1, <1>4, <1>5, <2>2
  <2> QED BY <2>1, <2>2, <2>3 DEF JobOK, Busy
<1>8. ASSUME NEW c \in Consumers, NEW d \in Consumers, c # d, Busy(c)', Busy(d)'
      PROVE  job'[c].row # job'[d].row
  BY <1>8 DEF JobInv, Submits, Busy
<1> QED BY <1>6, <1>7, <1>8 DEF JobInv

\* What Store leaves in the rows.
LEMMA StoredRows ==
    ASSUME TypeOK, NEW c \in Consumers, NEW s \in DOMAIN rows, NEW verdict \in Judged,
           Stores(c, s, verdict)
    PROVE  /\ rows' \in Seq(RowType) /\ Len(rows') = Len(rows) /\ DOMAIN rows' = DOMAIN rows
           /\ \A t \in DOMAIN rows :
                 /\ rows'[t] \in RowType
                 /\ rows'[t].user = rows[t].user /\ rows'[t].problem = rows[t].problem
                 /\ t # s => rows'[t] = rows[t]
           /\ rows'[s].status = verdict
<1>1. /\ rows \in Seq(RowType) /\ Len(rows) \in Nat /\ DOMAIN rows = 1..Len(rows)
      /\ rows[s] \in RowType
  BY RowFacts
<1>2. rows' = [rows EXCEPT ![s].status = verdict]
  BY DEF Stores
<1>3. PICK new : new = [rows[s] EXCEPT !.status = verdict]
  OBVIOUS
<1>4. /\ new \in RowType /\ new.user = rows[s].user /\ new.problem = rows[s].problem
      /\ new.status = verdict
  BY <1>1, <1>3 DEF RowType
<1>5. rows' = [rows EXCEPT ![s] = new]
  BY <1>2, <1>3
<1>6. /\ rows' \in Seq(RowType) /\ Len(rows') = Len(rows)
      /\ \A t \in 1..Len(rows) : rows'[t] = IF t = s THEN new ELSE rows[t]
  BY <1>1, <1>4, <1>5, ExceptSeq
<1>7. DOMAIN rows' = 1..Len(rows')
  BY <1>6, LenProperties
<1>8. \A t \in DOMAIN rows : rows[t] \in RowType
  BY RowFacts
<1> QED BY <1>1, <1>4, <1>6, <1>7, <1>8

LEMMA StoreJobs ==
    ASSUME JobInv, NEW c \in Consumers, NEW s \in DOMAIN rows, NEW verdict \in Judged,
           Stores(c, s, verdict), ContestTypeOK'
    PROVE  JobInv'
<1> DEFINE new == [Idle EXCEPT !.pc = "meta", !.row = s]
<1>1. s \in 1..MaxRows /\ TypeOK
  BY RowFacts DEF JobInv
<1>2. /\ rows' \in Seq(RowType) /\ Len(rows') = Len(rows) /\ DOMAIN rows' = DOMAIN rows
      /\ \A t \in DOMAIN rows : t # s => rows'[t] = rows[t]
      /\ rows'[s].status = verdict
  BY <1>1, StoredRows
<1>3. new \in Job /\ new.pc = "meta" /\ new.row = s
  <2>1. s \in 0..MaxRows
    BY <1>1, ScoreAssumption
  <2>2. PICK j \in Job : j = Idle
    BY IdleType
  <2>3. [j EXCEPT !.pc = "meta", !.row = s] \in Job
    BY <2>1 DEF Job
  <2>4. DOMAIN j = {"pc", "row", "fails", "score"}
    BY DEF Job
  <2> QED BY <2>2, <2>3, <2>4
<1>4. job \in [Consumers -> Job] /\ job' = [job EXCEPT ![c] = new]
  BY JobFacts DEF Stores
<1> HIDE DEF new
<1>5. job' \in [Consumers -> Job] /\ job'[c] = new /\ \A d \in Consumers : d # c => job'[d] = job[d]
  BY <1>3, <1>4
<1>6. upsets' \subseteq {"order", "race", "fault"}
  BY <1>1 DEF TypeOK, Stores
<1>7. TypeOK'
  BY <1>1, <1>2, <1>5, <1>6 DEF TypeOK, BoardTypeOK, ContestTypeOK, Stores, redisVars, RowType
<1>8. \A d \in Consumers : Busy(d) => job[d].row # s
  BY DEF JobInv, JobOK, Stores
<1>9. ASSUME NEW d \in Consumers PROVE JobOK(d)'
  <2>1. CASE d = c
    <3>1. rows'[s].status # "PENDING"
      BY <1>2 DEF Judged
    <3>2. job'[d] = new
      BY <1>5, <2>1
    <3> QED BY <1>2, <1>3, <3>1, <3>2 DEF JobOK, Busy
  <2>2. CASE d # c
    <3>1. job'[d] = job[d] /\ JobOK(d)
      BY <1>5, <2>2 DEF JobInv
    <3>2. Busy(d) => rows'[job[d].row] = rows[job[d].row] /\ job[d].row \in DOMAIN rows
      BY <1>2, <1>8, <3>1 DEF JobOK
    <3> QED BY <1>2, <3>1, <3>2 DEF JobOK, Busy
  <2> QED BY <2>1, <2>2
<1>10. ASSUME NEW d \in Consumers, NEW e \in Consumers, d # e, Busy(d)', Busy(e)'
       PROVE  job'[d].row # job'[e].row
  <2>1. CASE d # c /\ e # c
    BY <1>5, <1>10, <2>1 DEF JobInv, Busy
  <2>2. CASE d = c
    BY <1>3, <1>5, <1>8, <1>10, <2>2 DEF Busy
  <2>3. CASE e = c
    BY <1>3, <1>5, <1>8, <1>10, <2>3 DEF Busy
  <2> QED BY <2>1, <2>2, <2>3
<1> QED BY <1>7, <1>9, <1>10 DEF JobInv

\* A consumer's next state and the board fit the types.
LEMMA ConsumerTypes ==
    ASSUME TypeOK, NEW c \in Consumers, UNCHANGED rows, ContestTypeOK', BoardTypeOK',
           NEW state \in Job, job' = [job EXCEPT ![c] = state],
           upsets' \in {upsets, upsets \cup {"fault"}}
    PROVE  TypeOK'
<1>1. job' \in [Consumers -> Job]
  BY DEF TypeOK
<1>2. upsets' \subseteq {"order", "race", "fault"}
  BY DEF TypeOK
<1> QED BY <1>1, <1>2 DEF TypeOK, ContestTypeOK

LEMMA ScoreType ==
    ASSUME NEW stat \in Stats
    PROVE  Score(stat) \in Int
<1>1. PICK i \in Nat, j \in Nat : i = stat.solvedCount /\ j = stat.totalPenaltySeconds
  BY DEF Stats
<1> QED BY <1>1 DEF Score, SOLVED_SCORE_WEIGHT

LEMMA JobStep ==
    ASSUME JobInv, [Next]_vars
    PROVE  JobInv' /\ BoardStep
<1>1. TypeOK /\ BoardTypeOK /\ job \in [Consumers -> Job]
  BY JobFacts DEF JobInv, TypeOK
<1>2. ContestTypeOK' /\ BoardStep
  BY <1>1, ContestTypeStep, StepEffects
<1>3. Idle \in Job
  BY IdleType
<1> SUFFICES JobInv'
  BY <1>2
<1>4. CASE Quiet
  <2>1. TypeOK'
    BY <1>1, <1>2, <1>4 DEF TypeOK, ContestTypeOK, BoardTypeOK, Quiet, redisVars
  <2>2. \A c \in Consumers : JobOK(c)' /\ (Busy(c)' <=> Busy(c)) /\ job'[c] = job[c]
    BY <1>4 DEF JobInv, JobOK, Busy, Quiet
  <2> QED BY <2>1, <2>2 DEF JobInv
<1>5. ASSUME NEW u \in Users, NEW p \in Problems, Submits(u, p) PROVE JobInv'
  BY <1>2, <1>5, SubmitJobs
<1>6. ASSUME NEW c \in Consumers, NEW s \in DOMAIN rows, NEW verdict \in Judged,
             Stores(c, s, verdict)
      PROVE  JobInv'
  BY <1>2, <1>6, StoreJobs
<1>7. ASSUME NEW c \in Consumers, NEW state, Moves(c, state) PROVE JobInv'
  <2>1. Busy(c) /\ UNCHANGED rows /\ BoardTypeOK' /\ job' = [job EXCEPT ![c] = state]
    BY <1>1, <1>7 DEF Moves, redisVars, BoardTypeOK
  <2>2. CASE Leaves(c, state)
    <3>1. state = Idle
      BY <2>2 DEF Leaves
    <3>2. TypeOK'
      BY <1>1, <1>2, <1>3, <1>7, <2>1, <3>1, ConsumerTypes DEF Moves
    <3> QED BY <2>1, <3>1, <3>2, JobMoves
  <2>3. CASE Reads(c, state)
    <3>1. /\ state \in Job /\ state.pc # "idle" /\ state.row = job[c].row
          /\ state.pc \in {"fails", "solve", "post"} => rows[job[c].row].status = "ACCEPTED"
          /\ state.pc = "fail" => rows[job[c].row].status = "REJECTED"
      BY <2>1, <2>3, ReadTypes
    <3>2. TypeOK'
      BY <1>1, <1>2, <1>7, <2>1, <3>1, ConsumerTypes DEF Moves
    <3> QED BY <2>1, <3>1, <3>2, JobMoves
  <2> QED BY <1>7, <2>2, <2>3 DEF Moves
<1>8. ASSUME NEW c \in Consumers, NEW state, Solves(c, state) PROVE JobInv'
  <2>1. Busy(c) /\ job[c].fails \in Nat /\ rows[job[c].row].status = "ACCEPTED"
    BY <1>1, <1>8, JobFacts DEF Solves, Busy, JobOK, Job
  <2>2. User(c) \in Users /\ Problem(c) \in Problems /\ stats \in [Users -> Stats]
    BY <2>1, JobFacts
  <2>3. /\ CountSolved(User(c), Problem(c), job[c].fails) /\ UNCHANGED rows
        /\ job' = [job EXCEPT ![c] = state] /\ upsets' \in {upsets, upsets \cup {"fault"}}
    BY <1>8 DEF Solves
  <2>4. OnlyOf(User(c))
    BY <2>1, <2>2, <2>3, SolvedBlock
  <2>5. BoardTypeOK'
    BY <1>1, <2>2, <2>3, <2>4 DEF BoardTypeOK, CountSolved, OnlyOf
  <2>6. /\ state \in Job
        /\ \/ state = Idle
           \/ state.pc = "post" /\ state.row = job[c].row
    <3>1. CASE state = Idle
      BY <1>3, <3>1
    <3>2. CASE state = [job[c] EXCEPT !.pc = "post", !.score = Score(stats'[User(c)])]
      <4>1. Score(stats'[User(c)]) \in Int
        BY <2>2, <2>4, ScoreType DEF OnlyOf
      <4>2. job[c] \in Job
        BY <1>1
      <4> QED BY <3>2, <4>1, <4>2 DEF Job
    <3> QED BY <1>8, <3>1, <3>2 DEF Solves
  <2>7. TypeOK'
    BY <1>1, <1>2, <2>3, <2>5, <2>6, ConsumerTypes
  <2>8. \/ state = Idle
        \/ /\ state.pc # "idle" /\ state.row = job[c].row
           /\ state.pc \in {"fails", "solve", "post"} => rows[job[c].row].status = "ACCEPTED"
           /\ state.pc = "fail" => rows[job[c].row].status = "REJECTED"
    BY <2>1, <2>6
  <2> QED BY <2>1, <2>3, <2>7, <2>8, JobMoves
<1>9. ASSUME NEW c \in Consumers, CountsFail(c) PROVE JobInv'
  <2>1. Busy(c)
    BY <1>9 DEF CountsFail, Busy
  <2>2. User(c) \in Users /\ Problem(c) \in Problems /\ stats \in [Users -> Stats]
    BY <2>1, JobFacts
  <2>3. /\ CountFail(User(c), Problem(c)) /\ UNCHANGED rows
        /\ job' = [job EXCEPT ![c] = Idle] /\ upsets' \in {upsets, upsets \cup {"fault"}}
    BY <1>9 DEF CountsFail, Done
  <2>4. OnlyOf(User(c))
    BY <2>2, <2>3, FailedBlock
  <2>5. BoardTypeOK'
    BY <1>1, <2>2, <2>3, <2>4 DEF BoardTypeOK, CountFail, OnlyOf
  <2>6. TypeOK'
    BY <1>1, <1>2, <1>3, <2>3, <2>5, ConsumerTypes
  <2> QED BY <2>1, <2>3, <2>6, JobMoves
<1>10. ASSUME NEW c \in Consumers, Posts(c) PROVE JobInv'
  <2>1. Busy(c) /\ job[c].score \in Int
    BY <1>1, <1>10 DEF Posts, Busy, Job
  <2>2. User(c) \in Users
    BY <2>1, JobFacts
  <2>3. SetScore(User(c), job[c].score) /\ UNCHANGED <<rows, upsets>>
        /\ job' = [job EXCEPT ![c] = Idle]
    BY <1>10 DEF Posts, Done
  <2>4. BoardTypeOK'
    BY <1>1, <2>1, <2>2, <2>3 DEF BoardTypeOK, SetScore
  <2>5. TypeOK'
    BY <1>1, <1>2, <1>3, <2>3, <2>4, ConsumerTypes
  <2> QED BY <2>1, <2>3, <2>5, JobMoves
<1> QED BY <1>2, <1>4, <1>5, <1>6, <1>7, <1>8, <1>9, <1>10 DEF BoardStep

LEMMA JobInit ==
    ASSUME Init
    PROVE  JobInv
<1>1. Idle \in Job /\ Idle.pc = "idle"
  BY IdleType
<1>2. NoStats \in Stats
  BY DEF NoStats, Stats
<1>3. BoardTypeOK
  BY <1>2 DEF Init, EmptyBoard, BoardTypeOK
<1>4. rows \in Seq(RowType) /\ Len(rows) = 0 /\ DOMAIN rows = {}
  BY DEF Init
<1>5. TypeOK
  BY <1>1, <1>3, <1>4, ScoreAssumption DEF Init, TypeOK, RowType
<1>6. \A c \in Consumers : job[c] = Idle /\ ~ Busy(c)
  BY <1>1 DEF Init, Busy
<1>7. \A c \in Consumers : JobOK(c)
  BY <1>1, <1>6 DEF JobOK
<1> QED BY <1>5, <1>6, <1>7 DEF JobInv

(* Rows, jobs, hashes and results are well-formed.                         *)
THEOREM ScoreTypes == Spec => []TypeOK
<1>1. JobInv /\ [Next]_vars => JobInv'
  BY JobStep
<1>2. Init => JobInv
  BY JobInit
<1>3. JobInv => TypeOK
  BY DEF JobInv
<1> QED BY <1>1, <1>2, <1>3, PTL DEF Spec

(* A result stands: no step changes that of a contest that was finished.   *)
THEOREM ResultIsKept == Spec => ResultStands
<1> DEFINE A == status = "FINISHED" =>
                   /\ status' = status
                   /\ \A u \in Users : participants[u] # NotRegistered
                                            => participants'[u] = participants[u]
<1>1. ASSUME TypeOK, [Next]_vars PROVE A
  <2>1. CASE UNCHANGED <<status, participants>>
    BY <2>1
  <2>2. CASE Next
    <3>1. CASE Clock
      BY <2>1, <3>1 DEF Clock
    <3>2. CASE sweepContestLifecycle
      BY <3>2 DEF sweepContestLifecycle, Start, Finish
    <3>3. ASSUME NEW u \in Users, registerForContest(u) PROVE A
      <4>1. participants \in [Users -> Participant \cup {NotRegistered}]
        BY <1>1 DEF TypeOK
      <4>2. CASE CheckWindow(u)
        BY <2>1, <4>2 DEF CheckWindow
      <4>3. CASE InsertParticipant(u)
        BY <4>1, <4>3 DEF InsertParticipant
      <4> QED BY <3>3, <4>2, <4>3 DEF registerForContest
    <3>4. CASE \E u \in Users, p \in Problems : Submit(u, p)
      BY <2>1, <3>4 DEF Submit, contestVars
    <3>5. CASE \E c \in Consumers :
                  \E s \in DOMAIN rows, verdict \in Judged : Store(c, s, verdict)
      BY <2>1, <3>5 DEF Store, contestVars
    <3>6. CASE \E c \in Consumers : ScoreStep(c)
      BY <2>1, <3>6 DEF ScoreStep, getContestMeta, ReadStatus, ReadFails, Solve, PostScore,
                        Fail, RedisFails, Crash, contestVars
    <3> HIDE DEF A
    <3> QED BY <2>2, <3>1, <3>2, <3>3, <3>4, <3>5, <3>6 DEF Next
  <2> QED BY <1>1, <2>1, <2>2 DEF vars, contestVars
<1>2. Spec => [][A]_vars
  <2>1. Spec => [][Next]_vars
    BY DEF Spec
  <2>2. TypeOK /\ [Next]_vars => [A]_vars
    BY <1>1
  <2> QED BY <2>1, <2>2, ScoreTypes, PTL
<1> QED BY <1>2 DEF ResultStands

-----------------------------------------------------------------------------
(* What the live board credits is backed by rows, whatever fails.          *)

\* A consumer goes on to another state.
Turns(c, state) ==
    Busy(c) /\ UNCHANGED rows /\ job' = [job EXCEPT ![c] = state]

\* A consumer is through with the hash, or its result has not reached it yet.
Through(state) == state.pc \in {"idle", "post"}
Scoring(c) == ~ Through(job[c])

\* The rows that were scored, or given up.
Counted(u, p, v) ==
    {s \in RowsOf(u, p, v) : \A c \in Consumers : Scoring(c) => job[c].row # s}

LEMMA InRowsOf ==
    ASSUME TypeOK, NEW s \in DOMAIN rows, NEW u, NEW p, NEW v
    PROVE  s \in RowsOf(u, p, v)
              <=> rows[s].user = u /\ rows[s].problem = p /\ rows[s].status = v
<1>1. PICK row \in RowType : row = rows[s]
  BY RowFacts
<1>2. row.user = u /\ row.problem = p /\ row.status = v
         => row = [user |-> u, problem |-> p, status |-> v]
  BY DEF RowType
<1> QED BY <1>1, <1>2 DEF RowsOf

LEMMA CountedFinite ==
    ASSUME TypeOK, NEW u, NEW p, NEW v
    PROVE  /\ IsFiniteSet(RowsOf(u, p, v)) /\ IsFiniteSet(Counted(u, p, v))
           /\ Counted(u, p, v) \subseteq RowsOf(u, p, v)
           /\ Cardinality(RowsOf(u, p, v)) \in Nat /\ Cardinality(Counted(u, p, v)) \in Nat
           /\ Cardinality(Counted(u, p, v)) <= Cardinality(RowsOf(u, p, v))
<1>1. Counted(u, p, v) \in SUBSET RowsOf(u, p, v)
  BY DEF Counted
<1> QED BY <1>1, RowsOfFinite, FS_Subset, FS_CardinalityType

(* A row counts as soon as its consumer is through with the hash.          *)
LEMMA CountedMoves ==
    ASSUME JobInv, NEW c \in Consumers, NEW state, Turns(c, state),
           ~ Through(state) => Scoring(c) /\ state.row = job[c].row,
           NEW u, NEW p, NEW v
    PROVE  /\ RowsOf(u, p, v)' = RowsOf(u, p, v)
           /\ Counted(u, p, v)' =
                 IF Scoring(c) /\ Through(state)
                 THEN Counted(u, p, v) \cup (RowsOf(u, p, v) \cap {job[c].row})
                 ELSE Counted(u, p, v)
           /\ Scoring(c) => job[c].row \notin Counted(u, p, v)
<1> USE DEF Turns
<1>1. /\ job \in [Consumers -> Job] /\ job'[c] = state
      /\ \A d \in Consumers : d # c => job'[d] = job[d]
  BY JobFacts
<1>2. RowsOf(u, p, v)' = RowsOf(u, p, v)
  BY DEF RowsOf
<1>3. Scoring(c)' <=> ~ Through(state)
  BY <1>1 DEF Through, Scoring
<1>4. \A d \in Consumers : d # c => (Scoring(d)' <=> Scoring(d)) /\ job'[d].row = job[d].row
  BY <1>1 DEF Through, Scoring
<1>5. \A d \in Consumers : d # c /\ Scoring(d) => job[d].row # job[c].row
  BY DEF JobInv, Through, Scoring, Busy
<1>6. Scoring(c) => job[c].row \notin Counted(u, p, v)
  BY DEF Counted
<1>7. CASE Scoring(c) /\ Through(state)
  <2>1. ASSUME NEW s \in RowsOf(u, p, v)
        PROVE  (\A d \in Consumers : Scoring(d)' => job'[d].row # s)
                 <=> s = job[c].row \/ \A d \in Consumers : Scoring(d) => job[d].row # s
    BY <1>3, <1>4, <1>5, <1>7
  <2>2. Counted(u, p, v)' = {s \in RowsOf(u, p, v) :
            \A d \in Consumers : Scoring(d)' => job'[d].row # s}
    BY <1>2 DEF Counted
  <2>3. Counted(u, p, v)' = {s \in RowsOf(u, p, v) :
            s = job[c].row \/ \A d \in Consumers : Scoring(d) => job[d].row # s}
    BY <2>1, <2>2
  <2> QED BY <1>2, <1>6, <1>7, <2>3 DEF Counted
<1>8. CASE ~ (Scoring(c) /\ Through(state))
  <2>1. \A d \in Consumers : /\ Scoring(d)' <=> Scoring(d)
                             /\ Scoring(d) => job'[d].row = job[d].row
    BY <1>1, <1>3, <1>4, <1>8
  <2>2. Counted(u, p, v)' = {s \in RowsOf(u, p, v) :
            \A d \in Consumers : Scoring(d)' => job'[d].row # s}
    BY <1>2 DEF Counted
  <2>3. Counted(u, p, v)' = Counted(u, p, v)
    BY <2>1, <2>2 DEF Counted
  <2> QED BY <1>2, <1>6, <1>8, <2>3
<1> QED BY <1>7, <1>8

(* A submission counts for nothing before it is judged, and not at once    *)
(* when its verdict is stored.                                             *)
LEMMA CountedKept ==
    ASSUME JobInv, JobInv', NEW u, NEW p, NEW v \in Judged,
           \/ Quiet
           \/ \E w \in Users, q \in Problems : Submits(w, q)
           \/ \E c \in Consumers, s \in DOMAIN rows, verdict \in Judged : Stores(c, s, verdict)
    PROVE  /\ RowsOf(u, p, v) \subseteq RowsOf(u, p, v)'
           /\ Counted(u, p, v)' = Counted(u, p, v)
<1> USE DEF JobInv
<1>1. CASE Quiet
  BY <1>1 DEF Quiet, RowsOf, Counted, Through, Scoring
<1>2. ASSUME NEW w \in Users, NEW q \in Problems, Submits(w, q)
      PROVE  /\ RowsOf(u, p, v) \subseteq RowsOf(u, p, v)'
             /\ Counted(u, p, v)' = Counted(u, p, v)
  <2> DEFINE new == [user |-> w, problem |-> q, status |-> "PENDING"]
  <2>1. /\ rows \in Seq(RowType) /\ Len(rows) \in Nat /\ DOMAIN rows = 1..Len(rows)
    BY RowFacts
  <2>2. new \in RowType /\ new.status \notin Judged
    BY DEF RowType, Judged
  <2>3. rows' = Append(rows, new)
    BY <1>2 DEF Submits
  <2>4. new # [user |-> u, problem |-> p, status |-> v]
    BY <2>2
  <2> HIDE DEF new
  <2>5. /\ Len(rows') = Len(rows) + 1 /\ rows' \in Seq(RowType)
        /\ \A s \in 1..Len(rows) : rows'[s] = rows[s]
        /\ rows'[Len(rows) + 1] = new
    BY <2>1, <2>2, <2>3, AppendProperties
  <2>6. DOMAIN rows' = 1..(Len(rows) + 1)
    BY <2>5, LenProperties
  <2>7. RowsOf(u, p, v)' = RowsOf(u, p, v)
    BY <2>1, <2>4, <2>5, <2>6 DEF RowsOf
  <2>8. job' = job
    BY <1>2 DEF Submits
  <2> QED BY <2>7, <2>8 DEF Counted, Through, Scoring
<1>3. ASSUME NEW c \in Consumers, NEW s \in DOMAIN rows, NEW verdict \in Judged,
             Stores(c, s, verdict)
      PROVE  /\ RowsOf(u, p, v) \subseteq RowsOf(u, p, v)'
             /\ Counted(u, p, v)' = Counted(u, p, v)
  <2>1. /\ DOMAIN rows' = DOMAIN rows
        /\ \A t \in DOMAIN rows : t # s => rows'[t] = rows[t]
    BY <1>3, StoredRows
  <2>2. s \notin RowsOf(u, p, v)
    BY <1>3, InRowsOf DEF Stores, Judged
  <2>3. RowsOf(u, p, v) = {t \in RowsOf(u, p, v)' : t # s}
    BY <2>1, <2>2 DEF RowsOf
  <2>4. job' = [job EXCEPT ![c] = [Idle EXCEPT !.pc = "meta", !.row = s]]
    BY <1>3 DEF Stores
  <2>5. /\ job'[c].pc = "meta" /\ job'[c].row = s
        /\ \A d \in Consumers : d # c => job'[d] = job[d]
    BY <2>4, JobFacts DEF Idle
  <2>6. ~ Scoring(c) /\ Scoring(c)'
    BY <1>3, <2>5 DEF Stores, Through, Scoring, Busy
  <2>7. ASSUME NEW t, t # s
        PROVE  (\A d \in Consumers : Scoring(d)' => job'[d].row # t)
                  <=> \A d \in Consumers : Scoring(d) => job[d].row # t
    <3>1. \A d \in Consumers : d # c => (Scoring(d)' <=> Scoring(d)) /\ job'[d].row = job[d].row
      BY <2>5 DEF Through, Scoring
    <3> QED BY <2>5, <2>6, <2>7, <3>1
  <2>8. s \notin Counted(u, p, v)'
    BY <2>5, <2>6 DEF Counted
  <2>9. Counted(u, p, v)' = {t \in RowsOf(u, p, v)' : t # s /\
                               \A d \in Consumers : Scoring(d)' => job'[d].row # t}
    BY <2>8 DEF Counted
  <2>10. Counted(u, p, v) = {t \in RowsOf(u, p, v) :
                               \A d \in Consumers : Scoring(d) => job[d].row # t}
    BY DEF Counted
  <2> QED BY <2>3, <2>7, <2>9, <2>10
<1> QED BY <1>1, <1>2, <1>3

\* The row of a consumer.
LEMMA OwnRow ==
    ASSUME JobInv, NEW c \in Consumers, Busy(c), NEW u, NEW p, NEW v
    PROVE  job[c].row \in RowsOf(u, p, v)
              <=> u = User(c) /\ p = Problem(c) /\ v = rows[job[c].row].status
<1>1. TypeOK /\ job[c].row \in DOMAIN rows
  BY JobFacts DEF JobInv
<1> QED BY <1>1, InRowsOf DEF User, Problem

(* How the hash and the rows that count change together.                   *)
LEMMA MovesCount ==
    ASSUME JobInv, NEW c \in Consumers, NEW state, Moves(c, state), NEW u, NEW p, NEW v
    PROVE  /\ RowsOf(u, p, v)' = RowsOf(u, p, v)
           /\ Reads(c, state) => Counted(u, p, v)' = Counted(u, p, v)
           /\ state = Idle =>
                 Counted(u, p, v)' =
                    IF Scoring(c) THEN Counted(u, p, v) \cup (RowsOf(u, p, v) \cap {job[c].row})
                    ELSE Counted(u, p, v)
<1>1. Busy(c) /\ Turns(c, state)
  BY DEF Moves, Turns
<1>2. CASE state = Idle
  <2>1. state.pc = "idle" /\ Through(state)
    BY <1>2, IdleType DEF Through
  <2>1a. ~ Reads(c, state)
    BY <1>1, <2>1, ReadTypes, Zenon
  <2>2. /\ RowsOf(u, p, v)' = RowsOf(u, p, v)
        /\ Counted(u, p, v)' =
              IF Scoring(c) /\ Through(state)
              THEN Counted(u, p, v) \cup (RowsOf(u, p, v) \cap {job[c].row})
              ELSE Counted(u, p, v)
    BY <1>1, <2>1, CountedMoves
  <2> QED BY <2>1, <2>1a, <2>2
<1>3. CASE Reads(c, state)
  <2>1. state.pc # "idle" /\ state.pc # "post" /\ state.row = job[c].row
    BY <1>1, <1>3, ReadTypes, Zenon
  <2>2. Scoring(c) /\ ~ Through(state)
    BY <1>3, <2>1 DEF Reads, Through, Scoring
  <2>3. /\ RowsOf(u, p, v)' = RowsOf(u, p, v)
        /\ Counted(u, p, v)' = Counted(u, p, v)
    BY <1>1, <2>1, <2>2, CountedMoves
  <2> QED BY <2>1, <2>3, IdleType
<1> QED BY <1>2, <1>3 DEF Moves, Leaves

LEMMA SolvesCount ==
    ASSUME JobInv, NEW c \in Consumers, NEW state, Solves(c, state), NEW u, NEW p, NEW v
    PROVE  /\ Busy(c) /\ User(c) \in Users /\ Problem(c) \in Problems /\ job[c].fails \in Nat
           /\ SolvedIn(stats[User(c)], stats'[User(c)], Problem(c), job[c].fails)
           /\ OnlyOf(User(c))
           /\ rows[job[c].row].status = "ACCEPTED"
           /\ RowsOf(u, p, v)' = RowsOf(u, p, v)
           /\ Counted(u, p, v)' = IF u = User(c) /\ p = Problem(c) /\ v = "ACCEPTED"
                                  THEN Counted(u, p, v) \cup {job[c].row}
                                  ELSE Counted(u, p, v)
<1>1. /\ Busy(c) /\ Scoring(c) /\ Turns(c, state)
      /\ CountSolved(User(c), Problem(c), job[c].fails)
  BY DEF Solves, Busy, Through, Scoring, Turns
<1>2. /\ User(c) \in Users /\ Problem(c) \in Problems /\ stats \in [Users -> Stats]
      /\ job[c] \in Job /\ JobOK(c)
  BY <1>1, JobFacts
<1>3. job[c].fails \in Nat /\ rows[job[c].row].status = "ACCEPTED"
  BY <1>2 DEF Job, JobOK, Solves
<1>4. SolvedIn(stats[User(c)], stats'[User(c)], Problem(c), job[c].fails) /\ OnlyOf(User(c))
  BY <1>1, <1>2, <1>3, SolvedBlock
<1>5. Through(state)
  <2>1. DOMAIN job[c] = {"pc", "row", "fails", "score"}
    BY <1>2 DEF Job
  <2> QED BY <2>1, IdleType DEF Solves, Through
<1>6. /\ RowsOf(u, p, v)' = RowsOf(u, p, v)
      /\ Counted(u, p, v)' = Counted(u, p, v) \cup (RowsOf(u, p, v) \cap {job[c].row})
  BY <1>1, <1>5, CountedMoves
<1>7. RowsOf(u, p, v) \cap {job[c].row} =
         IF u = User(c) /\ p = Problem(c) /\ v = "ACCEPTED" THEN {job[c].row} ELSE {}
  BY <1>1, <1>3, OwnRow
<1> QED BY <1>1, <1>2, <1>3, <1>4, <1>6, <1>7

LEMMA FailsCount ==
    ASSUME JobInv, NEW c \in Consumers, CountsFail(c), NEW u, NEW p, NEW v
    PROVE  /\ Busy(c) /\ User(c) \in Users /\ Problem(c) \in Problems
           /\ FailedIn(stats[User(c)], stats'[User(c)], Problem(c)) /\ OnlyOf(User(c))
           /\ rows[job[c].row].status = "REJECTED"
           /\ RowsOf(u, p, v)' = RowsOf(u, p, v)
           /\ job[c].row \notin Counted(u, p, v)
           /\ Counted(u, p, v)' = IF u = User(c) /\ p = Problem(c) /\ v = "REJECTED"
                                  THEN Counted(u, p, v) \cup {job[c].row}
                                  ELSE Counted(u, p, v)
<1>1. /\ Busy(c) /\ Scoring(c) /\ Turns(c, Idle)
      /\ CountFail(User(c), Problem(c))
  BY DEF CountsFail, Busy, Through, Scoring, Done, Turns
<1>2. /\ User(c) \in Users /\ Problem(c) \in Problems /\ stats \in [Users -> Stats]
      /\ JobOK(c)
  BY <1>1, JobFacts
<1>3. rows[job[c].row].status = "REJECTED"
  BY <1>2 DEF JobOK, CountsFail
<1>4. FailedIn(stats[User(c)], stats'[User(c)], Problem(c)) /\ OnlyOf(User(c))
  BY <1>1, <1>2, FailedBlock
<1>5. /\ RowsOf(u, p, v)' = RowsOf(u, p, v) /\ job[c].row \notin Counted(u, p, v)
      /\ Counted(u, p, v)' = Counted(u, p, v) \cup (RowsOf(u, p, v) \cap {job[c].row})
  <2>1. Through(Idle)
    BY IdleType DEF Through
  <2> QED BY <1>1, <2>1, CountedMoves
<1>6. RowsOf(u, p, v) \cap {job[c].row} =
         IF u = User(c) /\ p = Problem(c) /\ v = "REJECTED" THEN {job[c].row} ELSE {}
  BY <1>1, <1>3, OwnRow
<1> QED BY <1>1, <1>2, <1>3, <1>4, <1>5, <1>6

LEMMA PostsCount ==
    ASSUME JobInv, NEW c \in Consumers, Posts(c), NEW u, NEW p, NEW v
    PROVE  /\ RowsOf(u, p, v)' = RowsOf(u, p, v) /\ Counted(u, p, v)' = Counted(u, p, v)
           /\ stats' = stats
<1>1. /\ Busy(c) /\ ~ Scoring(c) /\ Turns(c, Idle)
      /\ stats' = stats
  BY DEF Posts, Busy, Through, Scoring, Turns, Done, SetScore
<1>2. Through(Idle)
  BY IdleType DEF Through
<1> QED BY <1>1, <1>2, CountedMoves

Backed(u, p) ==
    /\ stats[u].status[p] = "AC" => RowsOf(u, p, "ACCEPTED") # {}
    /\ stats[u].fails[p] <= Cardinality(Counted(u, p, "REJECTED"))

CreditInv == JobInv /\ \A u \in Users, p \in Problems : Backed(u, p)

LEMMA IndicesFinite ==
    ASSUME NEW T, NEW r \in Seq(T), NEW S, S \subseteq DOMAIN r
    PROVE  IsFiniteSet(S) /\ Cardinality(S) \in Nat
<1>1. DOMAIN r = 1..Len(r) /\ Len(r) \in Nat
  BY LenProperties
<1>2. IsFiniteSet(DOMAIN r)
  BY <1>1, FS_Interval
<1> QED BY <1>2, FS_Subset, FS_CardinalityType

\* A hash that did not change stays backed: no row that counts is lost.
LEMMA BackedKept ==
    ASSUME JobInv, JobInv', NEW u \in Users, NEW p \in Problems, Backed(u, p),
           stats'[u].status[p] = stats[u].status[p], stats'[u].fails[p] = stats[u].fails[p],
           RowsOf(u, p, "ACCEPTED") \subseteq RowsOf(u, p, "ACCEPTED")',
           Counted(u, p, "REJECTED") \subseteq Counted(u, p, "REJECTED")'
    PROVE  Backed(u, p)'
<1>1. IsFiniteSet(Counted(u, p, "REJECTED")') /\ Cardinality(Counted(u, p, "REJECTED")) \in Nat
  <2>1. Cardinality(Counted(u, p, "REJECTED")) \in Nat
    BY CountedFinite DEF JobInv
  <2>2. rows' \in Seq(RowType)
    BY DEF JobInv, TypeOK, RowType
  <2>3. Counted(u, p, "REJECTED")' \subseteq DOMAIN rows'
    BY DEF Counted, RowsOf
  <2> QED BY <2>1, <2>2, <2>3, IndicesFinite
<1>2. /\ Cardinality(Counted(u, p, "REJECTED")) <= Cardinality(Counted(u, p, "REJECTED")')
      /\ Cardinality(Counted(u, p, "REJECTED")') \in Nat
  BY <1>1, FS_Subset, FS_CardinalityType
<1>3. stats[u].fails[p] \in Nat
  <2>1. stats[u] \in Stats
    BY DEF JobInv, TypeOK, BoardTypeOK
  <2> QED BY <2>1 DEF Stats
<1>4. (RowsOf(u, p, "ACCEPTED") # {})' <=> RowsOf(u, p, "ACCEPTED")' # {}
  OBVIOUS
<1> QED BY <1>1, <1>2, <1>3 DEF Backed

LEMMA CreditStep ==
    ASSUME CreditInv, JobInv', BoardStep
    PROVE  CreditInv'
<1>1. JobInv /\ stats \in [Users -> Stats]
  BY DEF CreditInv, JobInv, TypeOK, BoardTypeOK
<1> SUFFICES ASSUME NEW u \in Users, NEW p \in Problems
             PROVE  Backed(u, p)'
  BY DEF CreditInv
<1>2. Backed(u, p) /\ stats[u] \in Stats
  BY <1>1 DEF CreditInv
<1>3. "ACCEPTED" \in Judged /\ "REJECTED" \in Judged
  BY DEF Judged
<1>4. CASE \/ Quiet
           \/ \E w \in Users, q \in Problems : Submits(w, q)
           \/ \E c \in Consumers, s \in DOMAIN rows, verdict \in Judged : Stores(c, s, verdict)
  <2>1. stats' = stats
    BY <1>4 DEF Quiet, Submits, Stores, redisVars
  <2>2. /\ RowsOf(u, p, "ACCEPTED") \subseteq RowsOf(u, p, "ACCEPTED")'
        /\ Counted(u, p, "REJECTED")' = Counted(u, p, "REJECTED")
    BY <1>1, <1>3, <1>4, CountedKept
  <2> QED BY <1>1, <1>2, <2>1, <2>2, BackedKept
<1>5. ASSUME NEW c \in Consumers, NEW state, Moves(c, state) PROVE Backed(u, p)'
  <2>1. stats' = stats
    BY <1>5 DEF Moves, redisVars
  <2>2. /\ RowsOf(u, p, "ACCEPTED")' = RowsOf(u, p, "ACCEPTED")
        /\ Counted(u, p, "REJECTED") \subseteq Counted(u, p, "REJECTED")'
    <3>1. Reads(c, state) \/ state = Idle
      BY <1>5 DEF Moves, Leaves
    <3> QED BY <1>1, <1>5, <3>1, MovesCount
  <2> QED BY <1>1, <1>2, <2>1, <2>2, BackedKept
<1>6. ASSUME NEW c \in Consumers, NEW state, Solves(c, state) PROVE Backed(u, p)'
  <2>1. /\ Busy(c) /\ SolvedIn(stats[User(c)], stats'[User(c)], Problem(c), job[c].fails)
        /\ OnlyOf(User(c)) /\ User(c) \in Users /\ Problem(c) \in Problems
        /\ rows[job[c].row].status = "ACCEPTED"
        /\ RowsOf(u, p, "ACCEPTED")' = RowsOf(u, p, "ACCEPTED")
    BY <1>1, <1>6, SolvesCount
  <2>2. Counted(u, p, "REJECTED")' = Counted(u, p, "REJECTED")
    BY <1>1, <1>6, SolvesCount
  <2>3. CASE u = User(c) /\ p = Problem(c)
    <3>1. job[c].row \in RowsOf(u, p, "ACCEPTED")
      BY <1>1, <2>1, <2>3, OwnRow
    <3>2. stats'[u].fails = stats[u].fails
      BY <2>1, <2>3 DEF SolvedIn
    <3>3. RowsOf(u, p, "ACCEPTED")' # {}
      BY <2>1, <3>1
    <3>4. stats'[u].fails[p] <= Cardinality(Counted(u, p, "REJECTED"))
      BY <1>2, <3>2 DEF Backed
    <3> QED BY <2>2, <3>3, <3>4 DEF Backed
  <2>4. CASE ~ (u = User(c) /\ p = Problem(c))
    <3>1. stats'[u].status[p] = stats[u].status[p] /\ stats'[u].fails[p] = stats[u].fails[p]
      <4>1. CASE u = User(c)
        <5>1. /\ stats'[u].status = [stats[u].status EXCEPT ![Problem(c)] = "AC"]
              /\ stats'[u].fails = stats[u].fails
          BY <2>1, <4>1 DEF SolvedIn
        <5>2. stats[u].status \in [Problems -> {"", "AC"}] /\ p # Problem(c)
          BY <1>2, <2>4, <4>1 DEF Stats
        <5> QED BY <5>1, <5>2
      <4>2. CASE u # User(c)
        BY <2>1, <4>2 DEF OnlyOf
      <4> QED BY <4>1, <4>2
    <3> QED BY <1>1, <1>2, <2>1, <2>2, <3>1, BackedKept
  <2> QED BY <2>3, <2>4
<1>7. ASSUME NEW c \in Consumers, CountsFail(c) PROVE Backed(u, p)'
  <2>1. /\ Busy(c) /\ FailedIn(stats[User(c)], stats'[User(c)], Problem(c))
        /\ OnlyOf(User(c)) /\ User(c) \in Users /\ Problem(c) \in Problems
        /\ RowsOf(u, p, "ACCEPTED")' = RowsOf(u, p, "ACCEPTED")
    BY <1>1, <1>7, FailsCount
  <2>2. /\ job[c].row \notin Counted(u, p, "REJECTED")
        /\ Counted(u, p, "REJECTED")' = IF u = User(c) /\ p = Problem(c)
                                        THEN Counted(u, p, "REJECTED") \cup {job[c].row}
                                        ELSE Counted(u, p, "REJECTED")
    BY <1>1, <1>7, FailsCount
  <2>3. CASE u = User(c) /\ p = Problem(c)
    <3>1. /\ stats'[u].status = stats[u].status
          /\ stats'[u].fails = [stats[u].fails EXCEPT ![p] = stats[u].fails[p] + 1]
      BY <2>1, <2>3 DEF FailedIn
    <3>2. stats[u].fails \in [Problems -> Nat]
      BY <1>2 DEF Stats
    <3>3. /\ IsFiniteSet(Counted(u, p, "REJECTED"))
          /\ Cardinality(Counted(u, p, "REJECTED")) \in Nat
      BY <1>1, CountedFinite DEF JobInv
    <3>4. Cardinality(Counted(u, p, "REJECTED")') = Cardinality(Counted(u, p, "REJECTED")) + 1
      <4>1. /\ Counted(u, p, "REJECTED")' = Counted(u, p, "REJECTED") \cup {job[c].row}
            /\ job[c].row \notin Counted(u, p, "REJECTED")
        BY <2>2, <2>3
      <4> QED BY <3>3, <4>1, CardOneMore
    <3>5. stats'[u].fails[p] = stats[u].fails[p] + 1 /\ stats[u].fails[p] \in Nat
      BY <3>1, <3>2
    <3>6. stats'[u].fails[p] <= Cardinality(Counted(u, p, "REJECTED")')
      <4>1. stats[u].fails[p] <= Cardinality(Counted(u, p, "REJECTED"))
        BY <1>2 DEF Backed
      <4> HIDE DEF Counted
      <4>2. PICK i \in Nat, j \in Nat :
                i = stats[u].fails[p] /\ j = Cardinality(Counted(u, p, "REJECTED"))
        BY <3>3, <3>5
      <4>3. i + 1 <= j + 1
        BY <4>1, <4>2
      <4> QED BY <3>4, <3>5, <4>2, <4>3
    <3> QED BY <1>2, <2>1, <3>1, <3>6 DEF Backed
  <2>4. CASE ~ (u = User(c) /\ p = Problem(c))
    <3>1. stats'[u].status[p] = stats[u].status[p] /\ stats'[u].fails[p] = stats[u].fails[p]
      <4>1. CASE u = User(c)
        <5>1. /\ stats'[u].status = stats[u].status
              /\ stats'[u].fails = [stats[u].fails EXCEPT
                     ![Problem(c)] = stats[u].fails[Problem(c)] + 1]
          BY <2>1, <4>1 DEF FailedIn
        <5>2. stats[u].fails \in [Problems -> Nat] /\ p # Problem(c)
          BY <1>2, <2>4, <4>1 DEF Stats
        <5> QED BY <5>1, <5>2
      <4>2. CASE u # User(c)
        BY <2>1, <4>2 DEF OnlyOf
      <4> QED BY <4>1, <4>2
    <3>2. Counted(u, p, "REJECTED")' = Counted(u, p, "REJECTED")
      BY <2>2, <2>4
    <3> QED BY <1>1, <1>2, <2>1, <3>1, <3>2, BackedKept
  <2> QED BY <2>3, <2>4
<1>8. ASSUME NEW c \in Consumers, Posts(c) PROVE Backed(u, p)'
  <2>1. /\ RowsOf(u, p, "ACCEPTED")' = RowsOf(u, p, "ACCEPTED") /\ stats' = stats
        /\ Counted(u, p, "REJECTED")' = Counted(u, p, "REJECTED")
    BY <1>1, <1>8, PostsCount
  <2> QED BY <1>1, <1>2, <2>1, BackedKept
<1> QED BY <1>4, <1>5, <1>6, <1>7, <1>8 DEF BoardStep

LEMMA CreditInit ==
    ASSUME Init
    PROVE  CreditInv
<1>1. JobInv
  BY JobInit
<1>2. ASSUME NEW u \in Users, NEW p \in Problems PROVE Backed(u, p)
  <2>1. stats[u].status[p] = "" /\ stats[u].fails[p] = 0
    BY DEF Init, EmptyBoard, NoStats
  <2>2. Cardinality(Counted(u, p, "REJECTED")) \in Nat
    BY <1>1, CountedFinite DEF JobInv
  <2>3. stats[u].status[p] # "AC" /\ stats[u].fails[p] <= Cardinality(Counted(u, p, "REJECTED"))
    <3>1. PICK n \in Nat : n = Cardinality(Counted(u, p, "REJECTED"))
      BY <2>2
    <3>2. 0 <= n
      OBVIOUS
    <3> QED BY <2>1, <3>1, <3>2
  <2> QED BY <2>3, Zenon DEF Backed
<1> QED BY <1>1, <1>2 DEF CreditInv

LEMMA CreditInvariance == Spec => []CreditInv
<1>1. Init => CreditInv
  BY CreditInit
<1>2. CreditInv /\ [Next]_vars => CreditInv'
  BY JobStep, CreditStep DEF CreditInv
<1> QED BY <1>1, <1>2, PTL DEF Spec

\* The part of LiveIsBacked that needs nothing of the consumers.
CreditIsBacked ==
    \A u \in Users, p \in Problems :
        /\ stats[u].status[p] = "AC" => RowsOf(u, p, "ACCEPTED") # {}
        /\ stats[u].fails[p] <= Cardinality(RowsOf(u, p, "REJECTED"))

(* However many consumers score at once and whatever fails, a solved       *)
(* problem has an accepted row and a counted failure a rejected one.       *)
THEOREM CreditsAreBacked == Spec => []CreditIsBacked
<1>1. CreditInv => CreditIsBacked
  <2> SUFFICES ASSUME CreditInv, NEW u \in Users, NEW p \in Problems
               PROVE  stats[u].fails[p] <= Cardinality(RowsOf(u, p, "REJECTED"))
    BY DEF CreditInv, Backed, CreditIsBacked
  <2>1. /\ Cardinality(Counted(u, p, "REJECTED")) \in Nat
        /\ Cardinality(RowsOf(u, p, "REJECTED")) \in Nat
        /\ Cardinality(Counted(u, p, "REJECTED")) <= Cardinality(RowsOf(u, p, "REJECTED"))
    BY CountedFinite DEF CreditInv, JobInv
  <2>2. stats[u].fails[p] \in Nat
    <3>1. stats[u] \in Stats
      BY DEF CreditInv, JobInv, TypeOK, BoardTypeOK
    <3> QED BY <3>1 DEF Stats
  <2> QED BY <2>1, <2>2 DEF CreditInv, Backed
<1> QED BY <1>1, CreditInvariance, PTL

-----------------------------------------------------------------------------
(* What holds until two results of one user are handled at once.           *)

\* updateContestScore reads and writes the hash of one user in several calls.
\* One consumer handles its messages one after the other; several may handle
\* results of one user, which come in message groups of their own, and then
\* "race" is among the upsets.
Serial ==
    \A c, d \in Consumers : c # d /\ Busy(c) /\ Busy(d) => User(c) # User(d)

\* A part of a set of natural numbers has no larger sum.
LEMMA SumSubset ==
    ASSUME NEW S, IsFiniteSet(S), NEW f, \A x \in S : f[x] \in Nat, NEW T, T \subseteq S
    PROVE  /\ SumOf(f, T) <= SumOf(f, S)
           /\ SumOf(f, T) \in Nat /\ SumOf(f, S) \in Nat
<1> DEFINE Bad == {U \in SUBSET S : T \subseteq U /\ ~ (SumOf(f, T) <= SumOf(f, U))}
<1>1. IsFiniteSet(T) /\ SumOf(f, T) \in Nat /\ SumOf(f, S) \in Nat
  BY FS_Subset, SumNat
<1> SUFFICES ASSUME Bad # {} PROVE FALSE
  <2>1. S \notin Bad => SumOf(f, T) <= SumOf(f, S)
    OBVIOUS
  <2> HIDE DEF Bad
  <2> QED BY <1>1, <2>1
<1>2. PICK U \in Bad : \A V \in Bad : V \subseteq U => V = U
  <2>1. Bad \subseteq SUBSET S
    OBVIOUS
  <2> HIDE DEF Bad
  <2> QED BY <2>1, SmallestSubset
<1>3. U \in SUBSET S /\ T \subseteq U /\ ~ (SumOf(f, T) <= SumOf(f, U))
  OBVIOUS
<1>4. U # T
  BY <1>1, <1>3
<1>5. PICK y \in U : y \notin T
  BY <1>3, <1>4
<1>6. IsFiniteSet(U) /\ \A x \in U : f[x] \in Nat
  BY <1>3, FS_Subset
<1>7. SumOf(f, U) = f[y] + SumOf(f, U \ {y})
  BY <1>6, SumRemove
<1>8. IsFiniteSet(U \ {y}) /\ SumOf(f, U \ {y}) \in Nat /\ f[y] \in Nat
  <2>1. IsFiniteSet(U \ {y}) /\ \A x \in U \ {y} : f[x] \in Nat
    BY <1>6, FS_RemoveElement
  <2> QED BY <1>6, <2>1, SumNat
<1>9. U \ {y} \notin Bad
  BY <1>2
<1>10. SumOf(f, T) <= SumOf(f, U \ {y})
  BY <1>3, <1>5, <1>9
<1>11. SumOf(f, T) <= SumOf(f, U)
  <2>1. PICK i \in Nat, j \in Nat, k \in Nat :
            i = SumOf(f, T) /\ j = SumOf(f, U \ {y}) /\ k = f[y]
    BY <1>1, <1>8
  <2> QED BY <1>7, <1>10, <2>1
<1> QED BY <1>3, <1>11

\* The problems a hash has as solved.
SolvedOf(stat) == {p \in Problems : stat.status[p] = "AC"}

\* Each problem solved counts once, and costs the failures counted on it.
StatOK(stat) ==
    /\ stat.solvedCount = Cardinality(SolvedOf(stat))
    /\ stat.totalPenaltySeconds = PENALTY_PER_WRONG * SumOf(stat.fails, SolvedOf(stat))

LEMMA SolvedFinite ==
    ASSUME NEW stat \in Stats
    PROVE  /\ SolvedOf(stat) \subseteq Problems /\ IsFiniteSet(SolvedOf(stat))
           /\ Cardinality(SolvedOf(stat)) \in Nat
           /\ \A p \in Problems : stat.fails[p] \in Nat
           /\ SumOf(stat.fails, SolvedOf(stat)) \in Nat
<1>1. SolvedOf(stat) \subseteq Problems
  BY DEF SolvedOf
<1>2. IsFiniteSet(SolvedOf(stat)) /\ Cardinality(SolvedOf(stat)) \in Nat
  BY <1>1, FS_Subset, FS_CardinalityType, ScoreAssumption
<1>3. \A p \in Problems : stat.fails[p] \in Nat
  BY DEF Stats
<1>4. SumOf(stat.fails, SolvedOf(stat)) \in Nat
  BY <1>1, <1>2, <1>3, SumNat
<1> QED BY <1>1, <1>2, <1>3, <1>4

LEMMA SolvedStatOK ==
    ASSUME NEW old \in Stats, NEW new, NEW p \in Problems, SolvedIn(old, new, p, old.fails[p]),
           old.status[p] # "AC", StatOK(old)
    PROVE  StatOK(new) /\ new.solvedCount # 0
<1>1. /\ new \in Stats /\ new.fails = old.fails
      /\ new.solvedCount = old.solvedCount + 1
      /\ new.totalPenaltySeconds = old.totalPenaltySeconds + old.fails[p] * PENALTY_PER_WRONG
      /\ new.status = [old.status EXCEPT ![p] = "AC"]
  BY DEF SolvedIn
<1>2. old.status \in [Problems -> {"", "AC"}]
  BY DEF Stats
<1>3. SolvedOf(new) = SolvedOf(old) \cup {p} /\ p \notin SolvedOf(old)
  BY <1>1, <1>2 DEF SolvedOf
<1>4. /\ SolvedOf(old) \subseteq Problems /\ IsFiniteSet(SolvedOf(old))
      /\ Cardinality(SolvedOf(old)) \in Nat
      /\ \A q \in Problems : old.fails[q] \in Nat
  BY SolvedFinite
<1>5. Cardinality(SolvedOf(new)) = Cardinality(SolvedOf(old)) + 1
  BY <1>3, <1>4, FS_AddElement
<1>6. \A q \in SolvedOf(old) \cup {p} : old.fails[q] \in Nat
  BY <1>4
<1>7. /\ SumOf(old.fails, SolvedOf(new)) = SumOf(old.fails, SolvedOf(old)) + old.fails[p]
      /\ SumOf(old.fails, SolvedOf(old)) \in Nat
  <2>1. SumOf(old.fails, SolvedOf(old)) \in Nat
    BY SolvedFinite
  <2>2. SumOf(old.fails, SolvedOf(old) \cup {p})
            = SumOf(old.fails, SolvedOf(old)) + old.fails[p]
    BY <1>3, <1>4, <1>6, SumAdd
  <2> QED BY <1>3, <2>1, <2>2
<1>8. PICK i \in Nat, j \in Nat, k \in Nat :
          /\ i = SumOf(old.fails, SolvedOf(old)) /\ j = old.fails[p]
          /\ k = Cardinality(SolvedOf(old))
  <2>1. old.fails[p] \in Nat
    BY <1>4
  <2> QED BY <1>4, <1>7, <2>1, Zenon
<1>9. /\ old.solvedCount = k /\ old.totalPenaltySeconds = 300 * i
  BY <1>8 DEF StatOK, PENALTY_PER_WRONG
<1>10. new.solvedCount = k + 1 /\ new.totalPenaltySeconds = 300 * i + j * 300
  BY <1>1, <1>8, <1>9 DEF PENALTY_PER_WRONG
<1>11. 300 * i + j * 300 = 300 * (i + j) /\ k + 1 # 0
  OBVIOUS
<1>12. SumOf(new.fails, SolvedOf(new)) = i + j /\ Cardinality(SolvedOf(new)) = k + 1
  BY <1>1, <1>5, <1>7, <1>8
<1> QED BY <1>10, <1>11, <1>12 DEF StatOK, PENALTY_PER_WRONG

LEMMA FailedStatOK ==
    ASSUME NEW old \in Stats, NEW new, NEW p \in Problems, FailedIn(old, new, p),
           old.status[p] # "AC", StatOK(old)
    PROVE  StatOK(new)
<1>1. /\ new.solvedCount = old.solvedCount
      /\ new.totalPenaltySeconds = old.totalPenaltySeconds
      /\ new.status = old.status
      /\ new.fails = [old.fails EXCEPT ![p] = old.fails[p] + 1]
  BY DEF FailedIn
<1>2. SolvedOf(new) = SolvedOf(old) /\ p \notin SolvedOf(old)
  BY <1>1 DEF SolvedOf
<1>3. old.fails \in [Problems -> Nat] /\ SolvedOf(old) \subseteq Problems
  BY SolvedFinite DEF Stats
<1>4. \A q \in SolvedOf(old) : old.fails[q] = new.fails[q]
  BY <1>1, <1>2, <1>3
<1>5. SumOf(old.fails, SolvedOf(old)) = SumOf(new.fails, SolvedOf(old))
  BY <1>4, SolvedFinite, SumSame
<1> QED BY <1>1, <1>2, <1>5 DEF StatOK

LEMMA NoStatsOK == StatOK(NoStats)
<1>1. SolvedOf(NoStats) = {}
  BY DEF SolvedOf, NoStats
<1>2. SumOf(NoStats.fails, {}) = 0 /\ Cardinality({}) = 0
  BY SumEmpty, FS_EmptySet
<1>3. NoStats.solvedCount = 0 /\ NoStats.totalPenaltySeconds = 0
  BY DEF NoStats
<1> QED BY <1>1, <1>2, <1>3 DEF StatOK, PENALTY_PER_WRONG

\* What a consumer read still holds when it writes.
ReadingOK(c) ==
    /\ job[c].pc \in {"fails", "solve", "fail"} => stats[User(c)].status[Problem(c)] # "AC"
    /\ job[c].pc = "solve" => job[c].fails = stats[User(c)].fails[Problem(c)]
    /\ job[c].pc = "post" => /\ job[c].score = Score(stats[User(c)])
                             /\ stats[User(c)].solvedCount # 0

Posting(u) == \E c \in Consumers : job[c].pc = "post" /\ User(c) = u

ShownOK(u) == "fault" \notin upsets /\ ~ Posting(u) => leaderboard[u] = OnBoard(u)

SerialInv ==
    /\ JobInv
    /\ \A u \in Users : StatOK(stats[u]) /\ ShownOK(u)
    /\ \A c \in Consumers : ReadingOK(c)

\* Nobody changes the user or the problem of a row.
RowsKept ==
    \A s \in DOMAIN rows : rows'[s].user = rows[s].user /\ rows'[s].problem = rows[s].problem

LEMMA ArrivalsKeep ==
    ASSUME JobInv,
           \/ \E w \in Users, q \in Problems : Submits(w, q)
           \/ \E c \in Consumers, s \in DOMAIN rows, verdict \in Judged : Stores(c, s, verdict)
    PROVE  RowsKept
<1>1. ASSUME NEW w \in Users, NEW q \in Problems, Submits(w, q) PROVE RowsKept
  <2> DEFINE new == [user |-> w, problem |-> q, status |-> "PENDING"]
  <2>1. /\ rows \in Seq(RowType) /\ Len(rows) \in Nat /\ DOMAIN rows = 1..Len(rows)
    BY RowFacts DEF JobInv
  <2>2. new \in RowType
    BY DEF RowType
  <2>3. rows' = Append(rows, new)
    BY <1>1 DEF Submits
  <2> HIDE DEF new
  <2>4. \A s \in 1..Len(rows) : rows'[s] = rows[s]
    BY <2>1, <2>2, <2>3, AppendProperties
  <2> QED BY <2>1, <2>4 DEF RowsKept
<1>2. ASSUME NEW c \in Consumers, NEW s \in DOMAIN rows, NEW verdict \in Judged,
             Stores(c, s, verdict)
      PROVE  RowsKept
  BY <1>2, StoredRows DEF RowsKept, JobInv
<1> QED BY <1>1, <1>2

LEMMA OwnerKept ==
    ASSUME JobInv, RowsKept, NEW d \in Consumers, Busy(d), job'[d] = job[d]
    PROVE  User(d)' = User(d) /\ Problem(d)' = Problem(d)
<1>1. job[d].row \in DOMAIN rows
  BY JobFacts
<1> QED BY <1>1 DEF RowsKept, User, Problem

LEMMA ReadingKept ==
    ASSUME JobInv, RowsKept, NEW d \in Consumers, ReadingOK(d), job'[d] = job[d],
           Busy(d) => stats'[User(d)] = stats[User(d)]
    PROVE  ReadingOK(d)'
<1>1. CASE Busy(d)
  <2>1. User(d)' = User(d) /\ Problem(d)' = Problem(d)
    BY <1>1, OwnerKept
  <2>2. stats'[User(d)'] = stats[User(d)]
    BY <1>1, <2>1
  <2> QED BY <2>1, <2>2 DEF ReadingOK
<1>2. CASE ~ Busy(d)
  BY <1>2 DEF ReadingOK, Busy
<1> QED BY <1>1, <1>2

LEMMA PostingKept ==
    ASSUME JobInv, RowsKept, NEW c \in Consumers, job[c].pc # "post", NEW u,
           \A d \in Consumers : d # c => job'[d] = job[d], Posting(u)
    PROVE  Posting(u)'
<1>1. PICK d \in Consumers : job[d].pc = "post" /\ User(d) = u
  BY DEF Posting
<1>2. d # c /\ job'[d] = job[d] /\ Busy(d)
  BY <1>1 DEF Busy
<1>3. User(d)' = u
  BY <1>1, <1>2, OwnerKept
<1> QED BY <1>1, <1>2, <1>3 DEF Posting

LEMMA ShownKept ==
    ASSUME NEW u, ShownOK(u), leaderboard'[u] = leaderboard[u], OnBoard(u)' = OnBoard(u),
           upsets \subseteq upsets', Posting(u) => Posting(u)' \/ "fault" \in upsets'
    PROVE  ShownOK(u)'
  BY DEF ShownOK

LEMMA SerialArrives ==
    ASSUME SerialInv, JobInv',
           \/ \E w \in Users, q \in Problems : Submits(w, q)
           \/ \E c \in Consumers, s \in DOMAIN rows, verdict \in Judged : Stores(c, s, verdict)
    PROVE  SerialInv'
<1> USE DEF SerialInv
<1>1. RowsKept
  BY ArrivalsKeep
<1>2. UNCHANGED redisVars /\ upsets \subseteq upsets'
  BY DEF Submits, Stores
<1>3. stats' = stats /\ leaderboard' = leaderboard
  BY <1>2 DEF redisVars
<1>4. /\ \A d \in Consumers : ReadingOK(d)'
      /\ \A d \in Consumers : Busy(d) => job'[d] = job[d]
  <2>1. CASE \E w \in Users, q \in Problems : Submits(w, q)
    <3>1. job' = job
      BY <2>1 DEF Submits
    <3>2. \A d \in Consumers : ReadingOK(d)'
      BY <1>1, <1>3, <3>1, ReadingKept
    <3> QED BY <3>1, <3>2
  <2>2. CASE \E c \in Consumers, s \in DOMAIN rows, verdict \in Judged : Stores(c, s, verdict)
    <3>1. PICK c \in Consumers, s \in DOMAIN rows, verdict \in Judged : Stores(c, s, verdict)
      BY <2>2
    <3>2. /\ ~ Busy(c) /\ job \in [Consumers -> Job]
          /\ job' = [job EXCEPT ![c] = [Idle EXCEPT !.pc = "meta", !.row = s]]
      BY <3>1, JobFacts DEF Stores
    <3>3. /\ \A d \in Consumers : d # c => job'[d] = job[d]
          /\ job'[c].pc = "meta"
      BY <3>2 DEF Idle
    <3>4. ReadingOK(c)'
      BY <3>3 DEF ReadingOK
    <3>5. \A d \in Consumers : d # c => ReadingOK(d)'
      BY <1>1, <1>3, <3>3, ReadingKept
    <3> QED BY <3>2, <3>3, <3>4, <3>5
  <2> QED BY <2>1, <2>2
<1>6. ASSUME NEW u \in Users PROVE StatOK(stats[u])' /\ ShownOK(u)'
  <2>1. StatOK(stats'[u]) /\ OnBoard(u)' = OnBoard(u)
    BY <1>3 DEF OnBoard
  <2>2. Posting(u) => Posting(u)'
    BY <1>1, <1>4, OwnerKept DEF Posting, Busy
  <2>3. ShownOK(u)'
    BY <1>2, <1>3, <2>1, <2>2, ShownKept
  <2> QED BY <2>1, <2>3
<1> QED BY <1>4, <1>6

LEMMA SerialMoves ==
    ASSUME SerialInv, JobInv', NEW c \in Consumers, NEW state, Moves(c, state)
    PROVE  SerialInv'
<1> USE DEF SerialInv
<1>1. /\ Busy(c) /\ job \in [Consumers -> Job] /\ job' = [job EXCEPT ![c] = state]
      /\ rows' = rows /\ stats' = stats /\ leaderboard' = leaderboard
      /\ upsets \subseteq upsets' /\ (Reads(c, state) \/ Leaves(c, state))
  BY JobFacts DEF Moves, redisVars
<1>2. job'[c] = state /\ \A d \in Consumers : d # c => job'[d] = job[d]
  BY <1>1
<1>3. RowsKept
  BY <1>1 DEF RowsKept
<1>4. ReadingOK(c)'
  <2>1. User(c)' = rows[state.row].user /\ Problem(c)' = rows[state.row].problem
    BY <1>1, <1>2 DEF User, Problem
  <2>2. CASE state = Idle
    <3>1. job'[c].pc = "idle"
      BY <1>2, <2>2, IdleType
    <3> QED BY <3>1 DEF ReadingOK
  <2>3. CASE Reads(c, state)
    <3>1. state.row = job[c].row /\ state.pc # "post"
      BY <1>1, <2>3, ReadTypes
    <3>2. User(c)' = User(c) /\ Problem(c)' = Problem(c)
      BY <2>1, <3>1 DEF User, Problem
    <3>3. ReadingOK(c) /\ job[c] \in Job
      BY <1>1
    <3>4. CASE job[c].pc = "meta" /\ state = [job[c] EXCEPT !.pc = "status"]
      <4>1. job'[c].pc = "status"
        BY <1>2, <3>3, <3>4 DEF Job
      <4> QED BY <4>1 DEF ReadingOK
    <3>5. CASE /\ job[c].pc = "status" /\ stats[User(c)].status[Problem(c)] # "AC"
               /\ state = [job[c] EXCEPT
                      !.pc = IF rows[job[c].row].status = "ACCEPTED" THEN "fails" ELSE "fail"]
      <4>1. job'[c].pc \in {"fails", "fail"}
        BY <1>2, <3>3, <3>5 DEF Job
      <4>2. stats'[User(c)'].status[Problem(c)'] # "AC"
        BY <1>1, <3>2, <3>5
      <4> QED BY <4>1, <4>2 DEF ReadingOK
    <3>6. CASE /\ job[c].pc = "fails"
               /\ state = [job[c] EXCEPT
                      !.pc = "solve", !.fails = stats[User(c)].fails[Problem(c)]]
      <4>1. job'[c].pc = "solve" /\ job'[c].fails = stats[User(c)].fails[Problem(c)]
        BY <1>2, <3>3, <3>6 DEF Job
      <4>2. stats[User(c)].status[Problem(c)] # "AC"
        BY <3>3, <3>6 DEF ReadingOK
      <4>3. /\ stats'[User(c)'].status[Problem(c)'] # "AC"
            /\ job'[c].fails = stats'[User(c)'].fails[Problem(c)']
        BY <1>1, <3>2, <4>1, <4>2
      <4> QED BY <4>1, <4>3 DEF ReadingOK
    <3> QED BY <2>3, <3>4, <3>5, <3>6 DEF Reads
  <2> QED BY <1>1, <2>2, <2>3 DEF Leaves
<1>5. \A d \in Consumers : ReadingOK(d)'
  BY <1>1, <1>2, <1>3, <1>4, ReadingKept
<1>6. job[c].pc # "post" \/ "fault" \in upsets'
  BY <1>1 DEF Reads, Leaves
<1>7. ASSUME NEW u \in Users PROVE StatOK(stats[u])' /\ ShownOK(u)'
  <2>1. StatOK(stats'[u]) /\ OnBoard(u)' = OnBoard(u)
    BY <1>1 DEF OnBoard
  <2>2. Posting(u) => Posting(u)' \/ "fault" \in upsets'
    BY <1>2, <1>3, <1>6, PostingKept
  <2>3. ShownOK(u)'
    BY <1>1, <2>1, <2>2, ShownKept
  <2> QED BY <2>1, <2>3
<1> QED BY <1>5, <1>7

LEMMA SerialPosts ==
    ASSUME SerialInv, JobInv', NEW c \in Consumers, Posts(c)
    PROVE  SerialInv'
<1> USE DEF SerialInv
<1>1. /\ job[c].pc = "post" /\ Busy(c) /\ job' = [job EXCEPT ![c] = Idle]
      /\ job \in [Consumers -> Job] /\ User(c) \in Users /\ rows' = rows /\ stats' = stats
      /\ leaderboard' = [leaderboard EXCEPT ![User(c)] = job[c].score] /\ upsets' = upsets
  <2>1. job[c].pc = "post" /\ Busy(c)
    BY DEF Posts, Busy
  <2> QED BY <2>1, JobFacts DEF Posts, Done, SetScore
<1>2. job'[c] = Idle /\ \A d \in Consumers : d # c => job'[d] = job[d]
  BY <1>1
<1>3. RowsKept
  BY <1>1 DEF RowsKept
<1>4. ReadingOK(c)'
  <2>1. job'[c].pc = "idle"
    BY <1>2, IdleType
  <2> QED BY <2>1 DEF ReadingOK
<1>5. \A d \in Consumers : ReadingOK(d)'
  BY <1>1, <1>2, <1>3, <1>4, ReadingKept
<1>6. ASSUME NEW u \in Users PROVE StatOK(stats[u])' /\ ShownOK(u)'
  <2>1. StatOK(stats'[u]) /\ OnBoard(u)' = OnBoard(u)
    BY <1>1 DEF OnBoard
  <2>2. leaderboard \in [Users -> Int \cup {Absent}]
    BY DEF JobInv, TypeOK, BoardTypeOK
  <2>3. CASE u = User(c)
    <3>1. leaderboard'[u] = Score(stats[u]) /\ stats[u].solvedCount # 0
      BY <1>1, <2>2, <2>3 DEF ReadingOK
    <3>2. leaderboard'[u] = OnBoard(u)'
      BY <2>1, <3>1 DEF OnBoard
    <3> QED BY <2>1, <3>2 DEF ShownOK
  <2>4. CASE u # User(c)
    <3>1. leaderboard'[u] = leaderboard[u]
      BY <1>1, <2>2, <2>4
    <3>2. Posting(u) => Posting(u)'
      <4>1. SUFFICES ASSUME Posting(u) PROVE Posting(u)'
        OBVIOUS
      <4>2. PICK d \in Consumers : job[d].pc = "post" /\ User(d) = u
        BY <4>1 DEF Posting
      <4>3. d # c /\ Busy(d)
        BY <2>4, <4>2 DEF Busy
      <4>4. User(d)' = u /\ job'[d].pc = "post"
        BY <1>2, <1>3, <4>2, <4>3, OwnerKept
      <4> QED BY <4>4 DEF Posting
    <3>3. ShownOK(u)'
      BY <1>1, <2>1, <3>1, <3>2, ShownKept
    <3> QED BY <2>1, <3>3
  <2> QED BY <2>3, <2>4
<1> QED BY <1>5, <1>6

\* The other consumers do not read the hash that a consumer writes.
LEMMA OthersReading ==
    ASSUME SerialInv, Serial, NEW c \in Consumers, Busy(c), OnlyOf(User(c)), RowsKept,
           NEW d \in Consumers, d # c, job'[d] = job[d]
    PROVE  ReadingOK(d)'
<1>1. JobInv /\ ReadingOK(d)
  BY DEF SerialInv
<1>2. Busy(d) => User(d) \in Users /\ User(d) # User(c)
  BY <1>1, JobFacts DEF Serial
<1>3. Busy(d) => stats'[User(d)] = stats[User(d)]
  BY <1>2 DEF OnlyOf
<1> QED BY <1>1, <1>3, ReadingKept

LEMMA SerialSolves ==
    ASSUME SerialInv, Serial, JobInv', NEW c \in Consumers, NEW state, Solves(c, state)
    PROVE  SerialInv'
<1> USE DEF SerialInv
<1> DEFINE w == User(c)
           p == Problem(c)
<1>1. /\ Busy(c) /\ w \in Users /\ p \in Problems
      /\ SolvedIn(stats[w], stats'[w], p, job[c].fails) /\ OnlyOf(w)
  BY SolvesCount
<1>2. /\ job[c].pc = "solve" /\ rows' = rows /\ leaderboard' = leaderboard
      /\ job' = [job EXCEPT ![c] = state] /\ job \in [Consumers -> Job]
      /\ upsets \subseteq upsets'
      /\ \/ state = [job[c] EXCEPT !.pc = "post", !.score = Score(stats'[w])]
         \/ state = Idle /\ "fault" \in upsets'
  BY JobFacts DEF Solves, CountSolved
<1>3. job'[c] = state /\ \A d \in Consumers : d # c => job'[d] = job[d]
  BY <1>2
<1>4. RowsKept
  BY <1>2 DEF RowsKept
<1>5. stats[w] \in Stats /\ stats[w].status[p] # "AC" /\ job[c].fails = stats[w].fails[p]
  BY <1>1, <1>2 DEF ReadingOK, JobInv, TypeOK, BoardTypeOK
<1> HIDE DEF w, p
<1>6. StatOK(stats'[w]) /\ stats'[w].solvedCount # 0
  <2>1. StatOK(stats[w]) /\ SolvedIn(stats[w], stats'[w], p, stats[w].fails[p])
    BY <1>1, <1>5
  <2> QED BY <1>1, <1>5, <2>1, SolvedStatOK
<1>7. CASE state = Idle /\ "fault" \in upsets'
  <2>1. job'[c].pc = "idle"
    BY <1>3, <1>7, IdleType
  <2>2. ReadingOK(c)'
    BY <2>1 DEF ReadingOK
  <2>3. \A d \in Consumers : ReadingOK(d)'
    BY <1>1, <1>3, <1>4, <2>2, OthersReading DEF w
  <2>4. \A u \in Users : ShownOK(u)'
    BY <1>7 DEF ShownOK
  <2>5. \A u \in Users : StatOK(stats'[u])
    BY <1>6 , <1>1 DEF OnlyOf
  <2> QED BY <2>3, <2>4, <2>5
<1>8. CASE state = [job[c] EXCEPT !.pc = "post", !.score = Score(stats'[w])]
  <2>1. /\ job'[c].pc = "post" /\ job'[c].score = Score(stats'[w])
        /\ job'[c].row = job[c].row
    <3>1. job[c] \in Job
      BY <1>2
    <3> QED BY <1>3, <1>8, <3>1 DEF Job
  <2>2. User(c)' = w
    BY <1>2, <2>1 DEF User, w
  <2>3. ReadingOK(c)'
    BY <1>6, <2>1, <2>2 DEF ReadingOK
  <2>4. \A d \in Consumers : ReadingOK(d)'
    BY <1>1, <1>3, <1>4, <2>3, OthersReading DEF w
  <2>5. ASSUME NEW u \in Users PROVE StatOK(stats[u])' /\ ShownOK(u)'
    <3>1. CASE u = w
      <4>1. Posting(u)'
        BY <2>1, <2>2, <3>1 DEF Posting
      <4> QED BY <1>6, <3>1, <4>1 DEF ShownOK
    <3>2. CASE u # w
      <4>1. stats'[u] = stats[u] /\ OnBoard(u)' = OnBoard(u) /\ leaderboard'[u] = leaderboard[u]
        BY <1>1, <1>2, <3>2 DEF OnlyOf, OnBoard
      <4>2. Posting(u) => Posting(u)'
        BY <1>2, <1>3, <1>4, PostingKept
      <4>3. ShownOK(u)'
        BY <1>2, <4>1, <4>2, ShownKept
      <4>4. StatOK(stats'[u])
        BY <4>1
      <4> QED BY <4>3, <4>4
    <3> QED BY <3>1, <3>2
  <2> QED BY <2>4, <2>5
<1> QED BY <1>2, <1>7, <1>8

LEMMA SerialFails ==
    ASSUME SerialInv, Serial, JobInv', NEW c \in Consumers, CountsFail(c)
    PROVE  SerialInv'
<1> USE DEF SerialInv
<1> DEFINE w == User(c)
           p == Problem(c)
<1>1. /\ Busy(c) /\ w \in Users /\ p \in Problems
      /\ FailedIn(stats[w], stats'[w], p) /\ OnlyOf(w)
  BY FailsCount
<1>2. /\ job[c].pc = "fail" /\ rows' = rows /\ leaderboard' = leaderboard
      /\ job' = [job EXCEPT ![c] = Idle] /\ job \in [Consumers -> Job]
      /\ upsets \subseteq upsets'
  BY JobFacts DEF CountsFail, CountFail, Done
<1>3. job'[c] = Idle /\ \A d \in Consumers : d # c => job'[d] = job[d]
  BY <1>2
<1>4. RowsKept
  BY <1>2 DEF RowsKept
<1>5. stats[w] \in Stats /\ stats[w].status[p] # "AC" /\ StatOK(stats[w])
  BY <1>1, <1>2 DEF ReadingOK, JobInv, TypeOK, BoardTypeOK
<1> HIDE DEF w, p
<1>6. StatOK(stats'[w])
  BY <1>1, <1>5, FailedStatOK
<1>7. ReadingOK(c)'
  <2>1. job'[c].pc = "idle"
    BY <1>3, IdleType
  <2> QED BY <2>1 DEF ReadingOK
<1>8. \A d \in Consumers : ReadingOK(d)'
  BY <1>1, <1>3, <1>4, <1>7, OthersReading DEF w
<1>9. ASSUME NEW u \in Users PROVE StatOK(stats[u])' /\ ShownOK(u)'
  <2>1. OnBoard(u)' = OnBoard(u) /\ StatOK(stats'[u])
    <3>1. CASE u = w
      BY <1>1, <1>6, <3>1 DEF OnBoard, FailedIn, Score
    <3>2. CASE u # w
      BY <1>1, <3>2 DEF OnBoard, OnlyOf
    <3> QED BY <3>1, <3>2
  <2>2. Posting(u) => Posting(u)'
    BY <1>2, <1>3, <1>4, PostingKept
  <2>3. ShownOK(u)'
    BY <1>2, <2>1, <2>2, ShownKept
  <2> QED BY <2>1, <2>3
<1> QED BY <1>8, <1>9

LEMMA SerialStep ==
    ASSUME SerialInv, Serial, JobInv', BoardStep
    PROVE  SerialInv'
<1>1. CASE Quiet
  BY <1>1 DEF Quiet, redisVars, SerialInv, ReadingOK, ShownOK, Posting, OnBoard, User, Problem
<1>2. CASE \/ \E w \in Users, q \in Problems : Submits(w, q)
           \/ \E c \in Consumers, s \in DOMAIN rows, verdict \in Judged : Stores(c, s, verdict)
  BY <1>2, SerialArrives
<1>3. ASSUME NEW c \in Consumers, NEW state, Moves(c, state) \/ Solves(c, state)
      PROVE  SerialInv'
  BY <1>3, SerialMoves, SerialSolves
<1>4. ASSUME NEW c \in Consumers, CountsFail(c) \/ Posts(c) PROVE SerialInv'
  BY <1>4, SerialFails, SerialPosts
<1> QED BY <1>1, <1>2, <1>3, <1>4 DEF BoardStep

LEMMA SerialInit ==
    ASSUME Init
    PROVE  SerialInv
<1>1. JobInv
  BY JobInit
<1>2. \A c \in Consumers : job[c].pc = "idle"
  BY IdleType DEF Init
<1>3. \A u \in Users : stats[u] = NoStats /\ leaderboard[u] = Absent
  BY DEF Init, EmptyBoard
<1>4. \A u \in Users : StatOK(stats[u])
  BY <1>3, NoStatsOK
<1>5. \A u \in Users : leaderboard[u] = OnBoard(u)
  <2>1. NoStats.solvedCount = 0
    BY DEF NoStats
  <2> QED BY <1>3, <2>1 DEF OnBoard
<1> QED BY <1>1, <1>2, <1>4, <1>5 DEF SerialInv, ReadingOK, ShownOK

\* Two consumers come to score one user only by taking up a second row of theirs.
LEMMA SerialKept ==
    ASSUME JobInv, Serial, BoardStep, "race" \notin upsets'
    PROVE  Serial'
<1> SUFFICES ASSUME NEW c \in Consumers, NEW d \in Consumers, c # d, Busy(c)', Busy(d)'
             PROVE  User(c)' # User(d)'
  BY DEF Serial
<1> USE JobFacts
<1>1. CASE RowsKept /\ \A e \in Consumers : Busy(e)' => Busy(e) /\ job'[e].row = job[e].row
  <2>1. Busy(c) /\ Busy(d) /\ job'[c].row = job[c].row /\ job'[d].row = job[d].row
    BY <1>1
  <2>2. job[c].row \in DOMAIN rows /\ job[d].row \in DOMAIN rows
    BY <2>1
  <2>3. User(c) # User(d)
    BY <2>1 DEF Serial
  <2> QED BY <1>1, <2>1, <2>2, <2>3 DEF RowsKept, User
<1>2. CASE Quiet
  BY <1>1, <1>2 DEF Quiet, RowsKept, Busy
<1>3. ASSUME NEW w \in Users, NEW q \in Problems, Submits(w, q) PROVE User(c)' # User(d)'
  <2>1. RowsKept /\ job' = job
    BY <1>3, ArrivalsKeep DEF Submits
  <2> QED BY <1>1, <2>1 DEF Busy
<1>4. ASSUME NEW e \in Consumers, NEW s \in DOMAIN rows, NEW verdict \in Judged,
             Stores(e, s, verdict)
      PROVE  User(c)' # User(d)'
  <2>1. RowsKept
    BY <1>4, ArrivalsKeep
  <2>2. /\ ~ Busy(e) /\ job \in [Consumers -> Job] /\ ~ BeingScored(rows[s].user)
        /\ job' = [job EXCEPT ![e] = [Idle EXCEPT !.pc = "meta", !.row = s]]
    BY <1>4 DEF Stores
  <2>3. job'[e].row = s /\ \A b \in Consumers : b # e => job'[b] = job[b]
    BY <2>2 DEF Idle
  <2>4. ASSUME NEW b \in Consumers, b # e, Busy(b)' PROVE User(b)' # rows'[s].user
    <3>1. Busy(b) /\ job'[b] = job[b]
      BY <2>3, <2>4 DEF Busy
    <3>2. User(b)' = User(b) /\ User(b) # rows[s].user
      BY <2>1, <2>2, <3>1, OwnerKept DEF BeingScored, Busy
    <3> QED BY <2>1, <3>2 DEF RowsKept
  <2>5. User(e)' = rows'[s].user
    BY <2>3 DEF User
  <2>6. CASE c # e /\ d # e
    <3>1. Busy(c) /\ Busy(d) /\ job'[c] = job[c] /\ job'[d] = job[d]
      BY <2>3, <2>6 DEF Busy
    <3>2. User(c)' = User(c) /\ User(d)' = User(d)
      BY <2>1, <3>1, OwnerKept
    <3> QED BY <3>1, <3>2 DEF Serial
  <2>7. CASE c = e
    BY <2>4, <2>5, <2>7
  <2>8. CASE d = e
    BY <2>4, <2>5, <2>8
  <2> QED BY <2>6, <2>7, <2>8
<1>5. ASSUME NEW e \in Consumers, NEW state, Moves(e, state) \/ Solves(e, state)
      PROVE  User(c)' # User(d)'
  <2>1. /\ Busy(e) /\ rows' = rows /\ job' = [job EXCEPT ![e] = state]
        /\ job \in [Consumers -> Job] /\ job[e] \in Job
    BY <1>5 DEF Moves, Solves, Busy
  <2>2. state = Idle \/ state.row = job[e].row
    BY <1>5, <2>1 DEF Moves, Solves, Reads, Leaves, Job
  <2>3. \A b \in Consumers : Busy(b)' => Busy(b) /\ job'[b].row = job[b].row
    BY <2>1, <2>2, IdleType DEF Busy
  <2>4. RowsKept
    BY <2>1 DEF RowsKept
  <2> QED BY <1>1, <2>3, <2>4
<1>6. ASSUME NEW e \in Consumers, CountsFail(e) \/ Posts(e) PROVE User(c)' # User(d)'
  <2>1. rows' = rows /\ job' = [job EXCEPT ![e] = Idle] /\ job \in [Consumers -> Job]
    BY <1>6 DEF CountsFail, Posts, Done
  <2>2. \A b \in Consumers : Busy(b)' => Busy(b) /\ job'[b].row = job[b].row
    BY <2>1, IdleType DEF Busy
  <2>3. RowsKept
    BY <2>1 DEF RowsKept
  <2> QED BY <1>1, <2>2, <2>3
<1> QED BY <1>2, <1>3, <1>4, <1>5, <1>6 DEF BoardStep

\* The upsets are a history.
LEMMA UpsetsStay ==
    ASSUME BoardStep
    PROVE  upsets \subseteq upsets'
  BY DEF BoardStep, Quiet, Submits, Stores, Moves, Solves, CountsFail, Posts

RaceInv == JobInv /\ ("race" \notin upsets => Serial /\ SerialInv)

LEMMA RaceStep ==
    ASSUME RaceInv, [Next]_vars
    PROVE  RaceInv'
<1>1. JobInv /\ JobInv' /\ BoardStep
  BY JobStep DEF RaceInv
<1> SUFFICES ASSUME "race" \notin upsets' PROVE Serial' /\ SerialInv'
  BY <1>1 DEF RaceInv
<1>2. "race" \notin upsets
  BY <1>1, UpsetsStay
<1>3. Serial /\ SerialInv
  BY <1>2 DEF RaceInv
<1> QED BY <1>1, <1>3, SerialKept, SerialStep

LEMMA RaceInit ==
    ASSUME Init
    PROVE  RaceInv
<1>1. \A c \in Consumers : ~ Busy(c)
  BY IdleType DEF Init, Busy
<1> QED BY <1>1, JobInit, SerialInit DEF RaceInv, Serial

LEMMA RaceInvariance == Spec => []RaceInv
<1>1. Init => RaceInv
  BY RaceInit
<1>2. RaceInv /\ [Next]_vars => RaceInv'
  BY RaceStep
<1> QED BY <1>1, <1>2, PTL DEF Spec

\* A score that a hash with so many solved problems may have had.
Within(stat, score) ==
    stat.solvedCount > 0 /\ score <= stat.solvedCount * SOLVED_SCORE_WEIGHT

LEMMA WithinKept ==
    ASSUME NEW old \in Stats, NEW new \in Stats, new.solvedCount >= old.solvedCount,
           NEW score \in Int, Within(old, score)
    PROVE  Within(new, score)
<1>1. PICK m \in Nat, n \in Nat : m = old.solvedCount /\ n = new.solvedCount
  BY DEF Stats
<1>2. m > 0 /\ n >= m /\ score <= m * 10000000
  BY <1>1 DEF Within, SOLVED_SCORE_WEIGHT
<1>3. n > 0 /\ score <= n * 10000000
  BY <1>2
<1> QED BY <1>1, <1>3 DEF Within, SOLVED_SCORE_WEIGHT

LEMMA ScoreIsWithin ==
    ASSUME NEW stat \in Stats, stat.solvedCount > 0
    PROVE  Within(stat, Score(stat)) /\ Score(stat) \in Int
<1>1. PICK m \in Nat, n \in Nat : m = stat.solvedCount /\ n = stat.totalPenaltySeconds
  BY DEF Stats
<1>2. m * 10000000 - n <= m * 10000000 /\ m * 10000000 - n \in Int
  OBVIOUS
<1> QED BY <1>1, <1>2 DEF Within, Score, SOLVED_SCORE_WEIGHT

\* Nobody takes back what was counted.
LEMMA SolvedGrows ==
    ASSUME JobInv, BoardStep
    PROVE  \A u \in Users : stats'[u].solvedCount >= stats[u].solvedCount
<1>1. stats \in [Users -> Stats]
  BY DEF JobInv, TypeOK, BoardTypeOK
<1>2. \A u \in Users : stats[u].solvedCount \in Nat
  BY <1>1 DEF Stats
<1>3. ASSUME stats' = stats PROVE \A u \in Users : stats'[u].solvedCount >= stats[u].solvedCount
  BY <1>2, <1>3
<1>4. ASSUME NEW c \in Consumers, NEW state, Solves(c, state), NEW u \in Users
      PROVE  stats'[u].solvedCount >= stats[u].solvedCount
  <2>1. SolvedIn(stats[User(c)], stats'[User(c)], Problem(c), job[c].fails) /\ OnlyOf(User(c))
    BY <1>4, SolvesCount
  <2>2. CASE u = User(c)
    <3>1. stats'[u].solvedCount = stats[u].solvedCount + 1
      BY <2>1, <2>2 DEF SolvedIn
    <3> QED BY <1>2, <3>1
  <2>3. CASE u # User(c)
    BY <1>2, <2>1, <2>3 DEF OnlyOf
  <2> QED BY <2>2, <2>3
<1>5. ASSUME NEW c \in Consumers, CountsFail(c), NEW u \in Users
      PROVE  stats'[u].solvedCount >= stats[u].solvedCount
  <2>1. FailedIn(stats[User(c)], stats'[User(c)], Problem(c)) /\ OnlyOf(User(c))
    BY <1>5, FailsCount
  <2>2. CASE u = User(c)
    BY <1>2, <2>1, <2>2 DEF FailedIn
  <2>3. CASE u # User(c)
    BY <1>2, <2>1, <2>3 DEF OnlyOf
  <2> QED BY <2>2, <2>3
<1>6. ASSUME NEW c \in Consumers, NEW state, Moves(c, state) PROVE stats' = stats
  BY <1>6 DEF Moves, redisVars
<1>7. ASSUME NEW c \in Consumers, Posts(c) PROVE stats' = stats
  BY <1>7 DEF Posts, SetScore
<1>8. CASE \/ Quiet
           \/ \E w \in Users, q \in Problems : Submits(w, q)
           \/ \E c \in Consumers, s \in DOMAIN rows, verdict \in Judged : Stores(c, s, verdict)
  BY <1>3, <1>8 DEF Quiet, Submits, Stores, redisVars
<1> QED BY <1>3, <1>4, <1>5, <1>6, <1>7, <1>8 DEF BoardStep

\* No score on its way or on the board is ahead of the hash.
PostingOK(c) == job[c].pc = "post" => Within(stats[User(c)], job[c].score)
ShowingOK(u) == leaderboard[u] # Absent => Within(stats[u], leaderboard[u])

AheadInv ==
    /\ JobInv
    /\ \A c \in Consumers : PostingOK(c)
    /\ \A u \in Users : ShowingOK(u)

LEMMA AheadStep ==
    ASSUME AheadInv, JobInv', BoardStep
    PROVE  AheadInv'
<1>1. /\ JobInv /\ stats \in [Users -> Stats] /\ stats' \in [Users -> Stats]
      /\ leaderboard \in [Users -> Int \cup {Absent}] /\ job \in [Consumers -> Job]
  BY DEF AheadInv, JobInv, TypeOK, BoardTypeOK
<1>2. \A u \in Users : stats'[u].solvedCount >= stats[u].solvedCount
  BY <1>1, SolvedGrows
<1>3. ASSUME NEW u \in Users, leaderboard'[u] = leaderboard[u] PROVE ShowingOK(u)'
  <2> SUFFICES ASSUME leaderboard[u] # Absent PROVE Within(stats'[u], leaderboard[u])
    BY <1>3 DEF ShowingOK
  <2>1. Within(stats[u], leaderboard[u]) /\ leaderboard[u] \in Int
    BY <1>1 DEF AheadInv, ShowingOK
  <2> QED BY <1>1, <1>2, <2>1, WithinKept
<1>4. ASSUME RowsKept, NEW c \in Consumers, job'[c] = job[c] PROVE PostingOK(c)'
  <2> SUFFICES ASSUME job[c].pc = "post" PROVE Within(stats'[User(c)'], job[c].score)
    BY <1>4 DEF PostingOK
  <2>1. Busy(c) /\ job[c].score \in Int
    BY <1>1 DEF Busy, Job
  <2>2. User(c)' = User(c) /\ User(c) \in Users
    BY <1>1, <1>4, <2>1, OwnerKept, JobFacts
  <2>3. Within(stats[User(c)], job[c].score)
    BY DEF AheadInv, PostingOK
  <2> QED BY <1>1, <1>2, <2>1, <2>2, <2>3, WithinKept
<1>5. ASSUME RowsKept, NEW c \in Consumers, NEW state, job' = [job EXCEPT ![c] = state],
             state.pc # "post"
      PROVE  \A d \in Consumers : PostingOK(d)'
  <2>1. job'[c].pc # "post" /\ \A d \in Consumers : d # c => job'[d] = job[d]
    BY <1>1, <1>5
  <2> QED BY <1>4, <1>5, <2>1 DEF PostingOK
<1>6. CASE \/ Quiet
           \/ \E w \in Users, q \in Problems : Submits(w, q)
  <2>1. RowsKept /\ job' = job /\ leaderboard' = leaderboard
    BY <1>1, <1>6, ArrivalsKeep DEF Quiet, Submits, redisVars, RowsKept
  <2> QED BY <1>3, <1>4, <2>1 DEF AheadInv
<1>7. ASSUME NEW c \in Consumers, NEW s \in DOMAIN rows, NEW verdict \in Judged,
             Stores(c, s, verdict)
      PROVE  AheadInv'
  <2>1. RowsKept /\ leaderboard' = leaderboard
    BY <1>1, <1>7, ArrivalsKeep DEF Stores, redisVars
  <2>2. PICK state : state = [Idle EXCEPT !.pc = "meta", !.row = s]
    OBVIOUS
  <2>3. job' = [job EXCEPT ![c] = state] /\ state.pc # "post"
    BY <1>7, <2>2 DEF Stores, Idle
  <2> QED BY <1>3, <1>5, <2>1, <2>3 DEF AheadInv
<1>8. ASSUME NEW c \in Consumers, NEW state, Moves(c, state) PROVE AheadInv'
  <2>1. /\ Busy(c) /\ rows' = rows /\ leaderboard' = leaderboard
        /\ job' = [job EXCEPT ![c] = state] /\ (Reads(c, state) \/ Leaves(c, state))
    BY <1>8 DEF Moves, redisVars
  <2>2. state.pc # "post"
    BY <1>1, <2>1, ReadTypes, IdleType DEF Leaves
  <2>3. RowsKept
    BY <2>1 DEF RowsKept
  <2> QED BY <1>3, <1>5, <2>1, <2>2, <2>3 DEF AheadInv
<1>9. ASSUME NEW c \in Consumers, NEW state, Solves(c, state) PROVE AheadInv'
  <2>1. /\ SolvedIn(stats[User(c)], stats'[User(c)], Problem(c), job[c].fails)
        /\ Busy(c) /\ User(c) \in Users
    BY <1>1, <1>9, SolvesCount
  <2>2. /\ rows' = rows /\ leaderboard' = leaderboard /\ job' = [job EXCEPT ![c] = state]
        /\ \/ state = [job[c] EXCEPT !.pc = "post", !.score = Score(stats'[User(c)])]
           \/ state = Idle
    BY <1>9 DEF Solves, CountSolved
  <2>3. RowsKept
    BY <2>2 DEF RowsKept
  <2>4. CASE state = Idle
    BY <1>3, <1>5, <2>2, <2>3, <2>4, IdleType DEF AheadInv
  <2>5. CASE state = [job[c] EXCEPT !.pc = "post", !.score = Score(stats'[User(c)])]
    <3>1. /\ job'[c].pc = "post" /\ job'[c].score = Score(stats'[User(c)])
          /\ job'[c].row = job[c].row /\ \A d \in Consumers : d # c => job'[d] = job[d]
      <4>1. job[c] \in Job
        BY <1>1
      <4> QED BY <1>1, <2>2, <2>5, <4>1 DEF Job
    <3>2. User(c)' = User(c)
      BY <2>2, <3>1 DEF User
    <3>3. PICK old \in Stats, new \in Stats : old = stats[User(c)] /\ new = stats'[User(c)]
      BY <1>1, <2>1
    <3>4. new.solvedCount > 0
      <4>1. new.solvedCount = old.solvedCount + 1 /\ old.solvedCount \in Nat
        BY <2>1, <3>3 DEF SolvedIn, Stats
      <4> QED BY <4>1
    <3>5. Within(new, Score(new))
      BY <3>4, ScoreIsWithin
    <3>6. PostingOK(c)'
      BY <3>1, <3>2, <3>3, <3>5 DEF PostingOK
    <3> QED BY <1>3, <1>4, <2>2, <2>3, <3>1, <3>6 DEF AheadInv
  <2> QED BY <2>2, <2>4, <2>5
<1>10. ASSUME NEW c \in Consumers, CountsFail(c) PROVE AheadInv'
  <2>1. rows' = rows /\ leaderboard' = leaderboard /\ job' = [job EXCEPT ![c] = Idle]
    BY <1>10 DEF CountsFail, CountFail, Done
  <2>2. RowsKept
    BY <2>1 DEF RowsKept
  <2> QED BY <1>3, <1>5, <2>1, <2>2, IdleType DEF AheadInv
<1>11. ASSUME NEW c \in Consumers, Posts(c) PROVE AheadInv'
  <2>1. /\ job[c].pc = "post" /\ rows' = rows /\ stats' = stats
        /\ job' = [job EXCEPT ![c] = Idle]
        /\ leaderboard' = [leaderboard EXCEPT ![User(c)] = job[c].score]
    BY <1>11 DEF Posts, Done, SetScore
  <2>2. RowsKept
    BY <2>1 DEF RowsKept
  <2>3. \A d \in Consumers : PostingOK(d)'
    BY <1>5, <2>1, <2>2, IdleType
  <2>4. ASSUME NEW u \in Users PROVE ShowingOK(u)'
    <3>1. CASE u = User(c)
      <4>1. leaderboard'[u] = job[c].score
        BY <1>1, <2>1, <3>1
      <4>2. Within(stats'[u], leaderboard'[u])
        BY <2>1, <3>1, <4>1 DEF AheadInv, PostingOK
      <4> QED BY <4>2 DEF ShowingOK
    <3>2. CASE u # User(c)
      BY <1>1, <1>3, <2>1, <3>2
    <3> QED BY <3>1, <3>2
  <2> QED BY <2>3, <2>4 DEF AheadInv
<1> QED BY <1>6, <1>7, <1>8, <1>9, <1>10, <1>11 DEF BoardStep

LEMMA AheadInvariance == Spec => []AheadInv
<1>1. Init => AheadInv
  <2> SUFFICES ASSUME Init PROVE AheadInv
    OBVIOUS
  <2>1. \A c \in Consumers : job[c].pc = "idle"
    BY IdleType DEF Init
  <2>2. \A u \in Users : leaderboard[u] = Absent
    BY DEF Init, EmptyBoard
  <2> QED BY <2>1, <2>2, JobInit DEF AheadInv, PostingOK, ShowingOK
<1>2. AheadInv /\ [Next]_vars => AheadInv'
  BY JobStep, AheadStep DEF AheadInv
<1> QED BY <1>1, <1>2, PTL DEF Spec

(* The board never shows more than the hash counts, with any number of     *)
(* consumers and whatever fails; and it shows what the hash says as long   *)
(* as no two results of one user were handled at once and nothing failed.  *)
THEOREM BoardShowsStats == Spec => []BoardMatchesStats
<1>1. RaceInv /\ AheadInv => BoardMatchesStats
  <2> SUFFICES ASSUME RaceInv, AheadInv, NEW u \in Users
               PROVE  /\ leaderboard[u] # Absent => Within(stats[u], leaderboard[u])
                      /\ /\ upsets \subseteq {"order"}
                         /\ \A c \in Consumers : job[c].pc = "post" => User(c) # u
                         => leaderboard[u] = OnBoard(u)
    BY DEF BoardMatchesStats, Within
  <2>1. leaderboard[u] # Absent => Within(stats[u], leaderboard[u])
    BY DEF AheadInv, ShowingOK
  <2>2. ASSUME upsets \subseteq {"order"},
               \A c \in Consumers : job[c].pc = "post" => User(c) # u
        PROVE  leaderboard[u] = OnBoard(u)
    <3>1. "race" \notin upsets /\ "fault" \notin upsets
      BY <2>2
    <3>2. ShownOK(u) /\ ~ Posting(u)
      BY <2>2, <3>1 DEF RaceInv, SerialInv, Posting
    <3> QED BY <3>1, <3>2 DEF ShownOK
  <2> QED BY <2>1, <2>2
<1> QED BY <1>1, RaceInvariance, AheadInvariance, PTL

(* The live board credits nothing the rows do not back: solved problems    *)
(* and failures whoever scores, penalties until two results of one user    *)
(* were handled at once.                                                   *)
THEOREM LiveBoardIsBacked == Spec => []LiveIsBacked
<1>1. RaceInv /\ CreditIsBacked => LiveIsBacked
  <2> SUFFICES ASSUME RaceInv, CreditIsBacked, NEW u \in Users, "race" \notin upsets
               PROVE  stats[u].totalPenaltySeconds <=
                          PENALTY_PER_WRONG
                              * MapThenSumSet(LAMBDA p : stats[u].fails[p], Problems)
    BY DEF CreditIsBacked, LiveIsBacked
  <2>1. stats[u] \in Stats /\ StatOK(stats[u])
    BY DEF RaceInv, SerialInv, JobInv, TypeOK, BoardTypeOK
  <2>2. /\ SolvedOf(stats[u]) \subseteq Problems /\ \A p \in Problems : stats[u].fails[p] \in Nat
    BY <2>1, SolvedFinite
  <2>3. /\ SumOf(stats[u].fails, SolvedOf(stats[u])) <= SumOf(stats[u].fails, Problems)
        /\ SumOf(stats[u].fails, SolvedOf(stats[u])) \in Nat
        /\ SumOf(stats[u].fails, Problems) \in Nat
    BY <2>2, SumSubset, ScoreAssumption
  <2>4. SumOf(stats[u].fails, Problems) = MapThenSumSet(LAMBDA p : stats[u].fails[p], Problems)
    BY DEF SumOf
  <2>5. stats[u].totalPenaltySeconds =
            PENALTY_PER_WRONG * SumOf(stats[u].fails, SolvedOf(stats[u]))
    BY <2>1 DEF StatOK
  <2>6. PICK i \in Nat, j \in Nat : /\ i = SumOf(stats[u].fails, SolvedOf(stats[u]))
                                    /\ j = SumOf(stats[u].fails, Problems)
    BY <2>3
  <2>7. 300 * i <= 300 * j
    BY <2>3, <2>6
  <2> QED BY <2>4, <2>5, <2>6, <2>7 DEF PENALTY_PER_WRONG
<1> QED BY <1>1, RaceInvariance, CreditsAreBacked, PTL

-----------------------------------------------------------------------------
(* The result the trigger computes is the one the live board showed.       *)

\* The failures that count on a problem: those before its first AC.
Early(u, p) ==
    {s \in Counted(u, p, "REJECTED") : \A t \in Counted(u, p, "ACCEPTED") : s < t}

\* Each user's verdicts came in the order of submission, and the hash has
\* what the rows that were scored say.
InOrder ==
    \A s, t \in DOMAIN rows :
        s < t /\ rows[s].user = rows[t].user /\ rows[t].status # "PENDING"
            => rows[s].status # "PENDING"

LastOfUser(c) ==
    Busy(c) => \A s \in DOMAIN rows :
                  rows[s].user = User(c) /\ rows[s].status # "PENDING" => s <= job[c].row

Agrees(u, p) ==
    /\ stats[u].status[p] = "AC" <=> Counted(u, p, "ACCEPTED") # {}
    /\ stats[u].fails[p] = Cardinality(Early(u, p))

LEMMA AgreesKept ==
    ASSUME NEW u, NEW p, Agrees(u, p), stats'[u].status[p] = stats[u].status[p],
           stats'[u].fails[p] = stats[u].fails[p],
           Counted(u, p, "ACCEPTED")' = Counted(u, p, "ACCEPTED"),
           Early(u, p)' = Early(u, p)
    PROVE  Agrees(u, p)'
  BY DEF Agrees

\* The rows that count come before the one being scored.
LEMMA CountedBefore ==
    ASSUME JobInv, NEW c \in Consumers, Busy(c), LastOfUser(c), NEW p, NEW v \in Judged,
           NEW s \in Counted(User(c), p, v)
    PROVE  s \in Nat /\ job[c].row \in Nat /\ s <= job[c].row
<1>1. s \in DOMAIN rows /\ s \in RowsOf(User(c), p, v)
  BY DEF Counted, RowsOf
<1>2. rows[s].user = User(c) /\ rows[s].status # "PENDING"
  BY <1>1, InRowsOf DEF JobInv, Judged
<1>3. s <= job[c].row
  BY <1>1, <1>2 DEF LastOfUser
<1>4. job[c].row \in DOMAIN rows
  BY JobFacts
<1> QED BY <1>1, <1>3, <1>4, RowFacts DEF JobInv

LEMMA EarlySame ==
    ASSUME NEW u, NEW p, Counted(u, p, "ACCEPTED")' = Counted(u, p, "ACCEPTED"),
           Counted(u, p, "REJECTED")' = Counted(u, p, "REJECTED")
    PROVE  Early(u, p)' = Early(u, p)
  BY DEF Early

(* A row that counts from now on comes too late to be an early failure,    *)
(* and, accepted, after all of them.                                       *)
LEMMA EarlyLater ==
    ASSUME JobInv, NEW c \in Consumers, Busy(c), LastOfUser(c),
           NEW u, u = User(c), NEW p,
           \/ /\ Counted(u, p, "REJECTED")' = Counted(u, p, "REJECTED")
              /\ job[c].row \notin Counted(u, p, "REJECTED")
              /\ Counted(u, p, "ACCEPTED")'
                    = Counted(u, p, "ACCEPTED") \cup {job[c].row}
           \/ /\ Counted(u, p, "ACCEPTED") # {}
              /\ Counted(u, p, "ACCEPTED")' = Counted(u, p, "ACCEPTED")
              /\ Counted(u, p, "REJECTED")'
                    = Counted(u, p, "REJECTED") \cup {job[c].row}
    PROVE  Early(u, p)' = Early(u, p)
<1> DEFINE A == Counted(u, p, "ACCEPTED")
           R == Counted(u, p, "REJECTED")
           r == job[c].row
<1>1. /\ \A s \in A : s \in Nat /\ r \in Nat /\ s <= r
      /\ \A s \in R : s \in Nat /\ r \in Nat /\ s <= r
  BY CountedBefore DEF Judged
<1>2. Early(u, p) = {s \in R : \A t \in A : s < t}
  BY DEF Early
<1>3. CASE R' = R /\ r \notin R /\ A' = A \cup {r}
  <2>1. \A s \in R : s < r
    BY <1>1, <1>3
  <2>2. {s \in R : \A t \in A \cup {r} : s < t} = {s \in R : \A t \in A : s < t}
    BY <2>1
  <2>3. Early(u, p)' = {s \in R : \A t \in A \cup {r} : s < t}
    BY <1>3 DEF Early
  <2> QED BY <1>2, <2>2, <2>3
<1>4. CASE A # {} /\ A' = A /\ R' = R \cup {r}
  <2>1. PICK t \in A : ~ (r < t)
    BY <1>1, <1>4
  <2>2. {s \in R \cup {r} : \A q \in A : s < q} = {s \in R : \A q \in A : s < q}
    BY <2>1
  <2>3. Early(u, p)' = {s \in R \cup {r} : \A q \in A : s < q}
    BY <1>4 DEF Early
  <2> QED BY <1>2, <2>2, <2>3
<1> QED BY <1>3, <1>4

OrderOK ==
    /\ InOrder
    /\ \A c \in Consumers : LastOfUser(c)
    /\ \A u \in Users, p \in Problems : Agrees(u, p)

OrderInv == RaceInv /\ (upsets = {} => OrderOK)

\* No consumer takes up a row.
NoNewRow ==
    /\ rows' = rows
    /\ \A c \in Consumers : Busy(c)' => Busy(c) /\ job'[c].row = job[c].row

LEMMA OrderKept ==
    ASSUME InOrder, \A c \in Consumers : LastOfUser(c), NoNewRow
    PROVE  InOrder' /\ \A c \in Consumers : LastOfUser(c)'
<1>1. InOrder'
  BY DEF InOrder, NoNewRow
<1>2. ASSUME NEW c \in Consumers PROVE LastOfUser(c)'
  <2>1. SUFFICES ASSUME Busy(c)', NEW s \in DOMAIN rows,
                        rows[s].user = User(c)', rows[s].status # "PENDING"
                 PROVE  s <= job'[c].row
    BY DEF LastOfUser, NoNewRow
  <2>2. Busy(c) /\ job'[c].row = job[c].row /\ User(c)' = User(c)
    BY <2>1 DEF NoNewRow, User
  <2>3. LastOfUser(c)
    OBVIOUS
  <2> QED BY <2>1, <2>2, <2>3 DEF LastOfUser
<1> QED BY <1>1, <1>2

LEMMA TurnNoNewRow ==
    ASSUME JobInv, NEW c \in Consumers, NEW state, Turns(c, state),
           state.pc = "idle" \/ state.row = job[c].row
    PROVE  NoNewRow
<1>1. /\ Busy(c) /\ rows' = rows /\ job'[c] = state
      /\ \A d \in Consumers : d # c => job'[d] = job[d]
  BY JobFacts DEF Turns
<1> QED BY <1>1 DEF NoNewRow, Busy

LEMMA OrderSubmits ==
    ASSUME JobInv, OrderOK, JobInv', NEW w \in Users, NEW q \in Problems, Submits(w, q)
    PROVE  OrderOK'
<1> USE DEF OrderOK
<1> DEFINE new == [user |-> w, problem |-> q, status |-> "PENDING"]
<1>1. /\ rows \in Seq(RowType) /\ Len(rows) \in Nat /\ DOMAIN rows = 1..Len(rows)
  BY RowFacts DEF JobInv
<1>2. new \in RowType /\ new.status = "PENDING"
  BY DEF RowType
<1>3. rows' = Append(rows, new)
  BY DEF Submits
<1> HIDE DEF new
<1>4. /\ rows' \in Seq(RowType) /\ Len(rows') = Len(rows) + 1
      /\ \A s \in 1..Len(rows) : rows'[s] = rows[s]
      /\ rows'[Len(rows) + 1] = new
  BY <1>1, <1>2, <1>3, AppendProperties
<1>5. DOMAIN rows' = 1..(Len(rows) + 1)
  BY <1>4, LenProperties
<1>6. \A s \in DOMAIN rows' : rows'[s].status # "PENDING" => s \in DOMAIN rows /\ rows'[s] = rows[s]
  BY <1>1, <1>2, <1>4, <1>5
<1>7. job' = job /\ stats' = stats /\ RowsKept
  BY ArrivalsKeep DEF Submits, redisVars
<1>8. InOrder'
  <2> SUFFICES ASSUME NEW s \in DOMAIN rows', NEW t \in DOMAIN rows', s < t,
                      rows'[s].user = rows'[t].user, rows'[t].status # "PENDING"
               PROVE  rows'[s].status # "PENDING"
    BY DEF InOrder
  <2>1. t \in DOMAIN rows /\ rows'[t] = rows[t]
    BY <1>6
  <2>2. s \in DOMAIN rows /\ rows'[s] = rows[s]
    BY <1>1, <1>4, <1>5, <2>1
  <2> QED BY <2>1, <2>2 DEF InOrder
<1>9. ASSUME NEW c \in Consumers PROVE LastOfUser(c)'
  <2> SUFFICES ASSUME Busy(c)', NEW s \in DOMAIN rows', rows'[s].user = User(c)',
                      rows'[s].status # "PENDING"
               PROVE  s <= job'[c].row
    BY DEF LastOfUser
  <2>1. Busy(c) /\ job'[c] = job[c]
    BY <1>7 DEF Busy
  <2>2. User(c)' = User(c)
    BY <1>7, <2>1, OwnerKept
  <2>3. s \in DOMAIN rows /\ rows'[s] = rows[s] /\ LastOfUser(c)
    BY <1>6
  <2> QED BY <2>1, <2>2, <2>3 DEF LastOfUser
<1>10. ASSUME NEW u \in Users, NEW p \in Problems PROVE Agrees(u, p)'
  <2>1. /\ Counted(u, p, "ACCEPTED")' = Counted(u, p, "ACCEPTED")
        /\ Counted(u, p, "REJECTED")' = Counted(u, p, "REJECTED")
    BY CountedKept DEF Judged
  <2>2. Early(u, p)' = Early(u, p)
    BY <2>1, EarlySame
  <2> QED BY <1>7, <2>1, <2>2, AgreesKept
<1> QED BY <1>8, <1>9, <1>10

LEMMA OrderStores ==
    ASSUME JobInv, OrderOK, JobInv', Serial', NEW c \in Consumers, NEW s \in DOMAIN rows,
           NEW verdict \in Judged, Stores(c, s, verdict), upsets' = {}
    PROVE  OrderOK'
<1> USE DEF OrderOK
<1>1. /\ DOMAIN rows' = DOMAIN rows /\ DOMAIN rows \subseteq Nat
      /\ \A t \in DOMAIN rows : t # s => rows'[t] = rows[t]
      /\ \A t \in DOMAIN rows : rows'[t].user = rows[t].user
      /\ rows'[s].status # "PENDING" /\ rows[s].status = "PENDING"
  <2>1. DOMAIN rows \subseteq Nat
    BY RowFacts DEF JobInv
  <2>2. /\ DOMAIN rows' = DOMAIN rows /\ rows'[s].status = verdict
        /\ \A t \in DOMAIN rows : rows'[t].user = rows[t].user /\ (t # s => rows'[t] = rows[t])
    BY StoredRows DEF JobInv
  <2> QED BY <2>1, <2>2 DEF Judged, Stores
<1>2. \A t \in 1..(s - 1) : rows[t].user = rows[s].user => rows[t].status # "PENDING"
  <2>1. NextOfUser(s)
    BY DEF Stores
  <2> QED BY <2>1 DEF NextOfUser
<1>3. \A t \in DOMAIN rows : t < s /\ rows[t].user = rows[s].user => rows[t].status # "PENDING"
  <2>1. \A t \in DOMAIN rows : t < s => t \in 1..(s - 1)
    <3>1. DOMAIN rows = 1..Len(rows) /\ Len(rows) \in Nat
      BY RowFacts DEF JobInv
    <3> QED BY <3>1
  <2> QED BY <1>2, <2>1
<1>4. \A t \in DOMAIN rows : s < t /\ rows[t].user = rows[s].user => rows[t].status = "PENDING"
  BY <1>1 DEF InOrder
<1>5. InOrder'
  <2> SUFFICES ASSUME NEW a \in DOMAIN rows, NEW b \in DOMAIN rows, a < b,
                      rows'[a].user = rows'[b].user, rows'[b].status # "PENDING"
               PROVE  rows'[a].status # "PENDING"
    BY <1>1 DEF InOrder
  <2>1. rows[a].user = rows[b].user
    BY <1>1
  <2>2. CASE a = s
    BY <1>1, <2>2
  <2>3. CASE a # s /\ b = s
    BY <1>1, <1>3, <2>1, <2>3
  <2>4. CASE a # s /\ b # s
    <3>1. rows'[a] = rows[a] /\ rows'[b] = rows[b]
      BY <1>1, <2>4
    <3> QED BY <2>1, <3>1 DEF InOrder
  <2> QED BY <2>2, <2>3, <2>4
<1>6. /\ ~ Busy(c) /\ job'[c].pc = "meta" /\ job'[c].row = s
      /\ \A d \in Consumers : d # c => job'[d] = job[d]
  BY JobFacts DEF Stores, Idle
<1>7. User(c)' = rows[s].user
  BY <1>1, <1>6 DEF User
<1>8. RowsKept
  BY ArrivalsKeep
<1>9. ASSUME NEW d \in Consumers PROVE LastOfUser(d)'
  <2> SUFFICES ASSUME Busy(d)', NEW t \in DOMAIN rows, rows[t].user = User(d)',
                      rows'[t].status # "PENDING"
               PROVE  t <= job'[d].row
    BY <1>1 DEF LastOfUser
  <2>1. CASE d = c
    <3>1. t # s => rows'[t] = rows[t] /\ rows[t].user = rows[s].user
      BY <1>1, <1>7, <2>1
    <3>2. ~ (s < t)
      BY <1>1, <1>4, <3>1
    <3> QED BY <1>1, <1>6, <2>1, <3>2
  <2>2. CASE d # c
    <3>1. Busy(d) /\ job'[d] = job[d]
      BY <1>6, <2>2 DEF Busy
    <3>2. User(d)' = User(d)
      BY <1>8, <3>1, OwnerKept
    <3>3. User(d)' # User(c)'
      BY <1>6, <2>2 DEF Serial, Busy
    <3>4. t # s /\ rows'[t] = rows[t]
      BY <1>1, <1>7, <3>3
    <3> QED BY <3>1, <3>2, <3>4 DEF LastOfUser
  <2> QED BY <2>1, <2>2
<1>10. ASSUME NEW u \in Users, NEW p \in Problems PROVE Agrees(u, p)'
  <2>1. /\ Counted(u, p, "ACCEPTED")' = Counted(u, p, "ACCEPTED")
        /\ Counted(u, p, "REJECTED")' = Counted(u, p, "REJECTED")
    BY CountedKept DEF Judged
  <2>2. Early(u, p)' = Early(u, p)
    BY <2>1, EarlySame
  <2>3. stats' = stats
    BY DEF Stores, redisVars
  <2> QED BY <2>1, <2>2, <2>3, AgreesKept
<1> QED BY <1>5, <1>9, <1>10

LEMMA OrderMoves ==
    ASSUME JobInv, OrderOK, NEW c \in Consumers, NEW state, Moves(c, state), upsets' = {}
    PROVE  OrderOK'
<1> USE DEF OrderOK
<1>1. /\ Busy(c) /\ Turns(c, state) /\ stats' = stats
      /\ (Reads(c, state) \/ Leaves(c, state))
  BY DEF Moves, Turns, redisVars
<1>2. InOrder' /\ \A d \in Consumers : LastOfUser(d)'
  <2>1. state.pc = "idle" \/ state.row = job[c].row
    BY <1>1, IdleType, ReadTypes DEF Leaves
  <2>2. NoNewRow
    BY <1>1, <2>1, TurnNoNewRow
  <2> QED BY <2>2, OrderKept
<1>3. ASSUME NEW u \in Users, NEW p \in Problems PROVE Agrees(u, p)'
  <2>1. CASE Reads(c, state)
    <3>1. /\ Counted(u, p, "ACCEPTED")' = Counted(u, p, "ACCEPTED")
          /\ Counted(u, p, "REJECTED")' = Counted(u, p, "REJECTED")
      BY <2>1, MovesCount
    <3>2. Early(u, p)' = Early(u, p)
      BY <3>1, EarlySame
    <3> QED BY <1>1, <3>1, <3>2, AgreesKept
  <2>2. CASE Leaves(c, state)
    <3>1. /\ state = Idle /\ job[c].pc = "status"
          /\ stats[User(c)].status[Problem(c)] = "AC"
      BY <2>2 DEF Leaves
    <3>2. Scoring(c)
      BY <3>1 DEF Scoring, Through
    <3>3. /\ Counted(u, p, "ACCEPTED")'
                = Counted(u, p, "ACCEPTED") \cup (RowsOf(u, p, "ACCEPTED") \cap {job[c].row})
          /\ Counted(u, p, "REJECTED")'
                = Counted(u, p, "REJECTED") \cup (RowsOf(u, p, "REJECTED") \cap {job[c].row})
      BY <3>1, <3>2, MovesCount
    <3>4. CASE ~ (u = User(c) /\ p = Problem(c))
      <4>1. /\ RowsOf(u, p, "ACCEPTED") \cap {job[c].row} = {}
            /\ RowsOf(u, p, "REJECTED") \cap {job[c].row} = {}
        BY <1>1, <3>4, OwnRow
      <4>2. /\ Counted(u, p, "ACCEPTED")' = Counted(u, p, "ACCEPTED")
            /\ Counted(u, p, "REJECTED")' = Counted(u, p, "REJECTED")
        BY <3>3, <4>1
      <4>3. Early(u, p)' = Early(u, p)
        BY <4>2, EarlySame
      <4> QED BY <1>1, <4>2, <4>3, AgreesKept
    <3>5. CASE u = User(c) /\ p = Problem(c)
      <4>1. stats[u].status[p] = "AC" /\ Counted(u, p, "ACCEPTED") # {}
        BY <3>1, <3>5 DEF Agrees
      <4>2. rows[job[c].row].status \in Judged /\ JobInv
        <5>1. JobOK(c) /\ rows[job[c].row] \in RowType
          BY <1>1, JobFacts
        <5> QED BY <1>1, <5>1 DEF JobOK, RowType
      <4>3. LastOfUser(c)
        OBVIOUS
      <4>4. Early(u, p)' = Early(u, p)
        <5>1. CASE rows[job[c].row].status = "ACCEPTED"
          <6>1. /\ job[c].row \in RowsOf(u, p, "ACCEPTED")
                /\ job[c].row \notin RowsOf(u, p, "REJECTED")
            BY <1>1, <3>5, <5>1, OwnRow
          <6>2. /\ Counted(u, p, "REJECTED")' = Counted(u, p, "REJECTED")
                /\ job[c].row \notin Counted(u, p, "REJECTED")
                /\ Counted(u, p, "ACCEPTED")' = Counted(u, p, "ACCEPTED") \cup {job[c].row}
            BY <3>3, <6>1 DEF Counted
          <6> QED BY <1>1, <3>5, <4>3, <6>2, EarlyLater
        <5>2. CASE rows[job[c].row].status = "REJECTED"
          <6>1. /\ job[c].row \in RowsOf(u, p, "REJECTED")
                /\ job[c].row \notin RowsOf(u, p, "ACCEPTED")
            BY <1>1, <3>5, <5>2, OwnRow
          <6>2. /\ Counted(u, p, "ACCEPTED")' = Counted(u, p, "ACCEPTED")
                /\ Counted(u, p, "REJECTED")' = Counted(u, p, "REJECTED") \cup {job[c].row}
            BY <3>3, <6>1
          <6> QED BY <1>1, <3>5, <4>1, <4>3, <6>2, EarlyLater
        <5> QED BY <4>2, <5>1, <5>2 DEF Judged
      <4>5. Counted(u, p, "ACCEPTED")' # {}
        BY <3>3, <4>1
      <4>6. Agrees(u, p)
        OBVIOUS
      <4>7. stats'[u].fails[p] = Cardinality(Early(u, p)')
        BY <1>1, <4>4, <4>6 DEF Agrees
      <4> QED BY <1>1, <4>1, <4>5, <4>7 DEF Agrees
    <3> QED BY <3>4, <3>5
  <2> QED BY <1>1, <2>1, <2>2
<1> QED BY <1>2, <1>3

LEMMA OrderSolves ==
    ASSUME JobInv, OrderOK, NEW c \in Consumers, NEW state, Solves(c, state)
    PROVE  OrderOK'
<1> USE DEF OrderOK
<1> DEFINE w == User(c)
           q == Problem(c)
<1>1. /\ Busy(c) /\ w \in Users /\ q \in Problems
      /\ SolvedIn(stats[w], stats'[w], q, job[c].fails) /\ OnlyOf(w)
  BY SolvesCount
<1>2. stats[w].status \in [Problems -> {"", "AC"}]
  <2>1. stats[w] \in Stats
    BY <1>1 DEF JobInv, TypeOK, BoardTypeOK
  <2> QED BY <2>1 DEF Stats
<1>3. InOrder' /\ \A d \in Consumers : LastOfUser(d)'
  <2>1. job[c] \in Job /\ Turns(c, state)
    BY <1>1, JobFacts DEF Solves, Turns
  <2>2. state.pc = "idle" \/ state.row = job[c].row
    BY <2>1, IdleType DEF Solves, Job
  <2>3. NoNewRow
    BY <2>1, <2>2, TurnNoNewRow
  <2> QED BY <2>3, OrderKept
<1>4. ASSUME NEW u \in Users, NEW p \in Problems PROVE Agrees(u, p)'
  <2>1. /\ Counted(u, p, "REJECTED")' = Counted(u, p, "REJECTED")
        /\ rows[job[c].row].status = "ACCEPTED"
    BY SolvesCount
  <2>2. Counted(u, p, "ACCEPTED")' = IF u = w /\ p = q
                                     THEN Counted(u, p, "ACCEPTED") \cup {job[c].row}
                                     ELSE Counted(u, p, "ACCEPTED")
    BY SolvesCount
  <2>3. CASE ~ (u = w /\ p = q)
    <3>1. stats'[u].status[p] = stats[u].status[p] /\ stats'[u].fails[p] = stats[u].fails[p]
      <4> HIDE DEF w, q
      <4>1. CASE u = w
        BY <1>1, <1>2, <2>3, <4>1 DEF SolvedIn
      <4>2. CASE u # w
        BY <1>1, <4>2 DEF OnlyOf
      <4> QED BY <4>1, <4>2
    <3>2. Counted(u, p, "ACCEPTED")' = Counted(u, p, "ACCEPTED")
      BY <2>2, <2>3
    <3>3. Early(u, p)' = Early(u, p)
      BY <2>1, <3>2, EarlySame
    <3> HIDE DEF w, q
    <3> QED BY <3>1, <3>2, <3>3, AgreesKept
  <2>4. CASE u = w /\ p = q
    <3>1. job[c].row \notin Counted(u, p, "REJECTED") /\ LastOfUser(c)
      BY <1>1, <2>1, OwnRow DEF Counted
    <3>2. Early(u, p)' = Early(u, p)
      BY <1>1, <2>1, <2>2, <2>4, <3>1, EarlyLater
    <3>3. Counted(u, p, "ACCEPTED")' # {}
      BY <2>2, <2>4
    <3>4. Agrees(u, p)
      OBVIOUS
    <3> HIDE DEF w, q
    <3>5. stats'[u].status[p] = "AC" /\ stats'[u].fails[p] = stats[u].fails[p]
      BY <1>1, <1>2, <2>4 DEF SolvedIn
    <3>6. stats'[u].fails[p] = Cardinality(Early(u, p)')
      BY <3>2, <3>4, <3>5 DEF Agrees
    <3> QED BY <3>3, <3>5, <3>6 DEF Agrees
  <2> QED BY <2>3, <2>4
<1> QED BY <1>3, <1>4

LEMMA OrderFails ==
    ASSUME SerialInv, OrderOK, NEW c \in Consumers, CountsFail(c)
    PROVE  OrderOK'
<1> USE DEF OrderOK
<1> DEFINE w == User(c)
           q == Problem(c)
<1>1. /\ Busy(c) /\ w \in Users /\ q \in Problems /\ JobInv
      /\ FailedIn(stats[w], stats'[w], q) /\ OnlyOf(w)
  BY FailsCount DEF SerialInv
<1>2. stats[w].fails \in [Problems -> Nat] /\ stats[w].status[q] # "AC"
  <2>1. stats[w] \in Stats
    BY <1>1 DEF JobInv, TypeOK, BoardTypeOK
  <2>2. ReadingOK(c)
    BY DEF SerialInv
  <2> QED BY <2>1, <2>2 DEF Stats, ReadingOK, CountsFail
<1>3. InOrder' /\ \A d \in Consumers : LastOfUser(d)'
  <2>1. Turns(c, Idle)
    BY <1>1 DEF CountsFail, Done, Turns
  <2>2. NoNewRow
    BY <1>1, <2>1, IdleType, TurnNoNewRow
  <2> QED BY <2>2, OrderKept
<1>4. ASSUME NEW u \in Users, NEW p \in Problems PROVE Agrees(u, p)'
  <2>1. Counted(u, p, "ACCEPTED")' = Counted(u, p, "ACCEPTED")
    BY <1>1, FailsCount
  <2>2. /\ job[c].row \notin Counted(u, p, "REJECTED")
        /\ Counted(u, p, "REJECTED")' = IF u = w /\ p = q
                                        THEN Counted(u, p, "REJECTED") \cup {job[c].row}
                                        ELSE Counted(u, p, "REJECTED")
    BY <1>1, FailsCount
  <2>3. CASE ~ (u = w /\ p = q)
    <3>1. stats'[u].status[p] = stats[u].status[p] /\ stats'[u].fails[p] = stats[u].fails[p]
      <4> HIDE DEF w, q
      <4>1. CASE u = w
        BY <1>1, <1>2, <2>3, <4>1 DEF FailedIn
      <4>2. CASE u # w
        BY <1>1, <4>2 DEF OnlyOf
      <4> QED BY <4>1, <4>2
    <3>2. Counted(u, p, "REJECTED")' = Counted(u, p, "REJECTED")
      BY <2>2, <2>3
    <3>3. Early(u, p)' = Early(u, p)
      BY <2>1, <3>2, EarlySame
    <3> HIDE DEF w, q
    <3> QED BY <2>1, <3>1, <3>3, AgreesKept
  <2>4. CASE u = w /\ p = q
    <3> HIDE DEF w, q
    <3>1. Counted(u, p, "ACCEPTED") = {} /\ Agrees(u, p)
      BY <1>2, <2>4 DEF Agrees
    <3>2. Early(u, p) = Counted(u, p, "REJECTED")
      BY <3>1 DEF Early
    <3>3. Early(u, p)' = Counted(u, p, "REJECTED") \cup {job[c].row}
      BY <2>1, <2>2, <2>4, <3>1 DEF Early
    <3>4. IsFiniteSet(Counted(u, p, "REJECTED"))
      BY <1>1, CountedFinite DEF JobInv
    <3>5. Cardinality(Early(u, p)') = Cardinality(Early(u, p)) + 1
      <4>1. /\ IsFiniteSet(Early(u, p)) /\ job[c].row \notin Early(u, p)
            /\ Early(u, p)' = Early(u, p) \cup {job[c].row}
        BY <2>2, <3>2, <3>3, <3>4
      <4> HIDE DEF Early
      <4> QED BY <4>1, CardOneMore
    <3>6. /\ stats'[u].status[p] = stats[u].status[p]
          /\ stats'[u].fails[p] = stats[u].fails[p] + 1
      BY <1>1, <1>2, <2>4 DEF FailedIn
    <3>7. Counted(u, p, "ACCEPTED")' = {} /\ stats[u].status[p] # "AC"
      BY <2>1, <3>1 DEF Agrees
    <3>8. stats'[u].status[p] # "AC"
      BY <3>6, <3>7
    <3>9. stats'[u].fails[p] = Cardinality(Early(u, p)')
      BY <3>1, <3>5, <3>6 DEF Agrees
    <3> QED BY <3>7, <3>8, <3>9 DEF Agrees
  <2> QED BY <2>3, <2>4
<1> QED BY <1>3, <1>4

LEMMA OrderPosts ==
    ASSUME JobInv, OrderOK, NEW c \in Consumers, Posts(c)
    PROVE  OrderOK'
<1> USE DEF OrderOK
<1>1. InOrder' /\ \A d \in Consumers : LastOfUser(d)'
  <2>1. Turns(c, Idle)
    BY DEF Posts, Done, Turns, Busy
  <2>2. NoNewRow
    BY <2>1, IdleType, TurnNoNewRow
  <2> QED BY <2>2, OrderKept
<1>2. ASSUME NEW u \in Users, NEW p \in Problems PROVE Agrees(u, p)'
  <2>1. /\ Counted(u, p, "ACCEPTED")' = Counted(u, p, "ACCEPTED")
        /\ Counted(u, p, "REJECTED")' = Counted(u, p, "REJECTED")
        /\ stats' = stats
    BY PostsCount
  <2>2. Early(u, p)' = Early(u, p)
    BY <2>1, EarlySame
  <2> QED BY <2>1, <2>2, AgreesKept
<1> QED BY <1>1, <1>2

LEMMA OrderStep ==
    ASSUME OrderInv, RaceInv', BoardStep
    PROVE  OrderInv'
<1>2. upsets \subseteq upsets'
  BY UpsetsStay
<1> SUFFICES ASSUME upsets' = {} PROVE OrderOK'
  BY DEF OrderInv
<1>0. upsets = {} /\ "race" \notin upsets /\ "race" \notin upsets'
  BY <1>2
<1>1. SerialInv /\ JobInv /\ JobInv' /\ SerialInv' /\ Serial /\ Serial'
  BY <1>0 DEF OrderInv, RaceInv
<1>3. OrderOK
  BY <1>2 DEF OrderInv
<1>4. CASE Quiet
  <2>1. rows' = rows /\ stats' = stats /\ job' = job
    BY <1>4 DEF Quiet, redisVars
  <2> QED BY <1>3, <2>1 DEF OrderOK, InOrder, LastOfUser, Agrees, Early, Counted, RowsOf,
                           Scoring, Through, Busy, User
<1>5. ASSUME NEW w \in Users, NEW q \in Problems, Submits(w, q) PROVE OrderOK'
  BY <1>1, <1>3, <1>5, OrderSubmits
<1>6. ASSUME NEW c \in Consumers, NEW s \in DOMAIN rows, NEW verdict \in Judged,
             Stores(c, s, verdict)
      PROVE  OrderOK'
  BY <1>1, <1>3, <1>6, OrderStores
<1>7. ASSUME NEW c \in Consumers, NEW state, Moves(c, state) \/ Solves(c, state) PROVE OrderOK'
  BY <1>1, <1>3, <1>7, OrderMoves, OrderSolves
<1>8. ASSUME NEW c \in Consumers, CountsFail(c) \/ Posts(c) PROVE OrderOK'
  BY <1>1, <1>3, <1>8, OrderFails, OrderPosts
<1> QED BY <1>4, <1>5, <1>6, <1>7, <1>8 DEF BoardStep

LEMMA OrderInit ==
    ASSUME Init
    PROVE  OrderInv
<1>1. RaceInv
  BY RaceInit
<1>2. DOMAIN rows = {} /\ \A c \in Consumers : ~ Busy(c)
  BY IdleType DEF Init, Busy
<1>3. ASSUME NEW u \in Users, NEW p \in Problems PROVE Agrees(u, p)
  <2>1. \A v : Counted(u, p, v) = {}
    BY <1>2 DEF Counted, RowsOf
  <2>2. Early(u, p) = {}
    BY <2>1 DEF Early
  <2>3. stats[u].status[p] = "" /\ stats[u].fails[p] = 0
    BY DEF Init, EmptyBoard, NoStats
  <2>4. Cardinality(Early(u, p)) = 0
    BY <2>2, FS_EmptySet
  <2> QED BY <2>1, <2>3, <2>4 DEF Agrees
<1>4. InOrder
  BY <1>2 DEF InOrder
<1>5. \A c \in Consumers : LastOfUser(c)
  BY <1>2 DEF LastOfUser
<1> QED BY <1>1, <1>3, <1>4, <1>5 DEF OrderInv, OrderOK

LEMMA OrderInvariance == Spec => []OrderInv
<1>1. Init => OrderInv
  BY OrderInit
<1>2. OrderInv /\ [Next]_vars => OrderInv'
  <2> SUFFICES ASSUME OrderInv, [Next]_vars PROVE OrderInv'
    OBVIOUS
  <2>1. RaceInv /\ JobInv
    BY DEF OrderInv, RaceInv
  <2>2. RaceInv' /\ BoardStep
    BY <2>1, JobStep, RaceStep
  <2> QED BY <2>2, OrderStep
<1> QED BY <1>1, <1>2, PTL DEF Spec

(* A set of indices has a smallest one.                                    *)
UpTo(n) == 1..n

LEMMA MinOf ==
    ASSUME NEW n \in Nat, NEW S, S \subseteq UpTo(n), S # {}
    PROVE  Min(S) \in S /\ \A y \in S : Min(S) <= y
<1> DEFINE Bad == {S \cap (1..t) : t \in S}
<1>1. PICK T \in Bad : \A U \in Bad : U \subseteq T => U = T
  <2>1. Bad \subseteq SUBSET S
    OBVIOUS
  <2>2. Bad # {}
    OBVIOUS
  <2>3. IsFiniteSet(UpTo(n))
    BY FS_Interval DEF UpTo
  <2>4. IsFiniteSet(S)
    BY <2>3, FS_Subset
  <2> HIDE DEF Bad
  <2> QED BY <2>1, <2>2, <2>4, SmallestSubset
<1>2. PICK t \in S : T = S \cap (1..t)
  OBVIOUS
<1>3. ASSUME NEW y \in S, ~ (t <= y) PROVE FALSE
  <2>1. y \in Nat /\ t \in Nat /\ y < t
    BY <1>3 DEF UpTo
  <2>2. S \cap (1..y) \in Bad
    OBVIOUS
  <2>3. S \cap (1..y) \subseteq T
    BY <1>2, <2>1
  <2>4. S \cap (1..y) = T
    BY <1>1, <2>2, <2>3
  <2>5. t \in T /\ t \notin 1..y
    BY <1>2, <2>1
  <2> QED BY <2>4, <2>5
<1>4. \E x \in S : \A y \in S : x <= y
  BY <1>3
<1> QED BY <1>4, Zenon DEF Min

(* A common factor.                                                        *)
LEMMA SumTimes ==
    ASSUME NEW S, IsFiniteSet(S), NEW f, NEW h, \A x \in S : f[x] \in Nat,
           \A x \in S : h[x] = PENALTY_PER_WRONG * f[x]
    PROVE  SumOf(h, S) = PENALTY_PER_WRONG * SumOf(f, S)
<1> DEFINE Bad == {T \in SUBSET S : SumOf(h, T) # PENALTY_PER_WRONG * SumOf(f, T)}
<1> SUFFICES ASSUME Bad # {} PROVE FALSE
  <2>1. S \in SUBSET S
    OBVIOUS
  <2> QED BY <2>1
<1>1. PICK T \in Bad : \A U \in Bad : U \subseteq T => U = T
  <2>1. Bad \subseteq SUBSET S
    OBVIOUS
  <2> HIDE DEF Bad
  <2> QED BY <2>1, SmallestSubset
<1>2. T \in SUBSET S /\ SumOf(h, T) # PENALTY_PER_WRONG * SumOf(f, T)
  OBVIOUS
<1>3. T # {}
  <2>1. SumOf(h, {}) = 0 /\ SumOf(f, {}) = 0
    BY SumEmpty
  <2> QED BY <1>2, <2>1 DEF PENALTY_PER_WRONG
<1> DEFINE x == First(T)
           R == T \ {x}
<1>4. x \in S /\ R \in SUBSET S /\ R \subseteq T /\ R # T
  BY <1>2, <1>3, FirstOf
<1>5. IsFiniteSet(T) /\ IsFiniteSet(R)
  BY <1>2, <1>4, FS_Subset
<1>6. SumOf(f, T) = f[x] + SumOf(f, R) /\ SumOf(h, T) = h[x] + SumOf(h, R)
  BY <1>3, <1>5, SumFirst
<1>7. R \notin Bad
  BY <1>1, <1>4
<1>8. SumOf(h, R) = PENALTY_PER_WRONG * SumOf(f, R)
  BY <1>4, <1>7
<1>9. SumOf(f, R) \in Nat
  BY <1>4, <1>5, SumNat
<1> HIDE DEF x, R, Bad
<1>10. PICK i \in Nat, j \in Nat : i = SumOf(f, R) /\ j = f[x]
  BY <1>4, <1>9
<1>11. h[x] = 300 * j /\ SumOf(h, R) = 300 * i
  BY <1>4, <1>8, <1>10 DEF PENALTY_PER_WRONG
<1>12. SumOf(f, T) = j + i /\ SumOf(h, T) = 300 * j + 300 * i
  BY <1>6, <1>10, <1>11
<1>13. 300 * j + 300 * i = 300 * (j + i)
  OBVIOUS
<1> QED BY <1>2, <1>12, <1>13 DEF PENALTY_PER_WRONG

(* Disjoint sets have no more members than the set they are parts of.      *)
LEMMA SumCards ==
    ASSUME NEW S, IsFiniteSet(S), NEW D, IsFiniteSet(D), NEW F, NEW f,
           \A x \in S : F[x] \subseteq D /\ f[x] = Cardinality(F[x]),
           \A x, y \in S : x # y => F[x] \cap F[y] = {}
    PROVE  SumOf(f, S) \in Nat /\ SumOf(f, S) <= Cardinality(D)
<1> DEFINE All(T) == UNION {F[x] : x \in T}
           Bad == {T \in SUBSET S : SumOf(f, T) # Cardinality(All(T))}
<1>1. ASSUME Bad # {} PROVE FALSE
  <2>1. PICK T \in Bad : \A U \in Bad : U \subseteq T => U = T
    <3>1. Bad \subseteq SUBSET S
      OBVIOUS
    <3> HIDE DEF Bad
    <3> QED BY <1>1, <3>1, SmallestSubset
  <2>2. T \in SUBSET S /\ SumOf(f, T) # Cardinality(All(T))
    OBVIOUS
  <2>3. T # {}
    <3>1. SumOf(f, {}) = 0 /\ Cardinality({}) = 0
      BY SumEmpty, FS_EmptySet
    <3>2. All({}) = {}
      OBVIOUS
    <3> HIDE DEF All
    <3> QED BY <2>2, <3>1, <3>2
  <2> DEFINE x == First(T)
             R == T \ {x}
  <2>4. x \in T /\ R \in SUBSET S /\ R \subseteq T /\ R # T
    BY <2>2, <2>3, FirstOf
  <2>5. IsFiniteSet(T)
    BY <2>2, FS_Subset
  <2>6. SumOf(f, T) = f[x] + SumOf(f, R)
    BY <2>3, <2>5, SumFirst
  <2>7. SumOf(f, R) = Cardinality(All(R))
    <3>1. R \notin Bad
      BY <2>1, <2>4
    <3> QED BY <2>4, <3>1
  <2> HIDE DEF R
  <2>8. All(T) = F[x] \cup All(R) /\ F[x] \cap All(R) = {}
    <3>1. T = R \cup {x} /\ x \notin R
      BY <2>4 DEF R
    <3>2. \A y \in R : F[x] \cap F[y] = {}
      BY <2>2, <2>4, <3>1
    <3>3. F[x] \cap All(R) = {}
      BY <3>2
    <3> QED BY <3>1, <3>3
  <2>9. F[x] \subseteq D /\ All(R) \subseteq D /\ f[x] = Cardinality(F[x])
    BY <2>2, <2>4
  <2> HIDE DEF All
  <2>10. /\ IsFiniteSet(F[x]) /\ Cardinality(F[x]) \in Nat
         /\ IsFiniteSet(All(R)) /\ Cardinality(All(R)) \in Nat
    BY <2>9, FS_Subset, FS_CardinalityType
  <2>11. Cardinality(F[x] \cup All(R))
            = Cardinality(F[x]) + Cardinality(All(R)) - Cardinality(F[x] \cap All(R))
    BY <2>10, FS_Union
  <2>12. Cardinality(F[x] \cap All(R)) = 0
    BY <2>8, FS_EmptySet
  <2> QED BY <2>2, <2>6, <2>7, <2>8, <2>9, <2>10, <2>11, <2>12
<1>2. SumOf(f, S) = Cardinality(All(S))
  <2>1. S \in SUBSET S /\ S \notin Bad
    BY <1>1
  <2> QED BY <2>1
<1>3. All(S) \subseteq D
  OBVIOUS
<1> HIDE DEF All
<1>4. Cardinality(All(S)) \in Nat /\ Cardinality(All(S)) <= Cardinality(D)
  BY <1>3, FS_Subset, FS_CardinalityType
<1> QED BY <1>2, <1>4

\* Nobody is scoring: every row counts.
LEMMA AllCounted ==
    ASSUME Settled, NEW u, NEW p, NEW v
    PROVE  Counted(u, p, v) = RowsOf(u, p, v)
<1>1. \A c \in Consumers : ~ Scoring(c)
  BY DEF Settled, Scoring, Through
<1> QED BY <1>1 DEF Counted, RowsOf

(* Before every accepted row is before the first one.                      *)
LEMMA EarlyIsBefore ==
    ASSUME TypeOK, Settled, NEW u, NEW p, RowsOf(u, p, "ACCEPTED") # {}
    PROVE  Early(u, p) = fails_before_ac(u, p)
<1> DEFINE A == RowsOf(u, p, "ACCEPTED")
           R == RowsOf(u, p, "REJECTED")
<1>1. Early(u, p) = {s \in R : \A t \in A : s < t}
  BY AllCounted DEF Early
<1>2. A \subseteq DOMAIN rows /\ R \subseteq DOMAIN rows
  BY DEF RowsOf
<1>3. Len(rows) \in Nat /\ DOMAIN rows = UpTo(Len(rows))
  BY RowFacts DEF UpTo
<1>4. Min(A) \in A /\ \A t \in A : Min(A) <= t
  BY <1>2, <1>3, MinOf
<1>5. \A t \in A : t \in Nat
  BY <1>2, <1>3 DEF UpTo
<1>6. \A s \in R : s \in Nat
  BY <1>2, <1>3 DEF UpTo
<1> HIDE DEF A, R
<1>7. ASSUME NEW s \in R PROVE (\A t \in A : s < t) <=> s < Min(A)
  <2>1. PICK m \in A : m = Min(A)
    BY <1>4
  <2>2. m \in Nat /\ s \in Nat /\ \A t \in A : m <= t /\ t \in Nat
    BY <1>4, <1>5, <1>6, <2>1
  <2>3. (\A t \in A : s < t) <=> s < m
    BY <2>1, <2>2
  <2> QED BY <2>1, <2>3
<1>8. fails_before_ac(u, p) = {s \in R : s < Min(A)}
  BY DEF fails_before_ac, A, R
<1> QED BY <1>1, <1>7, <1>8

(* Once all is scored the hash of a user has what the trigger computes.    *)
LEMMA HashIsResult ==
    ASSUME OrderInv, upsets = {}, Settled, NEW u \in Users
    PROVE  /\ stats[u].solvedCount = Cardinality(first_ac(u))
           /\ stats[u].totalPenaltySeconds = total_penalty(u)
           /\ SolvedOf(stats[u]) = first_ac(u)
<1> DEFINE A == first_ac(u)
           f == stats[u].fails
           g == FailsBefore(u)
           h == [p \in Problems |-> PENALTY_PER_WRONG * g[p]]
<1>1. TypeOK /\ StatOK(stats[u]) /\ stats[u] \in Stats
  BY DEF OrderInv, RaceInv, SerialInv, JobInv, TypeOK, BoardTypeOK
<1>2. \A p \in Problems : Agrees(u, p)
  BY DEF OrderInv, OrderOK
<1>3. SolvedOf(stats[u]) = A
  <2>1. \A p \in Problems : stats[u].status[p] = "AC" <=> RowsOf(u, p, "ACCEPTED") # {}
    BY <1>2, AllCounted DEF Agrees
  <2> QED BY <2>1 DEF SolvedOf, first_ac
<1>4. /\ A \subseteq Problems /\ IsFiniteSet(A)
      /\ \A p \in Problems : g[p] \in Nat
  BY <1>1, FirstAcFinite
<1>5. ASSUME NEW p \in A PROVE f[p] = g[p]
  <2>1. p \in Problems /\ RowsOf(u, p, "ACCEPTED") # {}
    BY <1>5 DEF first_ac
  <2>2. Early(u, p) = fails_before_ac(u, p)
    BY <1>1, <2>1, EarlyIsBefore
  <2>3. f[p] = Cardinality(Early(u, p))
    BY <1>2, <2>1 DEF Agrees
  <2> QED BY <2>1, <2>2, <2>3 DEF FailsBefore
<1>6. total_penalty(u) = SumOf(h, A)
  BY <1>1, TotalPenalty
<1> HIDE DEF A, f, g
<1>7. SumOf(f, A) = SumOf(g, A)
  BY <1>4, <1>5, SumSame
<1>8. /\ \A p \in A : g[p] \in Nat
      /\ \A p \in A : h[p] = PENALTY_PER_WRONG * g[p]
  BY <1>4
<1> HIDE DEF h
<1>9. SumOf(h, A) = PENALTY_PER_WRONG * SumOf(g, A)
  BY <1>4, <1>8, SumTimes
<1>10. /\ stats[u].solvedCount = Cardinality(A)
       /\ stats[u].totalPenaltySeconds = PENALTY_PER_WRONG * SumOf(f, A)
  BY <1>1, <1>3 DEF StatOK, f
<1> QED BY <1>3, <1>6, <1>7, <1>9, <1>10 DEF A

(* A row is a failure on one problem only, so the penalty is bounded by    *)
(* the number of rows.                                                     *)
LEMMA PenaltyBound ==
    ASSUME TypeOK, NEW u
    PROVE  \E k \in Nat : k <= MaxRows /\ total_penalty(u) = PENALTY_PER_WRONG * k
<1> DEFINE A == first_ac(u)
           g == FailsBefore(u)
           h == [p \in Problems |-> PENALTY_PER_WRONG * g[p]]
           F == [p \in Problems |-> fails_before_ac(u, p)]
<1>1. A \subseteq Problems /\ IsFiniteSet(A) /\ \A p \in Problems : g[p] \in Nat
  BY FirstAcFinite
<1>2. total_penalty(u) = SumOf(h, A)
  BY TotalPenalty
<1>3. /\ IsFiniteSet(DOMAIN rows) /\ Cardinality(DOMAIN rows) = Len(rows)
      /\ Len(rows) \in Nat /\ Len(rows) <= MaxRows
  BY RowsOfFinite, RowFacts DEF TypeOK
<1>4. \A p \in Problems : F[p] \subseteq DOMAIN rows /\ g[p] = Cardinality(F[p])
  BY DEF fails_before_ac, RowsOf, FailsBefore
<1>5. ASSUME NEW p \in Problems, NEW q \in Problems, p # q PROVE F[p] \cap F[q] = {}
  <2>1. \A s \in F[p] : s \in RowsOf(u, p, "REJECTED")
    BY DEF fails_before_ac
  <2>2. \A s \in F[q] : s \in RowsOf(u, q, "REJECTED")
    BY DEF fails_before_ac
  <2>3. ASSUME NEW s, s \in RowsOf(u, p, "REJECTED"), s \in RowsOf(u, q, "REJECTED")
        PROVE  FALSE
    <3>1. /\ rows[s] = [user |-> u, problem |-> p, status |-> "REJECTED"]
          /\ rows[s] = [user |-> u, problem |-> q, status |-> "REJECTED"]
      BY <2>3 DEF RowsOf
    <3> QED BY <1>5, <3>1
  <2> HIDE DEF F
  <2> QED BY <2>1, <2>2, <2>3
<1>6. \A p \in A : h[p] = PENALTY_PER_WRONG * g[p] /\ g[p] \in Nat
  BY <1>1
<1> HIDE DEF A, g, h, F
<1>7. SumOf(h, A) = PENALTY_PER_WRONG * SumOf(g, A)
  BY <1>1, <1>6, SumTimes
<1>8. /\ \A p \in A : F[p] \subseteq DOMAIN rows /\ g[p] = Cardinality(F[p])
      /\ \A p, q \in A : p # q => F[p] \cap F[q] = {}
  BY <1>1, <1>4, <1>5
<1>9. SumOf(g, A) \in Nat /\ SumOf(g, A) <= Cardinality(DOMAIN rows)
  BY <1>1, <1>3, <1>8, SumCards
<1>10. SumOf(g, A) \in Nat /\ SumOf(g, A) <= MaxRows
  BY <1>3, <1>9, ScoreAssumption
<1> QED BY <1>2, <1>7, <1>10

(* A score orders by the number of solved problems first.                  *)
LEMMA ScoreOrder ==
    ASSUME NEW a \in Nat, NEW b \in Nat, NEW x \in Nat, NEW y \in Nat,
           x < SOLVED_SCORE_WEIGHT, y < SOLVED_SCORE_WEIGHT
    PROVE  a * SOLVED_SCORE_WEIGHT - x > b * SOLVED_SCORE_WEIGHT - y
               <=> a > b \/ (a = b /\ x < y)
  BY DEF SOLVED_SCORE_WEIGHT

\* Unless a call failed, a problem with an accepted row that was scored is solved.
Reached(u, p) == Counted(u, p, "ACCEPTED") # {} => stats[u].status[p] = "AC"

ReachedInv ==
    JobInv /\ ("fault" \notin upsets => \A u \in Users, p \in Problems : Reached(u, p))

LEMMA ReachedStep ==
    ASSUME ReachedInv, JobInv', BoardStep
    PROVE  ReachedInv'
<1>1. JobInv /\ stats \in [Users -> Stats] /\ "ACCEPTED" \in Judged
  BY DEF ReachedInv, JobInv, TypeOK, BoardTypeOK, Judged
<1> SUFFICES ASSUME "fault" \notin upsets', NEW u \in Users, NEW p \in Problems
             PROVE  Reached(u, p)'
  BY DEF ReachedInv
<1>2. Reached(u, p) /\ "fault" \notin upsets
  BY UpsetsStay DEF ReachedInv
<1>3. ASSUME stats'[u].status[p] = stats[u].status[p] \/ stats'[u].status[p] = "AC",
             Counted(u, p, "ACCEPTED")' = Counted(u, p, "ACCEPTED")
      PROVE  Reached(u, p)'
  BY <1>2, <1>3 DEF Reached
<1>4. CASE \/ Quiet
           \/ \E w \in Users, q \in Problems : Submits(w, q)
           \/ \E c \in Consumers, s \in DOMAIN rows, verdict \in Judged : Stores(c, s, verdict)
  <2>1. stats' = stats
    BY <1>4 DEF Quiet, Submits, Stores, redisVars
  <2>2. Counted(u, p, "ACCEPTED")' = Counted(u, p, "ACCEPTED")
    BY <1>1, <1>4, CountedKept
  <2> QED BY <1>3, <2>1, <2>2
<1>5. ASSUME NEW c \in Consumers, NEW state, Moves(c, state) PROVE Reached(u, p)'
  <2>1. stats' = stats /\ (Reads(c, state) \/ Leaves(c, state))
    BY <1>5 DEF Moves, redisVars
  <2>2. CASE Reads(c, state)
    <3>1. Counted(u, p, "ACCEPTED")' = Counted(u, p, "ACCEPTED")
      BY <1>1, <1>5, <2>2, MovesCount
    <3> QED BY <1>3, <2>1, <3>1
  <2>3. CASE Leaves(c, state)
    <3>1. /\ state = Idle /\ job[c].pc = "status" /\ Busy(c)
          /\ stats[User(c)].status[Problem(c)] = "AC"
      BY <2>3 DEF Leaves, Busy
    <3>2. Scoring(c)
      BY <3>1 DEF Scoring, Through
    <3>3. Counted(u, p, "ACCEPTED")'
             = Counted(u, p, "ACCEPTED") \cup (RowsOf(u, p, "ACCEPTED") \cap {job[c].row})
      BY <1>1, <1>5, <3>1, <3>2, MovesCount
    <3>4. CASE u = User(c) /\ p = Problem(c)
      BY <2>1, <3>1, <3>4 DEF Reached
    <3>5. CASE ~ (u = User(c) /\ p = Problem(c))
      <4>1. job[c].row \notin RowsOf(u, p, "ACCEPTED")
        BY <1>1, <3>1, <3>5, OwnRow
      <4>2. Counted(u, p, "ACCEPTED")' = Counted(u, p, "ACCEPTED")
        BY <3>3, <4>1
      <4> QED BY <1>3, <2>1, <4>2
    <3> QED BY <3>4, <3>5
  <2> QED BY <2>1, <2>2, <2>3
<1>6. ASSUME NEW c \in Consumers, NEW state, Solves(c, state) PROVE Reached(u, p)'
  <2>1. /\ SolvedIn(stats[User(c)], stats'[User(c)], Problem(c), job[c].fails)
        /\ OnlyOf(User(c)) /\ User(c) \in Users /\ Problem(c) \in Problems
        /\ Counted(u, p, "ACCEPTED")' = IF u = User(c) /\ p = Problem(c)
                                        THEN Counted(u, p, "ACCEPTED") \cup {job[c].row}
                                        ELSE Counted(u, p, "ACCEPTED")
    BY <1>1, <1>6, SolvesCount
  <2>2. CASE u = User(c)
    <3>1. /\ stats'[u].status = [stats[u].status EXCEPT ![Problem(c)] = "AC"]
          /\ stats[u].status \in [Problems -> {"", "AC"}]
      BY <1>1, <2>1, <2>2 DEF SolvedIn, Stats
    <3>2. CASE p = Problem(c)
      BY <2>1, <3>1, <3>2 DEF Reached
    <3>3. CASE p # Problem(c)
      BY <1>3, <2>1, <3>1, <3>3
    <3> QED BY <3>2, <3>3
  <2>3. CASE u # User(c)
    BY <1>3, <2>1, <2>3 DEF OnlyOf
  <2> QED BY <2>2, <2>3
<1>7. ASSUME NEW c \in Consumers, CountsFail(c) PROVE Reached(u, p)'
  <2>1. /\ FailedIn(stats[User(c)], stats'[User(c)], Problem(c)) /\ OnlyOf(User(c))
        /\ Counted(u, p, "ACCEPTED")' = Counted(u, p, "ACCEPTED")
    BY <1>1, <1>7, FailsCount
  <2>2. stats'[u].status = stats[u].status
    <3>1. CASE u = User(c)
      BY <2>1, <3>1 DEF FailedIn
    <3>2. CASE u # User(c)
      BY <2>1, <3>2 DEF OnlyOf
    <3> QED BY <3>1, <3>2
  <2> QED BY <1>3, <2>1, <2>2
<1>8. ASSUME NEW c \in Consumers, Posts(c) PROVE Reached(u, p)'
  <2>1. Counted(u, p, "ACCEPTED")' = Counted(u, p, "ACCEPTED") /\ stats' = stats
    BY <1>1, <1>8, PostsCount
  <2> QED BY <1>3, <2>1
<1> QED BY <1>4, <1>5, <1>6, <1>7, <1>8 DEF BoardStep

LEMMA ReachedInvariance == Spec => []ReachedInv
<1>1. Init => ReachedInv
  <2> SUFFICES ASSUME Init, NEW u \in Users, NEW p \in Problems PROVE Reached(u, p)
    BY JobInit DEF ReachedInv
  <2>1. rows = <<>>
    BY DEF Init
  <2>2. DOMAIN rows = {}
    BY <2>1
  <2>3. Counted(u, p, "ACCEPTED") = {}
    BY <2>2 DEF Counted, RowsOf
  <2> QED BY <2>3 DEF Reached
<1>2. ReachedInv /\ [Next]_vars => ReachedInv'
  BY JobStep, ReachedStep DEF ReachedInv
<1> QED BY <1>1, <1>2, PTL DEF Spec

\* In whatever order the verdicts came, the hash and the trigger count the same.
LEMMA SolvedIsResult ==
    ASSUME RaceInv, ReachedInv, CreditIsBacked, Settled, upsets \subseteq {"order"},
           NEW u \in Users
    PROVE  stats[u].solvedCount = Cardinality(first_ac(u))
<1>1. "race" \notin upsets /\ "fault" \notin upsets
  OBVIOUS
<1>2. StatOK(stats[u])
  BY <1>1 DEF RaceInv, SerialInv
<1>3. ASSUME NEW p \in Problems
      PROVE  stats[u].status[p] = "AC" <=> RowsOf(u, p, "ACCEPTED") # {}
  <2>1. Reached(u, p)
    BY <1>1 DEF ReachedInv
  <2> QED BY <2>1, AllCounted DEF Reached, CreditIsBacked
<1>4. SolvedOf(stats[u]) = first_ac(u)
  BY <1>3 DEF SolvedOf, first_ac
<1> QED BY <1>2, <1>4 DEF StatOK

(* The trigger's numbers and its order of the users are those of the live  *)
(* board, as long as no user can have so many wrong submissions that their *)
(* penalty outweighs a solved problem (33 334 in one contest).             *)
THEOREM LiveBoardIsFinal ==
    ASSUME PENALTY_PER_WRONG * MaxRows < SOLVED_SCORE_WEIGHT
    PROVE  Spec => []LiveMatchesFinal
<1>1. RaceInv /\ ReachedInv /\ CreditIsBacked /\ Settled /\ upsets \subseteq {"order"}
          => \A u \in Users : stats[u].solvedCount = Cardinality(first_ac(u))
  BY SolvedIsResult
<1>2. OrderInv /\ Settled /\ upsets = {} =>
          /\ \A u \in Users : stats[u].totalPenaltySeconds = total_penalty(u)
          /\ \A u, v \in ranked : leaderboard[u] > leaderboard[v] <=> Before(u, v)
  <2> SUFFICES ASSUME OrderInv, upsets = {}, Settled
               PROVE  \A u, v \in ranked : leaderboard[u] > leaderboard[v] <=> Before(u, v)
    BY HashIsResult
  <2>1. TypeOK /\ stats \in [Users -> Stats]
    BY DEF OrderInv, RaceInv, SerialInv, JobInv, TypeOK, BoardTypeOK
  <2>2. ASSUME NEW u \in Users
        PROVE  /\ Cardinality(first_ac(u)) \in Nat
               /\ total_penalty(u) \in Nat /\ total_penalty(u) < SOLVED_SCORE_WEIGHT
    <3>1. PICK k \in Nat : k <= MaxRows /\ total_penalty(u) = PENALTY_PER_WRONG * k
      BY <2>1, PenaltyBound
    <3>2. 300 * k <= 300 * MaxRows /\ 300 * k \in Nat
      BY <3>1, ScoreAssumption
    <3>3. 300 * k < SOLVED_SCORE_WEIGHT
      BY <3>2, ScoreAssumption DEF PENALTY_PER_WRONG, SOLVED_SCORE_WEIGHT
    <3> QED BY <2>1, <3>1, <3>2, <3>3, FirstAcFinite DEF PENALTY_PER_WRONG
  <2>3. ASSUME NEW u \in ranked
        PROVE  /\ u \in Users
               /\ leaderboard[u] = Cardinality(first_ac(u)) * SOLVED_SCORE_WEIGHT
                                       - total_penalty(u)
    <3>1. u \in Users /\ first_ac(u) # {}
      BY <2>3 DEF ranked
    <3>2. Cardinality(first_ac(u)) # 0
      BY <2>1, <3>1, FirstAcFinite, FS_EmptySet
    <3>3. leaderboard[u] = OnBoard(u)
      <4>1. ShownOK(u) /\ ~ Posting(u)
        BY <3>1 DEF OrderInv, RaceInv, SerialInv, Settled, Posting
      <4> QED BY <4>1 DEF ShownOK
    <3> QED BY <3>1, <3>2, <3>3, HashIsResult DEF OnBoard, Score
  <2>4. ASSUME NEW u \in ranked, NEW v \in ranked
        PROVE  leaderboard[u] > leaderboard[v] <=> Before(u, v)
    <3>1. PICK a \in Nat, x \in Nat : /\ a = Cardinality(first_ac(u)) /\ x = total_penalty(u)
                                      /\ x < SOLVED_SCORE_WEIGHT
      BY <2>2, <2>3
    <3>2. PICK b \in Nat, y \in Nat : /\ b = Cardinality(first_ac(v)) /\ y = total_penalty(v)
                                      /\ y < SOLVED_SCORE_WEIGHT
      BY <2>2, <2>3
    <3>3. /\ leaderboard[u] = a * SOLVED_SCORE_WEIGHT - x
          /\ leaderboard[v] = b * SOLVED_SCORE_WEIGHT - y
      BY <2>3, <3>1, <3>2
    <3>4. Before(u, v) <=> a > b \/ (a = b /\ x < y)
      BY <3>1, <3>2 DEF Before
    <3> QED BY <3>1, <3>2, <3>3, <3>4, ScoreOrder
  <2> QED BY <2>4
<1>3. OrderInv /\ RaceInv /\ ReachedInv /\ CreditIsBacked => LiveMatchesFinal
  BY <1>1, <1>2 DEF LiveMatchesFinal
<1> QED BY <1>3, OrderInvariance, RaceInvariance, ReachedInvariance, CreditsAreBacked, PTL

Unraced == "race" \notin upsets

(* One consumer never handles two results at once.                         *)
LEMMA OneConsumer ==
    ASSUME NEW d, Consumers = {d}
    PROVE  Spec => [](SerialInv /\ Unraced)
<1>1. Init => Unraced
  BY DEF Init, Unraced
<1>2. RaceInv /\ Unraced /\ [Next]_vars => Unraced'
  <2> SUFFICES ASSUME RaceInv, Unraced, BoardStep PROVE Unraced'
    BY StepEffects DEF RaceInv
  <2>1. ASSUME NEW c \in Consumers, NEW s \in DOMAIN rows, NEW verdict \in Judged,
               Stores(c, s, verdict)
        PROVE  Unraced'
    <3>1. ~ BeingScored(rows[s].user)
      BY <2>1 DEF Stores, BeingScored, Busy
    <3> QED BY <2>1, <3>1 DEF Stores, Unraced
  <2>2. ASSUME upsets' \in {upsets, upsets \cup {"fault"}} PROVE Unraced'
    BY <2>2 DEF Unraced
  <2>3. ASSUME NEW c \in Consumers, NEW state, Moves(c, state) \/ Solves(c, state)
        PROVE  Unraced'
    BY <2>2, <2>3 DEF Moves, Solves
  <2>4. ASSUME NEW c \in Consumers, CountsFail(c) \/ Posts(c) PROVE Unraced'
    BY <2>2, <2>4 DEF CountsFail, Posts
  <2>5. ASSUME NEW u \in Users, NEW p \in Problems, Submits(u, p) PROVE Unraced'
    BY <2>2, <2>5 DEF Submits
  <2>6. CASE Quiet
    BY <2>2, <2>6 DEF Quiet
  <2> QED BY <2>1, <2>3, <2>4, <2>5, <2>6 DEF BoardStep
<1>3. RaceInv /\ Unraced => SerialInv
  BY DEF RaceInv, Unraced
<1> QED BY <1>1, <1>2, <1>3, RaceInvariance, PTL DEF Spec

-----------------------------------------------------------------------------
(* How far a problem can be counted too often.                             *)

\* The accepted rows of a user that were scored, or given up.
ScoredOf(u) == {s \in DOMAIN rows : \E p \in Problems : s \in Counted(u, p, "ACCEPTED")}

TallyOK(u) ==
    /\ Cardinality(SolvedOf(stats[u])) <= stats[u].solvedCount
    /\ stats[u].solvedCount <= Cardinality(ScoredOf(u))

TallyInv == JobInv /\ \A u \in Users : TallyOK(u)

LEMMA ScoredFinite ==
    ASSUME TypeOK, NEW u
    PROVE  IsFiniteSet(ScoredOf(u)) /\ Cardinality(ScoredOf(u)) \in Nat
<1>1. rows \in Seq(RowType) /\ ScoredOf(u) \subseteq DOMAIN rows
  BY RowFacts DEF ScoredOf
<1> QED BY <1>1, IndicesFinite

\* A hash that counts what it did is still backed: no row that was scored is lost.
LEMMA TallyKept ==
    ASSUME JobInv, JobInv', NEW u \in Users, TallyOK(u),
           stats'[u].solvedCount = stats[u].solvedCount,
           stats'[u].status = stats[u].status,
           \A p \in Problems : Counted(u, p, "ACCEPTED") \subseteq Counted(u, p, "ACCEPTED")'
    PROVE  TallyOK(u)'
<1>1. ScoredOf(u) \subseteq ScoredOf(u)'
  <2>1. ASSUME NEW s \in ScoredOf(u) PROVE s \in ScoredOf(u)'
    <3>1. PICK p \in Problems : s \in Counted(u, p, "ACCEPTED")
      BY DEF ScoredOf
    <3>2. s \in Counted(u, p, "ACCEPTED")'
      BY <3>1
    <3>3. s \in DOMAIN rows'
      BY <3>2 DEF Counted, RowsOf
    <3> QED BY <3>2, <3>3 DEF ScoredOf
  <2> QED BY <2>1
<1>2. IsFiniteSet(ScoredOf(u)') /\ Cardinality(ScoredOf(u)) \in Nat
  <2>1. Cardinality(ScoredOf(u)) \in Nat
    BY ScoredFinite DEF JobInv
  <2>2. rows' \in Seq(RowType) /\ ScoredOf(u)' \subseteq DOMAIN rows'
    BY DEF JobInv, TypeOK, RowType, ScoredOf
  <2> QED BY <2>1, <2>2, IndicesFinite
<1>3. /\ Cardinality(ScoredOf(u)) <= Cardinality(ScoredOf(u)')
      /\ Cardinality(ScoredOf(u)') \in Nat
  BY <1>1, <1>2, FS_Subset, FS_CardinalityType
<1>4. SolvedOf(stats'[u]) = SolvedOf(stats[u])
  BY DEF SolvedOf
<1>5. stats[u].solvedCount \in Nat
  <2>1. stats[u] \in Stats
    BY DEF JobInv, TypeOK, BoardTypeOK
  <2> QED BY <2>1 DEF Stats
<1>6. /\ Cardinality(SolvedOf(stats'[u])) <= stats'[u].solvedCount
      /\ stats'[u].solvedCount <= Cardinality(ScoredOf(u)')
  BY <1>2, <1>3, <1>4, <1>5 DEF TallyOK
<1> QED BY <1>6 DEF TallyOK

LEMMA TallySolves ==
    ASSUME TallyInv, JobInv', NEW c \in Consumers, NEW state, Solves(c, state),
           NEW u \in Users, u = User(c)
    PROVE  TallyOK(u)'
<1>1. JobInv /\ stats \in [Users -> Stats] /\ stats[u] \in Stats /\ TallyOK(u) /\ TypeOK
  BY DEF TallyInv, JobInv, TypeOK, BoardTypeOK
<1>2. PICK q \in Problems : q = Problem(c)
  BY <1>1, SolvesCount
<1>3. /\ Busy(c) /\ job[c].fails \in Nat
      /\ SolvedIn(stats[u], stats'[u], q, job[c].fails)
      /\ rows[job[c].row].status = "ACCEPTED"
  BY <1>1, <1>2, SolvesCount
<1>4. ASSUME NEW p \in Problems
      PROVE  Counted(u, p, "ACCEPTED")' = IF p = q
                                          THEN Counted(u, p, "ACCEPTED") \cup {job[c].row}
                                          ELSE Counted(u, p, "ACCEPTED")
  BY <1>1, <1>2, SolvesCount
<1>5. job[c].row \in DOMAIN rows /\ rows' = rows
  BY <1>1, <1>3, JobFacts DEF Solves
<1>6. ScoredOf(u)' = ScoredOf(u) \cup {job[c].row}
  <2>1. ASSUME NEW s PROVE s \in ScoredOf(u)' <=> s \in ScoredOf(u) \cup {job[c].row}
    BY <1>2, <1>4, <1>5 DEF ScoredOf
  <2> QED BY <2>1
<1>7. job[c].row \notin ScoredOf(u)
  <2>1. Scoring(c)
    BY DEF Solves, Scoring, Through
  <2> QED BY <2>1 DEF ScoredOf, Counted
<1>8. /\ Cardinality(ScoredOf(u)') = Cardinality(ScoredOf(u)) + 1
      /\ Cardinality(ScoredOf(u)) \in Nat
  BY <1>1, <1>6, <1>7, ScoredFinite, CardOneMore
<1>9. /\ stats'[u].solvedCount = stats[u].solvedCount + 1 /\ stats[u].solvedCount \in Nat
      /\ stats'[u].status = [stats[u].status EXCEPT ![q] = "AC"]
      /\ stats[u].status \in [Problems -> {"", "AC"}]
  BY <1>1, <1>3 DEF SolvedIn, Stats
<1>10. SolvedOf(stats'[u]) = SolvedOf(stats[u]) \cup {q}
  BY <1>9 DEF SolvedOf
<1>11. IsFiniteSet(SolvedOf(stats[u])) /\ Cardinality(SolvedOf(stats[u])) \in Nat
  BY <1>1, SolvedFinite
<1>12. PICK k \in Nat, m \in Nat, n \in Nat :
           /\ k = Cardinality(SolvedOf(stats[u])) /\ m = Cardinality(ScoredOf(u))
           /\ n = stats[u].solvedCount
  BY <1>8, <1>9, <1>11
<1>13. k <= n /\ n <= m
  BY <1>1, <1>12 DEF TallyOK
<1>14. PICK old, new : old = SolvedOf(stats[u]) /\ new = SolvedOf(stats'[u])
  OBVIOUS
<1>15. Cardinality(new) = k \/ Cardinality(new) = k + 1
  <2>1. new = old \cup {q} /\ IsFiniteSet(old) /\ Cardinality(old) = k
    BY <1>10, <1>11, <1>12, <1>14
  <2>2. CASE q \in old
    BY <2>1, <2>2
  <2>3. CASE q \notin old
    BY <2>1, <2>3, CardOneMore
  <2> QED BY <2>2, <2>3
<1>16. Cardinality(new) <= n + 1 /\ n + 1 <= m + 1
  BY <1>13, <1>15
<1>17. Cardinality(ScoredOf(u)') = m + 1 /\ stats'[u].solvedCount = n + 1
  BY <1>8, <1>9, <1>12
<1>18. /\ Cardinality(SolvedOf(stats'[u])) <= stats'[u].solvedCount
       /\ stats'[u].solvedCount <= Cardinality(ScoredOf(u)')
  BY <1>14, <1>16, <1>17
<1> QED BY <1>18 DEF TallyOK

LEMMA TallyStep ==
    ASSUME TallyInv, JobInv', BoardStep
    PROVE  TallyInv'
<1>1. JobInv /\ stats \in [Users -> Stats]
  BY DEF TallyInv, JobInv, TypeOK, BoardTypeOK
<1> SUFFICES ASSUME NEW u \in Users
             PROVE  TallyOK(u)'
  BY DEF TallyInv
<1>2. TallyOK(u) /\ "ACCEPTED" \in Judged
  BY DEF TallyInv, Judged
<1>3. CASE \/ Quiet
           \/ \E w \in Users, q \in Problems : Submits(w, q)
           \/ \E c \in Consumers, s \in DOMAIN rows, verdict \in Judged : Stores(c, s, verdict)
  <2>1. stats' = stats
    BY <1>3 DEF Quiet, Submits, Stores, redisVars
  <2>2. \A p \in Problems : Counted(u, p, "ACCEPTED")' = Counted(u, p, "ACCEPTED")
    BY <1>1, <1>2, <1>3, CountedKept
  <2> QED BY <1>1, <1>2, <2>1, <2>2, TallyKept
<1>4. ASSUME NEW c \in Consumers, NEW state, Moves(c, state) PROVE TallyOK(u)'
  <2>1. stats' = stats
    BY <1>4 DEF Moves, redisVars
  <2>2. ASSUME NEW p \in Problems
        PROVE  Counted(u, p, "ACCEPTED") \subseteq Counted(u, p, "ACCEPTED")'
    <3>1. Reads(c, state) \/ state = Idle
      BY <1>4 DEF Moves, Leaves
    <3> QED BY <1>1, <1>4, <3>1, MovesCount
  <2> QED BY <1>1, <1>2, <2>1, <2>2, TallyKept
<1>5. ASSUME NEW c \in Consumers, NEW state, Solves(c, state) PROVE TallyOK(u)'
  <2>1. CASE u = User(c)
    BY <1>5, <2>1, TallySolves
  <2>2. CASE u # User(c)
    <3>1. stats'[u] = stats[u]
      BY <1>1, <1>5, <2>2, SolvesCount DEF OnlyOf
    <3>2. \A p \in Problems : Counted(u, p, "ACCEPTED")' = Counted(u, p, "ACCEPTED")
      BY <1>1, <1>5, <2>2, SolvesCount
    <3> QED BY <1>1, <1>2, <3>1, <3>2, TallyKept
  <2> QED BY <2>1, <2>2
<1>6. ASSUME NEW c \in Consumers, CountsFail(c) PROVE TallyOK(u)'
  <2>1. \A p \in Problems : Counted(u, p, "ACCEPTED")' = Counted(u, p, "ACCEPTED")
    BY <1>1, <1>6, FailsCount
  <2>2. FailedIn(stats[User(c)], stats'[User(c)], Problem(c)) /\ OnlyOf(User(c))
    BY <1>1, <1>6, FailsCount
  <2>3. stats'[u].solvedCount = stats[u].solvedCount /\ stats'[u].status = stats[u].status
    <3>1. CASE u = User(c)
      BY <2>2, <3>1 DEF FailedIn
    <3>2. CASE u # User(c)
      BY <2>2, <3>2 DEF OnlyOf
    <3> QED BY <3>1, <3>2
  <2> QED BY <1>1, <1>2, <2>1, <2>3, TallyKept
<1>7. ASSUME NEW c \in Consumers, Posts(c) PROVE TallyOK(u)'
  <2>1. \A p \in Problems : Counted(u, p, "ACCEPTED")' = Counted(u, p, "ACCEPTED")
    BY <1>1, <1>7, PostsCount
  <2>2. stats' = stats
    BY <1>1, <1>7, PostsCount
  <2> QED BY <1>1, <1>2, <2>1, <2>2, TallyKept
<1> QED BY <1>3, <1>4, <1>5, <1>6, <1>7 DEF BoardStep

(* However many consumers score the results of one user at once, and       *)
(* whatever fails, each credit has an accepted submission of its own; and  *)
(* until two results of one user were handled at once each solved problem  *)
(* counts once.                                                            *)
THEOREM SolvedCountBounds == Spec => []SolvedCountIsBounded
<1>1. TallyInv /\ RaceInv => SolvedCountIsBounded
  <2> SUFFICES ASSUME TallyInv, RaceInv, NEW u \in Users
               PROVE  /\ Cardinality({p \in Problems : stats[u].status[p] = "AC"})
                             <= stats[u].solvedCount
                      /\ stats[u].solvedCount <=
                             Cardinality({s \in DOMAIN rows : rows[s].user = u
                                              /\ rows[s].status = "ACCEPTED"})
                      /\ "race" \notin upsets =>
                             stats[u].solvedCount =
                                 Cardinality({p \in Problems : stats[u].status[p] = "AC"})
    BY DEF SolvedCountIsBounded
  <2> DEFINE Accepted == {s \in DOMAIN rows : rows[s].user = u /\ rows[s].status = "ACCEPTED"}
  <2>1. TypeOK /\ TallyOK(u) /\ stats[u] \in Stats
    BY DEF TallyInv, JobInv, TypeOK, BoardTypeOK
  <2>2. ScoredOf(u) \subseteq Accepted /\ Accepted \subseteq DOMAIN rows
    BY DEF ScoredOf, Counted, RowsOf
  <2>3. IsFiniteSet(Accepted) /\ Cardinality(Accepted) \in Nat
    <3>1. rows \in Seq(RowType)
      BY <2>1, RowFacts
    <3> HIDE DEF Accepted
    <3> QED BY <2>2, <3>1, IndicesFinite
  <2> HIDE DEF Accepted
  <2>4. Cardinality(ScoredOf(u)) <= Cardinality(Accepted) /\ Cardinality(ScoredOf(u)) \in Nat
    BY <2>1, <2>2, <2>3, FS_Subset, ScoredFinite
  <2>5. stats[u].solvedCount \in Nat
    BY <2>1 DEF Stats
  <2>6. stats[u].solvedCount <= Cardinality(Accepted)
    BY <2>1, <2>3, <2>4, <2>5 DEF TallyOK
  <2>7. Cardinality({p \in Problems : stats[u].status[p] = "AC"}) <= stats[u].solvedCount
    BY <2>1 DEF TallyOK, SolvedOf
  <2>8. "race" \notin upsets => stats[u].solvedCount =
                                    Cardinality({p \in Problems : stats[u].status[p] = "AC"})
    BY DEF RaceInv, SerialInv, StatOK, SolvedOf
  <2> QED BY <2>6, <2>7, <2>8 DEF Accepted
<1>2. Init => TallyInv
  <2> SUFFICES ASSUME Init PROVE TallyInv
    OBVIOUS
  <2>1. JobInv /\ TypeOK
    BY JobInit DEF JobInv
  <2>2. ASSUME NEW u \in Users PROVE TallyOK(u)
    <3>1. stats[u] = NoStats /\ NoStats.solvedCount = 0
      BY DEF Init, EmptyBoard, NoStats
    <3>2. Cardinality(SolvedOf(stats[u])) = 0
      BY <3>1, NoStatsOK DEF StatOK
    <3>3. PICK n \in Nat : n = Cardinality(ScoredOf(u))
      BY <2>1, ScoredFinite
    <3> QED BY <3>1, <3>2, <3>3 DEF TallyOK
  <2> QED BY <2>1, <2>2 DEF TallyInv
<1>3. TallyInv /\ [Next]_vars => TallyInv'
  BY JobStep, TallyStep DEF TallyInv
<1> QED BY <1>1, <1>2, <1>3, RaceInvariance, PTL DEF Spec

-----------------------------------------------------------------------------
(* The board on the phones (ContestRoom).                                  *)
(*                                                                         *)
(* The ws-server reads the same keys of Redis.  What its phones show is    *)
(* proved of ContestRoom, with the one consumer it has; that this consumer *)
(* is the one of this module comes last.                                   *)

CONSTANTS Phones, UserOf, Ticks, TopN, MaxFails, None
VARIABLES scorer, tick, snapshot, joined, hook

Room == INSTANCE ContestRoom

(* Counting who is ahead numbers the members of a finite, totally ordered  *)
(* set from 1 on, each number once.                                        *)
TotalOrder(R, S) ==
    /\ \A x \in S : <<x, x>> \notin R
    /\ \A x, y \in S : x # y => <<x, y>> \in R \/ <<y, x>> \in R
    /\ \A x, y, z \in S : <<x, y>> \in R /\ <<y, z>> \in R => <<x, z>> \in R

Places(R, S) == [x \in S |-> 1 + Cardinality({y \in S : <<y, x>> \in R})]

\* f numbers S from 1 on, in the order R.
Numbers(f, R, S) ==
    /\ \A x \in S : f[x] \in 1..Cardinality(S)
    /\ \A x, y \in S : <<x, y>> \in R => f[x] < f[y]
    /\ \A x, y \in S : f[x] = f[y] => x = y
    /\ \A i \in 1..Cardinality(S) : \E x \in S : f[x] = i

LEMMA CountsOrder ==
    ASSUME NEW S, IsFiniteSet(S), NEW R, TotalOrder(R, S)
    PROVE  Numbers(Places(R, S), R, S)
<1>1. PICK f : f = Places(R, S)
  OBVIOUS
<1> DEFINE D(x) == {y \in S : <<y, x>> \in R}
<1>2. Cardinality(S) \in Nat
  BY FS_CardinalityType
<1>3. ASSUME NEW x \in S
      PROVE  /\ IsFiniteSet(D(x)) /\ Cardinality(D(x)) \in Nat
             /\ f[x] = 1 + Cardinality(D(x)) /\ x \notin D(x)
             /\ IsFiniteSet(D(x) \cup {x})
             /\ Cardinality(D(x) \cup {x}) = f[x]
  <2>1. D(x) \subseteq S /\ x \notin D(x) /\ f[x] = 1 + Cardinality(D(x))
    BY <1>1 DEF TotalOrder, Places
  <2> HIDE DEF D
  <2>2. IsFiniteSet(D(x)) /\ Cardinality(D(x)) \in Nat
    BY <2>1, FS_Subset, FS_CardinalityType
  <2>3. IsFiniteSet(D(x) \cup {x}) /\ Cardinality(D(x) \cup {x}) = Cardinality(D(x)) + 1
    BY <2>1, <2>2, FS_AddElement
  <2> QED BY <2>1, <2>2, <2>3
<1>4. ASSUME NEW x \in S PROVE f[x] \in 1..Cardinality(S)
  <2>1. D(x) \cup {x} \subseteq S
    OBVIOUS
  <2> HIDE DEF D
  <2>2. Cardinality(D(x) \cup {x}) <= Cardinality(S)
    BY <2>1, FS_Subset
  <2>3. /\ Cardinality(D(x)) \in Nat /\ f[x] = 1 + Cardinality(D(x))
        /\ Cardinality(D(x) \cup {x}) = f[x]
    BY <1>3
  <2> QED BY <1>2, <2>2, <2>3
<1>5. ASSUME NEW x \in S, NEW y \in S, <<x, y>> \in R PROVE f[x] < f[y]
  <2>1. D(x) \cup {x} \subseteq D(y)
    BY <1>5 DEF TotalOrder
  <2> HIDE DEF D
  <2>2. Cardinality(D(x) \cup {x}) <= Cardinality(D(y))
    BY <1>3, <2>1, FS_Subset
  <2>3. /\ Cardinality(D(y)) \in Nat /\ f[y] = 1 + Cardinality(D(y))
        /\ Cardinality(D(x)) \in Nat /\ f[x] = 1 + Cardinality(D(x))
        /\ Cardinality(D(x) \cup {x}) = f[x]
    BY <1>3
  <2> QED BY <2>2, <2>3
<1> HIDE DEF D
<1>6. ASSUME NEW x \in S, NEW y \in S, f[x] = f[y] PROVE x = y
  <2> SUFFICES ASSUME x # y PROVE FALSE
    OBVIOUS
  <2>1. <<x, y>> \in R \/ <<y, x>> \in R
    BY DEF TotalOrder
  <2>2. f[x] < f[y] \/ f[y] < f[x]
    BY <1>5, <2>1
  <2>3. f[x] \in Int /\ f[y] \in Int
    BY <1>4
  <2> QED BY <1>6, <2>2, <2>3
<1>7. PICK n \in Nat : n = Cardinality(S)
  BY <1>2
<1>8. f \in Injection(S, 1..n)
  <2>1. f \in [S -> 1..n]
    BY <1>1, <1>4, <1>7 DEF Places
  <2> QED BY <1>6, <2>1 DEF Injection, IsInjective
<1>9. IsFiniteSet(1..n) /\ Cardinality(1..n) = n
  BY FS_Interval
<1>10. f \in Surjection(S, 1..n)
  BY <1>7, <1>8, <1>9, FS_Injection
<1>11. \A i \in 1..n : \E x \in S : f[x] = i
  BY <1>10 DEF Surjection
<1>12. \A i \in 1..Cardinality(S) : \E x \in S : f[x] = i
  BY <1>7, <1>11
<1> QED BY <1>1, <1>4, <1>5, <1>6, <1>12 DEF Numbers

LEMMA RoomCardinality == \A S : Room!Cardinality(S) = Cardinality(S)
  BY DEF Room!Cardinality, Cardinality

RoomBoard == leaderboard \in [Users -> Int \cup {Absent}]

Count == Cardinality(Room!Members)

(* The rank told is the place on the board, and no two users have one.     *)
LEMMA RankOK ==
    ASSUME Room!RoomAssumption, RoomBoard
    PROVE  /\ Room!Members \subseteq Users /\ IsFiniteSet(Room!Members) /\ Count \in Nat
           /\ \A u \in Room!Members : Room!Rank(u) \in 1..Count
           /\ \A u, v \in Room!Members : Room!Ahead(u, v) => Room!Rank(u) < Room!Rank(v)
           /\ \A u, v \in Room!Members : Room!Rank(u) = Room!Rank(v) => u = v
           /\ \A i \in 1..Count : \E u \in Room!Members : Room!Rank(u) = i
<1>1. PICK S : S = Room!Members
  OBVIOUS
<1>2. S \subseteq Users /\ IsFiniteSet(S)
  <2>1. S \subseteq Users
    BY <1>1 DEF Room!Members
  <2> QED BY <2>1, ScoreAssumption, FS_Subset
<1>3. \A u \in S : leaderboard[u] \in Int /\ u \in Nat
  BY <1>1, <1>2 DEF RoomBoard, Room!Members, Room!RoomAssumption
<1>4. PICK R : R = {pair \in S \X S : Room!Ahead(pair[1], pair[2])}
  OBVIOUS
<1>5. ASSUME NEW u \in S, NEW v \in S PROVE <<u, v>> \in R <=> Room!Ahead(u, v)
  BY <1>4
<1>6. \A u \in S : <<u, u>> \notin R
  BY <1>3, <1>5 DEF Room!Ahead
<1>7. \A u \in S, v \in S : u # v => <<u, v>> \in R \/ <<v, u>> \in R
  BY <1>3, <1>5 DEF Room!Ahead
<1>8. ASSUME NEW u \in S, NEW v \in S, NEW w \in S, <<u, v>> \in R, <<v, w>> \in R
      PROVE  <<u, w>> \in R
  BY <1>3, <1>5, <1>8 DEF Room!Ahead
<1>9. TotalOrder(R, S)
  BY <1>6, <1>7, <1>8 DEF TotalOrder
<1>10. PICK f : f = Places(R, S)
  OBVIOUS
<1>11. Numbers(f, R, S)
  BY <1>2, <1>9, <1>10, CountsOrder
<1>12. ASSUME NEW u \in S PROVE Room!Rank(u) = f[u]
  <2>1. {v \in S : <<v, u>> \in R} = {v \in S : Room!Ahead(v, u)}
    BY <1>5
  <2>2. Room!Rank(u) = 1 + Cardinality({v \in S : Room!Ahead(v, u)})
    BY <1>1, RoomCardinality DEF Room!Rank
  <2> QED BY <1>10, <2>1, <2>2 DEF Places
<1>13. Cardinality(S) \in Nat
  BY <1>2, FS_CardinalityType
<1>14. ASSUME NEW u \in S, NEW v \in S, Room!Ahead(u, v) PROVE Room!Rank(u) < Room!Rank(v)
  <2>1. <<u, v>> \in R
    BY <1>5, <1>14
  <2> QED BY <1>11, <1>12, <2>1 DEF Numbers
<1>15. ASSUME NEW u \in S, NEW v \in S, Room!Rank(u) = Room!Rank(v) PROVE u = v
  BY <1>11, <1>12, <1>15 DEF Numbers
<1>16. \A u \in S : Room!Rank(u) \in 1..Cardinality(S)
  BY <1>11, <1>12 DEF Numbers
<1>17. \A i \in 1..Cardinality(S) : \E u \in S : Room!Rank(u) = i
  BY <1>11, <1>12 DEF Numbers
<1> QED BY <1>1, <1>2, <1>13, <1>14, <1>15, <1>16, <1>17 DEF Count

(* The users in their order, and the places that are sent.                 *)
LEMMA RankingOK ==
    ASSUME Room!RoomAssumption, RoomBoard
    PROVE  /\ Room!Ranking \in Seq(Users) /\ Len(Room!Ranking) = Count
           /\ \A i \in 1..Count : Room!Ranking[i] \in Room!Members
                                  /\ Room!Rank(Room!Ranking[i]) = i
<1>1. Room!Ranking = [i \in 1..Count |-> CHOOSE u \in Room!Members : Room!Rank(u) = i]
  BY RoomCardinality DEF Room!Ranking, Count
<1>2. /\ Room!Members \subseteq Users /\ Count \in Nat
      /\ \A i \in 1..Count : \E u \in Room!Members : Room!Rank(u) = i
  BY RankOK
<1>3. ASSUME NEW i \in 1..Count
      PROVE  Room!Ranking[i] \in Room!Members /\ Room!Rank(Room!Ranking[i]) = i
  <2>1. Room!Ranking[i] = CHOOSE u \in Room!Members : Room!Rank(u) = i
    BY <1>1
  <2> QED BY <1>2, <2>1
<1>4. Room!Ranking \in [1..Count -> Users]
  <2>1. DOMAIN Room!Ranking = 1..Count /\ Room!Ranking = [i \in 1..Count |-> Room!Ranking[i]]
    BY <1>1
  <2> QED BY <1>2, <1>3, <2>1
<1> QED BY <1>2, <1>3, <1>4

LEMMA TopOK ==
    ASSUME Room!RoomAssumption, RoomBoard
    PROVE  /\ Room!Top \in Seq(Users)
           /\ Len(Room!Top) = IF Count < TopN THEN Count ELSE TopN
           /\ Len(Room!Top) \in Nat /\ Len(Room!Top) <= TopN /\ Len(Room!Top) <= Count
           /\ \A i \in 1..Len(Room!Top) : Room!Top[i] \in Room!Members
                                          /\ Room!Rank(Room!Top[i]) = i
<1>1. TopN \in Nat /\ TopN > 0
  BY DEF Room!RoomAssumption
<1>2. /\ Room!Ranking \in Seq(Users) /\ Len(Room!Ranking) = Count /\ Count \in Nat
      /\ \A i \in 1..Count : Room!Ranking[i] \in Room!Members
                             /\ Room!Rank(Room!Ranking[i]) = i
  BY RankingOK, RankOK
<1>3. PICK n \in Nat : n = IF Count < TopN THEN Count ELSE TopN
  BY <1>1, <1>2
<1>4. n <= Count /\ n <= TopN
  BY <1>1, <1>2, <1>3
<1>5. Room!Top = SubSeq(Room!Ranking, 1, n)
  BY <1>2, <1>3 DEF Room!Top
<1>6. PICK s \in Seq(Users) : s = Room!Ranking
  BY <1>2
<1>7. /\ SubSeq(s, 1, n) \in Seq(Users)
      /\ Len(SubSeq(s, 1, n)) = IF 1 <= n THEN n - 1 + 1 ELSE 0
      /\ \A i \in 1..(n - 1 + 1) : SubSeq(s, 1, n)[i] = s[1 + i - 1]
  <2>1. Len(s) = Count
    BY <1>2, <1>6
  <2>2. 1 \in 1..Len(s) + 1 /\ n \in 0..Len(s)
    BY <1>2, <1>4, <2>1
  <2> QED BY <2>2, SubSeqProperties
<1>8. Len(SubSeq(s, 1, n)) = n
  BY <1>7
<1>9. ASSUME NEW i \in 1..n PROVE SubSeq(s, 1, n)[i] = s[i]
  BY <1>7
<1>10. ASSUME NEW i \in 1..n PROVE Room!Top[i] \in Room!Members /\ Room!Rank(Room!Top[i]) = i
  <2>1. i \in 1..Count
    BY <1>2, <1>4
  <2> QED BY <1>2, <1>5, <1>6, <1>9, <2>1
<1> QED BY <1>3, <1>4, <1>5, <1>6, <1>7, <1>8, <1>10

\* What a tick or a snapshot carries, and what a phone shows, in given hashes.
GoodTop(top, st) ==
    /\ top \in Seq(Users) /\ Len(top) <= TopN
    /\ \A i, j \in DOMAIN top : top[i] = top[j] => i = j
    /\ \A i \in DOMAIN top : st[top[i]].solvedCount >= 1

EntryOK(entry, st) ==
    /\ 1 <= entry.solvedCount
    /\ entry.solvedCount <= st[entry.userId].solvedCount
    /\ entry.totalPenalty <= st[entry.userId].totalPenaltySeconds

GoodBoard(board, st) ==
    /\ board \in Seq(Room!Entry) /\ Len(board) <= TopN
    /\ \A i, j \in DOMAIN board : board[i].userId = board[j].userId => i = j
    /\ \A i \in DOMAIN board : EntryOK(board[i], st)

GoodRank(rank) == rank = None \/ rank \in 1..Cardinality(Users)

GoodHook(h, st) ==
    /\ h \in [leaderboard : Seq(Room!Entry), rank : Nat \cup {None}]
    /\ GoodBoard(h.leaderboard, st) /\ GoodRank(h.rank)

GoodSender(s, labels, st) == s \in Room!Sender(labels) /\ GoodTop(s.top, st)

TickLabels == {"idle", "range", "stats", "ranks", "del"}
SnapshotLabels == {"idle", "range", "stats", "ranks"}

ScorerInv ==
    /\ BoardTypeOK
    /\ scorer \in [pc : {"idle", "solve", "post"}, user : Users \cup {None},
                   problem : Problems \cup {None}, score : Int]
    /\ scorer.pc = "idle" => scorer = Room!Free
    /\ scorer.pc # "idle" => scorer.user \in Users /\ scorer.problem \in Problems
    /\ scorer.pc = "solve" => stats[scorer.user].status[scorer.problem] # "AC"
    /\ scorer.pc = "post" => /\ stats[scorer.user].solvedCount # 0
                             /\ scorer.score = Score(stats[scorer.user])
    /\ \A u \in Users : StatOK(stats[u])
    /\ \A u \in Users : leaderboard[u] # Absent => stats[u].solvedCount # 0
    /\ \A u \in Users : (scorer.pc = "post" => scorer.user # u) => leaderboard[u] = OnBoard(u)

TicksOK ==
    /\ tick = [t \in Ticks |-> tick[t]]
    /\ \A t \in Ticks : GoodSender(tick[t], TickLabels, stats)

SnapshotsOK ==
    /\ snapshot = [p \in Phones |-> snapshot[p]]
    /\ \A p \in Phones : GoodSender(snapshot[p], SnapshotLabels, stats)

HooksOK ==
    /\ hook = [p \in Phones |-> hook[p]]
    /\ \A p \in Phones : GoodHook(hook[p], stats)

PhonesInv == joined \subseteq Phones /\ TicksOK /\ SnapshotsOK /\ HooksOK

RoomInv == ScorerInv /\ PhonesInv

\* No hash loses what it counted.
Grows(new, old) ==
    \A u \in Users : /\ new[u].solvedCount \in Nat /\ old[u].solvedCount \in Nat
                     /\ new[u].totalPenaltySeconds \in Nat
                     /\ old[u].totalPenaltySeconds \in Nat
                     /\ old[u].solvedCount <= new[u].solvedCount
                     /\ old[u].totalPenaltySeconds <= new[u].totalPenaltySeconds

LEMMA TopKept ==
    ASSUME NEW old, NEW new, Grows(new, old), NEW top, GoodTop(top, old)
    PROVE  GoodTop(top, new)
<1>1. ASSUME NEW i \in DOMAIN top PROVE new[top[i]].solvedCount >= 1
  <2>1. top[i] \in Users /\ old[top[i]].solvedCount >= 1
    BY DEF GoodTop
  <2> QED BY <2>1 DEF Grows
<1> QED BY <1>1 DEF GoodTop

LEMMA BoardKept ==
    ASSUME NEW old, NEW new, Grows(new, old), NEW board, GoodBoard(board, old)
    PROVE  GoodBoard(board, new)
<1>1. ASSUME NEW i \in DOMAIN board PROVE EntryOK(board[i], new)
  <2>1. board[i] \in Room!Entry /\ EntryOK(board[i], old)
    BY DEF GoodBoard
  <2>2. PICK e \in Room!Entry : e = board[i]
    BY <2>1
  <2>3. e.userId \in Users /\ e.solvedCount \in Nat /\ e.totalPenalty \in Nat
    BY DEF Room!Entry
  <2>4. EntryOK(e, old)
    BY <2>1, <2>2
  <2>5. EntryOK(e, new)
    BY <2>3, <2>4 DEF EntryOK, Grows
  <2> QED BY <2>2, <2>5
<1> QED BY <1>1 DEF GoodBoard

LEMMA PhonesKept ==
    ASSUME PhonesInv, Grows(stats', stats), UNCHANGED <<tick, snapshot, joined, hook>>
    PROVE  PhonesInv'
<1>1. \A t \in Ticks : GoodSender(tick[t], TickLabels, stats')
  BY TopKept DEF PhonesInv, TicksOK, GoodSender
<1>2. \A p \in Phones : GoodSender(snapshot[p], SnapshotLabels, stats')
  BY TopKept DEF PhonesInv, SnapshotsOK, GoodSender
<1>3. \A p \in Phones : GoodHook(hook[p], stats')
  BY BoardKept DEF PhonesInv, HooksOK, GoodHook
<1> QED BY <1>1, <1>2, <1>3 DEF PhonesInv, TicksOK, SnapshotsOK, HooksOK

LEMMA ScorerKept ==
    ASSUME ScorerInv, UNCHANGED <<stats, leaderboard, scorer>>,
           dirty' = dirty \/ dirty' = {}
    PROVE  ScorerInv'
<1>1. BoardTypeOK'
  BY DEF ScorerInv, BoardTypeOK
<1>2. \A u \in Users : OnBoard(u)' = OnBoard(u)
  BY DEF OnBoard
<1> QED BY <1>1, <1>2 DEF ScorerInv

(* One block of Redis.                                                     *)
LEMMA Grown ==
    ASSUME ScorerInv, stats' \in [Users -> Stats], NEW u \in Users, OnlyOf(u),
           stats[u].solvedCount <= stats'[u].solvedCount,
           stats[u].totalPenaltySeconds <= stats'[u].totalPenaltySeconds
    PROVE  Grows(stats', stats)
<1>1. stats \in [Users -> Stats]
  BY DEF ScorerInv, BoardTypeOK
<1>2. ASSUME NEW s \in Stats PROVE s.solvedCount \in Nat /\ s.totalPenaltySeconds \in Nat
  BY DEF Stats
<1>3. ASSUME NEW v \in Users, v # u
      PROVE  stats[v].solvedCount <= stats'[v].solvedCount
             /\ stats[v].totalPenaltySeconds <= stats'[v].totalPenaltySeconds
  <2>1. stats'[v] = stats[v] /\ stats[v] \in Stats
    BY <1>1, <1>3 DEF OnlyOf
  <2> QED BY <1>2, <2>1
<1>4. \A v \in Users : stats[v] \in Stats /\ stats'[v] \in Stats
  BY <1>1
<1> QED BY <1>2, <1>3, <1>4 DEF Grows

LEMMA NoGrowth ==
    ASSUME ScorerInv, stats' = stats PROVE Grows(stats', stats)
<1>1. ASSUME NEW s \in Stats PROVE s.solvedCount \in Nat /\ s.totalPenaltySeconds \in Nat
  BY DEF Stats
<1>2. \A u \in Users : stats[u] \in Stats
  BY DEF ScorerInv, BoardTypeOK
<1>3. ASSUME NEW n \in Nat PROVE n <= n
  OBVIOUS
<1> QED BY <1>1, <1>2, <1>3 DEF Grows

LEMMA RoomSolves ==
    ASSUME ScorerInv, NEW u \in Users, NEW p \in Problems,
           stats[u].status[p] # "AC", Room!CountSolved(u, p, stats[u].fails[p])
    PROVE  /\ stats' \in [Users -> Stats] /\ dirty' \subseteq Users /\ leaderboard' = leaderboard
           /\ OnlyOf(u) /\ Grows(stats', stats)
           /\ StatOK(stats'[u]) /\ stats'[u].solvedCount # 0
<1>1. stats \in [Users -> Stats] /\ dirty \subseteq Users /\ StatOK(stats[u])
  BY DEF ScorerInv, BoardTypeOK
<1>2. PICK old \in Stats : old = stats[u]
  BY <1>1
<1>3. old.fails[p] \in Nat /\ old.solvedCount \in Nat /\ old.totalPenaltySeconds \in Nat
  BY DEF Stats
<1>4. CountSolved(u, p, old.fails[p])
  BY <1>2 DEF Room!CountSolved, CountSolved, Room!PENALTY_PER_WRONG, PENALTY_PER_WRONG
<1>5. SolvedIn(old, stats'[u], p, old.fails[p]) /\ OnlyOf(u)
  BY <1>1, <1>2, <1>3, <1>4, SolvedBlock
<1>6. StatOK(stats'[u]) /\ stats'[u].solvedCount # 0
  BY <1>1, <1>2, <1>5, SolvedStatOK
<1>7. /\ old.solvedCount <= stats'[u].solvedCount
      /\ old.totalPenaltySeconds <= stats'[u].totalPenaltySeconds
  BY <1>3, <1>5 DEF SolvedIn, PENALTY_PER_WRONG
<1>8. stats' \in [Users -> Stats]
  BY <1>5 DEF OnlyOf
<1>9. Grows(stats', stats)
  BY <1>2, <1>5, <1>7, <1>8, Grown
<1> QED BY <1>1, <1>5, <1>6, <1>8, <1>9 DEF Room!CountSolved

LEMMA RoomFails ==
    ASSUME ScorerInv, NEW u \in Users, NEW p \in Problems,
           stats[u].status[p] # "AC", Room!CountFail(u, p)
    PROVE  /\ stats' \in [Users -> Stats] /\ dirty' \subseteq Users /\ leaderboard' = leaderboard
           /\ OnlyOf(u) /\ Grows(stats', stats) /\ StatOK(stats'[u])
           /\ stats'[u].solvedCount = stats[u].solvedCount
           /\ stats'[u].totalPenaltySeconds = stats[u].totalPenaltySeconds
<1>1. stats \in [Users -> Stats] /\ dirty \subseteq Users /\ StatOK(stats[u])
  BY DEF ScorerInv, BoardTypeOK
<1>2. PICK old \in Stats : old = stats[u]
  BY <1>1
<1>3. old.solvedCount \in Nat /\ old.totalPenaltySeconds \in Nat
  BY DEF Stats
<1>4. CountFail(u, p)
  BY DEF Room!CountFail, CountFail
<1>5. FailedIn(old, stats'[u], p) /\ OnlyOf(u)
  BY <1>1, <1>2, <1>4, FailedBlock
<1>6. StatOK(stats'[u])
  BY <1>1, <1>2, <1>5, FailedStatOK
<1>7. /\ old.solvedCount = stats'[u].solvedCount
      /\ old.totalPenaltySeconds = stats'[u].totalPenaltySeconds
  BY <1>5 DEF FailedIn
<1>8. stats' \in [Users -> Stats]
  BY <1>5 DEF OnlyOf
<1>9. Grows(stats', stats)
  BY <1>2, <1>3, <1>5, <1>7, <1>8, Grown
<1> QED BY <1>1, <1>2, <1>5, <1>6, <1>7, <1>8, <1>9 DEF Room!CountFail

(* The consumer's steps.                                                   *)
LEMMA RoomAccepts ==
    ASSUME Room!RoomAssumption, ScorerInv,
           NEW u \in Users, NEW p \in Problems, Room!Accept(u, p)
    PROVE  ScorerInv' /\ Grows(stats', stats)
<1>1. UNCHANGED redisVars /\ scorer' = [Room!Free EXCEPT !.pc = "solve", !.user = u, !.problem = p]
      /\ stats[u].status[p] # "AC" /\ scorer.pc = "idle"
  BY DEF Room!Accept, Room!redisVars, redisVars, Room!Free
<1>2. scorer' = [pc |-> "solve", user |-> u, problem |-> p, score |-> 0]
  BY <1>1 DEF Room!Free
<1>3. UNCHANGED <<stats, leaderboard, dirty>>
  BY <1>1 DEF redisVars
<1>4. \A v \in Users : OnBoard(v)' = OnBoard(v)
  BY <1>3 DEF OnBoard
<1>5. /\ scorer'.pc = "solve" /\ scorer'.user = u /\ scorer'.problem = p
      /\ scorer' \in [pc : {"idle", "solve", "post"}, user : Users \cup {None},
                      problem : Problems \cup {None}, score : Int]
  BY <1>2
<1>6. Grows(stats', stats)
  BY <1>3, NoGrowth
<1> QED BY <1>1, <1>3, <1>4, <1>5, <1>6 DEF ScorerInv, BoardTypeOK

LEMMA RoomRejects ==
    ASSUME ScorerInv, NEW u \in Users, NEW p \in Problems, Room!Reject(u, p)
    PROVE  ScorerInv' /\ Grows(stats', stats)
<1>1. /\ stats[u].status[p] # "AC" /\ Room!CountFail(u, p)
      /\ scorer' = scorer /\ scorer = Room!Free /\ scorer.pc = "idle"
  BY DEF Room!Reject, Room!Free
<1>2. /\ stats' \in [Users -> Stats] /\ dirty' \subseteq Users /\ leaderboard' = leaderboard
      /\ OnlyOf(u) /\ Grows(stats', stats) /\ StatOK(stats'[u])
      /\ stats'[u].solvedCount = stats[u].solvedCount
      /\ stats'[u].totalPenaltySeconds = stats[u].totalPenaltySeconds
  BY <1>1, RoomFails
<1>3. ASSUME NEW v \in Users
      PROVE  /\ StatOK(stats'[v]) /\ stats'[v].solvedCount = stats[v].solvedCount
             /\ OnBoard(v)' = OnBoard(v)
  <2>1. CASE v = u
    BY <1>2, <2>1 DEF OnBoard, Score
  <2>2. CASE v # u
    BY <1>2, <2>2 DEF OnlyOf, OnBoard, ScorerInv
  <2> QED BY <2>1, <2>2
<1> QED BY <1>1, <1>2, <1>3 DEF ScorerInv, BoardTypeOK

LEMMA RoomCounts ==
    ASSUME ScorerInv, Room!Solve
    PROVE  ScorerInv' /\ Grows(stats', stats)
<1>1. PICK u \in Users, p \in Problems : u = scorer.user /\ p = scorer.problem
  BY DEF ScorerInv, Room!Solve
<1>2. /\ scorer.pc = "solve" /\ stats[u].status[p] # "AC"
      /\ Room!CountSolved(u, p, stats[u].fails[p])
      /\ scorer' = [scorer EXCEPT !.pc = "post", !.score = Score(stats'[u])]
  BY <1>1 DEF ScorerInv, Room!Solve, Room!Score, Score, Room!SOLVED_SCORE_WEIGHT,
              SOLVED_SCORE_WEIGHT
<1>3. /\ stats' \in [Users -> Stats] /\ dirty' \subseteq Users /\ leaderboard' = leaderboard
      /\ OnlyOf(u) /\ Grows(stats', stats)
      /\ StatOK(stats'[u]) /\ stats'[u].solvedCount # 0
  BY <1>2, RoomSolves
<1>4. Score(stats'[u]) \in Int
  <2>1. PICK s \in Stats : s = stats'[u]
    BY <1>3
  <2>2. s.solvedCount \in Nat /\ s.totalPenaltySeconds \in Nat
    BY DEF Stats
  <2> QED BY <2>1, <2>2 DEF Score, SOLVED_SCORE_WEIGHT
<1>5. /\ scorer' \in [pc : {"idle", "solve", "post"}, user : Users \cup {None},
                      problem : Problems \cup {None}, score : Int]
      /\ scorer'.pc = "post" /\ scorer'.user = u /\ scorer'.problem = p
      /\ scorer'.score = Score(stats'[u])
  BY <1>1, <1>2, <1>4 DEF ScorerInv
<1>6. ASSUME NEW v \in Users, v # u
      PROVE  /\ StatOK(stats'[v]) /\ stats'[v].solvedCount = stats[v].solvedCount
             /\ OnBoard(v)' = OnBoard(v)
             /\ leaderboard[v] = OnBoard(v)
  BY <1>2, <1>3, <1>6 DEF OnlyOf, OnBoard, ScorerInv
<1>7. \A v \in Users : StatOK(stats'[v])
  BY <1>3, <1>6
<1>8. \A v \in Users : leaderboard[v] # Absent => stats'[v].solvedCount # 0
  BY <1>3, <1>6 DEF ScorerInv
<1>9. \A v \in Users : u # v => leaderboard'[v] = OnBoard(v)'
  BY <1>3, <1>6
<1> QED BY <1>1, <1>3, <1>5, <1>7, <1>8, <1>9 DEF ScorerInv, BoardTypeOK

LEMMA RoomPosts ==
    ASSUME Room!RoomAssumption, ScorerInv, Room!PostScore
    PROVE  ScorerInv' /\ Grows(stats', stats)
<1>1. PICK u \in Users : u = scorer.user
  BY DEF ScorerInv, Room!PostScore
<1>2. /\ scorer.pc = "post" /\ stats[u].solvedCount # 0 /\ scorer.score = Score(stats[u])
      /\ leaderboard' = [leaderboard EXCEPT ![u] = scorer.score]
      /\ stats' = stats /\ dirty' = dirty /\ scorer' = Room!Free
      /\ scorer.score \in Int
  BY <1>1 DEF ScorerInv, Room!PostScore, Room!SetScore
<1>3. /\ leaderboard' \in [Users -> Int \cup {Absent}] /\ leaderboard'[u] = Score(stats[u])
      /\ \A v \in Users : v # u => leaderboard'[v] = leaderboard[v]
  BY <1>2 DEF ScorerInv, BoardTypeOK
<1>4. /\ scorer'.pc = "idle"
      /\ scorer' \in [pc : {"idle", "solve", "post"}, user : Users \cup {None},
                      problem : Problems \cup {None}, score : Int]
  BY <1>2 DEF Room!Free
<1>5. \A v \in Users : OnBoard(v)' = OnBoard(v)
  BY <1>2 DEF OnBoard
<1>6. \A v \in Users : leaderboard'[v] = OnBoard(v)
  BY <1>1, <1>2, <1>3 DEF OnBoard, ScorerInv
<1>7. \A v \in Users : leaderboard'[v] # Absent => stats[v].solvedCount # 0
  BY <1>6 DEF OnBoard
<1>8. Grows(stats', stats)
  BY <1>2, NoGrowth
<1> QED BY <1>2, <1>3, <1>4, <1>5, <1>6, <1>7, <1>8 DEF ScorerInv, BoardTypeOK

(* What is read for the phones.                                            *)
LEMMA TopIsGood ==
    ASSUME Room!RoomAssumption, ScorerInv
    PROVE  GoodTop(Room!Top, stats)
<1>1. RoomBoard
  BY DEF ScorerInv, BoardTypeOK, RoomBoard
<1>2. PICK n \in Nat : n = Len(Room!Top)
  BY <1>1, TopOK
<1>3. /\ Room!Top \in Seq(Users) /\ Len(Room!Top) <= TopN /\ DOMAIN Room!Top = 1..n
      /\ \A i \in 1..n : Room!Top[i] \in Room!Members /\ Room!Rank(Room!Top[i]) = i
  BY <1>1, <1>2, TopOK
<1>4. ASSUME NEW i \in 1..n PROVE stats[Room!Top[i]].solvedCount >= 1
  <2>1. PICK u \in Room!Members : u = Room!Top[i]
    BY <1>3
  <2>2. u \in Users /\ leaderboard[u] # Absent
    BY DEF Room!Members
  <2>3. stats[u] \in Stats /\ stats[u].solvedCount # 0
    BY <2>2 DEF ScorerInv, BoardTypeOK
  <2>4. stats[u].solvedCount \in Nat
    BY <2>3 DEF Stats
  <2> QED BY <2>1, <2>3, <2>4
<1>5. ASSUME NEW i \in 1..n, NEW j \in 1..n, Room!Top[i] = Room!Top[j] PROVE i = j
  BY <1>3, <1>5
<1> QED BY <1>3, <1>4, <1>5 DEF GoodTop

LEMMA EntriesGood ==
    ASSUME ScorerInv, NEW top, GoodTop(top, stats)
    PROVE  GoodBoard(Room!Entries(top), stats)
<1>1. PICK n \in Nat : n = Len(top)
  BY DEF GoodTop
<1>2. /\ top \in Seq(Users) /\ DOMAIN top = 1..n
      /\ n <= TopN
      /\ \A i, j \in 1..n : top[i] = top[j] => i = j
      /\ \A i \in 1..n : top[i] \in Users /\ stats[top[i]].solvedCount >= 1
  BY <1>1 DEF GoodTop
<1>3. PICK board : board = Room!Entries(top)
  OBVIOUS
<1>4. board = [i \in 1..n |-> [userId       |-> top[i],
                               solvedCount  |-> stats[top[i]].solvedCount,
                               totalPenalty |-> stats[top[i]].totalPenaltySeconds]]
  BY <1>2, <1>3 DEF Room!Entries
<1>5. ASSUME NEW i \in 1..n
      PROVE  board[i] \in Room!Entry /\ EntryOK(board[i], stats) /\ board[i].userId = top[i]
  <2>1. PICK u \in Users : u = top[i] /\ stats[u].solvedCount >= 1
    BY <1>2
  <2>2. stats[u] \in Stats
    BY DEF ScorerInv, BoardTypeOK
  <2>3. PICK k \in Nat, m \in Nat : k = stats[u].solvedCount /\ m = stats[u].totalPenaltySeconds
    BY <2>2 DEF Stats
  <2>4. board[i] = [userId |-> u, solvedCount |-> k, totalPenalty |-> m]
    BY <1>4, <2>1, <2>3
  <2>5. k >= 1 /\ k <= k /\ m <= m
    BY <2>1, <2>3
  <2> QED BY <2>1, <2>3, <2>4, <2>5 DEF EntryOK, Room!Entry
<1>6. board \in Seq(Room!Entry) /\ Len(board) = n /\ DOMAIN board = 1..n
  <2>1. board \in [1..n -> Room!Entry]
    BY <1>4, <1>5
  <2> QED BY <1>1, <2>1
<1>7. ASSUME NEW i \in 1..n, NEW j \in 1..n, board[i].userId = board[j].userId PROVE i = j
  BY <1>2, <1>5, <1>7
<1> QED BY <1>2, <1>3, <1>5, <1>6, <1>7 DEF GoodBoard

LEMMA RankIsGood ==
    ASSUME Room!RoomAssumption, ScorerInv, NEW u
    PROVE  GoodRank(Room!Rank(u)) /\ Room!Rank(u) \in Nat \cup {None}
<1>1. RoomBoard
  BY DEF ScorerInv, BoardTypeOK, RoomBoard
<1>2. CASE u \in Room!Members
  <2>1. Room!Members \subseteq Users /\ Count <= Cardinality(Users)
    BY <1>1, RankOK, ScoreAssumption, FS_Subset DEF Count
  <2>2. PICK n \in Nat : n = Count
    BY <1>1, RankOK
  <2>3. PICK m \in Nat : m = Cardinality(Users)
    BY ScoreAssumption, FS_CardinalityType
  <2>4. Room!Rank(u) \in 1..n
    BY <1>1, <1>2, <2>2, RankOK
  <2>5. Room!Rank(u) \in 1..m
    BY <2>1, <2>2, <2>3, <2>4
  <2>6. Room!Rank(u) \in Nat
    BY <2>4
  <2> QED BY <2>3, <2>5, <2>6 DEF GoodRank
<1>3. CASE u \notin Room!Members
  BY <1>3 DEF Room!Rank, GoodRank
<1> QED BY <1>2, <1>3

\* The records that the actions write.
Sending(pc, top, outside) == [pc |-> pc, top |-> top, outside |-> outside]

LEMMA SendingGood ==
    ASSUME NEW st, NEW labels, NEW pc \in labels, NEW top, GoodTop(top, st),
           NEW outside, outside \subseteq Phones
    PROVE  GoodSender(Sending(pc, top, outside), labels, st)
<1>1. top \in Seq(Users)
  BY DEF GoodTop
<1> QED BY <1>1 DEF GoodSender, Sending, Room!Sender

LEMMA NoTop ==
    ASSUME Room!RoomAssumption, NEW st
    PROVE  /\ GoodTop(<<>>, st) /\ Room!Rest = Sending("idle", <<>>, {})
           /\ \A pc : [Room!Rest EXCEPT !.pc = pc] = Sending(pc, <<>>, {})
           /\ \A pc, out : [Room!Rest EXCEPT !.pc = pc, !.outside = out]
                               = Sending(pc, <<>>, out)
<1>1. GoodTop(<<>>, st)
  BY DEF GoodTop, Room!RoomAssumption
<1>2. Room!Rest = Sending("idle", <<>>, {})
  BY DEF Room!Rest, Sending
<1>3. PICK s : s = Room!Rest
  OBVIOUS
<1>4. ASSUME NEW pc, NEW out
      PROVE  /\ [s EXCEPT !.pc = pc] = Sending(pc, <<>>, {})
             /\ [s EXCEPT !.pc = pc, !.outside = out] = Sending(pc, <<>>, out)
  <2>1. PICK e, none : e = <<>> /\ none = {}
    OBVIOUS
  <2>2. s = [pc |-> "idle", top |-> e, outside |-> none]
    BY <1>2, <1>3, <2>1 DEF Sending
  <2>3. PICK r : r = [s EXCEPT !.pc = pc]
    OBVIOUS
  <2>4. r = [pc |-> pc, top |-> e, outside |-> none]
    BY <2>2, <2>3
  <2>5. [r EXCEPT !.outside = out] = [pc |-> pc, top |-> e, outside |-> out]
    BY <2>4
  <2>6. [s EXCEPT !.pc = pc, !.outside = out] = [r EXCEPT !.outside = out]
    BY <2>3, Zenon
  <2> QED BY <2>1, <2>3, <2>4, <2>5, <2>6, Zenon DEF Sending
<1> QED BY <1>1, <1>2, <1>3, <1>4, Zenon

LEMMA BlankGood ==
    ASSUME Room!RoomAssumption, NEW st
    PROVE  GoodHook(Room!Blank, st)
<1>1. GoodBoard(<<>>, st)
  BY DEF GoodBoard, Room!RoomAssumption
<1> QED BY <1>1 DEF GoodHook, Room!Blank, GoodRank

LEMMA TickMoves ==
    ASSUME TicksOK, stats' = stats, NEW t \in Ticks, NEW s,
           tick' = [tick EXCEPT ![t] = s], GoodSender(s, TickLabels, stats)
    PROVE  TicksOK'
<1>1. tick' = [r \in Ticks |-> IF r = t THEN s ELSE tick[r]]
  BY DEF TicksOK
<1>2. \A r \in Ticks : tick'[r] = s \/ tick'[r] = tick[r]
  BY <1>1
<1>3. tick' = [r \in Ticks |-> tick'[r]]
  BY <1>1
<1> QED BY <1>2, <1>3 DEF TicksOK

LEMMA SnapshotMoves ==
    ASSUME SnapshotsOK, stats' = stats, NEW p \in Phones, NEW s,
           snapshot' = [snapshot EXCEPT ![p] = s], GoodSender(s, SnapshotLabels, stats)
    PROVE  SnapshotsOK'
<1>1. snapshot' = [q \in Phones |-> IF q = p THEN s ELSE snapshot[q]]
  BY DEF SnapshotsOK
<1>2. \A q \in Phones : snapshot'[q] = s \/ snapshot'[q] = snapshot[q]
  BY <1>1
<1>3. snapshot' = [q \in Phones |-> snapshot'[q]]
  BY <1>1
<1> QED BY <1>2, <1>3 DEF SnapshotsOK

LEMMA BoardTold ==
    ASSUME ScorerInv, HooksOK, stats' = stats, NEW phones, NEW top, GoodTop(top, stats),
           Room!SetLeaderboard(phones, top)
    PROVE  HooksOK'
<1>1. PICK b : b = Room!Entries(top)
  OBVIOUS
<1>2. hook' = [p \in Phones |->
                  IF p \in phones THEN [hook[p] EXCEPT !.leaderboard = b] ELSE hook[p]]
  BY <1>1 DEF Room!SetLeaderboard
<1>3. GoodBoard(b, stats) /\ b \in Seq(Room!Entry)
  BY <1>1, EntriesGood DEF GoodBoard
<1>4. ASSUME NEW p \in Phones PROVE GoodHook([hook[p] EXCEPT !.leaderboard = b], stats)
  <2>1. GoodHook(hook[p], stats)
    BY DEF HooksOK
  <2> QED BY <1>3, <2>1 DEF GoodHook
<1>5. \A p \in Phones : GoodHook(hook'[p], stats)
  BY <1>2, <1>4 DEF HooksOK
<1> QED BY <1>2, <1>5 DEF HooksOK

LEMMA RankTold ==
    ASSUME Room!RoomAssumption, ScorerInv, HooksOK, stats' = stats, NEW phones,
           Room!SetRank(phones)
    PROVE  HooksOK'
<1>1. PICK r : r = [p \in Phones |-> Room!Rank(UserOf[p])]
  OBVIOUS
<1>2. hook' = [p \in Phones |->
                  IF p \in phones THEN [hook[p] EXCEPT !.rank = r[p]] ELSE hook[p]]
  BY <1>1 DEF Room!SetRank
<1>3. \A p \in Phones : GoodRank(r[p]) /\ r[p] \in Nat \cup {None}
  BY <1>1, RankIsGood
<1>4. ASSUME NEW p \in Phones PROVE GoodHook([hook[p] EXCEPT !.rank = r[p]], stats)
  <2>1. GoodHook(hook[p], stats)
    BY DEF HooksOK
  <2> QED BY <1>3, <2>1 DEF GoodHook
<1>5. \A p \in Phones : GoodHook(hook'[p], stats)
  BY <1>2, <1>4 DEF HooksOK
<1> QED BY <1>2, <1>5 DEF HooksOK

LEMMA Unmoved ==
    ASSUME PhonesInv, stats' = stats
    PROVE  /\ tick' = tick => TicksOK'
           /\ snapshot' = snapshot => SnapshotsOK'
           /\ hook' = hook => HooksOK'
  BY DEF PhonesInv, TicksOK, SnapshotsOK, HooksOK

(* The phones' steps and the snapshots.                                    *)
Unread == UNCHANGED <<stats, leaderboard, scorer>> /\ (dirty' = dirty \/ dirty' = {})

LEMMA RoomWatches ==
    ASSUME Room!RoomAssumption, PhonesInv, NEW p \in Phones,
           Room!watch(p) \/ Room!Leave(p) \/ Room!SnapshotFails(p)
    PROVE  PhonesInv' /\ Unread
<1>1. GoodTop(<<>>, stats) /\ Room!Rest = Sending("idle", <<>>, {})
      /\ [Room!Rest EXCEPT !.pc = "range"] = Sending("range", <<>>, {})
  BY NoTop
<1>2. CASE Room!watch(p)
  <2>1. /\ joined' = joined \cup {p} /\ tick' = tick /\ stats' = stats
        /\ hook' = hook \/ hook' = [hook EXCEPT ![p] = Room!Blank]
        /\ snapshot' = [snapshot EXCEPT ![p] = Sending("range", <<>>, {})]
    BY <1>1, <1>2 DEF Room!watch, Room!redisVars
  <2>2. GoodSender(Sending("range", <<>>, {}), SnapshotLabels, stats)
    BY <1>1, SendingGood DEF SnapshotLabels
  <2>3. SnapshotsOK'
    BY <2>1, <2>2, SnapshotMoves DEF PhonesInv
  <2>4. HooksOK'
    <3>1. CASE hook' = hook
      BY <2>1, <3>1, Unmoved
    <3>2. CASE hook' = [hook EXCEPT ![p] = Room!Blank]
      <4>1. hook' = [q \in Phones |-> IF q = p THEN Room!Blank ELSE hook[q]]
        BY <3>2 DEF PhonesInv, HooksOK
      <4>2. \A q \in Phones : GoodHook(hook'[q], stats)
        BY <4>1, BlankGood DEF PhonesInv, HooksOK
      <4> QED BY <2>1, <4>1, <4>2 DEF HooksOK
    <3> QED BY <2>1, <3>1, <3>2
  <2>5. TicksOK'
    BY <2>1, Unmoved
  <2>6. Unread
    BY <1>2 DEF Room!watch, Room!redisVars, Unread
  <2> QED BY <2>1, <2>3, <2>4, <2>5, <2>6 DEF PhonesInv
<1>3. CASE Room!Leave(p) \/ Room!SnapshotFails(p)
  <2>1. /\ joined' = joined \ {p} /\ tick' = tick /\ stats' = stats /\ hook' = hook
        /\ snapshot' = [snapshot EXCEPT ![p] = Sending("idle", <<>>, {})]
        /\ Unread
    BY <1>1, <1>3 DEF Room!Leave, Room!SnapshotFails, Room!redisVars, Unread
  <2>2. GoodSender(Sending("idle", <<>>, {}), SnapshotLabels, stats)
    BY <1>1, SendingGood DEF SnapshotLabels
  <2>3. SnapshotsOK'
    BY <2>1, <2>2, SnapshotMoves DEF PhonesInv
  <2>4. TicksOK' /\ HooksOK'
    BY <2>1, Unmoved
  <2> QED BY <2>1, <2>3, <2>4 DEF PhonesInv
<1> QED BY <1>2, <1>3

LEMMA RoomSnapshots ==
    ASSUME Room!RoomAssumption, ScorerInv, PhonesInv, NEW p \in Phones,
           Room!SnapshotStep(p)
    PROVE  PhonesInv' /\ Unread
<1>1. /\ GoodTop(<<>>, stats) /\ Room!Rest = Sending("idle", <<>>, {})
      /\ [Room!Rest EXCEPT !.pc = "ranks"] = Sending("ranks", <<>>, {})
  BY NoTop
<1>2. GoodSender(snapshot[p], SnapshotLabels, stats) /\ HooksOK
  BY DEF PhonesInv, SnapshotsOK
<1>3. /\ GoodSender(Sending("idle", <<>>, {}), SnapshotLabels, stats)
      /\ GoodSender(Sending("ranks", <<>>, {}), SnapshotLabels, stats)
  BY <1>1, SendingGood DEF SnapshotLabels
<1>4. CASE Room!SnapshotRange(p)
  <2>1. PICK out : out = snapshot[p].outside /\ out \subseteq Phones
    BY <1>2 DEF GoodSender, Room!Sender
  <2>2. PICK s : s = [snapshot[p] EXCEPT !.pc = "stats", !.top = Room!Top]
    OBVIOUS
  <2>3. s = Sending("stats", Room!Top, out)
    BY <1>2, <2>1, <2>2 DEF GoodSender, Room!Sender, Sending
  <2>4. GoodSender(s, SnapshotLabels, stats)
    BY <2>1, <2>3, SendingGood, TopIsGood DEF SnapshotLabels
  <2>5. /\ joined' = joined /\ tick' = tick /\ stats' = stats /\ hook' = hook /\ Unread
        /\ snapshot' = [snapshot EXCEPT ![p] = s]
    BY <1>4, <2>2 DEF Room!SnapshotRange, Room!redisVars, Unread
  <2>6. SnapshotsOK'
    BY <2>4, <2>5, SnapshotMoves DEF PhonesInv
  <2>7. TicksOK' /\ HooksOK'
    BY <2>5, Unmoved
  <2> QED BY <2>5, <2>6, <2>7 DEF PhonesInv
<1>5. CASE Room!SnapshotStats(p)
  <2>1. PICK s : /\ s = Sending("idle", <<>>, {}) \/ s = Sending("ranks", <<>>, {})
                 /\ snapshot' = [snapshot EXCEPT ![p] = s]
    BY <1>1, <1>5 DEF Room!SnapshotStats
  <2>2. /\ joined' = joined /\ tick' = tick /\ stats' = stats /\ Unread
        /\ Room!SetLeaderboard({p}, snapshot[p].top)
    BY <1>5 DEF Room!SnapshotStats, Room!redisVars, Unread
  <2>3. SnapshotsOK'
    BY <1>3, <2>1, <2>2, SnapshotMoves DEF PhonesInv
  <2>4. HooksOK'
    BY <1>2, <2>2, BoardTold DEF GoodSender
  <2>5. TicksOK'
    BY <2>2, Unmoved
  <2> QED BY <2>2, <2>3, <2>4, <2>5 DEF PhonesInv
<1>6. CASE Room!SnapshotRank(p)
  <2>1. /\ joined' = joined /\ tick' = tick /\ stats' = stats /\ Unread
        /\ Room!SetRank({p})
        /\ snapshot' = [snapshot EXCEPT ![p] = Sending("idle", <<>>, {})]
    BY <1>1, <1>6 DEF Room!SnapshotRank, Room!redisVars, Unread
  <2>2. SnapshotsOK'
    BY <1>3, <2>1, SnapshotMoves DEF PhonesInv
  <2>3. HooksOK'
    BY <1>2, <2>1, RankTold
  <2>4. TicksOK'
    BY <2>1, Unmoved
  <2> QED BY <2>1, <2>2, <2>3, <2>4 DEF PhonesInv
<1> QED BY <1>4, <1>5, <1>6 DEF Room!SnapshotStep

(* The ticker's steps.                                                     *)
LEMMA RoomTicks ==
    ASSUME Room!RoomAssumption, ScorerInv, PhonesInv, NEW t \in Ticks,
           Room!TickStep(t) \/ Room!TickFails(t)
    PROVE  PhonesInv' /\ Unread
<1>1. /\ GoodTop(<<>>, stats) /\ Room!Rest = Sending("idle", <<>>, {})
      /\ [Room!Rest EXCEPT !.pc = "del"] = Sending("del", <<>>, {})
      /\ \A pc, out : [Room!Rest EXCEPT !.pc = pc, !.outside = out] = Sending(pc, <<>>, out)
  BY NoTop
<1>2. GoodSender(tick[t], TickLabels, stats) /\ HooksOK /\ joined \subseteq Phones
  BY DEF PhonesInv, TicksOK
<1>3. PICK top, out : /\ top = tick[t].top /\ GoodTop(top, stats)
                      /\ out = tick[t].outside /\ out \subseteq Phones
                      /\ tick[t] \in Room!Sender(TickLabels)
  BY <1>2 DEF GoodSender, Room!Sender
<1>4. ASSUME NEW s, GoodSender(s, TickLabels, stats), tick' = [tick EXCEPT ![t] = s],
             UNCHANGED <<stats, snapshot, joined>>, HooksOK'
      PROVE  PhonesInv'
  <2>1. TicksOK'
    BY <1>4, TickMoves DEF PhonesInv
  <2>2. SnapshotsOK'
    BY <1>4, Unmoved
  <2> QED BY <1>4, <2>1, <2>2 DEF PhonesInv
<1>5. CASE Room!Scard(t)
  <2>1. PICK s : s = [tick[t] EXCEPT !.pc = "range"]
    OBVIOUS
  <2>2. s = Sending("range", top, out)
    BY <1>3, <2>1 DEF Room!Sender, Sending
  <2>3. GoodSender(s, TickLabels, stats)
    BY <1>3, <2>2, SendingGood DEF TickLabels
  <2>4. /\ UNCHANGED <<stats, snapshot, joined, hook>> /\ Unread
        /\ tick' = [tick EXCEPT ![t] = s]
    BY <1>5, <2>1 DEF Room!Scard, Room!redisVars, Unread
  <2>5. HooksOK'
    BY <2>4, Unmoved
  <2> QED BY <1>4, <2>3, <2>4, <2>5
<1>6. CASE Room!Zrevrange(t)
  <2>1. PICK s : s = [tick[t] EXCEPT !.pc = "stats", !.top = Room!Top]
    OBVIOUS
  <2>2. s = Sending("stats", Room!Top, out)
    BY <1>3, <2>1 DEF Room!Sender, Sending
  <2>3. GoodSender(s, TickLabels, stats)
    BY <1>3, <2>2, SendingGood, TopIsGood DEF TickLabels
  <2>4. /\ UNCHANGED <<stats, snapshot, joined, hook>> /\ Unread
        /\ tick' = [tick EXCEPT ![t] = s]
    BY <1>6, <2>1 DEF Room!Zrevrange, Room!redisVars, Unread
  <2>5. HooksOK'
    BY <2>4, Unmoved
  <2> QED BY <1>4, <2>3, <2>4, <2>5
<1>7. CASE Room!Emit(t)
  <2>1. PICK new : new = {p \in joined : UserOf[p] \notin Room!ToSet(tick[t].top)}
    OBVIOUS
  <2>2. /\ UNCHANGED <<stats, snapshot, joined>> /\ Unread
        /\ Room!SetLeaderboard(joined, top)
        /\ tick' = [tick EXCEPT ![t] =
               [Room!Rest EXCEPT !.pc = IF new = {} THEN "del" ELSE "ranks", !.outside = new]]
    BY <1>3, <1>7, <2>1 DEF Room!Emit, Room!redisVars, Unread
  <2>3. PICK pc \in TickLabels : pc = IF new = {} THEN "del" ELSE "ranks"
    BY DEF TickLabels
  <2>4. tick' = [tick EXCEPT ![t] = Sending(pc, <<>>, new)]
    <3>1. [Room!Rest EXCEPT !.pc = pc, !.outside = new] = Sending(pc, <<>>, new)
      BY <1>1
    <3> QED BY <2>2, <2>3, <3>1
  <2>5. GoodSender(Sending(pc, <<>>, new), TickLabels, stats)
    <3>1. new \subseteq Phones
      BY <1>2, <2>1
    <3> QED BY <1>1, <3>1, SendingGood
  <2>6. HooksOK'
    BY <1>2, <1>3, <2>2, BoardTold
  <2> QED BY <1>4, <2>2, <2>4, <2>5, <2>6
<1>8. CASE Room!Ranks(t)
  <2>1. /\ UNCHANGED <<stats, snapshot, joined>> /\ Unread
        /\ Room!SetRank(tick[t].outside \cap joined)
        /\ tick' = [tick EXCEPT ![t] = Sending("del", <<>>, {})]
    BY <1>1, <1>8 DEF Room!Ranks, Room!redisVars, Unread
  <2>2. GoodSender(Sending("del", <<>>, {}), TickLabels, stats)
    BY <1>1, SendingGood DEF TickLabels
  <2>3. HooksOK'
    BY <1>2, <2>1, RankTold
  <2> QED BY <1>4, <2>1, <2>2, <2>3
<1>9. CASE Room!Del(t) \/ Room!TickFails(t)
  <2>1. /\ UNCHANGED <<stats, snapshot, joined, hook>> /\ Unread
        /\ tick' = [tick EXCEPT ![t] = Sending("idle", <<>>, {})]
    BY <1>1, <1>9 DEF Room!Del, Room!TickFails, Room!redisVars, Unread
  <2>2. GoodSender(Sending("idle", <<>>, {}), TickLabels, stats)
    BY <1>1, SendingGood DEF TickLabels
  <2>3. HooksOK'
    BY <2>1, Unmoved
  <2> QED BY <1>4, <2>1, <2>2, <2>3
<1> QED BY <1>5, <1>6, <1>7, <1>8, <1>9 DEF Room!TickStep

LEMMA RoomStep ==
    ASSUME Room!RoomAssumption, RoomInv, [Room!Next]_Room!vars
    PROVE  RoomInv'
<1>1. ScorerInv /\ PhonesInv
  BY DEF RoomInv
<1>2. CASE Unread /\ PhonesInv'
  BY <1>1, <1>2, ScorerKept DEF Unread, RoomInv
<1>3. ASSUME ScorerInv', Grows(stats', stats), UNCHANGED <<tick, snapshot, joined, hook>>
      PROVE  RoomInv'
  BY <1>1, <1>3, PhonesKept DEF RoomInv
<1>4. CASE Room!Scoring
  <2>1. UNCHANGED <<tick, snapshot, joined, hook>>
    BY <1>4 DEF Room!Scoring, Room!Solve, Room!PostScore
  <2> QED BY <1>1, <1>3, <1>4, <2>1, RoomCounts, RoomPosts DEF Room!Scoring
<1>5. ASSUME NEW u \in Users, NEW p \in Problems, Room!Accept(u, p) \/ Room!Reject(u, p)
      PROVE  RoomInv'
  <2>1. UNCHANGED <<tick, snapshot, joined, hook>>
    BY <1>5 DEF Room!Accept, Room!Reject
  <2> QED BY <1>1, <1>3, <1>5, <2>1, RoomAccepts, RoomRejects
<1>6. ASSUME NEW p \in Phones,
             Room!watch(p) \/ Room!Leave(p) \/ Room!SnapshotStep(p) \/ Room!SnapshotFails(p)
      PROVE  RoomInv'
  BY <1>1, <1>2, <1>6, RoomWatches, RoomSnapshots
<1>7. ASSUME NEW t \in Ticks, Room!TickStep(t) \/ Room!TickFails(t) PROVE RoomInv'
  BY <1>1, <1>2, <1>7, RoomTicks
<1>8. CASE UNCHANGED Room!vars
  <2>1. UNCHANGED <<stats, leaderboard, dirty, scorer, tick, snapshot, joined, hook>>
    BY <1>8 DEF Room!vars, Room!redisVars
  <2>2. ScorerInv' /\ PhonesInv'
    BY <1>1, <2>1, ScorerKept, NoGrowth, PhonesKept
  <2> QED BY <2>2 DEF RoomInv
<1> QED BY <1>4, <1>5, <1>6, <1>7, <1>8 DEF Room!Next

LEMMA RoomInit ==
    ASSUME Room!RoomAssumption, Room!Init
    PROVE  RoomInv
<1>1. /\ stats = [u \in Users |-> NoStats] /\ leaderboard = [u \in Users |-> Absent]
      /\ dirty = {} /\ scorer = Room!Free /\ joined = {}
      /\ tick = [t \in Ticks |-> Sending("idle", <<>>, {})]
      /\ snapshot = [p \in Phones |-> Sending("idle", <<>>, {})]
      /\ hook = [p \in Phones |-> Room!Blank]
  BY NoTop DEF Room!Init, Room!EmptyBoard, Room!NoStats, NoStats
<1>2. NoStats \in Stats /\ StatOK(NoStats) /\ NoStats.solvedCount = 0
  BY NoStatsOK DEF NoStats, Stats
<1>3. ScorerInv
  <2>1. BoardTypeOK
    BY <1>1, <1>2 DEF BoardTypeOK
  <2>2. \A u \in Users : /\ StatOK(stats[u]) /\ leaderboard[u] = Absent
                         /\ OnBoard(u) = Absent
    BY <1>1, <1>2 DEF OnBoard
  <2>3. /\ scorer.pc = "idle"
        /\ scorer \in [pc : {"idle", "solve", "post"}, user : Users \cup {None},
                       problem : Problems \cup {None}, score : Int]
    BY <1>1 DEF Room!Free
  <2> QED BY <1>1, <2>1, <2>2, <2>3 DEF ScorerInv
<1>4. /\ GoodSender(Sending("idle", <<>>, {}), TickLabels, stats)
      /\ GoodSender(Sending("idle", <<>>, {}), SnapshotLabels, stats)
      /\ GoodHook(Room!Blank, stats)
  BY NoTop, SendingGood, BlankGood DEF TickLabels, SnapshotLabels
<1>5. PhonesInv
  BY <1>1, <1>4 DEF PhonesInv, TicksOK, SnapshotsOK, HooksOK
<1> QED BY <1>3, <1>5 DEF RoomInv

LEMMA RoomInvariance ==
    ASSUME Room!RoomAssumption
    PROVE  Room!Spec => []RoomInv
<1>1. Room!Init => RoomInv
  BY RoomInit
<1>2. RoomInv /\ [Room!Next]_Room!vars => RoomInv'
  BY RoomStep
<1> QED BY <1>1, <1>2, PTL DEF Room!Spec

(* The state of the ws-server and of the phones is well-formed.            *)
THEOREM RoomTypes ==
    ASSUME Room!RoomAssumption
    PROVE  Room!Spec => []Room!TypeOK
<1>1. RoomInv => Room!TypeOK
  <2> SUFFICES ASSUME RoomInv PROVE Room!TypeOK
    OBVIOUS
  <2>1. Room!BoardTypeOK
    BY DEF RoomInv, ScorerInv, BoardTypeOK, Room!BoardTypeOK, Stats, Room!Stats
  <2>2. tick \in [Ticks -> Room!Sender(TickLabels)]
    BY DEF RoomInv, PhonesInv, TicksOK, GoodSender
  <2>3. snapshot \in [Phones -> Room!Sender(SnapshotLabels)]
    BY DEF RoomInv, PhonesInv, SnapshotsOK, GoodSender
  <2>4. hook \in [Phones -> [leaderboard : Seq(Room!Entry), rank : Nat \cup {None}]]
    BY DEF RoomInv, PhonesInv, HooksOK, GoodHook
  <2>5. joined \subseteq Phones
        /\ scorer \in [pc : {"idle", "solve", "post"}, user : Users \cup {None},
                       problem : Problems \cup {None}, score : Int]
    BY DEF RoomInv, PhonesInv, ScorerInv
  <2> QED BY <2>1, <2>2, <2>3, <2>4, <2>5 DEF Room!TypeOK, TickLabels, SnapshotLabels
<1> QED BY <1>1, RoomInvariance, PTL

(* What a phone shows was counted: at most TopN users, each once, each     *)
(* with a solved problem and with no more solved or penalty than the hash  *)
(* of that user holds now, also when a tick read the users before a score  *)
(* changed and their hashes after it; and a rank that a user can have.     *)
PhonesShowWhatCounts ==
    \A p \in Phones :
        LET board == hook[p].leaderboard IN
        /\ Len(board) <= TopN
        /\ \A i, j \in DOMAIN board : board[i].userId = board[j].userId => i = j
        /\ \A i \in DOMAIN board :
              /\ 1 <= board[i].solvedCount
              /\ board[i].solvedCount <= stats[board[i].userId].solvedCount
              /\ board[i].totalPenalty <= stats[board[i].userId].totalPenaltySeconds
        /\ hook[p].rank # None => hook[p].rank \in 1..Cardinality(Users)

THEOREM RoomShowsWhatCounts ==
    ASSUME Room!RoomAssumption
    PROVE  Room!Spec => []PhonesShowWhatCounts
<1>1. RoomInv => PhonesShowWhatCounts
  <2> SUFFICES ASSUME RoomInv, NEW p \in Phones
               PROVE  LET board == hook[p].leaderboard IN
                      /\ Len(board) <= TopN
                      /\ \A i, j \in DOMAIN board : board[i].userId = board[j].userId => i = j
                      /\ \A i \in DOMAIN board :
                            /\ 1 <= board[i].solvedCount
                            /\ board[i].solvedCount <= stats[board[i].userId].solvedCount
                            /\ board[i].totalPenalty
                                   <= stats[board[i].userId].totalPenaltySeconds
                      /\ hook[p].rank # None => hook[p].rank \in 1..Cardinality(Users)
    BY DEF PhonesShowWhatCounts
  <2>1. GoodBoard(hook[p].leaderboard, stats) /\ GoodRank(hook[p].rank)
    BY DEF RoomInv, PhonesInv, HooksOK, GoodHook
  <2> QED BY <2>1 DEF GoodBoard, EntryOK, GoodRank
<1> QED BY <1>1, RoomInvariance, PTL

(* A phone that shows the current board and was sent no rank of its own    *)
(* finds its user in the place that Redis gives it.                        *)
PlaceIsRank ==
    \A p \in Phones :
        /\ hook[p].leaderboard = Room!Entries(Room!Top) /\ hook[p].rank = None
        /\ UserOf[p] \in Room!ToSet(Room!Top)
        => Room!effectiveRank(p) = Room!Rank(UserOf[p])

THEOREM RoomPlaceIsRank ==
    ASSUME Room!RoomAssumption
    PROVE  Room!Spec => []PlaceIsRank
<1>1. RoomInv => PlaceIsRank
  <2> SUFFICES ASSUME RoomInv, NEW p \in Phones,
                      hook[p].leaderboard = Room!Entries(Room!Top), hook[p].rank = None,
                      UserOf[p] \in Room!ToSet(Room!Top)
               PROVE  Room!effectiveRank(p) = Room!Rank(UserOf[p])
    BY DEF PlaceIsRank
  <2>1. ScorerInv /\ RoomBoard
    BY DEF RoomInv, ScorerInv, BoardTypeOK, RoomBoard
  <2>2. PICK top : top = Room!Top
    OBVIOUS
  <2>3. PICK n \in Nat : n = Len(top)
    BY <2>1, <2>2, TopOK
  <2>4. /\ top \in Seq(Users) /\ DOMAIN top = 1..n
        /\ \A i \in 1..n : Room!Rank(top[i]) = i
    BY <2>1, <2>2, <2>3, TopOK
  <2>5. PICK k \in 1..n : top[k] = UserOf[p]
    BY <2>2, <2>4 DEF Room!ToSet
  <2>6. PICK board : board = hook[p].leaderboard
    OBVIOUS
  <2>7. DOMAIN board = 1..n /\ \A i \in 1..n : board[i].userId = top[i]
    BY <2>2, <2>4, <2>6 DEF Room!Entries
  <2>8. {i \in DOMAIN board : board[i].userId = UserOf[p]} = {k}
    <3>1. ASSUME NEW i \in 1..n, top[i] = UserOf[p] PROVE i = k
      BY <2>4, <2>5, <3>1
    <3> QED BY <2>5, <2>7, <3>1
  <2>9. Room!effectiveRank(p) = CHOOSE i \in {k} : TRUE
    BY <2>6, <2>8 DEF Room!effectiveRank
  <2> QED BY <2>4, <2>5, <2>9
<1> QED BY <1>1, RoomInvariance, PTL

(* The live rank, which breaks ties by user, against the rank of the       *)
(* result, which shares them.  Once every verdict is in, no user falls     *)
(* behind the result, and without a tie the two are the same.              *)
Untied(u) == \A v \in ranked \ {u} : Before(u, v) \/ Before(v, u)

LiveRankMatchesFinal ==
    upsets = {} /\ Settled =>
        \A u \in ranked :
            participants[u] # NotRegistered =>
                /\ finalize_contest[u].rank <= Room!Rank(u)
                /\ Untied(u) => finalize_contest[u].rank = Room!Rank(u)

THEOREM LiveRankIsFinal ==
    ASSUME Users \subseteq Nat, PENALTY_PER_WRONG * MaxRows < SOLVED_SCORE_WEIGHT
    PROVE  Spec => []LiveRankMatchesFinal
<1>1. OrderInv /\ LiveMatchesFinal => LiveRankMatchesFinal
  <2> SUFFICES ASSUME OrderInv, LiveMatchesFinal, upsets = {}, Settled,
                      NEW u \in ranked, participants[u] # NotRegistered
               PROVE  /\ finalize_contest[u].rank <= Room!Rank(u)
                      /\ Untied(u) => finalize_contest[u].rank = Room!Rank(u)
    BY DEF LiveRankMatchesFinal
  <2> DEFINE Behind == {v \in ranked : Before(v, u)}
             After  == {v \in Room!Members : Room!Ahead(v, u)}
  <2>1. TypeOK
    BY DEF OrderInv, RaceInv, SerialInv, JobInv
  <2>2. Room!Members = ranked
    <3>1. ASSUME NEW v \in Users PROVE v \in ranked <=> leaderboard[v] # Absent
      <4>1. leaderboard[v] = OnBoard(v)
        <5>1. ShownOK(v) /\ ~ Posting(v)
          BY <3>1 DEF OrderInv, RaceInv, SerialInv, Settled, Posting
        <5> QED BY <5>1 DEF ShownOK
      <4>2. stats[v].solvedCount = Cardinality(first_ac(v)) /\ IsFiniteSet(first_ac(v))
        BY <2>1, HashIsResult, FirstAcFinite
      <4>3. stats[v].solvedCount = 0 <=> first_ac(v) = {}
        BY <4>2, FS_EmptySet
      <4>4. stats[v] \in Stats
        BY <2>1 DEF TypeOK, BoardTypeOK
      <4>5. stats[v].solvedCount \in Nat /\ stats[v].totalPenaltySeconds \in Nat
        BY <4>4 DEF Stats
      <4>6. Score(stats[v]) \in Int
        BY <4>5 DEF Score, SOLVED_SCORE_WEIGHT
      <4>7. OnBoard(v) # Absent <=> stats[v].solvedCount # 0
        BY <4>6, BoardAssumption DEF OnBoard
      <4> QED BY <4>1, <4>3, <4>7 DEF ranked
    <3> QED BY <3>1 DEF Room!Members, ranked
  <2>3. ranked \subseteq Users /\ IsFiniteSet(ranked)
    <3>1. ranked \subseteq Users
      BY DEF ranked
    <3> QED BY <3>1, ScoreAssumption, FS_Subset
  <2>4. \A v \in ranked : leaderboard[v] \in Int /\ v \in Int
    BY <2>1, <2>2, <2>3 DEF Room!Members, TypeOK, BoardTypeOK
  <2>5. \A v, w \in ranked : leaderboard[v] > leaderboard[w] <=> Before(v, w)
    BY DEF LiveMatchesFinal
  <2>6. finalize_contest[u].rank = 1 + Cardinality(Behind)
    BY <2>3 DEF finalize_contest
  <2>7. Room!Rank(u) = 1 + Cardinality(After)
    BY <2>2, RoomCardinality DEF Room!Rank
  <2>8. Behind \subseteq After
    BY <2>2, <2>4, <2>5 DEF Room!Ahead
  <2>9. After \subseteq ranked
    BY <2>2
  <2>10. ASSUME Untied(u) PROVE After = Behind
    <3>1. ASSUME NEW v \in ranked, Room!Ahead(v, u) PROVE Before(v, u)
      <4>1. CASE v = u
        BY <2>4, <3>1, <4>1 DEF Room!Ahead
      <4>2. CASE v # u
        <5>1. Before(u, v) \/ Before(v, u)
          BY <2>10, <4>2 DEF Untied
        <5>2. ~ Before(u, v)
          BY <2>4, <2>5, <3>1 DEF Room!Ahead
        <5> QED BY <5>1, <5>2
      <4> QED BY <4>1, <4>2
    <3> QED BY <2>2, <2>8, <3>1
  <2> HIDE DEF Behind, After
  <2>11. IsFiniteSet(After) /\ Cardinality(After) \in Nat
    BY <2>3, <2>9, FS_Subset, FS_CardinalityType
  <2>12. Cardinality(Behind) <= Cardinality(After) /\ Cardinality(Behind) \in Nat
    BY <2>8, <2>11, FS_Subset, FS_CardinalityType
  <2>13. finalize_contest[u].rank <= Room!Rank(u)
    BY <2>6, <2>7, <2>11, <2>12
  <2> QED BY <2>6, <2>7, <2>10, <2>13
<1>2. Spec => []LiveMatchesFinal
  BY LiveBoardIsFinal
<1> QED BY <1>1, <1>2, OrderInvariance, PTL

-----------------------------------------------------------------------------
(* ContestRoom's consumer is a contest's only one.                         *)

TheConsumer == CHOOSE c \in Consumers : TRUE

\* What ContestRoom keeps of a consumer: the problem it is about to count, and
\* the score it is about to post.
ScorerOf(c) ==
    IF job[c].pc \in {"fails", "solve"}
    THEN [pc |-> "solve", user |-> User(c), problem |-> Problem(c), score |-> 0]
    ELSE IF job[c].pc = "post"
    THEN [pc |-> "post", user |-> User(c), problem |-> Problem(c), score |-> job[c].score]
    ELSE [pc |-> "idle", user |-> None, problem |-> None, score |-> 0]

\* ContestRoom with nobody in the room, and as many failures as there are rows.
Unwatched == INSTANCE ContestRoom WITH
    Phones <- {}, UserOf <- [p \in {} |-> 0], Ticks <- {}, TopN <- 1, MaxFails <- MaxRows,
    Faults <- {}, scorer <- ScorerOf(TheConsumer), tick <- [t \in {} |-> 0],
    snapshot <- [p \in {} |-> 0], joined <- {}, hook <- [p \in {} |-> 0]

LEMMA UnwatchedSame ==
    ASSUME UNCHANGED redisVars, ScorerOf(TheConsumer)' = ScorerOf(TheConsumer)
    PROVE  UNCHANGED Unwatched!vars
  BY DEF Unwatched!vars, Unwatched!redisVars, redisVars

LEMMA ScorerSame ==
    ASSUME NEW c,
           \/ job[c].pc \notin {"fails", "solve", "post"} /\ job'[c].pc \notin {"fails", "solve", "post"}
           \/ job[c].pc \in {"fails", "solve"} /\ job'[c].pc \in {"fails", "solve"}
              /\ UNCHANGED rows /\ job'[c].row = job[c].row
    PROVE  ScorerOf(c)' = ScorerOf(c)
  BY DEF ScorerOf, User, Problem

(* A step of the contest is a step of the consumer, or of nobody in the    *)
(* room.                                                                   *)
LEMMA UnwatchedStep ==
    ASSUME NEW d, Consumers = {d}, Faults = {},
           SerialInv, CreditIsBacked', JobInv', [Next]_vars
    PROVE  [Unwatched!Next]_Unwatched!vars
<1>1. /\ TheConsumer = d /\ d \in Consumers
      /\ JobInv /\ ReadingOK(d) /\ TypeOK /\ job \in [Consumers -> Job] /\ job[d] \in Job
      /\ stats \in [Users -> Stats]
  BY DEF TheConsumer, SerialInv, JobInv, TypeOK, BoardTypeOK
<1>2. Busy(d) => User(d) \in Users /\ Problem(d) \in Problems /\ job[d].row \in DOMAIN rows
  BY <1>1, JobFacts
<1>3. ASSUME UNCHANGED redisVars, ScorerOf(d)' = ScorerOf(d)
      PROVE  [Unwatched!Next]_Unwatched!vars
  BY <1>1, <1>3, UnwatchedSame
<1>4. ASSUME UNCHANGED <<redisVars, job>>, RowsKept PROVE [Unwatched!Next]_Unwatched!vars
  <2>1. CASE Busy(d)
    <3>1. User(d)' = User(d) /\ Problem(d)' = Problem(d)
      BY <1>1, <1>4, <2>1, OwnerKept
    <3> QED BY <1>3, <1>4, <3>1 DEF ScorerOf
  <2>2. CASE ~ Busy(d)
    BY <1>3, <1>4, <2>2, ScorerSame DEF Busy
  <2> QED BY <2>1, <2>2
<1>5. CASE UNCHANGED vars
  BY <1>4, <1>5 DEF vars, RowsKept
<1>6. CASE Clock \/ sweepContestLifecycle \/ \E u \in Users : registerForContest(u)
  BY <1>4, <1>6 DEF Clock, sweepContestLifecycle, Start, Finish, registerForContest,
                    CheckWindow, InsertParticipant, RowsKept
<1>7. ASSUME NEW u \in Users, NEW p \in Problems, Submit(u, p)
      PROVE  [Unwatched!Next]_Unwatched!vars
  <2>1. Submits(u, p)
    BY <1>7 DEF Submit, Submits
  <2>2. RowsKept
    BY <1>1, <2>1, ArrivalsKeep
  <2> QED BY <1>4, <1>7, <2>2 DEF Submit
<1>8. ASSUME NEW s \in DOMAIN rows, NEW verdict \in Judged, Store(d, s, verdict)
      PROVE  [Unwatched!Next]_Unwatched!vars
  <2>1. job[d].pc = "idle" /\ job'[d].pc = "meta" /\ UNCHANGED redisVars
    BY <1>1, <1>8 DEF Store, Idle
  <2> QED BY <1>3, <2>1, ScorerSame
<1>9. CASE getContestMeta(d)
  <2>1. job[d].pc = "meta" /\ job'[d].pc = "status" /\ UNCHANGED redisVars
    BY <1>1, <1>9 DEF getContestMeta, Goto
  <2> QED BY <1>3, <2>1, ScorerSame
<1>10. CASE ReadStatus(d)
  <2>1. job[d].pc = "status" /\ UNCHANGED <<rows, redisVars>> /\ Busy(d)
    BY <1>10 DEF ReadStatus, Busy
  <2>2. CASE job'[d].pc \in {"idle", "fail"}
    BY <1>3, <2>1, <2>2, ScorerSame
  <2>3. CASE job'[d].pc \notin {"idle", "fail"}
    <3>1. job'[d] = [job[d] EXCEPT !.pc = "fails"] /\ stats[User(d)].status[Problem(d)] # "AC"
      BY <1>1, <1>10, <2>3 DEF ReadStatus, Done, Goto, Idle
    <3>2. job'[d].pc = "fails" /\ job'[d].row = job[d].row
      BY <1>1, <3>1 DEF Job
    <3>3. User(d)' = User(d) /\ Problem(d)' = Problem(d)
      BY <2>1, <3>2 DEF User, Problem
    <3>4. PICK u \in Users, p \in Problems : u = User(d) /\ p = Problem(d)
      BY <1>2, <2>1
    <3>5. ScorerOf(d) = [pc |-> "idle", user |-> None, problem |-> None, score |-> 0]
      BY <2>1 DEF ScorerOf
    <3>6. ScorerOf(d)' = [pc |-> "solve", user |-> u, problem |-> p, score |-> 0]
      BY <3>2, <3>3, <3>4 DEF ScorerOf
    <3>7. PICK free : free = [pc |-> "idle", user |-> None, problem |-> None, score |-> 0]
      OBVIOUS
    <3>8. [free EXCEPT !.pc = "solve", !.user = u, !.problem = p]
              = [pc |-> "solve", user |-> u, problem |-> p, score |-> 0]
      <4>1. PICK r : r = [free EXCEPT !.pc = "solve"]
        OBVIOUS
      <4>2. r = [pc |-> "solve", user |-> None, problem |-> None, score |-> 0]
        BY <3>7, <4>1
      <4>3. PICK q : q = [r EXCEPT !.user = u]
        OBVIOUS
      <4>4. q = [pc |-> "solve", user |-> u, problem |-> None, score |-> 0]
        BY <4>2, <4>3
      <4>5. [q EXCEPT !.problem = p] = [pc |-> "solve", user |-> u, problem |-> p, score |-> 0]
        BY <4>4
      <4> QED BY <4>1, <4>3, <4>5, Zenon
    <3>9. Unwatched!Free = free
      BY <3>7 DEF Unwatched!Free
    <3>10. Unwatched!Accept(u, p)
      <4>1. ScorerOf(d)' = [Unwatched!Free EXCEPT !.pc = "solve", !.user = u, !.problem = p]
        BY <3>6, <3>8, <3>9, Zenon
      <4>2. ScorerOf(d) = Unwatched!Free
        BY <3>5, <3>7, <3>9
      <4> QED BY <1>1, <2>1, <3>1, <3>4, <4>1, <4>2
              DEF Unwatched!Accept, Unwatched!redisVars, redisVars
    <3> QED BY <3>10 DEF Unwatched!Next
  <2> QED BY <2>2, <2>3
<1>11. CASE ReadFails(d)
  <2>1. /\ job[d].pc = "fails" /\ job'[d].pc = "solve" /\ job'[d].row = job[d].row
        /\ UNCHANGED <<rows, redisVars>>
    BY <1>1, <1>11 DEF ReadFails, Job
  <2> QED BY <1>3, <2>1, ScorerSame
<1>12. CASE Solve(d)
  <2>1. /\ job[d].pc = "solve" /\ Busy(d) /\ UNCHANGED rows
        /\ CountSolved(User(d), Problem(d), job[d].fails)
        /\ job'[d] = [job[d] EXCEPT !.pc = "post", !.score = Score(stats'[User(d)])]
    BY <1>1, <1>12 DEF Solve, Busy
  <2>2. /\ job'[d].pc = "post" /\ job'[d].row = job[d].row
        /\ job'[d].score = Score(stats'[User(d)])
    BY <1>1, <2>1 DEF Job
  <2>3. User(d)' = User(d) /\ Problem(d)' = Problem(d)
    BY <2>1, <2>2 DEF User, Problem
  <2>4. PICK u \in Users, p \in Problems : u = User(d) /\ p = Problem(d)
    BY <1>2, <2>1
  <2>5. ScorerOf(d) = [pc |-> "solve", user |-> u, problem |-> p, score |-> 0]
    BY <2>1, <2>4 DEF ScorerOf
  <2>6. ScorerOf(d)' = [pc |-> "post", user |-> u, problem |-> p, score |-> Score(stats'[u])]
    BY <2>2, <2>3, <2>4 DEF ScorerOf
  <2>7. CountSolved(u, p, stats[u].fails[p])
    BY <1>1, <2>1, <2>4 DEF ReadingOK
  <2>8. Unwatched!CountSolved(u, p, stats[u].fails[p])
    BY <2>7 DEF Unwatched!CountSolved, CountSolved, Unwatched!PENALTY_PER_WRONG,
                PENALTY_PER_WRONG
  <2>9. Unwatched!Score(stats'[u]) = Score(stats'[u])
    BY DEF Unwatched!Score, Score, Unwatched!SOLVED_SCORE_WEIGHT, SOLVED_SCORE_WEIGHT
  <2>10. PICK n, s : n = Score(stats'[u]) /\ s = ScorerOf(d)
    OBVIOUS
  <2>11. [s EXCEPT !.pc = "post", !.score = n]
             = [pc |-> "post", user |-> u, problem |-> p, score |-> n]
    <3>1. PICK r : r = [s EXCEPT !.pc = "post"]
      OBVIOUS
    <3>2. r = [pc |-> "post", user |-> u, problem |-> p, score |-> 0]
      BY <2>5, <2>10, <3>1
    <3>3. [r EXCEPT !.score = n] = [pc |-> "post", user |-> u, problem |-> p, score |-> n]
      BY <3>2
    <3> QED BY <3>1, <3>3, Zenon
  <2>12. Unwatched!Solve
    <3>1. ScorerOf(d).pc = "solve" /\ ScorerOf(d).user = u /\ ScorerOf(d).problem = p
      BY <2>5
    <3>2. ScorerOf(d)' = [ScorerOf(d) EXCEPT !.pc = "post",
                                             !.score = Unwatched!Score(stats'[u])]
      BY <2>6, <2>9, <2>10, <2>11, Zenon
    <3> QED BY <1>1, <2>8, <3>1, <3>2 DEF Unwatched!Solve
  <2> QED BY <2>12 DEF Unwatched!Next, Unwatched!Scoring
<1>13. CASE PostScore(d)
  <2>1. /\ job[d].pc = "post" /\ Busy(d) /\ UNCHANGED rows
        /\ SetScore(User(d), job[d].score) /\ job'[d].pc = "idle"
    BY <1>1, <1>13 DEF PostScore, Busy, Done, Idle
  <2>2. ScorerOf(d) = [pc |-> "post", user |-> User(d), problem |-> Problem(d),
                       score |-> job[d].score]
    BY <2>1 DEF ScorerOf
  <2>3. ScorerOf(d)' = [pc |-> "idle", user |-> None, problem |-> None, score |-> 0]
    BY <2>1 DEF ScorerOf
  <2>4. Unwatched!PostScore
    BY <1>1, <2>1, <2>2, <2>3
       DEF Unwatched!PostScore, Unwatched!SetScore, SetScore, Unwatched!Free
  <2> QED BY <2>4 DEF Unwatched!Next, Unwatched!Scoring
<1>14. CASE Fail(d)
  <2>1. /\ job[d].pc = "fail" /\ Busy(d) /\ UNCHANGED rows
        /\ CountFail(User(d), Problem(d)) /\ job'[d].pc = "idle"
        /\ stats[User(d)].status[Problem(d)] # "AC"
    BY <1>1, <1>14 DEF Fail, Busy, Done, Idle, ReadingOK
  <2>2. PICK u \in Users, p \in Problems : u = User(d) /\ p = Problem(d)
    BY <1>2, <2>1
  <2>3. ScorerOf(d) = [pc |-> "idle", user |-> None, problem |-> None, score |-> 0]
        /\ ScorerOf(d)' = ScorerOf(d)
    BY <2>1 DEF ScorerOf
  <2>4. Unwatched!CountFail(u, p)
    BY <2>1, <2>2 DEF Unwatched!CountFail, CountFail
  <2>5. stats[u].fails[p] < MaxRows
    <3>1. FailedIn(stats[u], stats'[u], p)
      BY <1>1, <2>1, <2>2, FailedBlock
    <3>2. stats[u].fails \in [Problems -> Nat]
      BY <1>1 DEF Stats
    <3>3. stats'[u].fails[p] = stats[u].fails[p] + 1 /\ stats[u].fails[p] \in Nat
      BY <3>1, <3>2 DEF FailedIn
    <3>4. stats'[u].fails[p] <= Cardinality(RowsOf(u, p, "REJECTED")')
      BY DEF CreditIsBacked
    <3>5. RowsOf(u, p, "REJECTED")' = RowsOf(u, p, "REJECTED")
      BY <2>1 DEF RowsOf
    <3>6. /\ IsFiniteSet(DOMAIN rows) /\ Cardinality(DOMAIN rows) = Len(rows)
          /\ Len(rows) \in Nat /\ Len(rows) <= MaxRows
      BY <1>1, RowsOfFinite, RowFacts DEF TypeOK
    <3>7. RowsOf(u, p, "REJECTED") \subseteq DOMAIN rows
      BY DEF RowsOf
    <3>8. /\ Cardinality(RowsOf(u, p, "REJECTED")) <= Len(rows)
          /\ Cardinality(RowsOf(u, p, "REJECTED")) \in Nat
      BY <3>6, <3>7, FS_Subset, FS_CardinalityType
    <3>9. stats[u].fails[p] + 1 <= Cardinality(RowsOf(u, p, "REJECTED"))
      BY <3>3, <3>4, <3>5
    <3> QED BY <3>3, <3>6, <3>8, <3>9, ScoreAssumption
  <2>6. Unwatched!Reject(u, p)
    BY <1>1, <2>1, <2>2, <2>3, <2>4, <2>5 DEF Unwatched!Reject, Unwatched!Free
  <2> QED BY <2>6 DEF Unwatched!Next
<1>15. ~ RedisFails(d) /\ ~ Crash(d)
  BY DEF RedisFails, Crash
<1>16. CASE ScoreStep(d)
  BY <1>9, <1>10, <1>11, <1>12, <1>13, <1>14, <1>15, <1>16 DEF ScoreStep
<1> QED BY <1>5, <1>6, <1>7, <1>8, <1>16 DEF Next

(* With one consumer and no failed call, what the contest does to Redis is *)
(* what ContestRoom lets its consumer do.                                  *)
THEOREM ScoreIsRoomsConsumer ==
    ASSUME NEW d, Consumers = {d}, Faults = {}
    PROVE  Spec => Unwatched!Spec
<1>1. Spec => [](SerialInv /\ Unraced)
  BY OneConsumer
<1>2. Init => Unwatched!Init
  <2> SUFFICES ASSUME Init PROVE Unwatched!Init
    OBVIOUS
  <2>1. TheConsumer = d /\ job[d].pc = "idle"
    BY IdleType DEF Init, TheConsumer
  <2>2. ScorerOf(d) = [pc |-> "idle", user |-> None, problem |-> None, score |-> 0]
    BY <2>1 DEF ScorerOf
  <2>3. Unwatched!EmptyBoard
    BY DEF Init, EmptyBoard, Unwatched!EmptyBoard, NoStats, Unwatched!NoStats
  <2> QED BY <2>1, <2>2, <2>3 DEF Unwatched!Init, Unwatched!Free
<1>3. SerialInv /\ SerialInv' /\ CreditIsBacked' /\ [Next]_vars
          => [Unwatched!Next]_Unwatched!vars
  BY UnwatchedStep DEF SerialInv
<1> QED BY <1>1, <1>2, <1>3, CreditsAreBacked, PTL
        DEF Spec, Unwatched!Spec
=============================================================================
