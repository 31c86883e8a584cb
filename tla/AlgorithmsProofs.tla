-------------------------- MODULE AlgorithmsProofs --------------------------
(***************************************************************************)
(* Theorems about Ranking, Chunker and Speakers, and about Algorithms,     *)
(* which runs them: for all lists, blocks and participants, every rank     *)
(* constant, pool, cap and threshold.                                      *)
(*                                                                         *)
(* Retrieval: the fused list is sorted by a strict total order, and so     *)
(* keeps the order of the ranks (RrfMergeIsFaithful).  The invariant of    *)
(* the loops says where every place is (GroupsInv), how many chunks each   *)
(* meeting has given by the turn of a cycle (CyclesInv), and whose cards   *)
(* there are (CardsInv).                                                   *)
(*                                                                         *)
(* Transcripts: the invariant says of each loop that what it has read is,  *)
(* in order, in what it has written (CuesInv, TurnsInv, ChunksInv), and    *)
(* that the buffer is at no cap (BufferInv).                               *)
(*                                                                         *)
(* Names: what ResolveOne and Choose return, whoever the people are.       *)
(***************************************************************************)
EXTENDS Algorithms, TLAPS, FiniteSetTheorems, SequenceTheorems

-----------------------------------------------------------------------------
(* Sequences and finite sets.                                               *)

\* The rank in a list without repetitions is the index.
LEMMA RankInList ==
  ASSUME NEW l, Distinct(l), NEW i \in DOMAIN l
  PROVE  RankIn(l, l[i]) = i
PROOF
  BY DEF RankIn, Distinct

\* An element has a rank.
LEMMA RankOf ==
  ASSUME NEW l, NEW c \in Elements(l)
  PROVE  RankIn(l, c) \in DOMAIN l /\ l[RankIn(l, c)] = c
PROOF
  BY DEF RankIn, Elements

\* 1..n has n elements.
LEMMA IntervalSize ==
  ASSUME NEW n \in Nat
  PROVE  IsFiniteSet(1..n) /\ Cardinality(1..n) = n
PROOF
  BY FS_Interval

\* A list has finitely many elements.
LEMMA ElementsFinite ==
  ASSUME NEW n \in Nat, NEW S, NEW l \in [1..n -> S]
  PROVE  IsFiniteSet(Elements(l)) /\ Cardinality(Elements(l)) <= n
PROOF
  <1>1. IsFiniteSet(1..n) /\ Cardinality(1..n) = n
    BY FS_Interval
  <1>2. l \in Surjection(1..n, Elements(l))
    BY DEF Surjection, Elements
  <1> QED
    BY <1>1, <1>2, FS_Surjection

\* A finite set in a strict total order is listed by counting predecessors.
LEMMA SortedIsSorted ==
  ASSUME NEW S, IsFiniteSet(S), NEW R,
         \A c \in S : <<c, c>> \notin R,
         \A c, d, e \in S : <<c, d>> \in R /\ <<d, e>> \in R => <<c, e>> \in R,
         \A c, d \in S : c # d => <<c, d>> \in R \/ <<d, c>> \in R
  PROVE  /\ Cardinality(S) \in Nat
         /\ Sorted(S, R) \in [1..Cardinality(S) -> S]
         /\ Distinct(Sorted(S, R))
         /\ Elements(Sorted(S, R)) = S
         /\ \A c, d \in S : <<c, d>> \in R => Ahead(Sorted(S, R), c, d)
PROOF
  <1> DEFINE n == Cardinality(S)
             before(c) == {d \in S : <<d, c>> \in R}
             place == [c \in S |-> Place(S, R, c)]
             s == Sorted(S, R)
  <1>1. n \in Nat
    BY FS_CardinalityType
  <1>2. \A c \in S : /\ IsFiniteSet(before(c))
                     /\ Cardinality(before(c)) \in Nat
                     /\ place[c] = Cardinality(before(c)) + 1
    <2> TAKE c \in S
    <2>1. before(c) \in SUBSET S
      OBVIOUS
    <2>2. IsFiniteSet(before(c))
      BY <2>1, FS_Subset
    <2> QED
      BY <2>2, FS_CardinalityType DEF Place
  <1>3. \A c \in S : place[c] \in 1..n
    <2> TAKE c \in S
    <2>1. before(c) \in SUBSET S /\ c \notin before(c)
      OBVIOUS
    <2>2. Cardinality(before(c)) <= n /\ Cardinality(before(c)) # n
      BY <2>1, FS_Subset
    <2> HIDE DEF before, place, n
    <2> QED
      BY <1>1, <1>2, <2>2
  <1>4. \A c, d \in S : <<c, d>> \in R => place[c] < place[d]
    <2> SUFFICES ASSUME NEW c \in S, NEW d \in S, <<c, d>> \in R
                 PROVE  place[c] < place[d]
      OBVIOUS
    <2>1. before(c) \union {c} \in SUBSET before(d)
      OBVIOUS
    <2>2. c \notin before(c)
      OBVIOUS
    <2> HIDE DEF before, place
    <2>3. Cardinality(before(c) \union {c}) = Cardinality(before(c)) + 1
      BY <1>2, <2>2, FS_AddElement
    <2>4. Cardinality(before(c) \union {c}) <= Cardinality(before(d))
      BY <1>2, <2>1, FS_Subset
    <2> QED
      BY <1>2, <2>3, <2>4
  <1>5. \A c, d \in S : place[c] = place[d] => c = d
    <2> SUFFICES ASSUME NEW c \in S, NEW d \in S, c # d
                 PROVE  place[c] # place[d]
      OBVIOUS
    <2>1. place[c] \in Int /\ place[d] \in Int
      <3> HIDE DEF place, n
      <3> QED
        BY <1>1, <1>3
    <2>2. <<c, d>> \in R \/ <<d, c>> \in R
      OBVIOUS
    <2>3. place[c] < place[d] \/ place[d] < place[c]
      <3> HIDE DEF place
      <3> QED
        BY <1>4, <2>2
    <2> HIDE DEF place
    <2> QED
      BY <2>1, <2>3
  <1>6. \A i \in 1..n : \E c \in S : place[c] = i
    <2>1. place \in Injection(S, 1..n)
      <3>1. place \in [S -> 1..n]
        BY <1>3
      <3> HIDE DEF place
      <3> QED
        BY <3>1, <1>5 DEF Injection, IsInjective
    <2>2. IsFiniteSet(1..n) /\ Cardinality(1..n) = n
      BY <1>1, FS_Interval
    <2> HIDE DEF place, n
    <2>3. place \in Surjection(S, 1..n)
      BY <2>1, <2>2, FS_Injection DEF n
    <2> QED
      BY <2>3 DEF Surjection
  <1>7. s = [i \in 1..n |-> CHOOSE c \in S : place[c] = i]
    <2>1. \A i : (CHOOSE c \in S : Place(S, R, c) = i) = (CHOOSE c \in S : place[c] = i)
      OBVIOUS
    <2> QED
      BY <2>1 DEF Sorted
  <1> HIDE DEF place, n, s
  <1>8. /\ s \in [1..n -> S]
        /\ \A i \in 1..n : place[s[i]] = i
    BY <1>6, <1>7
  <1>9. \A c \in S : place[c] \in 1..n /\ s[place[c]] = c
    BY <1>3, <1>5, <1>8
  <1>10. Distinct(s)
    BY <1>8 DEF Distinct
  <1>11. Elements(s) = S
    BY <1>8, <1>9 DEF Elements
  <1>12. \A c, d \in S : <<c, d>> \in R => Ahead(s, c, d)
    <2> SUFFICES ASSUME NEW c \in S, NEW d \in S, <<c, d>> \in R
                 PROVE  Ahead(s, c, d)
      OBVIOUS
    <2>1. \A i \in DOMAIN s : RankIn(s, s[i]) = i
      BY <1>10, RankInList
    <2>2. place[c] \in DOMAIN s /\ place[d] \in DOMAIN s
      BY <1>8, <1>9
    <2>3. RankIn(s, c) = place[c] /\ RankIn(s, d) = place[d]
      BY <1>9, <2>1, <2>2
    <2> QED
      BY <2>3, <1>4 DEF Ahead
  <1> QED
    BY <1>1, <1>8, <1>10, <1>11, <1>12 DEF s, n

-----------------------------------------------------------------------------
(* Reciprocal rank fusion.                                                  *)

\* A smaller divisor has the greater share.
LEMMA GreaterShare ==
  ASSUME NEW u \in Nat \ {0}, NEW a \in Nat \ {0}, NEW b \in Nat \ {0},
         u % a = 0, u % b = 0
  PROVE  /\ u \div a \in Nat \ {0}
         /\ u \div b \in Nat \ {0}
         /\ a < b => u \div a > u \div b
PROOF
  <1> DEFINE q == u \div a
             r == u \div b
  <1>1. q \in Nat /\ u = a * q
    OBVIOUS
  <1>2. r \in Nat /\ u = b * r
    OBVIOUS
  <1> HIDE DEF q, r
  <1>3. q # 0 /\ r # 0
    BY <1>1, <1>2
  <1>4. ASSUME a < b PROVE q > r
    <2>1. SUFFICES ASSUME q <= r PROVE FALSE
      BY <1>1, <1>2
    <2>2. a * q <= a * r
      BY <1>1, <1>2, <2>1
    <2>3. a * r < b * r
      BY <1>2, <1>3, <1>4
    <2>4. a * q \in Int /\ a * r \in Int /\ b * r \in Int
      BY <1>1, <1>2
    <2>5. a * q < b * r
      BY <2>2, <2>3, <2>4
    <2> QED
      BY <1>1, <1>2, <2>5
  <1> QED
    BY <1>1, <1>2, <1>3, <1>4 DEF q, r

\* The lists of the queries.
LEMMA RankedListsAre ==
  ASSUME NEW l \in RankedLists
  PROVE  /\ Len(l) \in 0..Pool
         /\ l \in [1..Len(l) -> Chunk]
         /\ l \in Seq(Chunk)
         /\ Distinct(l)
         /\ Elements(l) \subseteq Chunk
         /\ IsFiniteSet(Elements(l))
PROOF
  <1>0. Pool \in Nat
    BY RankingConstants DEF Pool
  <1>1. PICK n \in 0..Pool : l \in [1..n -> Chunk] /\ Distinct(l)
    BY DEF RankedLists
  <1>2. n \in Nat
    BY <1>0
  <1>3. l \in Seq(Chunk)
    BY <1>1, <1>2, SeqDef
  <1>4. Len(l) = n
    BY <1>1, <1>2, <1>3, LenProperties
  <1>5. IsFiniteSet(Elements(l))
    BY <1>1, <1>2, ElementsFinite
  <1>6. Elements(l) \subseteq Chunk
    BY <1>1 DEF Elements
  <1> QED
    BY <1>1, <1>3, <1>4, <1>5, <1>6

\* The shares of one list: of the ranks, and so in their order.
LEMMA ShareFollowsRank ==
  ASSUME NEW l \in RankedLists, NEW c, NEW d
  PROVE  /\ Share(l, c) \in Nat
         /\ Beats(l, c, d) => Share(l, c) > Share(l, d)
         /\ ~Beats(l, d, c) => Share(l, c) >= Share(l, d)
PROOF
  <1> DEFINE unit(e) == RrfK + RankIn(l, e)
  <1>0. Unit \in Nat \ {0} /\ RrfK \in Nat \ {0}
    BY RankingConstants
  <1>1. \A e \in Elements(l) :
           /\ RankIn(l, e) \in 1..Pool
           /\ unit(e) \in Nat \ {0}
           /\ Unit % unit(e) = 0
           /\ Share(l, e) = Unit \div unit(e)
           /\ Share(l, e) \in Nat \ {0}
    <2> SUFFICES ASSUME NEW e \in Elements(l)
                 PROVE  /\ RankIn(l, e) \in 1..Pool
                        /\ unit(e) \in Nat \ {0}
                        /\ Unit % unit(e) = 0
                        /\ Share(l, e) = Unit \div unit(e)
                        /\ Share(l, e) \in Nat \ {0}
      OBVIOUS
    <2>0. Pool \in Nat
      BY RankingConstants DEF Pool
    <2>1. RankIn(l, e) \in DOMAIN l
      BY RankOf
    <2>2. RankIn(l, e) \in 1..Pool
      BY <2>0, <2>1, RankedListsAre
    <2>3. unit(e) \in Nat \ {0}
      BY <1>0, <2>0, <2>2
    <2>4. Unit % unit(e) = 0
      BY <2>2, RankingConstants
    <2>5. Share(l, e) = Unit \div unit(e)
      BY DEF Share
    <2> HIDE DEF unit
    <2> QED
      BY <1>0, <2>2, <2>3, <2>4, <2>5, GreaterShare
  <1>2. \A e : e \notin Elements(l) => Share(l, e) = 0
    BY DEF Share
  <1>3. \A e, f \in Elements(l) : RankIn(l, e) < RankIn(l, f) => Share(l, e) > Share(l, f)
    <2> SUFFICES ASSUME NEW e \in Elements(l), NEW f \in Elements(l), RankIn(l, e) < RankIn(l, f)
                 PROVE  Share(l, e) > Share(l, f)
      OBVIOUS
    <2>1. unit(e) < unit(f)
      <3>1. RankIn(l, e) \in Int /\ RankIn(l, f) \in Int
        BY <1>1
      <3> QED
        BY <1>0, <3>1
    <2> HIDE DEF unit
    <2> QED
      BY <1>0, <1>1, <2>1, GreaterShare
  <1>4. \A e, f \in Elements(l) : RankIn(l, e) = RankIn(l, f) => e = f
    BY RankOf
  <1>5. Share(l, c) \in Nat /\ Share(l, d) \in Nat
    BY <1>1, <1>2
  <1>6. Beats(l, c, d) => Share(l, c) > Share(l, d)
    <2> HIDE DEF unit
    <2> QED
      BY <1>1, <1>2, <1>3, <1>5 DEF Beats, Ahead
  <1>7. ~Beats(l, d, c) => Share(l, c) >= Share(l, d)
    <2> SUFFICES ASSUME ~Beats(l, d, c) PROVE Share(l, c) >= Share(l, d)
      OBVIOUS
    <2> HIDE DEF unit
    <2>1. CASE d \notin Elements(l)
      BY <1>2, <1>5, <2>1
    <2>2. CASE d \in Elements(l)
      <3>1. c \in Elements(l) /\ ~(RankIn(l, d) < RankIn(l, c))
        BY <2>2 DEF Beats, Ahead
      <3>2. RankIn(l, c) \in Int /\ RankIn(l, d) \in Int
        BY <1>1, <2>2, <3>1
      <3>3. RankIn(l, c) < RankIn(l, d) \/ RankIn(l, c) = RankIn(l, d)
        BY <3>1, <3>2
      <3>4. Share(l, c) > Share(l, d) \/ c = d
        BY <1>3, <1>4, <2>2, <3>1, <3>3
      <3> QED
        BY <1>5, <3>4
    <2> QED
      BY <2>1, <2>2
  <1> QED
    BY <1>5, <1>6, <1>7

\* No two chunks are met at once.
LEMMA MetOnce ==
  ASSUME NEW v \in RankedLists, NEW b \in RankedLists
  PROVE  /\ \A c \in Found(v, b) : Met(v, b, c) \in Nat
         /\ \A c, d \in Found(v, b) : Met(v, b, c) = Met(v, b, d) => c = d
PROOF
  <1>1. /\ Len(v) \in Nat /\ Len(b) \in Nat
        /\ DOMAIN v = 1..Len(v) /\ DOMAIN b = 1..Len(b)
    BY RankedListsAre
  <1>2. \A c \in Elements(v) : RankIn(v, c) \in 1..Len(v) /\ v[RankIn(v, c)] = c
    BY <1>1, RankOf
  <1>3. \A c \in Elements(b) : RankIn(b, c) \in 1..Len(b) /\ b[RankIn(b, c)] = c
    BY <1>1, RankOf
  <1>4. \A c \in Found(v, b) : c \in Elements(v) \/ c \in Elements(b)
    BY DEF Found
  <1>5. \A c \in Elements(v) : Met(v, b, c) = RankIn(v, c) /\ Met(v, b, c) \in 1..Len(v)
    BY <1>2 DEF Met
  <1>6. \A c \in Found(v, b) : c \notin Elements(v) =>
            /\ Met(v, b, c) = Len(v) + RankIn(b, c)
            /\ Met(v, b, c) \in Nat
            /\ Met(v, b, c) > Len(v)
    BY <1>1, <1>3, <1>4 DEF Met
  <1>7. \A c \in Found(v, b) : Met(v, b, c) \in Nat
    BY <1>1, <1>5, <1>6
  <1>8. ASSUME NEW c \in Found(v, b), NEW d \in Found(v, b), Met(v, b, c) = Met(v, b, d)
        PROVE  c = d
    <2>1. CASE c \in Elements(v) /\ d \in Elements(v)
      BY <1>2, <1>5, <1>8, <2>1
    <2>2. CASE c \notin Elements(v) /\ d \notin Elements(v)
      <3>1. c \in Elements(b) /\ d \in Elements(b)
        BY <1>4, <2>2
      <3>2. RankIn(b, c) \in Int /\ RankIn(b, d) \in Int
        BY <1>3, <3>1
      <3>3. RankIn(b, c) = RankIn(b, d)
        BY <1>1, <1>6, <1>8, <2>2, <3>2
      <3> QED
        BY <1>3, <3>1, <3>3
    <2>3. CASE c \in Elements(v) /\ d \notin Elements(v)
      BY <1>1, <1>5, <1>6, <1>8, <2>3
    <2>4. CASE c \notin Elements(v) /\ d \in Elements(v)
      BY <1>1, <1>5, <1>6, <1>8, <2>4
    <2> QED
      BY <2>1, <2>2, <2>3, <2>4
  <1> QED
    BY <1>7, <1>8

\* The fused list holds every chunk once, in the order of the scores.
LEMMA RrfMergeIsSorted ==
  ASSUME NEW v \in RankedLists, NEW b \in RankedLists
  PROVE  /\ RrfMerge(v, b) \in Seq(Chunk)
         /\ Elements(RrfMerge(v, b)) = Found(v, b)
         /\ Distinct(RrfMerge(v, b))
         /\ \A c, d \in Found(v, b) :
              Score(v, b, c) > Score(v, b, d) => Ahead(RrfMerge(v, b), c, d)
PROOF
  <1> DEFINE S == Found(v, b)
             R == Precedence(v, b)
             sc(c) == Score(v, b, c)
             met(c) == Met(v, b, c)
  <1>1. IsFiniteSet(S) /\ S \subseteq Chunk
    BY RankedListsAre, FS_Union DEF Found
  <1>2. \A c \in S : sc(c) \in Nat
    BY ShareFollowsRank DEF Score
  <1>3. \A c \in S : met(c) \in Nat
    BY MetOnce
  <1>4. \A c, d \in S : met(c) = met(d) => c = d
    BY MetOnce
  <1>5. \A c, d \in S :
          <<c, d>> \in R <=> sc(c) > sc(d) \/ (sc(c) = sc(d) /\ met(c) < met(d))
    BY DEF Precedence, Precedes
  <1> HIDE DEF S, R, sc, met
  <1>6. \A c \in S : <<c, c>> \notin R
    BY <1>2, <1>3, <1>5
  <1>7. \A c, d, e \in S : <<c, d>> \in R /\ <<d, e>> \in R => <<c, e>> \in R
    BY <1>2, <1>3, <1>5
  <1>8. \A c, d \in S : c # d => <<c, d>> \in R \/ <<d, c>> \in R
    BY <1>2, <1>3, <1>4, <1>5
  <1>9. /\ Cardinality(S) \in Nat
        /\ Sorted(S, R) \in [1..Cardinality(S) -> S]
        /\ Distinct(Sorted(S, R))
        /\ Elements(Sorted(S, R)) = S
        /\ \A c, d \in S : <<c, d>> \in R => Ahead(Sorted(S, R), c, d)
    BY <1>1, <1>6, <1>7, <1>8, SortedIsSorted
  <1>10. RrfMerge(v, b) = Sorted(S, R)
    BY DEF RrfMerge, S, R
  <1>11. Sorted(S, R) \in Seq(Chunk)
    <2>1. Sorted(S, R) \in [1..Cardinality(S) -> Chunk]
      BY <1>1, <1>9
    <2> QED
      BY <1>9, <2>1, SeqDef
  <1>12. \A c, d \in S : sc(c) > sc(d) => Ahead(Sorted(S, R), c, d)
    BY <1>5, <1>9
  <1> QED
    BY <1>9, <1>10, <1>11, <1>12 DEF S, sc

\* A chunk that one list ranks before another, and the other list not
\* behind it, has the greater score.
LEMMA RrfMergeIsFaithful ==
  ASSUME NEW v \in RankedLists, NEW b \in RankedLists, NEW c \in Found(v, b), NEW d \in Found(v, b),
         Beats(v, c, d) \/ Beats(b, c, d), ~Beats(v, d, c), ~Beats(b, d, c)
  PROVE  Ahead(RrfMerge(v, b), c, d)
PROOF
  <1>1. /\ Share(v, c) \in Nat /\ Share(v, d) \in Nat
        /\ Share(b, c) \in Nat /\ Share(b, d) \in Nat
    BY ShareFollowsRank
  <1>2. Share(v, c) >= Share(v, d) /\ Share(b, c) >= Share(b, d)
    BY ShareFollowsRank
  <1>3. Share(v, c) > Share(v, d) \/ Share(b, c) > Share(b, d)
    BY ShareFollowsRank
  <1>4. Score(v, b, c) > Score(v, b, d)
    BY <1>1, <1>2, <1>3 DEF Score
  <1> QED
    BY <1>4, RrfMergeIsSorted

-----------------------------------------------------------------------------
(* Sequences that grow at the end, or lose their head.                      *)

\* A sequence that grows by one.
LEMMA AppendIs ==
  ASSUME NEW S, NEW s \in Seq(S), NEW x \in S
  PROVE  /\ Append(s, x) \in Seq(S)
         /\ Len(s) \in Nat
         /\ Len(Append(s, x)) = Len(s) + 1
         /\ DOMAIN s = 1..Len(s)
         /\ DOMAIN Append(s, x) = 1..(Len(s) + 1)
         /\ \A i \in DOMAIN s : Append(s, x)[i] = s[i]
         /\ Append(s, x)[Len(s) + 1] = x
PROOF
  BY AppendProperties, LenProperties

\* A sequence without its head.
LEMMA TailIs ==
  ASSUME NEW S, NEW s \in Seq(S), s # <<>>
  PROVE  /\ 1 \in DOMAIN s
         /\ Head(s) = s[1]
         /\ Tail(s) \in Seq(S)
         /\ \A i \in DOMAIN Tail(s) : i \in Nat /\ i + 1 \in DOMAIN s /\ Tail(s)[i] = s[i + 1]
         /\ \A i \in DOMAIN s : i # 1 => i - 1 \in DOMAIN Tail(s) /\ Tail(s)[i - 1] = s[i]
PROOF
  <1>1. Len(s) \in Nat \ {0} /\ DOMAIN s = 1..Len(s)
    BY EmptySeq, LenProperties
  <1>2. /\ Tail(s) \in Seq(S)
        /\ Len(Tail(s)) = Len(s) - 1
        /\ \A i \in 1..Len(Tail(s)) : Tail(s)[i] = s[i + 1]
    BY HeadTailProperties
  <1>3. DOMAIN Tail(s) = 1..(Len(s) - 1)
    BY <1>2, LenProperties
  <1>4. Head(s) = s[1]
    OBVIOUS
  <1> DEFINE n == Len(s)
             t == Tail(s)
  <1>5. /\ n \in Nat \ {0} /\ DOMAIN s = 1..n /\ DOMAIN t = 1..(n - 1)
        /\ \A i \in 1..(n - 1) : t[i] = s[i + 1]
    BY <1>1, <1>2, <1>3
  <1> HIDE DEF n, t
  <1>6. \A i \in 1..n : i # 1 => i - 1 \in 1..(n - 1) /\ t[i - 1] = s[i]
    <2> SUFFICES ASSUME NEW i \in 1..n, i # 1
                 PROVE  i - 1 \in 1..(n - 1) /\ t[i - 1] = s[i]
      OBVIOUS
    <2>1. i - 1 \in 1..(n - 1) /\ (i - 1) + 1 = i
      BY <1>5
    <2> QED
      BY <1>5, <2>1
  <1>7. \A i \in 1..(n - 1) : i \in Nat /\ i + 1 \in 1..n
    BY <1>5
  <1>8. \A i \in DOMAIN t : i \in Nat /\ i + 1 \in DOMAIN s /\ t[i] = s[i + 1]
    BY <1>5, <1>7
  <1>9. \A i \in DOMAIN s : i # 1 => i - 1 \in DOMAIN t /\ t[i - 1] = s[i]
    BY <1>5, <1>6
  <1>10. 1 \in DOMAIN s
    BY <1>5
  <1> QED
    BY <1>2, <1>4, <1>8, <1>9, <1>10 DEF t

\* A list in which a meeting is noted once.
LEMMA NotedInIs ==
  ASSUME NEW S, NEW l \in Seq(S), Distinct(l), NEW m \in S
  PROVE  /\ NotedIn(l, m) \in Seq(S)
         /\ Distinct(NotedIn(l, m))
         /\ Elements(NotedIn(l, m)) = Elements(l) \union {m}
         /\ \A i \in DOMAIN NotedIn(l, m) :
              \/ i \in DOMAIN l /\ NotedIn(l, m)[i] = l[i]
              \/ /\ NotedIn(l, m)[i] = m
                 /\ m \notin Elements(l)
                 /\ \A j \in DOMAIN NotedIn(l, m) : j <= i
PROOF
  <1>1. CASE m \in Elements(l)
    <2>1. NotedIn(l, m) = l
      BY <1>1 DEF NotedIn
    <2> QED
      BY <1>1, <2>1
  <1>2. CASE m \notin Elements(l)
    <2> DEFINE more == NotedIn(l, m)
               n == Len(l)
    <2>1. more = Append(l, m)
      BY <1>2 DEF NotedIn
    <2>2. /\ more \in Seq(S)
          /\ n \in Nat /\ DOMAIN l = 1..n /\ DOMAIN more = 1..(n + 1)
          /\ \A i \in DOMAIN l : more[i] = l[i]
          /\ more[n + 1] = m
      BY <2>1, AppendIs
    <2> HIDE DEF more, n
    <2>3. \A i \in DOMAIN more : i \in DOMAIN l \/ i = n + 1
      BY <2>2
    <2>4. \A i \in DOMAIN l : more[i] = l[i] /\ l[i] # m
      BY <1>2, <2>2 DEF Elements
    <2>5. Distinct(more)
      <3> SUFFICES ASSUME NEW i \in DOMAIN more, NEW j \in DOMAIN more, more[i] = more[j]
                   PROVE  i = j
        BY DEF Distinct
      <3>1. CASE i \in DOMAIN l /\ j \in DOMAIN l
        BY <2>4, <3>1 DEF Distinct
      <3> QED
        BY <2>2, <2>3, <2>4, <3>1
    <2>6. Elements(more) = Elements(l) \union {m}
      <3>1. n + 1 \in DOMAIN more /\ DOMAIN l \subseteq DOMAIN more
        BY <2>2
      <3> QED
        BY <2>2, <2>3, <3>1 DEF Elements
    <2>7. \A j \in DOMAIN more : j <= n + 1
      BY <2>2
    <2> QED
      BY <1>2, <2>2, <2>3, <2>5, <2>6, <2>7 DEF more
  <1> QED
    BY <1>1, <1>2

-----------------------------------------------------------------------------
(* The inductive invariant.                                                 *)

RankingTypeOK ==
    /\ phase \in {"query", "group", "cycle", "cards", "done"}
    /\ vector \in RankedLists
    /\ bm25 \in RankedLists
    /\ fused \in Seq(Chunk)
    /\ order \in Seq(ChunkMeeting)
    /\ byMeeting \in [ChunkMeeting -> Seq(Nat)]
    /\ pos \in Nat \ {0}
    /\ progressed \in BOOLEAN
    /\ result \in Seq(Nat)
    /\ cards \in Seq(ChunkMeeting)

\* The places that are grouped.
Seen == 1..(IF phase = "query" THEN 0 ELSE IF phase = "group" THEN pos - 1 ELSE Len(fused))

StartsEmpty ==
    /\ phase = "query" => pos = 1
    /\ phase \in {"query", "group"} => result = <<>> /\ ~progressed

\* No place is lost: it is taken, or in its meeting's list.
PlacesKept ==
    /\ Seen \subseteq DOMAIN fused
    /\ \A p \in Seen :
         /\ Of(p) \in Elements(order)
         /\ p \in Elements(result) \/ p \in Elements(byMeeting[Of(p)])

\* A meeting's list holds places of its own, in order, all behind those of
\* the meeting that were taken.
ListsInOrder ==
    \A m \in ChunkMeeting : \A k \in DOMAIN byMeeting[m] :
        /\ byMeeting[m][k] \in Seen
        /\ Of(byMeeting[m][k]) = m
        /\ \A l \in DOMAIN byMeeting[m] : k < l => byMeeting[m][k] < byMeeting[m][l]
        /\ \A i \in DOMAIN result : Of(result[i]) = m => result[i] < byMeeting[m][k]

\* The places of a meeting were taken in order.
TakenInOrder ==
    /\ Elements(result) \subseteq Seen
    /\ \A i, j \in DOMAIN result :
         i < j /\ Of(result[i]) = Of(result[j]) => result[i] < result[j]
    /\ Distinct(result)
    /\ Distinct(order)

GroupsInv == StartsEmpty /\ PlacesKept /\ ListsInOrder /\ TakenInOrder

\* In the cycle after the first r, a meeting with chunks left has given r + 1
\* if its turn was, and r if not; none has given more.
InCycle(r) ==
    \A i \in DOMAIN order :
        LET due == IF i < pos THEN r + 1 ELSE r IN
        /\ Taken(order[i]) <= due
        /\ byMeeting[order[i]] # <<>> => Taken(order[i]) = due

Even ==
    \A m, n \in ChunkMeeting : byMeeting[m] # <<>> => Taken(n) <= Taken(m) + 1

CyclesInv ==
    /\ phase = "cycle" =>
         /\ Len(result) < TopK
         /\ \E r \in Nat : InCycle(r)
         /\ ~progressed => \A i \in DOMAIN order : i < pos => byMeeting[order[i]] = <<>>
    /\ phase \in {"cards", "done"} =>
         /\ Even
         /\ \/ Len(result) = TopK
            \/ Len(result) < TopK /\ \A m \in ChunkMeeting : byMeeting[m] = <<>>

\* The cards list the meetings of the first n chunks taken, as they appear.
ListsFirst(n) ==
    /\ Distinct(cards)
    /\ \A i \in DOMAIN cards : \E k \in 1..n : Of(result[k]) = cards[i]
    /\ \A k \in 1..n : \E i \in DOMAIN cards : cards[i] = Of(result[k])
    /\ \A i, j \in DOMAIN cards : \A k \in 1..n :
         i < j /\ Of(result[k]) = cards[j] => \E l \in 1..(k - 1) : Of(result[l]) = cards[i]

CardsInv ==
    /\ phase \in {"query", "group", "cycle"} => cards = <<>>
    /\ phase = "cards" => pos <= Len(result) + 1 /\ ListsFirst(pos - 1)
    /\ phase = "done" => CardsAreFirst

RankingInv == RankingTypeOK /\ FusionIsFaithful /\ GroupsInv /\ CyclesInv /\ CardsInv

\* The domains and elements of the state.
LEMMA RankingTyped ==
  ASSUME RankingTypeOK
  PROVE  /\ Len(fused) \in Nat /\ DOMAIN fused = 1..Len(fused)
         /\ \A p \in DOMAIN fused : Of(p) \in ChunkMeeting
         /\ Len(result) \in Nat /\ DOMAIN result = 1..Len(result)
         /\ \A i \in DOMAIN result : result[i] \in Nat
         /\ Len(order) \in Nat /\ DOMAIN order = 1..Len(order)
         /\ \A i \in DOMAIN order : order[i] \in ChunkMeeting
         /\ Len(cards) \in Nat /\ DOMAIN cards = 1..Len(cards)
         /\ \A m \in ChunkMeeting : /\ byMeeting[m] \in Seq(Nat)
                               /\ DOMAIN byMeeting[m] = 1..Len(byMeeting[m])
                               /\ Len(byMeeting[m]) \in Nat
                               /\ \A k \in DOMAIN byMeeting[m] : byMeeting[m][k] \in Nat
PROOF
  <1>1. \A p \in DOMAIN fused : fused[p] \in Chunk
    BY ElementOfSeq, LenProperties DEF RankingTypeOK
  <1>2. \A p \in DOMAIN fused : Of(p) \in ChunkMeeting
    BY <1>1 DEF Of, ChunkMeeting
  <1>3. \A i \in DOMAIN result : result[i] \in Nat
    BY ElementOfSeq, LenProperties DEF RankingTypeOK
  <1>4. \A i \in DOMAIN order : order[i] \in ChunkMeeting
    BY ElementOfSeq, LenProperties DEF RankingTypeOK
  <1>5. \A m \in ChunkMeeting : /\ byMeeting[m] \in Seq(Nat)
                           /\ DOMAIN byMeeting[m] = 1..Len(byMeeting[m])
                           /\ Len(byMeeting[m]) \in Nat
                           /\ \A k \in DOMAIN byMeeting[m] : byMeeting[m][k] \in Nat
    <2> TAKE m \in ChunkMeeting
    <2>1. byMeeting[m] \in Seq(Nat)
      BY DEF RankingTypeOK
    <2> QED
      BY <2>1, ElementOfSeq, LenProperties
  <1>6. /\ Len(fused) \in Nat /\ DOMAIN fused = 1..Len(fused)
        /\ Len(result) \in Nat /\ DOMAIN result = 1..Len(result)
        /\ Len(order) \in Nat /\ DOMAIN order = 1..Len(order)
        /\ Len(cards) \in Nat /\ DOMAIN cards = 1..Len(cards)
    BY LenProperties DEF RankingTypeOK
  <1> QED
    BY <1>2, <1>3, <1>4, <1>5, <1>6

\* The first elements of a list.
LEMMA CutIs ==
  ASSUME RankingConstants, NEW S, NEW s \in Seq(S)
  PROVE  /\ Cut(s, MaxSources) \in Seq(S)
         /\ DOMAIN Cut(s, MaxSources) \subseteq DOMAIN s
         /\ \A i \in DOMAIN Cut(s, MaxSources) : Cut(s, MaxSources)[i] = s[i]
         /\ \/ DOMAIN Cut(s, MaxSources) = DOMAIN s
            \/ /\ Len(Cut(s, MaxSources)) = MaxSources
               /\ \A i \in DOMAIN s : \/ i \in DOMAIN Cut(s, MaxSources)
                                      \/ \A j \in DOMAIN Cut(s, MaxSources) : j < i
PROOF
  <1> DEFINE n == IF MaxSources < Len(s) THEN MaxSources ELSE Len(s)
             t == Cut(s, MaxSources)
  <1>1. MaxSources \in Nat \ {0} /\ Len(s) \in Nat /\ DOMAIN s = 1..Len(s)
    BY LenProperties DEF RankingConstants
  <1>2. n \in Nat /\ n <= Len(s)
    BY <1>1
  <1>3. t = SubSeq(s, 1, n)
    BY DEF Cut
  <1>4. \A i \in 1..n : s[i] \in S
    BY <1>1, <1>2, ElementOfSeq
  <1> HIDE DEF n
  <1>5. /\ SubSeq(s, 1, n) \in Seq(S)
        /\ Len(SubSeq(s, 1, n)) = IF 1 <= n THEN n - 1 + 1 ELSE 0
        /\ \A i \in 1..(n - 1 + 1) : SubSeq(s, 1, n)[i] = s[1 + i - 1]
    BY <1>2, <1>4, SubSeqProperties
  <1> HIDE DEF t
  <1>6. Len(t) = n
    BY <1>2, <1>3, <1>5
  <1>7. t \in Seq(S) /\ DOMAIN t = 1..n
    BY <1>3, <1>5, <1>6, LenProperties
  <1>8. \A i \in 1..n : t[i] = s[i]
    <2> TAKE i \in 1..n
    <2>1. i \in 1..(n - 1 + 1) /\ 1 + i - 1 = i
      BY <1>2
    <2> QED
      BY <1>3, <1>5, <2>1
  <1>9. n = Len(s) \/ n = MaxSources
    BY DEF n
  <1>10. \A i \in DOMAIN s : i \in DOMAIN t \/ \A j \in DOMAIN t : j < i
    BY <1>1, <1>2, <1>7
  <1>11. DOMAIN t \subseteq DOMAIN s /\ \A i \in DOMAIN t : t[i] = s[i]
    BY <1>1, <1>2, <1>7, <1>8
  <1>12. DOMAIN t = DOMAIN s \/ Len(t) = MaxSources
    BY <1>1, <1>6, <1>7, <1>9
  <1> QED
    BY <1>7, <1>10, <1>11, <1>12 DEF t

\* The invariant says what the answer is when the search is done.
LEMMA RankingInvSuffices ==
  ASSUME RankingConstants, RankingInv
  PROVE  RetrievalIsDiverse
PROOF
  <1> SUFFICES ASSUME phase = "done"
               PROVE  /\ Distinct(result)
                      /\ Elements(result) \subseteq DOMAIN fused
                      /\ Len(result) = IF Len(fused) < TopK THEN Len(fused) ELSE TopK
                      /\ \A p, q \in DOMAIN fused, j \in DOMAIN result :
                           p < q /\ Of(p) = Of(q) /\ result[j] = q =>
                           \E i \in 1..(j - 1) : result[i] = p
                      /\ \A p \in DOMAIN fused \ Elements(result), m \in ChunkMeeting :
                           Taken(m) <= Taken(Of(p)) + 1
                      /\ CardsAreFirst
    BY DEF RetrievalIsDiverse
  <1> USE DEF RankingInv
  <1>1. /\ Len(fused) \in Nat /\ DOMAIN fused = 1..Len(fused)
        /\ \A p \in DOMAIN fused : Of(p) \in ChunkMeeting
        /\ Len(result) \in Nat /\ DOMAIN result = 1..Len(result)
        /\ \A m \in ChunkMeeting : /\ DOMAIN byMeeting[m] = 1..Len(byMeeting[m])
                              /\ Len(byMeeting[m]) \in Nat
                              /\ \A k \in DOMAIN byMeeting[m] : byMeeting[m][k] \in Nat
    BY RankingTyped
  <1>2. Seen = DOMAIN fused
    BY <1>1 DEF Seen
  <1>3. Distinct(result)
    BY DEF GroupsInv, TakenInOrder
  <1>4. Elements(result) \subseteq DOMAIN fused
    BY <1>2 DEF GroupsInv, TakenInOrder
  <1>5. \A p \in DOMAIN fused : p \notin Elements(result) => p \in Elements(byMeeting[Of(p)])
    BY <1>2 DEF GroupsInv, PlacesKept
  <1>6. Len(result) <= Len(fused) /\ (DOMAIN fused \subseteq Elements(result) => Len(result) = Len(fused))
    <2> DEFINE n == Len(result)
               k == Len(fused)
    <2>1. result \in [1..n -> 1..k]
      <3>1. \A i \in DOMAIN result : result[i] \in 1..k
        BY <1>1, <1>4 DEF Elements
      <3>2. result \in [1..n -> Nat]
        BY LenProperties DEF RankingTypeOK
      <3> QED
        BY <1>1, <3>1, <3>2
    <2>2. result \in Injection(1..n, 1..k)
      BY <2>1, <1>3 DEF Injection, IsInjective, Distinct
    <2>3. /\ IsFiniteSet(1..n) /\ Cardinality(1..n) = n
          /\ IsFiniteSet(1..k) /\ Cardinality(1..k) = k
      <3>1. n \in Nat /\ k \in Nat
        BY <1>1
      <3> QED
        BY ONLY <3>1, IntervalSize
    <2>4. n <= k
      BY ONLY <2>2, <2>3, FS_Injection
    <2>5. ASSUME DOMAIN fused \subseteq Elements(result) PROVE n = k
      <3>1. result \in Surjection(1..n, 1..k)
        BY <1>1, <2>1, <2>5 DEF Surjection, Elements
      <3> QED
        BY ONLY <2>2, <2>3, <3>1, FS_Injection
    <2> QED
      BY <2>4, <2>5
  <1>7. Len(result) = IF Len(fused) < TopK THEN Len(fused) ELSE TopK
    <2>1. TopK \in Nat
      BY RankingConstants
    <2>2. CASE Len(result) = TopK
      <3>1. Len(fused) \in Nat /\ Len(result) \in Nat /\ Len(result) <= Len(fused)
        BY <1>1, <1>6
      <3>2. ~(Len(fused) < TopK)
        BY ONLY <2>1, <2>2, <3>1
      <3> QED
        BY <2>2, <3>2
    <2>3. CASE Len(result) < TopK /\ \A m \in ChunkMeeting : byMeeting[m] = <<>>
      <3>1. \A m \in ChunkMeeting : Elements(byMeeting[m]) = {}
        BY <2>3 DEF Elements
      <3>2. DOMAIN fused \subseteq Elements(result)
        BY <1>1, <1>5, <3>1
      <3> QED
        BY <1>6, <2>3, <3>2
    <2> QED
      BY <2>2, <2>3 DEF CyclesInv
  <1>8. ASSUME NEW p \in DOMAIN fused, NEW q \in DOMAIN fused, NEW j \in DOMAIN result,
               p < q, Of(p) = Of(q), result[j] = q
        PROVE  \E i \in 1..(j - 1) : result[i] = p
    <2>1. p \in Elements(result)
      <3>1. SUFFICES ASSUME p \in Elements(byMeeting[Of(p)]) PROVE FALSE
        BY <1>5
      <3>2. PICK k \in DOMAIN byMeeting[Of(p)] : byMeeting[Of(p)][k] = p
        BY <3>1 DEF Elements
      <3>3. q < p
        BY <1>1, <1>8, <3>2 DEF GroupsInv, ListsInOrder
      <3> QED
        BY <1>1, <1>8, <3>3
    <2>2. PICK i \in DOMAIN result : result[i] = p
      BY <2>1 DEF Elements
    <2>3. ~(j < i)
      <3>1. SUFFICES ASSUME j < i PROVE FALSE
        OBVIOUS
      <3>2. q < p
        BY <1>8, <2>2, <3>1 DEF GroupsInv, TakenInOrder
      <3> QED
        BY <1>1, <1>8, <3>2
    <2>4. i # j
      BY <1>1, <1>8, <2>2
    <2>5. i \in 1..(j - 1)
      BY <1>1, <2>3, <2>4
    <2> QED
      BY <2>2, <2>5
  <1>9. ASSUME NEW p \in DOMAIN fused \ Elements(result), NEW m \in ChunkMeeting
        PROVE  Taken(m) <= Taken(Of(p)) + 1
    <2>1. Of(p) \in ChunkMeeting
      BY <1>1
    <2>2. byMeeting[Of(p)] # <<>>
      BY <1>5 DEF Elements
    <2> QED
      BY <2>1, <2>2 DEF CyclesInv, Even
  <1>10. CardsAreFirst
    BY DEF CardsInv
  <1> QED
    BY <1>3, <1>4, <1>7, <1>8, <1>9, <1>10

\* The search starts with nothing retrieved.
LEMMA RankingInvInit ==
  ASSUME RankingConstants, RankingInit
  PROVE  RankingInv
PROOF
  <1> USE DEF RankingInit
  <1>0. Pool \in Nat
    BY DEF RankingConstants, Pool
  <1>1. <<>> \in RankedLists /\ Distinct(<<>>) /\ Elements(<<>>) = {}
    <2>1. <<>> \in [1..0 -> Chunk]
      BY EmptySeq, LenProperties
    <2>2. Distinct(<<>>)
      BY DEF Distinct
    <2>3. 0 \in 0..Pool
      BY <1>0
    <2> QED
      BY <2>1, <2>2, <2>3 DEF RankedLists, Elements
  <1>2. RankingTypeOK
    <2>1. \A S : <<>> \in Seq(S)
      BY EmptySeq
    <2>2. byMeeting \in [ChunkMeeting -> Seq(Nat)]
      BY <2>1
    <2>3. pos \in Nat \ {0}
      OBVIOUS
    <2>4. progressed \in BOOLEAN
      OBVIOUS
    <2> QED
      BY <1>1, <2>1, <2>2, <2>3, <2>4 DEF RankingTypeOK
  <1>3. FusionIsFaithful
    BY <1>1 DEF FusionIsFaithful, Found
  <1>4. Seen = {}
    BY DEF Seen
  <1>5. \A m \in ChunkMeeting : DOMAIN byMeeting[m] = {}
    OBVIOUS
  <1>6. GroupsInv
    BY <1>1, <1>4, <1>5 DEF GroupsInv, StartsEmpty, PlacesKept, ListsInOrder, TakenInOrder
  <1>7. CyclesInv /\ CardsInv
    BY DEF CyclesInv, CardsInv
  <1> QED
    BY <1>2, <1>3, <1>6, <1>7 DEF RankingInv

\* What the steps leave of the types.
LEMMA RankingTypeStep ==
  ASSUME RankingConstants, RankingInv, RankingNext
  PROVE  RankingTypeOK'
PROOF
  <1> USE DEF RankingTypeOK
  <1>0. RankingTypeOK
    BY DEF RankingInv
  <1>1. CASE Retrieve
    <2>1. PICK v \in RankedLists, b \in RankedLists :
            vector' = v /\ bm25' = b /\ fused' = RrfMerge(v, b)
      BY <1>1 DEF Retrieve
    <2>2. fused' \in Seq(Chunk)
      BY <2>1, RrfMergeIsSorted
    <2> QED
      BY <1>0, <1>1, <2>1, <2>2 DEF Retrieve
  <1>2. CASE GroupChunk
    <2>1. Of(pos) \in ChunkMeeting
      BY <1>0, <1>2, RankingTyped DEF GroupChunk
    <2>2. order' \in Seq(ChunkMeeting)
      BY <1>0, <1>2, <2>1 DEF GroupChunk, NotedIn
    <2>3. Append(byMeeting[Of(pos)], pos) \in Seq(Nat)
      BY <1>0, <2>1
    <2>4. byMeeting' \in [ChunkMeeting -> Seq(Nat)]
      BY <1>0, <1>2, <2>3 DEF GroupChunk
    <2>5. pos' \in Nat \ {0}
      BY <1>0, <1>2 DEF GroupChunk
    <2> QED
      BY <1>0, <1>2, <2>2, <2>4, <2>5 DEF GroupChunk
  <1>3. CASE Grouped
    BY <1>0, <1>3 DEF Grouped
  <1>4. CASE TakeChunk
    <2> DEFINE m == order[pos]
    <2>1. m \in ChunkMeeting /\ byMeeting[m] \in Seq(Nat) /\ byMeeting[m] # <<>>
      BY <1>0, <1>4, RankingTyped DEF TakeChunk
    <2>2. Head(byMeeting[m]) \in Nat /\ Tail(byMeeting[m]) \in Seq(Nat)
      BY <2>1, HeadTailProperties
    <2>3. result' \in Seq(Nat)
      BY <1>0, <1>4, <2>2 DEF TakeChunk
    <2>4. byMeeting' \in [ChunkMeeting -> Seq(Nat)]
      BY <1>0, <1>4, <2>2 DEF TakeChunk
    <2>5. pos' \in Nat \ {0} /\ phase' \in {"cycle", "cards"}
      <3>1. CASE Len(result') >= TopK
        BY <1>4, <3>1 DEF TakeChunk
      <3>2. CASE ~(Len(result') >= TopK)
        <4>1. pos' = pos + 1 /\ phase' = phase /\ phase = "cycle"
          BY <1>4, <3>2 DEF TakeChunk
        <4> QED
          BY <1>0, <4>1
      <3> QED
        BY <3>1, <3>2
    <2> QED
      BY <1>0, <1>4, <2>3, <2>4, <2>5 DEF TakeChunk
  <1>5. CASE SkipMeeting
    BY <1>0, <1>5 DEF SkipMeeting
  <1>6. CASE NextCycle
    <2>1. phase' \in {"cycle", "cards"}
      BY <1>6 DEF NextCycle
    <2>2. pos' \in Nat \ {0}
      BY <1>6 DEF NextCycle
    <2>4. progressed' \in BOOLEAN
      BY <1>6 DEF NextCycle
    <2>3. UNCHANGED <<vector, bm25, fused, order, byMeeting, result, cards>>
      BY <1>6 DEF NextCycle
    <2> QED
      BY <1>0, <2>1, <2>2, <2>3, <2>4
  <1>7. CASE AddToCard
    <2>1. Of(result[pos]) \in ChunkMeeting
      <3>1. pos \in DOMAIN result
        BY <1>0, <1>7, RankingTyped DEF AddToCard
      <3>2. result[pos] \in DOMAIN fused
        BY <3>1 DEF RankingInv, GroupsInv, TakenInOrder, PlacesKept, Elements
      <3> QED
        BY <1>0, <3>2, RankingTyped
    <2>2. cards' \in Seq(ChunkMeeting)
      BY <1>0, <1>7, <2>1 DEF AddToCard, NotedIn
    <2> QED
      BY <1>0, <1>7, <2>2 DEF AddToCard
  <1>8. CASE CutCards
    <2>1. cards' \in Seq(ChunkMeeting)
      BY <1>0, <1>8, CutIs DEF CutCards
    <2> QED
      BY <1>0, <1>8, <2>1 DEF CutCards
  <1> QED
    BY <1>1, <1>2, <1>3, <1>4, <1>5, <1>6, <1>7, <1>8 DEF RankingNext

\* After the queries, what was retrieved stays.
LEMMA RankingFusionStep ==
  ASSUME RankingInv, RankingNext
  PROVE  /\ FusionIsFaithful'
         /\ ~Retrieve => UNCHANGED <<vector, bm25, fused>>
PROOF
  <1>1. CASE Retrieve
    <2>1. PICK v \in RankedLists, b \in RankedLists :
            vector' = v /\ bm25' = b /\ fused' = RrfMerge(v, b)
      BY <1>1 DEF Retrieve
    <2>2. Elements(fused') = Found(v, b) /\ Distinct(fused')
      BY <2>1, RrfMergeIsSorted
    <2>3. \A c, d \in Found(v, b) :
            (Beats(v, c, d) \/ Beats(b, c, d)) /\ ~Beats(v, d, c) /\ ~Beats(b, d, c)
            => Ahead(fused', c, d)
      BY <2>1, RrfMergeIsFaithful
    <2> QED
      BY <1>1, <2>1, <2>2, <2>3 DEF FusionIsFaithful
  <1>2. CASE ~Retrieve
    <2>1. UNCHANGED <<vector, bm25, fused>>
      BY <1>2 DEF RankingNext, GroupChunk, Grouped, TakeChunk, SkipMeeting, NextCycle,
                  AddToCard, CutCards
    <2>2. FusionIsFaithful
      BY DEF RankingInv
    <2> QED
      BY <1>2, <2>1, <2>2 DEF FusionIsFaithful
  <1> QED
    BY <1>1, <1>2

\* The queries leave nothing grouped.
LEMMA GroupsAfterRetrieve ==
  ASSUME RankingInv, Retrieve
  PROVE  GroupsInv'
PROOF
  <1>1. /\ phase = "query" /\ phase' = "group" /\ pos = 1 /\ pos' = 1
        /\ order' = order /\ byMeeting' = byMeeting
        /\ result = <<>> /\ result' = <<>> /\ ~progressed'
    BY DEF RankingInv, GroupsInv, StartsEmpty, Retrieve
  <1>2. Seen = {} /\ Seen' = {}
    BY <1>1 DEF Seen
  <1>3. \A m \in ChunkMeeting : DOMAIN byMeeting[m] = {}
    BY <1>2 DEF RankingInv, GroupsInv, ListsInOrder
  <1>4. Distinct(order)
    BY DEF RankingInv, GroupsInv, TakenInOrder
  <1>5. StartsEmpty'
    BY <1>1 DEF StartsEmpty
  <1>6. PlacesKept'
    BY <1>2 DEF PlacesKept
  <1>7. ListsInOrder'
    BY <1>1, <1>3 DEF ListsInOrder
  <1>8. TakenInOrder'
    <2>1. DOMAIN result' = {}
      BY <1>1
    <2> QED
      BY <1>1, <1>4, <2>1 DEF TakenInOrder, Elements, Distinct
  <1> QED
    BY <1>5, <1>6, <1>7, <1>8 DEF GroupsInv

\* A candidate joins the end of its meeting's list.
LEMMA GroupsAfterGroupChunk ==
  ASSUME RankingInv, GroupChunk
  PROVE  GroupsInv'
PROOF
  <1> DEFINE here == Of(pos)
  <1>0. RankingTypeOK
    BY DEF RankingInv
  <1>1. /\ phase = "group" /\ phase' = "group"
        /\ fused' = fused /\ result = <<>> /\ result' = <<>> /\ ~progressed'
        /\ pos \in Nat \ {0} /\ pos' = pos + 1
        /\ pos \in DOMAIN fused /\ here \in ChunkMeeting
    BY <1>0, RankingTyped DEF RankingTypeOK, RankingInv, GroupsInv, StartsEmpty, GroupChunk
  <1>2. \A p : Of(p)' = Of(p)
    BY <1>1 DEF Of
  <1>3. /\ Seen' = Seen \union {pos}
        /\ \A p \in Seen : p \in Nat /\ p < pos
    <2>1. Seen = 1..(pos - 1) /\ Seen' = 1..pos
      BY <1>1 DEF Seen
    <2> QED
      BY <1>1, <2>1
  <1>4. Distinct(order') /\ Elements(order') = Elements(order) \union {here}
    <2>1. Distinct(order) /\ order \in Seq(ChunkMeeting)
      BY <1>0 DEF RankingTypeOK, RankingInv, GroupsInv, TakenInOrder
    <2>2. order' = NotedIn(order, here)
      BY DEF GroupChunk
    <2> QED
      BY <1>1, <2>1, <2>2, NotedInIs
  <1> DEFINE n == Len(byMeeting[here])
             longer == byMeeting'[here]
  <1>5. \A m \in ChunkMeeting : m # here => byMeeting'[m] = byMeeting[m]
    BY <1>0 DEF GroupChunk, RankingTypeOK
  <1>6. /\ n \in Nat
        /\ DOMAIN byMeeting[here] = 1..n /\ DOMAIN longer = 1..(n + 1)
        /\ \A k \in 1..n : longer[k] = byMeeting[here][k]
        /\ longer[n + 1] = pos
    <2>1. byMeeting[here] \in Seq(Nat) /\ pos \in Nat
      BY <1>0, <1>1 DEF RankingTypeOK
    <2>2. longer = Append(byMeeting[here], pos)
      BY <1>0, <1>1 DEF GroupChunk, RankingTypeOK
    <2> QED
      BY <2>1, <2>2, AppendIs
  <1>7. ListsInOrder
    BY DEF RankingInv, GroupsInv
  <1>8. \A k \in 1..n : byMeeting[here][k] \in Seen /\ Of(byMeeting[here][k]) = here
    BY <1>1, <1>6, <1>7 DEF ListsInOrder
  <1>9. \A k, l \in 1..n : k < l => byMeeting[here][k] < byMeeting[here][l]
    BY <1>1, <1>6, <1>7 DEF ListsInOrder
  <1> HIDE DEF here, n, longer
  <1>10. StartsEmpty'
    BY <1>1 DEF StartsEmpty
  <1>11. PlacesKept'
    <2>1. Seen' \subseteq DOMAIN fused'
      BY <1>1, <1>3 DEF RankingInv, GroupsInv, PlacesKept
    <2>2. ASSUME NEW p \in Seen'
          PROVE  Of(p) \in Elements(order') /\ p \in Elements(byMeeting'[Of(p)])
      <3>1. CASE p = pos
        <4>1. n + 1 \in DOMAIN longer
          BY <1>6
        <4>2. pos \in Elements(longer)
          BY <1>6, <4>1 DEF Elements
        <4> QED
          BY <1>4, <3>1, <4>2 DEF here, longer
      <3>2. CASE p \in Seen
        <4>1. Of(p) \in Elements(order) /\ Of(p) \in ChunkMeeting
          BY <1>0, <3>2, RankingTyped DEF RankingInv, GroupsInv, PlacesKept
        <4>2. p \in Elements(byMeeting[Of(p)])
          BY <1>1, <3>2 DEF RankingInv, GroupsInv, PlacesKept, Elements
        <4>3. CASE Of(p) = here
          <5>1. DOMAIN byMeeting[here] \subseteq DOMAIN longer
            BY <1>6
          <5> QED
            BY <1>4, <1>6, <4>1, <4>2, <4>3, <5>1 DEF Elements, longer
        <4>4. CASE Of(p) # here
          BY <1>4, <1>5, <4>1, <4>2, <4>4
        <4> QED
          BY <4>3, <4>4
      <3> QED
        BY <1>3, <3>1, <3>2
    <2> QED
      BY <1>2, <2>1, <2>2 DEF PlacesKept
  <1>12. ListsInOrder'
    <2>1. ASSUME NEW m \in ChunkMeeting, NEW k \in DOMAIN byMeeting'[m]
          PROVE  /\ byMeeting'[m][k] \in Seen'
                 /\ Of(byMeeting'[m][k]) = m
                 /\ \A l \in DOMAIN byMeeting'[m] : k < l => byMeeting'[m][k] < byMeeting'[m][l]
      <3>1. CASE m # here
        BY <1>3, <1>5, <1>7, <3>1 DEF ListsInOrder
      <3>2. CASE m = here
        <4>1. \A l \in DOMAIN longer : l \in 1..n \/ l = n + 1
          BY <1>6
        <4>2. \A l \in 1..n : longer[l] \in Seen /\ Of(longer[l]) = here
          BY <1>6, <1>8
        <4>3. Of(longer[n + 1]) = here
          BY <1>6 DEF here
        <4>4. \A l, j \in 1..n : l < j => longer[l] < longer[j]
          BY <1>6, <1>9
        <4>5. \A l \in 1..n : longer[l] < longer[n + 1]
          BY <1>3, <1>6, <4>2
        <4>6. \A l, j \in DOMAIN longer : l < j => longer[l] < longer[j]
          <5> SUFFICES ASSUME NEW l \in DOMAIN longer, NEW j \in DOMAIN longer, l < j
                       PROVE  longer[l] < longer[j]
            OBVIOUS
          <5>1. l \in 1..n
            BY <1>6
          <5> QED
            BY <4>1, <4>4, <4>5, <5>1
        <4>7. \A l \in DOMAIN longer : longer[l] \in Seen' /\ Of(longer[l]) = here
          BY <1>3, <1>6, <4>1, <4>2, <4>3
        <4> QED
          BY <3>2, <4>6, <4>7 DEF longer
      <3> QED
        BY <3>1, <3>2
    <2>2. DOMAIN result' = {}
      BY <1>1
    <2> QED
      BY <1>2, <2>1, <2>2 DEF ListsInOrder
  <1>13. TakenInOrder'
    <2>1. DOMAIN result' = {}
      BY <1>1
    <2> QED
      BY <1>4, <2>1 DEF TakenInOrder, Elements, Distinct
  <1> QED
    BY <1>10, <1>11, <1>12, <1>13 DEF GroupsInv

\* Steps that only move the position, or end a loop, keep the groups.
LEMMA GroupsAfterOther ==
  ASSUME RankingInv, RankingNext, ~Retrieve, ~GroupChunk, ~TakeChunk
  PROVE  GroupsInv'
PROOF
  <1>0. RankingTypeOK /\ GroupsInv
    BY DEF RankingInv
  <1>1. UNCHANGED <<fused, order, byMeeting, result>>
    BY DEF RankingNext, Grouped, SkipMeeting, NextCycle, AddToCard, CutCards
  <1>2. Grouped \/ (phase \in {"cycle", "cards"} /\ phase' \in {"cycle", "cards", "done"})
    BY DEF RankingNext, SkipMeeting, NextCycle, AddToCard, CutCards
  <1>3. Seen' = Seen
    <2>1. CASE Grouped
      <3>1. /\ phase = "group" /\ phase' = "cycle" /\ pos > Len(fused)
            /\ pos \in Nat /\ pos # 0 /\ Len(fused) \in Nat /\ DOMAIN fused = 1..Len(fused)
        BY <1>0, <2>1, RankingTyped DEF Grouped, RankingTypeOK
      <3>2. Seen = 1..(pos - 1) /\ Seen' = 1..Len(fused)
        BY <1>1, <3>1 DEF Seen
      <3>3. 1..(pos - 1) \subseteq 1..Len(fused)
        BY <1>0, <3>1, <3>2 DEF GroupsInv, PlacesKept
      <3> QED
        BY <3>1, <3>2, <3>3
    <2>2. CASE phase \in {"cycle", "cards"} /\ phase' \in {"cycle", "cards", "done"}
      BY <1>1, <2>2 DEF Seen
    <2> QED
      BY <1>2, <2>1, <2>2
  <1>4. StartsEmpty'
    <2>1. phase' \notin {"query", "group"}
      BY <1>2 DEF Grouped
    <2> QED
      BY <2>1 DEF StartsEmpty
  <1>5. PlacesKept'
    BY <1>0, <1>1, <1>3 DEF GroupsInv, PlacesKept, Of
  <1>6. ListsInOrder'
    BY <1>0, <1>1, <1>3 DEF GroupsInv, ListsInOrder, Of
  <1>7. TakenInOrder'
    BY <1>0, <1>1, <1>3 DEF GroupsInv, TakenInOrder, Of
  <1> QED
    BY <1>4, <1>5, <1>6, <1>7 DEF GroupsInv

\* The chunk taken is the first that its meeting has left, and is added at
\* the end.
LEMMA TakeChunkIs ==
  ASSUME RankingInv, TakeChunk
  PROVE  \E here \in ChunkMeeting, h \in Nat :
           /\ pos \in DOMAIN order /\ here = order[pos]
           /\ UNCHANGED <<fused, order, cards>>
           /\ phase = "cycle" /\ phase' \in {"cycle", "cards"}
           /\ byMeeting[here] # <<>>
           /\ h \in Seen /\ Of(h) = here
           /\ h \in Elements(byMeeting[here])
           /\ \A i \in DOMAIN result : Of(result[i]) = here => result[i] < h
           /\ \A p \in Elements(byMeeting[here]) : p = h \/ (h < p /\ p \in Elements(byMeeting'[here]))
           /\ \A m \in ChunkMeeting : m # here => byMeeting'[m] = byMeeting[m]
           /\ \A k \in DOMAIN byMeeting'[here] :
                /\ k \in Nat /\ k + 1 \in DOMAIN byMeeting[here]
                /\ byMeeting'[here][k] = byMeeting[here][k + 1]
           /\ Len(result) \in Nat /\ DOMAIN result = 1..Len(result)
           /\ Len(result') = Len(result) + 1
           /\ DOMAIN result' = 1..(Len(result) + 1)
           /\ \A i \in DOMAIN result : result'[i] = result[i]
           /\ result'[Len(result) + 1] = h
PROOF
  <1> DEFINE here == order[pos]
             list == byMeeting[here]
             h == Head(list)
  <1>0. RankingTypeOK /\ ListsInOrder
    BY DEF RankingInv, GroupsInv
  <1>1. /\ pos \in DOMAIN order /\ here \in ChunkMeeting /\ list \in Seq(Nat) /\ list # <<>>
        /\ \A k \in DOMAIN list : list[k] \in Nat
    BY <1>0, RankingTyped DEF TakeChunk, RankingTypeOK
  <1>2. /\ 1 \in DOMAIN list
        /\ h = list[1]
        /\ Tail(list) \in Seq(Nat)
        /\ \A i \in DOMAIN Tail(list) : i \in Nat /\ i + 1 \in DOMAIN list /\ Tail(list)[i] = list[i + 1]
        /\ \A i \in DOMAIN list : i # 1 => i - 1 \in DOMAIN Tail(list) /\ Tail(list)[i - 1] = list[i]
    BY <1>1, TailIs
  <1>3. /\ result' = Append(result, h)
        /\ byMeeting' = [byMeeting EXCEPT ![here] = Tail(@)]
        /\ phase = "cycle"
        /\ UNCHANGED <<fused, order, cards>>
    BY DEF TakeChunk
  <1>4. phase' \in {"cycle", "cards"}
    BY <1>3 DEF TakeChunk
  <1>5. byMeeting'[here] = Tail(list) /\ \A m \in ChunkMeeting : m # here => byMeeting'[m] = byMeeting[m]
    BY <1>0, <1>1, <1>3 DEF RankingTypeOK
  <1>6. /\ Len(result) \in Nat /\ DOMAIN result = 1..Len(result)
        /\ Len(result') = Len(result) + 1
        /\ DOMAIN result' = 1..(Len(result) + 1)
        /\ \A i \in DOMAIN result : result'[i] = result[i]
        /\ result'[Len(result) + 1] = h
    <2>1. result \in Seq(Nat) /\ h \in Nat
      BY <1>0, <1>1, <1>2 DEF RankingTypeOK
    <2> HIDE DEF h
    <2> QED
      BY <1>3, <2>1, AppendIs
  <1>7. \A k \in DOMAIN list :
           /\ list[k] \in Seen /\ Of(list[k]) = here
           /\ \A l \in DOMAIN list : k < l => list[k] < list[l]
           /\ \A i \in DOMAIN result : Of(result[i]) = here => result[i] < list[k]
    BY <1>0, <1>1 DEF ListsInOrder
  <1> HIDE DEF h, list, here
  <1>8. /\ h \in Nat /\ h \in Seen /\ Of(h) = here /\ h \in Elements(list)
        /\ \A i \in DOMAIN result : Of(result[i]) = here => result[i] < h
    BY <1>1, <1>2, <1>7 DEF Elements
  <1>9. \A p \in Elements(list) : p = h \/ (h < p /\ p \in Elements(Tail(list)))
    <2> SUFFICES ASSUME NEW k \in DOMAIN list, k # 1
                 PROVE  h < list[k] /\ list[k] \in Elements(Tail(list))
      BY <1>2 DEF Elements
    <2>1. k \in Nat /\ 1 < k
      <3>1. DOMAIN list = 1..Len(list) /\ Len(list) \in Nat
        BY <1>1, LenProperties
      <3> QED
        BY <3>1
    <2> QED
      BY <1>2, <1>7, <2>1 DEF Elements
  <1>10. \A p \in Elements(list) : p = h \/ (h < p /\ p \in Elements(byMeeting'[here]))
    BY <1>5, <1>9
  <1>11. \A k \in DOMAIN byMeeting'[here] :
            k \in Nat /\ k + 1 \in DOMAIN list /\ byMeeting'[here][k] = list[k + 1]
    BY <1>2, <1>5
  <1> QED
    BY <1>1, <1>3, <1>4, <1>5, <1>6, <1>8, <1>10, <1>11 DEF list, here

\* Taking a chunk keeps every place, and the order.
LEMMA GroupsAfterTakeChunk ==
  ASSUME RankingInv, TakeChunk
  PROVE  GroupsInv'
PROOF
  <1>0. RankingTypeOK /\ GroupsInv
    BY DEF RankingInv
  <1>1. PICK here \in ChunkMeeting, h \in Nat :
           /\ pos \in DOMAIN order /\ here = order[pos]
           /\ UNCHANGED <<fused, order, cards>>
           /\ phase = "cycle" /\ phase' \in {"cycle", "cards"}
           /\ byMeeting[here] # <<>>
           /\ h \in Seen /\ Of(h) = here
           /\ h \in Elements(byMeeting[here])
           /\ \A i \in DOMAIN result : Of(result[i]) = here => result[i] < h
           /\ \A p \in Elements(byMeeting[here]) : p = h \/ (h < p /\ p \in Elements(byMeeting'[here]))
           /\ \A m \in ChunkMeeting : m # here => byMeeting'[m] = byMeeting[m]
           /\ \A k \in DOMAIN byMeeting'[here] :
                /\ k \in Nat /\ k + 1 \in DOMAIN byMeeting[here]
                /\ byMeeting'[here][k] = byMeeting[here][k + 1]
           /\ Len(result) \in Nat /\ DOMAIN result = 1..Len(result)
           /\ Len(result') = Len(result) + 1
           /\ DOMAIN result' = 1..(Len(result) + 1)
           /\ \A i \in DOMAIN result : result'[i] = result[i]
           /\ result'[Len(result) + 1] = h
    BY TakeChunkIs
  <1> DEFINE n == Len(result)
  <1>2. \A p : Of(p)' = Of(p)
    BY <1>1 DEF Of
  <1>3. Seen' = Seen
    BY <1>1 DEF Seen
  <1>4. /\ n \in Nat /\ DOMAIN result = 1..n /\ DOMAIN result' = 1..(n + 1)
        /\ \A i \in 1..n : result'[i] = result[i]
        /\ result'[n + 1] = h
        /\ \A i \in 1..n : result[i] \in Nat
    BY <1>0, <1>1, RankingTyped
  <1> HIDE DEF n
  <1>5. \A i \in DOMAIN result' : i \in 1..n \/ i = n + 1
    BY <1>4
  <1>6. Elements(result') = Elements(result) \union {h}
    <2>1. 1..n \subseteq 1..(n + 1) /\ n + 1 \in 1..(n + 1)
      BY <1>4
    <2> QED
      BY <1>4, <1>5, <2>1 DEF Elements
  <1>7. StartsEmpty'
    BY <1>1 DEF StartsEmpty
  <1>8. PlacesKept'
    <2>1. Seen' \subseteq DOMAIN fused'
      BY <1>0, <1>1, <1>3 DEF GroupsInv, PlacesKept
    <2>2. ASSUME NEW p \in Seen
          PROVE  Of(p) \in Elements(order) /\ (p \in Elements(result') \/ p \in Elements(byMeeting'[Of(p)]))
      <3>1. /\ Of(p) \in Elements(order)
            /\ p \in Elements(result) \/ p \in Elements(byMeeting[Of(p)])
        BY <1>0 DEF GroupsInv, PlacesKept
      <3>2. Of(p) \in ChunkMeeting
        BY <1>0, RankingTyped DEF GroupsInv, PlacesKept
      <3>3. CASE Of(p) = here
        BY <1>1, <1>6, <3>1, <3>3
      <3>4. CASE Of(p) # here
        <4>1. byMeeting'[Of(p)] = byMeeting[Of(p)]
          BY <1>1, <3>2, <3>4
        <4> QED
          BY <1>6, <3>1, <4>1
      <3> QED
        BY <3>3, <3>4
    <2>3. order' = order
      BY <1>1
    <2> QED
      BY <1>2, <1>3, <2>1, <2>2, <2>3 DEF PlacesKept
  <1>9. ListsInOrder'
    <2> SUFFICES ASSUME NEW m \in ChunkMeeting, NEW k \in DOMAIN byMeeting'[m]
                 PROVE  /\ byMeeting'[m][k] \in Seen
                        /\ Of(byMeeting'[m][k]) = m
                        /\ \A l \in DOMAIN byMeeting'[m] : k < l => byMeeting'[m][k] < byMeeting'[m][l]
                        /\ \A i \in DOMAIN result' : Of(result'[i]) = m => result'[i] < byMeeting'[m][k]
      BY <1>2, <1>3 DEF ListsInOrder
    <2>0. ListsInOrder
      BY <1>0 DEF GroupsInv
    <2>1. CASE m # here
      <3>1. byMeeting'[m] = byMeeting[m] /\ k \in DOMAIN byMeeting[m]
        BY <1>1, <2>1
      <3>2. /\ byMeeting[m][k] \in Seen
            /\ Of(byMeeting[m][k]) = m
            /\ \A l \in DOMAIN byMeeting[m] : k < l => byMeeting[m][k] < byMeeting[m][l]
            /\ \A i \in DOMAIN result : Of(result[i]) = m => result[i] < byMeeting[m][k]
        BY <2>0, <3>1 DEF ListsInOrder
      <3>3. Of(result'[n + 1]) # m
        BY <1>1, <1>4, <2>1
      <3>4. \A i \in DOMAIN result' : Of(result'[i]) = m => result'[i] < byMeeting[m][k]
        BY <1>4, <1>5, <3>2, <3>3
      <3> QED
        BY <3>1, <3>2, <3>4
    <2>2. CASE m = here
      <3> DEFINE list == byMeeting[here]
                 shorter == byMeeting'[here]
      <3>1. \A j \in DOMAIN shorter : j \in Nat /\ j + 1 \in DOMAIN list /\ shorter[j] = list[j + 1]
        BY <1>1
      <3>2. \A j \in DOMAIN list :
               /\ list[j] \in Seen
               /\ Of(list[j]) = here
               /\ \A l \in DOMAIN list : j < l => list[j] < list[l]
               /\ \A i \in DOMAIN result : Of(result[i]) = here => result[i] < list[j]
        BY <2>0 DEF ListsInOrder
      <3>3. 1 \in DOMAIN list /\ h = list[1]
        <4>1. list \in Seq(Nat) /\ list # <<>>
          BY <1>0, <1>1 DEF RankingTypeOK
        <4>2. 1 \in DOMAIN list
          BY <4>1, TailIs
        <4>3. \A j \in DOMAIN list : j \in Nat /\ list[j] \in Nat /\ 1 <= j
          BY <1>0, RankingTyped
        <4>4. PICK j \in DOMAIN list : list[j] = h
          BY <1>1 DEF Elements
        <4>5. list[1] = h \/ h < list[1]
          BY <1>1, <4>2 DEF Elements
        <4>6. CASE j # 1
          <5>1. list[1] < list[j]
            BY <3>2, <4>2, <4>3, <4>6
          <5> QED
            BY <4>2, <4>3, <4>4, <4>5, <5>1
        <4> QED
          BY <4>2, <4>4, <4>6
      <3> HIDE DEF list, shorter
      <3>4. ASSUME NEW j \in DOMAIN shorter
            PROVE  /\ shorter[j] \in Seen
                   /\ Of(shorter[j]) = here
                   /\ \A l \in DOMAIN shorter : j < l => shorter[j] < shorter[l]
                   /\ h < shorter[j]
        <4>1. j # 0
          <5>1. shorter \in Seq(Nat)
            <6>1. RankingTypeOK'
              BY RankingConstants, RankingTypeStep DEF RankingNext
            <6> QED
              BY <6>1 DEF RankingTypeOK, shorter
          <5> QED
            BY <5>1, LenProperties
        <4>2. j \in Nat /\ 1 < j + 1 /\ j + 1 \in DOMAIN list
          BY <3>1, <4>1
        <4>3. \A l \in DOMAIN shorter : l \in Nat /\ l + 1 \in DOMAIN list /\ (j < l => j + 1 < l + 1)
          BY <3>1
        <4> QED
          BY <3>1, <3>2, <3>3, <4>2, <4>3
      <3>5. k \in DOMAIN shorter
        BY <2>2 DEF shorter
      <3>6. \A i \in DOMAIN result' : Of(result'[i]) = here => result'[i] < shorter[k]
        <4>1. \A i \in 1..n : Of(result'[i]) = here => result'[i] < list[k + 1]
          BY <1>4, <3>1, <3>2, <3>5
        <4>2. result'[n + 1] < shorter[k]
          BY <1>4, <3>4, <3>5
        <4> QED
          BY <1>5, <3>1, <3>5, <4>1, <4>2
      <3> QED
        BY <2>2, <3>4, <3>5, <3>6 DEF shorter
    <2> QED
      BY <2>1, <2>2
  <1>10. TakenInOrder'
    <2>0. TakenInOrder
      BY <1>0 DEF GroupsInv
    <2>1. Elements(result') \subseteq Seen'
      BY <1>1, <1>3, <1>6, <2>0 DEF TakenInOrder
    <2>2. ASSUME NEW i \in DOMAIN result', NEW j \in DOMAIN result',
                 i < j, Of(result'[i]) = Of(result'[j])
          PROVE  result'[i] < result'[j]
      <3>1. i \in 1..n
        BY <1>4, <2>2
      <3>2. CASE j \in 1..n
        BY <1>4, <2>0, <2>2, <3>1, <3>2 DEF TakenInOrder
      <3>3. CASE j = n + 1
        BY <1>1, <1>4, <2>2, <3>1, <3>3
      <3> QED
        BY <1>5, <3>2, <3>3
    <2>3. ASSUME NEW i \in DOMAIN result', NEW j \in DOMAIN result', result'[i] = result'[j]
          PROVE  i = j
      <3>1. \A l \in 1..n : result[l] # h
        BY <1>1, <1>4
      <3>2. CASE i \in 1..n /\ j \in 1..n
        BY <1>4, <2>0, <2>3, <3>2 DEF TakenInOrder, Distinct
      <3> QED
        BY <1>4, <1>5, <2>3, <3>1, <3>2
    <2>4. Distinct(order')
      BY <1>1, <2>0 DEF TakenInOrder
    <2>5. \A i, j \in DOMAIN result' :
             i < j /\ Of(result[i])' = Of(result[j])' => result'[i] < result'[j]
      BY <1>1, <2>2 DEF Of
    <2> QED
      BY <2>1, <2>3, <2>4, <2>5 DEF TakenInOrder, Distinct
  <1> QED
    BY <1>7, <1>8, <1>9, <1>10 DEF GroupsInv

-----------------------------------------------------------------------------
(* How many chunks each meeting has given.                                  *)

\* The count of a meeting; nothing of a meeting that is not in the order.
LEMMA TakenIsNat ==
  ASSUME RankingInv, NEW m
  PROVE  /\ IsFiniteSet({i \in DOMAIN result : Of(result[i]) = m})
         /\ Taken(m) \in Nat
         /\ result = <<>> => Taken(m) = 0
         /\ m \notin Elements(order) => Taken(m) = 0
PROOF
  <1> DEFINE S == {i \in DOMAIN result : Of(result[i]) = m}
  <1>0. RankingTypeOK /\ GroupsInv
    BY DEF RankingInv
  <1>1. IsFiniteSet(DOMAIN result)
    BY <1>0, IntervalSize, RankingTyped
  <1>2. S \in SUBSET DOMAIN result
    OBVIOUS
  <1> HIDE DEF S
  <1>3. IsFiniteSet(S)
    BY <1>1, <1>2, FS_Subset
  <1>4. Cardinality(S) \in Nat
    BY <1>3, FS_CardinalityType
  <1>5. Taken(m) = Cardinality(S)
    BY DEF Taken, S
  <1>6. result = <<>> => S = {}
    BY DEF S
  <1>7. m \notin Elements(order) => S = {}
    <2>1. \A i \in DOMAIN result : Of(result[i]) \in Elements(order)
      BY <1>0 DEF GroupsInv, TakenInOrder, PlacesKept, Elements
    <2> QED
      BY <2>1 DEF S
  <1>8. S = {} => Cardinality(S) = 0
    BY FS_EmptySet
  <1> QED
    BY <1>3, <1>4, <1>5, <1>6, <1>7, <1>8 DEF S

\* The chunk taken counts for its meeting, and for no other.
LEMMA TakenStep ==
  ASSUME RankingInv, TakeChunk, NEW m
  PROVE  Taken(m)' = IF m = order[pos] THEN Taken(m) + 1 ELSE Taken(m)
PROOF
  <1> DEFINE n == Len(result)
             S == {i \in DOMAIN result : Of(result[i]) = m}
             T == {i \in DOMAIN result' : Of(result'[i]) = m}
  <1>1. PICK h \in Nat :
          /\ fused' = fused
          /\ Of(h) = order[pos]
          /\ Len(result) \in Nat /\ DOMAIN result = 1..Len(result)
          /\ DOMAIN result' = 1..(Len(result) + 1)
          /\ \A i \in DOMAIN result : result'[i] = result[i]
          /\ result'[Len(result) + 1] = h
    BY TakeChunkIs
  <1>2. Taken(m) = Cardinality(S)
    BY DEF Taken
  <1>3. Taken(m)' = Cardinality(T)
    BY <1>1 DEF Taken, Of
  <1>4. n + 1 \notin DOMAIN result
    BY <1>1
  <1>5. \A i \in DOMAIN result' : i \in DOMAIN result \/ i = n + 1
    BY <1>1
  <1>6. DOMAIN result \subseteq DOMAIN result' /\ n + 1 \in DOMAIN result'
    BY <1>1
  <1>7. \A i \in DOMAIN result : result'[i] = result[i]
    BY <1>1
  <1>8. Of(result'[n + 1]) = order[pos]
    BY <1>1
  <1> HIDE DEF n
  <1>9. T = IF m = order[pos] THEN S \union {n + 1} ELSE S
    BY <1>5, <1>6, <1>7, <1>8
  <1>10. n + 1 \notin S
    BY <1>4
  <1>11. IsFiniteSet(S)
    BY TakenIsNat
  <1> HIDE DEF S, T
  <1>12. Cardinality(S \union {n + 1}) = Cardinality(S) + 1
    BY <1>10, <1>11, FS_AddElement
  <1> QED
    BY <1>2, <1>3, <1>9, <1>12

\* Where nothing is taken nothing changes.
LEMMA TakenStays ==
  ASSUME UNCHANGED <<fused, result>>, NEW m
  PROVE  Taken(m)' = Taken(m)
PROOF
  BY DEF Taken, Of

\* A meeting that has a chunk left is in the order.
LEMMA HasLeft ==
  ASSUME RankingInv, NEW m \in ChunkMeeting, byMeeting[m] # <<>>
  PROVE  m \in Elements(order)
PROOF
  <1>0. RankingTypeOK /\ GroupsInv
    BY DEF RankingInv
  <1>1. 1 \in DOMAIN byMeeting[m]
    <2>1. byMeeting[m] \in Seq(Nat)
      BY <1>0 DEF RankingTypeOK
    <2> QED
      BY <2>1, TailIs
  <1>2. byMeeting[m][1] \in Seen /\ Of(byMeeting[m][1]) = m
    BY <1>0, <1>1 DEF GroupsInv, ListsInOrder
  <1> QED
    BY <1>0, <1>2 DEF GroupsInv, PlacesKept

\* The first cycle.
LEMMA CyclesAfterGrouped ==
  ASSUME RankingConstants, RankingInv, Grouped
  PROVE  CyclesInv'
PROOF
  <1>1. /\ phase' = "cycle" /\ pos' = 1
        /\ UNCHANGED <<fused, order, byMeeting, progressed, result>>
        /\ result = <<>>
    BY DEF Grouped, RankingInv, GroupsInv, StartsEmpty
  <1>2. \A m : Taken(m)' = 0
    BY <1>1, TakenIsNat, TakenStays
  <1>3. \A i \in DOMAIN order' : ~(i < pos')
    <2>1. RankingTypeOK
      BY DEF RankingInv
    <2> QED
      BY <1>1, <2>1, RankingTyped
  <1>4. InCycle(0)'
    BY <1>2, <1>3 DEF InCycle
  <1>5. Len(result') < TopK
    BY <1>1 DEF RankingConstants
  <1> QED
    BY <1>1, <1>3, <1>4, <1>5 DEF CyclesInv


\* The count of the meeting at an index of the order.
LEMMA TakenAt ==
  ASSUME order' = order, NEW i, NEW m, m = order[i]
  PROVE  Taken(order[i])' = Taken(m)'
PROOF
  BY DEF Taken

\* A chunk is taken of a meeting whose turn it is.
LEMMA CyclesAfterTakeChunk ==
  ASSUME RankingConstants, RankingInv, TakeChunk
  PROVE  CyclesInv'
PROOF
  <1>0. RankingTypeOK /\ TakenInOrder
    BY DEF RankingInv, GroupsInv
  <1>1. PICK here \in ChunkMeeting :
        /\ pos \in DOMAIN order /\ here = order[pos] /\ order' = order
        /\ phase = "cycle" /\ byMeeting[here] # <<>>
        /\ \A m \in ChunkMeeting : m # here => byMeeting'[m] = byMeeting[m]
        /\ Len(result) \in Nat /\ Len(result') = Len(result) + 1
    BY TakeChunkIs
  <1>2. TopK \in Nat /\ Len(result) < TopK /\ progressed' = TRUE
    <2>1. TopK \in Nat
      BY DEF RankingConstants
    <2> QED
      BY <1>1, <2>1 DEF TakeChunk, RankingInv, CyclesInv
  <1>3. PICK r \in Nat : InCycle(r)
    BY <1>1 DEF RankingInv, CyclesInv
  <1>4. pos \in Nat /\ \A i \in DOMAIN order : i \in Nat
    BY <1>0, RankingTyped DEF RankingTypeOK
  <1>5. \A i \in DOMAIN order : order[i] \in ChunkMeeting /\ (order[i] = here => i = pos)
    BY <1>0, <1>1, RankingTyped DEF TakenInOrder, Distinct
  <1>6. \A m : Taken(m) \in Nat /\ Taken(m)' = IF m = here THEN Taken(m) + 1 ELSE Taken(m)
    BY <1>1, TakenIsNat, TakenStep
  <1>7. \A i \in DOMAIN order :
           LET due == IF i < pos THEN r + 1 ELSE r IN
           /\ Taken(order[i]) <= due
           /\ byMeeting[order[i]] # <<>> => Taken(order[i]) = due
    BY <1>3 DEF InCycle
  <1>8. Taken(here) = r
    BY <1>1, <1>4, <1>7
  <1>9. \A i \in DOMAIN order :
           LET due == IF i < pos + 1 THEN r + 1 ELSE r IN
           /\ Taken(order[i])' <= due
           /\ byMeeting'[order[i]] # <<>> => Taken(order[i])' = due
           /\ Taken(order[i])' <= r + 1
           /\ byMeeting'[order[i]] # <<>> => Taken(order[i])' >= r
    <2> SUFFICES ASSUME NEW i \in DOMAIN order
                 PROVE  LET due == IF i < pos + 1 THEN r + 1 ELSE r IN
                        /\ Taken(order[i])' <= due
                        /\ byMeeting'[order[i]] # <<>> => Taken(order[i])' = due
                        /\ Taken(order[i])' <= r + 1
                        /\ byMeeting'[order[i]] # <<>> => Taken(order[i])' >= r
      OBVIOUS
    <2>1. PICK m \in ChunkMeeting : m = order[i]
      BY <1>5
    <2>2. Taken(order[i])' = Taken(m)'
      BY <1>1, <2>1, TakenAt
    <2>3. i \in Nat
      BY <1>4
    <2>4. CASE m = here
      <3>1. Taken(m)' = r + 1 /\ i = pos
        BY <1>5, <1>6, <1>8, <2>1, <2>4
      <3> QED
        BY <1>4, <2>1, <2>2, <3>1
    <2>5. CASE m # here
      <3>1. Taken(m)' = Taken(m) /\ byMeeting'[m] = byMeeting[m] /\ Taken(m) \in Nat
        BY <1>1, <1>6, <2>5
      <3>2. i # pos
        BY <1>1, <2>1, <2>5
      <3>3. i < pos + 1 <=> i < pos
        BY <1>4, <2>3, <3>2
      <3>4. LET due == IF i < pos THEN r + 1 ELSE r IN
            Taken(m) <= due /\ (byMeeting[m] # <<>> => Taken(m) = due)
        BY <1>7, <2>1
      <3> QED
        BY <2>1, <2>2, <3>1, <3>3, <3>4
    <2> QED
      BY <2>4, <2>5
  <1>10. CASE Len(result') >= TopK
    <2>1. phase' = "cards" /\ Len(result') = TopK
      <3>1. phase' = "cards"
        BY <1>10 DEF TakeChunk
      <3> QED
        BY <1>1, <1>2, <1>10, <3>1
    <2>2. Even'
      <3> SUFFICES ASSUME NEW m \in ChunkMeeting, NEW n \in ChunkMeeting, byMeeting'[m] # <<>>
                   PROVE  Taken(n)' <= Taken(m)' + 1
        BY DEF Even
      <3>1. Taken(m)' \in Nat /\ Taken(n)' \in Nat
        BY <1>6
      <3>2. byMeeting[m] # <<>>
        BY <1>1
      <3>3. PICK i \in DOMAIN order : order[i] = m
        BY <3>2, HasLeft DEF Elements
      <3>4. Taken(m)' >= r
        BY <1>1, <1>9, <3>3, TakenAt
      <3>5. CASE n \in Elements(order)
        <4>1. PICK j \in DOMAIN order : order[j] = n
          BY <3>5 DEF Elements
        <4>2. Taken(n)' <= r + 1
          BY <1>1, <1>9, <4>1, TakenAt
        <4> QED
          BY <3>1, <3>4, <4>2
      <3>6. CASE n \notin Elements(order)
        <4>1. n # here /\ Taken(n) = 0
          BY <1>1, <3>6, TakenIsNat DEF Elements
        <4>2. Taken(n)' = 0
          BY <1>6, <4>1
        <4> QED
          BY <3>1, <4>2
      <3> QED
        BY <3>5, <3>6
    <2> QED
      BY <2>1, <2>2 DEF CyclesInv
  <1>11. CASE ~(Len(result') >= TopK)
    <2>1. pos' = pos + 1 /\ phase' = "cycle" /\ Len(result') < TopK
      <3>1. pos' = pos + 1 /\ phase' = phase
        BY <1>11 DEF TakeChunk
      <3> QED
        BY <1>1, <1>2, <1>11, <3>1
    <2>2. InCycle(r)'
      BY <1>1, <1>9, <2>1 DEF InCycle
    <2> QED
      BY <1>2, <2>1, <2>2 DEF CyclesInv
  <1> QED
    BY <1>10, <1>11

\* A meeting that has nothing left is passed over.
LEMMA CyclesAfterSkipMeeting ==
  ASSUME RankingInv, SkipMeeting
  PROVE  CyclesInv'
PROOF
  <1>0. RankingTypeOK
    BY DEF RankingInv
  <1>1. /\ phase = "cycle" /\ phase' = "cycle" /\ pos' = pos + 1
        /\ UNCHANGED <<fused, order, byMeeting, progressed, result>>
        /\ byMeeting[order[pos]] = <<>>
    BY DEF SkipMeeting
  <1>2. PICK r \in Nat : InCycle(r)
    BY <1>1 DEF RankingInv, CyclesInv
  <1>3. pos \in Nat /\ \A i \in DOMAIN order : i \in Nat
    BY <1>0, RankingTyped DEF RankingTypeOK
  <1>4. \A m : Taken(m) \in Nat
    BY TakenIsNat
  <1>5. \A i \in DOMAIN order : Taken(order[i])' = Taken(order[i])
    BY <1>1 DEF Taken, Of
  <1>6. \A i \in DOMAIN order :
           LET due == IF i < pos THEN r + 1 ELSE r IN
           /\ Taken(order[i]) <= due
           /\ byMeeting[order[i]] # <<>> => Taken(order[i]) = due
    BY <1>2 DEF InCycle
  <1>7. \A i \in DOMAIN order :
           LET due == IF i < pos + 1 THEN r + 1 ELSE r IN
           /\ Taken(order[i]) <= due
           /\ byMeeting[order[i]] # <<>> => Taken(order[i]) = due
    <2> SUFFICES ASSUME NEW i \in DOMAIN order
                 PROVE  LET due == IF i < pos + 1 THEN r + 1 ELSE r IN
                        /\ Taken(order[i]) <= due
                        /\ byMeeting[order[i]] # <<>> => Taken(order[i]) = due
      OBVIOUS
    <2>1. CASE i = pos
      BY <1>1, <1>3, <1>4, <1>6, <2>1
    <2>2. CASE i # pos
      <3>1. i < pos + 1 <=> i < pos
        BY <1>3, <2>2
      <3> QED
        BY <1>6, <3>1
    <2> QED
      BY <2>1, <2>2
  <1>8. InCycle(r)'
    BY <1>1, <1>5, <1>7 DEF InCycle
  <1>9. ~progressed => \A i \in DOMAIN order : i < pos + 1 => byMeeting[order[i]] = <<>>
    <2>1. ~progressed => \A i \in DOMAIN order : i < pos => byMeeting[order[i]] = <<>>
      BY <1>1 DEF RankingInv, CyclesInv
    <2>2. \A i \in DOMAIN order : i < pos + 1 => i < pos \/ i = pos
      BY <1>3
    <2> QED
      BY <1>1, <2>1, <2>2
  <1>10. Len(result') < TopK
    BY <1>1 DEF RankingInv, CyclesInv
  <1> QED
    BY <1>1, <1>8, <1>9, <1>10 DEF CyclesInv

\* A cycle is over: every meeting that has chunks left has given one more.
LEMMA CyclesAfterNextCycle ==
  ASSUME RankingInv, NextCycle
  PROVE  CyclesInv'
PROOF
  <1>0. RankingTypeOK
    BY DEF RankingInv
  <1>1. /\ phase = "cycle" /\ pos' = 1 /\ ~progressed'
        /\ UNCHANGED <<fused, order, byMeeting, result>>
    BY DEF NextCycle
  <1>2. pos > Len(order) /\ pos \in Nat
    BY <1>0 DEF NextCycle, RankingTypeOK
  <1>3. Len(result) < TopK
    BY <1>1 DEF RankingInv, CyclesInv
  <1>4. \A i \in DOMAIN order : i < pos /\ ~(i < 1)
    BY <1>0, <1>2, RankingTyped
  <1>5. CASE progressed
    <2>1. phase' = "cycle"
      BY <1>1, <1>5 DEF NextCycle
    <2>2. PICK r \in Nat : InCycle(r)
      BY <1>1 DEF RankingInv, CyclesInv
    <2>3. \A i \in DOMAIN order : Taken(order[i])' = Taken(order[i])
      BY <1>1 DEF Taken, Of
    <2>4. \A i \in DOMAIN order :
             /\ Taken(order[i]) <= r + 1
             /\ byMeeting[order[i]] # <<>> => Taken(order[i]) = r + 1
      BY <1>4, <2>2 DEF InCycle
    <2>5. InCycle(r + 1)'
      BY <1>1, <1>4, <2>3, <2>4 DEF InCycle
    <2>6. r + 1 \in Nat
      OBVIOUS
    <2>7. \A i \in DOMAIN order' : ~(i < pos')
      BY <1>1, <1>4
    <2> QED
      BY <1>1, <1>3, <2>1, <2>5, <2>6, <2>7 DEF CyclesInv
  <1>6. CASE ~progressed
    <2>1. phase' = "cards"
      BY <1>6 DEF NextCycle
    <2>2. \A i \in DOMAIN order : byMeeting[order[i]] = <<>>
      BY <1>1, <1>4, <1>6 DEF RankingInv, CyclesInv
    <2>3. \A m \in ChunkMeeting : byMeeting[m] = <<>>
      BY <2>2, HasLeft DEF Elements
    <2>4. Even'
      BY <1>1, <2>3 DEF Even
    <2> QED
      BY <1>1, <1>3, <2>1, <2>3, <2>4 DEF CyclesInv
  <1> QED
    BY <1>5, <1>6

\* Outside the cycles the counts stay.
LEMMA CyclesAfterOther ==
  ASSUME RankingInv, Retrieve \/ GroupChunk \/ AddToCard \/ CutCards
  PROVE  CyclesInv'
PROOF
  <1>1. CASE Retrieve \/ GroupChunk
    <2>1. phase' = "group"
      BY <1>1 DEF Retrieve, GroupChunk
    <2> QED
      BY <2>1 DEF CyclesInv
  <1>2. CASE AddToCard \/ CutCards
    <2>1. /\ phase = "cards" /\ phase' \in {"cards", "done"}
          /\ UNCHANGED <<fused, byMeeting, result>>
      BY <1>2 DEF AddToCard, CutCards
    <2>2. /\ Even
          /\ \/ Len(result) = TopK
             \/ Len(result) < TopK /\ \A m \in ChunkMeeting : byMeeting[m] = <<>>
      BY <2>1 DEF RankingInv, CyclesInv
    <2>3. \A m : Taken(m)' = Taken(m)
      BY <2>1 DEF Taken, Of
    <2>4. Even'
      BY <2>1, <2>2, <2>3 DEF Even
    <2> QED
      BY <2>1, <2>2, <2>4 DEF CyclesInv
  <1> QED
    BY <1>1, <1>2

-----------------------------------------------------------------------------
(* The source cards.                                                        *)

\* The cards are still to come.
LEMMA CardsBefore ==
  ASSUME RankingInv, RankingNext, ~AddToCard, ~CutCards
  PROVE  CardsInv'
PROOF
  <1>0. RankingTypeOK
    BY DEF RankingInv
  <1>1. /\ cards' = cards /\ phase \in {"query", "group", "cycle"} /\ phase' # "done"
        /\ phase' = "cards" => pos' = 1
    BY DEF RankingNext, Retrieve, GroupChunk, Grouped, TakeChunk, SkipMeeting, NextCycle
  <1>2. cards' = <<>>
    BY <1>1 DEF RankingInv, CardsInv
  <1>3. ASSUME phase' = "cards" PROVE pos' <= Len(result') + 1 /\ ListsFirst(pos - 1)'
    <2>1. Len(result') \in Nat
      BY RankingConstants, RankingTypeStep, LenProperties DEF RankingTypeOK
    <2>2. pos' = 1
      BY <1>1, <1>3
    <2>3. DOMAIN cards' = {} /\ 1..(pos' - 1) = {}
      BY <1>2, <2>2
    <2> QED
      BY <2>1, <2>2, <2>3 DEF ListsFirst, Distinct
  <1> QED
    BY <1>1, <1>2, <1>3 DEF CardsInv

\* A chunk's meeting gets a card if it has none.
LEMMA CardsAfterAddToCard ==
  ASSUME RankingInv, AddToCard
  PROVE  CardsInv'
PROOF
  <1> DEFINE here == Of(result[pos])
             more == NotedIn(cards, here)
             meeting(k) == Of(result[k])
  <1>0. RankingTypeOK
    BY DEF RankingInv
  <1>1. /\ phase' = "cards" /\ phase = "cards" /\ pos \in Nat \ {0} /\ pos' = pos + 1
        /\ UNCHANGED <<fused, result>>
        /\ Len(result) \in Nat /\ pos <= Len(result) /\ DOMAIN result = 1..Len(result)
        /\ cards' = more
        /\ cards \in Seq(ChunkMeeting)
    BY <1>0, RankingTyped DEF AddToCard, RankingTypeOK
  <1>2. /\ Distinct(cards)
        /\ \A i \in DOMAIN cards : \E k \in 1..(pos - 1) : meeting(k) = cards[i]
        /\ \A k \in 1..(pos - 1) : \E i \in DOMAIN cards : cards[i] = meeting(k)
        /\ \A i, j \in DOMAIN cards : \A k \in 1..(pos - 1) :
             i < j /\ meeting(k) = cards[j] => \E l \in 1..(k - 1) : meeting(l) = cards[i]
    BY <1>1 DEF RankingInv, CardsInv, ListsFirst
  <1>3. here \in ChunkMeeting
    <2>1. pos \in DOMAIN result
      BY <1>1
    <2>2. result[pos] \in DOMAIN fused
      BY <2>1 DEF RankingInv, GroupsInv, TakenInOrder, PlacesKept, Elements
    <2> QED
      BY <1>0, <2>2, RankingTyped
  <1> HIDE DEF here, more, meeting
  <1>4. /\ Distinct(more)
        /\ Elements(more) = Elements(cards) \union {here}
        /\ \A i \in DOMAIN more :
             \/ i \in DOMAIN cards /\ more[i] = cards[i]
             \/ more[i] = here /\ here \notin Elements(cards) /\ \A j \in DOMAIN more : j <= i
        /\ DOMAIN more \subseteq Nat
    <2>1. NotedIn(cards, here) \in Seq(ChunkMeeting)
      BY <1>1, <1>2, <1>3, NotedInIs
    <2>2. DOMAIN more \subseteq Nat
      BY <2>1, LenProperties DEF more
    <2>3. /\ Distinct(NotedIn(cards, here))
          /\ Elements(NotedIn(cards, here)) = Elements(cards) \union {here}
      BY <1>1, <1>2, <1>3, NotedInIs
    <2>4. \A i \in DOMAIN NotedIn(cards, here) :
             \/ i \in DOMAIN cards /\ NotedIn(cards, here)[i] = cards[i]
             \/ /\ NotedIn(cards, here)[i] = here
                /\ here \notin Elements(cards)
                /\ \A j \in DOMAIN NotedIn(cards, here) : j <= i
      BY <1>1, <1>2, <1>3, NotedInIs
    <2> QED
      BY <2>2, <2>3, <2>4 DEF more
  <1>5. meeting(pos) = here
    BY DEF meeting, here
  <1>6. 1..(pos - 1) \subseteq 1..pos /\ pos \in 1..pos /\ \A k \in 1..pos : k = pos \/ k \in 1..(pos - 1)
    BY <1>1
  <1>7. \A i \in DOMAIN more : \E k \in 1..pos : meeting(k) = more[i]
    <2> TAKE i \in DOMAIN more
    <2>1. CASE i \in DOMAIN cards /\ more[i] = cards[i]
      BY <1>2, <1>6, <2>1
    <2>2. CASE more[i] = here
      BY <1>5, <1>6, <2>2
    <2> QED
      BY <1>4, <2>1, <2>2
  <1>8. \A k \in 1..pos : \E i \in DOMAIN more : more[i] = meeting(k)
    <2>1. \A k \in 1..pos : meeting(k) \in Elements(more)
      BY <1>2, <1>4, <1>5, <1>6 DEF Elements
    <2> QED
      BY <2>1 DEF Elements
  <1>9. ASSUME NEW i \in DOMAIN more, NEW j \in DOMAIN more, NEW k \in 1..pos,
               i < j, meeting(k) = more[j]
        PROVE  \E l \in 1..(k - 1) : meeting(l) = more[i]
    <2>1. i \in DOMAIN cards /\ more[i] = cards[i]
      <3>1. i \in Nat /\ j \in Nat
        BY <1>4
      <3>2. ~(j <= i)
        BY <1>9, <3>1
      <3> QED
        BY <1>4, <3>2
    <2>2. CASE k = pos
      BY <1>2, <2>1, <2>2
    <2>3. CASE k \in 1..(pos - 1)
      <3>1. meeting(k) \in Elements(cards)
        BY <1>2, <2>3 DEF Elements
      <3>2. j \in DOMAIN cards /\ more[j] = cards[j]
        BY <1>4, <1>9, <3>1
      <3> QED
        BY <1>2, <1>9, <2>1, <2>3, <3>2
    <2> QED
      BY <1>6, <2>2, <2>3
  <1>10. pos' <= Len(result') + 1 /\ pos' - 1 = pos
    BY <1>1
  <1>11. \A k : Of(result[k])' = meeting(k)
    BY <1>1 DEF Of, meeting
  <1>12. ListsFirst(pos - 1)'
    <2>0. cards' = more /\ pos' - 1 = pos
      BY <1>1, <1>10
    <2>1. Distinct(cards')
      BY <1>4, <2>0
    <2>2. \A i \in DOMAIN cards' : \E k \in 1..(pos' - 1) : Of(result[k])' = cards'[i]
      BY <1>7, <1>11, <2>0
    <2>3. \A k \in 1..(pos' - 1) : \E i \in DOMAIN cards' : cards'[i] = Of(result[k])'
      BY <1>8, <1>11, <2>0
    <2>4. \A i, j \in DOMAIN cards' : \A k \in 1..(pos' - 1) :
             i < j /\ Of(result[k])' = cards'[j] => \E l \in 1..(k - 1) : Of(result[l])' = cards'[i]
      BY <1>9, <1>11, <2>0
    <2> QED
      BY <2>1, <2>2, <2>3, <2>4 DEF ListsFirst
  <1> QED
    BY <1>1, <1>10, <1>12 DEF CardsInv

\* The cards beyond the last there may be are dropped.
LEMMA CardsAfterCutCards ==
  ASSUME RankingConstants, RankingInv, CutCards
  PROVE  CardsInv'
PROOF
  <1> DEFINE meeting(k) == Of(result[k])
             kept == Cut(cards, MaxSources)
  <1>0. RankingTypeOK
    BY DEF RankingInv
  <1>1. /\ phase = "cards" /\ phase' = "done"
        /\ UNCHANGED <<fused, result>>
        /\ cards' = kept
        /\ cards \in Seq(ChunkMeeting)
        /\ Len(result) \in Nat /\ DOMAIN result = 1..Len(result)
        /\ pos \in Nat /\ pos > Len(result)
    BY <1>0, RankingTyped DEF CutCards, RankingTypeOK
  <1>2. pos <= Len(result) + 1 /\ ListsFirst(pos - 1)
    BY <1>1 DEF RankingInv, CardsInv
  <1>3. 1..(pos - 1) = DOMAIN result
    BY <1>1, <1>2
  <1>4. /\ Distinct(cards)
        /\ \A i \in DOMAIN cards : \E k \in DOMAIN result : meeting(k) = cards[i]
        /\ \A k \in DOMAIN result : \E i \in DOMAIN cards : cards[i] = meeting(k)
        /\ \A i, j \in DOMAIN cards : \A k \in DOMAIN result :
             i < j /\ meeting(k) = cards[j] => \E l \in 1..(k - 1) : meeting(l) = cards[i]
    BY <1>2, <1>3 DEF ListsFirst
  <1>5. /\ DOMAIN kept \subseteq DOMAIN cards
        /\ \A i \in DOMAIN kept : kept[i] = cards[i]
        /\ \/ DOMAIN kept = DOMAIN cards
           \/ /\ Len(kept) = MaxSources
              /\ \A i \in DOMAIN cards : i \in DOMAIN kept \/ \A j \in DOMAIN kept : j < i
    BY <1>1, CutIs
  <1> HIDE DEF meeting, kept
  <1>6. Distinct(kept)
    BY <1>4, <1>5 DEF Distinct
  <1>7. \A i \in DOMAIN kept : \E k \in DOMAIN result : meeting(k) = kept[i]
    BY <1>4, <1>5
  <1>8. ASSUME NEW k \in DOMAIN result, ~\E i \in DOMAIN kept : kept[i] = meeting(k)
        PROVE  /\ Len(kept) = MaxSources
               /\ \A i \in DOMAIN kept : \E l \in 1..(k - 1) : meeting(l) = kept[i]
    <2>1. PICK j \in DOMAIN cards : cards[j] = meeting(k)
      BY <1>4
    <2>2. j \notin DOMAIN kept
      BY <1>5, <1>8, <2>1
    <2>3. Len(kept) = MaxSources /\ \A i \in DOMAIN kept : i < j
      BY <1>5, <2>2
    <2> QED
      BY <1>4, <1>5, <2>1, <2>3
  <1>9. \A i, j \in DOMAIN kept : \A k \in DOMAIN result :
           i < j /\ meeting(k) = kept[j] => \E l \in 1..(k - 1) : meeting(l) = kept[i]
    BY <1>4, <1>5
  <1>10. \A k : Of(result[k])' = meeting(k)
    BY <1>1 DEF Of, meeting
  <1>11. CardsAreFirst'
    <2>0. cards' = kept /\ DOMAIN result' = DOMAIN result
      BY <1>1
    <2>1. Distinct(cards')
      BY <1>6, <2>0
    <2>2. \A i \in DOMAIN cards' : \E k \in DOMAIN result' : Of(result[k])' = cards'[i]
      BY <1>7, <1>10, <2>0
    <2>3. \A k \in DOMAIN result' :
             \/ \E i \in DOMAIN cards' : cards'[i] = Of(result[k])'
             \/ /\ Len(cards') = MaxSources
                /\ \A i \in DOMAIN cards' : \E l \in 1..(k - 1) : Of(result[l])' = cards'[i]
      BY <1>8, <1>10, <2>0
    <2>4. \A i, j \in DOMAIN cards', k \in DOMAIN result' :
             i < j /\ Of(result[k])' = cards'[j] => \E l \in 1..(k - 1) : Of(result[l])' = cards'[i]
      BY <1>9, <1>10, <2>0
    <2> QED
      BY <2>1, <2>2, <2>3, <2>4 DEF CardsAreFirst
  <1> QED
    BY <1>1, <1>11 DEF CardsInv

-----------------------------------------------------------------------------

\* Every step of the search keeps the invariant.
LEMMA RankingInvStep ==
  ASSUME RankingConstants, RankingInv, RankingNext
  PROVE  RankingInv'
PROOF
  <1>1. RankingTypeOK'
    BY RankingTypeStep
  <1>2. FusionIsFaithful'
    BY RankingFusionStep
  <1>3. GroupsInv'
    BY GroupsAfterRetrieve, GroupsAfterGroupChunk, GroupsAfterTakeChunk, GroupsAfterOther
  <1>4. CyclesInv'
    BY CyclesAfterGrouped, CyclesAfterTakeChunk, CyclesAfterSkipMeeting, CyclesAfterNextCycle,
       CyclesAfterOther
    DEF RankingNext
  <1>5. CardsInv'
    BY CardsBefore, CardsAfterAddToCard, CardsAfterCutCards
  <1> QED
    BY <1>1, <1>2, <1>3, <1>4, <1>5 DEF RankingInv

\* The steps of something else keep it too.
LEMMA RankingInvStutter ==
  ASSUME RankingInv, UNCHANGED rankingVars
  PROVE  RankingInv'
PROOF
  <1>1. UNCHANGED <<phase, vector, bm25, fused, order, byMeeting, pos, progressed, result, cards>>
    BY DEF rankingVars
  <1>2. Seen' = Seen
    BY <1>1 DEF Seen
  <1>3. RankingTypeOK' /\ FusionIsFaithful'
    BY <1>1 DEF RankingInv, RankingTypeOK, FusionIsFaithful
  <1>4. GroupsInv'
    BY <1>1, <1>2 DEF RankingInv, GroupsInv, StartsEmpty, PlacesKept, ListsInOrder, TakenInOrder, Of
  <1>5. CyclesInv'
    <2>1. \A r \in Nat : InCycle(r) => InCycle(r)'
      BY <1>1 DEF InCycle, Taken, Of
    <2>2. Even => Even'
      BY <1>1 DEF Even, Taken, Of
    <2> QED
      BY <1>1, <2>1, <2>2 DEF RankingInv, CyclesInv
  <1>6. CardsInv'
    <2>1. ListsFirst(pos - 1) => ListsFirst(pos - 1)'
      BY <1>1 DEF ListsFirst, Of
    <2>2. CardsAreFirst => CardsAreFirst'
      BY <1>1 DEF CardsAreFirst, Of
    <2> QED
      BY <1>1, <2>1, <2>2 DEF RankingInv, CardsInv
  <1> QED
    BY <1>3, <1>4, <1>5, <1>6 DEF RankingInv

-----------------------------------------------------------------------------
(* InOrder, of sequences that grow at their end.                            *)

\* An empty sequence at the end makes no difference.
LEMMA InOrderEmpty ==
  ASSUME NEW seqs \in Seq(Seq(Nat)), NEW S
  PROVE  InOrder(Append(seqs, <<>>), S) <=> InOrder(seqs, S)
PROOF
  <1> DEFINE more == Append(seqs, <<>>)
  <1>1. /\ DOMAIN more = 1..(Len(seqs) + 1) /\ DOMAIN seqs = 1..Len(seqs)
        /\ Len(seqs) \in Nat
        /\ \A i \in DOMAIN seqs : more[i] = seqs[i]
        /\ DOMAIN more[Len(seqs) + 1] = {}
    <2>1. <<>> \in Seq(Nat)
      OBVIOUS
    <2> QED
      BY <2>1, AppendProperties, LenProperties
  <1>2. \A i \in DOMAIN more : \A k \in DOMAIN more[i] :
           i \in DOMAIN seqs /\ more[i] = seqs[i]
    <2> HIDE DEF more
    <2>1. \A i \in DOMAIN more : i \in DOMAIN seqs \/ i = Len(seqs) + 1
      BY <1>1
    <2> QED
      BY <1>1, <2>1
  <1>3. \A i \in DOMAIN seqs : i \in DOMAIN more /\ more[i] = seqs[i]
    BY <1>1
  <1> HIDE DEF more
  <1>4. InOrder(more, S) => InOrder(seqs, S)
    BY <1>2, <1>3 DEF InOrder
  <1>5. InOrder(seqs, S) => InOrder(more, S)
    BY <1>2, <1>3 DEF InOrder
  <1> QED
    BY <1>4, <1>5 DEF more

\* A greater number may be put at the end of the last sequence.
LEMMA InOrderGrow ==
  ASSUME NEW seqs \in Seq(Seq(Nat)), seqs # <<>>, NEW S \in SUBSET Nat, InOrder(seqs, S),
         NEW n \in Nat, \A s \in S : s < n
  PROVE  InOrder([seqs EXCEPT ![Len(seqs)] = Append(@, n)], S \union {n})
PROOF
  <1> DEFINE last == Len(seqs)
             more == [seqs EXCEPT ![last] = Append(@, n)]
             k0 == Len(seqs[last])
  <1>1. /\ last \in DOMAIN seqs /\ DOMAIN seqs = 1..last /\ last \in Nat
        /\ seqs[last] \in Seq(Nat)
    BY EmptySeq, LenProperties
  <1>2. /\ DOMAIN more = DOMAIN seqs
        /\ \A i \in DOMAIN seqs : i # last => more[i] = seqs[i]
        /\ more[last] = Append(seqs[last], n)
    BY <1>1
  <1>3. /\ k0 \in Nat
        /\ DOMAIN seqs[last] = 1..k0
        /\ DOMAIN more[last] = 1..(k0 + 1)
        /\ \A k \in 1..k0 : more[last][k] = seqs[last][k]
        /\ more[last][k0 + 1] = n
    BY <1>1, <1>2, AppendProperties, LenProperties
  <1> HIDE DEF more, last, k0
  <1>4. \A i \in DOMAIN more : \A k \in DOMAIN more[i] :
           \/ k \in DOMAIN seqs[i] /\ more[i][k] = seqs[i][k] /\ seqs[i][k] \in S
           \/ i = last /\ k = k0 + 1 /\ more[i][k] = n
    <2> SUFFICES ASSUME NEW i \in DOMAIN more, NEW k \in DOMAIN more[i]
                 PROVE  \/ k \in DOMAIN seqs[i] /\ more[i][k] = seqs[i][k] /\ seqs[i][k] \in S
                        \/ i = last /\ k = k0 + 1 /\ more[i][k] = n
      OBVIOUS
    <2>1. CASE i # last
      BY <1>2, <2>1 DEF InOrder
    <2>2. CASE i = last /\ k # k0 + 1
      <3>1. k \in 1..(k0 + 1)
        BY <1>3, <2>2
      <3>2. k \in 1..k0
        BY <1>3, <2>2, <3>1
      <3>3. k \in DOMAIN seqs[i] /\ more[i][k] = seqs[i][k]
        BY <1>3, <2>2, <3>2
      <3> QED
        BY <1>1, <2>2, <3>3 DEF InOrder
    <2>3. CASE i = last /\ k = k0 + 1
      BY <1>3, <2>3
    <2> QED
      BY <2>1, <2>2, <2>3
  <1>5. \A i \in DOMAIN seqs : \A k \in DOMAIN seqs[i] :
           k \in DOMAIN more[i] /\ more[i][k] = seqs[i][k]
    <2> SUFFICES ASSUME NEW i \in DOMAIN seqs, NEW k \in DOMAIN seqs[i]
                 PROVE  k \in DOMAIN more[i] /\ more[i][k] = seqs[i][k]
      OBVIOUS
    <2>1. CASE i # last
      BY <1>2, <2>1
    <2>2. CASE i = last
      BY <1>3, <2>2
    <2> QED
      BY <2>1, <2>2
  <1>6. ASSUME NEW i \in DOMAIN more, NEW j \in DOMAIN more,
               NEW k \in DOMAIN more[i], NEW l \in DOMAIN more[j],
               i < j \/ (i = j /\ k < l)
        PROVE  more[i][k] < more[j][l]
    <2>1. ~(i = last /\ k = k0 + 1)
      BY <1>1, <1>2, <1>3, <1>6
    <2>2. k \in DOMAIN seqs[i] /\ more[i][k] = seqs[i][k] /\ seqs[i][k] \in S
      BY <2>1, <1>4
    <2>3. CASE l \in DOMAIN seqs[j] /\ more[j][l] = seqs[j][l]
      BY <1>2, <1>6, <2>2, <2>3 DEF InOrder
    <2>4. CASE more[j][l] = n
      BY <2>2, <2>4
    <2> QED
      BY <1>4, <2>3, <2>4
  <1>7. \A i \in DOMAIN more : \A k \in DOMAIN more[i] : more[i][k] \in S \union {n}
    BY <1>4
  <1>8. \A m \in S \union {n} : \E i \in DOMAIN more : \E k \in DOMAIN more[i] : more[i][k] = m
    <2>1. \A m \in S : \E i \in DOMAIN more : \E k \in DOMAIN more[i] : more[i][k] = m
      BY <1>2, <1>5 DEF InOrder
    <2>2. last \in DOMAIN more /\ k0 + 1 \in DOMAIN more[last] /\ more[last][k0 + 1] = n
      BY <1>1, <1>2, <1>3
    <2> QED
      BY <2>1, <2>2
  <1>9. InOrder(more, S \union {n})
    BY <1>6, <1>7, <1>8 DEF InOrder
  <1> QED
    BY <1>9 DEF more, last

\* A greater number may be put at the end of a sequence that follows the others.
LEMMA InOrderGrowLast ==
  ASSUME NEW seqs \in Seq(Seq(Nat)), NEW s \in Seq(Nat), NEW S \in SUBSET Nat,
         InOrder(Append(seqs, s), S), NEW n \in Nat, \A m \in S : m < n
  PROVE  InOrder(Append(seqs, Append(s, n)), S \union {n})
PROOF
  <1> DEFINE all == Append(seqs, s)
             more == Append(seqs, Append(s, n))
             grown == [all EXCEPT ![Len(all)] = Append(@, n)]
  <1>1. /\ all \in Seq(Seq(Nat)) /\ all # <<>> /\ Len(all) = Len(seqs) + 1
        /\ \A i \in 1..Len(seqs) : all[i] = seqs[i]
        /\ all[Len(seqs) + 1] = s /\ Len(seqs) \in Nat
    BY AppendProperties, LenProperties
  <1>2. Append(s, n) \in Seq(Nat)
    BY AppendProperties
  <1>3. /\ more \in Seq(Seq(Nat)) /\ Len(more) = Len(seqs) + 1
        /\ \A i \in 1..Len(seqs) : more[i] = seqs[i]
        /\ more[Len(seqs) + 1] = Append(s, n)
    BY <1>2, AppendProperties
  <1>4. grown = more
    <2> HIDE DEF all, more
    <2>1. grown \in Seq(Seq(Nat)) /\ Len(grown) = Len(all)
          /\ \A i \in 1..Len(all) : grown[i] = IF i = Len(all) THEN Append(s, n) ELSE all[i]
      <3>1. Len(all) \in 1..Len(all)
        BY <1>1
      <3> QED
        BY <1>1, <1>2, <3>1, ExceptSeq
    <2>2. \A i \in 1..Len(grown) : grown[i] = more[i]
      <3> SUFFICES ASSUME NEW i \in 1..(Len(seqs) + 1) PROVE grown[i] = more[i]
        BY <1>1, <2>1
      <3>1. CASE i = Len(seqs) + 1
        BY <1>1, <1>3, <2>1, <3>1
      <3>2. CASE i \in 1..Len(seqs)
        BY <1>1, <1>3, <2>1, <3>2
      <3> QED
        BY <1>1, <3>1, <3>2
    <2> HIDE DEF grown
    <2> QED
      BY <1>1, <1>3, <2>1, <2>2, SeqEqual
  <1>5. InOrder(grown, S \union {n})
    <2> HIDE DEF all
    <2> QED
      BY <1>1, InOrderGrow DEF all
  <1> QED
    BY <1>4, <1>5

\* A greater number may follow on its own.
LEMMA InOrderAppend ==
  ASSUME NEW seqs \in Seq(Seq(Nat)), NEW S \in SUBSET Nat, InOrder(seqs, S),
         NEW n \in Nat, \A m \in S : m < n
  PROVE  InOrder(Append(seqs, <<n>>), S \union {n})
PROOF
  <1>1. InOrder(Append(seqs, <<>>), S) /\ <<>> \in Seq(Nat) /\ Append(<<>>, n) = <<n>>
    BY InOrderEmpty
  <1>2. InOrder(Append(seqs, Append(<<>>, n)), S \union {n})
    BY <1>1, InOrderGrowLast
  <1> QED
    BY <1>1, <1>2

-----------------------------------------------------------------------------
(* The inductive invariant. *)

Block ==
    [kind : {"cue", "note"}, tags : Seq(Speaker \union {Untagged}), words : Nat,
     start : Int, end : Int]

Segment ==
    [speaker : Speaker \union {Untagged, Unknown}, text : Seq(Nat), words : Nat,
     start : Int, end : Int]

ChunkerTypeOK ==
    /\ loop \in {"parse_vtt", "merge_speaker_turns", "chunk_segments", "done"}
    /\ blocks \in Seq(Block)
    /\ cues \in Seq(Segment)
    /\ turns \in Seq(Segment)
    /\ at \in Nat \ {0}
    /\ buf \in Seq(Nat)
    /\ bufWords \in Nat
    /\ chunks \in Seq(Seq(Nat))

\* The cues are those of the spoken blocks, in order.
CueTexts == [i \in DOMAIN cues |-> cues[i].text]
CuesInv ==
    /\ InOrder(CueTexts, SpokenBlocks)
    /\ \A i \in DOMAIN cues : \E b \in SpokenBlocks : cues[i] = CueOf(blocks[b], b)

\* The cues that are in turns, and their blocks.
CuesMerged ==
    IF loop = "parse_vtt" THEN 0
    ELSE IF loop = "merge_speaker_turns" THEN at - 1 ELSE Len(cues)
BlocksOfCues(n) == {b \in SpokenBlocks : \E i \in 1..n : cues[i].text = <<b>>}

\* The words of a turn are those of its blocks.
IsCounted(bs, turn) ==
    /\ IsFiniteSet(WordsOf(bs, BlocksOf(turn)))
    /\ Cardinality(WordsOf(bs, BlocksOf(turn))) = turn.words

TurnsInv ==
    /\ loop = "parse_vtt" => turns = <<>> /\ at = 1
    /\ CuesMerged <= Len(cues)
    /\ InOrder(Texts, BlocksOfCues(CuesMerged))
    /\ \A t \in DOMAIN turns : IsAsSaid(blocks, turns[t]) /\ IsCounted(blocks, turns[t])
    /\ \A t \in 1..(Len(turns) - 1) :
         turns[t].speaker = turns[t + 1].speaker => turns[t + 1].start - turns[t].end > MERGE_GAP

\* The turn after chunk c: of the next chunk, of the buffer, or yet to come.
NextTurn(c) ==
    IF c < Len(chunks) THEN chunks[c + 1][1] ELSE IF buf # <<>> THEN buf[1] ELSE at

ChunksInv ==
    /\ loop \in {"parse_vtt", "merge_speaker_turns"} => chunks = <<>> /\ buf = <<>> /\ bufWords = 0
    /\ loop \in {"chunk_segments", "done"} =>
         /\ at <= Len(turns) + 1
         /\ InOrder(Append(chunks, buf), 1..(at - 1))
    /\ loop = "done" => at = Len(turns) + 1 /\ buf = <<>>
    /\ \A c \in DOMAIN chunks :
         /\ IsInBounds(blocks, turns, chunks[c])
         /\ NextTurn(c) <= Len(turns) => IsDue(blocks, turns, chunks[c], NextTurn(c))

\* The buffer's words are counted, and it is at no cap.
BufferInv ==
    /\ IsFiniteSet(WordsOf(blocks, BlocksIn(turns, buf)))
    /\ bufWords = SaidIn(blocks, turns, buf)
    /\ buf # <<>> =>
         IsInBounds(blocks, turns, buf) /\ ~HitsCap(turns, buf, bufWords)

ChunkerInv == ChunkerTypeOK /\ CuesInv /\ TurnsInv /\ ChunksInv /\ BufferInv

-----------------------------------------------------------------------------
(* The words of blocks.                                                     *)

\* The words of one block.
LEMMA WordsOfOne ==
  ASSUME NEW bs, NEW b, bs[b].words \in Nat
  PROVE  /\ IsFiniteSet(WordsOf(bs, {b}))
         /\ Cardinality(WordsOf(bs, {b})) = bs[b].words
PROOF
  <1> DEFINE n == bs[b].words
             f == [k \in 1..n |-> <<b, k>>]
  <1>1. WordsOf(bs, {b}) = {b} \X (1..n)
    BY DEF WordsOf
  <1>2. f \in Bijection(1..n, {b} \X (1..n))
    BY DEF Bijection, Injection, Surjection, IsInjective
  <1>3. IsFiniteSet(1..n) /\ Cardinality(1..n) = n
    <2>1. n \in Nat
      OBVIOUS
    <2> HIDE DEF n
    <2> QED
      BY <2>1, FS_Interval
  <1>4. ExistsBijection(1..n, {b} \X (1..n))
    BY <1>2 DEF ExistsBijection
  <1>5. IsFiniteSet({b} \X (1..n)) /\ Cardinality({b} \X (1..n)) = n
    <2> HIDE DEF n
    <2> QED
      BY <1>3, <1>4, FS_Bijection
  <1> QED
    BY <1>1, <1>5

\* The words of two sets of blocks that are apart.
LEMMA WordsOfBoth ==
  ASSUME NEW bs, NEW A, NEW B, A \cap B = {},
         IsFiniteSet(WordsOf(bs, A)), IsFiniteSet(WordsOf(bs, B))
  PROVE  /\ IsFiniteSet(WordsOf(bs, A \union B))
         /\ Cardinality(WordsOf(bs, A \union B))
              = Cardinality(WordsOf(bs, A)) + Cardinality(WordsOf(bs, B))
PROOF
  <1>1. WordsOf(bs, A \union B) = WordsOf(bs, A) \union WordsOf(bs, B)
    BY DEF WordsOf
  <1>2. WordsOf(bs, A) \cap WordsOf(bs, B) = {}
    BY DEF WordsOf
  <1>3. Cardinality(WordsOf(bs, A)) \in Nat /\ Cardinality(WordsOf(bs, B)) \in Nat
    BY FS_CardinalityType
  <1>4. Cardinality(WordsOf(bs, A) \cap WordsOf(bs, B)) = 0
    BY <1>2, FS_EmptySet
  <1>5. /\ IsFiniteSet(WordsOf(bs, A) \union WordsOf(bs, B))
        /\ Cardinality(WordsOf(bs, A) \union WordsOf(bs, B))
             = Cardinality(WordsOf(bs, A)) + Cardinality(WordsOf(bs, B))
                 - Cardinality(WordsOf(bs, A) \cap WordsOf(bs, B))
    BY FS_Union
  <1>6. Cardinality(WordsOf(bs, A) \union WordsOf(bs, B))
          = Cardinality(WordsOf(bs, A)) + Cardinality(WordsOf(bs, B))
    BY <1>3, <1>4, <1>5
  <1> QED
    BY <1>1, <1>5, <1>6

\* No blocks, no words.
LEMMA WordsOfNone ==
  ASSUME NEW bs
  PROVE  IsFiniteSet(WordsOf(bs, {})) /\ Cardinality(WordsOf(bs, {})) = 0
PROOF
  <1>1. WordsOf(bs, {}) = {}
    BY DEF WordsOf
  <1> QED
    BY <1>1, FS_EmptySet

\* What becomes of a turn that a cue goes on with.
LEMMA JoinedTurn ==
  ASSUME NEW bs, NEW turn \in Segment, IsAsSaid(bs, turn), IsCounted(bs, turn),
         NEW b \in Nat, bs[b] \in Block, NEW cue \in Segment, cue = CueOf(bs[b], b),
         cue.speaker = turn.speaker, \A c \in BlocksOf(turn) : c < b
  PROVE  /\ Joined(turn, cue) \in Segment
         /\ Joined(turn, cue).text = Append(turn.text, b)
         /\ Joined(turn, cue).speaker = turn.speaker
         /\ Joined(turn, cue).start = turn.start
         /\ IsAsSaid(bs, Joined(turn, cue))
         /\ IsCounted(bs, Joined(turn, cue))
PROOF
  <1> DEFINE joined == Joined(turn, cue)
             n == Len(turn.text)
  <1>1. /\ turn.text \in Seq(Nat) /\ n \in Nat /\ DOMAIN turn.text = 1..n
        /\ turn.text # <<>>
    BY LenProperties DEF Segment, IsAsSaid
  <1>2. /\ cue.text = <<b>> /\ cue.words = bs[b].words /\ cue.end = bs[b].end
        /\ cue.speaker = SpeakerOf(bs[b])
    BY DEF CueOf
  <1>3. turn.text \o <<b>> = Append(turn.text, b)
    BY <1>1, AppendIsConcat
  <1>4. Append(turn.text, b) \in Seq(Nat)
    BY <1>1, AppendProperties
  <1>5. /\ joined.text = Append(turn.text, b) /\ joined.words = turn.words + bs[b].words
        /\ joined.speaker = turn.speaker /\ joined.start = turn.start
        /\ joined.end = bs[b].end
    BY <1>2, <1>3 DEF Joined, Segment
  <1>6. joined \in Segment
    <2>1. joined = [speaker |-> turn.speaker, text |-> Append(turn.text, b),
                    words |-> turn.words + bs[b].words, start |-> turn.start,
                    end |-> bs[b].end]
      <3>1. turn = [speaker |-> turn.speaker, text |-> turn.text, words |-> turn.words,
                    start |-> turn.start, end |-> turn.end]
        BY DEF Segment
      <3>2. joined = [turn EXCEPT !.text = Append(turn.text, b),
                                  !.words = turn.words + bs[b].words, !.end = bs[b].end]
        BY <1>2, <1>3 DEF Joined
      <3> QED
        BY <3>1, <3>2
    <2>2. turn.words + bs[b].words \in Nat /\ bs[b].end \in Int
      BY DEF Segment, Block
    <2> QED
      BY <1>4, <2>1, <2>2 DEF Segment
  <1>7. /\ Len(joined.text) = n + 1 /\ DOMAIN joined.text = 1..(n + 1)
        /\ \A k \in 1..n : joined.text[k] = turn.text[k]
        /\ joined.text[n + 1] = b
    BY <1>1, <1>4, <1>5, AppendProperties, LenProperties
  <1> HIDE DEF joined, n
  <1>8. IsAsSaid(bs, joined)
    <2>1. n >= 1
      BY <1>1, EmptySeq DEF n
    <2>2. joined.text # <<>>
      BY <1>1, <1>7, EmptySeq
    <2>3. \A k \in DOMAIN joined.text : joined.speaker = SpeakerOf(bs[joined.text[k]])
      <3> SUFFICES ASSUME NEW k \in 1..(n + 1)
                   PROVE  joined.speaker = SpeakerOf(bs[joined.text[k]])
        BY <1>7
      <3>1. CASE k = n + 1
        BY <1>2, <1>5, <1>7, <3>1
      <3>2. CASE k \in 1..n
        BY <1>1, <1>5, <1>7, <3>2 DEF IsAsSaid
      <3> QED
        BY <1>1, <3>1, <3>2
    <2> QED
      BY <1>1, <1>5, <1>7, <2>1, <2>2, <2>3 DEF IsAsSaid
  <1>9. IsCounted(bs, joined)
    <2>1. BlocksOf(joined) = BlocksOf(turn) \union {b}
      <3>1. \A k \in 1..(n + 1) : k \in 1..n \/ k = n + 1
        BY <1>1
      <3>2. n + 1 \in 1..(n + 1) /\ \A k \in 1..n : k \in 1..(n + 1)
        BY <1>1
      <3> QED
        BY <1>1, <1>7, <3>1, <3>2 DEF BlocksOf
    <2>2. BlocksOf(turn) \cap {b} = {}
      <3>1. b \notin BlocksOf(turn)
        <4>1. ~(b < b)
          OBVIOUS
        <4> QED
          BY <4>1
      <3> QED
        BY <3>1
    <2>3. bs[b].words \in Nat
      BY DEF Block
    <2>4. IsFiniteSet(WordsOf(bs, {b})) /\ Cardinality(WordsOf(bs, {b})) = bs[b].words
      BY <2>3, WordsOfOne
    <2>5. /\ IsFiniteSet(WordsOf(bs, BlocksOf(joined)))
          /\ Cardinality(WordsOf(bs, BlocksOf(joined)))
               = Cardinality(WordsOf(bs, BlocksOf(turn))) + Cardinality(WordsOf(bs, {b}))
      BY <2>1, <2>2, <2>4, WordsOfBoth DEF IsCounted
    <2> QED
      BY <1>5, <2>4, <2>5 DEF IsCounted
  <1> QED
    BY <1>5, <1>6, <1>8, <1>9 DEF joined

-----------------------------------------------------------------------------
(* The cues, and the blocks of the first few.                               *)

\* A cue is a segment.
LEMMA SegmentOfCue ==
  ASSUME ChunkerConstants, NEW block \in Block, Spoken(block), NEW number \in Nat
  PROVE  CueOf(block, number) \in Segment
PROOF
  <1>1. <<number>> \in Seq(Nat)
    OBVIOUS
  <1>2. SpeakerOf(block) \in Speaker \union {Untagged, Unknown}
    <2>1. block.tags \in Seq(Speaker \union {Untagged}) /\ block.tags # <<>>
      BY DEF Block, Spoken
    <2>2. block.tags[1] \in Speaker \union {Untagged}
      BY <2>1, EmptySeq, ElementOfSeq
    <2> QED
      BY <2>2 DEF SpeakerOf
  <1> QED
    BY <1>1, <1>2 DEF CueOf, Segment, Block

\* Spoken blocks are blocks of the file.
LEMMA SpokenBlocksType ==
  ASSUME ChunkerTypeOK
  PROVE  /\ SpokenBlocks \in SUBSET Nat
         /\ \A b \in SpokenBlocks : b \in 1..Len(blocks) /\ blocks[b] \in Block
PROOF
  <1>1. blocks \in Seq(Block) /\ DOMAIN blocks = 1..Len(blocks) /\ Len(blocks) \in Nat
    BY LenProperties DEF ChunkerTypeOK
  <1> QED
    BY <1>1, ElementOfSeq DEF SpokenBlocks

\* The texts of the cues are lists of blocks.
LEMMA CueTextsType ==
  ASSUME ChunkerTypeOK
  PROVE  /\ CueTexts \in Seq(Seq(Nat)) /\ DOMAIN CueTexts = DOMAIN cues
         /\ DOMAIN cues = 1..Len(cues) /\ Len(cues) \in Nat /\ Len(CueTexts) = Len(cues)
         /\ \A i \in DOMAIN cues : CueTexts[i] = cues[i].text /\ cues[i] \in Segment
PROOF
  <1>1. cues \in Seq(Segment) /\ DOMAIN cues = 1..Len(cues) /\ Len(cues) \in Nat
    BY LenProperties DEF ChunkerTypeOK
  <1>2. \A i \in DOMAIN cues : cues[i] \in Segment /\ cues[i].text \in Seq(Nat)
    <2>1. \A i \in DOMAIN cues : cues[i] \in Segment
      BY <1>1, ElementOfSeq
    <2> QED
      BY <2>1 DEF Segment
  <1>3. CueTexts \in [1..Len(cues) -> Seq(Nat)]
    BY <1>1, <1>2 DEF CueTexts
  <1> QED
    BY <1>1, <1>2, <1>3, SeqDef DEF CueTexts

\* The block of cue i comes after those of the cues before it.
LEMMA BlockOfCue ==
  ASSUME ChunkerTypeOK, CuesInv, NEW i \in DOMAIN cues
  PROVE  \E b \in SpokenBlocks :
            /\ cues[i] = CueOf(blocks[b], b)
            /\ BlocksOfCues(i) = BlocksOfCues(i - 1) \union {b}
            /\ \A c \in BlocksOfCues(i - 1) : c < b
PROOF
  <1>1. PICK b \in SpokenBlocks : cues[i] = CueOf(blocks[b], b)
    BY DEF CuesInv
  <1>2. cues[i].text = <<b>>
    BY <1>1 DEF CueOf
  <1>3. i \in 1..Len(cues) /\ Len(cues) \in Nat
    BY CueTextsType
  <1>4. BlocksOfCues(i) = BlocksOfCues(i - 1) \union {b}
    <2>1. \A c \in SpokenBlocks : cues[i].text = <<c>> <=> c = b
      BY <1>2
    <2>2. \A j : j \in 1..i <=> j \in 1..(i - 1) \/ j = i
      BY <1>3
    <2> QED
      BY <1>1, <2>1, <2>2 DEF BlocksOfCues
  <1>5. ASSUME NEW c \in BlocksOfCues(i - 1)
        PROVE  c < b
    <2>1. PICK j \in 1..(i - 1) : cues[j].text = <<c>>
      BY <1>5 DEF BlocksOfCues
    <2>2. /\ j \in DOMAIN CueTexts /\ i \in DOMAIN CueTexts /\ j < i
          /\ CueTexts[j] = <<c>> /\ CueTexts[i] = <<b>>
      <3>1. /\ DOMAIN CueTexts = 1..Len(cues)
            /\ \A l \in 1..Len(cues) : CueTexts[l] = cues[l].text
        BY CueTextsType
      <3>2. j \in 1..Len(cues) /\ j < i
        BY <1>3, <2>1
      <3> QED
        BY <1>2, <1>3, <2>1, <3>1, <3>2
    <2>3. 1 \in DOMAIN <<c>> /\ 1 \in DOMAIN <<b>> /\ <<c>>[1] = c /\ <<b>>[1] = b
      OBVIOUS
    <2>4. CueTexts[j][1] < CueTexts[i][1]
      BY <2>2, <2>3 DEF CuesInv, InOrder
    <2> QED
      BY <2>2, <2>3, <2>4
  <1> QED
    BY <1>1, <1>4, <1>5

\* The blocks of all cues are the spoken ones.
LEMMA BlocksOfAllCues ==
  ASSUME ChunkerTypeOK, CuesInv
  PROVE  BlocksOfCues(Len(cues)) = SpokenBlocks
PROOF
  <1> SUFFICES ASSUME NEW b \in SpokenBlocks
               PROVE  \E i \in 1..Len(cues) : cues[i].text = <<b>>
    BY DEF BlocksOfCues
  <1>1. PICK i \in DOMAIN CueTexts : \E k \in DOMAIN CueTexts[i] : CueTexts[i][k] = b
    BY DEF CuesInv, InOrder
  <1>2. i \in 1..Len(cues) /\ CueTexts[i] = cues[i].text
    BY <1>1, CueTextsType
  <1>3. PICK c \in SpokenBlocks : cues[i] = CueOf(blocks[c], c)
    BY <1>2, CueTextsType DEF CuesInv
  <1>4. cues[i].text = <<c>>
    BY <1>3 DEF CueOf
  <1>5. \A k \in DOMAIN <<c>> : <<c>>[k] = c
    OBVIOUS
  <1>6. b = c
    BY <1>1, <1>2, <1>4, <1>5
  <1> QED
    BY <1>2, <1>4, <1>6

\* parse_vtt keeps the cues of the spoken blocks, in order.
LEMMA ParseBlockKeepsCues ==
  ASSUME ChunkerConstants, ChunkerTypeOK, CuesInv, ParseBlock
  PROVE  blocks' \in Seq(Block) /\ cues' \in Seq(Segment) /\ CuesInv'
PROOF
  <1> DEFINE n == Len(blocks) + 1
  <1>1. /\ blocks \in Seq(Block) /\ n \in Nat /\ cues \in Seq(Segment)
        /\ DOMAIN blocks = 1..Len(blocks) /\ Len(blocks) \in Nat
    BY LenProperties DEF ChunkerTypeOK
  <1>2. End \in Int
    <2>1. CASE blocks = <<>>
      BY <2>1 DEF End
    <2>2. CASE blocks # <<>>
      <3>1. Len(blocks) \in 1..Len(blocks)
        BY <1>1, <2>2, EmptySeq
      <3>2. blocks[Len(blocks)] \in Block
        BY <1>1, <3>1, ElementOfSeq
      <3> QED
        BY <2>2, <3>2 DEF End, Block
    <2> QED
      BY <2>1, <2>2
  <1>3. PICK block \in NextBlock :
           /\ blocks' = Append(blocks, block)
           /\ cues' = IF Spoken(block) THEN Append(cues, CueOf(block, n)) ELSE cues
    BY DEF ParseBlock
  <1>4. block \in Block
    <2> DEFINE cue(text, gap, length) ==
                 [kind |-> "cue", tags |-> text.tags, words |-> text.words,
                  start |-> End + gap, end |-> End + gap + length]
    <2>1. CASE block = [kind |-> "note", tags |-> <<>>, words |-> 0, start |-> End, end |-> End]
      <3>1. <<>> \in Seq(Speaker \union {Untagged})
        OBVIOUS
      <3> QED
        BY <1>2, <2>1, <3>1 DEF Block
    <2>2. ASSUME NEW text \in Text, NEW gap \in Gaps, NEW length \in Lengths
          PROVE  cue(text, gap, length) \in Block
      <3>1. /\ gap \in Int /\ length \in Int /\ text.words \in Nat
            /\ text.tags \in Seq(Speaker \union {Untagged})
        BY DEF ChunkerConstants
      <3>2. End + gap \in Int /\ End + gap + length \in Int
        BY <1>2, <3>1
      <3> QED
        BY <3>1, <3>2 DEF Block
    <2>3. CASE block \in {cue(text, gap, length) : text \in Text, gap \in {g \in Gaps : End + g >= 0},
                                                  length \in Lengths}
      <3> HIDE DEF cue
      <3>1. PICK text \in Text, gap \in {g \in Gaps : End + g >= 0}, length \in Lengths :
              block = cue(text, gap, length)
        BY <2>3
      <3> QED
        BY <2>2, <3>1
    <2> QED
      BY <1>3, <2>1, <2>3 DEF NextBlock
  <1>5. /\ blocks' \in Seq(Block) /\ DOMAIN blocks' = 1..n
        /\ \A b \in 1..Len(blocks) : blocks'[b] = blocks[b]
        /\ blocks'[n] = block
    BY <1>1, <1>3, <1>4, AppendProperties, LenProperties
  <1>6. \A b \in SpokenBlocks : b < n /\ blocks'[b] = blocks[b] /\ b \in SpokenBlocks'
    BY <1>1, <1>5 DEF SpokenBlocks
  <1>7. \A b \in SpokenBlocks' : b \in SpokenBlocks \/ b = n
    BY <1>1, <1>5 DEF SpokenBlocks
  <1> HIDE DEF n
  <1>8. CASE ~Spoken(block)
    <2>1. SpokenBlocks' = SpokenBlocks
      <3>1. n \notin SpokenBlocks'
        BY <1>5, <1>8 DEF SpokenBlocks
      <3> QED
        BY <1>6, <1>7, <3>1
    <2>2. cues' = cues /\ CueTexts' = CueTexts
      BY <1>3, <1>8 DEF CueTexts
    <2> QED
      BY <1>1, <1>5, <1>6, <2>1, <2>2 DEF CuesInv
  <1>9. CASE Spoken(block)
    <2>1. SpokenBlocks' = SpokenBlocks \union {n}
      <3>1. n \in SpokenBlocks'
        BY <1>1, <1>5, <1>9 DEF SpokenBlocks, n
      <3> QED
        BY <1>6, <1>7, <3>1
    <2>2. CueOf(block, n) \in Segment /\ CueOf(block, n).text = <<n>>
      BY <1>1, <1>4, <1>9, SegmentOfCue DEF CueOf
    <2>3. /\ cues' \in Seq(Segment) /\ Len(cues') = Len(cues) + 1
          /\ DOMAIN cues' = 1..(Len(cues) + 1) /\ DOMAIN cues = 1..Len(cues)
          /\ Len(cues) \in Nat
          /\ \A i \in 1..Len(cues) : cues'[i] = cues[i]
          /\ cues'[Len(cues) + 1] = CueOf(block, n)
      BY <1>1, <1>3, <1>9, <2>2, AppendProperties, LenProperties
    <2>4. CueTexts' = Append(CueTexts, <<n>>)
      <3>1. /\ Append(CueTexts, <<n>>) \in Seq(Seq(Nat))
            /\ Len(Append(CueTexts, <<n>>)) = Len(cues) + 1
            /\ \A i \in 1..Len(cues) : Append(CueTexts, <<n>>)[i] = cues[i].text
            /\ Append(CueTexts, <<n>>)[Len(cues) + 1] = <<n>>
        <4>1. <<n>> \in Seq(Nat)
          BY <1>1
        <4>2. /\ CueTexts \in Seq(Seq(Nat)) /\ Len(CueTexts) = Len(cues)
              /\ \A i \in 1..Len(cues) : CueTexts[i] = cues[i].text
          BY CueTextsType
        <4> QED
          BY <4>1, <4>2, AppendProperties
      <3>2. /\ CueTexts' \in Seq(Seq(Nat)) /\ Len(CueTexts') = Len(cues) + 1
            /\ \A i \in 1..(Len(cues) + 1) : CueTexts'[i] = cues'[i].text
        <4>1. \A i \in 1..(Len(cues) + 1) : cues'[i].text \in Seq(Nat)
          <5>1. \A i \in 1..(Len(cues) + 1) : cues'[i] \in Segment
            BY <2>3, ElementOfSeq
          <5> QED
            BY <5>1 DEF Segment
        <4>2. CueTexts' \in [1..(Len(cues) + 1) -> Seq(Nat)]
          BY <2>3, <4>1 DEF CueTexts
        <4>3. Len(cues) + 1 \in Nat
          BY <2>3
        <4> QED
          BY <2>3, <4>2, <4>3, SeqDef DEF CueTexts
      <3>3. \A i \in 1..(Len(cues) + 1) : CueTexts'[i] = Append(CueTexts, <<n>>)[i]
        <4> SUFFICES ASSUME NEW i \in 1..(Len(cues) + 1)
                     PROVE  CueTexts'[i] = Append(CueTexts, <<n>>)[i]
          OBVIOUS
        <4>1. CASE i = Len(cues) + 1
          BY <2>2, <2>3, <3>1, <3>2, <4>1
        <4>2. CASE i \in 1..Len(cues)
          BY <2>3, <3>1, <3>2, <4>2
        <4>3. i = Len(cues) + 1 \/ i \in 1..Len(cues)
          BY <2>3
        <4> QED
          BY <4>1, <4>2, <4>3
      <3> QED
        BY <3>1, <3>2, <3>3, SeqEqual
    <2>5. InOrder(Append(CueTexts, <<n>>), SpokenBlocks \union {n})
      BY <1>1, <1>6, CueTextsType, SpokenBlocksType, InOrderAppend DEF CuesInv
    <2>6. \A i \in DOMAIN cues' : \E b \in SpokenBlocks' : cues'[i] = CueOf(blocks'[b], b)
      <3> SUFFICES ASSUME NEW i \in 1..(Len(cues) + 1)
                   PROVE  \E b \in SpokenBlocks' : cues'[i] = CueOf(blocks'[b], b)
        BY <2>3
      <3>1. CASE i = Len(cues) + 1
        BY <1>5, <2>1, <2>3, <3>1
      <3>2. CASE i \in 1..Len(cues)
        <4>1. PICK b \in SpokenBlocks : cues[i] = CueOf(blocks[b], b)
          BY <2>3, <3>2 DEF CuesInv
        <4> QED
          BY <1>6, <2>3, <3>2, <4>1
      <3> QED
        BY <2>3, <3>1, <3>2
    <2> QED
      BY <1>5, <2>1, <2>3, <2>4, <2>5, <2>6 DEF CuesInv
  <1> QED
    BY <1>8, <1>9

-----------------------------------------------------------------------------
(* The turns.                                                               *)

\* The texts of the turns are lists of blocks.
LEMMA TextsType ==
  ASSUME ChunkerTypeOK
  PROVE  /\ Texts \in Seq(Seq(Nat)) /\ DOMAIN Texts = 1..Len(turns)
         /\ DOMAIN turns = 1..Len(turns) /\ Len(turns) \in Nat /\ Len(Texts) = Len(turns)
         /\ \A t \in 1..Len(turns) : /\ Texts[t] = turns[t].text
                                     /\ turns[t] \in Segment
                                     /\ turns[t].text \in Seq(Nat)
PROOF
  <1>1. turns \in Seq(Segment) /\ DOMAIN turns = 1..Len(turns) /\ Len(turns) \in Nat
    BY LenProperties DEF ChunkerTypeOK
  <1>2. \A t \in 1..Len(turns) : turns[t] \in Segment /\ turns[t].text \in Seq(Nat)
    <2>1. \A t \in 1..Len(turns) : turns[t] \in Segment
      BY <1>1, ElementOfSeq
    <2> QED
      BY <2>1 DEF Segment
  <1>3. Texts \in [1..Len(turns) -> Seq(Nat)]
    BY <1>1, <1>2 DEF Texts
  <1> QED
    BY <1>1, <1>2, <1>3, SeqDef DEF Texts

\* Nothing is merged before parse_vtt has returned.
LEMMA NoTurns ==
  ASSUME turns = <<>>, CuesMerged = 0, cues \in Seq(Segment)
  PROVE  /\ CuesMerged <= Len(cues)
         /\ InOrder(Texts, BlocksOfCues(CuesMerged))
         /\ \A t \in DOMAIN turns : IsAsSaid(blocks, turns[t]) /\ IsCounted(blocks, turns[t])
         /\ \A t \in 1..(Len(turns) - 1) :
              turns[t].speaker = turns[t + 1].speaker =>
                  turns[t + 1].start - turns[t].end > MERGE_GAP
PROOF
  <1>1. DOMAIN turns = {} /\ Len(turns) = 0
    OBVIOUS
  <1>2. DOMAIN Texts = {}
    BY <1>1 DEF Texts
  <1>3. BlocksOfCues(CuesMerged) = {}
    BY DEF BlocksOfCues
  <1>4. InOrder(Texts, BlocksOfCues(CuesMerged))
    BY <1>2, <1>3 DEF InOrder
  <1>5. Len(cues) >= 0
    BY LenProperties
  <1> QED
    BY <1>1, <1>4, <1>5

\* A cue that starts a turn.
LEMMA NewTurn ==
  ASSUME NEW bs, NEW b \in Nat, bs[b] \in Block, NEW cue \in Segment, cue = CueOf(bs[b], b)
  PROVE  IsAsSaid(bs, cue) /\ IsCounted(bs, cue) /\ cue.text = <<b>>
PROOF
  <1>1. /\ cue.text = <<b>> /\ cue.words = bs[b].words /\ cue.end = bs[b].end
        /\ cue.start = bs[b].start /\ cue.speaker = SpeakerOf(bs[b])
    BY DEF CueOf
  <1>2. DOMAIN cue.text = {1} /\ cue.text[1] = b /\ Len(cue.text) = 1 /\ cue.text # <<>>
    BY <1>1
  <1>3. BlocksOf(cue) = {b}
    BY <1>2 DEF BlocksOf
  <1>4. bs[b].words \in Nat
    BY DEF Block
  <1> QED
    BY <1>1, <1>2, <1>3, <1>4, WordsOfOne DEF IsAsSaid, IsCounted

\* merge_speaker_turns keeps every cue, in order.
LEMMA MergeCueKeepsTurns ==
  ASSUME ChunkerConstants, ChunkerTypeOK, CuesInv, TurnsInv, MergeCue
  PROVE  turns' \in Seq(Segment) /\ TurnsInv'
PROOF
  <1> DEFINE cue == cues[at]
             n == Len(turns)
  <1>1. /\ loop = "merge_speaker_turns" /\ loop' = loop
        /\ at \in 1..Len(cues) /\ at' = at + 1 /\ at \in Nat /\ Len(cues) \in Nat
        /\ cues' = cues /\ blocks' = blocks
        /\ cue \in Segment
    BY CueTextsType DEF MergeCue, ChunkerTypeOK
  <1>2. CuesMerged = at - 1 /\ CuesMerged' = at /\ at <= Len(cues)
    BY <1>1 DEF CuesMerged
  <1>3. PICK b \in SpokenBlocks :
           /\ cue = CueOf(blocks[b], b)
           /\ BlocksOfCues(at) = BlocksOfCues(at - 1) \union {b}
           /\ \A c \in BlocksOfCues(at - 1) : c < b
    <2>1. at \in DOMAIN cues
      BY <1>1, CueTextsType
    <2> QED
      BY <2>1, BlockOfCue
  <1>4. b \in Nat /\ blocks[b] \in Block
    BY SpokenBlocksType
  <1>5. BlocksOfCues(at - 1) \in SUBSET Nat
    BY SpokenBlocksType DEF BlocksOfCues
  <1>6. InOrder(Texts, BlocksOfCues(at - 1))
    BY <1>2 DEF TurnsInv
  <1>7. BlocksOfCues(CuesMerged)' = BlocksOfCues(at - 1) \union {b}
    <2>1. SpokenBlocks' = SpokenBlocks
      BY <1>1 DEF SpokenBlocks
    <2>2. BlocksOfCues(CuesMerged)' = BlocksOfCues(at)
      BY <1>1, <1>2, <2>1 DEF BlocksOfCues
    <2> QED
      BY <1>3, <2>2
  <1>8. /\ Texts \in Seq(Seq(Nat)) /\ DOMAIN Texts = 1..n /\ Len(Texts) = n /\ n \in Nat
        /\ turns \in Seq(Segment) /\ DOMAIN turns = 1..n
        /\ \A t \in 1..n : /\ Texts[t] = turns[t].text /\ turns[t] \in Segment
                           /\ turns[t].text \in Seq(Nat)
    BY TextsType DEF ChunkerTypeOK
  <1>9. \A t \in 1..n : IsAsSaid(blocks, turns[t]) /\ IsCounted(blocks, turns[t])
    BY <1>8 DEF TurnsInv
  <1>10. IsAsSaid(blocks, cue) /\ IsCounted(blocks, cue) /\ cue.text = <<b>>
    BY <1>1, <1>3, <1>4, NewTurn
  <1> HIDE DEF cue, n
  <1>11. CASE ~GoesOn(cue)
    <2>1. /\ turns' \in Seq(Segment) /\ Len(turns') = n + 1 /\ DOMAIN turns' = 1..(n + 1)
          /\ \A t \in 1..n : turns'[t] = turns[t]
          /\ turns'[n + 1] = cue
      BY <1>1, <1>8, <1>11, AppendProperties, LenProperties DEF MergeCue, cue, n
    <2>2. \A t \in 1..(n + 1) : t \in 1..n \/ t = n + 1
      BY <1>8
    <2>3. Texts' = Append(Texts, <<b>>)
      <3>1. /\ Append(Texts, <<b>>) \in Seq(Seq(Nat)) /\ Len(Append(Texts, <<b>>)) = n + 1
            /\ \A t \in 1..n : Append(Texts, <<b>>)[t] = turns[t].text
            /\ Append(Texts, <<b>>)[n + 1] = <<b>>
        <4>1. <<b>> \in Seq(Nat)
          BY <1>4
        <4>2. /\ Append(Texts, <<b>>) \in Seq(Seq(Nat)) /\ Len(Append(Texts, <<b>>)) = Len(Texts) + 1
              /\ \A t \in 1..Len(Texts) : Append(Texts, <<b>>)[t] = Texts[t]
              /\ Append(Texts, <<b>>)[Len(Texts) + 1] = <<b>>
          BY <1>8, <4>1, AppendProperties
        <4> QED
          BY <1>8, <4>2
      <3>2. \A t \in 1..(n + 1) : turns'[t].text \in Seq(Nat)
        BY <1>1, <1>8, <2>1, <2>2 DEF Segment
      <3>3. /\ Texts' \in Seq(Seq(Nat)) /\ Len(Texts') = n + 1
            /\ \A t \in 1..(n + 1) : Texts'[t] = turns'[t].text
        <4>1. Texts' \in [1..(n + 1) -> Seq(Nat)]
          BY <2>1, <3>2 DEF Texts
        <4>2. n + 1 \in Nat
          BY <1>8
        <4> QED
          BY <2>1, <4>1, <4>2, SeqDef DEF Texts
      <3>4. \A t \in 1..(n + 1) : Texts'[t] = Append(Texts, <<b>>)[t]
        BY <1>10, <2>1, <2>2, <3>1, <3>3
      <3> QED
        BY <3>1, <3>3, <3>4, SeqEqual
    <2>4. InOrder(Texts', BlocksOfCues(CuesMerged)')
      BY <1>3, <1>4, <1>5, <1>6, <1>7, <1>8, <2>3, InOrderAppend
    <2>5. \A t \in 1..(n + 1) : IsAsSaid(blocks, turns'[t]) /\ IsCounted(blocks, turns'[t])
      BY <1>9, <1>10, <2>1, <2>2
    <2>6. ASSUME NEW t \in 1..n, turns'[t].speaker = turns'[t + 1].speaker
          PROVE  turns'[t + 1].start - turns'[t].end > MERGE_GAP
      <3>1. CASE t = n
        <4>1. turns # <<>>
          BY <1>8, <3>1
        <4>2. ~(cue.start - turns[n].end <= MERGE_GAP)
          BY <1>11, <2>1, <2>6, <3>1, <4>1 DEF GoesOn, n
        <4>3. cue.start \in Int /\ turns[n].end \in Int /\ MERGE_GAP \in Nat
          BY <1>1, <1>8, <3>1 DEF Segment, ChunkerConstants
        <4> QED
          BY <2>1, <3>1, <4>2, <4>3
      <3>2. CASE t \in 1..(n - 1)
        <4>1. t + 1 \in 1..n
          BY <1>8, <3>2
        <4> QED
          BY <2>1, <2>6, <3>2, <4>1 DEF TurnsInv, n
      <3> QED
        BY <1>8, <3>1, <3>2
    <2>7. (n + 1) - 1 = n
      BY <1>8
    <2> QED
      BY <1>1, <1>2, <2>1, <2>4, <2>5, <2>6, <2>7 DEF TurnsInv
  <1>12. CASE GoesOn(cue)
    <2> DEFINE joined == Joined(turns[n], cue)
    <2>1. n \in 1..n
      BY <1>8, <1>12, EmptySeq DEF GoesOn, n
    <2>2. \A c \in BlocksOf(turns[n]) : c < b
      <3>1. \A k \in DOMAIN turns[n].text : turns[n].text[k] \in BlocksOfCues(at - 1)
        BY <1>6, <1>8, <2>1 DEF InOrder
      <3> QED
        BY <1>3, <3>1 DEF BlocksOf
    <2>3. /\ joined \in Segment /\ joined.text = Append(turns[n].text, b)
          /\ joined.speaker = turns[n].speaker /\ joined.start = turns[n].start
          /\ IsAsSaid(blocks, joined) /\ IsCounted(blocks, joined)
      <3>1. cue.speaker = turns[n].speaker
        BY <1>12 DEF GoesOn, n
      <3>2. turns[n] \in Segment /\ IsAsSaid(blocks, turns[n]) /\ IsCounted(blocks, turns[n])
        BY <1>8, <1>9, <2>1
      <3>3. cue \in Segment /\ cue = CueOf(blocks[b], b)
        BY <1>1, <1>3
      <3> QED
        BY ONLY <1>4, <2>2, <3>1, <3>2, <3>3, JoinedTurn DEF joined
    <2> HIDE DEF joined
    <2>4. /\ turns' \in Seq(Segment) /\ Len(turns') = n /\ DOMAIN turns' = 1..n
          /\ \A t \in 1..n : turns'[t] = IF t = n THEN joined ELSE turns[t]
      <3>1. turns' = [turns EXCEPT ![n] = joined]
        BY <1>12 DEF MergeCue, cue, n, joined
      <3> QED
        BY <1>8, <2>1, <2>3, <3>1, ExceptSeq, LenProperties
    <2>5. Texts' = [Texts EXCEPT ![Len(Texts)] = Append(@, b)]
      <3> DEFINE grown == [Texts EXCEPT ![Len(Texts)] = Append(@, b)]
      <3>1. Append(turns[n].text, b) \in Seq(Nat)
        BY <1>4, <1>8, <2>1, AppendProperties
      <3>2. grown = [Texts EXCEPT ![n] = Append(turns[n].text, b)]
        BY <1>8, <2>1
      <3>3. /\ grown \in Seq(Seq(Nat)) /\ Len(grown) = n
            /\ \A t \in 1..n : grown[t] = IF t = n THEN joined.text ELSE turns[t].text
        BY <1>8, <2>1, <2>3, <3>1, <3>2, ExceptSeq
      <3>4. \A t \in 1..n : turns'[t].text \in Seq(Nat)
        BY <1>8, <2>3, <2>4 DEF Segment
      <3>5. /\ Texts' \in Seq(Seq(Nat)) /\ Len(Texts') = n
            /\ \A t \in 1..n : Texts'[t] = turns'[t].text
        <4>1. Texts' \in [1..n -> Seq(Nat)]
          BY <2>4, <3>4 DEF Texts
        <4> QED
          BY <1>8, <2>4, <4>1, SeqDef DEF Texts
      <3> HIDE DEF grown
      <3>6. \A t \in 1..n : Texts'[t] = grown[t]
        BY <2>4, <3>3, <3>5
      <3>7. Texts' = grown
        BY <3>3, <3>5, <3>6, SeqEqual
      <3> QED
        BY <3>7 DEF grown
    <2>6. InOrder(Texts', BlocksOfCues(CuesMerged)')
      <3>1. Texts # <<>>
        BY <1>8, <2>1
      <3>2. \A c \in BlocksOfCues(at - 1) : c < b
        BY <1>3
      <3>3. Texts \in Seq(Seq(Nat))
        BY <1>8
      <3>4. InOrder([Texts EXCEPT ![Len(Texts)] = Append(@, b)], BlocksOfCues(at - 1) \union {b})
        BY <1>4, <1>5, <1>6, <3>1, <3>2, <3>3, InOrderGrow
      <3> QED
        BY <1>7, <2>5, <3>4
    <2>7. \A t \in 1..n : IsAsSaid(blocks, turns'[t]) /\ IsCounted(blocks, turns'[t])
      BY <1>9, <2>3, <2>4
    <2>8. ASSUME NEW t \in 1..(n - 1), turns'[t].speaker = turns'[t + 1].speaker
          PROVE  turns'[t + 1].start - turns'[t].end > MERGE_GAP
      <3> HIDE DEF n
      <3>1. t \in 1..n /\ t + 1 \in 1..n /\ t # n
        <4>1. n \in Nat
          BY <1>8
        <4> QED
          BY ONLY <2>8, <4>1
      <3> USE DEF n
      <3>2. turns'[t] = turns[t] /\ turns'[t + 1].speaker = turns[t + 1].speaker
            /\ turns'[t + 1].start = turns[t + 1].start
        BY <2>3, <2>4, <3>1
      <3> QED
        BY <2>8, <3>1, <3>2 DEF TurnsInv, n
    <2> QED
      BY <1>1, <1>2, <2>4, <2>6, <2>7, <2>8 DEF TurnsInv
  <1> QED
    BY <1>11, <1>12

-----------------------------------------------------------------------------
(* The chunks.                                                              *)

\* A turn is added to the buffer.
LEMMA GrownBuffer ==
  ASSUME NEW s \in Seq(Nat), NEW n \in Nat
  PROVE  /\ Append(s, n) \in Seq(Nat) /\ Append(s, n) # <<>>
         /\ Len(Append(s, n)) = Len(s) + 1 /\ Len(s) \in Nat
         /\ DOMAIN Append(s, n) = 1..(Len(s) + 1) /\ DOMAIN s = 1..Len(s)
         /\ \A i \in 1..Len(s) : Append(s, n)[i] = s[i]
         /\ Append(s, n)[Len(s) + 1] = n
         /\ Append(s, n)[1] = IF s # <<>> THEN s[1] ELSE n
         /\ AllButLast(Append(s, n)) = s
PROOF
  <1> DEFINE more == Append(s, n)
             k == Len(s)
  <1>1. /\ more \in Seq(Nat) /\ more # <<>> /\ Len(more) = k + 1 /\ k \in Nat
        /\ DOMAIN more = 1..(k + 1) /\ DOMAIN s = 1..k
        /\ \A i \in 1..k : more[i] = s[i]
        /\ more[k + 1] = n
    BY AppendProperties, LenProperties
  <1>2. s # <<>> => k \in Nat \ {0}
    BY EmptySeq
  <1>3. s = <<>> => k = 0
    OBVIOUS
  <1> HIDE DEF more
  <1>4. AllButLast(more) = s
    <2>1. AllButLast(more) = SubSeq(more, 1, k)
      BY <1>1 DEF AllButLast
    <2>2. \A i \in 1..k : more[i] \in Nat
      BY <1>1, ElementOfSeq
    <2>3. /\ SubSeq(more, 1, k) \in Seq(Nat)
          /\ Len(SubSeq(more, 1, k)) = IF 1 <= k THEN k - 1 + 1 ELSE 0
          /\ \A i \in 1..(k - 1 + 1) : SubSeq(more, 1, k)[i] = more[1 + i - 1]
      <3>1. 1 \in Int /\ k \in Int
        BY <1>1
      <3> QED
        BY <2>2, <3>1, SubSeqProperties
    <2>4. Len(SubSeq(more, 1, k)) = k
      BY <1>1, <2>3
    <2>5. \A i \in 1..k : SubSeq(more, 1, k)[i] = s[i]
      BY <1>1, <2>3
    <2> QED
      BY <2>1, <2>3, <2>4, <2>5, SeqEqual
  <1>5. more[1] = IF s # <<>> THEN s[1] ELSE n
    BY <1>1, <1>2, <1>3
  <1> QED
    BY <1>1, <1>4, <1>5 DEF more

\* A chunk that is emitted on time goes with the others.
LEMMA EmitKeepsChunks ==
  ASSUME ChunkerTypeOK, ChunksInv, NEW segs \in Seq(Nat), chunks' = Append(chunks, segs), buf' = <<>>,
         turns' = turns, blocks' = blocks,
         segs[1] = IF buf # <<>> THEN buf[1] ELSE at,
         IsInBounds(blocks, turns, segs),
         at' <= Len(turns) => IsDue(blocks, turns, segs, at')
  PROVE  /\ chunks' \in Seq(Seq(Nat))
         /\ \A c \in DOMAIN chunks' :
              /\ IsInBounds(blocks', turns', chunks'[c])
              /\ NextTurn(c)' <= Len(turns') => IsDue(blocks', turns', chunks'[c], NextTurn(c)')
PROOF
  <1> DEFINE n == Len(chunks)
  <1>1. /\ chunks' \in Seq(Seq(Nat)) /\ Len(chunks') = n + 1 /\ n \in Nat
        /\ DOMAIN chunks' = 1..(n + 1) /\ DOMAIN chunks = 1..n
        /\ \A c \in 1..n : chunks'[c] = chunks[c]
        /\ chunks'[n + 1] = segs
    BY AppendProperties, LenProperties DEF ChunkerTypeOK
  <1> HIDE DEF n
  <1> SUFFICES ASSUME NEW c \in 1..(n + 1)
               PROVE  /\ IsInBounds(blocks, turns, chunks'[c])
                      /\ NextTurn(c)' <= Len(turns) =>
                           IsDue(blocks, turns, chunks'[c], NextTurn(c)')
    BY <1>1
  <1>2. CASE c = n + 1
    <2>1. NextTurn(c)' = at'
      BY <1>1, <1>2 DEF NextTurn
    <2> QED
      BY <1>1, <1>2, <2>1
  <1>3. CASE c \in 1..n
    <2>1. NextTurn(c)' = NextTurn(c)
      <3>1. NextTurn(c)' = chunks'[c + 1][1]
        BY <1>1, <1>3 DEF NextTurn
      <3>2. CASE c = n
        BY <1>1, <3>1, <3>2 DEF NextTurn, n
      <3>3. CASE c < n
        <4>1. c + 1 \in 1..n
          BY <1>1, <1>3, <3>3
        <4> QED
          BY <1>1, <3>1, <3>3, <4>1 DEF NextTurn, n
      <3> QED
        BY <1>1, <1>3, <3>2, <3>3
    <2>2. chunks'[c] = chunks[c] /\ c \in DOMAIN chunks
      BY <1>1, <1>3
    <2> QED
      BY <2>1, <2>2 DEF ChunksInv
  <1> QED
    BY <1>1, <1>2, <1>3

\* What the buffer is once a turn is in it.
LEMMA TakenTurn ==
  ASSUME ChunkerTypeOK, CuesInv, TurnsInv, ChunksInv, BufferInv,
         loop = "chunk_segments", at <= Len(turns)
  PROVE  LET taken == Append(buf, at)
             words == bufWords + turns[at].words
         IN  /\ words \in Nat
             /\ IsFiniteSet(WordsOf(blocks, BlocksIn(turns, taken)))
             /\ words = SaidIn(blocks, turns, taken)
             /\ IsInBounds(blocks, turns, taken)
             /\ InOrder(Append(chunks, taken), 1..at)
PROOF
  <1> DEFINE taken == Append(buf, at)
             words == bufWords + turns[at].words
  <1>1. /\ at \in Nat \ {0} /\ buf \in Seq(Nat) /\ bufWords \in Nat
        /\ chunks \in Seq(Seq(Nat))
        /\ at \in 1..Len(turns) /\ turns[at] \in Segment /\ turns[at].words \in Nat
    <2>1. Len(turns) \in Nat /\ \A t \in 1..Len(turns) : turns[t] \in Segment
      BY TextsType
    <2>2. at \in Nat \ {0} /\ at \in 1..Len(turns)
      BY <2>1 DEF ChunkerTypeOK
    <2>3. turns[at] \in Segment /\ turns[at].words \in Nat
      BY <2>1, <2>2 DEF Segment
    <2> QED
      BY <2>2, <2>3 DEF ChunkerTypeOK
  <1>2. /\ taken # <<>> /\ Len(taken) = Len(buf) + 1 /\ Len(buf) \in Nat
        /\ DOMAIN taken = 1..(Len(buf) + 1) /\ DOMAIN buf = 1..Len(buf)
        /\ \A i \in 1..Len(buf) : taken[i] = buf[i]
        /\ taken[Len(buf) + 1] = at /\ AllButLast(taken) = buf
    BY <1>1, GrownBuffer
  <1> HIDE DEF taken
  <1>3. InOrder(Append(chunks, taken), 1..at)
    <2>1. 1..(at - 1) \in SUBSET Nat /\ (\A m \in 1..(at - 1) : m < at)
          /\ (1..(at - 1)) \union {at} = 1..at
      BY <1>1
    <2>2. InOrder(Append(chunks, buf), 1..(at - 1))
      BY DEF ChunksInv
    <2>3. InOrder(Append(chunks, Append(buf, at)), (1..(at - 1)) \union {at})
      <3>1. at \in Nat /\ buf \in Seq(Nat) /\ chunks \in Seq(Seq(Nat))
        BY <1>1
      <3> HIDE DEF ChunkerTypeOK
      <3> QED
        BY ONLY <2>1, <2>2, <3>1, InOrderGrowLast
    <2> QED
      BY <2>1, <2>3 DEF taken
  <1>4. BlocksIn(turns, taken) = BlocksIn(turns, buf) \union BlocksOf(turns[at])
    <2>1. \A i \in DOMAIN taken : i \in DOMAIN buf \/ i = Len(buf) + 1
      BY <1>2
    <2>2. \A i \in DOMAIN buf : i \in DOMAIN taken /\ taken[i] = buf[i]
      BY <1>2
    <2>3. Len(buf) + 1 \in DOMAIN taken
      BY <1>2
    <2> QED
      BY <1>2, <2>1, <2>2, <2>3 DEF BlocksIn
  <1>5. BlocksIn(turns, buf) \cap BlocksOf(turns[at]) = {}
    <2> SUFFICES ASSUME NEW b \in BlocksIn(turns, buf), b \in BlocksOf(turns[at])
                 PROVE  FALSE
      OBVIOUS
    <2>1. PICK i \in DOMAIN buf : b \in BlocksOf(turns[buf[i]])
      BY DEF BlocksIn
    <2>2. PICK k \in DOMAIN turns[buf[i]].text : turns[buf[i]].text[k] = b
      BY <2>1 DEF BlocksOf
    <2>3. PICK l \in DOMAIN turns[at].text : turns[at].text[l] = b
      BY DEF BlocksOf
    <2>4. buf[i] \in 1..(at - 1)
      <3> DEFINE all == Append(chunks, buf)
      <3>1. InOrder(all, 1..(at - 1))
        BY DEF ChunksInv
      <3>2. Len(chunks) + 1 \in DOMAIN all /\ all[Len(chunks) + 1] = buf
        BY <1>1, AppendProperties, LenProperties
      <3> HIDE DEF all
      <3> QED
        BY <2>1, <3>1, <3>2 DEF InOrder
    <2>5. /\ buf[i] \in DOMAIN Texts /\ at \in DOMAIN Texts /\ buf[i] < at
          /\ Texts[buf[i]] = turns[buf[i]].text /\ Texts[at] = turns[at].text
      <3>1. DOMAIN Texts = 1..Len(turns) /\ Len(turns) \in Nat
            /\ \A t \in 1..Len(turns) : Texts[t] = turns[t].text
        BY TextsType
      <3>2. buf[i] \in 1..Len(turns) /\ buf[i] < at
        BY <1>1, <2>4, <3>1
      <3> QED
        BY <1>1, <3>1, <3>2
    <2>6. turns[buf[i]].text[k] < turns[at].text[l]
      BY <2>2, <2>3, <2>5 DEF TurnsInv, InOrder
    <2>7. b \in Nat
      <3>1. turns[at].text \in Seq(Nat)
        BY <1>1, TextsType
      <3> QED
        BY <2>3, <3>1, ElementOfSeq, LenProperties
    <2> QED
      BY <2>2, <2>3, <2>6, <2>7
  <1>6. IsCounted(blocks, turns[at])
    BY <1>1, TextsType DEF TurnsInv
  <1>7. /\ IsFiniteSet(WordsOf(blocks, BlocksIn(turns, taken)))
        /\ words = SaidIn(blocks, turns, taken)
    <2>1. IsFiniteSet(WordsOf(blocks, BlocksIn(turns, buf)))
          /\ bufWords = Cardinality(WordsOf(blocks, BlocksIn(turns, buf)))
      BY DEF BufferInv, SaidIn
    <2>2. IsFiniteSet(WordsOf(blocks, BlocksOf(turns[at])))
          /\ turns[at].words = Cardinality(WordsOf(blocks, BlocksOf(turns[at])))
      BY <1>6 DEF IsCounted
    <2>3. /\ IsFiniteSet(WordsOf(blocks, BlocksIn(turns, taken)))
          /\ Cardinality(WordsOf(blocks, BlocksIn(turns, taken)))
               = Cardinality(WordsOf(blocks, BlocksIn(turns, buf)))
                   + Cardinality(WordsOf(blocks, BlocksOf(turns[at])))
      BY <1>4, <1>5, <2>1, <2>2, WordsOfBoth
    <2> QED
      BY <2>1, <2>2, <2>3 DEF SaidIn
  <1>8. IsInBounds(blocks, turns, taken)
    <2>1. CASE buf = <<>>
      <3>1. Len(taken) = 1
        BY <1>2, <2>1
      <3>2. ~(Len(taken) > 1)
        BY <3>1
      <3> QED
        BY <1>2, <3>2 DEF IsInBounds
    <2>2. CASE buf # <<>>
      BY <1>2, <2>2 DEF IsInBounds, BufferInv
    <2> QED
      BY <2>1, <2>2
  <1> QED
    BY <1>1, <1>3, <1>7, <1>8 DEF taken

-----------------------------------------------------------------------------
(* The steps.                                                               *)

\* The invariant holds before the file is read.
LEMMA ChunkerInvInit ==
  ASSUME ChunkerInit
  PROVE  ChunkerInv
PROOF
  <1>1. ChunkerTypeOK
    BY DEF ChunkerInit, ChunkerTypeOK
  <1>2. SpokenBlocks = {} /\ DOMAIN CueTexts = {} /\ DOMAIN cues = {}
    BY DEF ChunkerInit, SpokenBlocks, CueTexts
  <1>3. CuesInv
    BY <1>2 DEF CuesInv, InOrder
  <1>4. TurnsInv
    <2>1. turns = <<>> /\ at = 1 /\ CuesMerged = 0 /\ cues \in Seq(Segment)
      BY DEF ChunkerInit, CuesMerged
    <2> QED
      BY <2>1, NoTurns DEF TurnsInv
  <1>5. ChunksInv
    BY DEF ChunkerInit, ChunksInv
  <1>6. BufferInv
    <2>1. BlocksIn(turns, buf) = {}
      BY DEF ChunkerInit, BlocksIn
    <2> QED
      BY <2>1, WordsOfNone DEF ChunkerInit, BufferInv, SaidIn
  <1> QED
    BY <1>1, <1>3, <1>4, <1>5, <1>6 DEF ChunkerInv

\* What reads neither the file nor the cues keeps what is known of them.
LEMMA CuesStay ==
  ASSUME CuesInv, UNCHANGED <<blocks, cues>>
  PROVE  CuesInv' /\ SpokenBlocks' = SpokenBlocks
PROOF
  <1>1. SpokenBlocks' = SpokenBlocks /\ CueTexts' = CueTexts
    BY DEF SpokenBlocks, CueTexts
  <1> QED
    BY <1>1 DEF CuesInv

\* The loop of chunk_segments does not change the turns.
LEMMA TurnsStay ==
  ASSUME CuesInv, TurnsInv, UNCHANGED <<blocks, cues, turns>>, CuesMerged' = CuesMerged,
         loop' # "parse_vtt"
  PROVE  TurnsInv'
PROOF
  <1>1. SpokenBlocks' = SpokenBlocks /\ Texts' = Texts
    BY CuesStay DEF Texts
  <1>2. BlocksOfCues(CuesMerged)' = BlocksOfCues(CuesMerged)
    BY <1>1 DEF BlocksOfCues
  <1> QED
    BY <1>1, <1>2 DEF TurnsInv

\* A block is read.
LEMMA ParseBlockStep ==
  ASSUME ChunkerConstants, ChunkerInv, ParseBlock
  PROVE  ChunkerInv'
PROOF
  <1> USE DEF ChunkerInv
  <1>1. /\ loop = "parse_vtt" /\ loop' = loop
        /\ UNCHANGED <<turns, at, buf, bufWords, chunks>>
    BY DEF ParseBlock
  <1>2. blocks' \in Seq(Block) /\ cues' \in Seq(Segment) /\ CuesInv'
    BY ParseBlockKeepsCues
  <1>3. ChunkerTypeOK'
    BY <1>1, <1>2 DEF ChunkerTypeOK
  <1>4. turns = <<>> /\ turns' = <<>> /\ at' = 1 /\ chunks' = <<>> /\ buf' = <<>> /\ bufWords' = 0
    BY <1>1 DEF TurnsInv, ChunksInv
  <1>5. TurnsInv'
    <2>1. DOMAIN turns' = {} /\ Len(turns') = 0 /\ DOMAIN Texts' = {}
      BY <1>4 DEF Texts
    <2>2. CuesMerged' = 0 /\ BlocksOfCues(CuesMerged)' = {}
      <3>1. CuesMerged' = 0
        BY <1>1 DEF CuesMerged
      <3> QED
        BY <3>1 DEF BlocksOfCues
    <2>3. InOrder(Texts', BlocksOfCues(CuesMerged)')
      BY <2>1, <2>2 DEF InOrder
    <2>4. 0 <= Len(cues')
      BY <1>2, LenProperties
    <2> QED
      BY <1>4, <2>1, <2>2, <2>3, <2>4 DEF TurnsInv
  <1>6. ChunksInv'
    BY <1>1, <1>4 DEF ChunksInv
  <1>7. BufferInv'
    <2>1. BlocksIn(turns', buf') = {}
      BY <1>4 DEF BlocksIn
    <2> QED
      BY <1>4, <2>1, WordsOfNone DEF BufferInv, SaidIn
  <1> QED
    BY <1>2, <1>3, <1>5, <1>6, <1>7

\* parse_vtt returns.
LEMMA EndOfFileStep ==
  ASSUME ChunkerConstants, ChunkerInv, EndOfFile
  PROVE  ChunkerInv'
PROOF
  <1> USE DEF ChunkerInv
  <1>1. /\ loop = "parse_vtt" /\ loop' = "merge_speaker_turns"
        /\ UNCHANGED <<blocks, cues, turns, at, buf, bufWords, chunks>>
    BY DEF EndOfFile
  <1>2. ChunkerTypeOK'
    BY <1>1 DEF ChunkerTypeOK
  <1>3. CuesInv'
    BY <1>1, CuesStay
  <1>4. TurnsInv'
    <2>1. at = 1
      BY <1>1 DEF TurnsInv
    <2>2. CuesMerged' = CuesMerged
      BY <1>1, <2>1 DEF CuesMerged
    <2> QED
      BY <1>1, <2>2, TurnsStay
  <1>5. ChunksInv'
    BY <1>1 DEF ChunksInv
  <1>6. BufferInv'
    BY <1>1 DEF BufferInv
  <1> QED
    BY <1>2, <1>3, <1>4, <1>5, <1>6

\* A cue is merged, or starts a turn.
LEMMA MergeCueStep ==
  ASSUME ChunkerConstants, ChunkerInv, MergeCue
  PROVE  ChunkerInv'
PROOF
  <1> USE DEF ChunkerInv
  <1>1. /\ loop = "merge_speaker_turns" /\ loop' = loop /\ at' = at + 1
        /\ UNCHANGED <<blocks, cues, buf, bufWords, chunks>>
    BY DEF MergeCue
  <1>2. turns' \in Seq(Segment) /\ TurnsInv'
    BY MergeCueKeepsTurns
  <1>3. ChunkerTypeOK'
    BY <1>1, <1>2 DEF ChunkerTypeOK
  <1>4. CuesInv'
    BY <1>1, CuesStay
  <1>5. chunks' = <<>> /\ buf' = <<>> /\ bufWords' = 0
    BY <1>1 DEF ChunksInv
  <1>6. ChunksInv'
    BY <1>1, <1>5 DEF ChunksInv
  <1>7. BufferInv'
    <2>1. BlocksIn(turns', buf') = {}
      BY <1>5 DEF BlocksIn
    <2> QED
      BY <1>5, <2>1, WordsOfNone DEF BufferInv, SaidIn
  <1> QED
    BY <1>2, <1>3, <1>4, <1>6, <1>7

\* merge_speaker_turns returns.
LEMMA EndOfCuesStep ==
  ASSUME ChunkerConstants, ChunkerInv, EndOfCues
  PROVE  ChunkerInv'
PROOF
  <1> USE DEF ChunkerInv
  <1>1. /\ loop = "merge_speaker_turns" /\ loop' = "chunk_segments" /\ at' = 1
        /\ at > Len(cues) /\ UNCHANGED <<blocks, cues, turns, buf, bufWords, chunks>>
    BY DEF EndOfCues
  <1>2. ChunkerTypeOK'
    BY <1>1 DEF ChunkerTypeOK
  <1>3. CuesInv'
    BY <1>1, CuesStay
  <1>4. TurnsInv'
    <2>1. at \in Nat /\ Len(cues) \in Nat /\ at - 1 <= Len(cues)
      BY <1>1, CueTextsType DEF TurnsInv, CuesMerged, ChunkerTypeOK
    <2>2. CuesMerged' = CuesMerged
      BY <1>1, <2>1 DEF CuesMerged
    <2> QED
      BY <1>1, <2>2, TurnsStay
  <1>5. ChunksInv'
    <2>1. chunks = <<>> /\ buf = <<>> /\ chunks' = <<>> /\ buf' = <<>> /\ bufWords' = 0
      BY <1>1 DEF ChunksInv
    <2>2. InOrder(chunks', 1..(at' - 1))
      BY <1>1, <2>1 DEF InOrder
    <2>3. InOrder(Append(chunks', buf'), 1..(at' - 1))
      <3>1. <<>> \in Seq(Seq(Nat))
        OBVIOUS
      <3> QED
        BY <2>1, <2>2, <3>1, InOrderEmpty
    <2>4. at' <= Len(turns') + 1
      BY <1>1, TextsType
    <2> QED
      BY <1>1, <2>1, <2>3, <2>4 DEF ChunksInv
  <1>6. BufferInv'
    BY <1>1 DEF BufferInv
  <1> QED
    BY <1>2, <1>3, <1>4, <1>5, <1>6

\* A turn is taken into the buffer, which may be emitted.
LEMMA TakeTurnStep ==
  ASSUME ChunkerConstants, ChunkerInv, TakeTurn
  PROVE  ChunkerInv'
PROOF
  <1> USE DEF ChunkerInv
  <1> DEFINE taken == Append(buf, at)
             words == bufWords + turns[at].words
             ends == HitsCap(turns, taken, words)
                       \/ (at < Len(turns) /\ AtPause(turns, taken, at + 1))
  <1>1. /\ loop = "chunk_segments" /\ loop' = loop /\ at' = at + 1 /\ at <= Len(turns)
        /\ UNCHANGED <<blocks, cues, turns>>
        /\ IF ends THEN chunks' = Append(chunks, taken) /\ buf' = <<>> /\ bufWords' = 0
           ELSE buf' = taken /\ bufWords' = words /\ chunks' = chunks
    BY DEF TakeTurn, Emit
  <1>2. /\ at \in Nat \ {0} /\ buf \in Seq(Nat) /\ chunks \in Seq(Seq(Nat))
        /\ Len(turns) \in Nat
    BY TextsType DEF ChunkerTypeOK
  <1>3. /\ taken \in Seq(Nat) /\ taken # <<>>
        /\ taken[1] = IF buf # <<>> THEN buf[1] ELSE at
    BY <1>2, GrownBuffer
  <1>4. /\ words \in Nat
        /\ IsFiniteSet(WordsOf(blocks, BlocksIn(turns, taken)))
        /\ words = SaidIn(blocks, turns, taken)
        /\ IsInBounds(blocks, turns, taken)
        /\ InOrder(Append(chunks, taken), 1..at)
    BY <1>1, TakenTurn
  <1>5. CuesInv'
    BY <1>1, CuesStay
  <1>6. TurnsInv'
    <2>1. CuesMerged' = CuesMerged
      BY <1>1 DEF CuesMerged
    <2> QED
      BY <1>1, <2>1, TurnsStay
  <1> HIDE DEF taken, words
  <1>7. 1..(at' - 1) = 1..at /\ at' <= Len(turns') + 1 /\ at' \in Nat \ {0}
    <2>1. at' = at + 1 /\ at <= Len(turns) /\ Len(turns') = Len(turns)
      BY <1>1
    <2>2. at \in Nat \ {0} /\ Len(turns) \in Nat
      BY <1>2
    <2>3. at' - 1 = at
      BY <2>1, <2>2
    <2> QED
      BY <2>1, <2>2, <2>3
  <1>8. CASE ends
    <2>1. chunks' = Append(chunks, taken) /\ buf' = <<>> /\ bufWords' = 0
      BY <1>1, <1>8
    <2>2. at' <= Len(turns) => IsDue(blocks, turns, taken, at')
      <3>1. at + 1 <= Len(turns) => at < Len(turns)
        BY <1>2
      <3> QED
        BY <1>1, <1>4, <1>8, <3>1 DEF IsDue
    <2>3. /\ chunks' \in Seq(Seq(Nat))
          /\ \A c \in DOMAIN chunks' :
               /\ IsInBounds(blocks', turns', chunks'[c])
               /\ NextTurn(c)' <= Len(turns') => IsDue(blocks', turns', chunks'[c], NextTurn(c)')
      BY <1>1, <1>3, <1>4, <2>1, <2>2, EmitKeepsChunks
    <2>4. InOrder(Append(chunks', buf'), 1..(at' - 1))
      BY <1>4, <1>7, <2>1, <2>3, InOrderEmpty
    <2>5. ChunksInv'
      BY <1>1, <1>7, <2>3, <2>4 DEF ChunksInv
    <2>6. BufferInv'
      <3>1. BlocksIn(turns', buf') = {}
        BY <2>1 DEF BlocksIn
      <3> QED
        BY <2>1, <3>1, WordsOfNone DEF BufferInv, SaidIn
    <2>7. ChunkerTypeOK'
      BY <1>1, <1>7, <2>1, <2>3 DEF ChunkerTypeOK
    <2> QED
      BY <1>5, <1>6, <2>5, <2>6, <2>7
  <1>9. CASE ~ends
    <2>1. buf' = taken /\ bufWords' = words /\ chunks' = chunks
      BY <1>1, <1>9
    <2>2. \A c \in DOMAIN chunks : NextTurn(c)' = NextTurn(c)
      BY <1>3, <2>1 DEF NextTurn
    <2>3. ChunksInv'
      <3>1. InOrder(Append(chunks', buf'), 1..(at' - 1))
        BY <1>4, <1>7, <2>1
      <3> QED
        BY <1>1, <1>7, <2>1, <2>2, <3>1 DEF ChunksInv
    <2>4. BufferInv'
      BY <1>1, <1>4, <1>9, <2>1 DEF BufferInv
    <2>5. ChunkerTypeOK'
      BY <1>1, <1>3, <1>4, <1>7, <2>1 DEF ChunkerTypeOK
    <2> QED
      BY <1>5, <1>6, <2>3, <2>4, <2>5
  <1> QED
    BY <1>8, <1>9

\* The rest of the buffer is emitted.
LEMMA EndOfTurnsStep ==
  ASSUME ChunkerConstants, ChunkerInv, EndOfTurns
  PROVE  ChunkerInv'
PROOF
  <1> USE DEF ChunkerInv
  <1>1. /\ loop = "chunk_segments" /\ loop' = "done" /\ at > Len(turns)
        /\ UNCHANGED <<blocks, cues, turns, at>>
        /\ IF buf = <<>> THEN UNCHANGED <<buf, bufWords, chunks>>
           ELSE chunks' = Append(chunks, buf) /\ buf' = <<>> /\ bufWords' = 0
    BY DEF EndOfTurns, Emit
  <1>2. CuesInv'
    BY <1>1, CuesStay
  <1>3. TurnsInv'
    <2>1. CuesMerged' = CuesMerged
      BY <1>1 DEF CuesMerged
    <2> QED
      BY <1>1, <2>1, TurnsStay
  <1>4. /\ at \in Nat /\ Len(turns) \in Nat /\ at = Len(turns) + 1
        /\ buf \in Seq(Nat) /\ chunks \in Seq(Seq(Nat))
    <2>1. at \in Nat /\ Len(turns) \in Nat /\ at <= Len(turns) + 1
      BY <1>1, TextsType DEF ChunkerTypeOK, ChunksInv
    <2>2. at = Len(turns) + 1
      BY <1>1, <2>1
    <2> QED
      BY <2>1, <2>2 DEF ChunkerTypeOK
  <1>5. InOrder(Append(chunks, buf), 1..(at - 1))
    BY <1>1 DEF ChunksInv
  <1>6. CASE buf = <<>>
    <2>1. chunks' = chunks /\ buf' = buf /\ bufWords' = bufWords
      BY <1>1, <1>6
    <2>2. \A c \in DOMAIN chunks : NextTurn(c)' = NextTurn(c)
      BY <1>1, <2>1 DEF NextTurn
    <2>3. ChunksInv'
      BY <1>1, <1>4, <1>5, <1>6, <2>1, <2>2 DEF ChunksInv
    <2>4. BufferInv'
      BY <1>1, <2>1 DEF BufferInv
    <2>5. ChunkerTypeOK'
      <3>1. UNCHANGED <<blocks, cues, turns, at, buf, bufWords, chunks>> /\ loop' = "done"
        BY <1>1, <2>1
      <3>2. ChunkerTypeOK
        OBVIOUS
      <3> QED
        BY ONLY <3>1, <3>2 DEF ChunkerTypeOK
    <2> QED
      BY <1>2, <1>3, <2>3, <2>4, <2>5
  <1>7. CASE buf # <<>>
    <2>1. chunks' = Append(chunks, buf) /\ buf' = <<>> /\ bufWords' = 0
      BY <1>1, <1>7
    <2>2. IsInBounds(blocks, turns, buf) /\ buf[1] = IF buf # <<>> THEN buf[1] ELSE at
      BY <1>7 DEF BufferInv
    <2>3. ~(at' <= Len(turns))
      BY <1>1, <1>4
    <2>4. /\ chunks' \in Seq(Seq(Nat))
          /\ \A c \in DOMAIN chunks' :
               /\ IsInBounds(blocks', turns', chunks'[c])
               /\ NextTurn(c)' <= Len(turns') => IsDue(blocks', turns', chunks'[c], NextTurn(c)')
      BY <1>1, <1>4, <2>1, <2>2, <2>3, EmitKeepsChunks
    <2>5. InOrder(Append(chunks', buf'), 1..(at' - 1))
      BY <1>1, <1>5, <2>1, <2>4, InOrderEmpty
    <2>6. ChunksInv'
      BY <1>1, <1>4, <2>1, <2>4, <2>5 DEF ChunksInv
    <2>7. BufferInv'
      <3>1. BlocksIn(turns', buf') = {}
        BY <2>1 DEF BlocksIn
      <3> QED
        BY <2>1, <3>1, WordsOfNone DEF BufferInv, SaidIn
    <2>8. ChunkerTypeOK'
      BY <1>1, <2>1, <2>4 DEF ChunkerTypeOK
    <2> QED
      BY <1>2, <1>3, <2>6, <2>7, <2>8
  <1> QED
    BY <1>6, <1>7

\* Every step of the loops keeps the invariant.
LEMMA ChunkerInvStep ==
  ASSUME ChunkerConstants, ChunkerInv, ChunkerNext
  PROVE  ChunkerInv'
PROOF
  BY ParseBlockStep, EndOfFileStep, MergeCueStep, EndOfCuesStep, TakeTurnStep, EndOfTurnsStep
     DEF ChunkerNext

\* So does every step of something else.
LEMMA ChunkerInvStutter ==
  ASSUME ChunkerInv, UNCHANGED chunkerVars
  PROVE  ChunkerInv'
PROOF
  <1> USE DEF ChunkerInv, chunkerVars
  <1>1. ChunkerTypeOK'
    BY DEF ChunkerTypeOK
  <1>2. CuesInv'
    BY CuesStay
  <1>3. TurnsInv'
    <2>1. SpokenBlocks' = SpokenBlocks /\ Texts' = Texts /\ CuesMerged' = CuesMerged
      BY CuesStay DEF Texts, CuesMerged
    <2>2. BlocksOfCues(CuesMerged)' = BlocksOfCues(CuesMerged)
      BY <2>1 DEF BlocksOfCues
    <2> QED
      BY <2>1, <2>2 DEF TurnsInv
  <1>4. ChunksInv'
    BY DEF ChunksInv, NextTurn
  <1>5. BufferInv'
    BY DEF BufferInv
  <1> QED
    BY <1>1, <1>2, <1>3, <1>4, <1>5

\* What the loops have established when they are through.
LEMMA ChunkerInvSuffices ==
  ASSUME ChunkerInv
  PROVE  NothingSaidIsLost
PROOF
  <1> USE DEF ChunkerInv
  <1> SUFFICES ASSUME loop = "done"
               PROVE  /\ InOrder(Texts, SpokenBlocks)
                      /\ InOrder(chunks, DOMAIN turns)
                      /\ \A t \in DOMAIN turns : IsAsSaid(blocks, turns[t])
                      /\ \A t \in 1..(Len(turns) - 1) :
                           turns[t].speaker = turns[t + 1].speaker =>
                               turns[t + 1].start - turns[t].end > MERGE_GAP
                      /\ \A c \in DOMAIN chunks :
                           /\ IsInBounds(blocks, turns, chunks[c])
                           /\ c < Len(chunks) =>
                                IsDue(blocks, turns, chunks[c], chunks[c + 1][1])
    BY DEF NothingSaidIsLost
  <1>1. InOrder(Texts, SpokenBlocks)
    <2>1. CuesMerged = Len(cues)
      BY DEF CuesMerged
    <2> QED
      BY <2>1, BlocksOfAllCues DEF TurnsInv
  <1>2. InOrder(chunks, DOMAIN turns)
    <2>1. at = Len(turns) + 1 /\ buf = <<>> /\ InOrder(Append(chunks, buf), 1..(at - 1))
      BY DEF ChunksInv
    <2>2. 1..(at - 1) = DOMAIN turns
      BY <2>1, TextsType
    <2>3. chunks \in Seq(Seq(Nat))
      BY DEF ChunkerTypeOK
    <2> QED
      BY <2>1, <2>2, <2>3, InOrderEmpty
  <1>3. ASSUME NEW c \in DOMAIN chunks, c < Len(chunks)
        PROVE  IsDue(blocks, turns, chunks[c], chunks[c + 1][1])
    <2>1. chunks \in Seq(Seq(Nat)) /\ DOMAIN chunks = 1..Len(chunks) /\ Len(chunks) \in Nat
      BY LenProperties DEF ChunkerTypeOK
    <2>2. c + 1 \in DOMAIN chunks
      BY <1>3, <2>1
    <2>3. chunks[c + 1] \in Seq(Nat) /\ chunks[c + 1] # <<>>
      BY <2>1, <2>2, ElementOfSeq DEF ChunksInv, IsInBounds
    <2>4. 1 \in DOMAIN chunks[c + 1]
      BY <2>3, EmptySeq, LenProperties
    <2>5. chunks[c + 1][1] \in DOMAIN turns
      BY <1>2, <2>2, <2>4 DEF InOrder
    <2>6. chunks[c + 1][1] <= Len(turns)
      BY <2>5, TextsType
    <2>7. NextTurn(c) = chunks[c + 1][1]
      BY <1>3 DEF NextTurn
    <2> QED
      BY <2>6, <2>7 DEF ChunksInv
  <1> QED
    BY <1>1, <1>2, <1>3 DEF TurnsInv, ChunksInv

-----------------------------------------------------------------------------
(* Names.                                                                   *)

\* A set of tiers or ways has a first one.
LEMMA FirstOne ==
  ASSUME NEW T \in SUBSET (1..4), T # {}
  PROVE  /\ (CHOOSE t \in T : \A u \in T : t <= u) \in T
         /\ \A u \in T : (CHOOSE t \in T : \A v \in T : t <= v) <= u
PROOF
  <1>1. \E t \in T : \A u \in T : t <= u
    <2>1. CASE 1 \in T
      BY <2>1
    <2>2. CASE 1 \notin T /\ 2 \in T
      BY <2>2
    <2>3. CASE 1 \notin T /\ 2 \notin T /\ 3 \in T
      BY <2>3
    <2>4. CASE 1 \notin T /\ 2 \notin T /\ 3 \notin T
      <3>1. \A t \in T : t = 4
        BY <2>4
      <3>2. 4 \in T
        BY <3>1
      <3> QED
        BY <3>1, <3>2
    <2> QED
      BY <2>1, <2>2, <2>3, <2>4
  <1> QED
    BY <1>1

\* A finite set of one element has no other.
LEMMA OnlyOne ==
  ASSUME NEW S, IsFiniteSet(S), Cardinality(S) = 1, NEW p \in S
  PROVE  S = {p}
PROOF
  <1>1. PICK x : S = {x}
    BY FS_Singleton
  <1> QED
    BY <1>1

\* The label of a transcript is resolved to the participant who matches it
\* best, whoever the participants are.
LEMMA ResolveOneIsBest ==
  ASSUME NEW label, NEW people, IsFiniteSet(people)
  PROVE  ResolvedIsBest(label, people)
PROOF
  <1> DEFINE tiers == {t \in Tiers : Matching(label, people, t) # {}}
             first == CHOOSE t \in tiers : \A u \in tiers : t <= u
             found == Matching(label, people, first)
  <1> SUFFICES ASSUME NEW p \in ResolveOne(label, people)
               PROVE  /\ BestTier(p, label) < 5
                      /\ \A q \in people \ {p} : BestTier(q, label) > BestTier(p, label)
    BY DEF ResolvedIsBest
  <1>1. tiers # {} /\ p \in found /\ Cardinality(found) = 1
    BY DEF ResolveOne
  <1>2. first \in tiers /\ \A u \in tiers : first <= u
    <2> HIDE DEF tiers
    <2>1. tiers \in SUBSET (1..4)
      BY DEF tiers, Tiers
    <2> QED
      BY <1>1, <2>1, FirstOne
  <1>3. found = {p}
    <2>1. IsFiniteSet(found)
      BY FS_Subset DEF Matching
    <2> HIDE DEF found
    <2> QED
      BY <1>1, <2>1, OnlyOne
  <1>4. \A q \in people, t \in Tiers : Matches(q, label, t) => first <= t
    BY <1>2 DEF Matching
  <1>5. p \in people /\ Matches(p, label, first) /\ first \in Tiers
    BY <1>2, <1>3 DEF Matching
  <1>6. \A q \in people \ {p} : ~Matches(q, label, first)
    BY <1>3 DEF Matching
  <1>7. BestTier(p, label) = first
    <2> DEFINE own == {t \in Tiers : Matches(p, label, t)}
    <2>1. own \in SUBSET (1..4) /\ own # {} /\ first \in own
      BY <1>5 DEF Tiers
    <2>2. BestTier(p, label) \in own /\ BestTier(p, label) <= first
      <3> HIDE DEF own
      <3>1. BestTier(p, label) = CHOOSE t \in own : \A u \in own : t <= u
        BY <2>1 DEF BestTier, own
      <3> QED
        BY <2>1, <3>1, FirstOne
    <2>3. first <= BestTier(p, label)
      BY <1>4, <1>5, <2>2
    <2> QED
      BY <1>5, <2>2, <2>3 DEF Tiers
  <1>8. \A q \in people \ {p} : BestTier(q, label) > first
    <2> SUFFICES ASSUME NEW q \in people \ {p} PROVE BestTier(q, label) > first
      OBVIOUS
    <2> DEFINE own == {t \in Tiers : Matches(q, label, t)}
    <2>1. \A t \in own : t > first
      BY <1>4, <1>5, <1>6 DEF Tiers
    <2>2. CASE own = {}
      <3>1. BestTier(q, label) = 5
        BY <2>2 DEF BestTier
      <3> HIDE DEF first
      <3> QED
        BY <1>5, <3>1 DEF Tiers
    <2>3. CASE own # {}
      <3>1. own \in SUBSET (1..4)
        BY DEF Tiers
      <3> HIDE DEF own
      <3>2. BestTier(q, label) = CHOOSE t \in own : \A u \in own : t <= u
        BY <2>3 DEF BestTier, own
      <3> QED
        BY <2>1, <2>3, <3>1, <3>2, FirstOne
    <2> QED
      BY <2>2, <2>3
  <1> HIDE DEF first
  <1> QED
    BY <1>5, <1>7, <1>8 DEF Tiers

\* The reply to "which one did you mean?" is taken for the candidate it names
\* and for nobody else, whoever the participants are.
LEMMA ChooseIsClear ==
  ASSUME NEW reply, NEW name, NEW people, IsFiniteSet(people)
  PROVE  ChoiceIsClear(reply, name, people)
PROOF
  <1> DEFINE asked == AskedAbout(name, people)
             unique == {w \in Ways : Cardinality(Named(reply, asked, w)) = 1}
             way == CHOOSE w \in unique : \A v \in unique : w <= v
  <1> SUFFICES ASSUME NEW p \in Choose(reply, asked)
               PROVE  /\ p \in asked
                      /\ \E w \in Ways : Names(reply, p, w)
                                         /\ \A q \in asked \ {p} : ~Names(reply, q, w)
                      /\ \A q \in asked :
                           Names(reply, q, 1)
                             \/ (Names(reply, q, 2) /\ Named(reply, asked, 2) = {q}) =>
                               Names(reply, p, 1) \/ Names(reply, p, 2)
    BY DEF ChoiceIsClear
  <1>1. reply # <<>> /\ unique # {} /\ p \in Named(reply, asked, way)
    BY DEF Choose
  <1>2. way \in unique /\ \A v \in unique : way <= v
    <2>1. unique \in SUBSET (1..4)
      BY DEF Ways
    <2> HIDE DEF unique
    <2> QED
      BY <1>1, <2>1, FirstOne
  <1>3. Named(reply, asked, way) = {p}
    <2>1. IsFiniteSet(asked)
      <3>1. asked \in SUBSET people
        BY DEF AskedAbout
      <3> QED
        BY <3>1, FS_Subset
    <2>2. IsFiniteSet(Named(reply, asked, way))
      <3> HIDE DEF asked
      <3> QED
        BY <2>1, FS_Subset DEF Named
    <2> QED
      BY <1>1, <1>2, <2>2, OnlyOne
  <1>4. /\ p \in asked /\ way \in Ways /\ Names(reply, p, way)
        /\ \A q \in asked \ {p} : ~Names(reply, q, way)
    BY <1>2, <1>3 DEF Named
  <1>5. ASSUME NEW q \in asked,
               Names(reply, q, 1)
                 \/ (Names(reply, q, 2) /\ Named(reply, asked, 2) = {q})
        PROVE  Names(reply, p, 1) \/ Names(reply, p, 2)
    <2>1. CASE way = 3
      <3>1. ~(Named(reply, asked, 2) = {q})
        <4> SUFFICES ASSUME Named(reply, asked, 2) = {q} PROVE FALSE
          OBVIOUS
        <4>1. Cardinality(Named(reply, asked, 2)) = 1
          BY FS_Singleton
        <4>2. 2 \in unique
          BY <4>1 DEF Ways
        <4> HIDE DEF way, unique
        <4> QED
          BY <1>2, <2>1, <4>2
      <3>2. q.name = reply
        BY <1>5, <3>1 DEF Names
      <3>3. Names(reply, q, 3)
        BY <1>1, <3>2 DEF Names
      <3>4. q = p
        <4> HIDE DEF asked, way
        <4> QED
          BY <1>4, <1>5, <2>1, <3>3
      <3> QED
        BY <3>2, <3>4 DEF Names
    <2> QED
      BY <1>4, <2>1 DEF Ways
  <1> QED
    BY <1>4, <1>5

-----------------------------------------------------------------------------
(* The behaviours.                                                          *)

\* The participants of a meeting are finitely many.
LEMMA PeopleAreFinite ==
  ASSUME NEW people \in People
  PROVE  IsFiniteSet(people)
PROOF
  <1>1. PICK here \in SUBSET Person :
          \E name \in [here -> FullName], mail \in [here -> Mail \union {NoMail}] :
             people = {[id |-> p, name |-> name[p], mail |-> mail[p]] : p \in here}
    BY DEF People
  <1>2. PICK name \in [here -> FullName], mail \in [here -> Mail \union {NoMail}] :
          people = {[id |-> p, name |-> name[p], mail |-> mail[p]] : p \in here}
    BY <1>1
  <1> DEFINE person == [p \in here |-> [id |-> p, name |-> name[p], mail |-> mail[p]]]
  <1>3. person \in Surjection(here, people)
    BY <1>2 DEF Surjection
  <1>4. IsFiniteSet(here)
    BY AlgorithmsConstants, FS_Subset
  <1> HIDE DEF person
  <1> QED
    BY <1>3, <1>4, FS_Surjection

\* A name is to be found among finitely many people.
InputInv == input.of \in {"label", "reply"} => IsFiniteSet(input.people)

\* The inductive invariant.
IInv == RankingInv /\ ChunkerInv /\ InputInv

\* It holds when a behaviour starts.
LEMMA InitInv ==
  ASSUME AlgorithmsInit
  PROVE  IInv
PROOF
  <1>1. RankingInv
    BY RankingConstants, RankingInvInit DEF AlgorithmsInit
  <1>2. ChunkerInv
    BY ChunkerInvInit DEF AlgorithmsInit
  <1>3. InputInv
    BY DEF AlgorithmsInit, InputInv, None
  <1> QED
    BY <1>1, <1>2, <1>3 DEF IInv

\* The algorithm that runs keeps its part, and leaves the others alone.
LEMMA NextInv ==
  ASSUME IInv, [AlgorithmsNext]_algorithmsVars
  PROVE  IInv'
PROOF
  <1> USE DEF IInv
  <1>1. CASE RankingNext /\ UNCHANGED <<task, input, chunkerVars>>
    <2>1. RankingInv'
      BY <1>1, RankingConstants, RankingInvStep
    <2>2. ChunkerInv'
      BY <1>1, ChunkerInvStutter
    <2>3. InputInv'
      BY <1>1 DEF InputInv
    <2> QED
      BY <2>1, <2>2, <2>3
  <1>2. CASE ChunkerNext /\ UNCHANGED <<task, input, rankingVars>>
    <2>1. RankingInv'
      BY <1>2, RankingInvStutter
    <2>2. ChunkerInv'
      BY <1>2, ChunkerConstants, ChunkerInvStep
    <2>3. InputInv'
      BY <1>2 DEF InputInv
    <2> QED
      BY <2>1, <2>2, <2>3
  <1>3. CASE (Label \/ ReplyInput) /\ UNCHANGED <<task, rankingVars, chunkerVars>>
    <2>1. RankingInv' /\ ChunkerInv'
      BY <1>3, RankingInvStutter, ChunkerInvStutter
    <2>2. InputInv'
      <3>1. CASE Label
        <4>1. PICK label \in Said, people \in People :
                input' = [of |-> "label", label |-> label, people |-> people]
          BY <3>1 DEF Label
        <4>2. IsFiniteSet(people)
          BY PeopleAreFinite
        <4> QED
          BY <4>1, <4>2 DEF InputInv
      <3>2. CASE ReplyInput
        <4>1. PICK reply \in Said, name \in FullName, people \in People :
                input' = [of |-> "reply", reply |-> reply, name |-> name, people |-> people]
          BY <3>2 DEF ReplyInput
        <4>2. IsFiniteSet(people)
          BY PeopleAreFinite
        <4> QED
          BY <4>1, <4>2 DEF InputInv
      <3> QED
        BY <1>3, <3>1, <3>2
    <2> QED
      BY <2>1, <2>2
  <1>4. CASE UNCHANGED algorithmsVars
    <2>1. UNCHANGED input /\ UNCHANGED rankingVars /\ UNCHANGED chunkerVars
      BY <1>4 DEF algorithmsVars
    <2> QED
      BY <2>1, RankingInvStutter, ChunkerInvStutter DEF InputInv
  <1> QED
    BY <1>1, <1>2, <1>3, <1>4 DEF AlgorithmsNext

(* The invariants of the loops hold in every state that they reach.         *)
THEOREM AlgorithmsInvariant == AlgorithmsSpec => []IInv
<1>1. AlgorithmsInit => IInv
  BY InitInv
<1>2. IInv /\ [AlgorithmsNext]_algorithmsVars => IInv'
  BY NextInv
<1>3. QED
  BY <1>1, <1>2, PTL DEF AlgorithmsSpec

(* Reciprocal rank fusion fuses each chunk once and keeps the order that    *)
(* the signals agree on (chat_search.py, _rrf_merge), whatever RRF_K is.    *)
THEOREM FusionKeepsRanks == AlgorithmsSpec => []FusionIsFaithful
<1>1. IInv => FusionIsFaithful
  BY DEF IInv, RankingInv
<1>2. QED
  BY <1>1, AlgorithmsInvariant, PTL

(* The round robin takes as many chunks as it may, evenly and in order      *)
(* (chat_search.py, _round_robin_by_meeting), and the cards show their      *)
(* meetings (sources.py), for every pool, TopK and number of cards.         *)
THEOREM RetrievalIsEven == AlgorithmsSpec => []RetrievalIsDiverse
<1>1. IInv => RetrievalIsDiverse
  BY RankingConstants, RankingInvSuffices DEF IInv
<1>2. QED
  BY <1>1, AlgorithmsInvariant, PTL

(* Every spoken block of a transcript is in one chunk, in order and with    *)
(* its speaker, and the chunks keep to their bounds (vtt_parser.py,         *)
(* chunker.py), for every transcript, gap and cap.                          *)
THEOREM TranscriptsAreKept == AlgorithmsSpec => []NothingSaidIsLost
<1>1. IInv => NothingSaidIsLost
  BY ChunkerInvSuffices DEF IInv
<1>2. QED
  BY <1>1, AlgorithmsInvariant, PTL

(* A speaker label goes to the participant who matches it best, and to      *)
(* nobody where several do (ingestion/speaker_resolver.py).                 *)
THEOREM LabelsAreClear == AlgorithmsSpec => []LabelsAreUnambiguous
<1>1. IInv => LabelsAreUnambiguous
  BY ResolveOneIsBest DEF IInv, InputInv, LabelsAreUnambiguous
<1>2. QED
  BY <1>1, AlgorithmsInvariant, PTL

(* The reply to a question of whom is meant picks the candidate it names,   *)
(* and nobody where it names several (orchestrator.py,                      *)
(* _resolve_disambiguation_choice).                                         *)
THEOREM RepliesAreClear == AlgorithmsSpec => []RepliesAreUnambiguous
<1>1. IInv => RepliesAreUnambiguous
  BY ChooseIsClear DEF IInv, InputInv, RepliesAreUnambiguous
<1>2. QED
  BY <1>1, AlgorithmsInvariant, PTL

=============================================================================
