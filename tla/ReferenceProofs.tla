---------------------------- MODULE ReferenceProofs ----------------------------
(***************************************************************************)
(* Runs of Reference, for any finite set of Innies, any programs and any   *)
(* interpreter: what settles stays settled, and from one deadlock to the   *)
(* next whoever can move does, and goes where his question sends him.      *)
(***************************************************************************)
EXTENDS Reference, Programs, DetectorProofs

\* The run of some programs up to its N-th state.
RunFrom(programs, p, N) ==
    /\ p[1] = StartOf(programs)
    /\ \A k \in 1..(N - 1) : ~Complete(p[k]) /\ p[k + 1] = Successor(p[k])

\* From b to e there are only rounds, and after e no other: there the run is
\* complete, or deadlocked.
Phase(p, N, b, e) ==
    /\ b <= e
    /\ \A k \in b..e : ~p[k].stuck
    /\ \A k \in b..(e - 1) : p[k + 1] = Round(p[k])
    /\ \A i \in Innies : ~CanMove(p[e], i)
    /\ e # N => p[e + 1] = Stop(p[e])

-----------------------------------------------------------------------------
(***************************************************************************)
(* The questions of a workday.                                             *)
(***************************************************************************)

\* A workday asks for nothing, for all of a list or for a fold of it; and for
\* nothing when it is over.
LEMMA QuestionKinds ==
    ASSUME NEW d
    PROVE  /\ NextAsk(d).for \in {"nothing", "all", "fold"}
           /\ Ended(d) => NextAsk(d).for = "nothing"
BY DEF NextAsk, Ended, Ask, NoAsk, AskAll, CondAsk, AskFold

LEMMA NothingIsNoAsk ==
    ASSUME NEW d, NextAsk(d).for = "nothing"
    PROVE  NextAsk(d) = NoAsk
BY DEF NextAsk, Ask, NoAsk, AskAll, CondAsk, AskFold

\* Among some positions in a list there is a first one.
LEMMA FirstOf ==
    ASSUME NEW s \in Seq(Innies), NEW K, K \subseteq DOMAIN s, K # {}
    PROVE  \E k \in K : \A m \in K : k <= m
<1>1. DOMAIN s = 1..Len(s) /\ Len(s) \in Nat
  BY LenProperties
<1>2. IsFiniteSet(1..Len(s))
  BY <1>1, FS_Interval
<1>3. K \in SUBSET Nat /\ IsFiniteSet(K)
  BY <1>1, <1>2, FS_Subset
<1> QED
  BY <1>3, LeastExists

\* What a workday goes on to depends on the Cells it asked for only.
LEMMA SameAnswerAll ==
    ASSUME NEW d, NEW ids \in Seq(Innies), NEW c1, NEW c2,
           \A k \in DOMAIN ids : c1[ids[k]] = c2[ids[k]]
    PROVE  AnswerAll(d, ids, c1) = AnswerAll(d, ids, c2)
<1> DEFINE bad1 == {k \in DOMAIN ids : c1[ids[k]].kind # "value"}
           bad2 == {k \in DOMAIN ids : c2[ids[k]].kind # "value"}
           k1 == CHOOSE k \in bad1 : \A m \in bad1 : k <= m
           k2 == CHOOSE k \in bad2 : \A m \in bad2 : k <= m
           all1 == [j \in DOMAIN ids |-> c1[ids[j]].n]
           all2 == [j \in DOMAIN ids |-> c2[ids[j]].n]
<1>1. bad1 = bad2 /\ (bad1 # {} => k1 = k2 /\ c1[ids[k1]] = c2[ids[k2]])
  <2>1. bad1 = bad2
    OBVIOUS
  <2>2. k1 = k2
    BY <2>1
  <2>3. bad1 # {} => \E k \in bad1 : \A m \in bad1 : k <= m
    BY FirstOf
  <2>4. bad1 # {} => k1 \in bad1
    BY <2>3
  <2> QED
    BY <2>1, <2>2, <2>4
<1>2. all1 = all2
  OBVIOUS
<1>3. AnswerAll(d, ids, c1) = IF bad1 = {} THEN Answer(d, all1)
                              ELSE Raise(d, FaultOf(ids[k1], c1[ids[k1]]))
  BY DEF AnswerAll
<1>4. AnswerAll(d, ids, c2) = IF bad2 = {} THEN Answer(d, all2)
                              ELSE Raise(d, FaultOf(ids[k2], c2[ids[k2]]))
  BY DEF AnswerAll
<1> HIDE DEF bad1, bad2, k1, k2, all1, all2
<1> QED
  BY <1>1, <1>2, <1>3, <1>4

LEMMA SameFoldAll ==
    ASSUME NEW d, NEW ask, ask.ids \in Seq(Innies), NEW c1, NEW c2,
           \A k \in DOMAIN ask.ids : c1[ask.ids[k]] = c2[ask.ids[k]]
    PROVE  FoldAll(d, ask, c1) = FoldAll(d, ask, c2)
<1> DEFINE ids == ask.ids
           bad1 == {k \in DOMAIN ids : c1[ids[k]].kind # "value"}
           bad2 == {k \in DOMAIN ids : c2[ids[k]].kind # "value"}
           k1 == CHOOSE k \in bad1 : \A m \in bad1 : k <= m
           k2 == CHOOSE k \in bad2 : \A m \in bad2 : k <= m
<1>1. bad1 = bad2 /\ (bad1 # {} => k1 = k2 /\ c1[ids[k1]] = c2[ids[k2]])
  <2>1. bad1 = bad2
    OBVIOUS
  <2>2. k1 = k2
    BY <2>1
  <2>3. bad1 # {} => \E k \in bad1 : \A m \in bad1 : k <= m
    BY FirstOf
  <2>4. bad1 # {} => k1 \in bad1
    BY <2>3
  <2> QED
    BY <2>1, <2>2, <2>4
<1>2. FoldAll(d, ask, c1) = IF bad1 = {} THEN AnswerFold(d, ask.cond.quant # "ANY")
                            ELSE Raise(d, FaultOf(ids[k1], c1[ids[k1]]))
  BY DEF FoldAll
<1>3. FoldAll(d, ask, c2) = IF bad2 = {} THEN AnswerFold(d, ask.cond.quant # "ANY")
                            ELSE Raise(d, FaultOf(ids[k2], c2[ids[k2]]))
  BY DEF FoldAll
<1> HIDE DEF bad1, bad2, k1, k2
<1> QED
  BY <1>1, <1>2, <1>3

-----------------------------------------------------------------------------
(***************************************************************************)
(* Runs of Reference.                                                      *)
(***************************************************************************)

\* What holds at the first of some numbers, and at the next of each one it
\* holds at, holds at all of them.
LEMMA UpTo ==
    ASSUME NEW a \in Nat, NEW b \in Nat, NEW S, a \in S,
           \A k \in a..(b - 1) : k \in S => k + 1 \in S
    PROVE  a..b \subseteq S
<1> DEFINE rest == {k \in a..b : k \notin S}
<1> SUFFICES ASSUME rest # {} PROVE FALSE
  OBVIOUS
<1>1. rest \in SUBSET Nat /\ IsFiniteSet(rest)
  <2>1. IsFiniteSet(a..b) /\ rest \subseteq a..b
    BY FS_Interval
  <2> QED
    BY <2>1, FS_Subset
<1>2. PICK n \in rest : \A m \in rest : n <= m
  <2> HIDE DEF rest
  <2> QED
    BY <1>1, LeastExists
<1>3. n \in a..b /\ n # a /\ n \notin S
  BY <1>2
<1>4. n - 1 \in a..(b - 1) /\ (n - 1) + 1 = n /\ ~(n <= n - 1) /\ n - 1 \in a..b
  BY <1>3
<1>5. n - 1 \in S
  BY <1>2, <1>4
<1> QED
  BY <1>3, <1>4, <1>5

\* What stops holding stops somewhere.
LEMMA Change ==
    ASSUME NEW a \in Nat, NEW b \in Nat, NEW S, a <= b, a \in S, b \notin S
    PROVE  \E k \in a..(b - 1) : k \in S /\ k + 1 \notin S
<1> SUFFICES ASSUME \A k \in a..(b - 1) : k \in S => k + 1 \in S PROVE FALSE
  OBVIOUS
<1>1. a..b \subseteq S
  BY UpTo
<1> QED
  BY <1>1, b \in a..b

LEMMA RoundIs ==
    ASSUME NEW s, NEW i \in Innies
    PROVE  /\ Round(s).stuck = FALSE
           /\ Round(s).cell[i] = IF CanMove(s, i) /\ Ended(s.day[i])
                                 THEN Outcome(s.day[i]) ELSE s.cell[i]
           /\ Round(s).day[i] = IF CanMove(s, i) THEN Moved(s, i) ELSE s.day[i]
BY DEF Round

\* A workday that is over moves, by publishing, and does not change.
LEMMA OverMoves ==
    ASSUME NEW s, NEW i \in Innies, Ended(s.day[i])
    PROVE  /\ CanMove(s, i) <=> Open(s, i)
           /\ Moved(s, i) = s.day[i]
BY QuestionKinds DEF CanMove, Moved

\* In a round only the open Innies move ...
LEMMA RoundKeeps ==
    ASSUME NEW s, NEW i \in Innies, ~Open(s, i)
    PROVE  Round(s).cell[i] = s.cell[i] /\ Round(s).day[i] = s.day[i]
BY RoundIs DEF CanMove

\* ... so what is settled in a phase stays so,
LEMMA PhaseKeeps ==
    ASSUME NEW p, NEW N, NEW b \in Nat, NEW e \in Nat, Phase(p, N, b, e),
           NEW i \in Innies, NEW k \in b..e, ~Open(p[k], i)
    PROVE  \A m \in k..e : p[m].cell[i] = p[k].cell[i] /\ p[m].day[i] = p[k].day[i]
<1> DEFINE S == {m \in k..e : p[m].cell[i] = p[k].cell[i] /\ p[m].day[i] = p[k].day[i]}
<1>1. k \in Nat /\ k \in S
  OBVIOUS
<1>2. ASSUME NEW m \in k..(e - 1), m \in S PROVE m + 1 \in S
  <2>1. m \in b..(e - 1) /\ m + 1 \in k..e
    OBVIOUS
  <2>2. p[m + 1] = Round(p[m])
    BY <2>1 DEF Phase
  <2>3. ~Open(p[m], i)
    BY <1>2 DEF Open
  <2> QED
    BY <1>2, <2>1, <2>2, <2>3, RoundKeeps
<1>3. k..e \subseteq S
  <2> HIDE DEF S
  <2> QED
    BY <1>1, <1>2, UpTo
<1> QED
  BY <1>3

\* a workday that is over stays as it is,
LEMMA EndedStays ==
    ASSUME NEW p, NEW N, NEW b \in Nat, NEW e \in Nat, Phase(p, N, b, e),
           NEW i \in Innies, NEW k \in b..e, Ended(p[k].day[i])
    PROVE  \A m \in k..e : p[m].day[i] = p[k].day[i]
<1> DEFINE S == {m \in k..e : p[m].day[i] = p[k].day[i]}
<1>1. k \in Nat /\ k \in S
  OBVIOUS
<1>2. ASSUME NEW m \in k..(e - 1), m \in S PROVE m + 1 \in S
  <2>1. m \in b..(e - 1) /\ m + 1 \in k..e
    OBVIOUS
  <2>2. p[m + 1] = Round(p[m])
    BY <2>1 DEF Phase
  <2>3. p[m].day[i] = p[k].day[i]
    BY <1>2
  <2>4. Moved(p[m], i) = p[m].day[i]
    BY <2>3, OverMoves
  <2>5. p[m + 1].day[i] = p[k].day[i]
    <3>1. Round(p[m]).day[i] = IF CanMove(p[m], i) THEN Moved(p[m], i) ELSE p[m].day[i]
      BY RoundIs
    <3> QED
      BY <2>2, <2>3, <2>4, <3>1, Zenon
  <2> QED
    BY <2>1, <2>5
<1>3. k..e \subseteq S
  <2> HIDE DEF S
  <2> QED
    BY <1>1, <1>2, UpTo
<1> QED
  BY <1>3

\* and an Innie that settles does so with what its workday left.
LEMMA PhaseEnds ==
    ASSUME NEW p, NEW N, NEW b \in Nat, NEW e \in Nat, Phase(p, N, b, e),
           NEW i \in Innies, Open(p[b], i)
    PROVE  \A k \in b..e : \/ Open(p[k], i)
                           \/ Ended(p[k].day[i]) /\ p[k].cell[i] = Outcome(p[k].day[i])
<1> DEFINE S == {k \in b..e : \/ Open(p[k], i)
                              \/ Ended(p[k].day[i]) /\ p[k].cell[i] = Outcome(p[k].day[i])}
<1>1. b \in S
  BY DEF Phase
<1>2. ASSUME NEW k \in b..(e - 1), k \in S PROVE k + 1 \in S
  <2>1. k + 1 \in b..e
    OBVIOUS
  <2>2. p[k + 1] = Round(p[k])
    BY DEF Phase
  <2>3. CASE ~Open(p[k], i)
    BY <1>2, <2>1, <2>2, <2>3, RoundKeeps
  <2>4. CASE Open(p[k], i) /\ ~Ended(p[k].day[i])
    <3>1. Round(p[k]).cell[i] = p[k].cell[i]
      BY <2>4, RoundIs
    <3>2. Open(p[k + 1], i)
      BY <2>2, <2>4, <3>1 DEF Open
    <3> QED
      BY <2>1, <3>2
  <2>5. CASE Open(p[k], i) /\ Ended(p[k].day[i])
    <3>1. CanMove(p[k], i) /\ Moved(p[k], i) = p[k].day[i]
      BY <2>5, OverMoves
    <3>2. /\ p[k + 1].day[i] = p[k].day[i]
          /\ p[k + 1].cell[i] = Outcome(p[k].day[i])
      BY <2>2, <2>5, <3>1, RoundIs
    <3> QED
      BY <2>1, <2>5, <3>2
  <2> QED
    BY <2>3, <2>4, <2>5
<1>3. b..e \subseteq S
  <2> HIDE DEF S
  <2> QED
    BY <1>1, <1>2, UpTo
<1> QED
  BY <1>3

\* So whose workday is over at some time of a phase has published at its end,
LEMMA Published ==
    ASSUME NEW p, NEW N, NEW b \in Nat, NEW e \in Nat, Phase(p, N, b, e),
           NEW i \in Innies, Open(p[b], i),
           NEW n \in b..e, Ended(p[n].day[i])
    PROVE  p[e].cell[i] = Outcome(p[n].day[i])
<1>1. e \in n..e /\ e \in b..e
  BY DEF Phase
<1>2. p[e].day[i] = p[n].day[i]
  BY <1>1, EndedStays
<1>3. ~CanMove(p[e], i)
  BY DEF Phase
<1>4. ~Open(p[e], i)
  BY <1>2, <1>3, OverMoves
<1>5. p[e].cell[i] = Outcome(p[e].day[i])
  BY <1>1, <1>4, PhaseEnds
<1> QED
  BY <1>2, <1>5

\* and whoever could move at its end had he not moved on, does move on.
LEMMA WillMove ==
    ASSUME NEW p, NEW N, NEW b \in Nat, NEW e \in Nat, Phase(p, N, b, e),
           NEW i \in Innies, Open(p[b], i),
           NEW n \in b..e, ~Ended(p[n].day[i]),
           Open(p[e], i) /\ p[e].day[i] = p[n].day[i] => CanMove(p[e], i)
    PROVE  \E k \in n..(e - 1) : /\ p[k].day[i] = p[n].day[i] /\ CanMove(p[k], i)
                                 /\ p[k + 1].day[i] = Moved(p[k], i)
<1> DEFINE S == {k \in n..e : p[k].day[i] = p[n].day[i]}
<1>1. n \in Nat /\ n <= e /\ n \in S
  OBVIOUS
<1>2. e \notin S
  <2> SUFFICES ASSUME p[e].day[i] = p[n].day[i] PROVE FALSE
    OBVIOUS
  <2>1. Open(p[e], i)
    BY e \in b..e, PhaseEnds
  <2> QED
    BY <2>1 DEF Phase
<1>3. PICK k \in n..(e - 1) : k \in S /\ k + 1 \notin S
  <2> HIDE DEF S
  <2> QED
    BY <1>1, <1>2, Change
<1>4. k \in b..(e - 1) /\ k + 1 \in n..e
  OBVIOUS
<1>5. p[k + 1] = Round(p[k])
  BY <1>4 DEF Phase
<1>6. p[k].day[i] = p[n].day[i] /\ p[k + 1].day[i] # p[k].day[i]
  BY <1>3, <1>4
<1>7. CanMove(p[k], i) /\ p[k + 1].day[i] = Moved(p[k], i)
  <2>1. Round(p[k]).day[i] = IF CanMove(p[k], i) THEN Moved(p[k], i) ELSE p[k].day[i]
    BY RoundIs
  <2> QED
    BY <1>5, <1>6, <2>1
<1> QED
  BY <1>6, <1>7

\* Once the run is complete, every state of it that is not deadlocked begins a
\* phase.
LEMMA PhaseFrom ==
    ASSUME NEW N \in Nat \ {0}, NEW p, Complete(p[N]),
           \A k \in 1..(N - 1) : p[k + 1] = Successor(p[k]),
           NEW b \in 1..N, ~p[b].stuck
    PROVE  \E e \in 1..N : Phase(p, N, b, e)
<1> DEFINE last == {k \in b..N : \A i \in Innies : ~CanMove(p[k], i)}
<1>1. N \in last
  <2>1. \A i \in Innies : ~Open(p[N], i)
    BY DEF Complete
  <2>2. \A i \in Innies : ~CanMove(p[N], i)
    BY <2>1 DEF CanMove
  <2>3. N \in b..N
    OBVIOUS
  <2> QED
    BY <2>2, <2>3
<1>2. last \in SUBSET Nat /\ IsFiniteSet(last)
  <2>1. IsFiniteSet(b..N) /\ last \subseteq b..N
    BY FS_Interval
  <2> QED
    BY <2>1, FS_Subset
<1>3. PICK e \in last : \A k \in last : e <= k
  <2> HIDE DEF last
  <2> QED
    BY <1>1, <1>2, LeastExists
<1>4. e \in 1..N /\ b <= e /\ \A i \in Innies : ~CanMove(p[e], i)
  OBVIOUS
<1>5. ASSUME NEW k \in b..(e - 1) PROVE \E i \in Innies : CanMove(p[k], i)
  <2>1. k \in b..N /\ ~(e <= k)
    BY <1>4
  <2> QED
    BY <1>3, <2>1
<1>6. ASSUME NEW k \in 1..(N - 1), ~p[k].stuck
      PROVE  p[k + 1] = IF \E i \in Innies : CanMove(p[k], i) THEN Round(p[k])
                                                             ELSE Stop(p[k])
  BY <1>6 DEF Successor
<1> DEFINE free == {k \in b..e : ~p[k].stuck}
<1>7. ASSUME NEW k \in b..(e - 1), ~p[k].stuck
      PROVE  p[k + 1] = Round(p[k]) /\ ~p[k + 1].stuck
  <2>1. k \in 1..(N - 1)
    BY <1>4
  <2>2. p[k + 1] = Round(p[k])
    BY <1>5, <1>6, <1>7, <2>1
  <2> QED
    BY <2>2 DEF Round
<1>8. b..e \subseteq free
  <2>1. b \in free /\ b \in Nat /\ e \in Nat
    BY <1>4
  <2>2. \A k \in b..(e - 1) : k \in free => k + 1 \in free
    BY <1>4, <1>7
  <2> HIDE DEF free
  <2> QED
    BY <2>1, <2>2, UpTo
<1>9. \A k \in b..(e - 1) : p[k + 1] = Round(p[k])
  BY <1>7, <1>8
<1>10. e # N => p[e + 1] = Stop(p[e])
  BY <1>4, <1>6, <1>8
<1> QED
  BY <1>4, <1>8, <1>9, <1>10 DEF Phase

\* Whom a deadlocked Innie waits for.
LEMMA WaitsOfIs ==
    ASSUME NEW s
    PROVE  /\ WaitsOf(s) \in Graphs
           /\ \A i \in Innies :
                LET ask     == NextAsk(s.day[i])
                    pending == {t \in Innies : Open(s, t) /\ \E k \in DOMAIN ask.ids : ask.ids[k] = t}
                IN  /\ WaitsOf(s).and[i] = IF Open(s, i) /\ ask.for = "all" THEN pending ELSE {}
                    /\ WaitsOf(s).or[i] = IF Open(s, i) /\ ask.for = "fold" THEN <<pending>> ELSE <<>>
<1> DEFINE pending(ask) ==
              {t \in Innies : Open(s, t) /\ \E k \in DOMAIN ask.ids : ask.ids[k] = t}
           and(j) == IF Open(s, j) /\ NextAsk(s.day[j]).for = "all"
                     THEN pending(NextAsk(s.day[j])) ELSE {}
           or(j) == IF Open(s, j) /\ NextAsk(s.day[j]).for = "fold"
                    THEN <<pending(NextAsk(s.day[j]))>> ELSE <<>>
<1>1. WaitsOf(s) = [and |-> [j \in Innies |-> and(j)], or |-> [j \in Innies |-> or(j)]]
  BY DEF WaitsOf
<1>2. \A j \in Innies : and(j) \in SUBSET Innies
  OBVIOUS
<1>3. \A j \in Innies : or(j) \in Seq(SUBSET Innies)
  <2>1. \A ask : pending(ask) \in SUBSET Innies
    OBVIOUS
  <2> HIDE DEF pending
  <2>2. \A ask : <<pending(ask)>> \in Seq(SUBSET Innies)
    BY <2>1
  <2> QED
    BY <2>2, EmptySeq
<1>4. WaitsOf(s) \in Graphs
  <2> HIDE DEF and, or
  <2> QED
    BY <1>1, <1>2, <1>3 DEF Graphs
<1>5. \A i \in Innies : WaitsOf(s).and[i] = and(i) /\ WaitsOf(s).or[i] = or(i)
  <2> HIDE DEF and, or
  <2> QED
    BY <1>1
<1> QED
  BY <1>4, <1>5

\* Who is blocked in a deadlock is open.
LEMMA StuckAreOpen ==
    ASSUME NEW N \in Nat \ {0}, NEW p, NEW programs, RunFrom(programs, p, N), NEW k \in 1..N, p[k].stuck
    PROVE  \A i \in Blocked(p[k].graph) : Open(p[k], i)
<1> DEFINE S == {m \in 1..N :
                    p[m].stuck => \A i \in Blocked(p[m].graph) : Open(p[m], i)}
<1>1. 1 \in S
  BY DEF RunFrom, StartOf
<1>2. ASSUME NEW m \in 1..(N - 1), m \in S PROVE m + 1 \in S
  <2>1. m + 1 \in 1..N /\ p[m + 1] = Successor(p[m])
    BY DEF RunFrom
  <2>2. CASE p[m + 1] = Round(p[m]) \/ p[m + 1] = GoOn(p[m])
    BY <2>1, <2>2 DEF Round, GoOn
  <2>3. CASE p[m + 1] = Stop(p[m])
    <3>1. p[m + 1].graph = WaitsOf(p[m]) /\ p[m + 1].cell = p[m].cell
      BY <2>3 DEF Stop
    <3>2. \A i \in Blocked(WaitsOf(p[m])) : Open(p[m], i)
      BY WaitsOfIs DEF Blocked
    <3> QED
      BY <2>1, <3>1, <3>2 DEF Open
  <2>4. CASE p[m].stuck /\ p[m + 1] = Unwork(p[m])
    <3> DEFINE g == p[m].graph
               X == FindCycle(g)
    <3>1. \A i \in Blocked(g) : p[m].cell[i] = Pending
      BY <1>2, <2>4 DEF Open
    <3>2. p[m + 1].graph = Clear(g, X)
      BY <2>4 DEF Unwork
    <3>3. \A i \in Innies : p[m + 1].cell[i] = IF i \in X THEN DeadlockResult ELSE p[m].cell[i]
      BY <2>4 DEF Unwork
    <3> HIDE DEF X
    <3>4. \A i \in Blocked(Clear(g, X)) : i \in Innies /\ i \notin X /\ i \in Blocked(g)
      BY DEF Blocked, Clear
    <3> QED
      BY <2>1, <3>1, <3>2, <3>3, <3>4 DEF Open
  <2> QED
    BY <2>1, <2>2, <2>3, <2>4 DEF Successor
<1>3. 1..N \subseteq S
  <2> HIDE DEF S
  <2> QED
    BY <1>1, <1>2, UpTo
<1> QED
  BY <1>3

\* No result ever changes.
LEMMA RunKeeps ==
    ASSUME NEW N \in Nat \ {0}, NEW p, NEW programs, RunFrom(programs, p, N),
           NEW k \in 1..N, NEW i \in Innies, ~Open(p[k], i)
    PROVE  p[N].cell[i] = p[k].cell[i]
<1> DEFINE S == {m \in k..N : p[m].cell[i] = p[k].cell[i]}
<1>1. k \in S /\ k \in Nat /\ N \in Nat
  OBVIOUS
<1>2. ASSUME NEW m \in k..(N - 1), m \in S PROVE m + 1 \in S
  <2>1. m \in 1..N /\ m + 1 \in k..N /\ p[m + 1] = Successor(p[m])
    BY DEF RunFrom
  <2>2. ~Open(p[m], i)
    BY <1>2 DEF Open
  <2>3. CASE p[m + 1] = Round(p[m])
    BY <1>2, <2>1, <2>2, <2>3, RoundKeeps
  <2>4. CASE p[m + 1] = Stop(p[m]) \/ p[m + 1] = GoOn(p[m])
    BY <1>2, <2>1, <2>4 DEF Stop, GoOn
  <2>5. CASE p[m].stuck /\ p[m + 1] = Unwork(p[m])
    <3>1. i \notin FindCycle(p[m].graph)
      BY <2>1, <2>2, <2>5, CycleIsStuck, StuckAreOpen
    <3> QED
      BY <1>2, <2>1, <2>5, <3>1 DEF Unwork
  <2> QED
    BY <2>1, <2>3, <2>4, <2>5 DEF Successor
<1>3. k..N \subseteq S
  <2> HIDE DEF S
  <2> QED
    BY <1>1, <1>2, UpTo
<1> QED
  BY <1>3, N \in k..N

\* When the run is complete, it begins with a phase, and everybody open.
LEMMA FirstPhase ==
    ASSUME NEW N \in Nat \ {0}, NEW p, Complete(p[N]), NEW programs, p[1] = StartOf(programs),
           \A k \in 1..(N - 1) : p[k + 1] = Successor(p[k])
    PROVE  \E e \in 1..N : /\ Phase(p, N, 1, e) /\ 1 \in 1..e
                           /\ \A i \in Innies : Open(p[1], i)
<1>1. 1 \in 1..N /\ ~p[1].stuck /\ \A i \in Innies : Open(p[1], i)
  BY DEF StartOf, Open
<1>2. PICK e \in 1..N : Phase(p, N, 1, e)
  BY <1>1, PhaseFrom
<1>3. 1 \in 1..e
  BY <1>2 DEF Phase
<1> QED
  BY <1>1, <1>2, <1>3

-----------------------------------------------------------------------------
(***************************************************************************)
(* Programs.                                                               *)
(***************************************************************************)

\* What an instruction may do to a workday besides running on.
Leaves(d, e) ==
    /\ e.raised = d.raised \/ e.raised = <<Fault("ArithmeticFault", 0)>>
    /\ e.staged = d.staged \/ \E n : e.staged = Value(n)

\* The state of a workday by its fields.
DayOf(c, a, s, g, r) == [code |-> c, acc |-> a, staged |-> s, got |-> g, raised |-> r]

SetCode(d, x) == [d EXCEPT !.code = x]
SetAcc(d, x) == [d EXCEPT !.acc = x]
SetStaged(d, x) == [d EXCEPT !.staged = x]

LEMMA DayFields ==
    ASSUME NEW c, NEW a, NEW s, NEW g, NEW r
    PROVE  /\ DayOf(c, a, s, g, r).code = c /\ DayOf(c, a, s, g, r).acc = a
           /\ DayOf(c, a, s, g, r).staged = s /\ DayOf(c, a, s, g, r).got = g
           /\ DayOf(c, a, s, g, r).raised = r
BY DEF DayOf

\* What an instruction, a question's answer or an exception makes of a workday
\* is again one.
LEMMA DayKept ==
    ASSUME NEW I, NEW day, InProgress(I, day)
    PROVE  /\ day = DayOf(day.code, day.acc, day.staged, day.got, day.raised)
           /\ \A c \in Seq(I) : \A a, s, g, r : InProgress(I, DayOf(c, a, s, g, r))
BY DEF InProgress, DayOf

LEMMA DaySets ==
    ASSUME NEW c, NEW a, NEW s, NEW g, NEW r, NEW x
    PROVE  /\ SetCode(DayOf(c, a, s, g, r), x) = DayOf(x, a, s, g, r)
           /\ SetAcc(DayOf(c, a, s, g, r), x) = DayOf(c, x, s, g, r)
           /\ SetStaged(DayOf(c, a, s, g, r), x) = DayOf(c, a, x, g, r)
BY DEF DayOf, SetCode, SetAcc, SetStaged

LEMMA DayUpdates ==
    ASSUME NEW I, NEW day, InProgress(I, day), NEW x, NEW y
    PROVE  /\ [day EXCEPT !.code = x, !.got = y]
                 = DayOf(x, day.acc, day.staged, y, day.raised)
           /\ [day EXCEPT !.got = y]
                 = DayOf(day.code, day.acc, day.staged, y, day.raised)
<1>1. PICK c, a, s, g, r : day = DayOf(c, a, s, g, r)
  BY DayKept
<1>2. [DayOf(c, a, s, g, r) EXCEPT !.code = x] = DayOf(x, a, s, g, r)
  BY DEF DayOf
<1>3. [DayOf(x, a, s, g, r) EXCEPT !.got = y] = DayOf(x, a, s, y, r)
  BY DEF DayOf
<1>4. [DayOf(c, a, s, g, r) EXCEPT !.got = y] = DayOf(c, a, s, y, r)
  BY DEF DayOf
<1>5. [DayOf(c, a, s, g, r) EXCEPT !.code = x, !.got = y]
      = [[DayOf(c, a, s, g, r) EXCEPT !.code = x] EXCEPT !.got = y]
  OBVIOUS
<1>6. [DayOf(c, a, s, g, r) EXCEPT !.code = x, !.got = y] = DayOf(x, a, s, y, r)
  BY <1>2, <1>3, <1>5
<1> QED
  BY <1>1, <1>4, <1>6, DayFields

LEMMA DayRaised ==
    ASSUME NEW I, NEW day, InProgress(I, day), NEW fault
    PROVE  Raise(day, fault) = DayOf(<<>>, day.acc, day.staged, <<>>, <<fault>>)
<1>1. PICK c, a, s, g, r : day = DayOf(c, a, s, g, r)
  BY DayKept
<1>2. [DayOf(c, a, s, g, r) EXCEPT !.code = <<>>] = DayOf(<<>>, a, s, g, r)
  BY DEF DayOf
<1>3. [DayOf(<<>>, a, s, g, r) EXCEPT !.got = <<>>] = DayOf(<<>>, a, s, <<>>, r)
  BY DEF DayOf
<1>4. [DayOf(<<>>, a, s, <<>>, r) EXCEPT !.raised = <<fault>>] = DayOf(<<>>, a, s, <<>>, <<fault>>)
  BY DEF DayOf
<1>5. [DayOf(c, a, s, g, r) EXCEPT !.code = <<>>, !.got = <<>>, !.raised = <<fault>>]
      = [[[DayOf(c, a, s, g, r) EXCEPT !.code = <<>>] EXCEPT !.got = <<>>] EXCEPT !.raised = <<fault>>]
  OBVIOUS
<1>6. Raise(DayOf(c, a, s, g, r), fault) = DayOf(<<>>, a, s, <<>>, <<fault>>)
  BY <1>2, <1>3, <1>4, <1>5 DEF Raise
<1> QED
  BY <1>1, <1>6, DayFields

\* An instruction leaves instructions of the set behind.
LEMMA ExecuteKeeps ==
    ASSUME NEW I, Closed(I), NEW day, InProgress(I, day), ~Ended(day)
    PROVE  InProgress(I, Execute(day)) /\ Leaves(day, Execute(day))
<1> DEFINE instr == Head(day.code)
           rest == Tail(day.code)
           values == IF instr.arg.const THEN <<instr.arg.n>> ELSE day.got[Len(day.got)]
           next == [day EXCEPT !.code = rest, !.got = <<>>]
           zero == Fault("ArithmeticFault", 0)
           shift == <<Shift(instr.times - 1, instr.body)>>
           with(code, acc, staged) == DayOf(code, acc, staged, <<>>, day.raised)
           raising == DayOf(<<>>, day.acc, day.staged, <<>>, <<zero>>)
<1>1. instr \in I /\ rest \in Seq(I)
  BY HeadTailProperties DEF InProgress, Ended
<1>2. /\ instr.op \in Opcodes
      /\ instr.op = "SHIFT" =>
            /\ instr.times \in Nat /\ instr.body \in Seq(I)
            /\ instr.times # 0 => Shift(instr.times - 1, instr.body) \in I
  BY <1>1 DEF Closed
<1>3. day = DayOf(day.code, day.acc, day.staged, day.got, day.raised)
  BY DayKept
<1>4. next = with(rest, day.acc, day.staged)
  BY DayUpdates
<1>5. Raise(day, zero) = raising
  BY DayRaised
<1>6. ASSUME NEW code \in Seq(I), NEW acc
      PROVE  /\ InProgress(I, with(code, acc, day.staged))
             /\ Leaves(day, with(code, acc, day.staged))
  BY DayKept, DayFields DEF Leaves
<1>7. ASSUME NEW n
      PROVE  /\ InProgress(I, with(rest, day.acc, Value(n)))
             /\ Leaves(day, with(rest, day.acc, Value(n)))
  <2>1. InProgress(I, with(rest, day.acc, Value(n)))
    BY <1>1, DayKept
  <2>2. /\ with(rest, day.acc, Value(n)).staged = Value(n)
        /\ with(rest, day.acc, Value(n)).raised = day.raised
    BY DayFields
  <2> QED
    BY <2>1, <2>2 DEF Leaves
<1>8. InProgress(I, raising) /\ Leaves(day, raising)
  <2>1. <<>> \in Seq(I)
    OBVIOUS
  <2>2. InProgress(I, raising)
    BY <2>1, DayKept
  <2>3. raising.staged = day.staged /\ raising.raised = <<zero>>
    BY DayFields
  <2> QED
    BY <2>2, <2>3 DEF Leaves
<1> HIDE DEF values, next, shift
<1>9. ASSUME NEW x
      PROVE  /\ SetCode(next, x) = with(x, day.acc, day.staged)
             /\ SetAcc(next, x) = with(rest, x, day.staged)
             /\ SetStaged(next, x) = with(rest, day.acc, x)
  BY <1>4, DaySets
<1> HIDE DEF zero
<1>10. CASE instr.op \in {"LOAD", "ADD", "MULTIPLY", "CONDITIONAL_ADD", "WELLNESS_CHECK",
                           "WELLNESS_CHECK_IF"}
  <2>1. Execute(day) = next \/ \E acc : Execute(day) = SetAcc(next, acc)
    BY <1>10 DEF Execute, next, values, SetAcc
  <2> QED
    BY <1>1, <1>4, <1>6, <1>9, <2>1
<1>11. CASE instr.op = "MODULO"
  <2>1. Execute(day) = Raise(day, zero) \/ \E acc : Execute(day) = SetAcc(next, acc)
    BY <1>11 DEF Execute, next, values, zero, SetAcc
  <2> QED
    BY <1>1, <1>5, <1>6, <1>8, <1>9, <2>1
<1>12. CASE instr.op = "WAFFLE"
  <2>1. Execute(day) = SetStaged(next, Value(day.acc))
    BY <1>12 DEF Execute, next, SetStaged
  <2> QED
    BY <1>7, <1>9, <2>1
<1>13. CASE instr.op = "SHIFT"
  <2>1. Execute(day) = IF instr.times = 0 THEN next
                       ELSE SetCode(next, instr.body \o shift \o next.code)
    BY <1>13 DEF Execute, next, shift, SetCode
  <2>2. next.code = rest
    BY <1>4, DayFields
  <2>3. instr.times # 0 => instr.body \o shift \o rest \in Seq(I)
    BY <1>1, <1>2, <1>13 DEF shift
  <2>4. CASE instr.times = 0
    BY <1>1, <1>4, <1>6, <2>1, <2>4
  <2>5. CASE instr.times # 0
    <3>1. PICK code : code = instr.body \o shift \o rest
      OBVIOUS
    <3>2. code \in Seq(I) /\ Execute(day) = SetCode(next, code)
      BY <2>1, <2>2, <2>3, <2>5, <3>1
    <3> QED
      BY <1>6, <1>9, <3>2
  <2> QED
    BY <2>4, <2>5
<1> QED
  BY <1>2, <1>10, <1>11, <1>12, <1>13 DEF Opcodes, WithOperand, WithCondition

\* So does run_block, however many it executes.
LEMMA RunsInside ==
    ASSUME NEW I, Closed(I), NEW d, InProgress(I, d), NEW e, RunsTo(d, e)
    PROVE  InProgress(I, e) /\ Leaves(d, e) /\ Stopped(e)
<1>1. PICK n \in Nat : \E at :
        /\ at[0] = d /\ at[n] = e
        /\ \A k \in 0..(n - 1) : ~Stopped(at[k]) /\ at[k + 1] = Execute(at[k])
        /\ Stopped(e)
  BY DEF RunsTo
<1>2. PICK at :
        /\ at[0] = d /\ at[n] = e
        /\ \A k \in 0..(n - 1) : ~Stopped(at[k]) /\ at[k + 1] = Execute(at[k])
        /\ Stopped(e)
  BY <1>1
<1> DEFINE S == {k \in 0..n : InProgress(I, at[k]) /\ Leaves(d, at[k])}
<1>3. 0 \in S
  BY <1>2 DEF Leaves
<1>4. ASSUME NEW k \in 0..(n - 1), k \in S PROVE k + 1 \in S
  <2>1. InProgress(I, at[k]) /\ ~Ended(at[k]) /\ at[k + 1] = Execute(at[k])
    BY <1>2, <1>4 DEF Stopped
  <2>2. InProgress(I, at[k + 1]) /\ Leaves(at[k], at[k + 1])
    BY <2>1, ExecuteKeeps
  <2>3. Leaves(d, at[k + 1])
    BY <1>4, <2>2 DEF Leaves
  <2> QED
    BY <2>2, <2>3
<1>5. 0..n \subseteq S
  <2> HIDE DEF S
  <2> QED
    BY <1>3, <1>4, UpTo
<1> QED
  BY <1>2, <1>5

\* A workday keeps to its instructions from its first question on ...
LEMMA BeginsInside ==
    ASSUME NEW I, Closed(I), RunsBlocks(I), NEW program \in Seq(I)
    PROVE  LET day == RunToAsk(Begin(program))
           IN  InProgress(I, day) /\ Stopped(day) /\ Leaves(Begin(program), day)
<1>1. InProgress(I, Begin(program))
  BY DEF Begin, InProgress
<1> QED
  BY <1>1, RunsInside DEF RunsBlocks

\* ... with every answer it gets, and every exception.
LEMMA GoesOnInside ==
    ASSUME NEW I, Closed(I), RunsBlocks(I), NEW day, InProgress(I, day), NEW x
    PROVE  /\ LET d == Answer(day, x)
              IN  InProgress(I, d) /\ Stopped(d) /\ Leaves(day, d)
           /\ LET d == Raise(day, x)
              IN  /\ InProgress(I, d) /\ Stopped(d)
                  /\ d.raised = <<x>> /\ d.staged = day.staged
<1>1. PICK e : e = [day EXCEPT !.got = Append(@, x)]
  OBVIOUS
<1>2. e = DayOf(day.code, day.acc, day.staged, Append(day.got, x), day.raised)
  BY <1>1, DayUpdates
<1>3. InProgress(I, e) /\ e.raised = day.raised /\ e.staged = day.staged
  BY <1>2, DayKept, DayFields DEF InProgress
<1>4. Answer(day, x) = RunToAsk(e)
  BY <1>1 DEF Answer
<1>5. InProgress(I, RunToAsk(e)) /\ Stopped(RunToAsk(e)) /\ Leaves(e, RunToAsk(e))
  BY <1>3, RunsInside DEF RunsBlocks
<1>6. Leaves(day, RunToAsk(e))
  BY <1>3, <1>5 DEF Leaves
<1>7. Raise(day, x) = DayOf(<<>>, day.acc, day.staged, <<>>, <<x>>)
  BY DayRaised
<1>8. InProgress(I, Raise(day, x))
  <2>1. <<>> \in Seq(I)
    OBVIOUS
  <2>2. InProgress(I, DayOf(<<>>, day.acc, day.staged, <<>>, <<x>>))
    BY <2>1, DayKept
  <2> QED
    BY <1>7, <2>2
<1> QED
  BY <1>4, <1>5, <1>6, <1>7, <1>8, DayFields DEF Stopped, Ended

\* What a workday is told, and the exception a result raises.
LEMMA ToldOrRaised ==
    ASSUME NEW d, NEW ids, NEW c
    PROVE  (\E x : AnswerAll(d, ids, c) = Answer(d, x)) \/
           (\E j : AnswerAll(d, ids, c) = Raise(d, FaultOf(j, c[j])))
<1> DEFINE bad == {k \in DOMAIN ids : c[ids[k]].kind # "value"}
           k == CHOOSE k \in bad : \A m \in bad : k <= m
<1>1. CASE bad = {}
  BY <1>1 DEF AnswerAll
<1>2. CASE bad # {}
  <2>1. AnswerAll(d, ids, c) = Raise(d, FaultOf(ids[k], c[ids[k]]))
    BY <1>2 DEF AnswerAll
  <2> QED
    BY <2>1
<1> QED
  BY <1>1, <1>2

LEMMA ToldOrFaulted ==
    ASSUME NEW d, NEW ids \in Seq(Innies), NEW c
    PROVE  \/ \E x : AnswerAll(d, ids, c) = Answer(d, x)
           \/ \E k \in DOMAIN ids : /\ c[ids[k]].kind # "value"
                                    /\ AnswerAll(d, ids, c) = Raise(d, FaultOf(ids[k], c[ids[k]]))
<1> DEFINE bad == {k \in DOMAIN ids : c[ids[k]].kind # "value"}
           first == CHOOSE k \in bad : \A m \in bad : k <= m
<1>1. CASE bad = {}
  BY <1>1 DEF AnswerAll
<1>2. CASE bad # {}
  <2>1. first \in bad
    <3>1. \E k \in bad : \A m \in bad : k <= m
      BY <1>2, FirstOf
    <3> HIDE DEF bad
    <3> QED
      BY <3>1
  <2>2. AnswerAll(d, ids, c) = Raise(d, FaultOf(ids[first], c[ids[first]]))
    BY <1>2 DEF AnswerAll
  <2> HIDE DEF first
  <2> QED
    BY <2>1, <2>2
<1> QED
  BY <1>1, <1>2

\* What a workday asks for, it finds in its instructions.
LEMMA AsksItsLists ==
    ASSUME NEW I, Closed(I), NEW day, InProgress(I, day)
    PROVE  LET ask == NextAsk(day)
           IN  ask.for # "nothing" =>
                 \E instr \in I :
                    /\ ask.ids \in ListsOf(instr)
                    /\ ask.for = "fold" => /\ instr.op \in WithCondition
                                           /\ instr.cond.quant # "NONE"
                                           /\ ask.ids = instr.cond.rhs.ids
<1> DEFINE instr == Head(day.code)
           ask == NextAsk(day)
<1> SUFFICES ASSUME ask.for # "nothing"
             PROVE  \E x \in I : /\ ask.ids \in ListsOf(x)
                                 /\ ask.for = "fold" => /\ x.op \in WithCondition
                                                        /\ x.cond.quant # "NONE"
                                                        /\ ask.ids = x.cond.rhs.ids
  OBVIOUS
<1>1. day.code # <<>> /\ ask = Ask(instr, day.got)
  BY DEF NextAsk, NoAsk
<1>2. instr \in I
  BY <1>1, HeadTailProperties DEF InProgress
<1>3. \A ids : AskAll(ids).for = "all" /\ AskAll(ids).ids = ids
  BY DEF AskAll
<1>4. \A c, n : AskFold(c, n).for = "fold" /\ AskFold(c, n).ids = c.rhs.ids
  BY DEF AskFold
<1>5. NoAsk.for = "nothing"
  BY DEF NoAsk
<1>6. CASE instr.op \in WithOperand
  BY <1>1, <1>2, <1>3, <1>5, <1>6 DEF Ask, ListsOf, WithOperand
<1>7. ASSUME NEW c, ask = CondAsk(c, day.got)
      PROVE  /\ ask.ids \in {c.lhs.ids, c.rhs.ids}
             /\ ask.for = "fold" => c.quant # "NONE" /\ ask.ids = c.rhs.ids
  <2>1. \/ ask = AskAll(c.lhs.ids)
        \/ ask = AskAll(c.rhs.ids)
        \/ c.quant # "NONE" /\ ask = AskFold(c, Left(c, day.got))
    BY <1>7 DEF CondAsk
  <2> HIDE DEF ask
  <2> QED
    BY <1>3, <1>4, <2>1
<1>8. CASE instr.op = "WELLNESS_CHECK_IF"
  <2>1. ask = CondAsk(instr.cond, day.got)
    BY <1>1, <1>5, <1>8 DEF Ask
  <2>2. ListsOf(instr) = {instr.cond.lhs.ids, instr.cond.rhs.ids}
    BY <1>8 DEF ListsOf, WithOperand
  <2> QED
    BY <1>2, <1>7, <1>8, <2>1, <2>2 DEF WithCondition
<1>9. CASE instr.op = "CONDITIONAL_ADD"
  <2>1. ask = CondAsk(instr.cond, day.got) \/ ask = AskAll(instr.arg.ids)
    BY <1>1, <1>5, <1>9 DEF Ask
  <2>2. ListsOf(instr) = {instr.arg.ids, instr.cond.lhs.ids, instr.cond.rhs.ids}
    BY <1>9 DEF ListsOf, WithOperand
  <2> QED
    BY <1>2, <1>3, <1>7, <1>9, <2>1, <2>2 DEF WithCondition
<1> QED
  BY <1>1, <1>5, <1>6, <1>8, <1>9 DEF Ask, WithOperand

-----------------------------------------------------------------------------
(***************************************************************************)
(* A reader who is where a phase has him, and has the results the phase    *)
(* ends with of whom he asked for, goes where the phase goes.              *)
(***************************************************************************)

\* The results d's question needs, as c has them, are those of p[e].
HasResults(p, e, ids, K, c) ==
    \A k \in K : c[ids[k]] # Pending /\ c[ids[k]] = p[e].cell[ids[k]]

\* The run p up to N is complete, and e ends its first phase.
FirstCourse(p, N, e) ==
    /\ e \in Nat /\ 1 \in 1..e
    /\ Phase(p, N, 1, e)
    /\ \A i \in Innies : Open(p[1], i)

\* That phase passes through the workday d of i.
Passes(p, e, i, d) == \E n \in 1..e : d = p[n].day[i]

\* The workday d is stopped at a question, for all of a list or for a fold.
StopsAt(d, ask, for) == ask = NextAsk(d) /\ ask.for = for /\ ask.ids \in Seq(Innies)

\* What is settled when he moves is what c has.
LEMMA SettledSame ==
    ASSUME NEW p, NEW N, NEW e \in Nat, Phase(p, N, 1, e),
           NEW k \in 1..e, NEW t \in Innies, ~Open(p[k], t)
    PROVE  p[e].cell[t] = p[k].cell[t]
<1>1. e \in k..e
  OBVIOUS
<1> QED
  BY <1>1, PhaseKeeps

\* WillMove, for the first phase.
LEMMA MovesOn ==
    ASSUME NEW p, NEW N, NEW e \in Nat, Phase(p, N, 1, e),
           NEW i \in Innies, Open(p[1], i), NEW n \in 1..e, ~Ended(p[n].day[i]),
           Open(p[e], i) /\ p[e].day[i] = p[n].day[i] => CanMove(p[e], i)
    PROVE  \E k \in n..(e - 1) : /\ p[k].day[i] = p[n].day[i] /\ CanMove(p[k], i)
                                 /\ p[k + 1].day[i] = Moved(p[k], i)
BY WillMove

LEMMA GoesOnAll ==
    ASSUME NEW p, NEW N, NEW e, FirstCourse(p, N, e), NEW i \in Innies,
           NEW d, Passes(p, e, i, d), NEW ask, StopsAt(d, ask, "all"),
           NEW c, HasResults(p, e, ask.ids, DOMAIN ask.ids, c)
    PROVE  Passes(p, e, i, AnswerAll(d, ask.ids, c))
<1> e \in Nat /\ Phase(p, N, 1, e) /\ Open(p[1], i)
  BY DEF FirstCourse
<1> PICK n \in 1..e : d = p[n].day[i]
  BY DEF Passes
<1> PICK ids \in Seq(Innies) : ids = ask.ids
  BY DEF StopsAt
<1> NextAsk(d).for = "all" /\ NextAsk(d).ids = ids /\ HasResults(p, e, ids, DOMAIN ids, c)
  BY DEF StopsAt
<1>1. ~Ended(d)
  BY QuestionKinds
<1>2. Open(p[e], i) /\ p[e].day[i] = d => CanMove(p[e], i)
  <2> SUFFICES ASSUME Open(p[e], i), p[e].day[i] = d PROVE CanMove(p[e], i)
    OBVIOUS
  <2>1. AllIn(p[e], ids)
    BY DEF AllIn, Open, HasResults
  <2>2. NextAsk(p[e].day[i]) = NextAsk(d)
    OBVIOUS
  <2> QED
    BY <2>1, <2>2 DEF CanMove
<1>3. PICK k \in n..(e - 1) : /\ p[k].day[i] = d /\ CanMove(p[k], i)
                              /\ p[k + 1].day[i] = Moved(p[k], i)
  <2>1. ~Ended(p[n].day[i]) /\ (Open(p[e], i) /\ p[e].day[i] = p[n].day[i] => CanMove(p[e], i))
    BY <1>1, <1>2
  <2>2. \E k \in n..(e - 1) : /\ p[k].day[i] = p[n].day[i] /\ CanMove(p[k], i)
                              /\ p[k + 1].day[i] = Moved(p[k], i)
    BY <2>1, MovesOn
  <2> QED
    BY <2>2
<1>4. AllIn(p[k], ids)
  BY <1>3 DEF CanMove
<1>5. k \in 1..e /\ k + 1 \in 1..e
  OBVIOUS
<1>6. \A j \in DOMAIN ids : p[k].cell[ids[j]] = c[ids[j]]
  <2> TAKE j \in DOMAIN ids
  <2>1. ids[j] \in Innies /\ ~Open(p[k], ids[j])
    BY <1>4, ElementOfSeq, LenProperties DEF AllIn
  <2>2. p[e].cell[ids[j]] = p[k].cell[ids[j]]
    BY <1>5, <2>1, SettledSame
  <2> QED
    BY <2>2 DEF HasResults
<1>7. Moved(p[k], i) = AnswerAll(d, ids, p[k].cell)
  BY <1>3 DEF Moved
<1>8. AnswerAll(d, ids, p[k].cell) = AnswerAll(d, ids, c)
  <2>1. PICK c1 : c1 = p[k].cell
    OBVIOUS
  <2>2. \A j \in DOMAIN ids : c1[ids[j]] = c[ids[j]]
    BY <1>6, <2>1
  <2>3. AnswerAll(d, ids, c1) = AnswerAll(d, ids, c)
    BY <2>2, SameAnswerAll
  <2> QED
    BY <2>1, <2>3
<1> QED
  BY <1>3, <1>5, <1>7, <1>8 DEF Passes

\* A branch that ends the fold ends it there too, whatever has settled besides.
LEMMA GoesOnAbsorbed ==
    ASSUME NEW p, NEW N, NEW e, FirstCourse(p, N, e), NEW i \in Innies,
           NEW d, Passes(p, e, i, d), NEW ask, StopsAt(d, ask, "fold"),
           NEW c, NEW j \in DOMAIN ask.ids, HasResults(p, e, ask.ids, {j}, c),
           Absorbs(ask, c[ask.ids[j]])
    PROVE  Passes(p, e, i, AnswerFold(d, ask.cond.quant = "ANY"))
<1> e \in Nat /\ Phase(p, N, 1, e) /\ Open(p[1], i)
  BY DEF FirstCourse
<1> PICK n \in 1..e : d = p[n].day[i]
  BY DEF Passes
<1> ask = NextAsk(d) /\ ask.for = "fold" /\ ask.ids \in Seq(Innies)
  BY DEF StopsAt
<1>1. ~Ended(d)
  BY QuestionKinds
<1>2. c[ask.ids[j]] # Pending /\ c[ask.ids[j]] = p[e].cell[ask.ids[j]] /\ ask.ids[j] \in Innies
  BY ElementOfSeq, LenProperties DEF HasResults
<1>3. Open(p[e], i) /\ p[e].day[i] = d => CanMove(p[e], i)
  BY <1>2 DEF CanMove, Absorbed, Open
<1>4. PICK k \in n..(e - 1) : /\ p[k].day[i] = d /\ CanMove(p[k], i)
                              /\ p[k + 1].day[i] = Moved(p[k], i)
  <2>1. ~Ended(p[n].day[i]) /\ (Open(p[e], i) /\ p[e].day[i] = p[n].day[i] => CanMove(p[e], i))
    BY <1>1, <1>3
  <2>2. \E k \in n..(e - 1) : /\ p[k].day[i] = p[n].day[i] /\ CanMove(p[k], i)
                              /\ p[k + 1].day[i] = Moved(p[k], i)
    BY <2>1, MovesOn, ZenonT(30)
  <2> QED
    BY <2>2
<1>5. k \in 1..e /\ k + 1 \in 1..e
  OBVIOUS
<1>6. Absorbed(p[k], ask)
  <2> SUFFICES ASSUME ~Absorbed(p[k], ask) PROVE FALSE
    OBVIOUS
  <2>1. ~Open(p[k], ask.ids[j])
    BY <1>4 DEF CanMove, AllIn
  <2>2. p[e].cell[ask.ids[j]] = p[k].cell[ask.ids[j]]
    BY <1>2, <1>5, <2>1, SettledSame
  <2> QED
    BY <1>2, <2>1, <2>2 DEF Absorbed
<1>7. Moved(p[k], i) = AnswerFold(d, ask.cond.quant = "ANY")
  BY <1>4, <1>6 DEF Moved
<1> QED
  BY <1>4, <1>5, <1>7 DEF Passes

\* And a fold that no branch ends comes to the same.
LEMMA GoesOnFold ==
    ASSUME NEW p, NEW N, NEW e, FirstCourse(p, N, e), NEW i \in Innies,
           NEW d, Passes(p, e, i, d), NEW ask, StopsAt(d, ask, "fold"),
           NEW c, HasResults(p, e, ask.ids, DOMAIN ask.ids, c),
           \A j \in DOMAIN ask.ids : ~Absorbs(ask, c[ask.ids[j]])
    PROVE  Passes(p, e, i, FoldAll(d, ask, c))
<1> e \in Nat /\ Phase(p, N, 1, e) /\ Open(p[1], i)
  BY DEF FirstCourse
<1> PICK n \in 1..e : d = p[n].day[i]
  BY DEF Passes
<1> ask = NextAsk(d) /\ ask.for = "fold" /\ ask.ids \in Seq(Innies)
  BY DEF StopsAt
<1>1. ~Ended(d)
  BY QuestionKinds
<1>2. Open(p[e], i) /\ p[e].day[i] = d => CanMove(p[e], i)
  <2> SUFFICES ASSUME Open(p[e], i), p[e].day[i] = d PROVE CanMove(p[e], i)
    OBVIOUS
  <2>1. AllIn(p[e], ask.ids)
    BY DEF AllIn, Open, HasResults
  <2>2. NextAsk(p[e].day[i]) = NextAsk(d)
    OBVIOUS
  <2> QED
    BY <2>1, <2>2 DEF CanMove
<1>3. PICK k \in n..(e - 1) : /\ p[k].day[i] = d /\ CanMove(p[k], i)
                              /\ p[k + 1].day[i] = Moved(p[k], i)
  <2>1. ~Ended(p[n].day[i]) /\ (Open(p[e], i) /\ p[e].day[i] = p[n].day[i] => CanMove(p[e], i))
    BY <1>1, <1>2
  <2>2. \E k \in n..(e - 1) : /\ p[k].day[i] = p[n].day[i] /\ CanMove(p[k], i)
                              /\ p[k + 1].day[i] = Moved(p[k], i)
    BY <2>1, MovesOn, ZenonT(30)
  <2> QED
    BY <2>2
<1>4. k \in 1..e /\ k + 1 \in 1..e
  OBVIOUS
<1>5. ASSUME NEW j \in DOMAIN ask.ids, ~Open(p[k], ask.ids[j])
      PROVE  p[k].cell[ask.ids[j]] = c[ask.ids[j]]
  <2>1. ask.ids[j] \in Innies
    BY ElementOfSeq, LenProperties
  <2>2. p[e].cell[ask.ids[j]] = p[k].cell[ask.ids[j]]
    <3>1. PICK t : t = ask.ids[j]
      OBVIOUS
    <3>2. t \in Innies /\ ~Open(p[k], t) /\ k \in 1..e
      BY <1>4, <1>5, <2>1, <3>1
    <3>3. p[e].cell[t] = p[k].cell[t]
      BY <3>2, SettledSame
    <3> QED
      BY <3>1, <3>3
  <2> QED
    BY <2>2 DEF HasResults
<1>6. ~Absorbed(p[k], ask)
  BY <1>5 DEF Absorbed
<1>7. AllIn(p[k], ask.ids)
  BY <1>3, <1>6 DEF CanMove
<1>8. Moved(p[k], i) = FoldAll(d, ask, p[k].cell)
  BY <1>3, <1>6 DEF Moved
<1>9. FoldAll(d, ask, p[k].cell) = FoldAll(d, ask, c)
  <2>1. PICK c1 : c1 = p[k].cell
    OBVIOUS
  <2>2. \A j \in DOMAIN ask.ids : c1[ask.ids[j]] = c[ask.ids[j]]
    BY <1>5, <1>7, <2>1 DEF AllIn
  <2>3. FoldAll(d, ask, c1) = FoldAll(d, ask, c)
    <3>1. ask.ids \in Seq(Innies)
      OBVIOUS
    <3> QED
      BY ONLY <2>2, <3>1, SameFoldAll
  <2> QED
    BY <2>1, <2>3
<1> QED
  BY <1>3, <1>4, <1>8, <1>9 DEF Passes

\* What his workday ends with is what the phase has for him.
LEMMA EndsAlike ==
    ASSUME NEW p, NEW N, NEW e, FirstCourse(p, N, e), NEW i \in Innies,
           NEW d, Passes(p, e, i, d), Ended(d)
    PROVE  p[e].cell[i] = Outcome(d)
<1>1. PICK n \in 1..e : d = p[n].day[i]
  BY DEF Passes
<1>2. PICK b \in Nat : b = 1 /\ n \in b..e
  BY <1>1
<1>3. e \in Nat /\ Phase(p, N, b, e) /\ Open(p[b], i) /\ Ended(p[n].day[i])
  BY <1>1, <1>2 DEF FirstCourse
<1> QED
  BY <1>1, <1>2, <1>3, Published
=============================================================================
