----------------------------- MODULE SerialProofs -----------------------------
(***************************************************************************)
(* The serial oracle: the stack discipline of the lazy evaluator, for any  *)
(* Innies, whatever their programs ask and however Python's stack          *)
(* overflows; what follows of that on any programs; that the results are   *)
(* those of Reference until a loop is settled; and that every result that  *)
(* stands at the end is the one its program has beside the others.         *)
(***************************************************************************)
EXTENDS SerialReference, SerialRerun, ReferenceProofs

USE EvaluatorAssumption, CellsAssumption

StackTypeOK ==
    /\ cell \in [Innies -> Results \cup {Pending}]
    /\ onStack \in Seq(Innies)
    /\ barriers \in Seq(Nat)
    /\ probes \in Seq(BOOLEAN)

\* The top of the stack executes: it waits for no call.
TopIsAtWork == onStack # <<>> => ~probes[Depth]

\* An Innie under evaluation has no result, or the one a loop gave it.
OnlyLoopsOnStack ==
    \A h \in 1..Depth : cell[onStack[h]] \in {Pending, DeadlockResult}

EvalInv ==
    /\ StackTypeOK
    /\ NoReentry
    /\ BarriersAreProbes
    /\ TopIsAtWork
    /\ OnlyLoopsOnStack

-----------------------------------------------------------------------------
\* The front of a sequence.
LEMMA FrontFacts ==
    ASSUME NEW S, NEW seq \in Seq(S), seq # <<>>
    PROVE  /\ FrontOf(seq) \in Seq(S)
           /\ Len(FrontOf(seq)) = Len(seq) - 1
           /\ \A k \in 1..(Len(seq) - 1) : FrontOf(seq)[k] = seq[k]
           /\ LastOf(seq) \in S
<1>1. Len(seq) \in Nat \ {0} /\ DOMAIN seq = 1..Len(seq) /\ \A k \in 1..Len(seq) : seq[k] \in S
  OBVIOUS
<1>2. SubSeq(seq, 1, Len(seq) - 1) = [k \in 1..(Len(seq) - 1) |-> seq[k]]
  BY <1>1
<1>3. SubSeq(seq, 1, Len(seq) - 1) \in Seq(S) /\ Len(SubSeq(seq, 1, Len(seq) - 1)) = Len(seq) - 1
  BY <1>1
<1> QED
  BY <1>1, <1>2, <1>3 DEF FrontOf, LastOf

\* A sequence cut at n, with another value there.
LEMMA CutAndMark ==
    ASSUME NEW S, NEW seq \in Seq(S), NEW n \in 1..Len(seq), NEW v \in S,
           NEW f, f = [SubSeq(seq, 1, n) EXCEPT ![n] = v]
    PROVE  /\ f \in Seq(S) /\ Len(f) = n /\ f[n] = v
           /\ \A h \in 1..(n - 1) : f[h] = seq[h]
<1> DEFINE g == SubSeq(seq, 1, n)
<1>1. n \in Nat \ {0} /\ Len(seq) \in Nat /\ n <= Len(seq)
  OBVIOUS
<1>2. g \in Seq(S) /\ Len(g) = n /\ \A h \in 1..n : g[h] = seq[h]
  BY <1>1
<1>3. f = [g EXCEPT ![n] = v]
  OBVIOUS
<1> HIDE DEF g
<1>4. f \in Seq(S) /\ Len(f) = n /\ f[n] = v
  BY <1>1, <1>2, <1>3
<1>5. \A h \in 1..(n - 1) : f[h] = g[h] /\ h \in 1..n
  BY <1>1, <1>2, <1>3
<1> QED
  BY <1>2, <1>4, <1>5

\* A sequence with another last value and one more after it.
LEMMA MarkAndAppend ==
    ASSUME NEW S, NEW seq \in Seq(S), seq # <<>>, NEW v \in S, NEW w \in S,
           NEW f, f = Append([seq EXCEPT ![Len(seq)] = v], w)
    PROVE  /\ f \in Seq(S) /\ Len(f) = Len(seq) + 1
           /\ f[Len(seq)] = v /\ f[Len(seq) + 1] = w
           /\ \A h \in 1..(Len(seq) - 1) : f[h] = seq[h]
<1> DEFINE g == [seq EXCEPT ![Len(seq)] = v]
<1>1. Len(seq) \in Nat \ {0}
  OBVIOUS
<1>2. /\ g \in Seq(S) /\ Len(g) = Len(seq) /\ g[Len(seq)] = v
      /\ \A h \in 1..(Len(seq) - 1) : g[h] = seq[h]
  BY <1>1
<1>3. f = Append(g, w)
  OBVIOUS
<1> HIDE DEF g
<1>4. /\ f \in Seq(S) /\ Len(f) = Len(seq) + 1 /\ f[Len(seq) + 1] = w
      /\ \A h \in 1..Len(seq) : f[h] = g[h]
  BY <1>1, <1>2, <1>3
<1>5. Len(seq) \in 1..Len(seq) /\ \A h \in 1..(Len(seq) - 1) : h \in 1..Len(seq)
  BY <1>1
<1> QED
  BY <1>2, <1>4, <1>5

\* A strictly increasing sequence of numbers: the last is the greatest, and the
\* rest has all the others.
LEMMA Increasing ==
    ASSUME NEW b \in Seq(Nat), b # <<>>,
           \A j, k \in DOMAIN b : j < k => b[j] < b[k]
    PROVE  /\ \A j \in DOMAIN b : b[j] <= LastOf(b)
           /\ \A j, k \in DOMAIN FrontOf(b) : j < k => FrontOf(b)[j] < FrontOf(b)[k]
           /\ {FrontOf(b)[k] : k \in DOMAIN FrontOf(b)} = {b[k] : k \in DOMAIN b} \ {LastOf(b)}
<1> DEFINE f == FrontOf(b)
           n == Len(b)
<1>1. n \in Nat \ {0} /\ DOMAIN b = 1..n /\ LastOf(b) = b[n]
  BY DEF LastOf
<1>2. DOMAIN f = 1..(n - 1) /\ \A k \in 1..(n - 1) : f[k] = b[k]
  BY <1>1 DEF FrontOf
<1>3. \A j \in 1..n : b[j] \in Nat
  BY <1>1
<1> HIDE DEF f, n
<1>4. \A j \in DOMAIN b : b[j] <= LastOf(b)
  BY <1>1, <1>3
<1>5. \A j, k \in DOMAIN f : j < k => f[j] < f[k]
  BY <1>1, <1>2
<1>6. ASSUME NEW x PROVE x \in {f[k] : k \in DOMAIN f} <=> x \in {b[k] : k \in DOMAIN b} \ {LastOf(b)}
  <2>1. ASSUME NEW k \in 1..(n - 1), x = f[k] PROVE x \in {b[j] : j \in DOMAIN b} \ {LastOf(b)}
    <3>1. x = b[k] /\ k \in DOMAIN b /\ n \in DOMAIN b /\ k < n
      BY <1>1, <1>2, <2>1
    <3>2. b[k] < b[n]
      BY <3>1
    <3> QED
      BY <1>1, <1>3, <3>1, <3>2
  <2>2. ASSUME NEW k \in DOMAIN b, x = b[k], x # LastOf(b) PROVE x \in {f[j] : j \in DOMAIN f}
    <3>1. k \in 1..(n - 1)
      BY <1>1, <2>2
    <3> QED
      BY <1>2, <2>2, <3>1
  <2> QED
    BY <1>2, <2>1, <2>2
<1> QED
  BY <1>4, <1>5, <1>6 DEF f

-----------------------------------------------------------------------------
\* The barriers with the one of a probe that is being made: still increasing,
\* and the heights of all the probes.
LEMMA BarriersWithProbe ==
    ASSUME EvalInv, onStack # <<>>, NEW probe \in BOOLEAN
    PROVE  LET b == BarriersWith(probe)
           IN  /\ b \in Seq(Nat)
               /\ \A j, k \in DOMAIN b : j < k => b[j] < b[k]
               /\ {b[k] : k \in DOMAIN b} = {h \in 1..Depth : InProbe(h, probe)}
<1> DEFINE b == BarriersWith(probe)
           P == {h \in 1..Depth : probes[h]}
<1>1. /\ barriers \in Seq(Nat) /\ Depth \in Nat \ {0} /\ Depth \notin P /\ P \subseteq 1..Depth
      /\ \A j, k \in DOMAIN barriers : j < k => barriers[j] < barriers[k]
      /\ {barriers[k] : k \in DOMAIN barriers} = P
  BY DEF EvalInv, StackTypeOK, BarriersAreProbes, TopIsAtWork, Depth
<1>2. {h \in 1..Depth : InProbe(h, probe)} = IF probe THEN P \cup {Depth} ELSE P
  BY <1>1 DEF InProbe
<1>3. CASE ~probe
  BY <1>1, <1>2, <1>3 DEF BarriersWith
<1>4. CASE probe
  <2>1. b = Append(barriers, Depth)
    BY <1>4 DEF BarriersWith
  <2> DEFINE n == Len(barriers)
  <2>2. /\ b \in Seq(Nat) /\ n \in Nat /\ DOMAIN b = 1..(n + 1) /\ DOMAIN barriers = 1..n
        /\ b[n + 1] = Depth /\ \A k \in 1..n : b[k] = barriers[k]
    BY <1>1, <2>1
  <2> HIDE DEF b, P, n
  <2>3. \A k \in 1..n : barriers[k] \in P /\ barriers[k] \in Nat /\ barriers[k] < Depth
    <3>1. \A k \in 1..n : barriers[k] \in P
      BY <1>1, <2>2
    <3> QED
      BY <1>1, <3>1
  <2>4. \A j, k \in DOMAIN b : j < k => b[j] < b[k]
    <3> TAKE j, k \in DOMAIN b
    <3> HAVE j < k
    <3>1. j \in 1..n /\ (k \in 1..n \/ k = n + 1)
      BY <2>2
    <3> QED
      BY <1>1, <2>2, <2>3, <3>1
  <2>5. {b[k] : k \in DOMAIN b} = {barriers[k] : k \in DOMAIN barriers} \cup {Depth}
    BY <2>2
  <2> QED
    BY <1>1, <1>2, <1>4, <2>2, <2>4, <2>5 DEF b
<1> QED
  BY <1>3, <1>4

\* The probe whose barrier makes _cycle raise _Reentry is on Python's stack, and
\* it is the innermost one: what was raised is caught, where it was meant to be.
THEOREM ReentryIsCaught ==
    ASSUME EvalInv, onStack # <<>>, NEW probe \in BOOLEAN, BarriersWith(probe) # <<>>
    PROVE  /\ Innermost(probe) = LastOf(BarriersWith(probe))
           /\ Innermost(probe) \in 1..Depth
           /\ InProbe(Innermost(probe), probe)
           /\ \A k \in 1..Depth : InProbe(k, probe) => k <= Innermost(probe)
<1> DEFINE b == BarriersWith(probe)
           last == LastOf(b)
           I == {h \in 1..Depth : InProbe(h, probe)}
<1>1. /\ b \in Seq(Nat) /\ b # <<>>
      /\ \A j, k \in DOMAIN b : j < k => b[j] < b[k]
      /\ {b[k] : k \in DOMAIN b} = I
  BY BarriersWithProbe
<1> HIDE DEF b
<1>2. \A j \in DOMAIN b : b[j] <= last
  BY <1>1, Increasing
<1>3. last \in {b[k] : k \in DOMAIN b}
  BY <1>1 DEF LastOf
<1>4. \A k \in I : k <= last
  BY <1>1, <1>2
<1>5. last \in 1..Depth /\ InProbe(last, probe) /\ \A k \in 1..Depth : InProbe(k, probe) => k <= last
  BY <1>1, <1>3, <1>4
<1> HIDE DEF last, I
<1>6. Innermost(probe) = last
  <2>1. Depth \in Nat
    BY DEF EvalInv, StackTypeOK, Depth
  <2>2. \A h \in 1..Depth : /\ InProbe(h, probe)
                            /\ \A k \in 1..Depth : InProbe(k, probe) => k <= h
                            => h = last
    BY <1>5, <2>1
  <2> QED
    BY <1>5, <2>2 DEF Innermost
<1> QED
  BY <1>5, <1>6 DEF last, b
-----------------------------------------------------------------------------
\* Whoever is on the stack stays where it is when the stack is cut.
LEMMA CutStack ==
    ASSUME EvalInv, NEW n \in 0..Depth,
           onStack' = SubSeq(onStack, 1, n), cell' = cell
    PROVE  /\ onStack' \in Seq(Innies) /\ Depth' = n
           /\ NoReentry' /\ OnlyLoopsOnStack'
<1>1. onStack \in Seq(Innies) /\ Depth \in Nat /\ Depth = Len(onStack)
  BY DEF EvalInv, StackTypeOK, Depth
<1>2. onStack' \in Seq(Innies) /\ Len(onStack') = n /\ \A h \in 1..n : onStack'[h] = onStack[h]
  BY <1>1
<1>3. Depth' = n /\ 1..n \subseteq 1..Depth
  BY <1>1, <1>2 DEF Depth
<1>4. NoReentry'
  BY <1>2, <1>3 DEF EvalInv, NoReentry
<1>5. OnlyLoopsOnStack'
  BY <1>2, <1>3 DEF EvalInv, OnlyLoopsOnStack
<1> QED
  BY <1>2, <1>3, <1>4, <1>5

\* A step that settles a loop leaves the stack alone.
LEMMA KeptStack ==
    ASSUME EvalInv, UNCHANGED <<onStack, barriers, probes>>,
           NEW first \in Nat, NEW last \in Nat, cell' = CellsWith(first, last)
    PROVE  EvalInv'
<1>1. StackTypeOK'
  BY DEF EvalInv, StackTypeOK, CellsWith, EvaluatorAssumption, CellsAssumption
<1>2. Depth' = Depth
  BY DEF Depth
<1>3. NoReentry' /\ BarriersAreProbes' /\ TopIsAtWork'
  BY <1>2 DEF EvalInv, NoReentry, BarriersAreProbes, TopIsAtWork
<1>4. \A h \in 1..Depth : onStack[h] \in Innies
  BY DEF EvalInv, StackTypeOK, Depth
<1>5. OnlyLoopsOnStack'
  BY <1>2, <1>4 DEF EvalInv, OnlyLoopsOnStack, CellsWith
<1> QED
  BY <1>1, <1>3, <1>5 DEF EvalInv

\* No probes in flight: no barriers.
LEMMA NoBarriers ==
    ASSUME EvalInv, \A h \in 1..Depth : ~probes[h]
    PROVE  barriers = <<>>
<1>1. {barriers[k] : k \in DOMAIN barriers} = {}
  BY DEF EvalInv, BarriersAreProbes
<1>2. barriers \in Seq(Nat) /\ DOMAIN barriers = {}
  BY <1>1 DEF EvalInv, StackTypeOK
<1>3. Len(barriers) \notin Nat \ {0}
  BY <1>2
<1> QED
  BY <1>2, <1>3, EmptySeq

LEMMA EnterStep ==
    ASSUME EvalInv, NEW i \in Innies, Enter(i)
    PROVE  EvalInv'
<1>1. /\ onStack' = <<i>> /\ probes' = <<FALSE>> /\ cell' = cell /\ barriers' = barriers
      /\ cell[i] = Pending /\ onStack = <<>>
  BY DEF Enter, Settled
<1>2. barriers = <<>>
  BY <1>1, NoBarriers DEF Depth
<1>3. Depth' = 1 /\ StackTypeOK'
  BY <1>1, <1>2 DEF EvalInv, StackTypeOK, Depth
<1>4. NoReentry' /\ TopIsAtWork' /\ OnlyLoopsOnStack'
  BY <1>1, <1>3 DEF NoReentry, TopIsAtWork, OnlyLoopsOnStack
<1>5. BarriersAreProbes'
  <2>1. Len(probes') = 1 /\ ~probes'[1] /\ DOMAIN barriers' = {}
    BY <1>1, <1>2
  <2>2. {h \in 1..1 : probes'[h]} = {} /\ {barriers'[k] : k \in DOMAIN barriers'} = {}
    BY <2>1
  <2> QED
    BY <1>3, <2>1, <2>2 DEF BarriersAreProbes
<1> QED
  BY <1>3, <1>4, <1>5 DEF EvalInv

LEMMA PushStep ==
    ASSUME EvalInv, NEW id \in Innies, NEW probe \in BOOLEAN, Push(id, probe)
    PROVE  EvalInv'
<1> DEFINE b == BarriersWith(probe)
<1>1. /\ onStack # <<>> /\ cell[id] = Pending /\ cell' = cell
      /\ \A h \in 1..Depth : onStack[h] # id
      /\ onStack' = Append(onStack, id)
      /\ probes' = Append([probes EXCEPT ![Depth] = probe], FALSE)
      /\ barriers' = b
  BY DEF Push, Settled, OnStack
<1>2. /\ b \in Seq(Nat)
      /\ \A j, k \in DOMAIN b : j < k => b[j] < b[k]
      /\ {b[k] : k \in DOMAIN b} = {h \in 1..Depth : InProbe(h, probe)}
  BY <1>1, BarriersWithProbe
<1> HIDE DEF b
<1>3. /\ onStack \in Seq(Innies) /\ Depth = Len(onStack) /\ Depth \in Nat \ {0}
      /\ probes \in Seq(BOOLEAN) /\ Len(probes) = Depth /\ probes[Depth] = FALSE
  BY <1>1 DEF EvalInv, StackTypeOK, BarriersAreProbes, TopIsAtWork, Depth
<1>4. /\ onStack' \in Seq(Innies) /\ Depth' = Depth + 1
      /\ \A h \in 1..Depth : onStack'[h] = onStack[h]
      /\ onStack'[Depth + 1] = id
  BY <1>1, <1>3 DEF Depth
<1>5. /\ probes' \in Seq(BOOLEAN) /\ Len(probes') = Depth + 1
      /\ \A h \in 1..Depth : probes'[h] = InProbe(h, probe)
      /\ probes'[Depth + 1] = FALSE
  <2>1. /\ probes' \in Seq(BOOLEAN) /\ Len(probes') = Depth + 1
        /\ probes'[Depth] = probe /\ probes'[Depth + 1] = FALSE
        /\ \A h \in 1..(Depth - 1) : probes'[h] = probes[h]
    <3>1. probes # <<>>
      BY <1>3
    <3>2. PICK S, v, w, p, f : S = BOOLEAN /\ v = probe /\ w = FALSE /\ p = probes /\ f = probes'
      OBVIOUS
    <3>3. /\ p \in Seq(S) /\ p # <<>> /\ v \in S /\ w \in S /\ Len(p) = Depth
          /\ f = Append([p EXCEPT ![Depth] = v], w)
      BY <1>1, <1>3, <3>1, <3>2, Zenon
    <3>4. f = Append([p EXCEPT ![Len(p)] = v], w)
      BY <3>3, Zenon
    <3>5. /\ f \in Seq(S) /\ Len(f) = Len(p) + 1
          /\ f[Len(p)] = v /\ f[Len(p) + 1] = w
          /\ \A h \in 1..(Len(p) - 1) : f[h] = p[h]
      BY <3>3, <3>4, MarkAndAppend
    <3> QED
      BY <3>2, <3>3, <3>5, Zenon
  <2>2. \A h \in 1..Depth : h = Depth \/ (h \in 1..(Depth - 1) /\ h # Depth)
    BY <1>3
  <2>3. InProbe(Depth, probe) = probe
    BY <1>3 DEF InProbe
  <2>4. \A h \in 1..(Depth - 1) : h # Depth => InProbe(h, probe) = probes[h]
    BY <1>3 DEF InProbe
  <2> QED
    BY <2>1, <2>2, <2>3, <2>4, Zenon
<1>6. StackTypeOK'
  BY <1>1, <1>2, <1>4, <1>5 DEF EvalInv, StackTypeOK
<1>7. 1..(Depth + 1) = 1..Depth \cup {Depth + 1}
  BY <1>3
<1>8. NoReentry'
  <2>1. \A g, h \in 1..Depth : onStack[g] = onStack[h] => g = h
    BY DEF EvalInv, NoReentry
  <2>2. \A g, h \in 1..(Depth + 1) : onStack'[g] = onStack'[h] => g = h
    BY <1>1, <1>4, <1>7, <2>1
  <2> QED
    BY <1>4, <2>2 DEF NoReentry
<1>9. BarriersAreProbes'
  <2>1. {h \in 1..(Depth + 1) : probes'[h]} = {h \in 1..Depth : InProbe(h, probe)}
    BY <1>3, <1>5, <1>7
  <2> QED
    BY <1>1, <1>2, <1>4, <1>5, <2>1 DEF BarriersAreProbes
<1>10. TopIsAtWork'
  BY <1>4, <1>5 DEF TopIsAtWork
<1>11. OnlyLoopsOnStack'
  BY <1>1, <1>4, <1>7 DEF EvalInv, OnlyLoopsOnStack
<1> QED
  BY <1>6, <1>8, <1>9, <1>10, <1>11 DEF EvalInv

LEMMA ReenterStep ==
    ASSUME EvalInv, NEW id \in Innies, NEW probe \in BOOLEAN, Reenter(id, probe)
    PROVE  EvalInv'
<1> DEFINE b == BarriersWith(probe)
           n == Innermost(probe)
           I == {h \in 1..Depth : InProbe(h, probe)}
<1>1. /\ onStack # <<>> /\ b # <<>> /\ cell' = cell
      /\ onStack' = SubSeq(onStack, 1, n)
      /\ probes' = [SubSeq(probes, 1, n) EXCEPT ![n] = FALSE]
      /\ barriers' = FrontOf(b)
  BY DEF Reenter, Deferrable
<1>2. /\ b \in Seq(Nat)
      /\ \A j, k \in DOMAIN b : j < k => b[j] < b[k]
      /\ {b[k] : k \in DOMAIN b} = I
  BY <1>1, BarriersWithProbe
<1>3. n = LastOf(b) /\ n \in 1..Depth /\ \A k \in I : k <= n
  BY <1>1, ReentryIsCaught
<1> HIDE DEF b, n
<1>4. /\ onStack \in Seq(Innies) /\ Depth = Len(onStack) /\ Depth \in Nat
      /\ probes \in Seq(BOOLEAN) /\ Len(probes) = Depth
  BY DEF EvalInv, StackTypeOK, BarriersAreProbes, Depth
<1>5. onStack' \in Seq(Innies) /\ Depth' = n /\ NoReentry' /\ OnlyLoopsOnStack'
  BY <1>1, <1>3, <1>4, CutStack
<1>6. /\ probes' \in Seq(BOOLEAN) /\ Len(probes') = n /\ probes'[n] = FALSE
      /\ \A h \in 1..(n - 1) : probes'[h] = probes[h]
  <2>1. n \in 1..Len(probes)
    BY <1>3, <1>4
  <2>2. PICK S, v, p, f : S = BOOLEAN /\ v = FALSE /\ p = probes /\ f = probes'
    OBVIOUS
  <2>3. /\ p \in Seq(S) /\ n \in 1..Len(p) /\ v \in S
        /\ f = [SubSeq(p, 1, n) EXCEPT ![n] = v]
    BY <1>1, <1>4, <2>1, <2>2, Zenon
  <2>4. /\ f \in Seq(S) /\ Len(f) = n /\ f[n] = v
        /\ \A h \in 1..(n - 1) : f[h] = p[h]
    BY <2>3, CutAndMark
  <2> QED
    BY <2>2, <2>4, Zenon
<1>7. /\ \A j, k \in DOMAIN barriers' : j < k => barriers'[j] < barriers'[k]
      /\ {barriers'[k] : k \in DOMAIN barriers'} = I \ {n}
      /\ barriers' \in Seq(Nat)
  <2>1. /\ \A j, k \in DOMAIN FrontOf(b) : j < k => FrontOf(b)[j] < FrontOf(b)[k]
        /\ {FrontOf(b)[k] : k \in DOMAIN FrontOf(b)} = {b[k] : k \in DOMAIN b} \ {LastOf(b)}
    BY <1>1, <1>2, Increasing
  <2>2. FrontOf(b) \in Seq(Nat)
    BY <1>1, <1>2, FrontFacts
  <2> HIDE DEF I
  <2> QED
    BY <1>1, <1>2, <1>3, <2>1, <2>2, Zenon
<1>8. I \ {n} = {h \in 1..n : probes'[h]}
  <2>1. \A h \in 1..(n - 1) : h \in 1..Depth /\ h # Depth
    BY <1>3, <1>4
  <2>2. \A h \in 1..(n - 1) : h \in I <=> probes'[h]
    BY <1>6, <2>1 DEF InProbe
  <2>3. 1..n = 1..(n - 1) \cup {n} /\ n \notin 1..(n - 1)
    BY <1>3, <1>4
  <2>4. \A h \in I \ {n} : h \in 1..(n - 1)
    BY <1>3, <1>4
  <2> HIDE DEF I
  <2> QED
    BY <1>6, <2>2, <2>3, <2>4
<1>9. BarriersAreProbes'
  BY <1>5, <1>6, <1>7, <1>8 DEF BarriersAreProbes
<1>10. TopIsAtWork' /\ StackTypeOK'
  BY <1>1, <1>5, <1>6, <1>7 DEF TopIsAtWork, StackTypeOK, EvalInv
<1> QED
  BY <1>5, <1>9, <1>10 DEF EvalInv

\* Leaving result_for: the probe the caller made, if it made one, is the
\* innermost, and its barrier is the one that goes.
LEMMA LeaveStep ==
    ASSUME EvalInv, Leave
    PROVE  /\ onStack' = SubSeq(onStack, 1, Depth - 1) /\ Depth \in Nat \ {0}
           /\ probes' \in Seq(BOOLEAN) /\ barriers' \in Seq(Nat)
           /\ Len(onStack') = Depth - 1
           /\ BarriersAreProbes' /\ TopIsAtWork'
<1>1. /\ onStack # <<>>
      /\ onStack' = SubSeq(onStack, 1, Depth - 1)
      /\ probes' = IF Depth = 1 THEN <<>> ELSE [FrontOf(probes) EXCEPT ![Depth - 1] = FALSE]
      /\ barriers' = IF Depth > 1 /\ probes[Depth - 1] THEN FrontOf(barriers) ELSE barriers
  BY DEF Leave, FrontOf, Depth
<1> DEFINE P == {h \in 1..Depth : probes[h]}
<1>2. /\ onStack \in Seq(Innies) /\ Depth = Len(onStack) /\ Depth \in Nat \ {0}
      /\ probes \in Seq(BOOLEAN) /\ Len(probes) = Depth /\ Depth \notin P
      /\ barriers \in Seq(Nat)
      /\ \A j, k \in DOMAIN barriers : j < k => barriers[j] < barriers[k]
      /\ {barriers[k] : k \in DOMAIN barriers} = P
  <2>1. onStack \in Seq(Innies) /\ Depth = Len(onStack) /\ Depth \in Nat \ {0}
    BY <1>1 DEF EvalInv, StackTypeOK, Depth
  <2>2. probes \in Seq(BOOLEAN) /\ Len(probes) = Depth /\ barriers \in Seq(Nat)
    BY DEF EvalInv, StackTypeOK, BarriersAreProbes
  <2>3. Depth \notin P
    BY <1>1 DEF EvalInv, TopIsAtWork
  <2>4. /\ \A j, k \in DOMAIN barriers : j < k => barriers[j] < barriers[k]
        /\ {barriers[k] : k \in DOMAIN barriers} = P
    BY DEF EvalInv, BarriersAreProbes
  <2> QED
    BY <2>1, <2>2, <2>3, <2>4
<1>3. Len(onStack') = Depth - 1 /\ Depth' = Depth - 1
  BY <1>1, <1>2 DEF Depth
<1>4. /\ probes' \in Seq(BOOLEAN) /\ Len(probes') = Depth - 1
      /\ \A h \in 1..(Depth - 2) : probes'[h] = probes[h]
      /\ Depth > 1 => probes'[Depth - 1] = FALSE
  <2>1. CASE Depth = 1
    BY <1>1, <1>2, <2>1
  <2>2. CASE Depth # 1
    <3>1. Depth - 1 \in 1..Len(probes) /\ Depth > 1 /\ (Depth - 1) - 1 = Depth - 2
      BY <1>2, <2>2
    <3>2. probes' = [SubSeq(probes, 1, Depth - 1) EXCEPT ![Depth - 1] = FALSE]
      BY <1>1, <1>2, <2>2 DEF FrontOf
    <3> HIDE DEF P
    <3>3. /\ probes' \in Seq(BOOLEAN) /\ Len(probes') = Depth - 1 /\ probes'[Depth - 1] = FALSE
          /\ \A h \in 1..((Depth - 1) - 1) : probes'[h] = probes[h]
      <4>1. PICK S, v, p, f, n : /\ S = BOOLEAN /\ v = FALSE /\ p = probes /\ f = probes'
                                 /\ n = Depth - 1
        OBVIOUS
      <4>2. /\ p \in Seq(S) /\ n \in 1..Len(p) /\ v \in S
            /\ f = [SubSeq(p, 1, n) EXCEPT ![n] = v]
        BY <1>2, <3>1, <3>2, <4>1, Zenon
      <4>3. /\ f \in Seq(S) /\ Len(f) = n /\ f[n] = v
            /\ \A h \in 1..(n - 1) : f[h] = p[h]
        BY <4>2, CutAndMark
      <4> QED
        BY <4>1, <4>3, Zenon
    <3> QED
      BY <3>1, <3>3, Zenon
  <2> QED
    BY <2>1, <2>2
<1>5. TopIsAtWork'
  BY <1>1, <1>2, <1>3, <1>4 DEF TopIsAtWork
<1>6. {h \in 1..(Depth - 1) : probes'[h]} = P \ {Depth - 1}
  <2>1. \A h \in 1..(Depth - 1) : h # Depth - 1 => h \in 1..(Depth - 2) /\ h \in 1..Depth
    BY <1>2
  <2>2. ASSUME NEW h \in 1..(Depth - 1) PROVE probes'[h] <=> h \in P \ {Depth - 1}
    <3>1. CASE h = Depth - 1
      <4>1. probes'[Depth - 1] = FALSE
        BY <1>2, <1>4, <3>1
      <4> QED
        BY <3>1, <4>1, Zenon
    <3>2. CASE h # Depth - 1
      <4>1. h \in 1..(Depth - 2) /\ h \in 1..Depth
        BY <2>1, <3>2
      <4>2. probes'[h] = probes[h]
        BY <1>4, <4>1
      <4> QED
        BY <3>2, <4>1, <4>2, Zenon
    <3> QED
      BY <3>1, <3>2
  <2>3. \A h \in P : h \in 1..(Depth - 1)
    BY <1>2
  <2> HIDE DEF P
  <2> QED
    BY <2>2, <2>3
<1>7. /\ barriers' \in Seq(Nat)
      /\ \A j, k \in DOMAIN barriers' : j < k => barriers'[j] < barriers'[k]
      /\ {barriers'[k] : k \in DOMAIN barriers'} = P \ {Depth - 1}
  <2>1. CASE Depth > 1 /\ probes[Depth - 1]
    <3>1. Depth - 1 \in P /\ \A h \in P : h <= Depth - 1
      BY <1>2, <2>1
    <3>2. barriers # <<>>
      <4> SUFFICES ASSUME barriers = <<>> PROVE FALSE
        OBVIOUS
      <4>1. \A k \in DOMAIN barriers : FALSE
        BY EmptySeq, LenProperties
      <4>2. \E k \in DOMAIN barriers : barriers[k] = Depth - 1
        BY <1>2, <3>1
      <4> QED
        BY <4>1, <4>2
    <3>3. /\ \A j \in DOMAIN barriers : barriers[j] <= LastOf(barriers)
          /\ LastOf(barriers) \in P
      <4>1. \A j \in DOMAIN barriers : barriers[j] <= LastOf(barriers)
        BY <1>2, <3>2, Increasing
      <4>2. Len(barriers) \in DOMAIN barriers
        BY <1>2, <3>2, EmptySeq, LenProperties
      <4> HIDE DEF P
      <4> QED
        BY <1>2, <4>1, <4>2 DEF LastOf
    <3>4. LastOf(barriers) = Depth - 1
      <4> HIDE DEF P
      <4>1. \A h \in P : h <= LastOf(barriers)
        BY <1>2, <3>3
      <4>2. LastOf(barriers) \in Nat
        BY <1>2, <3>2, FrontFacts
      <4> QED
        BY <1>2, <3>1, <3>3, <4>1, <4>2
    <3> HIDE DEF P
    <3> QED
      <4>1. /\ \A j, k \in DOMAIN FrontOf(barriers) : j < k => FrontOf(barriers)[j] < FrontOf(barriers)[k]
            /\ {FrontOf(barriers)[k] : k \in DOMAIN FrontOf(barriers)}
                    = {barriers[k] : k \in DOMAIN barriers} \ {LastOf(barriers)}
        BY <1>2, <3>2, Increasing
      <4>2. FrontOf(barriers) \in Seq(Nat)
        BY <1>2, <3>2, FrontFacts
      <4> QED
        <5>1. barriers' = FrontOf(barriers)
          BY <1>1, <2>1, Zenon
        <5>2. {FrontOf(barriers)[k] : k \in DOMAIN FrontOf(barriers)} = P \ {Depth - 1}
          BY <1>2, <3>4, <4>1, Zenon
        <5> QED
          BY <4>1, <4>2, <5>1, <5>2, Zenon
  <2>2. CASE ~(Depth > 1 /\ probes[Depth - 1])
    <3>1. Depth - 1 \notin P
      BY <1>2, <2>2
    <3> HIDE DEF P
    <3> QED
      BY <1>1, <1>2, <2>2, <3>1
  <2> QED
    BY <2>1, <2>2
<1>8. BarriersAreProbes'
  BY <1>3, <1>4, <1>6, <1>7 DEF BarriersAreProbes
<1> QED
  BY <1>1, <1>2, <1>3, <1>4, <1>5, <1>7, <1>8

LEMMA ReturnStep ==
    ASSUME EvalInv, NEW result \in Results, Return(result)
    PROVE  EvalInv'
<1> DEFINE top == LastOf(onStack)
<1>1. /\ onStack' = SubSeq(onStack, 1, Depth - 1) /\ Depth \in Nat \ {0}
      /\ probes' \in Seq(BOOLEAN) /\ barriers' \in Seq(Nat)
      /\ Len(onStack') = Depth - 1
      /\ BarriersAreProbes' /\ TopIsAtWork'
  BY LeaveStep DEF Return
<1>2. onStack \in Seq(Innies) /\ Depth = Len(onStack) /\ top = onStack[Depth] /\ top \in Innies
  BY <1>1 DEF EvalInv, StackTypeOK, Depth, LastOf
<1>3. cell' = IF cell[top] # Pending THEN cell ELSE [cell EXCEPT ![top] = result]
  BY DEF Return, Settled
<1> HIDE DEF top
<1>4. /\ onStack' \in Seq(Innies) /\ Depth' = Depth - 1
      /\ \A h \in 1..(Depth - 1) : onStack'[h] = onStack[h] /\ h \in 1..Depth /\ h # Depth
  BY <1>1, <1>2 DEF Depth
<1>5. \A h \in 1..(Depth - 1) : onStack[h] # top
  BY <1>1, <1>2, <1>4, SMTT(30) DEF EvalInv, NoReentry
<1>6. StackTypeOK'
  BY <1>1, <1>2, <1>3, <1>4 DEF EvalInv, StackTypeOK
<1>7. NoReentry'
  BY <1>4 DEF EvalInv, NoReentry
<1>8. OnlyLoopsOnStack'
  <2>1. \A h \in 1..(Depth - 1) : cell'[onStack[h]] = cell[onStack[h]]
    BY <1>3, <1>5 DEF EvalInv, StackTypeOK
  <2> QED
    BY <1>4, <2>1 DEF EvalInv, OnlyLoopsOnStack
<1> QED
  BY <1>1, <1>6, <1>7, <1>8 DEF EvalInv

LEMMA AbandonStep ==
    ASSUME EvalInv, Abandon
    PROVE  EvalInv'
<1>1. /\ onStack' = SubSeq(onStack, 1, Depth - 1) /\ Depth \in Nat \ {0}
      /\ probes' \in Seq(BOOLEAN) /\ barriers' \in Seq(Nat)
      /\ BarriersAreProbes' /\ TopIsAtWork'
  BY LeaveStep DEF Abandon
<1>2. cell' = cell
  BY DEF Abandon
<1>3. onStack' \in Seq(Innies) /\ NoReentry' /\ OnlyLoopsOnStack'
  BY <1>1, <1>2, CutStack
<1> QED
  BY <1>1, <1>2, <1>3 DEF EvalInv, StackTypeOK

LEMMA HeightIsNat ==
    ASSUME EvalInv, NEW id \in Innies, OnStack(id)
    PROVE  HeightOf(id) \in 1..Depth /\ onStack[HeightOf(id)] = id
  BY DEF OnStack, HeightOf

LEMMA SettleSteps ==
    ASSUME EvalInv, NEW id \in Innies, NEW probe \in BOOLEAN,
           SettleCycle(id, probe) \/ SettlePart(id, probe)
    PROVE  EvalInv'
<1>1. OnStack(id) /\ UNCHANGED <<onStack, barriers, probes>>
  BY DEF SettleCycle, SettlePart
<1>2. HeightOf(id) \in Nat /\ Depth \in Nat
  BY <1>1, HeightIsNat DEF EvalInv, StackTypeOK, Depth
<1>3. PICK last \in Nat : cell' = CellsWith(HeightOf(id), last)
  BY <1>2 DEF SettleCycle, SettlePart
<1> QED
  BY <1>1, <1>2, <1>3, KeptStack

-----------------------------------------------------------------------------
LEMMA InitEvalInv == EvalInit => EvalInv
<1> SUFFICES ASSUME EvalInit PROVE EvalInv
  OBVIOUS
<1>1. StackTypeOK /\ Depth = 0
  BY DEF EvalInit, StackTypeOK, Depth
<1>2. NoReentry /\ BarriersAreProbes /\ TopIsAtWork /\ OnlyLoopsOnStack
  BY <1>1 DEF EvalInit, NoReentry, BarriersAreProbes, TopIsAtWork, OnlyLoopsOnStack, Depth
<1> QED
  BY <1>1, <1>2 DEF EvalInv

LEMMA NextEvalInv == EvalInv /\ [EvalNext]_evalVars => EvalInv'
<1> SUFFICES ASSUME EvalInv, [EvalNext]_evalVars PROVE EvalInv'
  OBVIOUS
<1>1. CASE UNCHANGED evalVars
  BY <1>1 DEF evalVars, EvalInv, StackTypeOK, NoReentry, BarriersAreProbes, TopIsAtWork,
              OnlyLoopsOnStack, Depth
<1>2. ASSUME NEW i \in Innies, Enter(i) PROVE EvalInv'
  BY <1>2, EnterStep
<1>3. ASSUME NEW id \in Innies, NEW probe \in BOOLEAN, Push(id, probe) PROVE EvalInv'
  BY <1>3, PushStep
<1>4. ASSUME NEW id \in Innies, NEW probe \in BOOLEAN, Reenter(id, probe) PROVE EvalInv'
  BY <1>4, ReenterStep
<1>5. ASSUME NEW id \in Innies, NEW probe \in BOOLEAN,
             SettleCycle(id, probe) \/ SettlePart(id, probe)
      PROVE  EvalInv'
  BY <1>5, SettleSteps
<1>6. ASSUME NEW result \in Results, Return(result) PROVE EvalInv'
  BY <1>6, ReturnStep
<1>7. CASE Abandon
  BY <1>7, AbandonStep
<1> QED
  BY <1>1, <1>2, <1>3, <1>4, <1>5, <1>6, <1>7 DEF EvalNext

\* The invariant of the lazy evaluator: the stack, the barriers and the probes
\* agree, at every step and after every unwinding.
THEOREM AlwaysEvalInv == EvalSpec => []EvalInv
<1> QED
  BY InitEvalInv, NextEvalInv, PTL DEF EvalSpec

\* No Innie is ever evaluated inside itself.
THEOREM NeverReentered == EvalSpec => []NoReentry
<1>1. EvalInv => NoReentry
  BY DEF EvalInv
<1> QED
  BY <1>1, AlwaysEvalInv, PTL

\* The barriers are those of the probes in flight.
THEOREM BarriersStandForProbes == EvalSpec => []BarriersAreProbes
<1>1. EvalInv => BarriersAreProbes
  BY DEF EvalInv
<1> QED
  BY <1>1, AlwaysEvalInv, PTL

\* What has settled stays as it is.
LEMMA SettledStays ==
    ASSUME EvalInv, [EvalNext]_evalVars, NEW i \in Innies, cell[i] # Pending
    PROVE  cell'[i] = cell[i]
<1>1. cell \in [Innies -> Results \cup {Pending}]
  BY DEF EvalInv, StackTypeOK
<1>2. \A first, last : CellsWith(first, last)[i] = cell[i]
  BY DEF CellsWith, Settled
<1>3. ASSUME NEW result \in Results, Return(result) PROVE cell'[i] = cell[i]
  BY <1>1, <1>3 DEF Return, Settled
<1>4. ASSUME NEW id \in Innies, NEW probe \in BOOLEAN,
             SettleCycle(id, probe) \/ SettlePart(id, probe)
      PROVE  cell'[i] = cell[i]
  BY <1>2, <1>4 DEF SettleCycle, SettlePart
<1> QED
  BY <1>3, <1>4 DEF EvalNext, Enter, Push, Reenter, Abandon, evalVars

-----------------------------------------------------------------------------
(***************************************************************************)
(* Real programs.                                                          *)
(***************************************************************************)

USE SerialAssumption

\* The list of the Innies is one of those the schedule may come in.
ListOK == order \in Orders

-----------------------------------------------------------------------------
\* Being in a probe or not is one or the other.
LEMMA ProbingIsBoolean == Probing \in BOOLEAN
<1>1. CASE Probing
  BY <1>1 DEF Probing
<1>2. CASE ~Probing
  BY <1>2 DEF Probing
<1> QED
  BY <1>1, <1>2

\* Some Innie of the list has no result yet, and `run` goes on with the first.
LEMMA NextOfTheList ==
    ASSUME ListOK, NEW i \in Innies, ~Settled(i)
    PROVE  LET k == Sets!Min({k \in DOMAIN order : ~Settled(order[k])})
           IN  k \in DOMAIN order /\ order[k] \in Innies /\ ~Settled(order[k])
<1> DEFINE K == {k \in DOMAIN order : ~Settled(order[k])}
<1>1. order \in Seq(Innies) /\ {order[k] : k \in DOMAIN order} = Innies
  BY DEF ListOK
<1>2. K \in SUBSET Nat /\ K # {} /\ K \subseteq 1..Len(order) /\ Len(order) \in Nat
  BY <1>1
<1>3. IsFiniteSet(1..Len(order))
  BY <1>2, FS_Interval
<1>4. IsFiniteSet(K)
  BY <1>2, <1>3, FS_Subset
<1>5. PICK n \in K : \A k \in K : n <= k
  <2> HIDE DEF K
  <2> QED
    BY <1>2, <1>4, LeastExists
<1>6. Sets!Min(K) \in K
  BY <1>5 DEF Sets!Min
<1> QED
  BY <1>1, <1>6

\* A step of the serial runner is a step of the lazy evaluator, or leaves its
\* variables alone.
LEMMA SerialStepIsEvalStep ==
    ASSUME ListOK, SerialNext PROVE [EvalNext]_evalVars
<1>1. CASE Start
  <2>1. PICK i \in Innies : ~Settled(i)
    BY <1>1 DEF Start
  <2> DEFINE k == Sets!Min({n \in DOMAIN order : ~Settled(order[n])})
  <2>2. order[k] \in Innies
    BY <2>1, NextOfTheList
  <2>3. Enter(order[k])
    BY <1>1 DEF Start
  <2> QED
    BY <2>2, <2>3 DEF EvalNext
<1>2. ASSUME NEW id \in Innies, Descend(id) \/ Defer(id) \/ Deadlock(id) \/ OverflowInCycle(id)
      PROVE  EvalNext
  <2>1. Push(id, Probing) \/ Reenter(id, Probing) \/ SettleCycle(id, Probing)
            \/ SettlePart(id, Probing)
    BY <1>2 DEF Descend, Defer, Deadlock, OverflowInCycle
  <2>2. Probing \in BOOLEAN
    BY ProbingIsBoolean
  <2> QED
    BY <2>1, <2>2 DEF EvalNext
<1>3. ASSUME NEW id \in Innies, Take(id) PROVE UNCHANGED evalVars
  BY <1>3 DEF Take
<1>4. CASE Unwrap \/ SecondPass \/ FoldOver \/ Overflow
  BY <1>4 DEF Unwrap, SecondPass, FoldOver, Overflow
<1>5. CASE Publish \/ OverflowInReturn
  BY <1>5 DEF Publish, OverflowInReturn, EvalNext
<1>6. CASE Done
  BY <1>6 DEF Done, serialVars
<1> QED
  BY <1>1, <1>2, <1>3, <1>4, <1>5, <1>6 DEF SerialNext, Walk, Stray

\* The list does not change.
LEMMA ListStays ==
    ASSUME ListOK, [SerialNext]_serialVars PROVE ListOK'
<1>1. order' = order
  BY DEF SerialNext, Walk, Stray, Start, Descend, Take, Defer, Deadlock, Unwrap, SecondPass, FoldOver,
         Publish, Overflow, OverflowInReturn, OverflowInCycle, Done, serialVars
<1> QED
  BY <1>1 DEF ListOK

\* The serial runner implements the lazy evaluator: what its programs ask for
\* and how they end is one of the courses LazyEvaluator leaves open.
THEOREM SerialImplementsEvaluator == SerialSpec => EvalSpec
<1>1. SerialInit => EvalInit /\ ListOK
  BY DEF SerialInit, ListOK
<1>2. ListOK /\ [SerialNext]_serialVars => [EvalNext]_evalVars /\ ListOK'
  <2>1. UNCHANGED serialVars => UNCHANGED evalVars
    BY DEF serialVars
  <2> QED
    BY <2>1, SerialStepIsEvalStep, ListStays
<1> QED
  BY <1>1, <1>2, PTL DEF SerialSpec, EvalSpec

\* No Innie of a schedule is evaluated inside its own evaluation.
THEOREM SerialNeverReenters == SerialSpec => []NoReentry
<1> QED
  BY SerialImplementsEvaluator, NeverReentered, PTL

\* The barriers are those of the probes in flight, whatever the programs ask for
\* and wherever a branch was deferred.
THEOREM SerialBarriers == SerialSpec => []BarriersAreProbes
<1> QED
  BY SerialImplementsEvaluator, BarriersStandForProbes, PTL

-----------------------------------------------------------------------------
(***************************************************************************)
(* The frames stand on each other.                                         *)
(***************************************************************************)

IsFrame(f) ==
    /\ f = [day |-> f.day, at |-> f.at, second |-> f.second, later |-> f.later,
            faults |-> f.faults]
    /\ f.at \in Nat \ {0}
    /\ f.second \in BOOLEAN
    /\ f.later \in Seq(Nat)

\* The frame past the branch, or the Innie, it was at; and with one more fault.
Past(f) == [f EXCEPT !.at = @ + 1]
Faulted(f, k) == [f EXCEPT !.faults = @ \cup {k}]

\* The frame once it has put off the branch it was at.
PutOffNext(f) == [f EXCEPT !.later = Append(@, f.at), !.at = @ + 1]

InFirstPass(f) == NextAsk(f.day).for = "fold" /\ ~f.second

\* The frame f asks for i, in a probe or not.
AsksFor(f, i, probed) ==
    /\ f.at <= Len(Asked(f))
    /\ Asking(f) = i
    /\ probed <=> InFirstPass(f)

FramesInv ==
    /\ frames = [h \in 1..Depth |-> frames[h]]
    /\ \A h \in 1..Depth : IsFrame(frames[h])
    /\ \A h \in 1..(Depth - 1) : AsksFor(frames[h], onStack[h + 1], probes[h])

\* A list is a list of what is in it.
LEMMA ListOfItself ==
    ASSUME NEW n \in Nat, NEW s, s = [h \in 1..n |-> s[h]], NEW x
    PROVE  \E S : s \in Seq(S) /\ x \in S /\ Len(s) = n
<1>1. PICK S : S = {s[h] : h \in 1..n} \cup {x}
  OBVIOUS
<1>2. \A h \in 1..n : s[h] \in S
  BY <1>1
<1>3. s \in [1..n -> S]
  BY <1>2
<1>4. s \in Seq(S)
  BY <1>3
<1> QED
  BY <1>1, <1>3, <1>4

LEMMA OneMoreFrame ==
    ASSUME NEW n \in Nat, NEW s, s = [h \in 1..n |-> s[h]], NEW x
    PROVE  Append(s, x) = [h \in 1..(n + 1) |-> IF h = n + 1 THEN x ELSE s[h]]
<1>1. PICK S : s \in Seq(S) /\ x \in S /\ Len(s) = n
  BY ListOfItself, ZenonT(30)
<1> QED
  BY <1>1

LEMMA FewerFrames ==
    ASSUME NEW n \in Nat, NEW s, s = [h \in 1..n |-> s[h]], NEW m \in 0..n
    PROVE  SubSeq(s, 1, m) = [h \in 1..m |-> s[h]]
<1>1. PICK S : s \in Seq(S) /\ Len(s) = n
  BY ListOfItself
<1> QED
  BY <1>1

\* A new frame is one, and so is a frame that has gone on.
LEMMA FreshFrame ==
    ASSUME NEW d PROVE IsFrame(Frame(d)) /\ Frame(d).day = d
BY EmptySeq DEF IsFrame, Frame

LEMMA NextFrame ==
    ASSUME NEW f, IsFrame(f), NEW g, g = [f EXCEPT !.at = @ + 1]
    PROVE  /\ IsFrame(g) /\ g.at = f.at + 1
           /\ g.day = f.day /\ g.second = f.second /\ g.later = f.later /\ g.faults = f.faults
BY DEF IsFrame

LEMMA FaultyFrame ==
    ASSUME NEW f, IsFrame(f), NEW k, NEW g, g = Faulted(f, k)
    PROVE  /\ IsFrame(g) /\ g.faults = f.faults \cup {k}
           /\ g.at = f.at /\ g.day = f.day /\ g.second = f.second /\ g.later = f.later
<1>1. DOMAIN f = {"day", "at", "second", "later", "faults"}
  BY DEF IsFrame
<1>2. /\ g.faults = f.faults \cup {k}
      /\ g.at = f.at /\ g.day = f.day /\ g.second = f.second /\ g.later = f.later
  BY <1>1 DEF Faulted
<1>3. g = [day |-> g.day, at |-> g.at, second |-> g.second, later |-> g.later,
           faults |-> g.faults]
  BY <1>1 DEF Faulted
<1> QED
  BY <1>2, <1>3 DEF IsFrame

LEMMA SecondFrame ==
    ASSUME NEW f, IsFrame(f), NEW g, g = [f EXCEPT !.second = TRUE, !.at = 1]
    PROVE  /\ IsFrame(g) /\ g.second = TRUE /\ g.at = 1
           /\ g.day = f.day /\ g.later = f.later /\ g.faults = f.faults
<1>1. DOMAIN f = {"day", "at", "second", "later", "faults"}
  BY DEF IsFrame
<1>2. /\ g.second = TRUE /\ g.at = 1
      /\ g.day = f.day /\ g.later = f.later /\ g.faults = f.faults
  BY <1>1
<1>3. g = [day |-> g.day, at |-> g.at, second |-> g.second, later |-> g.later,
           faults |-> g.faults]
  BY <1>1
<1> QED
  BY <1>2, <1>3 DEF IsFrame

LEMMA DeferringFrame ==
    ASSUME NEW f, IsFrame(f), NEW g, g = PutOffNext(f)
    PROVE  /\ IsFrame(g) /\ g.later = Append(f.later, f.at) /\ g.at = f.at + 1
           /\ g.day = f.day /\ g.second = f.second /\ g.faults = f.faults
<1>1. DOMAIN f = {"day", "at", "second", "later", "faults"}
  BY DEF IsFrame
<1>2. /\ g.later = Append(f.later, f.at) /\ g.at = f.at + 1
      /\ g.day = f.day /\ g.second = f.second /\ g.faults = f.faults
  BY <1>1 DEF PutOffNext
<1>3. g = [day |-> g.day, at |-> g.at, second |-> g.second, later |-> g.later,
           faults |-> g.faults]
  BY <1>1 DEF PutOffNext
<1>4. Append(f.later, f.at) \in Seq(Nat) /\ f.at + 1 \in Nat \ {0} /\ f.second \in BOOLEAN
  BY DEF IsFrame
<1> QED
  BY <1>2, <1>3, <1>4 DEF IsFrame

-----------------------------------------------------------------------------
\* A step of the top alone: the stack stays, and the top frame becomes f.
LEMMA TopGoesOn ==
    ASSUME FramesInv, onStack' = onStack, probes' = probes, Depth \in Nat \ {0},
           NEW f, IsFrame(f), frames' = WithTop(f)
    PROVE  /\ FramesInv' /\ Depth' = Depth /\ frames'[Depth] = f
           /\ \A h \in 1..(Depth - 1) : frames'[h] = frames[h]
<1>1. Depth' = Depth
  BY DEF Depth
<1>2. /\ frames' = [h \in 1..Depth |-> frames'[h]]
      /\ frames'[Depth] = f
      /\ \A h \in 1..(Depth - 1) : frames'[h] = frames[h] /\ h \in 1..Depth
  <2>1. DOMAIN frames = 1..Depth
    BY DEF FramesInv
  <2>2. frames' = [h \in 1..Depth |-> IF h = Depth THEN f ELSE frames[h]]
    BY <2>1 DEF WithTop
  <2>3. Depth \in 1..Depth /\ \A h \in 1..(Depth - 1) : h \in 1..Depth /\ h # Depth
    OBVIOUS
  <2> QED
    BY <2>2, <2>3
<1>3. \A h \in 1..Depth : IsFrame(frames'[h])
  <2>1. \A h \in 1..Depth : h = Depth \/ h \in 1..(Depth - 1)
    OBVIOUS
  <2> QED
    BY <1>2, <2>1 DEF FramesInv
<1>4. \A h \in 1..(Depth - 1) : AsksFor(frames'[h], onStack'[h + 1], probes'[h])
  BY <1>2 DEF FramesInv
<1> QED
  BY <1>1, <1>2, <1>3, <1>4 DEF FramesInv

\* The stack is cut below the top, the frame under the cut becoming f.
LEMMA CutFrames ==
    ASSUME FramesInv, Depth \in Nat \ {0}, NEW n \in 0..Depth, Depth' = n,
           \A h \in 1..n : onStack'[h] = onStack[h],
           \A h \in 1..(n - 1) : probes'[h] = probes[h],
           frames' = [h \in 1..n |-> frames'[h]],
           \A h \in 1..(n - 1) : frames'[h] = frames[h],
           n # 0 => IsFrame(frames'[n])
    PROVE  FramesInv'
<1>1. \A h \in 1..n : IsFrame(frames'[h])
  <2> TAKE h \in 1..n
  <2>1. CASE h = n
    BY <2>1
  <2>2. CASE h # n
    <3>1. h \in 1..(n - 1) /\ h \in 1..Depth
      BY <2>2
    <3> QED
      BY <3>1 DEF FramesInv
  <2> QED
    BY <2>1, <2>2
<1>2. \A h \in 1..(n - 1) : AsksFor(frames'[h], onStack'[h + 1], probes'[h])
  <2> TAKE h \in 1..(n - 1)
  <2>1. h \in 1..(Depth - 1) /\ h + 1 \in 1..n
    OBVIOUS
  <2>2. AsksFor(frames[h], onStack[h + 1], probes[h])
    BY <2>1 DEF FramesInv
  <2> QED
    BY <2>1, <2>2
<1> QED
  BY <1>1, <1>2 DEF FramesInv

\* The frames there are when an Innie is being executed.
LEMMA TopIs ==
    ASSUME EvalInv, FramesInv, onStack # <<>>
    PROVE  /\ Depth \in Nat \ {0} /\ Depth = Len(onStack) /\ onStack \in Seq(Innies)
           /\ Top = frames[Depth] /\ IsFrame(Top)
           /\ probes \in Seq(BOOLEAN) /\ Len(probes) = Depth
<1>1. Depth \in Nat \ {0} /\ Depth = Len(onStack) /\ onStack \in Seq(Innies)
  BY DEF EvalInv, StackTypeOK, Depth
<1>2. probes \in Seq(BOOLEAN) /\ Len(probes) = Depth
  BY DEF EvalInv, StackTypeOK, BarriersAreProbes
<1>3. Top = frames[Depth]
  BY DEF Top
<1> QED
  BY <1>1, <1>2, <1>3 DEF FramesInv

\* What Append and Push do to the stack and the probes.
LEMMA PushedStack ==
    ASSUME EvalInv, onStack # <<>>, NEW id \in Innies, NEW probe \in BOOLEAN, Push(id, probe)
    PROVE  /\ Depth' = Depth + 1 /\ onStack'[Depth + 1] = id
           /\ \A h \in 1..Depth : onStack'[h] = onStack[h]
           /\ probes'[Depth] = probe
           /\ \A h \in 1..(Depth - 1) : probes'[h] = probes[h]
<1>1. /\ onStack \in Seq(Innies) /\ Depth = Len(onStack) /\ Depth \in Nat \ {0}
      /\ probes \in Seq(BOOLEAN) /\ Len(probes) = Depth
  BY DEF EvalInv, StackTypeOK, BarriersAreProbes, Depth
<1>2. onStack' = Append(onStack, id)
  BY DEF Push
<1>3. Depth' = Depth + 1 /\ onStack'[Depth + 1] = id /\ \A h \in 1..Depth : onStack'[h] = onStack[h]
  BY <1>1, <1>2 DEF Depth
<1>4. /\ probes'[Len(probes)] = probe
      /\ \A h \in 1..(Len(probes) - 1) : probes'[h] = probes[h]
  <2>1. probes' = Append([probes EXCEPT ![Len(probes)] = probe], FALSE) /\ probes # <<>>
    BY <1>1 DEF Push
  <2>2. PICK S, seq, v, w, f : /\ S = BOOLEAN /\ seq = probes /\ v = probe /\ w = FALSE
                               /\ f = probes'
    OBVIOUS
  <2>3. /\ seq \in Seq(S) /\ seq # <<>> /\ v \in S /\ w \in S
        /\ f = Append([seq EXCEPT ![Len(seq)] = v], w)
    BY <1>1, <2>1, <2>2, Zenon
  <2>4. f[Len(seq)] = v /\ \A h \in 1..(Len(seq) - 1) : f[h] = seq[h]
    BY <2>3, MarkAndAppend
  <2> QED
    BY <2>2, <2>4, Zenon
<1> QED
  BY <1>1, <1>3, <1>4

LEMMA DescendFrames ==
    ASSUME EvalInv, FramesInv, NEW id \in Innies, Descend(id)
    PROVE  /\ FramesInv' /\ Depth' = Depth + 1 /\ frames'[Depth + 1] = NewFrame(id)
           /\ \A h \in 1..Depth : frames'[h] = frames[h] /\ onStack'[h] = onStack[h]
           /\ onStack'[Depth + 1] = id /\ Depth \in Nat \ {0}
<1>1. onStack # <<>> /\ Top.at <= Len(Asked(Top)) /\ id = Asking(Top)
  BY DEF Descend, Needs, AtWork
<1>2. /\ Depth \in Nat \ {0} /\ Top = frames[Depth]
      /\ frames = [h \in 1..Depth |-> frames[h]]
  BY <1>1, TopIs DEF FramesInv
<1>3. PICK probe \in BOOLEAN : probe = Probing
  BY ProbingIsBoolean
<1>4. Push(id, probe)
  BY <1>3 DEF Descend
<1>5. /\ Depth' = Depth + 1 /\ onStack'[Depth + 1] = id
      /\ \A h \in 1..Depth : onStack'[h] = onStack[h]
      /\ probes'[Depth] = probe
      /\ \A h \in 1..(Depth - 1) : probes'[h] = probes[h]
  BY <1>1, <1>4, PushedStack
<1>6. frames' = [h \in 1..(Depth + 1) |-> IF h = Depth + 1 THEN NewFrame(id) ELSE frames[h]]
  BY <1>2, OneMoreFrame DEF Descend
<1>7. /\ frames'[Depth + 1] = NewFrame(id)
      /\ \A h \in 1..Depth : frames'[h] = frames[h]
      /\ frames' = [h \in 1..(Depth + 1) |-> frames'[h]]
  BY <1>2, <1>6
<1>8. IsFrame(NewFrame(id))
  BY FreshFrame DEF NewFrame
<1>9. \A h \in 1..(Depth + 1) : IsFrame(frames'[h])
  <2> TAKE h \in 1..(Depth + 1)
  <2>1. h = Depth + 1 \/ h \in 1..Depth
    BY <1>2
  <2> QED
    BY <1>7, <1>8, <2>1 DEF FramesInv
<1>10. AsksFor(Top, id, probe)
  BY <1>1, <1>3 DEF AsksFor, Probing, Question, InFirstPass
<1>11. ASSUME NEW h \in 1..Depth PROVE AsksFor(frames'[h], onStack'[h + 1], probes'[h])
  <2>1. CASE h = Depth
    BY <1>2, <1>5, <1>7, <1>10, <2>1
  <2>2. CASE h # Depth
    <3>1. h \in 1..(Depth - 1) /\ h + 1 \in 1..Depth
      BY <1>2, <2>2
    <3>2. AsksFor(frames[h], onStack[h + 1], probes[h])
      BY <3>1 DEF FramesInv
    <3> QED
      BY <1>5, <1>7, <3>1, <3>2
  <2> QED
    BY <2>1, <2>2
<1>12. FramesInv'
  <2>1. (Depth + 1) - 1 = Depth
    BY <1>2
  <2> QED
    BY <1>5, <1>7, <1>9, <1>11, <2>1 DEF FramesInv
<1> QED
  BY <1>2, <1>5, <1>7, <1>12

LEMMA ReenteredStack ==
    ASSUME EvalInv, onStack # <<>>, NEW id \in Innies, NEW probe \in BOOLEAN,
           Reenter(id, probe), NEW n, n = Innermost(probe)
    PROVE  /\ n \in 1..Depth /\ InProbe(n, probe) /\ Depth' = n
           /\ \A h \in 1..n : onStack'[h] = onStack[h]
           /\ \A h \in 1..(n - 1) : probes'[h] = probes[h]
<1>1. /\ onStack \in Seq(Innies) /\ Depth = Len(onStack) /\ Depth \in Nat \ {0}
      /\ probes \in Seq(BOOLEAN) /\ Len(probes) = Depth
  BY DEF EvalInv, StackTypeOK, BarriersAreProbes, Depth
<1>2. n \in 1..Depth /\ InProbe(n, probe)
  BY ReentryIsCaught DEF Reenter, Deferrable
<1>3. Depth' = n /\ \A h \in 1..n : onStack'[h] = onStack[h]
  <2>1. onStack' = SubSeq(onStack, 1, n)
    BY DEF Reenter
  <2> QED
    BY <1>1, <1>2, <2>1 DEF Depth
<1>4. \A h \in 1..(n - 1) : probes'[h] = probes[h]
  <2>1. probes' = [SubSeq(probes, 1, n) EXCEPT ![n] = FALSE]
    BY DEF Reenter
  <2>2. PICK S, seq, v, f : S = BOOLEAN /\ seq = probes /\ v = FALSE /\ f = probes'
    OBVIOUS
  <2>3. /\ seq \in Seq(S) /\ n \in 1..Len(seq) /\ v \in S
        /\ f = [SubSeq(seq, 1, n) EXCEPT ![n] = v]
    BY <1>1, <1>2, <2>1, <2>2, Zenon
  <2>4. \A h \in 1..(n - 1) : f[h] = seq[h]
    BY <2>3, CutAndMark
  <2> QED
    BY <2>2, <2>4, Zenon
<1> QED
  BY <1>2, <1>3, <1>4

\* The frame that a deferral goes back to was in the first pass of its fold, at
\* the branch it defers now.
LEMMA DeferFrames ==
    ASSUME EvalInv, FramesInv, NEW id \in Innies, Defer(id)
    PROVE  \E n \in 1..Depth :
              /\ FramesInv' /\ Depth' = n
              /\ \A h \in 1..n : onStack'[h] = onStack[h]
              /\ \A h \in 1..(n - 1) : frames'[h] = frames[h]
              /\ frames'[n] = PutOffNext(frames[n])
              /\ InFirstPass(frames[n]) /\ frames[n].at <= Len(Asked(frames[n]))
<1>1. onStack # <<>> /\ Top.at <= Len(Asked(Top))
  BY DEF Defer, Needs, AtWork
<1>2. /\ Depth \in Nat \ {0} /\ Top = frames[Depth]
      /\ frames = [h \in 1..Depth |-> frames[h]]
  BY <1>1, TopIs DEF FramesInv
<1>3. PICK probe \in BOOLEAN : probe = Probing
  BY ProbingIsBoolean
<1>4. Reenter(id, probe)
  BY <1>3 DEF Defer
<1>5. PICK n : n = Innermost(probe)
  OBVIOUS
<1>6. /\ n \in 1..Depth /\ InProbe(n, probe) /\ Depth' = n
      /\ \A h \in 1..n : onStack'[h] = onStack[h]
      /\ \A h \in 1..(n - 1) : probes'[h] = probes[h]
  BY <1>1, <1>4, <1>5, ReenteredStack
<1>7. PICK g : g = PutOffNext(frames[n])
  OBVIOUS
<1>8. IsFrame(frames[n])
  BY <1>6 DEF FramesInv
<1>9. IsFrame(g)
  BY <1>7, <1>8, DeferringFrame
<1>10. frames' = Append(SubSeq(frames, 1, n - 1), g)
  BY <1>3, <1>5, <1>7 DEF Defer, Unwound, PutOffNext
<1>11. /\ frames' = [h \in 1..n |-> frames'[h]]
       /\ frames'[n] = g
       /\ \A h \in 1..(n - 1) : frames'[h] = frames[h]
  <2>1. n - 1 \in 0..Depth /\ n - 1 \in Nat /\ (n - 1) + 1 = n /\ n \in 1..n
    BY <1>2, <1>6
  <2>2. PICK s : s = SubSeq(frames, 1, n - 1)
    OBVIOUS
  <2>3. s = [h \in 1..(n - 1) |-> frames[h]]
    BY <1>2, <2>1, <2>2, FewerFrames
  <2>4. s = [h \in 1..(n - 1) |-> s[h]]
    BY <2>3
  <2>5. frames' = [h \in 1..n |-> IF h = n THEN g ELSE s[h]]
    BY <1>10, <2>1, <2>2, <2>4, OneMoreFrame
  <2>6. \A h \in 1..(n - 1) : h \in 1..n /\ h # n
    BY <2>1
  <2> QED
    BY <2>1, <2>3, <2>5, <2>6
<1>12. FramesInv'
  <2>1. n \in 0..Depth
    BY <1>2, <1>6
  <2>2. IsFrame(frames'[n])
    BY <1>9, <1>11
  <2> QED
    BY <1>2, <1>6, <1>11, <2>1, <2>2, CutFrames
<1>13. InFirstPass(frames[n]) /\ frames[n].at <= Len(Asked(frames[n]))
  <2>1. CASE n = Depth
    <3>1. ~probes[Depth]
      BY <1>1 DEF EvalInv, TopIsAtWork
    <3>2. probe
      BY <1>6, <2>1, <3>1 DEF InProbe
    <3>3. Probing
      BY <1>3, <3>2
    <3> QED
      BY <1>1, <1>2, <2>1, <3>3 DEF Probing, Question, InFirstPass
  <2>2. CASE n # Depth
    <3>1. n \in 1..(Depth - 1) /\ probes[n]
      BY <1>2, <1>6, <2>2 DEF InProbe
    <3> QED
      BY <3>1 DEF FramesInv, AsksFor
  <2> QED
    BY <2>1, <2>2
<1> QED
  BY <1>6, <1>7, <1>11, <1>12, <1>13

\* Leaving a frame: those below stay.
LEMMA LeaveFrames ==
    ASSUME EvalInv, FramesInv, Leave,
           NEW f, f = FrontOf(frames)
    PROVE  /\ Depth \in Nat \ {0} /\ Depth' = Depth - 1
           /\ f = [h \in 1..(Depth - 1) |-> frames[h]]
           /\ \A h \in 1..(Depth - 1) : onStack'[h] = onStack[h]
           /\ \A h \in 1..(Depth - 2) : probes'[h] = probes[h]
<1>1. onStack # <<>>
  BY DEF Leave
<1>2. /\ Depth \in Nat \ {0} /\ Depth = Len(onStack) /\ onStack \in Seq(Innies)
      /\ probes \in Seq(BOOLEAN) /\ Len(probes) = Depth
      /\ frames = [h \in 1..Depth |-> frames[h]]
  BY <1>1, TopIs DEF FramesInv
<1>3. /\ onStack' = SubSeq(onStack, 1, Depth - 1)
      /\ probes' = IF Depth = 1 THEN <<>> ELSE [SubSeq(probes, 1, Depth - 1) EXCEPT ![Depth - 1] = FALSE]
  BY <1>2 DEF Leave, FrontOf
<1>4. Depth' = Depth - 1 /\ \A h \in 1..(Depth - 1) : onStack'[h] = onStack[h]
  BY <1>2, <1>3 DEF Depth
<1>5. f = [h \in 1..(Depth - 1) |-> frames[h]]
  <2>1. Len(frames) = Depth
    <3>1. PICK S : Len(frames) = Depth
      BY <1>2, ListOfItself
    <3> QED
      BY <3>1
  <2>2. PICK m : m = Depth - 1
    OBVIOUS
  <2>3. f = SubSeq(frames, 1, m) /\ m \in 0..Depth
    BY <1>2, <2>1, <2>2 DEF FrontOf
  <2>4. Depth \in Nat /\ frames = [h \in 1..Depth |-> frames[h]]
    BY <1>2
  <2>5. SubSeq(frames, 1, m) = [h \in 1..m |-> frames[h]]
    BY <2>3, <2>4, FewerFrames
  <2> QED
    BY <2>2, <2>3, <2>5
<1>6. \A h \in 1..(Depth - 2) : probes'[h] = probes[h]
  <2>1. CASE Depth = 1
    BY <2>1
  <2>2. CASE Depth # 1
    <3>1. PICK m : m = Depth - 1 /\ m \in 1..Len(probes) /\ m - 1 = Depth - 2
      BY <1>2, <2>2
    <3>2. PICK S, seq, v, g : S = BOOLEAN /\ seq = probes /\ v = FALSE /\ g = probes'
      OBVIOUS
    <3>3. /\ seq \in Seq(S) /\ m \in 1..Len(seq) /\ v \in S
          /\ g = [SubSeq(seq, 1, m) EXCEPT ![m] = v]
      BY <1>2, <1>3, <2>2, <3>1, <3>2, Zenon
    <3>4. \A h \in 1..(m - 1) : g[h] = seq[h]
      BY <3>3, CutAndMark
    <3> QED
      BY <3>1, <3>2, <3>4, Zenon
  <2> QED
    BY <2>1, <2>2
<1> QED
  BY <1>2, <1>4, <1>5, <1>6

\* A walk begins with one frame.
LEMMA StartFrames ==
    ASSUME ListOK, Start
    PROVE  /\ FramesInv' /\ Depth' = 1
           /\ \E id \in Innies : onStack'[1] = id /\ frames'[1] = NewFrame(id)
<1>1. PICK id \in Innies : onStack' = <<id>> /\ frames' = <<NewFrame(id)>>
  <2> DEFINE next == order[Sets!Min({k \in DOMAIN order : ~Settled(order[k])})]
  <2>1. next \in Innies
    BY NextOfTheList DEF Start
  <2>2. onStack' = <<next>> /\ frames' = <<NewFrame(next)>>
    BY DEF Start, Enter
  <2> QED
    BY <2>1, <2>2
<1>2. Depth' = 1
  BY <1>1 DEF Depth
<1>3. IsFrame(NewFrame(id))
  BY FreshFrame DEF NewFrame
<1>4. PICK f : f = NewFrame(id) /\ IsFrame(f)
  BY <1>3
<1>5. frames' = [h \in 1..1 |-> frames'[h]] /\ frames'[1] = f
  BY <1>1, <1>4
<1>6. FramesInv'
  BY <1>2, <1>4, <1>5 DEF FramesInv
<1> QED
  BY <1>1, <1>2, <1>4, <1>5, <1>6

\* What the top alone does, and leaves the stack as it is.
LEMMA TopOnly ==
    ASSUME EvalInv, FramesInv,
           \/ \E id \in Innies : Take(id) \/ OverflowInCycle(id)
           \/ Unwrap \/ SecondPass \/ FoldOver \/ Overflow
    PROVE  /\ UNCHANGED <<onStack, probes>> /\ onStack # <<>>
           /\ \E f : IsFrame(f) /\ frames' = WithTop(f)
<1>1. onStack # <<>>
  BY DEF Take, OverflowInCycle, Needs, Unwrap, SecondPass, FoldOver, Overflow, HasAll, AtWork
<1>2. IsFrame(Top)
  BY <1>1, TopIs
<1>3. ASSUME NEW id \in Innies, Take(id)
      PROVE  UNCHANGED evalVars /\ \E f : IsFrame(f) /\ frames' = WithTop(f)
  <2>1. PICK next : next = [Top EXCEPT !.at = @ + 1]
    OBVIOUS
  <2>2. PICK last : last = Faulted(next, PositionAsked)
    OBVIOUS
  <2>3. IsFrame(next) /\ IsFrame(last)
    BY <1>2, <2>1, <2>2, NextFrame, FaultyFrame
  <2>4. \A d : IsFrame(Frame(d))
    BY FreshFrame
  <2> QED
    BY <1>3, <2>1, <2>2, <2>3, <2>4 DEF Take, Faulted
<1>4. ASSUME NEW id \in Innies, OverflowInCycle(id)
      PROVE  UNCHANGED <<onStack, probes>> /\ \E f : IsFrame(f) /\ frames' = WithTop(f)
  <2>1. IsFrame(RanOut(Top))
    BY FreshFrame DEF RanOut, Raised
  <2> QED
    BY <1>4, <2>1 DEF OverflowInCycle, SettlePart
<1>5. CASE Unwrap \/ FoldOver \/ Overflow
  <2>1. \A d : IsFrame(Frame(d))
    BY FreshFrame
  <2> QED
    BY <1>1, <1>5, <2>1 DEF Unwrap, FoldOver, Overflow, evalVars, RanOut, Raised
<1>6. CASE SecondPass
  <2>1. IsFrame([Top EXCEPT !.second = TRUE, !.at = 1])
    BY <1>2, SecondFrame
  <2> QED
    BY <1>1, <1>6, <2>1 DEF SecondPass, evalVars
<1> QED
  BY <1>1, <1>3, <1>4, <1>5, <1>6 DEF evalVars

\* The end of a frame, and the one below it possibly another.
LEMMA EndFrames ==
    ASSUME EvalInv, FramesInv, Publish \/ OverflowInReturn
    PROVE  /\ FramesInv' /\ Depth \in Nat \ {0} /\ Depth' = Depth - 1
           /\ \A h \in 1..(Depth - 1) : onStack'[h] = onStack[h]
           /\ Publish => \A h \in 1..(Depth - 1) : frames'[h] = frames[h]
           /\ \A h \in 1..(Depth - 1) : frames'[h] \in {frames[h], RanOut(frames[h])}
<1>1. PICK f : f = FrontOf(frames)
  OBVIOUS
<1>2. /\ Depth \in Nat \ {0} /\ Depth' = Depth - 1
      /\ f = [h \in 1..(Depth - 1) |-> frames[h]]
      /\ \A h \in 1..(Depth - 1) : onStack'[h] = onStack[h]
      /\ \A h \in 1..(Depth - 2) : probes'[h] = probes[h]
  BY <1>1, LeaveFrames DEF Publish, OverflowInReturn, Return, Abandon
<1>3. PICK n \in Nat : n = Depth - 1 /\ n \in 0..Depth /\ n - 1 = Depth - 2
  BY <1>2
<1>4. /\ frames' = [h \in 1..n |-> frames'[h]]
      /\ \A h \in 1..(n - 1) : frames'[h] = frames[h]
      /\ n # 0 => IsFrame(frames'[n])
      /\ Publish => \A h \in 1..n : frames'[h] = frames[h]
      /\ \A h \in 1..n : frames'[h] \in {frames[h], RanOut(frames[h])}
  <2>1. CASE Publish
    <3>1. frames' = f
      BY <1>1, <2>1 DEF Publish
    <3>2. \A h \in 1..n : frames'[h] = frames[h] /\ h \in 1..Depth
      BY <1>2, <1>3, <3>1
    <3>3. \A h \in 1..(n - 1) : h \in 1..n
      OBVIOUS
    <3>4. n # 0 => n \in 1..n
      OBVIOUS
    <3> QED
      BY <1>2, <1>3, <3>1, <3>2, <3>3, <3>4 DEF FramesInv
  <2>2. CASE ~Publish
    <3>1. frames' = [f EXCEPT ![n] = RanOut(f[n])]
      BY <1>1, <1>3, <2>2 DEF OverflowInReturn
    <3>2. frames' = [h \in 1..n |-> IF h = n THEN RanOut(f[n]) ELSE frames[h]]
      BY <1>2, <1>3, <3>1
    <3>3. IsFrame(RanOut(f[n]))
      BY FreshFrame DEF RanOut, Raised
    <3>4. \A h \in 1..(n - 1) : h \in 1..n /\ h # n
      OBVIOUS
    <3>5. n # 0 => n \in 1..n /\ f[n] = frames[n]
      BY <1>2, <1>3
    <3>6. \A h \in 1..n : frames'[h] \in {frames[h], RanOut(frames[h])}
      BY <3>2, <3>5
    <3> QED
      BY <2>2, <3>2, <3>3, <3>4, <3>5, <3>6
  <2> QED
    BY <2>1, <2>2
<1>5. FramesInv'
  BY <1>2, <1>3, <1>4, CutFrames
<1> QED
  BY <1>2, <1>3, <1>4, <1>5

LEMMA InitFrames == SerialInit => FramesInv
BY DEF SerialInit, EvalInit, FramesInv, Depth

LEMMA NextFrames ==
    ASSUME EvalInv, FramesInv, ListOK, [SerialNext]_serialVars
    PROVE  FramesInv'
<1>1. CASE UNCHANGED serialVars
  BY <1>1 DEF serialVars, evalVars, FramesInv, Depth
<1>2. CASE Start
  BY <1>2, StartFrames
<1>3. ASSUME NEW id \in Innies, Descend(id) PROVE FramesInv'
  BY <1>3, DescendFrames
<1>4. ASSUME NEW id \in Innies, Defer(id) PROVE FramesInv'
  BY <1>4, DeferFrames
<1>5. ASSUME NEW id \in Innies, Deadlock(id) PROVE FramesInv'
  BY <1>5 DEF Deadlock, SettleCycle, FramesInv, Depth
<1>6. CASE Publish \/ OverflowInReturn
  BY <1>6, EndFrames
<1>7. CASE \/ \E id \in Innies : Take(id) \/ OverflowInCycle(id)
           \/ Unwrap \/ SecondPass \/ FoldOver \/ Overflow
  <2>1. /\ UNCHANGED <<onStack, probes>> /\ onStack # <<>>
        /\ \E f : IsFrame(f) /\ frames' = WithTop(f)
    BY <1>7, TopOnly
  <2>2. Depth \in Nat \ {0}
    BY <2>1, TopIs
  <2> QED
    BY <2>1, <2>2, TopGoesOn
<1>8. CASE Done
  BY <1>8, <1>1 DEF Done
<1> QED
  BY <1>1, <1>2, <1>3, <1>4, <1>5, <1>6, <1>7, <1>8 DEF SerialNext, Walk, Stray

LEMMA EvalInvKept ==
    ASSUME EvalInv, ListOK, [SerialNext]_serialVars
    PROVE  EvalInv'
<1>1. [EvalNext]_evalVars
  BY SerialStepIsEvalStep DEF serialVars
<1> QED
  BY <1>1, NextEvalInv

\* What a step may settle below the top are the members of a loop of questions,
\* each frame asking for the next and the top for the first.
LEMMA LoopStep ==
    ASSUME EvalInv, FramesInv, ListOK, SerialNext,
           NEW h \in 1..Depth, ~Settled(onStack[h]), cell'[onStack[h]] # Pending,
           Depth <= Len(onStack')
    PROVE  /\ \A g \in h..(Depth - 1) : Asking(frames[g]) = onStack[g + 1]
           /\ \E g \in 1..h : Asking(Top) = onStack[g]
<1>1. onStack # <<>> /\ Depth \in Nat \ {0} /\ onStack \in Seq(Innies) /\ Depth = Len(onStack)
  <2>1. Depth # 0
    BY DEF Depth, EvalInv, StackTypeOK
  <2> QED
    BY <2>1, TopIs DEF Depth
<1>2. \A g \in h..(Depth - 1) : Asking(frames[g]) = onStack[g + 1]
  <2> TAKE g \in h..(Depth - 1)
  <2>1. g \in 1..(Depth - 1)
    BY <1>1
  <2> QED
    BY <2>1 DEF FramesInv, AsksFor
<1>3. cell[onStack[h]] = Pending /\ onStack[h] \in Innies
  BY <1>1 DEF Settled
<1>4. ~(Publish \/ OverflowInReturn)
  <2> SUFFICES ASSUME Publish \/ OverflowInReturn PROVE FALSE
    OBVIOUS
  <2>1. Depth' = Depth - 1
    BY EndFrames
  <2> QED
    BY <1>1, <2>1 DEF Depth
<1>5. PICK id \in Innies : Deadlock(id) \/ OverflowInCycle(id)
  BY <1>3, <1>4 DEF SerialNext, Walk, Stray, Start, Enter, Descend, Push, Take, Defer, Reenter,
       Unwrap, SecondPass, FoldOver, Overflow, Done, serialVars, evalVars
<1>6. id = Asking(Top) /\ OnStack(id)
  BY <1>5 DEF Deadlock, OverflowInCycle, Needs, SettleCycle, SettlePart
<1>7. HeightOf(id) \in 1..Depth /\ onStack[HeightOf(id)] = id
  BY <1>6, HeightIsNat
<1>8. PICK last \in HeightOf(id)..Depth : cell' = CellsWith(HeightOf(id), last)
  <2>1. Depth \in HeightOf(id)..Depth
    BY <1>1, <1>7
  <2> QED
    BY <1>5, <2>1 DEF Deadlock, OverflowInCycle, SettleCycle, SettlePart
<1>9. PICK k \in HeightOf(id)..last : onStack[k] = onStack[h]
  BY <1>3, <1>8 DEF CellsWith, Settled
<1>10. k \in 1..Depth /\ HeightOf(id) <= k
  BY <1>1, <1>7, <1>8
<1>11. k = h
  BY <1>9, <1>10 DEF EvalInv, NoReentry
<1>12. HeightOf(id) \in 1..h
  BY <1>7, <1>10, <1>11
<1> QED
  BY <1>2, <1>6, <1>7, <1>12

-----------------------------------------------------------------------------
\* What holds of every state of a run of the oracle.
SerialInv == EvalInv /\ FramesInv /\ ListOK

LEMMA InitSerialInv == SerialInit => SerialInv
BY InitEvalInv, InitFrames DEF SerialInit, SerialInv, ListOK

LEMMA NextSerialInv == SerialInv /\ [SerialNext]_serialVars => SerialInv'
BY EvalInvKept, NextFrames, ListStays DEF SerialInv

\* "only cycle members publish -1" (serial.py:156): whom the oracle settles while
\* it is still evaluating him is on a loop of questions, whatever was deferred
\* and unwound before, and wherever Python's stack overflows.
THEOREM SettlesLoopsOnly == SerialSpec => OnlyLoopsSettle
<1>1. SerialInv /\ [SerialNext]_serialVars =>
        [\A h \in 1..Depth :
           ~Settled(onStack[h]) /\ cell'[onStack[h]] # Pending /\ Depth <= Len(onStack') =>
              /\ \A g \in h..(Depth - 1) : Asking(frames[g]) = onStack[g + 1]
              /\ \E g \in 1..h : Asking(Top) = onStack[g]]_serialVars
  BY LoopStep DEF SerialInv
<1> QED
  BY <1>1, InitSerialInv, NextSerialInv, PTL DEF SerialSpec, OnlyLoopsSettle

-----------------------------------------------------------------------------
(***************************************************************************)
(* What the resolver has gathered for a question.                          *)
(***************************************************************************)

\* The positions of the branches a fold has deferred, and of those it has seen.
PutOff(f) == {f.later[m] : m \in DOMAIN f.later}

Seen(f) ==
    LET ids == NextAsk(f.day).ids
    IN  IF f.second
        THEN (DOMAIN ids \ PutOff(f)) \cup {f.later[m] : m \in {m \in DOMAIN f.later : m < f.at}}
        ELSE {k \in DOMAIN ids : k < f.at} \ PutOff(f)

\* The Innies it has come past have settled; no branch seen ends the fold, and
\* those that are not values are its faults.
GathersAll(f, ask, c) ==
    ~f.second /\ \A k \in DOMAIN ask.ids : k < f.at => c[ask.ids[k]] # Pending

GathersFold(f, ask, c) ==
    /\ PutOff(f) \subseteq DOMAIN ask.ids
    /\ f.second \/ \A k \in PutOff(f) : k < f.at
    /\ \A k \in Seen(f) : c[ask.ids[k]] # Pending /\ ~Absorbs(ask, c[ask.ids[k]])
    /\ f.faults = {k \in Seen(f) : c[ask.ids[k]].kind # "value"}

Gathers(f, c) ==
    LET ask == NextAsk(f.day)
    IN  ask.ids \in Seq(Innies) =>
            /\ ask.for = "all" => GathersAll(f, ask, c)
            /\ ask.for = "fold" => GathersFold(f, ask, c)

\* A new frame has gathered nothing.
LEMMA FreshGathers ==
    ASSUME NEW d, NEW c PROVE Gathers(Frame(d), c)
<1>1. PICK f : f = Frame(d)
  OBVIOUS
<1>2. f.day = d /\ f.at = 1 /\ f.second = FALSE /\ f.later = <<>> /\ f.faults = {}
  BY <1>1 DEF Frame
<1>3. PutOff(f) = {}
  BY <1>2 DEF PutOff
<1> SUFFICES ASSUME NEW ask, ask = NextAsk(f.day), ask.ids \in Seq(Innies)
             PROVE  GathersAll(f, ask, c) /\ GathersFold(f, ask, c)
  BY <1>1 DEF Gathers
<1>4. \A k \in DOMAIN ask.ids : ~(k < 1)
  BY LenProperties
<1>5. Seen(f) = {}
  BY <1>2, <1>4 DEF Seen
<1> QED
  BY <1>2, <1>3, <1>4, <1>5 DEF GathersAll, GathersFold

\* What has settled since does not change it.
LEMMA GathersKept ==
    ASSUME NEW f, NEW c, Gathers(f, c), NEW c2, \A t \in Innies : c[t] # Pending => c2[t] = c[t]
    PROVE  Gathers(f, c2)
<1> SUFFICES ASSUME NEW ask, ask = NextAsk(f.day), ask.ids \in Seq(Innies)
             PROVE  /\ ask.for = "all" => GathersAll(f, ask, c2)
                    /\ ask.for = "fold" => GathersFold(f, ask, c2)
  BY DEF Gathers
<1>1. \A k \in DOMAIN ask.ids : ask.ids[k] \in Innies
  BY ElementOfSeq, LenProperties
<1>2. ASSUME GathersAll(f, ask, c) PROVE GathersAll(f, ask, c2)
  BY <1>1, <1>2 DEF GathersAll
<1>3. ASSUME GathersFold(f, ask, c) PROVE GathersFold(f, ask, c2)
  <2>1. PutOff(f) \subseteq DOMAIN ask.ids
    BY <1>3 DEF GathersFold
  <2>2. Seen(f) \subseteq DOMAIN ask.ids
    BY <2>1 DEF Seen, PutOff
  <2>3. \A k \in Seen(f) : c2[ask.ids[k]] = c[ask.ids[k]]
    BY <1>1, <1>3, <2>2 DEF GathersFold
  <2> QED
    BY <1>3, <2>3 DEF GathersFold
<1> QED
  BY <1>2, <1>3 DEF Gathers

\* One more of a list.
LEMMA GathersNext ==
    ASSUME NEW f, IsFrame(f), NEW c, Gathers(f, c),
           NEW ask, StopsAt(f.day, ask, "all"),
           c[Asking(f)] # Pending,
           NEW g, g = [f EXCEPT !.at = @ + 1]
    PROVE  Gathers(g, c)
<1> ask = NextAsk(f.day) /\ ask.for = "all" /\ ask.ids \in Seq(Innies)
  BY DEF StopsAt
<1>1. g.day = f.day /\ g.at = f.at + 1 /\ g.second = f.second /\ f.at \in Nat
  BY NextFrame DEF IsFrame
<1>2. GathersAll(f, ask, c)
  BY DEF Gathers
<1>3. Asking(f) = ask.ids[f.at]
  BY <1>2 DEF GathersAll, Asking, Asked
<1>4. \A k \in DOMAIN ask.ids : k < f.at + 1 => k < f.at \/ k = f.at
  BY <1>1, LenProperties
<1>5. GathersAll(g, ask, c)
  BY <1>1, <1>2, <1>3, <1>4 DEF GathersAll
<1> QED
  BY <1>1, <1>5 DEF Gathers

\* The branch a fold is at.
Branch(f) == IF f.second THEN f.later[f.at] ELSE f.at

LEMMA BranchIs ==
    ASSUME NEW f, IsFrame(f), NEW c, Gathers(f, c),
           NEW ask, StopsAt(f.day, ask, "fold"),
           f.at <= Len(Asked(f))
    PROVE  /\ Branch(f) \in DOMAIN ask.ids /\ Asking(f) = ask.ids[Branch(f)]
           /\ f.second => f.at \in DOMAIN f.later
<1> ask = NextAsk(f.day) /\ ask.for = "fold" /\ ask.ids \in Seq(Innies)
  BY DEF StopsAt
<1>1. f.at \in Nat \ {0} /\ f.later \in Seq(Nat) /\ GathersFold(f, ask, c)
  BY DEF IsFrame, Gathers
<1>2. CASE f.second
  <2>1. Asked(f) = [k \in DOMAIN f.later |-> ask.ids[f.later[k]]]
    BY <1>2 DEF Asked
  <2>2. Len(f.later) \in Nat /\ DOMAIN f.later = 1..Len(f.later)
    BY <1>1, LenProperties
  <2>3. Len(Asked(f)) = Len(f.later)
    BY <2>1, <2>2
  <2>4. f.at \in DOMAIN f.later
    BY <1>1, <2>2, <2>3
  <2> QED
    BY <1>1, <1>2, <2>1, <2>4 DEF Branch, Asking, GathersFold, PutOff
<1>3. CASE ~f.second
  <2>1. Asked(f) = ask.ids
    BY <1>3 DEF Asked
  <2>2. f.at \in DOMAIN ask.ids
    BY <1>1, <2>1, LenProperties
  <2> QED
    BY <1>3, <2>1, <2>2 DEF Branch, Asking
<1> QED
  BY <1>2, <1>3

\* A branch seen: a value that does not end the fold, or one more fault.
LEMMA GathersBranch ==
    ASSUME NEW f, IsFrame(f), NEW c, Gathers(f, c),
           NEW ask, StopsAt(f.day, ask, "fold"),
           f.at <= Len(Asked(f)), NEW result, result = c[Asking(f)],
           result # Pending, ~Absorbs(ask, result),
           NEW g, g = IF result.kind = "value" THEN Past(f) ELSE Faulted(Past(f), Branch(f))
    PROVE  Gathers(g, c) /\ IsFrame(g) /\ g.day = f.day
<1> PICK h, b : h = Past(f) /\ b = Branch(f)
  OBVIOUS
<1>0. h = [f EXCEPT !.at = @ + 1]
  BY DEF Past
<1> ask = NextAsk(f.day) /\ ask.for = "fold" /\ ask.ids \in Seq(Innies)
  BY DEF StopsAt
<1>1. GathersFold(f, ask, c) /\ f.at \in Nat /\ f.second \in BOOLEAN /\ f.later \in Seq(Nat)
  BY DEF Gathers, IsFrame
<1>2. b \in DOMAIN ask.ids /\ Asking(f) = ask.ids[b] /\ (f.second => f.at \in DOMAIN f.later)
  BY BranchIs
<1>3. /\ IsFrame(h) /\ h.at = f.at + 1
      /\ h.day = f.day /\ h.second = f.second /\ h.later = f.later /\ h.faults = f.faults
  BY <1>0, NextFrame
<1>4. /\ g.day = f.day /\ g.at = f.at + 1 /\ g.second = f.second /\ g.later = f.later
      /\ g.faults = IF result.kind = "value" THEN f.faults ELSE f.faults \cup {b}
  <2>1. CASE result.kind = "value"
    BY <1>3, <2>1
  <2>2. CASE result.kind # "value"
    <3>1. g = Faulted(h, b)
      BY <2>2
    <3>2. /\ g.faults = h.faults \cup {b} /\ g.at = h.at /\ g.day = h.day
          /\ g.second = h.second /\ g.later = h.later
      BY <1>3, <3>1, FaultyFrame
    <3> QED
      BY <1>3, <2>2, <3>2
  <2> QED
    BY <2>1, <2>2
<1>5. PutOff(g) = PutOff(f)
  BY <1>4 DEF PutOff
<1>6. Seen(g) = Seen(f) \cup {b}
  <2>1. CASE f.second
    <3> DEFINE M == {m \in DOMAIN f.later : m < f.at}
               M1 == {m \in DOMAIN f.later : m < f.at + 1}
    <3>1. M1 = M \cup {f.at}
      <4>1. \A m \in DOMAIN f.later : m \in Nat
        BY <1>1, LenProperties
      <4> QED
        BY <1>1, <1>2, <2>1, <4>1
    <3>2. b = f.later[f.at]
      BY <2>1 DEF Branch
    <3> HIDE DEF M, M1
    <3>3. {f.later[m] : m \in M1} = {f.later[m] : m \in M} \cup {b}
      BY <3>1, <3>2
    <3>4. /\ Seen(g) = (DOMAIN ask.ids \ PutOff(f)) \cup {f.later[m] : m \in M1}
          /\ Seen(f) = (DOMAIN ask.ids \ PutOff(f)) \cup {f.later[m] : m \in M}
      <4>1. NextAsk(g.day) = ask /\ g.second /\ f.second /\ g.later = f.later /\ g.at = f.at + 1
        BY <1>4, <2>1
      <4> QED
        BY <1>5, <4>1 DEF Seen, M, M1
    <3> QED
      BY <3>3, <3>4
  <2>2. CASE ~f.second
    <3>1. b = f.at /\ b \notin PutOff(f)
      BY <1>1, <2>2 DEF Branch, GathersFold
    <3>2. \A k \in DOMAIN ask.ids : k < f.at + 1 <=> k < f.at \/ k = f.at
      BY <1>1, LenProperties
    <3>3. /\ Seen(g) = {k \in DOMAIN ask.ids : k < f.at + 1} \ PutOff(f)
          /\ Seen(f) = {k \in DOMAIN ask.ids : k < f.at} \ PutOff(f)
      BY <1>4, <1>5, <2>2 DEF Seen
    <3> QED
      BY <1>2, <3>1, <3>2, <3>3
  <2> QED
    BY <2>1, <2>2
<1>7. GathersFold(g, ask, c)
  <2>1. f.second \/ \A k \in PutOff(f) : k < f.at + 1
    <3>1. \A k \in PutOff(f) : k \in Nat
      BY <1>1, ElementOfSeq, LenProperties DEF PutOff
    <3> QED
      BY <1>1, <3>1 DEF GathersFold
  <2>2. \A k \in Seen(g) : c[ask.ids[k]] # Pending /\ ~Absorbs(ask, c[ask.ids[k]])
    BY <1>1, <1>2, <1>6 DEF GathersFold
  <2>3. g.faults = {k \in Seen(g) : c[ask.ids[k]].kind # "value"}
    <3>1. f.faults = {k \in Seen(f) : c[ask.ids[k]].kind # "value"}
      BY <1>1 DEF GathersFold
    <3>2. c[ask.ids[b]] = result
      BY <1>2
    <3>3. CASE result.kind = "value"
      <4>1. g.faults = f.faults
        BY <1>4, <3>3
      <4>2. c[ask.ids[b]].kind = "value"
        BY <3>2, <3>3
      <4> QED
        BY <1>6, <3>1, <4>1, <4>2
    <3>4. CASE result.kind # "value"
      BY <1>4, <1>6, <3>1, <3>2, <3>4
    <3> QED
      BY <3>3, <3>4
  <2> QED
    BY <1>1, <1>4, <1>5, <2>1, <2>2, <2>3 DEF GathersFold
<1>8. IsFrame(g)
  <2>1. IsFrame(Faulted(h, b))
    BY <1>3, FaultyFrame
  <2> QED
    BY <1>3, <2>1
<1> QED
  BY <1>4, <1>7, <1>8 DEF Gathers

\* A branch put off.
LEMMA GathersPutOff ==
    ASSUME NEW f, IsFrame(f), NEW c, Gathers(f, c), InFirstPass(f),
           f.at <= Len(Asked(f)),
           NEW g, g = PutOffNext(f)
    PROVE  Gathers(g, c)
<1> PICK a : a = f.at
  OBVIOUS
<1>1. /\ g.later = Append(f.later, f.at) /\ g.at = f.at + 1
      /\ g.day = f.day /\ g.second = f.second /\ g.faults = f.faults
  BY DeferringFrame
<1> SUFFICES ASSUME NEW ask, ask = NextAsk(f.day), ask.ids \in Seq(Innies), ask.for = "fold"
             PROVE  Gathers(g, c)
  <2>1. g.day = f.day /\ NextAsk(f.day).for = "fold"
    BY <1>1 DEF InFirstPass
  <2> QED
    BY <2>1 DEF Gathers
<1>2. GathersFold(f, ask, c) /\ a \in Nat \ {0} /\ ~f.second /\ f.later \in Seq(Nat)
  BY DEF Gathers, IsFrame, InFirstPass
<1>3. a \in DOMAIN ask.ids
  BY <1>2, LenProperties DEF Asked
<1>4. PutOff(g) = PutOff(f) \cup {a}
  <2>1. Len(f.later) \in Nat /\ DOMAIN f.later = 1..Len(f.later)
    BY <1>2, LenProperties
  <2>2. DOMAIN g.later = 1..(Len(f.later) + 1)
    BY <1>1, <1>2, <2>1
  <2>3. /\ \A m \in DOMAIN f.later : g.later[m] = f.later[m]
        /\ g.later[Len(f.later) + 1] = a
    BY <1>1, <1>2, <2>1
  <2>4. DOMAIN g.later = DOMAIN f.later \cup {Len(f.later) + 1}
    BY <2>1, <2>2
  <2> QED
    BY <2>3, <2>4 DEF PutOff
<1>5. Seen(g) = Seen(f)
  <2>1. \A k \in DOMAIN ask.ids : k < a + 1 <=> k < a \/ k = a
    BY <1>2, LenProperties
  <2>2. /\ Seen(g) = {k \in DOMAIN ask.ids : k < a + 1} \ PutOff(g)
        /\ Seen(f) = {k \in DOMAIN ask.ids : k < a} \ PutOff(f)
    BY <1>1, <1>2 DEF Seen
  <2>3. \A k \in DOMAIN ask.ids : k < a => k # a
    BY <1>2
  <2> QED
    BY <1>4, <2>1, <2>2, <2>3
<1>6. GathersFold(g, ask, c)
  <2>1. \A k \in PutOff(g) : k < a + 1
    <3>1. \A k \in PutOff(f) : k \in Nat
      BY <1>2, ElementOfSeq, LenProperties DEF PutOff
    <3>2. \A k \in PutOff(f) : k < a
      BY <1>2 DEF GathersFold
    <3> QED
      BY <1>2, <1>4, <3>1, <3>2
  <2> QED
    BY <1>1, <1>2, <1>3, <1>4, <1>5, <2>1 DEF GathersFold
<1> QED
  BY <1>1, <1>6 DEF Gathers

\* On to the branches put off.
LEMMA GathersSecond ==
    ASSUME NEW f, IsFrame(f), NEW c, Gathers(f, c), InFirstPass(f),
           f.at > Len(Asked(f)),
           NEW g, g = [f EXCEPT !.second = TRUE, !.at = 1]
    PROVE  Gathers(g, c)
<1> SUFFICES ASSUME NEW ask, ask = NextAsk(f.day), ask.ids \in Seq(Innies), ask.for = "fold"
             PROVE  Gathers(g, c)
  <2>1. g.day = f.day /\ NextAsk(f.day).for = "fold"
    BY SecondFrame DEF InFirstPass
  <2> QED
    BY <2>1 DEF Gathers
<1>1. GathersFold(f, ask, c) /\ f.at \in Nat /\ ~f.second /\ f.later \in Seq(Nat)
  BY DEF Gathers, IsFrame, InFirstPass
<1>2. /\ g.second = TRUE /\ g.at = 1
      /\ g.day = f.day /\ g.later = f.later /\ g.faults = f.faults
  BY SecondFrame
<1>3. PutOff(g) = PutOff(f)
  BY <1>2 DEF PutOff
<1>4. Seen(g) = Seen(f)
  <2>1. \A k \in DOMAIN ask.ids : k < f.at
    BY <1>1, LenProperties DEF Asked
  <2>2. \A m \in DOMAIN f.later : ~(m < 1)
    BY <1>1, LenProperties
  <2>3. Seen(f) = DOMAIN ask.ids \ PutOff(f)
    BY <1>1, <2>1 DEF Seen
  <2>4. {m \in DOMAIN f.later : m < 1} = {}
    BY <2>2
  <2>5. Seen(g) = (DOMAIN ask.ids \ PutOff(f)) \cup {f.later[m] : m \in {m \in DOMAIN f.later : m < 1}}
    BY <1>2, <1>3 DEF Seen
  <2> QED
    BY <2>3, <2>4, <2>5
<1>5. GathersFold(g, ask, c)
  BY <1>1, <1>2, <1>3, <1>4 DEF GathersFold
<1> QED
  BY <1>2, <1>5 DEF Gathers

\* A list that is through, and a fold that is.
LEMMA GatheredAll ==
    ASSUME NEW f, IsFrame(f), NEW c, Gathers(f, c),
           NEW ask, StopsAt(f.day, ask, "all"),
           f.at > Len(Asked(f))
    PROVE  \A k \in DOMAIN ask.ids : c[ask.ids[k]] # Pending
<1> ask = NextAsk(f.day) /\ ask.for = "all" /\ ask.ids \in Seq(Innies)
  BY DEF StopsAt
<1>1. GathersAll(f, ask, c) /\ f.at \in Nat
  BY DEF Gathers, IsFrame
<1>2. \A k \in DOMAIN ask.ids : k < f.at
  BY <1>1, LenProperties DEF Asked, GathersAll
<1> QED
  BY <1>1, <1>2 DEF GathersAll

LEMMA GatheredFold ==
    ASSUME NEW f, IsFrame(f), NEW c, Gathers(f, c),
           NEW ask, StopsAt(f.day, ask, "fold"),
           f.second, f.at > Len(Asked(f))
    PROVE  /\ \A k \in DOMAIN ask.ids : c[ask.ids[k]] # Pending /\ ~Absorbs(ask, c[ask.ids[k]])
           /\ f.faults = {k \in DOMAIN ask.ids : c[ask.ids[k]].kind # "value"}
<1> ask = NextAsk(f.day) /\ ask.for = "fold" /\ ask.ids \in Seq(Innies)
  BY DEF StopsAt
<1>1. GathersFold(f, ask, c) /\ f.at \in Nat /\ f.later \in Seq(Nat)
  BY DEF Gathers, IsFrame
<1>2. \A m \in DOMAIN f.later : m < f.at
  <2>1. Asked(f) = [k \in DOMAIN f.later |-> ask.ids[f.later[k]]]
    BY DEF Asked
  <2>2. Len(f.later) \in Nat /\ DOMAIN f.later = 1..Len(f.later)
    BY <1>1, LenProperties
  <2>3. Len(Asked(f)) = Len(f.later)
    BY <2>1, <2>2
  <2> QED
    BY <1>1, <2>2, <2>3
<1>3. {m \in DOMAIN f.later : m < f.at} = DOMAIN f.later
  BY <1>2
<1>4. Seen(f) = (DOMAIN ask.ids \ PutOff(f)) \cup PutOff(f)
  BY <1>3 DEF Seen, PutOff
<1>5. Seen(f) = DOMAIN ask.ids
  BY <1>1, <1>4 DEF GathersFold
<1> QED
  BY <1>1, <1>5 DEF GathersFold

-----------------------------------------------------------------------------
(***************************************************************************)
(* What a workday goes on with.                                            *)
(***************************************************************************)

\* Enough has settled to answer the question of d: everything it asks for, or a
\* branch that ends its fold.
Told(d, c) ==
    LET ask == NextAsk(d)
    IN  /\ ask.ids \in Seq(Innies)
        /\ \/ /\ ask.for \in {"all", "fold"}
              /\ \A k \in DOMAIN ask.ids : c[ask.ids[k]] # Pending
           \/ /\ ask.for = "fold"
              /\ \E k \in DOMAIN ask.ids : c[ask.ids[k]] # Pending /\ Absorbs(ask, c[ask.ids[k]])

\* The three answers of the second workday, a fold that nothing ends being the
\* one of Reference.
LEMMA RereadIs ==
    ASSUME NEW d, NEW c, NEW ask, ask = NextAsk(d)
    PROVE  /\ ask.for = "all" => Reread(d, c) = AnswerAll(d, ask.ids, c)
           /\ ask.for = "fold" /\ (\E k \in DOMAIN ask.ids : Absorbs(ask, c[ask.ids[k]]))
                => Reread(d, c) = AnswerFold(d, ask.cond.quant = "ANY")
           /\ ask.for = "fold" /\ (\A k \in DOMAIN ask.ids : ~Absorbs(ask, c[ask.ids[k]]))
                => Reread(d, c) = FoldAll(d, ask, c)
<1> DEFINE faulty == {k \in DOMAIN ask.ids : c[ask.ids[k]].kind # "value"}
           least  == CHOOSE k \in faulty : \A m \in faulty : k <= m
<1>1. Sets!Min(faulty) = least
  BY DEF Sets!Min
<1>2. FoldAll(d, ask, c) = IF faulty = {} THEN AnswerFold(d, ask.cond.quant # "ANY")
                           ELSE Raise(d, FaultOf(ask.ids[least], c[ask.ids[least]]))
  BY DEF FoldAll
<1>3. Reread(d, c) =
        IF ask.for = "all" THEN AnswerAll(d, ask.ids, c)
        ELSE IF \E k \in DOMAIN ask.ids : Absorbs(ask, c[ask.ids[k]])
        THEN AnswerFold(d, ask.cond.quant = "ANY")
        ELSE IF faulty = {} THEN AnswerFold(d, ask.cond.quant # "ANY")
        ELSE Raise(d, FaultOf(ask.ids[Sets!Min(faulty)], c[ask.ids[Sets!Min(faulty)]]))
  BY DEF Reread
<1> HIDE DEF faulty, least
<1> QED
  BY <1>1, <1>2, <1>3

\* The answer does not change as more settles.
LEMMA RereadKept ==
    ASSUME NEW d, NEW c, Told(d, c), NEW c2, \A t \in Innies : c[t] # Pending => c2[t] = c[t]
    PROVE  Told(d, c2) /\ Reread(d, c2) = Reread(d, c)
<1> PICK ask : ask = NextAsk(d)
  OBVIOUS
<1>1. ask.ids \in Seq(Innies)
  BY DEF Told
<1>2. \A k \in DOMAIN ask.ids : c[ask.ids[k]] # Pending => c2[ask.ids[k]] = c[ask.ids[k]]
  BY <1>1, ElementOfSeq, LenProperties
<1>3. CASE ask.for = "fold" /\ \E k \in DOMAIN ask.ids : c[ask.ids[k]] # Pending /\ Absorbs(ask, c[ask.ids[k]])
  <2>1. PICK k \in DOMAIN ask.ids : c[ask.ids[k]] # Pending /\ Absorbs(ask, c[ask.ids[k]])
    BY <1>3
  <2>2. c2[ask.ids[k]] # Pending /\ Absorbs(ask, c2[ask.ids[k]])
    BY <1>2, <2>1
  <2>3. Told(d, c2)
    BY <1>1, <1>3, <2>2 DEF Told
  <2>4. Reread(d, c) = AnswerFold(d, ask.cond.quant = "ANY")
    BY <1>3, RereadIs
  <2>5. Reread(d, c2) = AnswerFold(d, ask.cond.quant = "ANY")
    BY <1>3, <2>2, RereadIs
  <2> QED
    BY <2>3, <2>4, <2>5
<1>4. CASE ask.for \in {"all", "fold"} /\ \A k \in DOMAIN ask.ids : c[ask.ids[k]] # Pending
  <2>1. \A k \in DOMAIN ask.ids : c2[ask.ids[k]] = c[ask.ids[k]]
    BY <1>2, <1>4
  <2>2. Told(d, c2)
    BY <1>1, <1>4, <2>1 DEF Told
  <2>3. CASE ask.for = "all"
    <3>1. AnswerAll(d, ask.ids, c2) = AnswerAll(d, ask.ids, c)
      <4>1. PICK ids \in Seq(Innies) : ids = ask.ids
        BY <1>1
      <4>2. \A k \in DOMAIN ids : c2[ids[k]] = c[ids[k]]
        BY <2>1, <4>1
      <4>3. AnswerAll(d, ids, c2) = AnswerAll(d, ids, c)
        BY <4>2, SameAnswerAll
      <4> QED
        BY <4>1, <4>3
    <3>2. Reread(d, c) = AnswerAll(d, ask.ids, c) /\ Reread(d, c2) = AnswerAll(d, ask.ids, c2)
      BY <2>3, RereadIs
    <3> QED
      BY <2>2, <3>1, <3>2
  <2>4. CASE ask.for = "fold" /\ \A k \in DOMAIN ask.ids : ~Absorbs(ask, c[ask.ids[k]])
    <3>1. FoldAll(d, ask, c2) = FoldAll(d, ask, c)
      BY <1>1, <2>1, SameFoldAll
    <3>2. \A k \in DOMAIN ask.ids : ~Absorbs(ask, c2[ask.ids[k]])
      BY <2>1, <2>4
    <3>3. Reread(d, c) = FoldAll(d, ask, c) /\ Reread(d, c2) = FoldAll(d, ask, c2)
      BY <2>4, <3>2, RereadIs
    <3> QED
      BY <2>2, <3>1, <3>3
  <2> QED
    BY <1>3, <1>4, <2>3, <2>4
<1> QED
  BY <1>3, <1>4 DEF Told

\* Whoever is under evaluation is done, or is stopped at a question, and that
\* lists Innies.
AsksInnies ==
    \A h \in 1..Depth :
        LET ask == NextAsk(frames[h].day)
        IN  Ended(frames[h].day) \/ (ask.for # "nothing" /\ ask.ids \in Seq(Innies))

\* The top, when it is stopped at a question.
LEMMA TopAsks ==
    ASSUME SerialInv, AsksInnies, AtWork
    PROVE  /\ onStack # <<>> /\ Depth \in Nat \ {0} /\ onStack[Depth] \in Innies
           /\ Depth \in 1..Depth /\ Top = frames[Depth] /\ IsFrame(Top)
           /\ StopsAt(Top.day, Question, "all") \/ StopsAt(Top.day, Question, "fold")
<1>1. onStack # <<>> /\ ~Ended(Top.day)
  BY DEF AtWork
<1>2. /\ Depth \in Nat \ {0} /\ Depth = Len(onStack) /\ onStack \in Seq(Innies)
      /\ Top = frames[Depth] /\ IsFrame(Top)
  BY <1>1, TopIs DEF SerialInv
<1>3. Depth \in 1..Depth /\ onStack[Depth] \in Innies
  BY <1>2, ElementOfSeq
<1>4. Question.for # "nothing" /\ Question.ids \in Seq(Innies)
  BY <1>1, <1>2, <1>3 DEF AsksInnies, Question
<1>5. Question.for \in {"all", "fold"}
  BY <1>4, QuestionKinds DEF Question
<1> QED
  BY <1>1, <1>2, <1>3, <1>4, <1>5 DEF StopsAt, Question

\* The frame g is f with more gathered, or f with its question answered.
GoesTo(f, g, c) ==
    /\ IsFrame(g) /\ Gathers(g, c)
    /\ g.day = f.day \/ (Told(f.day, c) /\ g.day = Reread(f.day, c))

\* One more result of those the top asks for,
LEMMA TakeGoesTo ==
    ASSUME SerialInv, AsksInnies, NEW id \in Innies, Take(id), Gathers(Top, cell)
    PROVE  \E g : frames' = WithTop(g) /\ GoesTo(Top, g, cell)
<1>1. AtWork /\ Top.at <= Len(Asked(Top)) /\ id = Asking(Top) /\ Settled(id)
  BY DEF Take, Needs
<1>2. PICK f, c, ask : f = Top /\ c = cell /\ ask = Question /\ ask = NextAsk(f.day)
  BY DEF Question
<1>3. StopsAt(f.day, ask, "all") \/ StopsAt(f.day, ask, "fold")
  BY <1>1, <1>2, TopAsks
<1>4. IsFrame(f) /\ Gathers(f, c)
  BY <1>1, <1>2, TopAsks
<1>5. f.at <= Len(Asked(f)) /\ c[Asking(f)] # Pending /\ id = Asking(f)
  BY <1>1, <1>2 DEF Settled
<1>6. PICK next : next = [f EXCEPT !.at = @ + 1] /\ next = Past(f)
  BY DEF Past
<1>7. Branch(f) = PositionAsked
  BY <1>2 DEF Branch, PositionAsked
<1>8. PICK g : /\ frames' = WithTop(g)
               /\ g = IF ask.for = "all" THEN next
                      ELSE IF Absorbs(ask, c[id])
                      THEN Frame(AnswerFold(f.day, ask.cond.quant = "ANY"))
                      ELSE IF c[id].kind = "value" THEN next
                      ELSE Faulted(next, Branch(f))
  BY <1>2, <1>6, <1>7 DEF Take, Faulted
<1>9. IsFrame(next) /\ next.day = f.day
  BY <1>4, <1>6, NextFrame
<1>10. GoesTo(f, g, c)
  <2>1. CASE StopsAt(f.day, ask, "all")
    <3>1. g = next
      BY <1>8, <2>1 DEF StopsAt
    <3>2. Gathers(next, c)
      BY <1>4, <1>5, <1>6, <2>1, GathersNext
    <3> QED
      BY <1>9, <3>1, <3>2 DEF GoesTo
  <2>2. CASE StopsAt(f.day, ask, "fold") /\ Absorbs(ask, c[id])
    <3>1. PICK k \in DOMAIN ask.ids : Asking(f) = ask.ids[k]
      BY <1>4, <1>5, <2>2, BranchIs
    <3>2. ask.for = "fold" /\ ask.ids \in Seq(Innies)
      BY <2>2 DEF StopsAt
    <3>3. c[ask.ids[k]] # Pending /\ Absorbs(ask, c[ask.ids[k]])
      BY <1>5, <2>2, <3>1
    <3>4. Told(f.day, c)
      BY <1>2, <3>2, <3>3 DEF Told
    <3>5. Reread(f.day, c) = AnswerFold(f.day, ask.cond.quant = "ANY")
      BY <1>2, <3>2, <3>3, RereadIs
    <3>6. g = Frame(Reread(f.day, c))
      BY <1>8, <2>2, <3>2, <3>5
    <3> QED
      BY <3>4, <3>6, FreshFrame, FreshGathers DEF GoesTo
  <2>3. CASE StopsAt(f.day, ask, "fold") /\ ~Absorbs(ask, c[id])
    <3>1. PICK result : result = c[Asking(f)] /\ result = c[id]
      BY <1>5
    <3>2. ask.for = "fold"
      BY <2>3 DEF StopsAt
    <3>3. g = IF result.kind = "value" THEN Past(f) ELSE Faulted(Past(f), Branch(f))
      BY <1>6, <1>8, <2>3, <3>1, <3>2
    <3>4. result # Pending /\ ~Absorbs(ask, result)
      BY <1>5, <2>3, <3>1
    <3>5. Gathers(g, c) /\ IsFrame(g) /\ g.day = f.day
      BY <1>4, <1>5, <2>3, <3>1, <3>3, <3>4, GathersBranch
    <3> QED
      BY <3>5 DEF GoesTo
  <2> QED
    BY <1>3, <2>1, <2>2, <2>3
<1> QED
  BY <1>2, <1>8, <1>10

\* or the end of a list or of a pass over the branches.
LEMMA QuestionGoesTo ==
    ASSUME SerialInv, AsksInnies, Unwrap \/ SecondPass \/ FoldOver, Gathers(Top, cell)
    PROVE  \E g : frames' = WithTop(g) /\ GoesTo(Top, g, cell)
<1>1. AtWork /\ Top.at > Len(Asked(Top))
  BY DEF Unwrap, SecondPass, FoldOver, HasAll
<1>2. PICK f, c, ask : f = Top /\ c = cell /\ ask = Question /\ ask = NextAsk(f.day)
  BY DEF Question
<1>3. /\ IsFrame(f) /\ Gathers(f, c) /\ f.at > Len(Asked(f))
      /\ StopsAt(f.day, ask, "all") \/ StopsAt(f.day, ask, "fold")
  BY <1>1, <1>2, TopAsks
<1>4. ask.ids \in Seq(Innies)
  BY <1>3 DEF StopsAt
<1>5. ASSUME frames' = WithTop(Frame(Reread(f.day, c))), Told(f.day, c)
      PROVE  \E g : frames' = WithTop(g) /\ GoesTo(f, g, c)
  BY <1>5, FreshFrame, FreshGathers DEF GoesTo
<1>6. CASE Unwrap
  <2>1. StopsAt(f.day, ask, "all") /\ ask.for = "all"
    BY <1>2, <1>3, <1>6 DEF Unwrap, StopsAt
  <2>2. \A k \in DOMAIN ask.ids : c[ask.ids[k]] # Pending
    BY <1>3, <2>1, GatheredAll
  <2>3. frames' = WithTop(Frame(AnswerAll(f.day, ask.ids, c)))
    BY <1>2, <1>6 DEF Unwrap
  <2>4. Reread(f.day, c) = AnswerAll(f.day, ask.ids, c)
    BY <1>2, <2>1, RereadIs
  <2>5. Told(f.day, c)
    BY <1>2, <1>4, <2>1, <2>2 DEF Told
  <2> QED
    BY <1>2, <1>5, <2>3, <2>4, <2>5
<1>7. CASE SecondPass
  <2>1. InFirstPass(f)
    BY <1>2, <1>7 DEF SecondPass, InFirstPass, Question
  <2>2. PICK g : g = [f EXCEPT !.second = TRUE, !.at = 1]
    OBVIOUS
  <2>3. Gathers(g, c)
    BY <1>3, <2>1, <2>2, GathersSecond
  <2>4. IsFrame(g) /\ g.day = f.day
    BY <1>3, <2>2, SecondFrame
  <2>5. frames' = WithTop(g)
    BY <1>2, <1>7, <2>2 DEF SecondPass
  <2> QED
    BY <1>2, <2>3, <2>4, <2>5 DEF GoesTo
<1>8. CASE FoldOver
  <2>1. StopsAt(f.day, ask, "fold") /\ f.second /\ ask.for = "fold"
    BY <1>2, <1>3, <1>8 DEF FoldOver, StopsAt
  <2> DEFINE blamed == ask.ids[Sets!Min(f.faults)]
             least  == CHOOSE k \in f.faults : \A m \in f.faults : k <= m
             faulty == {k \in DOMAIN ask.ids : c[ask.ids[k]].kind # "value"}
             first  == CHOOSE k \in faulty : \A m \in faulty : k <= m
  <2>2. /\ \A k \in DOMAIN ask.ids : c[ask.ids[k]] # Pending /\ ~Absorbs(ask, c[ask.ids[k]])
        /\ f.faults = faulty
    BY <1>3, <2>1, GatheredFold
  <2>3. frames' = WithTop(Frame(IF f.faults = {} THEN AnswerFold(f.day, ask.cond.quant # "ANY")
                                ELSE Raise(f.day, FaultOf(blamed, c[blamed]))))
    BY <1>2, <1>8 DEF FoldOver, Raised
  <2>4. FoldAll(f.day, ask, c) = IF faulty = {} THEN AnswerFold(f.day, ask.cond.quant # "ANY")
                                 ELSE Raise(f.day, FaultOf(ask.ids[first], c[ask.ids[first]]))
    BY DEF FoldAll
  <2>5. Sets!Min(f.faults) = least
    BY DEF Sets!Min
  <2> HIDE DEF faulty
  <2>6. frames' = WithTop(Frame(FoldAll(f.day, ask, c)))
    BY <2>2, <2>3, <2>4, <2>5
  <2>7. Reread(f.day, c) = FoldAll(f.day, ask, c)
    BY <1>2, <2>1, <2>2, RereadIs
  <2>8. Told(f.day, c)
    BY <1>2, <1>4, <2>1, <2>2 DEF Told
  <2> QED
    BY <1>2, <1>5, <2>6, <2>7, <2>8
<1> QED
  BY <1>6, <1>7, <1>8

-----------------------------------------------------------------------------
(***************************************************************************)
(* The oracle and the run of Reference.  Until it strays the oracle stays  *)
(* on the course of the first phase of that run: every result it has is    *)
(* the one the phase ends with, and every frame's workday is one the phase *)
(* passes through.                                                         *)
(***************************************************************************)

\* The results in c are those of p[e].
Right(p, e, c) == \A t \in Innies : c[t] # Pending => c[t] = p[e].cell[t]

\* The frame f of i is somewhere on i's way, and rightly there.
Along(p, e, i, f, c) == Passes(p, e, i, f.day) /\ Gathers(f, c)

OnCourse(p, e) ==
    /\ Right(p, e, cell)
    /\ \A h \in 1..Depth : Along(p, e, onStack[h], frames[h], cell)

\* Every Innie starts where the run starts,
LEMMA StartsAlong ==
    ASSUME NEW p, NEW N, NEW e, FirstCourse(p, N, e), NEW programs, p[1] = StartOf(programs),
           NEW i \in Innies, NEW c
    PROVE  Along(p, e, i, Frame(RunToAsk(Begin(programs[i]))), c)
<1>1. PICK d : d = RunToAsk(Begin(programs[i]))
  OBVIOUS
<1>2. p[1].day[i] = d
  BY <1>1 DEF StartOf
<1>3. Frame(d).day = d
  BY FreshFrame
<1>4. 1 \in 1..e
  BY DEF FirstCourse
<1> QED
  BY <1>1, <1>2, <1>3, <1>4, FreshGathers DEF Along, Passes

\* and goes where the run goes.
LEMMA RereadAlong ==
    ASSUME NEW p, NEW N, NEW e, FirstCourse(p, N, e), NEW i \in Innies,
           NEW d, Passes(p, e, i, d), NEW c, Right(p, e, c), Told(d, c)
    PROVE  Passes(p, e, i, Reread(d, c))
<1> PICK ask : ask = NextAsk(d)
  OBVIOUS
<1>1. ask.ids \in Seq(Innies) /\ ask.for \in {"all", "fold"}
  BY DEF Told
<1>2. \A k \in DOMAIN ask.ids : ask.ids[k] \in Innies
  BY <1>1, ElementOfSeq, LenProperties
<1>3. CASE ask.for = "fold" /\ \E k \in DOMAIN ask.ids : c[ask.ids[k]] # Pending /\ Absorbs(ask, c[ask.ids[k]])
  <2>1. PICK k \in DOMAIN ask.ids : c[ask.ids[k]] # Pending /\ Absorbs(ask, c[ask.ids[k]])
    BY <1>3
  <2>2. HasResults(p, e, ask.ids, {k}, c)
    BY <1>2, <2>1 DEF HasResults, Right
  <2>3. StopsAt(d, ask, "fold")
    BY <1>1, <1>3 DEF StopsAt
  <2>4. Passes(p, e, i, AnswerFold(d, ask.cond.quant = "ANY"))
    BY <2>1, <2>2, <2>3, GoesOnAbsorbed
  <2> QED
    BY <1>3, <2>1, <2>4, RereadIs
<1>4. CASE \A k \in DOMAIN ask.ids : c[ask.ids[k]] # Pending
  <2>1. HasResults(p, e, ask.ids, DOMAIN ask.ids, c)
    BY <1>2, <1>4 DEF HasResults, Right
  <2>2. CASE ask.for = "all"
    <3>1. StopsAt(d, ask, "all")
      BY <1>1, <2>2 DEF StopsAt
    <3>2. Passes(p, e, i, AnswerAll(d, ask.ids, c))
      BY <2>1, <3>1, GoesOnAll
    <3> QED
      BY <2>2, <3>2, RereadIs
  <2>3. CASE ask.for = "fold" /\ \A k \in DOMAIN ask.ids : ~Absorbs(ask, c[ask.ids[k]])
    <3>1. StopsAt(d, ask, "fold")
      BY <1>1, <2>3 DEF StopsAt
    <3>2. Passes(p, e, i, FoldAll(d, ask, c))
      BY <2>1, <2>3, <3>1, GoesOnFold
    <3> QED
      BY <2>3, <3>2, RereadIs
  <2> QED
    BY <1>1, <1>3, <1>4, <2>2, <2>3
<1> QED
  BY <1>3, <1>4 DEF Told

-----------------------------------------------------------------------------
\* A step that lets a lower part of the stack be, and has its top on course.
LEMMA CourseBelow ==
    ASSUME NEW p, NEW e, OnCourse(p, e), NEW n \in Nat, Depth' = n,
           \A h \in 1..(n - 1) : h \in 1..Depth /\ onStack'[h] = onStack[h] /\ frames'[h] = frames[h],
           \A t \in Innies : cell[t] # Pending => cell'[t] = cell[t],
           Right(p, e, cell'),
           n # 0 => Along(p, e, onStack'[n], frames'[n], cell')
    PROVE  OnCourse(p, e)'
<1>1. ASSUME NEW h \in 1..n PROVE Along(p, e, onStack'[h], frames'[h], cell')
  <2>1. CASE h = n
    BY <2>1
  <2>2. CASE h # n
    <3>1. h \in 1..(n - 1)
      BY <2>2
    <3>2. PICK i, f, c, c2 : i = onStack[h] /\ f = frames[h] /\ c = cell /\ c2 = cell'
      OBVIOUS
    <3>3. Passes(p, e, i, f.day) /\ Gathers(f, c)
      BY <3>1, <3>2 DEF OnCourse, Along
    <3>4. \A t \in Innies : c[t] # Pending => c2[t] = c[t]
      BY <3>2
    <3>5. Gathers(f, c2)
      BY <3>3, <3>4, GathersKept
    <3>6. Along(p, e, i, f, c2)
      BY <3>3, <3>5 DEF Along
    <3>7. i = onStack'[h] /\ f = frames'[h]
      BY <3>1, <3>2
    <3> QED
      BY <3>2, <3>6, <3>7
  <2> QED
    BY <2>1, <2>2
<1>2. Right(p, e, cell)'
  BY DEF Right
<1>3. \A h \in 1..Depth' : Along(p, e, onStack'[h], frames'[h], cell')
  BY <1>1
<1>4. (\A h \in 1..Depth : Along(p, e, onStack[h], frames[h], cell))'
  BY <1>3 DEF Along, Passes, Gathers
<1> QED
  BY <1>2, <1>4 DEF OnCourse

\* A step of the top alone.
LEMMA CourseOfTop ==
    ASSUME SerialInv, onStack # <<>>, UNCHANGED evalVars,
           NEW p, NEW e, OnCourse(p, e),
           NEW f, IsFrame(f), frames' = WithTop(f), Along(p, e, onStack[Depth], f, cell)
    PROVE  OnCourse(p, e)'
<1>1. Depth \in Nat \ {0} /\ FramesInv
  BY TopIs DEF SerialInv
<1>2. cell' = cell /\ onStack' = onStack /\ probes' = probes
  BY DEF evalVars
<1>3. /\ Depth' = Depth /\ frames'[Depth] = f
      /\ \A h \in 1..(Depth - 1) : frames'[h] = frames[h]
  BY <1>1, <1>2, TopGoesOn
<1>4. PICK n \in Nat : n = Depth
  BY <1>1
<1>5. \A h \in 1..(n - 1) : h \in 1..Depth /\ onStack'[h] = onStack[h] /\ frames'[h] = frames[h]
  BY <1>2, <1>3, <1>4
<1>6. Right(p, e, cell')
  BY <1>2 DEF OnCourse
<1>7. Along(p, e, onStack'[n], frames'[n], cell')
  BY <1>2, <1>3, <1>4
<1> QED
  BY <1>2, <1>3, <1>4, <1>5, <1>6, <1>7, CourseBelow

LEMMA StartCourse ==
    ASSUME SerialInv, Start, NEW p, NEW N, NEW e, FirstCourse(p, N, e), p[1] = StartOf(schedule),
           OnCourse(p, e)
    PROVE  OnCourse(p, e)'
<1>1. PICK id \in Innies : Depth' = 1 /\ onStack'[1] = id /\ frames'[1] = NewFrame(id)
  BY StartFrames DEF SerialInv
<1>2. cell' = cell
  BY DEF Start, Enter
<1>3. PICK c, programs : c = cell /\ programs = schedule
  OBVIOUS
<1>4. Along(p, e, id, Frame(RunToAsk(Begin(programs[id]))), c)
  BY <1>3, StartsAlong
<1>5. Along(p, e, onStack'[1], frames'[1], cell')
  BY <1>1, <1>2, <1>3, <1>4 DEF NewFrame
<1>6. PICK n \in Nat : n = 1
  OBVIOUS
<1>7. \A h \in 1..(n - 1) : h \in 1..Depth /\ onStack'[h] = onStack[h] /\ frames'[h] = frames[h]
  BY <1>6
<1>8. Right(p, e, cell')
  BY <1>2 DEF OnCourse
<1> QED
  BY <1>1, <1>2, <1>5, <1>6, <1>7, <1>8, CourseBelow

LEMMA DescendCourse ==
    ASSUME SerialInv, NEW id \in Innies, Descend(id),
           NEW p, NEW N, NEW e, FirstCourse(p, N, e), p[1] = StartOf(schedule), OnCourse(p, e)
    PROVE  OnCourse(p, e)'
<1>1. /\ Depth' = Depth + 1 /\ frames'[Depth + 1] = NewFrame(id)
      /\ \A h \in 1..Depth : frames'[h] = frames[h] /\ onStack'[h] = onStack[h]
      /\ onStack'[Depth + 1] = id /\ Depth \in Nat \ {0}
  BY DescendFrames DEF SerialInv
<1>2. cell' = cell
  BY DEF Descend, Push
<1>3. PICK c, programs : c = cell /\ programs = schedule
  OBVIOUS
<1>4. Along(p, e, id, Frame(RunToAsk(Begin(programs[id]))), c)
  BY <1>3, StartsAlong
<1>5. PICK n \in Nat : n = Depth + 1
  BY <1>1
<1>6. Along(p, e, onStack'[n], frames'[n], cell')
  BY <1>1, <1>2, <1>3, <1>4, <1>5 DEF NewFrame
<1>7. \A h \in 1..(n - 1) : h \in 1..Depth /\ onStack'[h] = onStack[h] /\ frames'[h] = frames[h]
  BY <1>1, <1>5
<1>8. Right(p, e, cell')
  BY <1>2 DEF OnCourse
<1> QED
  BY <1>1, <1>2, <1>5, <1>6, <1>7, <1>8, CourseBelow

LEMMA DeferCourse ==
    ASSUME SerialInv, NEW id \in Innies, Defer(id), NEW p, NEW e, OnCourse(p, e)
    PROVE  OnCourse(p, e)'
<1>1. PICK n \in 1..Depth :
              /\ Depth' = n
              /\ \A h \in 1..n : onStack'[h] = onStack[h]
              /\ \A h \in 1..(n - 1) : frames'[h] = frames[h]
              /\ frames'[n] = PutOffNext(frames[n])
              /\ InFirstPass(frames[n]) /\ frames[n].at <= Len(Asked(frames[n]))
  BY DeferFrames DEF SerialInv
<1>2. cell' = cell
  BY DEF Defer, Reenter
<1>3. Depth \in Nat /\ n \in Nat /\ n # 0 /\ n \in 1..n
  BY DEF SerialInv, EvalInv, StackTypeOK, Depth
<1>4. PICK f, g, c, i : f = frames[n] /\ g = frames'[n] /\ c = cell /\ i = onStack[n]
  OBVIOUS
<1>5. Passes(p, e, i, f.day) /\ Gathers(f, c)
  BY <1>4 DEF OnCourse, Along
<1>6. IsFrame(f)
  BY <1>4 DEF SerialInv, FramesInv
<1>7. /\ g = PutOffNext(f)
      /\ InFirstPass(f) /\ f.at <= Len(Asked(f))
  BY <1>1, <1>4
<1>8. Gathers(g, c)
  BY <1>5, <1>6, <1>7, GathersPutOff
<1>9. g.day = f.day
  BY <1>6, <1>7, DeferringFrame
<1>10. Along(p, e, i, g, c)
  BY <1>5, <1>8, <1>9 DEF Along
<1>11. Along(p, e, onStack'[n], frames'[n], cell')
  BY <1>1, <1>2, <1>3, <1>4, <1>10
<1>12. \A h \in 1..(n - 1) : h \in 1..Depth /\ onStack'[h] = onStack[h] /\ frames'[h] = frames[h]
  <2>1. \A h \in 1..(n - 1) : h \in 1..Depth /\ h \in 1..n
    BY <1>3
  <2> QED
    BY <1>1, <2>1
<1>13. Right(p, e, cell')
  BY <1>2 DEF OnCourse
<1> QED
  BY <1>1, <1>2, <1>3, <1>11, <1>12, <1>13, CourseBelow

LEMMA TopCourse ==
    ASSUME SerialInv, AsksInnies,
           (\E id \in Innies : Take(id)) \/ Unwrap \/ SecondPass \/ FoldOver,
           NEW p, NEW N, NEW e, FirstCourse(p, N, e), OnCourse(p, e)
    PROVE  OnCourse(p, e)'
<1>1. AtWork /\ UNCHANGED evalVars
  BY DEF Take, Needs, Unwrap, SecondPass, FoldOver, HasAll
<1>2. PICK f, c, i : f = Top /\ c = cell /\ i = onStack[Depth]
  OBVIOUS
<1>3. onStack # <<>> /\ i \in Innies /\ Depth \in 1..Depth /\ Top = frames[Depth]
  BY <1>1, <1>2, TopAsks
<1>4. Passes(p, e, i, f.day) /\ Gathers(f, c) /\ Right(p, e, c)
  BY <1>2, <1>3 DEF OnCourse, Along
<1>5. PICK g : frames' = WithTop(g) /\ GoesTo(f, g, c)
  BY <1>2, <1>4, TakeGoesTo, QuestionGoesTo
<1>6. IsFrame(g) /\ Along(p, e, i, g, c)
  BY <1>3, <1>4, <1>5, RereadAlong DEF GoesTo, Along
<1> QED
  BY <1>1, <1>2, <1>3, <1>5, <1>6, CourseOfTop

\* What is published is what the run publishes.
LEMMA PublishCourse ==
    ASSUME SerialInv, Publish, NEW p, NEW N, NEW e, FirstCourse(p, N, e), OnCourse(p, e)
    PROVE  OnCourse(p, e)'
<1>1. /\ Depth \in Nat \ {0} /\ Depth' = Depth - 1
      /\ \A h \in 1..(Depth - 1) : onStack'[h] = onStack[h] /\ frames'[h] = frames[h]
  BY EndFrames DEF SerialInv
<1>2. PICK top : top = onStack[Depth] /\ top = LastOf(onStack)
  BY DEF LastOf, Depth
<1>3. PICK c, c2, d : c = cell /\ c2 = cell' /\ d = Top.day
  OBVIOUS
<1>4. /\ Depth \in 1..Depth /\ onStack \in Seq(Innies) /\ Depth = Len(onStack) /\ top \in Innies
      /\ c \in [Innies -> Results \cup {Pending}]
  <2>1. /\ onStack \in Seq(Innies) /\ Depth = Len(onStack)
        /\ cell \in [Innies -> Results \cup {Pending}]
    BY DEF SerialInv, EvalInv, StackTypeOK, Depth
  <2>2. Depth \in 1..Len(onStack)
    BY <1>1, <2>1
  <2> QED
    BY <1>2, <1>3, <2>1, <2>2, ElementOfSeq
<1>5. Ended(d) /\ c2 = IF c[top] # Pending THEN c ELSE [c EXCEPT ![top] = Outcome(d)]
  BY <1>2, <1>3 DEF Publish, Return, Settled
<1>6. Passes(p, e, top, d) /\ Right(p, e, c)
  BY <1>2, <1>3, <1>4 DEF OnCourse, Along, Top
<1>7. p[e].cell[top] = Outcome(d)
  BY <1>4, <1>5, <1>6, EndsAlike
<1>8. /\ \A t \in Innies : c[t] # Pending => c2[t] = c[t]
      /\ Right(p, e, c2)
  <2>1. \A t \in Innies : c2[t] = IF t = top /\ c[t] = Pending THEN Outcome(d) ELSE c[t]
    BY <1>4, <1>5
  <2> QED
    BY <1>6, <1>7, <2>1 DEF Right
<1>9. PICK n \in Nat : n = Depth - 1
  BY <1>1
<1>10. \A h \in 1..n : h \in 1..Depth /\ onStack'[h] = onStack[h] /\ frames'[h] = frames[h]
  BY <1>1, <1>9
<1>11. ASSUME n # 0 PROVE Along(p, e, onStack'[n], frames'[n], cell')
  <2>1. n \in 1..n
    BY <1>11
  <2>2. PICK f, i : f = frames[n] /\ i = onStack[n]
    OBVIOUS
  <2>3. Passes(p, e, i, f.day) /\ Gathers(f, c)
    BY <1>3, <1>10, <2>1, <2>2 DEF OnCourse, Along
  <2>4. Gathers(f, c2)
    BY <1>8, <2>3, GathersKept
  <2>5. Along(p, e, i, f, c2)
    BY <2>3, <2>4 DEF Along
  <2> QED
    BY <1>3, <1>10, <2>1, <2>2, <2>5
<1>12. \A h \in 1..(n - 1) : h \in 1..n
  OBVIOUS
<1> QED
  BY <1>1, <1>3, <1>8, <1>9, <1>10, <1>11, <1>12, CourseBelow

LEMMA WalkCourse ==
    ASSUME SerialInv, AsksInnies, Walk \/ UNCHANGED serialVars,
           NEW p, NEW N, NEW e, FirstCourse(p, N, e), p[1] = StartOf(schedule), OnCourse(p, e)
    PROVE  OnCourse(p, e)'
<1>1. CASE Done \/ UNCHANGED serialVars
  <2>1. UNCHANGED <<cell, onStack, frames>>
    BY <1>1 DEF Done, serialVars, evalVars
  <2>2. Depth' = Depth
    BY <2>1 DEF Depth
  <2> QED
    BY <2>1, <2>2 DEF OnCourse, Right, Along, Passes, Gathers
<1>2. CASE Start
  BY <1>2, StartCourse
<1>3. ASSUME NEW id \in Innies, Descend(id) PROVE OnCourse(p, e)'
  BY <1>3, DescendCourse
<1>4. CASE (\E id \in Innies : Take(id)) \/ Unwrap \/ SecondPass \/ FoldOver
  BY <1>4, TopCourse
<1>5. ASSUME NEW id \in Innies, Defer(id) PROVE OnCourse(p, e)'
  BY <1>5, DeferCourse
<1>6. CASE Publish
  BY <1>6, PublishCourse
<1> QED
  BY <1>1, <1>2, <1>3, <1>4, <1>5, <1>6 DEF Walk

-----------------------------------------------------------------------------
\* The run of Reference so far; the oracle waits for its end, and then keeps to
\* it until it strays.
TheRun(p, N) == RunFrom(schedule, p, N) /\ p[N] = ref

Idle == onStack = <<>> /\ \A i \in Innies : ~Settled(i)

KeepsTo(p, N) ==
    IF Complete(ref) THEN strayed \/ \E e \in 1..N : FirstCourse(p, N, e) /\ OnCourse(p, e)
                     ELSE Idle

OracleInv ==
    /\ SerialInv
    /\ \E N \in Nat \ {0} : \E p : TheRun(p, N) /\ KeepsTo(p, N)

LEMMA IdleIsOnCourse ==
    ASSUME Idle, NEW p, NEW e PROVE OnCourse(p, e)
<1>1. Depth = 0
  BY DEF Idle, Depth
<1> QED
  BY <1>1 DEF Idle, OnCourse, Right, Settled

\* A complete run has its first phase.
LEMMA HasFirstCourse ==
    ASSUME NEW N \in Nat \ {0}, NEW p, NEW programs, RunFrom(programs, p, N), Complete(p[N])
    PROVE  \E e \in 1..N : FirstCourse(p, N, e)
<1>1. /\ p[1] = StartOf(programs)
      /\ \A k \in 1..(N - 1) : p[k + 1] = Successor(p[k])
  BY DEF RunFrom
<1>2. PICK e \in 1..N : /\ Phase(p, N, 1, e) /\ 1 \in 1..e
                        /\ \A i \in Innies : Open(p[1], i)
  BY <1>1, FirstPhase
<1> QED
  BY <1>2 DEF FirstCourse

LEMMA InitOracleInv == OracleInit => OracleInv
<1> SUFFICES ASSUME OracleInit PROVE OracleInv
  OBVIOUS
<1>1. SerialInv /\ Idle /\ ref = StartOf(schedule)
  BY InitSerialInv DEF OracleInit, SerialInit, EvalInit, Idle, Settled
<1>2. PICK N \in Nat \ {0} : N = 1
  OBVIOUS
<1>3. PICK p : p = [k \in 1..1 |-> ref]
  OBVIOUS
<1>4. p[1] = ref /\ 1..(N - 1) = {}
  BY <1>2, <1>3
<1>5. TheRun(p, N)
  BY <1>1, <1>2, <1>4 DEF TheRun, RunFrom
<1>6. KeepsTo(p, N)
  <2>1. ASSUME Complete(ref) PROVE \E e \in 1..N : FirstCourse(p, N, e)
    <3>1. PICK programs : programs = schedule
      OBVIOUS
    <3>2. RunFrom(programs, p, N) /\ Complete(p[N])
      BY <1>5, <2>1, <3>1 DEF TheRun
    <3> QED
      BY <3>2, HasFirstCourse
  <2> QED
    BY <1>1, <2>1, IdleIsOnCourse DEF KeepsTo
<1> QED
  BY <1>1, <1>5, <1>6 DEF OracleInv

LEMMA ComputeKeepsTo ==
    ASSUME OracleInv, Compute
    PROVE  OracleInv'
<1>1. PICK N \in Nat \ {0} : \E p : TheRun(p, N) /\ KeepsTo(p, N)
  BY DEF OracleInv
<1>2. PICK p : TheRun(p, N) /\ KeepsTo(p, N)
  BY <1>1
<1>3. PICK r : r = ref'
  OBVIOUS
<1>4. /\ ~Complete(ref) /\ r = Successor(ref) /\ Idle
      /\ UNCHANGED serialVars
  BY <1>2, <1>3 DEF Compute, KeepsTo
<1>5. PICK M \in Nat \ {0} : M = N + 1
  OBVIOUS
<1> DEFINE q == [k \in 1..M |-> IF k = M THEN r ELSE p[k]]
<1>6. q[1] = p[1] /\ q[M] = r
  BY <1>5
<1>7. ASSUME NEW k \in 1..(M - 1) PROVE ~Complete(q[k]) /\ q[k + 1] = Successor(q[k])
  <2>1. CASE k = N
    BY <1>2, <1>4, <1>5, <2>1 DEF TheRun, RunFrom
  <2>2. CASE k # N
    <3>1. k \in 1..(N - 1) /\ q[k] = p[k] /\ q[k + 1] = p[k + 1]
      BY <1>5, <2>2
    <3> QED
      BY <1>2, <3>1 DEF TheRun, RunFrom
  <2> QED
    BY <2>1, <2>2
<1>8. PICK programs : programs = schedule /\ programs = schedule' /\ q[1] = StartOf(programs)
  BY <1>2, <1>4, <1>6 DEF TheRun, RunFrom, serialVars
<1> HIDE DEF q
<1>9. RunFrom(programs, q, M)
  BY <1>7, <1>8 DEF RunFrom
<1>10. TheRun(q, M)'
  BY <1>3, <1>6, <1>8, <1>9 DEF TheRun, RunFrom
<1>11. Idle' /\ SerialInv'
  <2>1. Idle'
    BY <1>4 DEF Idle, Settled, serialVars, evalVars
  <2>2. SerialInv'
    BY <1>4, NextSerialInv DEF OracleInv
  <2> QED
    BY <2>1, <2>2
<1>12. ASSUME Complete(r) PROVE \E e \in 1..M : FirstCourse(q, M, e) /\ OnCourse(q, e)'
  <2>1. PICK e \in 1..M : FirstCourse(q, M, e)
    BY <1>6, <1>9, <1>12, HasFirstCourse
  <2>2. OnCourse(q, e)
    BY <1>4, IdleIsOnCourse
  <2>3. UNCHANGED <<cell, onStack, frames>> /\ Depth' = Depth
    BY <1>4 DEF serialVars, evalVars, Depth
  <2>4. OnCourse(q, e)'
    BY <2>2, <2>3 DEF OnCourse, Right, Along, Passes, Gathers
  <2> QED
    BY <2>1, <2>4
<1>13. KeepsTo(q, M)'
  <2>1. CASE Complete(r)
    <3>1. PICK e \in 1..M : FirstCourse(q, M, e) /\ OnCourse(q, e)'
      BY <1>12, <2>1
    <3>2. FirstCourse(q, M, e)'
      BY <3>1 DEF FirstCourse, Phase
    <3> QED
      BY <1>3, <2>1, <3>1, <3>2 DEF KeepsTo, Complete
  <2>2. CASE ~Complete(r)
    BY <1>3, <1>11, <2>2 DEF KeepsTo, Complete
  <2> QED
    BY <2>1, <2>2
<1> QED
  BY <1>10, <1>11, <1>13 DEF OracleInv

LEMMA RunKeepsTo ==
    ASSUME OracleInv, AsksInnies, RunOracle \/ UNCHANGED oracleVars
    PROVE  OracleInv'
<1>1. PICK N \in Nat \ {0} : \E p : TheRun(p, N) /\ KeepsTo(p, N)
  BY DEF OracleInv
<1>2. PICK p : TheRun(p, N) /\ KeepsTo(p, N)
  BY <1>1
<1>3. ref' = ref /\ schedule' = schedule /\ [SerialNext]_serialVars
  <2>1. CASE RunOracle
    <3>1. SerialNext /\ ref' = ref
      BY <2>1 DEF RunOracle, SerialNext
    <3>2. schedule' = schedule
      BY <3>1 DEF SerialNext, Walk, Stray, Start, Descend, Take, Defer, Deadlock, Unwrap,
           SecondPass, FoldOver, Publish, Overflow, OverflowInReturn, OverflowInCycle, Done,
           serialVars
    <3> QED
      BY <3>1, <3>2
  <2>2. CASE UNCHANGED oracleVars
    BY <2>2 DEF oracleVars, serialVars
  <2> QED
    BY <2>1, <2>2
<1>4. TheRun(p, N)' /\ (Complete(ref)' <=> Complete(ref))
  BY <1>2, <1>3 DEF TheRun, RunFrom
<1>5. SerialInv'
  BY <1>3, NextSerialInv DEF OracleInv
<1>6. KeepsTo(p, N)'
  <2>1. CASE UNCHANGED oracleVars /\ ~Complete(ref)
    BY <1>2, <1>4, <2>1 DEF KeepsTo, Idle, Settled, oracleVars, serialVars, evalVars
  <2>2. CASE Complete(ref) /\ strayed'
    BY <1>4, <2>2 DEF KeepsTo
  <2>3. CASE Complete(ref) /\ ~strayed'
    <3>1. ~strayed /\ (Walk \/ UNCHANGED serialVars)
      BY <2>3 DEF RunOracle, oracleVars
    <3>2. PICK e \in 1..N : FirstCourse(p, N, e) /\ OnCourse(p, e)
      BY <1>2, <2>3, <3>1 DEF KeepsTo
    <3>3. p[1] = StartOf(schedule)
      BY <1>2 DEF TheRun, RunFrom
    <3>4. OnCourse(p, e)'
      BY <3>1, <3>2, <3>3, WalkCourse DEF OracleInv
    <3>5. FirstCourse(p, N, e)'
      BY <3>2 DEF FirstCourse, Phase
    <3> QED
      BY <1>4, <2>3, <3>4, <3>5 DEF KeepsTo
  <2> QED
    BY <2>1, <2>2, <2>3 DEF RunOracle
<1> QED
  BY <1>4, <1>5, <1>6 DEF OracleInv

-----------------------------------------------------------------------------
(***************************************************************************)
(* The evaluations keep to the programs' instructions.                     *)
(***************************************************************************)
Within(I, d) == InProgress(I, d) /\ Stopped(d)

Inside(I) ==
    /\ schedule \in [Innies -> Seq(I)]
    /\ \A h \in 1..Depth : Within(I, frames[h].day)

LEMMA WithinGoesOn ==
    ASSUME NEW I, Closed(I), RunsBlocks(I), NEW d, Within(I, d)
    PROVE  /\ \A x : Within(I, Raise(d, x))
           /\ \A ids, c : Within(I, AnswerAll(d, ids, c))
           /\ \A truth : Within(I, AnswerFold(d, truth))
<1>1. ASSUME NEW x PROVE Within(I, Raise(d, x)) /\ Within(I, Answer(d, x))
  BY GoesOnInside DEF Within
<1>2. ASSUME NEW ids, NEW c PROVE Within(I, AnswerAll(d, ids, c))
  BY <1>1, ToldOrRaised
<1> QED
  BY <1>1, <1>2 DEF AnswerFold

\* What the top goes on with.
LEMMA TopInside ==
    ASSUME NEW I, Closed(I), RunsBlocks(I), EvalInv, FramesInv, Inside(I),
           \/ \E id \in Innies : Take(id) \/ OverflowInCycle(id)
           \/ Unwrap \/ SecondPass \/ FoldOver \/ Overflow
    PROVE  Inside(I)'
<1>1. UNCHANGED <<onStack, probes>> /\ onStack # <<>>
  BY TopOnly
<1>2. Depth \in Nat \ {0} /\ Top = frames[Depth] /\ IsFrame(Top)
  BY <1>1, TopIs
<1>3. Depth \in 1..Depth /\ Within(I, Top.day)
  BY <1>2 DEF Inside
<1>4. /\ \A x : Within(I, Raise(Top.day, x))
      /\ \A ids, c : Within(I, AnswerAll(Top.day, ids, c))
      /\ \A truth : Within(I, AnswerFold(Top.day, truth))
  BY <1>3, WithinGoesOn
<1>5. \A d : IsFrame(Frame(d)) /\ Frame(d).day = d
  BY FreshFrame
<1>6. ASSUME NEW f, IsFrame(f), Within(I, f.day), frames' = WithTop(f), schedule' = schedule
      PROVE  Inside(I)'
  <2>1. /\ Depth' = Depth /\ frames'[Depth] = f
        /\ \A h \in 1..(Depth - 1) : frames'[h] = frames[h]
    BY <1>1, <1>2, <1>6, TopGoesOn
  <2>2. \A h \in 1..Depth : h = Depth \/ h \in 1..(Depth - 1)
    BY <1>2
  <2> QED
    BY <1>6, <2>1, <2>2 DEF Inside
<1>7. ASSUME NEW id \in Innies, Take(id) PROVE Inside(I)'
  <2>1. PICK next : next = [Top EXCEPT !.at = @ + 1]
    OBVIOUS
  <2>2. PICK last : last = Faulted(next, PositionAsked)
    OBVIOUS
  <2>3. IsFrame(next) /\ IsFrame(last) /\ next.day = Top.day /\ last.day = Top.day
    BY <1>2, <2>1, <2>2, NextFrame, FaultyFrame
  <2>4. /\ schedule' = schedule
        /\ \/ \E truth : frames' = WithTop(Frame(AnswerFold(Top.day, truth)))
           \/ frames' = WithTop(next) \/ frames' = WithTop(last)
    BY <1>7, <2>1, <2>2 DEF Take, Faulted
  <2> QED
    BY <1>3, <1>4, <1>5, <1>6, <2>3, <2>4
<1>8. CASE SecondPass
  <2>1. PICK f : f = [Top EXCEPT !.second = TRUE, !.at = 1]
    OBVIOUS
  <2>2. frames' = WithTop(f) /\ schedule' = schedule
    BY <1>8, <2>1 DEF SecondPass
  <2>3. IsFrame(f) /\ f.day = Top.day
    <3>1. IsFrame(Top)
      BY <1>2
    <3>2. \A g : g = [Top EXCEPT !.second = TRUE, !.at = 1] => IsFrame(g) /\ g.day = Top.day
      BY <3>1, SecondFrame
    <3> QED
      BY <2>1, <3>2
  <2> QED
    BY <1>3, <1>6, <2>2, <2>3
<1>9. CASE Unwrap \/ FoldOver \/ Overflow \/ \E id \in Innies : OverflowInCycle(id)
  <2>1. /\ schedule' = schedule
        /\ \/ \E ids, c : frames' = WithTop(Frame(AnswerAll(Top.day, ids, c)))
           \/ \E truth : frames' = WithTop(Frame(AnswerFold(Top.day, truth)))
           \/ \E x : frames' = WithTop(Frame(Raise(Top.day, x)))
    BY <1>9 DEF Unwrap, FoldOver, Overflow, OverflowInCycle, RanOut, Raised
  <2> QED
    BY <1>4, <1>5, <1>6, <2>1
<1> QED
  BY <1>7, <1>8, <1>9

LEMMA InitInside ==
    ASSUME NEW I, \A s \in Schedules : s \in [Innies -> Seq(I)], SerialInit
    PROVE  Inside(I)
BY DEF SerialInit, EvalInit, Inside, Depth

LEMMA NextInside ==
    ASSUME NEW I, Closed(I), RunsBlocks(I), SerialInv, Inside(I), [SerialNext]_serialVars
    PROVE  Inside(I)'
<1>0. EvalInv /\ FramesInv /\ ListOK
  BY DEF SerialInv
<1>1. ASSUME NEW id \in Innies PROVE Within(I, NewFrame(id).day)
  BY BeginsInside, FreshFrame DEF NewFrame, Inside, Within
<1>2. CASE UNCHANGED serialVars \/ Done \/ \E id \in Innies : Deadlock(id)
  <2>1. UNCHANGED <<onStack, frames, schedule>>
    BY <1>2 DEF Done, Deadlock, SettleCycle, serialVars, evalVars
  <2> QED
    BY <2>1 DEF Inside, Depth
<1>3. CASE Start
  <2>1. Depth' = 1 /\ \E id \in Innies : frames'[1] = NewFrame(id)
    BY <1>0, <1>3, StartFrames
  <2>2. schedule' = schedule
    BY <1>3 DEF Start
  <2> QED
    BY <1>1, <2>1, <2>2 DEF Inside
<1>4. ASSUME NEW id \in Innies, Descend(id) PROVE Inside(I)'
  <2>1. /\ Depth' = Depth + 1 /\ frames'[Depth + 1] = NewFrame(id)
        /\ \A h \in 1..Depth : frames'[h] = frames[h]
        /\ Depth \in Nat \ {0}
    BY <1>0, <1>4, DescendFrames
  <2>2. \A h \in 1..(Depth + 1) : h = Depth + 1 \/ h \in 1..Depth
    BY <2>1
  <2>3. schedule' = schedule
    BY <1>4 DEF Descend
  <2> QED
    BY <1>1, <2>1, <2>2, <2>3 DEF Inside
<1>5. ASSUME NEW id \in Innies, Defer(id) PROVE Inside(I)'
  <2>1. PICK n \in 1..Depth :
            /\ Depth' = n
            /\ \A h \in 1..(n - 1) : frames'[h] = frames[h]
            /\ frames'[n] = PutOffNext(frames[n])
    BY <1>0, <1>5, DeferFrames
  <2>2. frames'[n].day = frames[n].day
    BY <1>0, <2>1, DeferringFrame DEF FramesInv
  <2>3. schedule' = schedule
    BY <1>5 DEF Defer
  <2>4. Depth \in Nat
    BY <1>0, <2>1 DEF EvalInv, StackTypeOK, Depth
  <2>5. \A h \in 1..n : h \in 1..Depth /\ (h = n \/ h \in 1..(n - 1))
    BY <2>1, <2>4
  <2> QED
    BY <2>1, <2>2, <2>3, <2>5 DEF Inside
<1>6. CASE Publish \/ OverflowInReturn
  <2>1. PICK f : f = FrontOf(frames)
    OBVIOUS
  <2>2. /\ Depth \in Nat \ {0} /\ Depth' = Depth - 1
        /\ f = [h \in 1..(Depth - 1) |-> frames[h]]
    BY <1>0, <1>6, <2>1, LeaveFrames DEF Publish, OverflowInReturn, Return, Abandon
  <2>3. /\ schedule' = schedule
        /\ frames' = f \/ frames' = [f EXCEPT ![Depth - 1] = RanOut(f[Depth - 1])]
    BY <1>6, <2>1 DEF Publish, OverflowInReturn
  <2>4. \A h \in 1..(Depth - 1) : h \in 1..Depth /\ f[h] = frames[h]
    BY <2>2
  <2>5. ASSUME NEW h \in 1..(Depth - 1)
        PROVE  frames'[h] = frames[h] \/ frames'[h] = RanOut(frames[h])
    BY <2>2, <2>3, <2>4
  <2>6. ASSUME NEW h \in 1..Depth
        PROVE  Within(I, RanOut(frames[h]).day)
    BY FreshFrame, WithinGoesOn DEF RanOut, Raised, Inside
  <2> QED
    BY <2>2, <2>3, <2>4, <2>5, <2>6 DEF Inside
<1> QED
  BY <1>0, <1>2, <1>3, <1>4, <1>5, <1>6, TopInside DEF SerialNext, Walk, Stray

LEMMA InsideAsks ==
    ASSUME NEW I, Closed(I), RefersTo(I, Innies), Inside(I)
    PROVE  AsksInnies
<1> SUFFICES ASSUME NEW h \in 1..Depth, ~Ended(frames[h].day)
             PROVE  /\ NextAsk(frames[h].day).for # "nothing"
                    /\ NextAsk(frames[h].day).ids \in Seq(Innies)
  BY DEF AsksInnies
<1>1. InProgress(I, frames[h].day) /\ NextAsk(frames[h].day) # NoAsk
  BY DEF Inside, Within, Stopped
<1>2. NextAsk(frames[h].day).for # "nothing"
  BY <1>1, NothingIsNoAsk
<1>3. PICK instr \in I : NextAsk(frames[h].day).ids \in ListsOf(instr)
  BY <1>1, <1>2, AsksItsLists
<1> QED
  BY <1>2, <1>3 DEF RefersTo

\* "two runners may wait very differently and must still agree on every value"
\* (base.py:34-35): in whatever order the schedule lists the Innies, and
\* whatever branches it deferred on the way, the oracle gives each the result
\* of the run that ResultsAreDefined compares the threads with; until it
\* settles a loop to -1, or overflows Python's stack.
\* I is any set of instructions the programs can be executed in.
THEOREM OracleAgrees ==
    ASSUME NEW I, Closed(I), RefersTo(I, Innies), RunsBlocks(I),
           \A s \in Schedules : s \in [Innies -> Seq(I)]
    PROVE  OracleSpec => []AgreesUntilStrayed
<1>1. OracleInit => OracleInv /\ Inside(I)
  BY InitOracleInv, InitInside DEF OracleInit
<1>2. OracleInv /\ Inside(I) /\ [OracleNext]_oracleVars => (OracleInv /\ Inside(I))'
  <2> SUFFICES ASSUME OracleInv, Inside(I), [OracleNext]_oracleVars
               PROVE  OracleInv' /\ Inside(I)'
    OBVIOUS
  <2>1. [SerialNext]_serialVars
    BY DEF OracleNext, Compute, RunOracle, SerialNext, oracleVars
  <2>2. Inside(I)'
    BY <2>1, NextInside DEF OracleInv
  <2>3. AsksInnies
    BY InsideAsks
  <2> QED
    BY <2>2, <2>3, ComputeKeepsTo, RunKeepsTo DEF OracleNext
<1>3. OracleInv => AgreesUntilStrayed
  <2> SUFFICES ASSUME OracleInv, ~strayed, NEW i \in Innies, Settled(i)
               PROVE  cell[i] = ref.cell[i]
    BY DEF AgreesUntilStrayed, Agrees
  <2>1. PICK N \in Nat \ {0} : \E p : TheRun(p, N) /\ KeepsTo(p, N)
    BY DEF OracleInv
  <2>2. PICK p : TheRun(p, N) /\ KeepsTo(p, N)
    BY <2>1
  <2>3. PICK e \in 1..N : OnCourse(p, e)
    BY <2>2 DEF KeepsTo, Idle
  <2>4. cell[i] # Pending /\ cell[i] = p[e].cell[i]
    BY <2>3 DEF OnCourse, Right, Settled
  <2>5. PICK programs : programs = schedule
    OBVIOUS
  <2>6. RunFrom(programs, p, N) /\ p[N] = ref /\ ~Open(p[e], i)
    BY <2>2, <2>4, <2>5 DEF TheRun, Open
  <2>7. p[N].cell[i] = p[e].cell[i]
    BY <2>6, RunKeeps
  <2> QED
    BY <2>4, <2>6, <2>7
<1> QED
  BY <1>1, <1>2, <1>3, PTL DEF OracleSpec

-----------------------------------------------------------------------------
(***************************************************************************)
(* The results and the second workdays.  An Innie's way is what his        *)
(* program does when its questions are answered from results that are      *)
(* there: every frame is somewhere on its Innie's way, and so is the end   *)
(* that a result was published at.  Results stay, so a way only gets       *)
(* longer; when all are there it is the second workday.                    *)
(***************************************************************************)

FirstDay(i) == RunToAsk(Begin(schedule[i]))

\* d is on the way that starts at s, with the results in c: in every set of
\* workdays that has s and, with a workday, the one its answer leads to.
OnWay(s, d, c) ==
    \A S : s \in S /\ (\A x \in S : Told(x, c) => Reread(x, c) \in S) => d \in S

\* The workday ended where Python's stack did.
RanOver(d) == Ended(d) /\ Outcome(d) = Fault("RecursionError", 0)

\* The frame f of an Innie whose way starts at s.
Honest(s, f, c) == Gathers(f, c) /\ (OnWay(s, f.day, c) \/ RanOver(f.day))

\* The result r of such an Innie.
Earned(s, r, c) ==
    \/ r \in {DeadlockResult, Fault("RecursionError", 0)}
    \/ \E d : OnWay(s, d, c) /\ Ended(d) /\ r = Outcome(d)

StandsInv ==
    /\ \A h \in 1..Depth : Honest(FirstDay(onStack[h]), frames[h], cell)
    /\ \A i \in Innies : Settled(i) => Earned(FirstDay(i), cell[i], cell)

\* A way starts at its start and goes on with each answer,
LEMMA WayGoesOn ==
    ASSUME NEW s, NEW c
    PROVE  /\ OnWay(s, s, c)
           /\ \A d : OnWay(s, d, c) /\ Told(d, c) => OnWay(s, Reread(d, c), c)
BY DEF OnWay

\* and stays what it is as more settles.
LEMMA HonestKept ==
    ASSUME NEW c, NEW c2, \A t \in Innies : c[t] # Pending => c2[t] = c[t], NEW s
    PROVE  /\ \A d : OnWay(s, d, c) => OnWay(s, d, c2)
           /\ \A f : Honest(s, f, c) => Honest(s, f, c2)
           /\ \A r : Earned(s, r, c) => Earned(s, r, c2)
<1>1. ASSUME NEW d, OnWay(s, d, c) PROVE OnWay(s, d, c2)
  <2> SUFFICES ASSUME NEW S, s \in S, \A x \in S : Told(x, c2) => Reread(x, c2) \in S
               PROVE  d \in S
    BY DEF OnWay
  <2>1. \A x \in S : Told(x, c) => Reread(x, c) \in S
    BY RereadKept
  <2> QED
    BY <1>1, <2>1 DEF OnWay
<1>2. ASSUME NEW f, Honest(s, f, c) PROVE Honest(s, f, c2)
  <2>1. Gathers(f, c2)
    BY <1>2, GathersKept DEF Honest
  <2> QED
    BY <1>1, <1>2, <2>1 DEF Honest
<1>3. ASSUME NEW r, Earned(s, r, c) PROVE Earned(s, r, c2)
  BY <1>1, <1>3 DEF Earned
<1> QED
  BY <1>1, <1>2, <1>3

\* A new frame is at the start of its Innie's way.
LEMMA NewIsHonest ==
    ASSUME NEW id, NEW c PROVE Honest(FirstDay(id), NewFrame(id), c)
<1>1. NewFrame(id) = Frame(FirstDay(id))
  BY DEF NewFrame, FirstDay
<1>2. NewFrame(id).day = FirstDay(id) /\ Gathers(NewFrame(id), c)
  BY <1>1, FreshFrame, FreshGathers
<1> QED
  BY <1>2, WayGoesOn DEF Honest

LEMMA RanOutIsHonest ==
    ASSUME NEW I, NEW f, Within(I, f.day), NEW s, NEW c PROVE Honest(s, RanOut(f), c)
<1>1. PICK x : x = Fault("RecursionError", 0)
  OBVIOUS
<1>2. PICK d : d = Raise(f.day, x)
  OBVIOUS
<1>3. d.code = <<>> /\ d.raised = <<x>>
  <2>1. PICK day : day = f.day /\ InProgress(I, day)
    BY DEF Within
  <2>2. d = DayOf(<<>>, day.acc, day.staged, <<>>, <<x>>)
    BY <1>2, <2>1, DayRaised
  <2> QED
    BY <2>2, DayFields
<1>4. RanOver(d)
  BY <1>1, <1>3 DEF RanOver, Ended, Outcome
<1>5. RanOut(f) = Frame(d) /\ RanOut(f).day = d
  BY <1>1, <1>2, FreshFrame DEF RanOut, Raised
<1> QED
  BY <1>4, <1>5, FreshGathers DEF Honest

\* What was gathered, or the next answer, leads on along the way.
LEMMA GoesToHonest ==
    ASSUME NEW s, NEW f, NEW g, NEW c, Honest(s, f, c), ~Ended(f.day), GoesTo(f, g, c)
    PROVE  Honest(s, g, c)
BY WayGoesOn DEF Honest, GoesTo, RanOver

\* A step keeps the invariant when it leaves each frame alone or has an honest
\* one in its place, and when what it publishes is earned.
LEMMA StandsStep ==
    ASSUME SerialInv, StandsInv, [SerialNext]_serialVars, schedule' = schedule,
           \A h \in 1..Depth' :
              \/ h \in 1..Depth /\ onStack'[h] = onStack[h] /\ frames'[h] = frames[h]
              \/ Honest(FirstDay(onStack'[h]), frames'[h], cell),
           \A i \in Innies : ~Settled(i) /\ cell'[i] # Pending => Earned(FirstDay(i), cell'[i], cell)
    PROVE  StandsInv'
<1>1. \A t \in Innies : cell[t] # Pending => cell'[t] = cell[t]
  <2>1. EvalInv /\ [EvalNext]_evalVars
    BY SerialStepIsEvalStep DEF SerialInv, serialVars
  <2> QED
    BY <2>1, SettledStays
<1>2. PICK c, c2 : c = cell /\ c2 = cell' /\ \A t \in Innies : c[t] # Pending => c2[t] = c[t]
  BY <1>1
<1>3. \A i : RunToAsk(Begin(schedule'[i])) = FirstDay(i)
  BY DEF FirstDay
<1>4. ASSUME NEW h \in 1..Depth' PROVE Honest(FirstDay(onStack'[h]), frames'[h], c2)
  <2>1. Honest(FirstDay(onStack'[h]), frames'[h], c)
    BY <1>2 DEF StandsInv
  <2> QED
    BY <1>2, <2>1, HonestKept
<1>5. ASSUME NEW i \in Innies, c2[i] # Pending PROVE Earned(FirstDay(i), c2[i], c2)
  <2>1. Earned(FirstDay(i), c2[i], c)
    BY <1>2, <1>5 DEF StandsInv, Settled
  <2> QED
    BY <1>2, <2>1, HonestKept
<1>6. \A h \in 1..Depth' : Honest(RunToAsk(Begin(schedule'[onStack'[h]])), frames'[h], cell')
  BY <1>2, <1>3, <1>4
<1>7. \A i \in Innies : cell'[i] # Pending => Earned(RunToAsk(Begin(schedule'[i])), cell'[i], cell')
  BY <1>2, <1>3, <1>5
<1> QED
  BY <1>6, <1>7 DEF StandsInv, Settled, FirstDay

\* What is returned to a reader is earned by the top.
LEMMA ReturnEarns ==
    ASSUME SerialInv, StandsInv, onStack # <<>>, Ended(Top.day), Return(Outcome(Top.day)),
           NEW i \in Innies, ~Settled(i), cell'[i] # Pending
    PROVE  Earned(FirstDay(i), cell'[i], cell)
<1>1. /\ Depth \in Nat \ {0} /\ Depth = Len(onStack) /\ Top = frames[Depth]
      /\ cell \in [Innies -> Results \cup {Pending}]
  BY TopIs DEF SerialInv, EvalInv, StackTypeOK
<1>2. PICK d : d = Top.day
  OBVIOUS
<1>3. i = onStack[Depth] /\ cell'[i] = Outcome(d)
  BY <1>1, <1>2 DEF Return, Settled, LastOf
<1>4. Depth \in 1..Depth
  BY <1>1
<1>5. OnWay(FirstDay(i), d, cell) \/ RanOver(d)
  BY <1>1, <1>2, <1>3, <1>4 DEF StandsInv, Honest
<1> QED
  BY <1>2, <1>3, <1>5 DEF Earned, RanOver

\* The frames and Cells of a step that leaves the stack as it is, and only has
\* its top go on.
LEMMA TopStands ==
    ASSUME SerialInv, StandsInv, [SerialNext]_serialVars, schedule' = schedule,
           onStack # <<>>, UNCHANGED <<onStack, probes>>,
           NEW f, IsFrame(f), frames' = WithTop(f), Honest(FirstDay(onStack[Depth]), f, cell),
           \A i \in Innies : ~Settled(i) /\ cell'[i] # Pending => Earned(FirstDay(i), cell'[i], cell)
    PROVE  StandsInv'
<1>1. Depth \in Nat \ {0} /\ FramesInv
  BY TopIs DEF SerialInv
<1>2. /\ Depth' = Depth /\ frames'[Depth] = f
      /\ \A h \in 1..(Depth - 1) : frames'[h] = frames[h]
  BY <1>1, TopGoesOn
<1>3. \A h \in 1..Depth : h = Depth \/ h \in 1..(Depth - 1)
  BY <1>1
<1>4. \A h \in 1..Depth' :
         \/ h \in 1..Depth /\ onStack'[h] = onStack[h] /\ frames'[h] = frames[h]
         \/ Honest(FirstDay(onStack'[h]), frames'[h], cell)
  BY <1>2, <1>3
<1> QED
  BY <1>4, StandsStep

\* The -1 of a loop, whole or in part.
LEMMA LoopEarns ==
    ASSUME NEW id, Deadlock(id) \/ OverflowInCycle(id),
           NEW i \in Innies, ~Settled(i), cell'[i] # Pending
    PROVE  Earned(FirstDay(i), cell'[i], cell)
<1>1. \E first, last : cell' = CellsWith(first, last)
  BY DEF Deadlock, OverflowInCycle, SettleCycle, SettlePart
<1>2. \A first, last : CellsWith(first, last)[i] \in {DeadlockResult, cell[i]}
  BY DEF CellsWith
<1>3. cell'[i] = DeadlockResult
  BY <1>1, <1>2 DEF Settled
<1> QED
  BY <1>3 DEF Earned

LEMMA InitStands == SerialInit => StandsInv
<1> SUFFICES ASSUME SerialInit PROVE StandsInv
  OBVIOUS
<1>1. Depth = 0 /\ \A i \in Innies : ~Settled(i)
  BY DEF SerialInit, EvalInit, Depth, Settled
<1> QED
  BY <1>1 DEF StandsInv

LEMMA NextStands ==
    ASSUME NEW I, Closed(I), RunsBlocks(I), SerialInv, Inside(I), AsksInnies, StandsInv,
           [SerialNext]_serialVars
    PROVE  StandsInv'
<1>0. schedule' = schedule
  BY DEF SerialNext, Walk, Stray, Start, Descend, Take, Defer, Deadlock, Unwrap, SecondPass, FoldOver,
         Publish, Overflow, OverflowInReturn, OverflowInCycle, Done, serialVars
<1>1. EvalInv /\ FramesInv /\ ListOK
  BY DEF SerialInv
<1>2. CASE UNCHANGED serialVars \/ Done
  <2>1. UNCHANGED <<cell, onStack, frames>> /\ Depth' = Depth
    BY <1>2 DEF Done, serialVars, evalVars, Depth
  <2> QED
    BY <1>0, <2>1, StandsStep DEF Settled
<1>3. ASSUME cell' = cell,
             \A h \in 1..Depth' :
                \/ h \in 1..Depth /\ onStack'[h] = onStack[h] /\ frames'[h] = frames[h]
                \/ Honest(FirstDay(onStack'[h]), frames'[h], cell)
      PROVE  StandsInv'
  BY <1>0, <1>3, StandsStep DEF Settled
<1>4. CASE Start
  <2>1. PICK id \in Innies : Depth' = 1 /\ onStack'[1] = id /\ frames'[1] = NewFrame(id)
    BY <1>1, <1>4, StartFrames
  <2>2. cell' = cell
    BY <1>4 DEF Start, Enter
  <2> QED
    BY <1>3, <2>1, <2>2, NewIsHonest
<1>5. ASSUME NEW id \in Innies, Descend(id) PROVE StandsInv'
  <2>1. /\ Depth' = Depth + 1 /\ frames'[Depth + 1] = NewFrame(id)
        /\ \A h \in 1..Depth : frames'[h] = frames[h] /\ onStack'[h] = onStack[h]
        /\ onStack'[Depth + 1] = id /\ Depth \in Nat \ {0}
    BY <1>1, <1>5, DescendFrames
  <2>2. cell' = cell
    BY <1>5 DEF Descend, Push
  <2>3. \A h \in 1..(Depth + 1) : h = Depth + 1 \/ h \in 1..Depth
    BY <2>1
  <2> QED
    BY <1>3, <2>1, <2>2, <2>3, NewIsHonest
<1>6. ASSUME NEW id \in Innies, Defer(id) PROVE StandsInv'
  <2>1. PICK n \in 1..Depth :
              /\ Depth' = n
              /\ \A h \in 1..n : onStack'[h] = onStack[h]
              /\ \A h \in 1..(n - 1) : frames'[h] = frames[h]
              /\ frames'[n] = PutOffNext(frames[n])
              /\ InFirstPass(frames[n]) /\ frames[n].at <= Len(Asked(frames[n]))
    BY <1>1, <1>6, DeferFrames
  <2>2. cell' = cell
    BY <1>6 DEF Defer, Reenter
  <2>3. PICK f, g, s : f = frames[n] /\ g = frames'[n] /\ s = FirstDay(onStack[n])
    OBVIOUS
  <2>4. IsFrame(f) /\ Honest(s, f, cell)
    BY <1>1, <2>3 DEF FramesInv, StandsInv
  <2>5. Gathers(f, cell) /\ g = PutOffNext(f) /\ InFirstPass(f) /\ f.at <= Len(Asked(f))
    BY <2>1, <2>3, <2>4 DEF Honest
  <2>6. Gathers(g, cell) /\ g.day = f.day
    BY <2>4, <2>5, GathersPutOff, DeferringFrame
  <2>7. Honest(s, g, cell)
    BY <2>4, <2>6 DEF Honest
  <2>8. Depth \in Nat
    BY <1>1 DEF EvalInv, StackTypeOK, Depth
  <2>9. \A h \in 1..n : h \in 1..Depth /\ (h = n \/ h \in 1..(n - 1))
    BY <2>8
  <2>10. n \in 1..n
    BY <2>8
  <2> QED
    BY <1>3, <2>1, <2>2, <2>3, <2>7, <2>9, <2>10
<1>7. CASE (\E id \in Innies : Take(id)) \/ Unwrap \/ SecondPass \/ FoldOver
  <2>1. AtWork /\ UNCHANGED evalVars
    BY <1>7 DEF Take, Needs, Unwrap, SecondPass, FoldOver, HasAll
  <2>2. onStack # <<>> /\ Depth \in 1..Depth /\ Top = frames[Depth]
    BY <2>1, TopAsks
  <2>3. Honest(FirstDay(onStack[Depth]), Top, cell) /\ ~Ended(Top.day)
    BY <2>1, <2>2 DEF StandsInv, AtWork
  <2>4. PICK g : frames' = WithTop(g) /\ GoesTo(Top, g, cell)
    BY <1>7, <2>3, TakeGoesTo, QuestionGoesTo DEF Honest
  <2>5. Honest(FirstDay(onStack[Depth]), g, cell) /\ IsFrame(g)
    BY <2>3, <2>4, GoesToHonest DEF GoesTo
  <2>6. UNCHANGED <<onStack, probes>> /\ cell' = cell
    BY <2>1 DEF evalVars
  <2> QED
    BY <1>0, <2>2, <2>4, <2>5, <2>6, TopStands DEF Settled
<1>8. ASSUME NEW id \in Innies, Deadlock(id) PROVE StandsInv'
  <2>1. UNCHANGED <<onStack, frames>> /\ Depth' = Depth
    BY <1>8 DEF Deadlock, SettleCycle, Depth
  <2>2. \A i \in Innies : ~Settled(i) /\ cell'[i] # Pending => Earned(FirstDay(i), cell'[i], cell)
    BY <1>8, LoopEarns
  <2> QED
    BY <1>0, <2>1, <2>2, StandsStep
<1>9. CASE Overflow \/ \E id \in Innies : OverflowInCycle(id)
  <2>1. onStack # <<>> /\ UNCHANGED <<onStack, probes>>
    BY <1>1, <1>9, TopOnly
  <2>2. Depth \in Nat \ {0} /\ Top = frames[Depth]
    BY <1>1, <2>1, TopIs
  <2>3. Within(I, Top.day)
    BY <2>2 DEF Inside
  <2>4. Honest(FirstDay(onStack[Depth]), RanOut(Top), cell)
    BY <2>3, RanOutIsHonest
  <2>5. IsFrame(RanOut(Top)) /\ frames' = WithTop(RanOut(Top))
    BY <1>9, FreshFrame DEF RanOut, Raised, Overflow, OverflowInCycle
  <2>6. \A i \in Innies : ~Settled(i) /\ cell'[i] # Pending => Earned(FirstDay(i), cell'[i], cell)
    <3>1. CASE Overflow
      BY <3>1 DEF Overflow, evalVars, Settled
    <3>2. ASSUME NEW id \in Innies, OverflowInCycle(id)
          PROVE  \A i \in Innies : ~Settled(i) /\ cell'[i] # Pending => Earned(FirstDay(i), cell'[i], cell)
      BY <3>2, LoopEarns
    <3> QED
      BY <1>9, <3>1, <3>2
  <2> QED
    BY <1>0, <2>1, <2>4, <2>5, <2>6, TopStands
<1>10. CASE Publish \/ OverflowInReturn
  <2>1. /\ Depth \in Nat \ {0} /\ Depth' = Depth - 1
        /\ \A h \in 1..(Depth - 1) : onStack'[h] = onStack[h]
        /\ \A h \in 1..(Depth - 1) : frames'[h] \in {frames[h], RanOut(frames[h])}
    BY <1>1, <1>10, EndFrames
  <2>2. \A h \in 1..(Depth - 1) : h \in 1..Depth
    BY <2>1
  <2>3. ASSUME NEW h \in 1..Depth' PROVE
           \/ h \in 1..Depth /\ onStack'[h] = onStack[h] /\ frames'[h] = frames[h]
           \/ Honest(FirstDay(onStack'[h]), frames'[h], cell)
    <3>1. h \in 1..Depth /\ Within(I, frames[h].day)
      BY <2>1, <2>2 DEF Inside
    <3>2. h \in 1..(Depth - 1)
      BY <2>1
    <3>3. PICK f, s : f = frames[h] /\ s = FirstDay(onStack'[h])
      OBVIOUS
    <3>4. Honest(s, RanOut(f), cell)
      BY <3>1, <3>3, RanOutIsHonest
    <3> QED
      BY <2>1, <3>1, <3>2, <3>3, <3>4
  <2>4. ASSUME NEW i \in Innies, ~Settled(i), cell'[i] # Pending
        PROVE  Earned(FirstDay(i), cell'[i], cell)
    <3>1. onStack # <<>> /\ Ended(Top.day)
      BY <1>10, <2>1 DEF Publish, OverflowInReturn, Abandon, Return, Leave
    <3>2. Return(Outcome(Top.day))
      BY <1>10, <2>4 DEF Publish, OverflowInReturn, Abandon, Settled
    <3> QED
      BY <2>4, <3>1, <3>2, ReturnEarns
  <2> QED
    BY <1>0, <2>3, <2>4, StandsStep
<1> QED
  BY <1>2, <1>4, <1>5, <1>6, <1>7, <1>8, <1>9, <1>10 DEF SerialNext, Walk, Stray

-----------------------------------------------------------------------------
\* The second workday is at d: through a set of workdays, none of them over, in
\* which each one's answer is the next.
Retraced(s, d, c) ==
    \E S : s \in S /\ d \in S /\ \A x \in S : x # d => ~Ended(x) /\ Reread(x, c) \in S

RedoInv ==
    /\ \A i \in Innies : Retraced(FirstDay(i), redo[i], cell)
    /\ (\E j \in Innies : ~Settled(j)) => \A i \in Innies : redo[i] = FirstDay(i)

\* A way and a second workday that end, end alike.
LEMMA OneEnd ==
    ASSUME NEW s, NEW c, NEW d, OnWay(s, d, c), Ended(d), NEW e, Retraced(s, e, c), Ended(e)
    PROVE  d = e
<1>1. PICK S : s \in S /\ e \in S /\ \A x \in S : x # e => ~Ended(x) /\ Reread(x, c) \in S
  BY DEF Retraced
<1>2. ~Told(e, c)
  BY DEF Told, NextAsk, Ended, NoAsk
<1>3. \A x \in S : Told(x, c) => Reread(x, c) \in S
  BY <1>1, <1>2
<1>4. d \in S
  BY <1>1, <1>3 DEF OnWay
<1> QED
  BY <1>1, <1>4

LEMMA RetracedStarts ==
    ASSUME NEW s, NEW c PROVE Retraced(s, s, c)
<1>1. PICK S : S = {s}
  OBVIOUS
<1>2. s \in S /\ \A x \in S : x = s
  BY <1>1
<1>3. \A x \in S : x # s => ~Ended(x) /\ Reread(x, c) \in S
  BY <1>2
<1> QED
  BY <1>2, <1>3 DEF Retraced

LEMMA RetracedGoesOn ==
    ASSUME NEW s, NEW c, NEW d, Retraced(s, d, c), ~Ended(d)
    PROVE  Retraced(s, Reread(d, c), c)
<1>1. PICK S : s \in S /\ d \in S /\ \A x \in S : x # d => ~Ended(x) /\ Reread(x, c) \in S
  BY DEF Retraced
<1>2. PICK e : e = Reread(d, c)
  OBVIOUS
<1>3. PICK T : T = S \cup {e}
  OBVIOUS
<1>4. \A x \in T : x # e => ~Ended(x) /\ Reread(x, c) \in T
  BY <1>1, <1>2, <1>3
<1> QED
  BY <1>1, <1>2, <1>3, <1>4 DEF Retraced

LEMMA InitRedo == RerunInit => RedoInv
<1> SUFFICES ASSUME RerunInit PROVE RedoInv
  OBVIOUS
<1>1. \A i \in Innies : redo[i] = FirstDay(i)
  BY DEF RerunInit, FirstDay
<1> QED
  BY <1>1, RetracedStarts DEF RedoInv

LEMMA NextRedo ==
    ASSUME SerialInv, RedoInv, [RerunNext]_rerunVars
    PROVE  RedoInv'
<1>1. schedule' = schedule /\ [SerialNext]_serialVars
  <2>1. [SerialNext]_serialVars
    BY DEF RerunNext, Rerun, rerunVars
  <2> QED
    BY <2>1 DEF SerialNext, Walk, Stray, Start, Descend, Take, Defer, Deadlock, Unwrap, SecondPass,
       FoldOver, Publish, Overflow, OverflowInReturn, OverflowInCycle, Done, serialVars
<1>2. \A i : RunToAsk(Begin(schedule'[i])) = FirstDay(i)
  BY <1>1 DEF FirstDay
<1>3. \A t \in Innies : cell[t] # Pending => cell'[t] = cell[t]
  <2>1. EvalInv /\ [EvalNext]_evalVars
    BY <1>1, SerialStepIsEvalStep DEF SerialInv, serialVars
  <2> QED
    BY <2>1, SettledStays
<1>4. cell \in [Innies -> Results \cup {Pending}] /\ cell' \in [Innies -> Results \cup {Pending}]
  <2>1. SerialInv'
    BY <1>1, NextSerialInv
  <2> QED
    BY <2>1 DEF SerialInv, EvalInv, StackTypeOK
<1>5. CASE \E j \in Innies : ~Settled(j)
  <2>1. \A i \in Innies : redo[i] = FirstDay(i)
    BY <1>5 DEF RedoInv
  <2>2. redo' = redo
    BY <1>5 DEF RerunNext, Rerun, AllSettled, rerunVars
  <2>3. \A i \in Innies : Retraced(RunToAsk(Begin(schedule'[i])), redo'[i], cell')
    BY <1>2, <2>1, <2>2, RetracedStarts
  <2>4. \A i \in Innies : redo'[i] = RunToAsk(Begin(schedule'[i]))
    BY <1>2, <2>1, <2>2
  <2> QED
    BY <2>3, <2>4 DEF RedoInv, FirstDay
<1>6. CASE \A j \in Innies : Settled(j)
  <2>1. cell' = cell
    BY <1>3, <1>4, <1>6 DEF Settled
  <2>2. ASSUME NEW i \in Innies PROVE Retraced(FirstDay(i), redo'[i], cell)
    <3>1. PICK s, d, c : s = FirstDay(i) /\ d = redo[i] /\ c = cell /\ Retraced(s, d, c)
      BY DEF RedoInv
    <3>2. redo'[i] = d \/ (~Ended(d) /\ redo'[i] = Reread(d, c))
      BY <3>1 DEF RerunNext, Rerun, rerunVars
    <3> QED
      BY <3>1, <3>2, RetracedGoesOn
  <2>3. \A i \in Innies : Retraced(RunToAsk(Begin(schedule'[i])), redo'[i], cell')
    BY <1>2, <2>1, <2>2
  <2>4. \A j \in Innies : cell'[j] # Pending
    BY <1>6, <2>1 DEF Settled
  <2> QED
    BY <2>3, <2>4 DEF RedoInv, FirstDay, Settled
<1> QED
  BY <1>5, <1>6

\* "a settled Cell is a cached result, so each Innie runs once"
\* (serial.py:88-89): whatever was deferred, dropped half-way and begun again,
\* and whatever loops were settled under evaluations that then went on, the
\* result of each Innie is the one that his program ends with when it is
\* executed beside the finished results; unless a loop gave him -1, or Python's
\* stack gave out on him.
\* I is any set of instructions the programs can be executed in.
THEOREM EveryResultStands ==
    ASSUME NEW I, Closed(I), RefersTo(I, Innies), RunsBlocks(I),
           \A s \in Schedules : s \in [Innies -> Seq(I)]
    PROVE  RerunSpec => []ResultsStand
<1> DEFINE Inv == SerialInv /\ Inside(I) /\ StandsInv /\ RedoInv
<1>1. RerunInit => Inv
  BY InitSerialInv, InitInside, InitStands, InitRedo DEF RerunInit
<1>2. Inv /\ [RerunNext]_rerunVars => Inv'
  <2> SUFFICES ASSUME SerialInv, Inside(I), StandsInv, RedoInv, [RerunNext]_rerunVars
               PROVE  SerialInv' /\ Inside(I)' /\ StandsInv' /\ RedoInv'
    OBVIOUS
  <2>1. [SerialNext]_serialVars
    BY DEF RerunNext, Rerun, rerunVars
  <2>2. AsksInnies
    BY InsideAsks
  <2> QED
    BY <2>1, <2>2, NextSerialInv, NextInside, NextStands, NextRedo
<1>3. Inv => ResultsStand
  <2> SUFFICES ASSUME StandsInv, RedoInv, NEW i \in Innies, Settled(i), Ended(redo[i])
               PROVE  cell[i] \in {Outcome(redo[i]), DeadlockResult, Fault("RecursionError", 0)}
    BY DEF ResultsStand
  <2>1. PICK s, e, c : s = FirstDay(i) /\ e = redo[i] /\ c = cell
    OBVIOUS
  <2>2. Earned(s, c[i], c) /\ Retraced(s, e, c) /\ Ended(e)
    BY <2>1 DEF StandsInv, RedoInv
  <2>3. ASSUME NEW d, OnWay(s, d, c), Ended(d), c[i] = Outcome(d) PROVE d = e
    BY <2>2, <2>3, OneEnd
  <2> QED
    BY <2>1, <2>2, <2>3 DEF Earned
<1> HIDE DEF Inv
<1> QED
  BY <1>1, <1>2, <1>3, PTL DEF RerunSpec

=============================================================================
