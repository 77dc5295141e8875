------------------------------ MODULE LoaderProofs ------------------------------
(***************************************************************************)
(* The loader, for any work schedules: what it accepts are programs of     *)
(* instructions that name its Innies only, to any depth, which is what the *)
(* theorems about the runners suppose of the programs they run; and no     *)
(* workday of theirs waits for anybody else.  The lemmas on workdays come  *)
(* from ReferenceProofs, whose Innies do not occur here.                   *)
(***************************************************************************)
EXTENDS ReferenceProofs, LoadedWork

\* A sequence, of whatever.
IsSequence(s) == \E S : s \in Seq(S)

\* What the parser makes instructions of.
ProperOperand(x) == IsSequence(x.ids)
ProperCond(c) == ProperOperand(c.lhs) /\ ProperOperand(c.rhs)

\* What parse_simple may return.
Simple(instr) ==
    \/ instr \in {Waffle, Wellness}
    \/ \E o \in WithOperand : \E x : ProperOperand(x) /\ instr = [op |-> o, arg |-> x]
    \/ \E c : ProperCond(c) /\ instr = WellnessIf(c)
    \/ \E c : \E ids : ProperCond(c) /\ IsSequence(ids) /\ instr = ConditionalAdd(ids, c)

\* The instructions of texts that were read: with a SHIFT those of its body.
Proper(I) ==
    \A instr \in I :
        /\ instr.op \in Opcodes /\ instr.line \in Nat \ {0}
        /\ \A ids \in ListsOf(instr) : IsSequence(ids)
        /\ instr.op = "SHIFT" => instr.times \in Nat /\ instr.body \in Seq(I)

\* A piece of program of such instructions.
ProperCode(code) == \E I : Proper(I) /\ code \in Seq(I)

\* The same with all that a runner may come to, for programs that name the
\* Innies in K.
SoundCode(code, K) == \E I : Closed(I) /\ RefersTo(I, K) /\ code \in Seq(I)

-----------------------------------------------------------------------------
(***************************************************************************)
(* Sequences and places.                                                   *)
(***************************************************************************)

\* The n-th place exists.
LEMMA NthExists ==
    ASSUME NEW K \in SUBSET Nat, IsFiniteSet(K), NEW n \in 1..Cardinality(K)
    PROVE  Nth(K, n) \in K
<1> DEFINE upto(k) == {j \in K : j <= k}
           rank == [k \in K |-> Cardinality(upto(k))]
<1> SUFFICES ASSUME \A k \in K : rank[k] # n PROVE FALSE
  BY DEF Nth
<1>1. \A k \in K : upto(k) \in SUBSET K /\ k \in upto(k)
  OBVIOUS
<1>2. /\ Cardinality(K) \in Nat
      /\ \A k \in K : IsFiniteSet(upto(k)) /\ Cardinality(upto(k)) \in Nat
                      /\ Cardinality(upto(k)) <= Cardinality(K)
  BY <1>1, FS_Subset, FS_CardinalityType
<1>3. \A k \in K : Cardinality(upto(k)) # 0
  BY <1>1, <1>2, FS_EmptySet
<1>4. rank \in [K -> (1..Cardinality(K)) \ {n}]
  BY <1>2, <1>3
<1>5. /\ IsFiniteSet((1..Cardinality(K)) \ {n})
      /\ Cardinality((1..Cardinality(K)) \ {n}) < Cardinality(K)
  <2>1. PICK c \in Nat : c = Cardinality(K)
    BY <1>2
  <2>2. IsFiniteSet(1..c) /\ Cardinality(1..c) = c /\ n \in 1..c
    BY <2>1, FS_Interval
  <2>3. IsFiniteSet((1..c) \ {n}) /\ Cardinality((1..c) \ {n}) = c - 1
    <3>1. PICK T : T = 1..c
      OBVIOUS
    <3>2. IsFiniteSet(T) /\ Cardinality(T) = c /\ n \in T
      BY <2>2, <3>1
    <3>3. IsFiniteSet(T \ {n}) /\ Cardinality(T \ {n}) = c - 1
      BY ONLY <3>2, FS_RemoveElement
    <3> QED
      BY <3>1, <3>3
  <2> QED
    BY <2>1, <2>3
<1>6. PICK x, y \in K : x # y /\ rank[x] = rank[y]
  <2>1. PICK T : T = (1..Cardinality(K)) \ {n}
    OBVIOUS
  <2>2. IsFiniteSet(K) /\ IsFiniteSet(T) /\ Cardinality(T) < Cardinality(K) /\ rank \in [K -> T]
    BY <1>4, <1>5, <2>1
  <2> HIDE DEF rank
  <2> QED
    BY ONLY <2>2, FS_PigeonHole
<1>7. ASSUME NEW j \in K, NEW k \in K, j < k, rank[j] = rank[k] PROVE FALSE
  <2>1. upto(j) \in SUBSET upto(k) /\ k \notin upto(j)
    <3>1. j \in Nat /\ k \in Nat /\ j < k
      BY <1>7
    <3>2. \A m \in K : m <= j => m <= k
      BY <3>1
    <3>3. ~(k <= j)
      BY <3>1
    <3> QED
      BY ONLY <3>2, <3>3
  <2>2. Cardinality(upto(k)) = Cardinality(upto(j))
    BY <1>7
  <2> QED
    BY <1>1, <1>2, <2>1, <2>2, FS_Subset
<1> QED
  BY <1>6, <1>7

\* A sequence of things that are all in S.
LEMMA SequenceOf ==
    ASSUME NEW s, IsSequence(s), NEW S, \A k \in DOMAIN s : s[k] \in S
    PROVE  s \in Seq(S)
<1>1. PICK T : s \in Seq(T)
  BY DEF IsSequence
<1>2. s = [k \in 1..Len(s) |-> s[k]] /\ Len(s) \in Nat /\ DOMAIN s = 1..Len(s)
  BY <1>1, LenProperties
<1> QED
  BY <1>2, IsASeq

\* The places of a sequence.
LEMMA PlacesOf ==
    ASSUME NEW s, IsSequence(s), NEW K \in SUBSET DOMAIN s
    PROVE  /\ DOMAIN s = 1..Len(s) /\ Len(s) \in Nat
           /\ K \in SUBSET Nat /\ IsFiniteSet(K) /\ Cardinality(K) \in Nat
<1>1. DOMAIN s = 1..Len(s) /\ Len(s) \in Nat
  BY LenProperties DEF IsSequence
<1>2. IsFiniteSet(1..Len(s))
  BY <1>1, FS_Interval
<1> QED
  BY <1>1, <1>2, FS_Subset, FS_CardinalityType

\* What has the numbers up to n for its domain.
LEMMA NumberedIs ==
    ASSUME NEW n \in Nat, NEW f, f = [k \in 1..n |-> f[k]]
    PROVE  IsSequence(f)
<1>1. PICK S : S = {f[j] : j \in 1..n}
  OBVIOUS
<1>2. f \in [1..n -> S]
  BY <1>1
<1>3. f \in Seq(S)
  BY <1>2
<1> QED
  BY <1>3 DEF IsSequence

\* Pieces of it.
LEMMA PieceOf ==
    ASSUME NEW s, NEW m \in Int, NEW n \in Int
    PROVE  IsSequence(SubSeq(s, m, n))
<1>1. PICK p : p = [k \in 1..(1 + n - m) |-> s[k + m - 1]]
  OBVIOUS
<1>2. SubSeq(s, m, n) = p
  BY <1>1
<1>3. CASE 1 + n - m \in Nat
  <2>1. p = [k \in 1..(1 + n - m) |-> p[k]]
    BY <1>1
  <2> QED
    BY <1>2, <1>3, <2>1, NumberedIs
<1>4. CASE 1 + n - m \notin Nat
  <2>1. p = <<>>
    BY <1>1, <1>4
  <2> QED
    BY <1>2, <2>1 DEF IsSequence
<1> QED
  BY <1>3, <1>4

-----------------------------------------------------------------------------
(***************************************************************************)
(* What the parser makes of a line.                                        *)
(***************************************************************************)

\* A list in brackets has as many parts as it has commas, and one.
LEMMA SplitIs ==
    ASSUME NEW text, IsSequence(text)
    PROVE  IsSequence(SplitAtCommas(text))
<1> DEFINE commas == {k \in DOMAIN text : text[k].is = ","}
           ends == {0, Len(text) + 1} \cup commas
<1>1. IsFiniteSet(commas) /\ Len(text) \in Nat
  BY PlacesOf
<1>2. PICK c : c = Cardinality(ends) /\ c \in Nat
  <2>1. ends = (commas \cup {0}) \cup {Len(text) + 1}
    OBVIOUS
  <2> HIDE DEF commas
  <2>2. IsFiniteSet(ends)
    BY <1>1, <2>1, FS_AddElement
  <2> HIDE DEF ends
  <2> QED
    BY <2>2, FS_CardinalityType
<1>3. PICK part : part = [n \in 1..(c - 1) |-> SplitAtCommas(text)[n]] /\ part = SplitAtCommas(text)
  BY <1>2 DEF SplitAtCommas
<1> HIDE DEF ends
<1>4. CASE c - 1 \in Nat
  <2>1. part = [n \in 1..(c - 1) |-> part[n]]
    BY <1>3
  <2> QED
    BY <1>3, <1>4, <2>1, NumberedIs
<1>5. CASE c = 0
  <2>1. part = <<>>
    BY <1>3, <1>5
  <2> QED
    BY <1>3, <2>1 DEF IsSequence
<1>6. c = 0 \/ c - 1 \in Nat
  BY <1>2
<1> QED
  BY <1>4, <1>5, <1>6

\* An operand that is accepted has a list of ids, which may be empty.
LEMMA OperandIs ==
    ASSUME NEW text, IsSequence(text), ParseOperand(text) # <<>>
    PROVE  ProperOperand(ParseOperand(text)[1])
<1> DEFINE parts == SplitAtCommas(SubSeq(text, 2, Len(text) - 1))
<1>1. IsSequence(<<>>) /\ \A w : IsSequence(<<w>>)
  <2>1. \A w : <<w>> \in Seq({w})
    OBVIOUS
  <2>2. <<>> \in Seq({})
    OBVIOUS
  <2> QED
    BY ONLY <2>1, <2>2 DEF IsSequence
<1>2. IsSequence([k \in DOMAIN parts |-> parts[k][1].n])
  <2>1. Len(text) \in Nat
    BY PlacesOf
  <2>2. IsSequence(parts)
    BY <2>1, PieceOf, SplitIs
  <2> HIDE DEF parts
  <2>3. DOMAIN parts = 1..Len(parts) /\ Len(parts) \in Nat
    BY <2>2, PlacesOf
  <2>4. PICK ids : ids = [k \in DOMAIN parts |-> parts[k][1].n]
    OBVIOUS
  <2>5. ids = [k \in 1..Len(parts) |-> ids[k]]
    BY <2>3, <2>4
  <2> QED
    BY <2>3, <2>4, <2>5, NumberedIs
<1> HIDE DEF parts
<1>3. CASE IsBracketed(text)
  <2>1. ParseOperand(text) = <<Refs([k \in DOMAIN parts |-> parts[k][1].n])>>
    <3> DEFINE fits == /\ text[Len(text)].is = "]"
                       /\ \A k \in DOMAIN parts : Len(parts[k]) = 1 /\ IsName(parts[k][1])
               listed == <<Refs([k \in DOMAIN parts |-> parts[k][1].n])>>
    <3>1. text # <<>>
      BY <1>3 DEF IsBracketed
    <3>2. ParseOperand(text) =
            CASE text = <<>> -> <<>>
              [] IsBracketed(text) -> IF fits THEN listed ELSE <<>>
              [] Len(text) = 1 /\ IsInt(text[1]) -> <<Const(text[1].n)>>
              [] Len(text) = 1 /\ IsName(text[1]) -> <<Refs(<<text[1].n>>)>>
              [] OTHER -> <<>>
      BY ONLY Zenon DEF ParseOperand, parts
    <3> HIDE DEF fits, listed
    <3>3. ParseOperand(text) = listed
      BY <1>3, <3>1, <3>2 DEF IsBracketed, IsInt, IsName
    <3> QED
      BY <3>3 DEF listed
  <2> QED
    BY <1>2, <2>1 DEF ProperOperand, Refs
<1>4. CASE ~IsBracketed(text)
  <2>1. ParseOperand(text) \in {<<>>, <<Const(text[1].n)>>, <<Refs(<<text[1].n>>)>>}
    BY <1>4 DEF ParseOperand
  <2> QED
    BY <1>1, <2>1 DEF ProperOperand, Refs, Const
<1> QED
  BY <1>3, <1>4

LEMMA ComparandIs ==
    ASSUME NEW text, IsSequence(text), Comparand(text) # <<>>
    PROVE  ProperOperand(Comparand(text)[1])
BY OperandIs DEF Comparand

\* The first and the last of some places of a text are places of it.
LEMMA OuterPlaces ==
    ASSUME NEW text, IsSequence(text), NEW K \in SUBSET DOMAIN text, K # {}
    PROVE  Places!Min(K) \in K /\ Places!Max(K) \in K
<1>1. K \in SUBSET Nat /\ IsFiniteSet(K)
  BY PlacesOf
<1>2. \E n \in K : \A m \in K : n <= m
  BY <1>1, LeastExists
<1>3. \E n \in K : \A m \in K : m <= n
  <2>1. PICK N \in Nat : \A m \in K : m \in 0..N
    <3>1. Len(text) \in Nat /\ K \subseteq 1..Len(text)
      BY PlacesOf
    <3> QED
      BY <3>1
  <2> DEFINE left == {N - m : m \in K}
  <2>2. left \in SUBSET (0..N) /\ left # {}
    BY <2>1
  <2>3. \A m \in K : N - m \in left
    OBVIOUS
  <2>4. \A d \in left : \E m \in K : d = N - m
    OBVIOUS
  <2> HIDE DEF left
  <2>5. left \in SUBSET Nat /\ IsFiniteSet(left)
    <3>1. PICK T : T = 0..N
      OBVIOUS
    <3>2. IsFiniteSet(T) /\ left \in SUBSET T /\ T \subseteq Nat
      BY <2>2, <3>1, FS_Interval
    <3> QED
      BY <3>2, FS_Subset
  <2>6. PICK d \in left : \A e \in left : d <= e
    BY <2>2, <2>5, LeastExists
  <2>7. PICK n \in K : d = N - n
    BY <2>4, <2>6
  <2>8. \A m \in K : N - n <= N - m
    BY <2>3, <2>6, <2>7
  <2> QED
    BY <1>1, <2>1, <2>8
<1> QED
  BY <1>2, <1>3 DEF Places!Min, Places!Max

LEMMA ConditionIs ==
    ASSUME NEW text, IsSequence(text), ParseCondition(text) # <<>>
    PROVE  \E c : ParseCondition(text) = <<c>> /\ ProperCond(c)
<1> DEFINE symbol == Symbols[Chosen(text)]
           there  == {s \in DOMAIN Symbols : Occurrences(Symbols[s], text) # {}}
           place  == Places!Min(Occurrences(symbol, text))
           left   == Comparand(SubSeq(text, 1, place - 1))
           after  == SubSeq(text, place + Len(symbol), Len(text))
           quant  == Quantifier(after)
           right  == IF quant = "NONE" THEN Comparand(after)
                     ELSE IF IsBracketed(Tail(after)) THEN ParseOperand(Tail(after)) ELSE <<>>
           cond == Cond(left[1], Compares[Chosen(text)], quant, right[1])
<1>1. Chosen(text) # 0
  BY DEF ParseCondition
<1>2. Chosen(text) \in there
  <2>1. IsSequence(Symbols) /\ there \in SUBSET DOMAIN Symbols
    <3>1. \A a, b, c, d, e, f : <<a, b, c, d, e, f>> \in Seq({a, b, c, d, e, f})
      OBVIOUS
    <3> QED
      BY <3>1 DEF Symbols, IsSequence
  <2>2. there # {} /\ Chosen(text) = Places!Min(there)
    BY <1>1 DEF Chosen
  <2> HIDE DEF there
  <2> QED
    BY <2>1, <2>2, OuterPlaces
<1>3. Len(symbol) \in Nat
  BY <1>2 DEF Symbols
<1>4. place \in Nat
  <2>1. Occurrences(symbol, text) \in SUBSET DOMAIN text /\ Occurrences(symbol, text) # {}
    BY <1>2 DEF Occurrences
  <2> HIDE DEF symbol
  <2> QED
    BY <2>1, OuterPlaces, PlacesOf
<1>5. Len(text) \in Nat
  BY PlacesOf
<1>6. left # <<>> /\ right # <<>> /\ ParseCondition(text) = <<cond>>
  BY <1>1 DEF ParseCondition
<1> HIDE DEF place, symbol
<1>7. IsSequence(SubSeq(text, 1, place - 1)) /\ IsSequence(after)
  BY <1>3, <1>4, <1>5, PieceOf
<1>8. ProperOperand(left[1])
  BY <1>6, <1>7, ComparandIs
<1> HIDE DEF after, left
<1>9. ProperOperand(right[1])
  <2>1. CASE quant = "NONE"
    BY <1>6, <1>7, <2>1, ComparandIs
  <2>2. CASE quant # "NONE"
    <3>1. after # <<>> /\ right = ParseOperand(Tail(after))
      BY <1>6, <2>2 DEF Quantifier
    <3>2. IsSequence(Tail(after))
      BY <1>7, <3>1, HeadTailProperties DEF IsSequence
    <3> QED
      BY <1>6, <3>1, <3>2, OperandIs
  <2> QED
    BY <2>1, <2>2
<1> HIDE DEF right, quant
<1>10. ProperCond(cond)
  BY <1>8, <1>9 DEF ProperCond, Cond
<1> QED
  BY <1>6, <1>10

LEMMA ConditionalAddIs ==
    ASSUME NEW text, IsSequence(text), ParseConditionalAdd(text) # <<>>
    PROVE  \E c : \E ids : /\ ProperCond(c) /\ IsSequence(ids)
                           /\ ParseConditionalAdd(text) = <<ConditionalAdd(ids, c)>>
<1> DEFINE place   == Places!Max(Separators(text))
           head    == SubSeq(text, 1, place - 1)
           targets == IF IsBracketed(head) THEN ParseOperand(head) ELSE <<>>
           tail    == SubSeq(text, place + 1, Len(text))
           cond    == ParseCondition(tail)
<1>1. Separators(text) # {}
  BY DEF ParseConditionalAdd
<1>2. place \in Nat /\ Len(text) \in Nat
  <2>1. DOMAIN text = 1..Len(text) /\ Len(text) \in Nat
    BY PlacesOf
  <2>2. Separators(text) \in SUBSET DOMAIN text
    <3>1. Separators(text) \subseteq 2..(Len(text) - 1)
      BY DEF Separators
    <3> QED
      BY <2>1, <3>1
  <2> QED
    BY <1>1, <2>1, <2>2, OuterPlaces
<1>3. /\ targets # <<>> /\ cond # <<>>
      /\ ParseConditionalAdd(text) = <<ConditionalAdd(targets[1].ids, cond[1])>>
  BY <1>1 DEF ParseConditionalAdd
<1> HIDE DEF place
<1>4. IsSequence(head) /\ IsSequence(tail)
  BY <1>2, PieceOf
<1> HIDE DEF head, tail
<1>5. IsSequence(targets[1].ids)
  BY <1>3, <1>4, OperandIs DEF ProperOperand
<1>6. PICK c : cond = <<c>> /\ ProperCond(c)
  BY <1>3, <1>4, ConditionIs
<1> HIDE DEF targets, cond
<1> QED
  BY <1>3, <1>5, <1>6

\* What parse_simple returns for a line it accepts.
LEMMA SimpleIs ==
    ASSUME NEW o, NEW text, IsSequence(text), ParseSimple(o, text) # <<>>
    PROVE  Simple(ParseSimple(o, text)[1])
<1> DEFINE instr == ParseSimple(o, text)[1]
<1>1. CASE o = "WAFFLE"
  BY <1>1 DEF ParseSimple, Simple
<1>2. CASE o \in {"LOAD", "ADD", "MULTIPLY", "MODULO"}
  <2>1. ParseOperand(text) # <<>> /\ instr = [op |-> o, arg |-> ParseOperand(text)[1]]
    BY <1>2 DEF ParseSimple
  <2> QED
    BY <1>2, <2>1, OperandIs DEF Simple, WithOperand
<1>3. CASE o = "WELLNESS_CHECK" /\ text = <<>>
  BY <1>3 DEF ParseSimple, Simple
<1>4. CASE o = "WELLNESS_CHECK" /\ text # <<>>
  <2>1. ParseCondition(text) # <<>> /\ instr = WellnessIf(ParseCondition(text)[1])
    BY <1>4 DEF ParseSimple
  <2> QED
    BY <2>1, ConditionIs DEF Simple
<1>5. CASE o = "CONDITIONAL_ADD"
  <2>1. ParseSimple(o, text) = ParseConditionalAdd(text)
    BY <1>5 DEF ParseSimple
  <2> QED
    BY <2>1, ConditionalAddIs DEF Simple
<1> QED
  BY <1>1, <1>2, <1>3, <1>4, <1>5 DEF ParseSimple

-----------------------------------------------------------------------------
(***************************************************************************)
(* Pieces of programs, as they are read.                                   *)
(***************************************************************************)

LEMMA ProperUnion ==
    ASSUME NEW I, NEW J, Proper(I), Proper(J)
    PROVE  /\ Proper(I \cup J)
           /\ Seq(I) \subseteq Seq(I \cup J) /\ Seq(J) \subseteq Seq(I \cup J)
<1>1. Seq(I) \subseteq Seq(I \cup J) /\ Seq(J) \subseteq Seq(I \cup J)
  OBVIOUS
<1>2. Proper(I \cup J)
  BY <1>1 DEF Proper
<1> QED
  BY <1>1, <1>2

LEMMA ProperEmpty == ProperCode(<<>>)
<1>1. Proper({}) /\ <<>> \in Seq({})
  BY DEF Proper
<1> QED
  BY <1>1 DEF ProperCode

LEMMA ProperAppend ==
    ASSUME NEW code, ProperCode(code), NEW instr, ProperCode(<<instr>>)
    PROVE  ProperCode(Append(code, instr))
<1>1. PICK I : Proper(I) /\ code \in Seq(I)
  BY DEF ProperCode
<1>2. PICK J : Proper(J) /\ <<instr>> \in Seq(J)
  BY DEF ProperCode
<1>3. Append(code, instr) \in Seq(I \cup J)
  <2>1. instr \in J
    BY <1>2, ElementOfSeq
  <2>2. code \in Seq(I \cup J)
    BY <1>1, <1>2, ProperUnion
  <2> QED
    BY <2>1, <2>2
<1> QED
  BY <1>1, <1>2, <1>3, ProperUnion DEF ProperCode

\* A line's instruction is that of the line, and keeps its number.
LEMMA AtLineIs ==
    ASSUME NEW instr, NEW no
    PROVE  /\ AtLine(instr, no).line = no
           /\ \A f \in DOMAIN instr : f # "line" => AtLine(instr, no)[f] = instr[f]
BY DEF AtLine

LEMMA ProperSimple ==
    ASSUME NEW instr, Simple(instr), NEW no \in Nat \ {0}
    PROVE  ProperCode(<<AtLine(instr, no)>>)
<1> DEFINE it == AtLine(instr, no)
<1> SUFFICES ASSUME NEW x, x = it
             PROVE  /\ x.op \in Opcodes /\ x.op # "SHIFT" /\ x.line \in Nat \ {0}
                    /\ \A ids \in ListsOf(x) : IsSequence(ids)
  <2>1. Proper({it}) /\ <<it>> \in Seq({it})
    BY DEF Proper
  <2> QED
    BY <2>1 DEF ProperCode
<1>1. x.line = no
  BY AtLineIs
<1>2. CASE instr \in {Waffle, Wellness}
  <2>1. x.op = instr.op
    BY <1>2, AtLineIs DEF Waffle, Wellness
  <2>2. x.op \in {"WAFFLE", "WELLNESS_CHECK"}
    BY <1>2, <2>1 DEF Waffle, Wellness
  <2>3. ListsOf(x) = {}
    BY <2>2 DEF ListsOf, WithOperand
  <2> QED
    BY <1>1, <2>2, <2>3 DEF Opcodes
<1>3. ASSUME NEW o \in WithOperand, NEW y, ProperOperand(y), instr = [op |-> o, arg |-> y]
      PROVE  /\ x.op \in Opcodes /\ x.op # "SHIFT"
             /\ \A ids \in ListsOf(x) : IsSequence(ids)
  <2>1. x.op = o /\ x.arg = y
    BY <1>3, AtLineIs
  <2> QED
    BY <1>3, <2>1 DEF Opcodes, WithOperand, ListsOf, ProperOperand
<1>4. ASSUME NEW c, ProperCond(c), instr = WellnessIf(c)
      PROVE  /\ x.op \in Opcodes /\ x.op # "SHIFT"
             /\ \A ids \in ListsOf(x) : IsSequence(ids)
  <2>1. x.op = "WELLNESS_CHECK_IF" /\ x.cond = c
    BY <1>4, AtLineIs DEF WellnessIf
  <2>2. ListsOf(x) = {c.lhs.ids, c.rhs.ids}
    BY <2>1 DEF ListsOf, WithOperand
  <2> QED
    BY <1>4, <2>1, <2>2 DEF Opcodes, WithCondition, ProperCond, ProperOperand
<1>5. ASSUME NEW c, NEW ids, ProperCond(c), IsSequence(ids), instr = ConditionalAdd(ids, c)
      PROVE  /\ x.op \in Opcodes /\ x.op # "SHIFT"
             /\ \A list \in ListsOf(x) : IsSequence(list)
  <2>1. x.op = "CONDITIONAL_ADD" /\ x.cond = c /\ x.arg = Refs(ids)
    BY <1>5, AtLineIs DEF ConditionalAdd
  <2>2. ListsOf(x) = {ids, c.lhs.ids, c.rhs.ids}
    BY <2>1 DEF ListsOf, WithOperand, Refs
  <2> QED
    BY <1>5, <2>1, <2>2 DEF Opcodes, WithCondition, ProperCond, ProperOperand
<1> QED
  BY <1>1, <1>2, <1>3, <1>4, <1>5 DEF Simple

LEMMA ProperShift ==
    ASSUME NEW body, ProperCode(body), NEW times \in Nat, NEW no \in Nat \ {0}
    PROVE  ProperCode(<<AtLine(Shift(times, body), no)>>)
<1>1. PICK I : Proper(I) /\ body \in Seq(I)
  BY DEF ProperCode
<1>2. PICK shift : shift = AtLine(Shift(times, body), no)
  OBVIOUS
<1>3. shift.op = "SHIFT" /\ shift.times = times /\ shift.body = body /\ shift.line = no
  BY <1>2, AtLineIs DEF Shift
<1>4. ListsOf(shift) = {}
  BY <1>3 DEF ListsOf, WithOperand
<1>5. Seq(I) \subseteq Seq(I \cup {shift})
  OBVIOUS
<1>6. Proper(I \cup {shift})
  BY <1>1, <1>3, <1>4, <1>5 DEF Proper, Opcodes
<1> QED
  BY <1>2, <1>6 DEF ProperCode

\* What _walk comes to is made of the same.
LEMMA ProperWalk ==
    ASSUME NEW code, ProperCode(code), code # <<>>
    PROVE  /\ ProperCode(Tail(code))
           /\ Head(code).op = "SHIFT" => ProperCode(Head(code).body \o Tail(code))
<1>1. PICK I : Proper(I) /\ code \in Seq(I)
  BY DEF ProperCode
<1>2. Head(code) \in I /\ Tail(code) \in Seq(I)
  BY <1>1, HeadTailProperties
<1>3. Head(code).op = "SHIFT" => Head(code).body \in Seq(I)
  BY <1>1, <1>2 DEF Proper
<1>4. Head(code).op = "SHIFT" => Head(code).body \o Tail(code) \in Seq(I)
  BY <1>2, <1>3, ConcatProperties
<1> QED
  BY <1>1, <1>2, <1>4 DEF ProperCode

-----------------------------------------------------------------------------
(***************************************************************************)
(* ... and as they are checked: what _walk has left to yield decides.      *)
(***************************************************************************)

LEMMA SoundUnion ==
    ASSUME NEW K, NEW I, Closed(I), RefersTo(I, K), NEW J,
           \A x \in J : /\ x.op \in Opcodes /\ ListsOf(x) \subseteq Seq(K)
                        /\ x.op = "SHIFT" =>
                              /\ x.times \in Nat /\ x.body \in Seq(I)
                              /\ x.times # 0 => Shift(x.times - 1, x.body) \in J
    PROVE  Closed(I \cup J) /\ RefersTo(I \cup J, K)
<1>1. Seq(I) \subseteq Seq(I \cup J)
  OBVIOUS
<1> QED
  BY <1>1 DEF Closed, RefersTo

LEMMA SoundEmpty == \A K : SoundCode(<<>>, K)
<1>1. \A K : Closed({}) /\ RefersTo({}, K) /\ <<>> \in Seq({})
  BY DEF Closed, RefersTo
<1> QED
  BY <1>1 DEF SoundCode

\* The lists of an instruction that passed.
LEMMA PassedLists ==
    ASSUME NEW instr, instr.op \in Opcodes, instr.op # "SHIFT",
           \A ids \in ListsOf(instr) : IsSequence(ids), UnknownRefs(instr) = {}
    PROVE  ListsOf(instr) \subseteq Seq(Known)
<1>1. \A k \in DOMAIN RefsOf(instr) : RefsOf(instr)[k] \in Known
  BY DEF UnknownRefs
<1>2. ASSUME NEW a, NEW b, IsSequence(a), IsSequence(b),
             \A k \in DOMAIN (a \o b) : (a \o b)[k] \in Known
      PROVE  a \in Seq(Known) /\ b \in Seq(Known) /\ IsSequence(a \o b)
  <2>1. PICK S, T : a \in Seq(S) /\ b \in Seq(T)
    BY <1>2 DEF IsSequence
  <2>2. a \in Seq(S \cup T) /\ b \in Seq(S \cup T)
    BY <2>1
  <2>3. /\ DOMAIN a = 1..Len(a) /\ Len(a) \in Nat /\ DOMAIN b = 1..Len(b) /\ Len(b) \in Nat
        /\ DOMAIN (a \o b) = 1..(Len(a) + Len(b)) /\ a \o b \in Seq(S \cup T)
        /\ \A k \in 1..(Len(a) + Len(b)) :
              (a \o b)[k] = IF k <= Len(a) THEN a[k] ELSE b[k - Len(a)]
    BY <2>2, ConcatProperties, LenProperties
  <2>4. \A k \in DOMAIN a : k \in DOMAIN (a \o b) /\ (a \o b)[k] = a[k]
    BY <2>3
  <2>5. \A k \in DOMAIN b : k + Len(a) \in DOMAIN (a \o b) /\ (a \o b)[k + Len(a)] = b[k]
    BY <2>3
  <2>6. (\A k \in DOMAIN a : a[k] \in Known) /\ (\A k \in DOMAIN b : b[k] \in Known)
    BY <1>2, <2>4, <2>5
  <2> QED
    BY <1>2, <2>3, <2>6, SequenceOf DEF IsSequence
<1>3. CASE instr.op \in WithOperand
  <2>1. ListsOf(instr) = {instr.arg.ids} /\ RefsOf(instr) = instr.arg.ids
    BY <1>3 DEF ListsOf, RefsOf, WithOperand
  <2> QED
    BY <1>1, <2>1, SequenceOf
<1>4. CASE instr.op = "WELLNESS_CHECK_IF"
  <2>1. /\ ListsOf(instr) = {instr.cond.lhs.ids, instr.cond.rhs.ids}
        /\ RefsOf(instr) = instr.cond.lhs.ids \o instr.cond.rhs.ids
    BY <1>4 DEF ListsOf, RefsOf, CondRefs, WithOperand
  <2> QED
    BY <1>1, <1>2, <2>1
<1>5. CASE instr.op = "CONDITIONAL_ADD"
  <2>1. /\ ListsOf(instr) = {instr.arg.ids, instr.cond.lhs.ids, instr.cond.rhs.ids}
        /\ RefsOf(instr) = instr.arg.ids \o (instr.cond.lhs.ids \o instr.cond.rhs.ids)
    BY <1>5 DEF ListsOf, RefsOf, CondRefs, WithOperand
  <2>2. PICK a, b, c : a = instr.arg.ids /\ b = instr.cond.lhs.ids /\ c = instr.cond.rhs.ids
    OBVIOUS
  <2>3. IsSequence(a) /\ IsSequence(b) /\ IsSequence(c)
    BY <2>1, <2>2
  <2>4. IsSequence(b \o c)
    <3>1. PICK S, T : b \in Seq(S) /\ c \in Seq(T)
      BY <2>3 DEF IsSequence
    <3>2. b \in Seq(S \cup T) /\ c \in Seq(S \cup T)
      BY <3>1
    <3> QED
      BY <3>2, ConcatProperties DEF IsSequence
  <2>5. a \in Seq(Known) /\ b \o c \in Seq(Known)
    BY <1>1, <1>2, <2>1, <2>2, <2>3, <2>4
  <2>6. \A k \in DOMAIN (b \o c) : (b \o c)[k] \in Known
    BY <2>5, ElementOfSeq, LenProperties
  <2>7. b \in Seq(Known) /\ c \in Seq(Known)
    BY <1>2, <2>3, <2>6
  <2> QED
    BY <2>1, <2>2, <2>5, <2>7
<1>6. CASE instr.op \in {"WAFFLE", "WELLNESS_CHECK"}
  BY <1>6 DEF ListsOf, WithOperand
<1> QED
  BY <1>3, <1>4, <1>5, <1>6 DEF Opcodes, WithCondition

\* A piece of program is sound if what follows is, and its first instruction
\* passes ...
LEMMA SoundPassed ==
    ASSUME NEW code, ProperCode(code), code # <<>>, Head(code).op # "SHIFT",
           UnknownRefs(Head(code)) = {}, SoundCode(Tail(code), Known)
    PROVE  SoundCode(code, Known)
<1>1. PICK P : Proper(P) /\ code \in Seq(P)
  BY DEF ProperCode
<1>2. PICK I : Closed(I) /\ RefersTo(I, Known) /\ Tail(code) \in Seq(I)
  BY DEF SoundCode
<1>3. PICK x : x = Head(code) /\ x \in P
  BY <1>1, HeadTailProperties
<1>4. x.op \in Opcodes /\ \A ids \in ListsOf(x) : IsSequence(ids)
  BY <1>1, <1>3 DEF Proper
<1>5. ListsOf(x) \subseteq Seq(Known)
  BY <1>3, <1>4, PassedLists
<1>6. Closed(I \cup {x}) /\ RefersTo(I \cup {x}, Known)
  BY <1>2, <1>3, <1>4, <1>5, SoundUnion
<1>7. code \in Seq(I \cup {x})
  <2>1. code = <<x>> \o Tail(code)
    BY <1>1, <1>3
  <2>2. <<x>> \in Seq(I \cup {x}) /\ Tail(code) \in Seq(I \cup {x})
    BY <1>2
  <2> QED
    BY <2>1, <2>2, ConcatProperties
<1> QED
  BY <1>6, <1>7 DEF SoundCode

\* ... or it is a SHIFT and what follows with the body in its place is.
LEMMA SoundEntered ==
    ASSUME NEW K, NEW code, ProperCode(code), code # <<>>, Head(code).op = "SHIFT",
           SoundCode(Head(code).body \o Tail(code), K)
    PROVE  SoundCode(code, K)
<1>1. PICK P : Proper(P) /\ code \in Seq(P)
  BY DEF ProperCode
<1>2. PICK x : x = Head(code) /\ x \in P
  BY <1>1, HeadTailProperties
<1>3. x.op = "SHIFT" /\ x.times \in Nat /\ x.body \in Seq(P) /\ Tail(code) \in Seq(P)
  BY <1>1, <1>2, HeadTailProperties DEF Proper
<1>4. PICK I : Closed(I) /\ RefersTo(I, K) /\ x.body \o Tail(code) \in Seq(I)
  BY <1>2 DEF SoundCode
<1>5. x.body \in Seq(I) /\ Tail(code) \in Seq(I)
  <2>1. PICK a, b : a = x.body /\ b = Tail(code)
    OBVIOUS
  <2>2. a \in Seq(P) /\ b \in Seq(P) /\ a \o b \in Seq(I)
    BY <1>3, <1>4, <2>1
  <2>3. /\ DOMAIN a = 1..Len(a) /\ Len(a) \in Nat /\ DOMAIN b = 1..Len(b) /\ Len(b) \in Nat
        /\ DOMAIN (a \o b) = 1..(Len(a) + Len(b))
        /\ \A k \in 1..(Len(a) + Len(b)) :
              (a \o b)[k] = IF k <= Len(a) THEN a[k] ELSE b[k - Len(a)]
    BY <2>2, ConcatProperties, LenProperties
  <2>4. \A k \in DOMAIN (a \o b) : (a \o b)[k] \in I
    BY <2>2, ElementOfSeq, LenProperties
  <2>5. \A k \in DOMAIN a : k \in DOMAIN (a \o b) /\ (a \o b)[k] = a[k]
    BY <2>3
  <2>6. \A k \in DOMAIN b : k + Len(a) \in DOMAIN (a \o b) /\ (a \o b)[k + Len(a)] = b[k]
    BY <2>3
  <2>7. (\A k \in DOMAIN a : a[k] \in I) /\ (\A k \in DOMAIN b : b[k] \in I)
    BY <2>4, <2>5, <2>6
  <2> QED
    BY <2>1, <2>2, <2>7, SequenceOf DEF IsSequence
<1> DEFINE turns == {Shift(t, x.body) : t \in Nat}
           J == {x} \cup turns
<1>6. \A y \in J : /\ y.op = "SHIFT" /\ y.times \in Nat /\ y.body = x.body
                   /\ y.times # 0 => Shift(y.times - 1, y.body) \in J
  <2>1. ASSUME NEW n \in Nat, n # 0 PROVE Shift(n - 1, x.body) \in J
    <3>1. n - 1 \in Nat
      BY <2>1
    <3> QED
      BY <3>1
  <2>2. \A t : LET y == Shift(t, x.body) IN y.op = "SHIFT" /\ y.times = t /\ y.body = x.body
    BY DEF Shift
  <2>3. ASSUME NEW y \in J
        PROVE  y.op = "SHIFT" /\ y.times \in Nat /\ y.body = x.body
    <3>1. CASE y = x
      BY <1>3, <3>1
    <3>2. CASE \E t \in Nat : y = Shift(t, x.body)
      BY <2>2, <3>2
    <3> QED
      BY <3>1, <3>2
  <2> HIDE DEF J
  <2> QED
    BY <2>1, <2>3
<1>7. \A y \in J : y.op \in Opcodes /\ ListsOf(y) \subseteq Seq(K)
  BY <1>6 DEF Opcodes, ListsOf, WithOperand
<1> HIDE DEF J
<1>8. Closed(I \cup J) /\ RefersTo(I \cup J, K)
  BY <1>4, <1>5, <1>6, <1>7, SoundUnion
<1>9. code \in Seq(I \cup J)
  <2>1. code = <<x>> \o Tail(code)
    BY <1>1, <1>2
  <2>2. x \in J
    BY DEF J
  <2>3. <<x>> \in Seq(I \cup J) /\ Tail(code) \in Seq(I \cup J)
    BY <1>5, <2>2
  <2> QED
    BY <2>1, <2>3, ConcatProperties
<1> QED
  BY <1>8, <1>9 DEF SoundCode

-----------------------------------------------------------------------------
(***************************************************************************)
(* The state of the parser.                                                *)
(***************************************************************************)

NumberedLines == [no : Nat \ {0}, op : STRING, rest : Seq(Words)]

\* One call of _parse_block; parse's own, which is the first, has no line.
ProperBlock(b, first) ==
    /\ b = [out |-> b.out, line |-> b.line, times |-> b.times]
    /\ ProperCode(b.out) /\ b.line \in Nat /\ b.times \in Nat
    /\ b.line = 0 <=> first

ProperBlocks(stack) ==
    /\ IsSequence(stack)
    /\ \A b \in DOMAIN stack : ProperBlock(stack[b], b = 1)

ParserInv ==
    /\ lines \in Seq(NumberedLines)
    /\ pos \in 1..(Len(lines) + 1) /\ failed \in Nat
    /\ ProperBlocks(blocks)

\* The lines of a text, with their numbers.
LEMMA StrippedIs ==
    ASSUME NEW text \in Texts
    PROVE  Stripped(text) \in Seq(NumberedLines)
<1> DEFINE full == {k \in DOMAIN text : text[k].op # ""}
           record(k) == [no |-> k, op |-> text[k].op, rest |-> text[k].rest]
<1>1. /\ IsSequence(text)
      /\ DOMAIN text \subseteq Nat \ {0}
      /\ \A k \in DOMAIN text : text[k] \in [op : STRING, rest : Seq(Words)]
  <2>1. PICK T : T = [op : STRING, rest : Seq(Words)] /\ text \in Seq(T)
    BY DEF Texts
  <2>2. IsSequence(text) /\ DOMAIN text = 1..Len(text) /\ Len(text) \in Nat
    BY <2>1, LenProperties DEF IsSequence
  <2>3. \A k \in DOMAIN text : text[k] \in T
    BY <2>1, <2>2, ElementOfSeq
  <2> QED
    BY <2>1, <2>2, <2>3
<1>2. full \in SUBSET Nat /\ IsFiniteSet(full)
  BY <1>1, PlacesOf
<1>3. \A k \in DOMAIN text : record(k) \in NumberedLines
  BY <1>1 DEF NumberedLines
<1>4. PICK c \in Nat : c = Cardinality(full)
  BY <1>2, FS_CardinalityType
<1>5. \A n \in 1..c : Nth(full, n) \in full
  <2> HIDE DEF full
  <2> QED
    BY <1>2, <1>4, NthExists
<1>6. \A n \in 1..c : record(Nth(full, n)) \in NumberedLines
  BY <1>3, <1>5
<1>7. Stripped(text) = [n \in 1..c |-> record(Nth(full, n))]
  BY <1>4 DEF Stripped
<1> HIDE DEF full, record
<1>8. [n \in 1..c |-> record(Nth(full, n))] \in [1..c -> NumberedLines]
  BY <1>6
<1>9. PICK f : f = [n \in 1..c |-> record(Nth(full, n))]
  OBVIOUS
<1>10. f \in [1..c -> NumberedLines]
  BY <1>8, <1>9
<1>11. f \in Seq(NumberedLines)
  BY <1>10
<1> QED
  BY <1>7, <1>9, <1>11

LEMMA BlocksBegin == ProperBlocks(<<Block(0, 0)>>)
<1>1. IsSequence(<<Block(0, 0)>>)
  <2>1. \A w : <<w>> \in Seq({w})
    OBVIOUS
  <2> QED
    BY ONLY <2>1 DEF IsSequence
<1>2. PICK w : w = Block(0, 0)
  OBVIOUS
<1>3. ProperBlock(w, TRUE)
  BY <1>2, ProperEmpty DEF ProperBlock, Block
<1>4. DOMAIN <<w>> = {1} /\ <<w>>[1] = w
  OBVIOUS
<1> QED
  BY <1>1, <1>2, <1>3, <1>4 DEF ProperBlocks

LEMMA BlocksOpen ==
    ASSUME NEW stack, ProperBlocks(stack), stack # <<>>,
           NEW no \in Nat \ {0}, NEW times \in Nat
    PROVE  ProperBlocks(Append(stack, Block(no, times)))
<1>1. PICK w : w = Block(no, times)
  OBVIOUS
<1>2. ProperBlock(w, FALSE)
  BY <1>1, ProperEmpty DEF ProperBlock, Block
<1>3. PICK S : stack \in Seq(S)
  BY DEF ProperBlocks, IsSequence
<1>4. PICK T : T = S \cup {w}
  OBVIOUS
<1>5. stack \in Seq(T) /\ w \in T
  BY <1>3, <1>4
<1>6. /\ Append(stack, w) \in Seq(T) /\ Len(stack) \in Nat \ {0}
      /\ DOMAIN Append(stack, w) = 1..(Len(stack) + 1) /\ DOMAIN stack = 1..Len(stack)
      /\ \A b \in 1..Len(stack) : Append(stack, w)[b] = stack[b]
      /\ Append(stack, w)[Len(stack) + 1] = w
  <2>1. Len(stack) # 0
    BY <1>3
  <2> QED
    BY <1>5, <2>1, AppendProperties, LenProperties
<1>7. ASSUME NEW b \in DOMAIN Append(stack, w)
      PROVE  ProperBlock(Append(stack, w)[b], b = 1)
  <2>1. CASE b \in 1..Len(stack)
    BY <1>6, <2>1 DEF ProperBlocks
  <2>2. CASE b = Len(stack) + 1
    <3>1. b # 1 /\ Append(stack, w)[b] = w
      BY <1>6, <2>2
    <3> QED
      BY <1>2, <3>1 DEF ProperBlock
  <2> QED
    BY <1>6, <2>1, <2>2
<1> QED
  BY <1>1, <1>6, <1>7 DEF ProperBlocks, IsSequence

LEMMA BlocksReturn ==
    ASSUME NEW stack, ProperBlocks(stack), Len(stack) > 1
    PROVE  ProperBlocks(SubSeq(stack, 1, Len(stack) - 1))
<1>1. DOMAIN stack = 1..Len(stack) /\ Len(stack) \in Nat
  BY PlacesOf DEF ProperBlocks
<1>2. PICK p : p = SubSeq(stack, 1, Len(stack) - 1)
  OBVIOUS
<1>3. IsSequence(p)
  BY <1>1, <1>2, PieceOf
<1>4. DOMAIN p = 1..(Len(stack) - 1) /\ \A b \in DOMAIN p : p[b] = stack[b]
  <2>1. PICK S : stack \in Seq(S)
    BY DEF ProperBlocks, IsSequence
  <2> QED
    BY <1>1, <1>2, <2>1, SubSeqProperties
<1>5. \A b \in DOMAIN p : b \in DOMAIN stack
  BY <1>1, <1>4
<1> QED
  BY <1>2, <1>3, <1>4, <1>5 DEF ProperBlocks

LEMMA BlocksAdd ==
    ASSUME NEW stack, ProperBlocks(stack), NEW instr, ProperCode(<<instr>>)
    PROVE  ProperBlocks(Adding(stack, instr))
<1>1. DOMAIN stack = 1..Len(stack) /\ Len(stack) \in Nat
  BY PlacesOf DEF ProperBlocks
<1>2. PICK e : e = Adding(stack, instr)
  OBVIOUS
<1>3. DOMAIN e = DOMAIN stack /\ \A b \in DOMAIN stack : b # Len(stack) => e[b] = stack[b]
  BY <1>2 DEF Adding
<1>4. ASSUME NEW n, n = Len(stack), n \in DOMAIN stack PROVE ProperBlock(e[n], n = 1)
  <2>1. PICK b : b = stack[n] /\ ProperBlock(b, n = 1)
    BY <1>4 DEF ProperBlocks
  <2>2. e[n] = [b EXCEPT !.out = Append(b.out, instr)]
    BY <1>2, <1>4, <2>1 DEF Adding
  <2>3. e[n] = [out |-> Append(b.out, instr), line |-> b.line, times |-> b.times]
    BY <2>1, <2>2 DEF ProperBlock
  <2>4. ProperCode(Append(b.out, instr))
    BY <2>1, ProperAppend DEF ProperBlock
  <2> QED
    BY <2>1, <2>3, <2>4 DEF ProperBlock
<1>5. IsSequence(e)
  <2>1. e = [k \in 1..Len(stack) |-> e[k]]
    BY <1>1, <1>2 DEF Adding
  <2> QED
    BY <1>1, <2>1, NumberedIs
<1> QED
  BY <1>2, <1>3, <1>4, <1>5 DEF ProperBlocks

\* A line that fits is one of three kinds.
LEMMA FitsIs ==
    ASSUME NEW line, Fits(line)
    PROVE  /\ line.op = "SHIFT" => ShiftFits(line.rest)
           /\ line.op = "END_SHIFT" => Len(blocks) > 1
           /\ line.op \notin {"SHIFT", "END_SHIFT"} => ParseSimple(line.op, line.rest) # <<>>
BY DEF Fits

LEMMA ParserBegins ==
    ASSUME NEW text \in Texts, BeginParse(text)
    PROVE  ParserInv' /\ blocks' # <<>>
<1>1. lines' \in Seq(NumberedLines) /\ pos' = 1 /\ failed' = 0 /\ blocks' = <<Block(0, 0)>>
  BY StrippedIs DEF BeginParse
<1>2. Len(lines') \in Nat
  BY <1>1
<1> QED
  BY <1>1, <1>2, BlocksBegin DEF ParserInv

LEMMA ParserKeeps ==
    ASSUME ParserInv, ParseStep, blocks # <<>>
    PROVE  ParserInv' /\ blocks' # <<>>
<1>1. /\ Len(lines) \in Nat /\ DOMAIN lines = 1..Len(lines)
      /\ DOMAIN blocks = 1..Len(blocks) /\ Len(blocks) \in Nat \ {0}
      /\ Reading => Line \in NumberedLines
      /\ ProperBlock(Inner, Len(blocks) = 1)
  <2>1. Len(lines) \in Nat /\ DOMAIN lines = 1..Len(lines)
    BY DEF ParserInv
  <2>2. Reading => pos \in 1..Len(lines)
    BY <2>1 DEF ParserInv, Reading
  <2>3. Reading => Line \in NumberedLines
    BY <2>2, ElementOfSeq DEF ParserInv, Line
  <2>4. DOMAIN blocks = 1..Len(blocks) /\ Len(blocks) \in Nat
    BY PlacesOf DEF ParserInv, ProperBlocks
  <2>5. Len(blocks) # 0
    <3>1. PICK S : blocks \in Seq(S)
      BY DEF ParserInv, ProperBlocks, IsSequence
    <3> QED
      BY <3>1
  <2>6. Len(blocks) \in DOMAIN blocks
    BY <2>4, <2>5
  <2> QED
    BY <2>1, <2>3, <2>4, <2>5, <2>6 DEF ParserInv, ProperBlocks, Inner
<1>2. ASSUME ProperBlocks(blocks'), DOMAIN blocks' # {}, lines' = lines, failed' = failed,
             pos' = pos + 1, Reading
      PROVE  ParserInv' /\ blocks' # <<>>
  BY <1>1, <1>2 DEF ParserInv, Reading
<1>3. CASE RefuseLine
  <2>1. Line.no \in Nat
    BY <1>1, <1>3 DEF RefuseLine, NumberedLines
  <2> QED
    BY <1>3, <2>1 DEF RefuseLine, ParserInv
<1>4. CASE RefuseOpen
  <2>1. Inner.line \in Nat
    BY <1>1 DEF ProperBlock
  <2> QED
    BY <1>4, <2>1 DEF RefuseOpen, ParserInv
<1>5. CASE AddInstruction
  <2>1. /\ Line.no \in Nat \ {0} /\ IsSequence(Line.rest)
        /\ ParseSimple(Line.op, Line.rest) # <<>>
    BY <1>1, <1>5, FitsIs DEF AddInstruction, NumberedLines, IsSequence
  <2>2. PICK instr : /\ instr = AtLine(ParseSimple(Line.op, Line.rest)[1], Line.no)
                     /\ ProperCode(<<instr>>)
    BY <2>1, SimpleIs, ProperSimple
  <2>3. blocks' = Adding(blocks, instr)
    BY <1>5, <2>2 DEF AddInstruction
  <2>4. DOMAIN blocks' # {}
    <3>1. DOMAIN blocks' = DOMAIN blocks
      BY <2>3 DEF Adding
    <3>2. 1 \in DOMAIN blocks
      BY <1>1
    <3> QED
      BY <3>1, <3>2
  <2>5. ProperBlocks(blocks')
    BY <2>2, <2>3, BlocksAdd DEF ParserInv
  <2> QED
    BY <1>2, <1>5, <2>4, <2>5 DEF AddInstruction
<1>6. CASE OpenShift
  <2>1. /\ Line.no \in Nat \ {0} /\ Line.rest \in Seq(Words) /\ ShiftFits(Line.rest)
    BY <1>1, <1>6, FitsIs DEF OpenShift, NumberedLines
  <2>2. Line.rest[1].n \in Nat
    <3>1. Line.rest[1] \in Words /\ Line.rest[1].n >= 0
      BY <2>1, ElementOfSeq DEF ShiftFits
    <3> QED
      BY <3>1 DEF Words
  <2>3. blocks' = Append(blocks, Block(Line.no, Line.rest[1].n))
    BY <1>6 DEF OpenShift
  <2>4. ProperBlocks(blocks')
    BY <2>1, <2>2, <2>3, BlocksOpen DEF ParserInv
  <2>5. DOMAIN blocks' # {}
    <3>1. PICK S : blocks \in Seq(S)
      BY DEF ParserInv, ProperBlocks, IsSequence
    <3>2. PICK w : w = Block(Line.no, Line.rest[1].n)
      OBVIOUS
    <3>3. blocks \in Seq(S \cup {w}) /\ w \in S \cup {w}
      BY <3>1
    <3>4. Len(blocks') = Len(blocks) + 1 /\ blocks' \in Seq(S \cup {w})
      BY <2>3, <3>2, <3>3, AppendProperties
    <3> QED
      BY <1>1, <3>4
  <2> QED
    BY <1>2, <1>6, <2>4, <2>5 DEF OpenShift
<1>7. CASE CloseShift
  <2>1. Len(blocks) > 1
    BY <1>7, FitsIs DEF CloseShift
  <2>2. ProperCode(Inner.out) /\ Inner.times \in Nat /\ Inner.line \in Nat \ {0}
    <3>1. /\ ProperCode(Inner.out) /\ Inner.times \in Nat /\ Inner.line \in Nat
          /\ Inner.line = 0 <=> Len(blocks) = 1
      BY <1>1 DEF ProperBlock
    <3>2. Len(blocks) # 1
      BY <1>1, <2>1
    <3> QED
      BY <3>1, <3>2
  <2>3. PICK instr : /\ instr = AtLine(Shift(Inner.times, Inner.out), Inner.line)
                     /\ ProperCode(<<instr>>)
    BY <2>2, ProperShift
  <2>4. blocks' = Adding(Outer, instr)
    BY <1>7, <2>3 DEF CloseShift
  <2>5. ProperBlocks(Outer)
    BY <2>1, BlocksReturn DEF ParserInv, Outer
  <2>6. ProperBlocks(blocks')
    BY <2>3, <2>4, <2>5, BlocksAdd
  <2>7. DOMAIN blocks' = DOMAIN Outer
    BY <2>4 DEF Adding
  <2>8. DOMAIN Outer # {}
    <3>1. PICK S : blocks \in Seq(S)
      BY DEF ParserInv, ProperBlocks, IsSequence
    <3>2. DOMAIN Outer = 1..(Len(blocks) - 1)
      BY <1>1, <2>1, <3>1, SubSeqProperties DEF Outer
    <3> QED
      BY <1>1, <2>1, <3>2
  <2> QED
    BY <1>2, <1>7, <2>6, <2>7, <2>8 DEF CloseShift
<1> QED
  BY <1>3, <1>4, <1>5, <1>6, <1>7 DEF ParseStep

-----------------------------------------------------------------------------
(***************************************************************************)
(* The state of the loader.                                                *)
(***************************************************************************)

\* The Innies read so far are the first of the schedule, in its order.
ReadInv ==
    /\ work \in Seq([id : Nat, text : Texts])
    /\ IsSequence(innies) /\ Len(innies) <= Len(work)
    /\ \A k \in DOMAIN innies : innies[k].id = work[k].id /\ ProperCode(innies[k].program)
    /\ phase = "text" => Len(innies) < Len(work) /\ blocks # <<>>
    /\ ParserInv

\* Those that were checked are sound, and the one _walk is in is sound if what
\* is still to be yielded is.
CheckedInv ==
    /\ checked \in 0..Len(innies) /\ ProperCode(todo)
    /\ phase \in {"shape", "specs", "text"} => checked = 0
    /\ \A k \in 1..checked : SoundCode(innies[k].program, Known)
    /\ phase = "walk" =>
          /\ checked < Len(innies)
          /\ SoundCode(todo, Known) => SoundCode(innies[checked + 1].program, Known)
    /\ Accepted => checked = Len(innies)

LoadInv ==
    /\ phase \in {"shape", "specs", "text", "refs", "walk", "over"}
    /\ ReadInv /\ CheckedInv

LEMMA LoadBegins == LoadInit => LoadInv
<1> SUFFICES ASSUME LoadInit PROVE LoadInv
  OBVIOUS
<1>1. work \in Seq([id : Nat, text : Texts]) /\ Len(work) \in Nat
  <2>1. PICK T : T = [id : Nat, text : Texts]
    OBVIOUS
  <2>2. work \in Seq(T)
    BY <2>1, WorksAssumption DEF LoadInit
  <2> QED
    BY <2>1, <2>2, LenProperties
<1>2. phase = "shape" /\ innies = <<>> /\ checked = 0 /\ todo = <<>>
  BY DEF LoadInit
<1>3. <<>> \in Seq({})
  OBVIOUS
<1>4. ParserInv
  BY <1>3 DEF LoadInit, ParserIdle, ParserInv, ProperBlocks, IsSequence
<1>5. ReadInv
  BY <1>1, <1>2, <1>3, <1>4 DEF ReadInv, IsSequence
<1>6. CheckedInv
  BY <1>2, ProperEmpty DEF CheckedInv, Accepted
<1> QED
  BY <1>2, <1>5, <1>6 DEF LoadInv

\* The Innies stay as they are from the moment they are all read.
LEMMA LoadKeeps ==
    ASSUME LoadInv, [LoadNext]_loadVars
    PROVE  LoadInv'
<1>1. /\ DOMAIN innies = 1..Len(innies) /\ Len(innies) \in Nat
      /\ DOMAIN work = 1..Len(work) /\ Len(work) \in Nat
      /\ checked \in Nat
  BY PlacesOf DEF LoadInv, ReadInv, CheckedInv, IsSequence
<1>2. Len(innies) < Len(work) => ThisSpec.id \in Nat /\ ThisSpec.text \in Texts
  <2>1. PICK T : T = [id : Nat, text : Texts] /\ work \in Seq(T)
    BY DEF LoadInv, ReadInv
  <2>2. Len(innies) < Len(work) => ThisSpec \in T
    <3>1. PICK n : n = Len(innies) + 1
      OBVIOUS
    <3>2. Len(innies) < Len(work) => n \in 1..Len(work)
      BY <1>1, <3>1
    <3> QED
      BY <2>1, <3>1, <3>2, ElementOfSeq DEF ThisSpec
  <2> QED
    BY <2>1, <2>2
\* Most steps leave the Innies, the walk and the parser alone.
<1>3. ASSUME UNCHANGED <<work, innies, checked, todo, parserVars>>,
             phase' \in {"shape", "specs", "refs", "over"},
             phase' \in {"shape", "specs"} => phase \in {"shape", "specs", "text"},
             Accepted' => checked = Len(innies)
      PROVE  LoadInv'
  BY <1>3 DEF LoadInv, ReadInv, CheckedInv, Known, Accepted, ParserInv, parserVars
<1>4. ASSUME NEW error, error # NoError, Raises(error) PROVE LoadInv'
  BY <1>3, <1>4 DEF Raises, Accepted
<1>5. CASE Validate
  BY <1>3, <1>5 DEF Validate, Accepted
<1>6. CASE RefuseShape \/ RefuseDuplicate \/ RaiseParseError \/ RefuseRefs
  BY <1>4, <1>6 DEF RefuseShape, RefuseDuplicate, RaiseParseError, RefuseRefs, Answers, NoError
<1>7. CASE AllRead
  BY <1>3, <1>7 DEF AllRead, Accepted
<1>8. CASE ReturnInnies
  BY <1>3, <1>8 DEF ReturnInnies, Accepted
<1>9. CASE ReadSpec
  <2>1. ParserInv' /\ blocks' # <<>>
    BY <1>2, <1>9, ParserBegins DEF ReadSpec
  <2> QED
    BY <1>9, <2>1 DEF ReadSpec, LoadInv, ReadInv, CheckedInv, Known, Accepted
<1>10. CASE ReadText
  <2>1. ParserInv' /\ blocks' # <<>>
    BY <1>10, ParserKeeps DEF ReadText, LoadInv, ReadInv
  <2> QED
    BY <1>10, <2>1 DEF ReadText, LoadInv, ReadInv, CheckedInv, Known, Accepted
<1>11. CASE TakeProgram
  <2>1. checked = 0 /\ Len(innies) < Len(work) /\ ParserInv
    BY <1>11 DEF TakeProgram, LoadInv, ReadInv, CheckedInv
  <2>2. ProperCode(Program)
    <3>1. Len(blocks) = 1 /\ 1 \in DOMAIN blocks
      BY <1>11, <2>1, PlacesOf DEF TakeProgram, Parsed, ParserInv, ProperBlocks
    <3> QED
      BY <2>1, <3>1 DEF Program, Inner, ParserInv, ProperBlocks, ProperBlock
  <2>3. PICK new : new = [id |-> ThisSpec.id, program |-> Program]
    OBVIOUS
  <2>4. innies' = Append(innies, new)
    BY <1>11, <2>3 DEF TakeProgram
  <2>5. /\ IsSequence(innies') /\ Len(innies') = Len(innies) + 1
        /\ DOMAIN innies' = 1..(Len(innies) + 1)
        /\ \A k \in 1..Len(innies) : innies'[k] = innies[k]
        /\ innies'[Len(innies) + 1] = new
    <3>1. PICK S : innies \in Seq(S)
      BY DEF LoadInv, ReadInv, IsSequence
    <3>2. innies \in Seq(S \cup {new}) /\ new \in S \cup {new}
      BY <3>1
    <3> QED
      BY <2>4, <3>2, AppendProperties, LenProperties DEF IsSequence
  <2>6. \A k \in DOMAIN innies' : innies'[k].id = work[k].id /\ ProperCode(innies'[k].program)
    <3>1. new.id = work[Len(innies) + 1].id /\ ProperCode(new.program)
      BY <2>2, <2>3 DEF ThisSpec
    <3> QED
      BY <1>1, <2>5, <3>1 DEF LoadInv, ReadInv
  <2>7. ReadInv'
    BY <1>1, <1>11, <2>1, <2>5, <2>6 DEF TakeProgram, LoadInv, ReadInv, ParserInv, parserVars
  <2>8. CheckedInv'
    BY <1>1, <1>11, <2>1, <2>5 DEF TakeProgram, LoadInv, CheckedInv, Accepted
  <2> QED
    BY <1>11, <2>7, <2>8 DEF TakeProgram, LoadInv
<1>12. CASE BeginRefs
  <2>1. ProperCode(innies[checked + 1].program) /\ checked + 1 \in DOMAIN innies
    <3>1. checked \in 0..Len(innies) /\ checked < Len(innies)
      BY <1>12 DEF BeginRefs, LoadInv, CheckedInv
    <3>2. checked + 1 \in DOMAIN innies
      BY <1>1, <3>1
    <3> QED
      BY <3>2 DEF LoadInv, ReadInv
  <2>2. ReadInv'
    BY <1>12 DEF BeginRefs, LoadInv, ReadInv, ParserInv, parserVars
  <2>3. CheckedInv'
    BY <1>12, <2>1 DEF BeginRefs, LoadInv, CheckedInv, Known, Accepted
  <2> QED
    BY <1>12, <2>2, <2>3 DEF BeginRefs, LoadInv
<1>13. ASSUME EnterShift \/ PassRefs PROVE LoadInv'
  <2>1. /\ phase = "walk" /\ todo # <<>> /\ phase' = phase
        /\ UNCHANGED <<work, innies, checked, answer, parserVars>>
    BY <1>13 DEF EnterShift, PassRefs, Walking
  <2>2. ProperCode(todo') /\ (SoundCode(todo', Known) => SoundCode(todo, Known))
    <3>1. ProperCode(todo)
      BY DEF LoadInv, CheckedInv
    <3>2. CASE EnterShift
      <4>1. Head(todo).op = "SHIFT" /\ todo' = Head(todo).body \o Tail(todo)
        BY <3>2 DEF EnterShift
      <4> QED
        BY <2>1, <3>1, <4>1, ProperWalk, SoundEntered
    <3>3. CASE PassRefs
      <4>1. Head(todo).op # "SHIFT" /\ UnknownRefs(Head(todo)) = {} /\ todo' = Tail(todo)
        BY <3>3 DEF PassRefs
      <4> QED
        BY <2>1, <3>1, <4>1, ProperWalk, SoundPassed
    <3> QED
      BY <1>13, <3>2, <3>3
  <2>3. ReadInv'
    BY <2>1 DEF LoadInv, ReadInv, ParserInv, parserVars
  <2>4. CheckedInv'
    BY <2>1, <2>2 DEF LoadInv, CheckedInv, Known, Accepted
  <2> QED
    BY <2>1, <2>3, <2>4 DEF LoadInv
<1>14. CASE EndRefs
  <2>1. checked < Len(innies) /\ SoundCode(innies[checked + 1].program, Known)
    BY <1>14, SoundEmpty DEF EndRefs, LoadInv, CheckedInv
  <2>2. ReadInv'
    BY <1>14 DEF EndRefs, LoadInv, ReadInv, ParserInv, parserVars
  <2>3. \A k \in 1..(checked + 1) : SoundCode(innies[k].program, Known)
    <3>1. \A k \in 1..(checked + 1) : k \in 1..checked \/ k = checked + 1
      BY <1>1
    <3> QED
      BY <2>1, <3>1 DEF LoadInv, CheckedInv
  <2>4. CheckedInv'
    <3>1. Known' = Known /\ checked' = checked + 1 /\ phase' = "refs" /\ innies' = innies
          /\ todo' = todo
      BY <1>14 DEF EndRefs, Known
    <3>2. checked + 1 \in 0..Len(innies) /\ ProperCode(todo)
      <4>1. ProperCode(todo)
        BY DEF LoadInv, CheckedInv
      <4> QED
        BY <1>1, <2>1, <4>1
    <3>3. \A k \in 1..checked' : SoundCode(innies'[k].program, Known')
      BY <2>3, <3>1
    <3> QED
      BY <3>1, <3>2, <3>3 DEF CheckedInv, Accepted
  <2> QED
    BY <1>14, <2>2, <2>4 DEF EndRefs, LoadInv
<1>15. CASE UNCHANGED loadVars
  BY <1>15 DEF LoadInv, ReadInv, CheckedInv, Known, Accepted, ParserInv, loadVars, parserVars
<1> QED
  BY <1>5, <1>6, <1>7, <1>8, <1>9, <1>10, <1>11, <1>12, <1>13, <1>14, <1>15 DEF LoadNext, Over

\* Types, and the constraints of the instruction classes, for any schedules
\* (isa.py:105, 159; loader.py:74-95).
THEOREM LoadIsTyped == LoadSpec => []LoadTypeOK
<1>1. LoadInv => LoadTypeOK
  <2> SUFFICES ASSUME LoadInv PROVE LoadTypeOK
    OBVIOUS
  <2>1. \A b \in DOMAIN blocks : blocks[b].times >= 0 /\ (blocks[b].line = 0 <=> b = 1)
    <3>1. \A b \in DOMAIN blocks : blocks[b].times \in Nat /\ (blocks[b].line = 0 <=> b = 1)
      BY DEF LoadInv, ReadInv, ParserInv, ProperBlocks, ProperBlock
    <3> QED
      BY <3>1
  <2>2. \A k \in DOMAIN todo : todo[k].line >= 1 /\ (todo[k].op = "SHIFT" => todo[k].times >= 0)
    <3>1. PICK I : Proper(I) /\ todo \in Seq(I)
      BY DEF LoadInv, CheckedInv, ProperCode
    <3>2. \A k \in DOMAIN todo : todo[k] \in I
      BY <3>1, ElementOfSeq, LenProperties
    <3>3. \A x \in I : x.line \in Nat \ {0} /\ (x.op = "SHIFT" => x.times \in Nat)
      BY <3>1 DEF Proper
    <3>4. \A x \in I : x.line >= 1 /\ (x.op = "SHIFT" => x.times >= 0)
      BY <3>3
    <3> QED
      BY <3>2, <3>4
  <2> QED
    BY <2>1, <2>2 DEF LoadTypeOK, LoadInv, ReadInv, CheckedInv, ParserInv
<1> QED
  BY <1>1, LoadBegins, LoadKeeps, PTL DEF LoadSpec

-----------------------------------------------------------------------------
(***************************************************************************)
(* What is accepted.                                                       *)
(***************************************************************************)

\* The programs have one set of instructions between them.
SoundPrograms ==
    \E I : /\ Closed(I) /\ RefersTo(I, Known)
           /\ \A k \in DOMAIN innies : innies[k].program \in Seq(I)

LEMMA AcceptedIsSound ==
    ASSUME LoadInv, Accepted
    PROVE  SoundPrograms
<1> DEFINE Suits(I, k) == Closed(I) /\ RefersTo(I, Known) /\ innies[k].program \in Seq(I)
           of(k) == CHOOSE I : Suits(I, k)
           U == UNION {of(k) : k \in DOMAIN innies}
<1>1. \A k \in DOMAIN innies : Suits(of(k), k)
  <2>1. \A k \in DOMAIN innies : SoundCode(innies[k].program, Known)
    <3>1. DOMAIN innies = 1..checked
      BY PlacesOf DEF LoadInv, ReadInv, CheckedInv
    <3> QED
      BY <3>1 DEF LoadInv, CheckedInv
  <2> QED
    BY <2>1 DEF SoundCode
<1>2. \A k \in DOMAIN innies : of(k) \subseteq U
  OBVIOUS
<1>3. \A x \in U : \E k \in DOMAIN innies : x \in of(k)
  OBVIOUS
<1> HIDE DEF U, of
<1>4. \A k \in DOMAIN innies : Seq(of(k)) \subseteq Seq(U)
  BY <1>2
<1>5. Closed(U)
  BY <1>1, <1>2, <1>3, <1>4 DEF Closed
<1>6. RefersTo(U, Known)
  BY <1>1, <1>3 DEF RefersTo
<1>7. \A k \in DOMAIN innies : innies[k].program \in Seq(U)
  BY <1>1, <1>4
<1> QED
  BY <1>5, <1>6, <1>7 DEF SoundPrograms

\* Whatever the schedule, the programs load returns are programs that the
\* theorems about the runners speak of, with the Innies of the schedule for
\* the ones they may name: those that suppose Closed and RefersTo hold of
\* whatever the command line runs (loader.py:60-71, 93-95).
THEOREM AcceptedAreSound == LoadSpec => [](Accepted => SoundPrograms)
BY LoadBegins, LoadKeeps, AcceptedIsSound, PTL DEF LoadSpec

\* Nothing is loaded otherwise because a workday follows.
LEMMA WorkLoads == WorkSpec => LoadSpec
<1>1. WorkInit => LoadInit
  BY DEF WorkInit
<1>2. [WorkNext]_workVars => [LoadNext]_loadVars
  BY DEF WorkNext, LoadOn, StartWork, ReadAll, FoldSome, WorkDone, workVars
<1> QED
  BY <1>1, <1>2, PTL DEF WorkSpec, LoadSpec

\* A workday is under way when load has returned, with such instructions.
WorkInv ==
    /\ LoadInv
    /\ at = 0 => day = Begin(<<>>)
    /\ at # 0 => \E I : Closed(I) /\ RefersTo(I, Known) /\ InProgress(I, day)

LEMMA WorkBegins == WorkInit => WorkInv
BY LoadBegins DEF WorkInit, WorkInv

LEMMA WorkKeeps ==
    ASSUME \A I : Closed(I) => RunsBlocks(I), WorkInv, [WorkNext]_workVars
    PROVE  WorkInv'
<1>1. LoadInv'
  BY LoadKeeps DEF WorkInv, WorkNext, LoadOn, StartWork, ReadAll, FoldSome, WorkDone, workVars
<1>2. ASSUME at = 0, UNCHANGED <<at, day>> PROVE WorkInv'
  BY <1>1, <1>2 DEF WorkInv
<1>3. ASSUME at # 0, at' = at, UNCHANGED loadVars,
             \A I : Closed(I) /\ InProgress(I, day) => InProgress(I, day')
      PROVE  WorkInv'
  BY <1>1, <1>3 DEF WorkInv, loadVars, Known
<1>4. CASE StartWork
  <2>1. PICK k \in DOMAIN innies : day' = RunToAsk(Begin(innies[k].program))
    BY <1>4 DEF StartWork
  <2>2. PICK I : /\ Closed(I) /\ RefersTo(I, Known)
                 /\ \A j \in DOMAIN innies : innies[j].program \in Seq(I)
    BY <1>4, AcceptedIsSound DEF StartWork, WorkInv, SoundPrograms
  <2>3. InProgress(I, day')
    BY <2>1, <2>2, BeginsInside
  <2>4. at' # 0 /\ Known' = Known
    <3>1. DOMAIN innies = 1..Len(innies)
      BY PlacesOf DEF WorkInv, LoadInv, ReadInv
    <3> QED
      BY <1>4, <3>1 DEF StartWork, loadVars, Known
  <2> QED
    BY <1>1, <2>2, <2>3, <2>4 DEF WorkInv
<1>5. \A I : Closed(I) /\ InProgress(I, day) =>
                \A x : InProgress(I, Answer(day, x)) /\ InProgress(I, Raise(day, x))
  BY GoesOnInside
<1>6. CASE ReadAll
  <2>1. (\E x : day' = Answer(day, x)) \/ (\E x : day' = Raise(day, x))
    BY <1>6, ToldOrRaised DEF ReadAll
  <2> QED
    BY <1>3, <1>5, <1>6, <2>1 DEF ReadAll
<1>7. CASE FoldSome
  <2>1. (\E x : day' = Answer(day, x)) \/ (\E x : day' = Raise(day, x))
    BY <1>7 DEF FoldSome, AnswerFold
  <2> QED
    BY <1>3, <1>5, <1>7, <2>1 DEF FoldSome
<1>8. CASE UNCHANGED workVars
  BY <1>2, <1>3, <1>8 DEF workVars
<1> QED
  BY <1>2, <1>4, <1>6, <1>7, <1>8 DEF WorkNext, LoadOn, WorkDone

\* No Innie of an accepted schedule comes to ask for one that is not in it,
\* for any schedule and whatever its workday reads (loader.py:60-71).  What is
\* supposed of the parameter RunToAsk is that it is run_block.
THEOREM OnlyKnownAsked ==
    ASSUME \A I : Closed(I) => RunsBlocks(I)
    PROVE  WorkSpec => []AsksOnlyKnown
<1>1. WorkInv => AsksOnlyKnown
  <2> SUFFICES ASSUME WorkInv, NextAsk(day).for # "nothing"
               PROVE  \A k \in DOMAIN NextAsk(day).ids : NextAsk(day).ids[k] \in Known
    BY DEF AsksOnlyKnown
  <2>1. at # 0
    BY DEF WorkInv, Begin, NextAsk, NoAsk
  <2>2. PICK I : Closed(I) /\ RefersTo(I, Known) /\ InProgress(I, day)
    BY <2>1 DEF WorkInv
  <2>3. NextAsk(day).ids \in Seq(Known)
    BY <2>2, AsksItsLists DEF RefersTo
  <2> QED
    BY <2>3, ElementOfSeq, LenProperties
<1>2. WorkInv /\ [WorkNext]_workVars => WorkInv'
  BY WorkKeeps
<1> QED
  BY <1>1, <1>2, WorkBegins, PTL DEF WorkSpec
=============================================================================
