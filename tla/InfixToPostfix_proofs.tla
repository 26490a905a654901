----------------------- MODULE InfixToPostfix_proofs -----------------------
(***************************************************************************)
(* Proofs about InfixToPostfix, for formulas of any length over any        *)
(* tokens.                                                                 *)
(***************************************************************************)
EXTENDS InfixToPostfix, FiniteSetTheorems, SequenceTheorems, WellFoundedInduction, TLAPS

Parens == {"(", ")"}
Positions == 1..Len(formula)

TypeInv ==
  /\ formula \in Seq(STRING)
  /\ pos \in 0..(Len(formula) + 1)
  /\ output \in Seq(Positions)
  /\ stack \in Seq(Positions)
  /\ pos = 0 => output = <<>> /\ stack = <<>>

\* The stack has operators and "(" that were read, in the order of the formula;
\* the output has operands and operators that were read, each once, and at the
\* end what is left of the "("; and every operand and operator that was read is
\* in one of the two.
PlaceInv ==
  /\ \A n \in 1..Len(stack) :
       stack[n] < pos /\ formula[stack[n]] \in Operators \cup {"("}
  /\ \A m, n \in 1..Len(stack) : m < n => stack[m] < stack[n]
  /\ \A n \in 1..Len(output) : output[n] < pos /\ formula[output[n]] # ")"
  /\ \A m, n \in 1..Len(output) : m # n => output[m] # output[n]
  /\ \A m \in 1..Len(output), n \in 1..Len(stack) : output[m] # stack[n]
  /\ \A k \in 1..(pos - 1) : formula[k] \notin Parens =>
       \/ \E n \in 1..Len(output) : output[n] = k
       \/ \E n \in 1..Len(stack) : stack[n] = k

\* The parentheses open at a position are those on the stack: an entry lies as
\* deep as what follows the entry below it.
After(n) == IF n = 0 THEN 0 ELSE Depth(stack[n] + 1)

DepthInv ==
  pos > 0 =>
    /\ \A k \in 1..pos : Depth(k) >= 0
    /\ \A n \in 1..Len(stack) : Depth(stack[n]) = After(n - 1)
    /\ \A m, n \in 1..Len(stack) : m < n => Depth(stack[m] + 1) <= Depth(stack[n])
    /\ pos <= Len(formula) => Depth(pos) = After(Len(stack))

\* What was read behind an entry of the stack lies no less deep than its next
\* token; and a "(" that nothing has closed is on the stack, or in the output
\* once it can no longer be closed.
Unclosed(k, upto) == \A i \in (k + 1)..upto : Depth(i) > Depth(k)

PartInv ==
  pos > 0 =>
    /\ \A n \in 1..Len(stack) : \A i \in (stack[n] + 1)..pos : Depth(i) >= Depth(stack[n] + 1)
    /\ \A n \in 1..Len(output) :
         formula[output[n]] = "(" => pos > Len(formula) /\ Unclosed(output[n], pos)
    /\ \A k \in 1..(pos - 1) : formula[k] = "(" /\ Unclosed(k, pos) =>
         \/ \E n \in 1..Len(output) : output[n] = k
         \/ \E n \in 1..Len(stack) : stack[n] = k

\* The operator at j keeps what is read up to k: as InRightOperand, by the
\* converter's own precedences.
Stays(j, k) ==
  \A i \in (j + 1)..k :
    /\ Depth(i) >= Depth(j)
    /\ formula[i] \in Binary /\ Depth(i) = Depth(j)
         => Precedence(formula[i]) > Precedence(formula[j])

\* An operator on the stack keeps all that was read behind it, one in the output
\* nothing that is still to be read or waits on the stack.
StackInv == \A n \in 1..Len(stack) : formula[stack[n]] \in Binary => Stays(stack[n], pos - 1)

ClosedInv ==
  \A n \in 1..Len(output) : formula[output[n]] \in Binary =>
    /\ \A k \in pos..Len(formula) : formula[k] \notin Parens => ~Stays(output[n], k)
    /\ \A m \in 1..Len(stack) :
         formula[stack[m]] # "(" /\ output[n] < stack[m] => ~Stays(output[n], stack[m])

OrderInv ==
  \A m, n \in 1..Len(output) : 
    m < n /\ formula[output[m]] # "(" /\ formula[output[n]] # "(" =>
    /\ output[m] < output[n] /\ formula[output[m]] \in Binary => ~Stays(output[m], output[n])
    /\ output[n] < output[m] => /\ formula[output[n]] \in Operators
                                /\ formula[output[n]] \in Binary => Stays(output[n], output[m])

ResultInv ==
  /\ result = "ok" => pos = Len(formula) + 1 /\ stack = <<>>
  /\ RefusedOnlyIfStrange

IInv ==
  /\ TypeInv
  /\ PlaceInv
  /\ DepthInv
  /\ PartInv
  /\ StackInv
  /\ ClosedInv
  /\ OrderInv
  /\ ResultInv

-----------------------------------------------------------------------------
(* Depths, precedences and sequences.                                      *)

LEMMA CountStep ==
  ASSUME NEW T, NEW k \in Nat
  PROVE  /\ Count(T, 0) = 0
         /\ Count(T, k) \in Nat
         /\ Count(T, k + 1) = Count(T, k) + (IF formula[k + 1] \in T THEN 1 ELSE 0)
<1> DEFINE C(n) == {j \in 1..n : formula[j] \in T}
<1>1. IsFiniteSet(C(k))
  <2>1. IsFiniteSet(1..k)
    BY FS_Interval
  <2> QED
    BY <2>1, FS_Subset
<1>2. C(0) = {} /\ Cardinality({}) = 0
  BY FS_EmptySet
<1>3. C(k + 1) = IF formula[k + 1] \in T THEN C(k) \cup {k + 1} ELSE C(k)
  OBVIOUS
<1>4. k + 1 \notin C(k)
  OBVIOUS
<1>5. Cardinality(C(k) \cup {k + 1}) = Cardinality(C(k)) + 1
  BY <1>1, <1>4, FS_AddElement
<1>6. Cardinality(C(k)) \in Nat
  BY <1>1, FS_CardinalityType
<1>7. Cardinality(C(k + 1)) = Cardinality(C(k)) + (IF formula[k + 1] \in T THEN 1 ELSE 0)
  BY <1>3, <1>5, <1>6
<1> QED
  BY <1>2, <1>6, <1>7 DEF Count

LEMMA DepthStep ==
  ASSUME NEW k \in Nat \ {0}
  PROVE  /\ Depth(1) = 0
         /\ Depth(k) \in Int
         /\ Depth(k + 1) = Depth(k) + (IF formula[k] = "(" THEN 1
                                       ELSE IF formula[k] = ")" THEN -1 ELSE 0)
<1>1. k - 1 \in Nat /\ (k - 1) + 1 = k /\ (k + 1) - 1 = k /\ 1 - 1 = 0
  OBVIOUS
<1> DEFINE o(n) == Count({"("}, n)
           c(n) == Count({")"}, n)
<1>2. /\ o(0) = 0 /\ o(k - 1) \in Nat
      /\ o(k) = o(k - 1) + (IF formula[k] = "(" THEN 1 ELSE 0)
  BY <1>1, CountStep
<1>3. /\ c(0) = 0 /\ c(k - 1) \in Nat
      /\ c(k) = c(k - 1) + (IF formula[k] = ")" THEN 1 ELSE 0)
  BY <1>1, CountStep
<1>4. Depth(1) = o(0) - c(0) /\ Depth(k) = o(k - 1) - c(k - 1) /\ Depth(k + 1) = o(k) - c(k)
  BY <1>1 DEF Depth
<1> HIDE DEF o, c
<1> QED
  BY <1>2, <1>3, <1>4

LEMMA EarlierEnd ==
  ASSUME NEW a \in Nat, NEW b \in Nat, NEW c \in Nat, b < c
  PROVE  (a + 1)..b \subseteq (a + 1)..(c - 1)
OBVIOUS

LEMMA PrecedenceType == ASSUME NEW op \in Binary PROVE Precedence(op) \in Int
BY DEF Binary, Precedence

LEMMA OperatorFacts ==
  /\ "(" \notin Operators /\ ")" \notin Operators /\ "x" \notin Operators
  /\ Binary \cap Unlisted = {} /\ Operators = Binary \cup Unlisted
BY DEF Operators, Binary, Unlisted

LEMMA DropProperties ==
  ASSUME NEW S, NEW s \in Seq(S), s # <<>>
  PROVE  /\ SubSeq(s, 1, Len(s) - 1) \in Seq(S)
         /\ Len(SubSeq(s, 1, Len(s) - 1)) = Len(s) - 1
         /\ \A i \in 1..(Len(s) - 1) : SubSeq(s, 1, Len(s) - 1)[i] = s[i]
<1>1. Len(s) \in Nat \ {0} /\ \A i \in 1..Len(s) : s[i] \in S
  OBVIOUS
<1> DEFINE n == Len(s) - 1
<1>2. n \in Nat /\ \A i \in 1..n : s[i] \in S
  BY <1>1
<1> HIDE DEF n
<1>3. /\ SubSeq(s, 1, n) \in Seq(S)
      /\ Len(SubSeq(s, 1, n)) = IF 1 <= n THEN n - 1 + 1 ELSE 0
      /\ \A i \in 1..(n - 1 + 1) : SubSeq(s, 1, n)[i] = s[1 + i - 1]
  BY <1>2, SubSeqProperties
<1>4. Len(SubSeq(s, 1, n)) = n /\ \A i \in 1..n : SubSeq(s, 1, n)[i] = s[i]
  BY <1>2, <1>3
<1> QED
  BY <1>3, <1>4 DEF n

LEMMA SetsStay == Operators' = Operators /\ Binary' = Binary /\ Parens' = Parens
BY DEF Operators, Unlisted, Binary, Parens

LEMMA Frame ==
  ASSUME formula' = formula
  PROVE  /\ \A k : Depth(k)' = Depth(k)
         /\ \A j, k : Stays(j, k)' = Stays(j, k)
         /\ \A j, k : Unclosed(j, k)' = Unclosed(j, k)
<1>1. \A k : Depth(k)' = Depth(k)
  BY DEF Depth, Count
<1>2. \A j, k : Stays(j, k)' = Stays(j, k)
  BY <1>1 DEF Stays
<1>3. \A j, k : Unclosed(j, k)' = Unclosed(j, k)
  BY <1>1 DEF Unclosed
<1> QED
  BY <1>1, <1>2, <1>3

\* What follows an entry of the stack lies no deeper than the token the loop is at.
LEMMA StackDepth ==
  ASSUME TypeInv, PlaceInv, DepthInv, pos > 0, pos <= Len(formula), NEW n \in 1..Len(stack)
  PROVE  /\ stack[n] \in Positions /\ Depth(stack[n]) \in Int /\ Depth(pos) \in Int
         /\ Depth(stack[n] + 1) = Depth(stack[n]) + (IF formula[stack[n]] = "(" THEN 1 ELSE 0)
         /\ Depth(stack[n] + 1) <= Depth(pos)
         /\ n < Len(stack) /\ formula[stack[Len(stack)]] = "(" => Depth(stack[n] + 1) < Depth(pos)
<1>1. /\ Len(stack) \in Nat \ {0} /\ pos \in Nat \ {0}
      /\ \A m \in 1..Len(stack) : stack[m] \in Positions
      /\ \A m \in 1..Len(stack) : stack[m] \in Nat \ {0}
  BY SMTT(30) DEF TypeInv, Positions
<1>2. \A m \in 1..Len(stack) :
        /\ Depth(stack[m]) \in Int
        /\ Depth(stack[m] + 1) = Depth(stack[m]) + (IF formula[stack[m]] = "(" THEN 1 ELSE 0)
  <2> TAKE m \in 1..Len(stack)
  <2>1. formula[stack[m]] # ")"
    BY OperatorFacts DEF PlaceInv
  <2> QED
    BY <1>1, <2>1, DepthStep
<1>3. Depth(pos) \in Int
  BY <1>1, DepthStep
<1>4. Depth(pos) = Depth(stack[Len(stack)] + 1)
  BY <1>1 DEF DepthInv, After
<1>5. n < Len(stack) => Depth(stack[n] + 1) <= Depth(stack[Len(stack)])
  BY <1>1 DEF DepthInv
<1> QED
  BY <1>1, <1>2, <1>3, <1>4, <1>5

-----------------------------------------------------------------------------
(* Steps that read a token.                                                *)

LEMMA ReadingFacts ==
  ASSUME IInv, Running
  PROVE  /\ Len(formula) \in Nat /\ pos \in Positions /\ pos \in Nat \ {0} /\ pos <= Len(formula)
         /\ Depth(pos) \in Int /\ Depth(pos) >= 0
         /\ Depth(pos + 1) = Depth(pos) + (IF Token = "(" THEN 1 ELSE IF Token = ")" THEN -1 ELSE 0)
         /\ Len(stack) \in Nat /\ \A n \in 1..Len(stack) : stack[n] \in Positions
         /\ Len(output) \in Nat /\ \A n \in 1..Len(output) : output[n] \in Positions
         /\ \A n \in 1..Len(output) : formula[output[n]] \notin Parens
<1>1. /\ Len(formula) \in Nat /\ pos \in Positions /\ pos \in Nat \ {0} /\ pos <= Len(formula)
      /\ Len(stack) \in Nat /\ \A n \in 1..Len(stack) : stack[n] \in Positions
      /\ Len(output) \in Nat /\ \A n \in 1..Len(output) : output[n] \in Positions
  BY DEF IInv, TypeInv, Running, Positions
<1>2. Depth(pos) >= 0
  BY <1>1 DEF IInv, DepthInv
<1>3. \A n \in 1..Len(output) : formula[output[n]] \notin Parens
  BY <1>1 DEF IInv, PlaceInv, PartInv, Parens
<1> QED
  BY <1>1, <1>2, <1>3, DepthStep DEF Token

\* An operator on the stack keeps the token that is read, unless that one is an
\* operator that the top of the stack does not keep.
LEMMA StillStays ==
  ASSUME IInv, Running, NEW n \in 1..Len(stack), formula[stack[n]] \in Binary,
         Token \in Binary /\ ~Blocked => ~Unranked /\ ~Pops(Top, Token)
  PROVE  Stays(stack[n], pos)
<1> DEFINE s == stack[n]
           t == stack[Len(stack)]
<1>1. /\ pos \in Nat \ {0} /\ Len(stack) \in Nat \ {0} /\ Len(stack) \in 1..Len(stack)
      /\ s \in Nat \ {0} /\ t \in Nat \ {0} /\ s < pos /\ t < pos
      /\ Len(formula) \in Nat /\ pos <= Len(formula)
  <2>1. /\ pos \in Nat \ {0} /\ Len(stack) \in Nat /\ Len(formula) \in Nat /\ pos <= Len(formula)
        /\ \A m \in 1..Len(stack) : stack[m] \in Positions
    BY ReadingFacts
  <2>2. \A m \in 1..Len(stack) : stack[m] < pos
    BY DEF IInv, PlaceInv
  <2> QED
    BY <2>1, <2>2 DEF Positions
<1>2. /\ Depth(s) \in Int /\ Depth(pos) \in Int
      /\ Depth(s + 1) = Depth(s) /\ Depth(s + 1) <= Depth(pos)
      /\ n < Len(stack) /\ formula[t] = "(" => Depth(s + 1) < Depth(pos)
  <2>1. formula[s] # "("
    BY OperatorFacts
  <2> QED
    BY <1>1, <2>1, StackDepth DEF IInv
<1>3. Stays(s, pos - 1)
  BY DEF IInv, StackInv
<1>4. ASSUME Token \in Binary, Depth(pos) = Depth(s)
      PROVE  Precedence(Token) > Precedence(formula[s])
  <2>1. formula[t] # "("
    <3>1. CASE n < Len(stack)
      BY <1>2, <1>4, <3>1
    <3>2. CASE n = Len(stack)
      BY <3>2, OperatorFacts
    <3> QED
      BY <1>1, <3>1, <3>2
  <2>2. ~Unranked /\ ~Pops(Top, Token)
    BY <1>4, <2>1, <1>1 DEF Blocked, Top
  <2>3. formula[t] \in Binary
    BY <2>1, <2>2, <1>1, OperatorFacts DEF IInv, PlaceInv, Unranked, Top
  <2>4. Precedence(Token) \in Int /\ Precedence(formula[t]) \in Int
        /\ Precedence(formula[s]) \in Int
    BY <1>4, <2>3, PrecedenceType
  <2>5. Precedence(formula[t]) < Precedence(Token)
    BY <2>2, <2>4 DEF Pops, Top
  <2>6. CASE n = Len(stack)
    BY <2>5, <2>6
  <2>7. CASE n < Len(stack)
    <3>1. s < t
      BY <1>1, <2>7 DEF IInv, PlaceInv
    <3>2. /\ Depth(t) \in Int /\ Depth(t + 1) = Depth(t) /\ Depth(t + 1) <= Depth(pos)
      BY SMTT(30), <1>1, <2>1, StackDepth DEF IInv
    <3>3. Depth(s + 1) <= Depth(t)
      BY <1>1, <2>7 DEF IInv, DepthInv
    <3>4. Depth(t) = Depth(s)
      BY <1>2, <1>4, <3>2, <3>3
    <3>5. t \in (s + 1)..(pos - 1)
      BY <1>1, <3>1
    <3>6. Precedence(formula[t]) > Precedence(formula[s])
      BY <1>3, <2>3, <3>4, <3>5 DEF Stays
    <3> QED
      BY <2>4, <2>5, <3>6
  <2> QED
    BY <1>1, <2>6, <2>7
<1>5. ASSUME NEW i \in (s + 1)..pos
      PROVE  /\ Depth(i) >= Depth(s)
             /\ formula[i] \in Binary /\ Depth(i) = Depth(s)
                  => Precedence(formula[i]) > Precedence(formula[s])
  <2>1. CASE i = pos
    BY <1>2, <1>4, <2>1 DEF Token
  <2>2. CASE i \in (s + 1)..(pos - 1)
    BY <1>3, <2>2 DEF Stays
  <2> QED
    BY <1>1, <2>1, <2>2
<1> QED
  BY <1>5 DEF Stays

\* The token that is read lies no less deep than what follows an entry of the
\* stack, and so, unless it closes a parenthesis, does the next.
LEMMA StillDeep ==
  ASSUME IInv, Running, NEW n \in 1..Len(stack),
         Depth(pos + 1) >= Depth(stack[n] + 1), NEW i \in (stack[n] + 1)..(pos + 1)
  PROVE  Depth(i) >= Depth(stack[n] + 1)
<1>1. pos \in Nat \ {0} /\ stack[n] \in Nat
  BY ReadingFacts DEF Positions
<1>2. i = pos + 1 \/ i \in (stack[n] + 1)..pos
  BY <1>1
<1> QED
  BY <1>1, <1>2 DEF IInv, PartInv

\* What was closed stays closed.
LEMMA StillClosed ==
  ASSUME NEW k \in Nat, NEW p \in Nat, Unclosed(k, p + 1)
  PROVE  Unclosed(k, p)
<1>1. (k + 1)..p \subseteq (k + 1)..(p + 1)
  OBVIOUS
<1> QED
  BY <1>1 DEF Unclosed

LEMMA OperandIInv == ASSUME IInv, Operand PROVE IInv'
<1> DEFINE out == output'
           last == Len(output) + 1
<1>1. /\ Running /\ Token = "x" /\ formula' = formula /\ stack' = stack /\ result' = "run"
      /\ pos' = pos + 1 /\ Positions' = Positions
  BY DEF Operand, Running, Positions
<1>2. /\ out \in Seq(Positions) /\ Len(out) = last /\ Len(out) \in Nat /\ last \in 1..last
      /\ \A n \in 1..Len(output) : out[n] = output[n]
      /\ out[last] = pos
  <2>1. output \in Seq(Positions) /\ pos \in Positions
    BY <1>1, ReadingFacts DEF IInv, TypeInv
  <2>2. out = Append(output, pos)
    BY DEF Operand
  <2> HIDE DEF out
  <2> QED
    BY <2>1, <2>2, AppendProperties
<1> HIDE DEF out
<1>3. /\ Len(formula) \in Nat /\ pos \in Positions /\ pos \in Nat \ {0} /\ pos <= Len(formula)
      /\ Depth(pos) \in Int /\ Depth(pos) >= 0 /\ Depth(pos + 1) = Depth(pos)
      /\ Len(stack) \in Nat /\ \A n \in 1..Len(stack) : stack[n] \in Nat
      /\ Len(output) \in Nat /\ \A n \in 1..Len(output) : output[n] \in Nat
  BY <1>1, ReadingFacts DEF Positions
<1>4. Token \notin Parens /\ Token \notin Binary /\ Token \notin Operators
  BY <1>1 DEF Parens, Binary, Unlisted, Operators
<1>5. \A n \in 1..Len(out) : n = last \/ n \in 1..Len(output)
  BY <1>2, <1>3
<1>6. /\ \A k : Depth(k)' = Depth(k)
      /\ \A j, k : Stays(j, k)' = Stays(j, k)
      /\ \A j, k : Unclosed(j, k)' = Unclosed(j, k)
  BY <1>1, Frame
<1>7. TypeInv'
  BY <1>1, <1>2, <1>3 DEF IInv, TypeInv, out
<1>8. PlaceInv'
  <2>1. \A n \in 1..Len(stack) : stack[n] < pos + 1 /\ formula[stack[n]] \in Operators \cup {"("}
    BY <1>3 DEF IInv, PlaceInv
  <2>2. \A m, n \in 1..Len(stack) : m < n => stack[m] < stack[n]
    BY DEF IInv, PlaceInv
  <2>3. ASSUME NEW n \in 1..Len(out) PROVE out[n] < pos + 1 /\ formula[out[n]] # ")"
    <3>1. CASE n = last
      BY <1>1, <1>2, <1>3, <3>1 DEF Token
    <3>2. CASE n \in 1..Len(output)
      BY <1>2, <1>3, <3>2 DEF IInv, PlaceInv
    <3> QED
      BY <1>5, <3>1, <3>2
  <2>4. \A m, n \in 1..Len(out) : m # n => out[m] # out[n]
    BY <1>2, <1>3, <1>5 DEF IInv, PlaceInv
  <2>5. \A m \in 1..Len(out), n \in 1..Len(stack) : out[m] # stack[n]
    BY <1>2, <1>3, <1>5 DEF IInv, PlaceInv
  <2>6. \A k \in 1..pos : formula[k] \notin Parens =>
          \/ \E n \in 1..Len(out) : out[n] = k
          \/ \E n \in 1..Len(stack) : stack[n] = k
    <3> TAKE k \in 1..pos
    <3>1. k = pos \/ k \in 1..(pos - 1)
      BY <1>3
    <3>2. 1..Len(output) \subseteq 1..Len(out)
      BY <1>2, <1>3
    <3> QED
      BY <1>2, <3>1, <3>2 DEF IInv, PlaceInv
  <2>7. (pos + 1) - 1 = pos
    BY <1>3
  <2> QED
    BY <1>1, <2>1, <2>2, <2>3, <2>4, <2>5, <2>6, <2>7, SetsStay DEF PlaceInv, out
<1>9. DepthInv'
  <2>1. \A k \in 1..(pos + 1) : Depth(k) >= 0
    <3>1. \A k \in 1..(pos + 1) : k = pos + 1 \/ k \in 1..pos
      BY <1>3
    <3> QED
      BY <1>3, <3>1 DEF IInv, DepthInv
  <2> QED
    BY <1>1, <1>3, <1>6, <2>1 DEF IInv, DepthInv, After
<1>10. StackInv'
  <2>1. \A n \in 1..Len(stack) : formula[stack[n]] \in Binary => Stays(stack[n], pos)
    BY <1>1, <1>4, StillStays
  <2>2. (pos + 1) - 1 = pos
    BY <1>3
  <2> QED
    BY <1>1, <1>6, <2>1, <2>2 DEF StackInv, Binary
<1>11. ClosedInv'
  <2>1. \A n \in 1..Len(out) : formula[out[n]] \in Binary => n \in 1..Len(output) /\ out[n] = output[n]
    BY <1>2, <1>4, <1>5 DEF Token
  <2>2. (pos + 1)..Len(formula) \subseteq pos..Len(formula)
    BY <1>3
  <2> QED
    BY <1>1, <1>6, <2>1, <2>2 DEF IInv, ClosedInv, Parens, Binary, out
<1>12. OrderInv'
  <2> SUFFICES ASSUME NEW m \in 1..Len(out), NEW n \in 1..Len(out), m < n,
                      formula[out[m]] # "(", formula[out[n]] # "("
               PROVE  /\ out[m] < out[n] /\ formula[out[m]] \in Binary => ~Stays(out[m], out[n])
                      /\ out[n] < out[m] => /\ formula[out[n]] \in Operators
                                            /\ formula[out[n]] \in Binary => Stays(out[n], out[m])
    BY <1>1, <1>6, SetsStay DEF OrderInv, out
  <2>1. m \in 1..Len(output) /\ out[m] = output[m] /\ output[m] < pos /\ output[m] \in Nat
    BY <1>2, <1>3, <1>5 DEF IInv, PlaceInv
  <2>2. CASE n = last
    <3>1. pos \in pos..Len(formula)
      BY <1>3
    <3>2. formula[output[m]] \in Binary => ~Stays(output[m], pos)
      BY <1>4, <2>1, <3>1 DEF IInv, ClosedInv, Token
    <3> QED
      BY <1>2, <1>3, <2>1, <2>2, <3>2
  <2>3. CASE n \in 1..Len(output)
    BY <1>2, <2>1, <2>3 DEF IInv, OrderInv
  <2> QED
    BY <1>5, <2>2, <2>3
<1>13. PartInv'
  <2>1. \A n \in 1..Len(stack) : \A i \in (stack[n] + 1)..(pos + 1) : Depth(i) >= Depth(stack[n] + 1)
    BY <1>1, <1>3, StackDepth, StillDeep DEF IInv
  <2>2. \A n \in 1..Len(out) : formula[out[n]] # "("
    BY <1>1, <1>2, <1>4, <1>5, ReadingFacts DEF Token, Parens
  <2>3. ASSUME NEW k \in 1..pos, formula[k] = "(", Unclosed(k, pos + 1)
        PROVE  \/ \E n \in 1..Len(out) : out[n] = k
               \/ \E n \in 1..Len(stack) : stack[n] = k
    <3>1. k \in 1..(pos - 1) /\ k \in Nat
      BY <1>1, <1>3, <2>3 DEF Token
    <3>2. Unclosed(k, pos)
      BY <1>3, <2>3, <3>1, StillClosed
    <3>3. 1..Len(output) \subseteq 1..Len(out)
      BY <1>2, <1>3
    <3> QED
      BY SMTT(30), <1>2, <1>3, <2>3, <3>1, <3>2, <3>3 DEF IInv, PartInv
  <2>4. (pos + 1) - 1 = pos
    BY <1>3
  <2> QED
    BY <1>1, <1>6, <2>1, <2>2, <2>3, <2>4 DEF PartInv, out
<1>14. ResultInv'
  BY <1>1 DEF ResultInv, RefusedOnlyIfStrange
<1> QED
  BY <1>7, <1>8, <1>9, <1>10, <1>11, <1>12, <1>13, <1>14 DEF IInv

\* "(" and the operators are pushed.
LEMMA PushIInv ==
  ASSUME IInv, Running, Push, formula' = formula, output' = output, result' = result,
         pos' = pos + 1, Token \in Operators \cup {"("},
         Token \in Binary /\ ~Blocked => ~Unranked /\ ~Pops(Top, Token)
  PROVE  IInv'
<1> DEFINE stk == stack'
           last == Len(stack) + 1
<1>1. result = "run" /\ Positions' = Positions /\ Token = formula[pos]
  BY DEF Running, Positions, Token
<1>2. /\ stk \in Seq(Positions) /\ Len(stk) = last /\ Len(stk) \in Nat /\ last \in 1..last
      /\ \A n \in 1..Len(stack) : stk[n] = stack[n]
      /\ stk[last] = pos
  <2>1. stack \in Seq(Positions) /\ pos \in Positions
    BY ReadingFacts DEF IInv, TypeInv
  <2>2. stk = Append(stack, pos)
    BY DEF Push
  <2> HIDE DEF stk
  <2> QED
    BY <2>1, <2>2, AppendProperties
<1> HIDE DEF stk
<1>3. /\ Len(formula) \in Nat /\ pos \in Positions /\ pos \in Nat \ {0} /\ pos <= Len(formula)
      /\ Depth(pos) \in Int /\ Depth(pos) >= 0
      /\ Depth(pos + 1) = Depth(pos) + (IF Token = "(" THEN 1 ELSE 0)
      /\ Len(stack) \in Nat /\ \A n \in 1..Len(stack) : stack[n] \in Nat /\ stack[n] < pos
      /\ Len(output) \in Nat /\ \A n \in 1..Len(output) : output[n] \in Nat /\ output[n] < pos
  BY ReadingFacts, OperatorFacts DEF Positions, IInv, PlaceInv
<1>4. \A n \in 1..Len(stk) : n = last \/ n \in 1..Len(stack)
  BY <1>2, <1>3
<1>5. /\ \A k : Depth(k)' = Depth(k)
      /\ \A j, k : Stays(j, k)' = Stays(j, k)
      /\ \A j, k : Unclosed(j, k)' = Unclosed(j, k)
  BY Frame
<1>6. (pos + 1) - 1 = pos /\ last - 1 = Len(stack)
  BY <1>3
<1>7. TypeInv'
  BY <1>1, <1>2, <1>3 DEF IInv, TypeInv, stk
<1>8. PlaceInv'
  <2>1. \A n \in 1..Len(stk) : stk[n] < pos + 1 /\ formula[stk[n]] \in Operators \cup {"("}
    <3> TAKE n \in 1..Len(stk)
    <3>1. CASE n = last
      BY <1>1, <1>2, <1>3, <3>1
    <3>2. CASE n \in 1..Len(stack)
      BY <1>2, <1>3, <3>2 DEF IInv, PlaceInv
    <3> QED
      BY <1>4, <3>1, <3>2
  <2>2. \A m, n \in 1..Len(stk) : m < n => stk[m] < stk[n]
    <3> SUFFICES ASSUME NEW m \in 1..Len(stk), NEW n \in 1..Len(stk), m < n
                 PROVE  stk[m] < stk[n]
      OBVIOUS
    <3>1. m \in 1..Len(stack) /\ stk[m] = stack[m]
      BY <1>2, <1>3, <1>4
    <3>2. CASE n = last
      BY <1>2, <1>3, <3>1, <3>2
    <3>3. CASE n \in 1..Len(stack)
      BY <1>2, <3>1, <3>3 DEF IInv, PlaceInv
    <3> QED
      BY <1>4, <3>2, <3>3
  <2>3. \A n \in 1..Len(output) : output[n] < pos + 1 /\ formula[output[n]] # ")"
    BY <1>3 DEF IInv, PlaceInv
  <2>4. \A m, n \in 1..Len(output) : m # n => output[m] # output[n]
    BY DEF IInv, PlaceInv
  <2>5. \A m \in 1..Len(output), n \in 1..Len(stk) : output[m] # stk[n]
    BY SMTT(30), <1>2, <1>3, <1>4 DEF IInv, PlaceInv
  <2>6. \A k \in 1..pos : formula[k] \notin Parens =>
          \/ \E n \in 1..Len(output) : output[n] = k
          \/ \E n \in 1..Len(stk) : stk[n] = k
    <3> TAKE k \in 1..pos
    <3>1. k = pos \/ k \in 1..(pos - 1)
      BY <1>3
    <3>2. 1..Len(stack) \subseteq 1..Len(stk)
      BY <1>2, <1>3
    <3> QED
      BY <1>2, <3>1, <3>2 DEF IInv, PlaceInv
  <2> QED
    BY <1>6, <2>1, <2>2, <2>3, <2>4, <2>5, <2>6, SetsStay DEF PlaceInv, stk
<1>9. DepthInv'
  <2> DEFINE A(n) == IF n = 0 THEN 0 ELSE Depth(stk[n] + 1)
  <2>1. \A k \in 1..(pos + 1) : Depth(k) >= 0
    <3>1. \A k \in 1..(pos + 1) : k = pos + 1 \/ k \in 1..pos
      BY <1>3
    <3> QED
      BY <1>3, <3>1 DEF IInv, DepthInv
  <2>2. \A n \in 0..Len(stack) : A(n) = After(n)
    BY <1>2, <1>3 DEF After
  <2>3. \A n \in 1..Len(stk) : Depth(stk[n]) = A(n - 1)
    <3> TAKE n \in 1..Len(stk)
    <3>1. CASE n = last
      BY <1>2, <1>3, <1>6, <2>2, <3>1 DEF IInv, DepthInv
    <3>2. CASE n \in 1..Len(stack)
      <4>1. n - 1 \in 0..Len(stack)
        BY <1>3, <3>2
      <4> QED
        BY SMTT(30), <1>2, <1>3, <2>2, <3>2, <4>1 DEF IInv, DepthInv
    <3> QED
      BY <1>4, <3>1, <3>2
  <2>4. \A m, n \in 1..Len(stk) : m < n => Depth(stk[m] + 1) <= Depth(stk[n])
    <3> SUFFICES ASSUME NEW m \in 1..Len(stk), NEW n \in 1..Len(stk), m < n
                 PROVE  Depth(stk[m] + 1) <= Depth(stk[n])
      OBVIOUS
    <3>1. m \in 1..Len(stack) /\ stk[m] = stack[m]
      BY <1>2, <1>3, <1>4
    <3>2. CASE n = last
      BY <1>2, <1>3, <3>1, <3>2, StackDepth DEF IInv
    <3>3. CASE n \in 1..Len(stack)
      BY <1>2, <1>3, <3>1, <3>3 DEF IInv, DepthInv
    <3> QED
      BY <1>4, <3>2, <3>3
  <2>5. Depth(pos + 1) = A(Len(stk))
    BY <1>2, <1>3
  <2> QED
    BY <1>5, <2>1, <2>3, <2>4, <2>5 DEF DepthInv, After, stk
<1>10. StackInv'
  <2>1. \A n \in 1..Len(stk) : formula[stk[n]] \in Binary => Stays(stk[n], pos)
    <3> SUFFICES ASSUME NEW n \in 1..Len(stk), formula[stk[n]] \in Binary
                 PROVE  Stays(stk[n], pos)
      OBVIOUS
    <3>1. CASE n = last
      BY <1>2, <1>3, <3>1 DEF Stays
    <3>2. CASE n \in 1..Len(stack)
      BY <1>2, <3>2, StillStays
    <3> QED
      BY <1>4, <3>1, <3>2
  <2> QED
    BY <1>5, <1>6, <2>1 DEF StackInv, Binary, stk
<1>11. ClosedInv'
  <2> SUFFICES ASSUME NEW n \in 1..Len(output), formula[output[n]] \in Binary
               PROVE  /\ \A k \in (pos + 1)..Len(formula) :
                           formula[k] \notin Parens => ~Stays(output[n], k)
                      /\ \A m \in 1..Len(stk) :
                           formula[stk[m]] # "(" /\ output[n] < stk[m] => ~Stays(output[n], stk[m])
    BY <1>5 DEF ClosedInv, Parens, Binary, stk
  <2>1. (pos + 1)..Len(formula) \subseteq pos..Len(formula) /\ pos \in pos..Len(formula)
    BY <1>3
  <2>2. \A k \in pos..Len(formula) : formula[k] \notin Parens => ~Stays(output[n], k)
    BY DEF IInv, ClosedInv
  <2>3. ASSUME NEW m \in 1..Len(stk), formula[stk[m]] # "(", output[n] < stk[m]
        PROVE  ~Stays(output[n], stk[m])
    <3>1. CASE m = last
      <4>1. formula[pos] \notin Parens
        BY <1>1, <1>2, <2>3, <3>1, OperatorFacts DEF Parens
      <4> QED
        BY <1>2, <2>1, <2>2, <3>1, <4>1
    <3>2. CASE m \in 1..Len(stack)
      BY <1>2, <2>3, <3>2 DEF IInv, ClosedInv
    <3> QED
      BY <1>4, <3>1, <3>2
  <2> QED
    BY <2>1, <2>2, <2>3
<1>12. OrderInv'
  <2>1. OrderInv
    BY DEF IInv
  <2>2. output' = output /\ formula' = formula
    OBVIOUS
  <2> QED
    BY <1>5, <2>1, <2>2, SetsStay DEF OrderInv
<1>13. PartInv'
  <2>1. ASSUME NEW n \in 1..Len(stk), NEW i \in (stk[n] + 1)..(pos + 1)
        PROVE  Depth(i) >= Depth(stk[n] + 1)
    <3>1. CASE n = last
      <4>1. i = pos + 1
        BY <1>2, <1>3, <3>1
      <4> QED
        BY <1>2, <1>3, <3>1, <4>1
    <3>2. CASE n \in 1..Len(stack)
      <4>1. stk[n] = stack[n] /\ i \in (stack[n] + 1)..(pos + 1)
        BY <1>2, <3>2
      <4>2. Depth(stack[n] + 1) <= Depth(pos) /\ Depth(stack[n] + 1) \in Int
        <5>1. /\ TypeInv /\ PlaceInv /\ DepthInv /\ pos > 0
              /\ stack[n] + 1 \in Nat \ {0}
          BY <1>3, <3>2 DEF IInv
        <5> QED
          BY <1>3, <3>2, <5>1, StackDepth, DepthStep
      <4>3. Depth(pos + 1) >= Depth(stack[n] + 1)
        BY <1>3, <4>2
      <4> QED
        BY <3>2, <4>1, <4>3, StillDeep
    <3> QED
      BY <1>4, <3>1, <3>2
  <2>2. \A n \in 1..Len(output) : formula[output[n]] # "("
    BY ReadingFacts DEF Parens
  <2>3. ASSUME NEW k \in 1..pos, formula[k] = "(", Unclosed(k, pos + 1)
        PROVE  \/ \E n \in 1..Len(output) : output[n] = k
               \/ \E n \in 1..Len(stk) : stk[n] = k
    <3>1. CASE k = pos
      BY <1>2, <3>1
    <3>2. CASE k \in 1..(pos - 1)
      <4>1. Unclosed(k, pos)
        BY <1>3, <2>3, StillClosed
      <4>2. 1..Len(stack) \subseteq 1..Len(stk)
        BY <1>2, <1>3
      <4> QED
        BY SMTT(30), <1>2, <1>3, <2>3, <3>2, <4>1, <4>2 DEF IInv, PartInv
    <3> QED
      BY <1>3, <3>1, <3>2
  <2> QED
    BY <1>5, <1>6, <2>1, <2>2, <2>3 DEF PartInv, stk
<1>14. ResultInv'
  BY <1>1 DEF ResultInv, RefusedOnlyIfStrange
<1> QED
  BY <1>7, <1>8, <1>9, <1>10, <1>11, <1>12, <1>13, <1>14 DEF IInv

LEMMA DropFacts ==
  ASSUME IInv, stack # <<>>, Drop
  PROVE  /\ stack' \in Seq(Positions)
         /\ Len(stack) \in Nat \ {0} /\ Len(stack') = Len(stack) - 1 /\ Len(stack') \in Nat
         /\ Len(stack) \in 1..Len(stack) /\ 1..Len(stack') \subseteq 1..Len(stack)
         /\ \A n \in 1..Len(stack') : stack'[n] = stack[n]
         /\ \A n \in 1..Len(stack) : n = Len(stack) \/ n \in 1..Len(stack')
         /\ \A n \in 1..Len(stack) : stack[n] \in Nat \ {0} /\ stack[n] \in Positions
<1> DEFINE stk == stack'
<1>1. /\ stack \in Seq(Positions) /\ Len(stack) \in Nat \ {0}
      /\ \A n \in 1..Len(stack) : stack[n] \in Positions
  BY DEF IInv, TypeInv
<1>2. stk = SubSeq(stack, 1, Len(stack) - 1)
  BY DEF Drop
<1> HIDE DEF stk
<1>3. /\ stk \in Seq(Positions) /\ Len(stk) = Len(stack) - 1
      /\ \A n \in 1..(Len(stack) - 1) : stk[n] = stack[n]
  BY <1>1, <1>2, DropProperties
<1>4. \A n \in 1..Len(stack) : stack[n] \in Nat \ {0}
  BY <1>1 DEF Positions
<1> QED
  BY <1>1, <1>3, <1>4 DEF stk

LEMMA CloseParenIInv == ASSUME IInv, CloseParen PROVE IInv'
<1> DEFINE stk == stack'
           last == Len(stack)
           t == stack[last]
<1>1. /\ Running /\ Token = ")" /\ formula' = formula /\ output' = output /\ result' = "run"
      /\ pos' = pos + 1 /\ Positions' = Positions /\ formula[pos] = ")"
      /\ stack # <<>> /\ formula[t] = "(" /\ Drop
  BY DEF CloseParen, Running, Positions, Token, Top
<1>2. /\ stk \in Seq(Positions)
      /\ last \in Nat \ {0} /\ Len(stk) = last - 1 /\ Len(stk) \in Nat
      /\ last \in 1..last /\ 1..Len(stk) \subseteq 1..last
      /\ \A n \in 1..Len(stk) : stk[n] = stack[n]
      /\ \A n \in 1..last : n = last \/ n \in 1..Len(stk)
      /\ t \in Nat \ {0}
  BY <1>1, DropFacts
<1> HIDE DEF stk
<1>3. /\ Len(formula) \in Nat /\ pos \in Nat \ {0} /\ pos <= Len(formula)
      /\ Depth(pos) \in Int /\ Depth(pos + 1) = Depth(pos) - 1
      /\ \A n \in 1..last : stack[n] \in Nat /\ stack[n] < pos
      /\ Len(output) \in Nat /\ \A n \in 1..Len(output) : output[n] \in Nat /\ output[n] < pos
  <2>1. /\ \A n \in 1..last : stack[n] < pos
        /\ \A n \in 1..Len(output) : output[n] < pos
    BY DEF IInv, PlaceInv
  <2>2. /\ Len(formula) \in Nat /\ pos \in Nat \ {0} /\ pos <= Len(formula)
        /\ Depth(pos) \in Int /\ Depth(pos + 1) = Depth(pos) - 1
    BY <1>1, ReadingFacts
  <2>3. /\ \A n \in 1..last : stack[n] \in Positions
        /\ Len(output) \in Nat /\ \A n \in 1..Len(output) : output[n] \in Positions
    BY <1>1, ReadingFacts
  <2>4. \A k \in Positions : k \in Nat
    BY DEF Positions
  <2> QED
    BY <2>1, <2>2, <2>3, <2>4
<1>4. /\ \A k : Depth(k)' = Depth(k)
      /\ \A j, k : Stays(j, k)' = Stays(j, k)
      /\ \A j, k : Unclosed(j, k)' = Unclosed(j, k)
  BY <1>1, Frame
<1>5. (pos + 1) - 1 = pos
  BY <1>3
<1>6. Depth(pos + 1) = Depth(t) /\ Depth(t) \in Int
  <2>1. Depth(pos) = Depth(t + 1)
    BY <1>2, <1>3 DEF IInv, DepthInv, After
  <2>2. Depth(t + 1) = Depth(t) + 1 /\ Depth(t) \in Int
    <3>1. TypeInv /\ PlaceInv /\ DepthInv /\ pos > 0
      BY <1>3 DEF IInv
    <3> QED
      BY <1>1, <1>2, <1>3, <3>1, StackDepth
  <2> QED
    BY <1>3, <2>1, <2>2
<1>7. TypeInv'
  BY <1>1, <1>2, <1>3 DEF IInv, TypeInv, stk
<1>8. PlaceInv'
  <2>1. \A n \in 1..Len(stk) : stk[n] < pos + 1 /\ formula[stk[n]] \in Operators \cup {"("}
    BY SMTT(30), <1>2, <1>3 DEF IInv, PlaceInv
  <2>2. \A m, n \in 1..Len(stk) : m < n => stk[m] < stk[n]
    BY <1>2, <1>3 DEF IInv, PlaceInv
  <2>3. \A n \in 1..Len(output) : output[n] < pos + 1 /\ formula[output[n]] # ")"
    BY <1>3 DEF IInv, PlaceInv
  <2>4. \A m, n \in 1..Len(output) : m # n => output[m] # output[n]
    BY DEF IInv, PlaceInv
  <2>5. \A m \in 1..Len(output), n \in 1..Len(stk) : output[m] # stk[n]
    BY <1>2, <1>3 DEF IInv, PlaceInv
  <2>6. \A k \in 1..pos : formula[k] \notin Parens =>
          \/ \E n \in 1..Len(output) : output[n] = k
          \/ \E n \in 1..Len(stk) : stk[n] = k
    <3> SUFFICES ASSUME NEW k \in 1..pos, formula[k] \notin Parens
                 PROVE  \/ \E n \in 1..Len(output) : output[n] = k
                        \/ \E n \in 1..Len(stk) : stk[n] = k
      OBVIOUS
    <3>1. k \in 1..(pos - 1) /\ k # t
      BY <1>1, <1>3 DEF Parens
    <3>2. \/ \E n \in 1..Len(output) : output[n] = k
          \/ \E n \in 1..last : stack[n] = k
      BY <3>1 DEF IInv, PlaceInv
    <3> QED
      BY <1>2, <3>1, <3>2
  <2> QED
    BY <1>1, <1>5, <2>1, <2>2, <2>3, <2>4, <2>5, <2>6, SetsStay DEF PlaceInv, stk
<1>9. DepthInv'
  <2> DEFINE A(n) == IF n = 0 THEN 0 ELSE Depth(stk[n] + 1)
  <2>1. \A n \in 0..Len(stk) : A(n) = After(n)
    BY <1>2, <1>3 DEF After
  <2>2. Depth(pos + 1) = A(Len(stk))
    <3>1. Depth(t) = After(last - 1)
      BY <1>2, <1>3 DEF IInv, DepthInv
    <3> QED
      BY <1>2, <1>6, <2>1, <3>1
  <2>3. \A k \in 1..(pos + 1) : Depth(k) >= 0
    <3>1. \A k \in 1..(pos + 1) : k = pos + 1 \/ k \in 1..pos
      BY <1>3
    <3>2. t \in 1..pos
      BY <1>2, <1>3
    <3> QED
      BY <1>3, <1>6, <3>1, <3>2 DEF IInv, DepthInv
  <2>4. \A n \in 1..Len(stk) : Depth(stk[n]) = A(n - 1)
    <3> TAKE n \in 1..Len(stk)
    <3>1. n - 1 \in 0..Len(stk)
      BY <1>2
    <3>2. Depth(stack[n]) = After(n - 1)
      BY <1>2, <1>3 DEF IInv, DepthInv
    <3>3. A(n - 1) = After(n - 1)
      BY <2>1, <3>1
    <3> HIDE DEF A
    <3> QED
      BY <1>2, <3>2, <3>3
  <2>5. \A m, n \in 1..Len(stk) : m < n => Depth(stk[m] + 1) <= Depth(stk[n])
    <3>1. \A m, n \in 1..last : m < n => Depth(stack[m] + 1) <= Depth(stack[n])
      BY <1>3 DEF IInv, DepthInv
    <3> HIDE DEF last
    <3> QED
      BY <1>2, <3>1
  <2> QED
    BY <1>1, <1>4, <2>2, <2>3, <2>4, <2>5 DEF DepthInv, After, stk
<1>10. StackInv'
  <2>1. \A n \in 1..Len(stk) : formula[stk[n]] \in Binary => Stays(stk[n], pos)
    <3>1. Token \notin Binary
      BY <1>1, OperatorFacts
    <3> QED
      BY <1>1, <1>2, <3>1, StillStays
  <2> QED
    BY <1>1, <1>4, <1>5, <2>1 DEF StackInv, Binary, stk
<1>11. ClosedInv'
  <2>1. (pos + 1)..Len(formula) \subseteq pos..Len(formula)
    BY <1>3
  <2>2. \A n \in 1..Len(output) : formula[output[n]] \in Binary =>
          /\ \A k \in (pos + 1)..Len(formula) : formula[k] \notin Parens => ~Stays(output[n], k)
          /\ \A m \in 1..Len(stk) :
               formula[stk[m]] # "(" /\ output[n] < stk[m] => ~Stays(output[n], stk[m])
    BY <1>2, <2>1 DEF IInv, ClosedInv
  <2> QED
    BY <1>1, <1>4, <2>2 DEF ClosedInv, Parens, Binary, stk
<1>12. OrderInv'
  <2>1. OrderInv
    BY DEF IInv
  <2>2. output' = output /\ formula' = formula
    BY <1>1
  <2> QED
    BY <1>4, <2>1, <2>2, SetsStay DEF OrderInv
<1>13. PartInv'
  <2>1. ASSUME NEW n \in 1..Len(stk), NEW i \in (stk[n] + 1)..(pos + 1)
        PROVE  Depth(i) >= Depth(stk[n] + 1)
    <3>1. Depth(stack[n] + 1) <= Depth(t)
      <4>1. n < last /\ n \in 1..last /\ stk[n] = stack[n]
        BY <1>2
      <4> QED
        BY <1>2, <1>3, <4>1 DEF IInv, DepthInv
    <3>2. Depth(pos + 1) >= Depth(stack[n] + 1)
      BY <1>6, <3>1
    <3> QED
      BY <1>1, <1>2, <2>1, <3>2, StillDeep
  <2>2. \A n \in 1..Len(output) : formula[output[n]] # "("
    BY <1>1, ReadingFacts DEF Parens
  <2>3. ASSUME NEW k \in 1..pos, formula[k] = "(", Unclosed(k, pos + 1)
        PROVE  \/ \E n \in 1..Len(output) : output[n] = k
               \/ \E n \in 1..Len(stk) : stk[n] = k
    <3>1. k \in 1..(pos - 1) /\ k \in Nat
      BY <1>1, <1>3, <2>3
    <3>2. k # t
      <4>1. pos + 1 \in (k + 1)..(pos + 1)
        BY <1>3, <3>1
      <4>2. Depth(pos + 1) > Depth(k)
        BY <2>3, <4>1 DEF Unclosed
      <4> QED
        BY <1>6, <4>2
    <3>3. Unclosed(k, pos)
      BY <1>3, <2>3, <3>1, StillClosed
    <3>4. \/ \E n \in 1..Len(output) : output[n] = k
          \/ \E n \in 1..last : stack[n] = k
      BY <1>3, <2>3, <3>1, <3>3 DEF IInv, PartInv
    <3> QED
      BY <1>2, <3>2, <3>4
  <2> QED
    BY <1>1, <1>4, <1>5, <2>1, <2>2, <2>3 DEF PartInv, stk
<1>14. ResultInv'
  BY <1>1 DEF ResultInv, RefusedOnlyIfStrange
<1> QED
  BY <1>7, <1>8, <1>9, <1>10, <1>11, <1>12, <1>13, <1>14 DEF IInv

-----------------------------------------------------------------------------
(* Steps that pop to the output.                                           *)

\* An operator may be popped when it keeps nothing that is still to be read.
LEMMA PopIInv ==
  ASSUME IInv, result = "run", pos > 0, stack # <<>>, Pop,
         Top = "(" => pos = Len(formula) + 1,
         NEW t, t = stack[Len(stack)],
         \A k \in pos..Len(formula) :
           formula[t] \in Binary /\ formula[k] \notin Parens => ~Stays(t, k)
  PROVE  IInv'
<1> DEFINE stk == stack'
           out == output'
           last == Len(stack)
           end == Len(output) + 1
<1>1. /\ formula' = formula /\ pos' = pos /\ result' = "run" /\ Positions' = Positions
      /\ (formula[t] = "(" => pos = Len(formula) + 1) /\ Drop
  BY DEF Pop, Positions, Top
<1>2. /\ stk \in Seq(Positions)
      /\ last \in Nat \ {0} /\ Len(stk) = last - 1 /\ Len(stk) \in Nat
      /\ last \in 1..last /\ 1..Len(stk) \subseteq 1..last
      /\ \A n \in 1..Len(stk) : stk[n] = stack[n]
      /\ \A n \in 1..last : n = last \/ n \in 1..Len(stk)
      /\ t \in Nat \ {0} /\ t \in Positions
      /\ \A n \in 1..last : stack[n] \in Nat
  BY <1>1, DropFacts
<1>3. /\ out \in Seq(Positions) /\ Len(out) = end /\ Len(out) \in Nat
      /\ Len(output) \in Nat
      /\ \A n \in 1..Len(output) : out[n] = output[n]
      /\ out[end] = t
      /\ \A n \in 1..Len(output) : output[n] \in Nat
  <2>1. output \in Seq(Positions) /\ t \in Positions
    BY <1>2 DEF IInv, TypeInv
  <2>2. out = Append(output, t)
    BY DEF Pop
  <2> HIDE DEF out
  <2>3. \A n \in 1..Len(output) : output[n] \in Positions
    BY <2>1
  <2>4. \A n \in 1..Len(output) : output[n] \in Nat
    BY <2>3 DEF Positions
  <2> QED
    BY <2>1, <2>2, <2>4, AppendProperties
<1> HIDE DEF stk, out
<1>4. end \in 1..Len(out) /\ 1..Len(output) \subseteq 1..Len(out)
      /\ \A n \in 1..Len(out) : n = end \/ n \in 1..Len(output)
  BY <1>3
<1>5. /\ Len(formula) \in Nat /\ pos \in Nat \ {0}
      /\ t < pos /\ formula[t] \in Operators \cup {"("} /\ formula[t] # ")"
  <2>1. formula[t] \in Operators \cup {"("} /\ t < pos
    BY <1>2 DEF IInv, PlaceInv
  <2> QED
    BY <2>1, OperatorFacts DEF IInv, TypeInv
<1>6. /\ \A k : Depth(k)' = Depth(k)
      /\ \A j, k : Stays(j, k)' = Stays(j, k)
      /\ \A j, k : Unclosed(j, k)' = Unclosed(j, k)
  BY <1>1, Frame
<1>7. TypeInv'
  BY <1>1, <1>2, <1>3, <1>5 DEF IInv, TypeInv, stk, out
<1>8. PlaceInv'
  <2>1. \A n \in 1..Len(stk) : stk[n] < pos /\ formula[stk[n]] \in Operators \cup {"("}
    BY <1>2 DEF IInv, PlaceInv
  <2>2. \A m, n \in 1..Len(stk) : m < n => stk[m] < stk[n]
    BY <1>2 DEF IInv, PlaceInv
  <2>3. \A n \in 1..Len(out) : out[n] < pos /\ formula[out[n]] # ")"
    BY SMTT(30), <1>3, <1>4, <1>5 DEF IInv, PlaceInv
  <2>4. \A n \in 1..Len(output) : output[n] # t
    BY <1>2 DEF IInv, PlaceInv
  <2>5. \A m, n \in 1..Len(out) : m # n => out[m] # out[n]
    BY <1>3, <1>4, <2>4 DEF IInv, PlaceInv
  <2>6. \A n \in 1..Len(stk) : t # stk[n]
    <3> TAKE n \in 1..Len(stk)
    <3>1. stack[n] < t
      BY <1>2 DEF IInv, PlaceInv
    <3> QED
      BY <1>2, <3>1
  <2>7. \A m \in 1..Len(out), n \in 1..Len(stk) : out[m] # stk[n]
    BY SMTT(30), <1>2, <1>3, <1>4, <2>6 DEF IInv, PlaceInv
  <2>8. \A k \in 1..(pos - 1) : formula[k] \notin Parens =>
          \/ \E n \in 1..Len(out) : out[n] = k
          \/ \E n \in 1..Len(stk) : stk[n] = k
    <3> SUFFICES ASSUME NEW k \in 1..(pos - 1), formula[k] \notin Parens
                 PROVE  \/ \E n \in 1..Len(out) : out[n] = k
                        \/ \E n \in 1..Len(stk) : stk[n] = k
      OBVIOUS
    <3>1. CASE \E n \in 1..Len(output) : output[n] = k
      BY <1>3, <1>4, <3>1
    <3>2. CASE \E n \in 1..last : stack[n] = k
      BY <1>2, <1>3, <1>4, <3>2
    <3> QED
      BY <3>1, <3>2 DEF IInv, PlaceInv
  <2> QED
    BY <1>1, <2>1, <2>2, <2>3, <2>5, <2>7, <2>8, SetsStay DEF PlaceInv, stk, out
<1>9. DepthInv'
  <2> DEFINE A(n) == IF n = 0 THEN 0 ELSE Depth(stk[n] + 1)
  <2>1. \A n \in 0..Len(stk) : A(n) = After(n)
    BY <1>2 DEF After
  <2>2. ASSUME pos <= Len(formula) PROVE Depth(pos) = A(Len(stk))
    <3>1. Depth(pos) = Depth(t + 1) /\ Depth(t) = After(last - 1)
      <4>1. Depth(pos) = After(last) /\ Depth(t) = After(last - 1)
        BY <1>2, <2>2 DEF IInv, DepthInv
      <4> QED
        BY <1>2, <4>1 DEF After
    <3>2. Depth(t + 1) = Depth(t)
      BY <1>1, <1>2, <1>5, <2>2, StackDepth DEF IInv
    <3> QED
      BY SMTT(30), <1>2, <2>1, <3>1, <3>2
  <2>3. \A n \in 1..Len(stk) : Depth(stk[n]) = A(n - 1)
    <3> TAKE n \in 1..Len(stk)
    <3>1. n - 1 \in 0..Len(stk)
      BY <1>2
    <3> QED
      BY <1>2, <2>1, <3>1 DEF IInv, DepthInv
  <2>4. \A m, n \in 1..Len(stk) : m < n => Depth(stk[m] + 1) <= Depth(stk[n])
    BY <1>2 DEF IInv, DepthInv
  <2> QED
    BY <1>1, <1>6, <2>2, <2>3, <2>4 DEF IInv, DepthInv, After, stk
<1>10. StackInv'
  <2>1. \A n \in 1..Len(stk) : formula[stk[n]] \in Binary => Stays(stk[n], pos - 1)
    BY <1>2 DEF IInv, StackInv
  <2> QED
    BY <1>1, <1>6, <2>1 DEF StackInv, Binary, stk
<1>11. ClosedInv'
  <2> SUFFICES ASSUME NEW n \in 1..Len(out), formula[out[n]] \in Binary
               PROVE  /\ \A k \in pos..Len(formula) :
                           formula[k] \notin Parens => ~Stays(out[n], k)
                      /\ \A m \in 1..Len(stk) :
                           formula[stk[m]] # "(" /\ out[n] < stk[m] => ~Stays(out[n], stk[m])
    BY <1>1, <1>6 DEF ClosedInv, Parens, Binary, stk, out
  <2>1. CASE n = end
    <3>1. \A m \in 1..Len(stk) : stk[m] < t
      BY <1>2 DEF IInv, PlaceInv
    <3>2. \A m \in 1..Len(stk) : ~(t < stk[m])
      BY SMTT(30), <1>2, <3>1
    <3> QED
      BY <1>3, <2>1, <3>2
  <2>2. CASE n \in 1..Len(output)
    BY <1>2, <1>3, <2>2 DEF IInv, ClosedInv
  <2> QED
    BY <1>4, <2>1, <2>2
<1>12. OrderInv'
  <2> SUFFICES ASSUME NEW m \in 1..Len(out), NEW n \in 1..Len(out), m < n,
                      formula[out[m]] # "(", formula[out[n]] # "("
               PROVE  /\ out[m] < out[n] /\ formula[out[m]] \in Binary => ~Stays(out[m], out[n])
                      /\ out[n] < out[m] => /\ formula[out[n]] \in Operators
                                            /\ formula[out[n]] \in Binary => Stays(out[n], out[m])
    BY <1>1, <1>6, SetsStay DEF OrderInv, out
  <2>1. m \in 1..Len(output) /\ out[m] = output[m] /\ output[m] < pos /\ output[m] \in Nat
    BY <1>3, <1>4 DEF IInv, PlaceInv
  <2>2. CASE n = end
    <3>1. output[m] < t /\ formula[output[m]] \in Binary => ~Stays(output[m], t)
      <4>1. formula[t] # "("
        BY <1>3, <2>2
      <4> QED
        BY <1>2, <2>1, <4>1 DEF IInv, ClosedInv
    <3>2. formula[t] \in Binary => Stays(t, output[m])
      <4>1. formula[t] \in Binary => Stays(t, pos - 1)
        BY <1>2 DEF IInv, StackInv
      <4>2. (t + 1)..output[m] \subseteq (t + 1)..(pos - 1)
        BY <1>2, <1>5, <2>1, EarlierEnd
      <4> QED
        BY <4>1, <4>2 DEF Stays
    <3> QED
      BY <1>3, <1>5, <2>1, <2>2, <3>1, <3>2
  <2>3. CASE n \in 1..Len(output)
    BY <1>3, <2>1, <2>3 DEF IInv, OrderInv
  <2> QED
    BY <1>4, <2>2, <2>3
<1>13. PartInv'
  <2>1. \A n \in 1..Len(stk) : \A i \in (stk[n] + 1)..pos : Depth(i) >= Depth(stk[n] + 1)
    BY <1>2, <1>5 DEF IInv, PartInv
  <2>2. ASSUME NEW n \in 1..Len(out), formula[out[n]] = "("
        PROVE  pos > Len(formula) /\ Unclosed(out[n], pos)
    <3>1. CASE n = end
      <4>1. Depth(t + 1) = Depth(t) + 1 /\ Depth(t) \in Int
        BY <1>2, <1>3, <2>2, <3>1, DepthStep
      <4>2. ASSUME NEW i \in (t + 1)..pos PROVE Depth(i) > Depth(t)
        <5>1. Depth(i) >= Depth(t + 1)
          BY <1>2, <1>5 DEF IInv, PartInv
        <5>2. i \in Nat \ {0}
          BY <1>2, <1>5
        <5>3. Depth(i) \in Int
          BY <5>2, DepthStep
        <5> QED
          BY <4>1, <5>1, <5>3
      <4> QED
        BY <1>1, <1>3, <1>5, <2>2, <3>1, <4>2 DEF Unclosed
    <3>2. CASE n \in 1..Len(output)
      BY <1>3, <1>5, <2>2, <3>2 DEF IInv, PartInv
    <3> QED
      BY <1>4, <3>1, <3>2
  <2>3. ASSUME NEW k \in 1..(pos - 1), formula[k] = "(", Unclosed(k, pos)
        PROVE  \/ \E n \in 1..Len(out) : out[n] = k
               \/ \E n \in 1..Len(stk) : stk[n] = k
    <3>1. CASE \E n \in 1..Len(output) : output[n] = k
      BY <1>3, <1>4, <3>1
    <3>2. CASE \E n \in 1..last : stack[n] = k
      BY <1>2, <1>3, <1>4, <3>2
    <3> QED
      BY <1>5, <2>3, <3>1, <3>2 DEF IInv, PartInv
  <2> QED
    BY <1>1, <1>6, <2>1, <2>2, <2>3 DEF PartInv, stk, out
<1>14. ResultInv'
  BY <1>1 DEF ResultInv, RefusedOnlyIfStrange
<1> QED
  BY <1>7, <1>8, <1>9, <1>10, <1>11, <1>12, <1>13, <1>14 DEF IInv

LEMMA PopForParenIInv == ASSUME IInv, PopForParen PROVE IInv'
<1> DEFINE t == stack[Len(stack)]
<1>1. /\ Running /\ Token = ")" /\ stack # <<>> /\ Top # "(" /\ Pop
      /\ result = "run" /\ formula[t] # "("
  BY DEF PopForParen, Blocked, Running, Top
<1>2. /\ pos \in Nat \ {0} /\ pos <= Len(formula) /\ Len(formula) \in Nat /\ Len(stack) \in 1..Len(stack)
      /\ Depth(pos) \in Int /\ Depth(pos + 1) = Depth(pos) - 1
      /\ formula[pos] = ")"
  BY <1>1, ReadingFacts DEF IInv, TypeInv, Token
<1>3. /\ Depth(t) = Depth(pos) /\ t \in Nat /\ t < pos
  <2>1. Depth(t + 1) = Depth(t) /\ t \in Positions
    BY <1>1, <1>2, StackDepth DEF IInv
  <2>2. Depth(pos) = Depth(t + 1)
    BY <1>2 DEF IInv, DepthInv, After
  <2> QED
    BY <1>2, <2>1, <2>2 DEF IInv, PlaceInv, Positions
<1>4. ASSUME NEW k \in pos..Len(formula), formula[k] \notin Parens
      PROVE  ~Stays(t, k)
  <2>1. pos + 1 \in (t + 1)..k
    <3>1. k # pos
      BY <1>2, <1>4 DEF Parens
    <3> QED
      BY <1>2, <1>3, <3>1
  <2>2. ~(Depth(pos + 1) >= Depth(t))
    BY <1>2, <1>3
  <2> QED
    BY <2>1, <2>2 DEF Stays
<1> HIDE DEF t
<1> QED
  BY <1>1, <1>2, <1>4, PopIInv DEF t

LEMMA PopForOperatorIInv == ASSUME IInv, PopForOperator PROVE IInv'
<1> DEFINE t == stack[Len(stack)]
<1>1. /\ Running /\ Token \in Operators /\ stack # <<>> /\ Top # "(" /\ Pop
      /\ result = "run" /\ formula[t] # "(" /\ ~Unranked /\ Pops(Top, Token)
  BY DEF PopForOperator, Blocked, Running, Top
<1>2. /\ pos \in Nat \ {0} /\ pos <= Len(formula) /\ Len(formula) \in Nat /\ Len(stack) \in 1..Len(stack)
      /\ Token \in Binary
  BY <1>1, ReadingFacts, OperatorFacts DEF IInv, TypeInv, Unranked
<1>3. /\ Depth(t) = Depth(pos) /\ t \in Nat /\ t < pos
  <2>1. Depth(t + 1) = Depth(t) /\ t \in Positions
    BY <1>1, <1>2, StackDepth DEF IInv
  <2>2. Depth(pos) = Depth(t + 1)
    BY <1>2 DEF IInv, DepthInv, After
  <2> QED
    BY <1>2, <2>1, <2>2 DEF IInv, PlaceInv, Positions
<1>4. ASSUME NEW k \in pos..Len(formula), formula[t] \in Binary
      PROVE  ~Stays(t, k)
  <2>1. pos \in (t + 1)..k
    BY <1>2, <1>3
  <2>2. /\ Precedence(formula[t]) \in Int /\ Precedence(formula[pos]) \in Int
        /\ Precedence(formula[t]) >= Precedence(formula[pos])
    BY <1>1, <1>2, <1>4, PrecedenceType DEF Pops, Top, Token
  <2>3. ~(Precedence(formula[pos]) > Precedence(formula[t]))
    BY <2>2
  <2> QED
    BY <1>2, <1>3, <2>1, <2>3 DEF Stays, Token
<1> HIDE DEF t
<1> QED
  BY <1>1, <1>2, <1>4, PopIInv DEF t

LEMMA DrainIInv == ASSUME IInv, Drain PROVE IInv'
<1> DEFINE t == stack[Len(stack)]
<1>1. /\ result = "run" /\ pos = Len(formula) + 1 /\ stack # <<>> /\ Pop
  BY DEF Drain
<1>2. /\ pos \in Nat \ {0} /\ Len(formula) \in Nat /\ Len(stack) \in 1..Len(stack)
  BY <1>1 DEF IInv, TypeInv
<1>3. \A k \in pos..Len(formula) : FALSE
  BY <1>1, <1>2
<1> HIDE DEF t
<1> QED
  BY <1>1, <1>2, <1>3, PopIInv DEF t

-----------------------------------------------------------------------------
(* Steps that end the conversion, or refuse it, or do nothing to the rest. *)

\* Only the result changes: what is left to show is what it says.
LEMMA RaiseIInv ==
  ASSUME IInv, NEW exception, Raise(exception), ResultInv'
  PROVE  IInv'
<1>1. formula' = formula /\ pos' = pos /\ output' = output /\ stack' = stack
  BY DEF Raise
<1>2. /\ \A k : Depth(k)' = Depth(k)
      /\ \A j, k : Stays(j, k)' = Stays(j, k)
      /\ \A j, k : Unclosed(j, k)' = Unclosed(j, k)
  BY <1>1, Frame
<1>3. TypeInv' /\ PlaceInv'
  BY <1>1, SetsStay DEF IInv, TypeInv, PlaceInv, Positions
<1>4. DepthInv'
  BY <1>1, <1>2 DEF IInv, DepthInv, After
<1>5. PartInv'
  BY <1>1, <1>2 DEF IInv, PartInv
<1>6. StackInv' /\ OrderInv'
  BY <1>1, <1>2, SetsStay DEF IInv, StackInv, OrderInv
<1>7. ClosedInv'
  BY <1>1, <1>2, SetsStay DEF IInv, ClosedInv
<1> QED
  BY <1>3, <1>4, <1>5, <1>6, <1>7 DEF IInv

LEMMA FrameStrange ==
  ASSUME formula' = formula
  PROVE  /\ \A T, k : Count(T, k)' = Count(T, k)
         /\ \A j, k : Unordered(j, k)' = Unordered(j, k)
         /\ Opening' = Opening /\ Closing' = Closing
<1>1. \A T, k : Count(T, k)' = Count(T, k)
  BY DEF Count
<1>2. \A j, k : SamePart(j, k)' = SamePart(j, k)
  BY Frame DEF SamePart
<1>3. \A j, k : Unordered(j, k)' = Unordered(j, k)
  BY <1>2, SetsStay DEF Unordered
<1>4. Opening' = Opening /\ Closing' = Closing
  BY DEF Opening, Closing
<1> QED
  BY <1>1, <1>3, <1>4

LEMMA TokenizeIInv == ASSUME IInv, Tokenize PROVE IInv'
<1> DEFINE opened == Count(Opening, Len(formula))
           closed == Count(Closing, Len(formula))
<1>1. Len(formula) \in Nat /\ result = "run" /\ pos = 0 /\ output = <<>> /\ stack = <<>>
  BY DEF Tokenize, IInv, TypeInv
<1>2. CASE opened # closed
  <2>1. Raise("TokenError")
    BY <1>2 DEF Tokenize
  <2>2. ResultInv'
    BY <1>2, <2>1, FrameStrange DEF ResultInv, RefusedOnlyIfStrange, Raise
  <2> QED
    BY <2>1, <2>2, RaiseIInv
<1>3. CASE opened = closed
  <2>1. /\ formula' = formula /\ output' = <<>> /\ stack' = <<>> /\ result' = "run" /\ pos' = 1
        /\ Positions' = Positions
    BY <1>1, <1>3 DEF Tokenize, Positions
  <2>2. \A k : Depth(k)' = Depth(k)
    BY <2>1, Frame
  <2>3. Depth(1) = 0
    BY DepthStep
  <2>4. TypeInv'
    BY <1>1, <2>1 DEF IInv, TypeInv
  <2>5. PlaceInv'
    BY <2>1 DEF PlaceInv
  <2>6. DepthInv'
    BY <2>1, <2>2, <2>3 DEF DepthInv, After
  <2>7. PartInv' /\ StackInv' /\ ClosedInv' /\ OrderInv'
    BY <2>1 DEF PartInv, StackInv, ClosedInv, OrderInv
  <2>8. ResultInv'
    BY <2>1 DEF ResultInv, RefusedOnlyIfStrange
  <2> QED
    BY <2>4, <2>5, <2>6, <2>7, <2>8 DEF IInv
<1> QED
  BY <1>2, <1>3

LEMMA CloseParenFailsIInv == ASSUME IInv, CloseParenFails PROVE IInv'
<1>1. /\ Running /\ Token = ")" /\ stack = <<>> /\ Raise("unbalanced")
  BY DEF CloseParenFails
<1>2. /\ Len(formula) \in Nat /\ pos \in 1..Len(formula) /\ pos \in Nat
      /\ Depth(pos) \in Int /\ Depth(pos + 1) = Depth(pos) - 1
  BY <1>1, ReadingFacts DEF Positions
<1>3. Depth(pos) = 0
  BY <1>1, <1>2 DEF IInv, DepthInv, After
<1>4. Count({")"}, pos) > Count({"("}, pos)
  <2>1. /\ Count({"("}, pos) \in Nat /\ Count({")"}, pos) \in Nat /\ (pos + 1) - 1 = pos
    BY <1>2, CountStep
  <2>2. Depth(pos + 1) = Count({"("}, pos) - Count({")"}, pos)
    BY <2>1 DEF Depth
  <2> QED
    BY <1>2, <1>3, <2>1, <2>2
<1>5. ResultInv'
  BY <1>1, <1>2, <1>4, FrameStrange DEF ResultInv, RefusedOnlyIfStrange, Raise
<1> QED
  BY <1>1, <1>5, RaiseIInv

LEMMA OperatorFailsIInv == ASSUME IInv, OperatorFails PROVE IInv'
<1> DEFINE t == stack[Len(stack)]
<1>1. /\ Running /\ Raise("KeyError") /\ stack # <<>> /\ formula[t] # "("
      /\ Token \in Operators /\ ~({formula[t], Token} \subseteq Binary)
  BY DEF OperatorFails, Blocked, Unranked, Top
<1>2. /\ pos \in Positions /\ pos \in Nat \ {0} /\ pos <= Len(formula)
      /\ Len(stack) \in 1..Len(stack) /\ t \in Positions /\ t \in Nat /\ t < pos
      /\ formula[t] \in Operators
  <2>1. /\ pos \in Positions /\ pos \in Nat \ {0} /\ pos <= Len(formula)
        /\ Len(stack) \in Nat /\ \A n \in 1..Len(stack) : stack[n] \in Positions
    BY <1>1, ReadingFacts
  <2>2. Len(stack) \in 1..Len(stack)
    BY <1>1, <2>1 DEF IInv, TypeInv
  <2>3. t < pos /\ formula[t] \in Operators \cup {"("}
    BY <2>2 DEF IInv, PlaceInv
  <2> QED
    BY <1>1, <2>1, <2>2, <2>3 DEF Positions
<1>3. Depth(t) \in Int /\ Depth(t + 1) = Depth(t) /\ Depth(pos) = Depth(t + 1)
  <2>1. TypeInv /\ PlaceInv /\ DepthInv /\ pos > 0 /\ Len(stack) # 0
    BY <1>2 DEF IInv
  <2>2. Depth(pos) = After(Len(stack))
    BY <1>2, <2>1 DEF DepthInv
  <2>3. Depth(pos) = Depth(t + 1)
    BY <2>1, <2>2 DEF After
  <2> QED
    BY <1>1, <1>2, <2>1, <2>3, StackDepth
<1>4. \A i \in (t + 1)..pos : Depth(i) >= Depth(t + 1)
  BY <1>2 DEF IInv, PartInv
<1>5. SamePart(t, pos)
  <2>1. \A i \in t..pos : i = t \/ i \in (t + 1)..pos
    BY <1>2
  <2>2. \A i \in t..pos : Depth(i) >= Depth(t)
    BY <1>3, <1>4, <2>1
  <2> QED
    BY <1>3, <2>2 DEF SamePart
<1>6. Unordered(t, pos)
  BY <1>1, <1>2, <1>5 DEF Unordered, Token
<1> HIDE DEF t
<1>7. ResultInv'
  BY <1>1, <1>2, <1>6, FrameStrange DEF ResultInv, RefusedOnlyIfStrange, Raise, Positions
<1> QED
  BY <1>1, <1>7, RaiseIInv

LEMMA BadTokenIInv == ASSUME IInv, BadToken PROVE IInv'
<1>1. Raise("SyntaxError") /\ Token \notin Operators \cup {"x", "(", ")"}
  BY DEF BadToken
<1>2. ResultInv'
  BY <1>1, SetsStay DEF ResultInv, RefusedOnlyIfStrange, Raise, Token
<1> QED
  BY <1>1, <1>2, RaiseIInv

LEMMA ReturnIInv == ASSUME IInv, Return PROVE IInv'
<1>1. Raise("ok") /\ pos = Len(formula) + 1 /\ stack = <<>>
  BY DEF Return, Raise
<1>2. ResultInv'
  BY <1>1 DEF ResultInv, RefusedOnlyIfStrange, Raise
<1> QED
  BY <1>1, <1>2, RaiseIInv

-----------------------------------------------------------------------------
(* The invariant, and what follows from it when the conversion is over.    *)

LEMMA InitIInv == ASSUME Init PROVE IInv
<1>1. formula \in Seq(STRING)
  BY FormulasAssumption DEF Init
<1>2. TypeInv
  BY <1>1 DEF Init, TypeInv
<1>3. PlaceInv /\ PartInv /\ StackInv /\ ClosedInv /\ OrderInv
  BY DEF Init, PlaceInv, PartInv, StackInv, ClosedInv, OrderInv
<1>4. DepthInv /\ ResultInv
  BY DEF Init, DepthInv, ResultInv, RefusedOnlyIfStrange
<1> QED
  BY <1>2, <1>3, <1>4 DEF IInv

LEMMA NextIInv == ASSUME IInv, [Next]_vars PROVE IInv'
<1>1. CASE Tokenize
  BY <1>1, TokenizeIInv
<1>2. CASE Operand
  BY <1>2, OperandIInv
<1>3. CASE OpenParen
  <2>1. Token \notin Binary
    BY <1>3, OperatorFacts DEF OpenParen
  <2> QED
    BY <1>3, <2>1, PushIInv DEF OpenParen
<1>4. CASE PopForParen
  BY <1>4, PopForParenIInv
<1>5. CASE CloseParen
  BY <1>5, CloseParenIInv
<1>6. CASE CloseParenFails
  BY <1>6, CloseParenFailsIInv
<1>7. CASE PopForOperator
  BY <1>7, PopForOperatorIInv
<1>8. CASE Operator
  BY <1>8, PushIInv DEF Operator
<1>9. CASE OperatorFails
  BY <1>9, OperatorFailsIInv
<1>10. CASE BadToken
  BY <1>10, BadTokenIInv
<1>11. CASE Drain
  BY <1>11, DrainIInv
<1>12. CASE Return
  BY <1>12, ReturnIInv
<1>13. CASE UNCHANGED vars
  <2>1. Raise(result)
    BY <1>13 DEF Raise, vars
  <2>2. ResultInv'
    BY <1>13, FrameStrange, SetsStay DEF IInv, ResultInv, RefusedOnlyIfStrange, Token, vars
  <2> QED
    BY <2>1, <2>2, RaiseIInv
<1> QED
  BY <1>1, <1>2, <1>3, <1>4, <1>5, <1>6, <1>7, <1>8, <1>9, <1>10, <1>11, <1>12, <1>13 DEF Next

\* What is known of a conversion at every step.
THEOREM Invariance == Spec => []IInv
<1>1. Init => IInv
  BY InitIInv
<1>2. IInv /\ [Next]_vars => IInv'
  BY NextIInv
<1> QED
  BY <1>1, <1>2, PTL DEF Spec

\* Side by side, the converter ranks two operators as Python does, except >> with
\* <<, | with ^, and ** with itself.
LEMMA RankAgrees ==
  ASSUME NEW a \in Binary, NEW b \in Binary,
         {a, b} \notin {{">>", "<<"}, {"|", "^"}, {"**"}}
  PROVE  Rank(a) > Rank(b) <=> Precedence(a) > Precedence(b)
<1>1. /\ ~(a = ">>" /\ b = "<<") /\ ~(a = "<<" /\ b = ">>")
      /\ ~(a = "|" /\ b = "^") /\ ~(a = "^" /\ b = "|")
  OBVIOUS
<1> QED
  BY <1>1 DEF Binary, Rank, Precedence

\* Then what an operator keeps is its right operand.
LEMMA StaysIsRightOperand ==
  ASSUME formula \in Seq(STRING), ~RankedOtherwise,
         NEW j \in Positions, NEW k \in Positions, j < k, formula[j] \in Binary
  PROVE  InRightOperand(j, k) <=> Stays(j, k)
<1>1. ASSUME NEW i \in (j + 1)..k, formula[i] \in Binary
      PROVE  Rank(formula[i]) > Rank(formula[j]) <=> Precedence(formula[i]) > Precedence(formula[j])
  <2>1. i \in 1..Len(formula) /\ j \in 1..Len(formula) /\ j < i
    BY DEF Positions
  <2>2. {formula[j], formula[i]} \notin {{">>", "<<"}, {"|", "^"}, {"**"}}
    BY <2>1 DEF RankedOtherwise
  <2>3. {formula[i], formula[j]} = {formula[j], formula[i]}
    OBVIOUS
  <2>4. {formula[i], formula[j]} \notin {{">>", "<<"}, {"|", "^"}, {"**"}}
    BY <2>2, <2>3
  <2> HIDE DEF Positions
  <2> QED
    BY <1>1, <2>4, RankAgrees
<1> QED
  BY <1>1 DEF InRightOperand, Stays

\* A well-formed formula leaves no parenthesis open.
LEMMA NoneOpen ==
  ASSUME IInv, WellFormed
  PROVE  /\ Depth(Len(formula) + 1) = 0
         /\ pos = Len(formula) + 1 => \A n \in 1..Len(output) : formula[output[n]] \notin Parens
<1>1. Len(formula) \in Nat /\ (Len(formula) + 1) - 1 = Len(formula)
  BY DEF IInv, TypeInv
<1>2. Depth(Len(formula) + 1) = 0
  <2>1. Count({"("}, Len(formula)) \in Nat /\ Count({")"}, Len(formula)) \in Nat
    BY <1>1, CountStep
  <2>2. Count({"("}, Len(formula)) = Count({")"}, Len(formula))
    BY DEF WellFormed, Balanced
  <2>3. Depth(Len(formula) + 1) = Count({"("}, Len(formula)) - Count({")"}, Len(formula))
    BY <1>1 DEF Depth
  <2> QED
    BY <2>1, <2>2, <2>3
<1>3. ASSUME pos = Len(formula) + 1, NEW n \in 1..Len(output) PROVE formula[output[n]] \notin Parens
  <2>1. output[n] \in Positions /\ output[n] \in Nat \ {0} /\ output[n] < pos
    BY DEF IInv, TypeInv, PlaceInv, Positions
  <2>2. SUFFICES ASSUME formula[output[n]] = "(" PROVE FALSE
    BY DEF IInv, PlaceInv, Parens
  <2>3. Unclosed(output[n], pos)
    BY <1>1, <1>3, <2>2 DEF IInv, PartInv
  <2>4. Depth(pos) > Depth(output[n])
    BY <1>1, <1>3, <2>1, <2>3 DEF Unclosed
  <2>5. Depth(output[n]) >= 0
    BY <1>1, <1>3, <2>1 DEF IInv, DepthInv
  <2>6. Depth(output[n]) \in Int
    BY <2>1, DepthStep
  <2> QED
    BY <1>2, <1>3, <2>4, <2>5, <2>6
<1> QED
  BY <1>2, <1>3

LEMMA OutputInOrder == ASSUME IInv PROVE RpnOrder
<1> SUFFICES ASSUME IInv, result = "ok", WellFormed, ~RankedOtherwise,
                    NEW m \in 1..Len(output), NEW n \in 1..Len(output), m < n
             PROVE  ComesBefore(output[m], output[n])
  BY DEF RpnOrder
<1> DEFINE j == output[m]
           k == output[n]
<1>1. /\ formula \in Seq(STRING) /\ j \in Positions /\ k \in Positions
      /\ j \in Nat /\ k \in Nat /\ j # k
  <2>1. formula \in Seq(STRING) /\ j \in Positions /\ k \in Positions
    BY DEF IInv, TypeInv
  <2>2. j # k
    BY DEF IInv, PlaceInv
  <2> QED
    BY <2>1, <2>2 DEF Positions
<1>2. formula[j] # "(" /\ formula[k] # "("
  BY NoneOpen DEF IInv, ResultInv, Parens
<1>3. CASE j < k
  <2>1. formula[j] \in Binary => ~Stays(j, k)
    BY <1>3, <1>2 DEF IInv, OrderInv
  <2>2. CASE formula[j] \in Binary
    BY <1>1, <1>3, <2>1, <2>2, StaysIsRightOperand DEF ComesBefore
  <2>3. CASE formula[j] \notin Binary
    BY <1>3, <2>3 DEF ComesBefore, InRightOperand
  <2> QED
    BY <1>3, <2>2, <2>3
<1>4. CASE k < j
  <2>1. formula[k] \in Operators /\ (formula[k] \in Binary => Stays(k, j))
    BY <1>4, <1>2 DEF IInv, OrderInv
  <2>2. formula[k] \in Binary
    <3>1. formula[k] \in Binary \cup {"x", "(", ")"}
      BY <1>1 DEF WellFormed, Positions
    <3> QED
      BY <2>1, <3>1, OperatorFacts
  <2>3. InRightOperand(k, j)
    BY <1>1, <1>4, <2>1, <2>2, StaysIsRightOperand
  <2> QED
    BY <1>1, <1>4, <2>3 DEF ComesBefore
<1> QED
  BY <1>1, <1>3, <1>4

\* An operator of the RPN comes behind all of its right operand and ahead of all that
\* follows it; nothing else changes places (inventory_converter.py:198-223).
THEOREM Order == Spec => []RpnOrder
BY OutputInOrder, Invariance, PTL

\* Whatever the tokens are, the operands and operators of a converted formula come
\* out exactly once, each ")" closed a "(", and of the parentheses just those "("
\* come out that nothing closes (inventory_converter.py:163-168, 195-223).
THEOREM Complete == Spec => []NothingLostOrRepeated
<1>1. IInv => NothingLostOrRepeated
  <2> SUFFICES ASSUME IInv, result = "ok"
               PROVE  /\ \A k \in 1..Len(formula) : Count({")"}, k) <= Count({"("}, k)
                      /\ \A n \in 1..Len(output) : output[n] \in 1..Len(formula)
                      /\ \A k \in 1..Len(formula) :
                           Cardinality({n \in 1..Len(output) : output[n] = k}) =
                             IF formula[k] \in {"(", ")"} /\ ~LeftOpen(k) THEN 0 ELSE 1
    BY DEF NothingLostOrRepeated
  <2>1. /\ pos = Len(formula) + 1 /\ stack = <<>> /\ Len(formula) \in Nat
        /\ pos > 0 /\ pos - 1 = Len(formula)
    BY DEF IInv, TypeInv, ResultInv
  <2>2. ASSUME NEW k \in 1..Len(formula)
        PROVE  Count({")"}, k) <= Count({"("}, k)
    <3>1. k \in Nat /\ (k + 1) - 1 = k /\ k + 1 \in 1..pos
      BY <2>1
    <3>2. Depth(k + 1) >= 0
      BY <2>1, <3>1 DEF IInv, DepthInv
    <3>3. Depth(k + 1) = Count({"("}, k) - Count({")"}, k)
      BY <3>1 DEF Depth
    <3>4. Count({"("}, k) \in Nat /\ Count({")"}, k) \in Nat
      BY <3>1, CountStep
    <3> QED
      BY <3>2, <3>3, <3>4
  <2>3. \A n \in 1..Len(output) : output[n] \in 1..Len(formula)
    BY DEF IInv, TypeInv, Positions
  <2>4. ASSUME NEW k \in 1..Len(formula)
        PROVE  Cardinality({n \in 1..Len(output) : output[n] = k}) =
                 IF formula[k] \in {"(", ")"} /\ ~LeftOpen(k) THEN 0 ELSE 1
    <3> DEFINE At == {n \in 1..Len(output) : output[n] = k}
    <3>1. LeftOpen(k) <=> formula[k] = "(" /\ Unclosed(k, pos)
      BY <2>1 DEF LeftOpen, Unclosed
    <3>2. CASE formula[k] \in Parens /\ ~LeftOpen(k)
      <4>1. \A n \in 1..Len(output) : formula[output[n]] # ")" /\
              (formula[output[n]] = "(" => Unclosed(output[n], pos))
        BY <2>1 DEF IInv, PlaceInv, PartInv
      <4>2. At = {}
        BY <3>1, <3>2, <4>1 DEF Parens
      <4> QED
        BY <3>2, <4>2, FS_EmptySet DEF Parens
    <3>3. CASE ~(formula[k] \in Parens /\ ~LeftOpen(k))
      <4>1. k \in 1..(pos - 1) /\ Len(stack) = 0
        BY <2>1
      <4>2. \E n \in 1..Len(output) : output[n] = k
        <5>1. CASE formula[k] \notin Parens
          BY <4>1, <5>1 DEF IInv, PlaceInv
        <5>2. CASE LeftOpen(k)
          BY <2>1, <3>1, <4>1, <5>2 DEF IInv, PartInv
        <5> QED
          BY <3>3, <5>1, <5>2
      <4>3. PICK n \in 1..Len(output) : output[n] = k
        BY <4>2
      <4>4. \A i \in 1..Len(output) : output[i] = k => i = n
        BY <4>3 DEF IInv, PlaceInv
      <4>5. At = {n}
        BY <4>3, <4>4
      <4> QED
        BY <3>3, <4>5, FS_Singleton DEF Parens
    <3> QED
      BY <3>2, <3>3
  <2> QED
    BY <2>2, <2>3, <2>4
<1> QED
  BY <1>1, Invariance, PTL

\* A formula is refused only for an operator without a precedence next to another of
\* the same part, for a parenthesis that nothing opens, for brackets that do not
\* come in pairs, or for a token that is no OP, NUMBER or NAME
\* (inventory_converter.py:163-168, 195-220).
THEOREM Refusal == Spec => []RefusedOnlyIfStrange
<1>1. IInv => RefusedOnlyIfStrange
  BY DEF IInv, ResultInv
<1> QED
  BY <1>1, Invariance, PTL

-----------------------------------------------------------------------------
(* What the recursion of Postfix computes.                                 *)

\* A set of numbers that is not empty has a least one.
LEMMA LeastExists ==
  ASSUME NEW T \in SUBSET Nat, T # {}
  PROVE  \E x \in T : \A y \in T : x <= y
<1> DEFINE R == {r \in Nat \X Nat : r[1] < r[2]}
<1>1. IsWellFoundedOn(R, Nat)
  BY NatLessThanWellFounded DEF OpToRel
<1>2. PICK x \in T : \A y \in T : <<y, x>> \notin R
  <2>1. T \subseteq Nat /\ T # {}
    OBVIOUS
  <2> HIDE DEF R
  <2>2. \E x \in T : \A y \in T : ~ (<<y, x>> \in R)
    BY <1>1, <2>1, WFMin, ZenonT(30)
  <2> QED  BY <2>2
<1>3. ASSUME NEW y \in T PROVE x <= y
  <2>1. ~ (<<y, x>>[1] < <<y, x>>[2])
    BY <1>2
  <2> QED  BY <2>1
<1> QED  BY <1>3

LEMMA RankType ==
  ASSUME NEW op \in Binary
  PROVE  Rank(op) \in Nat /\ (Rank(op) = 6 <=> op = "**")
BY DEF Binary, Rank

LEMMA LastAppliedProperties ==
  ASSUME NEW lo \in Int, NEW hi \in Int, Outermost(lo, hi) # {}
  PROVE  /\ LastApplied(lo, hi) \in Outermost(lo, hi)
         /\ \A j \in Outermost(lo, hi) :
              /\ Rank(formula[LastApplied(lo, hi)]) <= Rank(formula[j])
              /\ Rank(formula[LastApplied(lo, hi)]) = Rank(formula[j])
                   => IF formula[LastApplied(lo, hi)] = "**" THEN LastApplied(lo, hi) <= j
                                                             ELSE LastApplied(lo, hi) >= j
<1> DEFINE top == Outermost(lo, hi)
           weakest == {k \in top : \A j \in top : Rank(formula[k]) <= Rank(formula[j])}
           Last(k) == \A j \in weakest : IF formula[k] = "**" THEN k <= j ELSE k >= j
<1>1. \A k \in top : k \in lo..hi /\ formula[k] \in Binary /\ Rank(formula[k]) \in Nat
                     /\ (Rank(formula[k]) = 6 <=> formula[k] = "**")
  BY RankType DEF Outermost
<1>2. LastApplied(lo, hi) = CHOOSE k \in weakest : Last(k)
  BY DEF LastApplied
<1> HIDE DEF top
<1>3. weakest # {}
  <2> DEFINE ranks == {Rank(formula[k]) : k \in top}
  <2>1. ranks \in SUBSET Nat /\ ranks # {}
    BY <1>1 DEF top
  <2>2. PICK r \in ranks : \A q \in ranks : r <= q
    BY <2>1, LeastExists
  <2> QED
    BY <2>2
<1>4. \A j, k \in weakest : Rank(formula[j]) = Rank(formula[k])
  BY <1>1
<1>5. \E k \in weakest : Last(k)
  <2>1. CASE \E k \in weakest : formula[k] = "**"
    <3> DEFINE ahead == {k - lo : k \in weakest}
    <3>1. ahead \in SUBSET Nat /\ ahead # {}
      BY <1>1, <1>3
    <3>2. PICK a \in ahead : \A b \in ahead : a <= b
      BY <3>1, LeastExists
    <3>3. PICK k \in weakest : a = k - lo
      BY <3>2
    <3>4. \A j \in weakest : k <= j
      BY <3>2, <3>3, <1>1
    <3>5. formula[k] = "**"
      BY <2>1, <1>1, <1>4
    <3> QED
      BY <3>3, <3>4, <3>5
  <2>2. CASE \A k \in weakest : formula[k] # "**"
    <3> DEFINE behind == {hi - k : k \in weakest}
    <3>1. behind \in SUBSET Nat /\ behind # {}
      BY <1>1, <1>3
    <3>2. PICK a \in behind : \A b \in behind : a <= b
      BY <3>1, LeastExists
    <3>3. PICK k \in weakest : a = hi - k
      BY <3>2
    <3>4. ASSUME NEW j \in weakest PROVE k >= j
      <4>1. hi - j \in behind /\ j \in Int /\ k \in Int
        BY <1>1
      <4>2. a <= hi - j
        <5> HIDE DEF behind
        <5> QED
          BY <3>2, <4>1
      <4> QED
        BY <3>3, <4>1, <4>2
    <3>5. formula[k] # "**"
      BY <2>2, <3>3
    <3> QED
      BY <3>3, <3>4, <3>5
  <2> QED
    BY <2>1, <2>2
<1> DEFINE k == LastApplied(lo, hi)
<1>6. k \in weakest /\ Last(k)
  <2> HIDE DEF weakest, Last
  <2> QED
    BY <1>2, <1>5
<1> HIDE DEF k
<1>7. ASSUME NEW j \in top, Rank(formula[k]) = Rank(formula[j])
      PROVE  IF formula[k] = "**" THEN k <= j ELSE k >= j
  <2>1. j \in weakest
    BY <1>6, <1>7
  <2> QED
    BY <1>6, <2>1
<1> QED
  BY <1>6, <1>7 DEF top, k

\* How much there is between the two ends of a part.
Size(part) == IF part[1] < part[2] THEN part[2] - part[1] ELSE 0

LEMMA SizeType == ASSUME NEW part \in Parts PROVE Size(part) \in Nat
BY DEF Size, Parts

\* The RPN of a part takes the RPN of smaller ones only.
LEMMA SplitIsLocal ==
  ASSUME NEW part \in Parts, NEW f, NEW g,
         \A p \in Parts : Size(p) < Size(part) => f[p] = g[p]
  PROVE  Split(f, part[1], part[2]) = Split(g, part[1], part[2])
<1> DEFINE lo == part[1]
           hi == part[2]
<1>1. lo \in Int /\ hi \in Int
  BY DEF Parts
<1>2. CASE lo >= hi
  BY <1>2 DEF Split
<1>3. CASE lo < hi
  <2>1. ASSUME NEW a \in Int, NEW b \in Int, b - a < hi - lo
        PROVE  f[<<a, b>>] = g[<<a, b>>]
    <3>1. <<a, b>> \in Parts /\ <<a, b>>[1] = a /\ <<a, b>>[2] = b
      BY DEF Parts
    <3>2. Size(<<a, b>>) < Size(part)
      BY <1>1, <1>3, <2>1, <3>1 DEF Size
    <3> QED
      BY <3>1, <3>2
  <2>2. CASE Outermost(lo, hi) = {}
    <3>1. lo + 1 \in Int /\ hi - 1 \in Int /\ (hi - 1) - (lo + 1) < hi - lo
      BY <1>1
    <3>2. f[<<lo + 1, hi - 1>>] = g[<<lo + 1, hi - 1>>]
      BY <2>1, <3>1
    <3> QED
      BY <1>1, <1>3, <2>2, <3>2 DEF Split
  <2>3. CASE Outermost(lo, hi) # {}
    <3> DEFINE k == LastApplied(lo, hi)
    <3>1. k \in lo..hi
      BY <1>1, <2>3, LastAppliedProperties DEF Outermost
    <3> HIDE DEF k
    <3>2. k - 1 \in Int /\ k + 1 \in Int /\ (k - 1) - lo < hi - lo /\ hi - (k + 1) < hi - lo
      BY <1>1, <3>1
    <3>3. f[<<lo, k - 1>>] = g[<<lo, k - 1>>] /\ f[<<k + 1, hi>>] = g[<<k + 1, hi>>]
      BY <1>1, <2>1, <3>2
    <3> QED
      BY <1>1, <1>3, <2>3, <3>3 DEF Split, k
  <2> QED
    BY <2>2, <2>3
<1> QED
  BY <1>1, <1>2, <1>3

\* The recursion of Postfix, up to a size.
Small(n) == {p \in Parts : Size(p) <= n}
Computes(f, n) == f = [p \in Small(n) |-> Split(f, p[1], p[2])]

LEMMA ComputesOnce ==
  ASSUME NEW f, NEW g, NEW m \in Nat, NEW n \in Nat, Computes(f, m), Computes(g, n),
         NEW part \in Parts, Size(part) <= m, Size(part) <= n
  PROVE  f[part] = g[part]
<1> DEFINE Bad == {p \in Parts : Size(p) <= m /\ Size(p) <= n /\ f[p] # g[p]}
           sizes == {Size(p) : p \in Bad}
<1>1. SUFFICES ASSUME Bad # {} PROVE FALSE
  OBVIOUS
<1>2. sizes \in SUBSET Nat /\ sizes # {}
  BY <1>1, SizeType
<1>3. PICK s \in sizes : \A r \in sizes : s <= r
  BY <1>2, LeastExists
<1>4. PICK p \in Bad : s = Size(p)
  BY <1>3
<1>5. ASSUME NEW q \in Parts, Size(q) < Size(p) PROVE f[q] = g[q]
  <2>1. Size(q) \in Nat /\ Size(p) \in Nat
    BY SizeType
  <2>2. q \notin Bad
    <3>1. ~(s <= Size(q))
      BY <1>4, <1>5, <2>1
    <3> QED
      BY <1>3, <3>1
  <2> QED
    BY <1>4, <1>5, <2>1, <2>2
<1>6. Split(f, p[1], p[2]) = Split(g, p[1], p[2])
  BY <1>5, SplitIsLocal
<1>7. f[p] = Split(f, p[1], p[2])
  <2>1. p \in Small(m)
    BY DEF Small
  <2> QED
    BY <2>1 DEF Computes
<1>8. g[p] = Split(g, p[1], p[2])
  <2>1. p \in Small(n)
    BY DEF Small
  <2> QED
    BY <2>1 DEF Computes
<1> QED
  BY <1>6, <1>7, <1>8

LEMMA ComputesSome == \A n \in Nat : \E f : Computes(f, n)
<1> DEFINE missing == {n \in Nat : ~\E f : Computes(f, n)}
<1>1. SUFFICES ASSUME missing # {} PROVE FALSE
  OBVIOUS
<1>2. PICK n \in missing : \A m \in missing : n <= m
  BY <1>1, LeastExists
<1>3. PICK h : n > 0 => Computes(h, n - 1)
  <2>1. CASE n = 0
    BY <2>1
  <2>2. CASE n > 0
    <3>1. n - 1 \in Nat /\ ~(n <= n - 1)
      BY <2>2
    <3> QED
      BY <1>2, <3>1
  <2> QED
    BY <2>1, <2>2
<1> DEFINE g == [p \in Small(n) |-> Split(h, p[1], p[2])]
<1>4. ASSUME NEW p \in Small(n) PROVE Split(h, p[1], p[2]) = Split(g, p[1], p[2])
  <2>1. p \in Parts /\ Size(p) <= n /\ Size(p) \in Nat
    BY SizeType DEF Small
  <2>2. ASSUME NEW q \in Parts, Size(q) < Size(p) PROVE h[q] = g[q]
    <3>1. Size(q) \in Nat
      BY SizeType
    <3>2. n > 0 /\ Size(q) <= n - 1 /\ Size(q) <= n
      BY <2>1, <2>2, <3>1
    <3>3. q \in Small(n - 1) /\ q \in Small(n)
      BY <3>2 DEF Small
    <3>4. h[q] = Split(h, q[1], q[2])
      BY <1>3, <3>2, <3>3 DEF Computes
    <3> QED
      BY <3>3, <3>4
  <2> HIDE DEF g
  <2> QED
    BY <2>1, <2>2, SplitIsLocal
<1>5. g = [p \in Small(n) |-> Split(g, p[1], p[2])]
  <2> DEFINE G == g
  <2>1. \A p \in Small(n) : Split(h, p[1], p[2]) = Split(G, p[1], p[2])
    BY <1>4
  <2>2. G = [p \in Small(n) |-> Split(h, p[1], p[2])]
    OBVIOUS
  <2> HIDE DEF G
  <2>3. G = [p \in Small(n) |-> Split(G, p[1], p[2])]
    BY <2>1, <2>2, Zenon
  <2> QED
    BY <2>3 DEF G
<1>6. Computes(g, n)
  BY <1>5 DEF Computes
<1> QED
  BY <1>6

\* Postfix is what its definition says: there is a function that satisfies it.
LEMMA PostfixSplits ==
  ASSUME NEW part \in Parts
  PROVE  Postfix[part] = Split(Postfix, part[1], part[2])
<1> DEFINE rpn(n) == CHOOSE f : Computes(f, n)
           Whole == [p \in Parts |-> rpn(Size(p))[p]]
           B(f) == [p \in Parts |-> Split(f, p[1], p[2])]
<1>1. \A n \in Nat : Computes(rpn(n), n)
  BY ComputesSome
<1> HIDE DEF rpn
<1>2. ASSUME NEW p \in Parts PROVE rpn(Size(p))[p] = Split(Whole, p[1], p[2])
  <2>1. Size(p) \in Nat /\ p \in Small(Size(p)) /\ Computes(rpn(Size(p)), Size(p))
    BY <1>1, SizeType DEF Small
  <2>2. rpn(Size(p))[p] = Split(rpn(Size(p)), p[1], p[2])
    BY <2>1 DEF Computes
  <2>3. ASSUME NEW q \in Parts, Size(q) < Size(p) PROVE rpn(Size(p))[q] = Whole[q]
    <3>1. /\ Size(q) \in Nat /\ Size(q) <= Size(p) /\ Size(q) <= Size(q)
          /\ Computes(rpn(Size(q)), Size(q))
      BY <1>1, <2>1, <2>3, SizeType
    <3>2. rpn(Size(p))[q] = rpn(Size(q))[q]
      BY <2>1, <3>1, ComputesOnce
    <3> QED
      BY <3>2
  <2> HIDE DEF Whole
  <2>4. Split(rpn(Size(p)), p[1], p[2]) = Split(Whole, p[1], p[2])
    BY <2>3, SplitIsLocal
  <2> QED
    BY <2>2, <2>4
<1>3. \E f : f = B(f)
  <2> DEFINE W == Whole
  <2>1. \A p \in Parts : rpn(Size(p))[p] = Split(W, p[1], p[2])
    BY <1>2
  <2>2. W = [p \in Parts |-> rpn(Size(p))[p]]
    OBVIOUS
  <2> HIDE DEF W
  <2>3. W = B(W)
    BY <2>1, <2>2, Zenon
  <2> HIDE DEF B
  <2> QED
    BY <2>3
<1>4. Postfix = CHOOSE f : f = B(f)
  BY DEF Postfix
<1>5. Postfix = B(Postfix)
  <2> HIDE DEF B
  <2> QED
    BY <1>3, <1>4
<1> QED
  BY <1>5

-----------------------------------------------------------------------------
(* What Postfix gives for a part of a well-formed formula.                 *)

\* What is between lo and hi is an operand, or operands with operators between
\* them, with its parentheses closed.
Phrase(lo, hi) ==
  /\ lo \in Positions /\ hi \in Positions /\ lo <= hi
  /\ formula[lo] \in {"x", "("} /\ formula[hi] \in {"x", ")"}
  /\ \A i \in lo..hi : Depth(i) >= Depth(lo)
  /\ Depth(hi + 1) = Depth(lo)

\* A sequence of what is between lo and hi, all of it, in the order of RPN.
InOrder(s, lo, hi) ==
  /\ s \in Seq(lo..hi)
  /\ \A n \in 1..Len(s) : formula[s[n]] \notin Parens
  /\ \A k \in lo..hi : formula[k] \notin Parens => \E n \in 1..Len(s) : s[n] = k
  /\ \A m, n \in 1..Len(s) : m < n => ComesBefore(s[m], s[n])

LEMMA PhraseFacts ==
  ASSUME formula \in Seq(STRING), WellFormed, NEW lo, NEW hi, Phrase(lo, hi)
  PROVE  /\ lo \in Nat \ {0} /\ hi \in Nat \ {0} /\ lo <= hi /\ Len(formula) \in Nat
         /\ hi <= Len(formula) /\ Depth(lo) \in Int
         /\ \A i \in lo..hi :
              /\ i \in Nat \ {0} /\ Depth(i) \in Int /\ Depth(i) >= Depth(lo)
              /\ formula[i] \in Binary \cup {"x", "(", ")"}
              /\ Depth(i + 1) = Depth(i) + (IF formula[i] = "(" THEN 1
                                            ELSE IF formula[i] = ")" THEN -1 ELSE 0)
         /\ \A i \in lo..(hi - 1) :
              IF formula[i] \in {"x", ")"} THEN formula[i + 1] \in Binary \cup {")"}
                                           ELSE formula[i + 1] \in {"x", "("}
<1>1. lo \in Nat \ {0} /\ hi \in Nat \ {0} /\ lo <= hi /\ hi <= Len(formula) /\ Len(formula) \in Nat
  BY DEF Phrase, Positions
<1>2. \A i \in lo..hi : i \in Nat \ {0} /\ i \in 1..Len(formula) /\ Depth(i) >= Depth(lo)
  BY <1>1 DEF Phrase
<1>3. \A i \in lo..hi : formula[i] \in Binary \cup {"x", "(", ")"}
  BY <1>2 DEF WellFormed
<1>4. \A i \in lo..hi :
         /\ Depth(i) \in Int
         /\ Depth(i + 1) = Depth(i) + (IF formula[i] = "(" THEN 1
                                       ELSE IF formula[i] = ")" THEN -1 ELSE 0)
  BY <1>2, DepthStep
<1>5. \A i \in lo..(hi - 1) : i \in 1..(Len(formula) - 1)
  BY <1>1
<1>6. Depth(lo) \in Int
  BY <1>1, DepthStep
<1> QED
  BY <1>1, <1>2, <1>3, <1>4, <1>5, <1>6 DEF WellFormed

LEMMA BinaryTexts == "(" \notin Binary /\ ")" \notin Binary /\ "x" \notin Binary
BY DEF Binary

\* An operator outside all parentheses has a phrase on either side.
LEMMA Sides ==
  ASSUME formula \in Seq(STRING), WellFormed, NEW lo, NEW hi, Phrase(lo, hi),
         NEW k \in Outermost(lo, hi)
  PROVE  Phrase(lo, k - 1) /\ Phrase(k + 1, hi) /\ lo < k /\ k < hi
<1>1. k \in lo..hi /\ formula[k] \in Binary /\ Depth(k) = Depth(lo)
  BY DEF Outermost
<1>2. lo \in Nat \ {0} /\ hi \in Nat \ {0} /\ Len(formula) \in Nat /\ hi <= Len(formula)
  BY PhraseFacts
<1>3. k # lo /\ k # hi
  BY <1>1, BinaryTexts DEF Phrase
<1>4. lo < k /\ k < hi /\ k \in Nat /\ k - 1 \in lo..(hi - 1) /\ k \in lo..(hi - 1)
      /\ (k - 1) + 1 = k
  BY <1>1, <1>2, <1>3
<1>5. formula[k - 1] \in {"x", ")"}
  <2>1. formula[k - 1] \notin {"x", ")"} => formula[k] \in {"x", "("}
    BY <1>4, PhraseFacts
  <2> QED
    BY <1>1, <2>1, BinaryTexts
<1>6. formula[k + 1] \in {"x", "("}
  <2>1. formula[k] \notin {"x", ")"} => formula[k + 1] \in {"x", "("}
    BY <1>4, PhraseFacts
  <2> QED
    BY <1>1, <2>1, BinaryTexts
<1>7. Depth(k + 1) = Depth(lo)
  <2>1. Depth(k + 1) = Depth(k) + 0 /\ Depth(k) \in Int
    BY <1>1, BinaryTexts, PhraseFacts
  <2> QED
    BY <1>1, <2>1
<1>8. \A i \in lo..hi : Depth(i) >= Depth(lo)
  BY DEF Phrase
<1>9. Phrase(lo, k - 1)
  <2>1. \A i \in lo..(k - 1) : i \in lo..hi
    BY <1>2, <1>4
  <2> QED
    BY <1>1, <1>2, <1>4, <1>5, <1>8, <2>1 DEF Phrase, Positions
<1>10. Phrase(k + 1, hi)
  <2>1. \A i \in (k + 1)..hi : i \in lo..hi
    BY <1>2, <1>4
  <2> QED
    BY <1>2, <1>4, <1>6, <1>7, <1>8, <2>1 DEF Phrase, Positions
<1> QED
  BY <1>4, <1>9, <1>10

\* Without one, a phrase of more than an operand is in parentheses.
LEMMA Inside ==
  ASSUME formula \in Seq(STRING), WellFormed, NEW lo, NEW hi, Phrase(lo, hi), lo < hi,
         Outermost(lo, hi) = {}
  PROVE  /\ formula[lo] = "(" /\ formula[hi] = ")"
         /\ Phrase(lo + 1, hi - 1)
<1>1. /\ lo \in Nat \ {0} /\ hi \in Nat \ {0} /\ Len(formula) \in Nat /\ hi <= Len(formula)
      /\ Depth(lo) \in Int /\ lo \in lo..hi /\ hi \in lo..hi /\ lo \in lo..(hi - 1)
      /\ lo + 1 \in lo..hi /\ hi - 1 \in lo..(hi - 1)
  BY PhraseFacts
<1>2. \A i \in lo..hi : formula[i] \in Binary => Depth(i) # Depth(lo)
  BY DEF Outermost
\* A position behind lo is deeper.
<1>3. \A i \in lo..hi : formula[i] = ")" => Depth(i) # Depth(lo)
  <2> SUFFICES ASSUME NEW i \in lo..hi, formula[i] = ")", Depth(i) = Depth(lo) PROVE FALSE
    OBVIOUS
  <2>1. Depth(i + 1) = Depth(lo) - 1
    <3>1. formula[i] # "("
      OBVIOUS
    <3>2. Depth(i + 1) = Depth(i) + -1
      BY SMTT(30), <3>1, PhraseFacts
    <3> QED
      BY <1>1, <3>2
  <2>2. CASE i = hi
    BY <1>1, <2>1, <2>2 DEF Phrase
  <2>3. CASE i # hi
    <3>1. i + 1 \in lo..hi
      BY <1>1, <2>3
    <3>2. Depth(i + 1) >= Depth(lo)
      BY <3>1 DEF Phrase
    <3> QED
      BY <1>1, <2>1, <3>2
  <2> QED
    BY <2>2, <2>3
<1>4. \A i \in (lo + 1)..hi : Depth(i) # Depth(lo)
  <2> SUFFICES ASSUME NEW i \in (lo + 1)..hi, Depth(i) = Depth(lo) PROVE FALSE
    OBVIOUS
  <2>1. i \in lo..hi /\ i - 1 \in lo..(hi - 1) /\ i - 1 \in lo..hi /\ (i - 1) + 1 = i
    BY <1>1
  <2>2. formula[i] \notin Binary /\ formula[i] # ")"
    BY <1>2, <1>3, <2>1
  <2>3. formula[i - 1] \notin {"x", ")"}
    BY <2>1, <2>2, PhraseFacts
  <2>4. formula[i - 1] \in Binary \cup {"("}
    BY <2>1, <2>3, PhraseFacts
  <2>5. CASE formula[i - 1] = "("
    <3>1. Depth(i) = Depth(i - 1) + 1 /\ Depth(i - 1) \in Int /\ Depth(i - 1) >= Depth(lo)
      BY <2>1, <2>5, PhraseFacts
    <3> QED
      BY <1>1, <3>1
  <2>6. CASE formula[i - 1] \in Binary
    <3>0. formula[i - 1] # "(" /\ formula[i - 1] # ")"
      BY <2>6, BinaryTexts
    <3>1. Depth((i - 1) + 1) = Depth(i - 1) + 0 /\ Depth(i - 1) \in Int
      BY <2>1, <3>0, PhraseFacts
    <3> QED
      BY <1>2, <2>1, <2>6, <3>1
  <2> QED
    BY <2>4, <2>5, <2>6
<1>5. formula[lo] = "(" /\ Depth(lo + 1) = Depth(lo) + 1
  <2>1. Depth(lo + 1) # Depth(lo)
    BY <1>1, <1>4
  <2>2. formula[lo] = "x" => Depth(lo + 1) = Depth(lo) + 0
    BY <1>1, PhraseFacts
  <2>3. formula[lo] = "("
    BY <1>1, <2>1, <2>2 DEF Phrase
  <2> QED
    BY <1>1, <2>3, PhraseFacts
<1>6. \A i \in (lo + 1)..hi : Depth(i) \in Int /\ Depth(i) >= Depth(lo) + 1
  <2>1. \A i \in (lo + 1)..hi : i \in lo..hi
    BY <1>1
  <2>2. \A i \in (lo + 1)..hi : Depth(i) \in Int /\ Depth(i) >= Depth(lo)
    BY <2>1, PhraseFacts
  <2> QED
    BY <1>1, <1>4, <2>2
<1>7. formula[hi] = ")" /\ Depth(hi) = Depth(lo) + 1
  <2>1. hi \in (lo + 1)..hi /\ Depth(hi + 1) = Depth(lo)
    BY <1>1 DEF Phrase
  <2>2. formula[hi] = "x" => Depth(hi + 1) = Depth(hi) + 0
    BY <1>1, PhraseFacts
  <2>3. formula[hi] = ")"
    BY <1>1, <1>6, <2>1, <2>2 DEF Phrase
  <2>4. Depth(hi + 1) = Depth(hi) + -1
    BY <1>1, <2>3, PhraseFacts
  <2> QED
    BY <1>1, <1>6, <2>1, <2>3, <2>4
<1>8. formula[lo + 1] \in {"x", "("}
  BY <1>1, <1>5, PhraseFacts
<1>9. lo + 1 # hi
  BY <1>7, <1>8
<1>10. formula[hi - 1] \in {"x", ")"}
  <2>1. formula[hi - 1] \notin {"x", ")"} => formula[(hi - 1) + 1] \in {"x", "("}
    BY <1>1, PhraseFacts
  <2>2. (hi - 1) + 1 = hi
    BY <1>1
  <2> QED
    BY <1>7, <2>1, <2>2
<1>11. Phrase(lo + 1, hi - 1)
  <2>1. lo + 1 \in 1..Len(formula) /\ hi - 1 \in 1..Len(formula) /\ lo + 1 <= hi - 1
        /\ (hi - 1) + 1 = hi /\ \A i \in (lo + 1)..(hi - 1) : i \in (lo + 1)..hi
    BY <1>1, <1>9
  <2> QED
    BY <1>5, <1>6, <1>7, <1>8, <1>10, <2>1 DEF Phrase, Positions
<1> QED
  BY <1>5, <1>7, <1>11

LEMMA JoinProperties ==
  ASSUME NEW S, NEW a \in Seq(S), NEW b \in Seq(S), NEW k \in S
  PROVE  LET c == a \o b \o <<k>>
         IN  /\ c \in Seq(S)
             /\ Len(a) \in Nat /\ Len(b) \in Nat /\ Len(c) = Len(a) + Len(b) + 1
             /\ \A n \in 1..Len(a) : c[n] = a[n]
             /\ \A n \in 1..Len(b) : c[Len(a) + n] = b[n]
             /\ c[Len(c)] = k
<1> DEFINE ab == a \o b
<1>1. /\ ab \in Seq(S) /\ Len(ab) = Len(a) + Len(b) /\ Len(a) \in Nat /\ Len(b) \in Nat
      /\ \A n \in 1..(Len(a) + Len(b)) : ab[n] = IF n <= Len(a) THEN a[n] ELSE b[n - Len(a)]
  BY ConcatProperties
<1> HIDE DEF ab
<1> DEFINE one == <<k>>
           c == ab \o one
<1>2. one \in Seq(S) /\ Len(one) = 1 /\ one[1] = k
  OBVIOUS
<1> HIDE DEF one
<1>3. /\ c \in Seq(S) /\ Len(c) = Len(ab) + 1 /\ Len(ab) \in Nat
      /\ \A n \in 1..(Len(ab) + 1) : c[n] = IF n <= Len(ab) THEN ab[n] ELSE one[n - Len(ab)]
  <2>1. /\ c \in Seq(S) /\ Len(c) = Len(ab) + Len(one)
        /\ \A n \in 1..(Len(ab) + Len(one)) :
             c[n] = IF n <= Len(ab) THEN ab[n] ELSE one[n - Len(ab)]
    <3>1. ab \in Seq(S) /\ one \in Seq(S)
      BY <1>1, <1>2
    <3> QED
      BY <3>1, ConcatProperties
  <2> HIDE DEF c
  <2> QED
    BY <1>1, <1>2, <2>1
<1> HIDE DEF c
<1>4. \A n \in 1..Len(a) : c[n] = a[n]
  BY <1>1, <1>3
<1>5. ASSUME NEW n \in 1..Len(b) PROVE c[Len(a) + n] = b[n]
  <2>1. Len(a) + n \in 1..(Len(a) + Len(b)) /\ ~(Len(a) + n <= Len(a))
        /\ (Len(a) + n) - Len(a) = n
    BY <1>1
  <2>2. ab[Len(a) + n] = b[n]
    BY <1>1, <2>1
  <2> QED
    BY <1>1, <1>3, <2>1, <2>2
<1>6. c[Len(c)] = k
  <2>1. Len(c) \in 1..(Len(ab) + 1) /\ ~(Len(c) <= Len(ab)) /\ Len(c) - Len(ab) = 1
    BY <1>3
  <2> QED
    BY <1>2, <1>3, <2>1
<1> QED
  BY <1>1, <1>3, <1>4, <1>5, <1>6 DEF c, ab, one

\* What precedes an operator that is applied last is ahead of it and of what follows it.
LEMMA LeftComesFirst ==
  ASSUME formula \in Seq(STRING), WellFormed, NEW lo, NEW hi, Phrase(lo, hi),
         Outermost(lo, hi) # {},
         NEW i \in lo..(LastApplied(lo, hi) - 1), NEW j \in LastApplied(lo, hi)..hi
  PROVE  ComesBefore(i, j)
<1> DEFINE k == LastApplied(lo, hi)
<1>1. lo \in Int /\ hi \in Int /\ Depth(lo) \in Int
  BY PhraseFacts
<1>2. /\ k \in Outermost(lo, hi)
      /\ \A h \in Outermost(lo, hi) : Rank(formula[k]) <= Rank(formula[h])
  BY <1>1, LastAppliedProperties
<1> HIDE DEF k
<1>3. k \in lo..hi /\ formula[k] \in Binary /\ Depth(k) = Depth(lo)
  BY <1>2 DEF Outermost
<1>4. i \in lo..(k - 1) /\ j \in k..hi
  BY DEF k
<1>5. i < j /\ k \in (i + 1)..j /\ i \in lo..hi
  BY <1>1, <1>3, <1>4
<1>6. Depth(i) \in Int /\ Depth(i) >= Depth(lo)
  BY <1>5, PhraseFacts
<1>7. ASSUME InRightOperand(i, j) PROVE FALSE
  <2>1. /\ formula[i] \in Binary /\ Depth(k) >= Depth(i)
        /\ Depth(k) = Depth(i) => Rank(formula[k]) > Rank(formula[i])
    BY <1>3, <1>5, <1>7 DEF InRightOperand
  <2>2. Depth(i) = Depth(lo)
    BY <1>1, <1>3, <1>6, <2>1
  <2>3. i \in Outermost(lo, hi)
    BY <1>5, <2>1, <2>2 DEF Outermost
  <2>4. Rank(formula[k]) \in Nat /\ Rank(formula[i]) \in Nat
    BY <1>3, <2>1, RankType
  <2> QED
    BY <1>2, <1>3, <2>1, <2>2, <2>3, <2>4
<1> QED
  BY <1>5, <1>7 DEF ComesBefore

\* What follows it is its right operand, and comes ahead of it.
LEMMA RightComesFirst ==
  ASSUME formula \in Seq(STRING), WellFormed, ~RankedOtherwise, NEW lo, NEW hi, Phrase(lo, hi),
         Outermost(lo, hi) # {}, NEW j \in (LastApplied(lo, hi) + 1)..hi
  PROVE  ComesBefore(j, LastApplied(lo, hi))
<1> DEFINE k == LastApplied(lo, hi)
<1>1. lo \in Nat \ {0} /\ hi \in Nat /\ Depth(lo) \in Int /\ hi <= Len(formula) /\ Len(formula) \in Nat
  BY PhraseFacts
<1>2. /\ k \in Outermost(lo, hi)
      /\ \A h \in Outermost(lo, hi) :
           /\ Rank(formula[k]) <= Rank(formula[h])
           /\ Rank(formula[k]) = Rank(formula[h]) => IF formula[k] = "**" THEN k <= h ELSE k >= h
  BY <1>1, LastAppliedProperties
<1>3. j \in (k + 1)..hi
  OBVIOUS
<1> HIDE DEF k
<1>4. k \in lo..hi /\ formula[k] \in Binary /\ Depth(k) = Depth(lo)
  BY <1>2 DEF Outermost
<1>5. ASSUME NEW i \in (k + 1)..j
      PROVE  /\ Depth(i) >= Depth(k)
             /\ formula[i] \in Binary /\ Depth(i) = Depth(k) => Rank(formula[i]) > Rank(formula[k])
  <2>1. i \in lo..hi /\ k < i /\ i \in 1..Len(formula) /\ k \in 1..Len(formula)
    BY <1>1, <1>3, <1>4
  <2>2. Depth(i) >= Depth(k)
    BY <1>4, <2>1, PhraseFacts
  <2>3. ASSUME formula[i] \in Binary, Depth(i) = Depth(k)
        PROVE  Rank(formula[i]) > Rank(formula[k])
    <3>1. i \in Outermost(lo, hi)
      BY <1>4, <2>1, <2>3 DEF Outermost
    <3>2. /\ Rank(formula[i]) \in Nat /\ Rank(formula[k]) \in Nat
          /\ Rank(formula[i]) = 6 <=> formula[i] = "**"
          /\ Rank(formula[k]) = 6 <=> formula[k] = "**"
      BY <1>4, <2>3, RankType
    <3>3. ~(formula[k] = "**" /\ formula[i] = "**")
      <4>1. {formula[k], formula[i]} \notin {{">>", "<<"}, {"|", "^"}, {"**"}}
        BY <2>1 DEF RankedOtherwise
      <4> QED
        BY <4>1
    <3>4. Rank(formula[k]) # Rank(formula[i])
      <4>1. ~(k >= i)
        BY <1>1, <1>4, <2>1
      <4> QED
        BY <1>2, <3>1, <3>2, <3>3, <4>1
    <3> QED
      BY <1>2, <3>1, <3>2, <3>4
  <2> QED
    BY <2>2, <2>3
<1>6. k < j /\ ~(j < k)
  BY <1>1, <1>3, <1>4
<1>7. InRightOperand(k, j)
  BY <1>4, <1>5, <1>6 DEF InRightOperand
<1> QED
  BY <1>6, <1>7 DEF ComesBefore, k

LEMMA JoinInOrder ==
  ASSUME formula \in Seq(STRING), WellFormed, ~RankedOtherwise, NEW lo, NEW hi, Phrase(lo, hi),
         Outermost(lo, hi) # {},
         NEW left, InOrder(left, lo, LastApplied(lo, hi) - 1),
         NEW right, InOrder(right, LastApplied(lo, hi) + 1, hi)
  PROVE  InOrder(left \o right \o <<LastApplied(lo, hi)>>, lo, hi)
<1> DEFINE k == LastApplied(lo, hi)
           c == left \o right \o <<k>>
<1>1. /\ lo \in Nat \ {0} /\ hi \in Nat \ {0}
      /\ k \in lo..hi /\ formula[k] \in Binary /\ lo < k /\ k < hi
  <2>1. lo \in Nat \ {0} /\ hi \in Nat \ {0}
    BY PhraseFacts
  <2>2. k \in Outermost(lo, hi)
    BY <2>1, LastAppliedProperties
  <2> HIDE DEF k
  <2> QED
    BY <2>1, <2>2, Sides DEF Outermost
<1>2. /\ \A i \in lo..(k - 1), j \in k..hi : ComesBefore(i, j)
      /\ \A j \in (k + 1)..hi : ComesBefore(j, k)
  BY LeftComesFirst, RightComesFirst
<1>3. InOrder(left, lo, k - 1) /\ InOrder(right, k + 1, hi)
  OBVIOUS
<1> HIDE DEF k
<1>4. /\ left \in Seq(lo..hi) /\ right \in Seq(lo..hi)
      /\ \A n \in 1..Len(left) : left[n] \in lo..(k - 1) /\ formula[left[n]] \notin Parens
      /\ \A n \in 1..Len(right) : right[n] \in (k + 1)..hi /\ formula[right[n]] \notin Parens
  <2>1. lo..(k - 1) \subseteq lo..hi /\ (k + 1)..hi \subseteq lo..hi
    BY <1>1
  <2>2. left \in Seq(lo..(k - 1)) /\ right \in Seq((k + 1)..hi)
    BY <1>3 DEF InOrder
  <2>3. left \in Seq(lo..hi) /\ right \in Seq(lo..hi)
    BY <2>1, <2>2, SeqMonotonic
  <2>4. /\ \A n \in 1..Len(left) : left[n] \in lo..(k - 1)
        /\ \A n \in 1..Len(right) : right[n] \in (k + 1)..hi
    BY <2>2, ElementOfSeq
  <2> QED
    BY <1>3, <2>3, <2>4 DEF InOrder
\* Either part is in order.
<1>11. /\ \A m, n \in 1..Len(left) : m < n => ComesBefore(left[m], left[n])
       /\ \A m, n \in 1..Len(right) : m < n => ComesBefore(right[m], right[n])
  BY <1>3 DEF InOrder
<1>5. /\ c \in Seq(lo..hi)
      /\ Len(left) \in Nat /\ Len(right) \in Nat /\ Len(c) = Len(left) + Len(right) + 1
      /\ \A n \in 1..Len(left) : c[n] = left[n]
      /\ \A n \in 1..Len(right) : c[Len(left) + n] = right[n]
      /\ c[Len(c)] = k
  BY <1>1, <1>4, JoinProperties
<1> HIDE DEF c
\* Which part of the sequence a place is in.
<1>6. ASSUME NEW n \in 1..Len(c)
      PROVE  \/ n \in 1..Len(left) /\ c[n] = left[n]
             \/ \E q \in 1..Len(right) : n = Len(left) + q /\ c[n] = right[q]
             \/ n = Len(c) /\ c[n] = k
  <2>1. CASE n <= Len(left)
    BY <1>5, <2>1
  <2>2. CASE Len(left) < n /\ n <= Len(left) + Len(right)
    <3>1. PICK q \in 1..Len(right) : n = Len(left) + q
      <4>1. n - Len(left) \in 1..Len(right) /\ n = Len(left) + (n - Len(left))
        BY <1>5, <2>2
      <4> QED
        BY <4>1
    <3> QED
      BY <1>5, <3>1
  <2>3. CASE Len(left) + Len(right) < n
    BY <1>5, <2>3
  <2> QED
    BY <1>5, <2>1, <2>2, <2>3
<1>7. ASSUME NEW n \in 1..Len(c) PROVE formula[c[n]] \notin Parens
  <2>1. formula[k] \notin Parens
    BY <1>1, BinaryTexts DEF Parens
  <2>2. CASE \E q \in 1..Len(right) : c[n] = right[q]
    BY <1>4, <2>2
  <2>3. CASE n \in 1..Len(left) /\ c[n] = left[n]
    BY <1>4, <2>3
  <2> QED
    BY <1>6, <2>1, <2>2, <2>3
<1>8. ASSUME NEW i \in lo..hi, formula[i] \notin Parens
      PROVE  \E n \in 1..Len(c) : c[n] = i
  <2>1. CASE i \in lo..(k - 1)
    <3>1. PICK n \in 1..Len(left) : left[n] = i
      BY <1>3, <1>8, <2>1 DEF InOrder
    <3>2. n \in 1..Len(c)
      BY <1>5
    <3> QED
      BY <1>5, <3>1, <3>2
  <2>2. CASE i \in (k + 1)..hi
    <3>1. PICK n \in 1..Len(right) : right[n] = i
      BY <1>3, <1>8, <2>2 DEF InOrder
    <3>2. Len(left) + n \in 1..Len(c) /\ c[Len(left) + n] = i
      BY <1>5, <3>1
    <3> QED
      BY <3>2
  <2>3. CASE i = k
    <3>1. Len(c) \in 1..Len(c)
      BY <1>5
    <3> QED
      BY <1>5, <2>3, <3>1
  <2> QED
    BY <1>1, <2>1, <2>2, <2>3
<1>9. ASSUME NEW m \in 1..Len(c), NEW n \in 1..Len(c), m < n
      PROVE  ComesBefore(c[m], c[n])
  <2>1. CASE m \in 1..Len(left) /\ c[m] = left[m]
    <3>1. CASE n \in 1..Len(left) /\ c[n] = left[n]
      BY <1>9, <1>11, <2>1, <3>1
    <3>2. CASE c[n] \in k..hi
      BY <1>2, <1>4, <2>1, <3>2
    <3>3. CASE \E q \in 1..Len(right) : c[n] = right[q]
      <4>1. \A i \in (k + 1)..hi : i \in k..hi
        BY <1>1
      <4>2. c[n] \in (k + 1)..hi
        BY <1>4, <3>3
      <4> QED
        BY <3>2, <4>1, <4>2
    <3>4. CASE c[n] = k
      <4>1. k \in k..hi
        BY <1>1
      <4> QED
        BY <3>2, <3>4, <4>1
    <3> QED
      BY <1>6, <3>1, <3>3, <3>4
  <2>2. CASE \E q \in 1..Len(right) : m = Len(left) + q /\ c[m] = right[q]
    <3>1. PICK p \in 1..Len(right) : m = Len(left) + p /\ c[m] = right[p]
      BY <2>2
    <3>2. CASE \E q \in 1..Len(right) : n = Len(left) + q /\ c[n] = right[q]
      <4>1. PICK q \in 1..Len(right) : n = Len(left) + q /\ c[n] = right[q]
        BY <3>2
      <4>2. p < q
        BY <1>5, <1>9, <3>1, <4>1
      <4>3. ComesBefore(right[p], right[q])
        BY <1>11, <4>2
      <4> QED
        BY <3>1, <4>1, <4>3
    <3>3. CASE c[n] = k
      BY <1>2, <1>4, <3>1, <3>3
    <3>4. n \notin 1..Len(left)
      BY <1>5, <1>9, <3>1
    <3> QED
      BY <1>6, <3>2, <3>3, <3>4
  <2>3. m # Len(c)
    BY <1>5, <1>9
  <2> QED
    BY <1>6, <2>1, <2>2, <2>3
<1>10. InOrder(c, lo, hi)
  BY <1>5, <1>7, <1>8, <1>9 DEF InOrder
<1> QED
  BY <1>10 DEF c, k

\* Postfix gives the RPN of every phrase.
LEMMA PostfixInOrder ==
  ASSUME formula \in Seq(STRING), WellFormed, ~RankedOtherwise,
         NEW part \in Parts, Phrase(part[1], part[2])
  PROVE  InOrder(Postfix[part], part[1], part[2])
<1> DEFINE Bad == {p \in Parts : Phrase(p[1], p[2]) /\ ~InOrder(Postfix[p], p[1], p[2])}
           sizes == {Size(p) : p \in Bad}
<1>1. SUFFICES ASSUME Bad # {} PROVE FALSE
  OBVIOUS
<1>2. sizes \in SUBSET Nat /\ sizes # {}
  BY <1>1, SizeType
<1>3. PICK s \in sizes : \A r \in sizes : s <= r
  BY <1>2, LeastExists
<1>4. PICK p \in Bad : s = Size(p)
  BY <1>3
<1> DEFINE lo == p[1]
           hi == p[2]
<1>5. p \in Parts /\ Phrase(lo, hi) /\ ~InOrder(Postfix[p], lo, hi) /\ Size(p) \in Nat
  BY SizeType
<1>6. lo \in Nat \ {0} /\ hi \in Nat \ {0} /\ lo <= hi
  BY <1>5, PhraseFacts
<1>7. Postfix[p] = Split(Postfix, lo, hi)
  BY <1>5, PostfixSplits
<1>8. ASSUME NEW a \in Nat, NEW b \in Nat, Phrase(a, b), b - a < hi - lo
      PROVE  InOrder(Postfix[<<a, b>>], a, b)
  <2>1. <<a, b>> \in Parts /\ <<a, b>>[1] = a /\ <<a, b>>[2] = b
    BY DEF Parts
  <2>2. Size(<<a, b>>) \in Nat /\ Size(<<a, b>>) < Size(p)
    <3>1. lo < hi
      BY <1>6, <1>8 DEF Phrase
    <3> QED
      BY <1>6, <1>8, <2>1, <3>1 DEF Size
  <2>3. <<a, b>> \notin Bad
    <3>1. ~(s <= Size(<<a, b>>))
      BY <1>4, <1>5, <2>2
    <3> QED
      BY <1>3, <3>1
  <2> QED
    BY <1>8, <2>1, <2>3
<1> HIDE DEF Bad, sizes, lo, hi
<1>9. CASE lo = hi
  <2>1. Postfix[p] = <<lo>>
    BY <1>6, <1>7, <1>9 DEF Split
  <2>2. formula[lo] = "x" /\ lo..hi = {lo}
    BY <1>5, <1>6, <1>9 DEF Phrase
  <2>3. <<lo>> \in Seq(lo..hi) /\ Len(<<lo>>) = 1 /\ <<lo>>[1] = lo
    BY <2>2
  <2>4. InOrder(<<lo>>, lo, hi)
    <3> DEFINE one == <<lo>>
    <3>1. one \in Seq(lo..hi) /\ Len(one) = 1 /\ one[1] = lo
      BY <2>3
    <3> HIDE DEF one
    <3>2. \A n \in 1..Len(one) : n = 1
      BY <3>1
    <3>3. InOrder(one, lo, hi)
      BY <2>2, <3>1, <3>2 DEF InOrder, Parens
    <3> QED
      BY <3>3 DEF one
  <2> QED
    BY <1>5, <2>1, <2>4
<1>10. CASE lo < hi /\ Outermost(lo, hi) = {}
  <2>1. formula[lo] = "(" /\ formula[hi] = ")" /\ Phrase(lo + 1, hi - 1)
    BY <1>5, <1>10, Inside
  <2>2. lo + 1 \in Nat /\ hi - 1 \in Nat /\ (hi - 1) - (lo + 1) < hi - lo
    BY <1>6
  <2>3. InOrder(Postfix[<<lo + 1, hi - 1>>], lo + 1, hi - 1)
    BY <1>8, <2>1, <2>2
  <2>4. Postfix[p] = Postfix[<<lo + 1, hi - 1>>]
    BY <1>6, <1>7, <1>10 DEF Split
  <2>5. InOrder(Postfix[p], lo + 1, hi - 1)
    BY <2>3, <2>4
  <2>6. (lo + 1)..(hi - 1) \subseteq lo..hi
    BY <1>6
  <2>7. \A k \in lo..hi : k = lo \/ k = hi \/ k \in (lo + 1)..(hi - 1)
    BY <1>6
  <2> DEFINE rpn == Postfix[p]
  <2> HIDE DEF rpn
  <2>8. rpn \in Seq(lo..hi)
    <3>1. rpn \in Seq((lo + 1)..(hi - 1))
      BY <2>5 DEF InOrder, rpn
    <3> QED
      BY <2>6, <3>1, SeqMonotonic
  <2>9. InOrder(rpn, lo, hi)
    BY <2>1, <2>5, <2>7, <2>8 DEF InOrder, Parens, rpn
  <2> QED
    BY <1>5, <2>9 DEF rpn
<1>11. CASE lo < hi /\ Outermost(lo, hi) # {}
  <2> DEFINE k == LastApplied(lo, hi)
  <2>1. k \in Outermost(lo, hi)
    BY <1>6, <1>11, LastAppliedProperties
  <2>2. k \in lo..hi
    BY <2>1 DEF Outermost
  <2>3. Phrase(lo, k - 1) /\ Phrase(k + 1, hi) /\ lo < k /\ k < hi
    BY <1>5, <2>1, Sides
  <2>4. InOrder(Postfix[<<lo, k - 1>>], lo, k - 1)
    BY <1>6, <1>8, <2>2, <2>3
  <2>5. InOrder(Postfix[<<k + 1, hi>>], k + 1, hi)
    BY <1>6, <1>8, <2>2, <2>3
  <2>6. Postfix[p] = Postfix[<<lo, k - 1>>] \o Postfix[<<k + 1, hi>>] \o <<k>>
    <3>1. ~(lo >= hi)
      BY <1>6, <1>11
    <3> QED
      BY <1>7, <1>11, <3>1, Zenon DEF Split
  <2>7. InOrder(Postfix[p], lo, hi)
    BY <1>5, <1>11, <2>4, <2>5, <2>6, JoinInOrder
  <2> QED
    BY <1>5, <2>7
<1> QED
  BY <1>6, <1>9, <1>10, <1>11

\* Of two positions, one comes before the other, and not the other way round.
LEMMA OneComesBefore ==
  ASSUME NEW j \in Int, NEW k \in Int, ComesBefore(j, k)
  PROVE  j # k /\ ~ComesBefore(k, j)
BY DEF ComesBefore, InRightOperand

LEMMA NoneTwice ==
  ASSUME NEW lo \in Int, NEW hi \in Int, NEW s, InOrder(s, lo, hi)
  PROVE  /\ s \in Seq(Int) /\ Len(s) \in Nat
         /\ \A n \in 1..Len(s) : s[n] \in lo..hi /\ s[n] \in Int
         /\ \A m, n \in 1..Len(s) : m # n => s[m] # s[n]
<1>1. s \in Seq(lo..hi)
  BY DEF InOrder
<1>2. s \in Seq(Int)
  BY <1>1, SeqMonotonic
<1>3. \A n \in 1..Len(s) : s[n] \in lo..hi /\ s[n] \in Int
  BY <1>1, ElementOfSeq
<1>4. ASSUME NEW m \in 1..Len(s), NEW n \in 1..Len(s), m < n PROVE s[m] # s[n]
  <2>1. ComesBefore(s[m], s[n])
    BY <1>4 DEF InOrder
  <2> QED
    BY <1>3, <2>1, OneComesBefore
<1>5. \A m, n \in 1..Len(s) : m # n => m < n \/ n < m
  OBVIOUS
<1> QED
  BY <1>1, <1>2, <1>3, <1>4, <1>5

\* Two sequences of the same positions that are both in order agree as far as the
\* first one goes: neither can be the first to put another position in a place.
LEMMA Agree ==
  ASSUME NEW lo \in Int, NEW hi \in Int,
         NEW s, InOrder(s, lo, hi), NEW t, InOrder(t, lo, hi),
         NEW n \in 1..Len(s)
  PROVE  n \in 1..Len(t) /\ t[n] = s[n]
<1> DEFINE Differs == {i \in 1..Len(s) : ~(i \in 1..Len(t) /\ t[i] = s[i])}
<1>1. SUFFICES ASSUME Differs # {} PROVE FALSE
  OBVIOUS
<1>2. /\ Len(s) \in Nat /\ Len(t) \in Nat
      /\ \A i \in 1..Len(s) : s[i] \in lo..hi /\ s[i] \in Int
      /\ \A i \in 1..Len(t) : t[i] \in lo..hi /\ t[i] \in Int
      /\ \A i, j \in 1..Len(s) : i # j => s[i] # s[j]
      /\ \A i, j \in 1..Len(t) : i # j => t[i] # t[j]
  BY NoneTwice
<1>3. Differs \in SUBSET Nat
  BY <1>2
<1>4. PICK m \in Differs : \A i \in Differs : m <= i
  BY <1>1, <1>3, LeastExists
<1>5. m \in 1..Len(s) /\ ~(m \in 1..Len(t) /\ t[m] = s[m])
  OBVIOUS
<1>6. ASSUME NEW i \in 1..Len(s), i < m PROVE i \in 1..Len(t) /\ t[i] = s[i]
  BY <1>4, <1>5, <1>6
<1> HIDE DEF Differs
<1>7. PICK q \in 1..Len(t) : t[q] = s[m]
  BY <1>2, <1>5 DEF InOrder
<1>8. m < q
  <2>1. ~(q < m)
    <3>1. SUFFICES ASSUME q < m PROVE FALSE
      OBVIOUS
    <3>2. q \in 1..Len(s)
      BY <1>2, <1>5, <3>1
    <3>3. s[q] = s[m]
      BY <1>6, <1>7, <3>1, <3>2
    <3> QED
      BY <1>2, <1>5, <3>1, <3>2, <3>3
  <2>2. q # m
    BY <1>5, <1>7
  <2> QED
    BY <1>2, <1>5, <2>1, <2>2
<1>9. m \in 1..Len(t)
  BY <1>2, <1>5, <1>8
<1>10. PICK p \in 1..Len(s) : s[p] = t[m]
  BY <1>2, <1>9 DEF InOrder
<1>11. m < p
  <2>1. ~(p < m)
    <3>1. SUFFICES ASSUME p < m PROVE FALSE
      OBVIOUS
    <3>2. p \in 1..Len(t) /\ t[p] = t[m]
      BY <1>6, <1>10, <3>1
    <3> QED
      BY <1>2, <1>9, <3>1, <3>2
  <2>2. p # m
    BY <1>5, <1>9, <1>10
  <2> QED
    BY <1>2, <1>5, <2>1, <2>2
<1>12. ComesBefore(s[m], s[p])
  BY <1>5, <1>11 DEF InOrder
<1>13. ComesBefore(t[m], t[q])
  BY <1>8, <1>9 DEF InOrder
<1>14. ComesBefore(s[p], s[m])
  BY <1>7, <1>10, <1>13
<1> QED
  BY <1>2, <1>5, <1>12, <1>14, OneComesBefore

LEMMA SameOrder ==
  ASSUME NEW lo \in Int, NEW hi \in Int,
         NEW s, InOrder(s, lo, hi), NEW t, InOrder(t, lo, hi)
  PROVE  s = t
<1>1. s \in Seq(Int) /\ t \in Seq(Int) /\ Len(s) \in Nat /\ Len(t) \in Nat
  BY NoneTwice
<1>2. \A n \in 1..Len(s) : n \in 1..Len(t) /\ t[n] = s[n]
  BY Agree
<1>3. \A n \in 1..Len(t) : n \in 1..Len(s) /\ s[n] = t[n]
  BY Agree
<1>4. Len(s) = Len(t)
  <2>1. Len(s) > 0 => Len(s) \in 1..Len(t)
    BY <1>1, <1>2
  <2>2. Len(t) > 0 => Len(t) \in 1..Len(s)
    BY <1>1, <1>3
  <2> QED
    BY <1>1, <2>1, <2>2
<1> QED
  BY <1>1, <1>2, <1>4, SeqEqual

\* The RPN of a well-formed formula means what the formula means to the agent
\* that evaluates the same XML, unless it mixes >> with <<, | with ^, or has
\* more than one ** (inventory_converter.py:183-223 against pmt.py:772).
THEOREM Meaning == Spec => []RpnMeansTheFormula
<1>1. IInv => RpnMeansTheFormula
  <2> SUFFICES ASSUME IInv, result = "ok", WellFormed, ~RankedOtherwise
               PROVE  output = Postfix[<<1, Len(formula)>>]
    BY DEF RpnMeansTheFormula
  <2> DEFINE last == Len(formula)
  <2>1. /\ formula \in Seq(STRING) /\ last \in Nat \ {0}
        /\ pos = last + 1 /\ stack = <<>> /\ Positions = 1..last
    BY DEF IInv, TypeInv, ResultInv, WellFormed, Positions
  <2>2. InOrder(output, 1, last)
    <3>1. output \in Seq(1..last)
      BY <2>1 DEF IInv, TypeInv
    <3>2. \A n \in 1..Len(output) : formula[output[n]] \notin Parens
      BY <2>1, NoneOpen
    <3>3. ASSUME NEW k \in 1..last, formula[k] \notin Parens
          PROVE  \E n \in 1..Len(output) : output[n] = k
      <4>1. k \in 1..(pos - 1) /\ Len(stack) = 0
        BY <2>1
      <4> QED
        BY <3>3, <4>1 DEF IInv, PlaceInv
    <3>4. \A m, n \in 1..Len(output) : m < n => ComesBefore(output[m], output[n])
      BY OutputInOrder DEF RpnOrder
    <3> QED
      BY <3>1, <3>2, <3>3, <3>4 DEF InOrder
  <2>3. Phrase(1, last)
    <3>1. Depth(1) = 0 /\ Depth(last + 1) = 0
      <4>1. 1 \in Nat \ {0}
        OBVIOUS
      <4> QED
        BY <2>1, <4>1, DepthStep, NoneOpen
    <3>2. \A i \in 1..last : Depth(i) >= 0
      <4>1. \A i \in 1..last : i \in 1..pos
        BY <2>1
      <4> QED
        BY <2>1, <4>1 DEF IInv, DepthInv
    <3>3. 1 \in Positions /\ last \in Positions /\ 1 <= last
      BY <2>1
    <3> QED
      BY <3>1, <3>2, <3>3 DEF Phrase, WellFormed
  <2>4. InOrder(Postfix[<<1, last>>], 1, last)
    <3> DEFINE whole == <<1, last>>
    <3>1. whole \in Parts /\ whole[1] = 1 /\ whole[2] = last
      BY <2>1 DEF Parts
    <3> HIDE DEF whole
    <3>2. InOrder(Postfix[whole], whole[1], whole[2])
      BY <2>1, <2>3, <3>1, PostfixInOrder
    <3> QED
      BY <3>1, <3>2 DEF whole
  <2> QED
    BY <2>1, <2>2, <2>4, SameOrder
<1> QED
  BY <1>1, Invariance, PTL
=============================================================================
