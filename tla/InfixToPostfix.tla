--------------------------- MODULE InfixToPostfix ---------------------------
(***************************************************************************)
(* InfixToPostfixTransformator.transform (inventory_converter.py:179-226): *)
(* the formula of a transformation becomes RPN, one token or one pop of    *)
(* the stack at a time.  Python's tokenizer, which runs first, counts the  *)
(* brackets of all kinds together and refuses a formula that opens more or *)
(* fewer than it closes.                                                   *)
(*                                                                         *)
(* A token is its text; "x" stands for a number or a name with its "$",    *)
(* and any text that is no operator below for a token that is neither: a   *)
(* string, say.  The output and the stack hold positions in the formula,   *)
(* so that two operands are told apart.                                    *)
(***************************************************************************)
EXTENDS Integers, Sequences, FiniteSets

CONSTANT Formulas    \* the token sequences to convert

ASSUME FormulasAssumption == Formulas \subseteq Seq(STRING)

VARIABLES
  formula,    \* sanitized_tokens
  pos,        \* the token the loop is at, 0 before the tokenizer
  output,     \* t_output
  stack,      \* t_stack, its top last
  result      \* "run", "ok" or the exception raised

vars == <<formula, pos, output, stack, result>>

\* Mutation: "&" is ranked as "|" is.
PrecedenceFlat(op) ==
  CASE op \in {"^", "|", "&"} -> 0
    [] op = ">>" -> 2
    [] op = "<<" -> 3
    [] op \in {"+", "-"} -> 4
    [] op \in {"*", "/"} -> 5
    [] op = "**" -> 6

Precedence(op) ==
  CASE op \in {"^", "|"} -> 0
    [] op = "&" -> 1
    [] op = ">>" -> 2
    [] op = "<<" -> 3
    [] op \in {"+", "-"} -> 4
    [] op \in {"*", "/"} -> 5
    [] op = "**" -> 6

Binary == {"^", "|", "&", ">>", "<<", "+", "-", "*", "/", "**"}

\* The other tokens that the tokenizer calls OP: to transform they are operators.
Unlisted ==
  {"~", "%", "//", "@", "[", "]", "{", "}", ",", ":", ";", ".", "...", "->", "=", ":=",
   "==", "!=", "<", ">", "<=", ">=", "+=", "-=", "*=", "/=", "//=", "%=", "@=", "&=",
   "|=", "^=", ">>=", "<<=", "**="}

Operators == Binary \cup Unlisted

Opening == {"(", "[", "{"}
Closing == {")", "]", "}"}

Top == formula[stack[Len(stack)]]

\* Mutation: a "(" on the stack is looked up as an operator is.
BlockedIfEmpty == stack = <<>>

\* Nothing is left to pop, or a "(" stops it.
Blocked == stack # <<>> => Top = "("

\* Mutation: an operator of the same precedence is not popped.
PopsStrictly(top, op) == Precedence(top) > Precedence(op)

\* The operator on top is popped before op is pushed.
Pops(top, op) == Precedence(top) >= Precedence(op)

Init ==
  /\ formula \in Formulas
  /\ pos = 0
  /\ output = <<>>
  /\ stack = <<>>
  /\ result = "run"

Running == result = "run" /\ pos \in 1..Len(formula)
Token == formula[pos]

Raise(exception) ==
  /\ result' = exception
  /\ UNCHANGED <<formula, pos, output, stack>>

Count(tokens, upto) == Cardinality({j \in 1..upto : formula[j] \in tokens})

Tokenize ==
  /\ result = "run" /\ pos = 0
  /\ IF Count(Opening, Len(formula)) = Count(Closing, Len(formula))
     THEN pos' = 1 /\ UNCHANGED <<formula, output, stack, result>>
     ELSE Raise("TokenError")

Operand ==
  /\ Running /\ Token = "x"
  /\ output' = Append(output, pos)
  /\ pos' = pos + 1
  /\ UNCHANGED <<formula, stack, result>>

Push == stack' = Append(stack, pos)
Drop == stack' = SubSeq(stack, 1, Len(stack) - 1)

OpenParen ==
  /\ Running /\ Token = "("
  /\ Push
  /\ pos' = pos + 1
  /\ UNCHANGED <<formula, output, result>>

\* Mutation: an operator is popped and forgotten.
PopLost ==
  /\ Drop
  /\ UNCHANGED <<formula, pos, output, result>>

\* t_output.append(t_stack.pop())
Pop ==
  /\ output' = Append(output, stack[Len(stack)])
  /\ Drop
  /\ UNCHANGED <<formula, pos, result>>

PopForParen ==
  /\ Running /\ Token = ")"
  /\ ~Blocked
  /\ Pop

CloseParen ==
  /\ Running /\ Token = ")"
  /\ stack # <<>> /\ Top = "("
  /\ Drop
  /\ pos' = pos + 1
  /\ UNCHANGED <<formula, output, result>>

\* The stack is empty, a SyntaxError, or the loop has emptied it and t_stack[-1]
\* fails.
CloseParenFails ==
  /\ Running /\ Token = ")"
  /\ stack = <<>>
  /\ Raise("unbalanced")

\* The table of precedences does not have one of the two.
Unranked == ~({Top, Token} \subseteq Binary)

PopForOperator ==
  /\ Running /\ Token \in Operators
  /\ ~Blocked /\ ~Unranked /\ Pops(Top, Token)
  /\ Pop

Operator ==
  /\ Running /\ Token \in Operators
  /\ ~Blocked => ~Unranked /\ ~Pops(Top, Token)
  /\ Push
  /\ pos' = pos + 1
  /\ UNCHANGED <<formula, output, result>>

OperatorFails ==
  /\ Running /\ Token \in Operators
  /\ ~Blocked /\ Unranked
  /\ Raise("KeyError")

BadToken ==
  /\ Running /\ Token \notin Operators \cup {"x", "(", ")"}
  /\ Raise("SyntaxError")

\* What is left on the stack goes to the output, a "(" too.
Drain ==
  /\ result = "run" /\ pos = Len(formula) + 1
  /\ stack # <<>>
  /\ Pop

Return ==
  /\ result = "run" /\ pos = Len(formula) + 1
  /\ stack = <<>>
  /\ result' = "ok"
  /\ UNCHANGED <<formula, pos, output, stack>>

Next ==
  \/ Tokenize
  \/ Operand
  \/ OpenParen
  \/ PopForParen
  \/ CloseParen
  \/ CloseParenFails
  \/ PopForOperator
  \/ Operator
  \/ OperatorFails
  \/ BadToken
  \/ Drain
  \/ Return

Spec == Init /\ [][Next]_vars

-----------------------------------------------------------------------------
(* The meaning of a formula, as Python's ast.parse reads it (pmt.py:772).  *)

Rank(op) ==
  CASE op = "|" -> 0
    [] op = "^" -> 1
    [] op = "&" -> 2
    [] op \in {">>", "<<"} -> 3
    [] op \in {"+", "-"} -> 4
    [] op \in {"*", "/"} -> 5
    [] op = "**" -> 6

\* Parentheses open before position k.
Depth(k) == Count({"("}, k - 1) - Count({")"}, k - 1)

Balanced ==
  /\ \A k \in 1..Len(formula) : Count({")"}, k) <= Count({"("}, k)
  /\ Count({"("}, Len(formula)) = Count({")"}, Len(formula))

\* Operands and binary operators alternate.
WellFormed ==
  /\ Balanced
  /\ formula # <<>>
  /\ \A k \in 1..Len(formula) : formula[k] \in Binary \cup {"x", "(", ")"}
  /\ formula[1] \in {"x", "("}
  /\ formula[Len(formula)] \in {"x", ")"}
  /\ \A k \in 1..(Len(formula) - 1) :
       IF formula[k] \in {"x", ")"} THEN formula[k + 1] \in Binary \cup {")"}
                                    ELSE formula[k + 1] \in {"x", "("}

\* The operators between lo and hi that are in no parentheses there.
Outermost(lo, hi) == {k \in lo..hi : formula[k] \in Binary /\ Depth(k) = Depth(lo)}

\* The operator that is applied last between positions lo and hi.
LastApplied(lo, hi) ==
  LET weakest == {k \in Outermost(lo, hi) :
                    \A j \in Outermost(lo, hi) : Rank(formula[k]) <= Rank(formula[j])}
  IN  CHOOSE k \in weakest :
        \A j \in weakest : IF formula[k] = "**" THEN k <= j ELSE k >= j

\* The RPN of what is between lo and hi, given the RPN of shorter parts.
Split(rpn, lo, hi) ==
  IF lo >= hi THEN <<lo>>
  ELSE IF Outermost(lo, hi) = {} THEN rpn[<<lo + 1, hi - 1>>]
  ELSE LET k == LastApplied(lo, hi)
       IN  rpn[<<lo, k - 1>>] \o rpn[<<k + 1, hi>>] \o <<k>>

Parts == Int \X Int    \* first and last position

Postfix[part \in Parts] == Split(Postfix, part[1], part[2])

\* Position k belongs to the right operand of the binary operator at j: no
\* parenthesis around j closes before k, and no operator there takes what is
\* left of it, operator j included, as its left operand.
InRightOperand(j, k) ==
  /\ j < k /\ formula[j] \in Binary
  /\ \A i \in (j + 1)..k :
       /\ Depth(i) >= Depth(j)
       /\ formula[i] \in Binary /\ Depth(i) = Depth(j) => Rank(formula[i]) > Rank(formula[j])

\* Operands and operators keep their order, but an operator comes behind all of its
\* right operand.
ComesBefore(j, k) == IF j < k THEN ~InRightOperand(j, k) ELSE InRightOperand(k, j)

\* Operators the converter ranks otherwise than Python, side by side.
RankedOtherwise ==
  \E j, k \in 1..Len(formula) :
    /\ j < k
    /\ {formula[j], formula[k]} \in {{">>", "<<"}, {"|", "^"}, {"**"}}

-----------------------------------------------------------------------------
(* Properties.                                                             *)

\* The RPN of a well-formed formula means what the formula means to the agent
\* that evaluates the same XML, unless it mixes >> with <<, | with ^, or has
\* more than one ** (inventory_converter.py:183-223 against pmt.py:772).
RpnMeansTheFormula ==
  result = "ok" /\ WellFormed /\ ~RankedOtherwise
    => output = Postfix[<<1, Len(formula)>>]

\* An operator comes behind all of its right operand and ahead of all that follows
\* it; nothing else changes places (inventory_converter.py:198-223).
RpnOrder ==
  result = "ok" /\ WellFormed /\ ~RankedOtherwise =>
    \A m, n \in 1..Len(output) : m < n => ComesBefore(output[m], output[n])

\* No ")" closes the "(" at k.
LeftOpen(k) ==
  formula[k] = "(" /\ \A i \in (k + 1)..(Len(formula) + 1) : Depth(i) > Depth(k)

\* Whatever the tokens are, the operands and operators of a converted formula come
\* out exactly once, each ")" closed a "(", and of the parentheses just those "("
\* come out that nothing closes: only a ")" is checked here, and a "(" too many
\* passes the tokenizer if a bracket of another kind makes up for it, as in "(x]",
\* whose RPN is "x ] (" (inventory_converter.py:163-168, 195-223).
NothingLostOrRepeated ==
  result = "ok" =>
    /\ \A k \in 1..Len(formula) : Count({")"}, k) <= Count({"("}, k)
    /\ \A n \in 1..Len(output) : output[n] \in 1..Len(formula)
    /\ \A k \in 1..Len(formula) :
         Cardinality({n \in 1..Len(output) : output[n] = k}) =
           IF formula[k] \in {"(", ")"} /\ ~LeftOpen(k) THEN 0 ELSE 1

\* Positions j and k lie in the same part of the formula: no parenthesis that is
\* open at j closes before k, and those that open behind j close.
SamePart(j, k) == Depth(k) = Depth(j) /\ \A i \in j..k : Depth(i) >= Depth(j)

\* Two operators of the same part, one of them without a precedence.
Unordered(j, k) ==
  /\ j < k /\ SamePart(j, k)
  /\ formula[j] \in Operators /\ formula[k] \in Operators
  /\ ~({formula[j], formula[k]} \subseteq Binary)

\* A formula is refused only for what is strange about it: an operator without a
\* precedence only next to another operator of the same part ("x % x" is
\* converted, "x + x % x" is not), a parenthesis only if nothing opens it or the
\* brackets do not come in pairs, and any other token only if it is no OP, NUMBER
\* or NAME (inventory_converter.py:163-168, 195-220).
RefusedOnlyIfStrange ==
  /\ result = "KeyError" => \E j, k \in 1..Len(formula) : Unordered(j, k)
  /\ result = "unbalanced" =>
       \E k \in 1..Len(formula) : Count({")"}, k) > Count({"("}, k)
  /\ result = "TokenError" => Count(Opening, Len(formula)) # Count(Closing, Len(formula))
  /\ result = "SyntaxError" => Token \notin Operators \cup {"x", "(", ")"}
=============================================================================
