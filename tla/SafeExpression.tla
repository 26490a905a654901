--------------------------- MODULE SafeExpression ---------------------------
(***************************************************************************)
(* PmtPlugin.prepare_safe_expression and evaluate_safe_expression          *)
(* (pmt.py:765-835): a formula of the XML files is parsed and checked once,*)
(* when its dictionary is loaded, and evaluated for every metric of every  *)
(* read, with unbounded integers and limits that keep every intermediate   *)
(* result small.  MaxBits, MaxExponent, MaxShift and MaxNodes are 256, 64, *)
(* 63 and 128 in the code.                                                 *)
(*                                                                         *)
(* An expression is the sequence of the nodes of its tree in the order in  *)
(* which evaluate returns from them: an operator behind its operands, whose*)
(* positions are its args.  Floating point is not modelled: a float is one *)
(* value, and an operation that takes it may give a float or fail.         *)
(***************************************************************************)
EXTENDS Integers, Sequences, FiniteSets

CONSTANTS
  MaxBits, MaxExponent, MaxShift, MaxNodes,
  Parameters,     \* the parameters that the transformation declares
  Inputs,         \* what metrics give: a set of functions [names -> integers]
  Expressions     \* parsed formulas: nodes [op, args] and leaves [op, val]

ASSUME LimitsAssumption ==
  /\ MaxBits \in Nat \ {0} /\ MaxExponent \in Nat /\ MaxShift \in Nat
  /\ MaxNodes \in Nat

\* BINARY_OPERATORS and UNARY_OPERATORS.
Binaries == {"+", "-", "*", "/", "**", "|", "&", "^", "<<", ">>"}
Unaries == {"pos", "neg", "~"}
Constants == {"int", "float", "text"}

ASSUME ExpressionsAssumption ==
  \A e \in Expressions :
    /\ Len(e) \in Nat \ {0} /\ DOMAIN e = 1..Len(e)
    /\ \A k \in 1..Len(e) :
         /\ e[k].op = "int" => e[k].val \in Int
         /\ e[k].op \in Unaries => e[k].args[1] \in 1..(k - 1)
         /\ e[k].op \in Binaries => e[k].args[1] \in 1..(k - 1) /\ e[k].args[2] \in 1..(k - 1)

ASSUME InputsAssumption == \A on \in Inputs : \A x \in DOMAIN on : on[x] \in Int

VARIABLES
  expression,
  prepared,   \* "no", "accepted" or "refused"
  given,      \* the inputs of the last evaluation
  results,    \* the values of the nodes that it has returned from
  outcome     \* what came of it; "running" while it runs

formulaVars == <<expression, prepared, given, results, outcome>>

IntValue(n) == [is |-> "int", val |-> n]
Float == [is |-> "float"]
Error == [is |-> "error"]
Invalid == [is |-> "invalid"]   \* a node or a name that evaluate cannot take

-----------------------------------------------------------------------------
(* Integers.                                                               *)

Abs(n) == IF n >= 0 THEN n ELSE -n

Power(l, n) ==
  LET p[k \in Nat] == IF k = 0 THEN 1 ELSE l * p[k - 1]
  IN  p[n]

BitLength(n) ==
  CHOOSE b \in 0..Abs(n) : Abs(n) < Power(2, b) /\ (b > 0 => Power(2, b - 1) <= Abs(n))

\* Digit k of two's complement, which has as many as one likes.
Digit(n, k) == (n \div Power(2, k)) % 2

Combine(op, a, b) ==
  CASE op = "&" -> a * b
    [] op = "|" -> a + b - a * b
    [] OTHER    -> (a + b) % 2

\* The operator on every digit, from the sign down, which counts negative.  Operands
\* have been checked: their digits from MaxBits on are that of the sign.
Digitwise(op, l, r) ==
  LET top[k \in 0..MaxBits] ==
        IF k = 0 THEN -Combine(op, Digit(l, MaxBits), Digit(r, MaxBits))
        ELSE 2 * top[k - 1] + Combine(op, Digit(l, MaxBits - k), Digit(r, MaxBits - k))
  IN  top[MaxBits]

\* The result of an operator on integers whose result is one.
Apply(op, l, r) ==
  CASE op = "+" -> l + r
    [] op = "-" -> l - r
    [] op = "*" -> l * r
    [] op = "**" -> Power(l, r)
    [] op = "<<" -> l * Power(2, r)
    [] op = ">>" -> l \div Power(2, r)
    [] OTHER -> Digitwise(op, l, r)

ApplyUnary(op, n) ==
  CASE op = "~" -> -n - 1
    [] op = "neg" -> -n
    [] OTHER -> n

\* A division and a negative power give a float.
GivesFloat(op, r) == op = "/" \/ (op = "**" /\ r < 0)

-----------------------------------------------------------------------------
(* evaluate_safe_expression.                                               *)

\* Mutation: a product of exponent and length that is too large passes.
RefusedUnpowered(op, l, r) ==
  \/ op = "**" /\ Abs(r) > MaxExponent
  \/ op \in {"<<", ">>"} /\ ~(r \in 0..MaxShift)
  \/ op = "<<" /\ BitLength(l) + r > MaxBits

\* The checks before an operator is applied.
Refused(op, l, r) ==
  \/ op = "**" /\ Abs(r) > MaxExponent
  \/ op = "**" /\ r >= 0 /\ BitLength(l) * r > MaxBits
  \/ op \in {"<<", ">>"} /\ ~(r \in 0..MaxShift)
  \/ op = "<<" /\ BitLength(l) + r > MaxBits

\* Mutation: the limit is not checked after the operation.
CheckedNot(n) == IntValue(n)

\* The check after every operation, and of every constant and parameter.
Checked(n) == IF BitLength(n) > MaxBits THEN Error ELSE IntValue(n)

DividesByZero(op, l, r) == (op = "/" /\ r = 0) \/ (op = "**" /\ r < 0 /\ l = 0)

BinaryInt(op, l, r) ==
  IF Refused(op, l, r) \/ DividesByZero(op, l, r) THEN Error
  ELSE IF GivesFloat(op, r) THEN Float
  ELSE Checked(Apply(op, l, r))

Binary(op, l, r) ==
  IF l.is = "int" /\ r.is = "int" THEN {BinaryInt(op, l.val, r.val)}
  ELSE IF op \in {"+", "-", "*", "/", "**"} THEN {Float, Error}
  ELSE {Error}

Unary(op, v) ==
  IF v.is = "int" THEN {Checked(ApplyUnary(op, v.val))}
  ELSE IF op = "~" THEN {Error} ELSE {Float}

\* What may come of a node.  An operator that is not in the tables is found before its
\* operands are evaluated; no expression that was accepted has one.
Returns(node) ==
  CASE node.op = "int" -> {Checked(node.val)}
    [] node.op = "float" -> {Float, Error}
    [] node.op = "text" -> {Error}
    [] node.op = "name" ->
         {IF node.val \in DOMAIN given THEN Checked(given[node.val]) ELSE Invalid}
    [] node.op \in Unaries -> Unary(node.op, results[node.args[1]])
    [] node.op \in Binaries -> Binary(node.op, results[node.args[1]], results[node.args[2]])
    [] OTHER -> {Invalid}

-----------------------------------------------------------------------------
(* prepare_safe_expression.                                                *)

\* ast.walk also finds the operator of a node, the Load of a name and the Expression.
Size == 1 + Len(expression)
          + Cardinality({k \in 1..Len(expression) : expression[k].op \notin Constants})

\* Mutation: any operation on two operands passes.
AcceptableShape(node) ==
  \/ node.op \in {"int", "float"}
  \/ node.op = "name" /\ node.val \in Parameters
  \/ node.op \notin Constants \cup {"name"} /\ (Len(node.args) = 1 => node.op \in Unaries)

Acceptable(node) ==
  \/ node.op \in {"int", "float"}
  \/ node.op = "name" /\ node.val \in Parameters
  \/ node.op \in Binaries \cup Unaries

FormulaInit ==
  /\ expression \in Expressions
  /\ prepared = "no"
  /\ given = <<>> /\ results = <<>>
  /\ outcome = [is |-> "none"]

Prepare ==
  /\ prepared = "no"
  /\ prepared' = IF Size <= MaxNodes /\ \A k \in 1..Len(expression) : Acceptable(expression[k])
                 THEN "accepted" ELSE "refused"
  /\ UNCHANGED <<expression, given, results, outcome>>

Running == outcome.is = "running"

\* A metric is read: its inputs may not be those that the transformation declares.
Read(on) ==
  /\ prepared = "accepted" /\ ~Running
  /\ given' = on
  /\ results' = <<>>
  /\ outcome' = [is |-> "running"]
  /\ UNCHANGED <<expression, prepared>>

\* One call of evaluate returns or fails.
EvaluateNode ==
  /\ Running
  /\ LET k == Len(results) + 1
     IN  \E v \in Returns(expression[k]) :
           IF v.is \in {"error", "invalid"}
           THEN results' = results /\ outcome' = v
           ELSE /\ results' = Append(results, v)
                /\ outcome' = IF k = Len(expression) THEN v ELSE outcome
  /\ UNCHANGED <<expression, prepared, given>>

FormulaNext == Prepare \/ EvaluateNode \/ \E on \in Inputs : Read(on)

FormulaSpec == FormulaInit /\ [][FormulaNext]_formulaVars

-----------------------------------------------------------------------------
(* Properties.                                                             *)

\* What Python computes for a node before it looks at its length.
RawBits(node) ==
  IF node.op \in Unaries /\ results[node.args[1]].is = "int"
  THEN BitLength(ApplyUnary(node.op, results[node.args[1]].val))
  ELSE IF node.op \in Binaries
          /\ results[node.args[1]].is = "int" /\ results[node.args[2]].is = "int"
  THEN LET l == results[node.args[1]].val
           r == results[node.args[2]].val
       IN  IF Refused(node.op, l, r) \/ GivesFloat(node.op, r) THEN 0
           ELSE BitLength(Apply(node.op, l, r))
  ELSE 0

\* No operation ever builds an integer of more than twice MaxBits, whatever the
\* formula and its inputs: powers and shifts are refused before they are computed,
\* and the operands of the others have been checked (pmt.py:809-828).
WorkBounded == Running => RawBits(expression[Len(results) + 1]) <= 2 * MaxBits

\* The value of a node without limits, where names are on; a float wherever there is
\* one.
ValueIn(node, on, value) ==
  CASE node.op = "int" -> IntValue(node.val)
    [] node.op = "name" /\ node.val \in DOMAIN on -> IntValue(on[node.val])
    [] node.op \in Unaries /\ value[node.args[1]].is = "int" ->
         IntValue(ApplyUnary(node.op, value[node.args[1]].val))
    [] /\ node.op \in Binaries
       /\ value[node.args[1]].is = "int" /\ value[node.args[2]].is = "int"
       /\ ~GivesFloat(node.op, value[node.args[2]].val) ->
         IntValue(Apply(node.op, value[node.args[1]].val, value[node.args[2]].val))
    [] OTHER -> Float

Ideal[k \in 1..Len(expression)] == ValueIn(expression[k], given, Ideal)

\* An integer that is returned is within the limit, and is the exact value: the
\* limits refuse, they never truncate (pmt.py:809-828).
IntegersExact ==
  outcome.is = "int" =>
    BitLength(outcome.val) <= MaxBits /\ outcome = Ideal[Len(expression)]

\* What the check at load time lets pass can be evaluated: if a metric gives every
\* parameter a value, an evaluation fails only for what it computes, never for
\* what the formula consists of (pmt.py:776-791, 802-825).
AcceptedIsEvaluable ==
  Parameters \subseteq DOMAIN given => outcome.is # "invalid"
=============================================================================
