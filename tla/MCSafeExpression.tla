-------------------------- MODULE MCSafeExpression --------------------------
(***************************************************************************)
(* SafeExpression for TLC: an operator over operators over leaves, with    *)
(* limits of 4 bits, exponent 3, shift 3, and 11 nodes, which two binary   *)
(* operators over constants under a third fill.  The transformation        *)
(* declares x and not y.                                                   *)
(***************************************************************************)
EXTENDS SafeExpression, TLC

Twos == INSTANCE Bitwise

MCInt(n) == <<[op |-> "int", val |-> n]>>
MCName(v) == <<[op |-> "name", val |-> v]>>
MCUnary(op, x) == Append(x, [op |-> op, args |-> <<Len(x)>>])
MCShifted(x, by) ==
  [k \in 1..Len(x) |->
    IF x[k].op \in Constants \cup {"name"} THEN x[k]
    ELSE [op |-> x[k].op, args |-> [j \in 1..Len(x[k].args) |-> x[k].args[j] + by]]]
MCBinary(op, x, y) ==
  Append(x \o MCShifted(y, Len(x)), [op |-> op, args |-> <<Len(x), Len(x) + Len(y)>>])

MCSmall == {MCInt(n) : n \in {0, 1, 3, 15, 16}}
MCOdd == {<<[op |-> "float", val |-> 0]>>, <<[op |-> "text", val |-> "t"]>>, MCName("y"),
          MCUnary("not", MCName("x")), MCBinary("//", MCName("x"), MCInt(2))}
MCInner ==
  MCSmall \cup {MCName("x")} \cup MCOdd
    \cup {MCUnary(op, x) : op \in {"~", "neg"}, x \in MCSmall \cup {MCName("x")}}
    \cup {MCBinary(op, x, y) : op \in {"-", "*", "**", "<<", "/"},
            x \in {MCName("x"), MCInt(7)}, y \in {MCInt(n) : n \in {1, 2, 4}}}
MCExpressions ==
  {MCUnary(op, x) : op \in Unaries, x \in MCInner}
    \cup {MCBinary(op, x, y) : op \in Binaries \cup {"%"}, x \in MCInner, y \in MCInner}

MCInputs ==
  {[v \in {"x"} |-> n] : n \in {0, 3, 16}} \cup {[v \in {"y"} |-> 1]}
    \cup {[v \in {"x", "y"} |-> 2]}

\* The digits that the operators work on are those of two's complement.
MCWide == 2^(MaxBits + 1)
MCFrom(m) == IF m < MCWide \div 2 THEN m ELSE m - MCWide
ASSUME \A l, r \in -(2^MaxBits)..(2^MaxBits - 1) :
  /\ Digitwise("&", l, r) = MCFrom(Twos!&(l % MCWide, r % MCWide))
  /\ Digitwise("|", l, r) = MCFrom(Twos!|(l % MCWide, r % MCWide))
  /\ Digitwise("^", l, r) = MCFrom(Twos!^^(l % MCWide, r % MCWide))
=============================================================================
