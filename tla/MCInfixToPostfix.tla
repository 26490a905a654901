-------------------------- MODULE MCInfixToPostfix --------------------------
(***************************************************************************)
(* InfixToPostfix for TLC: every sequence of up to 4 tokens, formulas of 4 *)
(* operands and any 3 operators in all the ways to put parentheses, and    *)
(* formulas with an operator that has no precedence, or a bracket.         *)
(***************************************************************************)
EXTENDS InfixToPostfix, TLC

MCTokens == {"x", "(", ")", "[", "]", "+", "*", "**", ">>", "|", "~", "?"}
MCShort == UNION {[1..n -> MCTokens] : n \in 1..4}

MCOps == {"+", "*", "**", "<<", ">>", "|", "^", "&"}
MCShapes(a, b, c) ==
  { <<"x", a, "x", b, "x", c, "x">>,
    <<"(", "x", a, "x", ")", b, "x", c, "x">>,
    <<"x", a, "(", "x", b, "x", ")", c, "x">>,
    <<"x", a, "x", b, "(", "x", c, "x", ")">>,
    <<"(", "x", a, "x", ")", b, "(", "x", c, "x", ")">>,
    <<"(", "x", a, "x", b, "x", ")", c, "x">>,
    <<"x", a, "(", "x", b, "x", c, "x", ")">>,
    <<"(", "(", "x", a, "x", ")", b, "x", ")", c, "x">>,
    <<"x", a, "(", "x", b, "(", "x", c, "x", ")", ")">> }
MCLong == UNION {MCShapes(a, b, c) : a \in MCOps, b \in MCOps, c \in MCOps}

MCOdd ==
  { <<"x", "+", "x", "%", "x">>, <<"x", "%", "x", "+", "x">>,
    <<"x", "+", "(", "x", "%", "x", ")">>, <<"(", "x", "%", "x", ")", "+", "x">>,
    <<"x", "+", "(", "x", "*", "x", "]">>, <<"(", "(", "x", "]", "+", "x", "]">>,
    <<"(", "x", ")", "+", "(", "x", "]">>, <<"[", "x", ")", "+", "x">> }

MCFormulas == MCShort \cup MCLong \cup MCOdd
=============================================================================
