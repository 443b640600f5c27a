----------------------------- MODULE MCCommands -----------------------------
(***************************************************************************)
(* Commands for TLC: lines with every command, with and without its        *)
(* arguments, with spaces in odd places, and almost three thousand         *)
(* expressions.                                                            *)
(***************************************************************************)
EXTENDS Commands

NoDirectories == <<>>

\* Words with single spaces between them.
Spoken(words) ==
  FlattenSeq([i \in 1..Len(words) |-> IF i = 1 THEN <<words[i]>> ELSE <<Space, words[i]>>])

Names == {"a", "p.bdx"}

TwoWords == ({"touch", "cat", "rm"} \X Names) \cup ({"mkdir", "cd"} \X {"a"})
Usages == {<<w>> : w \in {"touch", "write", "rm", "mv", "mkdir"}}
FileLines ==
  {Spoken(ws) : ws \in
     TwoWords \cup Usages \cup
     {<<"mv", "a", "p.bdx">>, <<"mv", "p.bdx", "a">>, <<"mv", "a">>, <<"mv", "a", "long">>,
      <<"cd", "..">>, <<"cable", "a">>, <<"write", "a">>, <<"write", "a", "1">>,
      <<"write", "p.bdx", "1">>, <<"p.bdx">>, <<"a", "p.bdx">>, <<"reboot">>}}
  \cup {<<Space, "write", Space, Space, "a", Space, Space, "1", Space>>,
        <<"write", Space, "a", Space>>, <<"cat", Space, Space, "a">>}

OtherLines ==
  {<<w>> : w \in Word \cup {"a"}}
  \cup {Spoken(ws) : ws \in {<<"touch", "long">>, <<"echo", "1", "2">>, <<"help", "1">>}}
  \cup {<<>>, <<Space, Space>>, <<"touch", "1">>}

CalcSymbol == {"0", "1", "2", "+", "-", "*", "/", "(", ")", Space, "x"}
Operator == {"+", "-", "*", "/"}
Operand == {"0", "2", "3"}
Chains == {<<a, f, b, g, c>> : a, b, c \in Operand, f, g \in Operator}
Expressions ==
  UNION {[1..n -> CalcSymbol] : n \in 1..3}
  \cup Chains
  \cup {<<"(", s[1], s[2], s[3], ")", s[4], s[5]>> : s \in Chains}
  \cup {<<s[1], s[2], "(", s[3], s[4], s[5], ")">> : s \in Chains}
  \cup {<<"1", "2", f, "7">> : f \in Operator}
  \cup {<<"1", "2", Space, f, Space, "7", Space, "-", "9", "0">> : f \in Operator}
  \cup {<<"2", f, "3", g, "1", h, "2">> : f, g, h \in Operator}
  \cup {<<"0", "-", "6", "4", "-", "6", "4">>,
        <<"(", "(", "(", "(", "(", "1">>,
        <<"1", Space, "1", Space, "1", Space, "1", Space, "1">>,
        <<"1", "-", "1", "-", "1", "-", "1", "-", "1">>,
        <<"1", "-", "2", "*", "(", "3", "-", "4", "*", "5", ")">>}
FewLines == OtherLines \cup {<<"calc", Space>> \o e : e \in Expressions}

Symbols ==
  Word \cup Names \cup {"long", ".."} \cup CalcSymbol
    \cup {Digits[d] : d \in 1..10}

\* Only data gets into files: the space and the digit.
Cells == [s \in Symbols |-> IF s = Space THEN 32 ELSE 49]
Saves == {<<49, 50>>}
\* The last one, longer than cat's buffer, is passed by no command.
AllBuffers == Saves \cup {<<49>>, <<32, 49, 32>>, <<49, 50, 49, 50>>}
=============================================================================
