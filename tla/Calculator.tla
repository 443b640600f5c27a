----------------------------- MODULE Calculator -----------------------------
(***************************************************************************)
(* The calculator, app/utils/calculator.c: infix to postfix with a stack   *)
(* of operators, evaluation with a stack of numbers, and print_int() for   *)
(* the result.  Texts are sequences of characters, each a string of length *)
(* one.  The stacks and the postfix text are arrays of the caller's frame, *)
(* written without a bounds check: a text that needs more of them leaves   *)
(* the program "astray".  A division the processor refuses is an           *)
(* "exception".                                                            *)
(***************************************************************************)
EXTENDS Integers, SequencesExt

CONSTANTS
  StackSize,    \* entries of either stack, 32
  PostfixSize,  \* bytes of postfix, 256
  IntLimit      \* an int lies in -IntLimit .. IntLimit - 1

ASSUME CalculatorSizes ==
  /\ StackSize \in Nat \ {0}
  /\ PostfixSize \in Nat /\ PostfixSize >= 2 * StackSize
  /\ IntLimit \in Nat \ {0}

Digits == <<"0", "1", "2", "3", "4", "5", "6", "7", "8", "9">>
IsDigit(c) == \E d \in 1..10 : Digits[d] = c
DigitValue(c) == (CHOOSE d \in 1..10 : Digits[d] = c) - 1
Space == " "

Int32(n) == ((n + IntLimit) % (2 * IntLimit)) - IntLimit
Abs(n) == IF n < 0 THEN -n ELSE n
Sign(n) == IF n < 0 THEN -1 ELSE 1

precedence(op) ==
  CASE op \in {"+", "-"} -> 1
    [] op \in {"*", "/"} -> 2
    [] OTHER -> 0

\* The divide error of idiv.
Traps(a, b, op) == op = "/" /\ (b = 0 \/ (a = -IntLimit /\ b = -1))

\* / truncates towards zero; any other character counts as an operator too.
apply_op(a, b, op) ==
  CASE op = "+" -> Int32(a + b)
    [] op = "-" -> Int32(a - b)
    [] op = "*" -> Int32(a * b)
    [] op = "/" -> Sign(a) * Sign(b) * (Abs(a) \div Abs(b))
    [] OTHER -> 0

-----------------------------------------------------------------------------
(* infix_to_postfix()                                                      *)

\* The operators of a stack above the first keep entries, from the top down,
\* each with a space behind it.
Popped(stack, keep) ==
  LET out[k \in 0..Len(stack)] ==
        LET op == stack[Len(stack) + 1 - k]
        IN  IF k = 0 THEN <<>>
            ELSE out[k - 1] \o (IF op = "(" THEN <<>> ELSE <<op, Space>>)
  IN  out[Len(stack) - keep]

\* Fault: an operator of the same precedence stays on the stack.
KeptBelowStrict(stack, op) ==
  Max({0} \cup {i \in 1..Len(stack) :
                  stack[i] = "(" \/ precedence(stack[i]) <= precedence(op)})

\* How much of the stack the operator op leaves.
KeptBelow(stack, op) ==
  Max({0} \cup {i \in 1..Len(stack) :
                  stack[i] = "(" \/ precedence(stack[i]) < precedence(op)})

OpenParen(stack) == Max({0} \cup {i \in 1..Len(stack) : stack[i] = "("})

\* The loop's body for the character at i.
InfixStep(infix, s, i) ==
  LET c == infix[i]
      ends == i = Len(infix) \/ ~IsDigit(infix[i + 1])
      keep == IF c = ")" THEN OpenParen(s.stack) ELSE KeptBelow(s.stack, c)
      left == SubSeq(s.stack, 1, keep)
  IN  CASE c = Space -> s
        [] IsDigit(c) -> [s EXCEPT !.out = @ \o (IF ends THEN <<c, Space>> ELSE <<c>>)]
        [] c = "(" -> [s EXCEPT !.stack = Append(@, c), !.high = Max({@, Len(s.stack) + 1})]
        [] c = ")" -> [s EXCEPT !.out = @ \o Popped(s.stack, keep),
                                !.stack = IF keep = 0 THEN left ELSE Front(left)]
        [] OTHER -> [s EXCEPT !.out = @ \o Popped(s.stack, keep),
                              !.stack = Append(left, c), !.high = Max({@, keep + 1})]

\* The postfix text, the terminator in place of its last space, and the
\* largest depth of the stack.
infix_to_postfix(infix) ==
  LET after[i \in 0..Len(infix)] ==
        IF i = 0 THEN [out |-> <<>>, stack |-> <<>>, high |-> 0]
        ELSE InfixStep(infix, after[i - 1], i)
      s == after[Len(infix)]
      out == s.out \o Popped(s.stack, 0)
  IN  [text |-> IF out = <<>> THEN out ELSE Front(out), high |-> s.high]

-----------------------------------------------------------------------------
(* evaluate_postfix()                                                      *)

\* The body for the character at i; a digit behind a digit goes on with the
\* number on top.
PostfixStep(postfix, s, i) ==
  LET c == postfix[i]
      top == Len(s.stack)
      val1 == s.stack[top - 1]
      val2 == s.stack[top]
      goes_on == i > 1 /\ IsDigit(postfix[i - 1])
  IN  IF s.end # "value" \/ c = Space THEN s
      ELSE CASE IsDigit(c) /\ goes_on -> [s EXCEPT !.stack[top] = Int32(10 * @ + DigitValue(c))]
             [] IsDigit(c) /\ ~goes_on -> [s EXCEPT !.stack = Append(@, DigitValue(c)),
                                                    !.high = Max({@, top + 1})]
             [] ~IsDigit(c) /\ top < 2 -> [s EXCEPT !.end = "malformed"]
             [] ~IsDigit(c) /\ top >= 2 /\ Traps(val1, val2, c) -> [s EXCEPT !.end = "exception"]
             [] OTHER -> [s EXCEPT !.stack = Append(SubSeq(@, 1, top - 2),
                                                    apply_op(val1, val2, c))]

\* Too few operands and left-over numbers both give 0.
evaluate_postfix(postfix) ==
  LET after[i \in 0..Len(postfix)] ==
        IF i = 0 THEN [stack |-> <<>>, high |-> 0, end |-> "value"]
        ELSE PostfixStep(postfix, after[i - 1], i)
      s == after[Len(postfix)]
      end == IF s.end = "exception" THEN s.end ELSE "value"
  IN  [end |-> IF s.high > StackSize THEN "astray" ELSE end,
       value |-> IF s.end = "value" /\ Len(s.stack) = 1 THEN s.stack[1] ELSE 0]

-----------------------------------------------------------------------------
(* print_int(); the smallest int is its own negation, and its remainders   *)
(* are no digits                                                           *)

DecimalDigits[n \in Nat] ==
  IF n = 0 THEN <<>> ELSE Append(DecimalDigits[n \div 10], Digits[(n % 10) + 1])

print_int(n) ==
  IF n = 0 THEN <<"0">>
  ELSE IF n = -IntLimit THEN <<"-", "garbled">>
  ELSE (IF n < 0 THEN <<"-">> ELSE <<>>) \o DecimalDigits[Abs(n)]

\* What `calc' shows for an expression.
calculator_main(expression) ==
  LET postfix == infix_to_postfix(expression)
      result == evaluate_postfix(postfix.text)
  IN  IF postfix.high > StackSize \/ Len(postfix.text) + 1 > PostfixSize
      THEN [end |-> "astray", text |-> <<>>]
      ELSE [end |-> result.end,
            text |-> IF result.end = "value" THEN print_int(result.value) ELSE <<>>]

-----------------------------------------------------------------------------
(***************************************************************************)
(* The reference: what an expression means in school arithmetic, by its    *)
(* grammar and not by stacks.  <<>> when it is no expression, divides by   *)
(* zero, or has a part that is no int.                                     *)
(***************************************************************************)
NumberOf(digits) ==
  LET number[k \in 0..Len(digits)] ==
        IF k = 0 THEN 0 ELSE 10 * number[k - 1] + DigitValue(digits[k])
  IN  number[Len(digits)]

\* The parentheses of e that are open at k, from i on.
Depth(e, i, k) ==
  Cardinality({q \in i..(k - 1) : e[q] = "("}) - Cardinality({q \in i..(k - 1) : e[q] = ")"})

\* The operators in ops that stand in e[i..j] outside parentheses, operands
\* around them.
Splits(e, i, j, ops) == {k \in (i + 1)..(j - 1) : e[k] \in ops /\ Depth(e, i, k) = 0}

Combine(a, b, op) ==
  IF a = <<>> \/ b = <<>> \/ (op = "/" /\ b = <<0>>) THEN <<>>
  ELSE LET v == CASE op = "+" -> a[1] + b[1]
                  [] op = "-" -> a[1] - b[1]
                  [] op = "*" -> a[1] * b[1]
                  [] op = "/" -> IF (a[1] >= 0) = (b[1] > 0)
                                 THEN Abs(a[1]) \div Abs(b[1])
                                 ELSE -(Abs(a[1]) \div Abs(b[1]))
       IN  IF v \in (-IntLimit)..(IntLimit - 1) THEN <<v>> ELSE <<>>

\* The value of e[i..j], given the values of its parts.  The last operator
\* outside parentheses, of those that bind least, is applied last.
PartValue(e, value, i, j) ==
  LET sums == Splits(e, i, j, {"+", "-"})
      products == Splits(e, i, j, {"*", "/"})
      k == Max(IF sums # {} THEN sums ELSE products)
      number == NumberOf(SubSeq(e, i, j))
  IN  IF i > j THEN <<>>
      ELSE IF \A q \in i..j : IsDigit(e[q])
        THEN IF number < IntLimit THEN <<number>> ELSE <<>>
      ELSE IF sums \cup products # {}
        THEN Combine(value[<<i, k - 1>>], value[<<k + 1, j>>], e[k])
      ELSE IF e[i] = "(" /\ e[j] = ")" /\ i < j THEN value[<<i + 1, j - 1>>]
      ELSE <<>>

Meaning(e) ==
  LET value[p \in (1..Len(e)) \X (0..Len(e))] == PartValue(e, value, p[1], p[2])
  IN  IF e = <<>> THEN <<>> ELSE value[<<1, Len(e)>>]

\* The number a printed text denotes.
Denoted(text) == IF text[1] = "-" THEN -NumberOf(Tail(text)) ELSE NumberOf(text)

\* A text without its spaces.
Unspaced(text) ==
  LET squeezed[i \in 0..Len(text)] ==
        IF i = 0 THEN <<>>
        ELSE IF text[i] = Space THEN squeezed[i - 1] ELSE Append(squeezed[i - 1], text[i])
  IN  squeezed[Len(text)]

\* No space stands between two digits.
Spaced(e) ==
  \A i, j \in 1..Len(e) :
    i + 1 < j /\ IsDigit(e[i]) /\ IsDigit(e[j]) =>
      \E k \in (i + 1)..(j - 1) : e[k] # Space
=============================================================================
