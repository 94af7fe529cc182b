------------------------------ MODULE Calculator ------------------------------
(***************************************************************************)
(* The inline calculator (calc.rs): precedence climbing over a token       *)
(* vector, the reading of a conversion, and civil dates. Values are terms: *)
(* what is computed from which tokens, not the floating-point result.      *)
(***************************************************************************)
EXTENDS Integers, Sequences
LOCAL INSTANCE FiniteSetsExt

CONSTANTS
  Alphabets,          \* <<tokens, length>>: the expressions checked
  Units,              \* unit names, some of which are also separators
  FirstYear, LastYear \* the years whose days are counted

ASSUME CalculatorAssumption ==
  /\ \A a \in Alphabets : a[2] \in Nat
  /\ FirstYear \in 1..9998 /\ LastYear \in FirstYear..9998

-----------------------------------------------------------------------------
(* Expressions. Tokens are "n" for a number, operators, and brackets.      *)

\* infix_bp, left and right.
InfixBp(op) ==
  CASE op = "|" -> <<1, 2>> [] op = "xor" -> <<3, 4>> [] op = "&" -> <<5, 6>>
    [] op \in {"<<", ">>"} -> <<7, 8>> [] op \in {"+", "-"} -> <<9, 10>>
    [] op \in {"*", "/", "%"} -> <<11, 12>> [] op = "^" -> <<16, 15>>
Infix == {"|", "xor", "&", "<<", ">>", "+", "-", "*", "/", "%", "^"}
Prefix == {"+", "-", "~"}

At(toks, i) == IF i \in DOMAIN toks THEN toks[i] ELSE "end"
StartsTerm(toks, i) == At(toks, i) \in Prefix \cup {"n", "("}

\* A value: its term, whether it was written as a percentage, and the position
\* after it. A percentage is one of the left operand when added to it.
Fail == [ok |-> FALSE, pos |-> 0, term |-> <<>>, percent |-> FALSE]
Plain(term, pos) == [ok |-> TRUE, pos |-> pos, term |-> term, percent |-> FALSE]
Apply(op, lhs, rhs) ==
  <<op, lhs.term, rhs.term, op \in {"+", "-"} /\ rhs.percent>>

RECURSIVE Expr(_, _, _), Climb(_, _, _)
\* Parser::expr from pos: an operand, then the loop.
Expr(toks, pos, minBp) ==
  LET t == At(toks, pos) IN
  IF t = "n" THEN Climb(toks, Plain(<<"n", pos>>, pos + 1), minBp)
  ELSE IF t \in Prefix THEN
    LET v == Expr(toks, pos + 1, 13)
    IN  IF v.ok THEN Climb(toks, Plain(<<t, v.term>>, v.pos), minBp) ELSE Fail
  ELSE IF t = "(" THEN
    LET v == Expr(toks, pos + 1, 0)
    IN  IF v.ok /\ At(toks, v.pos) = ")" THEN Climb(toks, [v EXCEPT !.pos = @ + 1], minBp) ELSE Fail
  ELSE Fail
\* Its loop: a postfix percent unless a term follows, else an infix operator
\* that binds at least as tightly as asked.
Climb(toks, lhs, minBp) ==
  LET op == At(toks, lhs.pos) IN
  IF op = "%" /\ ~StartsTerm(toks, lhs.pos + 1) THEN
    IF minBp > 12 THEN lhs
    ELSE Climb(toks, [lhs EXCEPT !.pos = @ + 1, !.term = <<"pct", @>>, !.percent = TRUE], minBp)
  ELSE IF op \notin Infix \/ InfixBp(op)[1] < minBp THEN lhs
  ELSE LET rhs == Expr(toks, lhs.pos + 1, InfixBp(op)[2])
       IN  IF rhs.ok THEN Climb(toks, Plain(Apply(op, lhs, rhs), rhs.pos), minBp) ELSE Fail

\* arithmetic: everything is consumed, and a lone number is no calculation.
Arithmetic(toks) ==
  LET v == Expr(toks, 1, 0)
  IN  IF Len(toks) >= 2 /\ v.ok /\ v.pos = Len(toks) + 1 THEN Plain(v.term, 0) ELSE Fail

-----------------------------------------------------------------------------
(* The same, top-down, from the grammar: an expression is split at the     *)
(* last operator of the loosest level in it that stands outside brackets.  *)

Levels == <<{"|"}, {"xor"}, {"&"}, {"<<", ">>"}, {"+", "-"}, {"*", "/", "%"}>>
Postfix(toks, i) == At(toks, i) = "%" /\ ~StartsTerm(toks, i + 1)
EndsOperand(toks, i) == At(toks, i) \in {"n", ")"} \/ Postfix(toks, i)
Binary(toks, i) == ~Postfix(toks, i) /\ EndsOperand(toks, i - 1)

Depth(toks, lo, i) ==
  LET count(t) == Cardinality({j \in lo..(i - 1) : toks[j] = t}) IN count("(") - count(")")
Outside(toks, lo, hi, P(_)) == {i \in lo..hi : Depth(toks, lo, i) = 0 /\ P(i)}

RECURSIVE Read(_, _, _, _), ReadFactor(_, _, _), ReadPower(_, _, _)
\* From level 1, the loosest, to the factors.
Read(toks, lo, hi, level) ==
  IF level > Len(Levels) THEN ReadFactor(toks, lo, hi)
  ELSE LET splits == Outside(toks, lo, hi, LAMBDA i : i > lo /\ toks[i] \in Levels[level] /\ Binary(toks, i))
       IN  IF splits = {} THEN Read(toks, lo, hi, level + 1)
           ELSE LET l == Read(toks, lo, Max(splits) - 1, level)
                    r == Read(toks, Max(splits) + 1, hi, level + 1)
                IN  IF l.ok /\ r.ok THEN Plain(Apply(toks[Max(splits)], l, r), 0) ELSE Fail
\* A percent sign is of everything before it in its factor.
ReadFactor(toks, lo, hi) ==
  LET signs == Outside(toks, lo, hi, LAMBDA i : i > lo /\ Postfix(toks, i)) IN
  IF signs = {} THEN ReadPower(toks, lo, hi)
  ELSE LET last == Max(signs)
           inner == ReadFactor(toks, lo, last - 1)
           value == [inner EXCEPT !.term = <<"pct", @>>, !.percent = TRUE]
           power == ReadPower(toks, last + 2, hi)
       IN  IF ~inner.ok THEN Fail
           ELSE IF last = hi THEN value
           ELSE IF toks[last + 1] = "^" /\ power.ok THEN Plain(Apply("^", value, power), 0) ELSE Fail
\* A sign is of the whole power, and a power's exponent is all that follows.
ReadPower(toks, lo, hi) ==
  IF lo > hi THEN Fail
  ELSE IF toks[lo] \in Prefix THEN
    LET v == ReadPower(toks, lo + 1, hi) IN IF v.ok THEN Plain(<<toks[lo], v.term>>, 0) ELSE Fail
  ELSE LET carets == Outside(toks, lo, hi, LAMBDA i : i > lo /\ toks[i] = "^") IN
    IF carets # {} THEN
      LET base == ReadPower(toks, lo, Min(carets) - 1)
          power == ReadPower(toks, Min(carets) + 1, hi)
      IN  IF base.ok /\ power.ok THEN Plain(Apply("^", base, power), 0) ELSE Fail
    ELSE IF lo = hi /\ toks[lo] = "n" THEN Plain(<<"n", lo>>, 0)
    ELSE IF toks[lo] = "(" /\ toks[hi] = ")" /\ Depth(toks, lo, hi) = 1
      THEN [Read(toks, lo + 1, hi - 1, 1) EXCEPT !.pos = 0]
    ELSE Fail

Reading(toks) ==
  LET v == Read(toks, 1, Len(toks), 1)
  IN  IF Len(toks) >= 2 /\ v.ok THEN Plain(v.term, 0) ELSE Fail

\* Every expression is computed as its grammar reads it, and what the grammar
\* does not read is a search: precedence, associativity, signs inside exponents,
\* and the percent sign that is sometimes a remainder.
ParsesAsWritten ==
  \A a \in Alphabets : \A n \in 1..a[2] : \A toks \in [1..n -> a[1]] :
    Arithmetic(toks) = Reading(toks)

-----------------------------------------------------------------------------
(* Conversions: a query is a sequence of words, "v" for a value.           *)

\* Split at the last separator with a word on either side; the unit converted
\* from is the last word before it, and everything before that the value.
ReadConversion(words) ==
  LET seps == {i \in 2..(Len(words) - 1) : words[i] \in {"in", "to"}}
      at == Max(seps)
      lhs == SubSeq(words, 1, at - 1)
      value == SubSeq(lhs, 1, Len(lhs) - 1)
  IN  IF \/ seps = {} \/ Len(words) # at + 1 \/ words[at + 1] \notin Units
         \/ lhs[Len(lhs)] \notin Units \/ value = <<>> \/ \E i \in DOMAIN value : value[i] # "v"
      THEN <<>> ELSE <<Len(value), lhs[Len(lhs)], words[at + 1]>>

-----------------------------------------------------------------------------
(* Dates: <<year, month, day>>.                                            *)

Leap(y) == (y % 4 = 0 /\ y % 100 # 0) \/ y % 400 = 0
DaysInMonth(y, m) ==
  IF m \in {1, 3, 5, 7, 8, 10, 12} THEN 31 ELSE IF m # 2 THEN 30 ELSE IF Leap(y) THEN 29 ELSE 28
Valid(date) ==
  /\ date[1] \in 1..9999 /\ date[2] \in 1..12
  /\ date[3] >= 1 /\ date[3] <= DaysInMonth(date[1], date[2])

\* days_from_civil, the year beginning in March. A valid year is not negative.
DaysFromCivil(date) ==
  LET y == IF date[2] <= 2 THEN date[1] - 1 ELSE date[1]
      era == y \div 400
      yoe == y - era * 400
      mp == (date[2] + 9) % 12
      doy == (153 * mp + 2) \div 5 + date[3] - 1
  IN  era * 146097 + yoe * 365 + yoe \div 4 - yoe \div 100 + doy - 719468

\* civil_from_days, of a day the clock can name.
CivilFromDays(day) ==
  LET z == day + 719468
      era == z \div 146097
      doe == z - era * 146097
      yoe == (doe - doe \div 1460 + doe \div 36524 - doe \div 146096) \div 365
      doy == doe - (365 * yoe + yoe \div 4 - yoe \div 100)
      mp == (5 * doy + 2) \div 153
      m == IF mp < 10 THEN mp + 3 ELSE mp - 9
  IN  <<yoe + era * 400 + (IF m <= 2 THEN 1 ELSE 0), m, doy - (153 * mp + 2) \div 5 + 1>>

\* parse_date of a month and a day: looked at in this year, and moved a year in
\* the direction asked when it lies in the other. None when this year has no
\* such day.
ParseDate(m, d, today, sign) ==
  LET order == (m * 32 + d) - (today[2] * 32 + today[3])
  IN  IF ~Valid(<<today[1], m, d>>) THEN <<>>
      ELSE IF sign = 1 /\ order < 0 THEN <<today[1] + 1, m, d>>
      ELSE IF sign = -1 /\ order > 0 THEN <<today[1] - 1, m, d>>
      ELSE <<today[1], m, d>>

\* date_math: what is shown for a target.
DateMath(target, today, sign) == (DaysFromCivil(target) - DaysFromCivil(today)) * sign

-----------------------------------------------------------------------------

Tomorrow(date) ==
  IF date[3] < DaysInMonth(date[1], date[2]) THEN [date EXCEPT ![3] = @ + 1]
  ELSE IF date[2] < 12 THEN <<date[1], date[2] + 1, 1>> ELSE <<date[1] + 1, 1, 1>>
Dates == {date \in (FirstYear..LastYear) \X (1..12) \X (1..31) : Valid(date)}

\* Days are counted as the calendar counts them, one by one from the epoch, and
\* today is read back from them; a month and a day mean the nearest such date in
\* the direction asked, never on the other side of today. The 29th of February
\* is left out: asked for in another year than its own it names no date.
CountsDays ==
  /\ DaysFromCivil(<<1970, 1, 1>>) = 0
  /\ \A date \in Dates : /\ DaysFromCivil(Tomorrow(date)) = DaysFromCivil(date) + 1
                         /\ CivilFromDays(DaysFromCivil(date)) = date
  /\ \A today \in {d \in Dates : d[3] \in {1, 15, 28, 31}}, m \in 1..12, d \in {1, 16, 28, 30}, sign \in {1, -1} :
       LET target == ParseDate(m, d, today, sign)
       IN  target # <<>> => Valid(target) /\ DateMath(target, today, sign) \in 0..365

\* A conversion is read as it was written, also when a unit has the name of the
\* word between them.
ReadsConversions ==
  \A from \in Units, to \in Units, sep \in {"in", "to"}, n \in 1..2 :
    ReadConversion([i \in 1..n |-> "v"] \o <<from, sep, to>>) = <<n, from, to>>
=============================================================================
