------------------------------- MODULE Patcher -------------------------------
(***************************************************************************)
(* The candidates of one expansion: control_plane/tree_sitter_engine.py    *)
(* swaps comparison operators on the plan's target lines, and              *)
(* control_plane/smt_oracle.py prunes the candidates that it can show to   *)
(* be equivalent to the node's code.                                       *)
(*                                                                         *)
(* Both work on the text of the program: the patcher looks an operator up  *)
(* in the text of its comparison, and the oracle pairs the comparisons of  *)
(* the two programs by their place.  So the model keeps, of every operand, *)
(* its width and the operators that occur in its text.  The columns of ast *)
(* count bytes of UTF-8, the patcher's slices characters: of a string with *)
(* other characters than ASCII the model keeps how many bytes more it has. *)
(* A program is a sequence of lines, a line a sequence of comparisons      *)
(* joined by "and".                                                        *)
(***************************************************************************)
EXTENDS Integers, Sequences, FiniteSets

CONSTANTS Texts,      \* the programs to be patched
          Var,        \* variables, integers to the oracle
          MaxWidth,   \* largest max_candidates of an expansion plan
          Broken,     \* a text that is no program
          Garbled     \* any program that overwriting the wrong text makes

VARIABLES program,    \* the code of the node
          targets,    \* target_lines of the expansion plan
          limit,      \* max_candidates
          lines,      \* line_filter of the current call of the patcher
          visited,    \* comparisons that ast.walk has come to in this call
          patches,    \* candidates found
          judged,     \* candidates that the oracle has looked at
          pruned,     \* those that it pruned
          step

patcherVars == <<program, targets, limit, lines, visited, patches, judged, pruned, step>>

Swaps == [o \in {"<", "<=", ">", ">=", "==", "!="} |->
            CASE o = "<"  -> "<="  [] o = "<=" -> "<"
              [] o = ">"  -> ">="  [] o = ">=" -> ">"
              [] o = "==" -> "!="  [] o = "!=" -> "=="]

\* A comparison has two operands, an operator (one without a swap, "in", or
\* two of them, "chain", included) and may be spread over several lines.  An
\* operand is a number, a variable plus a number, a string, or a comparison
\* of plain operands in parentheses, on the left.
Num(n)    == [kind |-> "num", n |-> n]
Sum(v, n) == [kind |-> "sum", v |-> v, n |-> n]
Str(text, extra) == [kind |-> "str", text |-> text, extra |-> extra]
Par(c)    == [kind |-> "par", inner |-> c]
Compare(l, op, r, split) ==
    [left |-> l, op |-> op, right |-> r, split |-> split]

\* The operators, and what a swap within a text can make of one.
Symbol == DOMAIN Swaps \cup {"in", "chain", "<==", ">=="}

PlainOperand == [kind : {"num"}, n : 0..2] \cup [kind : {"sum"}, v : Var, n : 0..2]
                \cup [kind : {"str"}, text : Symbol, extra : Nat]
Comparison(operands) ==
    [left : operands, op : Symbol, right : PlainOperand, split : BOOLEAN]
Inner == Comparison(PlainOperand)
Text  == Seq(Seq(Comparison(PlainOperand \cup [kind : {"par"}, inner : Inner])))

ASSUME PatcherAssumption ==
    /\ MaxWidth \in Nat
    /\ Texts \subseteq Text
    /\ \A p \in Texts : \A i \in DOMAIN p : Len(p[i]) <= 2
    /\ {Broken, Garbled} \cap Texts = {}

-----------------------------------------------------------------------------
(* Places: <<line, number in the line, is it the one in parentheses>>.     *)

At(p, n) == IF n[3] THEN p[n[1]][n[2]].left.inner ELSE p[n[1]][n[2]]

Outer(p) == UNION {{<<i, j, FALSE>> : j \in DOMAIN p[i]} : i \in DOMAIN p}
Nodes(p) == Outer(p) \cup {<<n[1], n[2], TRUE>> :
                              n \in {m \in Outer(p) : At(p, m).left.kind = "par"}}

OpWidth(op) == CASE op \in {"<", ">"}     -> 1
                 [] op \in {"<==", ">=="} -> 3
                 [] OTHER                 -> 2

PlainWidth(x) == CASE x.kind = "num" -> 1
                   [] x.kind = "sum" -> IF x.n = 0 THEN 1 ELSE 5   \* x + 1
                   [] x.kind = "str" -> 2 + OpWidth(x.text) + x.extra

CompareWidth(c, leftWidth) ==
    leftWidth + 1 + OpWidth(c.op) + 1 + PlainWidth(c.right)

OperandWidth(x) ==
    IF x.kind = "par"
    THEN 2 + CompareWidth(x.inner, PlainWidth(x.inner.left))
    ELSE PlainWidth(x)

Width(c) == CompareWidth(c, OperandWidth(c.left))

\* lineno, col_offset and end_col_offset, in bytes; lines hold at most two comparisons.
Location(p, n) ==
    LET start == (IF n[2] = 1 THEN 0 ELSE Width(p[n[1]][1]) + 5)   \* " and "
                 + (IF n[3] THEN 1 ELSE 0)
    IN  <<n[1], start, start + Width(At(p, n))>>

-----------------------------------------------------------------------------
(* The patcher                                                             *)

\* Is the text op to be found in the text of another operator.
Within(op, text) ==
    text = op \/ (op = "<" /\ text = "<=") \/ (op = ">" /\ text = ">=")

\* Operators in the text of a left operand.
TextsBefore(c) == CASE c.left.kind = "str" -> {c.left.text}
                    [] c.left.kind = "par" -> {c.left.inner.op}
                    [] OTHER               -> {}

\* The program with the comparison at n replaced.
Put(p, n, c) == IF n[3] THEN [p EXCEPT ![n[1]][n[2]].left.inner = c]
                        ELSE [p EXCEPT ![n[1]][n[2]] = c]

SwapAt(p, n) == Put(p, n, [At(p, n) EXCEPT !.op = Swaps[@]])

\* segment.find(original_op) finds the first occurrence in the text of the
\* comparison, and that is where the new operator goes: inside of the left
\* operand, if the text occurs there.  A "<" that is found in "<=" makes it
\* "<==", in a string or in a program that no longer parses.
ReplaceFirst(p, n) ==
    LET c == At(p, n)
        t == CHOOSE x \in TextsBefore(c) : TRUE
    IN  CASE c.left.kind = "str" ->
                Put(p, n, [c EXCEPT !.left.text =
                              IF t = c.op THEN Swaps[t]
                              ELSE IF t = "<=" THEN "<==" ELSE ">=="])
          [] c.left.kind = "par" ->
                IF t = c.op THEN SwapAt(p, <<n[1], n[2], TRUE>>) ELSE Broken

Replaced(p, n) ==
    IF \E t \in TextsBefore(At(p, n)) : Within(At(p, n).op, t)
    THEN ReplaceFirst(p, n)
    ELSE SwapAt(p, n)

\* Bytes that an operand, and a comparison, has more than characters.
PlainExtra(x) == IF x.kind = "str" THEN x.extra ELSE 0
Extra(c) ==
    PlainExtra(c.right) + IF c.left.kind = "par"
                          THEN PlainExtra(c.left.inner.left) + PlainExtra(c.left.inner.right)
                          ELSE PlainExtra(c.left)

\* line[:start_col] with the col_offset of the comparison: by so many
\* characters the place is too far to the right.
Shift(p, n) == IF n[2] = 1 THEN 0 ELSE Extra(p[n[1]][1])

\* The candidates that may result.  At a wrong place, other text than the
\* operator is overwritten, or the text that is there already is written.
_replace_operator(p, n) ==
    IF Shift(p, n) = 0 THEN {Replaced(p, n)} ELSE {Broken, Garbled, p}

\* generate_targeted_patches leaves out what is not on a target line, chains
\* and operators without a swap, and _replace_operator what is split.
Eligible(p, n, on) ==
    /\ n[1] \in on
    /\ At(p, n).op \in DOMAIN Swaps
    /\ ~At(p, n).split

comparison_lines(p) == {i \in DOMAIN p : p[i] # <<>>}

-----------------------------------------------------------------------------
(* The oracle                                                              *)

Truth(op, x, y) == CASE op = "<"  -> x < y  [] op = "<=" -> x <= y
                     [] op = ">"  -> x > y  [] op = ">=" -> x >= y
                     [] op = "==" -> x = y  [] op = "!=" -> x # y

PlainValue(x, env) == IF x.kind = "num" THEN x.n ELSE env[x.v] + x.n

\* A truth value is 0 or 1 where a number is expected.
LeftValue(x, env) ==
    IF x.kind # "par" THEN PlainValue(x, env)
    ELSE IF Truth(x.inner.op, PlainValue(x.inner.left, env),
                  PlainValue(x.inner.right, env)) THEN 1 ELSE 0

Holds(c, env) == Truth(c.op, LeftValue(c.left, env), PlainValue(c.right, env))

\* _ast_to_z3 translates integers, sums and single comparisons.
Plain(c)     == c.left.kind # "str" /\ c.right.kind # "str" /\ c.op \in DOMAIN Swaps
Supported(c) == Plain(c) /\ (c.left.kind = "par" => Plain(c.left.inner))

\* Z3 decides over all integers; the terms differ by constants of at most 2,
\* so that an interval of that size around 0 holds a counterexample if any.
SameForAll(c, d) == \A env \in [Var -> -3..3] : Holds(c, env) = Holds(d, env)

Shared(p, q) == {n \in Nodes(p) \cap Nodes(q) : Location(p, n) = Location(q, n)}

\* The first comparison, in the order of the text, at a shared place.
First(ns, p) == CHOOSE n \in ns : \A m \in ns :
                    \/ n[1] < m[1]
                    \/ n[1] = m[1] /\ Location(p, n)[2] <= Location(p, m)[2]

\* The comparison at the first place that both programs have, changed or not.
FirstShared(p, q) == Shared(p, q)

\* Comparisons at the same place that are not the same.
ChangedAt(p, q) == {n \in Shared(p, q) : At(p, n) # At(q, n)}

is_semantically_equivalent(p, q) ==
    \/ p = q
    \/ /\ ChangedAt(p, q) # {}
       /\ LET n == First(ChangedAt(p, q), p)
          IN  /\ Supported(At(p, n))
              /\ Supported(At(q, n))
              /\ SameForAll(At(p, n), At(q, n))

-----------------------------------------------------------------------------
(* One expansion                                                           *)

PatcherInit ==
    /\ program \in Texts
    /\ targets \in SUBSET DOMAIN program
    /\ limit \in 1..MaxWidth
    /\ lines = targets
    /\ visited = {}
    /\ patches = {}
    /\ judged = {}
    /\ pruned = {}
    /\ step = "targeted"

inputs == <<program, targets, limit>>
Todo   == {n \in Nodes(program) : Eligible(program, n, lines)} \ visited

\* The next comparison of ast.walk, in an order that the model leaves open.
Visit(n) ==
    /\ step \in {"targeted", "fallback"}
    /\ Cardinality(patches) < limit
    /\ n \in Todo
    /\ visited' = visited \cup {n}
    /\ \E q \in _replace_operator(program, n) :
          patches' = patches \cup ({q} \ {program})
    /\ UNCHANGED <<inputs, lines, judged, pruned, step>>

\* A limit that is off by one.
WalkEndsEarly == Todo = {} \/ Cardinality(patches) + 1 >= limit

WalkEnds == Todo = {} \/ Cardinality(patches) >= limit

\* allow_comparison_fallback: nothing on the target lines, try all lines.
FallBack ==
    /\ step = "targeted"
    /\ WalkEnds
    /\ patches = {}
    /\ step' = "fallback"
    /\ lines' = comparison_lines(program)
    /\ visited' = {}
    /\ UNCHANGED <<inputs, patches, judged, pruned>>

StartJudging ==
    /\ WalkEnds
    /\ step = "fallback" \/ (step = "targeted" /\ patches # {})
    /\ step' = "judge"
    /\ UNCHANGED <<inputs, lines, visited, patches, judged, pruned>>

\* What the oracle may say; Garbled stands for programs it may find equal.
Verdicts(q) ==
    IF q = Garbled THEN BOOLEAN ELSE {is_semantically_equivalent(program, q)}

Judge(q) ==
    /\ step = "judge"
    /\ q \in patches \ judged
    /\ q # Broken
    /\ judged' = judged \cup {q}
    /\ \E same \in Verdicts(q) : pruned' = IF same THEN pruned \cup {q} ELSE pruned
    /\ UNCHANGED <<inputs, lines, visited, patches, step>>

\* The oracle parses the candidate outside of its try block: the SyntaxError
\* ends expand.
JudgeRaises ==
    /\ step = "judge"
    /\ Broken \in patches
    /\ step' = "raised"
    /\ UNCHANGED <<inputs, lines, visited, patches, judged, pruned>>

PatcherNext ==
    \/ \E n \in Nodes(program) : Visit(n)
    \/ FallBack
    \/ StartJudging
    \/ \E q \in patches : Judge(q)
    \/ JudgeRaises

PatcherSpec == PatcherInit /\ [][PatcherNext]_patcherVars

-----------------------------------------------------------------------------
\* The candidate is the node's code with the operator of one comparison
\* swapped, and nothing else.
IsSwap(q, on) == \E n \in Nodes(program) :
                    Eligible(program, n, on) /\ q = SwapAt(program, n)

\* The programs that the patcher can cope with: no operator occurs in the
\* text of an operand, and no other characters than ASCII come before a
\* comparison on its line.
Regular == \A n \in Nodes(program) :
              TextsBefore(At(program, n)) = {} /\ Shift(program, n) = 0

\* "Targeted, syntax-aware comparison-operator mutations" (README.md): of a
\* regular program, every candidate is the program with one comparison
\* operator swapped, and no comparison that could be swapped is missed while
\* there is room, on the target lines first and elsewhere only if there is
\* none on them.  Of other programs this cannot be said: the operator is
\* written over something else, see ReplaceFirst and Shift.
SwapsAreExact ==
    Regular =>
        /\ \A q \in patches : IsSwap(q, lines)
        /\ lines # targets =>
              \A n \in Nodes(program) : ~Eligible(program, n, targets)
        /\ step = "judge" =>
              \/ Cardinality(patches) = limit
              \/ \A n \in Nodes(program) :
                    Eligible(program, n, lines) => SwapAt(program, n) \in patches

\* The two programs agree, whatever integers the variables are.
Equivalent(p, q) ==
    \A n \in Outer(p) : \/ At(p, n) = At(q, n)
                        \/ /\ Supported(At(p, n)) /\ Supported(At(q, n))
                           /\ SameForAll(At(p, n), At(q, n))

\* The oracle looks at one pair of comparisons only, and pairs them by their
\* place in texts of different length: still, a candidate that it prunes is
\* equivalent to the node's code as a whole, if it is one that was written
\* where the comparison is.
OracleIsSound == \A q \in pruned \ {Garbled} : Equivalent(program, q)
=============================================================================
