----------------------------- MODULE MCPrograms -----------------------------
(* For the patcher, programs with nested, repeated, quoted, chained and     *)
(* split comparisons, some with text that is not ASCII; for the audit,      *)
(* three of six daemons, two fixtures.                                      *)
EXTENDS Programs

Ops     == DOMAIN Swaps
Operand == {Sum("x", 0), Sum("x", 1), Sum("y", 0), Num(2)}
Simple  == {Compare(l, o, r, FALSE) : l \in Operand, o \in Ops, r \in Operand}
Nested  == {Compare(Par(Compare(Sum("x", 0), i, Sum("y", 0), FALSE)), o, r, FALSE) :
               i \in Ops, o \in Ops, r \in {Num(0), Num(2), Sum("x", 1)}}
Quoted  == {Compare(Str(t, 0), o, Sum("x", 0), FALSE) : t \in {"<", "<=", ">="}, o \in Ops}
Odd     == {Compare(Sum("x", 0), o, Sum("y", 0), FALSE) : o \in {"in", "chain"}}
           \cup {Compare(Sum("x", 0), o, Sum("y", 0), TRUE) : o \in {"<", "=="}}
Foreign == {Compare(Sum("x", 0), "==", Str("<", 1), FALSE),
            Compare(Str(">=", 2), "!=", Sum("y", 0), FALSE)}
Few     == {Compare(Sum("x", 0), o, Sum("x", 1), FALSE) : o \in {"<", "==", ">="}}

MCTexts ==
    {<< <<c>>, <<>> >> : c \in Simple \cup Quoted \cup Odd}
    \cup {<< <<c>>, <<d>> >> : c \in Few \cup Odd \cup Nested, d \in Few}
    \cup {<< <<c, d>>, <<>> >> : c \in Nested \cup Few \cup Foreign, d \in Few}
    \cup {<< <<c, d>>, <<e>> >> : c \in Foreign, d \in Quoted, e \in Few}
    \cup {<< <<d, c>>, <<>> >> : c \in Foreign, d \in Nested}

MCServices == <<"global_memory", "telemetry_api", "forest_worker">>
MCFixtures == <<"sample_repo", "medium_repo">>
=============================================================================
