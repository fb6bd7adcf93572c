------------------------------ MODULE MCBinds ------------------------------
(***************************************************************************)
(* The texts and the arguments of an instance for TLC.                     *)
(***************************************************************************)
EXTENDS BindPlaceholders

\* What opens, closes or escapes a comment, a string, an identifier or an
\* alternative string, and what a placeholder may be confused with.
Fragments ==
  {<<":", "a">>, <<":", "b", "1">>, <<":", "q">>, <<":">>, <<":", "=">>, <<"a">>, <<" ">>,
   <<"'">>, <<"\"">>, <<"-">>, <<"-", "-">>, <<"n">>, <<"/", "*">>, <<"*", "/">>,
   <<"q", "'">>, <<"q", "'", "[">>, <<"]", "'">>}

\* Any three fragments, and two placeholders with any fragment before, after
\* and two between them.
MCTexts ==
  {x \o y \o z : x, y, z \in Fragments \cup {<<>>}}
  \cup {w \o <<":", "a">> \o x \o y \o <<":", "b">> \o z :
          w, x, y, z \in {<<>>, <<"'">>, <<"/", "*">>, <<"*", "/">>}}

\* Texts of placeholders only, up to one more than an index can number.
MCPlaceholders ==
  {FlattenSeq(s) : s \in UNION {[1 .. n -> {<<":", "a">>, <<":", "b">>, <<":", " ">>}] : n \in 0 .. MaxBindIndex + 2}}

Argument(name, ordinal, value) == [name |-> name, ordinal |-> ordinal, value |-> value]

\* Up to three arguments, each by name or by ordinal.
ByName == [name : {<<"a">>, <<"b">>, <<"1">>}]
MCArguments ==
  UNION {[1 .. n -> ByName \cup [ordinal : 0 .. 4]] : n \in 0 .. 2}
  \cup [1 .. 3 -> {[name |-> <<"a">>], [name |-> <<"b">>], [ordinal |-> 2], [ordinal |-> 3]}]
Filled(args) ==
  [k \in DOMAIN args |->
     IF "name" \in DOMAIN args[k] THEN Argument(args[k].name, k, k)
     ELSE Argument(<<>>, args[k].ordinal, k)]

BindNext ==
  \/ \E t \in MCTexts : newQualifiedSQLStatement("select", t)
  \/ \E t \in MCPlaceholders, lead \in {"insert", "begin", "commit", "with"} :
       newQualifiedSQLStatement(lead, t)
  \/ /\ qualified # NoStatement /\ qualified.lead \in {"insert", "begin"}
     /\ \E args \in MCArguments : BindArguments(Filled(args))
=============================================================================
