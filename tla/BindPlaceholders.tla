-------------------------- MODULE BindPlaceholders --------------------------
(***************************************************************************)
(* How a statement's text is classified (sqlkind.go), how the placeholders *)
(* in it are found and how the arguments of an execution are put in their  *)
(* places (sql_namedvalue_parser.go).  A text is its leading word and a    *)
(* sequence of characters: one letter stands for others of its kind, "n"   *)
(* for the end of a line and the space for the white space q'' refuses.    *)
(***************************************************************************)
EXTENDS Integers, Sequences, SequencesExt

CONSTANT MaxBindIndex       \* maxBindIndex, 2^16 - 1 in the code

VARIABLES
  qualified,    \* the qualifiedSQLStatement made from the last text
  bound         \* the arguments of its last execution and what became of them

bindVars == <<qualified, bound>>

NoStatement == [st |-> "none"]
NotBound == [st |-> "none"]
BindInit == qualified = NoStatement /\ bound = NotBound

-----------------------------------------------------------------------------
(* The text. *)

_sqlKindMap ==
  [w \in {"select"} |-> "select_"] @@
  [w \in {"insert", "update", "delete", "merge"} |-> "dml"] @@
  [w \in {"call", "begin", "declare"} |-> "plsql"] @@
  [w \in {"create", "alter", "drop", "truncate", "rename", "comment", "grant", "revoke",
          "analyze", "purge", "lock", "commit", "rollback", "savepoint", "set", "explain",
          "flashback"} |-> "other"]

\* unicode.IsLetter or IsDigit, and the other characters of a name.
NameChars == {"a", "b", "q", "1", "_"}

\* No name: it stands for a colon at the end of the text.
NotAName == <<":">>

closingDelimiter(c) ==
  CASE c = "[" -> "]" [] c = "{" -> "}" [] c = "<" -> ">" [] c = "(" -> ")" [] OTHER -> c

\* The first index that one of the ends gives, or that of the end of the text.
FirstOf(ends, t) == Min(ends \cup {Len(t) + 1})

\* After the quote that closes the string or identifier opened at i; a doubled
\* quote stands for itself.
afterQuoted(t, i) ==
  LET n == Len(t)
      after[j \in (i + 1) .. (n + 1)] ==
        IF j > n THEN n + 1
        ELSE IF t[j] # t[i] THEN after[j + 1]
        ELSE IF j < n /\ t[j + 1] = t[i] THEN after[j + 2] ELSE j + 1
  IN  after[i + 1]

\* Mutant: the star that opens a comment may also close it.
skipOverlapping(t, i) ==
  LET n == Len(t)
      Next2(c) == i < n /\ t[i + 1] = c
  IN  CASE t[i] = "-" /\ Next2("-") -> FirstOf({j \in (i + 2) .. n : t[j] = "n"}, t)
        [] t[i] = "/" /\ Next2("*") ->
             FirstOf({j + 2 : j \in {k \in (i + 1) .. (n - 1) : t[k] = "*" /\ t[k + 1] = "/"}}, t)
        [] t[i] = "q" /\ Next2("'") /\ i + 2 <= n ->
             IF t[i + 2] = " " THEN i
             ELSE FirstOf({j + 2 : j \in {k \in (i + 3) .. (n - 1) :
                            t[k] = closingDelimiter(t[i + 2]) /\ t[k + 1] = "'"}}, t)
        [] t[i] \in {"'", "\""} -> afterQuoted(t, i)
        [] OTHER -> i

\* skipCommentOrString: the index after the comment or the string that begins
\* at i, and i itself if none does.
skipCommentOrString(t, i) ==
  LET n == Len(t)
      Next2(c) == i < n /\ t[i + 1] = c
  IN  CASE t[i] = "-" /\ Next2("-") -> FirstOf({j \in (i + 2) .. n : t[j] = "n"}, t)
        [] t[i] = "/" /\ Next2("*") ->
             FirstOf({j + 2 : j \in {k \in (i + 2) .. (n - 1) : t[k] = "*" /\ t[k + 1] = "/"}}, t)
        [] t[i] = "q" /\ Next2("'") /\ i + 2 <= n ->
             IF t[i + 2] = " " THEN i
             ELSE FirstOf({j + 2 : j \in {k \in (i + 3) .. (n - 1) :
                            t[k] = closingDelimiter(t[i + 2]) /\ t[k + 1] = "'"}}, t)
        [] t[i] \in {"'", "\""} -> afterQuoted(t, i)
        [] OTHER -> i

\* A placeholder is noted: its name, the indices of its occurrences (uint16)
\* and the place of its name among the names.
addPlaceholder(d, name) ==
  LET isNew == name \notin DOMAIN d.bindMap
      index == Len(d.bindNames) % (MaxBindIndex + 1)
      unique == Cardinality(DOMAIN d.uniqueNames)
  IN  IF (isNew /\ unique > MaxBindIndex) \/ Len(d.bindNames) + 1 > MaxBindIndex + 1
      THEN [d EXCEPT !.ok = FALSE]
      ELSE [d EXCEPT !.bindNames = Append(@, name),
                     !.bindMap = (name :> ((IF isNew THEN {} ELSE @[name]) \cup {index})) @@ @,
                     !.uniqueNames = IF isNew THEN (name :> unique) @@ @ ELSE @]

NoBinds == [ok |-> TRUE, bindNames |-> <<>>, bindMap |-> <<>>, uniqueNames |-> <<>>]

\* parsePlaceholders: scan[i] is what the loop does from i on with what it has
\* found before.
parsePlaceholders(t) ==
  LET n == Len(t)
      nameEnd(i) == FirstOf({j \in i .. n : t[j] \notin NameChars}, t)
      Scan[i \in 1 .. (n + 1)] ==
        IF i > n THEN <<>>
        ELSE LET skipped == skipCommentOrString(t, i) IN
          IF skipped # i THEN Scan[skipped]
          ELSE IF t[i] # ":" THEN Scan[i + 1]
          ELSE IF i = n THEN <<NotAName>>
          ELSE IF t[i + 1] = "=" THEN Scan[i + 1]
          ELSE <<SubSeq(t, i + 1, nameEnd(i + 1) - 1)>> \o Scan[nameEnd(i + 1)]
      found == Scan[1]
  IN  IF found # <<>> /\ Last(found) = NotAName
      THEN [NoBinds EXCEPT !.ok = FALSE]
      ELSE FoldLeft(LAMBDA d, name : IF d.ok THEN addPlaceholder(d, name) ELSE d, NoBinds, found)

\* newQualifiedSQLStatement: a text whose leading word (_classifySQL) is not
\* known or that has none is refused.
newQualifiedSQLStatement(lead, t) ==
  /\ qualified = NoStatement
  /\ LET binds == parsePlaceholders(t)
     IN  qualified' =
           IF lead \notin DOMAIN _sqlKindMap \/ ~binds.ok
           THEN [st |-> "error", text |-> t, lead |-> lead]
           ELSE [st |-> "made", text |-> t, lead |-> lead, kind |-> _sqlKindMap[lead],
                 binds |-> binds]
  /\ UNCHANGED bound

-----------------------------------------------------------------------------
(* The arguments. *)

Refused == [ok |-> FALSE, filled |-> <<>>]

\* The index or indices are filled with the value, unless one of them was.
fill(s, indices, value) ==
  IF indices \cap DOMAIN s.filled # {} THEN Refused
  ELSE [s EXCEPT !.filled = [i \in indices |-> value] @@ @]

placeByKey(d, s, key, value) ==
  IF key \notin DOMAIN d.bindMap THEN Refused ELSE fill(s, d.bindMap[key], value)

\* One turn of the loop of extractInputBindValues.
extractOne(d, s, nv) ==
  IF nv.name # <<>> THEN placeByKey(d, s, nv.name, nv.value)
  ELSE IF nv.ordinal \notin 1 .. Len(d.bindNames) THEN Refused
  ELSE placeByKey(d, s, d.bindNames[nv.ordinal], nv.value)

\* One turn of the loop of extractInputBindValuesForPlSql: every name is a
\* place of its own, which an ordinal counts.
extractOneForPlSql(d, s, nv) ==
  IF nv.name # <<>>
  THEN IF nv.name \notin DOMAIN d.uniqueNames THEN Refused
       ELSE fill(s, {d.uniqueNames[nv.name]}, nv.value)
  ELSE IF nv.ordinal \notin 1 .. Cardinality(DOMAIN d.uniqueNames) THEN Refused
       ELSE fill(s, {nv.ordinal - 1}, nv.value)

\* The end of both functions: the values of the places that are filled, in
\* their order, without the places that are not.
filledPlaceholders(s) ==
  LET places == SetToSortSeq(DOMAIN s.filled, <)
  IN  [i \in DOMAIN places |-> s.filled[places[i]]]

\* The head of QueryContext or ExecContext of the executor for the kind.
BindArguments(in) ==
  /\ qualified.st = "made" /\ bound = NotBound
  /\ LET one(s, nv) == IF ~s.ok THEN s
                       ELSE IF qualified.kind = "plsql" THEN extractOneForPlSql(qualified.binds, s, nv)
                       ELSE extractOne(qualified.binds, s, nv)
         s == FoldLeft(one, [ok |-> TRUE, filled |-> <<>>], in)
     IN  bound' = IF s.ok THEN [st |-> "bound", in |-> in, values |-> filledPlaceholders(s)]
                  ELSE [st |-> "error", in |-> in]
  /\ UNCHANGED qualified

-----------------------------------------------------------------------------
(* The placeholders of a text by an automaton that reads it once, character *)
(* by character, and looks neither ahead nor back.  A doubled quote leaves  *)
(* a string and enters the next one.                                        *)

Lexer == [mode |-> "code", close |-> "", cur |-> <<>>, names |-> <<>>]

CodeStep(s, c) ==
  [s EXCEPT !.mode = CASE c = "-" -> "dash" [] c = "/" -> "slash" [] c = "q" -> "q"
                       [] c = "'" -> "string" [] c = "\"" -> "identifier"
                       [] c = ":" -> "colon" [] OTHER -> "code",
            !.cur = <<>>]

Named(s) == [s EXCEPT !.names = Append(@, s.cur)]

LexStep(s, c) ==
  LET to(mode) == [s EXCEPT !.mode = mode]
  IN  CASE s.mode = "code" -> CodeStep(s, c)
        [] s.mode = "dash" -> IF c = "-" THEN to("line") ELSE CodeStep(s, c)
        [] s.mode = "line" -> IF c = "n" THEN to("code") ELSE s
        [] s.mode = "slash" -> IF c = "*" THEN to("block") ELSE CodeStep(s, c)
        [] s.mode = "block" -> IF c = "*" THEN to("star") ELSE s
        [] s.mode = "star" -> to(CASE c = "/" -> "code" [] c = "*" -> "star" [] OTHER -> "block")
        [] s.mode = "string" -> IF c = "'" THEN to("code") ELSE s
        [] s.mode = "identifier" -> IF c = "\"" THEN to("code") ELSE s
        [] s.mode = "q" -> IF c = "'" THEN to("delimiter") ELSE CodeStep(s, c)
        [] s.mode = "delimiter" ->
             IF c = " " THEN to("string")
             ELSE [s EXCEPT !.mode = "alternative", !.close = closingDelimiter(c)]
        [] s.mode = "alternative" -> IF c = s.close THEN to("closing") ELSE s
        [] s.mode = "closing" ->
             to(CASE c = "'" -> "code" [] c # "'" /\ c = s.close -> "closing" [] OTHER -> "alternative")
        [] s.mode \in {"colon", "name"} ->
             IF s.mode = "colon" /\ c = "=" THEN to("code")
             ELSE IF c \in NameChars THEN [s EXCEPT !.mode = "name", !.cur = Append(@, c)]
             ELSE CodeStep(Named(s), c)

Lexed(t) ==
  LET s == FoldLeft(LexStep, Lexer, t)
  IN  IF s.mode = "name" THEN Named(s) ELSE s

\* "Any ':' followed by a letter or a digit starts a placeholder": the others
\* have no name, or none that begins with one.
AllNamed(names) == \A k \in DOMAIN names : names[k] # <<>> /\ names[k][1] # "_"

\* The placeholders that arguments are counted against, and the name that each
\* argument is for.
Places(names) ==
  IF qualified.kind = "plsql"
  THEN FoldLeft(LAMBDA s, x : IF x \in ToSet(s) THEN s ELSE Append(s, x), <<>>, names) ELSE names
Targets(places) ==
  [k \in DOMAIN bound.in |->
     LET nv == bound.in[k]
     IN  IF nv.name # <<>> THEN nv.name
         ELSE IF nv.ordinal \in DOMAIN places THEN places[nv.ordinal] ELSE NotAName]

\* The placeholders of a statement are those outside its comments, strings and
\* quoted identifiers, whatever these contain and however they are nested; a
\* text with a colon at its end or more placeholders than an index can number
\* is refused (parsePlaceholders, skipCommentOrString).  An execution is refused
\* when an argument is for no placeholder or two are for one; otherwise, if every
\* placeholder has an argument, the execution is accepted and every occurrence of
\* a name in SQL, and every name in PL/SQL, has the value of its argument at the
\* place where the server expects it (extractInputBindValues,
\* extractInputBindValuesForPlSql).  Nothing is said of an execution that lacks
\* an argument, nor of a text with a colon that starts no placeholder.
ArgumentsMeetPlaceholders ==
  qualified # NoStatement /\ qualified.lead \in DOMAIN _sqlKindMap =>
    LET lexed == Lexed(qualified.text)
        places == Places(lexed.names)
        target == Targets(places)
    IN  IF lexed.mode = "colon" \/ Len(lexed.names) > MaxBindIndex + 1
        THEN qualified.st = "error"
        ELSE AllNamed(lexed.names) =>
               /\ qualified.st = "made" /\ qualified.binds.bindNames = lexed.names
               /\ bound # NotBound =>
                    IF ~(ToSet(target) \subseteq ToSet(places) /\ IsInjective(target))
                    THEN bound.st = "error"
                    ELSE ToSet(target) = ToSet(places) =>
                           /\ bound.st = "bound"
                           /\ bound.values = [p \in DOMAIN places |->
                                bound.in[CHOOSE k \in DOMAIN target : target[k] = places[p]].value]

\* "After processing all inputs, every placeholder position must be filled;
\* otherwise return a missing-arg error" (extractInputBindValues).
MissingArgumentRefused ==
  bound # NotBound =>
    LET names == Lexed(qualified.text).names
    IN  AllNamed(names) /\ ~(ToSet(names) \subseteq ToSet(Targets(Places(names)))) => bound.st = "error"
=============================================================================
