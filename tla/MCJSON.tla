------------------------------- MODULE MCJSON -------------------------------
(***************************************************************************)
(* The JSON documents of an instance for TLC.  With base 6 a count, length *)
(* or offset outgrows one byte at 6 and two bytes at 36.                   *)
(***************************************************************************)
EXTENDS JSONDocument

MCHash(n) == IF n = <<>> THEN 7 ELSE (3 * n[1] + 4 * n[Len(n)] + Len(n)) % 36
Letters(n) == [i \in 1..n |-> i % 5]
Name(i) == IF i < 4 THEN <<i>> ELSE <<i, i % 3>>
LongName(i) == [j \in 1..7 |-> IF j = 7 THEN i ELSE 1]

N0 == [t |-> "nil", v |-> <<>>]
Str(n) == [t |-> "string", v |-> Letters(n)]
Num(t, n) == [t |-> t, v |-> <<n>>]
Time(offset) == [t |-> "time", v |-> <<2024, 3, 10, 23, 30, 59, 5, offset>>]

GoScalars ==
  {N0, [t |-> "true", v |-> <<>>], [t |-> "false", v |-> <<>>]}
  \cup {Str(n) : n \in {0, 2, 3, 5, 6, 35, 36, 250}}
  \cup {[t |-> "bytes", v |-> Letters(n)] : n \in {0, 1, 35, 36}}
  \cup {Num(t, n) : t \in {"int32", "int64"}, n \in {-101, -1, 0, 10, 99, 126}}
  \cup {Num("uint", n) : n \in {0, 1, 101, 126}}
  \cup {Num("float64", n) : n \in {-5, 0, 127}} \cup {Num("float32", 3)}
  \cup {Num("number", n) : n \in {-9999, 0, 12, 12345, 123456}}
  \cup {Time(o) : o \in {0, -12600, 20700}}
  \cup {[Time(0) EXCEPT !.v[1] = 0]}

Ref(i) == [ref |-> i]
Single(c) == [heap |-> [i \in {1} |-> c], root |-> Ref(1)]
Object(names, f(_)) == [members |-> [n \in names |-> f(n)]]

MCInputs ==
  {[heap |-> <<>>, root |-> x] : x \in GoScalars}
  \* arrays, of one scalar or long enough for every count width
  \cup {Single([elems |-> <<x>>]) : x \in GoScalars}
  \cup {Single([elems |-> [i \in 1..k |-> N0]]) : k \in {0, 2, 5, 6, 36}}
  \* objects, with names for every width of field IDs and heaps
  \cup {Single(Object({Name(i) : i \in 1..k}, LAMBDA n : Num("int32", n[1]))) : k \in {0, 1, 3, 5, 6, 7}}
  \cup {Single(Object({LongName(i) : i \in 1..k}, LAMBDA n : Num("int32", n[7]))) : k \in {1, 2, 5, 6}}
  \cup {Single(Object({Name(i) : i \in 1..3} \cup {LongName(i) : i \in 1..k}, LAMBDA n : Num("int32", Len(n)))) : k \in {1, 2, 3}}
  \cup {Single(Object({Letters(k), <<1>>}, LAMBDA n : Str(1))) : k \in {0, 5, 6, 35, 36}}
  \* shared containers and containers in themselves
  \cup {[heap |-> <<[elems |-> <<Ref(2), Ref(2)>>], Object({<<1>>, <<2>>}, LAMBDA n : Num("int64", 1))>>, root |-> Ref(1)],
        [heap |-> <<[elems |-> <<Ref(2), N0>>], Object({<<1>>}, LAMBDA n : Ref(1))>>, root |-> Ref(1)],
        [heap |-> <<Object({<<1>>, <<2>>}, LAMBDA n : Ref(2)), [elems |-> <<>>]>>, root |-> Ref(1)],
        [heap |-> <<Object({<<1>>, LongName(1)}, LAMBDA n : Ref(2)), [elems |-> <<Num("uint", 7), Ref(3), Ref(3)>>],
                    Object({<<1>>, LongName(2)}, LAMBDA n : Time(-12600))>>, root |-> Ref(1)]}

DefaultOptions == [number |-> "Default", time |-> "TimestampTZ"]
MCOptions == [number : {"Default", "JSONNumber", "Float64"}, time : {"Date", "Timestamp", "TimestampTZ"}]

Styles == {s \in [width : {2, 4}, relative : BOOLEAN, share : BOOLEAN, mapWidth : {2, 4}] :
             s.mapWidth = (IF s.share THEN s.width ELSE 6 - s.width)}
Pair(a, b) == [members |-> [n \in {<<1>>, <<2>>} |-> IF n = <<1>> THEN a ELSE b]]
Stamp(t, ns, offset) == [t |-> t, v |-> <<2024, 3, 11, 1, 30, 59, ns, offset>>]
MCStored ==
  {[elems |-> <<Pair(N0, Num("number", 7)), Pair(Str(1), N0)>>],
   [elems |-> <<Num("number", 101), Stamp("tstz", 5, 20700)>>],
   [elems |-> <<Str(3), [elems |-> <<N0, Num("int32", 5)>>]>>],
   Pair(Num("number", 12), [elems |-> <<Str(1)>>]),
   [members |-> [n \in {<<1>>, LongName(1)} |-> Num("number", Len(n))]]}
MCServerValues == [value : MCStored, style : Styles]
MCUpdates ==
  {Str(4), Num("number", -101), Stamp("timestamp", 0, 0), Stamp("date", 0, 0),
   [t |-> "months", v |-> <<45, 1, 2>>], [t |-> "days", v |-> <<43, 1, 2, 3, 4, 5>>],
   [t |-> "bytes", v |-> <<9>>], Num("binary", 127),
   [elems |-> <<N0, Num("int64", 3)>>], Pair(Num("binary", -3), N0),
   [members |-> [n \in {<<1>>} |-> [elems |-> <<N0>>]]]}

MCSecond == {Pair(Num("binary", -3), N0)}

\* A document is made, walked and bound, or stored, updated, scanned and walked.
DocumentNext ==
  \/ ~js.set /\ column = NoColumn /\ \E input \in MCInputs :
       \/ NewJSONWithOptions(input, js.opts)
       \/ UnmarshalJSON(input)
  \/ /\ outcome.op = "none" /\ ~js.set /\ js.opts = DefaultOptions
     /\ \/ column = NoColumn /\ \E s \in MCServerValues : ServerStores(s.value, s.style)
        \/ /\ column.set /\ column.updates < MaxUpdates
           /\ \E i \in DOMAIN column.where, x \in IF column.updates = 0 THEN MCUpdates ELSE MCSecond :
                \E how \in {"forward2", "forward4", "overflow", "object"} : ServerUpdates(i, x, how)
  \/ outcome.op \in {"none", "Bind"} /\ Scan
  \/ js.set /\ column = NoColumn /\ BindJSON
  \/ column.set /\ column.updates = 0 /\ outcome.op = "Get" /\ BindJSON
  \/ /\ js.set /\ outcome.op # "Bind"
     /\ \/ "members" \in DOMAIN js.value /\ \E n \in DOMAIN js.value.members : GetMember(n)
        \/ "elems" \in DOMAIN js.value /\ \E i \in DOMAIN js.value.elems : GetElement(i)
  \/ /\ js.set /\ js.whole /\ column = NoColumn /\ js.opts.number = "Default"
     /\ \E opts \in OptionSets : opts.number # "Default" /\ SetOptions(opts)
=============================================================================
