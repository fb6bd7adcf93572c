---------------------------- MODULE JSONDocument ----------------------------
(***************************************************************************)
(* A JSON value of the application (oracle/datatype/json/json.go) and a    *)
(* JSON column.  The application makes documents of Go values, binds them, *)
(* scans what the column holds and walks down by lazy views, which are     *)
(* encoded anew when they are bound.  The server, which is outside this    *)
(* repository, stores documents in the forms the parser knows, and updates *)
(* them in place: a node gives way to a redirection into an extended tree. *)
(*                                                                         *)
(* A stored scalar is [t |-> type, v |-> value], as a Go one, with the     *)
(* types nil, true, false, string, int32, int64, number, binary, bytes,    *)
(* date, timestamp, tstz, months and days; containers hold their children. *)
(***************************************************************************)
EXTENDS OsonParser

CONSTANTS
  Inputs,       \* Go values: [heap, root]
  OptionSets,   \* json.Options: [number, time]
  ServerValues, \* stored values the server makes itself, with a style
  Updates,      \* stored values that replace a child of the root
  MaxUpdates    \* bound on updates of a document

VARIABLES
  js,       \* the JSON: node, document, options, and the value it stands for
  column,   \* what the column holds
  outcome   \* of the last operation: [op, ok, due]

jsonVars == <<js, column, outcome>>

\* The zero value of Options.
ZeroOptions == [number |-> "Default", time |-> "Timestamp"]
NoJSON(opts) == [set |-> FALSE, opts |-> opts]
NoColumn == [set |-> FALSE]
Done(op, ok, due) == outcome' = [op |-> op, ok |-> ok, due |-> due]

----------------------------------------------------------------------------
(* What documents mean.                                                    *)

Cleared(v, fields) == [i \in DOMAIN v |-> IF i \in fields THEN 0 ELSE v[i]]

\* The stored scalar of a Go scalar, as documentation/json.md has it.
StoredScalar(x, opts) ==
  CASE x.t = "uint" -> [x EXCEPT !.t = "number"]
    [] x.t \in {"float32", "float64"} -> [x EXCEPT !.t = "binary"]
    [] x.t = "time" /\ opts.time = "Date" -> [t |-> "date", v |-> Cleared(x.v, {7, 8})]
    [] x.t = "time" /\ opts.time = "Timestamp" -> [t |-> "timestamp", v |-> Cleared(x.v, {8})]
    [] x.t = "time" /\ opts.time = "TimestampTZ" -> [x EXCEPT !.t = "tstz"]
    [] OTHER -> x

RECURSIVE StoredValue(_, _, _)
StoredValue(g, x, opts) ==
  IF ~IsRef(x) THEN StoredScalar(x, opts)
  ELSE IF IsArray(g[x.ref])
  THEN [elems |-> [i \in DOMAIN g[x.ref].elems |-> StoredValue(g, g[x.ref].elems[i], opts)]]
  ELSE [members |-> [n \in DOMAIN g[x.ref].members |-> StoredValue(g, g[x.ref].members[n], opts)]]

\* The Go value of a stored one.
GoNumber(t, opts) ==
  CASE opts.number = "JSONNumber" -> "number" [] opts.number = "Float64" -> "float64" [] OTHER -> t
GoScalar(x, opts) ==
  CASE x.t \in {"int32", "int64", "number"} -> [x EXCEPT !.t = GoNumber(x.t, opts)]
    [] x.t = "binary" -> [x EXCEPT !.t = IF Abs(x.v[1]) = Infinity THEN "float64"
                                         ELSE GoNumber("float64", opts)]
    [] x.t \in {"date", "timestamp", "tstz"} -> [x EXCEPT !.t = "time"]
    [] x.t \in {"months", "days"} -> [x EXCEPT !.t = "string"]
    [] OTHER -> x

RECURSIVE GoValue(_, _)
GoValue(x, opts) ==
  IF "elems" \in DOMAIN x THEN [elems |-> [i \in DOMAIN x.elems |-> GoValue(x.elems[i], opts)]]
  ELSE IF "members" \in DOMAIN x
  THEN [members |-> [n \in DOMAIN x.members |-> GoValue(x.members[n], opts)]]
  ELSE GoScalar(x, opts)

\* A number beyond the floats has no float64.
RECURSIVE Readable(_, _)
Readable(x, opts) ==
  IF "elems" \in DOMAIN x THEN \A i \in DOMAIN x.elems : Readable(x.elems[i], opts)
  ELSE IF "members" \in DOMAIN x THEN \A n \in DOMAIN x.members : Readable(x.members[n], opts)
  ELSE x.t = "number" /\ opts.number = "Float64" => Abs(x.v[1]) < Infinity

\* What the encoder may refuse: a container in itself, a name, a number or a
\* document that is too long, a year that DATE has not.
RECURSIVE Acyclic(_, _, _)
Acyclic(g, x, path) ==
  IsRef(x) =>
    LET children == IF IsArray(g[x.ref]) THEN Range(g[x.ref].elems) ELSE Range(g[x.ref].members)
    IN x.ref \notin path /\ \A y \in children : Acyclic(g, y, path \cup {x.ref})
Scalars(g, x) ==
  {y \in {x} \cup UNION {IF IsArray(g[r]) THEN Range(g[r].elems) ELSE Range(g[r].members) : r \in DOMAIN g}
     : ~IsRef(y)}
Encodable(g, x) ==
  /\ Acyclic(g, x, {})
  /\ \A r \in DOMAIN g : ~IsArray(g[r]) => \A n \in DOMAIN g[r].members : Len(n) <= MaxUB(2)
  /\ \A y \in Scalars(g, x) : /\ y.t = "number" => Len(Text(y.v[1])) <= MaxUB(1)
                              /\ y.t = "time" => y.v[1] \in -4712..9999 \ {0}
                              /\ y.t \in {"string", "bytes"} => Len(y.v) <= MaxDocument \div 2

----------------------------------------------------------------------------
(* The application.                                                        *)

\* A document with its header and root; the JSON that holds them.
openDocument(d, parsed) ==
  IF parsed.ok THEN [ok |-> TRUE, d |-> d, h |-> parsed.header, at |-> parsed.root] ELSE Error
openedDocument(document) == IF document.ok THEN openDocument(document.val, Parse(document.val)) ELSE Error
WholeJSON(o, opts, value) ==
  [set |-> TRUE, d |-> o.d, h |-> o.h, at |-> o.at, whole |-> TRUE, opts |-> opts, value |-> value]
encoded(input, opts) == openedDocument(EncodeWithOptions(input.heap, input.root, opts))

NewJSONWithOptions(input, opts) ==
  \E made \in {encoded(input, opts)} :
    /\ js' = IF made.ok THEN WholeJSON(made, opts, StoredValue(input.heap, input.root, opts))
             ELSE NoJSON(ZeroOptions)
    /\ Done("New", made.ok, Encodable(input.heap, input.root))
    /\ UNCHANGED column

\* UnmarshalJSON keeps the options, and the JSON where the text is refused; the
\* text has no other scalars than these.
UnmarshalJSON(input) ==
  /\ Acyclic(input.heap, input.root, {})
  /\ \A y \in Scalars(input.heap, input.root) : y.t \in {"nil", "true", "false", "string", "number"}
  /\ \E made \in {encoded(input, js.opts)} :
       /\ js' = IF made.ok THEN WholeJSON(made, js.opts, StoredValue(input.heap, input.root, js.opts))
                ELSE js
       /\ Done("Unmarshal", made.ok, Encodable(input.heap, input.root))
  /\ UNCHANGED column

SetOptions(opts) ==
  /\ js' = [js EXCEPT !.opts = opts]
  /\ UNCHANGED <<column, outcome>>

\* Scan copies the document and keeps the options.
Scan ==
  /\ column.set
  /\ \E scanned \in {IF IsOson(column.doc) THEN openDocument(column.doc, Parse(column.doc)) ELSE Error} :
       /\ js' = IF scanned.ok THEN WholeJSON(scanned, js.opts, column.value) ELSE js
       /\ Done("Scan", scanned.ok, TRUE)
  /\ UNCHANGED column

\* A Go value as an input of the encoder, its containers as a heap.
RECURSIVE Heap(_, _)
Heap(x, path) ==
  IF "elems" \in DOMAIN x THEN
    [p \in {path} |-> [elems |-> [i \in DOMAIN x.elems |->
                         IF "t" \in DOMAIN x.elems[i] THEN x.elems[i] ELSE [ref |-> Append(path, <<i>>)]]]]
    @@ FoldFunction(LAMBDA f, acc : f @@ acc, <<>>,
                    [i \in DOMAIN x.elems |-> Heap(x.elems[i], Append(path, <<i>>))])
  ELSE IF "members" \in DOMAIN x THEN
    [p \in {path} |-> [members |-> [n \in DOMAIN x.members |->
                         IF "t" \in DOMAIN x.members[n] THEN x.members[n] ELSE [ref |-> Append(path, n)]]]]
    @@ FoldFunction(LAMBDA f, acc : f @@ acc, <<>>,
                    [n \in DOMAIN x.members |-> Heap(x.members[n], Append(path, n))])
  ELSE <<>>
Root(x) == IF "t" \in DOMAIN x THEN x ELSE [ref |-> <<>>]

GetValue(j) == valueAt(j.d, j.h, j.at, j.opts)

\* JSON.Value: the document of a whole JSON; a view's value, encoded anew.
encodedAnew(got, opts) ==
  IF got.ok THEN EncodeWithOptions(Heap(got.val, <<>>), Root(got.val), opts) ELSE Error
boundDocument(j) == IF j.whole THEN Valid(j.d) ELSE encodedAnew(GetValue(j), j.opts)

\* The bound document is stored; a view stands for the stored form of its Go value.
BindJSON ==
  /\ js.set
  /\ \E document \in {boundDocument(js)}, go \in {GoValue(js.value, js.opts)} :
       /\ column' = IF document.ok
                    THEN [set |-> TRUE, doc |-> document.val, updates |-> MaxUpdates,
                          value |-> IF js.whole THEN js.value
                                    ELSE StoredValue(Heap(go, <<>>), Root(go), js.opts)]
                    ELSE column
       /\ Done("Bind", document.ok, \/ js.whole
                                     \/ /\ Readable(js.value, js.opts)
                                        /\ Encodable(Heap(go, <<>>), Root(go)))
  /\ UNCHANGED js

View(offset, value) ==
  /\ \E node \in {newNodeAt(js.d, js.h, offset)} :
       /\ js' = IF node.ok THEN [js EXCEPT !.at = node.val, !.whole = FALSE, !.value = value] ELSE js
       /\ Done("Get", node.ok, TRUE)
  /\ UNCHANGED column

\* AsJSONObject or AsJSONArray, and Get.
GetMember(n) ==
  /\ js.set /\ "members" \in DOMAIN js.value
  /\ n \in DOMAIN js.value.members
  /\ View(newObjectNodeAt(js.d, js.h, js.at).val[n], js.value.members[n])
GetElement(i) ==
  /\ js.set /\ "elems" \in DOMAIN js.value
  /\ i \in DOMAIN js.value.elems
  /\ View(newArrayNodeAt(js.d, js.h, js.at).val[i], js.value.elems[i])

----------------------------------------------------------------------------
(* The server.                                                             *)

\* The bytes of a stored scalar: NUMBERs as decimals, short strings with a length.
ServerNumber(number) ==
  IF Len(number) <= CompactMax THEN <<96 + Len(number) - 1>> \o number
  ELSE <<116>> \o UB(1, Len(number)) \o number
ServerScalar(x) ==
  LET time == TimeOf(x.v)
  IN CASE x.t = "number" -> ServerNumber(EncodeInt(x.v[1]))
       [] x.t = "binary" -> <<54, EncodeBinary(FloatBits(x.v[1]))>>
       [] x.t = "date" -> <<60>> \o EncodeDate(time).val
       [] x.t = "timestamp" -> IF time.ns = 0 THEN <<125>> \o EncodeDate(time).val
                               ELSE <<57>> \o EncodeTimestamp(time).val
       [] x.t = "tstz" -> <<124>> \o encodeTimestampTZ(x.v).val
       [] x.t = "bytes" -> <<126>> \o UB(1, Len(x.v)) \o x.v
       [] x.t = "months" ->
            <<61>> \o EncodeYearToMonth([neg |-> x.v[1] = 45, years |-> x.v[2], months |-> x.v[3]]).val
       [] x.t = "days" ->
            <<62>> \o EncodeDayToSecond([neg |-> x.v[1] = 45, days |-> x.v[2], hours |-> x.v[3],
                                         minutes |-> x.v[4], seconds |-> x.v[5], ns |-> x.v[6]]).val
       [] OTHER -> writeScalarNode(x, [time |-> "Timestamp"]).val

\* A node at offset at from the primary tree.  A style says whether offsets are
\* relative to the container, how wide they are, and whether the objects of an
\* array share the field IDs of the first; owner is the offset of an object with
\* the same names, or zero.
ArrayHead(count, style) ==
  <<containerOpcode(192, count, style.width)>> \o writeContainerCount(count)
ObjectHead(dict, names, style, owner) ==
  LET opcode == containerOpcode(128, Len(names), style.width)
  IN IF owner > 0 THEN <<(opcode - (opcode % 32)) + 24>> \o UB(style.width, owner)
     ELSE <<opcode + (IF style.share THEN 2 ELSE 0)>> \o writeContainerCount(Len(names))
          \o FlattenSeq([i \in DOMAIN names |-> UB(dict.width, fieldID(dict, names[i]))])
Shares(xs, i) ==
  /\ i > 1 /\ "members" \in DOMAIN xs[1] /\ "members" \in DOMAIN xs[i]
  /\ DOMAIN xs[i].members = DOMAIN xs[1].members
NothingWritten == [bytes |-> <<>>, offsets |-> <<>>, table |-> <<>>]
WithChild(written, at1, entry, child) ==
  [bytes |-> written.bytes \o child.bytes, offsets |-> Append(written.offsets, at1),
   table |-> written.table \o entry]
WithHead(head, written) ==
  [bytes |-> head \o written.table \o written.bytes, offsets |-> written.offsets]

RECURSIVE ServerNode(_, _, _, _, _), ServerObject(_, _, _, _, _, _), ServerChildren(_, _, _, _, _, _, _)
ServerNode(dict, x, at, style, owner) ==
  IF "t" \in DOMAIN x THEN [bytes |-> ServerScalar(x), offsets |-> <<>>]
  ELSE IF "elems" \in DOMAIN x THEN
    LET head == ArrayHead(Len(x.elems), style)
    IN WithHead(head, ServerChildren(dict, x.elems, style.share, at, style,
                                     at + Len(head) + style.width * Len(x.elems), NothingWritten))
  ELSE ServerObject(dict, x.members, at, style, owner,
                    Sorted(DOMAIN x.members, LAMBDA a, b : fieldID(dict, a) < fieldID(dict, b)))
ServerObject(dict, members, at, style, owner, names) ==
  LET head == ObjectHead(dict, names, style, owner)
  IN WithHead(head, ServerChildren(dict, [i \in DOMAIN names |-> members[names[i]]], FALSE, at, style,
                                   at + Len(head) + style.width * Len(names), NothingWritten))
ServerChildren(dict, xs, share, at, style, start, written) ==
  LET i == Len(written.offsets) + 1
      at1 == start + Len(written.bytes)
  IN IF i > Len(xs) THEN written
     ELSE ServerChildren(dict, xs, share, at, style, start,
            WithChild(written, at1, UB(style.width, IF style.relative THEN at1 - at ELSE at1),
                      ServerNode(dict, xs[i], at1, style, IF share /\ Shares(xs, i) THEN start ELSE 0)))

RECURSIVE NamesOf(_)
NamesOf(x) ==
  IF "elems" \in DOMAIN x THEN UNION {NamesOf(x.elems[i]) : i \in DOMAIN x.elems}
  ELSE IF "members" \in DOMAIN x
  THEN DOMAIN x.members \cup UNION {NamesOf(x.members[n]) : n \in DOMAIN x.members}
  ELSE {}

\* The document of a column: header, tree and, after an update, the update
\* header, a mapping segment with room for two entries, and the extended tree.
Capacity(style) == 4 * style.mapWidth
ServerDocument(c) ==
  LET entries == FlattenSeq([i \in DOMAIN c.map |->
                   UB(c.style.mapWidth, c.map[i][1]) \o UB(c.style.mapWidth, c.map[i][2])])
      padding == [i \in 1..(Capacity(c.style) - Len(entries)) |-> 0]
  IN IF c.ext = <<>> THEN c.pre \o c.tree
     ELSE [c.pre EXCEPT ![4] = @ + 1] \o c.tree
          \o UB2Flags(Flag(c.style.mapWidth = 2, 256)) \o UB(2, Len(c.map)) \o UB(4, 0)
          \o UB(4, Capacity(c.style)) \o UB(4, Len(c.ext)) \o entries \o padding \o c.ext

\* The server stores a container; where[i] is the node of the root's child i.
Cells(node) ==
  LET end(i) == IF i < Len(node.offsets) THEN node.offsets[i + 1] ELSE Len(node.bytes)
  IN [i \in DOMAIN node.offsets |->
        [seg |-> "tree", at |-> node.offsets[i], size |-> end(i) - node.offsets[i]]]
WithDocument(c) == [f \in DOMAIN c \cup {"doc"} |-> IF f = "doc" THEN ServerDocument(c) ELSE c[f]]
ServerStores(x, style) ==
  \E dict \in {processFieldNames(NamesOf(x))} : \E node \in {ServerNode(dict, x, 0, style, 0)} :
    /\ style.width = 4 \/ Len(node.bytes) <= MaxUB(2) \div 2
    /\ column' = WithDocument([set |-> TRUE, value |-> x, style |-> style, dict |-> dict, updates |-> 0,
                   pre |-> containerHeader(dict, Len(node.bytes), Flag(style.relative, RelativeOffsets)),
                   tree |-> node.bytes, map |-> <<>>, ext |-> <<>>, where |-> Cells(node)])
    /\ UNCHANGED <<js, outcome>>

Put(cells, at, new) ==
  [i \in DOMAIN cells |-> IF i \in (at + 1)..(at + Len(new)) THEN new[i - at] ELSE cells[i]]

ChildKeys(c) ==
  Sorted(DOMAIN c.value.members, LAMBDA a, b : fieldID(c.dict, a) < fieldID(c.dict, b))
Replaced(c, i, x) ==
  IF "elems" \in DOMAIN c.value THEN [c.value EXCEPT !.elems[i] = x]
  ELSE [c.value EXCEPT !.members[ChildKeys(c)[i]] = x]

\* The server replaces child i by x: it appends x to the extended tree and turns
\* the old node into a redirection.  An object that others take their field IDs
\* from stays one, with the update bit.
OwnerOf(x) ==
  IF /\ column.style.share /\ "elems" \in DOMAIN column.value
     /\ "members" \in DOMAIN column.value.elems[1] /\ "members" \in DOMAIN x
     /\ DOMAIN x.members = DOMAIN column.value.elems[1].members
     /\ column.where[1].seg = "tree"
  THEN column.where[1].at ELSE 0
ServerUpdates(i, x, how) ==
  LET base == Len(column.tree) + 16 + Capacity(column.style)
      old == column.where[i]
      cells == IF old.seg = "tree" THEN column.tree ELSE column.ext
      opcode == cells[old.at + 1]
      at == Len(column.ext)
      mark == CASE how = "forward2" -> <<118>> \o UB(2, at)
                [] how = "forward4" -> <<119>> \o UB(4, at)
                [] how = "overflow" -> <<117>>
                [] how = "object" -> <<(opcode - (opcode % 4)) + 3>>
      updated(new) ==
        [column EXCEPT !.value = Replaced(column, i, x), !.updates = @ + 1,
           !.tree = IF old.seg = "tree" THEN Put(@, old.at, mark) ELSE @,
           !.ext = (IF old.seg = "ext" THEN Put(@, old.at, mark) ELSE @) \o new,
           !.map = IF how \in {"overflow", "object"} THEN Append(@, <<old.at, at>>) ELSE @,
           !.where[i] = [seg |-> "ext", at |-> at, size |-> Len(new)]]
  IN /\ column.set /\ column.updates < MaxUpdates
     /\ i \in DOMAIN column.where /\ NamesOf(x) \subseteq NamesOf(column.value)
     /\ Len(mark) <= old.size
     /\ how \in {"overflow", "object"} => old.seg = "tree" /\ Len(column.map) < 2
     /\ how \in {"overflow", "object"} => old.at <= MaxUB(column.style.mapWidth)
     /\ how = "object" <=> isObjectOpcode(opcode) /\ Bit(opcode, 2)
     /\ how = "object" => (opcode \div 8) % 4 # 3
     /\ \E new \in {ServerNode(column.dict, x, base + at, column.style, OwnerOf(x)).bytes} :
          /\ column.style.width = 4 \/ (column.style.relative /\ Len(new) <= MaxUB(2) \div 2)
          /\ column' = WithDocument(updated(new))
     /\ UNCHANGED <<js, outcome>>

----------------------------------------------------------------------------

JSONInit ==
  /\ js \in {NoJSON(opts) : opts \in OptionSets}
  /\ column = NoColumn
  /\ outcome = [op |-> "none", ok |-> TRUE, due |-> TRUE]

JSONNext ==
  \/ \E input \in Inputs, opts \in OptionSets : NewJSONWithOptions(input, opts)
  \/ \E input \in Inputs : UnmarshalJSON(input)
  \/ \E opts \in OptionSets : SetOptions(opts)
  \/ Scan
  \/ BindJSON
  \/ js.set /\ "members" \in DOMAIN js.value /\ \E n \in DOMAIN js.value.members : GetMember(n)
  \/ js.set /\ "elems" \in DOMAIN js.value /\ \E i \in DOMAIN js.value.elems : GetElement(i)
  \/ \E s \in ServerValues : ServerStores(s.value, s.style)
  \/ /\ column.set /\ column.updates < MaxUpdates
     /\ \E i \in DOMAIN column.where, x \in Updates, how \in {"forward2", "forward4", "overflow", "object"} :
          ServerUpdates(i, x, how)

----------------------------------------------------------------------------
(* Properties.                                                             *)

\* The server's lookup of a name: a binary search for its hash, and the name
\* among the neighbours of that hash; then a binary search for the field ID.
RECURSIVE Search(_, _, _, _)
Search(sorted, x, low, high) ==
  IF low > high THEN 0
  ELSE LET mid == (low + high) \div 2
       IN IF sorted[mid] = x THEN mid
          ELSE IF sorted[mid] < x THEN Search(sorted, x, mid + 1, high) ELSE Search(sorted, x, low, mid - 1)

\* Both dictionaries are searched, each in its own part of the hashes.
FieldFound(h, n) ==
  LET same == {i \in DOMAIN h.names : inPrimary(h.names[i]) <=> inPrimary(n)}
      found == Search(h.hashes, nameHash(n), Min(same), Max(same))
  IN found # 0

FieldIDs(j) == readFieldIDs(j.d, j.h, readObjectLayout(j.d, j.h, j.at, Opcode(j.d, j.at)))

\* The hash of every field name is found in its dictionary by a binary search,
\* and so are the names of an object among its field IDs.
Searchable(j) ==
  /\ \A n \in Range(j.h.names) : FieldFound(j.h, n)
  /\ isObjectOpcode(Opcode(j.d, j.at)) =>
       \A n \in DOMAIN j.value.members :
         LET ids == FieldIDs(j)
         IN \E id \in DOMAIN j.h.names : j.h.names[id] = n /\ Search(ids, id, 1, Len(ids)) # 0

\* Whatever way a document took - made of Go values or stored by the server, in
\* any of its forms and after updates, reached by views, bound and scanned again
\* - GetValue yields the value it stands for, the server finds its fields by
\* binary search, and the operations on it fail only for values that have no
\* document (EncodeWithOptions, sortFieldNames, writeObjectNode, Parse, newNodeAt).
JSONReadBack ==
  /\ js.set => IF Readable(js.value, js.opts) THEN GetValue(js) = Valid(GoValue(js.value, js.opts))
               ELSE ~GetValue(js).ok
  /\ js.set => Searchable(js)
  /\ outcome.ok <=> outcome.due
=============================================================================
