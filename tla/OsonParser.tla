----------------------------- MODULE OsonParser -----------------------------
(***************************************************************************)
(* The OSON parser: oson_header.go, node.go, obj_node.go, array_node.go,   *)
(* scalar_node.go and oson_buffer.go.  It reads a document lazily: Parse   *)
(* the header and the root, and a node when it is asked for.  Offsets      *)
(* count bytes from zero.                                                  *)
(***************************************************************************)
EXTENDS OsonEncoder

CONSTANTS
  MaxMappings,      \* osonUpdateMaxOverflowEntries
  MaxMappingSize    \* osonUpdateMaxOverflowMapSize

\* ensureRange, and the reads of osonBuffer: Unread is their error.
Unread == -1
Within(d, offset, length) == offset >= 0 /\ length >= 0 /\ offset + length <= Len(d)
UBAt(d, offset, width) ==
  LET n[i \in 0..width] == IF i = 0 THEN 0 ELSE n[i - 1] * OsonRadix + d[offset + i]
  IN IF Within(d, offset, width) THEN n[width] ELSE Unread
SBAt(d, offset, width) ==
  LET n == UBAt(d, offset, width)
  IN IF n > MaxUB(width) \div 2 THEN n - OsonRadix ^ width ELSE n
SliceAt(d, offset, length) ==
  IF Within(d, offset, length) THEN Valid(SubSeq(d, offset + 1, offset + length)) ELSE Error
Opcode(d, offset) == d[offset + 1]

Bit(n, mask) == (n \div mask) % 2 = 1
FlagsAt(d, offset) == 256 * d[offset + 1] + d[offset + 2]

----------------------------------------------------------------------------
(* The header.                                                             *)

numFieldIDBytes(flags) ==
  IF Bit(flags, DistinctFieldCountUB4) THEN 4 ELSE IF Bit(flags, DistinctFieldCountUB2) THEN 2 ELSE 1

Wide(condition) == IF condition THEN 4 ELSE 2

\* The names of count fields by their heap offsets, behind count hashes.
readDictionary(d, at, count, hashSize, offsetSize, heapSize) ==
  LET heapAt == at + count * (hashSize + offsetSize)
      offset(i) == UBAt(d, at + count * hashSize + (i - 1) * offsetSize, offsetSize)
      length(i) == UBAt(d, heapAt + offset(i), hashSize)
      valid(i) == /\ offset(i) + hashSize <= heapSize
                  /\ offset(i) + hashSize + length(i) <= heapSize
  IN IF ~Within(d, at, heapAt + heapSize - at) \/ \E i \in 1..count : ~valid(i) THEN Error
     ELSE [ok |-> TRUE, next |-> heapAt + heapSize,
           hashes |-> [i \in 1..count |-> UBAt(d, at + (i - 1) * hashSize, hashSize)],
           names |-> [i \in 1..count |-> SliceAt(d, heapAt + offset(i) + hashSize, length(i)).val]]

NoNames(at) == [ok |-> TRUE, next |-> at, hashes |-> <<>>, names |-> <<>>]

\* What initialize keeps of the header; ext is zero without an update header.
Header(flags, hashes, names, tree, size) ==
  [ok |-> TRUE, flags |-> flags, hashes |-> hashes, names |-> names, tree |-> tree, size |-> size,
   ext |-> 0, extSize |-> 0, forwarding |-> <<>>]

\* addForwardingAddress, for every entry of the mapping segment.
validMappings(froms, tos, size, extSize) ==
  /\ \A i \in DOMAIN froms : froms[i] \in 0..(size - 1) /\ tos[i] \in 0..(extSize - 1)
  /\ IsInjective(froms)

\* readOptionalUpdateHeader: two flag bytes, the number of mappings, a reserved
\* field and the sizes of the mapping segment and of the extended tree.
readForwarding(h, ext, extSize, froms, tos) ==
  IF ~validMappings(froms, tos, h.size, extSize) THEN Error
  ELSE [h EXCEPT !.ext = ext, !.extSize = extSize,
                 !.forwarding = [f \in Range(froms) |-> tos[CHOOSE i \in DOMAIN froms : froms[i] = f]]]
readMappings(d, h, at, count, mappingSize, extSize) ==
  LET mapping == at + 16
      width == IF Bit(FlagsAt(d, at), 256) THEN 2 ELSE 4
  IN IF \/ d[4] \notin {2, 4}
        \/ ~Within(d, at, 16)
        \/ count > MaxMappings \/ mappingSize > MaxMappingSize
        \/ FlagsAt(d, at) \notin {0, 256} \/ UBAt(d, at + 4, 4) # 0
        \/ mapping + mappingSize + extSize # Len(d)
        \/ count > mappingSize \div (2 * width)
     THEN Error
     ELSE readForwarding(h, mapping + mappingSize, extSize,
            [i \in 1..count |-> UBAt(d, mapping + 2 * width * (i - 1), width)],
            [i \in 1..count |-> UBAt(d, mapping + 2 * width * (i - 1) + width, width)])
readOptionalUpdateHeader(d, h) ==
  IF ~h.ok THEN Error
  ELSE IF h.tree + h.size >= Len(d) THEN h
  ELSE LET at == h.tree + h.size
       IN readMappings(d, h, at, UBAt(d, at + 2, 2), UBAt(d, at + 8, 4), UBAt(d, at + 12, 4))

readPrimaryDictionary(d, layout) ==
  IF layout.count1 = 0 THEN NoNames(layout.start)
  ELSE readDictionary(d, layout.start, layout.count1, 1, layout.offset1, layout.heap1)
readSecondaryDictionary(d, layout, at) ==
  IF layout.count2 = 0 THEN NoNames(at)
  ELSE readDictionary(d, at, layout.count2, 2, layout.offset2, layout.heap2)

\* readHeader of a scalar document.
scalarHeader(d, flags) ==
  LET width == Wide(Bit(flags, TreeSegmentSizeUB4))
      size == UBAt(d, 6, width)
  IN IF size = Unread \/ ~Within(d, 6 + width, size) THEN Error
     ELSE Header(flags, <<>>, <<>>, 6 + width, size)

\* readHeader of any other: the sizes of the dictionaries and of the tree, and
\* where they start.
checkedLayout(d, flags2, layout) ==
  LET required == layout.count1 * (1 + layout.offset1) + layout.heap1
                  + layout.count2 * (2 + layout.offset2) + layout.heap2 + layout.size
  IN IF ~Within(d, 0, layout.start) THEN Error
     ELSE IF flags2 \notin {0, SecondaryOffsetsUB2} \/ required > Len(d) - layout.start THEN Error
     ELSE layout
readSizes(d, flags2, idWidth, heapWidth, treeWidth, second, third) ==
  LET two == d[4] >= 3
  IN checkedLayout(d, flags2,
       [ok |-> TRUE, start |-> third + treeWidth + 2, size |-> UBAt(d, third, treeWidth),
        count1 |-> UBAt(d, 6, idWidth), heap1 |-> UBAt(d, 6 + idWidth, heapWidth), offset1 |-> heapWidth,
        count2 |-> IF two THEN UBAt(d, second + 2, 4) ELSE 0,
        heap2 |-> IF two THEN UBAt(d, second + 6, 4) ELSE 0,
        offset2 |-> Wide(~Bit(flags2, SecondaryOffsetsUB2))])
readLayout(d, flags) ==
  LET idWidth == numFieldIDBytes(flags)
      heapWidth == Wide(Bit(flags, FieldHeapSizeUB4))
      second == 6 + idWidth + heapWidth
      two == d[4] >= 3
  IN readSizes(d, IF two THEN FlagsAt(d, second) ELSE 0, idWidth, heapWidth,
               Wide(Bit(flags, TreeSegmentSizeUB4)), second, IF two THEN second + 10 ELSE second)

\* initialize: the dictionaries, and the tree behind them.
headerWith(d, flags, layout, first, second) ==
  IF ~second.ok \/ ~Bit(flags, InlineLeaf) \/ ~Within(d, second.next, layout.size) THEN Error
  ELSE Header(flags, first.hashes \o second.hashes, first.names \o second.names, second.next, layout.size)
readDictionaries(d, flags, layout, first) ==
  IF first.ok THEN headerWith(d, flags, layout, first, readSecondaryDictionary(d, layout, first.next))
  ELSE Error
initialize(d, flags, layout) ==
  IF layout.ok THEN readDictionaries(d, flags, layout, readPrimaryDictionary(d, layout)) ELSE Error
containerHeaderOf(d, flags) == initialize(d, flags, readLayout(d, flags))

IsOson(d) == Len(d) >= 9 /\ SubSeq(d, 1, 3) = SubSeq(Magic(1), 1, 3)

\* newOsonHeader; 512 and 128 are the reserved flags.
newOsonHeader(d) ==
  IF Len(d) < 6 THEN Error
  ELSE LET flags == FlagsAt(d, 4)
       IN IF \/ SubSeq(d, 1, 3) # SubSeq(Magic(1), 1, 3) \/ d[4] \notin 1..4
             \/ Bit(flags, 512) \/ Bit(flags, 128)
          THEN Error
          ELSE readOptionalUpdateHeader(d, IF Bit(flags, ScalarDocument) THEN scalarHeader(d, flags)
                                           ELSE containerHeaderOf(d, flags))

----------------------------------------------------------------------------
(* Nodes.                                                                  *)

isObjectOpcode(op) == op \div 64 = 2
isArrayOpcode(op) == op \div 64 = 3
childOffsetSize(op) == Wide(Bit(op, 32))

segmentOffsetForNode(h, offset) == IF h.ext # 0 /\ offset >= h.ext THEN h.ext ELSE h.tree

containsNodeOffset(h, offset) ==
  \/ offset \in h.tree..(h.tree + h.size - 1)
  \/ h.ext # 0 /\ offset \in h.ext..(h.ext + h.extSize - 1)

resolveForwardedOffset(h, relative) ==
  IF h.ext = 0 \/ relative \notin 0..(h.extSize - 1) THEN Error ELSE Valid(h.ext + relative)

\* Mutant: mappings are looked up by the node's offset in the document.
resolveOverflowOffsetAbsolute(h, offset) ==
  IF offset \notin DOMAIN h.forwarding THEN Error
  ELSE resolveForwardedOffset(h, h.forwarding[offset])

resolveOverflowOffset(h, offset) ==
  IF offset - h.tree \notin DOMAIN h.forwarding THEN Error
  ELSE resolveForwardedOffset(h, h.forwarding[offset - h.tree])

\* redirectedNodeOffset: an updated object or overflow node is found through the
\* mappings, a forwarding one holds the offset.
isRedirect(op) == (isObjectOpcode(op) /\ op % 4 = 3) \/ op \in 117..120
forwarded(h, target) == IF target = Unread THEN Error ELSE resolveForwardedOffset(h, target)
redirectedNodeOffset(d, h, offset) ==
  LET op == Opcode(d, offset)
  IN CASE isObjectOpcode(op) \/ op = 117 -> resolveOverflowOffset(h, offset)
       [] op \in {118, 119} -> forwarded(h, UBAt(d, offset + 1, IF op = 118 THEN 2 ELSE 4))
       [] OTHER -> Error

\* newNodeAt's loop: the offset of the node itself, or an error where the
\* redirections leave the trees or meet again.
RECURSIVE resolveNode(_, _, _, _)
resolveNode(d, h, next, seen) ==
  IF ~next.ok THEN Error
  ELSE IF ~containsNodeOffset(h, next.val) \/ next.val \in seen THEN Error
  ELSE IF ~isRedirect(Opcode(d, next.val)) THEN next
  ELSE resolveNode(d, h, redirectedNodeOffset(d, h, next.val), seen \cup {next.val})

\* readContainerCountAt: the count and the offset behind it.
countWidth(op) == CASE (op \div 8) % 4 = 0 -> 1 [] (op \div 8) % 4 = 1 -> 2 [] OTHER -> 4
containerCount(count, next) ==
  IF count = Unread THEN Error ELSE [ok |-> TRUE, count |-> count, next |-> next]
readContainerCountAt(d, offset, op) ==
  IF (op \div 8) % 4 = 3 THEN Error
  ELSE containerCount(UBAt(d, offset, countWidth(op)), offset + countWidth(op))

\* readChildOffsetAt: relative to the container, or to the primary tree.
readChildOffsetAt(d, h, container, entry, width) ==
  LET tree == segmentOffsetForNode(h, container)
  IN IF Bit(h.flags, RelativeOffsets) THEN tree + (container - tree) + SBAt(d, entry, width)
     ELSE h.tree + UBAt(d, entry, width)

\* ensureNodeTableRange and readChildOffsetsAt.
readChildOffsetsAt(d, h, container, start, count, op) ==
  LET width == childOffsetSize(op)
  IN IF ~Within(d, start, count * width) THEN Error
     ELSE Valid([i \in 1..count |-> readChildOffsetAt(d, h, container, start + (i - 1) * width, width)])

\* readObjectLayout: a delegated object takes count and field IDs from an object
\* of the primary tree that shares them.
Layout(table, ids, children) ==
  IF table.ok THEN [ok |-> TRUE, count |-> table.count, ids |-> ids, children |-> children] ELSE Error
directLayout(h, table) ==
  Layout(table, table.next, table.next + table.count * numFieldIDBytes(h.flags))
sharedLayout(table, children) == Layout(table, table.next, children)
delegatedLayout(d, owner, ref, children) ==
  IF ref = Unread \/ ~Within(d, owner, 1) THEN Error
  ELSE LET op == Opcode(d, owner)
       IN IF ~isObjectOpcode(op) \/ (op \div 8) % 4 = 3 \/ ~Bit(op, 2) THEN Error
          ELSE sharedLayout(readContainerCountAt(d, owner + 1, op), children)
readObjectLayout(d, h, offset, op) ==
  IF (op \div 8) % 4 # 3 THEN directLayout(h, readContainerCountAt(d, offset + 1, op))
  ELSE LET ref == UBAt(d, offset + 1, childOffsetSize(op))
       IN delegatedLayout(d, h.tree + ref, ref, offset + 1 + childOffsetSize(op))

\* newObjectNodeAt: the offset of every member, by name.
namedChildren(h, ids, children) ==
  LET names == {h.names[j] : j \in Range(ids)}
  IN IF ~children.ok \/ ~(Range(ids) \subseteq DOMAIN h.names) THEN Error
     ELSE IF Cardinality(names) # Len(ids) THEN Error
     ELSE Valid([n \in names |-> children.val[CHOOSE i \in DOMAIN ids : h.names[ids[i]] = n]])
readFieldIDs(d, h, layout) ==
  LET width == numFieldIDBytes(h.flags)
  IN [i \in 1..layout.count |-> UBAt(d, layout.ids + (i - 1) * width, width)]
objectNode(d, h, offset, layout) ==
  IF ~layout.ok THEN Error
  ELSE IF ~Within(d, layout.ids, layout.count * numFieldIDBytes(h.flags)) THEN Error
  ELSE namedChildren(h, readFieldIDs(d, h, layout),
         readChildOffsetsAt(d, h, offset, layout.children, layout.count, Opcode(d, offset)))
newObjectNodeAt(d, h, offset) ==
  objectNode(d, h, offset, readObjectLayout(d, h, offset, Opcode(d, offset)))

\* newArrayNodeAt: the offsets of the elements.
arrayNode(d, h, offset, op, table) ==
  IF op % 8 # 0 \/ ~table.ok THEN Error
  ELSE readChildOffsetsAt(d, h, offset, table.next, table.count, op)
newArrayNodeAt(d, h, offset) ==
  arrayNode(d, h, offset, Opcode(d, offset), readContainerCountAt(d, offset + 1, Opcode(d, offset)))

----------------------------------------------------------------------------
(* Values.                                                                 *)

IntOf(v) == (IF v.neg THEN -1 ELSE 1) * v.m * 10 ^ v.e
Scalar(t, v) == Valid([t |-> t, v |-> v])

\* The ranges of int32 and int64.
IntRange(t) == IF t = "int32" THEN -SignMask..(SignMask - 1) ELSE (-MaxInt - 1)..MaxInt

\* A number as opts ask for it: strconv.ParseFloat refuses one that no float holds.
Number(n, opts) ==
  IF opts.number # "Float64" THEN Scalar("number", <<n>>)
  ELSE IF Abs(n) >= Infinity THEN Error ELSE Scalar("float64", <<n>>)

\* decodeSignedIntegerValue, decodeOracleNumberValue and decodeStringNumberValue.
signedValue(r, t, opts) ==
  IF ~r.ok THEN Error
  ELSE IF r.val.e < 0 \/ IntOf(r.val) \notin IntRange(t) THEN Error
  ELSE Scalar(CASE opts.number = "JSONNumber" -> "number" [] opts.number = "Float64" -> "float64"
                [] OTHER -> t, <<IntOf(r.val)>>)
numberValue(r, opts) == IF r.ok THEN Number(IntOf(r.val), opts) ELSE Error
decodeSignedIntegerValue(raw, t, opts) == signedValue(DecodeExactDecimal(raw), t, opts)
decodeOracleNumberValue(raw, opts) == numberValue(DecodeExactDecimal(raw), opts)
decodeStringNumberValue(raw, opts) ==
  LET digits == SelectSeq(raw, LAMBDA c : c # 45)
      n == FoldLeft(LAMBDA acc, c : 10 * acc + c, 0, digits)
  IN IF raw = <<>> THEN Error
     ELSE Number(IF Head(raw) = 45 THEN -n ELSE n, opts)
decodeBinaryFloat(raw, opts) ==
  LET bits == DecodeBinary(raw[1])
      n == IF bits >= SignMask THEN SignMask - bits ELSE bits
  IN Scalar(IF opts.number = "JSONNumber" /\ Abs(n) # Infinity THEN "number" ELSE "float64", <<n>>)

TimeValue(c, ns, offset) == <<c.year, c.month, c.day, c.hour, c.minute, c.second, ns, offset>>

\* decodeTimestampTZ: the clock is that of UTC, and is shown in the zone.
zonedValue(r) ==
  IF r.ok
  THEN Scalar("time", [UTCOf(TimeValue(r.val.clock, r.val.ns, -r.val.offset)) EXCEPT ![8] = r.val.offset])
  ELSE Error
decodeTimestampTZ(raw) == zonedValue(DecodeTimestampWithTimeZone(raw))

\* The length of a payload that follows an opcode, or a length of width bytes.
Sized(d, offset, length) == SliceAt(d, offset + 1, length)
Counted(d, offset, width) ==
  LET length == UBAt(d, offset + 1, width)
  IN IF length = Unread THEN Error ELSE SliceAt(d, offset + 1 + width, length)

\* _decodeScalarValue, where the opcode holds the length of the payload.
compactValue(op, payload, opts) ==
  IF ~payload.ok THEN Error
  ELSE CASE op <= ShortStringMax -> Scalar("string", payload.val)
         [] op \in 64..95 ->
              decodeSignedIntegerValue(payload.val, IF op < 80 THEN "int32" ELSE "int64", opts)
         [] OTHER -> decodeOracleNumberValue(payload.val, opts)
decodeCompact(d, offset, op, opts) ==
  LET length == IF op <= ShortStringMax THEN op
                ELSE IF op \in 64..71 THEN op - 64
                ELSE IF op \in 80..95 THEN op - 80
                ELSE (op % 16) + 1
  IN IF op \in {64, 80} \/ op \in 93..95 THEN Error
     ELSE compactValue(op, Sized(d, offset, length), opts)

\* Where it is written behind the opcode: strings, numbers and texts of numbers.
countedValue(op, payload, opts) ==
  IF ~payload.ok THEN Error
  ELSE CASE op \in {51, 55, 56} -> Scalar("string", payload.val)
         [] op \in {52, 116} -> decodeOracleNumberValue(payload.val, opts)
         [] op = 53 -> decodeStringNumberValue(payload.val, opts)
decodeCounted(d, offset, op, opts) ==
  countedValue(op, Counted(d, offset, CASE op = 55 -> 2 [] op = 56 -> 4 [] OTHER -> 1), opts)

\* The texts of intervals: a sign and the components.
MonthsText(v) == <<IF v.neg THEN 45 ELSE 43, v.years, v.months>>
DaysText(v) == <<IF v.neg THEN 45 ELSE 43, v.days, v.hours, v.minutes, v.seconds, v.ns>>

\* Where the opcode implies it: binary floats, times and intervals.
clockValue(r) == IF r.ok THEN Scalar("time", TimeValue(r.val.clock, r.val.ns, 0)) ELSE Error
monthsValue(r) == IF r.ok THEN Scalar("string", MonthsText(r.val)) ELSE Error
daysValue(r) == IF r.ok THEN Scalar("string", DaysText(r.val)) ELSE Error
fixedValue(op, payload, opts) ==
  IF ~payload.ok THEN Error
  ELSE CASE op \in {54, 127} -> decodeBinaryFloat(payload.val, opts)
         [] op \in {57, 60, 125} -> clockValue(DecodeTimestamp(payload.val))
         [] op = 124 -> decodeTimestampTZ(payload.val)
         [] op = 61 -> monthsValue(DecodeYearToMonth(payload.val))
         [] op = 62 -> daysValue(DecodeDayToSecond(payload.val))
decodeFixed(d, offset, op, opts) ==
  fixedValue(op, Sized(d, offset, CASE op \in {54, 127} -> 1 [] op \in {60, 125} -> 7 [] op = 57 -> 8
                                    [] op = 124 -> 10 [] op = 61 -> 2 [] op = 62 -> 5), opts)

\* IDs and binary values.
bytesValue(payload) == IF payload.ok THEN Scalar("bytes", payload.val) ELSE Error
decodeBytes(d, offset, op) ==
  bytesValue(Counted(d, offset, CASE op = 126 -> 1 [] op = 58 -> 2 [] op = 59 -> 4))

\* _decodeScalarValue; native integers and extended binaries are unsupported.
decodeScalarValue(d, offset, opts) ==
  LET op == Opcode(d, offset)
  IN CASE op = 48 -> Scalar("nil", <<>>)
       [] op = 49 -> Scalar("true", <<>>)
       [] op = 50 -> Scalar("false", <<>>)
       [] op \in 0..ShortStringMax \cup 32..47 \cup 64..71 \cup 80..111 -> decodeCompact(d, offset, op, opts)
       [] op \in {51, 52, 53, 55, 56, 116} -> decodeCounted(d, offset, op, opts)
       [] op \in {54, 57, 60, 61, 62, 124, 125, 127} -> decodeFixed(d, offset, op, opts)
       [] op \in {58, 59, 126} -> decodeBytes(d, offset, op)
       [] OTHER -> Error

\* The Value methods: the values of all children, or an error.
arrayValue(values) ==
  IF \E i \in DOMAIN values : ~values[i].ok THEN Error
  ELSE Valid([elems |-> [i \in DOMAIN values |-> values[i].val]])
objectValue(values) ==
  IF \E n \in DOMAIN values : ~values[n].ok THEN Error
  ELSE Valid([members |-> [n \in DOMAIN values |-> values[n].val]])

\* GetValue of the node at an offset.
RECURSIVE valueAt(_, _, _, _), nodeValue(_, _, _, _), elementValues(_, _, _, _), memberValues(_, _, _, _)
valueAt(d, h, offset, opts) == nodeValue(d, h, resolveNode(d, h, Valid(offset), {}), opts)
nodeValue(d, h, node, opts) ==
  IF ~node.ok THEN Error
  ELSE IF isArrayOpcode(Opcode(d, node.val)) THEN elementValues(d, h, newArrayNodeAt(d, h, node.val), opts)
  ELSE IF isObjectOpcode(Opcode(d, node.val)) THEN memberValues(d, h, newObjectNodeAt(d, h, node.val), opts)
  ELSE decodeScalarValue(d, node.val, opts)
elementValues(d, h, elements, opts) ==
  IF elements.ok THEN arrayValue([i \in DOMAIN elements.val |-> valueAt(d, h, elements.val[i], opts)])
  ELSE Error
memberValues(d, h, members, opts) ==
  IF members.ok THEN objectValue([n \in DOMAIN members.val |-> valueAt(d, h, members.val[n], opts)])
  ELSE Error

\* newNodeAt: the node, whose container table is read when it is made.
tableRead(d, h, node) ==
  IF ~node.ok THEN Error
  ELSE IF isObjectOpcode(Opcode(d, node.val)) /\ ~newObjectNodeAt(d, h, node.val).ok THEN Error
  ELSE IF isArrayOpcode(Opcode(d, node.val)) /\ ~newArrayNodeAt(d, h, node.val).ok THEN Error
  ELSE node
newNodeAt(d, h, offset) == tableRead(d, h, resolveNode(d, h, Valid(offset), {}))

\* Parse: the header and the root.
withRoot(h, root) == IF root.ok THEN [ok |-> TRUE, header |-> h, root |-> root.val] ELSE Error
parseRoot(d, h) == IF h.ok THEN withRoot(h, newNodeAt(d, h, h.tree)) ELSE Error
Parse(d) == parseRoot(d, newOsonHeader(d))
=============================================================================
