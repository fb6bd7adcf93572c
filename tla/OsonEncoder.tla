---------------------------- MODULE OsonEncoder ----------------------------
(***************************************************************************)
(* The OSON encoder of internal/driver/ttc/oson/encoder.go.  A document is *)
(* a sequence of bytes.  Its counts, lengths and offsets are written in    *)
(* base OsonRadix, so that one, two and four bytes run out on small        *)
(* documents; its opcodes, flags and payloads are the bytes of the code.   *)
(*                                                                         *)
(* A Go value is a scalar [t |-> type, v |-> value], or the reference to a *)
(* container of the heap g: a slice [elems |-> values] or a map            *)
(* [members |-> [name -> value]], which may be shared or contain itself.   *)
(***************************************************************************)
EXTENDS OracleNumber, Functions

CONSTANTS
  OsonRadix,        \* one more than math.MaxUint8
  ShortStringMax,   \* osonOpShortStringMax
  CompactMax,       \* _compactOracleNumberMaxPayloadLen
  MaxDocument,      \* osonMaxDocumentSize
  NameHash(_)       \* osonHash, the FNV-1a hash of a name

ASSUME OsonAssumption ==
  /\ {OsonRadix, ShortStringMax, CompactMax, MaxDocument} \subseteq Nat
  /\ OsonRadix % 2 = 0 /\ ShortStringMax < OsonRadix - 1

MaxUB(width) == OsonRadix ^ width - 1

\* writeUB1, writeUB2, writeUB4 and writeUint: big-endian, and truncated.
UB(width, n) == [i \in 1..width |-> (n \div OsonRadix ^ (width - i)) % OsonRadix]

\* The narrowest of the widths that holds n.
WidthOf(n) == IF n > MaxUB(2) THEN 4 ELSE IF n > MaxUB(1) THEN 2 ELSE 1
WidthOf24(n) == IF n > MaxUB(2) THEN 4 ELSE 2

\* Bits of the two flag bytes.
RelativeOffsets == 1
InlineLeaf == 2
StringLengthInOpcode == 4
DistinctFieldCountUB4 == 8
ScalarDocument == 16
PrimaryHashIDsUB1 == 256
DistinctFieldCountUB2 == 1024
FieldHeapSizeUB4 == 2048
TreeSegmentSizeUB4 == 4096
SecondaryOffsetsUB2 == 256

Flag(condition, mask) == IF condition THEN mask ELSE 0
UB2Flags(flags) == <<flags \div 256, flags % 256>>
Magic(version) == <<255, 74, 90, version>>

IsRef(x) == "ref" \in DOMAIN x
IsArray(c) == "elems" \in DOMAIN c

----------------------------------------------------------------------------
(* The field name dictionary.                                              *)

\* collectFieldNames: the names of the containers below x, or an error where
\* one of them contains itself; an empty container is never active.
RECURSIVE collectFieldNames(_, _, _)
collectFieldNames(g, x, active) ==
  IF ~IsRef(x) THEN Valid({})
  ELSE LET c == g[x.ref]
           children == IF IsArray(c) THEN Range(c.elems) ELSE Range(c.members)
           below == {collectFieldNames(g, y, active \cup {x.ref}) : y \in children}
           own == IF IsArray(c) THEN {} ELSE DOMAIN c.members
       IN IF children = {} THEN Valid({})
          ELSE IF \/ x.ref \in active
                  \/ \E n \in own : Len(n) > MaxUB(2)
                  \/ \E r \in below : ~r.ok
          THEN Error
          ELSE Valid(own \cup UNION {r.val : r \in below})

\* addFieldName: which of the dictionaries a name belongs to.
inPrimary(n) == Len(n) <= MaxUB(1)

compactPrimaryHash(n) == NameHash(n) % OsonRadix
compactSecondaryHash(n) ==
  (NameHash(n) % OsonRadix) * OsonRadix + ((NameHash(n) \div OsonRadix) % OsonRadix)
nameHash(n) == IF inPrimary(n) THEN compactPrimaryHash(n) ELSE compactSecondaryHash(n)

\* The sequence of a set's elements in the order of less, a total order.
Sorted(S, less(_, _)) ==
  LET sorted[T \in SUBSET S] ==
        IF T = {} THEN <<>>
        ELSE LET least == CHOOSE x \in T : \A y \in T \ {x} : less(x, y)
             IN <<least>> \o sorted[T \ {least}]
  IN sorted[S]

\* The order of Go strings.
NameLess(a, b) ==
  \/ IsStrictPrefix(a, b)
  \/ \E i \in 1..Min({Len(a), Len(b)}) :
       a[i] < b[i] /\ \A j \in 1..(i - 1) : a[j] = b[j]

\* sortFieldNames' order: hash, length, bytes.
fieldLess(a, b) ==
  \/ nameHash(a) < nameHash(b)
  \/ nameHash(a) = nameHash(b) /\ Len(a) < Len(b)
  \/ nameHash(a) = nameHash(b) /\ Len(a) = Len(b) /\ NameLess(a, b)

fieldIDWidth(primary, secondary) == WidthOf(Len(primary) + Len(secondary))

\* processFieldNames: the sorted dictionaries and the width of field IDs.
processFieldNames(names) ==
  LET primary == Sorted({n \in names : inPrimary(n)}, fieldLess)
      secondary == Sorted({n \in names : ~inPrimary(n)}, fieldLess)
  IN [primary |-> primary, secondary |-> secondary,
      width |-> fieldIDWidth(primary, secondary)]

\* Field IDs count from one, the secondary names after the primary ones.
fieldID(dict, n) ==
  IF inPrimary(n) THEN CHOOSE i \in DOMAIN dict.primary : dict.primary[i] = n
  ELSE Len(dict.primary) + CHOOSE i \in DOMAIN dict.secondary : dict.secondary[i] = n

dictionaryHeapSize(fields, lengthSize) ==
  FoldLeft(LAMBDA size, n : size + lengthSize + Len(n), 0, fields)

\* writeDictionary: hashes, heap offsets, and the heap of lengths and names.
writeDictionary(fields, lengthSize) ==
  LET offsetSize == WidthOf24(dictionaryHeapSize(fields, lengthSize))
      hashes == [i \in DOMAIN fields |-> UB(lengthSize, nameHash(fields[i]))]
      offsets == [i \in DOMAIN fields |->
                    UB(offsetSize, dictionaryHeapSize(SubSeq(fields, 1, i - 1), lengthSize))]
      heap == [i \in DOMAIN fields |-> UB(lengthSize, Len(fields[i])) \o fields[i]]
  IN FlattenSeq(hashes) \o FlattenSeq(offsets) \o FlattenSeq(heap)

----------------------------------------------------------------------------
(* Scalars.                                                                *)

Opaque(opcode, payload) == Valid(<<opcode>> \o payload)

\* writeString, writeBinary and writeOracleNumberPayload.
writeString(raw) ==
  CASE Len(raw) <= ShortStringMax -> Valid(<<Len(raw)>> \o raw)
    [] Len(raw) > ShortStringMax /\ Len(raw) <= MaxUB(1) -> Valid(<<51>> \o UB(1, Len(raw)) \o raw)
    [] Len(raw) > MaxUB(1) /\ Len(raw) <= MaxUB(2) -> Valid(<<55>> \o UB(2, Len(raw)) \o raw)
    [] Len(raw) > MaxUB(2) /\ Len(raw) <= MaxUB(4) -> Valid(<<56>> \o UB(4, Len(raw)) \o raw)
    [] OTHER -> Error
writeBinary(raw) ==
  CASE Len(raw) <= MaxUB(2) -> Valid(<<58>> \o UB(2, Len(raw)) \o raw)
    [] Len(raw) > MaxUB(2) /\ Len(raw) <= MaxUB(4) -> Valid(<<59>> \o UB(4, Len(raw)) \o raw)
    [] OTHER -> Error
writeOracleNumberPayload(payload) ==
  IF Len(payload) <= CompactMax THEN Valid(<<32 + Len(payload) - 1>> \o payload)
  ELSE Valid(<<52>> \o UB(1, Len(payload)) \o payload)

writeSigned(base, payload) == Valid(<<base + Len(payload)>> \o payload)
writeInt32(n) == writeSigned(64, EncodeInt(n))
writeInt64(n) == writeSigned(80, EncodeInt(n))

\* The text of an integer: its digits, and a minus sign.
Text(n) == (IF n < 0 THEN <<45>> ELSE <<>>) \o Digits(Abs(n))
writeStringNumber(n) ==
  IF Len(Text(n)) > MaxUB(1) THEN Error ELSE Valid(<<53>> \o UB(1, Len(Text(n))) \o Text(n))

\* A binary float holds an integer by its sign bit and magnitude; the largest
\* magnitude is the infinity.
FloatBits(n) == IF n < 0 THEN SignMask - n ELSE n
Infinity == SignMask - 1

\* A time.Time is its clock, nanoseconds and zone offset in seconds.
TimeOf(v) == [year |-> v[1], month |-> v[2], day |-> v[3], hour |-> v[4], minute |-> v[5],
              second |-> v[6], ns |-> v[7], offset |-> v[8]]

\* value.UTC(), within a month.
UTCOf(v) ==
  LET seconds == ((v[3] * 24 + v[4]) * 60 + v[5]) * 60 + v[6] - v[8]
  IN <<v[1], v[2], seconds \div 86400, (seconds \div 3600) % 24, (seconds \div 60) % 60,
       seconds % 60, v[7], 0>>

withZone(payload, offset) ==
  IF ~payload.ok THEN Error
  ELSE LET hour == Quot(offset, 3600)
       IN Valid(payload.val \o <<hour + 20, Quot(offset - hour * 3600, 60) + 60>>)
encodeTimestampTZ(v) == withZone(EncodeTimestamp(TimeOf(UTCOf(v))), v[8])

\* writeTime, by Options.TimeEncoding.
withOpcode(opcode, payload) == IF payload.ok THEN Opaque(opcode, payload.val) ELSE Error
writeTime(v, encoding) ==
  CASE encoding = "Date" -> withOpcode(60, EncodeDate(TimeOf(v)))
    [] encoding = "TimestampTZ" -> withOpcode(124, encodeTimestampTZ(v))
    [] OTHER -> withOpcode(57, EncodeTimestamp(TimeOf(v)))

\* writeScalarNode, by the Go type: int32 stands for the integers that fit it,
\* int64 for int, int64 and uint32, and uint for uint and uint64.
writeScalarNode(x, opts) ==
  CASE x.t = "nil" -> Valid(<<48>>)
    [] x.t = "true" -> Valid(<<49>>)
    [] x.t = "false" -> Valid(<<50>>)
    [] x.t = "string" -> writeString(x.v)
    [] x.t = "int32" -> writeInt32(x.v[1])
    [] x.t = "int64" -> writeInt64(x.v[1])
    [] x.t = "uint" -> writeOracleNumberPayload(EncodeInt(x.v[1]))
    [] x.t = "float32" -> Opaque(127, <<EncodeBinary(FloatBits(x.v[1]))>>)
    [] x.t = "float64" -> Opaque(54, <<EncodeBinary(FloatBits(x.v[1]))>>)
    [] x.t = "time" -> writeTime(x.v, opts.time)
    [] x.t = "bytes" -> writeBinary(x.v)
    [] x.t = "number" -> writeStringNumber(x.v[1])

----------------------------------------------------------------------------
(* The tree segment.                                                       *)

containerOpcode(base, count, childOffsetSize) ==
  base + (IF childOffsetSize = 4 THEN 32 ELSE 0)
       + (IF count > MaxUB(2) THEN 16 ELSE IF count > MaxUB(1) THEN 8 ELSE 0)
writeContainerCount(count) == UB(WidthOf(count), count)

\* patchUint fails on a value that its width does not hold.
patchUint(width, n) == IF n > MaxUB(width) THEN Error ELSE Valid(UB(width, n))

\* writeNode, writeArrayNode and writeObjectNode: the node of x at offset at of
\* the tree, and the offsets of its children.  The tables are reserved first and
\* patched as the children, of which those of a map follow their field IDs, are
\* written behind them (writeNodes).
Written(bytes, offsets) == [ok |-> TRUE, bytes |-> bytes, offsets |-> offsets]
leaf(scalar) == IF scalar.ok THEN Written(scalar.val, <<>>) ELSE Error
containerHead(base, count) == <<containerOpcode(base, count, 4)>> \o writeContainerCount(count)
patchedIDs(ids) ==
  IF \E i \in DOMAIN ids : ~ids[i].ok THEN Error ELSE Valid(FlattenSeq([i \in DOMAIN ids |-> ids[i].val]))
containerNode(head, ids, nodes) ==
  IF ids.ok /\ nodes.ok THEN Written(head \o ids.val \o nodes.table \o nodes.bytes, nodes.offsets)
  ELSE Error
withNode(nodes, at, entry, node) ==
  IF ~entry.ok \/ ~node.ok THEN Error
  ELSE [ok |-> TRUE, bytes |-> nodes.bytes \o node.bytes, table |-> nodes.table \o entry.val,
        offsets |-> Append(nodes.offsets, at)]
NoNodes == [ok |-> TRUE, bytes |-> <<>>, table |-> <<>>, offsets |-> <<>>]

RECURSIVE writeNode(_, _, _, _, _), writeArrayNode(_, _, _, _, _), writeObjectNode(_, _, _, _, _, _),
          writeNodes(_, _, _, _, _, _)
writeNode(g, dict, x, at, opts) ==
  IF ~IsRef(x) THEN leaf(writeScalarNode(x, opts))
  ELSE IF IsArray(g[x.ref]) THEN writeArrayNode(g, dict, g[x.ref].elems, at, opts)
  ELSE writeObjectNode(g, dict, g[x.ref].members, at, opts,
                       Sorted(DOMAIN g[x.ref].members, LAMBDA a, b : fieldID(dict, a) < fieldID(dict, b)))
writeArrayNode(g, dict, elems, at, opts) ==
  LET head == containerHead(192, Len(elems))
  IN containerNode(head, Valid(<<>>), writeNodes(g, dict, elems, at + Len(head) + 4 * Len(elems), opts, NoNodes))
writeObjectNode(g, dict, members, at, opts, names) ==
  LET head == containerHead(128, Len(names))
  IN containerNode(head, patchedIDs([i \in DOMAIN names |-> patchUint(dict.width, fieldID(dict, names[i]))]),
               writeNodes(g, dict, [i \in DOMAIN names |-> members[names[i]]],
                          at + Len(head) + Len(names) * (dict.width + 4), opts, NoNodes))
writeNodes(g, dict, xs, start, opts, nodes) ==
  IF ~nodes.ok \/ Len(nodes.offsets) = Len(xs) THEN nodes
  ELSE writeNodes(g, dict, xs, start, opts,
         withNode(nodes, start + Len(nodes.bytes), patchUint(4, start + Len(nodes.bytes)),
                  writeNode(g, dict, xs[Len(nodes.offsets) + 1], start + Len(nodes.bytes), opts)))

----------------------------------------------------------------------------
(* Documents.                                                              *)

writeTreeSegmentSize(size) == UB(WidthOf24(size), size)

\* prepareScalarHeader and generateScalarDocument.
scalarDocument(tree) ==
  Magic(1)
  \o UB2Flags(InlineLeaf + StringLengthInOpcode + ScalarDocument
              + Flag(Len(tree) > MaxUB(2), TreeSegmentSizeUB4))
  \o writeTreeSegmentSize(Len(tree)) \o tree

\* prepareContainerHeader.
containerFlags(dict, size) ==
  InlineLeaf + StringLengthInOpcode
  + Flag(dict.primary # <<>>, PrimaryHashIDsUB1)
  + Flag(dict.width = 4, DistinctFieldCountUB4)
  + Flag(dict.width = 2, DistinctFieldCountUB2)
  + Flag(dictionaryHeapSize(dict.primary, 1) > MaxUB(2), FieldHeapSizeUB4)
  + Flag(size > MaxUB(2), TreeSegmentSizeUB4)

writePrimaryDictionaryHeader(dict) ==
  LET heapSize == dictionaryHeapSize(dict.primary, 1)
  IN UB(dict.width, Len(dict.primary)) \o UB(WidthOf24(heapSize), heapSize)

writeSecondaryDictionaryHeader(dict) ==
  LET heapSize == dictionaryHeapSize(dict.secondary, 2)
  IN UB2Flags(Flag(heapSize <= MaxUB(2), SecondaryOffsetsUB2))
     \o UB(4, Len(dict.secondary)) \o UB(4, heapSize)

\* generateContainerDocument up to the tree; extra are flags only the server sets.
containerHeader(dict, size, extra) ==
  Magic(IF dict.secondary # <<>> THEN 3 ELSE 1)
  \o UB2Flags(extra + containerFlags(dict, size))
  \o writePrimaryDictionaryHeader(dict)
  \o (IF dict.secondary # <<>> THEN writeSecondaryDictionaryHeader(dict) ELSE <<>>)
  \o writeTreeSegmentSize(size) \o UB(2, 0)
  \o writeDictionary(dict.primary, 1)
  \o (IF dict.secondary # <<>> THEN writeDictionary(dict.secondary, 2) ELSE <<>>)

Limited(document) == IF Len(document) > MaxDocument THEN Error ELSE Valid(document)

documentOf(scalar) == IF scalar.ok THEN Limited(scalarDocument(scalar.val)) ELSE Error
encodeScalarDocument(x, opts) == documentOf(writeScalarNode(x, opts))

\* encodeContainer: the dictionary, the tree and the document.
containerDocument(dict, tree) ==
  IF tree.ok THEN Limited(containerHeader(dict, Len(tree.bytes), 0) \o tree.bytes) ELSE Error
encodeTree(g, x, opts, dict) == containerDocument(dict, writeNode(g, dict, x, 0, opts))
encodeNamed(g, x, opts, names) ==
  IF names.ok THEN encodeTree(g, x, opts, processFieldNames(names.val)) ELSE Error
encodeContainer(g, x, opts) == encodeNamed(g, x, opts, collectFieldNames(g, x, {}))

EncodeWithOptions(g, x, opts) ==
  IF IsRef(x) THEN encodeContainer(g, x, opts) ELSE encodeScalarDocument(x, opts)
=============================================================================
