--------------------------- MODULE MCColumnValues ---------------------------
(***************************************************************************)
(* An instance of the wire formats for TLC: the fields of messages and the *)
(* values of columns.                                                      *)
(***************************************************************************)
EXTENDS MarshalEngine, ColumnValues

CONSTANT MaxFetched   \* bound on the number of stored values when one is fetched

----------------------------------------------------------------------------
(* The engine's fields, in base Radix.                                     *)

MCWidth == [UB1 |-> 1, UB2 |-> 2, UB4 |-> 4, UB8 |-> 6, SB2 |-> 2, SB4 |-> 4]
AllRep(r) == [x \in {"B1", "B2", "B4", "B8", "PTR"} |-> r]
MCEngines ==
  {[rep |-> AllRep("Native"), order |-> "LITTLE"],
   [rep |-> AllRep("Native"), order |-> "BIG"],
   [rep |-> AllRep("Universal"), order |-> "LITTLE"]}

Bytes(n) == [i \in 1..n |-> i % Radix]
Edges(t) ==
  {MinValue(t), -1, 0, Radix - 1, Radix, MaxValue(t)}
    \cap (MinValue(t)..MaxValue(t))
Lengths == {0, 1, ShortMax, ShortMax + 1, 2 * Chunk, 2 * Chunk + 1}

MCFields ==
  UNION {[kind : {t}, val : Edges(t)] : t \in DOMAIN Width}
  \cup [kind : {"SB1"}, val : {-Negative, -1, 0, Negative - 1}]
  \cup [kind : {"PTR"}, val : {0, 1}]
  \cup [kind : {"CLR"}, val : {Bytes(n) : n \in Lengths}]
  \cup [kind : {"ServerCLR"}, size : {1, ChunkLimit, ChunkLimit + 1},
        val : {Bytes(n) : n \in {ShortMax, 2 * ChunkLimit, maxAllowedCLRLength + 1}}]
  \cup [kind : {"Dalc"}, val : {Bytes(n) : n \in {0, 1, ShortMax + 1, DalcLimit, DalcLimit + 1}}]
  \cup [kind : {"Keyword"},
        val : [text : {Bytes(0), Bytes(2)}, binary : {Bytes(0), Bytes(ShortMax + 1)},
               keyword : {0, MaxValue("UB2")}]]
  \cup [kind : {"KeyValue"},
        val : [key : {Bytes(1), Bytes(KeyLimit + 1)}, value : {Bytes(0), Bytes(ValueLimit)},
               flag : {0, -1}]]

\* What a faulty peer may send in place of a number.
RawSeqs(t) ==
  LET D == IF Width[t] > 2 THEN {0, Negative - 1, Negative, Radix - 1} ELSE {0, 1, Negative - 1, Negative, Radix - 1}
  IN {<<f>> \o ds : f \in 0..(Radix - 1), ds \in UNION {[1..k -> D] : k \in {Width[t] - 1, Width[t]}}}

\* Fields are written before any of them is read.
EngineNext ==
  \/ /\ sequenceNumber = 1 /\ last = NoRead
     /\ \/ \E f \in MCFields : MarshalField(f)
        \/ pending = <<>> /\ \E t \in {"UB2", "SB2", "SB4"} : \E b \in RawSeqs(t) : UnmarshalRaw(t, b)
  \/ sequenceNumber = 1 /\ \E m \in {0, 5, ShortMax + 4} : UnmarshalIntoBuffer(m)
  \/ marshalSeqNo
  \/ UnmarshalField

----------------------------------------------------------------------------
(* The values of columns.                                                  *)

MCZones ==
  [sign : {1}, hours : {0, 5, 14}, minutes : {0, 30}]
  \cup [sign : {-1}, hours : {3, 9}, minutes : {30}]
UTC == [sign |-> 1, hours |-> 0, minutes |-> 0]
MCGap == {<<3, 10, 2>>}

Mantissas == {1, 12, 101, 150, 6553, 6554}
Exponents == {-130, -129, -128, -2, -1, 0, 1, 121, 122}
MCNumbers ==
  [kind : {"integer"}, val : {-MaxInt - 1, -100, -1, 0, 1, 10, 99, 100, MaxInt, MaxInt + 1, MaxUint}]
  \cup [kind : {"float64"},
        val : {Decimal(neg, m, e) : neg \in BOOLEAN, m \in Mantissas, e \in Exponents} \cup {Zero}]

MCBinaries == [kind : {"binary"}, val : {0, 1, SignMask - 1, SignMask, SignMask + 1, 2 * SignMask - 1}]
MCYearToMonths ==
  [kind : {"yearToMonth"},
   val : [neg : BOOLEAN, years : {0, 1, YearLimit - 1, SignMask + 2}, months : {0, 5, 11, 12}]]
MCDayToSeconds ==
  [kind : {"dayToSecond"},
   val : [neg : BOOLEAN, days : {0, SignMask - 1, SignMask}, hours : {0, 23, 24},
          minutes : {59}, seconds : {0, 59}, ns : {0, NsLimit - 1}]]
MCTimes ==
  [kind : {"time"},
   val : [year : {-4713, -4712, -101, -1, 0, 1, 1999, 2024, 9999}, month : {3}, day : {10, 11},
          hour : {0, 2, 23}, minute : {30}, second : {59}, ns : {0, 5},
          offset : {-43200, -12600, 0, 90, 20700, 50400}]]

MCColumns == [type : {"binary", "yearToMonth", "dayToSecond", "DATE", "TIMESTAMP", "TSTZ", "TSLTZ"}]
NumberColumn(scale) == [type |-> "NUMBER", precision |-> 38, scale |-> scale]

\* Only times depend on the server's zone, and have no order to check; the order
\* of numbers does not depend on their column.
ColumnNext ==
  \/ /\ zone = UTC
     /\ \/ \E x \in MCNumbers : Bind(x, NumberColumn(0))
        \/ stored = <<>> /\ \E x \in MCNumbers, scale \in {FloatScale, -2, 1, 3} : Bind(x, NumberColumn(scale))
        \/ \E x \in MCBinaries \cup MCYearToMonths \cup MCDayToSeconds, c \in MCColumns : Bind(x, c)
  \/ stored = <<>> /\ \E x \in MCTimes, c \in MCColumns : Bind(x, c)
  \/ Len(stored) <= MaxFetched /\ \E i \in DOMAIN stored : Fetch(i)
=============================================================================
