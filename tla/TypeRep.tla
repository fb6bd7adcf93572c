------------------------------- MODULE TypeRep -------------------------------
(***************************************************************************)
(* What the two sides tell each other before the logon: the capability     *)
(* bytes (capability.go) and the table of type representations             *)
(* (typerep.go).  Only the bytes some code reads are kept: a list of       *)
(* capabilities is a function from the indices it is long enough to have   *)
(* and that matter to the byte there.                                      *)
(***************************************************************************)
EXTENDS Integers, Sequences

CONSTANT MaxReceivedReps    \* _maxReceivedReps, 1024 in the code

ASSUME MaxReceivedRepsIsNat == MaxReceivedReps \in Nat

-----------------------------------------------------------------------------
(* Capabilities. *)

\* capabilityMetadata of the capabilities that are read: the index of the byte
\* and the value of the flag or, for the versions, of the client's byte.
knownUsedCapabilities ==
  [ttcFldVsn |-> [index |-> 7, value |-> 24], ub2dty |-> [index |-> 27, value |-> 1],
   tzver |-> [index |-> 37, value |-> 2], tzEx |-> [index |-> 1, value |-> 1]]

TtcFldVsn == knownUsedCapabilities.ttcFldVsn.index
Ub2dty == knownUsedCapabilities.ub2dty.index
Ttc3 == knownUsedCapabilities.tzver.index
TzEx == knownUsedCapabilities.tzEx.index

\* newCapability: what a server that sends no capabilities is taken to have.
newCapability ==
  [compile |-> [i \in {TtcFldVsn, Ub2dty, Ttc3} |->
                  IF i = TtcFldVsn THEN 17 ELSE IF i = Ub2dty THEN 1 ELSE 127],
   run |-> [i \in {TzEx} |-> 1]]

\* newDefaultCapability: the flags of a byte or-ed together; byte 37 holds
\* COLMETADATA, TZVER, IMPLRES, BIGCHUNK_CLR and KEEP_OUT_ORDER.
newDefaultCapability ==
  [compile |-> [i \in {TtcFldVsn, Ub2dty, Ttc3} |->
                  IF i = TtcFldVsn THEN 24 ELSE IF i = Ub2dty THEN 1 ELSE 179],
   run |-> [i \in {TzEx} |-> 1]]

\* flag is one bit.
HasFlag(byte, flag) == (byte \div flag) % 2 = 1
Without(byte, flag) == IF HasFlag(byte, flag) THEN byte - flag ELSE byte

\* Mutant: a server too old to have the byte is taken to have the flag.
adjustCapabilityFromShort(client, server) ==
  LET noUb2 == Ub2dty \in DOMAIN server.compile /\ server.compile[Ub2dty] = 0
      noTzEx == TzEx \in DOMAIN server.run /\ ~HasFlag(server.run[TzEx], 1)
      noTzVer == Ttc3 \in DOMAIN server.compile /\ server.compile[Ttc3] # 2
  IN  [compile |-> [client.compile EXCEPT ![Ub2dty] = IF noUb2 THEN 0 ELSE @,
                                          ![Ttc3] = IF noTzVer THEN Without(@, 2) ELSE @],
       run |-> [client.run EXCEPT ![TzEx] = IF noTzEx \/ noTzVer THEN Without(@, 1) ELSE @]]

\* adjustCapabilityFrom: the client gives up what the server does not have.
\* The byte of TZVER is compared as a whole: any other flag of the server in it
\* switches the exchange of time zones off.
adjustCapabilityFrom(client, server) ==
  LET noUb2 == Ub2dty \in DOMAIN server.compile /\ server.compile[Ub2dty] = 0
      noTzEx == TzEx \notin DOMAIN server.run \/ ~HasFlag(server.run[TzEx], 1)
      noTzVer == Ttc3 \in DOMAIN server.compile /\ server.compile[Ttc3] # 2
  IN  [compile |-> [client.compile EXCEPT ![Ub2dty] = IF noUb2 THEN 0 ELSE @,
                                          ![Ttc3] = IF noTzVer THEN Without(@, 2) ELSE @],
       run |-> [client.run EXCEPT ![TzEx] = IF noTzEx \/ noTzVer THEN Without(@, 1) ELSE @]]

\* toMap and capabilitiesToMap: a byte the list is too short for reads as zero,
\* the value a Go map has for a key it does not hold.
valueOf(bytes, index) == IF index \in DOMAIN bytes THEN bytes[index] ELSE 0

ttcFldVsn(caps) == valueOf(caps.compile, TtcFldVsn)
tzExSet(caps) == HasFlag(valueOf(caps.run, TzEx), 1)
tzverSet(caps) == HasFlag(valueOf(caps.compile, Ttc3), 2)

-----------------------------------------------------------------------------
(* The table of representations, a sequence of 16-bit words. *)

\* addTypeRepToTable: a type the client does not know has no representation.
addTypeRepToTable(table, dty, ndty, rep) ==
  table \o (IF ndty = 0 THEN <<dty, 0>> ELSE <<dty, ndty, rep, 0>>)

\* MarshalTo: the table and the zero that ends it.
marshalTable(table) == Append(table, 0)

\* Where the reader is: in a type's block or not, at a native type or at its
\* representation, how many types and words it has read, and how it ended.
AtStart == [inTypeBlock |-> FALSE, pairCount |-> 0, nbDty |-> 0, words |-> 0, end |-> "no"]

\* One turn of the loop of UnmarshalFrom: a type, then pairs of a native type
\* and a representation up to a zero in the place of a native type; a zero in
\* the place of a type ends the table.
readWord(s, b) ==
  LET r == [s EXCEPT !.words = @ + 1]
  IN  IF s.end # "no" THEN s
      ELSE IF ~s.inTypeBlock
        THEN IF b = 0 THEN [r EXCEPT !.end = "done"]
             ELSE IF s.nbDty = MaxReceivedReps THEN [r EXCEPT !.end = "limit"]
             ELSE [r EXCEPT !.nbDty = @ + 1, !.inTypeBlock = TRUE, !.pairCount = 0]
        ELSE IF s.pairCount = 0 /\ b = 0 THEN [r EXCEPT !.inTypeBlock = FALSE]
        ELSE [r EXCEPT !.pairCount = 1 - @]

\* UnmarshalFrom.  What it reads is used for nothing: it only has to be read.
unmarshalTable(words) ==
  LET after[n \in 0 .. Len(words)] == IF n = 0 THEN AtStart ELSE readWord(after[n - 1], words[n])
  IN  after[Len(words)]
=============================================================================
