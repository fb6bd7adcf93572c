--------------------------- MODULE RefCursorProofs ---------------------------
(***************************************************************************)
(* What a call leaves behind: REF CURSORs and implicit results, for any    *)
(* number of connections, cursors, result sets and nested cursors; and the *)
(* cancellation of a statement, for every number of executions and rounds. *)
(***************************************************************************)
EXTENDS RefCursors, StatementCancel, TLAPS

CursorState ==
  [on : Conns, cursorID : Nat, executorID : Ids, shelf : Conns \cup {None}, fetched : BOOLEAN,
   nested : Seq(Nat), closed : BOOLEAN, closeErr : BOOLEAN, running : BOOLEAN, next : Nat, caller : Int]

RowsState ==
  [sets : Seq(Nat), on : Conns, currentResultSet : Nat, closed : BOOLEAN, closeErr : BOOLEAN, next : Nat]

ObjectsOK == made \in Nat /\ cur \in [1..made -> CursorState]
RowsOK == rows \in Seq(RowsState) /\ active \in Int
ServerOK ==
  /\ reg \in [Conns -> SUBSET (1..made)]
  /\ queue \in [Conns -> Seq([id : Ids, of : Nat])]
  /\ opened \in [Conns -> [Ids -> 0..made]]
GivenOK == given \subseteq 1..made

CursorTypeOK == ObjectsOK /\ RowsOK /\ ServerOK /\ GivenOK

\* The close of a cursor is queued.
Queued(c, i, k) == \E q \in DOMAIN queue[c] : queue[c][q] = [id |-> i, of |-> k]

\* Who has which number: an object that has one is the cursor that is open under
\* it, and its close is not queued; every open cursor has an object of its
\* connection, which has the number or has queued its close, once.
Registered(c) == \A k \in reg[c] : cur[k].on = c /\ cur[k].cursorID # 0
Numbered(k) ==
  cur[k].cursorID # 0 =>
    /\ cur[k].cursorID = cur[k].executorID /\ opened[cur[k].on][cur[k].executorID] = k
    /\ \A i \in DOMAIN queue[cur[k].on] : queue[cur[k].on][i].id # cur[k].executorID
Closes(c) ==
  \A i \in DOMAIN queue[c] :
    /\ opened[c][queue[c][i].id] = queue[c][i].of
    /\ \A j \in DOMAIN queue[c] : i # j => queue[c][i].id # queue[c][j].id
Made(c, i, k) ==
  /\ cur[k].on = c /\ cur[k].executorID = i
  /\ cur[k].cursorID = 0 => Queued(c, i, k)
Numbers ==
  /\ \A c \in Conns : Registered(c) /\ Closes(c) /\ \A i \in Ids : opened[c][i] # 0 => Made(c, i, opened[c][i])
  /\ \A k \in 1..made : Numbered(k)

\* Nested cursors are younger than their parent, and result sets are objects of
\* the connection of their rows, attached to its shelf.
Children(k) == \A i \in DOMAIN cur[k].nested : cur[k].nested[i] \in (k + 1)..made
ResultSet(r, k) == k \in 1..made /\ cur[k].on = rows[r].on /\ cur[k].shelf # None
Owned ==
  /\ \A k \in 1..made : Children(k)
  /\ \A r \in DOMAIN rows : \A j \in DOMAIN rows[r].sets : ResultSet(r, rows[r].sets[j])

\* The running calls of Close are a stack that ends in the active one.
Frame(a) ==
  /\ a <= active /\ cur[a].closed /\ cur[a].caller < a
  /\ cur[a].caller > 0 => cur[cur[a].caller].running
  /\ cur[a].caller < 0 => -cur[a].caller \in DOMAIN rows
  /\ \A b \in 1..made : cur[b].running /\ a < b => a <= cur[b].caller
Frames ==
  /\ \A a \in 1..made : cur[a].running => Frame(a)
  /\ active > 0 => active \in 1..made /\ cur[active].running
  /\ active < 0 => -active \in DOMAIN rows

\* A result set whose Close has returned no error has no number any more.
ReturnedClean(k) == cur[k].closed /\ ~cur[k].running /\ ~cur[k].closeErr => cur[k].cursorID = 0

\* Close of the rows r has called Close of its result set k.
Called(r, k) == cur[k].cursorID = 0 \/ (cur[k].running /\ cur[k].caller = -r)

\* Where Close of implicit rows is.
Walks(r) == active = -r \/ \E k \in 1..made : cur[k].running /\ cur[k].caller = -r
Progress(r) ==
  /\ \A j \in DOMAIN rows[r].sets : ReturnedClean(rows[r].sets[j])
  /\ rows[r].next <= Len(rows[r].sets)
  /\ rows[r].closed => Walks(r) \/ rows[r].next = Len(rows[r].sets)
  /\ ~rows[r].closeErr => \A j \in 1..rows[r].next : Called(r, rows[r].sets[j])

CursorInv ==
  CursorTypeOK /\ Numbers /\ Owned /\ Frames /\ \A r \in DOMAIN rows : Progress(r)

-----------------------------------------------------------------------------
(* Sequences and records, in the form the provers want them.               *)

LEMMA SeqIs ==
  ASSUME NEW S, NEW s \in Seq(S)
  PROVE  Len(s) \in Nat /\ DOMAIN s = 1..Len(s) /\ \A i \in 1..Len(s) : s[i] \in S
OBVIOUS

LEMMA RowsAre ==
  ASSUME RowsOK
  PROVE  /\ Len(rows) \in Nat /\ DOMAIN rows = 1..Len(rows)
         /\ \A r \in DOMAIN rows :
              /\ r \in Nat /\ r > 0 /\ rows[r] \in RowsState /\ rows[r].on \in Conns /\ rows[r].next \in Nat
              /\ rows[r].closed \in BOOLEAN /\ rows[r].closeErr \in BOOLEAN
              /\ rows[r].sets \in Seq(Nat) /\ Len(rows[r].sets) \in Nat
              /\ DOMAIN rows[r].sets = 1..Len(rows[r].sets)
<1>1. Len(rows) \in Nat /\ DOMAIN rows = 1..Len(rows) /\ \A r \in 1..Len(rows) : rows[r] \in RowsState
  BY SeqIs, Zenon DEF RowsOK
<1>2. ASSUME NEW o \in RowsState
      PROVE  /\ o.on \in Conns /\ o.next \in Nat /\ o.closed \in BOOLEAN /\ o.closeErr \in BOOLEAN
             /\ o.sets \in Seq(Nat)
  BY Zenon DEF RowsState
<1> QED  BY <1>1, <1>2, SeqIs

LEMMA ObjectsAre ==
  ASSUME ObjectsOK
  PROVE  /\ made \in Nat /\ DOMAIN cur = 1..made
         /\ \A k \in 1..made :
              /\ k \in Nat /\ k > 0 /\ cur[k] \in CursorState
              /\ cur[k].on \in Conns /\ cur[k].cursorID \in Nat /\ cur[k].executorID \in Ids
              /\ cur[k].closed \in BOOLEAN /\ cur[k].closeErr \in BOOLEAN /\ cur[k].running \in BOOLEAN
              /\ cur[k].next \in Nat /\ cur[k].caller \in Int /\ cur[k].nested \in Seq(Nat)
<1>1. ASSUME NEW o \in CursorState
      PROVE  /\ o.on \in Conns /\ o.cursorID \in Nat /\ o.executorID \in Ids
             /\ o.closed \in BOOLEAN /\ o.closeErr \in BOOLEAN /\ o.running \in BOOLEAN
             /\ o.next \in Nat /\ o.caller \in Int /\ o.nested \in Seq(Nat)
  BY Zenon DEF CursorState
<1> QED  BY <1>1 DEF ObjectsOK

-----------------------------------------------------------------------------
(* What the invariant says.                                                *)

LEMMA NumbersRegistered == CursorTypeOK /\ Numbers => RegisteredIsOpen
<1> SUFFICES ASSUME CursorTypeOK, Numbers, NEW c \in Conns
             PROVE  /\ \A k \in reg[c] : /\ opened[c][cur[k].executorID] = k
                                         /\ \A i \in DOMAIN queue[c] : queue[c][i].id # cur[k].executorID
                    /\ \A i, j \in DOMAIN queue[c] : /\ opened[c][queue[c][i].id] = queue[c][i].of
                                                     /\ i # j => queue[c][i].id # queue[c][j].id
  BY Zenon DEF RegisteredIsOpen
<1>1. ASSUME NEW k \in reg[c]
      PROVE  /\ opened[c][cur[k].executorID] = k
             /\ \A i \in DOMAIN queue[c] : queue[c][i].id # cur[k].executorID
  <2>1. k \in 1..made
    BY Zenon DEF CursorTypeOK, ServerOK
  <2> QED  BY <2>1 DEF Numbers, Registered, Numbered
<1> QED  BY <1>1 DEF Numbers, Closes

LEMMA InvReleased == CursorInv => ImplicitReleased
<1> SUFFICES ASSUME CursorInv, active = 0, NEW r \in DOMAIN rows, rows[r].closed, ~rows[r].closeErr,
                    NEW j \in DOMAIN rows[r].sets
             PROVE  /\ rows[r].sets[j] \notin reg[rows[r].on]
                    /\ \A i \in Ids : opened[rows[r].on][i] = rows[r].sets[j] =>
                         Queued(rows[r].on, i, rows[r].sets[j])
  BY Zenon DEF ImplicitReleased, Queued
<1> DEFINE k == rows[r].sets[j]
           c == rows[r].on
<1>1. /\ c \in Conns /\ r \in Nat /\ r > 0 /\ Len(rows[r].sets) \in Nat
      /\ DOMAIN rows[r].sets = 1..Len(rows[r].sets)
  BY RowsAre, Zenon DEF CursorInv, CursorTypeOK
<1>2. k \in 1..made /\ cur[k].on = c
  BY Zenon DEF CursorInv, Owned, ResultSet
<1>3. \A a \in 1..made : ~cur[a].running
  BY DEF CursorInv, CursorTypeOK, ObjectsOK, Frames, Frame
<1>4. rows[r].next = Len(rows[r].sets)
  BY <1>1, <1>3 DEF CursorInv, Progress, Walks
<1>5. cur[k].cursorID = 0
  <2>1. Called(r, k)
    BY <1>1, <1>4, Zenon DEF CursorInv, Progress
  <2> QED  BY <1>2, <1>3, <2>1, Zenon DEF Called
<1>6. k \notin reg[c]
  BY <1>1, <1>5, Zenon DEF CursorInv, Numbers, Registered
<1>7. ASSUME NEW i \in Ids, opened[c][i] = k  PROVE Queued(c, i, k)
  BY <1>1, <1>2, <1>5, <1>7 DEF CursorInv, Numbers, Made
<1> QED  BY <1>6, <1>7, Zenon

-----------------------------------------------------------------------------
(* Calls: the server reads the queued closes, then opens new cursors.      *)

FreeIds(c, n, ids) ==
  /\ \A k \in 1..n : ids[k] \in Ids /\ AfterCloses(c)[ids[k]] = 0
  /\ \A i, j \in 1..n : ids[i] = ids[j] => i = j

LEMMA NewIdsFree ==
  ASSUME NEW c, NEW n \in Nat, NEW ids \in NewIds(c, n)
  PROVE  FreeIds(c, n, ids)
BY Zenon DEF NewIds, FreeIds

\* What a call leaves at the server and in the queue.
LEMMA AnswerServer ==
  ASSUME CursorTypeOK, NEW c \in Conns, NEW n \in Nat, NEW ids, FreeIds(c, n, ids), CursorAnswer(c, n, ids)
  PROVE  /\ made' = made + n /\ made' \in Nat
         /\ queue'[c] = <<>> /\ \A d \in Conns \ {c} : queue'[d] = queue[d]
         /\ \A d \in Conns \ {c} : opened'[d] = opened[d]
         /\ \A k \in 1..n : opened'[c][ids[k]] = made + k
         /\ \A i \in Ids : \/ \E k \in 1..n : ids[k] = i
                          \/ /\ opened'[c][i] # 0 => opened'[c][i] = opened[c][i]
                             /\ opened'[c][i] = opened[c][i] \/ \E q \in DOMAIN queue[c] : queue[c][q].id = i
                             /\ \A q \in DOMAIN queue[c] : queue[c][q].id = i => opened'[c][i] = 0
         /\ queue' \in [Conns -> Seq([id : Ids, of : Nat])]
         /\ opened' \in [Conns -> [Ids -> 0..made']]
<1> DEFINE f == [i \in Ids |-> IF \E k \in 1..n : ids[k] = i
                               THEN made + (CHOOSE k \in 1..n : ids[k] = i)
                               ELSE AfterCloses(c)[i]]
<1>1. /\ made \in Nat /\ made' = made + n
      /\ queue \in [Conns -> Seq([id : Ids, of : Nat])] /\ queue' = [queue EXCEPT ![c] = <<>>]
      /\ opened \in [Conns -> [Ids -> 0..made]] /\ opened' = [opened EXCEPT ![c] = f]
  BY Zenon DEF CursorTypeOK, ServerOK, ObjectsOK, CursorAnswer
<1>2. ASSUME NEW k \in 1..n  PROVE f[ids[k]] = made + k
  <2>1. ids[k] \in Ids /\ \A i \in 1..n : ids[i] = ids[k] => i = k
    BY Zenon DEF FreeIds
  <2>2. (CHOOSE i \in 1..n : ids[i] = ids[k]) = k
    BY <2>1, Zenon
  <2> QED  BY <2>1, <2>2, Zenon
<1>3. ASSUME NEW i \in Ids, ~\E k \in 1..n : ids[k] = i
      PROVE  f[i] = IF \E q \in DOMAIN queue[c] : queue[c][q].id = i THEN 0 ELSE opened[c][i]
  BY <1>3, Zenon DEF AfterCloses
<1>a. f = [i \in Ids |-> f[i]]
  BY Zenon
<1> HIDE DEF f
<1>4. f \in [Ids -> 0..(made + n)]
  <2>1. ASSUME NEW i \in Ids  PROVE f[i] \in 0..(made + n)
    <3>1. CASE \E k \in 1..n : ids[k] = i
      <4>1. PICK k \in 1..n : ids[k] = i
        BY <3>1, Zenon
      <4>2. f[i] = made + k
        BY <1>2, <4>1, Zenon
      <4> QED  BY <1>1, <4>2
    <3>2. CASE ~\E k \in 1..n : ids[k] = i
      <4>1. opened[c][i] \in 0..made
        BY <1>1, Zenon
      <4>2. f[i] = 0 \/ f[i] = opened[c][i]
        BY <1>3, <3>2, Zenon
      <4> QED  BY <1>1, <4>1, <4>2
    <3> QED  BY <3>1, <3>2, Zenon
  <2> QED  BY <1>a, <2>1, Zenon
<1>5. opened'[c] = f /\ \A d \in Conns \ {c} : opened'[d] = opened[d] /\ queue'[d] = queue[d]
  BY <1>1, Zenon
<1>6. queue'[c] = <<>> /\ queue' \in [Conns -> Seq([id : Ids, of : Nat])]
  <2> DEFINE Entries == [id : Ids, of : Nat]
  <2>1. queue \in [Conns -> Seq(Entries)]
    BY <1>1, Zenon
  <2> HIDE DEF Entries
  <2>2. queue'[c] = <<>> /\ queue' \in [Conns -> Seq(Entries)]
    BY <1>1, <2>1
  <2> QED  BY <2>2, Zenon DEF Entries
<1>7. opened' \in [Conns -> [Ids -> 0..made']]
  <2>1. ASSUME NEW d \in Conns  PROVE opened'[d] \in [Ids -> 0..(made + n)]
    <3>1. [Ids -> 0..made] \subseteq [Ids -> 0..(made + n)]
      BY <1>1
    <3> QED  BY <1>1, <1>4, <1>5, <3>1, Zenon
  <2> QED  BY <1>1, <2>1, Zenon
<1>8. ASSUME NEW i \in Ids, ~\E k \in 1..n : ids[k] = i
      PROVE  /\ opened'[c][i] # 0 => opened'[c][i] = opened[c][i]
             /\ opened'[c][i] = opened[c][i] \/ \E q \in DOMAIN queue[c] : queue[c][q].id = i
             /\ \A q \in DOMAIN queue[c] : queue[c][q].id = i => opened'[c][i] = 0
  BY <1>3, <1>5, <1>8, Zenon
<1>9. \A k \in 1..n : opened'[c][ids[k]] = made + k
  BY <1>2, <1>5, Zenon
<1>10. made' = made + n /\ made' \in Nat
  BY <1>1
<1> QED  BY <1>5, <1>6, <1>7, <1>8, <1>9, <1>10, Zenon

\* The objects keep their numbers; the new ones have the numbers of the answer.
SameNumber(k) ==
  cur'[k].on = cur[k].on /\ cur'[k].cursorID = cur[k].cursorID /\ cur'[k].executorID = cur[k].executorID
OldNumbers == \A k \in 1..made : SameNumber(k)
NewNumbers(c, n, ids) ==
  \A i \in 1..n : cur'[made + i].on = c /\ cur'[made + i].cursorID = ids[i] /\ cur'[made + i].executorID = ids[i]

\* A call keeps who has which number, whatever it registers of the new objects.
LEMMA AnswerNumbers ==
  ASSUME CursorTypeOK, Numbers, NEW c \in Conns, NEW n \in Nat, NEW ids, FreeIds(c, n, ids), CursorAnswer(c, n, ids),
         NEW S \in SUBSET Objects(n), addRefCursor(c, S), OldNumbers, NewNumbers(c, n, ids)
  PROVE  Numbers' /\ ServerOK'
<1> USE DEF OldNumbers, SameNumber, NewNumbers, addRefCursor
<1>0. made \in Nat /\ opened \in [Conns -> [Ids -> 0..made]] /\ \A d \in Conns, i \in Ids : opened[d][i] \in 0..made
  BY Zenon DEF CursorTypeOK, ObjectsOK, ServerOK
<1>1. made' = made + n /\ made' \in Nat /\ made \in Nat
  BY <1>0, AnswerServer, Zenon
<1>q. queue'[c] = <<>> /\ \A d \in Conns \ {c} : queue'[d] = queue[d]
  BY AnswerServer, Zenon
<1>o. (\A d \in Conns \ {c} : opened'[d] = opened[d]) /\ \A k \in 1..n : opened'[c][ids[k]] = made + k
  BY AnswerServer
<1>t. queue' \in [Conns -> Seq([id : Ids, of : Nat])] /\ opened' \in [Conns -> [Ids -> 0..made']]
  BY AnswerServer, Zenon
<1>2. \A i \in Ids : \/ \E k \in 1..n : ids[k] = i
                    \/ /\ opened'[c][i] # 0 => opened'[c][i] = opened[c][i]
                       /\ opened'[c][i] = opened[c][i] \/ \E q \in DOMAIN queue[c] : queue[c][q].id = i
                       /\ \A q \in DOMAIN queue[c] : queue[c][q].id = i => opened'[c][i] = 0
  BY AnswerServer
<1>3. /\ reg \in [Conns -> SUBSET (1..made)] /\ reg'[c] = reg[c] \cup S
      /\ \A d \in Conns \ {c} : reg'[d] = reg[d]
  BY Zenon DEF CursorTypeOK, ServerOK
<1>4. \A k \in 1..made' : k \in 1..made \/ \E i \in 1..n : k = made + i
  <2>1. ASSUME NEW k \in 1..made', k \notin 1..made  PROVE k - made \in 1..n /\ k = made + (k - made)
    BY <1>1, <2>1
  <2> QED  BY <2>1, Zenon
<1>5. \A k \in S : \E i \in 1..n : k = made + i
  <2>1. ASSUME NEW k \in S  PROVE k - made \in 1..n /\ k = made + (k - made)
    BY <1>1 DEF Objects
  <2> QED  BY <2>1, Zenon
<1>6. \A i \in 1..n : ids[i] \in Ids /\ ids[i] # 0
  BY CursorBounds, Zenon DEF FreeIds
<1>7. ServerOK'
  <2>1. ASSUME NEW d \in Conns  PROVE reg'[d] \in SUBSET (1..made')
    <3>1. reg[d] \subseteq 1..made'
      BY <1>1, <1>3
    <3>2. S \subseteq 1..made'
      BY <1>1 DEF Objects
    <3> QED  BY <1>3, <3>1, <3>2, Zenon
  <2>2. reg' \in [Conns -> SUBSET (1..made')]
    BY <1>3, <2>1, Zenon
  <2> QED  BY <1>t, <2>2, Zenon DEF ServerOK
<1>8. ASSUME NEW d \in Conns  PROVE Registered(d)'
  <2>1. ASSUME NEW k \in reg[d]  PROVE cur'[k].on = d /\ cur'[k].cursorID # 0
    BY <1>3, Zenon DEF Numbers, Registered
  <2>2. ASSUME NEW k \in S  PROVE cur'[k].on = c /\ cur'[k].cursorID # 0
    BY <1>5, <1>6
  <2> QED  BY <1>3, <2>1, <2>2, Zenon DEF Registered
<1>9. ASSUME NEW d \in Conns  PROVE Closes(d)'
  <2>1. DOMAIN (<<>>) = {} /\ Closes(d)
    BY DEF Numbers
  <2> QED  BY <1>q, <1>o, <2>1 DEF Closes
<1>10. ASSUME NEW k \in 1..made'  PROVE Numbered(k)'
  <2>1. CASE k \in 1..made
    <3>1. Numbered(k) /\ cur[k].on \in Conns /\ cur[k].executorID \in Ids
      BY <2>1, ObjectsAre, Zenon DEF Numbers, CursorTypeOK
    <3>2. CASE cur[k].on # c
      BY <1>q, <1>o, <2>1, <3>1, <3>2 DEF Numbered
    <3>3. CASE cur[k].on = c /\ cur[k].cursorID # 0
      <4>1. opened[c][cur[k].executorID] = k /\ \A i \in DOMAIN queue[c] : queue[c][i].id # cur[k].executorID
        BY <3>1, <3>3, Zenon DEF Numbered
      <4>2. ~\E i \in 1..n : ids[i] = cur[k].executorID
        <5>1. AfterCloses(c)[cur[k].executorID] = k /\ k # 0
          BY <2>1, <3>1, <4>1 DEF AfterCloses
        <5> QED  BY <5>1 DEF FreeIds
      <4>3. opened'[c][cur[k].executorID] = k
        BY <1>2, <3>1, <4>1, <4>2, Zenon
      <4> QED  BY <1>q, <2>1, <3>1, <3>3, <4>3 DEF Numbered
    <3> QED  BY <2>1, <3>2, <3>3, Zenon DEF Numbered
  <2>2. ASSUME NEW i \in 1..n, k = made + i  PROVE Numbered(k)'
    BY <1>q, <1>o, <2>2 DEF Numbered
  <2> QED  BY <1>4, <2>1, <2>2, Zenon
<1>11. ASSUME NEW d \in Conns, NEW i \in Ids, opened'[d][i] # 0  PROVE Made(d, i, opened[d][i])'
  <2>1. ASSUME opened'[d][i] = opened[d][i], ~\E q \in DOMAIN queue[c] : d = c /\ queue[c][q].id = i
        PROVE  Made(d, i, opened[d][i])'
    <3>1. Made(d, i, opened[d][i]) /\ opened[d][i] \in 1..made
      BY <1>0, <1>11, <2>1 DEF Numbers
    <3>2. CASE d = c
      BY <2>1, <3>1, <3>2 DEF Made, Queued
    <3>3. CASE d # c
      BY <1>q, <2>1, <3>1, <3>3 DEF Made, Queued
    <3> QED  BY <3>2, <3>3, Zenon
  <2>2. CASE d # c
    BY <1>o, <2>1, <2>2, Zenon
  <2>3. ASSUME d = c, NEW k \in 1..n, ids[k] = i  PROVE Made(d, i, opened[d][i])'
    <3>1. opened'[d][i] = made + k
      BY <1>o, <2>3, Zenon
    <3> QED  BY <1>6, <2>3, <3>1 DEF Made
  <2>4. CASE d = c /\ ~\E k \in 1..n : ids[k] = i
    BY <1>2, <1>11, <2>1, <2>4, Zenon
  <2> QED  BY <2>2, <2>3, <2>4, Zenon
<1> QED  BY <1>7, <1>8, <1>9, <1>10, <1>11, Zenon DEF Numbers

LEMMA NumbersKept ==
  ASSUME CursorTypeOK, Numbers, UNCHANGED <<made, reg, queue, opened>>,
         \A k \in 1..made : /\ cur'[k].on = cur[k].on /\ cur'[k].cursorID = cur[k].cursorID
                            /\ cur'[k].executorID = cur[k].executorID
  PROVE  Numbers'
<1>1. reg \in [Conns -> SUBSET (1..made)] /\ \A d \in Conns, i \in Ids : opened[d][i] \in 0..made
  BY Zenon DEF CursorTypeOK, ServerOK
<1>2. made \in Nat
  BY Zenon DEF CursorTypeOK, ObjectsOK
<1>3. ASSUME NEW d \in Conns  PROVE Registered(d)' /\ Closes(d)'
  BY <1>1 DEF Numbers, Registered, Closes
<1>4. ASSUME NEW d \in Conns, NEW i \in Ids, opened'[d][i] # 0  PROVE Made(d, i, opened[d][i])'
  <2>1. opened[d][i] \in 1..made /\ Made(d, i, opened[d][i])
    BY <1>1, <1>2, <1>4 DEF Numbers
  <2> QED  BY <2>1, Zenon DEF Made, Queued
<1>5. ASSUME NEW k \in 1..made'  PROVE Numbered(k)'
  <2>1. k \in 1..made /\ Numbered(k)
    BY Zenon DEF Numbers
  <2> QED  BY <2>1, Zenon DEF Numbered
<1> QED  BY <1>3, <1>4, <1>5, Zenon DEF Numbers

LEMMA AppendIs ==
  ASSUME NEW S, NEW s \in Seq(S), NEW e \in S
  PROVE  /\ Append(s, e) \in Seq(S) /\ Len(Append(s, e)) = Len(s) + 1 /\ Len(s) \in Nat
         /\ DOMAIN Append(s, e) = 1..(Len(s) + 1) /\ DOMAIN s = 1..Len(s)
         /\ Append(s, e)[Len(s) + 1] = e /\ \A i \in 1..Len(s) : Append(s, e)[i] = s[i]
OBVIOUS

\* The release of a cursor: its close is queued under its number.
LEMMA ReleaseNumbers ==
  ASSUME CursorTypeOK, Numbers, NEW k \in 1..made, cur[k].cursorID # 0, closeServerCursor(k),
         UNCHANGED <<made, opened>>,
         \A a \in 1..made : cur'[a].on = cur[a].on /\ cur'[a].executorID = cur[a].executorID,
         cur'[k].cursorID = 0, \A a \in 1..made : a # k => cur'[a].cursorID = cur[a].cursorID
  PROVE  Numbers' /\ ServerOK'
<1> DEFINE c == cur[k].on
           e == [id |-> cur[k].cursorID, of |-> k]
           Entries == [id : Ids, of : Nat]
<1>1. /\ c \in Conns /\ cur[k].executorID \in Ids /\ k \in Nat /\ k > 0 /\ Numbered(k)
      /\ cur[k].cursorID = cur[k].executorID
  BY ObjectsAre, Zenon DEF CursorTypeOK, Numbers, Numbered
<1>2. e \in Entries /\ e.id = cur[k].executorID /\ e.of = k
  BY <1>1, Zenon
<1>3. /\ queue \in [Conns -> Seq(Entries)] /\ queue' = [queue EXCEPT ![c] = Append(@, e)]
      /\ reg \in [Conns -> SUBSET (1..made)] /\ reg' = [reg EXCEPT ![c] = @ \ {k}]
      /\ opened \in [Conns -> [Ids -> 0..made]]
  BY Zenon DEF CursorTypeOK, ServerOK, closeServerCursor
<1>4. made \in Nat /\ \A d \in Conns, i \in Ids : opened[d][i] \in 0..made
  BY <1>3, Zenon DEF CursorTypeOK, ObjectsOK
<1> HIDE DEF e, Entries, c
<1>5. /\ queue'[c] = Append(queue[c], e) /\ queue[c] \in Seq(Entries)
      /\ \A d \in Conns \ {c} : queue'[d] = queue[d] /\ reg'[d] = reg[d]
      /\ reg'[c] = reg[c] \ {k}
  BY <1>1, <1>3, Zenon
<1>6. /\ queue'[c] \in Seq(Entries) /\ Len(queue[c]) \in Nat
      /\ DOMAIN queue'[c] = 1..(Len(queue[c]) + 1) /\ DOMAIN queue[c] = 1..Len(queue[c])
      /\ queue'[c][Len(queue[c]) + 1] = e /\ \A i \in DOMAIN queue[c] : queue'[c][i] = queue[c][i]
  BY <1>2, <1>5, AppendIs
<1>7. ServerOK'
  <2>1. queue' \in [Conns -> Seq(Entries)] /\ reg' \in [Conns -> SUBSET (1..made)]
    BY <1>3, <1>5, <1>6, Zenon
  <2> QED  BY <1>3, <2>1, Zenon DEF ServerOK, Entries
<1>8. opened[c][e.id] = k /\ \A i \in DOMAIN queue[c] : queue[c][i].id # e.id
  BY <1>1, <1>2, Zenon DEF Numbered, c
<1>9. ASSUME NEW d \in Conns  PROVE Registered(d)'
  <2>1. Registered(d) /\ reg[d] \subseteq 1..made /\ Registered(c)
    BY <1>1, <1>3, Zenon DEF Numbers
  <2>2. ASSUME NEW a \in reg'[d]  PROVE a # k /\ a \in reg[d]
    <3>1. CASE d = c
      BY <1>5, <2>2, <3>1, Zenon
    <3>2. CASE d # c
      BY <1>5, <2>1, <2>2, <3>2, Zenon DEF Registered, c
    <3> QED  BY <3>1, <3>2, Zenon
  <2> QED  BY <2>1, <2>2 DEF Registered
<1>10. ASSUME NEW d \in Conns  PROVE Closes(d)'
  <2>1. CASE d # c
    BY <1>5, <2>1 DEF Numbers, Closes
  <2>2. CASE d = c
    <3>1. Closes(c)
      BY <1>1, Zenon DEF Numbers
    <3>2. ASSUME NEW i \in DOMAIN queue'[c]
          PROVE  i \in DOMAIN queue[c] \/ (i = Len(queue[c]) + 1 /\ queue'[c][i] = e)
      BY <1>6
    <3>3. ASSUME NEW i \in DOMAIN queue'[c]  PROVE opened[c][queue'[c][i].id] = queue'[c][i].of
      BY <1>2, <1>6, <1>8, <3>1, <3>2, Zenon DEF Closes
    <3>4. ASSUME NEW i \in DOMAIN queue'[c], NEW j \in DOMAIN queue'[c], i # j
          PROVE  queue'[c][i].id # queue'[c][j].id
      <4>1. CASE i \in DOMAIN queue[c] /\ j \in DOMAIN queue[c]
        BY <1>6, <3>1, <3>4, <4>1, SMTT(30) DEF Closes
      <4>2. CASE i \in DOMAIN queue[c] /\ j \notin DOMAIN queue[c]
        BY <1>6, <1>8, <3>2, <4>2, Zenon
      <4>3. CASE i \notin DOMAIN queue[c] /\ j \in DOMAIN queue[c]
        BY <1>6, <1>8, <3>2, <4>3, Zenon
      <4>4. i \in DOMAIN queue[c] \/ j \in DOMAIN queue[c]
        BY <3>2, <3>4, Zenon
      <4> QED  BY <4>1, <4>2, <4>3, <4>4, Zenon
    <3> QED  BY <2>2, <3>3, <3>4 DEF Closes
  <2> QED  BY <2>1, <2>2, Zenon
<1>11. ASSUME NEW a \in 1..made'  PROVE Numbered(a)'
  <2>1. a \in 1..made /\ Numbered(a) /\ cur[a].on \in Conns /\ cur[a].executorID \in Ids
    BY ObjectsAre, Zenon DEF Numbers, CursorTypeOK
  <2>2. CASE a = k
    BY <2>2, Zenon DEF Numbered
  <2>3. CASE a # k /\ cur[a].on # c
    BY <1>5, <2>1, <2>3 DEF Numbered
  <2>4. CASE a # k /\ cur[a].on = c /\ cur[a].cursorID # 0
    <3>1. opened[c][cur[a].executorID] = a /\ \A i \in DOMAIN queue[c] : queue[c][i].id # cur[a].executorID
      BY <2>1, <2>4, Zenon DEF Numbered
    <3>2. e.id # cur[a].executorID
      BY <1>8, <2>4, <3>1, Zenon
    <3>3. \A i \in DOMAIN queue'[c] : queue'[c][i].id # cur[a].executorID
      BY <1>6, <3>1, <3>2, SMTT(30)
    <3> QED  BY <2>1, <2>4, <3>1, <3>3, Zenon DEF Numbered
  <2> QED  BY <2>1, <2>2, <2>3, <2>4, Zenon DEF Numbered
<1>12. ASSUME NEW d \in Conns, NEW i \in Ids, opened'[d][i] # 0  PROVE Made(d, i, opened[d][i])'
  <2>0. PICK a \in 1..made : a = opened[d][i]
    BY <1>4, <1>12
  <2>1. a \in 1..made /\ Made(d, i, a) /\ opened'[d][i] = a
    BY <1>12, <2>0, Zenon DEF Numbers
  <2>2. Queued(d, i, a) => Queued(d, i, a)'
    <3>1. CASE d # c
      BY <1>5, <3>1, ZenonT(30) DEF Queued
    <3>2. CASE d = c
      <4>1. \A q \in DOMAIN queue[c] : q \in DOMAIN queue'[c]
        BY <1>6
      <4> QED  BY <1>6, <3>2, <4>1, Zenon DEF Queued
    <3> QED  BY <3>1, <3>2, Zenon
  <2>3. a = k => Queued(d, i, a)'
    <3>1. ASSUME a = k  PROVE queue'[d][Len(queue[c]) + 1] = [id |-> i, of |-> a] /\ d = c
      BY <1>1, <1>6, <2>1, <3>1, Zenon DEF Made, e, c
    <3>2. Len(queue[c]) + 1 \in DOMAIN queue'[c]
      BY <1>6
    <3> QED  BY <3>1, <3>2, Zenon DEF Queued
  <2>4. Made(d, i, a)'
    BY <2>1, <2>2, <2>3, Zenon DEF Made
  <2> QED  BY <2>1, <2>4, Zenon
<1> QED  BY <1>7, <1>9, <1>10, <1>11, <1>12, Zenon DEF Numbers

-----------------------------------------------------------------------------
(* The calls keep the invariant: no Close runs, and they add objects.      *)

\* What an object is to the invariant is not touched.
SameClose(k) ==
  /\ cur'[k].closed = cur[k].closed /\ cur'[k].closeErr = cur[k].closeErr
  /\ cur'[k].running = cur[k].running /\ cur'[k].caller = cur[k].caller

\* The rows an answer adds.
NewRows(c, n, o) ==
  /\ o \in RowsState /\ o.on = c /\ o.next = 0 /\ ~o.closed /\ ~o.closeErr
  /\ \A j \in DOMAIN o.sets : o.sets[j] \in Objects(n) /\ cur'[o.sets[j]].shelf # None

LEMMA NoneRuns ==
  ASSUME CursorInv, active <= 0
  PROVE  \A a \in 1..made : ~cur[a].running
BY DEF CursorInv, CursorTypeOK, ObjectsOK, RowsOK, Frames, Frame

LEMMA RowsAppended ==
  ASSUME RowsOK, NEW o \in RowsState, rows' = Append(rows, o), UNCHANGED active
  PROVE  /\ RowsOK' /\ Len(rows) \in Nat /\ DOMAIN rows = 1..Len(rows) /\ DOMAIN rows' = 1..(Len(rows) + 1)
         /\ rows'[Len(rows) + 1] = o /\ \A r \in DOMAIN rows : rows'[r] = rows[r]
<1>1. rows \in Seq(RowsState) /\ active' \in Int
  BY Zenon DEF RowsOK
<1> QED  BY <1>1, AppendIs DEF RowsOK

\* A call adds n objects, and rows at most.
LEMMA AnswerKeeps ==
  ASSUME CursorInv, NEW c \in Conns, NEW n \in Nat, NEW ids, FreeIds(c, n, ids), CursorAnswer(c, n, ids),
         NEW S \in SUBSET Objects(n), addRefCursor(c, S), OldNumbers, NewNumbers(c, n, ids),
         ObjectsOK', GivenOK', \A k \in 1..made' : Children(k)',
         \A k \in 1..made : SameClose(k) /\ (cur[k].shelf # None => cur'[k].shelf # None),
         \A i \in 1..n : ~cur'[made + i].closed /\ ~cur'[made + i].running,
         rows' = rows \/ \E o : rows' = Append(rows, o) /\ NewRows(c, n, o)
  PROVE  CursorInv'
<1>1. CursorTypeOK /\ Numbers /\ Owned /\ Frames /\ \A r \in DOMAIN rows : Progress(r)
  BY Zenon DEF CursorInv
<1>2. Numbers' /\ ServerOK'
  BY <1>1, AnswerNumbers, Zenon
<1>3. made \in Nat /\ made' = made + n /\ active = 0 /\ active' = 0
  BY <1>1, Zenon DEF CursorTypeOK, ObjectsOK, CursorAnswer
<1>4. \A k \in 1..made' : k \in 1..made \/ \E i \in 1..n : k = made + i
  <2>1. ASSUME NEW k \in 1..made', k \notin 1..made  PROVE k - made \in 1..n /\ k = made + (k - made)
    BY <1>3, <2>1
  <2> QED  BY <2>1, Zenon
<1>5. \A k \in Objects(n) : k \in 1..made' /\ \E i \in 1..n : k = made + i
  <2>1. ASSUME NEW k \in Objects(n)  PROVE k \in 1..made' /\ k - made \in 1..n /\ k = made + (k - made)
    BY <1>3 DEF Objects
  <2> QED  BY <2>1, Zenon
<1>6. \A a \in 1..made' : ~cur'[a].running
  BY <1>3, <1>4, NoneRuns DEF SameClose
<1>7. Frames'
  BY <1>3, <1>6 DEF Frames
<1>8. ASSUME NEW r \in DOMAIN rows, rows'[r] = rows[r]
      PROVE  Progress(r)' /\ \A j \in DOMAIN rows'[r].sets : ResultSet(r, rows[r].sets[j])'
  <2>1. Progress(r) /\ r \in Nat /\ r > 0 /\ rows[r].next \in Nat /\ Len(rows[r].sets) \in Nat
        /\ DOMAIN rows[r].sets = 1..Len(rows[r].sets)
    BY <1>1, RowsAre, Zenon DEF CursorTypeOK
  <2>2. ~Walks(r)
    BY <1>3, <2>1, NoneRuns DEF Walks
  <2>3. \A j \in DOMAIN rows[r].sets : ResultSet(r, rows[r].sets[j])
    BY <1>1, Zenon DEF Owned
  <2>4. ASSUME NEW j \in DOMAIN rows[r].sets
        PROVE  ResultSet(r, rows[r].sets[j])' /\ ReturnedClean(rows[r].sets[j])'
    <3>1. PICK k \in 1..made : k = rows[r].sets[j]
      BY <2>3, Zenon DEF ResultSet
    <3>2. ResultSet(r, k) /\ ReturnedClean(k)
      BY <2>1, <2>3, <3>1, Zenon DEF Progress
    <3>3. ResultSet(r, k)' /\ ReturnedClean(k)'
      BY <1>3, <1>8, <3>2 DEF ResultSet, ReturnedClean, OldNumbers, SameNumber, SameClose
    <3> QED  BY <1>8, <3>1, <3>3, Zenon
  <2>5. ASSUME NEW j \in 1..rows[r].next, ~rows[r].closeErr  PROVE Called(r, rows[r].sets[j])'
    <3>1. j \in DOMAIN rows[r].sets
      BY <2>1 DEF Progress
    <3>2. PICK k \in 1..made : k = rows[r].sets[j]
      BY <2>3, <3>1, ZenonT(30) DEF ResultSet
    <3>3. Called(r, k) /\ ~cur[k].running
      BY <1>3, <2>1, <2>5, <3>2, NoneRuns, SMTT(30) DEF Progress
    <3> QED  BY <1>8, <3>2, <3>3, Zenon DEF Called, OldNumbers, SameNumber
  <2> QED  BY <1>8, <2>1, <2>2, <2>4, <2>5, Zenon DEF Progress
<1>9. CASE rows' = rows
  <2>1. RowsOK'
    BY <1>1, <1>9, <1>3, Zenon DEF CursorTypeOK, RowsOK
  <2>2. CursorTypeOK'
    BY <1>2, <2>1, Zenon DEF CursorTypeOK
  <2> QED  BY <1>2, <1>7, <1>8, <1>9, <2>2, Zenon DEF CursorInv, Owned
<1>10. ASSUME NEW o, rows' = Append(rows, o), NewRows(c, n, o)  PROVE CursorInv'
  <2>1. /\ RowsOK' /\ Len(rows) \in Nat /\ DOMAIN rows = 1..Len(rows) /\ DOMAIN rows' = 1..(Len(rows) + 1)
        /\ rows'[Len(rows) + 1] = o /\ \A r \in DOMAIN rows : rows'[r] = rows[r]
    BY <1>1, <1>3, <1>10, RowsAppended, Zenon DEF CursorTypeOK, NewRows
  <2>2. CursorTypeOK'
    BY <1>2, <2>1, Zenon DEF CursorTypeOK
  <2>3. ASSUME NEW r \in DOMAIN rows', r \notin DOMAIN rows
        PROVE  Progress(r)' /\ \A j \in DOMAIN rows'[r].sets : ResultSet(r, rows[r].sets[j])'
    <3>0. r = Len(rows) + 1
      BY <2>1, <2>3
    <3>1. rows'[r] = o /\ Len(o.sets) \in Nat
      <4>1. o.sets \in Seq(Nat)
        BY <1>10, Zenon DEF NewRows, RowsState
      <4> QED  BY <2>1, <3>0, <4>1, SeqIs, Zenon
    <3>2. ASSUME NEW j \in DOMAIN o.sets
          PROVE  /\ o.sets[j] \in 1..made' /\ cur'[o.sets[j]].on = c /\ cur'[o.sets[j]].shelf # None
                 /\ ~cur'[o.sets[j]].closed
      BY <1>5, <1>10 DEF NewRows, NewNumbers
    <3>3. o.on = c /\ o.next = 0 /\ ~o.closed
      BY <1>10, Zenon DEF NewRows
    <3>4. \A j \in DOMAIN rows'[r].sets : ResultSet(r, rows[r].sets[j])' /\ ReturnedClean(rows[r].sets[j])'
      BY <3>1, <3>2, <3>3, ZenonT(30) DEF ResultSet, ReturnedClean
    <3>5. Progress(r)'
      BY <3>1, <3>3, <3>4 DEF Progress
    <3> QED  BY <3>4, <3>5, Zenon
  <2>4. \A r \in DOMAIN rows' : Progress(r)' /\ \A j \in DOMAIN rows'[r].sets : ResultSet(r, rows[r].sets[j])'
    BY <1>8, <2>1, <2>3, Zenon
  <2> QED  BY <1>2, <1>7, <2>2, <2>4, Zenon DEF CursorInv, Owned
<1> QED  BY <1>9, <1>10, Zenon

\* The objects and the sequences an answer makes.
LEMMA NewIs ==
  ASSUME NEW c \in Conns, NEW id \in Ids
  PROVE  /\ newRefCursorRows(c, id) \in CursorState /\ newRefCursorRows(c, id).on = c
         /\ newRefCursorRows(c, id).cursorID = id /\ newRefCursorRows(c, id).executorID = id
         /\ newRefCursorRows(c, id).nested = <<>>
         /\ ~newRefCursorRows(c, id).closed /\ ~newRefCursorRows(c, id).running
<1>1. id \in Nat /\ <<>> \in Seq(Nat)
  BY CursorBounds
<1> QED  BY <1>1 DEF newRefCursorRows, CursorState

LEMMA FetchedIs ==
  ASSUME NEW o \in CursorState, NEW s \in Seq(Nat)
  PROVE  /\ Fetched(o, s) \in CursorState /\ Fetched(o, s).on = o.on /\ Fetched(o, s).shelf # None
         /\ Fetched(o, s).cursorID = o.cursorID /\ Fetched(o, s).executorID = o.executorID
         /\ Fetched(o, s).nested = s /\ Fetched(o, s).closed = o.closed /\ Fetched(o, s).closeErr = o.closeErr
         /\ Fetched(o, s).running = o.running /\ Fetched(o, s).caller = o.caller
BY CursorBounds, Zenon DEF Fetched, CursorState

LEMMA ShelvedIs ==
  ASSUME NEW o \in CursorState, NEW c \in Conns
  PROVE  LET p == [o EXCEPT !.shelf = c] IN
         /\ p \in CursorState /\ p.on = o.on /\ p.shelf # None
         /\ p.cursorID = o.cursorID /\ p.executorID = o.executorID
         /\ p.nested = o.nested /\ p.closed = o.closed /\ p.closeErr = o.closeErr
         /\ p.running = o.running /\ p.caller = o.caller
BY CursorBounds, Zenon DEF CursorState

LEMMA FollowingIs ==
  ASSUME made \in Nat, NEW n \in Nat, NEW m \in Nat
  PROVE  /\ Following(n, m) \in Seq(Nat) /\ DOMAIN Following(n, m) = 1..m
         /\ \A i \in 1..m : Following(n, m)[i] = made + n + i
BY DEF Following

\* The old objects keep their children or get new ones; the new ones have
\* younger ones.
LEMMA ChildrenKept ==
  ASSUME CursorInv, NEW n \in Nat, made' = made + n,
         \A k \in 1..made : cur'[k].nested = cur[k].nested \/ cur'[k].nested = Following(0, n),
         \A k \in Objects(n) : cur'[k].nested = <<>>
  PROVE  \A k \in 1..made' : Children(k)'
<1>1. made \in Nat /\ \A k \in 1..made : Children(k)
  BY Zenon DEF CursorInv, CursorTypeOK, ObjectsOK, Owned
<1>2. \A k \in 1..made' : k \in Nat /\ (k \in 1..made \/ k \in Objects(n))
  BY <1>1 DEF Objects
<1>3. ASSUME NEW k \in 1..made, cur'[k].nested = cur[k].nested  PROVE Children(k)'
  BY <1>1, <1>3 DEF Children
<1>4. ASSUME NEW k \in 1..made, cur'[k].nested = Following(0, n)  PROVE Children(k)'
  <2>1. DOMAIN Following(0, n) = 1..n /\ \A i \in 1..n : Following(0, n)[i] = made + i
    <3>1. 0 \in Nat /\ \A i \in 1..n : made + 0 + i = made + i
      BY <1>1
    <3>2. DOMAIN Following(0, n) = 1..n /\ \A i \in 1..n : Following(0, n)[i] = made + 0 + i
      BY <1>1, <3>1, FollowingIs, Zenon
    <3> QED  BY <3>1, <3>2, Zenon
  <2>2. \A i \in 1..n : made + i \in (k + 1)..made'
    BY <1>1
  <2> QED  BY <1>4, <2>1, <2>2, Zenon DEF Children
<1>5. ASSUME NEW k \in Objects(n)  PROVE Children(k)'
  BY DEF Children
<1> QED  BY <1>2, <1>3, <1>4, <1>5, Zenon

\* The objects after an answer, from those before it and the new ones.
LEMMA ObjectsGrown ==
  ASSUME CursorInv, NEW n \in Nat, made' = made + n, DOMAIN cur' = 1..made', cur' = [k \in DOMAIN cur' |-> cur'[k]],
         \A k \in 1..made : cur'[k] \in CursorState, \A i \in 1..n : cur'[made + i] \in CursorState,
         given' \subseteq given \cup Objects(n)
  PROVE  ObjectsOK' /\ GivenOK'
<1>1. made \in Nat /\ given \subseteq 1..made
  BY Zenon DEF CursorInv, CursorTypeOK, ObjectsOK, GivenOK
<1>2. ASSUME NEW k \in 1..made'  PROVE cur'[k] \in CursorState
  <2>1. k \in 1..made \/ (k - made \in 1..n /\ k = made + (k - made))
    BY <1>1
  <2> QED  BY <2>1, Zenon
<1>3. given' \subseteq 1..made'
  BY <1>1 DEF Objects
<1> QED  BY <1>1, <1>2, <1>3 DEF ObjectsOK, GivenOK

LEMMA OldObject ==
  ASSUME NEW k, cur'[k] = cur[k]
  PROVE  SameNumber(k) /\ SameClose(k) /\ cur'[k].nested = cur[k].nested /\ cur'[k].shelf = cur[k].shelf
BY Zenon DEF SameNumber, SameClose

LEMMA ReturnCursorKeeps ==
  ASSUME CursorInv, NEW c \in Conns, ReturnCursor(c)
  PROVE  CursorInv'
<1>1. PICK ids \in NewIds(c, 1) :
        /\ CursorAnswer(c, 1, ids)
        /\ cur' = [k \in 1..(made + 1) |-> IF k <= made THEN cur[k] ELSE newRefCursorRows(c, ids[1])]
        /\ addRefCursor(c, Objects(1)) /\ given' = given \cup Objects(1) /\ UNCHANGED rows
  BY Zenon DEF ReturnCursor
<1>2. FreeIds(c, 1, ids) /\ ids[1] \in Ids
  BY NewIdsFree DEF FreeIds
<1>3. /\ made \in Nat /\ made' = made + 1
      /\ \A k \in 1..made : cur[k] \in CursorState
  BY <1>1, ObjectsAre, Zenon DEF CursorInv, CursorTypeOK, CursorAnswer
<1>4. /\ DOMAIN cur' = 1..made' /\ cur' = [k \in DOMAIN cur' |-> cur'[k]]
      /\ (\A k \in 1..made : cur'[k] = cur[k]) /\ cur'[made + 1] = newRefCursorRows(c, ids[1])
  BY <1>1, <1>3
<1>5. /\ cur'[made + 1] \in CursorState /\ NewNumbers(c, 1, ids)
      /\ \A i \in 1..1 : ~cur'[made + i].closed /\ ~cur'[made + i].running
      /\ \A k \in Objects(1) : cur'[k].nested = <<>>
  BY <1>2, <1>3, <1>4, NewIs DEF NewNumbers, Objects
<1>6. OldNumbers /\ \A k \in 1..made : SameClose(k) /\ cur'[k].nested = cur[k].nested /\ cur'[k].shelf = cur[k].shelf
  BY <1>4, OldObject, Zenon DEF OldNumbers
<1>7. ObjectsOK' /\ GivenOK'
  BY <1>1, <1>3, <1>4, <1>5, ObjectsGrown
<1>8. \A k \in 1..made' : Children(k)'
  BY <1>3, <1>5, <1>6, ChildrenKept, Zenon
<1> QED  BY <1>1, <1>2, <1>5, <1>6, <1>7, <1>8, AnswerKeeps, Zenon

LEMMA GetRowsKeeps ==
  ASSUME CursorInv, NEW c \in Conns, NEW k, NEW n \in Nat, GetRows(c, k, n)
  PROVE  CursorInv'
<1>1. PICK ids \in NewIds(c, n) :
        /\ CursorAnswer(c, n, ids)
        /\ cur' = [i \in 1..(made + n) |-> IF i = k THEN Fetched(cur[k], Following(0, n))
                                          ELSE IF i <= made THEN cur[i]
                                          ELSE newRefCursorRows(c, ids[i - made])]
        /\ addRefCursor(c, Objects(n)) /\ given' = given \cup Objects(n) /\ UNCHANGED rows
  BY Zenon DEF GetRows
<1>2. FreeIds(c, n, ids) /\ \A i \in 1..n : ids[i] \in Ids
  BY NewIdsFree DEF FreeIds
<1>3. /\ made \in Nat /\ made' = made + n /\ k \in 1..made
      /\ \A i \in 1..made : cur[i] \in CursorState
  BY <1>1, ObjectsAre, Zenon DEF CursorInv, CursorTypeOK, CursorAnswer, GivenOK, GetRows, Fetchable
<1>4. /\ DOMAIN cur' = 1..made' /\ cur' = [i \in DOMAIN cur' |-> cur'[i]]
      /\ (\A i \in 1..made : i # k => cur'[i] = cur[i]) /\ cur'[k] = Fetched(cur[k], Following(0, n))
      /\ \A i \in 1..n : cur'[made + i] = newRefCursorRows(c, ids[i])
  BY <1>1, <1>3
<1>5. /\ \A i \in 1..n : cur'[made + i] \in CursorState /\ cur'[made + i].nested = <<>>
      /\ \A i \in 1..n : ~cur'[made + i].closed /\ ~cur'[made + i].running
      /\ NewNumbers(c, n, ids)
  BY <1>2, <1>4, NewIs DEF NewNumbers
<1>6. \A i \in Objects(n) : cur'[i].nested = <<>>
  <2>1. \A i \in Objects(n) : i - made \in 1..n /\ i = made + (i - made)
    BY <1>3 DEF Objects
  <2> QED  BY <1>5, <2>1, Zenon
<1>7. /\ SameNumber(k) /\ SameClose(k) /\ cur'[k].nested = Following(0, n) /\ cur'[k].shelf # None
      /\ cur'[k] \in CursorState
  <2>1. Following(0, n) \in Seq(Nat) /\ cur[k] \in CursorState
    BY <1>3, FollowingIs, Zenon
  <2> QED  BY <1>4, <2>1, FetchedIs DEF SameNumber, SameClose
<1>8. /\ OldNumbers
      /\ \A i \in 1..made : SameClose(i) /\ (cur[i].shelf # None => cur'[i].shelf # None)
      /\ \A i \in 1..made : cur'[i].nested = cur[i].nested \/ cur'[i].nested = Following(0, n)
  BY <1>4, <1>7, OldObject, Zenon DEF OldNumbers
<1>9. ObjectsOK' /\ GivenOK'
  BY <1>1, <1>3, <1>4, <1>5, <1>7, ObjectsGrown, Zenon
<1>10. \A i \in 1..made' : Children(i)'
  BY <1>3, <1>6, <1>8, ChildrenKept, Zenon
<1> QED  BY <1>1, <1>2, <1>5, <1>8, <1>9, <1>10, AnswerKeeps, Zenon

LEMMA GetRowsFailsKeeps ==
  ASSUME CursorInv, NEW c \in Conns, NEW k, GetRowsFails(c, k)
  PROVE  CursorInv'
<1>1. /\ CursorAnswer(c, 0, <<>>) /\ cur' = [cur EXCEPT ![k].shelf = c]
      /\ addRefCursor(c, {}) /\ given' = given /\ UNCHANGED rows
  BY Zenon DEF GetRowsFails, addRefCursor, CursorInv, CursorTypeOK, ServerOK
<1>2. FreeIds(c, 0, <<>>) /\ NewNumbers(c, 0, <<>>) /\ {} \in SUBSET Objects(0)
  BY DEF FreeIds, NewNumbers
<1>3. /\ made \in Nat /\ made' = made + 0 /\ made' = made /\ k \in 1..made /\ cur \in [1..made -> CursorState]
      /\ \A i \in 1..made : cur[i] \in CursorState
  BY <1>1, ObjectsAre DEF CursorInv, CursorTypeOK, ObjectsOK, CursorAnswer, GivenOK, GetRowsFails, Fetchable
<1>4. /\ DOMAIN cur' = 1..made' /\ cur' = [i \in DOMAIN cur' |-> cur'[i]]
      /\ (\A i \in 1..made : i # k => cur'[i] = cur[i]) /\ cur'[k] = [cur[k] EXCEPT !.shelf = c]
  BY <1>1, <1>3, Zenon
<1>5. /\ SameNumber(k) /\ SameClose(k) /\ cur'[k].nested = cur[k].nested /\ cur'[k].shelf # None
      /\ cur'[k] \in CursorState
  BY <1>3, <1>4, ShelvedIs DEF SameNumber, SameClose
<1>6. /\ OldNumbers
      /\ \A i \in 1..made : /\ SameClose(i) /\ (cur[i].shelf # None => cur'[i].shelf # None)
                            /\ cur'[i].nested = cur[i].nested
  BY <1>4, <1>5, OldObject, Zenon DEF OldNumbers
<1>7. ObjectsOK' /\ GivenOK'
  BY <1>1, <1>3, <1>4, <1>5, ZenonT(30) DEF ObjectsOK, GivenOK, CursorInv, CursorTypeOK
<1>8. \A i \in 1..made' : Children(i)'
  BY <1>3, <1>6 DEF CursorInv, Owned, Children
<1>9. \A i \in 1..0 : ~cur'[made + i].closed /\ ~cur'[made + i].running
  OBVIOUS
<1> QED  BY <1>1, <1>2, <1>6, <1>7, <1>8, <1>9, AnswerKeeps, Zenon

LEMMA OtherCallKeeps ==
  ASSUME CursorInv, NEW c \in Conns, OtherCall(c)
  PROVE  CursorInv'
<1>1. /\ CursorAnswer(c, 0, <<>>) /\ cur' = cur
      /\ addRefCursor(c, {}) /\ given' = given /\ UNCHANGED rows
  BY Zenon DEF OtherCall, addRefCursor, CursorInv, CursorTypeOK, ServerOK
<1>2. FreeIds(c, 0, <<>>) /\ NewNumbers(c, 0, <<>>) /\ {} \in SUBSET Objects(0)
  BY DEF FreeIds, NewNumbers
<1>3. made \in Nat /\ made' = made
  BY <1>1 DEF CursorInv, CursorTypeOK, ObjectsOK, CursorAnswer
<1>4. OldNumbers /\ \A i \in 1..made : SameClose(i) /\ (cur[i].shelf # None => cur'[i].shelf # None)
  BY <1>1, Zenon DEF OldNumbers, SameNumber, SameClose
<1>5. ObjectsOK' /\ GivenOK' /\ \A i \in 1..made' : Children(i)'
  BY <1>1, <1>3, Zenon DEF CursorInv, CursorTypeOK, ObjectsOK, GivenOK, Owned, Children
<1>6. \A i \in 1..0 : ~cur'[made + i].closed /\ ~cur'[made + i].running
  OBVIOUS
<1> QED  BY <1>1, <1>2, <1>4, <1>5, <1>6, AnswerKeeps, Zenon

\* The objects of the answer to a block.
MadeAs(c, n, m, fetched, id, k, o) ==
  o = IF k > made + n THEN newRefCursorRows(c, id)
      ELSE IF fetched THEN Fetched(newRefCursorRows(c, id), IF k = made + 1 THEN Following(n, m) ELSE <<>>)
      ELSE [newRefCursorRows(c, id) EXCEPT !.shelf = c]

LEMMA ResultObjects ==
  ASSUME NEW c \in Conns, NEW n \in Nat, NEW m \in Nat, NEW fetched \in BOOLEAN, NEW id \in Ids, NEW k \in Nat,
         made \in Nat, NEW o, MadeAs(c, n, m, fetched, id, k, o)
  PROVE  /\ o \in CursorState /\ o.on = c /\ o.cursorID = id /\ o.executorID = id
         /\ ~o.closed /\ ~o.running /\ (k <= made + n => o.shelf # None)
         /\ o.nested = <<>> \/ (k <= made + n /\ k = made + 1 /\ o.nested = Following(n, m))
<1>1. Following(n, m) \in Seq(Nat) /\ <<>> \in Seq(Nat)
  BY FollowingIs
<1> DEFINE p == newRefCursorRows(c, id)
<1>2. /\ p \in CursorState /\ p.on = c /\ p.cursorID = id /\ p.executorID = id /\ p.nested = <<>>
      /\ ~p.closed /\ ~p.running
  BY NewIs, Zenon
<1> HIDE DEF p
<1>3. CASE k > made + n
  <2>1. o = p
    BY <1>3, Zenon DEF p, MadeAs
  <2> QED  BY <1>2, <1>3, <2>1
<1>4. CASE ~(k > made + n) /\ fetched
  <2>1. PICK s \in Seq(Nat) : o = Fetched(p, s) /\ (s = <<>> \/ (k = made + 1 /\ s = Following(n, m)))
    <3>1. o = Fetched(p, IF k = made + 1 THEN Following(n, m) ELSE <<>>)
      BY <1>4, Zenon DEF p, MadeAs
    <3>2. CASE k = made + 1
      BY <1>1, <3>1, <3>2, Zenon
    <3>3. CASE k # made + 1
      BY <1>1, <3>1, <3>3, Zenon
    <3> QED  BY <3>2, <3>3, Zenon
  <2>2. /\ o \in CursorState /\ o.on = p.on /\ o.shelf # None
        /\ o.cursorID = p.cursorID /\ o.executorID = p.executorID
        /\ o.nested = s /\ o.closed = p.closed /\ o.running = p.running
    BY <1>2, <2>1, FetchedIs, Zenon
  <2> QED  BY <1>2, <1>4, <2>1, <2>2
<1>5. CASE ~(k > made + n) /\ ~fetched
  <2>1. o = [p EXCEPT !.shelf = c]
    BY <1>5, Zenon DEF p, MadeAs
  <2>2. /\ o \in CursorState /\ o.on = p.on /\ o.shelf # None
        /\ o.cursorID = p.cursorID /\ o.executorID = p.executorID
        /\ o.nested = p.nested /\ o.closed = p.closed /\ o.running = p.running
    BY <1>2, <2>1, ShelvedIs, Zenon
  <2> QED  BY <1>2, <1>5, <2>2, Zenon
<1> QED  BY <1>3, <1>4, <1>5, Zenon

LEMMA ResultsKeep ==
  ASSUME CursorInv, NEW c \in Conns, NEW n \in Nat, NEW m \in Nat, NEW fetched \in BOOLEAN,
         NEW registered \in 0..(n + m), n > 0, Results(c, n, m, fetched, registered),
         UNCHANGED rows \/ newImplicitRows(c, n)
  PROVE  CursorInv'
<1>1. PICK ids \in NewIds(c, n + m) :
        /\ CursorAnswer(c, n + m, ids)
        /\ cur' = [k \in 1..(made + n + m) |->
             IF k <= made THEN cur[k]
             ELSE IF k > made + n THEN newRefCursorRows(c, ids[k - made])
             ELSE IF fetched THEN Fetched(newRefCursorRows(c, ids[k - made]),
                                          IF k = made + 1 THEN Following(n, m) ELSE <<>>)
             ELSE [newRefCursorRows(c, ids[k - made]) EXCEPT !.shelf = c]]
        /\ addRefCursor(c, Objects(registered)) /\ given' = given \cup (Objects(n + m) \ Objects(n))
  BY Zenon DEF Results
<1>2. n + m \in Nat /\ FreeIds(c, n + m, ids) /\ \A i \in 1..(n + m) : ids[i] \in Ids
  BY NewIdsFree DEF FreeIds
<1>3. /\ made \in Nat /\ made' = made + (n + m)
      /\ \A i \in 1..made : cur[i] \in CursorState
  BY <1>1, ObjectsAre, Zenon DEF CursorInv, CursorTypeOK, CursorAnswer
<1>4. /\ DOMAIN cur' = 1..made' /\ cur' = [i \in DOMAIN cur' |-> cur'[i]]
      /\ \A i \in 1..made : cur'[i] = cur[i]
  BY <1>1, <1>3
<1>5. ASSUME NEW i \in 1..(n + m)
      PROVE  /\ cur'[made + i] \in CursorState /\ cur'[made + i].on = c
             /\ cur'[made + i].cursorID = ids[i] /\ cur'[made + i].executorID = ids[i]
             /\ ~cur'[made + i].closed /\ ~cur'[made + i].running
             /\ made + i <= made + n => cur'[made + i].shelf # None
             /\ \/ cur'[made + i].nested = <<>>
                \/ made + i = made + 1 /\ cur'[made + i].nested = Following(n, m)
  <2>1. made + i \in Nat /\ made + i \in 1..(made + n + m) /\ ~(made + i <= made) /\ (made + i) - made = i
    BY <1>3
  <2>2. MadeAs(c, n, m, fetched, ids[i], made + i, cur'[made + i])
    BY <1>1, <2>1, Zenon DEF MadeAs
  <2>3. PICK k \in Nat, id \in Ids, o \in {cur'[made + i]} : k = made + i /\ id = ids[i]
    BY <1>2, <2>1, Zenon
  <2>4. made \in Nat /\ MadeAs(c, n, m, fetched, id, k, o)
    BY <1>3, <2>2, <2>3, Zenon
  <2>5. /\ o \in CursorState /\ o.on = c /\ o.cursorID = id /\ o.executorID = id
        /\ ~o.closed /\ ~o.running /\ (k <= made + n => o.shelf # None)
        /\ o.nested = <<>> \/ (k <= made + n /\ k = made + 1 /\ o.nested = Following(n, m))
    BY <2>4, ResultObjects, SMTT(30)
  <2> QED  BY <2>3, <2>5, Zenon
<1>6. NewNumbers(c, n + m, ids) /\ \A i \in 1..(n + m) : ~cur'[made + i].closed /\ ~cur'[made + i].running
  BY <1>5, Zenon DEF NewNumbers
<1>7. OldNumbers /\ \A k \in 1..made : SameClose(k) /\ cur'[k].nested = cur[k].nested /\ cur'[k].shelf = cur[k].shelf
  BY <1>4, OldObject, Zenon DEF OldNumbers
<1>8. ObjectsOK' /\ GivenOK'
  <2>1. given' \subseteq given \cup Objects(n + m)
    BY <1>1, Zenon
  <2> QED  BY <1>2, <1>3, <1>4, <1>5, <2>1, ObjectsGrown, Zenon
<1>9. ASSUME NEW k \in 1..made'  PROVE Children(k)'
  <2>1. CASE k \in 1..made
    BY <1>3, <1>7, <2>1 DEF CursorInv, Owned, Children
  <2>2. CASE k \notin 1..made
    <3>1. k - made \in 1..(n + m) /\ k = made + (k - made) /\ k \in Nat
      BY <1>3, <2>2
    <3>2. cur'[k].nested = <<>> \/ (k = made + 1 /\ cur'[k].nested = Following(n, m))
      BY <1>5, <3>1, ZenonT(30)
    <3>3. CASE cur'[k].nested = <<>>
      BY <3>3 DEF Children
    <3>4. CASE k = made + 1 /\ cur'[k].nested = Following(n, m)
      <4>1. DOMAIN Following(n, m) = 1..m /\ \A i \in 1..m : Following(n, m)[i] = made + n + i
        BY <1>3, FollowingIs, Zenon
      <4>2. \A i \in 1..m : made + n + i \in (k + 1)..made'
        BY <1>3, <3>4
      <4> QED  BY <3>4, <4>1, <4>2 DEF Children
    <3> QED  BY <3>2, <3>3, <3>4, Zenon
  <2> QED  BY <2>1, <2>2, ZenonT(30)
<1>10. rows' = rows \/ \E o : rows' = Append(rows, o) /\ NewRows(c, n + m, o)
  <2> DEFINE o == [sets |-> Following(0, n), on |-> c, currentResultSet |-> 0,
                   closed |-> FALSE, closeErr |-> FALSE, next |-> 0]
  <2>1. Following(0, n) \in Seq(Nat) /\ DOMAIN Following(0, n) = 1..n
        /\ \A i \in 1..n : Following(0, n)[i] = made + i
    <3>1. \A i \in 1..n : made + 0 + i = made + i
      BY <1>3
    <3> QED  BY <1>3, <3>1, FollowingIs, Zenon
  <2>2. \A i \in 1..n : made + i \in Objects(n + m) /\ cur'[made + i].shelf # None
    <3>1. \A i \in 1..n : i \in 1..(n + m) /\ made + i <= made + n /\ made + i \in (made + 1)..(made + (n + m))
      BY <1>3
    <3> QED  BY <1>5, <3>1, Zenon DEF Objects
  <2>3. NewRows(c, n + m, o)
    BY <2>1, <2>2, Zenon DEF NewRows, RowsState
  <2> QED  BY <2>3, Zenon DEF newImplicitRows
<1>11. Objects(registered) \in SUBSET Objects(n + m)
  BY <1>3 DEF Objects
<1> QED  BY <1>1, <1>2, <1>6, <1>7, <1>8, <1>9, <1>10, <1>11, AnswerKeeps, Zenon

-----------------------------------------------------------------------------
(* Closing: the calls of Close keep the invariant.                         *)

SameShape(k) == cur'[k].nested = cur[k].nested /\ cur'[k].shelf = cur[k].shelf
SameSets == DOMAIN rows' = DOMAIN rows /\ \A r \in DOMAIN rows : rows'[r].sets = rows[r].sets /\ rows'[r].on = rows[r].on

LEMMA RunningIs ==
  ASSUME NEW o \in CursorState, NEW by \in Int
  PROVE  /\ Running(o, by) \in CursorState /\ Running(o, by).on = o.on /\ Running(o, by).cursorID = o.cursorID
         /\ Running(o, by).executorID = o.executorID /\ Running(o, by).nested = o.nested
         /\ Running(o, by).shelf = o.shelf
         /\ Running(o, by).closed /\ Running(o, by).running /\ Running(o, by).caller = by
BY Zenon DEF Running, CursorState

\* Types, and who owns what.
LEMMA OwnedKept ==
  ASSUME CursorInv, UNCHANGED made, \A k \in 1..made : cur'[k].on = cur[k].on /\ SameShape(k), SameSets
  PROVE  Owned'
<1>1. ASSUME NEW k \in 1..made  PROVE Children(k)'
  BY Zenon DEF CursorInv, Owned, Children, SameShape
<1>2. ASSUME NEW r \in DOMAIN rows, NEW j \in DOMAIN rows[r].sets  PROVE ResultSet(r, rows[r].sets[j])'
  <2>1. PICK k \in 1..made : k = rows[r].sets[j]
    BY Zenon DEF CursorInv, Owned, ResultSet
  <2>2. ResultSet(r, k)
    BY <2>1, Zenon DEF CursorInv, Owned
  <2>3. ResultSet(r, k)'
    BY <2>2, Zenon DEF ResultSet, SameShape, SameSets
  <2> QED  BY <2>1, <2>3, Zenon DEF SameSets
<1>3. DOMAIN rows' = DOMAIN rows /\ \A r \in DOMAIN rows : rows'[r].sets = rows[r].sets
  BY Zenon DEF SameSets
<1> QED  BY <1>1, <1>2, <1>3, Zenon DEF Owned

LEMMA CallKeeps ==
  ASSUME CursorInv, UNCHANGED <<made, reg, queue, opened, given>>, ObjectsOK', RowsOK', OldNumbers,
         \A k \in 1..made : SameShape(k), SameSets
  PROVE  CursorTypeOK' /\ Numbers' /\ Owned'
<1>1. CursorTypeOK /\ Numbers
  BY Zenon DEF CursorInv
<1>2. \A k \in 1..made : /\ cur'[k].on = cur[k].on /\ cur'[k].cursorID = cur[k].cursorID
                         /\ cur'[k].executorID = cur[k].executorID
  BY Zenon DEF OldNumbers, SameNumber
<1>3. CursorTypeOK'
  BY <1>1, Zenon DEF CursorTypeOK, ServerOK, GivenOK
<1>4. Numbers'
  BY <1>1, <1>2, NumbersKept, Zenon
<1>5. Owned'
  BY <1>2, OwnedKept, Zenon
<1> QED  BY <1>3, <1>4, <1>5, Zenon

\* The rows r, when no result set of r is called or returns.
LEMMA ProgressKept ==
  ASSUME CursorInv, NEW r \in DOMAIN rows, UNCHANGED made, OldNumbers,
         rows'[r].sets = rows[r].sets, rows'[r].next = rows[r].next, rows'[r].closeErr = rows[r].closeErr,
         \A k \in 1..made : /\ cur[k].running /\ cur[k].caller = -r => cur'[k].running /\ cur'[k].caller = -r
                            /\ cur'[k].closed /\ ~cur'[k].running /\ ~cur'[k].closeErr =>
                                 cur[k].closed /\ ~cur[k].running /\ ~cur[k].closeErr,
         rows'[r].closed => Walks(r)' \/ (rows[r].closed /\ ~Walks(r)) \/ rows[r].next = Len(rows[r].sets)
  PROVE  Progress(r)'
<1>1. /\ Progress(r) /\ rows[r].next \in Nat /\ Len(rows[r].sets) \in Nat
      /\ DOMAIN rows[r].sets = 1..Len(rows[r].sets)
  BY RowsAre, Zenon DEF CursorInv, CursorTypeOK
<1>2. \A j \in DOMAIN rows[r].sets : rows[r].sets[j] \in 1..made
  BY Zenon DEF CursorInv, Owned, ResultSet
<1>3. ASSUME NEW j \in DOMAIN rows[r].sets  PROVE ReturnedClean(rows[r].sets[j])'
  <2>1. PICK k \in 1..made : k = rows[r].sets[j]
    BY <1>2, Zenon
  <2>2. ReturnedClean(k)
    BY <1>1, <2>1, Zenon DEF Progress
  <2>3. ReturnedClean(k)'
    BY <2>2, Zenon DEF ReturnedClean, OldNumbers, SameNumber
  <2> QED  BY <2>1, <2>3, Zenon
<1>4. ASSUME NEW j \in 1..rows[r].next, ~rows[r].closeErr  PROVE Called(r, rows[r].sets[j])'
  <2>1. PICK k \in 1..made : k = rows[r].sets[j]
    BY <1>1, <1>2 DEF Progress
  <2>2. Called(r, k)
    BY <1>1, <1>4, <2>1, Zenon DEF Progress
  <2>3. Called(r, k)'
    BY <2>2, Zenon DEF Called, OldNumbers, SameNumber
  <2> QED  BY <2>1, <2>3, Zenon
<1>5. rows'[r].closed => Walks(r)' \/ rows[r].next = Len(rows[r].sets)
  BY <1>1, Zenon DEF Progress
<1>6. rows[r].next <= Len(rows[r].sets)
  BY <1>1, Zenon DEF Progress
<1> QED  BY <1>3, <1>4, <1>5, <1>6, Zenon DEF Progress

\* No rows are being closed.
LEMMA NoneWalks ==
  ASSUME CursorInv, NEW r \in DOMAIN rows, active <= 0, active # -r
  PROVE  ~Walks(r)
BY NoneRuns, Zenon DEF Walks

\* Close of k is called, by the application (0), by the Close of k's parent or
\* by the Close of rows (a negative number).
CallOf(k, by) ==
  /\ UNCHANGED made /\ DOMAIN cur' = 1..made /\ cur' = [a \in DOMAIN cur' |-> cur'[a]]
  /\ cur'[k] = Running(cur[k], by)
  /\ \A a \in 1..made : a # k => cur'[a] \in CursorState /\ SameNumber(a) /\ SameShape(a)

LEMMA CalledIs ==
  ASSUME ObjectsOK, NEW k \in 1..made, NEW by \in Int, CallOf(k, by)
  PROVE  /\ ObjectsOK' /\ OldNumbers /\ \A a \in 1..made : SameShape(a)
         /\ cur'[k].closed /\ cur'[k].running /\ cur'[k].caller = by
<1>1. cur[k] \in CursorState
  BY ObjectsAre, Zenon
<1>2. /\ cur'[k] \in CursorState /\ SameNumber(k) /\ SameShape(k)
      /\ cur'[k].closed /\ cur'[k].running /\ cur'[k].caller = by
  BY <1>1, RunningIs DEF CallOf, SameNumber, SameShape
<1> QED  BY <1>2, Zenon DEF CallOf, ObjectsOK, OldNumbers

LEMMA CloseCursorKeeps ==
  ASSUME CursorInv, NEW k, CloseCursor(k)
  PROVE  CursorInv'
<1>1. /\ active = 0 /\ cur' = [cur EXCEPT ![k] = Running(@, 0)] /\ active' = k
      /\ UNCHANGED <<made, reg, queue, opened, rows, given>> /\ ~cur[k].closed
  BY Zenon DEF CloseCursor
<1>2. /\ k \in 1..made /\ k \in Nat /\ k > 0 /\ cur \in [1..made -> CursorState] /\ made \in Nat /\ ObjectsOK
  BY DEF CloseCursor, CursorInv, CursorTypeOK, GivenOK, ObjectsOK
<1>3. /\ DOMAIN cur' = 1..made /\ cur' = [a \in DOMAIN cur' |-> cur'[a]] /\ cur'[k] = Running(cur[k], 0)
      /\ \A a \in 1..made : a # k => cur'[a] = cur[a] /\ cur'[a] \in CursorState
  BY <1>1, <1>2, Zenon
<1>4. CallOf(k, 0)
  BY <1>1, <1>3, Zenon DEF CallOf, SameNumber, SameShape
<1>5. /\ ObjectsOK' /\ OldNumbers /\ \A a \in 1..made : SameShape(a)
      /\ cur'[k].closed /\ cur'[k].running /\ cur'[k].caller = 0
  BY <1>2, <1>4, CalledIs
<1>6. SameSets /\ RowsOK'
  BY <1>1, <1>2 DEF SameSets, RowsOK, CursorInv, CursorTypeOK
<1>7. CursorTypeOK' /\ Numbers' /\ Owned'
  BY <1>1, <1>5, <1>6, CallKeeps, Zenon
<1>8. \A a \in 1..made : ~cur[a].running
  BY <1>1, NoneRuns
<1>9. Frames'
  <2>1. \A a \in 1..made' : cur'[a].running => a = k
    BY <1>1, <1>3, <1>8, Zenon
  <2>2. Frame(k)'
    BY <1>1, <1>2, <1>5, <2>1 DEF Frame
  <2> QED  BY <1>1, <1>2, <1>5, <2>1, <2>2 DEF Frames
<1>10. ASSUME NEW r \in DOMAIN rows  PROVE Progress(r)'
  <2>1. ~Walks(r)
    BY <1>1, NoneWalks, RowsAre DEF CursorInv, CursorTypeOK
  <2>2. \A a \in 1..made : /\ cur[a].running /\ cur[a].caller = -r => cur'[a].running /\ cur'[a].caller = -r
                           /\ cur'[a].closed /\ ~cur'[a].running /\ ~cur'[a].closeErr =>
                                cur[a].closed /\ ~cur[a].running /\ ~cur[a].closeErr
    BY <1>3, <1>5, <1>8, Zenon
  <2> QED  BY <1>1, <1>5, <2>1, <2>2, ProgressKept, Zenon
<1> QED  BY <1>1, <1>7, <1>9, <1>10, Zenon DEF CursorInv

\* The Close that runs: its frame, and its child.
LEMMA ActiveIs ==
  ASSUME CursorInv, NEW k \in 1..made, active = k
  PROVE  /\ k \in Nat /\ k > 0 /\ cur[k].running /\ Frame(k) /\ cur[k].next \in Nat /\ cur[k].caller \in Int
         /\ \A a \in 1..made : cur[a].running => a <= k
         /\ cur[k].next < Len(cur[k].nested) =>
              cur[k].nested[cur[k].next + 1] \in 1..made /\ cur[k].nested[cur[k].next + 1] > k
<1>1. /\ made \in Nat /\ k \in Nat /\ k > 0 /\ cur[k].next \in Nat /\ cur[k].caller \in Int
      /\ cur[k].nested \in Seq(Nat)
  BY ObjectsAre, Zenon DEF CursorInv, CursorTypeOK
<1>2. cur[k].running /\ Frame(k) /\ \A a \in 1..made : cur[a].running => a <= k
  BY <1>1, Zenon DEF CursorInv, Frames, Frame
<1>3. ASSUME cur[k].next < Len(cur[k].nested)
      PROVE  cur[k].nested[cur[k].next + 1] \in 1..made /\ cur[k].nested[cur[k].next + 1] > k
  <2>1. cur[k].next + 1 \in DOMAIN cur[k].nested
    BY <1>1, <1>3, SeqIs
  <2>2. PICK a \in (k + 1)..made : a = cur[k].nested[cur[k].next + 1]
    BY <2>1, Zenon DEF CursorInv, Owned, Children
  <2>3. a \in 1..made /\ a > k
    BY <1>1
  <2> QED  BY <2>2, <2>3, Zenon
<1> QED  BY <1>1, <1>2, <1>3, Zenon

\* A frame whose Close goes on: the next child, an error of a child.
NextChild(o, x) == [o EXCEPT !.next = x]
ChildReturned(o, x, err) == [o EXCEPT !.next = x, !.closeErr = err]

LEMMA ChildReturnedIs ==
  ASSUME NEW o \in CursorState, NEW x \in Nat, NEW err \in BOOLEAN, NEW p, p = ChildReturned(o, x, err)
  PROVE  /\ p \in CursorState /\ p.on = o.on /\ p.cursorID = o.cursorID /\ p.executorID = o.executorID
         /\ p.nested = o.nested /\ p.shelf = o.shelf /\ p.closed = o.closed /\ p.running = o.running
         /\ p.caller = o.caller /\ p.closeErr = err
BY Zenon DEF ChildReturned, CursorState

LEMMA CloseNestedKeeps ==
  ASSUME CursorInv, NEW k \in 1..made, CloseNested(k)
  PROVE  CursorInv'
<1>1. /\ active = k /\ cur[k].next < Len(cur[k].nested)
      /\ UNCHANGED <<made, reg, queue, opened, rows, given>>
  BY Zenon DEF CloseNested
<1>3. PICK child \in 1..made : child = cur[k].nested[cur[k].next + 1] /\ child > k
  BY <1>1, ActiveIs, Zenon
<1>2. \/ /\ cur[child].closed
         /\ cur' = [cur EXCEPT ![k].next = @ + 1, ![k].closeErr = @ \/ cur[child].closeErr]
         /\ UNCHANGED active
      \/ /\ ~cur[child].closed
         /\ cur' = [cur EXCEPT ![k].next = @ + 1, ![child] = Running(@, k)]
         /\ active' = child
  BY <1>3, Zenon DEF CloseNested
<1>4. /\ made \in Nat /\ k \in Nat /\ k > 0 /\ cur \in [1..made -> CursorState] /\ ObjectsOK
      /\ cur[k].running /\ Frame(k) /\ cur[k].next + 1 \in Nat
      /\ \A a \in 1..made : cur[a].running => a <= k
      /\ \A a \in 1..made : cur[a] \in CursorState /\ cur[a].closeErr \in BOOLEAN
  <2>1. ObjectsOK /\ made \in Nat /\ cur \in [1..made -> CursorState]
    BY Zenon DEF CursorInv, CursorTypeOK, ObjectsOK
  <2>2. /\ k \in Nat /\ k > 0 /\ cur[k].next \in Nat
        /\ \A a \in 1..made : cur[a] \in CursorState /\ cur[a].closeErr \in BOOLEAN
    BY <2>1, ObjectsAre, Zenon
  <2>3. cur[k].running /\ Frame(k) /\ \A a \in 1..made : cur[a].running => a <= k
    BY <1>1, ActiveIs, Zenon
  <2>4. cur[k].next + 1 \in Nat
    BY <2>2
  <2> QED  BY <2>1, <2>2, <2>3, <2>4, Zenon
<1>5. SameSets /\ (active' \in Int => RowsOK')
  BY <1>1, Zenon DEF SameSets, RowsOK, CursorInv, CursorTypeOK
<1>6. ASSUME NEW r \in DOMAIN rows,
             \A a \in 1..made : cur[a].running => cur'[a].running /\ cur'[a].caller = cur[a].caller
      PROVE  rows'[r].closed => Walks(r)' \/ (rows[r].closed /\ ~Walks(r)) \/ rows[r].next = Len(rows[r].sets)
  <2>1. r \in Nat /\ r > 0
    BY RowsAre, Zenon DEF CursorInv, CursorTypeOK
  <2>2. Walks(r) => Walks(r)'
    BY <1>1, <1>4, <1>6, <2>1 DEF Walks
  <2> QED  BY <1>1, <2>2, Zenon
<1>7. CASE /\ cur' = [cur EXCEPT ![k].next = @ + 1, ![k].closeErr = @ \/ cur[child].closeErr]
           /\ UNCHANGED active
  <2>1. PICK err \in BOOLEAN : err = (cur[k].closeErr \/ cur[child].closeErr)
    BY Zenon
  <2>2. /\ cur'[k] = ChildReturned(cur[k], cur[k].next + 1, err)
        /\ \A a \in 1..made : a # k => cur'[a] = cur[a]
        /\ DOMAIN cur' = 1..made /\ cur' = [a \in DOMAIN cur' |-> cur'[a]]
    BY <1>4, <1>7, <2>1, Zenon DEF ChildReturned
  <2>3. /\ cur'[k] \in CursorState /\ SameNumber(k) /\ SameShape(k)
        /\ cur'[k].closed = cur[k].closed /\ cur'[k].running = cur[k].running /\ cur'[k].caller = cur[k].caller
    <3>0. PICK x \in Nat : x = cur[k].next + 1
      BY <1>4, Zenon
    <3>1. cur[k] \in CursorState /\ cur'[k] = ChildReturned(cur[k], x, err)
      BY <1>4, <2>2, <3>0, Zenon
    <3> QED  BY <3>1, ChildReturnedIs DEF SameNumber, SameShape
  <2>4. /\ ObjectsOK' /\ OldNumbers
        /\ \A a \in 1..made : SameShape(a) /\ cur'[a].closed = cur[a].closed
                              /\ cur'[a].running = cur[a].running /\ cur'[a].caller = cur[a].caller
    BY <1>1, <1>4, <2>2, <2>3, Zenon DEF ObjectsOK, OldNumbers, SameNumber, SameShape
  <2>b. active' \in Int
    BY <1>1, <1>4, <1>7
  <2>5. CursorTypeOK' /\ Numbers' /\ Owned'
    BY <1>1, <1>5, <2>4, <2>b, CallKeeps, Zenon
  <2>6. Frames'
    <3>1. Frames /\ made' = made /\ rows' = rows /\ active' = active /\ active = k
      BY <1>1, <1>7, Zenon DEF CursorInv
    <3>2. ASSUME NEW a \in 1..made, cur[a].running  PROVE Frame(a)'
      <4>1. Frame(a) /\ (cur[a].caller > 0 => cur[a].caller \in 1..made)
        BY <1>4, <3>1, <3>2, ObjectsAre DEF Frames, Frame
      <4> QED  BY <2>4, <3>1, <4>1, Zenon DEF Frame
    <3> QED  BY <1>4, <2>4, <3>1, <3>2, Zenon DEF Frames
  <2>7. ASSUME NEW r \in DOMAIN rows  PROVE Progress(r)'
    <3>1. \A a \in 1..made : /\ cur[a].running /\ cur[a].caller = -r => cur'[a].running /\ cur'[a].caller = -r
                             /\ cur'[a].closed /\ ~cur'[a].running /\ ~cur'[a].closeErr =>
                                  cur[a].closed /\ ~cur[a].running /\ ~cur[a].closeErr
      BY <1>4, <2>2, <2>4, Zenon
    <3> QED  BY <1>1, <1>6, <2>4, <3>1, ProgressKept, Zenon
  <2> QED  BY <1>1, <2>5, <2>6, <2>7, Zenon DEF CursorInv
<1>8. CASE /\ ~cur[child].closed
           /\ cur' = [cur EXCEPT ![k].next = @ + 1, ![child] = Running(@, k)]
           /\ active' = child
  <2>1. ~cur[child].running
    BY <1>3, <1>8, Zenon DEF CursorInv, Frames, Frame
  <2>a. k # child
    BY <1>3, <1>4
  <2>2. /\ cur'[k] = NextChild(cur[k], cur[k].next + 1) /\ cur'[child] = Running(cur[child], k)
        /\ \A a \in 1..made : a # k /\ a # child => cur'[a] = cur[a]
        /\ DOMAIN cur' = 1..made /\ cur' = [a \in DOMAIN cur' |-> cur'[a]]
    BY <1>3, <1>4, <1>8, <2>a, Zenon DEF NextChild
  <2>3. /\ cur'[k] \in CursorState /\ SameNumber(k) /\ SameShape(k) /\ cur'[k].closeErr = cur[k].closeErr
        /\ cur'[k].closed = cur[k].closed /\ cur'[k].running = cur[k].running /\ cur'[k].caller = cur[k].caller
    <3>0. PICK x \in Nat : x = cur[k].next + 1
      BY <1>4, Zenon
    <3>1. cur[k] \in CursorState /\ cur'[k] = NextChild(cur[k], x)
      BY <1>4, <2>2, <3>0, Zenon
    <3>2. PICK o \in CursorState, p \in {cur'[k]} : o = cur[k] /\ p = NextChild(o, x)
      BY <3>1, Zenon
    <3>3. /\ p \in CursorState /\ p.on = o.on /\ p.cursorID = o.cursorID /\ p.executorID = o.executorID
          /\ p.nested = o.nested /\ p.shelf = o.shelf /\ p.closed = o.closed /\ p.running = o.running
          /\ p.caller = o.caller /\ p.closeErr = o.closeErr
      BY <3>2, Zenon DEF NextChild, CursorState
    <3> QED  BY <3>2, <3>3, Zenon DEF SameNumber, SameShape
  <2>4. CallOf(child, k)
    BY <1>1, <1>4, <2>2, <2>3, ZenonT(30) DEF CallOf, SameNumber, SameShape
  <2>5. /\ ObjectsOK' /\ OldNumbers /\ \A a \in 1..made : SameShape(a)
        /\ cur'[child].closed /\ cur'[child].running /\ cur'[child].caller = k
    BY <1>3, <1>4, <2>4, CalledIs
  <2>6. \A a \in 1..made : a # child =>
          /\ cur'[a].closed = cur[a].closed /\ cur'[a].running = cur[a].running
          /\ cur'[a].caller = cur[a].caller /\ cur'[a].closeErr = cur[a].closeErr
    BY <2>2, <2>3, ZenonT(30)
  <2>b. active' \in Int
    BY <1>3, <1>8
  <2>7. CursorTypeOK' /\ Numbers' /\ Owned'
    BY <1>1, <1>5, <2>5, <2>b, CallKeeps, Zenon
  <2>8. Frames'
    <3>1. Frame(child)'
      <4>0. cur'[k].running
        BY <1>4, <2>3, Zenon
      <4>1. made' = made /\ active' = child /\ child \in Nat /\ k < child /\ ~(k < 0)
        BY <1>1, <1>3, <1>4, <1>8
      <4>2. ASSUME NEW b \in 1..made, cur'[b].running  PROVE ~(child < b)
        BY <1>3, <1>4, <2>6, <4>2, SMTT(30)
      <4> QED  BY <2>5, <4>0, <4>1, <4>2 DEF Frame
    <3>2. ASSUME NEW a \in 1..made, a # child, cur'[a].running  PROVE Frame(a)'
      <4>1. Frame(a) /\ cur[a].running /\ a <= k /\ cur[a].caller \in Int /\ a \in Nat
        BY <1>4, <2>6, <3>2, ObjectsAre, ZenonT(30) DEF CursorInv, Frames
      <4>2. /\ a <= child /\ cur'[a].closed /\ cur'[a].caller < a
            /\ cur'[a].caller < 0 => -cur'[a].caller \in DOMAIN rows'
        BY <1>1, <1>3, <1>4, <2>6, <3>2, <4>1, SMTT(30) DEF Frame
      <4>3. cur'[a].caller > 0 => cur'[cur'[a].caller].running
        <5>1. cur[a].caller > 0 => cur[a].caller \in 1..made /\ cur[a].caller # child /\ cur[cur[a].caller].running
          BY <1>3, <1>4, <4>1, SMTT(30) DEF Frame
        <5> QED  BY <2>6, <3>2, <5>1, Zenon
      <4>4. ASSUME NEW b \in 1..made, cur'[b].running, a < b  PROVE a <= cur'[b].caller
        BY <2>5, <2>6, <4>1, <4>4, Zenon DEF Frame
      <4> QED  BY <1>1, <1>8, <4>2, <4>3, <4>4, Zenon DEF Frame
    <3>3. made' = made /\ active' = child /\ child \in 1..made /\ child > 0 /\ ~(child < 0)
      BY <1>1, <1>3, <1>4, <1>8
    <3> QED  BY <2>5, <3>1, <3>2, <3>3, Zenon DEF Frames
  <2>9. ASSUME NEW r \in DOMAIN rows  PROVE Progress(r)'
    <3>1. \A a \in 1..made : /\ cur[a].running /\ cur[a].caller = -r => cur'[a].running /\ cur'[a].caller = -r
                             /\ cur'[a].closed /\ ~cur'[a].running /\ ~cur'[a].closeErr =>
                                  cur[a].closed /\ ~cur[a].running /\ ~cur[a].closeErr
      BY <2>1, <2>5, <2>6, Zenon
    <3>2. \A a \in 1..made : cur[a].running => cur'[a].running /\ cur'[a].caller = cur[a].caller
      BY <2>1, <2>6, Zenon
    <3> QED  BY <1>1, <1>6, <2>5, <3>1, <3>2, ProgressKept, Zenon
  <2> QED  BY <1>1, <2>7, <2>8, <2>9, Zenon DEF CursorInv
<1> QED  BY <1>2, <1>7, <1>8, Zenon

\* Close of k returns.
Returned(o, id, err) == [o EXCEPT !.running = FALSE, !.cursorID = id, !.closeErr = err]
WithError(o, err) == [o EXCEPT !.closeErr = err]

LEMMA ReturnedIs ==
  ASSUME NEW o \in CursorState, NEW id \in Nat, NEW err \in BOOLEAN, NEW p, p = Returned(o, id, err)
  PROVE  /\ p \in CursorState /\ p.on = o.on /\ p.cursorID = id /\ p.executorID = o.executorID
         /\ p.nested = o.nested /\ p.shelf = o.shelf /\ p.closed = o.closed /\ ~p.running
         /\ p.caller = o.caller /\ p.closeErr = err
BY Zenon DEF Returned, CursorState

LEMMA WithErrorIs ==
  ASSUME NEW o \in CursorState, NEW err \in BOOLEAN, NEW p, p = WithError(o, err)
  PROVE  /\ p \in CursorState /\ p.on = o.on /\ p.cursorID = o.cursorID /\ p.executorID = o.executorID
         /\ p.nested = o.nested /\ p.shelf = o.shelf /\ p.closed = o.closed /\ p.running = o.running
         /\ p.caller = o.caller
BY Zenon DEF WithError, CursorState

LEMMA RowsErrorIs ==
  ASSUME NEW o \in RowsState, NEW err \in BOOLEAN, NEW p, p = [o EXCEPT !.closeErr = err]
  PROVE  /\ p \in RowsState /\ p.sets = o.sets /\ p.on = o.on /\ p.closed = o.closed /\ p.next = o.next
         /\ p.closeErr = err
BY Zenon DEF RowsState

\* The objects of the connection after the return.
SameCall(a) ==
  /\ cur'[a].on = cur[a].on /\ cur'[a].executorID = cur[a].executorID /\ SameShape(a)
  /\ cur'[a].closed = cur[a].closed /\ cur'[a].caller = cur[a].caller

LEMMA ReturnsObjects ==
  ASSUME CursorInv, NEW k \in 1..made, NEW id \in Nat, NEW err \in BOOLEAN, Returns(k, id, err)
  PROVE  /\ ObjectsOK' /\ \A a \in 1..made : SameCall(a)
         /\ \A a \in 1..made : a # k =>
              /\ cur'[a].cursorID = cur[a].cursorID /\ cur'[a].running = cur[a].running
              /\ a # cur[k].caller => cur'[a].closeErr = cur[a].closeErr
         /\ cur'[k].cursorID = id /\ ~cur'[k].running /\ cur'[k].closeErr = err
<1>1. cur' = [i \in 1..made |->
        IF i = k THEN Returned(cur[i], id, err)
        ELSE IF i = cur[k].caller THEN WithError(cur[i], cur[i].closeErr \/ err)
        ELSE cur[i]]
  BY Zenon DEF Returns, Returned, WithError
<1>2. /\ \A a \in 1..made : cur[a] \in CursorState /\ cur[a].closeErr \in BOOLEAN
      /\ made' = made /\ made \in Nat
  BY ObjectsAre, Zenon DEF CursorInv, CursorTypeOK, Returns
<1>3. DOMAIN cur' = 1..made /\ cur' = [i \in DOMAIN cur' |-> cur'[i]] /\ cur'[k] = Returned(cur[k], id, err)
  BY <1>1, Zenon
<1>4. /\ cur'[k] \in CursorState /\ SameCall(k)
      /\ cur'[k].cursorID = id /\ ~cur'[k].running /\ cur'[k].closeErr = err
  BY <1>2, <1>3, ReturnedIs DEF SameCall, SameShape
<1>5. ASSUME NEW a \in 1..made, a # k, a # cur[k].caller
      PROVE  /\ cur'[a] \in CursorState /\ SameCall(a) /\ cur'[a].cursorID = cur[a].cursorID
             /\ cur'[a].running = cur[a].running /\ cur'[a].closeErr = cur[a].closeErr
  <2>1. cur'[a] = cur[a]
    BY <1>1, <1>5, Zenon
  <2> QED  BY <1>2, <2>1, Zenon DEF SameCall, SameShape
<1>6. ASSUME NEW a \in 1..made, a # k, a = cur[k].caller
      PROVE  /\ cur'[a] \in CursorState /\ SameCall(a) /\ cur'[a].cursorID = cur[a].cursorID
             /\ cur'[a].running = cur[a].running
  <2>1. PICK e \in BOOLEAN : e = (cur[a].closeErr \/ err)
    BY Zenon
  <2>2. cur'[a] = WithError(cur[a], e)
    BY <1>1, <1>6, <2>1, Zenon
  <2>3. cur[a] \in CursorState
    BY <1>2, Zenon
  <2> QED  BY <2>2, <2>3, WithErrorIs DEF SameCall, SameShape
<1>7. \A a \in 1..made : cur'[a] \in CursorState
  BY <1>4, <1>5, <1>6, Zenon
<1>8. ObjectsOK'
  BY <1>2, <1>3, <1>7, Zenon DEF ObjectsOK
<1> QED  BY <1>4, <1>5, <1>6, <1>8, Zenon

\* The rows after the return: the error goes to those that called.
LEMMA ReturnsRows ==
  ASSUME CursorInv, NEW k \in 1..made, NEW id \in Nat, NEW err \in BOOLEAN, Returns(k, id, err)
  PROVE  /\ RowsOK' /\ SameSets
         /\ \A r \in DOMAIN rows : /\ rows'[r].closed = rows[r].closed /\ rows'[r].next = rows[r].next
                                   /\ ~rows'[r].closeErr => ~rows[r].closeErr /\ (cur[k].caller = -r => ~err)
<1>1. /\ rows' = [r \in DOMAIN rows |->
           IF -r = cur[k].caller THEN [rows[r] EXCEPT !.closeErr = @ \/ err] ELSE rows[r]]
      /\ active' = cur[k].caller
  BY Zenon DEF Returns
<1>2. /\ Len(rows) \in Nat /\ DOMAIN rows = 1..Len(rows) /\ cur[k].caller \in Int
      /\ \A r \in DOMAIN rows : rows[r] \in RowsState /\ rows[r].closeErr \in BOOLEAN
  BY RowsAre, ObjectsAre, Zenon DEF CursorInv, CursorTypeOK
<1>3. ASSUME NEW r \in DOMAIN rows
      PROVE  /\ rows'[r] \in RowsState /\ rows'[r].sets = rows[r].sets /\ rows'[r].on = rows[r].on
             /\ rows'[r].closed = rows[r].closed /\ rows'[r].next = rows[r].next
             /\ ~rows'[r].closeErr => ~rows[r].closeErr /\ (cur[k].caller = -r => ~err)
  <2>1. CASE -r # cur[k].caller
    <3>1. rows'[r] = rows[r]
      BY <1>1, <2>1, Zenon
    <3> QED  BY <1>2, <2>1, <3>1, Zenon
  <2>2. CASE -r = cur[k].caller
    <3>1. PICK e \in BOOLEAN : e = (rows[r].closeErr \/ err)
      BY Zenon
    <3>2. rows'[r] = [rows[r] EXCEPT !.closeErr = e]
      BY <1>1, <2>2, <3>1, Zenon
    <3>3. /\ rows'[r] \in RowsState /\ rows'[r].sets = rows[r].sets /\ rows'[r].on = rows[r].on
          /\ rows'[r].closed = rows[r].closed /\ rows'[r].next = rows[r].next /\ rows'[r].closeErr = e
      BY <1>2, <3>2, RowsErrorIs
    <3> QED  BY <3>1, <3>3, Zenon
  <2> QED  BY <2>1, <2>2, Zenon
<1>4. DOMAIN rows' = DOMAIN rows /\ rows' = [r \in 1..Len(rows) |-> rows'[r]]
  BY <1>1, <1>2, Zenon
<1>5. rows' \in Seq(RowsState)
  BY <1>2, <1>3, <1>4
<1> QED  BY <1>1, <1>2, <1>3, <1>4, <1>5, Zenon DEF RowsOK, SameSets

LEMMA ReturnsFrames ==
  ASSUME CursorInv, NEW k \in 1..made, active = k, NEW id \in Nat, NEW err \in BOOLEAN, Returns(k, id, err)
  PROVE  Frames'
<1>1. /\ k \in Nat /\ k > 0 /\ cur[k].running /\ Frame(k) /\ cur[k].caller \in Int
      /\ \A a \in 1..made : cur[a].running => a <= k
  BY ActiveIs, Zenon
<1>2. active' = cur[k].caller /\ made' = made /\ made \in Nat /\ DOMAIN rows' = DOMAIN rows
  BY ReturnsRows, Zenon DEF Returns, SameSets, CursorInv, CursorTypeOK, ObjectsOK
<1>3. /\ ~cur'[k].running
      /\ \A a \in 1..made : cur'[a].closed = cur[a].closed /\ cur'[a].caller = cur[a].caller
      /\ \A a \in 1..made : a # k => cur'[a].running = cur[a].running
  BY ReturnsObjects DEF SameCall
<1>4. ASSUME NEW a \in 1..made, cur'[a].running  PROVE Frame(a)'
  <2>1. a # k /\ cur[a].running /\ a < k
    BY <1>1, <1>3, <1>4
  <2>2. Frame(a) /\ a \in Nat /\ cur[a].caller \in Int
    BY <2>1, ObjectsAre, Zenon DEF CursorInv, CursorTypeOK, Frames
  <2>3. a <= cur[k].caller /\ cur[a].closed /\ cur[a].caller < a
    BY <1>1, <2>1, <2>2, ZenonT(30) DEF Frame
  <2>4. cur[a].caller > 0 => cur[a].caller \in 1..made /\ cur[a].caller # k /\ cur[cur[a].caller].running
    BY <1>1, <1>2, <2>1, <2>2 DEF Frame
  <2>5. cur[a].caller < 0 => -cur[a].caller \in DOMAIN rows
    BY <2>2, Zenon DEF Frame
  <2>6. ASSUME NEW b \in 1..made, cur'[b].running, a < b  PROVE a <= cur[b].caller
    BY <1>3, <2>2, <2>6, Zenon DEF Frame
  <2> QED  BY <1>2, <1>3, <2>3, <2>4, <2>5, <2>6, Zenon DEF Frame
<1>5. cur[k].caller > 0 => cur[k].caller \in 1..made /\ cur[k].caller # k /\ cur[cur[k].caller].running
  BY <1>1, <1>2 DEF Frame
<1>6. cur[k].caller < 0 => -cur[k].caller \in DOMAIN rows
  BY <1>1, Zenon DEF Frame
<1> QED  BY <1>2, <1>3, <1>4, <1>5, <1>6, Zenon DEF Frames

\* A Close that returns no error has released the cursor, when it has a shelf.
Outcome(k, id, err) == id = 0 \/ (id = cur[k].cursorID /\ (err \/ cur[k].shelf = None))

LEMMA ReturnsProgress ==
  ASSUME CursorInv, NEW k \in 1..made, active = k, NEW id \in Nat, NEW err \in BOOLEAN, Returns(k, id, err),
         Outcome(k, id, err), NEW r \in DOMAIN rows
  PROVE  Progress(r)'
<1>1. /\ k \in Nat /\ k > 0 /\ cur[k].running /\ Frame(k) /\ cur[k].caller \in Int
  BY ActiveIs, Zenon
<1>2. /\ Progress(r) /\ r \in Nat /\ r > 0 /\ rows[r].next \in Nat /\ Len(rows[r].sets) \in Nat
      /\ DOMAIN rows[r].sets = 1..Len(rows[r].sets)
  BY RowsAre, Zenon DEF CursorInv, CursorTypeOK
<1>3. /\ active' = cur[k].caller /\ made' = made
      /\ rows'[r].sets = rows[r].sets /\ rows'[r].closed = rows[r].closed /\ rows'[r].next = rows[r].next
      /\ ~rows'[r].closeErr => ~rows[r].closeErr /\ (cur[k].caller = -r => ~err)
  BY ReturnsRows, ZenonT(30) DEF Returns, SameSets
<1>4. /\ ~cur'[k].running /\ cur'[k].cursorID = id /\ cur'[k].closeErr = err
      /\ \A a \in 1..made : cur'[a].closed = cur[a].closed /\ cur'[a].caller = cur[a].caller
      /\ \A a \in 1..made : a # k => /\ cur'[a].running = cur[a].running /\ cur'[a].cursorID = cur[a].cursorID
                                     /\ a # cur[k].caller => cur'[a].closeErr = cur[a].closeErr
  BY ReturnsObjects DEF SameCall
<1>5. \A j \in DOMAIN rows[r].sets : rows[r].sets[j] \in 1..made /\ cur[rows[r].sets[j]].shelf # None
  BY Zenon DEF CursorInv, Owned, ResultSet
<1>6. ASSUME NEW j \in DOMAIN rows[r].sets  PROVE ReturnedClean(rows[r].sets[j])'
  <2>1. PICK a \in 1..made : a = rows[r].sets[j] /\ cur[a].shelf # None
    BY <1>5, Zenon
  <2>2. ReturnedClean(a)
    BY <1>2, <2>1, Zenon DEF Progress
  <2>3. CASE a = k
    BY <1>3, <1>4, <2>1, <2>3, Zenon DEF Outcome, ReturnedClean
  <2>4. CASE a # k /\ a = cur[k].caller
    <3>1. cur[a].running
      BY <1>1, <2>4 DEF Frame
    <3> QED  BY <1>4, <2>1, <2>4, <3>1, <1>3, ZenonT(30) DEF ReturnedClean
  <2>5. CASE a # k /\ a # cur[k].caller
    BY <1>3, <1>4, <2>1, <2>2, <2>5 DEF ReturnedClean
  <2> QED  BY <2>3, <2>4, <2>5, Zenon
<1>7. ASSUME NEW j \in 1..rows[r].next, ~rows'[r].closeErr  PROVE Called(r, rows[r].sets[j])'
  <2>1. PICK a \in 1..made : a = rows[r].sets[j] /\ cur[a].shelf # None
    BY <1>2, <1>5 DEF Progress
  <2>2. Called(r, a)
    BY <1>2, <1>3, <1>7, <2>1, Zenon DEF Progress
  <2>3. CASE a # k
    BY <1>3, <1>4, <2>1, <2>2, <2>3, ZenonT(30) DEF Called
  <2>4. CASE a = k
    <3>1. id = 0
      BY <1>3, <1>7, <2>1, <2>2, <2>4, Zenon DEF Called, Outcome
    <3> QED  BY <1>3, <1>4, <2>1, <2>4, <3>1, Zenon DEF Called
  <2> QED  BY <2>3, <2>4, ZenonT(30)
<1>8. rows[r].closed => Walks(r)' \/ rows[r].next = Len(rows[r].sets)
  <2>1. Walks(r) => Walks(r)'
    <3>1. ASSUME NEW a \in 1..made, cur[a].running, cur[a].caller = -r  PROVE Walks(r)'
      BY <1>3, <1>4, <3>1, ZenonT(30) DEF Walks
    <3>2. active # -r
      BY <1>1, <1>2
    <3> QED  BY <3>1, <3>2, Zenon DEF Walks
  <2> QED  BY <1>2, <2>1, Zenon DEF Progress
<1>9. rows[r].next <= Len(rows[r].sets)
  BY <1>2, Zenon DEF Progress
<1> QED  BY <1>3, <1>6, <1>7, <1>8, <1>9, Zenon DEF Progress

LEMMA CloseKeeps ==
  ASSUME CursorInv, NEW k \in 1..made, Close(k)
  PROVE  CursorInv'
<1>1. active = k /\ cur[k].cursorID \in Nat /\ cur[k].closeErr \in BOOLEAN
  BY ObjectsAre, Zenon DEF Close, CursorInv, CursorTypeOK
<1>2. ASSUME NEW id \in Nat, NEW err \in BOOLEAN, Returns(k, id, err), Outcome(k, id, err), Numbers', ServerOK'
      PROVE  CursorInv'
  <2>1. ObjectsOK' /\ RowsOK' /\ SameSets /\ \A a \in 1..made : SameCall(a)
    BY <1>2, ReturnsObjects, ReturnsRows, Zenon
  <2>2. UNCHANGED <<made, given>> /\ GivenOK'
    BY <1>2, Zenon DEF Returns, GivenOK, CursorInv, CursorTypeOK
  <2>3. Owned'
    BY <2>1, <2>2, OwnedKept, Zenon DEF SameCall
  <2>4. Frames' /\ \A r \in DOMAIN rows : Progress(r)'
    BY <1>1, <1>2, ReturnsFrames, ReturnsProgress, Zenon
  <2> QED  BY <1>2, <2>1, <2>2, <2>3, <2>4, Zenon DEF CursorInv, CursorTypeOK, SameSets
<1>3. ASSUME NEW id \in Nat, NEW err \in BOOLEAN, Returns(k, id, err), id = cur[k].cursorID, UNCHANGED <<reg, queue>>
      PROVE  Numbers' /\ ServerOK'
  <2>1. CursorTypeOK /\ Numbers /\ made' = made /\ opened' = opened
    BY <1>3, Zenon DEF CursorInv, Returns
  <2>2. \A a \in 1..made : /\ cur'[a].on = cur[a].on /\ cur'[a].cursorID = cur[a].cursorID
                           /\ cur'[a].executorID = cur[a].executorID
    BY <1>3, ReturnsObjects DEF SameCall
  <2>3. Numbers'
    BY <1>3, <2>1, <2>2, NumbersKept, Zenon
  <2> QED  BY <1>3, <2>1, <2>3, Zenon DEF CursorTypeOK, ServerOK
<1>4. CASE cur[k].cursorID # 0 /\ closeServerCursor(k) /\ Returns(k, 0, cur[k].closeErr)
  <2>1. CursorTypeOK /\ Numbers /\ made' = made /\ opened' = opened
    BY <1>4, Zenon DEF CursorInv, Returns
  <2>2. /\ \A a \in 1..made : cur'[a].on = cur[a].on /\ cur'[a].executorID = cur[a].executorID
        /\ cur'[k].cursorID = 0 /\ \A a \in 1..made : a # k => cur'[a].cursorID = cur[a].cursorID
    BY <1>1, <1>4, ReturnsObjects DEF SameCall
  <2>3. Numbers' /\ ServerOK'
    BY <1>4, <2>1, <2>2, ReleaseNumbers, Zenon
  <2> QED  BY <1>1, <1>2, <1>4, <2>3, Zenon DEF Outcome
<1>5. CASE Returns(k, cur[k].cursorID, TRUE) /\ UNCHANGED <<reg, queue>>
  BY <1>1, <1>2, <1>3, <1>5, Zenon DEF Outcome
<1>6. CASE /\ cur[k].cursorID = 0 \/ cur[k].shelf = None
           /\ Returns(k, cur[k].cursorID, cur[k].closeErr) /\ UNCHANGED <<reg, queue>>
  BY <1>1, <1>2, <1>3, <1>6, Zenon DEF Outcome
<1> QED  BY <1>4, <1>5, <1>6, Zenon DEF Close

\* The rows after a step of their Close, or of the application.
SetReturned(o, x, err) == [o EXCEPT !.next = x, !.closeErr = err]
NextSet(o, x) == [o EXCEPT !.next = x]

LEMMA SetReturnedIs ==
  ASSUME NEW o \in RowsState, NEW x \in Nat, NEW err \in BOOLEAN, NEW p, p = SetReturned(o, x, err)
  PROVE  /\ p \in RowsState /\ p.sets = o.sets /\ p.on = o.on /\ p.closed = o.closed /\ p.next = x
         /\ p.closeErr = err
BY Zenon DEF RowsState, SetReturned

LEMMA NextSetIs ==
  ASSUME NEW o \in RowsState, NEW x \in Nat, NEW p, p = NextSet(o, x)
  PROVE  /\ p \in RowsState /\ p.sets = o.sets /\ p.on = o.on /\ p.closed = o.closed /\ p.next = x
         /\ p.closeErr = o.closeErr
BY Zenon DEF RowsState, NextSet

LEMMA RowsClosedIs ==
  ASSUME NEW o \in RowsState, NEW p, p = [o EXCEPT !.closed = TRUE]
  PROVE  /\ p \in RowsState /\ p.sets = o.sets /\ p.on = o.on /\ p.closed /\ p.next = o.next
         /\ p.closeErr = o.closeErr
BY Zenon DEF RowsState

LEMMA RowsMovedIs ==
  ASSUME NEW o \in RowsState, NEW x \in Nat, NEW p, p = [o EXCEPT !.currentResultSet = x]
  PROVE  /\ p \in RowsState /\ p.sets = o.sets /\ p.on = o.on /\ p.closed = o.closed /\ p.next = o.next
         /\ p.closeErr = o.closeErr
BY Zenon DEF RowsState

RowsAt(r, p) == rows' = [rows EXCEPT ![r] = p]

LEMMA RowsChanged ==
  ASSUME RowsOK, NEW r \in DOMAIN rows, NEW p \in RowsState, RowsAt(r, p), active' \in Int,
         p.sets = rows[r].sets, p.on = rows[r].on
  PROVE  /\ RowsOK' /\ SameSets /\ DOMAIN rows' = DOMAIN rows /\ rows'[r] = p
         /\ \A s \in DOMAIN rows : s # r => rows'[s] = rows[s]
<1>1. rows \in Seq(RowsState)
  BY Zenon DEF RowsOK
<1>2. DOMAIN rows' = DOMAIN rows /\ rows'[r] = p /\ \A s \in DOMAIN rows : s # r => rows'[s] = rows[s]
  BY <1>1, Zenon DEF RowsAt
<1>3. rows' \in Seq(RowsState)
  BY <1>1 DEF RowsAt
<1> QED  BY <1>2, <1>3, Zenon DEF RowsOK, SameSets

\* A step of rows leaves the objects alone.
LEMMA RowsFrames ==
  ASSUME CursorInv, UNCHANGED <<made, cur>>, active <= 0, active' <= 0, active' < 0 => -active' \in DOMAIN rows',
         active' \in Int
  PROVE  Frames'
<1>1. \A a \in 1..made' : ~cur'[a].running
  BY NoneRuns, Zenon
<1> QED  BY <1>1 DEF Frames

\* ... and the rows that are not closed now.
LEMMA OtherRows ==
  ASSUME CursorInv, NEW r \in DOMAIN rows, UNCHANGED <<made, cur>>, active <= 0, rows'[r] = rows[r], active # -r
  PROVE  Progress(r)'
<1>1. ~Walks(r)
  BY NoneWalks, Zenon
<1>2. OldNumbers
  BY Zenon DEF OldNumbers, SameNumber
<1> QED  BY <1>1, <1>2, ProgressKept, Zenon

LEMMA NextResultSetKeeps ==
  ASSUME CursorInv, NEW r \in DOMAIN rows, NextResultSet(r)
  PROVE  CursorInv'
<1>1. active = 0 /\ UNCHANGED <<made, cur, reg, queue, opened, given, active>>
  BY Zenon DEF NextResultSet
<1>2. rows[r] \in RowsState /\ rows[r].currentResultSet + 1 \in Nat /\ ObjectsOK /\ RowsOK /\ r \in Nat /\ r > 0
  BY RowsAre DEF CursorInv, CursorTypeOK, RowsState
<1>3. PICK x \in Nat : x = rows[r].currentResultSet + 1
  BY <1>2, Zenon
<1>4. PICK p : p = [rows[r] EXCEPT !.currentResultSet = x]
  BY Zenon
<1>5. /\ p \in RowsState /\ p.sets = rows[r].sets /\ p.on = rows[r].on /\ p.closed = rows[r].closed
      /\ p.next = rows[r].next /\ p.closeErr = rows[r].closeErr
  BY <1>2, <1>4, RowsMovedIs
<1>6. RowsAt(r, p) /\ active' \in Int
  BY <1>1, <1>3, <1>4 DEF NextResultSet, RowsAt
<1>7. /\ RowsOK' /\ SameSets /\ DOMAIN rows' = DOMAIN rows /\ rows'[r] = p
      /\ \A s \in DOMAIN rows : s # r => rows'[s] = rows[s]
  BY <1>2, <1>5, <1>6, RowsChanged, Zenon
<1>8. ObjectsOK' /\ OldNumbers /\ \A k \in 1..made : SameShape(k)
  BY <1>1, <1>2, Zenon DEF ObjectsOK, OldNumbers, SameNumber, SameShape
<1>9. CursorTypeOK' /\ Numbers' /\ Owned'
  BY <1>1, <1>7, <1>8, CallKeeps, Zenon
<1>10. Frames'
  BY <1>1, RowsFrames
<1>11. Progress(r)'
  <2>1. ~Walks(r)
    BY <1>1, <1>2, NoneWalks, SMTT(30)
  <2> QED  BY <1>1, <1>5, <1>7, <1>8, <2>1, ProgressKept, ZenonT(30)
<1>12. ASSUME NEW s \in DOMAIN rows, s # r  PROVE Progress(s)'
  <2>1. active # -s
    BY <1>1, RowsAre DEF CursorInv, CursorTypeOK
  <2> QED  BY <1>1, <1>7, <1>12, <2>1, OtherRows, SMTT(30)
<1> QED  BY <1>7, <1>9, <1>10, <1>11, <1>12, Zenon DEF CursorInv

LEMMA CloseImplicitKeeps ==
  ASSUME CursorInv, NEW r \in DOMAIN rows, CloseImplicit(r)
  PROVE  CursorInv'
<1>1. active = 0 /\ active' = -r /\ UNCHANGED <<made, cur, reg, queue, opened, given>>
  BY Zenon DEF CloseImplicit
<1>2. rows[r] \in RowsState /\ ObjectsOK /\ RowsOK /\ r \in Nat /\ r > 0
  BY RowsAre, Zenon DEF CursorInv, CursorTypeOK
<1>4. PICK p : p = [rows[r] EXCEPT !.closed = TRUE]
  BY Zenon
<1>5. /\ p \in RowsState /\ p.sets = rows[r].sets /\ p.on = rows[r].on
      /\ p.next = rows[r].next /\ p.closeErr = rows[r].closeErr
  BY <1>2, <1>4, RowsClosedIs, Zenon
<1>6. RowsAt(r, p) /\ active' \in Int
  BY <1>1, <1>2, <1>4 DEF CloseImplicit, RowsAt
<1>7. /\ RowsOK' /\ SameSets /\ DOMAIN rows' = DOMAIN rows /\ rows'[r] = p
      /\ \A s \in DOMAIN rows : s # r => rows'[s] = rows[s]
  BY <1>2, <1>5, <1>6, RowsChanged, Zenon
<1>8. ObjectsOK' /\ OldNumbers /\ \A k \in 1..made : SameShape(k)
  BY <1>1, <1>2, Zenon DEF ObjectsOK, OldNumbers, SameNumber, SameShape
<1>9. CursorTypeOK' /\ Numbers' /\ Owned'
  BY <1>1, <1>7, <1>8, CallKeeps, Zenon
<1>10. Frames'
  <2>1. active' <= 0 /\ active' \in Int /\ -active' \in DOMAIN rows'
    BY <1>1, <1>2, <1>7
  <2> QED  BY <1>1, <2>1, RowsFrames
<1>11. Progress(r)'
  <2>1. Walks(r)'
    BY <1>1, Zenon DEF Walks
  <2> QED  BY <1>1, <1>5, <1>7, <1>8, <2>1, ProgressKept, Zenon
<1>12. ASSUME NEW s \in DOMAIN rows, s # r  PROVE Progress(s)'
  <2>1. active # -s
    BY <1>1, RowsAre DEF CursorInv, CursorTypeOK
  <2> QED  BY <1>1, <1>7, <1>12, <2>1, OtherRows, SMTT(30)
<1> QED  BY <1>7, <1>9, <1>10, <1>11, <1>12, Zenon DEF CursorInv

LEMMA ImplicitClosedKeeps ==
  ASSUME CursorInv, NEW r \in DOMAIN rows, ImplicitClosed(r)
  PROVE  CursorInv'
<1>1. /\ active = -r /\ active' = 0 /\ rows[r].next = Len(rows[r].sets)
      /\ UNCHANGED <<made, cur, reg, queue, opened, rows, given>>
  BY Zenon DEF ImplicitClosed, ClosedSets
<1>2. ObjectsOK /\ RowsOK /\ r \in Nat /\ r > 0 /\ active <= 0
  BY <1>1, RowsAre DEF CursorInv, CursorTypeOK
<1>3. ObjectsOK' /\ RowsOK' /\ SameSets /\ OldNumbers /\ \A k \in 1..made : SameShape(k)
  BY <1>1, <1>2 DEF ObjectsOK, RowsOK, SameSets, OldNumbers, SameNumber, SameShape
<1>4. CursorTypeOK' /\ Numbers' /\ Owned'
  BY <1>1, <1>3, CallKeeps, Zenon
<1>5. Frames'
  BY <1>1, <1>2, RowsFrames
<1>6. Progress(r)'
  BY <1>1, <1>3, ProgressKept, Zenon
<1>7. ASSUME NEW s \in DOMAIN rows, s # r  PROVE Progress(s)'
  <2>1. active # -s
    BY <1>1, <1>2, <1>7, RowsAre
  <2> QED  BY <1>1, <1>2, <1>7, <2>1, OtherRows, ZenonT(30)
<1> QED  BY <1>1, <1>4, <1>5, <1>6, <1>7, Zenon DEF CursorInv

LEMMA CloseSetKeeps ==
  ASSUME CursorInv, NEW r \in DOMAIN rows, CloseSet(r)
  PROVE  CursorInv'
<1>1. active = -r /\ rows[r].next < Len(rows[r].sets) /\ UNCHANGED <<made, reg, queue, opened, given>>
  BY ZenonT(30) DEF CloseSet, ClosedSets
<1>2. /\ rows[r] \in RowsState /\ ObjectsOK /\ RowsOK /\ r \in Nat /\ r > 0 /\ active <= 0
      /\ rows[r].next \in Nat /\ rows[r].closeErr \in BOOLEAN
      /\ Len(rows[r].sets) \in Nat /\ DOMAIN rows[r].sets = 1..Len(rows[r].sets)
  BY <1>1, RowsAre DEF CursorInv, CursorTypeOK
<1>r. rows[r] \in RowsState
  BY <1>2, Zenon
<1>3. PICK x \in Nat : x = rows[r].next + 1
  BY <1>2
<1>4. x \in DOMAIN rows[r].sets /\ x <= Len(rows[r].sets)
  BY <1>1, <1>2, <1>3
<1>5. PICK k \in 1..made : k = rows[r].sets[x]
  BY <1>4, Zenon DEF CursorInv, Owned, ResultSet
<1>6. \/ /\ cur[k].closed
         /\ rows' = [rows EXCEPT ![r].next = @ + 1, ![r].closeErr = @ \/ cur[k].closeErr]
         /\ UNCHANGED <<cur, active>>
      \/ /\ ~cur[k].closed
         /\ rows' = [rows EXCEPT ![r].next = @ + 1]
         /\ cur' = [cur EXCEPT ![k] = Running(@, -r)] /\ active' = k
  BY <1>3, <1>5, Zenon DEF CloseSet, ClosedSets
<1>7. \A a \in 1..made : ~cur[a].running
  BY <1>2, NoneRuns, Zenon
<1>8. Progress(r) /\ ReturnedClean(k)
  BY <1>4, <1>5, Zenon DEF CursorInv, Progress
\* What is called of the sets before x.
<1>9. ASSUME NEW j \in 1..rows[r].next, ~rows[r].closeErr
      PROVE  rows[r].sets[j] \in 1..made /\ cur[rows[r].sets[j]].cursorID = 0
  <2>1. j \in DOMAIN rows[r].sets
    BY <1>1, <1>2
  <2>2. rows[r].sets[j] \in 1..made
    BY <2>1, Zenon DEF CursorInv, Owned, ResultSet
  <2>3. Called(r, rows[r].sets[j])
    BY <1>8, <1>9, Zenon DEF Progress
  <2> QED  BY <1>7, <2>2, <2>3, Zenon DEF Called
<1>10. \A j \in 1..x : j \in 1..rows[r].next \/ j = x
  BY <1>2, <1>3
<1>11. \A s \in DOMAIN rows : s # r => active # -s
  BY <1>1, <1>2, RowsAre
<1>12. CASE /\ cur[k].closed
            /\ rows' = [rows EXCEPT ![r].next = @ + 1, ![r].closeErr = @ \/ cur[k].closeErr]
            /\ UNCHANGED <<cur, active>>
  <2>1. PICK err \in BOOLEAN : err = (rows[r].closeErr \/ cur[k].closeErr)
    BY Zenon
  <2>2. PICK p : p = SetReturned(rows[r], x, err)
    BY Zenon
  <2>3. /\ p \in RowsState /\ p.sets = rows[r].sets /\ p.on = rows[r].on /\ p.closed = rows[r].closed
        /\ p.next = x /\ p.closeErr = err
    BY <1>r, <2>2, SetReturnedIs
  <2>4. RowsAt(r, p) /\ active' \in Int
    <3>1. /\ DOMAIN rows' = DOMAIN rows /\ rows' = [s \in DOMAIN rows |-> rows'[s]]
          /\ \A s \in DOMAIN rows : s # r => rows'[s] = rows[s]
      BY <1>2, <1>12, Zenon DEF RowsOK
    <3>2. rows'[r] = p
      BY <1>2, <1>3, <1>12, <2>1, <2>2, Zenon DEF RowsOK, SetReturned
    <3>3. rows \in [DOMAIN rows -> RowsState] /\ active' \in Int
      BY <1>2, <1>12 DEF RowsOK
    <3> QED  BY <3>1, <3>2, <3>3, Zenon DEF RowsAt
  <2>5. /\ RowsOK' /\ SameSets /\ DOMAIN rows' = DOMAIN rows /\ rows'[r] = p
        /\ \A s \in DOMAIN rows : s # r => rows'[s] = rows[s]
    BY <1>2, <2>3, <2>4, RowsChanged, Zenon
  <2>6. ObjectsOK' /\ OldNumbers /\ \A a \in 1..made : SameShape(a)
    BY <1>1, <1>2, <1>12, Zenon DEF ObjectsOK, OldNumbers, SameNumber, SameShape
  <2>7. CursorTypeOK' /\ Numbers' /\ Owned'
    BY <1>1, <2>5, <2>6, CallKeeps, Zenon
  <2>8. Frames'
    <3>1. active' <= 0 /\ active' \in Int /\ -active' \in DOMAIN rows'
      BY <1>1, <1>2, <1>12, <2>5
    <3> QED  BY <1>1, <1>2, <1>12, <3>1, RowsFrames, Zenon
  <2>9. Progress(r)'
    <3>1. \A j \in DOMAIN rows[r].sets : ReturnedClean(rows[r].sets[j])'
      BY <1>8, <1>12, <2>3, <2>5 DEF Progress, ReturnedClean
    <3>2. Walks(r)'
      BY <1>1, <1>12, Zenon DEF Walks
    <3>3. ASSUME NEW j \in 1..x, ~err  PROVE Called(r, rows[r].sets[j])'
      <4>1. cur[rows[r].sets[j]].cursorID = 0
        BY <1>5, <1>7, <1>8, <1>9, <1>10, <1>12, <2>1, <3>3, ZenonT(30) DEF ReturnedClean
      <4> QED  BY <1>12, <2>3, <2>5, <4>1, Zenon DEF Called
    <3> QED  BY <1>4, <2>3, <2>5, <3>1, <3>2, <3>3, ZenonT(30) DEF Progress
  <2>10. ASSUME NEW s \in DOMAIN rows, s # r  PROVE Progress(s)'
    BY <1>1, <1>2, <1>11, <1>12, <2>5, <2>10, OtherRows, Zenon
  <2> QED  BY <2>5, <2>7, <2>8, <2>9, <2>10, Zenon DEF CursorInv
<1>13. CASE /\ ~cur[k].closed
            /\ rows' = [rows EXCEPT ![r].next = @ + 1]
            /\ cur' = [cur EXCEPT ![k] = Running(@, -r)] /\ active' = k
  <2>1. PICK p : p = NextSet(rows[r], x)
    BY Zenon
  <2>2. /\ p \in RowsState /\ p.sets = rows[r].sets /\ p.on = rows[r].on /\ p.closed = rows[r].closed
        /\ p.next = x /\ p.closeErr = rows[r].closeErr
    BY <1>r, <2>1, NextSetIs
  <2>3. RowsAt(r, p) /\ active' \in Int
    BY <1>2, <1>3, <1>13, <2>1 DEF RowsAt, NextSet
  <2>4. /\ RowsOK' /\ SameSets /\ DOMAIN rows' = DOMAIN rows /\ rows'[r] = p
        /\ \A s \in DOMAIN rows : s # r => rows'[s] = rows[s]
    BY <1>2, <2>2, <2>3, RowsChanged, Zenon
  <2>5. /\ DOMAIN cur' = 1..made /\ cur' = [a \in DOMAIN cur' |-> cur'[a]] /\ cur'[k] = Running(cur[k], -r)
        /\ \A a \in 1..made : a # k => cur'[a] = cur[a] /\ cur'[a] \in CursorState
    BY <1>2, <1>13, Zenon DEF ObjectsOK
  <2>6. CallOf(k, -r) /\ -r \in Int
    BY <1>1, <1>2, <2>5 DEF CallOf, SameNumber, SameShape
  <2>7. /\ ObjectsOK' /\ OldNumbers /\ \A a \in 1..made : SameShape(a)
        /\ cur'[k].closed /\ cur'[k].running /\ cur'[k].caller = -r
    BY <1>2, <2>6, CalledIs, Zenon
  <2>8. CursorTypeOK' /\ Numbers' /\ Owned'
    BY <1>1, <2>4, <2>7, CallKeeps, Zenon
  <2>9. Frames'
    <3>1. \A a \in 1..made' : cur'[a].running => a = k
      BY <1>1, <1>7, <2>5, ZenonT(30)
    <3>2. /\ active' = k /\ k \in 1..made' /\ k \in Nat /\ k > 0 /\ ~(k < 0) /\ -r < k /\ ~(-r > 0)
          /\ -(-r) \in DOMAIN rows'
      <4>1. made \in Nat /\ -(-r) = r /\ k \in Nat /\ k > 0
        BY <1>2 DEF ObjectsOK
      <4>2. active' = k /\ k \in 1..made' /\ -(-r) \in DOMAIN rows'
        BY <1>1, <1>13, <2>4, <4>1, ZenonT(30)
      <4> QED  BY <1>2, <4>1, <4>2
    <3>3. Frame(k)'
      BY <2>7, <3>1, <3>2 DEF Frame
    <3> QED  BY <2>7, <3>1, <3>2, <3>3, Zenon DEF Frames
  <2>10. \A a \in 1..made : /\ cur[a].running => cur'[a].running
                            /\ cur'[a].closed /\ ~cur'[a].running /\ ~cur'[a].closeErr =>
                                 cur[a].closed /\ ~cur[a].running /\ ~cur[a].closeErr
    BY <1>7, <2>5, <2>7, Zenon
  <2>11. Progress(r)'
    <3>1. ASSUME NEW j \in DOMAIN rows[r].sets  PROVE ReturnedClean(rows[r].sets[j])'
      <4>1. PICK a \in 1..made : a = rows[r].sets[j]
        BY Zenon DEF CursorInv, Owned, ResultSet
      <4>2. ReturnedClean(a)
        BY <1>8, <4>1, Zenon DEF Progress
      <4> QED  BY <2>2, <2>4, <2>7, <2>10, <4>1, <4>2, SMTT(30) DEF ReturnedClean, OldNumbers, SameNumber
    <3>2. Walks(r)'
      BY <1>1, <2>7, Zenon DEF Walks
    <3>3. ASSUME NEW j \in 1..x, ~rows[r].closeErr  PROVE Called(r, rows[r].sets[j])'
      <4>1. CASE j = x
        BY <1>5, <2>2, <2>4, <2>7, <4>1, ZenonT(30) DEF Called
      <4>2. CASE j \in 1..rows[r].next
        BY <1>9, <2>2, <2>4, <2>7, <3>3, <4>2, SMTT(30) DEF Called, OldNumbers, SameNumber
      <4> QED  BY <1>10, <4>1, <4>2, Zenon
    <3> QED  BY <1>4, <2>2, <2>4, <3>1, <3>2, <3>3, ZenonT(30) DEF Progress
  <2>12. ASSUME NEW s \in DOMAIN rows, s # r  PROVE Progress(s)'
    <3>1. ~Walks(s) /\ rows'[s] = rows[s]
      BY <1>2, <1>11, <2>4, <2>12, NoneWalks, Zenon
    <3>2. \A a \in 1..made : cur[a].running /\ cur[a].caller = -s => cur'[a].running /\ cur'[a].caller = -s
      BY <1>7, Zenon
    <3> QED  BY <1>1, <2>7, <2>10, <3>1, <3>2, ProgressKept, ZenonT(30)
  <2> QED  BY <2>4, <2>8, <2>9, <2>11, <2>12, Zenon DEF CursorInv
<1> QED  BY <1>6, <1>12, <1>13, Zenon

-----------------------------------------------------------------------------

LEMMA CursorInitInv == CursorInit => CursorInv
<1> SUFFICES ASSUME CursorInit  PROVE CursorInv
  BY Zenon
<1>1. /\ made = 0 /\ cur = <<>> /\ rows = <<>> /\ given = {} /\ active = 0
      /\ reg = [c \in Conns |-> {}] /\ queue = [c \in Conns |-> <<>>]
      /\ opened = [c \in Conns |-> [i \in Ids |-> 0]]
  BY Zenon DEF CursorInit
<1>2. ObjectsOK /\ RowsOK /\ GivenOK
  BY <1>1 DEF ObjectsOK, RowsOK, GivenOK
<1>3. ServerOK
  <2>1. \A S : <<>> \in Seq(S)
    OBVIOUS
  <2>2. reg \in [Conns -> SUBSET (1..made)] /\ opened \in [Conns -> [Ids -> 0..made]]
    BY <1>1
  <2>3. queue \in [Conns -> Seq([id : Ids, of : Nat])]
    BY <1>1, <2>1, Zenon
  <2> QED  BY <2>2, <2>3, Zenon DEF ServerOK
<1>4. DOMAIN rows = {} /\ 1..made = {} /\ \A c \in Conns : reg[c] = {} /\ DOMAIN queue[c] = {}
  BY <1>1
<1>5. Numbers
  BY <1>1, <1>4, ZenonT(30) DEF Numbers, Registered, Closes
<1>6. Owned /\ Frames
  BY <1>1, <1>4, SMTT(30) DEF Owned, Frames
<1> QED  BY <1>2, <1>3, <1>4, <1>5, <1>6, Zenon DEF CursorInv, CursorTypeOK

LEMMA CursorNextInv == CursorInv /\ [CursorNext]_cursorVars => CursorInv'
<1> SUFFICES ASSUME CursorInv, [CursorNext]_cursorVars  PROVE CursorInv'
  BY Zenon
<1>1. ASSUME NEW c \in Conns, ReturnCursor(c)  PROVE CursorInv'
  BY <1>1, ReturnCursorKeeps, Zenon
<1>2. ASSUME NEW c \in Conns, NEW k \in given, GetRowsFails(c, k)  PROVE CursorInv'
  BY <1>2, GetRowsFailsKeeps, Zenon
<1>3. ASSUME NEW c \in Conns, NEW k \in given, NEW n \in 0..MaxNested, GetRows(c, k, n)  PROVE CursorInv'
  <2>1. n \in Nat
    BY CursorBounds
  <2> QED  BY <1>3, <2>1, GetRowsKeeps, Zenon
<1>4. ASSUME NEW c \in Conns, NEW n \in 1..MaxSets, NEW m \in 0..MaxNested,
             QueryPrefetched(c, n, m) \/ QueryFetched(c, n, m)
      PROVE  CursorInv'
  <2>1. n \in Nat /\ m \in Nat /\ n > 0 /\ n \in 0..(n + m) /\ n + m \in 0..(n + m)
    BY CursorBounds
  <2>2. CASE QueryPrefetched(c, n, m)
    BY <2>1, <2>2, ResultsKeep, Zenon DEF QueryPrefetched
  <2>3. CASE QueryFetched(c, n, m)
    BY <2>1, <2>3, ResultsKeep, Zenon DEF QueryFetched
  <2> QED  BY <1>4, <2>2, <2>3, Zenon
<1>5. ASSUME NEW c \in Conns, NEW n \in 1..MaxSets, ResultsDropped(c, n)  PROVE CursorInv'
  <2>1. n \in Nat /\ 0 \in Nat /\ n > 0 /\ n \in 0..(n + 0)
    BY CursorBounds
  <2> QED  BY <1>5, <2>1, ResultsKeep, Zenon DEF ResultsDropped
<1>6. ASSUME NEW c \in Conns, OtherCall(c)  PROVE CursorInv'
  BY <1>6, OtherCallKeeps, Zenon
<1>7. ASSUME NEW k \in 1..made, CloseCursor(k) \/ CloseNested(k) \/ Close(k)  PROVE CursorInv'
  BY <1>7, CloseCursorKeeps, CloseNestedKeeps, CloseKeeps, Zenon
<1>8. ASSUME NEW r \in DOMAIN rows, NextResultSet(r) \/ CloseImplicit(r) \/ CloseSet(r) \/ ImplicitClosed(r)
      PROVE  CursorInv'
  BY <1>8, NextResultSetKeeps, CloseImplicitKeeps, CloseSetKeeps, ImplicitClosedKeeps, Zenon
<1>9. CASE UNCHANGED cursorVars
  <2>1. UNCHANGED <<made, cur, reg, queue, opened, rows, given, active>>
    BY <1>9, Zenon DEF cursorVars
  <2>2. CursorTypeOK'
    BY <2>1, Zenon DEF CursorInv, CursorTypeOK, ObjectsOK, RowsOK, ServerOK, GivenOK
  <2>3. Numbers'
    BY <2>1, NumbersKept, Zenon DEF CursorInv
  <2>4. Owned' /\ Frames'
    BY <2>1, ZenonT(30) DEF CursorInv, Owned, Children, ResultSet, Frames, Frame
  <2>5. \A r \in DOMAIN rows' : Progress(r)'
    BY <2>1, ZenonT(30) DEF CursorInv, Progress, ReturnedClean, Called, Walks
  <2> QED  BY <2>2, <2>3, <2>4, <2>5, Zenon DEF CursorInv
<1>10. CASE CursorNext
  BY <1>1, <1>2, <1>3, <1>4, <1>5, <1>6, <1>7, <1>8, <1>10, Zenon DEF CursorNext
<1> QED  BY <1>9, <1>10, Zenon

\* What the calls of Close and of the server keep: who has which number, which
\* object owns which cursors, and where every running Close is (the recursion of
\* ttcRowsRefCursor.Close and ttcRowsRefCursorImplicitFetch.Close).
THEOREM CursorInvariant == CursorSpec => []CursorInv
<1> QED  BY CursorInitInv, CursorNextInv, PTL DEF CursorSpec

\* A cursor that the shelf of a connection lets the application fetch is open at
\* the server of that connection under the number its executor sends, and none
\* of its closes is queued (hasRefCursor, removeRefCursor, closeServerCursor), for
\* any number of connections, cursors and nested cursors.
THEOREM RegisteredIsOpenAlways == CursorSpec => []RegisteredIsOpen
<1>1. CursorInv => RegisteredIsOpen
  BY NumbersRegistered, Zenon DEF CursorInv
<1> QED  BY <1>1, CursorInvariant, PTL

\* When Close of the rows of implicit results has returned no error, every cursor
\* of them is released (ttcRowsRefCursorImplicitFetch.Close), whatever was closed
\* before by the application.
THEOREM ImplicitReleasedAlways == CursorSpec => []ImplicitReleased
<1> QED  BY InvReleased, CursorInvariant, PTL

-----------------------------------------------------------------------------
(* The cancellation of a statement. *)

\* How far the after-function is, given where the calling goroutine is, and
\* what the two channels hold meanwhile.
Handshake ==
  /\ exec = "idle" => after \in {"stopped", "finished"}
  /\ exec \in {"send", "pull", "cleanup"} =>
       IF startOnce THEN after \in {"closing", "finished"}
                    ELSE after \in {"armed", "started", "waiting"}
  /\ exec = "await" =>
       /\ startOnce
       /\ after \in {"armed", "started", "waiting", "breaking", "broke", "closing", "finished"}
       /\ after \in {"armed", "started", "waiting"} => start = "true"
       /\ after \in {"closing", "finished"} <=> completed = "result"
  /\ exec = "pullOer" => startOnce /\ after \in {"closing", "finished"}
  /\ exec = "join" => startOnce /\ after \in {"started", "waiting", "closing", "finished"}
  /\ start = "true" => exec = "await" /\ after \in {"armed", "started", "waiting"}
  /\ start = "false" => exec = "join"
  /\ exec = "join" /\ after \in {"started", "waiting"} => start = "false"
  /\ exec = "join" /\ after \in {"closing", "finished"} => start = "empty"
  /\ exec # "await" => completed = "empty"
  /\ done <=> after = "finished"

\* The timeout context lives between the after-function's start and its release.
Timer ==
  /\ after \in {"armed", "stopped", "started"} => brkCtx = "none"
  /\ exec \in {"idle", "send", "pull", "cleanup", "join"} /\ after \in {"closing", "finished"}
       => brkCtx = "released"

\* What break/reset leaves on the stream until its OER is read.
Settled ==
  /\ exec # "idle" => execution \in Executions
  /\ exec = "await" /\ after \in {"broke", "closing", "finished"} /\ connValid => wire = <<execution>>
  /\ exec = "pullOer" /\ connValid => wire = <<execution>>
  /\ handled => exec \in {"idle", "send", "cleanup", "join"} /\ wire = <<>> /\ connValid

IInv == TypeOK /\ Handshake /\ Timer /\ Settled

\* The stream starts empty, and requests are appended under a call's number.
LEMMA EmptyWire == <<>> \in Seq(Executions)
  OBVIOUS

LEMMA AppendWire ==
  ASSUME wire \in Seq(Executions), execution \in Executions
  PROVE  Append(wire, execution) \in Seq(Executions)
  OBVIOUS

\* TypeOK in three parts, each within the reach of one backend call.
TypeControl ==
  /\ exec \in {"idle", "send", "pull", "await", "pullOer", "cleanup", "join"}
  /\ execution \in 0..MaxExecutions /\ round \in Nat
  /\ after \in {"armed", "stopped", "started", "waiting", "breaking", "broke",
               "closing", "finished"}
  /\ trans \in {"none", "armed", "stopped", "started"}
  /\ subCtx \in {"live", "done", "custom"}
  /\ start \in {"empty", "true", "false"}
  /\ completed \in {"empty", "result"}
  /\ brkCtx \in {"none", "live", "expired", "released"}

TypeFlags ==
  /\ startOnce \in BOOLEAN /\ done \in BOOLEAN
  /\ connValid \in BOOLEAN /\ alive \in BOOLEAN /\ handled \in BOOLEAN

LEMMA InitIInv == CancelInit => IInv
<1> SUFFICES ASSUME CancelInit PROVE IInv
  BY Zenon
<1> USE CancelBounds, EmptyWire DEF CancelInit
<1>1. TypeOK
  <2>1. TypeControl
    BY DEF TypeControl
  <2>2. TypeFlags
    BY Zenon DEF TypeFlags
  <2> QED
    BY <2>1, <2>2, Zenon DEF TypeOK, TypeControl, TypeFlags
<1>2. Handshake /\ Timer /\ Settled
  BY ZenonT(30) DEF Handshake, Timer, Settled
<1> QED
  BY <1>1, <1>2, Zenon DEF IInv

LEMMA NextIInv == IInv /\ [CancelNext]_cancelVars => IInv'
<1> SUFFICES ASSUME IInv, [CancelNext]_cancelVars PROVE IInv'
  BY Zenon
<1> USE CancelBounds DEF IInv, TypeOK, Handshake, Timer, Settled, Executions, stateVars, connVars
<1>1. CASE \E inTransaction \in BOOLEAN : Begin(inTransaction)
  <2> PICK inTransaction \in BOOLEAN : Begin(inTransaction)
    BY <1>1, ZenonT(30)
  <2>1. wire' \in Seq(Executions) /\ execution' \in Executions
    BY SMTT(30) DEF Begin
  <2>2. TypeControl'
    BY <2>1 DEF Begin, TypeControl
  <2>3. TypeFlags'
    BY <2>1, Zenon DEF Begin, TypeFlags
  <2>4. TypeOK'
    BY <2>1, <2>2, <2>3, Zenon DEF TypeOK, TypeControl, TypeFlags
  <2>5. (Handshake /\ Timer)'
    BY <2>1, Zenon DEF Begin
  <2>6. Settled'
    BY <2>1, Zenon DEF Begin
  <2> QED
    BY <2>4, <2>5, <2>6, Zenon
<1>2. CASE SendRequest
  <2>1. wire' \in Seq(Executions)
    BY <1>2, AppendWire, Zenon DEF SendRequest
  <2>2. TypeControl'
    BY <1>2, Zenon DEF SendRequest, TypeControl
  <2>3. TypeFlags'
    BY <1>2, Zenon DEF SendRequest, TypeFlags
  <2>4. TypeOK'
    BY <2>1, <2>2, <2>3, Zenon DEF TypeOK, TypeControl, TypeFlags
  <2>5. (Handshake /\ Timer)'
    BY <1>2, Zenon DEF SendRequest
  <2>6. Settled'
    BY <1>2, Zenon DEF SendRequest
  <2> QED
    BY <2>4, <2>5, <2>6, Zenon
<1>3. CASE SendFails
  <2>1. wire' \in Seq(Executions)
    BY <1>3, AppendWire, Zenon DEF SendFails
  <2>2. TypeControl'
    BY <1>3, ZenonT(30) DEF SendFails, TypeControl
  <2>3. TypeFlags'
    BY <1>3, Zenon DEF SendFails, TypeFlags
  <2>4. TypeOK'
    BY <2>1, <2>2, <2>3, Zenon DEF TypeOK, TypeControl, TypeFlags
  <2>5. (Handshake /\ Timer)'
    BY <1>3, Zenon DEF SendFails
  <2>6. Settled'
    BY <1>3, ZenonT(30) DEF SendFails
  <2> QED
    BY <2>4, <2>5, <2>6, Zenon
<1>4. CASE PullResponse
  BY <1>4 DEF PullResponse
<1>5. CASE PullFails
  <2>1. wire' \in Seq(Executions)
    BY <1>5, EmptyWire, Zenon DEF PullFails
  <2>2. TypeControl'
    BY <1>5, ZenonT(30) DEF PullFails, TypeControl
  <2>3. TypeFlags'
    BY <1>5, Zenon DEF PullFails, TypeFlags
  <2>4. TypeOK'
    BY <2>1, <2>2, <2>3, Zenon DEF TypeOK, TypeControl, TypeFlags
  <2>5. (Handshake /\ Timer)'
    BY <1>5, Zenon DEF PullFails
  <2>6. Settled'
    BY <1>5, ZenonT(30) DEF PullFails
  <2> QED
    BY <2>4, <2>5, <2>6, Zenon
<1>6. CASE PullCustomCause
  BY <1>6 DEF PullCustomCause
<1>7. CASE PullCancelled
  BY <1>7, ZenonT(60) DEF PullCancelled
<1>8. CASE Completed
  BY <1>8 DEF Completed
<1>9. CASE PullOer
  BY <1>9, SMTT(30) DEF PullOer
<1>10. CASE PullOerFails
  BY <1>10 DEF PullOerFails
<1>11. CASE Cleanup
  BY <1>11, ZenonT(60) DEF Cleanup
<1>12. CASE Join
  BY <1>12, Zenon DEF Join
<1>13. CASE CancelParent
  BY <1>13, SMTT(30) DEF CancelParent
<1>14. CASE CancelTransaction
  BY <1>14, SMTT(30) DEF CancelTransaction
<1>15. CASE CancelSubContext
  BY <1>15, SMTT(30) DEF CancelSubContext
<1>16. CASE FireAfterFunc
  BY <1>16, SMTT(30) DEF FireAfterFunc
<1>17. CASE BreakTimeout
  BY <1>17, SMTT(30) DEF BreakTimeout
<1>18. CASE AfterStarted
  BY <1>18 DEF AfterStarted
<1>19. CASE ReceiveStart
  BY <1>19, ZenonT(60) DEF ReceiveStart
<1>20. CASE BreakResetSucceeds
  BY <1>20 DEF BreakResetSucceeds
<1>21. CASE BreakResetFails
  BY <1>21, ZenonT(30) DEF BreakResetFails
<1>22. CASE SendCompleted
  BY <1>22 DEF SendCompleted
<1>23. CASE CloseDone
  BY <1>23, SMTT(30) DEF CloseDone
<1>24. CASE UNCHANGED cancelVars
  BY <1>24, SMTT(30) DEF cancelVars
<1> QED
  BY <1>1, <1>2, <1>3, <1>4, <1>5, <1>6, <1>7, <1>8, <1>9, <1>10, <1>11, <1>12, <1>13, <1>14, <1>15, <1>16, <1>17, <1>18, <1>19, <1>20, <1>21, <1>22, <1>23, <1>24, ZenonT(30) DEF CancelNext, Exec, Contexts, AfterFunc

THEOREM IInvHolds == CancelSpec => []IInv
  BY InitIInv, NextIInv, PTL DEF CancelSpec

\* Type correctness of the cancellation state, for any number of executions:
\* in particular no send on start or completed ever finds its channel full.
THEOREM TypeCorrect == CancelSpec => []TypeOK
<1>1. IInv => TypeOK
  BY Zenon DEF IInv
<1> QED
  BY <1>1, IInvHolds, PTL

\* The network session is never used by the calling goroutine while the
\* after-function runs break/reset on it (statement.go:390).
THEOREM SessionIsExclusive == CancelSpec => []SessionExclusive
<1>1. IInv => SessionExclusive
  BY Zenon DEF IInv, TypeOK, Handshake, SessionExclusive
<1> QED
  BY <1>1, IInvHolds, PTL

\* No after-function outlives its call (cleanup, statement.go:399-407).
THEOREM CallbackJoined == CancelSpec => []NoCallbackAfterReturn
<1>1. IInv => NoCallbackAfterReturn
  BY Zenon DEF IInv, Handshake, NoCallbackAfterReturn
<1> QED
  BY <1>1, IInvHolds, PTL

\* The break/reset timeout context is released on every path back to the caller.
THEOREM TimerIsReleased == CancelSpec => []TimerReleased
<1>1. IInv => TimerReleased
  BY Zenon DEF IInv, Handshake, Timer, TimerReleased
<1> QED
  BY <1>1, IInvHolds, PTL

\* A round trip ended by break/reset and its OER leaves nothing on the stream,
\* whatever earlier executions abandoned there.
THEOREM CancelledRoundIsSettled == CancelSpec => []CancelledRoundSettles
<1>1. IInv => CancelledRoundSettles
  BY Zenon DEF IInv, Settled, CancelledRoundSettles
<1> QED
  BY <1>1, IInvHolds, PTL
=============================================================================
