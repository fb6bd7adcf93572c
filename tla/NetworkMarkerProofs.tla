------------------------- MODULE NetworkMarkerProofs -------------------------
(***************************************************************************)
(* Proofs about NetworkSession for every number of calls, control packets  *)
(* and data packets: the types, what a step does to a stream of packets,   *)
(* and the invariant Markers: where the markers of a break/reset exchange  *)
(* can be, by what isBreak and the goroutine in Reset know of them.        *)
(***************************************************************************)
EXTENDS NetworkSession, TLAPS

PacketTypes == {"data", "notification", "error", "break", "reset", "torn"}
Packet == [t : PacketTypes, call : 0 .. MaxCalls, last : BOOLEAN]
Sent == [t : {"data", "interrupt", "reset", "torn"}, calls : Seq(Calls)]

StreamOK == pending \in Seq(Packet) /\ Len(pending) <= 1 /\ s2c \in Seq(Packet)

OutOK ==
  /\ snd \in Seq(Calls) /\ c2s \in Seq(Sent)
  /\ pc = "flush" => snd # <<>>
  /\ \A i \in DOMAIN c2s : c2s[i].t = "data" => c2s[i].calls # <<>>

ServerOK ==
  /\ srv \in {"idle", "exec", "break", "closed"} /\ work \in Seq(Calls) /\ last \in 0 .. MaxCalls
  /\ execs \in [Calls -> Nat]
  /\ srv = "exec" => work # <<>>

TypeOK ==
  /\ pc \in {"idle", "flush", "read", "fill", "nodata", "cancel", "sendReset", "reset"}
  /\ call \in 0 .. MaxCalls
  /\ StreamOK /\ OutOK /\ ServerOK

-----------------------------------------------------------------------------
(* Streams of packets. *)

Only(s, T) == \A i \in DOMAIN s : s[i].t \in T
Without(s, t) == \A i \in DOMAIN s : s[i].t # t
Once(s, t) == \A i, j \in DOMAIN s : s[i].t = t /\ s[j].t = t => i = j
LastOnly(s, t) == \A i \in DOMAIN s : s[i].t = t => i = Len(s)

\* Control packets and what is left of a torn one: no part of an answer.
Noise == {"notification", "error", "torn"}

\* A packet before the end of the answer to call k.
Passing(p, k) == p.t \in Noise \/ (p.t = "data" /\ p.call = k /\ ~p.last)
Flowing(s, k) == \A i \in DOMAIN s : Passing(s[i], k)

\* The answer to call k up to x, and nothing behind it.
EndsWith(s, k, x) ==
  \E p \in DOMAIN s : /\ s[p] = x
                      /\ \A i \in 1 .. (p - 1) : Passing(s[i], k)
                      /\ \A i \in (p + 1) .. Len(s) : s[i].t \in Noise

\* The answer to a reset marker, behind packets of the types T.
ResetAnswer(s, k, T) ==
  \E p \in DOMAIN s : /\ s[p] = Pkt("reset") /\ p < Len(s) /\ s[p + 1] = Data(k, TRUE)
                      /\ \A i \in 1 .. (p - 1) : s[i].t \in T
                      /\ \A i \in (p + 2) .. Len(s) : s[i].t \in Noise

-----------------------------------------------------------------------------
(* The markers. *)

NotReset == PacketTypes \ {"reset"}

\* CancelOperation is in Reset.
CancelPhase == resume = "cancel" /\ pc \in {"sendReset", "reset"}

\* Outside the break state there are no markers but one break marker of a
\* server that waits for the reset.
NoBreak ==
  /\ ~isReset /\ pc \notin {"sendReset", "reset"}
  /\ Without(c2s, "interrupt") /\ Without(c2s, "reset")
  /\ Without(s2c, "reset") /\ Without(pending, "reset")
  /\ Once(s2c, "break")
  /\ Without(pending, "break") \/ Without(s2c, "break")
  /\ (Without(pending, "break") /\ Without(s2c, "break")) \/ srv \in {"break", "closed"}

\* In the break state that the server began, the server waits for the reset
\* marker, which is sent at most once, or has answered it.
ServerBreak ==
  /\ Without(s2c, "break") /\ Without(pending, "break")
  /\ Without(c2s, "interrupt") /\ LastOnly(c2s, "reset")
  /\ srv \in {"break", "closed"} \/ (srv = "idle" /\ c2s = <<>>)
  /\ (Without(s2c, "reset") /\ Without(pending, "reset")) \/ c2s = <<>>
  /\ Once(s2c, "reset")
  /\ Without(s2c, "reset") \/ Without(pending, "reset")
  /\ pc = "sendReset" => Without(c2s, "reset") /\ Without(s2c, "reset") /\ srv \in {"break", "closed"}

\* In the break state of CancelOperation the reset marker is the last packet
\* sent; once it was answered the server has nothing left to do.
ClientBreak ==
  /\ isBreak
  /\ Without(s2c, "reset") \/ pc = "reset"
  /\ pc = "sendReset" => Without(c2s, "reset")
  /\ pc = "reset" =>
       \/ LastOnly(c2s, "reset") /\ Without(s2c, "reset")
       \/ c2s = <<>> /\ srv = "idle" /\ ResetAnswer(s2c, last, NotReset)

Markers ==
  /\ pc \in {"cancel", "sendReset", "reset"} => pending = <<>>
  /\ pc \in {"flush", "cancel"} => ~isBreak
  /\ ~isValid => pc = "idle" \/ (dirty /\ cancelling /\ ~CancelPhase /\ pc \notin {"cancel", "flush"})
  /\ isValid /\ ~isBreak => NoBreak
  /\ isValid /\ isBreak /\ ~CancelPhase => ServerBreak
  /\ isValid /\ CancelPhase => ClientBreak

-----------------------------------------------------------------------------
(* What the steps do to a stream. *)

LEMMA Elements ==
  ASSUME NEW S, NEW s \in Seq(S)
  PROVE  /\ Len(s) \in Nat /\ DOMAIN s = 1 .. Len(s) /\ \A i \in 1 .. Len(s) : s[i] \in S
         /\ s = <<>> <=> Len(s) = 0
OBVIOUS

LEMMA Appended ==
  ASSUME NEW S, NEW s \in Seq(S), NEW x \in S
  PROVE  /\ Append(s, x) \in Seq(S) /\ Len(Append(s, x)) = Len(s) + 1 /\ Append(s, x) # <<>>
         /\ \A i \in 1 .. Len(s) : Append(s, x)[i] = s[i]
         /\ Append(s, x)[Len(s) + 1] = x
BY Elements

LEMMA Tailed ==
  ASSUME NEW S, NEW s \in Seq(S), s # <<>>
  PROVE  /\ Tail(s) \in Seq(S) /\ Len(Tail(s)) = Len(s) - 1 /\ Head(s) = s[1] /\ Head(s) \in S
         /\ \A i \in 1 .. (Len(s) - 1) : Tail(s)[i] = s[i + 1]
BY Elements

LEMMA AtMostOne ==
  ASSUME NEW S, NEW s \in Seq(S), Len(s) <= 1, s # <<>>
  PROVE  s = <<s[1]>> /\ s[1] \in S
<1>1. Len(s) \in Nat /\ Len(s) # 0
  BY Elements, Zenon
<1>2. Len(s) = 1
  BY <1>1, SMTT(30)
<1>3. 1 \in 1 .. Len(s) /\ \A i \in 1 .. Len(s) : s[i] \in S
  BY <1>2, Elements
<1> QED  BY <1>2, <1>3

LEMMA TailLeft ==
  ASSUME NEW S, NEW s \in Seq(S), Len(s) > 1
  PROVE  Tail(s) \in Seq(S) /\ Tail(s) # <<>>
<1>1. Len(s) \in Nat /\ s # <<>>
  BY Elements
<1>2. Tail(s) \in Seq(S) /\ Len(Tail(s)) = Len(s) - 1
  BY <1>1, Tailed, Zenon
<1>3. Len(Tail(s)) # 0
  BY <1>1, <1>2
<1>4. Tail(s) = <<>> <=> Len(Tail(s)) = 0
  BY <1>2, Elements, Zenon
<1> QED  BY <1>2, <1>3, <1>4, Zenon

LEMMA CountedUp ==
  ASSUME NEW S, NEW g \in [S -> Nat], NEW x \in S
  PROVE  /\ [g EXCEPT ![x] = @ + 1] \in [S -> Nat]
         /\ \A y \in S : [g EXCEPT ![x] = @ + 1][y] = IF y = x THEN g[y] + 1 ELSE g[y]
OBVIOUS

LEMMA Joined2 ==
  ASSUME NEW S, NEW s \in Seq(S), NEW x \in S, NEW y \in S
  PROVE  /\ s \o <<x, y>> \in Seq(S) /\ Len(s \o <<x, y>>) = Len(s) + 2
         /\ \A i \in 1 .. Len(s) : (s \o <<x, y>>)[i] = s[i]
         /\ (s \o <<x, y>>)[Len(s) + 1] = x /\ (s \o <<x, y>>)[Len(s) + 2] = y
<1>1. <<x, y>> \in Seq(S) /\ Len(<<x, y>>) = 2 /\ <<x, y>>[1] = x /\ <<x, y>>[2] = y
  OBVIOUS
<1>2. Len(s) \in Nat
  BY Elements, Zenon
<1> QED  BY <1>1, <1>2

\* A torn packet in place of the first one.
LEMMA Replaced ==
  ASSUME NEW S, NEW s \in Seq(S), s # <<>>, NEW x \in S
  PROVE  /\ <<x>> \o Tail(s) \in Seq(S) /\ Len(<<x>> \o Tail(s)) = Len(s)
         /\ (<<x>> \o Tail(s))[1] = x
         /\ \A i \in 2 .. Len(s) : (<<x>> \o Tail(s))[i] = s[i]
<1>1. <<x>> \in Seq(S) /\ Len(<<x>>) = 1 /\ <<x>>[1] = x
  OBVIOUS
<1> QED  BY <1>1, Elements, Tailed

LEMMA EmptyStream ==
  ASSUME NEW T, NEW t
  PROVE  Only(<<>>, T) /\ Without(<<>>, t) /\ Once(<<>>, t) /\ LastOnly(<<>>, t)
BY DEF Only, Without, Once, LastOnly

LEMMA StreamAppend ==
  ASSUME NEW S, NEW s \in Seq(S), NEW x \in S, NEW T, NEW t
  PROVE  /\ Only(s, T) /\ x.t \in T => Only(Append(s, x), T)
         /\ Without(s, t) /\ x.t # t => Without(Append(s, x), t)
         /\ Once(s, t) /\ (x.t # t \/ Without(s, t)) => Once(Append(s, x), t)
         /\ Without(s, t) => LastOnly(Append(s, x), t)
<1> DEFINE r == Append(s, x)
<1>1. Len(s) \in Nat /\ DOMAIN s = 1 .. Len(s)
  BY Elements, Zenon
<1>2. /\ DOMAIN r = 1 .. (Len(s) + 1) /\ r[Len(s) + 1] = x /\ Len(r) = Len(s) + 1
      /\ \A i \in 1 .. Len(s) : r[i] = s[i]
  BY Appended, Elements
<1> HIDE DEF r
<1>3. Only(s, T) /\ x.t \in T => Only(r, T)
  BY <1>1, <1>2 DEF Only
<1>4. Without(s, t) /\ x.t # t => Without(r, t)
  BY <1>1, <1>2 DEF Without
<1>5. Once(s, t) /\ (x.t # t \/ Without(s, t)) => Once(r, t)
  BY <1>1, <1>2 DEF Once, Without
<1>6. Without(s, t) => LastOnly(r, t)
  BY <1>1, <1>2 DEF LastOnly, Without
<1> QED  BY <1>3, <1>4, <1>5, <1>6, Zenon DEF r

LEMMA StreamTail ==
  ASSUME NEW S, NEW s \in Seq(S), s # <<>>, NEW T, NEW t
  PROVE  /\ Only(s, T) => Head(s).t \in T /\ Only(Tail(s), T)
         /\ Without(s, t) => Head(s).t # t /\ Without(Tail(s), t)
         /\ Once(s, t) => Once(Tail(s), t) /\ (Head(s).t = t => Without(Tail(s), t))
         /\ LastOnly(s, t) => LastOnly(Tail(s), t) /\ (Head(s).t = t => Tail(s) = <<>>)
<1> DEFINE r == Tail(s)
<1>1. Len(s) \in Nat /\ DOMAIN s = 1 .. Len(s) /\ Len(s) # 0 /\ Head(s) = s[1]
  BY Elements, Tailed
<1>2. /\ r \in Seq(S) /\ DOMAIN r = 1 .. (Len(s) - 1) /\ Len(r) = Len(s) - 1
      /\ \A i \in 1 .. (Len(s) - 1) : r[i] = s[i + 1]
  BY Tailed, Elements, Zenon
<1>3. r = <<>> <=> Len(r) = 0
  BY <1>2, Elements, Zenon
<1> HIDE DEF r
<1>4a. 1 \in DOMAIN s /\ \A i \in DOMAIN r : i \in Nat /\ i + 1 \in DOMAIN s /\ i + 1 # 1 /\ r[i] = s[i + 1]
  BY <1>1, <1>2
<1>4. Only(s, T) => Head(s).t \in T /\ Only(r, T)
  BY <1>1, <1>4a, Zenon DEF Only
<1>5. Without(s, t) => Head(s).t # t /\ Without(r, t)
  BY <1>1, <1>4a, Zenon DEF Without
<1>6. ASSUME Once(s, t)  PROVE  Once(r, t) /\ (Head(s).t = t => Without(r, t))
  <2>1. ASSUME NEW i \in DOMAIN r, NEW j \in DOMAIN r, r[i].t = t, r[j].t = t
        PROVE  i = j
    <3>1. i + 1 = j + 1
      BY <1>6, <1>4a, <2>1, Zenon DEF Once
    <3> QED  BY <3>1, <1>4a
  <2>2. ASSUME NEW i \in DOMAIN r, r[i].t = t, Head(s).t = t  PROVE FALSE
    <3>1. i + 1 = 1
      BY <1>1, <1>6, <1>4a, <2>2, Zenon DEF Once
    <3> QED  BY <3>1, <1>4a, Zenon
  <2> QED  BY <2>1, <2>2, Zenon DEF Once, Without
<1>7. ASSUME LastOnly(s, t)  PROVE  LastOnly(r, t) /\ (Head(s).t = t => r = <<>>)
  <2>1. ASSUME NEW i \in DOMAIN r, r[i].t = t  PROVE  i = Len(r)
    <3>1. i + 1 = Len(s)
      BY <1>7, <1>4a, <2>1, Zenon DEF LastOnly
    <3> QED  BY <3>1, <1>1, <1>2, <1>4a
  <2>2. ASSUME Head(s).t = t  PROVE  r = <<>>
    <3>1. 1 = Len(s)
      BY <1>1, <1>7, <1>4a, <2>2, Zenon DEF LastOnly
    <3> QED  BY <3>1, <1>2, <1>3
  <2> QED  BY <2>1, <2>2, Zenon DEF LastOnly
<1> QED  BY <1>4, <1>5, <1>6, <1>7, Zenon DEF r

LEMMA StreamTorn ==
  ASSUME NEW S, NEW s \in Seq(S), s # <<>>, NEW x \in S, NEW T, NEW t
  PROVE  /\ Only(s, T) /\ x.t \in T => Only(<<x>> \o Tail(s), T)
         /\ Without(s, t) /\ x.t # t => Without(<<x>> \o Tail(s), t)
         /\ Once(s, t) /\ x.t # t => Once(<<x>> \o Tail(s), t)
<1> DEFINE r == <<x>> \o Tail(s)
<1>1. Len(s) \in Nat /\ DOMAIN s = 1 .. Len(s) /\ Len(s) # 0
  BY Elements, Zenon
<1>2. DOMAIN r = 1 .. Len(s) /\ r[1] = x /\ \A i \in 2 .. Len(s) : r[i] = s[i]
  BY Replaced, Elements
<1> HIDE DEF r
<1>3. Only(s, T) /\ x.t \in T => Only(r, T)
  BY <1>1, <1>2 DEF Only
<1>4. Without(s, t) /\ x.t # t => Without(r, t)
  BY <1>1, <1>2 DEF Without
<1>5. Once(s, t) /\ x.t # t => Once(r, t)
  BY <1>1, <1>2 DEF Once
<1> QED  BY <1>3, <1>4, <1>5, Zenon DEF r

LEMMA Singleton ==
  ASSUME NEW x, NEW t
  PROVE  /\ Once(<<x>>, t) /\ LastOnly(<<x>>, t)
         /\ Without(<<x>>, t) <=> x.t # t
BY DEF Once, LastOnly, Without

LEMMA PacketTypesOK ==
  /\ \A t \in PacketTypes : Pkt(t) \in Packet /\ Pkt(t).t = t
  /\ \A k \in 0 .. MaxCalls, b \in BOOLEAN : Data(k, b) \in Packet /\ Data(k, b).t = "data"
                                             /\ Data(k, b).call = k /\ Data(k, b).last = b
BY BoundsAssumption DEF Pkt, Data, Packet, PacketTypes

LEMMA SentTypesOK ==
  /\ \A s \in Seq(Calls) : Req(s) \in Sent /\ Req(s).t = "data" /\ Req(s).calls = s
  /\ \A t \in {"interrupt", "reset", "torn"} : Ctl(t) \in Sent /\ Ctl(t).t = t
BY DEF Req, Ctl, Sent

-----------------------------------------------------------------------------
(* The parts of an answer. *)

LEMMA FlowingStream ==
  ASSUME NEW k, NEW s \in Seq(Packet), Flowing(s, k)
  PROVE  /\ s # <<>> => Passing(Head(s), k) /\ Flowing(Tail(s), k)
         /\ \A x \in Packet : EndsWith(Append(s, x), k, x)
         /\ \A x \in Packet : Passing(x, k) => Flowing(Append(s, x), k)
<1>1. Len(s) \in Nat /\ DOMAIN s = 1 .. Len(s) /\ (s # <<>> => Len(s) # 0)
  BY Elements, Zenon
<1>2. ASSUME s # <<>>  PROVE  Passing(Head(s), k) /\ Flowing(Tail(s), k)
  <2> DEFINE r == Tail(s)
  <2>1. /\ Head(s) = s[1] /\ DOMAIN r = 1 .. (Len(s) - 1)
        /\ \A i \in 1 .. (Len(s) - 1) : r[i] = s[i + 1]
    BY <1>2, Tailed, Elements, Zenon
  <2> HIDE DEF r
  <2>2. 1 \in DOMAIN s /\ \A i \in DOMAIN r : i + 1 \in DOMAIN s /\ r[i] = s[i + 1]
    BY <1>1, <1>2, <2>1
  <2>3. Passing(s[1], k) /\ Flowing(r, k)
    BY <2>2, Zenon DEF Flowing
  <2> QED  BY <2>1, <2>3, Zenon DEF r
<1>3. ASSUME NEW x \in Packet
      PROVE  EndsWith(Append(s, x), k, x) /\ (Passing(x, k) => Flowing(Append(s, x), k))
  <2> DEFINE r == Append(s, x)
  <2>1. /\ DOMAIN r = 1 .. (Len(s) + 1) /\ r[Len(s) + 1] = x /\ Len(r) = Len(s) + 1
        /\ \A i \in 1 .. Len(s) : r[i] = s[i]
    BY Appended, Elements
  <2> HIDE DEF r
  <2>2. \A i \in 1 .. Len(s) : Passing(r[i], k)
    BY <1>1, <2>1, Zenon DEF Flowing
  <2>3. Passing(x, k) => Flowing(r, k)
    BY <1>1, <2>1, <2>2 DEF Flowing
  <2>4. EndsWith(r, k, x)
    <3> DEFINE p == Len(s) + 1
    <3>1. p \in DOMAIN r /\ r[p] = x /\ 1 .. (p - 1) = 1 .. Len(s) /\ (p + 1) .. Len(r) = {}
      BY <1>1, <2>1
    <3> HIDE DEF p
    <3> QED  BY <2>2, <3>1, Zenon DEF EndsWith
  <2> QED  BY <2>3, <2>4, Zenon DEF r
<1> QED  BY <1>2, <1>3, Zenon

\* The next packet is the end, or on the way to it.
LEMMA EndingStream ==
  ASSUME NEW k, NEW s \in Seq(Packet), NEW x \in Packet, EndsWith(s, k, x)
  PROVE  /\ s # <<>>
         /\ \/ Head(s) = x /\ Only(Tail(s), Noise)
            \/ Passing(Head(s), k) /\ EndsWith(Tail(s), k, x)
         /\ \A y \in Packet : y.t \in Noise => EndsWith(Append(s, y), k, x)
<1>1. Len(s) \in Nat /\ DOMAIN s = 1 .. Len(s) /\ (s = <<>> <=> Len(s) = 0)
  BY Elements, Zenon
<1>2. PICK p \in DOMAIN s : /\ s[p] = x
                            /\ \A i \in 1 .. (p - 1) : Passing(s[i], k)
                            /\ \A i \in (p + 1) .. Len(s) : s[i].t \in Noise
  BY Zenon DEF EndsWith
<1>3. p \in Nat /\ p >= 1 /\ p <= Len(s) /\ s # <<>>
  BY <1>1, <1>2
<1> DEFINE r == Tail(s)
<1>4. /\ Head(s) = s[1] /\ DOMAIN r = 1 .. (Len(s) - 1) /\ Len(r) = Len(s) - 1
      /\ \A i \in 1 .. (Len(s) - 1) : r[i] = s[i + 1]
  BY <1>3, Tailed, Elements, Zenon
<1> HIDE DEF r
<1>5. ASSUME p = 1  PROVE  Head(s) = x /\ Only(Tail(s), Noise)
  <2>1. \A i \in DOMAIN r : i + 1 \in 2 .. Len(s) /\ r[i] = s[i + 1]
    BY <1>1, <1>3, <1>4
  <2>2. Only(r, Noise)
    BY <1>2, <1>5, <2>1 DEF Only
  <2> QED  BY <1>2, <1>4, <1>5, <2>2, Zenon DEF r
<1>6. ASSUME p # 1  PROVE  Passing(Head(s), k) /\ EndsWith(Tail(s), k, x)
  <2>1. 1 \in 1 .. (p - 1) /\ p - 1 \in DOMAIN r /\ (p - 1) + 1 = p
    BY <1>1, <1>3, <1>4, <1>6
  <2>2. r[p - 1] = x
    BY <1>2, <1>4, <2>1, Zenon
  <2>3. ASSUME NEW i \in 1 .. ((p - 1) - 1)  PROVE  Passing(r[i], k)
    <3>1. i \in 1 .. (Len(s) - 1) /\ i + 1 \in 1 .. (p - 1)
      BY <1>1, <1>3
    <3> QED  BY <3>1, <1>2, <1>4, Zenon
  <2>4. ASSUME NEW i \in ((p - 1) + 1) .. Len(r)  PROVE  r[i].t \in Noise
    <3>1. i \in 1 .. (Len(s) - 1) /\ i + 1 \in (p + 1) .. Len(s)
      BY <1>1, <1>3, <1>4
    <3> QED  BY <3>1, <1>2, <1>4, SMTT(30)
  <2>5. EndsWith(r, k, x)
    BY <2>1, <2>2, <2>3, <2>4, Zenon DEF EndsWith
  <2> QED  BY <1>2, <1>4, <2>1, <2>5, Zenon DEF r
<1>7. ASSUME NEW y \in Packet, y.t \in Noise  PROVE  EndsWith(Append(s, y), k, x)
  <2> DEFINE q == Append(s, y)
  <2>1. /\ DOMAIN q = 1 .. (Len(s) + 1) /\ q[Len(s) + 1] = y /\ Len(q) = Len(s) + 1
        /\ \A i \in 1 .. Len(s) : q[i] = s[i]
    BY Appended, Elements
  <2> HIDE DEF q
  <2>2. p \in DOMAIN q /\ q[p] = x
    BY <1>1, <1>2, <1>3, <2>1
  <2>3. \A i \in 1 .. (p - 1) : Passing(q[i], k)
    BY <1>1, <1>2, <1>3, <2>1
  <2>4. ASSUME NEW i \in (p + 1) .. Len(q)  PROVE  q[i].t \in Noise
    <3>1. i = Len(s) + 1 \/ i \in (p + 1) .. Len(s)
      BY <1>1, <1>3, <2>1
    <3>2. i \in (p + 1) .. Len(s) => i \in 1 .. Len(s)
      BY <1>1, <1>3
    <3> QED  BY <3>1, <3>2, <1>2, <1>7, <2>1, Zenon
  <2>5. EndsWith(q, k, x)
    BY <2>2, <2>3, <2>4, Zenon DEF EndsWith
  <2> QED  BY <2>5, Zenon DEF q
<1> QED  BY <1>3, <1>5, <1>6, <1>7, Zenon

LEMMA ResetStream ==
  ASSUME NEW k \in 0 .. MaxCalls, NEW s \in Seq(Packet), NEW T, "reset" \notin T, ResetAnswer(s, k, T)
  PROVE  /\ s # <<>>
         /\ Head(s).t = "reset" => EndsWith(Tail(s), k, Data(k, TRUE))
         /\ Head(s).t # "reset" => Head(s).t \in T /\ ResetAnswer(Tail(s), k, T)
         /\ \A y \in Packet : y.t \in Noise => ResetAnswer(Append(s, y), k, T)
<1>1. Len(s) \in Nat /\ DOMAIN s = 1 .. Len(s) /\ (s = <<>> <=> Len(s) = 0)
  BY Elements, Zenon
<1>2. PICK p \in DOMAIN s : /\ s[p] = Pkt("reset") /\ p < Len(s) /\ s[p + 1] = Data(k, TRUE)
                            /\ \A i \in 1 .. (p - 1) : s[i].t \in T
                            /\ \A i \in (p + 2) .. Len(s) : s[i].t \in Noise
  BY Zenon DEF ResetAnswer
<1>3. p \in Nat /\ p >= 1 /\ p < Len(s) /\ s # <<>> /\ s[p].t = "reset"
  BY <1>1, <1>2 DEF Pkt
<1> DEFINE r == Tail(s)
<1>4. /\ Head(s) = s[1] /\ DOMAIN r = 1 .. (Len(s) - 1) /\ Len(r) = Len(s) - 1
      /\ \A i \in 1 .. (Len(s) - 1) : r[i] = s[i + 1]
  BY <1>3, Tailed, Elements, Zenon
<1> HIDE DEF r
<1>5. ASSUME p = 1  PROVE  Head(s).t = "reset" /\ EndsWith(r, k, Data(k, TRUE))
  <2>0. 1 \in 1 .. (Len(s) - 1) /\ 1 + 1 = p + 1 /\ 1 .. (1 - 1) = {}
    BY <1>1, <1>3, <1>5
  <2>1. 1 \in DOMAIN r /\ r[1] = Data(k, TRUE) /\ 1 .. (1 - 1) = {}
    BY <1>2, <1>4, <2>0, Zenon
  <2>2. ASSUME NEW i \in (1 + 1) .. Len(r)  PROVE  r[i].t \in Noise
    <3>1. i \in 1 .. (Len(s) - 1) /\ i + 1 \in (p + 2) .. Len(s)
      BY <1>1, <1>4, <1>5
    <3> QED  BY <3>1, <1>2, <1>4, SMTT(30)
  <2>3. EndsWith(r, k, Data(k, TRUE))
    BY <2>1, <2>2, Zenon DEF EndsWith
  <2> QED  BY <1>3, <1>4, <1>5, <2>3, Zenon
<1>6. ASSUME p # 1  PROVE  Head(s).t \in T /\ ResetAnswer(r, k, T)
  <2> DEFINE q == p - 1
  <2>1. 1 \in 1 .. (p - 1) /\ q \in DOMAIN r /\ q + 1 = p /\ q < Len(r) /\ q + 1 \in 1 .. (Len(s) - 1)
    BY <1>1, <1>3, <1>4, <1>6
  <2>2. r[q] = Pkt("reset") /\ r[q + 1] = Data(k, TRUE)
    BY <1>2, <1>4, <2>1, Zenon
  <2>3. ASSUME NEW i \in 1 .. (q - 1)  PROVE  r[i].t \in T
    <3>1. i \in 1 .. (Len(s) - 1) /\ i + 1 \in 1 .. (p - 1)
      BY <1>1, <1>3
    <3> QED  BY <3>1, <1>2, <1>4, Zenon
  <2>4. ASSUME NEW i \in (q + 2) .. Len(r)  PROVE  r[i].t \in Noise
    <3>1. i \in 1 .. (Len(s) - 1) /\ i + 1 \in (p + 2) .. Len(s)
      BY <1>1, <1>3, <1>4
    <3> QED  BY <3>1, <1>2, <1>4, SMTT(30)
  <2> HIDE DEF q
  <2>5. ResetAnswer(r, k, T)
    BY <2>1, <2>2, <2>3, <2>4, Zenon DEF ResetAnswer
  <2> QED  BY <1>2, <1>4, <2>1, <2>5, Zenon
<1>7. ASSUME NEW y \in Packet, y.t \in Noise  PROVE  ResetAnswer(Append(s, y), k, T)
  <2> DEFINE q == Append(s, y)
  <2>1. /\ DOMAIN q = 1 .. (Len(s) + 1) /\ q[Len(s) + 1] = y /\ Len(q) = Len(s) + 1
        /\ \A i \in 1 .. Len(s) : q[i] = s[i]
    BY Appended, Elements
  <2> HIDE DEF q
  <2>0. p \in 1 .. Len(s) /\ p + 1 \in 1 .. Len(s) /\ p \in DOMAIN q /\ p < Len(q)
    BY <1>1, <1>3, <2>1
  <2>2. q[p] = Pkt("reset") /\ q[p + 1] = Data(k, TRUE)
    BY <1>2, <2>0, <2>1, Zenon
  <2>3. \A i \in 1 .. (p - 1) : q[i].t \in T
    BY <1>1, <1>2, <1>3, <2>1
  <2>4. ASSUME NEW i \in (p + 2) .. Len(q)  PROVE  q[i].t \in Noise
    <3>1. i = Len(s) + 1 \/ i \in (p + 2) .. Len(s)
      BY <1>1, <1>3, <2>1
    <3>2. i \in (p + 2) .. Len(s) => i \in 1 .. Len(s)
      BY <1>1, <1>3
    <3> QED  BY <3>1, <3>2, <1>2, <1>7, <2>1, Zenon
  <2>5. ResetAnswer(q, k, T)
    BY <2>0, <2>2, <2>3, <2>4, Zenon DEF ResetAnswer
  <2> QED  BY <2>5, Zenon DEF q
<1> QED  BY <1>3, <1>5, <1>6, <1>7, Zenon DEF r

\* The server's answer to a reset marker.
LEMMA ServerAnswersReset ==
  ASSUME NEW k \in 0 .. MaxCalls, NEW s \in Seq(Packet), NEW T
  PROVE  LET r == s \o <<Pkt("reset"), Data(k, TRUE)>>
         IN  /\ r \in Seq(Packet)
             /\ Only(s, T) => ResetAnswer(r, k, T)
             /\ Without(s, "reset") => Once(r, "reset")
             /\ Without(s, "break") => Without(r, "break")
<1> DEFINE x == Pkt("reset")
           y == Data(k, TRUE)
           r == s \o <<x, y>>
<1>1. x \in Packet /\ y \in Packet /\ x.t = "reset" /\ y.t = "data"
  BY PacketTypesOK, Zenon DEF PacketTypes
<1> HIDE DEF x, y
<1>2. /\ r \in Seq(Packet) /\ Len(r) = Len(s) + 2
      /\ \A i \in 1 .. Len(s) : r[i] = s[i]
      /\ r[Len(s) + 1] = x /\ r[Len(s) + 2] = y
  BY <1>1, Joined2
<1>3. Len(s) \in Nat /\ DOMAIN s = 1 .. Len(s) /\ DOMAIN r = 1 .. (Len(s) + 2)
  BY <1>2, Elements, Zenon
<1> HIDE DEF r
<1>4. \A i \in DOMAIN r : (i \in DOMAIN s /\ r[i] = s[i]) \/ (i = Len(s) + 1 /\ r[i] = x) \/ (i = Len(s) + 2 /\ r[i] = y)
  BY <1>2, <1>3
<1>5. Without(s, "reset") => Once(r, "reset")
  BY <1>1, <1>4, Zenon DEF Once, Without
<1>6. Without(s, "break") => Without(r, "break")
  BY <1>1, <1>4, Zenon DEF Without
<1>7. ASSUME Only(s, T)  PROVE  ResetAnswer(r, k, T)
  <2> DEFINE p == Len(s) + 1
  <2>1. p \in DOMAIN r /\ p < Len(r) /\ r[p] = x /\ r[p + 1] = y /\ (p + 2) .. Len(r) = {} /\ 1 .. (p - 1) = 1 .. Len(s)
    BY <1>2, <1>3
  <2>2. \A i \in 1 .. Len(s) : r[i].t \in T
    BY <1>2, <1>3, <1>7, Zenon DEF Only
  <2> HIDE DEF p
  <2> QED  BY <2>1, <2>2, Zenon DEF ResetAnswer, x, y
<1> QED  BY <1>2, <1>5, <1>6, <1>7, Zenon DEF r, x, y

-----------------------------------------------------------------------------
(* Types. *)

LEMMA Interruption ==
  ASSUME s2c \in Seq(Packet), Interrupted
  PROVE  /\ s2c' \in Seq(Packet)
         /\ Only(s2c, Noise) => Only(s2c', Noise)
         /\ \A t \in PacketTypes \ {"torn"} : /\ Without(s2c, t) => Without(s2c', t)
                                              /\ Once(s2c, t) => Once(s2c', t)
<1>1. CASE s2c' = s2c
  BY <1>1, Zenon
<1>2. CASE s2c # <<>> /\ s2c' = Tail(s2c)
  BY <1>2, Tailed, StreamTail, SMTT(30)
<1>3. CASE s2c # <<>> /\ s2c' = <<Pkt("torn")>> \o Tail(s2c)
  <2>1. Pkt("torn") \in Packet /\ Pkt("torn").t = "torn"
    BY PacketTypesOK, Zenon DEF PacketTypes
  <2>2. s2c' \in Seq(Packet)
    BY <1>3, <2>1, Replaced, Zenon
  <2>3. Only(s2c, Noise) => Only(s2c', Noise)
    BY <1>3, <2>1, StreamTorn, Zenon DEF Noise
  <2>4. ASSUME NEW t \in PacketTypes \ {"torn"}
        PROVE  (Without(s2c, t) => Without(s2c', t)) /\ (Once(s2c, t) => Once(s2c', t))
    BY <1>3, <2>1, <2>4, StreamTorn, SMTT(30)
  <2> QED  BY <2>2, <2>3, <2>4, Zenon
<1> QED  BY <1>1, <1>2, <1>3, Zenon DEF Interrupted

\* The packet taken is pushed-back or the first of the stream.
LEMMA Taken ==
  ASSUME TypeOK, NEW t, TakePacket(t)
  PROVE  /\ NextPacket \in Packet /\ NextPacket.t = t /\ pending' = <<>> /\ s2c' \in Seq(Packet)
         /\ pc \in {"fill", "reset"}
         /\ \/ pending = <<NextPacket>> /\ s2c' = s2c
            \/ pending = <<>> /\ s2c # <<>> /\ NextPacket = Head(s2c) /\ s2c' = Tail(s2c)
<1>1. /\ pending \in Seq(Packet) /\ Len(pending) <= 1 /\ s2c \in Seq(Packet)
  BY Zenon DEF TypeOK, StreamOK
<1>2. /\ NextPacket.t = t /\ pending' = <<>> /\ pc \in {"fill", "reset"} /\ (pending # <<>> \/ s2c # <<>>)
      /\ s2c' = IF pending # <<>> THEN s2c ELSE Tail(s2c)
  BY Zenon DEF TakePacket
<1>3. CASE pending # <<>>
  <2>1. pending = <<pending[1]>> /\ pending[1] \in Packet
    BY <1>1, <1>3, AtMostOne, Zenon
  <2>2. NextPacket = pending[1]
    BY <1>3, Zenon DEF NextPacket
  <2> QED  BY <1>1, <1>2, <1>3, <2>1, <2>2, Zenon
<1>4. CASE pending = <<>>
  BY <1>1, <1>2, <1>4, Tailed, Zenon DEF NextPacket
<1> QED  BY <1>3, <1>4, Zenon

\* The packets that can be appended to c2s.
LEMMA Sending ==
  ASSUME TypeOK
  PROVE  /\ \A t \in {"interrupt", "reset", "torn"} :
              /\ Append(c2s, Ctl(t)) \in Seq(Sent) /\ Append(c2s, Ctl(t)) # <<>>
              /\ \A i \in DOMAIN Append(c2s, Ctl(t)) :
                   Append(c2s, Ctl(t))[i].t = "data" => Append(c2s, Ctl(t))[i].calls # <<>>
         /\ snd # <<>> =>
              /\ Append(c2s, Req(snd)) \in Seq(Sent) /\ Append(c2s, Req(snd)) # <<>>
              /\ \A i \in DOMAIN Append(c2s, Req(snd)) :
                   Append(c2s, Req(snd))[i].t = "data" => Append(c2s, Req(snd))[i].calls # <<>>
<1>1. /\ c2s \in Seq(Sent) /\ snd \in Seq(Calls) /\ DOMAIN c2s = 1 .. Len(c2s) /\ Len(c2s) \in Nat
      /\ \A i \in DOMAIN c2s : c2s[i].t = "data" => c2s[i].calls # <<>>
  BY Elements, Zenon DEF TypeOK, OutOK
<1>2. ASSUME NEW x \in Sent, x.t = "data" => x.calls # <<>>
      PROVE  /\ Append(c2s, x) \in Seq(Sent) /\ Append(c2s, x) # <<>>
             /\ \A i \in DOMAIN Append(c2s, x) : Append(c2s, x)[i].t = "data" => Append(c2s, x)[i].calls # <<>>
  <2> DEFINE r == Append(c2s, x)
  <2>1. /\ r \in Seq(Sent) /\ Len(r) = Len(c2s) + 1 /\ r # <<>> /\ \A i \in 1 .. Len(c2s) : r[i] = c2s[i]
        /\ r[Len(c2s) + 1] = x
    BY <1>1, Appended
  <2>2. DOMAIN r = 1 .. (Len(c2s) + 1)
    BY <2>1, Elements, Zenon
  <2> HIDE DEF r
  <2>3. \A i \in DOMAIN r : r[i].t = "data" => r[i].calls # <<>>
    BY <1>1, <1>2, <2>1, <2>2
  <2> QED  BY <2>1, <2>3, Zenon DEF r
<1>3. ASSUME NEW t \in {"interrupt", "reset", "torn"}  PROVE  Ctl(t) \in Sent /\ Ctl(t).t # "data"
  BY SentTypesOK, Zenon
<1>4. Req(snd) \in Sent /\ Req(snd).calls = snd
  BY <1>1, SentTypesOK, Zenon
<1> QED  BY <1>2, <1>3, <1>4, Zenon

\* The server takes the first packet of c2s.
LEMMA Serving ==
  ASSUME TypeOK, c2s # <<>>
  PROVE  /\ Tail(c2s) \in Seq(Sent) /\ Head(c2s) \in Sent
         /\ Head(c2s).t = "data" => Head(c2s).calls # <<>> /\ Head(c2s).calls \in Seq(Calls)
         /\ \A i \in DOMAIN Tail(c2s) : Tail(c2s)[i].t = "data" => Tail(c2s)[i].calls # <<>>
<1>1. /\ c2s \in Seq(Sent) /\ DOMAIN c2s = 1 .. Len(c2s) /\ Len(c2s) \in Nat /\ Len(c2s) # 0
      /\ \A i \in DOMAIN c2s : c2s[i].t = "data" => c2s[i].calls # <<>>
  BY Elements, Zenon DEF TypeOK, OutOK
<1> DEFINE r == Tail(c2s)
<1>2. /\ r \in Seq(Sent) /\ Len(r) = Len(c2s) - 1 /\ Head(c2s) = c2s[1] /\ Head(c2s) \in Sent
      /\ \A i \in 1 .. (Len(c2s) - 1) : r[i] = c2s[i + 1]
  BY <1>1, Tailed, Zenon
<1>3. DOMAIN r = 1 .. (Len(c2s) - 1)
  BY <1>2, Elements, Zenon
<1> HIDE DEF r
<1>4. 1 \in DOMAIN c2s /\ \A i \in DOMAIN r : i + 1 \in DOMAIN c2s /\ r[i] = c2s[i + 1]
  BY <1>1, <1>2, <1>3
<1>5. \A i \in DOMAIN r : r[i].t = "data" => r[i].calls # <<>>
  BY <1>1, <1>4, Zenon
<1>6. Head(c2s).t = "data" => Head(c2s).calls # <<>> /\ Head(c2s).calls \in Seq(Calls)
  BY <1>1, <1>2, <1>4, Zenon DEF Sent
<1> QED  BY <1>2, <1>5, <1>6, Zenon DEF r

ServerSide == ServerSteps \/ ServerSends \/ ServerRaises \/ ServerNotifies

ClientSide ==
  \/ Call \/ ClientSteps \/ GiveUp \/ RecvInterrupted
  \/ CheckStored \/ CheckRead \/ CheckTimeout \/ UNCHANGED vars

LEMMA ClientLeavesServer == ClientSide => UNCHANGED server
BY Zenon DEF ClientSide, ClientSteps, Receive, Call, FlushOk, FlushFails, Consume, GiveUp, PrepareReadBuffer, ReadEOF,
       RecvData, RecvNotification, RecvError, RecvBreak, RecvReset, RecvClosed, RecvInterrupted, CancelOperation,
       Reset, CheckStored, CheckRead, CheckTimeout, vars

LEMMA ServerLeavesClient == ServerSide => Quiet
BY Zenon DEF ServerSide, ServerSteps, ServerTakes, ServerEnds, ServerInterrupted, ServerDiscards, ServerResets, ServerCloses,
       ServerSends, ServerRaises, ServerNotifies

LEMMA ServerTypes ==
  ASSUME TypeOK, ServerSide
  PROVE  ServerOK'
<1>0. ServerOK
  BY Zenon DEF TypeOK
<1>1. ASSUME NEW ks \in Seq(Calls), ks # <<>>, Start(ks)
      PROVE  ServerOK'
  <2>1. Head(ks) \in Calls /\ Calls \subseteq 0 .. MaxCalls
    BY <1>1, Tailed, BoundsAssumption DEF Calls
  <2>2. work' = ks /\ last' = Head(ks) /\ srv' = "exec" /\ execs' = [execs EXCEPT ![Head(ks)] = @ + 1]
    BY <1>1, Zenon DEF Start
  <2>3. execs' \in [Calls -> Nat]
    <3>1. execs \in [Calls -> Nat]
      BY <1>0, Zenon DEF ServerOK
    <3> QED  BY <2>1, <2>2, <3>1, CountedUp, SMTT(30)
  <2> QED  BY <1>1, <2>1, <2>2, <2>3, Zenon DEF ServerOK
<1>2. <<>> \in Seq(Calls)
  OBVIOUS
<1>3. CASE ServerTakes
  BY <1>1, <1>3, Serving, Zenon DEF ServerTakes
<1>4. CASE ServerEnds
  <2>1. Tail(work) \in Seq(Calls) /\ (Len(work) > 1 => Tail(work) # <<>>)
    <3>1. work \in Seq(Calls) /\ work # <<>>
      BY <1>0, <1>4, Zenon DEF ServerOK, ServerEnds
    <3> QED  BY <3>1, Tailed, TailLeft, Zenon
  <2> QED  BY <1>0, <1>1, <1>2, <1>4, <2>1, Zenon DEF ServerEnds, ServerOK
<1> QED
  BY <1>0, <1>2, <1>3, <1>4, Zenon
     DEF ServerSide, ServerSteps, ServerInterrupted, ServerDiscards, ServerResets, ServerCloses, ServerSends,
         ServerRaises, ServerNotifies, ServerOK, server

LEMMA StreamTypes ==
  ASSUME TypeOK, ClientSide \/ ServerSide
  PROVE  StreamOK'
<1>0. StreamOK /\ s2c \in Seq(Packet) /\ pending \in Seq(Packet)
  BY Zenon DEF TypeOK, StreamOK
<1>1. <<>> \in Seq(Packet) /\ Len(<<>>) = 0
  OBVIOUS
<1>2. ASSUME NEW t, TakePacket(t)  PROVE  StreamOK'
  <2>1. pending' = <<>> /\ s2c' \in Seq(Packet)
    BY <1>2, Taken, Zenon
  <2> QED  BY <1>1, <2>1 DEF StreamOK
<1>3. ASSUME NEW x \in Packet, s2c' = Append(s2c, x), UNCHANGED pending  PROVE  StreamOK'
  BY <1>0, <1>3, Appended, Zenon DEF StreamOK
<1>4. CASE CheckRead
  <2>1. s2c' \in Seq(Packet) /\ Head(s2c) \in Packet
    BY <1>0, <1>4, Tailed, Zenon DEF CheckRead
  <2>2. <<Head(s2c)>> \in Seq(Packet) /\ Len(<<Head(s2c)>>) = 1
    BY <2>1
  <2>3. pending' = pending \/ pending' = <<Head(s2c)>>
    BY <1>4, Zenon DEF CheckRead
  <2>4. pending' \in Seq(Packet) /\ Len(pending') <= 1
    BY <1>0, <2>2, <2>3, SMTT(30) DEF StreamOK
  <2> QED  BY <2>1, <2>4, Zenon DEF StreamOK
<1>5. CASE CheckTimeout \/ RecvInterrupted
  BY <1>0, <1>5, Interruption, Zenon DEF CheckTimeout, RecvInterrupted, StreamOK
<1>6. CASE ServerSide
  <2>1. UNCHANGED pending
    BY <1>6, ServerLeavesClient, Zenon DEF Quiet
  <2>2. /\ \A t \in PacketTypes : Pkt(t) \in Packet
        /\ \A k \in 0 .. MaxCalls, b \in BOOLEAN : Data(k, b) \in Packet
    BY PacketTypesOK, Zenon
  <2>3. srv = "exec" => Head(work) \in 0 .. MaxCalls
    BY Tailed, BoundsAssumption DEF TypeOK, ServerOK, Calls
  <2>4. CASE ServerEnds \/ ServerSends
    BY <1>3, <2>1, <2>2, <2>3, <2>4, Zenon DEF ServerEnds, ServerSends
  <2>5. CASE ServerInterrupted \/ ServerRaises
    BY <1>0, <1>3, <2>1, <2>2, <2>5, Zenon DEF ServerInterrupted, ServerRaises, PacketTypes, StreamOK
  <2>6. CASE ServerNotifies
    BY <1>3, <2>1, <2>2, <2>6, Zenon DEF ServerNotifies, PacketTypes
  <2>7. CASE ServerResets
    <3>1. s2c' \in Seq(Packet)
      BY <1>0, <2>7, ServerAnswersReset, Zenon DEF ServerResets, TypeOK, ServerOK
    <3> QED  BY <1>0, <2>1, <3>1, Zenon DEF StreamOK
  <2>8. CASE ServerTakes \/ ServerDiscards \/ ServerCloses
    BY <1>0, <2>1, <2>8, Zenon DEF ServerTakes, ServerDiscards, ServerCloses, StreamOK
  <2> QED  BY <1>6, <2>4, <2>5, <2>6, <2>7, <2>8, Zenon DEF ServerSide, ServerSteps
<1>7. CASE Receive
  BY <1>0, <1>2, <1>7, Zenon DEF Receive, RecvData, RecvNotification, RecvError, RecvBreak, RecvReset, RecvClosed, StreamOK
<1>8. CASE \/ Call \/ FlushOk \/ FlushFails \/ Consume \/ GiveUp \/ PrepareReadBuffer \/ ReadEOF
           \/ CancelOperation \/ Reset \/ CheckStored \/ UNCHANGED vars
  BY <1>0, <1>8, Zenon DEF Call, FlushOk, FlushFails, Consume, GiveUp, PrepareReadBuffer, ReadEOF,
       CancelOperation, Reset, CheckStored, vars, StreamOK
<1> QED  BY <1>4, <1>5, <1>6, <1>7, <1>8, Zenon DEF ClientSide, ClientSteps


LEMMA OutTypes ==
  ASSUME TypeOK, ClientSide \/ ServerSide
  PROVE  OutOK'
<1>0. OutOK /\ snd \in Seq(Calls) /\ call \in Nat /\ MaxCalls \in Nat
  BY BoundsAssumption DEF TypeOK, OutOK
<1>1. ASSUME UNCHANGED <<snd, c2s>>, pc' = "flush" => pc = "flush"
      PROVE  OutOK'
  BY <1>0, <1>1, Zenon DEF OutOK
<1>2. ASSUME NEW t \in {"interrupt", "reset", "torn"}, c2s' = Append(c2s, Ctl(t)), UNCHANGED snd, pc' # "flush"
      PROVE  OutOK'
  BY <1>0, <1>2, Sending, Zenon DEF OutOK
<1>3. ASSUME pc' # "flush", c2s # <<>>, c2s' = Tail(c2s), UNCHANGED snd
      PROVE  OutOK'
  BY <1>0, <1>3, Serving, Zenon DEF OutOK
<1>4. CASE Call
  <2>1. CASE isBreak
    BY <1>1, <1>4, <2>1, Zenon DEF Call
  <2>2. CASE ~isBreak
    <3>1. call + 1 \in Calls /\ snd' = Append(snd, call + 1) /\ c2s' = c2s
      BY <1>0, <1>4, <2>2 DEF Call, Calls
    <3>2. snd' \in Seq(Calls) /\ snd' # <<>>
      BY <1>0, <3>1, Appended
    <3> QED  BY <1>0, <3>1, <3>2, Zenon DEF OutOK
  <2> QED  BY <2>1, <2>2, Zenon
<1>5. CASE FlushOk
  <2>1. <<>> \in Seq(Calls)
    OBVIOUS
  <2> QED  BY <1>0, <1>5, <2>1, Sending, Zenon DEF OutOK, FlushOk
<1>6. CASE FlushFails
  <2>1. UNCHANGED snd /\ pc' # "flush" /\ pc = "flush"
    BY <1>6, Zenon DEF FlushFails
  <2>2. c2s' = c2s \/ c2s' = Append(c2s, Req(snd)) \/ c2s' = Append(c2s, Ctl("torn"))
    BY <1>6, Zenon DEF FlushFails
  <2>3. CASE c2s' = Append(c2s, Req(snd))
    BY <1>0, <2>1, <2>3, Sending, Zenon DEF OutOK
  <2> QED  BY <1>1, <1>2, <2>1, <2>2, <2>3, Zenon
<1>7. CASE CancelOperation
  BY <1>1, <1>2, <1>7, Zenon DEF CancelOperation
<1>8. CASE Reset
  BY <1>1, <1>2, <1>8, Zenon DEF Reset, ResetFails
<1>9. CASE RecvReset
  <2>1. <<>> \in Seq(Calls) /\ pc' # "flush" /\ c2s' = c2s /\ (snd' = <<>> \/ snd' = snd)
    BY <1>9 DEF RecvReset
  <2> QED  BY <1>0, <2>1, Zenon DEF OutOK
<1>10. CASE RecvData \/ RecvNotification \/ RecvError \/ RecvBreak \/ RecvClosed \/ RecvInterrupted
  BY <1>1, <1>10, Zenon DEF RecvData, RecvNotification, RecvError, RecvBreak, RecvClosed, RecvInterrupted,
     PacketReturned, ReceiveFails, ResetFails
<1>11. CASE \/ Consume \/ GiveUp \/ PrepareReadBuffer \/ ReadEOF \/ CheckStored \/ CheckRead \/ CheckTimeout
            \/ UNCHANGED vars
  BY <1>1, <1>11, Zenon DEF Consume, GiveUp, PrepareReadBuffer, ReadEOF, CheckStored, CheckRead, CheckTimeout, vars, client
<1>12. CASE ServerSide
  <2>1. UNCHANGED <<pc, snd>>
    BY <1>12, ServerLeavesClient, Zenon DEF Quiet, client
  <2>2. CASE UNCHANGED c2s
    BY <1>1, <2>1, <2>2, Zenon
  <2>3. CASE c2s # <<>> /\ c2s' = Tail(c2s)
    BY <1>0, <2>1, <2>3, Serving, Zenon DEF OutOK
  <2>4. CASE c2s' = <<>>
    BY <1>0, <2>1, <2>4 DEF OutOK
  <2> QED  BY <1>12, <2>2, <2>3, <2>4, Zenon DEF ServerSide, ServerSteps, ServerTakes, ServerEnds, ServerInterrupted,
              ServerDiscards, ServerResets, ServerCloses, ServerSends, ServerRaises, ServerNotifies
<1> QED  BY <1>4, <1>5, <1>6, <1>7, <1>8, <1>9, <1>10, <1>11, <1>12, Zenon DEF ClientSide, ClientSteps, Receive

LEMMA NextSides == [Next]_vars => ClientSide \/ ServerSide
BY Zenon DEF Next, ClientSide, ServerSide

LEMMA TypesKept ==
  ASSUME TypeOK, [Next]_vars
  PROVE  TypeOK'
<1>1. ClientSide \/ ServerSide
  BY NextSides, Zenon
<1>2. StreamOK' /\ OutOK'
  BY <1>1, StreamTypes, OutTypes, Zenon
<1>3. ServerOK'
  <2>1. CASE ServerSide
    BY <2>1, ServerTypes, Zenon
  <2>2. CASE ClientSide
    BY <2>2, ClientLeavesServer, Zenon DEF TypeOK, ServerOK, server
  <2> QED  BY <1>1, <2>1, <2>2, Zenon
<1>4. call' \in 0 .. MaxCalls
  <2>1. call \in 0 .. MaxCalls /\ MaxCalls \in Nat
    BY BoundsAssumption, Zenon DEF TypeOK
  <2>2. call' = call \/ (call < MaxCalls /\ call' = call + 1)
    BY <1>1, ServerLeavesClient, ZenonT(30)
       DEF ClientSide, ClientSteps, Receive, Call, FlushOk, FlushFails, Consume, GiveUp, PrepareReadBuffer, ReadEOF,
           RecvData, RecvNotification, RecvError, RecvBreak, RecvReset, RecvClosed, RecvInterrupted, CancelOperation,
           Reset, CheckStored, CheckRead, CheckTimeout, vars, Quiet, client
  <2> QED  BY <2>1, <2>2
<1>5. pc' \in {"idle", "flush", "read", "fill", "nodata", "cancel", "sendReset", "reset"}
  BY <1>1, ServerLeavesClient, ZenonT(30)
     DEF ClientSide, ClientSteps, Receive, Call, FlushOk, FlushFails, Consume, GiveUp, PrepareReadBuffer, ReadEOF,
         RecvData, RecvNotification, RecvError, RecvBreak, RecvReset, RecvClosed, RecvInterrupted, CancelOperation,
         Reset, CheckStored, CheckRead, CheckTimeout, vars, Quiet, client, TypeOK, PacketReturned, ReceiveFails,
         ResetFails
<1> QED  BY <1>2, <1>3, <1>4, <1>5, Zenon DEF TypeOK

LEMMA TypesInit == Init => TypeOK
<1> SUFFICES ASSUME Init  PROVE TypeOK
  BY Zenon
<1>1. /\ <<>> \in Seq(Packet) /\ Len(<<>>) = 0 /\ <<>> \in Seq(Calls) /\ <<>> \in Seq(Sent)
      /\ 0 \in 0 .. MaxCalls /\ DOMAIN <<>> = {}
  BY BoundsAssumption
<1>2. execs \in [Calls -> Nat]
  BY Zenon DEF Init
<1> QED  BY <1>1, <1>2 DEF Init, TypeOK, StreamOK, OutOK, ServerOK

-----------------------------------------------------------------------------
(* Markers is preserved. *)

Kinds == {"break", "reset"}

LEMMA AnswerHasNoMarker ==
  ASSUME NEW k \in 0 .. MaxCalls, NEW s \in Seq(Packet), EndsWith(s, k, Data(k, TRUE)), NEW x \in Kinds
  PROVE  Without(s, x)
<1>1. PICK p \in DOMAIN s : /\ s[p] = Data(k, TRUE)
                            /\ \A i \in 1 .. (p - 1) : Passing(s[i], k)
                            /\ \A i \in (p + 1) .. Len(s) : s[i].t \in Noise
  BY Zenon DEF EndsWith
<1>2. DOMAIN s = 1 .. Len(s) /\ Len(s) \in Nat
  BY Elements, Zenon
<1>3. \A i \in DOMAIN s : i \in 1 .. (p - 1) \/ i = p \/ i \in (p + 1) .. Len(s)
  BY <1>2
<1>4. s[p].t = "data"
  BY <1>1 DEF Data
<1>5. \A i \in DOMAIN s : s[i].t \in Noise \/ s[i].t = "data"
  BY <1>1, <1>3, <1>4, Zenon DEF Passing
<1> QED  BY <1>5, Zenon DEF Without, Kinds, Noise

LEMMA TakenStream ==
  ASSUME TypeOK, NEW t, TakePacket(t)
  PROVE  /\ \A x \in Kinds :
              /\ Without(pending', x)
              /\ Without(s2c, x) => Without(s2c', x)
              /\ Once(s2c, x) => Once(s2c', x)
              /\ t = x => ~(Without(s2c, x) /\ Without(pending, x))
              /\ t = x /\ Once(s2c, x) /\ (Without(s2c, x) \/ Without(pending, x)) => Without(s2c', x)
         /\ pending = <<>> /\ ResetAnswer(s2c, last, NotReset) =>
              IF t = "reset" THEN \A x \in Kinds : Without(s2c', x)
                             ELSE ResetAnswer(s2c', last, NotReset)
<1>1. /\ NextPacket.t = t /\ pending' = <<>> /\ s2c \in Seq(Packet) /\ last \in 0 .. MaxCalls
      /\ \/ pending = <<NextPacket>> /\ s2c' = s2c
         \/ pending = <<>> /\ s2c # <<>> /\ NextPacket = Head(s2c) /\ s2c' = Tail(s2c)
  BY Taken, Zenon DEF TypeOK, StreamOK, ServerOK
<1>2. ASSUME NEW x \in Kinds
      PROVE  /\ Without(pending', x)
             /\ Without(s2c, x) => Without(s2c', x)
             /\ Once(s2c, x) => Once(s2c', x)
             /\ t = x => ~(Without(s2c, x) /\ Without(pending, x))
             /\ t = x /\ Once(s2c, x) /\ (Without(s2c, x) \/ Without(pending, x)) => Without(s2c', x)
  <2>1. Without(pending', x)
    BY <1>1, EmptyStream, Zenon
  <2>2. CASE pending = <<NextPacket>> /\ s2c' = s2c
    <3>1. t = x => ~Without(pending, x)
      BY <1>1, <2>2, Singleton, Zenon
    <3> QED  BY <2>1, <2>2, <3>1, Zenon
  <2>3. CASE pending = <<>> /\ s2c # <<>> /\ NextPacket = Head(s2c) /\ s2c' = Tail(s2c)
    <3>1. /\ Without(s2c, x) => Head(s2c).t # x /\ Without(Tail(s2c), x)
          /\ Once(s2c, x) => Once(Tail(s2c), x) /\ (Head(s2c).t = x => Without(Tail(s2c), x))
      BY <1>1, <2>3, StreamTail, Zenon
    <3> QED  BY <1>1, <2>1, <2>3, <3>1, Zenon
  <2> QED  BY <1>1, <2>2, <2>3, Zenon
<1>3. ASSUME pending = <<>>, ResetAnswer(s2c, last, NotReset)
      PROVE  IF t = "reset" THEN \A x \in Kinds : Without(s2c', x)
                            ELSE ResetAnswer(s2c', last, NotReset)
  <2>1. Head(s2c).t = t /\ s2c' = Tail(s2c) /\ s2c # <<>>
    <3>1. <<NextPacket>> # <<>>
      BY Zenon
    <3> QED  BY <1>1, <1>3, <3>1, Zenon
  <2>2. /\ Head(s2c).t = "reset" => EndsWith(Tail(s2c), last, Data(last, TRUE))
        /\ Head(s2c).t # "reset" => ResetAnswer(Tail(s2c), last, NotReset)
    <3>1. "reset" \notin NotReset
      BY Zenon DEF NotReset
    <3> QED  BY <1>1, <1>3, <3>1, ResetStream, Zenon
  <2>3. Tail(s2c) \in Seq(Packet)
    BY <1>1, <2>1, Tailed, Zenon
  <2> QED  BY <1>1, <2>1, <2>2, <2>3, AnswerHasNoMarker, Zenon
<1> QED  BY <1>2, <1>3, Zenon

\* The server sends a packet.
LEMMA ArrivingStream ==
  ASSUME TypeOK, NEW p \in Packet, s2c' = Append(s2c, p)
  PROVE  \A x \in Kinds : /\ p.t # x => (Without(s2c, x) => Without(s2c', x)) /\ (Once(s2c, x) => Once(s2c', x))
                          /\ Without(s2c, x) => Once(s2c', x)
<1>1. s2c \in Seq(Packet)
  BY Zenon DEF TypeOK, StreamOK
<1>2. ASSUME NEW x \in Kinds
      PROVE  /\ Without(s2c, x) /\ p.t # x => Without(s2c', x)
             /\ Once(s2c, x) /\ (p.t # x \/ Without(s2c, x)) => Once(s2c', x)
  BY <1>1, StreamAppend, Zenon
<1>3. ASSUME NEW x \in Kinds, Without(s2c, x)  PROVE Once(s2c, x)
  BY <1>3, Zenon DEF Without, Once
<1> QED  BY <1>2, <1>3, Zenon

\* The server takes a packet.
LEMMA ServedStream ==
  ASSUME TypeOK, c2s # <<>>, c2s' = Tail(c2s)
  PROVE  \A x \in {"interrupt", "reset"} :
           /\ Without(c2s, x) => Head(c2s).t # x /\ Without(c2s', x)
           /\ LastOnly(c2s, x) => LastOnly(c2s', x) /\ (Head(c2s).t = x => c2s' = <<>>)
<1>1. c2s \in Seq(Sent)
  BY Zenon DEF TypeOK, OutOK
<1> QED  BY <1>1, StreamTail, Zenon

\* The client sends a packet.
LEMMA SentStream ==
  ASSUME TypeOK
  PROVE  /\ \A t \in {"interrupt", "reset", "torn"} : \A x \in {"interrupt", "reset"} :
              /\ t # x /\ Without(c2s, x) => Without(Append(c2s, Ctl(t)), x)
              /\ Without(c2s, x) => LastOnly(Append(c2s, Ctl(t)), x)
         /\ \A x \in {"interrupt", "reset"} : Without(c2s, x) => Without(Append(c2s, Req(snd)), x)
<1>1. c2s \in Seq(Sent) /\ snd \in Seq(Calls)
  BY Zenon DEF TypeOK, OutOK
<1>2. ASSUME NEW t \in {"interrupt", "reset", "torn"}  PROVE  Ctl(t) \in Sent /\ Ctl(t).t = t
  BY SentTypesOK, Zenon
<1>3. Req(snd) \in Sent /\ Req(snd).t = "data"
  BY <1>1, SentTypesOK, Zenon
<1>4. ASSUME NEW p \in Sent, NEW x
      PROVE  /\ Without(c2s, x) /\ p.t # x => Without(Append(c2s, p), x)
             /\ Without(c2s, x) => LastOnly(Append(c2s, p), x)
  BY <1>1, StreamAppend, ZenonT(30)
<1>5. ASSUME NEW t \in {"interrupt", "reset", "torn"}, NEW x \in {"interrupt", "reset"}
      PROVE  /\ t # x /\ Without(c2s, x) => Without(Append(c2s, Ctl(t)), x)
             /\ Without(c2s, x) => LastOnly(Append(c2s, Ctl(t)), x)
  BY <1>2, <1>4, Zenon
<1>6. ASSUME NEW x \in {"interrupt", "reset"}, Without(c2s, x)  PROVE  Without(Append(c2s, Req(snd)), x)
  BY <1>3, <1>4, <1>6, Zenon
<1> QED  BY <1>5, <1>6, Zenon

LEMMA WithoutLast ==
  ASSUME NEW s, NEW x, Without(s, x)
  PROVE  LastOnly(s, x) /\ Once(s, x)
BY Zenon DEF Without, LastOnly, Once


Phase ==
  /\ isValid /\ ~isBreak => NoBreak
  /\ isValid /\ isBreak /\ ~CancelPhase => ServerBreak
  /\ isValid /\ CancelPhase => ClientBreak

Control ==
  /\ pc \in {"cancel", "sendReset", "reset"} => pending = <<>>
  /\ pc \in {"flush", "cancel"} => ~isBreak
  /\ ~isValid => pc = "idle" \/ (dirty /\ cancelling /\ ~CancelPhase /\ pc \notin {"cancel", "flush"})

LEMMA MarkersSplit == Markers <=> Control /\ Phase
BY Zenon DEF Markers, Control, Phase

LEMMA ControlKept ==
  ASSUME TypeOK, Control, Phase, ClientSide \/ ServerSide
  PROVE  Control'
<1>1. CASE Call \/ FlushOk \/ FlushFails \/ Consume \/ GiveUp \/ PrepareReadBuffer \/ ReadEOF \/ UNCHANGED vars
  BY <1>1, SMTT(30) DEF Call, FlushOk, FlushFails, Consume, GiveUp, PrepareReadBuffer, ReadEOF, vars, client, flags, pool,
     Control, CancelPhase
<1>2. CASE CancelOperation \/ Reset
  BY <1>2, Zenon DEF CancelOperation, Reset, ResetFails, pool, flags, Control, CancelPhase, Phase, ClientBreak
<1>3. CASE CheckStored \/ CheckRead \/ CheckTimeout
  BY <1>3, Zenon DEF CheckStored, CheckRead, CheckTimeout, client, flags, pool, Control, CancelPhase
<1>4. CASE ServerSide
  BY <1>4, ServerLeavesClient DEF Quiet, client, flags, pool, Control, CancelPhase
<1>5. CASE RecvData \/ RecvNotification
  BY <1>5, Taken, Zenon DEF RecvData, RecvNotification, PacketReturned, pool, flags, Control, CancelPhase
<1>6. CASE RecvError \/ RecvClosed \/ RecvInterrupted
  <2>1. /\ ReceiveFails \/ (pc = "fill" /\ ~cancelling /\ ~isBreak /\ pc' = "cancel" /\ UNCHANGED <<pool, cancelling>>)
        /\ UNCHANGED <<resume, flags>> /\ (pending' = pending \/ pending' = <<>>)
        /\ pending = <<>> => pending' = <<>>
        /\ pc \in {"fill", "reset"} /\ (pc' = "cancel" => pending = <<>>)
    BY <1>6, Taken, Zenon DEF RecvError, RecvClosed, RecvInterrupted, ReceiveFails, ResetFails
  <2> QED  BY <2>1 DEF ReceiveFails, ResetFails, pool, flags, Control, CancelPhase
<1>7. CASE RecvBreak
  BY <1>7, Taken DEF RecvBreak, pool, Control, CancelPhase
<1>8. CASE RecvReset
  BY <1>8, Taken, ZenonT(30) DEF RecvReset, pool, Control, CancelPhase
<1> QED  BY <1>1, <1>2, <1>3, <1>4, <1>5, <1>6, <1>7, <1>8, Zenon DEF ClientSide, ClientSteps, Receive


\* The client's own steps.
LEMMA PhaseSend ==
  ASSUME TypeOK, Control, Phase,
         \/ Call \/ FlushOk \/ FlushFails \/ Consume \/ GiveUp \/ PrepareReadBuffer \/ ReadEOF \/ CancelOperation
         \/ Reset \/ CheckStored \/ UNCHANGED vars
  PROVE  Phase'
<1>1. CASE Call \/ Consume \/ GiveUp \/ PrepareReadBuffer \/ ReadEOF \/ CheckStored \/ UNCHANGED vars
  <2>1. /\ UNCHANGED <<isBreak, isReset, c2s, s2c, pending, srv, last, resume>> /\ (isValid' => isValid)
        /\ pc' = pc \/ (pc \notin {"sendReset", "reset"} /\ pc' \notin {"sendReset", "reset"})
    <3>1. CASE Call
      BY <3>1, Zenon DEF Call, flags, pool, server
    <3>2. CASE Consume
      BY <3>2, Zenon DEF Consume, flags, pool, server
    <3>3. CASE GiveUp
      BY <3>3, Zenon DEF GiveUp, flags, pool, server
    <3>4. CASE PrepareReadBuffer
      BY <3>4, Zenon DEF PrepareReadBuffer, flags, pool, server
    <3>5. CASE ReadEOF
      BY <3>5, Zenon DEF ReadEOF, flags, pool, server
    <3>6. CASE CheckStored
      BY <3>6, Zenon DEF CheckStored, client, flags, pool, server
    <3>7. CASE UNCHANGED vars
      BY <3>7, Zenon DEF vars, client, flags, pool, server
    <3> QED  BY <1>1, <3>1, <3>2, <3>3, <3>4, <3>5, <3>6, <3>7, Zenon
  <2> QED  BY <2>1, SMTT(30) DEF Phase, NoBreak, ServerBreak, ClientBreak, CancelPhase
<1>2. CASE FlushOk \/ FlushFails
  <2>1. /\ UNCHANGED <<isBreak, isReset, s2c, pending, srv, isValid>> /\ pc' \in {"read", "idle"} /\ pc = "flush"
        /\ c2s' = c2s \/ c2s' = Append(c2s, Req(snd)) \/ c2s' = Append(c2s, Ctl("torn"))
    BY <1>2, Zenon DEF FlushOk, FlushFails, flags, pool, server
  <2>2. ~isBreak
    BY <2>1, Zenon DEF Control
  <2>3. \A x \in {"interrupt", "reset"} : Without(c2s, x) => Without(c2s', x)
    BY <2>1, SentStream, Zenon
  <2> QED  BY <2>1, <2>2, <2>3, Zenon DEF Phase, NoBreak, CancelPhase
<1>3. CASE CancelOperation
  <2>1. CASE ~isValid'
    BY <2>1, Zenon DEF Phase
  <2>2. CASE isValid'
    <3>1. /\ pc = "cancel" /\ pc' = "sendReset" /\ isBreak' /\ resume' = "cancel" /\ isValid /\ ~isBreak
          /\ c2s' = Append(c2s, Ctl("interrupt")) /\ UNCHANGED s2c
      BY <1>3, <2>2, Zenon DEF CancelOperation, pool, Control
    <3>2. NoBreak
      BY <3>1, Zenon DEF Phase
    <3>3. Without(c2s', "reset")
      BY <3>1, <3>2, SentStream, Zenon DEF NoBreak
    <3>4. ClientBreak' /\ CancelPhase'
      BY <3>1, <3>2, <3>3, Zenon DEF ClientBreak, NoBreak, CancelPhase
    <3> QED  BY <3>1, <3>4, Zenon DEF Phase
  <2> QED  BY <2>1, <2>2, Zenon
<1>4. CASE Reset
  <2>1. CASE ~isValid'
    BY <2>1, Zenon DEF Phase
  <2>2. CASE isValid'
    <3>1. /\ isValid /\ pc = "sendReset" /\ UNCHANGED <<isBreak, isReset, resume, s2c, pending, srv, last>>
          /\ c2s' = c2s \/ c2s' = Append(c2s, Ctl("reset")) \/ c2s' = Append(c2s, Ctl("torn"))
          /\ \/ pc' = "reset" /\ c2s' = Append(c2s, Ctl("reset"))
             \/ pc' = "idle" /\ resume # "cancel"
      BY <1>4, <2>2, Zenon DEF Reset, ResetFails, pool, flags, server
    <3>2. isBreak /\ pending = <<>>
      BY <3>1, Zenon DEF Phase, NoBreak, Control
    <3>3. /\ Without(c2s, "reset") => LastOnly(c2s', "reset")
          /\ Without(c2s, "interrupt") => Without(c2s', "interrupt")
      BY <3>1, SentStream, WithoutLast, Zenon
    <3>4. Without(pending, "reset")
      BY <3>2, EmptyStream, Zenon
    <3>5. CASE CancelPhase
      BY <3>1, <3>2, <3>3, <3>5, Zenon DEF Phase, ClientBreak, CancelPhase
    <3>6. CASE ~CancelPhase
      <4>1. ServerBreak
        BY <3>1, <3>2, <3>6, Zenon DEF Phase
      <4>2. ServerBreak' /\ ~CancelPhase'
        BY <3>1, <3>3, <3>4, <3>6, <4>1, Zenon DEF ServerBreak, CancelPhase
      <4> QED  BY <3>1, <3>2, <4>2, Zenon DEF Phase
    <3> QED  BY <3>5, <3>6, Zenon
  <2> QED  BY <2>1, <2>2, Zenon
<1> QED  BY <1>1, <1>2, <1>3, <1>4, Zenon

\* recvPacket.
LEMMA PhaseReceive ==
  ASSUME TypeOK, Control, Phase, Receive \/ RecvInterrupted
  PROVE  Phase'
<1>1. CASE RecvData \/ RecvNotification \/ RecvError
  <2>1. PICK t \in {"data", "notification", "error", "torn"} : TakePacket(t)
    BY <1>1, Zenon DEF RecvData, RecvNotification, RecvError
  <2>2. /\ UNCHANGED <<isBreak, isReset, c2s, srv, last, resume>> /\ (isValid' => isValid)
        /\ \/ pc = "fill" /\ pc' \in {"read", "idle"}
           \/ pc = "reset" /\ pc' = "reset"
           \/ pc = "reset" /\ pc' = "idle" /\ resume # "cancel"
           \/ ~isValid'
    BY <1>1 DEF RecvData, RecvNotification, RecvError, PacketReturned, ReceiveFails, ResetFails, flags, server, pool
  <2>3. t # "reset"
    BY <2>1, Zenon
  <2>4. pc = "reset" => pending = <<>>
    BY Zenon DEF Control
  <2>5. /\ Without(pending', "break") /\ Without(pending', "reset")
        /\ Without(s2c, "break") => Without(s2c', "break")
        /\ Without(s2c, "reset") => Without(s2c', "reset")
        /\ Once(s2c, "break") => Once(s2c', "break")
        /\ Once(s2c, "reset") => Once(s2c', "reset")
        /\ pending = <<>> /\ ResetAnswer(s2c, last, NotReset) => ResetAnswer(s2c', last, NotReset)
    BY <2>1, <2>3, TakenStream, Zenon DEF Kinds
  <2> QED  BY <2>2, <2>4, <2>5, Zenon DEF Phase, NoBreak, ServerBreak, ClientBreak, CancelPhase
<1>2. CASE RecvBreak
  <2>1. CASE ~isValid
    BY <1>2, <2>1 DEF RecvBreak, Phase, pool
  <2>2. CASE isValid
    <3>1. /\ Without(pending', "break") /\ Without(pending', "reset")
          /\ ~(Without(s2c, "break") /\ Without(pending, "break"))
          /\ Once(s2c, "break") /\ (Without(s2c, "break") \/ Without(pending, "break")) => Without(s2c', "break")
          /\ Without(s2c, "reset") => Without(s2c', "reset")
          /\ pending = <<>> /\ ResetAnswer(s2c, last, NotReset) => ResetAnswer(s2c', last, NotReset)
      BY <1>2, TakenStream DEF Kinds, RecvBreak
    <3>2. pc = "reset" => pending = <<>>
      BY Zenon DEF Control
    <3>3. CASE CancelPhase
      <4>1. ClientBreak /\ pc = "reset"
        BY <1>2, <2>2, <3>3, Zenon DEF Phase, RecvBreak, TakePacket, CancelPhase
      <4>2. isBreak' /\ UNCHANGED <<pc, resume, c2s, srv, last>>
        BY <1>2, <4>1, Zenon DEF RecvBreak, server
      <4>3. ClientBreak' /\ CancelPhase'
        BY <3>1, <3>2, <3>3, <4>1, <4>2, Zenon DEF ClientBreak, CancelPhase
      <4> QED  BY <4>2, <4>3, Zenon DEF Phase
    <3>4. CASE ~CancelPhase
      <4>1. ~isBreak /\ NoBreak
        BY <2>2, <3>1, <3>4, Zenon DEF Phase, ServerBreak
      <4>2. /\ isBreak' /\ UNCHANGED <<c2s, srv>>
            /\ pc' = "idle" \/ (pc' = "sendReset" /\ resume' = "fill")
        BY <1>2, <4>1, Zenon DEF RecvBreak, server, NoBreak
      <4>3. LastOnly(c2s, "reset") /\ Once(s2c', "reset") /\ Without(s2c', "reset")
        BY <3>1, <4>1, WithoutLast, Zenon DEF NoBreak
      <4>4. ServerBreak' /\ ~CancelPhase'
        BY <3>1, <4>1, <4>2, <4>3, Zenon DEF NoBreak, ServerBreak, CancelPhase
      <4> QED  BY <4>2, <4>4, Zenon DEF Phase
    <3> QED  BY <3>3, <3>4, Zenon
  <2> QED  BY <2>1, <2>2, Zenon
<1>3. CASE RecvReset
  <2>0. isValid' = isValid
    BY <1>3, Zenon DEF RecvReset
  <2>1. CASE ~isValid
    BY <2>0, <2>1, Zenon DEF Phase
  <2>2. CASE isValid
    <3>1. /\ Without(pending', "break") /\ Without(pending', "reset")
          /\ ~(Without(s2c, "reset") /\ Without(pending, "reset"))
          /\ Once(s2c, "reset") /\ (Without(s2c, "reset") \/ Without(pending, "reset")) => Without(s2c', "reset")
          /\ Without(s2c, "break") => Without(s2c', "break")
          /\ pending = <<>> /\ ResetAnswer(s2c, last, NotReset) => Without(s2c', "break") /\ Without(s2c', "reset")
      BY <1>3, TakenStream, Zenon DEF Kinds, RecvReset
    <3>2. isBreak
      BY <2>2, <3>1, Zenon DEF Phase, NoBreak
    <3>3. pending = <<>> => Without(pending, "reset")
      BY EmptyStream, Zenon
    <3>4. /\ c2s = <<>> /\ Without(s2c', "reset") /\ Without(s2c', "break")
          /\ srv \in {"break", "closed", "idle"}
      <4>1. CASE CancelPhase
        <5>1. ClientBreak /\ pc = "reset" /\ pending = <<>>
          BY <1>3, <2>2, <4>1, Zenon DEF Phase, RecvReset, TakePacket, CancelPhase, Control
        <5> QED  BY <3>1, <3>3, <5>1, Zenon DEF ClientBreak
      <4>2. CASE ~CancelPhase
        BY <2>2, <3>1, <3>2, <4>2, Zenon DEF Phase, ServerBreak
      <4> QED  BY <4>1, <4>2, Zenon
    <3>5. \A x \in {"interrupt", "reset"} : Without(<<>>, x) /\ LastOnly(<<>>, x)
      BY EmptyStream, Zenon
    <3>6. Once(s2c', "break") /\ Once(s2c', "reset")
      BY <3>4, WithoutLast, Zenon
    <3>7. UNCHANGED <<c2s, srv>>
      BY <1>3, Zenon DEF RecvReset, server
    <3>8. CASE pc = "reset"
      <4>1. ~isBreak' /\ ~isReset' /\ pc' \in {"read", "fill"}
        BY <1>3, <3>8, Zenon DEF RecvReset
      <4>2. NoBreak'
        BY <3>1, <3>4, <3>5, <3>6, <3>7, <4>1, Zenon DEF NoBreak
      <4>3. ~CancelPhase'
        BY <4>1, Zenon DEF CancelPhase
      <4> QED  BY <4>1, <4>2, <4>3, Zenon DEF Phase
    <3>9. CASE pc # "reset"
      <4>1. isBreak' /\ pc' = "idle" /\ pc = "fill"
        BY <1>3, <3>9, Zenon DEF RecvReset, TakePacket
      <4>2. ServerBreak /\ ~CancelPhase'
        BY <2>2, <3>2, <4>1, Zenon DEF Phase, CancelPhase
      <4>3. ServerBreak'
        BY <3>1, <3>4, <3>5, <3>6, <3>7, <4>1, <4>2, Zenon DEF ServerBreak
      <4> QED  BY <4>1, <4>2, <4>3, Zenon DEF Phase
    <3> QED  BY <3>8, <3>9, Zenon
  <2> QED  BY <2>1, <2>2, Zenon
<1>4. CASE RecvClosed \/ RecvInterrupted
  <2>1. /\ UNCHANGED <<isBreak, isReset, c2s, srv, last, resume, pending>> /\ (isValid' => isValid)
        /\ \/ pc = "fill" /\ pc' \in {"cancel", "idle"}
           \/ pc = "reset" /\ pc' = "idle" /\ resume # "cancel"
           \/ ~isValid'
    BY <1>4, Zenon DEF RecvClosed, RecvInterrupted, ReceiveFails, ResetFails, flags, server, pool
  <2>2. /\ Without(s2c, "break") => Without(s2c', "break")
        /\ Without(s2c, "reset") => Without(s2c', "reset")
        /\ Once(s2c, "break") => Once(s2c', "break")
        /\ Once(s2c, "reset") => Once(s2c', "reset")
    <3>1. CASE RecvClosed
      BY <3>1, Zenon DEF RecvClosed
    <3>2. CASE RecvInterrupted
      <4>1. s2c \in Seq(Packet) /\ Interrupted
        BY <3>2, Zenon DEF RecvInterrupted, TypeOK, StreamOK
      <4> QED  BY <4>1, Interruption, Zenon DEF PacketTypes
    <3> QED  BY <1>4, <3>1, <3>2, Zenon
  <2> QED  BY <2>1, <2>2, Zenon DEF Phase, NoBreak, ServerBreak, ClientBreak, CancelPhase
<1> QED  BY <1>1, <1>2, <1>3, <1>4, Zenon DEF Receive


\* CheckInbandNotification.
LEMMA PhaseCheck ==
  ASSUME TypeOK, Phase, CheckRead \/ CheckTimeout
  PROVE  Phase'
<1>0. /\ UNCHANGED <<isBreak, isReset, c2s, srv, last, resume, pc>> /\ (isValid' => isValid) /\ pc = "idle"
      /\ s2c \in Seq(Packet) /\ s2c # <<>>
  BY Zenon DEF CheckRead, CheckTimeout, flags, server, pool, client, TypeOK, StreamOK
<1>1. CASE CheckTimeout
  <2>1. /\ Without(s2c, "break") => Without(s2c', "break")
        /\ Without(s2c, "reset") => Without(s2c', "reset")
        /\ Once(s2c, "break") => Once(s2c', "break")
        /\ Once(s2c, "reset") => Once(s2c', "reset")
        /\ pending' = pending
    BY <1>0, <1>1, Interruption, Zenon DEF PacketTypes, CheckTimeout
  <2> QED  BY <1>0, <2>1, Zenon DEF Phase, NoBreak, ServerBreak, CancelPhase
<1>2. CASE CheckRead
  <2>1. /\ s2c' = Tail(s2c)
        /\ pending' = pending \/ pending' = <<Head(s2c)>>
    BY <1>2, Zenon DEF CheckRead
  <2>2. ASSUME NEW x \in Kinds
        PROVE  /\ Without(s2c, x) => Without(s2c', x) /\ (Without(pending, x) => Without(pending', x))
               /\ Once(s2c, x) => Once(s2c', x)
               /\ ~Without(pending', x) => ~Without(pending, x) \/ ~Without(s2c, x)
               /\ Once(s2c, x) /\ (Without(pending, x) \/ Without(s2c, x)) => Without(pending', x) \/ Without(s2c', x)
    <3>1. /\ Without(s2c, x) => Head(s2c).t # x /\ Without(s2c', x)
          /\ Once(s2c, x) => Once(s2c', x) /\ (Head(s2c).t = x => Without(s2c', x))
      BY <1>0, <2>1, StreamTail, ZenonT(30)
    <3>2. Without(<<Head(s2c)>>, x) <=> Head(s2c).t # x
      BY Singleton, Zenon
    <3>3. CASE pending' = pending
      BY <3>1, <3>3, Zenon
    <3>4. CASE pending' = <<Head(s2c)>>
      BY <3>1, <3>2, <3>4, Zenon
    <3> QED  BY <2>1, <3>3, <3>4, Zenon
  <2>3. /\ Without(s2c, "break") => Without(s2c', "break") /\ (Without(pending, "break") => Without(pending', "break"))
        /\ Without(s2c, "reset") => Without(s2c', "reset") /\ (Without(pending, "reset") => Without(pending', "reset"))
        /\ Once(s2c, "break") => Once(s2c', "break")
        /\ Once(s2c, "reset") => Once(s2c', "reset")
        /\ ~Without(pending', "break") => ~Without(pending, "break") \/ ~Without(s2c, "break")
        /\ ~Without(pending', "reset") => ~Without(pending, "reset") \/ ~Without(s2c, "reset")
        /\ Once(s2c, "break") /\ (Without(pending, "break") \/ Without(s2c, "break"))
             => Without(pending', "break") \/ Without(s2c', "break")
        /\ Once(s2c, "reset") /\ (Without(pending, "reset") \/ Without(s2c, "reset"))
             => Without(pending', "reset") \/ Without(s2c', "reset")
    BY <2>2, Zenon DEF Kinds
  <2> QED  BY <1>0, <2>3, Zenon DEF Phase, NoBreak, ServerBreak, CancelPhase
<1> QED  BY <1>1, <1>2, Zenon

\* The server's steps.
LEMMA PhaseServer ==
  ASSUME TypeOK, Phase, ServerSide
  PROVE  Phase'
<1>0. UNCHANGED <<isBreak, isReset, pending, resume, pc, isValid>>
  BY ServerLeavesClient, Zenon DEF Quiet, client, flags, pool
<1>1. s2c \in Seq(Packet) /\ last \in 0 .. MaxCalls /\ c2s \in Seq(Sent)
  BY Zenon DEF TypeOK, StreamOK, ServerOK, OutOK
<1>2. ASSUME c2s # <<>>, c2s' = Tail(c2s)
      PROVE  /\ Without(c2s, "interrupt") => Head(c2s).t # "interrupt" /\ Without(c2s', "interrupt")
             /\ Without(c2s, "reset") => Head(c2s).t # "reset" /\ Without(c2s', "reset")
             /\ LastOnly(c2s, "reset") => LastOnly(c2s', "reset") /\ (Head(c2s).t = "reset" => c2s' = <<>>)
  BY <1>2, ServedStream, Zenon
<1>3. ASSUME NEW p \in Packet, s2c' = Append(s2c, p)
      PROVE  /\ p.t # "break" => /\ Without(s2c, "break") => Without(s2c', "break")
                                 /\ Once(s2c, "break") => Once(s2c', "break")
             /\ p.t # "reset" => /\ Without(s2c, "reset") => Without(s2c', "reset")
                                 /\ Once(s2c, "reset") => Once(s2c', "reset")
             /\ Without(s2c, "break") => Once(s2c', "break")
             /\ p.t \in Noise /\ ResetAnswer(s2c, last, NotReset) => ResetAnswer(s2c', last, NotReset)
  <2>1. "reset" \notin NotReset
    BY Zenon DEF NotReset
  <2> QED  BY <1>1, <1>3, <2>1, ArrivingStream, ResetStream, Zenon DEF Kinds
<1>4. \A t \in PacketTypes : Pkt(t) \in Packet /\ Pkt(t).t = t
  BY PacketTypesOK, Zenon
<1>5. srv = "exec" => \A b \in BOOLEAN : Data(Head(work), b) \in Packet /\ Data(Head(work), b).t = "data"
  <2>1. srv = "exec" => Head(work) \in 0 .. MaxCalls
    BY Tailed, BoundsAssumption DEF TypeOK, ServerOK, Calls
  <2> QED  BY <2>1, PacketTypesOK, Zenon
<1>6. CASE ServerTakes
  <2>1. /\ srv = "idle" /\ srv' = "exec" /\ c2s # <<>> /\ c2s' = Tail(c2s) /\ s2c' = s2c
    BY <1>6, Zenon DEF ServerTakes, Start
  <2> QED  BY <1>0, <1>2, <2>1, Zenon DEF Phase, NoBreak, ServerBreak, ClientBreak, CancelPhase
<1>7. CASE ServerSends \/ ServerEnds
  <2>1. /\ srv = "exec" /\ srv' \in {"exec", "idle"} /\ c2s' = c2s
        /\ \E b \in BOOLEAN : s2c' = Append(s2c, Data(Head(work), b))
    BY <1>7, Zenon DEF ServerSends, ServerEnds, Start
  <2>2. /\ Without(s2c, "break") => Without(s2c', "break")
        /\ Without(s2c, "reset") => Without(s2c', "reset")
        /\ Once(s2c, "break") => Once(s2c', "break")
    BY <1>3, <1>5, <2>1, Zenon
  <2> QED  BY <1>0, <2>1, <2>2, Zenon DEF Phase, NoBreak, ServerBreak, ClientBreak, CancelPhase
<1>8. CASE ServerRaises
  <2>1. srv = "exec" /\ srv' = "break" /\ c2s' = c2s /\ s2c' = Append(s2c, Pkt("break"))
    BY <1>8, Zenon DEF ServerRaises
  <2>2. Pkt("break") \in Packet /\ Pkt("break").t = "break"
    BY <1>4, Zenon DEF PacketTypes
  <2>3. /\ Without(s2c, "reset") => Without(s2c', "reset")
        /\ Without(s2c, "break") => Once(s2c', "break")
    BY <1>3, <2>1, <2>2, Zenon
  <2> QED  BY <1>0, <2>1, <2>3, Zenon DEF Phase, NoBreak, ServerBreak, ClientBreak, CancelPhase
<1>9. CASE ServerInterrupted
  <2>1. /\ c2s # <<>> /\ Head(c2s).t = "interrupt" /\ c2s' = Tail(c2s)
        /\ s2c' = s2c \/ s2c' = Append(s2c, Pkt("break"))
    BY <1>9, Zenon DEF ServerInterrupted
  <2>2. Without(s2c, "reset") => Without(s2c', "reset")
    <3>1. Pkt("break") \in Packet /\ Pkt("break").t = "break"
      BY <1>4, Zenon DEF PacketTypes
    <3> QED  BY <1>3, <2>1, <3>1, Zenon
  <2> QED  BY <1>0, <1>2, <2>1, <2>2, Zenon DEF Phase, NoBreak, ServerBreak, ClientBreak, CancelPhase
<1>10. CASE ServerDiscards
  <2>1. srv = "break" /\ srv' = "break" /\ c2s # <<>> /\ c2s' = Tail(c2s) /\ s2c' = s2c
    BY <1>10, Zenon DEF ServerDiscards, server
  <2> QED  BY <1>0, <1>2, <2>1, Zenon DEF Phase, NoBreak, ServerBreak, ClientBreak, CancelPhase
<1>11. CASE ServerResets
  <2>1. /\ srv # "closed" /\ srv' = "idle" /\ c2s # <<>> /\ Head(c2s).t = "reset" /\ c2s' = Tail(c2s) /\ last' = last
        /\ s2c' = s2c \o <<Pkt("reset"), Data(last, TRUE)>>
    BY <1>11, Zenon DEF ServerResets
  <2>2. /\ Without(s2c, "reset") => ResetAnswer(s2c', last', NotReset) /\ Once(s2c', "reset")
        /\ Without(s2c, "break") => Without(s2c', "break")
    <3>1. Without(s2c, "reset") => Only(s2c, NotReset)
      <4>1. DOMAIN s2c = 1 .. Len(s2c) /\ \A i \in 1 .. Len(s2c) : s2c[i] \in Packet
        BY <1>1, Elements, Zenon
      <4>2. \A p \in Packet : p.t \in PacketTypes
        BY Zenon DEF Packet
      <4> QED  BY <4>1, <4>2, Zenon DEF Without, Only, NotReset
    <3> QED  BY <1>1, <2>1, <3>1, ServerAnswersReset, Zenon
  <2>3. Without(<<>>, "interrupt") /\ LastOnly(<<>>, "reset")
    BY EmptyStream, Zenon
  <2> QED  BY <1>0, <1>2, <2>1, <2>2, <2>3, Zenon DEF Phase, NoBreak, ServerBreak, ClientBreak, CancelPhase
<1>12. CASE ServerCloses
  <2>1. c2s' = <<>> /\ srv' = "closed" /\ s2c' = s2c /\ last' = last /\ c2s # <<>>
    BY <1>12, Zenon DEF ServerCloses
  <2>2. Without(<<>>, "interrupt") /\ LastOnly(<<>>, "reset") /\ Without(<<>>, "reset")
    BY EmptyStream, Zenon
  <2> QED  BY <1>0, <2>1, <2>2, Zenon DEF Phase, NoBreak, ServerBreak, ClientBreak, CancelPhase
<1>13. CASE ServerNotifies
  <2>1. PICK t \in {"notification", "error"} : s2c' = Append(s2c, Pkt(t))
    BY <1>13, Zenon DEF ServerNotifies
  <2>2. c2s' = c2s /\ srv' = srv /\ last' = last
    BY <1>13, Zenon DEF ServerNotifies
  <2>3. Pkt(t) \in Packet /\ Pkt(t).t \in Noise
    BY <1>4, Zenon DEF PacketTypes, Noise
  <2>4. Pkt(t).t # "break" /\ Pkt(t).t # "reset"
    BY <2>3, Zenon DEF Noise
  <2>5. /\ Without(s2c, "break") => Without(s2c', "break")
        /\ Without(s2c, "reset") => Without(s2c', "reset")
        /\ Once(s2c, "break") => Once(s2c', "break")
        /\ Once(s2c, "reset") => Once(s2c', "reset")
        /\ ResetAnswer(s2c, last, NotReset) => ResetAnswer(s2c', last', NotReset)
    BY <1>3, <2>1, <2>2, <2>3, <2>4, Zenon
  <2> QED  BY <1>0, <2>2, <2>5, Zenon DEF Phase, NoBreak, ServerBreak, ClientBreak, CancelPhase
<1> QED  BY <1>6, <1>7, <1>8, <1>9, <1>10, <1>11, <1>12, <1>13, Zenon DEF ServerSide, ServerSteps

LEMMA MarkersKept ==
  ASSUME TypeOK, Markers, [Next]_vars
  PROVE  Markers'
<1>1. Control /\ Phase
  BY MarkersSplit, Zenon
<1>2. ClientSide \/ ServerSide
  BY NextSides, Zenon
<1>3. Control'
  BY <1>1, <1>2, ControlKept, Zenon
<1>4. Phase'
  BY <1>1, <1>2, PhaseSend, PhaseReceive, PhaseCheck, PhaseServer, Zenon DEF ClientSide, ClientSteps
<1>5. (Markers <=> Control /\ Phase)'
  BY MarkersSplit, PTL
<1> QED  BY <1>3, <1>4, <1>5, Zenon

=============================================================================
