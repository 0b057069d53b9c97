---------------------------- MODULE RmCanProofs ----------------------------
(***************************************************************************)
(* Theorems about the packet layer for any sources, any width of the packet *)
(* ids, any distance TimeOutId at which a packet is abandoned, and any       *)
(* number of packets and faults.                                            *)
(***************************************************************************)
EXTENDS RmCan, TLAPS, FiniteSetTheorems, SequenceTheorems

-----------------------------------------------------------------------------
(* Types. *)

LEMMA FrameFields ==
    ASSUME NEW f \in Frame
    PROVE  /\ f.packet_SN \in Nat /\ f.sum \in Nat /\ f.sum =< MaxSum /\ f.of \in Nat
           /\ f.packet_id \in Ids
  <1>1. f.packet_SN \in 0 .. MaxSum /\ f.sum \in 0 .. MaxSum /\ f.of \in Nat /\ f.packet_id \in Ids
    BY DEF Frame
  <1> QED
    BY <1>1, RmCanAssumption

LEMMA FragmentsType ==
    ASSUME NEW s \in Sources, NEW n \in Nat, NEW id \in Ids, NEW sum \in 0 .. MaxSum
    PROVE  Fragments(s, n, id, sum) \in Seq(Frame)
  <1>1. \A i \in 1 .. sum + 1 :
            [s_id |-> s, packet_id |-> id, packet_SN |-> i - 1, sum |-> sum, of |-> n] \in Frame
    BY RmCanAssumption DEF Frame
  <1>2. sum + 1 \in Nat
    BY RmCanAssumption
  <1> QED
    BY <1>1, <1>2, IsASeq DEF Fragments

LEMMA SortedType ==
    ASSUME NEW v \in Seq(Frame), NEW w \in Sorted(v)
    PROVE  w \in Seq(Frame) /\ Len(w) = Len(v)
  <1>1. PICK p \in [1 .. Len(v) -> 1 .. Len(v)] : w = [i \in 1 .. Len(v) |-> v[p[i]]]
    BY DEF Sorted
  <1>2. \A i \in 1 .. Len(v) : v[p[i]] \in Frame
    OBVIOUS
  <1> QED
    BY <1>1, <1>2, IsASeq

LEMMA NextId ==
    ASSUME NEW id \in Int
    PROVE  id % U8 \in Ids
  BY RmCanAssumption DEF Ids

-----------------------------------------------------------------------------
(* Arithmetic of packet ids. *)

LEMMA SmallMod ==
    ASSUME NEW n \in Nat, n < U8
    PROVE  n % U8 = n
  BY RmCanAssumption

LEMMA Division ==
    ASSUME NEW n \in Int
    PROVE  n = (n \div U8) * U8 + (n % U8) /\ n \div U8 \in Int /\ n % U8 \in 0 .. U8 - 1
  BY RmCanAssumption

LEMMA FullTurns ==
    ASSUME NEW a \in Int, NEW b \in Int, a * U8 - b * U8 < U8, b * U8 - a * U8 < U8
    PROVE  a = b
  <1>1. ASSUME NEW x \in Int, NEW y \in Int, x >= y + 1
        PROVE  x * U8 - y * U8 >= U8
    <2>1. x * U8 - y * U8 = (x - y) * U8
      BY RmCanAssumption
    <2>2. (x - y) * U8 >= 1 * U8
      BY <1>1, RmCanAssumption
    <2> QED
      BY <2>1, <2>2, RmCanAssumption
  <1>2. CASE a >= b + 1
    BY <1>1, <1>2, RmCanAssumption
  <1>3. CASE b >= a + 1
    BY <1>1, <1>3, RmCanAssumption
  <1> QED
    BY <1>2, <1>3

LEMMA UniqueRemainder ==
    ASSUME NEW n \in Int, NEW q \in Int, NEW r \in 0 .. U8 - 1, n = q * U8 + r
    PROVE  n % U8 = r
  <1> DEFINE a == n \div U8
             aU == a * U8
             qU == q * U8
  <1>1. a \in Int /\ n = aU + (n % U8) /\ n % U8 \in 0 .. U8 - 1
    BY Division
  <1>2. aU \in Int /\ qU \in Int /\ n = qU + r
    BY <1>1, RmCanAssumption
  <1>3. aU - qU < U8 /\ qU - aU < U8
    <2> HIDE DEF aU, qU
    <2> QED
      BY <1>1, <1>2, RmCanAssumption
  <1>4. a = q
    BY <1>1, <1>3, FullTurns
  <1>5. aU = qU
    BY <1>4
  <1> HIDE DEF aU, qU
  <1> QED
    BY <1>1, <1>2, <1>5, RmCanAssumption

\* Numbers less than U8 apart with the same id are equal.
LEMMA SameId ==
    ASSUME NEW m \in Nat, NEW n \in Nat, m =< n, n - m < U8, m % U8 = n % U8
    PROVE  m = n
  <1> DEFINE a == m \div U8
             b == n \div U8
             aU == a * U8
             bU == b * U8
  <1>1. a \in Int /\ m = aU + (m % U8) /\ m % U8 \in 0 .. U8 - 1
    BY Division
  <1>2. b \in Int /\ n = bU + (n % U8)
    BY Division
  <1>3. aU \in Int /\ bU \in Int
    BY <1>1, <1>2, RmCanAssumption
  <1>4. aU - bU < U8 /\ bU - aU < U8
    <2> HIDE DEF aU, bU
    <2> QED
      BY <1>1, <1>2, <1>3, RmCanAssumption
  <1>5. a = b
    BY <1>1, <1>2, <1>4, FullTurns
  <1>6. aU = bU
    BY <1>5
  <1> HIDE DEF aU, bU
  <1> QED
    BY <1>1, <1>2, <1>6

\* Adding k to a number or to its id gives the same id.
LEMMA IdStep ==
    ASSUME NEW n \in Int, NEW k \in Int
    PROVE  ((n % U8) + k) % U8 = (n + k) % U8
  <1> DEFINE a == n \div U8
             j == (n % U8) + k
             b == j \div U8
  <1>1. a \in Int /\ n = a * U8 + (n % U8) /\ n % U8 \in 0 .. U8 - 1
    BY Division
  <1>2. j \in Int
    BY <1>1
  <1>3. b \in Int /\ j = b * U8 + (j % U8) /\ j % U8 \in 0 .. U8 - 1
    BY <1>2, Division
  <1>4. a * U8 + b * U8 = (a + b) * U8
    BY <1>1, <1>3, RmCanAssumption
  <1>5. a * U8 \in Int /\ b * U8 \in Int
    BY <1>1, <1>3, RmCanAssumption
  <1>6. n + k = a * U8 + j
    BY <1>1, <1>5
  <1>7. n + k = (a + b) * U8 + (j % U8)
    BY <1>3, <1>4, <1>5, <1>6
  <1>8. a + b \in Int /\ n + k \in Int
    BY <1>1, <1>3
  <1> HIDE DEF a, b, j
  <1>9. (n + k) % U8 = j % U8
    BY <1>3, <1>7, <1>8, UniqueRemainder
  <1> QED
    BY <1>9 DEF j

\* The id that the first fragment of packet n drops is that of the packet
\* U8 - TimeOutId before it.
LEMMA DroppedId ==
    ASSUME NEW m \in Nat, NEW n \in Nat, m = n - (U8 - TimeOutId)
    PROVE  m % U8 = ((n % U8) + TimeOutId) % U8
  <1>1. ((n % U8) + TimeOutId) % U8 = (n + TimeOutId) % U8
    <2>1. n \in Int /\ TimeOutId \in Int
      BY RmCanAssumption
    <2> QED
      BY <2>1, IdStep
  <1>2. (m + U8) % U8 = m % U8
    <2> DEFINE a == m \div U8
               aU == a * U8
    <2>1. a \in Int /\ m = aU + (m % U8) /\ m % U8 \in 0 .. U8 - 1
      BY Division
    <2>2. (a + 1) * U8 = aU + U8 /\ aU \in Int
      BY <2>1, RmCanAssumption
    <2>3. m + U8 = (a + 1) * U8 + (m % U8)
      BY <2>1, <2>2, RmCanAssumption
    <2>4. a + 1 \in Int /\ m + U8 \in Int
      BY <2>1, RmCanAssumption
    <2> HIDE DEF a
    <2> QED
      BY <2>1, <2>3, <2>4, UniqueRemainder
  <1>3. n + TimeOutId = m + U8
    BY RmCanAssumption
  <1> QED
    BY <1>1, <1>2, <1>3

-----------------------------------------------------------------------------
(* Type correctness. *)

LEMMA InitType == Init => TypeOK
  <1>1. 0 \in Ids
    BY RmCanAssumption DEF Ids
  <1> QED
    BY <1>1 DEF Init, TypeOK

\* The frame a step of the receive thread takes.
LEMMA HeadType ==
    ASSUME TypeOK, NEW s \in Sources, bus[s] # <<>>
    PROVE  /\ Head(bus[s]) \in Frame /\ Tail(bus[s]) \in Seq(Frame)
           /\ Head(bus[s]).packet_id \in Ids /\ Head(bus[s]).of \in Nat
           /\ Head(bus[s]).sum \in 0 .. MaxSum
           /\ Collected(s, Head(bus[s])) \in Seq(Frame)
  <1>1. Head(bus[s]) \in Frame /\ Tail(bus[s]) \in Seq(Frame)
    BY DEF TypeOK
  <1>2. Head(bus[s]).packet_id \in Ids /\ Head(bus[s]).of \in Nat
        /\ Head(bus[s]).sum \in 0 .. MaxSum
    BY <1>1 DEF Frame
  <1> QED
    BY <1>1, <1>2 DEF Collected, TypeOK

LEMMA NoteType ==
    ASSUME TypeOK, NEW s \in Sources, bus[s] # <<>>, Note(s, Head(bus[s]))
    PROVE  last' \in [Sources -> Int] /\ skipped' \in [Sources -> BOOLEAN]
  BY HeadType DEF Note, TypeOK

LEMMA TypeStep == TypeOK /\ [Next]_vars => TypeOK'
  <1> SUFFICES ASSUME TypeOK, [Next]_vars
               PROVE  TypeOK'
    OBVIOUS
  <1>1. ASSUME NEW s \in Sources, NEW sum \in 1 .. MaxSum, SendFragmented(s, sum)
        PROVE  TypeOK'
    <2>1. Fragments(s, sent[s], g_PacketsId[s], sum) \in Seq(Frame)
      BY FragmentsType DEF TypeOK
    <2>2. (g_PacketsId[s] + 1) % U8 \in Ids
      <3>1. g_PacketsId[s] + 1 \in Int
        BY DEF TypeOK, Ids
      <3> QED
        BY <3>1, NextId
    <2> QED
      BY <1>1, <2>1, <2>2 DEF SendFragmented, TypeOK, receiver
  <1>2. ASSUME NEW s \in Sources, SendWhole(s)
        PROVE  TypeOK'
    <2>1. 0 \in Ids /\ 0 \in 0 .. MaxSum
      BY RmCanAssumption DEF Ids
    <2>2. Fragments(s, sent[s], 0, 0) \in Seq(Frame)
      BY <2>1, FragmentsType DEF TypeOK
    <2> QED
      BY <1>2, <2>2 DEF SendWhole, TypeOK, receiver
  <1>3. ASSUME NEW s \in Sources, WriteFrame(s)
        PROVE  TypeOK'
    <2>1. Head(out[s]) \in Frame /\ Tail(out[s]) \in Seq(Frame)
      BY <1>3 DEF WriteFrame, TypeOK
    <2>2. Append(bus[s], Head(out[s])) \in Seq(Frame)
      BY <2>1 DEF TypeOK
    <2>3. bus' \in [Sources -> Seq(Frame)] /\ out' \in [Sources -> Seq(Frame)]
      BY <1>3, <2>1, <2>2 DEF WriteFrame, TypeOK
    <2> QED
      BY <1>3, <2>3 DEF WriteFrame, TypeOK, receiver
  <1>4. ASSUME NEW s \in Sources, WriteError(s)
        PROVE  TypeOK'
    BY <1>4 DEF WriteError, TypeOK, receiver
  <1>5. ASSUME NEW s \in Sources, RecvWhole(s)
        PROVE  TypeOK'
    <2>1. [src |-> s, data |-> <<Head(bus[s])>>] \in Packet
      BY <1>5, HeadType DEF RecvWhole, Packet
    <2> QED
      BY <1>5, <2>1, HeadType DEF RecvWhole, TypeOK, sender
  <1>6. ASSUME NEW s \in Sources, RecvFirst(s)
        PROVE  TypeOK'
    <2>1. bus[s] # <<>> /\ Note(s, Head(bus[s]))
      BY <1>6 DEF RecvFirst
    <2>2. <<Head(bus[s])>> \in Seq(Frame)
      BY <2>1, HeadType
    <2>3. InCompletePackets' \in [Sources -> [Ids -> Seq(Frame)]]
      <3> DEFINE f == Head(bus[s])
                 old == (f.packet_id + TimeOutId) % U8
                 entries == [[InCompletePackets[s] EXCEPT ![old] = <<>>]
                                EXCEPT ![f.packet_id] = <<f>>]
      <3>1. <<>> \in Seq(Frame) /\ InCompletePackets[s] \in [Ids -> Seq(Frame)]
        BY DEF TypeOK
      <3>2. entries \in [Ids -> Seq(Frame)]
        BY <2>2, <3>1
      <3>3. InCompletePackets' = [InCompletePackets EXCEPT ![s] = entries]
        BY <1>6 DEF RecvFirst
      <3> HIDE DEF entries
      <3> QED
        BY <3>2, <3>3 DEF TypeOK
    <2>4. bus' \in [Sources -> Seq(Frame)]
      BY <1>6, <2>1, HeadType DEF RecvFirst, TypeOK
    <2> QED
      BY <1>6, <2>1, <2>3, <2>4, NoteType DEF RecvFirst, TypeOK, sender
  <1>7. ASSUME NEW s \in Sources, RecvMore(s)
        PROVE  TypeOK'
    <2>1. bus[s] # <<>> /\ Note(s, Head(bus[s]))
      BY <1>7 DEF RecvMore
    <2>2. Append(Collected(s, Head(bus[s])), Head(bus[s])) \in Seq(Frame)
      BY <2>1, HeadType
    <2>3. InCompletePackets' \in [Sources -> [Ids -> Seq(Frame)]]
      BY <1>7, <2>2 DEF RecvMore, TypeOK
    <2>4. bus' \in [Sources -> Seq(Frame)]
      BY <1>7, <2>1, HeadType DEF RecvMore, TypeOK
    <2> QED
      BY <1>7, <2>1, <2>3, <2>4, NoteType DEF RecvMore, TypeOK, sender
  <1>8. ASSUME NEW s \in Sources, RecvLast(s)
        PROVE  TypeOK'
    <2>1. bus[s] # <<>> /\ Note(s, Head(bus[s]))
      BY <1>8 DEF RecvLast
    <2> DEFINE v == Append(Collected(s, Head(bus[s])), Head(bus[s]))
    <2>2. v \in Seq(Frame)
      BY <2>1, HeadType
    <2>3. PICK w \in Sorted(v) : RecvList' = Append(RecvList, [src |-> s, data |-> w])
      BY <1>8 DEF RecvLast
    <2>4. [src |-> s, data |-> w] \in Packet
      BY <2>2, <2>3, SortedType DEF Packet
    <2>5. RecvList' \in Seq(Packet)
      BY <2>3, <2>4 DEF TypeOK
    <2>6. InCompletePackets' \in [Sources -> [Ids -> Seq(Frame)]]
      <3>1. <<>> \in Seq(Frame)
        OBVIOUS
      <3>2. InCompletePackets' = [InCompletePackets EXCEPT ![s][Head(bus[s]).packet_id] = <<>>]
        BY <1>8 DEF RecvLast
      <3> QED
        BY <3>1, <3>2 DEF TypeOK
    <2>7. bus' \in [Sources -> Seq(Frame)]
      BY <1>8, <2>1, HeadType DEF RecvLast, TypeOK
    <2> QED
      BY <1>8, <2>1, <2>5, <2>6, <2>7, NoteType DEF RecvLast, TypeOK, sender
  <1>9. ASSUME NEW s \in Sources, LoseFrame(s)
        PROVE  TypeOK'
    BY <1>9, HeadType DEF LoseFrame, TypeOK, sender, receiver
  <1>10. CASE Pop
    <2>1. Tail(RecvList) \in Seq(Packet)
      BY <1>10 DEF Pop, TypeOK
    <2> QED
      BY <1>10, <2>1 DEF Pop, TypeOK, sender
  <1>11. CASE UNCHANGED vars
    BY <1>11 DEF vars, sender, receiver, TypeOK
  <1> QED
    BY <1>1, <1>2, <1>3, <1>4, <1>5, <1>6, <1>7, <1>8, <1>9, <1>10, <1>11 DEF Next

(* Every variable of the packet layer keeps its type: in particular ids wrap  *)
(* within a byte and only frames of a source reach its packets.               *)
THEOREM LinkTypes == Spec => []TypeOK
  BY InitType, TypeStep, PTL DEF Spec

-----------------------------------------------------------------------------
(* Fragments in the order of their numbers are what sorting leaves alone.    *)

LEMMA IncreasingIsIdentity ==
    ASSUME NEW n \in Nat, NEW p \in [1 .. n -> 1 .. n],
           \A i, j \in 1 .. n : p[i] = p[j] => i = j,
           \A i, j \in 1 .. n : i < j => p[i] =< p[j],
           NEW i \in 1 .. n
    PROVE  p[i] = i
  <1>1. i =< p[i]
    <2> DEFINE g == [j \in 1 .. i |-> p[j]]
    <2>1. g \in Injection(1 .. i, 1 .. p[i])
      BY DEF Injection, IsInjective
    <2>2. IsFiniteSet(1 .. p[i]) /\ Cardinality(1 .. p[i]) = p[i] /\ Cardinality(1 .. i) = i
      BY FS_Interval
    <2> HIDE DEF g
    <2> QED
      BY <2>1, <2>2, FS_Injection
  <1>2. p[i] =< i
    <2> DEFINE g == [j \in i .. n |-> p[j]]
    <2>1. g \in Injection(i .. n, p[i] .. n)
      <3>1. \A j \in i .. n : j \in 1 .. n /\ (j = i \/ i < j)
        OBVIOUS
      <3>2. \A j \in i .. n : p[j] \in p[i] .. n
        BY <3>1
      <3>3. g \in [i .. n -> p[i] .. n] /\ \A j, l \in i .. n : g[j] = g[l] => j = l
        BY <3>1, <3>2
      <3> QED
        BY <3>3 DEF Injection, IsInjective
    <2>2. IsFiniteSet(p[i] .. n) /\ Cardinality(p[i] .. n) = n - p[i] + 1
          /\ Cardinality(i .. n) = n - i + 1
      BY FS_Interval
    <2> HIDE DEF g
    <2>3. Cardinality(i .. n) =< Cardinality(p[i] .. n)
      BY <2>1, <2>2, FS_Injection
    <2> QED
      BY <2>2, <2>3
  <1> QED
    BY <1>1, <1>2

LEMMA SortedAlready ==
    ASSUME NEW v \in Seq(Frame), \A i \in 1 .. Len(v) : v[i].packet_SN = i - 1,
           NEW w \in Sorted(v)
    PROVE  w = v
  <1> DEFINE n == Len(v)
  <1>1. PICK p \in [1 .. n -> 1 .. n] :
          /\ w = [i \in 1 .. n |-> v[p[i]]]
          /\ \A i, j \in 1 .. n : p[i] = p[j] => i = j
          /\ \A i, j \in 1 .. n : i < j => v[p[i]].packet_SN =< v[p[j]].packet_SN
    BY DEF Sorted
  <1>2. n \in Nat
    OBVIOUS
  <1>3. \A i, j \in 1 .. n : i < j => p[i] =< p[j]
    <2> SUFFICES ASSUME NEW i \in 1 .. n, NEW j \in 1 .. n, i < j
                 PROVE  p[i] =< p[j]
      OBVIOUS
    <2>1. p[i] \in 1 .. n /\ p[j] \in 1 .. n
      BY <1>1
    <2>2. v[p[i]].packet_SN = p[i] - 1 /\ v[p[j]].packet_SN = p[j] - 1
      BY <2>1
    <2> QED
      BY <1>1, <2>1, <2>2
  <1>4. \A i \in 1 .. n : p[i] = i
    BY <1>1, <1>2, <1>3, IncreasingIsIdentity
  <1>5. w \in Seq(Frame) /\ Len(w) = n /\ \A i \in 1 .. n : w[i] = v[i]
    BY <1>1, <1>4, SortedType
  <1> QED
    BY <1>5, SeqEqual

-----------------------------------------------------------------------------
(* The frames between a source and the receive thread, oldest first, and what *)
(* each step does to them.                                                  *)

Queue(s) == bus[s] \o out[s]

\* r is a stretch of q.
Stretch(r, q) ==
    \E d \in Nat : \A i \in 1 .. Len(r) : i + d \in 1 .. Len(q) /\ r[i] = q[i + d]

LEMMA QueueTail ==
    ASSUME NEW b \in Seq(Frame), NEW o \in Seq(Frame), b # <<>>
    PROVE  /\ Len(b \o o) >= 1 /\ (b \o o)[1] = Head(b)
           /\ \A i \in 1 .. Len(Tail(b) \o o) :
                  i + 1 \in 1 .. Len(b \o o) /\ (Tail(b) \o o)[i] = (b \o o)[i + 1]
           /\ Stretch(Tail(b) \o o, b \o o)
  <1>1. /\ Tail(b) \in Seq(Frame) /\ Len(Tail(b)) = Len(b) - 1 /\ Len(b) >= 1
        /\ \A i \in 1 .. Len(Tail(b)) : Tail(b)[i] = b[i + 1]
    BY HeadTailProperties
  <1>2. Len(b) \in Nat /\ Len(o) \in Nat
    OBVIOUS
  <1>3. /\ Len(b \o o) = Len(b) + Len(o)
        /\ \A i \in 1 .. Len(b) + Len(o) :
              (b \o o)[i] = IF i =< Len(b) THEN b[i] ELSE o[i - Len(b)]
    BY ConcatProperties
  <1>4. /\ Len(Tail(b) \o o) = Len(b) - 1 + Len(o)
        /\ \A i \in 1 .. Len(b) - 1 + Len(o) :
              (Tail(b) \o o)[i] = IF i =< Len(b) - 1 THEN Tail(b)[i] ELSE o[i - (Len(b) - 1)]
    BY <1>1, ConcatProperties
  <1>5. (b \o o)[1] = Head(b)
    BY <1>1, <1>2, <1>3
  <1>6. ASSUME NEW i \in 1 .. Len(Tail(b) \o o)
        PROVE  i + 1 \in 1 .. Len(b \o o) /\ (Tail(b) \o o)[i] = (b \o o)[i + 1]
    <2>1. i \in 1 .. Len(b) - 1 + Len(o) /\ i + 1 \in 1 .. Len(b) + Len(o)
      BY <1>2, <1>4
    <2>2. CASE i =< Len(b) - 1
      BY <1>1, <1>2, <1>3, <1>4, <2>1, <2>2
    <2>3. CASE ~ (i =< Len(b) - 1)
      <3>1. i - (Len(b) - 1) = (i + 1) - Len(b) /\ ~ (i + 1 =< Len(b))
        BY <1>2, <2>1, <2>3
      <3> QED
        BY <1>3, <1>4, <2>1, <2>3, <3>1
    <2> QED
      BY <2>2, <2>3
  <1>7. Stretch(Tail(b) \o o, b \o o)
    BY <1>6 DEF Stretch
  <1> QED
    BY <1>1, <1>2, <1>3, <1>5, <1>6, <1>7

\* Writing a frame moves it from one part of the queue to the other.
LEMMA QueueMove ==
    ASSUME NEW b \in Seq(Frame), NEW o \in Seq(Frame), o # <<>>
    PROVE  Append(b, Head(o)) \o Tail(o) = b \o o
  <1>1. Head(o) \in Frame /\ Tail(o) \in Seq(Frame) /\ <<Head(o)>> \in Seq(Frame)
    OBVIOUS
  <1>2. Append(b, Head(o)) = b \o <<Head(o)>>
    BY <1>1, AppendIsConcat
  <1>3. <<Head(o)>> \o Tail(o) = o
    OBVIOUS
  <1> QED
    BY <1>1, <1>2, <1>3, ConcatAssociative

LEMMA QueueCut ==
    ASSUME NEW b \in Seq(Frame), NEW o \in Seq(Frame)
    PROVE  Stretch(b \o <<>>, b \o o)
  <1>1. b \o <<>> = b
    BY ConcatEmptySeq
  <1>2. \A i \in 1 .. Len(b) : i + 0 \in 1 .. Len(b \o o) /\ b[i] = (b \o o)[i + 0]
    BY ConcatProperties
  <1> QED
    BY <1>1, <1>2 DEF Stretch

-----------------------------------------------------------------------------
(* The invariant: what is known of the frames of a source, of the fragments  *)
(* collected from it, and of its packets in RecvList.  n is the number of    *)
(* fragmented packets the source began, l the newest one received.           *)

Before(f, g) ==
    \/ f.of < g.of
    \/ f.of = g.of /\ (f.sum = 0 \/ (f.sum = g.sum /\ f.packet_SN < g.packet_SN))

\* f's packet was sent before g's, or is a one-frame packet sent before it.
Past(f, g) == f.of < g.of \/ (f.of = g.of /\ f.sum = 0)

Genuine(s, f, n, l) ==
    /\ f \in Frame /\ f.s_id = s
    /\ f.sum = 0 => f.packet_id = 0 /\ f.packet_SN = 0 /\ f.of =< n
    /\ f.sum # 0 => /\ f.packet_id = f.of % U8 /\ f.packet_SN =< f.sum
                    /\ l =< f.of /\ f.of < n

QueueOK(s, q, n, l) ==
    /\ \A i \in 1 .. Len(q) : Genuine(s, q[i], n, l)
    /\ \A i, j \in 1 .. Len(q) : i < j => Before(q[i], q[j])

\* The fragments v collected under id are of one packet, less than
\* U8 - TimeOutId packets behind, in order, and before all that is coming.
Collecting(s, id, v, q, l) ==
    /\ v[1].of % U8 = id /\ v[1].sum # 0
    /\ l - (U8 - TimeOutId) < v[1].of /\ v[1].of =< l
    /\ \A i \in 1 .. Len(v) :
          /\ v[i].s_id = s /\ v[i].packet_id = id /\ v[i].of = v[1].of
          /\ v[i].sum = v[1].sum /\ v[i].packet_SN =< v[1].sum
    /\ \A i, j \in 1 .. Len(v) : i < j => v[i].packet_SN - i =< v[j].packet_SN - j
    /\ \A i \in 1 .. Len(v), j \in 1 .. Len(q) : Before(v[i], q[j])

EntryOK(s, id, v, q, l) == Collecting(s, id, v, q, l) /\ Len(v) =< v[1].sum

PacketOK(p, q, n) ==
    /\ IsWhole(p)
    /\ p.data[1] \in Frame
    /\ p.data[1].of < n \/ (p.data[1].of = n /\ p.data[1].sum = 0)
    /\ \A i \in 1 .. Len(q) : Past(p.data[1], q[i])

ListOK(s, list, q, n) ==
    /\ \A i \in 1 .. Len(list) : list[i].src = s => PacketOK(list[i], q, n)
    /\ \A i, j \in 1 .. Len(list) :
          i < j /\ list[i].src = s /\ list[j].src = s
          => Past(list[i].data[1], list[j].data[1])

EntriesOK(s, entries, q, l) ==
    \A id \in Ids : entries[id] # <<>> => EntryOK(s, id, entries[id], q, l)

SourceInv(s) ==
    /\ g_PacketsId[s] = sent[s] % U8
    /\ last[s] < sent[s]
    /\ QueueOK(s, Queue(s), sent[s], last[s])
    /\ ~ skipped[s] => /\ EntriesOK(s, InCompletePackets[s], Queue(s), last[s])
                       /\ ListOK(s, RecvList, Queue(s), sent[s])

Inv == TypeOK /\ \A s \in Sources : SourceInv(s)

\* What holds of a queue holds of each stretch of it.
LEMMA StretchOK ==
    ASSUME NEW s \in Sources, NEW q, NEW r, Stretch(r, q), NEW n, NEW l
    PROVE  /\ QueueOK(s, q, n, l) => QueueOK(s, r, n, l)
           /\ \A p : PacketOK(p, q, n) => PacketOK(p, r, n)
           /\ \A id, v : EntryOK(s, id, v, q, l) => EntryOK(s, id, v, r, l)
           /\ \A e : EntriesOK(s, e, q, l) => EntriesOK(s, e, r, l)
           /\ \A list : ListOK(s, list, q, n) => ListOK(s, list, r, n)
  <1>1. PICK d \in Nat :
            \A i \in 1 .. Len(r) : i + d \in 1 .. Len(q) /\ r[i] = q[i + d]
    BY DEF Stretch
  <1>2. ASSUME QueueOK(s, q, n, l)
        PROVE  QueueOK(s, r, n, l)
    <2>1. \A i \in 1 .. Len(r) : Genuine(s, r[i], n, l)
      BY <1>1, <1>2 DEF QueueOK
    <2>2. ASSUME NEW i \in 1 .. Len(r), NEW j \in 1 .. Len(r), i < j
          PROVE  Before(r[i], r[j])
      <3>1. i + d \in 1 .. Len(q) /\ j + d \in 1 .. Len(q) /\ i + d < j + d
        BY <1>1, <2>2
      <3> QED
        BY <1>1, <1>2, <3>1 DEF QueueOK
    <2> QED
      BY <2>1, <2>2 DEF QueueOK
  <1>3. \A p : PacketOK(p, q, n) => PacketOK(p, r, n)
    BY <1>1 DEF PacketOK
  <1>4. \A id, v : EntryOK(s, id, v, q, l) => EntryOK(s, id, v, r, l)
    BY <1>1 DEF EntryOK, Collecting
  <1>5. \A e : EntriesOK(s, e, q, l) => EntriesOK(s, e, r, l)
    BY <1>4 DEF EntriesOK
  <1>6. \A list : ListOK(s, list, q, n) => ListOK(s, list, r, n)
    BY <1>3 DEF ListOK
  <1> QED
    BY <1>2, <1>3, <1>4, <1>5, <1>6

LEMMA ListTail ==
    ASSUME NEW s \in Sources, NEW list \in Seq(Packet), list # <<>>, NEW q, NEW n,
           ListOK(s, list, q, n)
    PROVE  ListOK(s, Tail(list), q, n)
  <1>1. \A i \in 1 .. Len(Tail(list)) : i + 1 \in 1 .. Len(list) /\ Tail(list)[i] = list[i + 1]
    BY HeadTailProperties
  <1>2. \A i, j \in 1 .. Len(Tail(list)) : i < j => i + 1 < j + 1
    OBVIOUS
  <1> QED
    BY <1>1, <1>2 DEF ListOK

\* A packet of another source changes nothing for s.
LEMMA ListOther ==
    ASSUME NEW s \in Sources, NEW list \in Seq(Packet), NEW p \in Packet, p.src # s,
           NEW q, NEW n, ListOK(s, list, q, n)
    PROVE  ListOK(s, Append(list, p), q, n)
  <1> DEFINE a == Append(list, p)
  <1>1. \A i \in 1 .. Len(a) : a[i].src = s => i \in 1 .. Len(list) /\ a[i] = list[i]
    BY AppendProperties
  <1> HIDE DEF a
  <1> QED
    BY <1>1 DEF ListOK, a

LEMMA ListAppend ==
    ASSUME NEW s \in Sources, NEW list \in Seq(Packet), NEW p \in Packet, p.src = s,
           NEW q, NEW n, ListOK(s, list, q, n), PacketOK(p, q, n),
           \A i \in 1 .. Len(list) : list[i].src = s => Past(list[i].data[1], p.data[1])
    PROVE  ListOK(s, Append(list, p), q, n)
  <1> DEFINE a == Append(list, p)
  <1>1. /\ Len(a) = Len(list) + 1 /\ a[Len(list) + 1] = p
        /\ \A i \in 1 .. Len(list) : a[i] = list[i]
    BY AppendProperties
  <1> HIDE DEF a
  <1>2. \A i \in 1 .. Len(a) : a[i].src = s => PacketOK(a[i], q, n)
    BY <1>1 DEF ListOK
  <1>3. ASSUME NEW i \in 1 .. Len(a), NEW j \in 1 .. Len(a),
               i < j, a[i].src = s, a[j].src = s
        PROVE  Past(a[i].data[1], a[j].data[1])
    <2>1. i \in 1 .. Len(list)
      BY <1>1, <1>3
    <2>2. CASE j \in 1 .. Len(list)
      BY <1>1, <1>3, <2>1, <2>2 DEF ListOK
    <2>3. CASE j = Len(list) + 1
      BY <1>1, <1>3, <2>1, <2>3
    <2> QED
      BY <1>1, <2>2, <2>3
  <1> QED
    BY <1>2, <1>3 DEF ListOK, a

-----------------------------------------------------------------------------
(* A fragment f arrives from queue q, which leaves r.                        *)

Taken(f, q, r) ==
    /\ Len(q) >= 1 /\ q[1] = f
    /\ \A i \in 1 .. Len(r) : i + 1 \in 1 .. Len(q) /\ r[i] = q[i + 1]
    /\ Stretch(r, q)

LEMMA TakenFragment ==
    ASSUME NEW s \in Sources, NEW f, NEW q \in Seq(Frame), NEW r \in Seq(Frame),
           Taken(f, q, r), NEW n \in Nat, NEW l \in Int, QueueOK(s, q, n, l), f.sum # 0
    PROVE  /\ f \in Frame /\ f.s_id = s /\ f.packet_id = f.of % U8
           /\ f.packet_SN =< f.sum /\ l =< f.of /\ f.of < n
           /\ \A i \in 1 .. Len(r) : Before(f, r[i])
           /\ QueueOK(s, r, n, f.of)
  <1>1. Genuine(s, f, n, l) /\ 1 \in 1 .. Len(q)
    BY DEF Taken, QueueOK
  <1>2. \A i \in 1 .. Len(r) : Before(f, r[i])
    <2>1. \A i \in 1 .. Len(r) : 1 < i + 1
      OBVIOUS
    <2> QED
      BY <1>1, <2>1 DEF Taken, QueueOK
  <1>3. QueueOK(s, r, n, l)
    BY StretchOK DEF Taken
  <1>4. ASSUME NEW i \in 1 .. Len(r)
        PROVE  Genuine(s, r[i], n, f.of)
    <2>1. Genuine(s, r[i], n, l) /\ Before(f, r[i])
      BY <1>2, <1>3 DEF QueueOK
    <2>2. f.of \in Nat /\ r[i].of \in Nat
      BY <1>1, <2>1, FrameFields DEF Genuine
    <2>3. f.of =< r[i].of
      BY <2>1, <2>2 DEF Before
    <2> QED
      BY <2>1, <2>3 DEF Genuine
  <1> QED
    BY <1>1, <1>2, <1>3, <1>4 DEF Genuine, QueueOK

\* A fragment whose id is in use belongs to the packet collected there.
LEMMA SamePacket ==
    ASSUME NEW s \in Sources, NEW f, NEW q \in Seq(Frame), NEW r \in Seq(Frame),
           Taken(f, q, r), NEW n \in Nat, NEW l \in Int, QueueOK(s, q, n, l), f.sum # 0,
           NEW v \in Seq(Frame), v # <<>>, EntryOK(s, f.packet_id, v, q, l), f.of =< l + 1
    PROVE  f.of = v[1].of /\ f.of = l /\ f.sum = v[1].sum
           /\ \A i \in 1 .. Len(v) : v[i].packet_SN < f.packet_SN
  <1>1. /\ f \in Frame /\ f.packet_id = f.of % U8 /\ l =< f.of
    BY TakenFragment
  <1>2. v[1] \in Frame /\ 1 \in 1 .. Len(v)
    OBVIOUS
  <1>3. /\ v[1].of % U8 = f.of % U8 /\ v[1].of =< l
        /\ l - (U8 - TimeOutId) < v[1].of /\ v[1].sum # 0
    BY <1>1 DEF EntryOK, Collecting
  <1>4. v[1].of \in Nat /\ f.of \in Nat
    BY <1>1, <1>2 DEF Frame
  <1>5. v[1].of =< f.of /\ f.of - v[1].of < U8
    BY <1>1, <1>3, <1>4, RmCanAssumption
  <1>6. f.of = v[1].of
    BY <1>3, <1>4, <1>5, SameId
  <1>7. ASSUME NEW i \in 1 .. Len(v)
        PROVE  f.sum = v[1].sum /\ v[i].packet_SN < f.packet_SN
    <2>1. Before(v[i], f) /\ v[i].of = v[1].of /\ v[i].sum = v[1].sum
      BY DEF EntryOK, Collecting, Taken
    <2> QED
      BY <1>3, <1>4, <1>6, <2>1 DEF Before
  <1> QED
    BY <1>1, <1>2, <1>3, <1>4, <1>6, <1>7

\* A number larger than b, one place further on, keeps b's lead over its place.
LEMMA OneFurther ==
    ASSUME NEW a \in Nat, NEW b \in Nat, NEW c \in Nat, NEW i \in Int, NEW k \in Int,
           a - i =< b - k, b < c
    PROVE  a - i =< c - (k + 1)
  OBVIOUS

\* A fragment that extends an entry leaves an entry that is being collected.
LEMMA Extended ==
    ASSUME NEW s \in Sources, NEW f, NEW q \in Seq(Frame), NEW r \in Seq(Frame),
           Taken(f, q, r), NEW n \in Nat, NEW l \in Int, QueueOK(s, q, n, l), f.sum # 0,
           NEW v \in Seq(Frame), v # <<>>, EntryOK(s, f.packet_id, v, q, l), f.of =< l + 1
    PROVE  /\ Collecting(s, f.packet_id, Append(v, f), r, f.of)
           /\ Append(v, f)[1] = v[1] /\ Append(v, f)[1].sum = f.sum
           /\ Len(Append(v, f)) =< f.sum + 1
  <1> DEFINE u == Append(v, f)
             k == Len(v)
  <1>1. /\ f \in Frame /\ f.s_id = s /\ f.packet_id = f.of % U8 /\ f.packet_SN =< f.sum
        /\ \A i \in 1 .. Len(r) : Before(f, r[i])
    BY TakenFragment
  <1>2. /\ f.of = v[1].of /\ f.of = l /\ f.sum = v[1].sum
        /\ \A i \in 1 .. k : v[i].packet_SN < f.packet_SN
    BY SamePacket
  <1>3. Len(u) = k + 1 /\ u[k + 1] = f /\ (\A i \in 1 .. k : u[i] = v[i]) /\ k \in Nat /\ k >= 1
    BY <1>1, AppendProperties
  <1>4. \A i \in 1 .. k : v[i] \in Frame
    OBVIOUS
  <1>5. EntryOK(s, f.packet_id, v, r, l)
    BY StretchOK DEF Taken
  <1> HIDE DEF u, k
  <1>6. u[1] = v[1] /\ \A i \in 1 .. Len(u) : i \in 1 .. k \/ i = k + 1
    BY <1>3
  <1>7. ASSUME NEW i \in 1 .. Len(u)
        PROVE  /\ u[i].s_id = s /\ u[i].packet_id = f.packet_id /\ u[i].of = u[1].of
               /\ u[i].sum = u[1].sum /\ u[i].packet_SN =< u[1].sum
    BY <1>1, <1>2, <1>3, <1>5, <1>6 DEF EntryOK, Collecting, k
  <1>8. ASSUME NEW i \in 1 .. Len(u), NEW j \in 1 .. Len(u), i < j
        PROVE  u[i].packet_SN - i =< u[j].packet_SN - j
    <2>1. i \in 1 .. k
      BY <1>3, <1>8
    <2>2. CASE j \in 1 .. k
      BY <1>3, <1>5, <1>8, <2>1, <2>2 DEF EntryOK, Collecting, k
    <2>3. CASE j = k + 1
      <3>1. k \in 1 .. k /\ v[i] \in Frame /\ v[k] \in Frame
        BY <1>3, <1>4, <2>1
      <3>2. v[i].packet_SN \in Nat /\ v[k].packet_SN \in Nat /\ f.packet_SN \in Nat
        BY <1>1, <3>1, FrameFields
      <3>3. v[i].packet_SN - i =< v[k].packet_SN - k
        <4>1. CASE i = k
          BY <3>2, <4>1, <1>3
        <4>2. CASE i < k
          BY <1>5, <2>1, <3>1, <4>2 DEF EntryOK, Collecting, k
        <4> QED
          BY <1>3, <2>1, <4>1, <4>2
      <3>4. v[k].packet_SN < f.packet_SN
        BY <1>2, <3>1
      <3>5. u[i] = v[i] /\ u[j] = f /\ j = k + 1 /\ k \in Nat /\ i \in Int
        BY <1>3, <2>1, <2>3
      <3>7. v[i].packet_SN - i =< f.packet_SN - (k + 1)
        <4>1. PICK a \in Nat, b \in Nat, c \in Nat :
                a = v[i].packet_SN /\ b = v[k].packet_SN /\ c = f.packet_SN
          BY <3>2
        <4>2. a - i =< b - k /\ b < c
          BY <3>3, <3>4, <4>1
        <4>3. i \in Int /\ k \in Int
          BY <3>5
        <4>4. a - i =< c - (k + 1)
          BY <4>2, <4>3, OneFurther
        <4> QED
          BY <4>1, <4>4
      <3> QED
        BY <3>5, <3>7
    <2> QED
      BY <1>6, <2>2, <2>3
  <1>9. ASSUME NEW i \in 1 .. Len(u), NEW j \in 1 .. Len(r)
        PROVE  Before(u[i], r[j])
    BY <1>1, <1>3, <1>5, <1>6 DEF EntryOK, Collecting, k
  <1>10. u[1].of % U8 = f.packet_id /\ u[1].sum # 0
         /\ f.of - (U8 - TimeOutId) < u[1].of /\ u[1].of =< f.of
    BY <1>2, <1>5, <1>6 DEF EntryOK, Collecting
  <1>11. Len(u) =< f.sum + 1
    <2>1. f.sum \in Nat
      BY <1>1, RmCanAssumption DEF Frame
    <2> QED
      BY <1>2, <1>3, <1>5, <2>1 DEF EntryOK, k
  <1>12. Collecting(s, f.packet_id, u, r, f.of)
    BY <1>7, <1>8, <1>9, <1>10 DEF Collecting
  <1> QED
    BY <1>2, <1>6, <1>11, <1>12 DEF u

\* When all the fragments are there they are the packet.
LEMMA Completed ==
    ASSUME NEW s \in Sources, NEW id, NEW v \in Seq(Frame), NEW q, NEW l \in Int,
           Collecting(s, id, v, q, l), Len(v) = v[1].sum + 1, v # <<>>
    PROVE  /\ \A i \in 1 .. Len(v) : v[i].packet_SN = i - 1
           /\ v = Fragments(s, v[1].of, id, v[1].sum)
  <1> DEFINE k == Len(v)
  <1>1. k \in Nat /\ k >= 1 /\ 1 \in 1 .. k /\ k \in 1 .. k /\ v[1] \in Frame /\ v[k] \in Frame
    OBVIOUS
  <1>2. ASSUME NEW i \in 1 .. k
        PROVE  v[i].packet_SN = i - 1
    <2>1. v[i] \in Frame
      OBVIOUS
    <2>2. v[i].packet_SN \in Nat /\ v[1].packet_SN \in Nat /\ v[k].packet_SN \in Nat
          /\ v[1].sum \in Nat
      BY <1>1, <2>1, FrameFields
    <2>3. v[1].packet_SN - 1 =< v[i].packet_SN - i
      BY <1>1, <2>2 DEF Collecting
    <2>4. v[i].packet_SN - i =< v[k].packet_SN - k
      BY <1>1, <2>2 DEF Collecting
    <2>5. v[k].packet_SN =< v[1].sum /\ k = v[1].sum + 1
      BY <1>1 DEF Collecting
    <2>6. ASSUME NEW a \in Nat, NEW b \in Nat, NEW c \in Nat, NEW sum \in Nat,
                 a - 1 =< b - i, b - i =< c - k, c =< sum, k = sum + 1
          PROVE  b = i - 1
      BY <1>1, <2>6
    <2> HIDE DEF k
    <2> QED
      BY <2>2, <2>3, <2>4, <2>5, <2>6
  <1>3. ASSUME NEW i \in 1 .. k
        PROVE  v[i] = [s_id |-> s, packet_id |-> id, packet_SN |-> i - 1,
                       sum |-> v[1].sum, of |-> v[1].of]
    <2>1. v[i] \in Frame
      OBVIOUS
    <2>2. v[i].s_id = s /\ v[i].packet_id = id /\ v[i].of = v[1].of /\ v[i].sum = v[1].sum
      BY DEF Collecting
    <2> QED
      BY <1>2, <2>1, <2>2 DEF Frame
  <1>4. v = [i \in 1 .. k |-> v[i]]
    OBVIOUS
  <1> QED
    BY <1>2, <1>3, <1>4 DEF Fragments

\* recvFromCan's three ways of storing a fragment keep the entries right.
LEMMA FirstEntries ==
    ASSUME NEW s \in Sources, NEW f, NEW q \in Seq(Frame), NEW r \in Seq(Frame),
           Taken(f, q, r), NEW n \in Nat, NEW l \in Int, QueueOK(s, q, n, l), f.sum # 0,
           NEW e \in [Ids -> Seq(Frame)], EntriesOK(s, e, q, l), f.of =< l + 1
    PROVE  EntriesOK(s, [[e EXCEPT ![(f.packet_id + TimeOutId) % U8] = <<>>]
                            EXCEPT ![f.packet_id] = <<f>>], r, f.of)
  <1> DEFINE old == (f.packet_id + TimeOutId) % U8
             e2 == [[e EXCEPT ![old] = <<>>] EXCEPT ![f.packet_id] = <<f>>]
  <1>1. /\ f \in Frame /\ f.s_id = s /\ f.packet_id = f.of % U8 /\ f.packet_SN =< f.sum
        /\ l =< f.of /\ \A i \in 1 .. Len(r) : Before(f, r[i])
    BY TakenFragment
  <1>2. /\ f.packet_SN \in Nat /\ f.sum \in Nat /\ f.of \in Nat /\ f.packet_id \in Ids
    BY <1>1, FrameFields
  <1>3. ASSUME NEW id \in Ids, e2[id] # <<>>
        PROVE  EntryOK(s, id, e2[id], r, f.of)
    <2>1. CASE id = f.packet_id
      <3> DEFINE v == <<f>>
      <3>1. e2[id] = v
        BY <2>1
      <3>2. Len(v) = 1 /\ v[1] = f /\ \A i \in 1 .. Len(v) : i = 1
        OBVIOUS
      <3> HIDE DEF v
      <3>3. f.of - (U8 - TimeOutId) < f.of
        BY <1>2, RmCanAssumption
      <3>4. Collecting(s, id, v, r, f.of)
        BY <1>1, <1>2, <2>1, <3>2, <3>3 DEF Collecting
      <3>5. Len(v) =< v[1].sum
        BY <1>2, <3>2
      <3> QED
        BY <3>1, <3>4, <3>5 DEF EntryOK
    <2>2. CASE id # f.packet_id
      <3>1. id # old /\ e2[id] = e[id]
        BY <1>3, <2>2
      <3> DEFINE m == e[id][1].of
      <3>2. EntryOK(s, id, e[id], q, l)
        BY <1>3, <3>1 DEF EntriesOK
      <3>3. EntryOK(s, id, e[id], r, l)
        BY <3>2, StretchOK DEF Taken
      <3>4. m \in Nat
        <4>1. e[id] \in Seq(Frame) /\ e[id] # <<>>
          BY <1>3, <3>1
        <4>2. e[id][1] \in Frame
          BY <4>1
        <4> QED
          BY <4>2, FrameFields
      <3>5. m % U8 = id /\ l - (U8 - TimeOutId) < m /\ m =< l
        BY <3>2 DEF EntryOK, Collecting
      <3>6. m # f.of - (U8 - TimeOutId)
        BY <1>1, <1>2, <3>1, <3>4, <3>5, DroppedId
      <3>7. f.of - (U8 - TimeOutId) < m /\ m =< f.of
        <4>1. ASSUME NEW a \in Nat, NEW b \in Nat, NEW w \in Nat, l =< a, a =< l + 1,
                     l - w < b, b =< l, b # a - w
              PROVE  a - w < b /\ b =< a
          BY <4>1
        <4>2. U8 - TimeOutId \in Nat
          BY RmCanAssumption
        <4> HIDE DEF m
        <4> QED
          BY <1>1, <1>2, <3>4, <3>5, <3>6, <4>1, <4>2
      <3> QED
        BY <3>1, <3>3, <3>7 DEF EntryOK, Collecting
    <2> QED
      BY <2>1, <2>2
  <1> HIDE DEF e2
  <1>4. EntriesOK(s, e2, r, f.of)
    BY <1>3 DEF EntriesOK
  <1> QED
    BY <1>4 DEF e2

LEMMA MoreEntries ==
    ASSUME NEW s \in Sources, NEW f, NEW q \in Seq(Frame), NEW r \in Seq(Frame),
           Taken(f, q, r), NEW n \in Nat, NEW l \in Int, QueueOK(s, q, n, l), f.sum # 0,
           NEW e \in [Ids -> Seq(Frame)], EntriesOK(s, e, q, l), f.of =< l + 1,
           e[f.packet_id] # <<>>, NEW v \in Seq(Frame),
           v = <<>> \/ (v = Append(e[f.packet_id], f) /\ Len(v) =< f.sum)
    PROVE  EntriesOK(s, [e EXCEPT ![f.packet_id] = v], r, f.of)
  <1>1. f \in Frame /\ f.packet_id \in Ids
    BY TakenFragment, FrameFields
  <1>2. EntryOK(s, f.packet_id, e[f.packet_id], q, l) /\ e[f.packet_id] \in Seq(Frame)
    BY <1>1 DEF EntriesOK
  <1>3. f.of = l
    BY <1>2, SamePacket
  <1>4. EntriesOK(s, e, r, l)
    BY StretchOK DEF Taken
  <1>5. ASSUME v # <<>>
        PROVE  EntryOK(s, f.packet_id, v, r, f.of)
    <2> DEFINE d == e[f.packet_id]
    <2>1. d \in Seq(Frame) /\ d # <<>> /\ EntryOK(s, f.packet_id, d, q, l)
      BY <1>2
    <2>2. v = Append(d, f) /\ Len(v) =< f.sum
      BY <1>5
    <2> HIDE DEF d
    <2>3. /\ Collecting(s, f.packet_id, Append(d, f), r, f.of)
          /\ Append(d, f)[1].sum = f.sum
      BY <2>1, Extended
    <2> QED
      BY <2>2, <2>3 DEF EntryOK
  <1> QED
    BY <1>1, <1>3, <1>4, <1>5 DEF EntriesOK

\* How recvFromCan knows that a packet is complete.
LEMMA CompleteLength ==
    ASSUME NEW f \in Frame, NEW v \in Seq(Frame), Len(v) =< f.sum + 1
    PROVE  IF IsComplete(v, f) THEN Len(v) = f.sum + 1 ELSE Len(v) =< f.sum
  <1>1. f.sum \in Nat /\ f.sum =< MaxSum /\ Len(v) \in Nat
    BY FrameFields
  <1>2. Len(v) < U8
    BY <1>1, RmCanAssumption
  <1>3. Len(v) % U8 = Len(v)
    BY <1>1, <1>2, SmallMod
  <1> QED
    BY <1>1, <1>3 DEF IsComplete

-----------------------------------------------------------------------------
(* The packets recvFromCan appends to RecvList.                              *)

LEMMA WholePacket ==
    ASSUME NEW s \in Sources, NEW f, NEW q \in Seq(Frame), NEW r \in Seq(Frame),
           Taken(f, q, r), NEW n \in Nat, NEW l \in Int, QueueOK(s, q, n, l), f.sum = 0,
           NEW list \in Seq(Packet), ListOK(s, list, q, n)
    PROVE  ListOK(s, Append(list, [src |-> s, data |-> <<f>>]), r, n)
  <1> DEFINE p == [src |-> s, data |-> <<f>>]
  <1>1. Genuine(s, f, n, l) /\ 1 \in 1 .. Len(q)
    BY DEF Taken, QueueOK
  <1>2. f \in Frame /\ f.s_id = s /\ f.packet_SN = 0 /\ f.of \in Nat /\ f.of =< n
    BY <1>1, FrameFields DEF Genuine
  <1>3. ASSUME NEW i \in 1 .. Len(r)
        PROVE  Past(f, r[i])
    <2>1. i + 1 \in 1 .. Len(q) /\ r[i] = q[i + 1] /\ 1 < i + 1 /\ q[1] = f
      BY DEF Taken
    <2>2. Before(f, r[i])
      BY <1>1, <2>1 DEF QueueOK
    <2> QED
      BY <2>2 DEF Before, Past
  <1>4. p.src = s /\ p.data = <<f>> /\ p.data[1] = f /\ p \in Packet
    BY <1>2 DEF Packet
  <1>5. <<f>> = Fragments(s, f.of, f.packet_id, f.sum)
    <2>1. f = [s_id |-> s, packet_id |-> f.packet_id, packet_SN |-> 0, sum |-> 0, of |-> f.of]
      BY <1>2 DEF Frame
    <2>2. \A i \in 1 .. 1 : i - 1 = 0
      OBVIOUS
    <2> QED
      BY <2>1, <2>2 DEF Fragments
  <1> HIDE DEF p
  <1>6. PacketOK(p, r, n)
    BY <1>2, <1>3, <1>4, <1>5 DEF PacketOK, IsWhole
  <1>7. \A i \in 1 .. Len(list) : list[i].src = s => Past(list[i].data[1], p.data[1])
    BY <1>1, <1>4 DEF ListOK, PacketOK, Taken
  <1>8. ListOK(s, list, r, n)
    BY StretchOK DEF Taken
  <1>9. ListOK(s, Append(list, p), r, n)
    BY <1>4, <1>6, <1>7, <1>8, ListAppend
  <1> QED
    BY <1>9 DEF p

\* The fragment that completes an entry is the last one, and sorting yields
\* the packet.
LEMMA Joined ==
    ASSUME NEW s \in Sources, NEW f, NEW q \in Seq(Frame), NEW r \in Seq(Frame),
           Taken(f, q, r), NEW n \in Nat, NEW l \in Int, QueueOK(s, q, n, l), f.sum # 0,
           NEW v \in Seq(Frame), v # <<>>, EntryOK(s, f.packet_id, v, q, l), f.of =< l + 1,
           IsComplete(Append(v, f), f), NEW w \in Sorted(Append(v, f))
    PROVE  /\ w = Append(v, f) /\ w \in Seq(Frame) /\ w # <<>> /\ Len(w) = f.sum + 1
           /\ Collecting(s, f.packet_id, w, r, f.of) /\ w[1].sum = f.sum
           /\ \A i \in 1 .. Len(w) : w[i].packet_SN = i - 1
           /\ w = Fragments(s, f.of, f.packet_id, f.sum)
           /\ f.packet_SN = f.sum
  <1> DEFINE u == Append(v, f)
  <1>1. f \in Frame /\ f.of < n /\ f.packet_id = f.of % U8 /\ f.sum \in Nat
    BY TakenFragment, FrameFields
  <1>2. u \in Seq(Frame) /\ u # <<>> /\ f.of = v[1].of
        /\ Len(u) = Len(v) + 1 /\ u[Len(v) + 1] = f
    BY <1>1, AppendProperties, SamePacket
  <1>3. /\ Collecting(s, f.packet_id, u, r, f.of)
        /\ u[1] = v[1] /\ u[1].sum = f.sum /\ Len(u) =< f.sum + 1
    BY Extended
  <1> HIDE DEF u
  <1>4. Len(u) = f.sum + 1
    BY <1>1, <1>2, <1>3, CompleteLength DEF u
  <1>5. /\ \A i \in 1 .. Len(u) : u[i].packet_SN = i - 1
        /\ u = Fragments(s, f.of, f.packet_id, f.sum)
    <2>1. f.of \in Int /\ u[1].of = f.of /\ Len(u) = u[1].sum + 1
      BY <1>1, <1>2, <1>3, <1>4, FrameFields
    <2> QED
      BY <1>2, <1>3, <2>1, Completed
  <1>6. w = u
    BY <1>2, <1>5, SortedAlready DEF u
  <1>7. f.packet_SN = f.sum
    <2>1. Len(v) + 1 \in 1 .. Len(u) /\ (Len(v) + 1) - 1 = f.sum
      BY <1>1, <1>2, <1>4, EmptySeq
    <2> QED
      BY <1>2, <1>5, <2>1
  <1> QED
    BY <1>2, <1>3, <1>4, <1>5, <1>6, <1>7 DEF u

LEMMA JoinedPacket ==
    ASSUME NEW s \in Sources, NEW f, NEW q \in Seq(Frame), NEW r \in Seq(Frame),
           Taken(f, q, r), NEW n \in Nat, NEW l \in Int, QueueOK(s, q, n, l), f.sum # 0,
           NEW v \in Seq(Frame), v # <<>>, EntryOK(s, f.packet_id, v, q, l), f.of =< l + 1,
           IsComplete(Append(v, f), f), NEW w \in Sorted(Append(v, f)),
           NEW list \in Seq(Packet), ListOK(s, list, q, n)
    PROVE  ListOK(s, Append(list, [src |-> s, data |-> w]), r, n)
  <1> DEFINE p == [src |-> s, data |-> w]
  <1>1. /\ f \in Frame /\ f.of < n /\ f.packet_id = f.of % U8
        /\ QueueOK(s, r, n, f.of)
    BY TakenFragment
  <1>2. /\ w \in Seq(Frame) /\ w # <<>> /\ Len(w) = f.sum + 1
        /\ Collecting(s, f.packet_id, w, r, f.of) /\ w[1].sum = f.sum
        /\ \A i \in 1 .. Len(w) : w[i].packet_SN = i - 1
        /\ w = Fragments(s, f.of, f.packet_id, f.sum)
        /\ w = Append(v, f)
    <2> HIDE DEF p
    <2> QED
      BY Joined
  <1>3. w[1] = v[1] /\ f.of = v[1].of
    BY <1>2, Extended, SamePacket
  <1>4. p.src = s /\ p.data = w /\ p \in Packet
    BY <1>2 DEF Packet
  <1>5. w[1] \in Frame /\ w[1].of = f.of /\ w[1].packet_id = f.packet_id /\ w[1].sum = f.sum
    <2>1. 1 \in 1 .. Len(w) /\ w[1] \in Frame
      BY <1>2
    <2> QED
      BY <1>2, <1>3, <2>1 DEF Collecting
  <1>6. ASSUME NEW i \in 1 .. Len(r)
        PROVE  Past(w[1], r[i])
    <2> DEFINE k == Len(w)
    <2>1. k \in 1 .. Len(w) /\ k = f.sum + 1 /\ f.sum \in Nat /\ w[k].packet_SN = f.sum
      <3>1. f.sum \in Nat
        BY <1>1, FrameFields
      <3>2. k \in 1 .. Len(w)
        BY <1>2
      <3>3. w[k].packet_SN = k - 1
        BY <1>2, <3>2
      <3> QED
        BY <1>2, <3>1, <3>2, <3>3
    <2>2. Before(w[k], r[i]) /\ w[k].of = f.of /\ w[k].sum = f.sum
      BY <1>2, <1>5, <2>1 DEF Collecting
    <2>3. Genuine(s, r[i], n, f.of)
      BY <1>1 DEF QueueOK
    <2>4. r[i].sum = f.sum => r[i].packet_SN =< f.sum /\ r[i].packet_SN \in Nat
      BY <2>3, FrameFields DEF Genuine
    <2> HIDE DEF k
    <2>5. f.of < r[i].of
      BY <2>1, <2>2, <2>4 DEF Before
    <2> QED
      BY <1>5, <2>5 DEF Past
  <1> HIDE DEF p
  <1>7. PacketOK(p, r, n)
    BY <1>1, <1>2, <1>4, <1>5, <1>6 DEF PacketOK, IsWhole
  <1>8. \A i \in 1 .. Len(list) : list[i].src = s => Past(list[i].data[1], p.data[1])
    <2>1. 1 \in 1 .. Len(q) /\ q[1] = f
      BY DEF Taken
    <2> QED
      BY <1>4, <1>5, <2>1 DEF ListOK, PacketOK, Past
  <1>9. ListOK(s, list, r, n)
    BY StretchOK DEF Taken
  <1>10. ListOK(s, Append(list, p), r, n)
    BY <1>4, <1>7, <1>8, <1>9, ListAppend
  <1> QED
    BY <1>10 DEF p

-----------------------------------------------------------------------------
(* Every step keeps the invariant.                                           *)

LEMMA QueueType ==
    ASSUME TypeOK, NEW s \in Sources
    PROVE  /\ bus[s] \in Seq(Frame) /\ out[s] \in Seq(Frame) /\ Queue(s) \in Seq(Frame)
           /\ sent[s] \in Nat /\ last[s] \in Int
           /\ InCompletePackets[s] \in [Ids -> Seq(Frame)]
  BY ConcatProperties DEF TypeOK, Queue

Still(t) ==
    /\ g_PacketsId'[t] = g_PacketsId[t] /\ sent'[t] = sent[t]
    /\ last'[t] = last[t] /\ skipped'[t] = skipped[t]
    /\ InCompletePackets'[t] = InCompletePackets[t]

\* A step that only shortens or moves the queue of t, or reads a packet, or
\* appends one of another source.
LEMMA StillStep ==
    ASSUME TypeOK, NEW t \in Sources, SourceInv(t), Still(t), Stretch(Queue(t)', Queue(t)),
           \/ RecvList' = RecvList
           \/ RecvList # <<>> /\ RecvList' = Tail(RecvList)
           \/ \E p \in Packet : p.src # t /\ RecvList' = Append(RecvList, p)
    PROVE  SourceInv(t)'
  <1>1. QueueOK(t, Queue(t)', sent[t], last[t])
    BY StretchOK DEF SourceInv
  <1>2. ASSUME ~ skipped[t]
        PROVE  /\ EntriesOK(t, InCompletePackets[t], Queue(t)', last[t])
               /\ ListOK(t, RecvList', Queue(t)', sent[t])
    <2>1. /\ EntriesOK(t, InCompletePackets[t], Queue(t)', last[t])
          /\ ListOK(t, RecvList, Queue(t)', sent[t])
      BY <1>2, StretchOK DEF SourceInv
    <2>2. RecvList \in Seq(Packet)
      BY DEF TypeOK
    <2> QED
      BY <2>1, <2>2, ListTail, ListOther
  <1> QED
    BY <1>1, <1>2 DEF SourceInv, Still

LEMMA SameQueue == \A q : Stretch(q, q)
  BY DEF Stretch

\* The other sources during a step of s.
LEMMA OtherSource ==
    ASSUME TypeOK, NEW t \in Sources, SourceInv(t), Still(t),
           bus'[t] = bus[t], out'[t] = out[t],
           \/ RecvList' = RecvList
           \/ \E p \in Packet : p.src # t /\ RecvList' = Append(RecvList, p)
    PROVE  SourceInv(t)'
  <1>1. Queue(t)' = Queue(t)
    BY DEF Queue
  <1>2. Stretch(Queue(t)', Queue(t))
    BY <1>1, SameQueue
  <1> QED
    BY <1>2, StillStep

\* The frame the receive thread takes from the bus.
LEMMA TakenHead ==
    ASSUME TypeOK, NEW s \in Sources, bus[s] # <<>>,
           bus' = [bus EXCEPT ![s] = Tail(@)], UNCHANGED out
    PROVE  Taken(Head(bus[s]), Queue(s), Queue(s)') /\ Queue(s)' \in Seq(Frame)
  <1>1. bus'[s] = Tail(bus[s]) /\ out'[s] = out[s] /\ Tail(bus[s]) \in Seq(Frame)
    BY HeadType DEF TypeOK
  <1>2. Queue(s)' = Tail(bus[s]) \o out[s]
    BY <1>1 DEF Queue
  <1> DEFINE b == bus[s]
             o == out[s]
  <1>3. b \in Seq(Frame) /\ o \in Seq(Frame) /\ b # <<>> /\ Queue(s) = b \o o
    BY QueueType DEF Queue
  <1> HIDE DEF b, o
  <1>4. Taken(Head(b), b \o o, Tail(b) \o o)
    BY <1>3, QueueTail DEF Taken
  <1>5. Tail(b) \o o \in Seq(Frame)
    BY <1>3, ConcatProperties, HeadTailProperties
  <1> QED
    BY <1>2, <1>3, <1>4, <1>5 DEF b, o

\* sendToCan adds the frames fr of packet n, the newest so far, to queue q.
LEMMA GrownQueue ==
    ASSUME NEW s \in Sources, NEW q \in Seq(Frame), NEW fr \in Seq(Frame),
           NEW n \in Nat, NEW m \in {n, n + 1}, NEW l \in Int, l < n, QueueOK(s, q, n, l),
           \A i \in 1 .. Len(fr) : fr[i].of = n,
           QueueOK(s, fr, m, l)
    PROVE  /\ QueueOK(s, q \o fr, m, l)
           /\ \A e \in [Ids -> Seq(Frame)] : EntriesOK(s, e, q, l) => EntriesOK(s, e, q \o fr, l)
           /\ \A list : ListOK(s, list, q, n) => ListOK(s, list, q \o fr, m)
  <1> DEFINE r == q \o fr
  <1>1. Len(q) \in Nat /\ Len(fr) \in Nat
    OBVIOUS
  <1>2. /\ Len(r) = Len(q) + Len(fr)
        /\ \A i \in 1 .. Len(q) + Len(fr) :
              r[i] = IF i =< Len(q) THEN q[i] ELSE fr[i - Len(q)]
    BY ConcatProperties
  <1> HIDE DEF r
  <1>3. \A i \in 1 .. Len(r) :
              \/ i \in 1 .. Len(q) /\ r[i] = q[i]
              \/ i > Len(q) /\ i - Len(q) \in 1 .. Len(fr) /\ r[i] = fr[i - Len(q)]
    BY <1>1, <1>2
  <1>4. \A i \in 1 .. Len(q) : /\ q[i].of \in Nat
                               /\ q[i].of < n \/ (q[i].of = n /\ q[i].sum = 0)
                               /\ Genuine(s, q[i], m, l)
    <2> TAKE i \in 1 .. Len(q)
    <2>1. Genuine(s, q[i], n, l)
      BY DEF QueueOK
    <2>2. q[i].of \in Nat
      BY <2>1, FrameFields DEF Genuine
    <2> QED
      BY <2>1, <2>2 DEF Genuine
  <1>5. QueueOK(s, r, m, l)
    <2>1. \A i \in 1 .. Len(r) : Genuine(s, r[i], m, l)
      BY <1>3, <1>4 DEF QueueOK
    <2>2. ASSUME NEW i \in 1 .. Len(r), NEW j \in 1 .. Len(r), i < j
          PROVE  Before(r[i], r[j])
      <3>1. CASE i \in 1 .. Len(q) /\ r[i] = q[i] /\ j \in 1 .. Len(q) /\ r[j] = q[j]
        BY <2>2, <3>1 DEF QueueOK
      <3>2. CASE /\ i \in 1 .. Len(q) /\ r[i] = q[i]
                 /\ j - Len(q) \in 1 .. Len(fr) /\ r[j] = fr[j - Len(q)]
        BY <1>4, <3>2 DEF Before
      <3>3. CASE /\ i - Len(q) \in 1 .. Len(fr) /\ r[i] = fr[i - Len(q)]
                 /\ j - Len(q) \in 1 .. Len(fr) /\ r[j] = fr[j - Len(q)]
        <4>1. i - Len(q) < j - Len(q)
          BY <1>1, <2>2
        <4> QED
          BY <3>3, <4>1 DEF QueueOK
      <3>4. ~ (i > Len(q) /\ j \in 1 .. Len(q))
        BY <1>1, <2>2
      <3> QED
        BY <1>3, <3>1, <3>2, <3>3, <3>4
    <2> QED
      BY <2>1, <2>2 DEF QueueOK
  <1>6. ASSUME NEW e \in [Ids -> Seq(Frame)], EntriesOK(s, e, q, l), NEW id \in Ids, e[id] # <<>>
        PROVE  EntryOK(s, id, e[id], r, l)
    <2> DEFINE v == e[id]
    <2>1. EntryOK(s, id, v, q, l) /\ v \in Seq(Frame)
      BY <1>6 DEF EntriesOK
    <2> HIDE DEF v
    <2>2. ASSUME NEW i \in 1 .. Len(v), NEW j \in 1 .. Len(r)
          PROVE  Before(v[i], r[j])
      <3>1. v[i] \in Frame /\ v[i].of = v[1].of /\ v[1].of =< l
        BY <2>1 DEF EntryOK, Collecting
      <3>2. v[i].of < n
        BY <3>1, FrameFields
      <3>3. CASE j \in 1 .. Len(q) /\ r[j] = q[j]
        BY <2>1, <3>3 DEF EntryOK, Collecting
      <3>4. CASE j - Len(q) \in 1 .. Len(fr) /\ r[j] = fr[j - Len(q)]
        BY <3>2, <3>4 DEF Before
      <3> QED
        BY <1>3, <3>3, <3>4
    <2> QED
      BY <2>1, <2>2 DEF EntryOK, Collecting, v
  <1>7. ASSUME NEW p, PacketOK(p, q, n)
        PROVE  PacketOK(p, r, m)
    <2>1. /\ p.data[1].of \in Nat
          /\ p.data[1].of < n \/ (p.data[1].of = n /\ p.data[1].sum = 0)
      BY <1>7, FrameFields DEF PacketOK
    <2>2. p.data[1].of < m \/ (p.data[1].of = m /\ p.data[1].sum = 0)
      BY <2>1
    <2>3. ASSUME NEW i \in 1 .. Len(r)
          PROVE  Past(p.data[1], r[i])
      <3>1. CASE i \in 1 .. Len(q) /\ r[i] = q[i]
        BY <1>7, <3>1 DEF PacketOK
      <3>2. CASE i - Len(q) \in 1 .. Len(fr) /\ r[i] = fr[i - Len(q)]
        BY <2>1, <3>2 DEF Past
      <3> QED
        BY <1>3, <3>1, <3>2
    <2> QED
      BY <1>7, <2>2, <2>3 DEF PacketOK
  <1>8. \A e \in [Ids -> Seq(Frame)] : EntriesOK(s, e, q, l) => EntriesOK(s, e, r, l)
    BY <1>6 DEF EntriesOK
  <1>9. \A list : ListOK(s, list, q, n) => ListOK(s, list, r, m)
    BY <1>7 DEF ListOK
  <1> QED
    BY <1>5, <1>8, <1>9 DEF r

\* The fragments of packet n are in order.
LEMMA FragmentsOK ==
    ASSUME NEW s \in Sources, NEW n \in Nat, NEW id \in Ids, NEW sum \in 0 .. MaxSum,
           NEW m \in Nat, NEW l \in Int, l < n,
           \/ sum = 0 /\ id = 0 /\ m = n
           \/ sum # 0 /\ id = n % U8 /\ m = n + 1
    PROVE  /\ Fragments(s, n, id, sum) \in Seq(Frame)
           /\ QueueOK(s, Fragments(s, n, id, sum), m, l)
           /\ \A i \in 1 .. Len(Fragments(s, n, id, sum)) : Fragments(s, n, id, sum)[i].of = n
  <1> DEFINE fr == Fragments(s, n, id, sum)
  <1>1. fr \in Seq(Frame)
    BY FragmentsType
  <1>2. /\ Len(fr) = sum + 1 /\ sum \in Nat
        /\ \A i \in 1 .. sum + 1 : fr[i] = [s_id |-> s, packet_id |-> id,
                     packet_SN |-> i - 1, sum |-> sum, of |-> n]
    BY RmCanAssumption DEF Fragments
  <1> HIDE DEF fr
  <1>3. \A i \in 1 .. sum + 1 : /\ fr[i].s_id = s /\ fr[i].packet_id = id /\ fr[i].of = n
                                /\ fr[i].sum = sum /\ fr[i].packet_SN = i - 1
    BY <1>2
  <1>4. ASSUME NEW i \in 1 .. Len(fr)
        PROVE  Genuine(s, fr[i], m, l)
    <2>1. i - 1 =< sum /\ (sum = 0 => i = 1) /\ fr[i] \in Frame
      BY <1>1, <1>2
    <2> QED
      BY <1>2, <1>3, <2>1 DEF Genuine
  <1>5. ASSUME NEW i \in 1 .. Len(fr), NEW j \in 1 .. Len(fr), i < j
        PROVE  Before(fr[i], fr[j])
    BY <1>2, <1>3, <1>5 DEF Before
  <1> QED
    BY <1>1, <1>2, <1>3, <1>4, <1>5 DEF QueueOK, fr

\* The two ways of sending a packet.
LEMMA SendCases ==
    ASSUME Inv, NEW s \in Sources, (\E sum \in 1 .. MaxSum : SendFragmented(s, sum)) \/ SendWhole(s)
    PROVE  \E sum \in 0 .. MaxSum, id \in Ids, m \in Nat :
              /\ \/ sum = 0 /\ id = 0 /\ m = sent[s]
                 \/ sum # 0 /\ id = sent[s] % U8 /\ m = sent[s] + 1
              /\ out[s] = <<>> /\ out'[s] = Fragments(s, sent[s], id, sum) /\ bus'[s] = bus[s]
              /\ sent'[s] = m /\ g_PacketsId'[s] = m % U8
              /\ last'[s] = last[s] /\ skipped'[s] = skipped[s] /\ RecvList' = RecvList
              /\ InCompletePackets'[s] = InCompletePackets[s]
              /\ sum # 0 => sent[s] < MaxPackets[s]
  <1>1. CASE SendWhole(s)
    <2>1. 0 \in 0 .. MaxSum /\ 0 \in Ids /\ sent[s] \in Nat
      BY RmCanAssumption DEF Inv, TypeOK, Ids
    <2> QED
      BY <1>1, <2>1 DEF SendWhole, Inv, SourceInv, TypeOK, receiver
  <1>2. ASSUME NEW sum \in 1 .. MaxSum, SendFragmented(s, sum)
        PROVE  /\ sum \in 0 .. MaxSum /\ sum # 0 /\ sent[s] + 1 \in Nat
               /\ g_PacketsId[s] \in Ids /\ g_PacketsId[s] = sent[s] % U8
               /\ out[s] = <<>> /\ out'[s] = Fragments(s, sent[s], g_PacketsId[s], sum)
               /\ bus'[s] = bus[s]
               /\ sent'[s] = sent[s] + 1 /\ g_PacketsId'[s] = (sent[s] + 1) % U8
               /\ last'[s] = last[s] /\ skipped'[s] = skipped[s] /\ RecvList' = RecvList
               /\ InCompletePackets'[s] = InCompletePackets[s] /\ sent[s] < MaxPackets[s]
    <2>1. sent[s] \in Int /\ g_PacketsId[s] = sent[s] % U8
      BY DEF Inv, TypeOK, SourceInv
    <2>2. (g_PacketsId[s] + 1) % U8 = (sent[s] + 1) % U8
      BY <2>1, IdStep
    <2> QED
      BY <1>2, <2>1, <2>2, RmCanAssumption DEF SendFragmented, Inv, TypeOK, receiver
  <1> QED
    BY <1>1, <1>2

LEMMA SendStep ==
    ASSUME Inv, NEW s \in Sources, (\E sum \in 1 .. MaxSum : SendFragmented(s, sum)) \/ SendWhole(s)
    PROVE  SourceInv(s)'
  <1>1. PICK sum \in 0 .. MaxSum, id \in Ids, m \in Nat :
          /\ \/ sum = 0 /\ id = 0 /\ m = sent[s]
             \/ sum # 0 /\ id = sent[s] % U8 /\ m = sent[s] + 1
          /\ out[s] = <<>> /\ out'[s] = Fragments(s, sent[s], id, sum) /\ bus'[s] = bus[s]
          /\ sent'[s] = m /\ g_PacketsId'[s] = m % U8
          /\ last'[s] = last[s] /\ skipped'[s] = skipped[s] /\ RecvList' = RecvList
          /\ InCompletePackets'[s] = InCompletePackets[s]
    BY SendCases
  <1> DEFINE fr == Fragments(s, sent[s], id, sum)
             r == Queue(s)'
  <1>2. sent[s] \in Nat /\ last[s] \in Int /\ last[s] < sent[s] /\ Queue(s) = bus[s]
        /\ Queue(s) \in Seq(Frame) /\ InCompletePackets[s] \in [Ids -> Seq(Frame)]
    BY <1>1, QueueType, ConcatEmptySeq DEF Inv, SourceInv, Queue
  <1>3. r = Queue(s) \o fr
    BY <1>1, <1>2 DEF Queue
  <1>4. fr \in Seq(Frame) /\ QueueOK(s, fr, m, last[s]) /\ \A i \in 1 .. Len(fr) : fr[i].of = sent[s]
    BY <1>1, <1>2, FragmentsOK
  <1>5. QueueOK(s, Queue(s), sent[s], last[s])
    BY DEF Inv, SourceInv
  <1>6. m \in {sent[s], sent[s] + 1} /\ last[s] < m
    BY <1>1, <1>2
  <1> HIDE DEF fr
  <1>7. /\ QueueOK(s, r, m, last[s])
        /\ EntriesOK(s, InCompletePackets[s], Queue(s), last[s])
              => EntriesOK(s, InCompletePackets[s], r, last[s])
        /\ ListOK(s, RecvList, Queue(s), sent[s]) => ListOK(s, RecvList, r, m)
    BY <1>2, <1>3, <1>4, <1>5, <1>6, GrownQueue
  <1>8. ~ skipped[s] => /\ EntriesOK(s, InCompletePackets[s], Queue(s), last[s])
                       /\ ListOK(s, RecvList, Queue(s), sent[s])
    BY DEF Inv, SourceInv
  <1> QED
    BY <1>1, <1>6, <1>7, <1>8 DEF SourceInv

\* Writing a frame, a send error, a lost frame, a packet read.
LEMMA MoveStep ==
    ASSUME Inv, NEW s \in Sources, WriteFrame(s) \/ WriteError(s) \/ LoseFrame(s)
    PROVE  SourceInv(s)'
  <1> DEFINE b == bus[s]
             o == out[s]
  <1>1. b \in Seq(Frame) /\ o \in Seq(Frame) /\ Queue(s) = b \o o /\ TypeOK /\ SourceInv(s)
    BY QueueType DEF Inv, Queue
  <1>2. Still(s) /\ RecvList' = RecvList
    BY DEF WriteFrame, WriteError, LoseFrame, Still, receiver, sender
  <1>3. Stretch(Queue(s)', Queue(s))
    <2>1. CASE WriteFrame(s)
      <3>1. bus'[s] = Append(b, Head(o)) /\ out'[s] = Tail(o) /\ o # <<>>
        BY <2>1 DEF WriteFrame, Inv, TypeOK
      <3>2. Queue(s)' = Append(b, Head(o)) \o Tail(o)
        BY <3>1 DEF Queue
      <3> HIDE DEF b, o
      <3>3. Queue(s)' = Queue(s)
        BY <1>1, <3>1, <3>2, QueueMove
      <3> QED
        BY <3>3, SameQueue
    <2>2. CASE WriteError(s)
      <3>1. bus'[s] = b /\ out'[s] = <<>>
        BY <2>2 DEF WriteError, Inv, TypeOK
      <3>2. Queue(s)' = b \o <<>>
        BY <3>1 DEF Queue
      <3> HIDE DEF b, o
      <3> QED
        BY <1>1, <3>2, QueueCut
    <2>3. CASE LoseFrame(s)
      <3>1. bus'[s] = Tail(b) /\ out'[s] = o /\ b # <<>>
        BY <2>3 DEF LoseFrame, Inv, TypeOK, sender
      <3>2. Queue(s)' = Tail(b) \o o
        BY <3>1 DEF Queue
      <3> HIDE DEF b, o
      <3> QED
        BY <1>1, <3>1, <3>2, QueueTail
    <2> QED
      BY <2>1, <2>2, <2>3
  <1> QED
    BY <1>1, <1>2, <1>3, StillStep

LEMMA RecvWholeStep ==
    ASSUME Inv, NEW s \in Sources, RecvWhole(s)
    PROVE  SourceInv(s)'
  <1> DEFINE f == Head(bus[s])
             q == Queue(s)
             r == Queue(s)'
             n == sent[s]
             l == last[s]
             p == [src |-> s, data |-> <<f>>]
  <1>1. Taken(f, q, r) /\ r \in Seq(Frame) /\ q \in Seq(Frame) /\ n \in Nat /\ l \in Int
    BY TakenHead, QueueType DEF RecvWhole, Inv, sender
  <1>2. /\ QueueOK(s, q, n, l) /\ f.sum = 0 /\ RecvList \in Seq(Packet)
        /\ ~ skipped[s] => EntriesOK(s, InCompletePackets[s], q, l) /\ ListOK(s, RecvList, q, n)
    BY DEF Inv, SourceInv, RecvWhole, TypeOK
  <1>3. Still(s) /\ RecvList' = Append(RecvList, p)
    BY DEF RecvWhole, Still, sender
  <1> HIDE DEF f, q, r, n, l
  <1>4. QueueOK(s, r, n, l)
    BY <1>1, <1>2, StretchOK DEF Taken
  <1>5. ~ skipped[s] => EntriesOK(s, InCompletePackets[s], r, l)
    BY <1>1, <1>2, StretchOK DEF Taken
  <1>6. ~ skipped[s] => ListOK(s, Append(RecvList, p), r, n)
    BY <1>1, <1>2, WholePacket
  <1> QED
    BY <1>3, <1>4, <1>5, <1>6 DEF SourceInv, Still, Inv, r, n, l

\* What the three branches for a fragment have in common.
LEMMA FragmentStep ==
    ASSUME Inv, NEW s \in Sources, NEW f, f = Head(bus[s]), bus[s] # <<>>, f.sum # 0,
           bus' = [bus EXCEPT ![s] = Tail(@)], UNCHANGED sender, Note(s, f),
           NEW e, InCompletePackets'[s] = e,
           f.of =< last[s] + 1 /\ ~ skipped[s]
              => EntriesOK(s, e, Queue(s)', f.of) /\ ListOK(s, RecvList', Queue(s)', sent[s])
    PROVE  SourceInv(s)'
  <1>1. /\ Taken(f, Queue(s), Queue(s)') /\ Queue(s)' \in Seq(Frame)
        /\ Queue(s) \in Seq(Frame) /\ sent[s] \in Nat /\ last[s] \in Int
    BY TakenHead, QueueType DEF Inv, sender
  <1>2. QueueOK(s, Queue(s), sent[s], last[s]) /\ g_PacketsId[s] = sent[s] % U8
    BY DEF Inv, SourceInv
  <1>3. QueueOK(s, Queue(s)', sent[s], f.of) /\ f.of < sent[s] /\ f \in Frame
    BY <1>1, <1>2, TakenFragment
  <1>4. last'[s] = f.of /\ (~ skipped'[s] => ~ skipped[s] /\ ~ (f.of > last[s] + 1))
    BY DEF Note, Inv, TypeOK
  <1>5. f.of \in Nat
    BY <1>3, FrameFields
  <1>6. ~ skipped'[s] => f.of =< last[s] + 1 /\ ~ skipped[s]
    BY <1>1, <1>4, <1>5
  <1>7. sent'[s] = sent[s] /\ g_PacketsId'[s] = g_PacketsId[s]
    BY DEF sender
  <1> QED
    BY <1>2, <1>3, <1>4, <1>6, <1>7 DEF SourceInv

LEMMA RecvFirstStep ==
    ASSUME Inv, NEW s \in Sources, RecvFirst(s)
    PROVE  SourceInv(s)'
  <1> DEFINE f == Head(bus[s])
             e == InCompletePackets[s]
             e2 == [[e EXCEPT ![(f.packet_id + TimeOutId) % U8] = <<>>]
                       EXCEPT ![f.packet_id] = <<f>>]
  <1>1. /\ bus[s] # <<>> /\ f.sum # 0 /\ Note(s, f)
        /\ bus' = [bus EXCEPT ![s] = Tail(@)] /\ UNCHANGED <<sender, RecvList>>
        /\ InCompletePackets'[s] = e2
    BY DEF RecvFirst, Inv, TypeOK
  <1>2. /\ Taken(f, Queue(s), Queue(s)') /\ Queue(s)' \in Seq(Frame)
        /\ Queue(s) \in Seq(Frame) /\ sent[s] \in Nat /\ last[s] \in Int
        /\ e \in [Ids -> Seq(Frame)]
    BY <1>1, TakenHead, QueueType DEF Inv, sender
  <1>3. /\ QueueOK(s, Queue(s), sent[s], last[s])
        /\ ~ skipped[s] => EntriesOK(s, e, Queue(s), last[s]) /\ ListOK(s, RecvList, Queue(s), sent[s])
    BY DEF Inv, SourceInv
  <1> HIDE DEF f, e
  <1>4. ASSUME f.of =< last[s] + 1, ~ skipped[s]
        PROVE  EntriesOK(s, e2, Queue(s)', f.of) /\ ListOK(s, RecvList', Queue(s)', sent[s])
    <2>1. EntriesOK(s, e2, Queue(s)', f.of)
      BY <1>1, <1>2, <1>3, <1>4, FirstEntries
    <2>2. ListOK(s, RecvList, Queue(s)', sent[s])
      BY <1>2, <1>3, <1>4, StretchOK DEF Taken
    <2> QED
      BY <1>1, <2>1, <2>2
  <1> HIDE DEF e2
  <1> QED
    BY <1>1, <1>4, FragmentStep DEF f

LEMMA RecvMoreStep ==
    ASSUME Inv, NEW s \in Sources, RecvMore(s)
    PROVE  SourceInv(s)'
  <1> DEFINE f == Head(bus[s])
             e == InCompletePackets[s]
             v == Append(e[f.packet_id], f)
             e2 == [e EXCEPT ![f.packet_id] = v]
  <1>1. /\ bus[s] # <<>> /\ f.sum # 0 /\ Note(s, f) /\ e[f.packet_id] # <<>>
        /\ bus' = [bus EXCEPT ![s] = Tail(@)] /\ UNCHANGED <<sender, RecvList>>
        /\ InCompletePackets'[s] = e2 /\ ~ IsComplete(v, f)
    BY DEF RecvMore, Inv, TypeOK, Collected
  <1>2. /\ Taken(f, Queue(s), Queue(s)') /\ Queue(s)' \in Seq(Frame)
        /\ Queue(s) \in Seq(Frame) /\ sent[s] \in Nat /\ last[s] \in Int
        /\ e \in [Ids -> Seq(Frame)] /\ f \in Frame /\ f.packet_id \in Ids
    BY <1>1, TakenHead, QueueType, HeadType DEF Inv, sender
  <1>3. /\ QueueOK(s, Queue(s), sent[s], last[s])
        /\ ~ skipped[s] => EntriesOK(s, e, Queue(s), last[s]) /\ ListOK(s, RecvList, Queue(s), sent[s])
    BY DEF Inv, SourceInv
  <1>4. v \in Seq(Frame) /\ e[f.packet_id] \in Seq(Frame)
    BY <1>2, AppendProperties
  <1> HIDE DEF f, e
  <1>5. ASSUME f.of =< last[s] + 1, ~ skipped[s]
        PROVE  EntriesOK(s, e2, Queue(s)', f.of) /\ ListOK(s, RecvList', Queue(s)', sent[s])
    <2>1. EntryOK(s, f.packet_id, e[f.packet_id], Queue(s), last[s])
      BY <1>1, <1>2, <1>3, <1>5 DEF EntriesOK
    <2>2. Len(v) =< f.sum + 1
      BY <1>1, <1>2, <1>3, <1>4, <1>5, <2>1, Extended
    <2>3. Len(v) =< f.sum
      BY <1>1, <1>2, <1>4, <2>2, CompleteLength
    <2>4. EntriesOK(s, e2, Queue(s)', f.of)
      BY <1>1, <1>2, <1>3, <1>4, <1>5, <2>3, MoreEntries
    <2>5. ListOK(s, RecvList, Queue(s)', sent[s])
      BY <1>2, <1>3, <1>5, StretchOK DEF Taken
    <2> QED
      BY <1>1, <2>4, <2>5
  <1> HIDE DEF e2
  <1> QED
    BY <1>1, <1>5, FragmentStep DEF f

LEMMA RecvLastStep ==
    ASSUME Inv, NEW s \in Sources, RecvLast(s)
    PROVE  SourceInv(s)'
  <1> DEFINE f == Head(bus[s])
             e == InCompletePackets[s]
             v == e[f.packet_id]
             e2 == [e EXCEPT ![f.packet_id] = <<>>]
  <1>1. /\ bus[s] # <<>> /\ f.sum # 0 /\ Note(s, f) /\ v # <<>>
        /\ bus' = [bus EXCEPT ![s] = Tail(@)] /\ UNCHANGED sender
        /\ InCompletePackets'[s] = e2 /\ IsComplete(Append(v, f), f)
    BY DEF RecvLast, Inv, TypeOK, Collected
  <1>2. PICK w \in Sorted(Append(v, f)) : RecvList' = Append(RecvList, [src |-> s, data |-> w])
    BY DEF RecvLast, Collected
  <1>3. /\ Taken(f, Queue(s), Queue(s)') /\ Queue(s)' \in Seq(Frame)
        /\ Queue(s) \in Seq(Frame) /\ sent[s] \in Nat /\ last[s] \in Int
        /\ e \in [Ids -> Seq(Frame)] /\ f \in Frame /\ f.packet_id \in Ids
        /\ RecvList \in Seq(Packet)
    BY <1>1, TakenHead, QueueType, HeadType DEF Inv, sender, TypeOK
  <1>4. /\ QueueOK(s, Queue(s), sent[s], last[s])
        /\ ~ skipped[s] => EntriesOK(s, e, Queue(s), last[s]) /\ ListOK(s, RecvList, Queue(s), sent[s])
    BY DEF Inv, SourceInv
  <1>5. v \in Seq(Frame) /\ <<>> \in Seq(Frame)
    BY <1>3
  <1> HIDE DEF f, e
  <1>6. ASSUME f.of =< last[s] + 1, ~ skipped[s]
        PROVE  EntriesOK(s, e2, Queue(s)', f.of) /\ ListOK(s, RecvList', Queue(s)', sent[s])
    <2>1. EntriesOK(s, e2, Queue(s)', f.of)
      BY <1>1, <1>3, <1>4, <1>5, <1>6, MoreEntries
    <2>2. EntryOK(s, f.packet_id, v, Queue(s), last[s])
      BY <1>1, <1>3, <1>4, <1>6 DEF EntriesOK
    <2> HIDE DEF v, e2
    <2>3. ListOK(s, RecvList', Queue(s)', sent[s])
      BY <1>1, <1>2, <1>3, <1>4, <1>5, <1>6, <2>2, JoinedPacket
    <2> QED
      BY <2>1, <2>3
  <1> HIDE DEF e2
  <1> QED
    BY <1>1, <1>6, FragmentStep DEF f

SourceStep(s) ==
    \/ \E sum \in 1 .. MaxSum : SendFragmented(s, sum)
    \/ SendWhole(s) \/ WriteFrame(s) \/ WriteError(s) \/ LoseFrame(s)
    \/ RecvWhole(s) \/ RecvFirst(s) \/ RecvMore(s) \/ RecvLast(s)

LEMMA StepOfOther ==
    ASSUME Inv, NEW s \in Sources, NEW t \in Sources, t # s, SourceStep(s)
    PROVE  SourceInv(t)'
  <1>1. TypeOK /\ SourceInv(t)
    BY DEF Inv
  <1>2. CASE (\E sum \in 1 .. MaxSum : SendFragmented(s, sum)) \/ SendWhole(s)
    <2>1. Still(t) /\ bus'[t] = bus[t] /\ out'[t] = out[t] /\ RecvList' = RecvList
      BY <1>1, <1>2 DEF SendFragmented, SendWhole, Still, TypeOK, receiver
    <2> QED
      BY <1>1, <2>1, OtherSource
  <1>3. CASE WriteFrame(s) \/ WriteError(s) \/ LoseFrame(s)
    <2>1. Still(t) /\ bus'[t] = bus[t] /\ out'[t] = out[t] /\ RecvList' = RecvList
      BY <1>1, <1>3 DEF WriteFrame, WriteError, LoseFrame, Still, TypeOK, receiver, sender
    <2> QED
      BY <1>1, <2>1, OtherSource
  <1>4. CASE RecvFirst(s) \/ RecvMore(s)
    <2>1. Still(t) /\ bus'[t] = bus[t] /\ out'[t] = out[t] /\ RecvList' = RecvList
      BY <1>1, <1>4 DEF RecvFirst, RecvMore, Note, Still, TypeOK, sender
    <2> QED
      BY <1>1, <2>1, OtherSource
  <1>5. CASE RecvWhole(s)
    <2>1. Still(t) /\ bus'[t] = bus[t] /\ out'[t] = out[t]
      BY <1>1, <1>5 DEF RecvWhole, Still, TypeOK, sender
    <2> DEFINE p == [src |-> s, data |-> <<Head(bus[s])>>]
    <2>2. p \in Packet /\ p.src # t /\ RecvList' = Append(RecvList, p)
      BY <1>1, <1>5, HeadType DEF RecvWhole, Packet
    <2> QED
      BY <1>1, <2>1, <2>2, OtherSource
  <1>6. CASE RecvLast(s)
    <2>1. Still(t) /\ bus'[t] = bus[t] /\ out'[t] = out[t]
      BY <1>1, <1>6 DEF RecvLast, Note, Still, TypeOK, sender
    <2> DEFINE v == Append(Collected(s, Head(bus[s])), Head(bus[s]))
    <2>2. v \in Seq(Frame)
      BY <1>1, <1>6, HeadType, AppendProperties DEF RecvLast
    <2>3. PICK w \in Sorted(v) : RecvList' = Append(RecvList, [src |-> s, data |-> w])
      BY <1>6 DEF RecvLast
    <2> HIDE DEF v
    <2>4. [src |-> s, data |-> w] \in Packet /\ [src |-> s, data |-> w].src # t
      BY <2>2, <2>3, SortedType DEF Packet
    <2> QED
      BY <1>1, <2>1, <2>3, <2>4, OtherSource
  <1> QED
    BY <1>2, <1>3, <1>4, <1>5, <1>6 DEF SourceStep

LEMMA InvStep == Inv /\ [Next]_vars => Inv'
  <1> SUFFICES ASSUME Inv, [Next]_vars
               PROVE  Inv'
    OBVIOUS
  <1>1. TypeOK'
    BY TypeStep DEF Inv
  <1>2. ASSUME NEW s \in Sources, SourceStep(s), NEW t \in Sources
        PROVE  SourceInv(t)'
    <2>1. CASE t # s
      BY <1>2, <2>1, StepOfOther
    <2>2. SourceInv(s)'
      BY <1>2, SendStep, MoveStep, RecvWholeStep, RecvFirstStep, RecvMoreStep, RecvLastStep
         DEF SourceStep
    <2> QED
      BY <2>1, <2>2
  <1>3. ASSUME Pop \/ UNCHANGED vars, NEW t \in Sources
        PROVE  SourceInv(t)'
    <2>1. TypeOK /\ SourceInv(t)
      BY DEF Inv
    <2>2. Still(t) /\ UNCHANGED <<bus, out>>
          /\ (RecvList' = RecvList \/ (RecvList # <<>> /\ RecvList' = Tail(RecvList)))
      BY <1>3 DEF Pop, vars, sender, receiver, Still
    <2>3. Queue(t)' = Queue(t)
      BY <2>2 DEF Queue
    <2> QED
      BY <2>1, <2>2, <2>3, SameQueue, StillStep
  <1>4. (\E s \in Sources : SourceStep(s)) \/ Pop \/ UNCHANGED vars
    BY DEF Next, SourceStep
  <1> QED
    BY <1>1, <1>2, <1>3, <1>4 DEF Inv

LEMMA InvInit == Init => Inv
  <1> SUFFICES ASSUME Init
               PROVE  Inv
    OBVIOUS
  <1>1. ASSUME NEW s \in Sources
        PROVE  SourceInv(s)
    <2>1. Queue(s) = <<>> /\ sent[s] = 0 /\ last[s] = -1 /\ g_PacketsId[s] = 0 /\ RecvList = <<>>
          /\ \A id \in Ids : InCompletePackets[s][id] = <<>>
      BY DEF Init, Queue
    <2>2. 0 % U8 = 0
      BY RmCanAssumption
    <2> QED
      BY <2>1, <2>2 DEF SourceInv, QueueOK, EntriesOK, ListOK
  <1> QED
    BY <1>1, InitType DEF Inv

LEMMA ReadSource ==
    ASSUME Inv, NEW i \in 1 .. Len(RecvList)
    PROVE  RecvList[i].src \in Sources
  <1>1. RecvList \in Seq(Packet)
    BY DEF Inv, TypeOK
  <1>2. RecvList[i] \in Packet
    BY <1>1
  <1> QED
    BY <1>2 DEF Packet

LEMMA InvAlways == Spec => []Inv
  BY InvInit, InvStep, PTL DEF Spec

(* No packet handed to readCANData mixes the bytes of two packets, repeats   *)
(* one or misses one, for any width of the packet ids and any TimeOutId       *)
(* below it, whatever is lost, as long as no packet vanishes completely       *)
(* (rmCAN.cpp:255-338).                                                      *)
THEOREM PacketsAreWhole == Spec => []NoMixing
  <1>1. Inv => NoMixing
    <2> SUFFICES ASSUME Inv, NEW i \in 1 .. Len(RecvList), ~ skipped[RecvList[i].src]
                 PROVE  IsWhole(RecvList[i])
      BY DEF NoMixing
    <2>1. RecvList[i].src \in Sources
      BY ReadSource
    <2> QED
      BY <2>1 DEF Inv, SourceInv, ListOK, PacketOK
  <1> QED
    BY InvAlways, <1>1, PTL

(* The packets of a source are read in the order they were sent, none of the *)
(* fragmented ones twice, under the same condition.                          *)
THEOREM PacketsInOrder == Spec => []DeliveredInOrder
  <1>1. Inv => DeliveredInOrder
    <2> SUFFICES ASSUME Inv, NEW i \in 1 .. Len(RecvList), NEW j \in 1 .. Len(RecvList),
                        i < j, RecvList[i].src = RecvList[j].src, NoneSkipped
                 PROVE  Past(RecvList[i].data[1], RecvList[j].data[1])
      BY DEF DeliveredInOrder, Past
    <2>1. RecvList[i].src \in Sources
      BY ReadSource
    <2> QED
      BY <2>1 DEF Inv, SourceInv, ListOK, NoneSkipped
  <1> QED
    BY InvAlways, <1>1, PTL

(* Abandoned fragments hold at most U8 - TimeOutId ids of a source: the      *)
(* packets they belong to are among the last U8 - TimeOutId, one per id.     *)
THEOREM ResidueIsBounded == Spec => []BoundedResidue
  <1>1. ASSUME Inv, NEW s \in Sources, ~ skipped[s]
        PROVE  Cardinality({ id \in Ids : InCompletePackets[s][id] # <<>> }) =< U8 - TimeOutId
    <2> DEFINE S == { id \in Ids : InCompletePackets[s][id] # <<>> }
               l == last[s]
               w == U8 - TimeOutId
               T == l - w + 1 .. l
               g == [id \in S |-> InCompletePackets[s][id][1].of]
    <2>1. l \in Int /\ w \in Nat /\ w >= 1
      BY <1>1, RmCanAssumption DEF Inv, TypeOK
    <2>2. ASSUME NEW id \in S
          PROVE  g[id] \in T /\ g[id] % U8 = id
      <3>1. EntryOK(s, id, InCompletePackets[s][id], Queue(s), l)
        BY <1>1 DEF Inv, SourceInv, EntriesOK
      <3>2. InCompletePackets[s][id] \in Seq(Frame) /\ InCompletePackets[s][id] # <<>>
        BY <1>1 DEF Inv, TypeOK
      <3>3. InCompletePackets[s][id][1] \in Frame
        BY <3>2
      <3>4. g[id] \in Nat /\ g[id] % U8 = id /\ l - w < g[id] /\ g[id] =< l
        BY <3>1, <3>3, FrameFields DEF EntryOK, Collecting
      <3> HIDE DEF g, w, l
      <3> QED
        BY <2>1, <3>4
    <2>3. g \in Injection(S, T)
      <3>1. g \in [S -> T]
        BY <2>2
      <3>2. \A a, b \in S : g[a] = g[b] => a = b
        BY <2>2
      <3> QED
        BY <3>1, <3>2 DEF Injection, IsInjective
    <2>4. IsFiniteSet(T) /\ Cardinality(T) = w
      <3> HIDE DEF w, l
      <3>1. l - w + 1 \in Int /\ ~ (l - w + 1 > l) /\ l - (l - w + 1) + 1 = w
        BY <2>1
      <3> QED
        BY <2>1, <3>1, FS_Interval
    <2> HIDE DEF S, T, g
    <2>5. Cardinality(S) =< w
      BY <2>3, <2>4, FS_Injection
    <2> QED
      BY <2>5 DEF S
  <1>2. Inv => BoundedResidue
    BY <1>1 DEF BoundedResidue
  <1> QED
    BY InvAlways, <1>2, PTL

=============================================================================
