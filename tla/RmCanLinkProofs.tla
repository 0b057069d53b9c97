-------------------------- MODULE RmCanLinkProofs --------------------------
(***************************************************************************)
(* RmCan implements PacketLink: theorems for any sources, any width of the  *)
(* packet ids and any number of packets and faults.                         *)
(***************************************************************************)
EXTENDS RmCanLink, RmCanProofs

-----------------------------------------------------------------------------
(* Packets and their parts. *)

\* The first c fragments of the packet of f.
Part(f, c) == [i \in 1 .. c |-> [f EXCEPT !.packet_SN = i - 1]]

PacketOf(f) == Part(f, f.sum + 1)

LEMMA PartType ==
    ASSUME NEW f \in Frame, NEW c \in 0 .. f.sum + 1
    PROVE  /\ Part(f, c) \in Seq(Frame) /\ Len(Part(f, c)) = c
           /\ \A i \in 1 .. c : Part(f, c)[i] = [f EXCEPT !.packet_SN = i - 1]
  <1>1. f.sum \in 0 .. MaxSum /\ MaxSum \in Nat /\ c \in Nat
    BY RmCanAssumption DEF Frame
  <1>2. ASSUME NEW i \in 1 .. c
        PROVE  [f EXCEPT !.packet_SN = i - 1] \in Frame
    <2>1. i - 1 \in 0 .. MaxSum
      BY <1>1
    <2> QED
      BY <2>1 DEF Frame
  <1>3. Part(f, c) \in Seq(Frame)
    BY <1>1, <1>2, IsASeq DEF Part
  <1> QED
    BY <1>1, <1>3 DEF Part

LEMMA PacketIsFragments ==
    ASSUME NEW f \in Frame
    PROVE  PacketOf(f) = Fragments(f.s_id, f.of, f.packet_id, f.sum)
  <1>1. \A k \in Int : [f EXCEPT !.packet_SN = k]
            = [s_id |-> f.s_id, packet_id |-> f.packet_id, packet_SN |-> k,
               sum |-> f.sum, of |-> f.of]
    BY DEF Frame
  <1> QED
    BY <1>1 DEF PacketOf, Part, Fragments

LEMMA PartStep ==
    ASSUME NEW f \in Frame, NEW c \in 0 .. f.sum
    PROVE  Part(f, c + 1) = Append(Part(f, c), [f EXCEPT !.packet_SN = c])
  <1> DEFINE x == [f EXCEPT !.packet_SN = c]
             p == Part(f, c)
             r == Part(f, c + 1)
  <1>1. f.sum \in Nat /\ c \in 0 .. f.sum + 1 /\ c + 1 \in 0 .. f.sum + 1 /\ c \in Nat
    BY FrameFields
  <1>2. /\ p \in Seq(Frame) /\ Len(p) = c
        /\ \A i \in 1 .. c : p[i] = [f EXCEPT !.packet_SN = i - 1]
    BY <1>1, PartType
  <1>3. /\ r \in Seq(Frame) /\ Len(r) = c + 1
        /\ \A i \in 1 .. c + 1 : r[i] = [f EXCEPT !.packet_SN = i - 1]
    BY <1>1, PartType
  <1>4. r[c + 1] = x
    <2>1. (c + 1) - 1 = c /\ c + 1 \in 1 .. c + 1
      BY <1>1
    <2> QED
      BY <1>3, <2>1
  <1>5. x \in Frame
    <2>1. c + 1 \in 1 .. Len(r)
      BY <1>1, <1>3
    <2> QED
      BY <1>3, <1>4, <2>1, ElementOfSeq
  <1> HIDE DEF x, p, r
  <1>6. /\ Append(p, x) \in Seq(Frame) /\ Len(Append(p, x)) = c + 1
        /\ (\A i \in 1 .. c : Append(p, x)[i] = p[i]) /\ Append(p, x)[c + 1] = x
    BY <1>2, <1>5, AppendProperties
  <1>7. \A i \in 1 .. Len(r) : r[i] = Append(p, x)[i]
    <2>1. \A i \in 1 .. Len(r) : i \in 1 .. c \/ i = c + 1
      BY <1>1, <1>3
    <2> QED
      BY <1>2, <1>3, <1>4, <1>6, <2>1
  <1>8. r = Append(p, x)
    BY <1>3, <1>6, <1>7, SeqEqual
  <1> QED
    BY <1>8 DEF r, p, x

-----------------------------------------------------------------------------
(* The queue of a source. *)

\* The frames of a packet follow each other.
Runs(q) ==
    \A j \in 1 .. Len(q), k \in 1 .. Len(q) :
        k < j /\ k =< q[j].packet_SN
        => q[j - k] = [q[j] EXCEPT !.packet_SN = q[j].packet_SN - k]

\* Frame j ends a packet that can still be completed: each of its fragments is
\* in the queue q, or all those that are not are collected in the entries e.
Arrives(e, q, j) ==
    /\ q[j].packet_SN = q[j].sum
    /\ q[j].sum < j \/ e[q[j].packet_id] = Part(q[j], q[j].sum + 1 - j)

\* d[i] is the frame that ends w[i], and w has all the packets that can still
\* be completed.
TrackedBy(d, w, e, q) ==
    /\ \A i \in 1 .. Len(w) : d[i] \in 1 .. Len(q)
    /\ \A i \in 1 .. Len(w) : Arrives(e, q, d[i]) /\ w[i] = PacketOf(q[d[i]])
    /\ \A i, k \in 1 .. Len(w) : i < k => d[i] < d[k]
    /\ \A j \in 1 .. Len(q) : Arrives(e, q, j) => \E i \in 1 .. Len(w) : d[i] = j

Tracked(w, e, q) == \E d : TrackedBy(d, w, e, q)

\* The queue loses its first frame, and with it no packet.
LEMMA KeepAll ==
    ASSUME NEW P, NEW w \in Seq(P), NEW q \in Seq(Frame), q # <<>>, NEW e, NEW e2, NEW d,
           TrackedBy(d, w, e, q), ~ Arrives(e, q, 1),
           \A j \in 1 .. Len(q) - 1 : Arrives(e2, Tail(q), j) <=> Arrives(e, q, j + 1)
    PROVE  Tracked(w, e2, Tail(q))
  <1> DEFINE r == Tail(q)
             c == [i \in 1 .. Len(w) |-> d[i] - 1]
  <1>1. r \in Seq(Frame) /\ Len(r) = Len(q) - 1 /\ Len(q) \in Nat /\ Len(w) \in Nat
        /\ \A i \in 1 .. Len(q) - 1 : r[i] = q[i + 1]
    BY HeadTailProperties
  <1> HIDE DEF r
  <1>2. ASSUME NEW i \in 1 .. Len(w)
        PROVE  /\ d[i] \in Nat /\ c[i] = d[i] - 1 /\ c[i] \in 1 .. Len(r)
               /\ c[i] + 1 = d[i] /\ r[c[i]] = q[d[i]]
    <2>1. d[i] \in 1 .. Len(q) /\ d[i] # 1
      BY DEF TrackedBy
    <2>2. d[i] \in Nat /\ c[i] = d[i] - 1 /\ c[i] \in 1 .. Len(q) - 1 /\ c[i] + 1 = d[i]
      BY <2>1, <1>1
    <2> QED
      BY <2>2, <1>1
  <1>3. ASSUME NEW i \in 1 .. Len(w)
        PROVE  Arrives(e2, r, c[i]) /\ w[i] = PacketOf(r[c[i]])
    BY <1>1, <1>2 DEF TrackedBy, r
  <1>4. \A i, k \in 1 .. Len(w) : i < k => c[i] < c[k]
    <2> SUFFICES ASSUME NEW i \in 1 .. Len(w), NEW k \in 1 .. Len(w), i < k
                 PROVE  c[i] < c[k]
      OBVIOUS
    <2>1. d[i] < d[k]
      BY DEF TrackedBy
    <2>2. d[i] \in Nat /\ d[k] \in Nat /\ c[i] = d[i] - 1 /\ c[k] = d[k] - 1
      BY <1>2
    <2> HIDE DEF c
    <2> QED
      BY <2>1, <2>2
  <1>5. ASSUME NEW j \in 1 .. Len(r), Arrives(e2, r, j)
        PROVE  \E i \in 1 .. Len(w) : c[i] = j
    <2>1. j + 1 \in 1 .. Len(q) /\ Arrives(e, q, j + 1) /\ j \in Nat
      BY <1>1, <1>5 DEF r
    <2>2. PICK i \in 1 .. Len(w) : d[i] = j + 1
      BY <2>1 DEF TrackedBy
    <2>3. c[i] = j
      BY <2>1, <2>2, <1>2
    <2> QED
      BY <2>3
  <1> HIDE DEF c
  <1>6. TrackedBy(c, w, e2, r)
    BY <1>2, <1>3, <1>4, <1>5 DEF TrackedBy
  <1> QED
    BY <1>6 DEF Tracked, r
LEMMA WithoutFirst ==
    ASSUME NEW P, NEW w \in Seq(P), w # <<>>
    PROVE  /\ RemoveAt(w, 1) = Tail(w) /\ Tail(w) \in Seq(P) /\ Len(Tail(w)) = Len(w) - 1
           /\ \A i \in 1 .. Len(w) - 1 : Tail(w)[i] = w[i + 1]
  <1>1. SubSeq(w, 1, 0) = <<>>
    BY SubSeqEmpty
  <1>2. RemoveAt(w, 1) = <<>> \o SubSeq(w, 2, Len(w))
    BY <1>1 DEF RemoveAt
  <1>3. SubSeq(w, 2, Len(w)) = Tail(w)
    BY TailIsSubSeq
  <1>4. Tail(w) \in Seq(P) /\ Len(Tail(w)) = Len(w) - 1
        /\ \A i \in 1 .. Len(w) - 1 : Tail(w)[i] = w[i + 1]
    BY HeadTailProperties
  <1>5. <<>> \o Tail(w) = Tail(w)
    BY <1>4, ConcatEmptySeq
  <1> QED
    BY <1>2, <1>3, <1>4, <1>5

LEMMA WithoutLast ==
    ASSUME NEW P, NEW w \in Seq(P), w # <<>>
    PROVE  /\ RemoveAt(w, Len(w)) \in Seq(P) /\ Len(RemoveAt(w, Len(w))) = Len(w) - 1
           /\ \A i \in 1 .. Len(w) - 1 : RemoveAt(w, Len(w))[i] = w[i]
  <1> DEFINE n == Len(w)
  <1>1. n \in Nat /\ n # 0 /\ \A i \in 1 .. n : w[i] \in P
    BY EmptySeq
  <1>2. SubSeq(w, n + 1, n) = <<>>
    BY <1>1, SubSeqEmpty
  <1>3. /\ SubSeq(w, 1, n - 1) \in Seq(P) /\ Len(SubSeq(w, 1, n - 1)) = n - 1
        /\ \A i \in 1 .. n - 1 : SubSeq(w, 1, n - 1)[i] = w[i]
    <2>1. \A i \in 1 .. n - 1 : i \in 1 .. n /\ 1 + i - 1 = i
      BY <1>1
    <2>2. /\ SubSeq(w, 1, n - 1) \in Seq(P)
          /\ Len(SubSeq(w, 1, n - 1)) = IF 1 <= n - 1 THEN (n - 1) - 1 + 1 ELSE 0
          /\ \A i \in 1 .. (n - 1) - 1 + 1 : SubSeq(w, 1, n - 1)[i] = w[1 + i - 1]
      BY <1>1, <2>1, SubSeqProperties
    <2> HIDE DEF n
    <2> QED
      BY <1>1, <2>1, <2>2
  <1>4. RemoveAt(w, n) = SubSeq(w, 1, n - 1) \o <<>>
    BY <1>2 DEF RemoveAt
  <1>5. RemoveAt(w, n) = SubSeq(w, 1, n - 1)
    BY <1>3, <1>4, ConcatEmptySeq
  <1> QED
    BY <1>3, <1>5

\* The queue loses its first frame, and with it the oldest packet.
LEMMA DropFirst ==
    ASSUME NEW P, NEW w \in Seq(P), w # <<>>, NEW q \in Seq(Frame), q # <<>>,
           NEW e, NEW e2, NEW d, TrackedBy(d, w, e, q),
           \A j \in 1 .. Len(q) - 1 :
               Arrives(e2, Tail(q), j) <=> Arrives(e, q, j + 1) /\ j + 1 # d[1]
    PROVE  Tracked(Tail(w), e2, Tail(q))
  <1> DEFINE r == Tail(q)
             v == Tail(w)
             c == [i \in 1 .. Len(v) |-> d[i + 1] - 1]
  <1>1. r \in Seq(Frame) /\ Len(r) = Len(q) - 1 /\ Len(q) \in Nat /\ Len(w) \in Nat /\ Len(w) # 0
        /\ \A i \in 1 .. Len(q) - 1 : r[i] = q[i + 1]
    BY HeadTailProperties, EmptySeq
  <1>2. v \in Seq(P) /\ Len(v) = Len(w) - 1 /\ \A i \in 1 .. Len(v) : v[i] = w[i + 1]
    BY WithoutFirst
  <1> HIDE DEF r, v
  <1>3. ASSUME NEW i \in 1 .. Len(v)
        PROVE  /\ i + 1 \in 1 .. Len(w) /\ d[i + 1] \in Nat /\ c[i] = d[i + 1] - 1
               /\ c[i] \in 1 .. Len(r) /\ c[i] + 1 = d[i + 1] /\ c[i] + 1 # d[1]
               /\ r[c[i]] = q[d[i + 1]]
    <2>1. i + 1 \in 1 .. Len(w) /\ 1 \in 1 .. Len(w) /\ 1 < i + 1
      BY <1>1, <1>2
    <2>2. d[i + 1] \in 1 .. Len(q) /\ d[1] \in 1 .. Len(q) /\ d[1] < d[i + 1]
      BY <2>1 DEF TrackedBy
    <2>3. /\ d[i + 1] \in Nat /\ c[i] = d[i + 1] - 1 /\ c[i] \in 1 .. Len(q) - 1
          /\ c[i] + 1 = d[i + 1] /\ c[i] + 1 # d[1]
      BY <2>2, <1>1
    <2> HIDE DEF c
    <2> QED
      BY <2>1, <2>3, <1>1
  <1>4. ASSUME NEW i \in 1 .. Len(v)
        PROVE  Arrives(e2, r, c[i]) /\ v[i] = PacketOf(r[c[i]])
    <2>1. Arrives(e, q, c[i] + 1) /\ w[i + 1] = PacketOf(q[c[i] + 1]) /\ c[i] \in 1 .. Len(q) - 1
      BY <1>1, <1>3 DEF TrackedBy
    <2> HIDE DEF c
    <2> QED
      BY <2>1, <1>1, <1>2, <1>3 DEF r
  <1>5. \A i, k \in 1 .. Len(v) : i < k => c[i] < c[k]
    <2> SUFFICES ASSUME NEW i \in 1 .. Len(v), NEW k \in 1 .. Len(v), i < k
                 PROVE  c[i] < c[k]
      OBVIOUS
    <2>1. i + 1 \in 1 .. Len(w) /\ k + 1 \in 1 .. Len(w) /\ i + 1 < k + 1
      BY <1>1, <1>2
    <2>2. d[i + 1] < d[k + 1]
      BY <2>1 DEF TrackedBy
    <2>3. d[i + 1] \in Nat /\ d[k + 1] \in Nat /\ c[i] = d[i + 1] - 1 /\ c[k] = d[k + 1] - 1
      BY <1>3
    <2> HIDE DEF c
    <2> QED
      BY <2>2, <2>3
  <1>6. ASSUME NEW j \in 1 .. Len(r), Arrives(e2, r, j)
        PROVE  \E i \in 1 .. Len(v) : c[i] = j
    <2>1. j + 1 \in 1 .. Len(q) /\ Arrives(e, q, j + 1) /\ j \in Nat /\ j + 1 # d[1]
      BY <1>1, <1>6 DEF r
    <2>2. PICK i \in 1 .. Len(w) : d[i] = j + 1
      BY <2>1 DEF TrackedBy
    <2>3. i # 1 /\ i - 1 \in 1 .. Len(v) /\ (i - 1) + 1 = i
      BY <2>1, <2>2, <1>1, <1>2
    <2>4. c[i - 1] = j
      BY <2>1, <2>2, <2>3, <1>3
    <2> QED
      BY <2>3, <2>4
  <1> HIDE DEF c
  <1>7. TrackedBy(c, v, e2, r)
    BY <1>3, <1>4, <1>5, <1>6 DEF TrackedBy
  <1> QED
    BY <1>7 DEF Tracked, r, v

\* A packet is added to the queue.
LEMMA AddLast ==
    ASSUME NEW P, NEW w \in Seq(P), NEW q \in Seq(Frame), NEW o \in Seq(Frame), o # <<>>,
           NEW e, Tracked(w, e, q), NEW p \in P, p = PacketOf(o[Len(o)]),
           \A j \in 1 .. Len(o) : o[j].packet_SN = o[j].sum <=> j = Len(o),
           o[Len(o)].sum < Len(o)
    PROVE  Tracked(Append(w, p), e, q \o o)
  <1> DEFINE n == Len(w)
             m == Len(q)
             l == Len(o)
             r == q \o o
             v == Append(w, p)
  <1>1. PICK d : TrackedBy(d, w, e, q)
    BY DEF Tracked
  <1> DEFINE c == [i \in 1 .. n + 1 |-> IF i = n + 1 THEN m + l ELSE d[i]]
  <1>2. n \in Nat /\ m \in Nat /\ l \in Nat /\ l # 0
    BY EmptySeq
  <1>3. /\ r \in Seq(Frame) /\ Len(r) = m + l
        /\ \A i \in 1 .. m + l : r[i] = IF i =< m THEN q[i] ELSE o[i - m]
    BY ConcatProperties
  <1>4. Len(v) = n + 1 /\ v[n + 1] = p /\ \A i \in 1 .. n : v[i] = w[i]
    BY AppendProperties
  <1>5. \A j \in 1 .. m : d[j] = d[j] /\ j \in 1 .. m + l /\ r[j] = q[j]
    BY <1>2, <1>3
  <1>6. r[m + l] = o[l] /\ m + l \in 1 .. m + l
    <2>1. m + l \in 1 .. m + l /\ ~ (m + l =< m) /\ (m + l) - m = l
      BY <1>2
    <2> QED
      BY <1>3, <2>1
  <1>7. o[l] \in Frame /\ o[l].sum \in Nat /\ l \in 1 .. l
    <2>1. l \in 1 .. l
      BY <1>2
    <2>2. o[l] \in Frame
      BY <2>1, ElementOfSeq
    <2> QED
      BY <2>1, <2>2, FrameFields
  <1> HIDE DEF n, m, l, r, v
  <1>8. \A j \in 1 .. m : Arrives(e, r, j) <=> Arrives(e, q, j)
    BY <1>5 DEF Arrives
  <1>9. Arrives(e, r, m + l)
    <2>1. o[l].packet_SN = o[l].sum /\ o[l].sum < l
      BY <1>7 DEF l
    <2>2. o[l].sum < m + l
      BY <2>1, <1>2, <1>7
    <2> QED
      BY <2>1, <2>2, <1>6 DEF Arrives
  <1>10. ASSUME NEW j \in 1 .. Len(r), Arrives(e, r, j)
         PROVE  j \in 1 .. m \/ j = m + l
    <2>1. SUFFICES ASSUME ~ (j =< m)
                   PROVE  j = m + l
      BY <1>2, <1>3
    <2>2. j - m \in 1 .. l /\ r[j] = o[j - m]
      BY <1>2, <1>3, <2>1
    <2>3. j - m = l
      BY <1>10, <2>2 DEF Arrives, l
    <2> QED
      BY <1>2, <1>3, <2>3
  <1>11. ASSUME NEW i \in 1 .. n
         PROVE  /\ c[i] = d[i] /\ d[i] \in 1 .. m /\ v[i] = w[i] /\ i \in 1 .. n + 1
                /\ Arrives(e, q, d[i]) /\ w[i] = PacketOf(q[d[i]])
    <2>1. i \in 1 .. n + 1 /\ i # n + 1
      BY <1>2
    <2>2. c[i] = d[i]
      BY <2>1
    <2> QED
      BY <1>1, <1>4, <2>1, <2>2 DEF TrackedBy, m, n
  <1>12. c[n + 1] = m + l /\ \A i \in 1 .. n + 1 : i \in 1 .. n \/ i = n + 1
    BY <1>2
  <1> HIDE DEF c
  <1>13. \A i \in 1 .. n + 1 :
            c[i] \in 1 .. Len(r) /\ Arrives(e, r, c[i]) /\ v[i] = PacketOf(r[c[i]])
    <2>1. ASSUME NEW i \in 1 .. n
          PROVE  c[i] \in 1 .. Len(r) /\ Arrives(e, r, c[i]) /\ v[i] = PacketOf(r[c[i]])
      BY <1>3, <1>5, <1>8, <1>11
    <2>2. c[n + 1] \in 1 .. Len(r) /\ Arrives(e, r, c[n + 1])
          /\ v[n + 1] = PacketOf(r[c[n + 1]])
      BY <1>3, <1>4, <1>6, <1>9, <1>12 DEF l
    <2> QED
      BY <1>12, <2>1, <2>2
  <1>14. \A i, k \in 1 .. n + 1 : i < k => c[i] < c[k]
    <2> SUFFICES ASSUME NEW i \in 1 .. n + 1, NEW k \in 1 .. n + 1, i < k
                 PROVE  c[i] < c[k]
      OBVIOUS
    <2>1. i \in 1 .. n
      BY <1>2
    <2>2. CASE k \in 1 .. n
      BY <1>1, <1>11, <2>1, <2>2 DEF TrackedBy, n
    <2>3. CASE k = n + 1
      <3>1. c[i] \in 1 .. m /\ c[k] = m + l
        BY <1>11, <1>12, <2>1, <2>3
      <3> QED
        BY <1>2, <3>1
    <2> QED
      BY <1>12, <2>2, <2>3
  <1>15. ASSUME NEW j \in 1 .. Len(r), Arrives(e, r, j)
         PROVE  \E i \in 1 .. n + 1 : c[i] = j
    <2>1. CASE j \in 1 .. m
      <3>1. PICK i \in 1 .. n : d[i] = j
        BY <1>1, <1>8, <1>15, <2>1 DEF TrackedBy, m, n
      <3> QED
        BY <1>11, <3>1
    <2>2. CASE j = m + l
      <3>1. n + 1 \in 1 .. n + 1
        BY <1>2
      <3> QED
        BY <1>12, <2>2, <3>1
    <2> QED
      BY <1>10, <1>15, <2>1, <2>2
  <1>16. TrackedBy(c, v, e, r)
    BY <1>4, <1>13, <1>14, <1>15 DEF TrackedBy
  <1> QED
    BY <1>16 DEF Tracked, r, v

\* The queue is cut where no packet is lost.
LEMMA CutNone ==
    ASSUME NEW P, NEW w \in Seq(P), NEW q \in Seq(Frame), NEW r \in Seq(Frame), Len(r) =< Len(q),
           \A j \in 1 .. Len(r) : r[j] = q[j], NEW e, Tracked(w, e, q),
           \A j \in 1 .. Len(q) : j > Len(r) => ~ Arrives(e, q, j)
    PROVE  Tracked(w, e, r)
  <1>1. PICK d : TrackedBy(d, w, e, q)
    BY DEF Tracked
  <1>2. Len(q) \in Nat /\ Len(r) \in Nat
    BY EmptySeq
  <1>3. \A j \in 1 .. Len(r) : j \in 1 .. Len(q) /\ (Arrives(e, r, j) <=> Arrives(e, q, j))
    BY <1>2 DEF Arrives
  <1>4. ASSUME NEW i \in 1 .. Len(w)
        PROVE  /\ d[i] \in 1 .. Len(r) /\ Arrives(e, r, d[i]) /\ w[i] = PacketOf(r[d[i]])
    <2>1. d[i] \in 1 .. Len(q) /\ Arrives(e, q, d[i]) /\ w[i] = PacketOf(q[d[i]])
      BY <1>1 DEF TrackedBy
    <2>2. d[i] \in 1 .. Len(r)
      BY <1>2, <2>1
    <2> QED
      BY <1>3, <2>1, <2>2
  <1>5. \A j \in 1 .. Len(r) : Arrives(e, r, j) => \E i \in 1 .. Len(w) : d[i] = j
    BY <1>1, <1>3 DEF TrackedBy
  <1>6. TrackedBy(d, w, e, r)
    BY <1>1, <1>4, <1>5 DEF TrackedBy
  <1> QED
    BY <1>6 DEF Tracked

\* The queue is cut and loses its last frame, which ends a packet.
LEMMA CutLast ==
    ASSUME NEW P, NEW w \in Seq(P), NEW q \in Seq(Frame), NEW r \in Seq(Frame), Len(r) < Len(q),
           \A j \in 1 .. Len(r) : r[j] = q[j], NEW e, NEW d, TrackedBy(d, w, e, q),
           Arrives(e, q, Len(q)),
           \A j \in 1 .. Len(q) : j > Len(r) /\ j # Len(q) => ~ Arrives(e, q, j)
    PROVE  /\ w # <<>> /\ d[Len(w)] = Len(q)
           /\ Tracked(RemoveAt(w, Len(w)), e, r)
  <1> DEFINE n == Len(w)
             v == RemoveAt(w, n)
  <1>2. Len(q) \in Nat /\ Len(r) \in Nat /\ n \in Nat /\ Len(q) \in 1 .. Len(q)
    BY EmptySeq
  <1>3. PICK k \in 1 .. n : d[k] = Len(q)
    BY <1>2 DEF TrackedBy
  <1>4. n \in 1 .. n /\ w # <<>>
    BY <1>2, <1>3, EmptySeq
  <1>5. k = n
    <2>1. SUFFICES ASSUME k < n
                   PROVE  FALSE
      BY <1>2
    <2>2. d[k] < d[n] /\ d[n] \in 1 .. Len(q)
      BY <1>4, <2>1 DEF TrackedBy
    <2> QED
      BY <1>2, <1>3, <2>2
  <1>6. v \in Seq(P) /\ Len(v) = n - 1 /\ \A i \in 1 .. n - 1 : v[i] = w[i]
    BY <1>4, WithoutLast
  <1> HIDE DEF v, n
  <1>7. \A j \in 1 .. Len(r) : j \in 1 .. Len(q) /\ (Arrives(e, r, j) <=> Arrives(e, q, j))
    BY <1>2 DEF Arrives
  <1>8. ASSUME NEW i \in 1 .. n - 1
        PROVE  /\ i \in 1 .. n /\ d[i] \in 1 .. Len(r)
               /\ Arrives(e, r, d[i]) /\ v[i] = PacketOf(r[d[i]])
    <2>1. i \in 1 .. n /\ i < n
      BY <1>2
    <2>2. /\ d[i] \in 1 .. Len(q) /\ Arrives(e, q, d[i]) /\ w[i] = PacketOf(q[d[i]])
          /\ d[i] < d[n]
      BY <1>4, <2>1 DEF TrackedBy, n
    <2>3. d[i] # Len(q)
      BY <1>2, <1>3, <1>5, <2>2
    <2>4. d[i] \in 1 .. Len(r)
      BY <1>2, <2>2, <2>3
    <2> QED
      BY <1>6, <1>7, <2>1, <2>2, <2>4
  <1>9. ASSUME NEW j \in 1 .. Len(r), Arrives(e, r, j)
        PROVE  \E i \in 1 .. n - 1 : d[i] = j
    <2>1. PICK i \in 1 .. n : d[i] = j
      BY <1>7, <1>9 DEF TrackedBy, n
    <2>2. i # n
      BY <1>2, <1>3, <1>5, <2>1
    <2>3. i \in 1 .. n - 1
      BY <1>2, <2>2
    <2> QED
      BY <2>1, <2>3
  <1>10. TrackedBy(d, v, e, r)
    BY <1>6, <1>8, <1>9 DEF TrackedBy, n
  <1> QED
    BY <1>3, <1>4, <1>5, <1>10 DEF Tracked, v, n

-----------------------------------------------------------------------------
(* What becomes of a packet when a frame leaves the queue. *)

\* The fragment at the head of the queue is of every packet with a frame there
\* that is no further away than its number.
LEMMA HeadIsPart ==
    ASSUME NEW q \in Seq(Frame), Runs(q), NEW j \in 2 .. Len(q),
           q[j].packet_SN = q[j].sum, ~ (q[j].sum < j - 1)
    PROVE  /\ q[1] = [q[j] EXCEPT !.packet_SN = q[j].sum + 1 - j]
           /\ q[1].sum = q[j].sum /\ q[1].packet_id = q[j].packet_id /\ q[1].of = q[j].of
           /\ q[1].packet_SN = q[j].sum + 1 - j /\ q[1].sum # 0
           /\ q[j].sum + 1 - j \in 0 .. q[j].sum - 1 /\ q[j] \in Frame /\ q[1] \in Frame
  <1>1. Len(q) \in Nat
    BY EmptySeq
  <1>2. j \in 1 .. Len(q) /\ 1 \in 1 .. Len(q) /\ j - 1 \in 1 .. Len(q) /\ j - 1 < j /\ j - (j - 1) = 1
    BY <1>1
  <1>3. q[j] \in Frame /\ q[1] \in Frame
    BY <1>2, ElementOfSeq
  <1>4. q[j].sum \in Nat
    BY <1>3, FrameFields
  <1>5. j - 1 =< q[j].packet_SN /\ q[j].packet_SN - (j - 1) = q[j].sum + 1 - j
        /\ q[j].sum + 1 - j \in 0 .. q[j].sum - 1
    BY <1>2, <1>4
  <1>6. q[j - (j - 1)] = [q[j] EXCEPT !.packet_SN = q[j].packet_SN - (j - 1)]
    BY <1>2, <1>5 DEF Runs
  <1>7. q[1] = [q[j] EXCEPT !.packet_SN = q[j].sum + 1 - j]
    BY <1>2, <1>5, <1>6
  <1>8. q[j].sum # 0
    BY <1>2, <1>5, <1>4
  <1> QED
    BY <1>3, <1>5, <1>7, <1>8 DEF Frame

\* The receiver treats the frame f as recvFromCan does: entries e become e2.
Stored(f, e, e2) ==
    IF e[f.packet_id] = <<>> THEN e2[f.packet_id] = <<f>>
                             ELSE e2[f.packet_id] = Append(e[f.packet_id], f)

LEMMA Distance ==
    ASSUME NEW a \in Nat, NEW j \in Nat, ~ (a < j)
    PROVE  a + 1 - j = (a + 1 - (j + 1)) + 1 /\ (a < j + 1 <=> a + 1 - (j + 1) = 0)
  OBVIOUS

\* Taking the first frame of the queue leaves every other packet as it was.
LEMMA FateTaken ==
    ASSUME NEW q \in Seq(Frame), q # <<>>, Runs(q),
           NEW e \in [Ids -> Seq(Frame)], NEW e2,
           q[1].packet_SN # q[1].sum
              => /\ Stored(q[1], e, e2)
                 /\ e[q[1].packet_id] # <<>> => q[1].packet_SN # 0,
           NEW j \in 1 .. Len(q) - 1
    PROVE  Arrives(e2, Tail(q), j) <=> Arrives(e, q, j + 1)
  <1> DEFINE g == q[j + 1]
             f == q[1]
             c == g.sum + 1 - (j + 1)
  <1>1. Len(q) \in Nat /\ Tail(q)[j] = g /\ j + 1 \in 2 .. Len(q) /\ j \in Nat
        /\ j + 1 \in 1 .. Len(q) /\ (j + 1) - 1 = j
    BY HeadTailProperties, EmptySeq
  <1>2. g \in Frame /\ g.sum \in Nat /\ g.packet_id \in Ids
    BY <1>1, ElementOfSeq, FrameFields
  <1>3. CASE g.packet_SN # g.sum
    BY <1>1, <1>3 DEF Arrives
  <1>4. CASE g.packet_SN = g.sum /\ g.sum < j
    <2>1. g.sum < j + 1
      BY <1>1, <1>2, <1>4
    <2> QED
      BY <1>1, <1>4, <2>1 DEF Arrives
  <1>5. CASE g.packet_SN = g.sum /\ ~ (g.sum < j)
    <2>1. /\ f = [g EXCEPT !.packet_SN = c] /\ f.packet_SN = c /\ f.sum = g.sum
          /\ f.packet_id = g.packet_id /\ c \in 0 .. g.sum - 1 /\ f \in Frame
      BY <1>1, <1>5, HeadIsPart
    <2>2. c \in 0 .. g.sum /\ c \in Nat /\ f.packet_SN # f.sum
      BY <1>2, <2>1
    <2>3. g.sum + 1 - j = c + 1 /\ (g.sum < j + 1 <=> c = 0)
      BY <1>1, <1>2, <1>5, Distance
    <2> DEFINE v == e[g.packet_id]
               x == e2[g.packet_id]
    <2>4. Part(g, c + 1) = Append(Part(g, c), f)
      BY <1>2, <2>1, <2>2, PartStep
    <2>5. /\ Part(g, c) \in Seq(Frame) /\ Len(Part(g, c)) = c
          /\ Part(g, c + 1) \in Seq(Frame) /\ Len(Part(g, c + 1)) = c + 1
      <3>1. c \in 0 .. g.sum + 1 /\ c + 1 \in 0 .. g.sum + 1
        BY <1>2, <2>2
      <3> QED
        BY <1>2, <3>1, PartType
    <2>6. v \in Seq(Frame) /\ (v = <<>> => x = <<f>>) /\ (v # <<>> => x = Append(v, f) /\ c # 0)
      BY <1>2, <2>1, <2>2 DEF Stored
    <2>7. Arrives(e2, Tail(q), j) <=> x = Part(g, c + 1)
      BY <1>1, <1>5, <2>3 DEF Arrives
    <2>8. Arrives(e, q, j + 1) <=> c = 0 \/ v = Part(g, c)
      BY <1>1, <1>5, <2>3 DEF Arrives
    <2> HIDE DEF c, g, f, v, x
    <2>9. CASE v # <<>>
      <3>1. x = Part(g, c + 1) <=> v = Part(g, c)
        <4>1. x = Append(v, f) /\ v \in Seq(Frame) /\ Part(g, c) \in Seq(Frame) /\ f \in Frame
          BY <2>1, <2>5, <2>6, <2>9
        <4>2. Append(v, f) = Append(Part(g, c), f) <=> v = Part(g, c)
          BY <4>1, AppendInjective
        <4> QED
          BY <2>4, <4>1, <4>2
      <3> QED
        BY <2>6, <2>7, <2>8, <2>9, <3>1
    <2>10. CASE v = <<>> /\ c = 0
      <3>1. Part(g, c) = <<>>
        BY <2>5, <2>10, EmptySeq
      <3>2. Append(<<>>, f) = <<f>>
        BY <2>1
      <3> QED
        BY <2>4, <2>6, <2>7, <2>8, <2>10, <3>1, <3>2
    <2>11. CASE v = <<>> /\ c # 0
      <3>1. Len(<<f>>) = 1 /\ Len(<<>>) = 0 /\ c + 1 # 1
        BY <2>1, <2>2, <2>11
      <3> QED
        BY <2>5, <2>6, <2>7, <2>8, <2>11, <3>1
    <2> QED
      BY <2>9, <2>10, <2>11
  <1> QED
    BY <1>3, <1>4, <1>5

\* Losing it spoils the packets it belongs to.
LEMMA FateLost ==
    ASSUME NEW q \in Seq(Frame), q # <<>>, Runs(q), NEW e \in [Ids -> Seq(Frame)],
           \A i \in 1 .. Len(e[q[1].packet_id]) : Before(e[q[1].packet_id][i], q[1]),
           NEW j \in 1 .. Len(q) - 1
    PROVE  Arrives(e, Tail(q), j) <=> Arrives(e, q, j + 1) /\ q[j + 1].sum < j
  <1> DEFINE g == q[j + 1]
             f == q[1]
             c == g.sum + 1 - (j + 1)
  <1>1. Len(q) \in Nat /\ Tail(q)[j] = g /\ j + 1 \in 2 .. Len(q) /\ j \in Nat
        /\ j + 1 \in 1 .. Len(q) /\ (j + 1) - 1 = j
    BY HeadTailProperties, EmptySeq
  <1>2. g \in Frame /\ g.sum \in Nat /\ g.packet_id \in Ids
    BY <1>1, ElementOfSeq, FrameFields
  <1>3. CASE g.packet_SN # g.sum
    BY <1>1, <1>3 DEF Arrives
  <1>4. CASE g.packet_SN = g.sum /\ g.sum < j
    <2>1. g.sum < j + 1
      BY <1>1, <1>2, <1>4
    <2> QED
      BY <1>1, <1>4, <2>1 DEF Arrives
  <1>5. CASE g.packet_SN = g.sum /\ ~ (g.sum < j)
    <2>1. /\ f = [g EXCEPT !.packet_SN = c] /\ f.packet_SN = c /\ f.sum = g.sum /\ f.sum # 0
          /\ f.packet_id = g.packet_id /\ c \in 0 .. g.sum - 1 /\ f \in Frame
      BY <1>1, <1>5, HeadIsPart
    <2>2. c + 1 \in 0 .. g.sum + 1 /\ c \in Nat
      BY <1>2, <2>1
    <2>8. g.sum + 1 - j = c + 1
      BY <1>1, <1>2, <1>5, Distance
    <2>3. SUFFICES ASSUME e[g.packet_id] = Part(g, c + 1)
                   PROVE  FALSE
      BY <1>1, <1>5, <2>8 DEF Arrives
    <2>4. /\ Len(Part(g, c + 1)) = c + 1 /\ c + 1 \in 1 .. c + 1
          /\ Part(g, c + 1)[c + 1] = [g EXCEPT !.packet_SN = (c + 1) - 1]
      <3>1. c + 1 \in 1 .. c + 1
        BY <2>2
      <3> HIDE DEF c
      <3> QED
        BY <1>2, <2>2, <3>1, PartType
    <2>5. (c + 1) - 1 = c
      BY <2>2
    <2>6. Before(f, f)
      BY <2>1, <2>3, <2>4, <2>5
    <2>7. f.of \in Nat /\ f.packet_SN \in Nat
      BY <2>1, FrameFields
    <2> HIDE DEF f
    <2> QED
      BY <2>1, <2>6, <2>7 DEF Before
  <1> QED
    BY <1>3, <1>4, <1>5

\* f is a fragment of the packet that g ends.
LEMMA PartOfPacket ==
    ASSUME NEW f \in Frame, NEW g \in Frame
    PROVE  /\ Contains(PacketOf(g), f)
                => /\ f = [g EXCEPT !.packet_SN = f.packet_SN] /\ f.packet_SN =< g.sum
                   /\ f.of = g.of /\ f.sum = g.sum
           /\ \A k \in 0 .. g.sum :
                 f = [g EXCEPT !.packet_SN = k] => Contains(PacketOf(g), f)
  <1>1. g.sum \in Nat /\ g.sum + 1 \in 0 .. g.sum + 1
    BY FrameFields
  <1>2. /\ Len(PacketOf(g)) = g.sum + 1
        /\ \A i \in 1 .. g.sum + 1 : PacketOf(g)[i] = [g EXCEPT !.packet_SN = i - 1]
    BY <1>1, PartType DEF PacketOf
  <1>3. ASSUME Contains(PacketOf(g), f)
        PROVE  /\ f = [g EXCEPT !.packet_SN = f.packet_SN] /\ f.packet_SN =< g.sum
               /\ f.of = g.of /\ f.sum = g.sum
    <2>1. PICK i \in 1 .. g.sum + 1 : f = [g EXCEPT !.packet_SN = i - 1]
      BY <1>2, <1>3 DEF Contains
    <2>2. f.packet_SN = i - 1 /\ f.of = g.of /\ f.sum = g.sum
      BY <2>1 DEF Frame
    <2>3. i - 1 =< g.sum
      BY <1>1, <2>1
    <2> QED
      BY <2>1, <2>2, <2>3
  <1>4. ASSUME NEW k \in 0 .. g.sum, f = [g EXCEPT !.packet_SN = k]
        PROVE  Contains(PacketOf(g), f)
    <2>1. k + 1 \in 1 .. g.sum + 1 /\ (k + 1) - 1 = k
      BY <1>1
    <2>2. PacketOf(g)[k + 1] = f
      BY <1>2, <1>4, <2>1
    <2> QED
      BY <1>2, <2>1, <2>2 DEF Contains
  <1> QED
    BY <1>3, <1>4

Ordered(q) == \A i, j \in 1 .. Len(q) : i < j => Before(q[i], q[j])

\* Frame 1 of the queue is of the oldest packet in flight or of none.
LEMMA OldestPacket ==
    ASSUME NEW w, NEW q \in Seq(Frame), q # <<>>, Runs(q), Ordered(q),
           \A i \in 1 .. Len(q) : q[i].sum = 0 => q[i].packet_SN = 0,
           NEW e, NEW d, TrackedBy(d, w, e, q), 1 \in 1 .. Len(w)
    PROVE  /\ Contains(w[1], q[1]) <=> ~ (q[d[1]].sum < d[1] - 1)
           /\ \A j \in 1 .. Len(q) : Arrives(e, q, j) /\ j # d[1] => q[j].sum < j - 1
           /\ Arrives(e, q, 1) => d[1] = 1
           /\ d[1] \in 1 .. Len(q) /\ q[d[1]].sum \in Nat
           /\ Arrives(e, q, d[1]) /\ w[1] = PacketOf(q[d[1]])
  <1> DEFINE h == d[1]
             g == q[h]
             f == q[1]
  <1>1. /\ h \in 1 .. Len(q) /\ Arrives(e, q, h) /\ w[1] = PacketOf(g)
    BY DEF TrackedBy
  <1>2. 1 \in 1 .. Len(q) /\ Len(q) \in Nat
    BY EmptySeq
  <1>3. g \in Frame /\ f \in Frame
    BY <1>1, <1>2, ElementOfSeq
  <1>4. g.sum \in Nat /\ f.packet_SN \in Nat /\ f.of \in Nat
    BY <1>3, FrameFields
  <1>5. g.packet_SN = g.sum
    BY <1>1 DEF Arrives
  <1>6. \A j \in 1 .. Len(q) : Arrives(e, q, j) => h =< j
    <2> SUFFICES ASSUME NEW j \in 1 .. Len(q), Arrives(e, q, j)
                 PROVE  h =< j
      OBVIOUS
    <2>1. PICK i \in 1 .. Len(w) : d[i] = j
      BY DEF TrackedBy
    <2>2. i = 1 \/ 1 < i
      BY <2>1
    <2>3. 1 < i => d[1] < d[i]
      BY <2>1 DEF TrackedBy
    <2> QED
      BY <1>1, <2>1, <2>2, <2>3
  <1>7. ASSUME NEW j \in 1 .. Len(q), Arrives(e, q, j), j # h
        PROVE  q[j].sum < j - 1
    <2>1. SUFFICES ASSUME ~ (q[j].sum < j - 1)
                   PROVE  FALSE
      OBVIOUS
    <2>2. h < j
      BY <1>1, <1>6, <1>7
    <2>3. q[j] \in Frame /\ q[j].sum \in Nat /\ q[j].packet_SN = q[j].sum
      BY <1>7, ElementOfSeq, FrameFields DEF Arrives
    <2>4. j - h \in 1 .. Len(q) /\ j - h < j /\ j - h =< q[j].sum /\ j - (j - h) = h
      BY <1>1, <1>2, <2>1, <2>2, <2>3
    <2>5. g = [q[j] EXCEPT !.packet_SN = q[j].sum - (j - h)]
      BY <2>3, <2>4 DEF Runs
    <2>6. g.packet_SN = q[j].sum - (j - h) /\ g.sum = q[j].sum
      BY <2>3, <2>5 DEF Frame
    <2> QED
      <3> DEFINE a == q[j].sum
      <3>1. a \in Nat /\ a = a - (j - h) /\ j - h \in 1 .. Len(q)
        BY <1>5, <2>3, <2>4, <2>6
      <3> HIDE DEF a, h
      <3> QED
        BY <3>1
  <1>8. Arrives(e, q, 1) => h = 1
    BY <1>1, <1>2, <1>6
  <1>9. ASSUME ~ (g.sum < h - 1)
        PROVE  Contains(w[1], f)
    <2>1. CASE h = 1
      <3>1. f = [g EXCEPT !.packet_SN = g.sum] /\ g.sum \in 0 .. g.sum
        BY <1>3, <1>4, <1>5, <2>1 DEF Frame
      <3> QED
        BY <1>1, <1>3, <3>1, PartOfPacket
    <2>2. CASE h # 1
      <3>1. h \in 2 .. Len(q)
        BY <1>1, <2>2
      <3>2. f = [g EXCEPT !.packet_SN = g.sum + 1 - h] /\ g.sum + 1 - h \in 0 .. g.sum - 1
        BY <1>5, <1>9, <3>1, HeadIsPart
      <3>3. g.sum + 1 - h \in 0 .. g.sum
        BY <1>4, <3>2
      <3> QED
        BY <1>1, <1>3, <3>2, <3>3, PartOfPacket
    <2> QED
      BY <2>1, <2>2
  <1>10. ASSUME g.sum < h - 1
         PROVE  ~ Contains(w[1], f)
    <2>1. SUFFICES ASSUME Contains(w[1], f)
                   PROVE  FALSE
      OBVIOUS
    <2>2. f = [g EXCEPT !.packet_SN = f.packet_SN] /\ f.packet_SN =< g.sum
          /\ f.of = g.of /\ f.sum = g.sum
      BY <1>1, <1>3, <2>1, PartOfPacket
    <2>3. 1 < h
      BY <1>1, <1>4, <1>10
    <2>4. Before(f, g)
      BY <1>1, <1>2, <2>3 DEF Ordered
    <2>5. f.sum = 0 \/ f.packet_SN < g.sum
      BY <1>4, <1>5, <2>2, <2>4 DEF Before
    <2>6. CASE f.sum = 0
      <3>1. f.packet_SN = 0 /\ f.sum < 1
        BY <1>2, <2>6
      <3>2. Arrives(e, q, 1)
        BY <2>6, <3>1 DEF Arrives
      <3> QED
        BY <1>8, <2>3, <3>2
    <2>7. CASE f.sum # 0 /\ f.packet_SN < g.sum
      <3> DEFINE k == g.sum - f.packet_SN
                 m == h - k
      <3>1. k \in 1 .. Len(q) /\ k < h /\ k =< g.sum /\ g.sum - k = f.packet_SN
            /\ m \in 1 .. Len(q) /\ 1 < m
        <4>1. h \in Nat /\ Len(q) \in Nat /\ h =< Len(q)
          BY <1>1, <1>2
        <4>2. \A a \in Nat, x \in Nat : a < h - 1 /\ x < a
                 => /\ a - x \in 1 .. Len(q) /\ a - x < h /\ a - x =< a /\ a - (a - x) = x
                    /\ h - (a - x) \in 1 .. Len(q) /\ 1 < h - (a - x)
          <5> HIDE DEF h
          <5> QED
            BY <4>1
        <4> QED
          BY <1>4, <1>10, <2>7, <4>2
      <3>2. q[m] = [g EXCEPT !.packet_SN = g.sum - k]
        BY <1>1, <1>5, <3>1 DEF Runs
      <3>3. q[m] = f
        BY <2>2, <3>1, <3>2
      <3>4. Before(f, f)
        BY <1>2, <3>1, <3>3 DEF Ordered
      <3> HIDE DEF f
      <3> QED
        BY <1>4, <2>7, <3>4 DEF Before
    <2> QED
      BY <2>5, <2>6, <2>7
  <1> QED
    BY <1>1, <1>4, <1>7, <1>8, <1>9, <1>10

\* What is left to write is the end of one packet.
Rest(o) ==
    \A i \in 1 .. Len(o) :
        o[i] = [o[Len(o)] EXCEPT !.packet_SN = o[Len(o)].sum - (Len(o) - i)]

LEMMA RestFields ==
    ASSUME NEW o \in Seq(Frame), o # <<>>, Rest(o)
    PROVE  /\ Len(o) \in 1 .. Len(o) /\ 1 \in 1 .. Len(o) /\ o[Len(o)] \in Frame /\ o[1] \in Frame
           /\ o[Len(o)].packet_SN = o[Len(o)].sum
           /\ \A i \in 1 .. Len(o) : /\ o[i].sum = o[Len(o)].sum
                                     /\ o[i].packet_SN = o[Len(o)].sum - (Len(o) - i)
                                     /\ o[i].packet_SN = o[i].sum <=> i = Len(o)
           /\ Contains(PacketOf(o[Len(o)]), o[1])
  <1> DEFINE l == Len(o)
             g == o[l]
  <1>1. l \in Nat /\ l # 0 /\ l \in 1 .. l /\ 1 \in 1 .. l
    BY EmptySeq
  <1>2. g \in Frame /\ o[1] \in Frame
    BY <1>1, ElementOfSeq
  <1>3. g.sum \in Nat /\ o[1].packet_SN \in Nat
    BY <1>2, FrameFields
  <1>4. ASSUME NEW i \in 1 .. l
        PROVE  /\ o[i].sum = g.sum /\ o[i].packet_SN = g.sum - (l - i)
               /\ o[i] = [g EXCEPT !.packet_SN = g.sum - (l - i)]
               /\ o[i].packet_SN = o[i].sum <=> i = l
    <2>1. o[i] = [g EXCEPT !.packet_SN = g.sum - (l - i)]
      BY DEF Rest
    <2>2. o[i].sum = g.sum /\ o[i].packet_SN = g.sum - (l - i)
      BY <1>2, <2>1 DEF Frame
    <2>3. g.sum - (l - i) = g.sum <=> i = l
      BY <1>1, <1>3
    <2> QED
      BY <2>1, <2>2, <2>3
  <1>5. g.packet_SN = g.sum
    BY <1>1, <1>4
  <1>6. g.sum - (l - 1) \in 0 .. g.sum
    <2>1. g.sum - (l - 1) \in Nat
      BY <1>1, <1>3, <1>4
    <2> QED
      BY <1>1, <1>3, <2>1
  <1>7. Contains(PacketOf(g), o[1])
    BY <1>1, <1>2, <1>4, <1>6, PartOfPacket
  <1> QED
    BY <1>1, <1>2, <1>4, <1>5, <1>7

\* The packet cut short by an error is the newest in flight or none.
LEMMA NewestPacket ==
    ASSUME NEW w, NEW b \in Seq(Frame), NEW o \in Seq(Frame), o # <<>>, Rest(o),
           Ordered(b \o o), NEW e, NEW d, TrackedBy(d, w, e, b \o o), Len(w) \in 1 .. Len(w)
    PROVE  Contains(w[Len(w)], o[1]) <=> Arrives(e, b \o o, Len(b) + Len(o))
  <1> DEFINE n == Len(w)
             m == Len(b)
             l == Len(o)
             q == b \o o
             h == d[n]
             g == q[h]
  <1>1. m \in Nat /\ l \in Nat /\ l # 0 /\ Len(q) = m + l /\ q \in Seq(Frame)
        /\ \A i \in 1 .. m + l : q[i] = IF i =< m THEN b[i] ELSE o[i - m]
    BY ConcatProperties, EmptySeq
  <1>2. /\ l \in 1 .. l /\ 1 \in 1 .. l /\ o[l] \in Frame /\ o[1] \in Frame
        /\ o[l].packet_SN = o[l].sum
        /\ \A i \in 1 .. l : o[i].sum = o[l].sum /\ (o[i].packet_SN = o[i].sum <=> i = l)
        /\ o[l].packet_SN = o[l].sum - (l - l) /\ o[1].packet_SN = o[l].sum - (l - 1)
        /\ Contains(PacketOf(o[l]), o[1])
    BY RestFields
  <1>3. h \in 1 .. m + l /\ Arrives(e, q, h) /\ w[n] = PacketOf(g)
    BY <1>1 DEF TrackedBy
  <1> HIDE DEF q
  <1>4. q[m + l] = o[l] /\ q[m + 1] = o[1] /\ m + l \in 1 .. m + l /\ m + 1 \in 1 .. m + l
    <2>1. m + l \in 1 .. m + l /\ m + 1 \in 1 .. m + l /\ (m + l) - m = l /\ (m + 1) - m = 1
          /\ ~ (m + l =< m) /\ ~ (m + 1 =< m)
      BY <1>1
    <2> QED
      BY <1>1, <2>1
  <1>5. ASSUME Arrives(e, q, m + l)
        PROVE  Contains(w[n], o[1])
    <2>1. PICK i \in 1 .. n : d[i] = m + l
      BY <1>1, <1>4, <1>5 DEF TrackedBy, q
    <2>2. i = n
      <3>1. i < n => d[i] < h
        BY <2>1 DEF TrackedBy
      <3> QED
        BY <1>1, <1>3, <2>1, <3>1
    <2> QED
      BY <1>2, <1>3, <1>4, <2>1, <2>2
  <1>6. ASSUME ~ Arrives(e, q, m + l), Contains(w[n], o[1])
        PROVE  FALSE
    <2>1. h =< m
      <3>1. SUFFICES ASSUME ~ (h =< m)
                     PROVE  FALSE
        OBVIOUS
      <3>2. h - m \in 1 .. l /\ g = o[h - m]
        BY <1>1, <1>3, <3>1
      <3>3. h - m = l
        BY <1>2, <1>3, <3>2 DEF Arrives
      <3>4. h = m + l
        <4> HIDE DEF h, m, l
        <4> QED
          BY <1>1, <1>3, <3>3
      <3> QED
        BY <1>3, <1>6, <3>4
    <2>2. Before(g, o[1])
      <3>1. h < m + 1
        BY <1>1, <1>3, <2>1
      <3> QED
        BY <1>1, <1>3, <1>4, <3>1 DEF Ordered, q
    <2>3. g \in Frame
      BY <1>1, <1>3, ElementOfSeq
    <2>4. g.sum \in Nat /\ g.of \in Nat /\ o[1].packet_SN \in Nat /\ g.packet_SN = g.sum
      BY <1>2, <1>3, <2>3, FrameFields DEF Arrives
    <2>5. o[1].of = g.of /\ o[1].sum = g.sum /\ o[1].packet_SN =< g.sum
      BY <1>2, <1>3, <1>6, <2>3, PartOfPacket
    <2>6. o[l].sum = 0
      <3>1. g.sum = 0 \/ g.sum < o[1].packet_SN
        BY <2>2, <2>4, <2>5 DEF Before
      <3>2. ~ (g.sum < o[1].packet_SN)
        BY <2>4, <2>5
      <3>3. o[1].sum = o[l].sum
        BY <1>2
      <3> QED
        BY <2>5, <3>1, <3>2, <3>3
    <2>7. o[l].sum < m + l
      BY <1>1, <2>6
    <2> QED
      BY <1>2, <1>4, <1>6, <2>7 DEF Arrives
  <1> QED
    BY <1>5, <1>6 DEF q

-----------------------------------------------------------------------------
(* The invariant of the history variable, and what each step does to it.     *)

Flight(s) ==
    /\ sent[s] =< MaxPackets[s]
    /\ Rest(out[s]) /\ Runs(Queue(s))
    /\ Tracked(inFlight[s], InCompletePackets[s], Queue(s))

FlightType == inFlight \in [Sources -> Seq(Seq(Frame))]

LinkInv ==
    /\ FlightType
    /\ \A s \in Sources : Flight(s)

LEMMA RunsStretch ==
    ASSUME NEW q \in Seq(Frame), NEW r \in Seq(Frame), Stretch(r, q), Runs(q)
    PROVE  Runs(r)
  <1>1. PICK d \in Nat : \A i \in 1 .. Len(r) : i + d \in 1 .. Len(q) /\ r[i] = q[i + d]
    BY DEF Stretch
  <1>2. ASSUME NEW j \in 1 .. Len(r), NEW k \in 1 .. Len(r), k < j, k =< r[j].packet_SN
        PROVE  r[j - k] = [r[j] EXCEPT !.packet_SN = r[j].packet_SN - k]
    <2>1. Len(q) \in Nat /\ Len(r) \in Nat
      BY EmptySeq
    <2>2. j - k \in 1 .. Len(r) /\ (j - k) + d = (j + d) - k /\ k < j + d
      BY <1>2, <2>1
    <2>3. r[j - k] = q[(j + d) - k] /\ r[j] = q[j + d] /\ j + d \in 1 .. Len(q)
      BY <1>1, <2>2
    <2>4. k \in 1 .. Len(q)
      BY <2>1, <2>2, <2>3
    <2> QED
      BY <1>2, <2>2, <2>3, <2>4 DEF Runs
  <1> QED
    BY <1>2 DEF Runs

\* What sendToCan has to write for one packet.
LEMMA NewPacket ==
    ASSUME NEW s \in Sources, NEW n \in Nat, NEW id \in Ids, NEW sum \in 0 .. MaxSum,
           NEW fr, fr = Fragments(s, n, id, sum)
    PROVE  /\ fr \in Seq(Frame) /\ fr # <<>> /\ Len(fr) = sum + 1 /\ Rest(fr) /\ Runs(fr)
           /\ fr[Len(fr)].sum < Len(fr)
           /\ \A i \in 1 .. Len(fr) : fr[i].packet_SN = fr[i].sum <=> i = Len(fr)
           /\ \A i \in 1 .. Len(fr) : fr[i].packet_SN = i - 1
           /\ fr = PacketOf(fr[Len(fr)])
  <1>1. sum \in Nat /\ sum + 1 \in 1 .. sum + 1 /\ fr \in Seq(Frame)
    BY FragmentsType, RmCanAssumption
  <1>2. Len(fr) = sum + 1
    BY <1>1 DEF Fragments
  <1>3. \A i \in 1 .. sum + 1 : fr[i] = [s_id |-> s, packet_id |-> id, packet_SN |-> i - 1,
                                         sum |-> sum, of |-> n]
    BY DEF Fragments
  <1> DEFINE g == fr[sum + 1]
  <1>4. /\ g = [s_id |-> s, packet_id |-> id, packet_SN |-> sum, sum |-> sum, of |-> n]
        /\ g.sum = sum /\ g.s_id = s /\ g.packet_id = id /\ g.of = n
    BY <1>1, <1>3
  <1>5. g \in Frame
    BY <1>1, <1>2, ElementOfSeq
  <1>6. fr = PacketOf(g)
    BY <1>4, <1>5, PacketIsFragments
  <1>7. Rest(fr)
    <2>1. ASSUME NEW i \in 1 .. sum + 1
          PROVE  fr[i] = [g EXCEPT !.packet_SN = g.sum - ((sum + 1) - i)]
      <3>1. g.sum - ((sum + 1) - i) = i - 1
        BY <1>1, <1>4
      <3> QED
        BY <1>3, <1>4, <3>1
    <2> QED
      BY <1>2, <2>1 DEF Rest
  <1>8. Runs(fr)
    <2>1. ASSUME NEW j \in 1 .. sum + 1, NEW k \in 1 .. sum + 1, k < j
          PROVE  fr[j - k] = [fr[j] EXCEPT !.packet_SN = fr[j].packet_SN - k]
      <3>1. j - k \in 1 .. sum + 1 /\ (j - 1) - k = (j - k) - 1
        BY <1>1, <2>1
      <3>2. fr[j] = [s_id |-> s, packet_id |-> id, packet_SN |-> j - 1, sum |-> sum, of |-> n]
            /\ fr[j - k] = [s_id |-> s, packet_id |-> id, packet_SN |-> (j - k) - 1,
                            sum |-> sum, of |-> n]
        BY <1>3, <3>1
      <3>3. fr[j].packet_SN = j - 1
        BY <3>2
      <3>4. [fr[j] EXCEPT !.packet_SN = (j - k) - 1]
              = [s_id |-> s, packet_id |-> id, packet_SN |-> (j - k) - 1, sum |-> sum, of |-> n]
        BY <3>2
      <3> QED
        BY <3>1, <3>2, <3>3, <3>4
    <2> QED
      BY <1>2, <2>1 DEF Runs
  <1>9. \A i \in 1 .. sum + 1 : fr[i].packet_SN = i - 1 /\ fr[i].sum = sum
                                /\ (i - 1 = sum <=> i = sum + 1)
    <2>1. ASSUME NEW i \in 1 .. sum + 1
          PROVE  fr[i].packet_SN = i - 1 /\ fr[i].sum = sum
      <3>1. fr[i] = [s_id |-> s, packet_id |-> id, packet_SN |-> i - 1, sum |-> sum, of |-> n]
        BY <1>3
      <3> QED
        BY <3>1
    <2>2. \A i \in 1 .. sum + 1 : i - 1 = sum <=> i = sum + 1
      BY <1>1
    <2> QED
      BY <2>1, <2>2
  <1>10. g.sum < Len(fr) /\ fr # <<>>
    BY <1>1, <1>2, <1>4, EmptySeq
  <1> QED
    BY <1>1, <1>2, <1>6, <1>7, <1>8, <1>9, <1>10

\* Runs of a longer queue: the new frames are one packet from its first on.
LEMMA RunsGrown ==
    ASSUME NEW q \in Seq(Frame), NEW o \in Seq(Frame), Runs(q), Runs(o),
           \A i \in 1 .. Len(o) : o[i].packet_SN = i - 1
    PROVE  Runs(q \o o)
  <1> DEFINE m == Len(q)
             l == Len(o)
             r == q \o o
  <1>1. m \in Nat /\ l \in Nat /\ Len(r) = m + l
        /\ \A i \in 1 .. m + l : r[i] = IF i =< m THEN q[i] ELSE o[i - m]
    BY ConcatProperties, EmptySeq
  <1> HIDE DEF r
  <1>2. ASSUME NEW j \in 1 .. m + l, NEW k \in 1 .. m + l, k < j, k =< r[j].packet_SN
        PROVE  r[j - k] = [r[j] EXCEPT !.packet_SN = r[j].packet_SN - k]
    <2>1. CASE j =< m
      <3>1. j \in 1 .. m /\ k \in 1 .. m /\ j - k \in 1 .. m /\ j - k \in 1 .. m + l /\ j - k =< m
        BY <1>1, <1>2, <2>1
      <3>2. r[j] = q[j] /\ r[j - k] = q[j - k]
        BY <1>1, <2>1, <3>1
      <3> QED
        BY <1>2, <3>1, <3>2 DEF Runs
    <2>2. CASE ~ (j =< m)
      <3>1. j - m \in 1 .. l /\ r[j] = o[j - m]
        BY <1>1, <2>2
      <3>2. k =< (j - m) - 1
        BY <1>2, <3>1
      <3>3. k \in 1 .. l /\ k < j - m /\ (j - m) - k = (j - k) - m /\ j - k \in 1 .. m + l
            /\ ~ (j - k =< m)
        BY <1>1, <3>1, <3>2
      <3>4. r[j - k] = o[(j - m) - k]
        BY <1>1, <3>3
      <3> QED
        BY <1>2, <3>1, <3>3, <3>4 DEF Runs
    <2> QED
      BY <2>1, <2>2
  <1> QED
    BY <1>1, <1>2 DEF Runs, r

\* The queue when the receive thread takes a frame from the bus, or the bus
\* loses it.
LEMMA QueueLosesHead ==
    ASSUME Inv, LinkInv, NEW s \in Sources, bus[s] # <<>>,
           bus' = [bus EXCEPT ![s] = Tail(@)], UNCHANGED out
    PROVE  /\ Queue(s) \in Seq(Frame) /\ Queue(s) # <<>> /\ Queue(s)[1] = Head(bus[s])
           /\ Queue(s)' = Tail(Queue(s)) /\ Taken(Head(bus[s]), Queue(s), Queue(s)')
           /\ Runs(Queue(s)')
  <1> DEFINE b == bus[s]
             o == out[s]
             r == Tail(b) \o o
  <1>1. b \in Seq(Frame) /\ o \in Seq(Frame) /\ Queue(s) = b \o o /\ Queue(s) \in Seq(Frame)
    BY QueueType DEF Inv, Queue
  <1>2. bus'[s] = Tail(b) /\ out'[s] = o
    BY DEF Inv, TypeOK
  <1>3. Queue(s)' = r
    BY <1>2 DEF Queue
  <1> HIDE DEF b, o
  <1>4. /\ Len(b \o o) >= 1 /\ (b \o o)[1] = Head(b)
        /\ \A i \in 1 .. Len(r) : r[i] = (b \o o)[i + 1]
        /\ Stretch(r, b \o o)
    BY <1>1, QueueTail DEF b
  <1>5. b # <<>> /\ Tail(b) \in Seq(Frame) /\ Len(Tail(b)) = Len(b) - 1
    <2>1. b # <<>>
      BY DEF b
    <2> QED
      BY <1>1, <2>1, HeadTailProperties
  <1>6. r \in Seq(Frame) /\ Len(r) = Len(b) - 1 + Len(o) /\ Len(b \o o) = Len(b) + Len(o)
    BY <1>1, <1>5, ConcatProperties
  <1>7. b \o o # <<>>
    BY <1>1, <1>4, EmptySeq
  <1>8. /\ Tail(b \o o) \in Seq(Frame) /\ Len(Tail(b \o o)) = Len(b \o o) - 1
        /\ \A i \in 1 .. Len(Tail(b \o o)) : Tail(b \o o)[i] = (b \o o)[i + 1]
    BY <1>1, <1>7, HeadTailProperties
  <1>9. r = Tail(b \o o)
    <2>1. Len(r) = Len(Tail(b \o o))
      BY <1>1, <1>6, <1>8, EmptySeq
    <2> HIDE DEF r
    <2> QED
      BY <1>4, <1>6, <1>8, <2>1, SeqEqual
  <1>10. Taken(Head(b), Queue(s), Queue(s)')
    BY TakenHead DEF Inv, b
  <1>11. Runs(r)
    BY <1>1, <1>4, <1>6, RunsStretch DEF LinkInv, Flight
  <1> QED
    BY <1>1, <1>3, <1>4, <1>7, <1>9, <1>10, <1>11 DEF b

\* What the invariant of RmCan says of a queue.
LEMMA QueueFacts ==
    ASSUME Inv, LinkInv, NEW s \in Sources
    PROVE  /\ Queue(s) \in Seq(Frame) /\ Ordered(Queue(s)) /\ Runs(Queue(s))
           /\ \A i \in 1 .. Len(Queue(s)) : /\ Queue(s)[i].s_id = s
                                            /\ Queue(s)[i].sum = 0 => Queue(s)[i].packet_SN = 0
           /\ QueueOK(s, Queue(s), sent[s], last[s])
           /\ InCompletePackets[s] \in [Ids -> Seq(Frame)]
           /\ inFlight[s] \in Seq(Seq(Frame)) /\ Rest(out[s]) /\ sent[s] =< MaxPackets[s]
           /\ Tracked(inFlight[s], InCompletePackets[s], Queue(s))
           /\ sent[s] \in Nat /\ last[s] \in Int
           /\ ~ skipped[s] => EntriesOK(s, InCompletePackets[s], Queue(s), last[s])
  <1>1. QueueOK(s, Queue(s), sent[s], last[s])
        /\ (~ skipped[s] => EntriesOK(s, InCompletePackets[s], Queue(s), last[s]))
    BY DEF Inv, SourceInv
  <1>2. /\ Queue(s) \in Seq(Frame) /\ sent[s] \in Nat /\ last[s] \in Int
        /\ InCompletePackets[s] \in [Ids -> Seq(Frame)]
    BY QueueType DEF Inv
  <1>3. Flight(s) /\ inFlight[s] \in Seq(Seq(Frame))
    BY DEF LinkInv, FlightType
  <1> QED
    BY <1>1, <1>2, <1>3 DEF Flight, QueueOK, Genuine, Ordered

-----------------------------------------------------------------------------
(* One lemma per kind of step. *)

LEMMA SendFlight ==
    ASSUME Inv, LinkInv, NEW s \in Sources, LinkSend(s)
    PROVE  Flight(s)' /\ FlightType' /\ Link!Send(s)
  <1>1. PICK sum \in 0 .. MaxSum, id \in Ids, m \in Nat :
          /\ \/ sum = 0 /\ id = 0 /\ m = sent[s]
             \/ sum # 0 /\ id = sent[s] % U8 /\ m = sent[s] + 1
          /\ out[s] = <<>> /\ out'[s] = Fragments(s, sent[s], id, sum) /\ bus'[s] = bus[s]
          /\ sent'[s] = m /\ RecvList' = RecvList
          /\ InCompletePackets'[s] = InCompletePackets[s]
          /\ sum # 0 => sent[s] < MaxPackets[s]
    BY SendCases DEF LinkSend
  <1> DEFINE n == sent[s]
             fr == Fragments(s, n, id, sum)
             q == Queue(s)
  <1>2. /\ q \in Seq(Frame) /\ Runs(q) /\ inFlight[s] \in Seq(Seq(Frame)) /\ n =< MaxPackets[s]
        /\ Tracked(inFlight[s], InCompletePackets[s], q) /\ n \in Nat
    BY QueueFacts
  <1>3. /\ fr \in Seq(Frame) /\ fr # <<>> /\ Len(fr) = sum + 1 /\ Rest(fr) /\ Runs(fr)
        /\ fr[Len(fr)].sum < Len(fr)
        /\ \A i \in 1 .. Len(fr) : fr[i].packet_SN = fr[i].sum <=> i = Len(fr)
        /\ \A i \in 1 .. Len(fr) : fr[i].packet_SN = i - 1
        /\ fr = PacketOf(fr[Len(fr)])
    BY <1>1, <1>2, NewPacket
  <1>4. inFlight' = [inFlight EXCEPT ![s] = Append(@, fr)]
    BY <1>1 DEF LinkSend, Remember
  <1>5. Queue(s)' = q \o fr
    <2>1. bus[s] \in Seq(Frame)
      BY QueueType DEF Inv
    <2>2. q = bus[s]
      BY <1>1, <2>1, ConcatEmptySeq DEF Queue
    <2> QED
      BY <1>1, <2>2 DEF Queue
  <1> HIDE DEF fr, q
  <1>6. Append(inFlight[s], fr) \in Seq(Seq(Frame))
    BY <1>2, <1>3, AppendProperties
  <1>7. inFlight'[s] = Append(inFlight[s], fr) /\ FlightType'
    BY <1>4, <1>6 DEF LinkInv, FlightType
  <1>8. Runs(q \o fr)
    BY <1>2, <1>3, RunsGrown
  <1>9. Tracked(Append(inFlight[s], fr), InCompletePackets[s], q \o fr)
    BY <1>2, <1>3, AddLast
  <1>10. sent'[s] =< MaxPackets[s]
    <2>1. MaxPackets[s] \in Nat
      BY RmCanAssumption
    <2> QED
      BY <1>1, <1>2, <2>1
  <1>11. Flight(s)'
    BY <1>1, <1>3, <1>5, <1>7, <1>8, <1>9, <1>10 DEF Flight, fr
  <1>12. fr \in SentPackets
    <2>1. n \in 0 .. MaxPackets[s]
      <3>1. MaxPackets[s] \in Nat
        BY RmCanAssumption
      <3> QED
        BY <1>2, <3>1
    <2>2. CASE sum = 0
      BY <1>1, <2>1, <2>2 DEF fr, SentPackets
    <2>3. CASE sum # 0
      <3>1. sum \in 1 .. MaxSum
        BY <2>3, RmCanAssumption
      <3> QED
        BY <1>1, <2>1, <2>3, <3>1 DEF fr, SentPackets
    <2> QED
      BY <2>2, <2>3
  <1>13. Link!Send(s)
    BY <1>1, <1>4, <1>12 DEF Link!Send
  <1> QED
    BY <1>7, <1>11, <1>13

LEMMA WriteFlight ==
    ASSUME Inv, LinkInv, NEW s \in Sources, LinkWrite(s)
    PROVE  Flight(s)' /\ UNCHANGED <<inFlight, RecvList>>
  <1> DEFINE b == bus[s]
             o == out[s]
  <1>1. /\ b \in Seq(Frame) /\ o \in Seq(Frame) /\ Queue(s) = b \o o /\ o # <<>>
        /\ bus'[s] = Append(b, Head(o)) /\ out'[s] = Tail(o) /\ sent' = sent
        /\ UNCHANGED <<inFlight, RecvList, InCompletePackets>>
    BY QueueType DEF LinkWrite, WriteFrame, Inv, TypeOK, Queue, receiver
  <1>2. Queue(s)' = Append(b, Head(o)) \o Tail(o)
    BY <1>1 DEF Queue
  <1> HIDE DEF b, o
  <1>3. Queue(s)' = Queue(s)
    BY <1>1, <1>2, QueueMove
  <1>4. Rest(Tail(o))
    <2>1. /\ Tail(o) \in Seq(Frame) /\ Len(Tail(o)) = Len(o) - 1 /\ Len(o) \in Nat
          /\ \A i \in 1 .. Len(Tail(o)) : Tail(o)[i] = o[i + 1]
      BY <1>1, HeadTailProperties, EmptySeq
    <2>2. Rest(o)
      BY QueueFacts DEF o
    <2>3. ASSUME NEW i \in 1 .. Len(Tail(o))
          PROVE  Tail(o)[i] = [Tail(o)[Len(Tail(o))]
                    EXCEPT !.packet_SN = Tail(o)[Len(Tail(o))].sum - (Len(Tail(o)) - i)]
      <3>1. Len(Tail(o)) \in 1 .. Len(Tail(o)) /\ Len(Tail(o)) + 1 = Len(o)
            /\ i + 1 \in 1 .. Len(o) /\ Len(o) - (i + 1) = Len(Tail(o)) - i
        BY <2>1
      <3>2. Tail(o)[Len(Tail(o))] = o[Len(o)] /\ Tail(o)[i] = o[i + 1]
        BY <2>1, <3>1
      <3> QED
        BY <2>2, <3>1, <3>2 DEF Rest
    <2> QED
      BY <2>3 DEF Rest
  <1> QED
    BY <1>1, <1>3, <1>4, QueueFacts DEF Flight

\* The oldest packet is forgotten.
LEMMA Forgotten ==
    ASSUME LinkInv, NEW s \in Sources, inFlight[s] # <<>>, Forget(s, 1)
    PROVE  /\ inFlight'[s] = Tail(inFlight[s]) /\ FlightType'
           /\ inFlight' = [inFlight EXCEPT ![s] = Tail(@)]
           /\ UNCHANGED RecvList => Link!Lose(s)
  <1>1. inFlight[s] \in Seq(Seq(Frame)) /\ Len(inFlight[s]) \in Nat /\ Len(inFlight[s]) # 0
    BY EmptySeq DEF LinkInv, FlightType
  <1>2. RemoveAt(inFlight[s], 1) = Tail(inFlight[s]) /\ Tail(inFlight[s]) \in Seq(Seq(Frame))
    BY <1>1, WithoutFirst
  <1>3. inFlight' = [inFlight EXCEPT ![s] = RemoveAt(@, 1)]
    BY DEF Forget
  <1>4. Link!RemoveAt(inFlight[s], 1) = RemoveAt(inFlight[s], 1)
    BY DEF Link!RemoveAt, RemoveAt
  <1>5. UNCHANGED RecvList => Link!Lose(s)
    <2>1. 1 \in 1 .. Len(inFlight[s])
      BY <1>1
    <2> QED
      BY <1>3, <1>4, <2>1 DEF Link!Lose
  <1> QED
    BY <1>2, <1>3, <1>5 DEF LinkInv, FlightType

\* While no packet vanished the fragment is of the newest packet or the next.
LEMMA NotSkipped ==
    ASSUME Inv, NEW s \in Sources, NEW f, f.of \in Nat, Note(s, f), ~ skipped'[s]
    PROVE  f.of =< last[s] + 1
  <1>1. ~ (f.of > last[s] + 1)
    BY DEF Note, Inv, TypeOK
  <1>2. last[s] \in Int
    BY DEF Inv, TypeOK
  <1> QED
    BY <1>1, <1>2

\* A fragment is stored: the packets in flight stay the same.
LEMMA StoreFlight ==
    ASSUME Inv, LinkInv, NEW s \in Sources, RecvFirst(s) \/ RecvMore(s), ~ skipped[s], ~ skipped'[s],
           UNCHANGED inFlight
    PROVE  Flight(s)' /\ UNCHANGED <<inFlight, RecvList>>
  <1> DEFINE f == Head(bus[s])
             q == Queue(s)
             e == InCompletePackets[s]
             e2 == InCompletePackets'[s]
             v == e[f.packet_id]
  <1>1. /\ bus[s] # <<>> /\ f.sum # 0 /\ Note(s, f)
        /\ bus' = [bus EXCEPT ![s] = Tail(@)] /\ UNCHANGED <<sender, RecvList>>
    BY DEF RecvFirst, RecvMore
  <1>2. /\ q \in Seq(Frame) /\ q # <<>> /\ q[1] = f /\ Queue(s)' = Tail(q)
        /\ Taken(f, q, Queue(s)') /\ Runs(Queue(s)')
    BY <1>1, QueueLosesHead DEF sender
  <1>3. /\ QueueOK(s, q, sent[s], last[s]) /\ e \in [Ids -> Seq(Frame)] /\ Rest(out[s])
        /\ sent[s] =< MaxPackets[s] /\ Runs(q) /\ inFlight[s] \in Seq(Seq(Frame))
        /\ sent[s] \in Nat /\ last[s] \in Int /\ EntriesOK(s, e, q, last[s])
    BY QueueFacts
  <1>4. PICK d : TrackedBy(d, inFlight[s], e, q)
    BY QueueFacts DEF Tracked
  <1>5. f \in Frame /\ f.packet_id \in Ids /\ f.of \in Nat /\ f.sum \in Nat /\ f.packet_SN \in Nat
    BY <1>1, HeadType, FrameFields DEF Inv
  <1>6. f.of =< last[s] + 1
    BY <1>1, <1>5, NotSkipped
  <1>7. v \in Seq(Frame) /\ Queue(s)' \in Seq(Frame)
    BY <1>2, <1>3, <1>5, HeadTailProperties
  <1>8. Stored(f, e, e2) /\ (v # <<>> => ~ IsComplete(Append(v, f), f))
    <2>1. CASE RecvFirst(s)
      <3>1. v = <<>> /\ e2 = [[e EXCEPT ![(f.packet_id + TimeOutId) % U8] = <<>>]
                                EXCEPT ![f.packet_id] = <<f>>]
        BY <2>1 DEF RecvFirst, Collected, Inv, TypeOK
      <3> HIDE DEF f, e, e2
      <3>2. e2[f.packet_id] = <<f>>
        BY <1>3, <1>5, <3>1
      <3> QED
        BY <3>1, <3>2 DEF Stored
    <2>2. CASE RecvMore(s)
      <3>1. v # <<>> /\ ~ IsComplete(Append(v, f), f)
            /\ e2 = [e EXCEPT ![f.packet_id] = Append(v, f)]
        BY <2>2 DEF RecvMore, Collected, Inv, TypeOK
      <3> HIDE DEF f, e, e2
      <3>2. e2[f.packet_id] = Append(v, f)
        BY <1>3, <1>5, <3>1
      <3> QED
        BY <3>1, <3>2 DEF Stored
    <2> QED
      BY <2>1, <2>2
  <1> HIDE DEF f, q, e, e2, v
  <1>9. v # <<>> => f.packet_SN # 0
    <2>1. SUFFICES ASSUME v # <<>>
                   PROVE  f.packet_SN # 0
      OBVIOUS
    <2>2. EntryOK(s, f.packet_id, v, q, last[s])
      BY <1>3, <1>5, <2>1 DEF EntriesOK, v
    <2>3. \A i \in 1 .. Len(v) : v[i].packet_SN < f.packet_SN
      BY <1>1, <1>2, <1>3, <1>6, <1>7, <2>1, <2>2, SamePacket
    <2>4. 1 \in 1 .. Len(v) /\ v[1] \in Frame
      BY <1>7, <2>1, EmptySeq
    <2>5. v[1].packet_SN \in Nat
      BY <2>4, FrameFields
    <2> QED
      BY <2>3, <2>4, <2>5
  <1>10. ~ Arrives(e, q, 1)
    <2>1. SUFFICES ASSUME v = Part(f, f.sum + 1 - 1), f.packet_SN = f.sum
                   PROVE  FALSE
      BY <1>1, <1>2, <1>5 DEF Arrives, v
    <2>2. f.sum + 1 - 1 = f.sum /\ f.sum \in 0 .. f.sum + 1
      BY <1>5
    <2>3. Len(v) = f.sum /\ v # <<>>
      BY <1>1, <1>5, <2>1, <2>2, PartType, EmptySeq
    <2>4. Append(v, f) \in Seq(Frame) /\ Len(Append(v, f)) = f.sum + 1
      BY <1>5, <1>7, <2>3, AppendProperties
    <2>5. Len(Append(v, f)) =< f.sum
      <3>1. Len(Append(v, f)) =< f.sum + 1 /\ ~ IsComplete(Append(v, f), f)
        BY <1>5, <1>8, <2>3, <2>4
      <3> QED
        BY <1>5, <2>4, <3>1, CompleteLength
    <2> QED
      BY <1>5, <2>4, <2>5
  <1>11. \A j \in 1 .. Len(q) - 1 : Arrives(e2, Tail(q), j) <=> Arrives(e, q, j + 1)
    BY <1>2, <1>3, <1>8, <1>9, FateTaken DEF v
  <1>12. Tracked(inFlight[s], e2, Tail(q))
    BY <1>2, <1>3, <1>4, <1>10, <1>11, KeepAll
  <1>13. sent'[s] = sent[s] /\ out'[s] = out[s] /\ inFlight'[s] = inFlight[s]
    BY <1>1 DEF sender
  <1> QED
    BY <1>1, <1>2, <1>3, <1>12, <1>13 DEF Flight, e2, q

\* The last frame of a packet arrives.
LEMMA ArriveFlight ==
    ASSUME Inv, LinkInv, NEW s \in Sources, bus[s] # <<>>, Forget(s, 1),
           bus' = [bus EXCEPT ![s] = Tail(@)], UNCHANGED sender,
           Head(bus[s]).packet_SN = Head(bus[s]).sum, Arrives(InCompletePackets[s], Queue(s), 1),
           RecvList' = Append(RecvList, [src |-> s, data |-> PacketOf(Head(bus[s]))])
    PROVE  Flight(s)' /\ FlightType' /\ Link!Deliver(s)
  <1> DEFINE f == Head(bus[s])
             q == Queue(s)
             e == InCompletePackets[s]
             e2 == InCompletePackets'[s]
             w == inFlight[s]
  <1>1. /\ q \in Seq(Frame) /\ q # <<>> /\ q[1] = f /\ Queue(s)' = Tail(q) /\ Runs(Queue(s)')
    BY QueueLosesHead DEF sender
  <1>2. /\ e \in [Ids -> Seq(Frame)] /\ Rest(out[s]) /\ Ordered(q)
        /\ sent[s] =< MaxPackets[s] /\ Runs(q) /\ w \in Seq(Seq(Frame))
        /\ \A i \in 1 .. Len(q) : q[i].sum = 0 => q[i].packet_SN = 0
    BY QueueFacts
  <1>3. PICK d : TrackedBy(d, w, e, q)
    BY QueueFacts DEF Tracked
  <1> HIDE DEF f, q, e, e2, w
  <1>4. 1 \in 1 .. Len(q)
    BY <1>1, EmptySeq
  <1>5. 1 \in 1 .. Len(w) /\ w # <<>>
    <2>1. PICK i \in 1 .. Len(w) : d[i] = 1
      BY <1>3, <1>4 DEF TrackedBy, e, q
    <2> QED
      BY <1>2, <2>1, EmptySeq
  <1>6. d[1] = 1 /\ w[1] = PacketOf(f)
    BY <1>1, <1>2, <1>3, <1>5, OldestPacket DEF e, q
  <1>7. \A j \in 1 .. Len(q) - 1 : Arrives(e2, Tail(q), j) <=> Arrives(e, q, j + 1)
    BY <1>1, <1>2, FateTaken DEF f
  <1>8. Tracked(Tail(w), e2, Tail(q))
    <2>1. \A j \in 1 .. Len(q) - 1 : j + 1 # d[1]
      BY <1>6
    <2> QED
      BY <1>1, <1>2, <1>3, <1>5, <1>7, <2>1, DropFirst
  <1>9. /\ inFlight'[s] = Tail(w) /\ FlightType' /\ inFlight' = [inFlight EXCEPT ![s] = Tail(@)]
    BY <1>5, Forgotten DEF w
  <1>10. Head(w) = PacketOf(f)
    BY <1>2, <1>5, <1>6
  <1>11. Link!Deliver(s)
    BY <1>5, <1>9, <1>10 DEF Link!Deliver, w, f
  <1>12. sent'[s] = sent[s] /\ out'[s] = out[s]
    BY DEF sender
  <1>13. Flight(s)'
    BY <1>1, <1>2, <1>8, <1>9, <1>12 DEF Flight, e2, q
  <1> QED
    BY <1>9, <1>11, <1>13

LEMMA WholeFlight ==
    ASSUME Inv, LinkInv, NEW s \in Sources, RecvWhole(s), Forget(s, 1)
    PROVE  Flight(s)' /\ FlightType' /\ Link!Deliver(s)
  <1> DEFINE f == Head(bus[s])
             q == Queue(s)
  <1>1. /\ bus[s] # <<>> /\ f.sum = 0 /\ bus' = [bus EXCEPT ![s] = Tail(@)] /\ UNCHANGED sender
        /\ RecvList' = Append(RecvList, [src |-> s, data |-> <<f>>])
    BY DEF RecvWhole
  <1>2. q \in Seq(Frame) /\ q # <<>> /\ q[1] = f /\ f \in Frame
    BY <1>1, QueueLosesHead, HeadType DEF sender, Inv
  <1>3. 1 \in 1 .. Len(q)
    BY <1>2, EmptySeq
  <1>4. f.packet_SN = f.sum
    BY <1>1, <1>2, <1>3, QueueFacts
  <1>5. Arrives(InCompletePackets[s], Queue(s), 1)
    BY <1>1, <1>2, <1>4 DEF Arrives
  <1>6. PacketOf(f) = <<f>>
    <2>1. Part(f, 1) \in Seq(Frame) /\ Len(Part(f, 1)) = 1
          /\ Part(f, 1)[1] = [f EXCEPT !.packet_SN = 1 - 1]
      BY <1>1, <1>2, PartType
    <2>2. [f EXCEPT !.packet_SN = 1 - 1] = f
      BY <1>1, <1>2, <1>4 DEF Frame
    <2> QED
      BY <1>1, <2>1, <2>2 DEF PacketOf
  <1> QED
    BY <1>1, <1>4, <1>5, <1>6, ArriveFlight

LEMMA LastFlight ==
    ASSUME Inv, LinkInv, NEW s \in Sources, RecvLast(s), ~ skipped[s], ~ skipped'[s], Forget(s, 1)
    PROVE  Flight(s)' /\ FlightType' /\ Link!Deliver(s)
  <1> DEFINE f == Head(bus[s])
             q == Queue(s)
             e == InCompletePackets[s]
             v == e[f.packet_id]
  <1>1. /\ bus[s] # <<>> /\ f.sum # 0 /\ Note(s, f) /\ v # <<>>
        /\ bus' = [bus EXCEPT ![s] = Tail(@)] /\ UNCHANGED sender /\ IsComplete(Append(v, f), f)
    BY DEF RecvLast, Collected
  <1>2. PICK w \in Sorted(Append(v, f)) : RecvList' = Append(RecvList, [src |-> s, data |-> w])
    BY DEF RecvLast, Collected
  <1>3. /\ q \in Seq(Frame) /\ q # <<>> /\ q[1] = f /\ Queue(s)' = Tail(q)
        /\ Taken(f, q, Queue(s)')
    BY <1>1, QueueLosesHead DEF sender
  <1>4. /\ QueueOK(s, q, sent[s], last[s]) /\ e \in [Ids -> Seq(Frame)]
        /\ sent[s] \in Nat /\ last[s] \in Int /\ EntriesOK(s, e, q, last[s])
    BY QueueFacts
  <1>5. f \in Frame /\ f.packet_id \in Ids /\ f.of \in Nat /\ f.sum \in Nat
    BY <1>1, HeadType, FrameFields DEF Inv
  <1>6. f.of =< last[s] + 1
    BY <1>1, <1>5, NotSkipped
  <1>7. v \in Seq(Frame) /\ Queue(s)' \in Seq(Frame) /\ f.s_id = s
    <2>1. 1 \in 1 .. Len(q)
      BY <1>3, EmptySeq
    <2>2. f.s_id = s
      BY <1>3, <2>1, QueueFacts
    <2> QED
      BY <1>3, <1>4, <1>5, <2>2, HeadTailProperties
  <1>8. EntryOK(s, f.packet_id, v, q, last[s])
    BY <1>1, <1>4, <1>5 DEF EntriesOK
  <1> DEFINE r == Queue(s)'
             n == sent[s]
             l == last[s]
  <1> HIDE DEF f, q, e, v, r, n, l
  <1>9. /\ w = Append(v, f) /\ w = Fragments(s, f.of, f.packet_id, f.sum)
        /\ f.packet_SN = f.sum
    <2>1. /\ Taken(f, q, r) /\ q \in Seq(Frame) /\ r \in Seq(Frame) /\ n \in Nat /\ l \in Int
          /\ QueueOK(s, q, n, l) /\ EntryOK(s, f.packet_id, v, q, l) /\ f.of =< l + 1
          /\ f.sum # 0 /\ v # <<>> /\ v \in Seq(Frame) /\ IsComplete(Append(v, f), f)
      BY <1>1, <1>3, <1>4, <1>6, <1>7, <1>8 DEF r, n, l
    <2>2. w \in Sorted(Append(v, f))
      BY <1>2
    <2> QED
      BY <2>1, <2>2, Joined, SMTT(30)
  <1>10. w = PacketOf(f)
    BY <1>5, <1>7, <1>9, PacketIsFragments
  <1>11. v = Part(f, f.sum)
    <2>1. f.sum \in 0 .. f.sum /\ f.sum \in 0 .. f.sum + 1
      BY <1>5
    <2>2. [f EXCEPT !.packet_SN = f.sum] = f
      BY <1>5, <1>9 DEF Frame
    <2>3. Append(v, f) = Append(Part(f, f.sum), f) /\ Part(f, f.sum) \in Seq(Frame)
      BY <1>5, <1>9, <1>10, <2>1, <2>2, PartStep, PartType DEF PacketOf
    <2> QED
      BY <1>5, <1>7, <2>3, AppendInjective
  <1>12. Arrives(e, q, 1)
    <2>1. f.sum + 1 - 1 = f.sum
      BY <1>5
    <2> QED
      BY <1>3, <1>9, <1>11, <2>1 DEF Arrives, v
  <1> QED
    BY <1>1, <1>2, <1>9, <1>10, <1>12, ArriveFlight DEF f, e, q

\* A frame is lost, and with it the packet in flight that it belongs to.
LEMMA LoseFlight ==
    ASSUME Inv, LinkInv, NEW s \in Sources, LoseFrame(s), ~ skipped[s],
           IF Broken(s) THEN Forget(s, 1) ELSE UNCHANGED inFlight
    PROVE  /\ Flight(s)' /\ FlightType'
           /\ Link!Lose(s) \/ UNCHANGED <<inFlight, RecvList>>
  <1> DEFINE f == Head(bus[s])
             q == Queue(s)
             e == InCompletePackets[s]
             w == inFlight[s]
  <1>1. /\ bus[s] # <<>> /\ bus' = [bus EXCEPT ![s] = Tail(@)] /\ UNCHANGED <<sender, receiver>>
    BY DEF LoseFrame
  <1>2. /\ q \in Seq(Frame) /\ q # <<>> /\ q[1] = f /\ Queue(s)' = Tail(q) /\ Runs(Queue(s)')
    BY <1>1, QueueLosesHead DEF sender
  <1>3. /\ e \in [Ids -> Seq(Frame)] /\ Rest(out[s]) /\ Ordered(q)
        /\ sent[s] =< MaxPackets[s] /\ Runs(q) /\ w \in Seq(Seq(Frame))
        /\ \A i \in 1 .. Len(q) : q[i].sum = 0 => q[i].packet_SN = 0
        /\ EntriesOK(s, e, q, last[s])
    BY QueueFacts
  <1>4. PICK d : TrackedBy(d, w, e, q)
    BY QueueFacts DEF Tracked
  <1>5. /\ InCompletePackets'[s] = e /\ RecvList' = RecvList /\ sent'[s] = sent[s]
        /\ out'[s] = out[s]
    BY <1>1 DEF sender, receiver
  <1>6. Broken(s) <=> w # <<>> /\ Contains(w[1], f)
    BY DEF Broken
  <1> HIDE DEF f, q, e, w
  <1>7. f.packet_id \in Ids /\ 1 \in 1 .. Len(q) /\ Len(q) \in Nat
    BY <1>1, <1>2, HeadType, EmptySeq DEF Inv, f
  <1>8. \A i \in 1 .. Len(e[f.packet_id]) : Before(e[f.packet_id][i], q[1])
    <2>1. CASE e[f.packet_id] = <<>>
      BY <2>1
    <2>2. CASE e[f.packet_id] # <<>>
      BY <1>3, <1>7, <2>2 DEF EntriesOK, EntryOK, Collecting
    <2> QED
      BY <2>1, <2>2
  <1>9. \A j \in 1 .. Len(q) - 1 :
           Arrives(e, Tail(q), j) <=> Arrives(e, q, j + 1) /\ q[j + 1].sum < j
    BY <1>2, <1>3, <1>8, FateLost
  <1>10. CASE w = <<>>
    <2>1. \A j \in 1 .. Len(q) : ~ Arrives(e, q, j)
      BY <1>4, <1>10 DEF TrackedBy
    <2>2. \A j \in 1 .. Len(q) - 1 : j + 1 \in 1 .. Len(q)
      BY <1>7
    <2>3. Tracked(w, e, Tail(q))
      BY <1>2, <1>3, <1>4, <1>7, <1>9, <2>1, <2>2, KeepAll
    <2>4. UNCHANGED inFlight
      BY <1>6, <1>10
    <2> QED
      BY <1>2, <1>3, <1>5, <2>3, <2>4 DEF Flight, LinkInv, FlightType, e, q, w
  <1>11. CASE w # <<>>
    <2>1. 1 \in 1 .. Len(w)
      BY <1>3, <1>11, EmptySeq
    <2>2. /\ Contains(w[1], f) <=> ~ (q[d[1]].sum < d[1] - 1)
          /\ \A j \in 1 .. Len(q) : Arrives(e, q, j) /\ j # d[1] => q[j].sum < j - 1
          /\ Arrives(e, q, 1) => d[1] = 1
          /\ d[1] \in 1 .. Len(q) /\ q[d[1]].sum \in Nat
      <3>1. /\ q \in Seq(Frame) /\ q # <<>> /\ q[1] = f
        BY <1>2
      <3>2. /\ Runs(q) /\ Ordered(q)
            /\ \A i \in 1 .. Len(q) : q[i].sum = 0 => q[i].packet_SN = 0
        BY <1>3
      <3>3. /\ Contains(w[1], q[1]) <=> ~ (q[d[1]].sum < d[1] - 1)
            /\ \A j \in 1 .. Len(q) : Arrives(e, q, j) /\ j # d[1] => q[j].sum < j - 1
            /\ Arrives(e, q, 1) => d[1] = 1
            /\ d[1] \in 1 .. Len(q) /\ q[d[1]].sum \in Nat
        BY <3>1, <3>2, <1>4, <2>1, OldestPacket
      <3> QED
        BY <3>1, <3>3
    <2>3. \A j \in 1 .. Len(q) - 1 : j + 1 \in 1 .. Len(q) /\ (j + 1) - 1 = j
      BY <1>7
    <2>4. CASE Contains(w[1], f)
      <3>1. \A j \in 1 .. Len(q) - 1 :
               Arrives(e, Tail(q), j) <=> Arrives(e, q, j + 1) /\ j + 1 # d[1]
        BY <1>9, <2>2, <2>3, <2>4
      <3>2. Tracked(Tail(w), e, Tail(q))
        BY <1>2, <1>3, <1>4, <1>11, <3>1, DropFirst
      <3>3. inFlight'[s] = Tail(w) /\ FlightType' /\ Link!Lose(s)
        BY <1>5, <1>6, <1>11, <2>4, Forgotten DEF w
      <3> QED
        BY <1>2, <1>3, <1>5, <3>2, <3>3 DEF Flight, e, q
    <2>5. CASE ~ Contains(w[1], f)
      <3>1. q[d[1]].sum < d[1] - 1
        BY <2>2, <2>5
      <3>2. d[1] # 1
        BY <2>2, <3>1
      <3>3. \A j \in 1 .. Len(q) - 1 : Arrives(e, Tail(q), j) <=> Arrives(e, q, j + 1)
        BY <1>9, <2>2, <2>3, <3>1
      <3>4. Tracked(w, e, Tail(q))
        BY <1>2, <1>3, <1>4, <2>2, <3>2, <3>3, KeepAll
      <3>5. UNCHANGED inFlight
        BY <1>6, <2>5
      <3> QED
        BY <1>2, <1>3, <1>5, <3>4, <3>5 DEF Flight, LinkInv, FlightType, e, q, w
    <2> QED
      BY <2>4, <2>5
  <1> QED
    BY <1>10, <1>11

\* sendToCan gives up a packet.
LEMMA ErrorFlight ==
    ASSUME Inv, LinkInv, NEW s \in Sources, WriteError(s),
           IF Unfinished(s) THEN Forget(s, Len(inFlight[s])) ELSE UNCHANGED inFlight
    PROVE  /\ Flight(s)' /\ FlightType'
           /\ Link!Lose(s) \/ UNCHANGED <<inFlight, RecvList>>
  <1> DEFINE b == bus[s]
             o == out[s]
             e == InCompletePackets[s]
             w == inFlight[s]
             q == b \o o
  <1>1. /\ o # <<>> /\ bus'[s] = b /\ out'[s] = <<>> /\ InCompletePackets'[s] = e
        /\ RecvList' = RecvList /\ sent'[s] = sent[s]
    BY DEF WriteError, Inv, TypeOK, receiver
  <1>2. b \in Seq(Frame) /\ o \in Seq(Frame) /\ Queue(s) = q
    BY QueueType DEF Inv, Queue
  <1>3. Queue(s)' = b
    <2>1. b \o <<>> = b
      BY <1>2, ConcatEmptySeq
    <2> HIDE DEF b
    <2> QED
      BY <1>1, <2>1 DEF Queue
  <1>4. /\ Rest(o) /\ Ordered(q) /\ sent[s] =< MaxPackets[s] /\ Runs(q) /\ w \in Seq(Seq(Frame))
    BY <1>2, QueueFacts
  <1>5. PICK d : TrackedBy(d, w, e, q)
    BY <1>2, QueueFacts DEF Tracked
  <1>6. Unfinished(s) <=> Len(w) > 0 /\ Contains(w[Len(w)], Head(o))
    BY DEF Unfinished
  <1> HIDE DEF b, o, e, w, q
  <1>7. /\ q \in Seq(Frame) /\ Len(q) = Len(b) + Len(o) /\ Len(b) \in Nat /\ Len(o) \in Nat
        /\ Len(o) # 0 /\ Head(o) = o[1]
        /\ \A i \in 1 .. Len(q) : q[i] = IF i =< Len(b) THEN b[i] ELSE o[i - Len(b)]
    BY <1>1, <1>2, ConcatProperties, EmptySeq DEF q
  <1>8. \A i \in 1 .. Len(b) : i \in 1 .. Len(q) /\ b[i] = q[i]
    BY <1>7
  <1>9. Runs(b) /\ Rest(<<>>)
    <2>1. Stretch(b, q)
      <3>1. \A i \in 1 .. Len(b) : i + 0 \in 1 .. Len(q) /\ b[i] = q[i + 0]
        BY <1>7, <1>8
      <3>2. 0 \in Nat
        OBVIOUS
      <3> QED
        BY <3>1, <3>2 DEF Stretch
    <2> QED
      BY <1>2, <1>4, <1>7, <2>1, RunsStretch DEF Rest
  <1>10. ASSUME NEW j \in 1 .. Len(q), j > Len(b), j # Len(q)
         PROVE  ~ Arrives(e, q, j)
    <2>1. j - Len(b) \in 1 .. Len(o) /\ j - Len(b) # Len(o) /\ q[j] = o[j - Len(b)]
      BY <1>7, <1>10
    <2>2. q[j].packet_SN # q[j].sum
      BY <1>1, <1>2, <1>4, <2>1, RestFields
    <2> QED
      BY <2>2 DEF Arrives
  <1>11. Len(w) \in Nat
    BY <1>4, EmptySeq
  <1>12. Len(b) =< Len(q) /\ Len(b) < Len(q)
    BY <1>7
  <1>13. CASE Arrives(e, q, Len(q))
    <2>1. w # <<>> /\ Tracked(RemoveAt(w, Len(w)), e, b)
      BY <1>2, <1>4, <1>5, <1>7, <1>8, <1>10, <1>12, <1>13, CutLast
    <2>2. Len(w) \in 1 .. Len(w) /\ Len(w) > 0
      BY <1>4, <1>11, <2>1, EmptySeq
    <2>3. Contains(w[Len(w)], o[1])
      BY <1>1, <1>2, <1>4, <1>5, <1>7, <1>13, <2>2, NewestPacket DEF q
    <2>4. inFlight' = [inFlight EXCEPT ![s] = RemoveAt(@, Len(w))]
      BY <1>6, <1>7, <2>2, <2>3 DEF Forget, w
    <2>5. RemoveAt(w, Len(w)) \in Seq(Seq(Frame))
      BY <1>4, <2>1, WithoutLast
    <2>6. inFlight'[s] = RemoveAt(w, Len(w)) /\ FlightType'
      BY <2>4, <2>5 DEF LinkInv, FlightType, w
    <2>7. Link!RemoveAt(w, Len(w)) = RemoveAt(w, Len(w))
      BY DEF Link!RemoveAt, RemoveAt
    <2>8. Link!Lose(s)
      BY <1>1, <2>2, <2>4, <2>7 DEF Link!Lose, w
    <2> QED
      BY <1>1, <1>3, <1>4, <1>9, <2>1, <2>6, <2>8 DEF Flight
  <1>14. CASE ~ Arrives(e, q, Len(q))
    <2>1. Tracked(w, e, q)
      BY <1>5 DEF Tracked
    <2>2. Tracked(w, e, b)
      BY <1>2, <1>4, <1>7, <1>8, <1>10, <1>12, <1>14, <2>1, CutNone
    <2>3. ~ Unfinished(s)
      <3>1. SUFFICES ASSUME Len(w) > 0
                     PROVE  ~ Contains(w[Len(w)], o[1])
        BY <1>6, <1>7
      <3>2. Len(w) \in 1 .. Len(w)
        BY <1>11, <3>1
      <3> QED
        BY <1>1, <1>2, <1>4, <1>5, <1>7, <1>14, <3>2, NewestPacket DEF q
    <2>4. UNCHANGED inFlight
      BY <2>3
    <2> QED
      BY <1>1, <1>3, <1>4, <1>9, <2>2, <2>4 DEF Flight, LinkInv, FlightType, w
  <1> QED
    BY <1>13, <1>14

-----------------------------------------------------------------------------
(* The refinement. *)

\* The other sources of a step of s.
LEMMA OtherFlight ==
    ASSUME Inv, LinkInv, NEW s \in Sources, NEW t \in Sources, t # s, SourceStep(s),
           inFlight'[t] = inFlight[t]
    PROVE  Flight(t)'
  <1>1. /\ sent'[t] = sent[t] /\ out'[t] = out[t] /\ bus'[t] = bus[t]
        /\ InCompletePackets'[t] = InCompletePackets[t]
    BY DEF SourceStep, SendFragmented, SendWhole, WriteFrame, WriteError, LoseFrame, RecvWhole,
           RecvFirst, RecvMore, RecvLast, Inv, TypeOK, sender, receiver
  <1>2. Queue(t)' = Queue(t)
    BY <1>1 DEF Queue
  <1> QED
    BY <1>1, <1>2 DEF LinkInv, Flight

LEMMA SourceFlight ==
    ASSUME Inv, LinkInv, NEW s \in Sources, ~ skipped[s], ~ skipped'[s],
           LinkSend(s) \/ LinkWrite(s) \/ LinkRecv(s) \/ LinkLose(s)
    PROVE  /\ Flight(s)' /\ FlightType' /\ SourceStep(s)
           /\ Link!Next \/ UNCHANGED <<inFlight, RecvList>>
  <1>1. CASE LinkSend(s)
    BY <1>1, SendFlight DEF LinkSend, SourceStep, Link!Next
  <1>2. CASE LinkWrite(s)
    BY <1>2, WriteFlight DEF LinkWrite, SourceStep, LinkInv, FlightType
  <1>3. CASE (RecvFirst(s) \/ RecvMore(s)) /\ UNCHANGED inFlight
    BY <1>3, StoreFlight DEF SourceStep, LinkInv, FlightType
  <1>4. CASE RecvWhole(s) /\ Forget(s, 1)
    BY <1>4, WholeFlight DEF SourceStep, Link!Next
  <1>5. CASE RecvLast(s) /\ Forget(s, 1)
    BY <1>5, LastFlight DEF SourceStep, Link!Next
  <1>6. CASE LoseFrame(s) /\ IF Broken(s) THEN Forget(s, 1) ELSE UNCHANGED inFlight
    BY <1>6, LoseFlight DEF SourceStep, Link!Next
  <1>7. CASE WriteError(s) /\ IF Unfinished(s) THEN Forget(s, Len(inFlight[s])) ELSE UNCHANGED inFlight
    BY <1>7, ErrorFlight DEF SourceStep, Link!Next
  <1> QED
    BY <1>1, <1>2, <1>3, <1>4, <1>5, <1>6, <1>7 DEF LinkRecv, LinkLose

\* Only the packets of s change.
LEMMA FlightOfOthers ==
    ASSUME LinkInv, NEW s \in Sources, NEW t \in Sources, t # s,
           LinkSend(s) \/ LinkWrite(s) \/ LinkRecv(s) \/ LinkLose(s)
    PROVE  inFlight'[t] = inFlight[t]
  BY DEF LinkSend, LinkWrite, LinkRecv, LinkLose, Remember, Forget, LinkInv, FlightType

LEMMA LinkStep ==
    ASSUME Inv, LinkInv, NoneSkipped, NoneSkipped', [LinkNext]_linkVars
    PROVE  LinkInv' /\ [Link!Next]_<<inFlight, RecvList>>
  <1>1. ASSUME NEW s \in Sources, LinkSend(s) \/ LinkWrite(s) \/ LinkRecv(s) \/ LinkLose(s)
        PROVE  LinkInv' /\ [Link!Next]_<<inFlight, RecvList>>
    <2>1. ~ skipped[s] /\ ~ skipped'[s]
      BY DEF NoneSkipped
    <2>2. /\ Flight(s)' /\ FlightType' /\ SourceStep(s)
          /\ Link!Next \/ UNCHANGED <<inFlight, RecvList>>
      BY <1>1, <2>1, SourceFlight
    <2>3. ASSUME NEW t \in Sources, t # s
          PROVE  Flight(t)'
      BY <1>1, <2>2, <2>3, FlightOfOthers, OtherFlight
    <2> QED
      BY <2>2, <2>3 DEF LinkInv
  <1>2. ASSUME (Pop /\ UNCHANGED inFlight) \/ UNCHANGED linkVars
        PROVE  LinkInv' /\ [Link!Next]_<<inFlight, RecvList>>
    <2>1. UNCHANGED <<inFlight, sent, out, bus, InCompletePackets>>
      BY <1>2 DEF Pop, linkVars, vars, sender, receiver
    <2>2. ASSUME NEW t \in Sources
          PROVE  Flight(t)'
      BY <2>1 DEF LinkInv, Flight, Queue
    <2>3. LinkInv'
      BY <2>1, <2>2 DEF LinkInv, FlightType
    <2>4. [Link!Next]_<<inFlight, RecvList>>
      BY <1>2 DEF Pop, linkVars, vars, receiver, Link!Next, Link!Read
    <2> QED
      BY <2>3, <2>4
  <1> QED
    BY <1>1, <1>2 DEF LinkNext

LEMMA LinkInvInit == LinkInit => LinkInv /\ Link!Init
  <1> SUFFICES ASSUME LinkInit
               PROVE  LinkInv /\ Link!Init
    OBVIOUS
  <1>1. ASSUME NEW s \in Sources
        PROVE  Flight(s)
    <2>1. Queue(s) = <<>> /\ sent[s] = 0 /\ out[s] = <<>> /\ inFlight[s] = <<>>
      BY DEF LinkInit, Init, Queue
    <2>2. MaxPackets[s] \in Nat
      BY RmCanAssumption
    <2>3. Tracked(<<>>, InCompletePackets[s], <<>>)
      BY DEF Tracked, TrackedBy
    <2> QED
      BY <2>1, <2>2, <2>3 DEF Flight, Rest, Runs
  <1> QED
    BY <1>1 DEF LinkInv, FlightType, LinkInit, Init, Link!Init

\* The history variable adds nothing to what RmCan does.
LEMMA LinkIsRmCan == LinkSpec => Spec
  <1>1. LinkInit => Init
    BY DEF LinkInit
  <1>2. [LinkNext]_linkVars => [Next]_vars
    BY DEF LinkNext, LinkSend, LinkWrite, LinkRecv, LinkLose, Next, linkVars
  <1> QED
    BY <1>1, <1>2, PTL DEF LinkSpec, Spec

(* The packet layer is a lossy, in-order channel of whole packets, for any    *)
(* sources, any width of the packet ids and any number of packets and faults: *)
(* what recvFromCan hands to readCANData (rmCAN.cpp:255-338) is the oldest    *)
(* packet its source sent that can still be completed, whatever frames are    *)
(* lost and whatever sends are cut short, as long as no packet vanishes       *)
(* completely.                                                               *)
THEOREM LinkImplemented == LinkSpec /\ []NoneSkipped => ImplementsLink
  <1>1. LinkInit => LinkInv /\ Link!Init
    BY LinkInvInit
  <1>2. Inv /\ LinkInv /\ NoneSkipped /\ NoneSkipped' /\ [LinkNext]_linkVars
        => LinkInv' /\ [Link!Next]_<<inFlight, RecvList>>
    BY LinkStep
  <1>3. LinkSpec => []Inv
    BY LinkIsRmCan, InvAlways, PTL
  <1> QED
    BY <1>1, <1>2, <1>3, PTL DEF LinkSpec, ImplementsLink, Link!Spec, Link!vars

=============================================================================
