--------------------------- MODULE HexImageProofs --------------------------
(* Proofs about HexImage, for files of every length and with every content.  *)
EXTENDS HexImage, FiniteSetTheorems, SequenceTheorems, WellFoundedInduction, TLAPS

Element == [address : Nat, data : Seq(Octet)]

HexTypeOK ==
    /\ file \in Files /\ addr_bytes \in {SINGLE_BYTE, DOUBLE_BYTE}
    /\ pc \in {"open", "read", "sort", "compact", "loaded", "failed", "undefined"}
    /\ n \in Nat \ {0}
    /\ base_address \in Nat /\ extended_address \in Nat /\ m_DataSize \in Nat
    /\ m_pElements \in Seq(Element)

\* The bytes of an element lie from its start up to its end.
Start(e) == e.address * addr_bytes
End(e) == Start(e) + Len(e.data)
BytesOf(e) == { <<Start(e) + i - 1, e.data[i]>> : i \in 1 .. Len(e.data) }
Bytes(elements) == UNION { BytesOf(elements[x]) : x \in 1 .. Len(elements) }

\* The lines whose data has been read.
Taken ==
    IF pc = "open" THEN {} ELSE IF pc = "read" THEN { k \in DataLines : k < n } ELSE DataLines

LineBytes(k) == { <<First(k) + i - 1, file[k].data[i]>> : i \in 1 .. Len(file[k].data) }
BytesTaken == UNION { LineBytes(k) : k \in Taken }

Keeps == pc \in {"open", "read", "sort", "compact", "loaded"}

(* No end line has been passed, and the base in force is kept in one of two   *)
(* variables.                                                                *)
BaseInv ==
    pc \in {"open", "read"} =>
        /\ n =< Len(file) + 1
        /\ pc = "open" => n = 1
        /\ \A k \in 1 .. n - 1 : file[k].type # END
        /\ (\A k \in 1 .. n - 1 : file[k].type # SEGMENT) => base_address = 0
        /\ (\A k \in 1 .. n - 1 : file[k].type # LINEAR) => extended_address = 0
        /\ Plain => base_address * 16 + extended_address * 65536 = Base(n)

Whole(e) == Len(e.data) # 0 /\ Len(e.data) % addr_bytes = 0
Clear(e1, e2) == End(e1) =< Start(e2) \/ End(e2) =< Start(e1)
ClearOfLine(e, k) == End(e) =< First(k) \/ Beyond(k) =< Start(e)

(* The elements are whole words and do not overlap, neither each other nor    *)
(* the lines that are left.                                                  *)
Separate(elements, left) ==
    /\ \A x \in 1 .. Len(elements) : Whole(elements[x])
    /\ \A x, y \in 1 .. Len(elements) : x # y => Clear(elements[x], elements[y])
    /\ \A x \in 1 .. Len(elements), k \in left : ClearOfLine(elements[x], k)

Left == DataLines \ Taken

ElementsInv ==
    Plain /\ Keeps =>
        /\ Separate(m_pElements, Left)
        /\ pc = "compact" => Sorted(m_pElements)

(* They hold what has been read, and m_DataSize counts it.                   *)
BytesInv ==
    Plain /\ Keeps =>
        /\ Bytes(m_pElements) = BytesTaken
        /\ IsFiniteSet(BytesTaken) /\ m_DataSize = Cardinality(BytesTaken)

Gap(e1, e2) == End(e1) < Start(e2)

(* When the lines ascend, there is a gap between any two elements: all that  *)
(* could be joined was joined while it was read.                             *)
GapInv ==
    Plain /\ Ascending =>
        /\ pc \in {"open", "read"} =>
             /\ \A x, y \in 1 .. Len(m_pElements) :
                    x < y => Gap(m_pElements[x], m_pElements[y])
             /\ \A x \in 1 .. Len(m_pElements), k \in Left :
                    End(m_pElements[x]) =< First(k)
        /\ pc \in {"sort", "compact"} =>
             \A x, y \in 1 .. Len(m_pElements) :
                 x # y => Gap(m_pElements[x], m_pElements[y]) \/ Gap(m_pElements[y], m_pElements[x])
        /\ pc = "compact" => n =< Len(m_pElements) \/ m_pElements = <<>>
        /\ pc = "undefined" => DataLines = {}

HexInv == HexTypeOK /\ BaseInv /\ ElementsInv /\ BytesInv /\ GapInv


-----------------------------------------------------------------------------
(* What is said of the file and of an element stays as long as the file and  *)
(* the width of an address do.                                               *)
LEMMA FileStays ==
    ASSUME UNCHANGED <<file, addr_bytes>>
    PROVE  /\ DataLines' = DataLines /\ Plain' = Plain /\ Ascending' = Ascending
           /\ FileBytes' = FileBytes
           /\ \A k : /\ Base(k)' = Base(k) /\ First(k)' = First(k)
                     /\ Beyond(k)' = Beyond(k) /\ LineBytes(k)' = LineBytes(k)
           /\ \A e : /\ Start(e)' = Start(e) /\ End(e)' = End(e)
                     /\ BytesOf(e)' = BytesOf(e) /\ Whole(e)' = Whole(e)
           /\ \A e, k : ClearOfLine(e, k)' = ClearOfLine(e, k)
           /\ \A e1, e2 : Clear(e1, e2)' = Clear(e1, e2) /\ Gap(e1, e2)' = Gap(e1, e2)
           /\ \A s : Bytes(s)' = Bytes(s)
           /\ \A s, left : Separate(s, left)' = Separate(s, left)
<1>1. DataLines' = DataLines
  BY DEF DataLines
<1>2. \A k : Base(k)' = Base(k)
  BY DEF Base
<1>3. \A k : First(k)' = First(k)
  BY <1>2 DEF First
<1>4. \A k : Beyond(k)' = Beyond(k) /\ LineBytes(k)' = LineBytes(k)
  BY <1>3 DEF Beyond, LineBytes
<1>5. Plain' = Plain /\ Ascending' = Ascending
  BY <1>1, <1>3, <1>4 DEF Plain, Ascending
<1>6. FileBytes' = FileBytes
  BY <1>1, <1>3 DEF FileBytes
<1>7. \A e : Start(e)' = Start(e) /\ End(e)' = End(e) /\ BytesOf(e)' = BytesOf(e)
  BY DEF Start, End, BytesOf
<1>8. \A e : Whole(e)' = Whole(e)
  BY DEF Whole
<1>9. /\ \A e, k : ClearOfLine(e, k)' = ClearOfLine(e, k)
      /\ \A e1, e2 : Clear(e1, e2)' = Clear(e1, e2) /\ Gap(e1, e2)' = Gap(e1, e2)
  BY <1>3, <1>4, <1>7 DEF ClearOfLine, Clear, Gap
<1>10. \A s : Bytes(s)' = Bytes(s)
  BY <1>7 DEF Bytes
<1>11. \A s, left : Separate(s, left)' = Separate(s, left)
  BY <1>8, <1>9 DEF Separate
<1> QED
  BY <1>1, <1>2, <1>3, <1>4, <1>5, <1>6, <1>7, <1>8, <1>9, <1>10, <1>11

LEMMA NumbersAreNat == Word \subseteq Nat /\ Octet \subseteq Nat
  BY DEF Word, Octet

LEMMA LineFacts ==
    ASSUME HexTypeOK
    PROVE  /\ Len(file) \in Nat /\ DataLines \subseteq 1 .. Len(file)
           /\ \A k \in 1 .. Len(file) :
                /\ file[k].address \in Nat /\ file[k].data \in Seq(Octet)
                /\ Len(file[k].data) \in Nat
                /\ file[k].type \in {SEGMENT, LINEAR} => Number(file[k]) \in Nat
<1>1. file \in Seq(Line) /\ Len(file) \in Nat
  <2>1. file \in Seq(Line)
    BY FilesAssumption DEF HexTypeOK
  <2> QED
    BY <2>1
<1>2. ASSUME NEW k \in 1 .. Len(file)
      PROVE  /\ file[k].address \in Nat
             /\ file[k].data \in Seq(Octet) /\ Len(file[k].data) \in Nat
  <2>1. file[k] \in Line
    BY <1>1
  <2>2. file[k].address \in Word /\ file[k].data \in Seq(Octet)
    BY <2>1 DEF Line
  <2>3. Len(file[k].data) \in Nat
    BY <2>2, LenProperties
  <2> QED
    BY <2>2, <2>3, NumbersAreNat
<1>3. ASSUME NEW k \in 1 .. Len(file), file[k].type \in {SEGMENT, LINEAR}
      PROVE  Number(file[k]) \in Nat
  <2>1. file[k].data \in Seq(Octet)
    BY <1>2
  <2>2. Len(file[k].data) = 2
    BY <1>3, FilesAssumption DEF HexTypeOK
  <2>3. file[k].data[1] \in Octet /\ file[k].data[2] \in Octet
    BY <2>1, <2>2
  <2>4. file[k].data[1] \in Nat /\ file[k].data[2] \in Nat
    BY <2>3, NumbersAreNat
  <2> QED
    BY <2>4 DEF Number
<1> QED
  BY <1>1, <1>2, <1>3 DEF DataLines

(* The latest of some lines.                                                 *)
LEMMA Latest ==
    ASSUME NEW k \in Nat, NEW S \in SUBSET (1 .. k), S # {}
    PROVE  \E l \in S : \A m \in S : m =< l
<1> DEFINE T == { k - m : m \in S }
<1>1. T \subseteq Nat /\ T # {}
  <2>1. \A m \in S : k - m \in Nat
    OBVIOUS
  <2> QED
    BY <2>1
<1>2. PICK t \in T : \A u \in T : ~ (<<u, t>> \in OpToRel(<, Nat))
  BY <1>1, NatLessThanWellFounded, WFMin
<1>3. \A u \in T : ~ u < t
  BY <1>1, <1>2 DEF OpToRel
<1>4. PICK l \in S : t = k - l
  OBVIOUS
<1>5. \A m \in S : ~ (k - m < k - l)
  BY <1>3, <1>4
<1> QED
  BY <1>4, <1>5

(* A base line changes the base of the lines after it, and no other does.    *)
LEMMA BaseStep ==
    ASSUME HexTypeOK, NEW k \in 1 .. Len(file)
    PROVE  Base(k + 1) = IF file[k].type = SEGMENT THEN Number(file[k]) * 16
                         ELSE IF file[k].type = LINEAR THEN Number(file[k]) * 65536
                         ELSE Base(k)
<1> DEFINE before(m) == { j \in 1 .. m - 1 : file[j].type \in {SEGMENT, LINEAR} }
<1> DEFINE last(m) == CHOOSE j \in before(m) : \A i \in before(m) : i =< j
<1>0. \A m : Base(m) = IF before(m) = {} THEN 0
                       ELSE Number(file[last(m)]) * (IF file[last(m)].type = SEGMENT THEN 16 ELSE 65536)
  BY DEF Base
<1>1. CASE file[k].type \in {SEGMENT, LINEAR}
  <2>1. before(k + 1) = before(k) \cup {k}
    BY <1>1, LineFacts
  <2>2. \A j \in before(k) : j =< k - 1 /\ j \in Nat
    BY LineFacts
  <2>3. k \in Nat
    BY LineFacts
  <2>4. last(k + 1) = k
    <3>1. \A i \in before(k + 1) : i =< k
      BY <2>1, <2>2, <2>3
    <3>2. ASSUME NEW j \in before(k + 1), \A i \in before(k + 1) : i =< j
          PROVE  j = k
      BY <2>1, <2>2, <2>3, <3>2
    <3>3. k \in before(k + 1)
      BY <2>1
    <3> HIDE DEF before
    <3> QED
      BY <3>1, <3>2, <3>3
  <2>5. before(k + 1) # {}
    BY <2>1
  <2> HIDE DEF before, last
  <2>6. SEGMENT # LINEAR
    BY DEF SEGMENT, LINEAR
  <2> QED
    BY <1>0, <1>1, <2>4, <2>5, <2>6
<1>2. CASE file[k].type \notin {SEGMENT, LINEAR}
  <2>1. before(k + 1) = before(k)
    BY <1>2, LineFacts
  <2>2. last(k + 1) = last(k)
    BY <2>1
  <2> HIDE DEF before, last
  <2> QED
    BY <1>0, <1>2, <2>1, <2>2
<1> QED
  BY <1>1, <1>2

LEMMA BaseType ==
    ASSUME HexTypeOK, NEW k \in 1 .. Len(file) + 1
    PROVE  Base(k) \in Nat
<1> DEFINE before == { j \in 1 .. k - 1 : file[j].type \in {SEGMENT, LINEAR} }
<1> DEFINE last == CHOOSE j \in before : \A i \in before : i =< j
<1>1. CASE before = {}
  BY <1>1 DEF Base
<1>2. CASE before # {}
  <2>1. \E j \in before : \A i \in before : i =< j
    <3>1. k - 1 \in Nat /\ before \in SUBSET (1 .. k - 1)
      BY LineFacts
    <3> HIDE DEF before
    <3> QED
      BY <1>2, <3>1, Latest
  <2>2. last \in before
    <3> HIDE DEF before
    <3> QED
      BY <2>1
  <2>3. Number(file[last]) \in Nat
    <3>1. last \in 1 .. Len(file) /\ file[last].type \in {SEGMENT, LINEAR}
      BY <2>2, LineFacts
    <3> HIDE DEF last
    <3> QED
      BY <3>1, LineFacts
  <2>4. Base(k) = Number(file[last]) * (IF file[last].type = SEGMENT THEN 16 ELSE 65536)
    BY <1>2 DEF Base
  <2> HIDE DEF last
  <2> QED
    BY <2>3, <2>4
<1> QED
  BY <1>1, <1>2

LEMMA PlaceType ==
    ASSUME HexTypeOK, NEW k \in 1 .. Len(file)
    PROVE  /\ First(k) \in Nat /\ Beyond(k) \in Nat
           /\ Beyond(k) = First(k) + Len(file[k].data)
<1>1. Base(k) \in Nat
  <2>1. k \in 1 .. Len(file) + 1
    BY LineFacts
  <2> QED
    BY <2>1, BaseType
<1>2. file[k].address \in Nat /\ Len(file[k].data) \in Nat
  BY LineFacts
<1>3. addr_bytes = 1 \/ addr_bytes = 2
  BY DEF HexTypeOK, SINGLE_BYTE, DOUBLE_BYTE
<1>4. First(k) \in Nat
  BY <1>1, <1>2, <1>3 DEF First
<1> QED
  BY <1>2, <1>4 DEF Beyond

-----------------------------------------------------------------------------
(* Elements. *)
LEMMA ElementType ==
    ASSUME HexTypeOK, NEW e \in Element
    PROVE  /\ e.address \in Nat /\ e.data \in Seq(Octet) /\ Len(e.data) \in Nat
           /\ Start(e) \in Nat /\ End(e) \in Nat /\ End(e) = Start(e) + Len(e.data)
<1>1. e.address \in Nat /\ e.data \in Seq(Octet) /\ Len(e.data) \in Nat
  BY DEF Element
<1>2. addr_bytes = 1 \/ addr_bytes = 2
  BY DEF HexTypeOK, SINGLE_BYTE, DOUBLE_BYTE
<1>3. Start(e) \in Nat
  BY <1>1, <1>2 DEF Start
<1> QED
  BY <1>1, <1>3 DEF End

LEMMA Halves ==
    ASSUME NEW l \in Nat
    PROVE  /\ l \div 1 = l /\ l % 1 = 0
           /\ l \div 2 \in Nat /\ (l % 2 = 0 => l = 2 * (l \div 2))
           /\ l # 0 => l \div 2 < l
  OBVIOUS

LEMMA HalvesAdd ==
    ASSUME NEW l \in Nat, NEW m \in Nat, l % 2 = 0, m % 2 = 0
    PROVE  (l + m) % 2 = 0
  OBVIOUS

(* An element follows another when it begins where that ends.                *)
LEMMA FollowsMeets ==
    ASSUME HexTypeOK, NEW e1 \in Element, NEW e2 \in Element, Whole(e1)
    PROVE  Follows(e1, e2, addr_bytes) <=> End(e1) = Start(e2)
<1> DEFINE a == e1.address
           b == e2.address
           l == Len(e1.data)
<1>1. a \in Nat /\ b \in Nat /\ l \in Nat
  BY ElementType
<1>2. /\ Follows(e1, e2, addr_bytes) <=> a + l \div addr_bytes = b
      /\ End(e1) = a * addr_bytes + l /\ Start(e2) = b * addr_bytes
      /\ l % addr_bytes = 0
  BY DEF Follows, End, Start, Whole
<1>3. (l \div 1 = l) /\ (l % 2 = 0 => l = 2 * (l \div 2)) /\ l \div 2 \in Nat
  BY <1>1, Halves
<1> HIDE DEF a, b, l
<1>4. CASE addr_bytes = 1
  BY <1>1, <1>2, <1>3, <1>4
<1>5. CASE addr_bytes = 2
  <2>1. l = 2 * (l \div 2)
    BY <1>2, <1>3, <1>5
  <2> DEFINE h == l \div 2
  <2>2. h \in Nat /\ l = 2 * h
    BY <1>3, <2>1
  <2>3. /\ Follows(e1, e2, addr_bytes) <=> a + h = b
        /\ End(e1) = a * 2 + l /\ Start(e2) = b * 2
    BY <1>2, <1>5
  <2> HIDE DEF h
  <2> QED
    BY <1>1, <2>2, <2>3
<1> QED
  BY <1>4, <1>5 DEF HexTypeOK, SINGLE_BYTE, DOUBLE_BYTE

(* CompactElements always counts in words of two bytes. When an address      *)
(* stands for one byte, it finds no two that follow, unless they overlap.    *)
LEMMA WordsMeet ==
    ASSUME HexTypeOK, NEW e1 \in Element, NEW e2 \in Element, Whole(e1),
           End(e1) =< Start(e2), Follows(e1, e2, 2)
    PROVE  End(e1) = Start(e2)
<1> DEFINE a == e1.address
           b == e2.address
           l == Len(e1.data)
<1>1. a \in Nat /\ b \in Nat /\ l \in Nat
  BY ElementType
<1>2. /\ a + l \div 2 = b
      /\ End(e1) = a * addr_bytes + l /\ Start(e2) = b * addr_bytes
      /\ l # 0
  BY DEF Follows, End, Start, Whole
<1>3. l \div 2 \in Nat /\ l \div 2 < l
  BY <1>1, <1>2, Halves
<1>4. CASE addr_bytes = 1
  <2>1. End(e1) = a + l /\ Start(e2) = b
    <3> HIDE DEF a, b, l
    <3> QED
      BY <1>1, <1>2, <1>4
  <2>2. a + l =< b
    BY <2>1
  <2> HIDE DEF a, b, l
  <2> QED
    BY <1>1, <1>2, <1>3, <2>2
<1>5. CASE addr_bytes = 2
  BY <1>5, FollowsMeets
<1> QED
  BY <1>4, <1>5 DEF HexTypeOK, SINGLE_BYTE, DOUBLE_BYTE

LEMMA JoinedElement ==
    ASSUME HexTypeOK, NEW e1 \in Element, NEW e2 \in Element
    PROVE  /\ Joined(e1, e2) \in Element
           /\ Start(Joined(e1, e2)) = Start(e1)
           /\ Len(Joined(e1, e2).data) = Len(e1.data) + Len(e2.data)
           /\ End(e1) = Start(e2) => End(Joined(e1, e2)) = End(e2)
<1>1. /\ e1.address \in Nat /\ e1.data \in Seq(Octet) /\ e2.data \in Seq(Octet)
      /\ Len(e1.data) \in Nat /\ Len(e2.data) \in Nat
      /\ Start(e1) \in Nat /\ Start(e2) \in Nat
      /\ End(e1) = Start(e1) + Len(e1.data) /\ End(e2) = Start(e2) + Len(e2.data)
  BY ElementType
<1>2. /\ e1.data \o e2.data \in Seq(Octet)
      /\ Len(e1.data \o e2.data) = Len(e1.data) + Len(e2.data)
  BY <1>1, ConcatProperties
<1>3. /\ Joined(e1, e2).address = e1.address
      /\ Joined(e1, e2).data = e1.data \o e2.data
      /\ Joined(e1, e2) \in Element
  BY <1>1, <1>2 DEF Joined, Element
<1>4. Start(Joined(e1, e2)) = Start(e1)
  BY <1>3 DEF Start
<1>5. End(Joined(e1, e2)) = Start(e1) + (Len(e1.data) + Len(e2.data))
  BY <1>2, <1>3, <1>4 DEF End
<1>6. Len(Joined(e1, e2).data) = Len(e1.data) + Len(e2.data)
  BY <1>2, <1>3
<1>7. ASSUME End(e1) = Start(e2)
      PROVE  End(Joined(e1, e2)) = End(e2)
  <2> DEFINE l1 == Len(e1.data)
             l2 == Len(e2.data)
             s1 == Start(e1)
  <2>1. l1 \in Nat /\ l2 \in Nat /\ s1 \in Nat /\ End(e2) = s1 + l1 + l2
    BY <1>1, <1>7
  <2>2. End(Joined(e1, e2)) = s1 + (l1 + l2)
    BY <1>5
  <2> HIDE DEF l1, l2, s1
  <2> QED
    BY <2>1, <2>2
<1> QED
  BY <1>3, <1>4, <1>6, <1>7

LEMMA JoinedWhole ==
    ASSUME HexTypeOK, NEW e1 \in Element, NEW e2 \in Element, Whole(e1), Whole(e2)
    PROVE  Whole(Joined(e1, e2))
<1> DEFINE l1 == Len(e1.data)
           l2 == Len(e2.data)
           l == Len(Joined(e1, e2).data)
<1>1. l1 \in Nat /\ l2 \in Nat
  BY ElementType
<1>2. l = l1 + l2
  BY JoinedElement
<1>3. l1 # 0 /\ l1 % addr_bytes = 0 /\ l2 % addr_bytes = 0
  BY DEF Whole
<1>4. Whole(Joined(e1, e2)) <=> l # 0 /\ l % addr_bytes = 0
  BY DEF Whole
<1> HIDE DEF l1, l2, l
<1>5. l \in Nat /\ l # 0
  BY <1>1, <1>2, <1>3
<1>6. CASE addr_bytes = 1
  BY <1>4, <1>5, <1>6, Halves
<1>7. CASE addr_bytes = 2
  BY <1>1, <1>2, <1>3, <1>4, <1>5, <1>7, HalvesAdd
<1> QED
  BY <1>6, <1>7 DEF HexTypeOK, SINGLE_BYTE, DOUBLE_BYTE

LEMMA JoinedBytes ==
    ASSUME HexTypeOK, NEW e1 \in Element, NEW e2 \in Element, End(e1) = Start(e2)
    PROVE  BytesOf(Joined(e1, e2)) = BytesOf(e1) \cup BytesOf(e2)
<1> DEFINE L1 == Len(e1.data)
           L2 == Len(e2.data)
           D == Joined(e1, e2).data
           S1 == Start(e1)
<1>1. /\ e1.data \in Seq(Octet) /\ e2.data \in Seq(Octet) /\ L1 \in Nat /\ L2 \in Nat
      /\ S1 \in Nat /\ Start(e2) = S1 + L1
  BY ElementType
<1>2. Len(D) = L1 + L2 /\ Start(Joined(e1, e2)) = S1
  BY JoinedElement
<1>3. \A i \in 1 .. L1 + L2 : D[i] = IF i =< L1 THEN e1.data[i] ELSE e2.data[i - L1]
  BY <1>1, ConcatProperties DEF Joined
<1>4. BytesOf(e1) = { <<S1 + i - 1, e1.data[i]>> : i \in 1 .. L1 }
  BY DEF BytesOf
<1>5. BytesOf(e2) = { <<S1 + L1 + i - 1, e2.data[i]>> : i \in 1 .. L2 }
  BY <1>1 DEF BytesOf
<1>6. BytesOf(Joined(e1, e2)) = { <<S1 + i - 1, D[i]>> : i \in 1 .. L1 + L2 }
  BY <1>2 DEF BytesOf
<1> HIDE DEF L1, L2, D, S1
<1>7. ASSUME NEW i \in 1 .. L1
      PROVE  <<S1 + i - 1, e1.data[i]>> \in BytesOf(Joined(e1, e2))
  <2>1. i \in 1 .. L1 + L2 /\ D[i] = e1.data[i]
    BY <1>1, <1>3
  <2> QED
    BY <1>6, <2>1
<1>8. ASSUME NEW i \in 1 .. L2
      PROVE  <<S1 + L1 + i - 1, e2.data[i]>> \in BytesOf(Joined(e1, e2))
  <2>1. L1 + i \in 1 .. L1 + L2 /\ D[L1 + i] = e2.data[i]
    BY <1>1, <1>3
  <2>2. S1 + L1 + i - 1 = S1 + (L1 + i) - 1
    BY <1>1
  <2> QED
    BY <1>6, <2>1, <2>2
<1>9. ASSUME NEW i \in 1 .. L1 + L2
      PROVE  <<S1 + i - 1, D[i]>> \in BytesOf(e1) \cup BytesOf(e2)
  <2>1. CASE i =< L1
    BY <1>1, <1>3, <1>4, <2>1
  <2>2. CASE i > L1
    <3>1. i - L1 \in 1 .. L2 /\ D[i] = e2.data[i - L1]
      BY <1>1, <1>3, <2>2
    <3>2. S1 + L1 + (i - L1) - 1 = S1 + i - 1
      BY <1>1
    <3> QED
      BY <1>5, <3>1, <3>2
  <2> QED
    BY <1>1, <2>1, <2>2
<1> QED
  BY <1>4, <1>5, <1>6, <1>7, <1>8, <1>9

-----------------------------------------------------------------------------
(* What the steps do to the list of elements.                                *)
NewElement ==
    [address |-> extended_address * 65536 + base_address * 16 + file[n].address,
     data    |-> file[n].data]

JoinsLast ==
    LET last == Len(m_pElements) IN
    /\ last # 0 /\ Follows(m_pElements[last], NewElement, addr_bytes)
    /\ Len(m_pElements') = last
    /\ \A x \in 1 .. last - 1 : m_pElements'[x] = m_pElements[x]
    /\ m_pElements'[last] = Joined(m_pElements[last], NewElement)

Appends ==
    LET last == Len(m_pElements) IN
    /\ last # 0 => ~ Follows(m_pElements[last], NewElement, addr_bytes)
    /\ Len(m_pElements') = last + 1
    /\ \A x \in 1 .. last : m_pElements'[x] = m_pElements[x]
    /\ m_pElements'[last + 1] = NewElement

LEMMA ReadDataDoes ==
    ASSUME HexTypeOK, ReadData
    PROVE  /\ n \in 1 .. Len(file) /\ pc = "read"
           /\ NewElement \in Element /\ m_pElements' \in Seq(Element)
           /\ JoinsLast \/ Appends
<1> DEFINE last == Len(m_pElements)
<1>1. n \in 1 .. Len(file) /\ pc = "read"
  BY LineFacts DEF ReadData, Reads, HexTypeOK
<1>2. NewElement \in Element
  <2>1. extended_address * 65536 + base_address * 16 + file[n].address \in Nat
    BY <1>1, LineFacts DEF HexTypeOK
  <2> QED
    BY <1>1, <2>1, LineFacts DEF NewElement, Element
<1>3. last \in Nat /\ m_pElements \in Seq(Element)
  BY DEF HexTypeOK
<1>4. m_pElements' = IF last # 0 /\ Follows(m_pElements[last], NewElement, addr_bytes)
                       THEN [m_pElements EXCEPT ![last] = Joined(m_pElements[last], NewElement)]
                       ELSE Append(m_pElements, NewElement)
  BY DEF ReadData, NewElement
<1>5. CASE last # 0 /\ Follows(m_pElements[last], NewElement, addr_bytes)
  <2>1. last \in 1 .. Len(m_pElements) /\ m_pElements[last] \in Element
    BY <1>3, <1>5
  <2>2. Joined(m_pElements[last], NewElement) \in Element
    BY <1>2, <2>1, JoinedElement
  <2>3. m_pElements' = [m_pElements EXCEPT ![last] = Joined(m_pElements[last], NewElement)]
    BY <1>4, <1>5
  <2>4. /\ m_pElements' \in Seq(Element) /\ Len(m_pElements') = last
        /\ \A x \in 1 .. last :
              m_pElements'[x] = IF x = last THEN Joined(m_pElements[last], NewElement)
                                ELSE m_pElements[x]
    BY <1>3, <2>1, <2>2, <2>3, ExceptSeq
  <2>5. JoinsLast
    BY <1>3, <1>5, <2>1, <2>4 DEF JoinsLast
  <2> QED
    BY <1>1, <1>2, <2>4, <2>5
<1>6. CASE ~ (last # 0 /\ Follows(m_pElements[last], NewElement, addr_bytes))
  <2>1. m_pElements' = Append(m_pElements, NewElement)
    BY <1>4, <1>6
  <2>2. /\ m_pElements' \in Seq(Element) /\ Len(m_pElements') = last + 1
        /\ \A x \in 1 .. last : m_pElements'[x] = m_pElements[x]
        /\ m_pElements'[last + 1] = NewElement
    BY <1>2, <1>3, <2>1
  <2>3. Appends
    BY <1>6, <2>2 DEF Appends
  <2> QED
    BY <1>1, <1>2, <2>2, <2>3
<1> QED
  BY <1>5, <1>6

LEMMA SortDoes ==
    ASSUME HexTypeOK, Sort
    PROVE  /\ m_pElements' \in Seq(Element) /\ Len(m_pElements') = Len(m_pElements)
           /\ \E p \in [1 .. Len(m_pElements) -> 1 .. Len(m_pElements)] :
                 /\ \A x, y \in 1 .. Len(m_pElements) : p[x] = p[y] => x = y
                 /\ \A y \in 1 .. Len(m_pElements) : \E x \in 1 .. Len(m_pElements) : p[x] = y
                 /\ \A x \in 1 .. Len(m_pElements) : m_pElements'[x] = m_pElements[p[x]]
<1> DEFINE P == 1 .. Len(m_pElements)
<1>1. PICK p \in [P -> P] : /\ \A x, y \in P : p[x] = p[y] => x = y
                            /\ m_pElements' = [x \in P |-> m_pElements[p[x]]]
  BY DEF Sort
<1>2. Len(m_pElements) \in Nat /\ \A x \in P : m_pElements[p[x]] \in Element
  BY DEF HexTypeOK
<1>3. m_pElements' \in Seq(Element) /\ Len(m_pElements') = Len(m_pElements)
  <2>1. m_pElements' \in [P -> Element]
    BY <1>1, <1>2
  <2>2. m_pElements' \in Seq(Element)
    BY <1>2, <2>1, SeqDef
  <2>3. DOMAIN m_pElements' = 1 .. Len(m_pElements)
    BY <1>1
  <2> QED
    BY <1>2, <2>2, <2>3
<1>4. \A y \in P : \E x \in P : p[x] = y
  <2>1. p \in Injection(P, P)
    BY <1>1 DEF Injection, IsInjective
  <2>2. IsFiniteSet(P)
    BY <1>2, FS_Interval
  <2>3. p \in Surjection(P, P)
    BY <2>1, <2>2, FS_Injection
  <2> QED
    BY <2>3 DEF Surjection
<1> QED
  BY <1>1, <1>3, <1>4

JoinsNext ==
    LET size == Len(m_pElements) IN
    /\ Follows(m_pElements[n], m_pElements[n + 1], 2)
    /\ Len(m_pElements') = size - 1
    /\ \A x \in 1 .. size - 1 :
          m_pElements'[x] = IF x < n THEN m_pElements[x]
                            ELSE IF x = n THEN Joined(m_pElements[n], m_pElements[n + 1])
                            ELSE m_pElements[x + 1]

LEMMA CompactDoes ==
    ASSUME HexTypeOK, Compact
    PROVE  /\ n \in 1 .. Len(m_pElements) - 1 /\ m_pElements' \in Seq(Element)
           /\ \/ JoinsNext
              \/ ~Follows(m_pElements[n], m_pElements[n + 1], 2) /\ UNCHANGED m_pElements
<1> DEFINE size == Len(m_pElements)
           e1 == m_pElements[n]
           e2 == m_pElements[n + 1]
<1>1. size \in Nat /\ n \in 1 .. size - 1 /\ n \in Nat /\ m_pElements \in Seq(Element)
  BY DEF HexTypeOK, Compact
<1>2. e1 \in Element /\ e2 \in Element
  BY <1>1
<1>3. CASE ~Follows(e1, e2, 2)
  BY <1>1, <1>3 DEF Compact
<1>4. CASE Follows(e1, e2, 2)
  <2> DEFINE a == SubSeq(m_pElements, 1, n - 1)
             b == <<Joined(e1, e2)>>
             c == SubSeq(m_pElements, n + 2, size)
  <2>1. m_pElements' = a \o b \o c
    BY <1>4 DEF Compact
  <2>2. /\ a \in Seq(Element) /\ Len(a) = n - 1
        /\ \A x \in 1 .. n - 1 : a[x] = m_pElements[x]
    BY <1>1
  <2>3. b \in Seq(Element) /\ Len(b) = 1 /\ b[1] = Joined(e1, e2)
    <3> DEFINE g == Joined(e1, e2)
    <3>1. g \in Element
      BY <1>2, JoinedElement
    <3> HIDE DEF g
    <3>2. <<g>> \in Seq(Element) /\ Len(<<g>>) = 1 /\ <<g>>[1] = g
      BY <3>1
    <3> QED
      BY <3>2 DEF g
  <2>4. /\ c \in Seq(Element) /\ Len(c) = size - n - 1
        /\ \A x \in 1 .. size - n - 1 : c[x] = m_pElements[n + 1 + x]
    <3>1. \A x \in n + 2 .. size : m_pElements[x] \in Element
      BY <1>1
    <3>2. /\ c \in Seq(Element)
          /\ Len(c) = IF n + 2 =< size THEN size - (n + 2) + 1 ELSE 0
          /\ \A x \in 1 .. size - (n + 2) + 1 : c[x] = m_pElements[(n + 2) + x - 1]
      BY <1>1, <3>1, SubSeqProperties
    <3> HIDE DEF c, size
    <3>3. \A x \in 1 .. size - n - 1 : (n + 2) + x - 1 = n + 1 + x
      BY <1>1
    <3> QED
      BY <1>1, <3>2, <3>3
  <2> HIDE DEF a, b, c, size
  <2>5. /\ a \o b \in Seq(Element) /\ Len(a \o b) = n
        /\ \A x \in 1 .. n : (a \o b)[x] = IF x =< n - 1 THEN a[x] ELSE b[x - (n - 1)]
    <3>1. /\ a \o b \in Seq(Element) /\ Len(a \o b) = Len(a) + Len(b)
          /\ \A x \in 1 .. Len(a) + Len(b) :
                (a \o b)[x] = IF x =< Len(a) THEN a[x] ELSE b[x - Len(a)]
      BY <2>2, <2>3, ConcatProperties
    <3>2. Len(a) = n - 1 /\ Len(a) + Len(b) = n
      BY <1>1, <2>2, <2>3
    <3> QED
      BY <3>1, <3>2
  <2>6. /\ m_pElements' \in Seq(Element) /\ Len(m_pElements') = size - 1
        /\ \A x \in 1 .. size - 1 :
              m_pElements'[x] = IF x =< n THEN (a \o b)[x] ELSE c[x - n]
    <3> DEFINE d == a \o b
    <3>1. d \in Seq(Element) /\ Len(d) = n /\ m_pElements' = d \o c
      BY <2>1, <2>5
    <3> HIDE DEF d
    <3>2. /\ d \o c \in Seq(Element) /\ Len(d \o c) = Len(d) + Len(c)
          /\ \A x \in 1 .. Len(d) + Len(c) :
                (d \o c)[x] = IF x =< Len(d) THEN d[x] ELSE c[x - Len(d)]
      BY <2>4, <3>1, ConcatProperties
    <3>3. Len(d) = n /\ Len(d) + Len(c) = size - 1
      BY <1>1, <2>4, <3>1
    <3>4. /\ m_pElements' \in Seq(Element) /\ Len(m_pElements') = size - 1
          /\ \A x \in 1 .. size - 1 :
                m_pElements'[x] = IF x =< n THEN d[x] ELSE c[x - n]
      BY <3>1, <3>2, <3>3
    <3> QED
      BY <3>4 DEF d
  <2>7. ASSUME NEW x \in 1 .. size - 1
        PROVE  m_pElements'[x] = IF x < n THEN m_pElements[x]
                                 ELSE IF x = n THEN Joined(e1, e2) ELSE m_pElements[x + 1]
    <3>1. CASE x < n
      <4>1. x \in 1 .. n - 1 /\ x \in 1 .. n /\ x =< n /\ x =< n - 1
        BY <1>1, <3>1
      <4>2. m_pElements'[x] = (a \o b)[x]
        BY <2>6, <4>1
      <4>3. (a \o b)[x] = a[x]
        BY <2>5, <4>1
      <4> QED
        BY <2>2, <3>1, <4>1, <4>2, <4>3
    <3>2. CASE x = n
      <4>1. n - (n - 1) = 1 /\ ~ n =< n - 1 /\ n \in 1 .. n /\ x =< n
        BY <1>1, <3>2
      <4>2. m_pElements'[x] = (a \o b)[n]
        BY <2>6, <3>2, <4>1
      <4>3. (a \o b)[n] = b[1]
        BY <2>5, <4>1
      <4>4. ~ x < n
        BY <1>1, <3>2
      <4> QED
        BY <2>3, <3>2, <4>2, <4>3, <4>4
    <3>3. CASE x > n
      <4>1. x - n \in 1 .. size - n - 1 /\ n + 1 + (x - n) = x + 1
        BY <1>1, <3>3
      <4>2. ~ x =< n /\ ~ x < n /\ x # n
        BY <1>1, <3>3
      <4> QED
        BY <2>4, <2>6, <4>1, <4>2
    <3> QED
      BY <1>1, <3>1, <3>2, <3>3
  <2>8. JoinsNext
    BY <1>4, <2>6, <2>7 DEF JoinsNext, size
  <2> QED
    BY <1>1, <2>6, <2>8 DEF size
<1> QED
  BY <1>3, <1>4

-----------------------------------------------------------------------------
LEMMA TypeInit == HexInit => HexTypeOK
  BY DEF HexInit, HexTypeOK

LEMMA TypeNext == HexTypeOK /\ [HexNext]_hexVars => HexTypeOK'
<1> SUFFICES ASSUME HexTypeOK, [HexNext]_hexVars PROVE HexTypeOK'
  OBVIOUS
<1>1. CASE ReadData
  <2>1. n \in 1 .. Len(file) /\ m_pElements' \in Seq(Element)
    BY <1>1, ReadDataDoes
  <2>2. Len(file[n].data) \in Nat
    BY <2>1, LineFacts
  <2> QED
    BY <1>1, <2>1, <2>2 DEF ReadData, Reads, HexTypeOK
<1>2. CASE ReadBase
  <2>1. n \in 1 .. Len(file) /\ Number(file[n]) \in Nat
    BY <1>2, LineFacts DEF ReadBase, Reads, HexTypeOK
  <2> QED
    BY <1>2, <2>1 DEF ReadBase, Reads, HexTypeOK
<1>3. CASE Refuse
  <2>1. n \in 1 .. Len(file)
    BY <1>3, LineFacts DEF Refuse, HexTypeOK
  <2>2. Len(file[n].data) \in Nat
    BY <2>1, LineFacts
  <2> QED
    BY <1>3, <2>2 DEF Refuse, HexTypeOK
<1>4. CASE Sort
  BY <1>4, SortDoes DEF Sort, HexTypeOK
<1>5. CASE Compact
  <2>1. m_pElements' \in Seq(Element)
    BY <1>5, CompactDoes
  <2>2. /\ UNCHANGED <<file, addr_bytes, pc, base_address, extended_address, m_DataSize>>
        /\ n' = n + 1
    BY <1>5 DEF Compact
  <2> QED
    BY <2>1, <2>2 DEF HexTypeOK
<1>6. CASE Open \/ OpenFails \/ ReadStart \/ ReadEnd \/ Compacted \/ Undefined
  BY <1>6 DEF Open, OpenFails, ReadStart, ReadEnd, Reads, Compacted, Undefined, HexTypeOK
<1>7. CASE UNCHANGED hexVars
  BY <1>7 DEF hexVars, HexTypeOK
<1> QED
  BY <1>1, <1>2, <1>3, <1>4, <1>5, <1>6, <1>7 DEF HexNext

-----------------------------------------------------------------------------
(* The base in force. *)
LEMMA BaseInit == HexInit /\ HexTypeOK => BaseInv
<1> SUFFICES ASSUME HexInit, HexTypeOK PROVE BaseInv
  OBVIOUS
<1>1. n = 1 /\ 1 =< Len(file) + 1 /\ base_address = 0 /\ extended_address = 0
  BY LineFacts DEF HexInit
<1>2. Base(1) = 0
  BY DEF Base
<1> QED
  BY <1>1, <1>2 DEF BaseInv

LEMMA ReadsNext ==
    ASSUME HexTypeOK, BaseInv, NEW types, Reads(types), types \subseteq Octet \ {END}
    PROVE  /\ n \in 1 .. Len(file) /\ n' = n + 1 /\ pc = "read"
           /\ file[n].type \in types
           /\ n + 1 =< Len(file) + 1 /\ n + 1 # 1
           /\ \A k \in 1 .. n : file[k].type # END
<1>1. n \in 1 .. Len(file) /\ n' = n + 1 /\ pc = "read" /\ file[n].type \in types
  BY LineFacts DEF Reads, HexTypeOK
<1>2. \A k \in 1 .. n - 1 : file[k].type # END
  BY <1>1 DEF BaseInv
<1> QED
  BY <1>1, <1>2, LineFacts

LEMMA BaseNext == HexTypeOK /\ BaseInv /\ [HexNext]_hexVars => BaseInv'
<1> SUFFICES ASSUME HexTypeOK, BaseInv, [HexNext]_hexVars PROVE BaseInv'
  OBVIOUS
<1>1. ASSUME NEW types, Reads(types), types \subseteq Octet \ {END, SEGMENT, LINEAR},
             UNCHANGED <<file, addr_bytes, pc, base_address, extended_address>>
      PROVE  BaseInv'
  <2>1. /\ n \in 1 .. Len(file) /\ n' = n + 1 /\ pc = "read"
        /\ file[n].type \in types
        /\ n + 1 =< Len(file) + 1 /\ n + 1 # 1
        /\ \A k \in 1 .. n : file[k].type # END
    BY <1>1, ReadsNext
  <2>2. Base(n + 1) = Base(n)
    BY <1>1, <2>1, BaseStep
  <2>3. Plain' = Plain
    BY <1>1, FileStays
  <2>4. Base(n)' = Base(n + 1)
    BY <1>1, <2>1, FileStays
  <2>5. \A k \in 1 .. n - 1 : k \in 1 .. n
    BY <2>1
  <2>6. /\ (\A k \in 1 .. n - 1 : file[k].type # SEGMENT) => base_address = 0
        /\ (\A k \in 1 .. n - 1 : file[k].type # LINEAR) => extended_address = 0
        /\ Plain => base_address * 16 + extended_address * 65536 = Base(n)
    BY <2>1 DEF BaseInv
  <2>7. n' - 1 = n
    BY <2>1
  <2> QED
    BY <1>1, <2>1, <2>2, <2>3, <2>4, <2>5, <2>6, <2>7 DEF BaseInv
<1>2. CASE ReadBase
  <2>0. SEGMENT # LINEAR /\ {SEGMENT, LINEAR} \subseteq Octet \ {END}
    BY DEF SEGMENT, LINEAR, END, Octet
  <2>1. /\ n \in 1 .. Len(file) /\ n' = n + 1 /\ pc = "read"
        /\ file[n].type \in {SEGMENT, LINEAR}
        /\ n + 1 =< Len(file) + 1 /\ n + 1 # 1
        /\ \A k \in 1 .. n : file[k].type # END
    BY <1>2, <2>0, ReadsNext DEF ReadBase
  <2>2. UNCHANGED <<file, addr_bytes, pc>> /\ n' - 1 = n
    BY <1>2, <2>1 DEF ReadBase
  <2>3. Plain' = Plain /\ Base(n)' = Base(n + 1)
    BY <2>1, <2>2, FileStays
  <2>4. /\ (\A k \in 1 .. n - 1 : file[k].type # SEGMENT) => base_address = 0
        /\ (\A k \in 1 .. n - 1 : file[k].type # LINEAR) => extended_address = 0
    BY <2>1 DEF BaseInv
  <2>5. Number(file[n]) \in Nat
    BY <2>1, LineFacts
  <2>6. \A k \in 1 .. n - 1 : k \in 1 .. n /\ k \in 1 .. Len(file)
    BY <2>1, LineFacts
  <2>7. CASE file[n].type = SEGMENT
    <3>1. base_address' = Number(file[n]) /\ extended_address' = extended_address
      BY <1>2, <2>7 DEF ReadBase
    <3>2. Base(n + 1) = Number(file[n]) * 16
      BY <2>1, <2>7, BaseStep
    <3>3. Plain => \A k \in 1 .. Len(file) : file[k].type # LINEAR
      BY <2>1, <2>7 DEF Plain
    <3>4. Plain => extended_address = 0
      BY <2>4, <2>6, <3>3
    <3>5. Plain => base_address' * 16 + extended_address' * 65536 = Base(n + 1)
      BY <2>5, <3>1, <3>2, <3>4
    <3>6. (\A k \in 1 .. n : file[k].type # LINEAR) => extended_address' = 0
      BY <2>4, <2>6, <3>1
    <3>7. n \in 1 .. n
      BY <2>1
    <3> QED
      BY <2>1, <2>2, <2>3, <2>7, <3>5, <3>6, <3>7 DEF BaseInv
  <2>8. CASE file[n].type = LINEAR
    <3>1. extended_address' = Number(file[n]) /\ base_address' = base_address
      BY <1>2, <2>0, <2>8 DEF ReadBase
    <3>2. Base(n + 1) = Number(file[n]) * 65536
      BY <2>0, <2>1, <2>8, BaseStep
    <3>3. Plain => \A k \in 1 .. Len(file) : file[k].type # SEGMENT
      BY <2>1, <2>8 DEF Plain
    <3>4. Plain => base_address = 0
      BY <2>4, <2>6, <3>3
    <3>5. Plain => base_address' * 16 + extended_address' * 65536 = Base(n + 1)
      BY <2>5, <3>1, <3>2, <3>4
    <3>6. (\A k \in 1 .. n : file[k].type # SEGMENT) => base_address' = 0
      BY <2>4, <2>6, <3>1
    <3>7. n \in 1 .. n
      BY <2>1
    <3> QED
      BY <2>1, <2>2, <2>3, <2>8, <3>5, <3>6, <3>7 DEF BaseInv
  <2> QED
    BY <2>1, <2>7, <2>8
<1>3. CASE ReadData
  <2>1. {DATA} \subseteq Octet \ {END, SEGMENT, LINEAR}
    BY DEF DATA, SEGMENT, LINEAR, END, Octet
  <2> QED
    BY <1>1, <1>3, <2>1 DEF ReadData
<1>4. CASE ReadStart
  <2>1. {START_SEGMENT, START_LINEAR} \subseteq Octet \ {END, SEGMENT, LINEAR}
    BY DEF START_SEGMENT, START_LINEAR, SEGMENT, LINEAR, END, Octet
  <2> QED
    BY <1>1, <1>4, <2>1 DEF ReadStart
<1>5. CASE Open \/ UNCHANGED hexVars
  <2>1. /\ UNCHANGED <<file, addr_bytes, n, base_address, extended_address>>
        /\ pc' \in {"open", "read"} => pc \in {"open", "read"}
        /\ pc' = "open" => pc = "open"
    BY <1>5 DEF Open, hexVars
  <2>2. Plain' = Plain /\ Base(n)' = Base(n)
    BY <2>1, FileStays
  <2> QED
    BY <2>1, <2>2 DEF BaseInv
<1>6. CASE OpenFails \/ ReadEnd \/ Refuse \/ Sort \/ Compact \/ Compacted \/ Undefined
  BY <1>6 DEF OpenFails, ReadEnd, Reads, Refuse, Sort, Compact, Compacted, Undefined, BaseInv
<1> QED
  BY <1>2, <1>3, <1>4, <1>5, <1>6 DEF HexNext

(* The element a line makes lies where the file says.                        *)
LEMMA NewElementIsLine ==
    ASSUME HexTypeOK, BaseInv, Plain, ReadData
    PROVE  /\ Start(NewElement) = First(n) /\ End(NewElement) = Beyond(n)
           /\ BytesOf(NewElement) = LineBytes(n) /\ Whole(NewElement)
           /\ n \in DataLines \ Taken
           /\ Taken' = Taken \cup {n}
<1>0. {DATA} \subseteq Octet \ {END}
  BY DEF DATA, END, Octet
<1>1. /\ n \in 1 .. Len(file) /\ n' = n + 1 /\ pc = "read" /\ file[n].type = DATA
      /\ \A k \in 1 .. n : file[k].type # END
  BY <1>0, ReadsNext DEF ReadData
<1>2. base_address * 16 + extended_address * 65536 = Base(n)
  BY <1>1 DEF BaseInv
<1>3. /\ NewElement.address = extended_address * 65536 + base_address * 16 + file[n].address
      /\ NewElement.data = file[n].data
  BY DEF NewElement
<1>4. NewElement.address = Base(n) + file[n].address
  <2>1. file[n].address \in Nat
    BY <1>1, LineFacts
  <2>2. base_address * 16 \in Nat /\ extended_address * 65536 \in Nat
    BY DEF HexTypeOK
  <2> QED
    BY <1>2, <1>3, <2>1, <2>2
<1>5. Start(NewElement) = First(n)
  BY <1>4 DEF Start, First
<1>6. End(NewElement) = Beyond(n) /\ BytesOf(NewElement) = LineBytes(n)
  BY <1>3, <1>5 DEF End, Beyond, BytesOf, LineBytes
<1>7. n \in DataLines
  BY <1>1 DEF DataLines
<1>8. Whole(NewElement)
  BY <1>3, <1>7 DEF Whole, Plain
<1>9. n \notin Taken
  BY <1>1 DEF Taken
<1>10. Taken' = Taken \cup {n}
  <2>1. UNCHANGED <<file, addr_bytes, pc>>
    BY DEF ReadData
  <2>2. Taken' = { k \in DataLines : k < n + 1 } /\ Taken = { k \in DataLines : k < n }
    BY <1>1, <2>1, FileStays DEF Taken
  <2>3. \A k \in DataLines : k < n + 1 <=> k < n \/ k = n
    BY <1>1, LineFacts
  <2> QED
    BY <1>7, <2>2, <2>3
<1> QED
  BY <1>5, <1>6, <1>7, <1>8, <1>9, <1>10

(* No other step of the reading takes a data line.                           *)
LEMMA OthersTakeNothing ==
    ASSUME HexTypeOK, BaseInv,
           Open \/ ReadBase \/ ReadStart \/ ReadEnd \/ Sort \/ Compact \/ Compacted \/ UNCHANGED hexVars
    PROVE  Taken' = Taken
<1> DEFINE read == { k \in DataLines : k < n }
<1>1. UNCHANGED <<file, addr_bytes>>
  BY DEF Open, ReadBase, ReadStart, ReadEnd, Sort, Compact, Compacted, hexVars
<1>2. DataLines' = DataLines
  BY <1>1, FileStays
<1>3. ASSUME NEW types, Reads(types), UNCHANGED pc, types \subseteq Octet \ {END, DATA}
      PROVE  Taken' = Taken
  <2>1. n \in 1 .. Len(file) /\ n' = n + 1 /\ pc = "read" /\ file[n].type # DATA
    BY <1>3, ReadsNext
  <2>2. n \notin DataLines
    BY <2>1 DEF DataLines
  <2>3. \A k \in DataLines : k < n + 1 <=> k < n
    BY <2>1, <2>2, LineFacts
  <2>4. Taken' = { k \in DataLines : k < n + 1 } /\ Taken = { k \in DataLines : k < n }
    BY <1>2, <1>3, <2>1 DEF Taken
  <2> QED
    BY <2>3, <2>4
<1>4. CASE Open
  <2>1. n = 1
    BY <1>4 DEF Open, BaseInv
  <2>2. Taken' = { k \in DataLines : k < 1 } /\ Taken = {}
    BY <1>2, <1>4, <2>1 DEF Open, Taken
  <2> QED
    BY <2>2, LineFacts
<1>5. CASE ReadBase
  <2>1. {SEGMENT, LINEAR} \subseteq Octet \ {END, DATA}
    BY DEF SEGMENT, LINEAR, END, DATA, Octet
  <2> QED
    BY <1>3, <1>5, <2>1 DEF ReadBase
<1>6. CASE ReadStart
  <2>1. {START_SEGMENT, START_LINEAR} \subseteq Octet \ {END, DATA}
    BY DEF START_SEGMENT, START_LINEAR, END, DATA, Octet
  <2> QED
    BY <1>3, <1>6, <2>1 DEF ReadStart
<1>7. CASE ReadEnd
  <2>1. pc = "read" /\ pc' = "sort"
    BY <1>7 DEF ReadEnd, Reads
  <2>2. Taken = { k \in DataLines : k < n } /\ Taken' = DataLines
    BY <1>2, <2>1 DEF Taken
  <2>3. CASE n = Len(file) + 1
    BY <2>2, <2>3, LineFacts
  <2>4. CASE Reads({END})
    <3>1. n \in 1 .. Len(file) /\ file[n].type = END
      BY <2>4, LineFacts DEF Reads, HexTypeOK
    <3>2. ASSUME NEW k \in DataLines PROVE k < n
      <4>1. k \in 1 .. Len(file) /\ \A j \in 1 .. k : file[j].type # END
        BY DEF DataLines
      <4>2. n \notin 1 .. k
        BY <3>1, <4>1
      <4> QED
        BY <3>1, <4>1, <4>2, LineFacts
    <3> QED
      BY <2>2, <3>2
  <2> QED
    BY <1>7, <2>3, <2>4 DEF ReadEnd
<1>8. CASE Sort \/ Compact \/ Compacted
  BY <1>2, <1>8 DEF Sort, Compact, Compacted, Taken
<1>9. CASE UNCHANGED hexVars
  BY <1>2, <1>9 DEF hexVars, Taken
<1> QED
  BY <1>4, <1>5, <1>6, <1>7, <1>8, <1>9

-----------------------------------------------------------------------------
(* The elements stay apart. *)
LEMMA LinesClear ==
    ASSUME HexTypeOK, Plain, NEW j \in DataLines, NEW k \in DataLines, j # k
    PROVE  Beyond(j) =< First(k) \/ Beyond(k) =< First(j)
<1>1. j \in Nat /\ k \in Nat
  BY LineFacts
<1>2. j < k \/ k < j
  BY <1>1
<1> QED
  BY <1>2 DEF Plain

LEMMA LineNotEmpty ==
    ASSUME HexTypeOK, Plain, NEW k \in DataLines
    PROVE  First(k) \in Nat /\ Beyond(k) \in Nat /\ First(k) < Beyond(k)
<1>1. k \in 1 .. Len(file) /\ Len(file[k].data) \in Nat
  BY LineFacts
<1>2. First(k) \in Nat /\ Beyond(k) \in Nat /\ Beyond(k) = First(k) + Len(file[k].data)
  BY <1>1, PlaceType
<1>3. Len(file[k].data) # 0
  BY DEF Plain
<1> QED
  BY <1>1, <1>2, <1>3

LEMMA ElementNotEmpty ==
    ASSUME HexTypeOK, NEW e \in Element, Whole(e)
    PROVE  Start(e) \in Nat /\ End(e) \in Nat /\ Start(e) < End(e)
<1>1. /\ Len(e.data) \in Nat /\ Start(e) \in Nat /\ End(e) \in Nat
      /\ End(e) = Start(e) + Len(e.data)
  BY ElementType
<1>2. Len(e.data) # 0
  BY DEF Whole
<1> QED
  BY <1>1, <1>2

(* What lies clear of two that meet lies clear of both joined.               *)
LEMMA JoinedClear ==
    ASSUME HexTypeOK, NEW e1 \in Element, NEW e2 \in Element, NEW e \in Element,
           Whole(e), End(e1) = Start(e2), Clear(e, e1), Clear(e, e2)
    PROVE  Clear(e, Joined(e1, e2)) /\ Clear(Joined(e1, e2), e)
<1>1. /\ Start(Joined(e1, e2)) = Start(e1) /\ End(Joined(e1, e2)) = End(e2)
  BY JoinedElement
<1>2. Start(e) \in Nat /\ End(e) \in Nat /\ Start(e) < End(e)
  BY ElementNotEmpty
<1>3. Start(e1) \in Nat /\ End(e1) \in Nat /\ End(e2) \in Nat
  BY ElementType
<1>4. End(e) =< Start(e1) \/ End(e2) =< Start(e)
  BY <1>2, <1>3 DEF Clear
<1> QED
  BY <1>1, <1>4 DEF Clear

LEMMA JoinedClearOfLine ==
    ASSUME HexTypeOK, Plain, NEW e1 \in Element, NEW e2 \in Element, NEW k \in DataLines,
           End(e1) = Start(e2), ClearOfLine(e1, k), ClearOfLine(e2, k)
    PROVE  ClearOfLine(Joined(e1, e2), k)
<1>1. /\ Start(Joined(e1, e2)) = Start(e1) /\ End(Joined(e1, e2)) = End(e2)
  BY JoinedElement
<1>2. First(k) \in Nat /\ Beyond(k) \in Nat /\ First(k) < Beyond(k)
  BY LineNotEmpty
<1>3. Start(e1) \in Nat /\ End(e1) \in Nat /\ End(e2) \in Nat
  BY ElementType
<1> QED
  BY <1>1, <1>2, <1>3 DEF ClearOfLine

LEMMA ClearSymmetric ==
    ASSUME NEW e1, NEW e2, Clear(e1, e2)
    PROVE  Clear(e2, e1)
  BY DEF Clear

LEMMA ReadDataSeparate ==
    ASSUME HexTypeOK, BaseInv, Plain, ReadData, Separate(m_pElements, Left)
    PROVE  Separate(m_pElements', Left \ {n})
<1> DEFINE m == m_pElements
           e == NewElement
           last == Len(m)
<1>1. /\ e \in Element /\ m' \in Seq(Element) /\ m \in Seq(Element) /\ last \in Nat
      /\ JoinsLast \/ Appends
  BY ReadDataDoes DEF HexTypeOK
<1>2. /\ Start(e) = First(n) /\ End(e) = Beyond(n) /\ Whole(e) /\ n \in Left
      /\ Left \subseteq DataLines
  BY NewElementIsLine DEF Left
<1>3. ASSUME NEW x \in 1 .. last
      PROVE  m[x] \in Element /\ Whole(m[x]) /\ Clear(m[x], e) /\ Clear(e, m[x])
  <2>1. m[x] \in Element /\ Whole(m[x]) /\ ClearOfLine(m[x], n)
    BY <1>1, <1>2 DEF Separate
  <2> QED
    BY <1>2, <2>1 DEF ClearOfLine, Clear
<1>4. ASSUME NEW k \in Left \ {n}
      PROVE  ClearOfLine(e, k)
  BY <1>2, LinesClear DEF ClearOfLine
<1>5. ASSUME NEW x \in 1 .. last, NEW k \in Left \ {n}
      PROVE  ClearOfLine(m[x], k)
  BY DEF Separate
<1>6. \A x, y \in 1 .. last : x # y => Clear(m[x], m[y])
  BY DEF Separate
<1>7. CASE Appends
  <2>1. /\ Len(m') = last + 1 /\ m'[last + 1] = e
        /\ \A x \in 1 .. last : m'[x] = m[x]
    BY <1>7 DEF Appends
  <2>2. \A x \in 1 .. last + 1 : x \in 1 .. last \/ x = last + 1
    BY <1>1
  <2>3. \A x \in 1 .. last + 1 : Whole(m'[x])
    BY <1>2, <1>3, <2>1, <2>2
  <2>4. \A x, y \in 1 .. last + 1 : x # y => Clear(m'[x], m'[y])
    BY <1>3, <1>6, <2>1, <2>2
  <2>5. \A x \in 1 .. last + 1, k \in Left \ {n} : ClearOfLine(m'[x], k)
    BY <1>4, <1>5, <2>1, <2>2
  <2> QED
    BY <2>1, <2>3, <2>4, <2>5 DEF Separate
<1>8. CASE JoinsLast
  <2> DEFINE f == m[last]
             g == Joined(f, e)
  <2>1. /\ last \in 1 .. last /\ Follows(f, e, addr_bytes)
        /\ Len(m') = last /\ m'[last] = g
        /\ \A x \in 1 .. last - 1 : m'[x] = m[x]
    BY <1>1, <1>8 DEF JoinsLast
  <2>2. f \in Element /\ Whole(f)
    BY <1>3, <2>1
  <2>3. End(f) = Start(e)
    BY <1>1, <2>1, <2>2, FollowsMeets
  <2>4. Whole(g)
    BY <1>1, <1>2, <2>2, JoinedWhole
  <2>5. \A x \in 1 .. last : x \in 1 .. last - 1 \/ x = last
    BY <1>1
  <2>6. \A x \in 1 .. last - 1 : x \in 1 .. last /\ x # last
    BY <1>1
  <2>7. ASSUME NEW x \in 1 .. last - 1
        PROVE  Clear(m[x], g) /\ Clear(g, m[x])
    <3>1. m[x] \in Element /\ Whole(m[x]) /\ Clear(m[x], f) /\ Clear(m[x], e)
      BY <1>3, <1>6, <2>1, <2>6
    <3> QED
      BY <1>1, <2>2, <2>3, <3>1, JoinedClear
  <2>8. ASSUME NEW k \in Left \ {n}
        PROVE  ClearOfLine(g, k)
    <3>1. ClearOfLine(f, k) /\ ClearOfLine(e, k) /\ k \in DataLines
      BY <1>2, <1>4, <1>5, <2>1
    <3> QED
      BY <1>1, <2>2, <2>3, <3>1, JoinedClearOfLine
  <2> HIDE DEF f, g
  <2>9. \A x \in 1 .. last : Whole(m'[x])
    BY <1>3, <2>1, <2>4, <2>5, <2>6
  <2>10. \A x, y \in 1 .. last : x # y => Clear(m'[x], m'[y])
    BY <1>6, <2>1, <2>5, <2>6, <2>7
  <2>11. \A x \in 1 .. last, k \in Left \ {n} : ClearOfLine(m'[x], k)
    BY <1>5, <2>1, <2>5, <2>6, <2>8
  <2> QED
    BY <2>1, <2>9, <2>10, <2>11 DEF Separate
<1> QED
  BY <1>1, <1>7, <1>8

LEMMA SortSeparate ==
    ASSUME HexTypeOK, Sort, NEW left, Separate(m_pElements, left)
    PROVE  Separate(m_pElements', left)
<1> DEFINE P == 1 .. Len(m_pElements)
<1>1. PICK p \in [P -> P] :
         /\ \A x, y \in P : p[x] = p[y] => x = y
         /\ \A x \in P : m_pElements'[x] = m_pElements[p[x]]
  BY SortDoes
<1>2. Len(m_pElements') = Len(m_pElements)
  BY SortDoes
<1>3. \A x \in P : p[x] \in P
  OBVIOUS
<1> QED
  BY <1>1, <1>2, <1>3 DEF Separate

(* In the sorted list, an element ends before the next begins.               *)
LEMMA SortedMeets ==
    ASSUME HexTypeOK, NEW left, Separate(m_pElements, left), Sorted(m_pElements),
           NEW x \in 1 .. Len(m_pElements), NEW y \in 1 .. Len(m_pElements), x < y
    PROVE  /\ m_pElements[x] \in Element /\ m_pElements[y] \in Element
           /\ Whole(m_pElements[x]) /\ Whole(m_pElements[y])
           /\ End(m_pElements[x]) =< Start(m_pElements[y])
<1> DEFINE e == m_pElements[x]
           f == m_pElements[y]
<1>1. e \in Element /\ f \in Element /\ e.address =< f.address
  BY DEF HexTypeOK, Sorted
<1>2. Whole(e) /\ Whole(f) /\ Clear(e, f)
  BY DEF Separate
<1>3. Start(e) =< Start(f)
  <2>1. e.address \in Nat /\ f.address \in Nat
    BY <1>1, ElementType
  <2>2. addr_bytes = 1 \/ addr_bytes = 2
    BY DEF HexTypeOK, SINGLE_BYTE, DOUBLE_BYTE
  <2> DEFINE a == e.address
             b == f.address
  <2>3. Start(e) = a * addr_bytes /\ Start(f) = b * addr_bytes
    BY DEF Start
  <2>4. a \in Nat /\ b \in Nat /\ a =< b
    BY <1>1, <2>1
  <2> HIDE DEF a, b
  <2> QED
    BY <2>2, <2>3, <2>4
<1>4. /\ Start(e) \in Nat /\ Start(f) \in Nat /\ End(e) \in Nat /\ End(f) \in Nat
      /\ Start(f) < End(f)
  BY <1>1, <1>2, ElementNotEmpty
<1>5. End(e) =< Start(f)
  BY <1>2, <1>3, <1>4 DEF Clear
<1> QED
  BY <1>1, <1>2, <1>5

LEMMA CompactSeparate ==
    ASSUME HexTypeOK, Plain, Compact, Separate(m_pElements, Left), Sorted(m_pElements)
    PROVE  Separate(m_pElements', Left) /\ Sorted(m_pElements')
<1> DEFINE m == m_pElements
           size == Len(m)
           e1 == m[n]
           e2 == m[n + 1]
           g == Joined(e1, e2)
<1>1. /\ n \in 1 .. size - 1 /\ n \in Nat /\ size \in Nat
      /\ n \in 1 .. size /\ n + 1 \in 1 .. size /\ n < n + 1
      /\ m' \in Seq(Element)
      /\ JoinsNext \/ UNCHANGED m
  BY CompactDoes DEF HexTypeOK
<1>2. CASE UNCHANGED m
  BY <1>2
<1>3. CASE JoinsNext
  <2>1. e1 \in Element /\ e2 \in Element /\ Whole(e1) /\ Whole(e2) /\ End(e1) =< Start(e2)
    BY <1>1, SortedMeets
  <2>2. /\ Follows(e1, e2, 2) /\ Len(m') = size - 1
        /\ \A x \in 1 .. size - 1 :
              m'[x] = IF x < n THEN m[x] ELSE IF x = n THEN g ELSE m[x + 1]
    BY <1>3 DEF JoinsNext
  <2>3. End(e1) = Start(e2)
    BY <2>1, <2>2, WordsMeet
  <2>4. g \in Element /\ Whole(g)
    BY <2>1, JoinedElement, JoinedWhole
  <2>5. \A x \in 1 .. size : m[x] \in Element /\ Whole(m[x])
    BY DEF HexTypeOK, Separate
  <2>6. \A x, y \in 1 .. size : x # y => Clear(m[x], m[y])
    BY DEF Separate
  <2>7. ASSUME NEW x \in 1 .. size, x # n, x # n + 1
        PROVE  Clear(m[x], g) /\ Clear(g, m[x])
    <3>1. m[x] \in Element /\ Whole(m[x]) /\ Clear(m[x], e1) /\ Clear(m[x], e2)
      BY <1>1, <2>5, <2>6, <2>7
    <3> QED
      BY <2>1, <2>3, <3>1, JoinedClear
  <2> DEFINE at(x) == IF x =< n THEN x ELSE x + 1
  <2>8. \A x \in 1 .. size - 1 : /\ at(x) \in 1 .. size /\ at(x) # n + 1
                                 /\ (at(x) = n <=> x = n)
                                 /\ m'[x] = IF x = n THEN g ELSE m[at(x)]
    BY <1>1, <2>2
  <2>9. \A x, y \in 1 .. size - 1 : (x # y => at(x) # at(y)) /\ (x < y => at(x) < at(y))
    BY <1>1
  <2>10. \A k \in Left : ClearOfLine(g, k)
    <3> SUFFICES ASSUME NEW k \in Left PROVE ClearOfLine(g, k)
      OBVIOUS
    <3>1. k \in DataLines /\ ClearOfLine(e1, k) /\ ClearOfLine(e2, k)
      BY <1>1 DEF Left, Separate
    <3> QED
      BY <2>1, <2>3, <3>1, JoinedClearOfLine
  <2>11. \A x \in 1 .. size, k \in Left : ClearOfLine(m[x], k)
    BY DEF Separate
  <2>12. g.address = e1.address
    BY DEF Joined
  <2>13. \A x, y \in 1 .. size : x < y => m[x].address =< m[y].address
    BY DEF Sorted
  <2> HIDE DEF at, g, e1, e2, size
  <2>14. \A x \in 1 .. size - 1 : Whole(m'[x])
    BY <2>4, <2>5, <2>8
  <2>15. \A x, y \in 1 .. size - 1 : x # y => Clear(m'[x], m'[y])
    BY <2>6, <2>7, <2>8, <2>9
  <2>16. \A x \in 1 .. size - 1, k \in Left : ClearOfLine(m'[x], k)
    BY <2>8, <2>10, <2>11
  <2>17. \A x \in 1 .. size - 1 : m'[x].address = m[at(x)].address
    BY <2>8, <2>12 DEF e1
  <2>18. \A x, y \in 1 .. size - 1 : x < y => m'[x].address =< m'[y].address
    BY <2>8, <2>9, <2>13, <2>17
  <2> QED
    BY <2>2, <2>14, <2>15, <2>16, <2>18 DEF Separate, Sorted
<1> QED
  BY <1>1, <1>2, <1>3

LEMMA SameFile ==
    ASSUME [HexNext]_hexVars
    PROVE  UNCHANGED <<file, addr_bytes>>
<1>1. CASE ReadData
  BY <1>1 DEF ReadData
<1>2. CASE Sort
  BY <1>2 DEF Sort
<1>3. CASE Compact
  BY <1>3 DEF Compact
<1>4. CASE Open \/ OpenFails \/ ReadBase \/ ReadStart \/ ReadEnd \/ Refuse
  BY <1>4 DEF Open, OpenFails, ReadBase, ReadStart, ReadEnd, Refuse
<1>5. CASE Compacted \/ Undefined \/ UNCHANGED hexVars
  BY <1>5 DEF Compacted, Undefined, hexVars
<1> QED
  BY <1>1, <1>2, <1>3, <1>4, <1>5 DEF HexNext

LEMMA ElementsInit == HexInit => ElementsInv
  BY DEF HexInit, ElementsInv, Separate

LEMMA ElementsNext == HexTypeOK /\ BaseInv /\ ElementsInv /\ [HexNext]_hexVars => ElementsInv'
<1> SUFFICES ASSUME HexTypeOK, BaseInv, ElementsInv, [HexNext]_hexVars, Plain', Keeps'
             PROVE  /\ Separate(m_pElements, Left)'
                    /\ (pc = "compact" => Sorted(m_pElements))'
  BY DEF ElementsInv
<1>1. UNCHANGED <<file, addr_bytes>>
  BY SameFile
<1>2. DataLines' = DataLines /\ Plain
  BY <1>1, FileStays
<1>3. ASSUME NEW elements, NEW left, m_pElements' = elements, Left' = left
      PROVE  Separate(m_pElements, Left)' <=> Separate(elements, left)
  BY <1>1, <1>3, FileStays
<1>4. CASE ReadData
  <2>1. Separate(m_pElements, Left) /\ pc' # "compact"
    BY <1>2, <1>4 DEF ElementsInv, Keeps, ReadData, Reads
  <2>2. Left' = Left \ {n}
    BY <1>2, <1>4, NewElementIsLine DEF Left
  <2>3. Separate(m_pElements', Left \ {n})
    BY <1>2, <1>4, <2>1, ReadDataSeparate
  <2> QED
    BY <1>3, <2>1, <2>2, <2>3
<1>5. CASE Sort
  <2>1. Separate(m_pElements, Left)
    BY <1>2, <1>5 DEF ElementsInv, Keeps, Sort
  <2>2. Left' = Left
    BY <1>2, <1>5, OthersTakeNothing DEF Left
  <2>3. Separate(m_pElements', Left) /\ Sorted(m_pElements')
    BY <1>5, <2>1, SortSeparate DEF Sort
  <2> QED
    BY <1>3, <2>2, <2>3 DEF Sorted
<1>6. CASE Compact
  <2>1. Separate(m_pElements, Left) /\ Sorted(m_pElements)
    BY <1>2, <1>6 DEF ElementsInv, Keeps, Compact
  <2>2. Left' = Left
    BY <1>2, <1>6, OthersTakeNothing DEF Left
  <2>3. Separate(m_pElements', Left) /\ Sorted(m_pElements')
    BY <1>2, <1>6, <2>1, CompactSeparate
  <2> QED
    BY <1>3, <2>2, <2>3 DEF Sorted
<1>7. CASE Open \/ ReadBase \/ ReadStart \/ ReadEnd \/ Compacted \/ UNCHANGED hexVars
  <2>1. /\ UNCHANGED m_pElements /\ Keeps
        /\ pc' = "compact" => pc = "compact"
    BY <1>7 DEF Open, ReadBase, ReadStart, ReadEnd, Reads, Compacted, hexVars, Keeps
  <2>2. Left' = Left
    BY <1>2, <1>7, OthersTakeNothing DEF Left
  <2> QED
    BY <1>2, <1>3, <2>1, <2>2 DEF ElementsInv, Sorted
<1>8. CASE OpenFails \/ Refuse \/ Undefined
  BY <1>8 DEF OpenFails, Refuse, Undefined, Keeps
<1> QED
  BY <1>4, <1>5, <1>6, <1>7, <1>8 DEF HexNext

-----------------------------------------------------------------------------
(* The bytes of the elements are those of the lines that were taken.         *)
LEMMA LineBytesCount ==
    ASSUME HexTypeOK, NEW k \in 1 .. Len(file)
    PROVE  IsFiniteSet(LineBytes(k)) /\ Cardinality(LineBytes(k)) = Len(file[k].data)
<1> DEFINE l == Len(file[k].data)
           a == First(k)
           f == [i \in 1 .. l |-> <<a + i - 1, file[k].data[i]>>]
<1>1. l \in Nat /\ a \in Nat
  BY LineFacts, PlaceType
<1>2. LineBytes(k) = { <<a + i - 1, file[k].data[i]>> : i \in 1 .. l }
  BY DEF LineBytes
<1> HIDE DEF l, a
<1>3. f \in [1 .. l -> LineBytes(k)]
  BY <1>2
<1>4. \A i, j \in 1 .. l : f[i] = f[j] => i = j
  <2> SUFFICES ASSUME NEW i \in 1 .. l, NEW j \in 1 .. l, f[i] = f[j] PROVE i = j
    OBVIOUS
  <2>1. a + i - 1 = a + j - 1
    OBVIOUS
  <2> QED
    BY <1>1, <2>1
<1>5. \A b \in LineBytes(k) : \E i \in 1 .. l : f[i] = b
  BY <1>2
<1> HIDE DEF f
<1>6. f \in Bijection(1 .. l, LineBytes(k))
  BY <1>3, <1>4, <1>5 DEF Bijection, Injection, Surjection, IsInjective
<1>7. ExistsBijection(1 .. l, LineBytes(k))
  BY <1>6 DEF ExistsBijection
<1>8. IsFiniteSet(1 .. l) /\ Cardinality(1 .. l) = l
  BY <1>1, FS_Interval
<1>9. IsFiniteSet(LineBytes(k)) /\ Cardinality(LineBytes(k)) = l
  BY <1>7, <1>8, FS_Bijection
<1> QED
  BY <1>9 DEF l

LEMMA ClearBytes ==
    ASSUME HexTypeOK, NEW e \in Element, NEW k \in 1 .. Len(file), ClearOfLine(e, k)
    PROVE  BytesOf(e) \cap LineBytes(k) = {}
<1> DEFINE s == Start(e)
           f == First(k)
           l == Len(e.data)
           m == Len(file[k].data)
<1>1. s \in Nat /\ f \in Nat /\ l \in Nat /\ m \in Nat /\ End(e) = s + l /\ Beyond(k) = f + m
  BY ElementType, PlaceType, LineFacts
<1>2. s + l =< f \/ f + m =< s
  BY <1>1 DEF ClearOfLine
<1>3. /\ BytesOf(e) = { <<s + i - 1, e.data[i]>> : i \in 1 .. l }
      /\ LineBytes(k) = { <<f + i - 1, file[k].data[i]>> : i \in 1 .. m }
  BY DEF BytesOf, LineBytes
<1> HIDE DEF s, f, l, m
<1>4. ASSUME NEW i \in 1 .. l, NEW j \in 1 .. m
      PROVE  s + i - 1 # f + j - 1
  BY <1>1, <1>2
<1>5. ASSUME NEW i \in 1 .. l, NEW j \in 1 .. m,
             <<s + i - 1, e.data[i]>> = <<f + j - 1, file[k].data[j]>>
      PROVE  FALSE
  BY <1>4, <1>5
<1> QED
  BY <1>3, <1>5

LEMMA ReadDataBytes ==
    ASSUME HexTypeOK, BaseInv, Plain, ReadData, Separate(m_pElements, Left)
    PROVE  Bytes(m_pElements') = Bytes(m_pElements) \cup LineBytes(n)
<1> DEFINE m == m_pElements
           e == NewElement
           last == Len(m)
<1>1. /\ e \in Element /\ m \in Seq(Element) /\ last \in Nat
      /\ JoinsLast \/ Appends
  BY ReadDataDoes DEF HexTypeOK
<1>2. BytesOf(e) = LineBytes(n)
  BY NewElementIsLine
<1>3. CASE Appends
  <2>1. /\ Len(m') = last + 1 /\ m'[last + 1] = e
        /\ \A x \in 1 .. last : m'[x] = m[x]
    BY <1>3 DEF Appends
  <2>2. \A x : x \in 1 .. last + 1 <=> (x \in 1 .. last \/ x = last + 1)
    BY <1>1
  <2>3. \A b : b \in Bytes(m') <=> \E x \in 1 .. last + 1 : b \in BytesOf(m'[x])
    BY <2>1 DEF Bytes
  <2>4. \A b : b \in Bytes(m) <=> \E x \in 1 .. last : b \in BytesOf(m[x])
    BY DEF Bytes
  <2> QED
    BY <1>2, <2>1, <2>2, <2>3, <2>4
<1>4. CASE JoinsLast
  <2> DEFINE f == m[last]
             g == Joined(f, e)
  <2>1. /\ last \in 1 .. last /\ Follows(f, e, addr_bytes)
        /\ Len(m') = last /\ m'[last] = g
        /\ \A x \in 1 .. last - 1 : m'[x] = m[x]
    BY <1>1, <1>4 DEF JoinsLast
  <2>2. f \in Element /\ Whole(f)
    BY <1>1, <2>1 DEF Separate
  <2>3. End(f) = Start(e)
    BY <1>1, <2>1, <2>2, FollowsMeets
  <2>4. BytesOf(g) = BytesOf(f) \cup BytesOf(e)
    BY <1>1, <2>2, <2>3, JoinedBytes
  <2>5. \A x : x \in 1 .. last <=> (x \in 1 .. last - 1 \/ x = last)
    BY <1>1, <2>1
  <2>6. \A b : b \in Bytes(m') <=> \E x \in 1 .. last : b \in BytesOf(m'[x])
    BY <2>1 DEF Bytes
  <2>7. \A b : b \in Bytes(m) <=> \E x \in 1 .. last : b \in BytesOf(m[x])
    BY DEF Bytes
  <2> HIDE DEF f, g
  <2>8. BytesOf(m'[last]) = BytesOf(m[last]) \cup LineBytes(n)
    BY <1>2, <2>1, <2>4 DEF f
  <2>9. ASSUME NEW b \in Bytes(m')
        PROVE  b \in Bytes(m) \cup LineBytes(n)
    <3>1. PICK x \in 1 .. last : b \in BytesOf(m'[x])
      BY <2>6
    <3> QED
      BY <2>1, <2>5, <2>7, <2>8, <3>1
  <2>10. ASSUME NEW b \in Bytes(m)
         PROVE  b \in Bytes(m')
    <3>1. PICK x \in 1 .. last : b \in BytesOf(m[x])
      BY <2>7
    <3> QED
      BY <2>1, <2>5, <2>6, <2>8, <3>1
  <2>11. ASSUME NEW b \in LineBytes(n)
         PROVE  b \in Bytes(m')
    BY <2>1, <2>6, <2>8
  <2> QED
    BY <2>9, <2>10, <2>11
<1> QED
  BY <1>1, <1>3, <1>4

LEMMA SortBytes ==
    ASSUME HexTypeOK, Sort
    PROVE  Bytes(m_pElements') = Bytes(m_pElements)
<1> DEFINE P == 1 .. Len(m_pElements)
<1>1. PICK p \in [P -> P] :
         /\ \A y \in P : \E x \in P : p[x] = y
         /\ \A x \in P : m_pElements'[x] = m_pElements[p[x]]
  BY SortDoes
<1>2. Len(m_pElements') = Len(m_pElements)
  BY SortDoes
<1>3. \A b : b \in Bytes(m_pElements') <=> \E x \in P : b \in BytesOf(m_pElements'[x])
  BY <1>2 DEF Bytes
<1>4. \A b : b \in Bytes(m_pElements) <=> \E x \in P : b \in BytesOf(m_pElements[x])
  BY DEF Bytes
<1>5. \A x \in P : p[x] \in P
  OBVIOUS
<1> HIDE DEF P
<1>6. ASSUME NEW b \in Bytes(m_pElements')
      PROVE  b \in Bytes(m_pElements)
  <2>1. PICK x \in P : b \in BytesOf(m_pElements'[x])
    BY <1>3
  <2> QED
    BY <1>1, <1>4, <1>5, <2>1
<1>7. ASSUME NEW b \in Bytes(m_pElements)
      PROVE  b \in Bytes(m_pElements')
  <2>1. PICK y \in P : b \in BytesOf(m_pElements[y])
    BY <1>4
  <2>2. PICK x \in P : p[x] = y
    BY <1>1
  <2> QED
    BY <1>1, <1>3, <2>1, <2>2
<1> QED
  BY <1>6, <1>7

LEMMA CompactBytes ==
    ASSUME HexTypeOK, Plain, Compact, Separate(m_pElements, Left), Sorted(m_pElements)
    PROVE  Bytes(m_pElements') = Bytes(m_pElements)
<1> DEFINE m == m_pElements
           size == Len(m)
           e1 == m[n]
           e2 == m[n + 1]
           g == Joined(e1, e2)
<1>1. /\ n \in 1 .. size - 1 /\ n \in Nat /\ size \in Nat
      /\ n \in 1 .. size /\ n + 1 \in 1 .. size /\ n < n + 1
      /\ JoinsNext \/ UNCHANGED m
  BY CompactDoes DEF HexTypeOK
<1>2. CASE UNCHANGED m
  BY <1>2
<1>3. CASE JoinsNext
  <2>1. e1 \in Element /\ e2 \in Element /\ Whole(e1) /\ End(e1) =< Start(e2)
    BY <1>1, SortedMeets
  <2>2. /\ Follows(e1, e2, 2) /\ Len(m') = size - 1
        /\ \A x \in 1 .. size - 1 :
              m'[x] = IF x < n THEN m[x] ELSE IF x = n THEN g ELSE m[x + 1]
    BY <1>3 DEF JoinsNext
  <2>3. BytesOf(g) = BytesOf(e1) \cup BytesOf(e2)
    <3>1. End(e1) = Start(e2)
      BY <2>1, <2>2, WordsMeet
    <3> QED
      BY <2>1, <3>1, JoinedBytes
  <2>4. \A b : b \in Bytes(m') <=> \E x \in 1 .. size - 1 : b \in BytesOf(m'[x])
    BY <2>2 DEF Bytes
  <2>5. \A b : b \in Bytes(m) <=> \E x \in 1 .. size : b \in BytesOf(m[x])
    BY DEF Bytes
  <2> HIDE DEF g, size
  <2>6. ASSUME NEW b \in Bytes(m')
        PROVE  b \in Bytes(m)
    <3>1. PICK x \in 1 .. size - 1 : b \in BytesOf(m'[x])
      BY <2>4
    <3>2. x \in 1 .. size /\ x + 1 \in 1 .. size
      BY <1>1
    <3>3. CASE x < n
      BY <2>2, <2>5, <3>1, <3>2, <3>3
    <3>4. CASE x = n
      <4>1. b \in BytesOf(e1) \/ b \in BytesOf(e2)
        BY <2>2, <2>3, <3>1, <3>4
      <4> QED
        BY <1>1, <2>5, <4>1
    <3>5. CASE x > n
      <4>1. m'[x] = m[x + 1]
        BY <1>1, <2>2, <3>5
      <4> QED
        BY <2>5, <3>1, <3>2, <4>1
    <3> QED
      BY <1>1, <3>3, <3>4, <3>5
  <2>7. ASSUME NEW b \in Bytes(m)
        PROVE  b \in Bytes(m')
    <3>1. PICK x \in 1 .. size : b \in BytesOf(m[x])
      BY <2>5
    <3>2. CASE x < n
      <4>1. x \in 1 .. size - 1 /\ m'[x] = m[x]
        BY <1>1, <2>2, <3>2
      <4> QED
        BY <2>4, <3>1, <4>1
    <3>3. CASE x = n \/ x = n + 1
      <4>1. b \in BytesOf(g)
        BY <2>3, <3>1, <3>3
      <4>2. m'[n] = g
        BY <1>1, <2>2
      <4> QED
        BY <1>1, <2>4, <4>1, <4>2
    <3>4. CASE x > n + 1
      <4>1. x - 1 \in 1 .. size - 1 /\ ~ x - 1 < n /\ x - 1 # n /\ (x - 1) + 1 = x
        BY <1>1, <3>4
      <4>2. m'[x - 1] = m[x]
        BY <2>2, <4>1
      <4> QED
        BY <2>4, <3>1, <4>1, <4>2
    <3> QED
      BY <1>1, <3>2, <3>3, <3>4
  <2> QED
    BY <2>6, <2>7
<1> QED
  BY <1>1, <1>2, <1>3

LEMMA BytesInit == HexInit => BytesInv
<1> SUFFICES ASSUME HexInit PROVE BytesInv
  OBVIOUS
<1>1. BytesTaken = {} /\ Bytes(m_pElements) = {} /\ m_DataSize = 0
  BY DEF HexInit, BytesTaken, Taken, Bytes
<1> QED
  BY <1>1, FS_EmptySet DEF BytesInv

LEMMA BytesNext ==
    HexTypeOK /\ BaseInv /\ ElementsInv /\ BytesInv /\ [HexNext]_hexVars => BytesInv'
<1> SUFFICES ASSUME HexTypeOK, BaseInv, ElementsInv, BytesInv, [HexNext]_hexVars, Plain', Keeps'
             PROVE  /\ Bytes(m_pElements)' = BytesTaken'
                    /\ IsFiniteSet(BytesTaken') /\ m_DataSize' = Cardinality(BytesTaken')
  BY DEF BytesInv
<1>1. UNCHANGED <<file, addr_bytes>>
  BY SameFile
<1>2. Plain /\ \A k : LineBytes(k)' = LineBytes(k)
  BY <1>1, FileStays
<1>3. ASSUME NEW elements, m_pElements' = elements
      PROVE  Bytes(m_pElements)' = Bytes(elements)
  BY <1>1, <1>3, FileStays
<1>4. BytesTaken' = UNION { LineBytes(k) : k \in Taken' }
  BY <1>2 DEF BytesTaken
<1>5. ASSUME Taken' = Taken
      PROVE  BytesTaken' = BytesTaken
  BY <1>4, <1>5 DEF BytesTaken
<1>6. CASE ReadData
  <2> DEFINE new == LineBytes(n)
  <2>1. /\ Separate(m_pElements, Left) /\ Bytes(m_pElements) = BytesTaken
        /\ IsFiniteSet(BytesTaken) /\ m_DataSize = Cardinality(BytesTaken)
    BY <1>2, <1>6 DEF ElementsInv, BytesInv, Keeps, ReadData, Reads
  <2>2. n \in 1 .. Len(file) /\ n \in Left /\ Taken' = Taken \cup {n}
    BY <1>2, <1>6, ReadDataDoes, NewElementIsLine DEF Left
  <2>3. BytesTaken' = BytesTaken \cup new
    BY <1>4, <2>2 DEF BytesTaken
  <2>4. Bytes(m_pElements') = Bytes(m_pElements) \cup new
    BY <1>2, <1>6, <2>1, ReadDataBytes
  <2>5. BytesTaken \cap new = {}
    <3>1. ASSUME NEW x \in 1 .. Len(m_pElements)
          PROVE  BytesOf(m_pElements[x]) \cap new = {}
      <4>1. m_pElements[x] \in Element /\ ClearOfLine(m_pElements[x], n)
        BY <2>1, <2>2 DEF Separate, HexTypeOK
      <4> QED
        BY <2>2, <4>1, ClearBytes
    <3>2. Bytes(m_pElements) \cap new = {}
      BY <3>1 DEF Bytes
    <3> QED
      BY <2>1, <3>2
  <2>6. IsFiniteSet(new) /\ Cardinality(new) = Len(file[n].data)
    BY <2>2, LineBytesCount
  <2> HIDE DEF new
  <2>7. Cardinality(BytesTaken \cap new) = 0
    BY <2>5, FS_EmptySet
  <2>8. /\ IsFiniteSet(BytesTaken \cup new)
        /\ Cardinality(BytesTaken \cup new)
             = Cardinality(BytesTaken) + Cardinality(new) - Cardinality(BytesTaken \cap new)
    BY <2>1, <2>6, FS_Union
  <2>9. m_DataSize' = m_DataSize + Len(file[n].data) /\ m_DataSize \in Nat /\ Len(file[n].data) \in Nat
    BY <1>6, <2>2, LineFacts DEF ReadData, HexTypeOK
  <2>10. m_DataSize' = Cardinality(BytesTaken')
    BY <2>1, <2>3, <2>6, <2>7, <2>8, <2>9
  <2> QED
    BY <1>3, <2>1, <2>3, <2>4, <2>8, <2>10
<1>7. ASSUME Open \/ ReadBase \/ ReadStart \/ ReadEnd \/ Sort \/ Compact \/ Compacted \/ UNCHANGED hexVars
      PROVE  /\ BytesTaken' = BytesTaken /\ UNCHANGED m_DataSize
             /\ Bytes(m_pElements) = BytesTaken
             /\ IsFiniteSet(BytesTaken) /\ m_DataSize = Cardinality(BytesTaken)
  <2>1. BytesTaken' = BytesTaken
    BY <1>5, <1>7, OthersTakeNothing
  <2>2. Keeps /\ UNCHANGED m_DataSize
    BY <1>7 DEF Open, ReadBase, ReadStart, ReadEnd, Reads, Sort, Compact, Compacted, hexVars, Keeps
  <2> QED
    BY <1>2, <2>1, <2>2 DEF BytesInv
<1>8. CASE Sort
  BY <1>3, <1>7, <1>8, SortBytes
<1>9. CASE Compact
  <2>1. Separate(m_pElements, Left) /\ Sorted(m_pElements)
    BY <1>2, <1>9 DEF ElementsInv, Keeps, Compact
  <2> QED
    BY <1>2, <1>3, <1>7, <1>9, <2>1, CompactBytes
<1>10. CASE Open \/ ReadBase \/ ReadStart \/ ReadEnd \/ Compacted \/ UNCHANGED hexVars
  <2>1. UNCHANGED m_pElements
    BY <1>10 DEF Open, ReadBase, ReadStart, ReadEnd, Compacted, hexVars
  <2> QED
    BY <1>3, <1>7, <1>10, <2>1
<1>11. CASE OpenFails \/ Refuse \/ Undefined
  BY <1>11 DEF OpenFails, Refuse, Undefined, Keeps
<1> QED
  BY <1>6, <1>8, <1>9, <1>10, <1>11 DEF HexNext

-----------------------------------------------------------------------------
(* Lines that ascend. *)
LEMMA LeftAscends ==
    ASSUME HexTypeOK, Plain, Ascending, pc = "read", n \in Left, NEW k \in Left \ {n}
    PROVE  First(n) < First(k) /\ Beyond(n) =< First(k)
<1>1. n \in DataLines /\ k \in DataLines /\ k # n /\ ~ k < n
  BY DEF Left, Taken
<1>2. n < k
  BY <1>1, LineFacts
<1>3. First(n) < First(k)
  BY <1>1, <1>2 DEF Ascending
<1>4. /\ First(n) \in Nat /\ First(k) \in Nat /\ Beyond(n) \in Nat /\ Beyond(k) \in Nat
      /\ First(k) < Beyond(k)
  BY <1>1, LineNotEmpty
<1>5. Beyond(n) =< First(k) \/ Beyond(k) =< First(n)
  BY <1>1, LinesClear
<1> QED
  BY <1>3, <1>4, <1>5

LEMMA ReadDataGap ==
    ASSUME HexTypeOK, BaseInv, ElementsInv, GapInv, Plain, Ascending, ReadData
    PROVE  /\ \A x, y \in 1 .. Len(m_pElements') :
                 x < y => Gap(m_pElements'[x], m_pElements'[y])
           /\ \A x \in 1 .. Len(m_pElements'), k \in Left \ {n} :
                 End(m_pElements'[x]) =< First(k)
<1> DEFINE m == m_pElements
           e == NewElement
           last == Len(m)
<1>1. /\ e \in Element /\ m \in Seq(Element) /\ last \in Nat /\ pc = "read"
      /\ JoinsLast \/ Appends
  BY ReadDataDoes DEF HexTypeOK
<1>2. /\ Start(e) = First(n) /\ End(e) = Beyond(n) /\ Whole(e) /\ n \in Left
  BY NewElementIsLine DEF Left
<1>3. Separate(m, Left)
  BY <1>1 DEF ElementsInv, Keeps
<1>4. /\ \A x, y \in 1 .. last : x < y => Gap(m[x], m[y])
      /\ \A x \in 1 .. last, k \in Left : End(m[x]) =< First(k)
  BY <1>1 DEF GapInv
<1>5. ASSUME NEW x \in 1 .. last
      PROVE  /\ m[x] \in Element /\ Whole(m[x])
             /\ Start(m[x]) \in Nat /\ End(m[x]) \in Nat /\ Start(m[x]) < End(m[x])
             /\ End(m[x]) =< Start(e)
  <2>1. m[x] \in Element /\ Whole(m[x])
    BY <1>1, <1>3 DEF Separate
  <2> QED
    BY <1>2, <1>4, <2>1, ElementNotEmpty
<1>6. Start(e) \in Nat
  BY <1>1, ElementType
<1>7. \A k \in Left \ {n} : End(e) =< First(k)
  BY <1>1, <1>2, LeftAscends
<1>8. CASE Appends
  <2>1. /\ Len(m') = last + 1 /\ m'[last + 1] = e
        /\ \A x \in 1 .. last : m'[x] = m[x]
        /\ last # 0 => ~ Follows(m[last], e, addr_bytes)
    BY <1>8 DEF Appends
  <2>2. ASSUME last # 0
        PROVE  Gap(m[last], e) /\ last \in 1 .. last
    <3>1. last \in 1 .. last
      BY <1>1, <2>2
    <3>2. End(m[last]) # Start(e)
      BY <1>1, <1>5, <2>1, <2>2, <3>1, FollowsMeets
    <3> QED
      BY <1>5, <1>6, <3>1, <3>2 DEF Gap
  <2>3. ASSUME NEW x \in 1 .. last
        PROVE  Gap(m[x], e)
    <3>1. CASE x = last
      BY <1>1, <2>2, <3>1
    <3>2. CASE x < last
      <4>1. last # 0 /\ last \in 1 .. last
        BY <1>1, <3>2
      <4>2. Gap(m[x], m[last])
        BY <1>4, <3>2, <4>1
      <4> QED
        BY <1>5, <1>6, <4>1, <4>2 DEF Gap
    <3> QED
      BY <1>1, <3>1, <3>2
  <2>4. \A x \in 1 .. last + 1 : x \in 1 .. last \/ x = last + 1
    BY <1>1
  <2>5. \A x, y \in 1 .. last + 1 : x < y => x \in 1 .. last
    BY <1>1
  <2>6. \A x, y \in 1 .. last + 1 : x < y => Gap(m'[x], m'[y])
    BY <1>4, <2>1, <2>3, <2>4, <2>5
  <2>7. \A x \in 1 .. last + 1, k \in Left \ {n} : End(m'[x]) =< First(k)
    BY <1>4, <1>7, <2>1, <2>4
  <2> QED
    BY <2>1, <2>6, <2>7
<1>9. CASE JoinsLast
  <2> DEFINE f == m[last]
             g == Joined(f, e)
  <2>1. /\ last \in 1 .. last /\ Follows(f, e, addr_bytes)
        /\ Len(m') = last /\ m'[last] = g
        /\ \A x \in 1 .. last - 1 : m'[x] = m[x]
    BY <1>1, <1>9 DEF JoinsLast
  <2>2. f \in Element /\ Whole(f)
    BY <1>5, <2>1
  <2>3. Start(g) = Start(f) /\ End(g) = End(e)
    BY <1>1, <2>1, <2>2, FollowsMeets, JoinedElement
  <2> HIDE DEF g
  <2>4. \A x \in 1 .. last : x \in 1 .. last - 1 \/ x = last
    BY <1>1
  <2>5. \A x \in 1 .. last - 1 : x \in 1 .. last /\ x < last
    BY <1>1
  <2>6. \A x, y \in 1 .. last : x < y => x \in 1 .. last - 1
    BY <1>1
  <2>7. \A x \in 1 .. last - 1 : Gap(m[x], g)
    BY <1>4, <2>1, <2>3, <2>5 DEF Gap
  <2>8. \A x, y \in 1 .. last : x < y => Gap(m'[x], m'[y])
    BY <1>4, <2>1, <2>4, <2>5, <2>6, <2>7
  <2>9. \A x \in 1 .. last, k \in Left \ {n} : End(m'[x]) =< First(k)
    BY <1>4, <1>7, <2>1, <2>3, <2>4, <2>5
  <2> QED
    BY <2>1, <2>8, <2>9
<1> QED
  BY <1>1, <1>8, <1>9

(* With gaps, CompactElements joins nothing.                                 *)
LEMMA CompactJoinsNothing ==
    ASSUME HexTypeOK, ElementsInv, GapInv, Plain, Ascending, Compact
    PROVE  UNCHANGED m_pElements /\ n' =< Len(m_pElements)
<1> DEFINE e1 == m_pElements[n]
           e2 == m_pElements[n + 1]
<1>1. /\ n \in 1 .. Len(m_pElements) - 1 /\ Len(m_pElements) \in Nat
      /\ n \in 1 .. Len(m_pElements) /\ n + 1 \in 1 .. Len(m_pElements) /\ n < n + 1
      /\ JoinsNext \/ UNCHANGED m_pElements
  BY CompactDoes DEF HexTypeOK
<1>2. Separate(m_pElements, Left) /\ Sorted(m_pElements) /\ pc = "compact"
  BY DEF ElementsInv, Keeps, Compact
<1>3. /\ e1 \in Element /\ e2 \in Element /\ Whole(e1) /\ Whole(e2)
      /\ End(e1) =< Start(e2)
  BY <1>1, <1>2, SortedMeets
<1>4. Gap(e1, e2) \/ Gap(e2, e1)
  BY <1>1, <1>2 DEF GapInv
<1>5. /\ Start(e1) \in Nat /\ End(e1) \in Nat /\ Start(e1) < End(e1)
      /\ Start(e2) \in Nat /\ End(e2) \in Nat /\ Start(e2) < End(e2)
  BY <1>3, ElementNotEmpty
<1>6. End(e1) # Start(e2)
  BY <1>3, <1>4, <1>5 DEF Gap
<1>7. ~ Follows(e1, e2, 2)
  BY <1>3, <1>6, WordsMeet
<1>8. UNCHANGED m_pElements
  BY <1>1, <1>7 DEF JoinsNext
<1>9. n' = n + 1
  BY DEF Compact
<1> QED
  BY <1>1, <1>8, <1>9

LEMMA GapInit == HexInit => GapInv
  BY DEF HexInit, GapInv

LEMMA GapNext ==
    HexTypeOK /\ BaseInv /\ ElementsInv /\ BytesInv /\ GapInv /\ [HexNext]_hexVars => GapInv'
<1> DEFINE InOrder(elements, left) ==
      /\ \A x, y \in 1 .. Len(elements) : x < y => Gap(elements[x], elements[y])
      /\ \A x \in 1 .. Len(elements), k \in left : End(elements[x]) =< First(k)
<1> DEFINE Gaps(elements) ==
      \A x, y \in 1 .. Len(elements) :
          x # y => Gap(elements[x], elements[y]) \/ Gap(elements[y], elements[x])
<1> SUFFICES ASSUME HexTypeOK, BaseInv, ElementsInv, BytesInv, GapInv, [HexNext]_hexVars,
                    Plain', Ascending'
             PROVE  /\ pc' \in {"open", "read"} => InOrder(m_pElements, Left)'
                    /\ pc' \in {"sort", "compact"} => Gaps(m_pElements)'
                    /\ pc' = "compact" => n' =< Len(m_pElements') \/ m_pElements' = <<>>
                    /\ pc' = "undefined" => DataLines' = {}
  BY DEF GapInv
<1>1. UNCHANGED <<file, addr_bytes>>
  BY SameFile
<1>2. Plain /\ Ascending /\ DataLines' = DataLines
  BY <1>1, FileStays
<1>3. /\ pc \in {"open", "read"} => InOrder(m_pElements, Left)
      /\ pc \in {"sort", "compact"} => Gaps(m_pElements)
      /\ pc = "compact" => n =< Len(m_pElements) \/ m_pElements = <<>>
      /\ pc = "undefined" => DataLines = {}
  BY <1>2 DEF GapInv
<1>4. ASSUME NEW elements, NEW left, m_pElements' = elements, Left' = left
      PROVE  InOrder(m_pElements, Left)' <=> InOrder(elements, left)
  BY <1>1, <1>4, FileStays
<1>5. ASSUME NEW elements, m_pElements' = elements
      PROVE  Gaps(m_pElements)' <=> Gaps(elements)
  BY <1>1, <1>5, FileStays
<1>6. CASE ReadData
  <2>0. pc' = "read"
    BY <1>6 DEF ReadData, Reads
  <2>1. InOrder(m_pElements', Left \ {n})
    <3>1. /\ \A x, y \in 1 .. Len(m_pElements') : x < y => Gap(m_pElements'[x], m_pElements'[y])
          /\ \A x \in 1 .. Len(m_pElements'), k \in Left \ {n} : End(m_pElements'[x]) =< First(k)
      BY <1>2, <1>6, ReadDataGap
    <3> QED
      BY <3>1
  <2>2. Left' = Left \ {n}
    BY <1>2, <1>6, NewElementIsLine DEF Left
  <2> HIDE DEF InOrder, Gaps
  <2> QED
    BY <1>4, <2>0, <2>1, <2>2
<1>7. CASE Open \/ ReadBase \/ ReadStart
  <2>1. /\ UNCHANGED m_pElements /\ pc \in {"open", "read"}
        /\ pc' \notin {"sort", "compact", "undefined"}
    BY <1>7 DEF Open, ReadBase, ReadStart, Reads
  <2>2. Left' = Left
    BY <1>2, <1>7, OthersTakeNothing DEF Left
  <2> HIDE DEF InOrder, Gaps
  <2> QED
    BY <1>3, <1>4, <2>1, <2>2
<1>8. CASE ReadEnd
  <2>1. UNCHANGED m_pElements /\ pc = "read" /\ pc' = "sort"
    BY <1>8 DEF ReadEnd, Reads
  <2>2. Len(m_pElements) \in Nat
    BY DEF HexTypeOK
  <2>3. \A x, y \in 1 .. Len(m_pElements) : x # y => x < y \/ y < x
    BY <2>2
  <2>4. Gaps(m_pElements)
    BY <1>3, <2>1, <2>3
  <2> HIDE DEF InOrder, Gaps
  <2> QED
    BY <1>5, <2>1, <2>4
<1>9. CASE Sort
  <2>1. PICK p \in [1 .. Len(m_pElements) -> 1 .. Len(m_pElements)] :
           /\ \A x, y \in 1 .. Len(m_pElements) : p[x] = p[y] => x = y
           /\ \A x \in 1 .. Len(m_pElements) : m_pElements'[x] = m_pElements[p[x]]
    BY <1>9, SortDoes
  <2>2. /\ Len(m_pElements') = Len(m_pElements) /\ m_pElements' \in Seq(Element)
        /\ pc = "sort" /\ pc' = "compact" /\ n' = 1
    BY <1>9, SortDoes DEF Sort
  <2>3. Gaps(m_pElements')
    <3> SUFFICES ASSUME NEW x \in 1 .. Len(m_pElements), NEW y \in 1 .. Len(m_pElements), x # y
                 PROVE  \/ Gap(m_pElements'[x], m_pElements'[y])
                        \/ Gap(m_pElements'[y], m_pElements'[x])
      BY <2>2
    <3>1. /\ p[x] \in 1 .. Len(m_pElements) /\ p[y] \in 1 .. Len(m_pElements) /\ p[x] # p[y]
          /\ m_pElements'[x] = m_pElements[p[x]] /\ m_pElements'[y] = m_pElements[p[y]]
      BY <2>1
    <3>2. Gaps(m_pElements)
      BY <1>3, <2>2
    <3>3. \/ Gap(m_pElements[p[x]], m_pElements[p[y]])
          \/ Gap(m_pElements[p[y]], m_pElements[p[x]])
      BY <3>1, <3>2
    <3> QED
      BY <3>1, <3>3
  <2>4. 1 =< Len(m_pElements') \/ m_pElements' = <<>>
    BY <2>2, EmptySeq
  <2> HIDE DEF InOrder, Gaps
  <2> QED
    BY <1>5, <2>2, <2>3, <2>4
<1>10. CASE Compact
  <2>1. UNCHANGED m_pElements /\ n' =< Len(m_pElements) /\ pc = "compact" /\ pc' = "compact"
    BY <1>2, <1>10, CompactJoinsNothing DEF Compact
  <2> HIDE DEF InOrder, Gaps
  <2> QED
    BY <1>3, <1>5, <2>1
<1>11. CASE Undefined
  <2>1. /\ pc = "compact" /\ pc' = "undefined" /\ n # Len(m_pElements) /\ n >= Len(m_pElements)
    BY <1>11 DEF Undefined, AtLast
  <2>2. m_pElements = <<>>
    <3>1. n \in Nat /\ Len(m_pElements) \in Nat
      BY DEF HexTypeOK
    <3> QED
      BY <1>3, <2>1, <3>1
  <2>3. Bytes(m_pElements) = {}
    BY <2>2 DEF Bytes
  <2>4. BytesTaken = {} /\ Taken = DataLines
    BY <1>2, <2>1, <2>3 DEF BytesInv, Keeps, Taken
  <2>5. ASSUME NEW k \in DataLines PROVE FALSE
    <3>1. LineBytes(k) = {}
      BY <2>4 DEF BytesTaken
    <3>2. Len(file[k].data) \in Nat /\ Len(file[k].data) # 0
      BY <1>2, LineFacts DEF Plain
    <3>3. 1 \in 1 .. Len(file[k].data)
      BY <3>2
    <3>4. <<First(k) + 1 - 1, file[k].data[1]>> \in LineBytes(k)
      BY <3>3 DEF LineBytes
    <3> QED
      BY <3>1, <3>4
  <2> HIDE DEF InOrder, Gaps
  <2> QED
    BY <1>2, <2>1, <2>5
<1>12. CASE UNCHANGED hexVars
  <2>1. UNCHANGED <<pc, n, m_pElements>>
    BY <1>12 DEF hexVars
  <2>2. Left' = Left
    BY <1>2, <1>12, OthersTakeNothing DEF Left
  <2> HIDE DEF InOrder, Gaps
  <2> QED
    BY <1>2, <1>3, <1>4, <1>5, <2>1, <2>2
<1>13. CASE OpenFails \/ Refuse \/ Compacted
  BY <1>13 DEF OpenFails, Refuse, Compacted
<1> QED
  BY <1>6, <1>7, <1>8, <1>9, <1>10, <1>11, <1>12, <1>13 DEF HexNext

-----------------------------------------------------------------------------
(* The invariant holds in every reachable state. *)
THEOREM HexInvariant == HexSpec => []HexInv
<1>1. HexInit => HexInv
  BY TypeInit, BaseInit, ElementsInit, BytesInit, GapInit DEF HexInv
<1>2. HexInv /\ [HexNext]_hexVars => HexInv'
  <2> SUFFICES ASSUME HexInv, [HexNext]_hexVars PROVE HexInv'
    OBVIOUS
  <2> USE DEF HexInv
  <2>1. HexTypeOK'
    BY TypeNext
  <2>2. BaseInv'
    BY BaseNext
  <2>3. ElementsInv'
    BY ElementsNext
  <2>4. BytesInv'
    BY BytesNext
  <2>5. GapInv'
    BY GapNext
  <2> QED
    BY <2>1, <2>2, <2>3, <2>4, <2>5
<1> QED
  BY <1>1, <1>2, PTL DEF HexSpec

(* What LoadHex accepts it keeps, for files of every length: the elements     *)
(* hold the bytes of the data lines at the places the file gives them, and    *)
(* m_DataSize is their number, whichever lines were joined while they were    *)
(* read or afterwards (Image.cpp:111-163, 384-409).                          *)
THEOREM LoadedKeepsFile == HexSpec => []LoadedIsFile
<1>1. HexInv => LoadedIsFile
  <2> SUFFICES ASSUME HexInv, pc = "loaded", Plain
               PROVE  ImageBytes = FileBytes /\ m_DataSize = Cardinality(FileBytes)
    BY DEF LoadedIsFile
  <2>1. Bytes(m_pElements) = BytesTaken /\ m_DataSize = Cardinality(BytesTaken)
    BY DEF HexInv, BytesInv, Keeps
  <2>2. BytesTaken = FileBytes
    BY DEF BytesTaken, Taken, LineBytes, FileBytes
  <2>3. Bytes(m_pElements) = ImageBytes
    BY DEF Bytes, BytesOf, Start, ImageBytes
  <2> QED
    BY <2>1, <2>2, <2>3
<1> QED
  BY <1>1, HexInvariant, PTL

(* The iterator of CompactElements stays in the vector for every file with    *)
(* data whose lines ascend, because there is nothing to join for it           *)
(* (Image.cpp:391-408).                                                      *)
THEOREM AscendingStaysInside == HexSpec => []AscendingIsSafe
<1>1. HexInv => AscendingIsSafe
  BY DEF HexInv, GapInv, AscendingIsSafe
<1> QED
  BY <1>1, HexInvariant, PTL

=============================================================================
