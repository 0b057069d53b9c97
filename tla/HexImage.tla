------------------------------ MODULE HexImage -----------------------------
(***************************************************************************)
(* robot_update/Image.cpp: LoadHex reads an Intel HEX file line by line     *)
(* into a list of elements, and CompactElements sorts and joins them.       *)
(*                                                                         *)
(* A line is a record with its type, its address, its bytes and its         *)
(* checksum; the byte count is the number of its bytes. A board counts      *)
(* addresses in bytes or in words of two (addr_bytes). Addresses stay below *)
(* 2^31, so that the 32 bits of target_address do not overflow.             *)
(***************************************************************************)
EXTENDS Integers, Sequences, FiniteSets

CONSTANT Files      \* the files: sequences of lines

Octet == 0 .. 255
Word == 0 .. 65535

\* Types of line: of the start addresses nothing is kept.
DATA == 0
END == 1
SEGMENT == 2
START_SEGMENT == 3
LINEAR == 4
START_LINEAR == 5

SINGLE_BYTE == 1
DOUBLE_BYTE == 2

Line == [type : Octet, address : Word, data : Seq(Octet), sum : Octet]

\* A segment or a linear base is a number of two bytes, and an end has none. A line that
\* is none of Intel HEX stands as one of an unknown type.
ASSUME FilesAssumption ==
    /\ Files \subseteq Seq(Line)
    /\ \A f \in Files : \A n \in 1 .. Len(f) :
          /\ f[n].type \in {SEGMENT, LINEAR} => Len(f[n].data) = 2
          /\ f[n].type = END => f[n].data = <<>>

VARIABLES
    file, addr_bytes,
    pc,                 \* "open", "read", "sort", "compact", and how LoadHex ends
    n,                  \* the next line; the iterator of CompactElements
    base_address, extended_address,
    m_DataSize,
    m_pElements         \* elements: an address and its bytes

hexVars == <<file, addr_bytes, pc, n, base_address, extended_address, m_DataSize, m_pElements>>

HexInit ==
    /\ file \in Files /\ addr_bytes \in {SINGLE_BYTE, DOUBLE_BYTE}
    /\ pc = "open" /\ n = 1
    /\ base_address = 0 /\ extended_address = 0
    /\ m_DataSize = 0 /\ m_pElements = <<>>

\* The file has another extension, or cannot be opened.
OpenFails ==
    /\ pc = "open" /\ pc' = "failed"
    /\ UNCHANGED <<file, addr_bytes, n, base_address, extended_address, m_DataSize, m_pElements>>

Open ==
    /\ pc = "open" /\ pc' = "read"
    /\ UNCHANGED <<file, addr_bytes, n, base_address, extended_address, m_DataSize, m_pElements>>

-----------------------------------------------------------------------------
(* The lines. *)

Total(bytes) ==
    LET sum[k \in 0 .. Len(bytes)] == IF k = 0 THEN 0 ELSE sum[k - 1] + bytes[k]
    IN sum[Len(bytes)]

\* sum_var: a line with a start segment has its byte count added twice (line 197).
Summed(l) ==
    Len(l.data) + l.address \div 256 + (l.address % 256) + l.type + Total(l.data)
    + (IF l.type = START_SEGMENT THEN Len(l.data) ELSE 0)

Checks(l) == (l.sum + Summed(l)) % 256 = 0

Number(l) == l.data[1] * 256 + l.data[2]

Reads(types) ==
    /\ pc = "read" /\ n =< Len(file)
    /\ file[n].type \in types /\ Checks(file[n])
    /\ n' = n + 1

Joined(e1, e2) == [address |-> e1.address, data |-> e1.data \o e2.data]

\* Mutant: the length is taken for a number of addresses.
Follows_Bytes(e1, e2, bytes) == e1.address + Len(e1.data) = e2.address

\* e2 begins where e1 ends, for so many bytes to an address.
Follows(e1, e2, bytes) == e1.address + Len(e1.data) \div bytes = e2.address

ReadData ==
    /\ Reads({DATA})
    /\ m_DataSize' = m_DataSize + Len(file[n].data)
    /\ LET element == [address |-> extended_address * 65536 + base_address * 16 + file[n].address,
                       data    |-> file[n].data]
           last == Len(m_pElements)
       IN m_pElements' = IF last # 0 /\ Follows(m_pElements[last], element, addr_bytes)
                           THEN [m_pElements EXCEPT ![last] = Joined(@, element)]
                           ELSE Append(m_pElements, element)
    /\ UNCHANGED <<file, addr_bytes, pc, base_address, extended_address>>

\* Neither base is set back by the other.
ReadBase ==
    /\ Reads({SEGMENT, LINEAR})
    /\ IF file[n].type = SEGMENT
         THEN base_address' = Number(file[n]) /\ UNCHANGED extended_address
         ELSE extended_address' = Number(file[n]) /\ UNCHANGED base_address
    /\ UNCHANGED <<file, addr_bytes, pc, m_DataSize, m_pElements>>

\* Where the program starts is not kept.
ReadStart ==
    /\ Reads({START_SEGMENT, START_LINEAR})
    /\ UNCHANGED <<file, addr_bytes, pc, base_address, extended_address, m_DataSize, m_pElements>>

\* The reading ends with an end line, or with the file.
ReadEnd ==
    /\ Reads({END}) \/ (pc = "read" /\ n = Len(file) + 1 /\ UNCHANGED n)
    /\ pc' = "sort"
    /\ UNCHANGED <<file, addr_bytes, base_address, extended_address, m_DataSize, m_pElements>>

\* A wrong checksum or an unknown type; a data line has been counted by then.
Refuse ==
    /\ pc = "read" /\ n =< Len(file)
    /\ file[n].type \notin DATA .. START_LINEAR \/ ~Checks(file[n])
    /\ m_DataSize' = m_DataSize + (IF file[n].type = DATA THEN Len(file[n].data) ELSE 0)
    /\ pc' = "failed"
    /\ UNCHANGED <<file, addr_bytes, n, base_address, extended_address, m_pElements>>

-----------------------------------------------------------------------------
(* CompactElements. *)

Sorted(elements) ==
    \A i, j \in 1 .. Len(elements) : i < j => elements[i].address =< elements[j].address

\* sort leaves elements with the same address in any order.
Sort ==
    /\ pc = "sort"
    /\ LET Places == 1 .. Len(m_pElements) IN
       \E p \in [Places -> Places] :
          /\ \A i, j \in Places : p[i] = p[j] => i = j
          /\ m_pElements' = [i \in Places |-> m_pElements[p[i]]]
    /\ Sorted(m_pElements')
    /\ pc' = "compact" /\ n' = 1
    /\ UNCHANGED <<file, addr_bytes, base_address, extended_address, m_DataSize>>

\* Mutant: the loop runs to end().
AtLast_End == n = Len(m_pElements) + 1

\* it = end() - 1
AtLast == n = Len(m_pElements)

\* Two elements are joined by words of two bytes, whatever addr_bytes is, and the joined
\* one is not compared with the next.
Compact ==
    /\ pc = "compact" /\ ~AtLast /\ n < Len(m_pElements)
    /\ LET e1 == m_pElements[n]
           e2 == m_pElements[n + 1]
       IN m_pElements' =
            IF Follows(e1, e2, 2)
              THEN SubSeq(m_pElements, 1, n - 1) \o <<Joined(e1, e2)>>
                     \o SubSeq(m_pElements, n + 2, Len(m_pElements))
              ELSE m_pElements
    /\ n' = n + 1
    /\ UNCHANGED <<file, addr_bytes, pc, base_address, extended_address, m_DataSize>>

Compacted ==
    /\ pc = "compact" /\ AtLast
    /\ pc' = "loaded"
    /\ UNCHANGED <<file, addr_bytes, n, base_address, extended_address, m_DataSize, m_pElements>>

\* The iterator has missed end() - 1 and leaves the vector: undefined, from a crash to an
\* image with anything in it.
Undefined ==
    /\ pc = "compact" /\ ~AtLast /\ n >= Len(m_pElements)
    /\ pc' = "undefined"
    /\ UNCHANGED <<file, addr_bytes, n, base_address, extended_address, m_DataSize, m_pElements>>

HexNext ==
    \/ Open \/ OpenFails \/ ReadData \/ ReadBase \/ ReadStart \/ ReadEnd \/ Refuse
    \/ Sort \/ Compact \/ Compacted \/ Undefined

HexSpec == HexInit /\ [][HexNext]_hexVars

-----------------------------------------------------------------------------
(* What the file says: a base is in force until the next one. *)

DataLines == { k \in 1 .. Len(file) :
                 file[k].type = DATA /\ \A j \in 1 .. k : file[j].type # END }

Base(k) ==
    LET before == { j \in 1 .. k - 1 : file[j].type \in {SEGMENT, LINEAR} }
        j == CHOOSE j \in before : \A i \in before : i =< j
    IN IF before = {} THEN 0
       ELSE Number(file[j]) * (IF file[j].type = SEGMENT THEN 16 ELSE 65536)

First(k) == (Base(k) + file[k].address) * addr_bytes
Beyond(k) == First(k) + Len(file[k].data)

FileBytes ==
    UNION { { <<First(k) + i - 1, file[k].data[i]>> : i \in 1 .. Len(file[k].data) } :
            k \in DataLines }

ImageBytes ==
    UNION { { <<m_pElements[e].address * addr_bytes + i - 1, m_pElements[e].data[i]>> :
              i \in 1 .. Len(m_pElements[e].data) } : e \in 1 .. Len(m_pElements) }

\* The files this reader is made for: one kind of base, whole words, no byte twice.
Plain ==
    /\ \E t \in {SEGMENT, LINEAR} : \A k \in 1 .. Len(file) : file[k].type # t
    /\ \A k \in DataLines : Len(file[k].data) # 0 /\ Len(file[k].data) % addr_bytes = 0
    /\ \A j, k \in DataLines : j < k => Beyond(j) =< First(k) \/ Beyond(k) =< First(j)

Ascending == \A j, k \in DataLines : j < k => First(j) < First(k)

\* What LoadHex accepts it keeps: the elements hold the bytes of the data lines at the
\* places the file gives them, and m_DataSize is their number, whatever the order of the
\* lines and whichever were joined on the way (Image.cpp:111-163, 384-409).
LoadedIsFile ==
    pc = "loaded" /\ Plain =>
        /\ ImageBytes = FileBytes
        /\ m_DataSize = Cardinality(FileBytes)

\* The iterator of CompactElements stays in the vector for every file with data whose
\* lines ascend, as a linker writes them (Image.cpp:391-408).
AscendingIsSafe ==
    pc = "undefined" => ~Plain \/ ~Ascending \/ DataLines = {}

=============================================================================
