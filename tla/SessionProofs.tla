----------------------------- MODULE SessionProofs -----------------------------
(***************************************************************************)
(* What FrameCodec promises for every frame and every buffer, and the      *)
(* bound on the serving loop's buffer, for any clients and any input; that *)
(* clients and emulator keep to one request and its answer at a time, so   *)
(* the answer a client has is its own, and no client ends the emulator;    *)
(* that the frames of a browser's tab are read as it sent them; and that   *)
(* clients are served in turn, and a closed tab frees the emulator, if the *)
(* programs keep running.                                                  *)
(***************************************************************************)
EXTENDS Viewer, SequenceTheorems, FiniteSetTheorems, WellFoundedInduction, TLAPS

-------------------------------------------------------------------------------
(* The codec. *)

\* Sequences of cells one after the other.
LEMMA ConcatCells ==
  ASSUME NEW s \in Seq(Cell), NEW t \in Seq(Cell)
  PROVE  /\ s \o t \in Seq(Cell)
         /\ Len(s \o t) = Len(s) + Len(t)
         /\ \A i \in 1 .. Len(s) + Len(t) :
              (s \o t)[i] = IF i <= Len(s) THEN s[i] ELSE t[i - Len(s)]
BY ConcatProperties

\* A stretch of a sequence of cells.
LEMMA SubSeqCells ==
  ASSUME NEW s \in Seq(Cell), NEW m \in 1 .. Len(s) + 1, NEW n \in m - 1 .. Len(s)
  PROVE  /\ SubSeq(s, m, n) \in Seq(Cell)
         /\ Len(SubSeq(s, m, n)) = n - m + 1
         /\ \A i \in 1 .. n - m + 1 : SubSeq(s, m, n)[i] = s[m + i - 1]
<1>1. Len(s) \in Nat /\ m \in Int /\ n \in Int /\ m - 1 <= n
  OBVIOUS
<1>2. \A i \in m .. n : s[i] \in Cell
  BY <1>1
<1> QED
  BY <1>1, <1>2, SubSeqProperties

\* The header of an encoded frame, and what comes after it.
LEMMA EncodeCells ==
  ASSUME NEW f \in Frame, NEW rest \in Seq(Cell)
  PROVE  LET bytes == Encode(f) \o rest
         IN /\ Encode(f) \in Seq(Cell) /\ bytes \in Seq(Cell)
            /\ Len(Encode(f)) = HeaderSize + Len(f.payload)
            /\ Len(bytes) = HeaderSize + Len(f.payload) + Len(rest)
            /\ bytes[1] = Magic /\ bytes[2] = Version
            /\ bytes[3] = f.type /\ bytes[4] = Len(f.payload)
            /\ \A i \in 1 .. Len(f.payload) : bytes[HeaderSize + i] = f.payload[i]
<1> DEFINE header == << Magic, Version, f.type, Len(f.payload) >>
           body == header \o f.payload
           bytes == body \o rest
<1>1. f.payload \in Seq(Cell) /\ f.type \in Nat /\ Len(f.payload) \in Nat
  <2> HIDE DEF header, body, bytes
  <2>1. f.payload \in Seq(Cell) /\ f.type \in KnownTypes
    BY DEF Frame
  <2> QED BY <2>1, CodecAssumption, LenProperties
<1>2. header \in Seq(Cell) /\ Len(header) = 4
  BY <1>1, CodecAssumption DEF Cell
<1>3. header[1] = Magic /\ header[2] = Version /\ header[3] = f.type
      /\ header[4] = Len(f.payload)
  OBVIOUS
<1>4. /\ body \in Seq(Cell) /\ Len(body) = 4 + Len(f.payload)
      /\ \A i \in 1 .. Len(body) :
           body[i] = IF i <= 4 THEN header[i] ELSE f.payload[i - 4]
  <2> HIDE DEF header
  <2>1. /\ header \o f.payload \in Seq(Cell)
        /\ Len(header \o f.payload) = Len(header) + Len(f.payload)
        /\ \A i \in 1 .. Len(header) + Len(f.payload) :
             (header \o f.payload)[i] = IF i <= Len(header) THEN header[i]
                                        ELSE f.payload[i - Len(header)]
    BY <1>1, <1>2, ConcatCells
  <2> QED BY <1>1, <1>2, <2>1
<1>5. /\ bytes \in Seq(Cell) /\ Len(bytes) = 4 + Len(f.payload) + Len(rest)
      /\ \A i \in 1 .. Len(bytes) :
           bytes[i] = IF i <= Len(body) THEN body[i] ELSE rest[i - Len(body)]
  <2> HIDE DEF body
  <2>1. /\ body \o rest \in Seq(Cell)
        /\ Len(body \o rest) = Len(body) + Len(rest)
        /\ \A i \in 1 .. Len(body) + Len(rest) :
             (body \o rest)[i] = IF i <= Len(body) THEN body[i] ELSE rest[i - Len(body)]
    BY <1>4, ConcatCells
  <2> QED BY <1>1, <1>4, <2>1
<1>6. Len(rest) \in Nat
  OBVIOUS
<1>7. \A i \in 1 .. 4 : bytes[i] = header[i]
  <2> HIDE DEF header, body, bytes
  <2>1. SUFFICES ASSUME NEW i \in 1 .. 4 PROVE bytes[i] = header[i]
    OBVIOUS
  <2>2. i \in 1 .. Len(body) /\ i \in 1 .. Len(bytes) /\ i <= 4 /\ i <= Len(body)
    BY <1>1, <1>4, <1>5, <1>6
  <2>3. bytes[i] = body[i]
    BY <1>5, <2>2
  <2>4. body[i] = header[i]
    BY <1>4, <2>2
  <2> QED BY <2>3, <2>4
<1>8. \A i \in 1 .. Len(f.payload) : bytes[4 + i] = f.payload[i]
  <2> HIDE DEF header, body, bytes
  <2>1. SUFFICES ASSUME NEW i \in 1 .. Len(f.payload) PROVE bytes[4 + i] = f.payload[i]
    OBVIOUS
  <2>2. 4 + i \in 1 .. Len(body) /\ 4 + i \in 1 .. Len(bytes) /\ ~(4 + i <= 4)
    BY <1>1, <1>4, <1>5, <1>6
  <2>3. body[4 + i] = f.payload[(4 + i) - 4]
    BY <1>4, <2>2
  <2>4. bytes[4 + i] = body[4 + i]
    BY <1>5, <2>2
  <2> QED BY <2>3, <2>4
<1>9. Encode(f) = body
  BY DEF Encode
<1> HIDE DEF body, bytes
<1>10. 1 \in 1 .. 4 /\ 2 \in 1 .. 4 /\ 3 \in 1 .. 4 /\ 4 \in 1 .. 4
  OBVIOUS
<1>11. bytes[1] = Magic /\ bytes[2] = Version /\ bytes[3] = f.type
       /\ bytes[4] = Len(f.payload)
  <2> HIDE DEF header
  <2> QED BY <1>3, <1>7, <1>10
<1> QED
  BY <1>4, <1>5, <1>8, <1>9, <1>11 DEF HeaderSize, bytes

\* decode undoes encode, whatever follows the frame in the buffer, and takes
\* exactly the frame's bytes (frame_codec.cpp 91-142).
THEOREM DecodeEncode ==
  ASSUME NEW f \in Frame, Len(f.payload) <= MaxPayload, NEW rest \in Seq(Cell)
  PROVE  Decode(Encode(f) \o rest) =
           [result |-> "Frame", consumed |-> Len(Encode(f)), frame |-> f]
<1> DEFINE bytes == Encode(f) \o rest
<1>1. /\ Encode(f) \in Seq(Cell) /\ bytes \in Seq(Cell)
      /\ Len(Encode(f)) = HeaderSize + Len(f.payload)
      /\ Len(bytes) = HeaderSize + Len(f.payload) + Len(rest)
      /\ bytes[1] = Magic /\ bytes[2] = Version
      /\ bytes[3] = f.type /\ bytes[4] = Len(f.payload)
      /\ \A i \in 1 .. Len(f.payload) : bytes[HeaderSize + i] = f.payload[i]
  BY EncodeCells
<1> HIDE DEF bytes
<1>2. /\ f.payload \in Seq(Cell) /\ Len(f.payload) \in Nat /\ Len(rest) \in Nat
      /\ f.type \in KnownTypes /\ f = [type |-> f.type, payload |-> f.payload]
  BY DEF Frame
<1> DEFINE payload == SubSeq(bytes, HeaderSize + 1, HeaderSize + bytes[4])
<1>3. payload = f.payload
  <2>1. /\ payload \in Seq(Cell)
        /\ Len(payload) = Len(f.payload)
        /\ \A i \in 1 .. Len(f.payload) : payload[i] = bytes[HeaderSize + i]
    <3>1. /\ HeaderSize + 1 \in 1 .. Len(bytes) + 1
          /\ HeaderSize + Len(f.payload) \in (HeaderSize + 1) - 1 .. Len(bytes)
      BY <1>1, <1>2 DEF HeaderSize
    <3>2. HeaderSize + bytes[4] = HeaderSize + Len(f.payload)
      BY <1>1
    <3> DEFINE m == HeaderSize + 1
               n == HeaderSize + Len(f.payload)
    <3>3. /\ SubSeq(bytes, m, n) \in Seq(Cell)
          /\ Len(SubSeq(bytes, m, n)) = n - m + 1
          /\ \A i \in 1 .. n - m + 1 : SubSeq(bytes, m, n)[i] = bytes[m + i - 1]
      <4> HIDE DEF m, n
      <4>1. m \in 1 .. Len(bytes) + 1 /\ n \in m - 1 .. Len(bytes)
        BY <3>1 DEF m, n
      <4> QED BY <1>1, <4>1, SubSeqCells
    <3>4. payload = SubSeq(bytes, m, n)
      BY <3>2
    <3>5. n - m + 1 = Len(f.payload) /\ \A i \in 1 .. Len(f.payload) : m + i - 1 = HeaderSize + i
      BY <1>2 DEF HeaderSize
    <3> HIDE DEF payload, m, n
    <3> QED BY <3>3, <3>4, <3>5
  <2>2. \A i \in 1 .. Len(f.payload) : payload[i] = f.payload[i]
    BY <1>1, <2>1
  <2> HIDE DEF payload
  <2> QED BY <1>2, <2>1, <2>2, SeqEqual
<1>4. Decode(bytes) = [result |-> "Frame", consumed |-> HeaderSize + bytes[4],
                       frame |-> [type |-> bytes[3], payload |-> payload]]
  BY <1>1, <1>2, CodecAssumption DEF Decode, HeaderSize
<1> QED
  BY <1>1, <1>2, <1>3, <1>4 DEF bytes

\* As long as a byte of the frame is missing decode asks for more, and never
\* takes the start of a frame for a bad one (frame_codec.cpp 105-133).
THEOREM PrefixIncomplete ==
  ASSUME NEW f \in Frame, Len(f.payload) <= MaxPayload, NEW k \in Nat, k < Len(Encode(f))
  PROVE  IsIncomplete(SubSeq(Encode(f), 1, k))
<1> DEFINE all == Encode(f)
           bytes == SubSeq(all, 1, k)
<1>1. << >> \in Seq(Cell) /\ Len(<< >>) = 0
  OBVIOUS
<1>2. /\ all \in Seq(Cell)
      /\ Len(all) = HeaderSize + Len(f.payload)
      /\ (all \o << >>)[1] = Magic /\ (all \o << >>)[2] = Version
      /\ (all \o << >>)[3] = f.type /\ (all \o << >>)[4] = Len(f.payload)
  BY <1>1, EncodeCells
<1>3. all \o << >> = all
  BY <1>2, ConcatEmptySeq
<1>4. Len(f.payload) \in Nat /\ f.type \in KnownTypes /\ Len(all) \in Nat
  BY <1>2 DEF Frame
<1> HIDE DEF all
<1>5. 1 \in 1 .. Len(all) + 1 /\ k \in 1 - 1 .. Len(all)
  BY <1>2, <1>4 DEF all, HeaderSize
<1>6. /\ SubSeq(all, 1, k) \in Seq(Cell)
      /\ Len(SubSeq(all, 1, k)) = k - 1 + 1
      /\ \A i \in 1 .. k - 1 + 1 : SubSeq(all, 1, k)[i] = all[1 + i - 1]
  BY <1>2, <1>5, SubSeqCells
<1>7. Len(bytes) = k /\ \A i \in 1 .. k : bytes[i] = all[i]
  <2>1. k - 1 + 1 = k /\ \A i \in 1 .. k : 1 + i - 1 = i
    OBVIOUS
  <2> QED BY <1>6, <2>1
<1> HIDE DEF bytes
<1>8. CASE k < HeaderSize
  BY <1>7, <1>8 DEF IsIncomplete, Decode, Refused, HeaderSize, bytes, all
<1>9. CASE k >= HeaderSize
  <2>1. 1 \in 1 .. k /\ 2 \in 1 .. k /\ 3 \in 1 .. k /\ 4 \in 1 .. k
    BY <1>9 DEF HeaderSize
  <2>2. bytes[1] = Magic /\ bytes[2] = Version /\ bytes[3] = f.type
        /\ bytes[4] = Len(f.payload)
    BY <1>2, <1>3, <1>7, <2>1
  <2>3. Len(bytes) < HeaderSize + bytes[4] /\ ~(bytes[4] > MaxPayload) /\ ~(Len(bytes) < HeaderSize)
    BY <1>2, <1>4, <1>7, <1>9, <2>2, CodecAssumption DEF all, HeaderSize
  <2>4. Decode(bytes) = Refused("Incomplete")
    BY <1>4, <2>2, <2>3 DEF Decode
  <2> QED BY <2>4 DEF IsIncomplete, Refused, bytes, all
<1> QED
  BY <1>8, <1>9 DEF HeaderSize

-------------------------------------------------------------------------------
(* The payloads. *)

\* A length and what it is the length of.
LEMMA WithLengthCells ==
  ASSUME NEW s \in Seq(Cell)
  PROVE  /\ WithLength(s) \in Seq(Cell)
         /\ Len(WithLength(s)) = Len(s) + 1
         /\ WithLength(s)[1] = Len(s) % Short
         /\ \A i \in 1 .. Len(s) : WithLength(s)[i + 1] = s[i]
<1> DEFINE head == << Len(s) % Short >>
<1>1. Len(s) \in Nat /\ Len(s) % Short \in Nat
  BY DEF Short
<1>2. head \in Seq(Cell) /\ Len(head) = 1 /\ head[1] = Len(s) % Short
  BY <1>1 DEF Cell
<1>3. WithLength(s) = head \o s
  BY DEF WithLength
<1> HIDE DEF head
<1>4. /\ head \o s \in Seq(Cell)
      /\ Len(head \o s) = Len(head) + Len(s)
      /\ \A i \in 1 .. Len(head) + Len(s) :
           (head \o s)[i] = IF i <= Len(head) THEN head[i] ELSE s[i - Len(head)]
  BY <1>2, ConcatCells
<1>5. \A i \in 1 .. Len(s) : (head \o s)[i + 1] = s[i]
  <2> SUFFICES ASSUME NEW i \in 1 .. Len(s) PROVE (head \o s)[i + 1] = s[i]
    OBVIOUS
  <2>1. i + 1 \in 1 .. Len(head) + Len(s) /\ ~(i + 1 <= Len(head)) /\ i + 1 - Len(head) = i
    BY <1>1, <1>2
  <2> QED BY <1>4, <2>1
<1>6. 1 \in 1 .. Len(head) + Len(s) /\ 1 <= Len(head)
  BY <1>1, <1>2
<1> QED
  BY <1>1, <1>2, <1>3, <1>4, <1>5, <1>6

\* Two cells for each joint, in turn.
LEMMA JointCellsType ==
  ASSUME NEW joints \in Seq(JointStatus)
  PROVE  /\ JointCells(joints) \in Seq(Cell)
         /\ Len(JointCells(joints)) = 2 * Len(joints)
         /\ \A i \in 1 .. Len(joints) :
              /\ JointCells(joints)[2 * i - 1] = joints[i].position
              /\ JointCells(joints)[2 * i] = joints[i].velocity
<1> DEFINE n == Len(joints)
           value(k) == IF k % 2 = 1 THEN joints[(k + 1) \div 2].position
                       ELSE joints[k \div 2].velocity
<1>1. n \in Nat /\ 2 * n \in Nat
  OBVIOUS
<1>2. \A i \in 1 .. n : joints[i].position \in Cell /\ joints[i].velocity \in Cell
  <2> SUFFICES ASSUME NEW i \in 1 .. n
               PROVE  joints[i].position \in Cell /\ joints[i].velocity \in Cell
    OBVIOUS
  <2>1. joints[i] \in JointStatus
    OBVIOUS
  <2> QED BY <2>1 DEF JointStatus
<1>3. ASSUME NEW k \in 1 .. 2 * n
      PROVE  value(k) \in Cell
  <2>1. k % 2 = 1 => (k + 1) \div 2 \in 1 .. n
    BY <1>1
  <2>2. k % 2 # 1 => k \div 2 \in 1 .. n
    BY <1>1
  <2> HIDE DEF n
  <2> QED BY <1>2, <2>1, <2>2
<1>4. JointCells(joints) = [k \in 1 .. 2 * n |-> value(k)]
  BY DEF JointCells
<1>5. ASSUME NEW i \in 1 .. n
      PROVE  /\ 2 * i - 1 \in 1 .. 2 * n /\ 2 * i \in 1 .. 2 * n
             /\ value(2 * i - 1) = joints[i].position /\ value(2 * i) = joints[i].velocity
  <2>1. 2 * i - 1 \in 1 .. 2 * n /\ 2 * i \in 1 .. 2 * n
    BY <1>1
  <2>2. (2 * i - 1) % 2 = 1 /\ (2 * i - 1 + 1) \div 2 = i
    BY <1>1
  <2>3. (2 * i) % 2 # 1 /\ (2 * i) \div 2 = i
    BY <1>1
  <2> HIDE DEF n
  <2> QED BY <2>1, <2>2, <2>3
<1> HIDE DEF n, value
<1>6. JointCells(joints) \in [1 .. 2 * n -> Cell]
  BY <1>3, <1>4
<1>7. JointCells(joints) \in Seq(Cell) /\ Len(JointCells(joints)) = 2 * n
  BY <1>1, <1>6
<1> QED
  BY <1>4, <1>5, <1>7 DEF n

\* A length as it is written.
LEMMA ShortLength ==
  ASSUME NEW n \in Nat
  PROVE  n % Short \in Nat
BY DEF Short

\* The three parts of an encoded status.
LEMMA EncodeStatusCells ==
  ASSUME NEW status \in StatusPayload
  PROVE  EncodeStatus(status) \in Seq(Cell)
<1>1. /\ status.robotName \in Seq(Cell) /\ status.controllerStateName \in Seq(Cell)
      /\ status.joints \in Seq(JointStatus)
  BY DEF StatusPayload
<1>2. /\ WithLength(status.robotName) \in Seq(Cell)
      /\ WithLength(status.controllerStateName) \in Seq(Cell)
  BY <1>1, WithLengthCells
<1>3. JointCells(status.joints) \in Seq(Cell)
  BY <1>1, JointCellsType
<1>4. << Len(status.joints) % Short >> \in Seq(Cell)
  <2>1. Len(status.joints) \in Nat
    BY <1>1
  <2>2. Len(status.joints) % Short \in Nat
    BY <2>1, ShortLength
  <2> HIDE DEF Short
  <2> QED BY <2>2 DEF Cell
<1> QED
  BY <1>2, <1>3, <1>4, ConcatCells DEF EncodeStatus

\* A stretch of a buffer that reads like a sequence of cells is that sequence.
LEMMA StretchIs ==
  ASSUME NEW bytes \in Seq(Cell), NEW offset \in Nat, NEW s \in Seq(Cell),
         offset + Len(s) <= Len(bytes),
         \A i \in 1 .. Len(s) : bytes[offset + i] = s[i]
  PROVE  SubSeq(bytes, offset + 1, offset + Len(s)) = s
<1> DEFINE m == offset + 1
           n == offset + Len(s)
<1>1. Len(s) \in Nat /\ Len(bytes) \in Nat
  OBVIOUS
<1>2. m \in 1 .. Len(bytes) + 1 /\ n \in m - 1 .. Len(bytes) /\ n - m + 1 = Len(s)
  BY <1>1
<1>3. \A i \in 1 .. Len(s) : m + i - 1 = offset + i
  BY <1>1
<1> HIDE DEF m, n
<1>4. /\ SubSeq(bytes, m, n) \in Seq(Cell)
      /\ Len(SubSeq(bytes, m, n)) = n - m + 1
      /\ \A i \in 1 .. n - m + 1 : SubSeq(bytes, m, n)[i] = bytes[m + i - 1]
  BY <1>2, SubSeqCells
<1>5. \A i \in 1 .. Len(s) : SubSeq(bytes, m, n)[i] = s[i]
  BY <1>2, <1>3, <1>4
<1>6. SubSeq(bytes, m, n) = s
  BY <1>2, <1>4, <1>5, SeqEqual
<1> QED
  BY <1>6 DEF m, n

(* bytes starts with four parts, and has them where they belong.           *)
InPlace(a, b, c, d, rest, bytes) ==
  /\ bytes \in Seq(Cell)
  /\ Len(bytes) = Len(a) + Len(b) + Len(c) + Len(d) + Len(rest)
  /\ \A i \in 1 .. Len(a) : bytes[i] = a[i]
  /\ \A i \in 1 .. Len(b) : bytes[Len(a) + i] = b[i]
  /\ \A i \in 1 .. Len(c) : bytes[Len(a) + Len(b) + i] = c[i]
  /\ \A i \in 1 .. Len(d) : bytes[Len(a) + Len(b) + Len(c) + i] = d[i]

\* Where the parts of an encoded status are, whatever follows it.
LEMMA StatusInPlace ==
  ASSUME NEW a \in Seq(Cell), NEW b \in Seq(Cell), NEW c \in Seq(Cell),
         NEW d \in Seq(Cell), NEW rest \in Seq(Cell)
  PROVE  InPlace(a, b, c, d, rest, (a \o b \o c \o d) \o rest)
<1> DEFINE two == a \o b
           three == two \o c
           four == three \o d
           bytes == four \o rest
<1>0. Len(a) \in Nat /\ Len(b) \in Nat /\ Len(c) \in Nat /\ Len(d) \in Nat /\ Len(rest) \in Nat
  OBVIOUS
<1>1. /\ two \in Seq(Cell) /\ Len(two) = Len(a) + Len(b)
      /\ \A i \in 1 .. Len(a) + Len(b) : two[i] = IF i <= Len(a) THEN a[i] ELSE b[i - Len(a)]
  BY ConcatCells
<1> HIDE DEF two
<1>2. /\ three \in Seq(Cell) /\ Len(three) = Len(two) + Len(c)
      /\ \A i \in 1 .. Len(two) + Len(c) :
           three[i] = IF i <= Len(two) THEN two[i] ELSE c[i - Len(two)]
  BY <1>1, ConcatCells
<1> HIDE DEF three
<1>3. /\ four \in Seq(Cell) /\ Len(four) = Len(three) + Len(d)
      /\ \A i \in 1 .. Len(three) + Len(d) :
           four[i] = IF i <= Len(three) THEN three[i] ELSE d[i - Len(three)]
  BY <1>2, ConcatCells
<1> HIDE DEF four
<1>4. /\ bytes \in Seq(Cell) /\ Len(bytes) = Len(four) + Len(rest)
      /\ \A i \in 1 .. Len(four) + Len(rest) :
           bytes[i] = IF i <= Len(four) THEN four[i] ELSE rest[i - Len(four)]
  BY <1>3, ConcatCells
<1> HIDE DEF bytes
<1>5. ASSUME NEW i \in 1 .. Len(a) PROVE bytes[i] = a[i]
  <2>1. i \in 1 .. Len(a) + Len(b) /\ i \in 1 .. Len(two) + Len(c) /\ i <= Len(two)
        /\ i \in 1 .. Len(three) + Len(d) /\ i <= Len(three)
        /\ i \in 1 .. Len(four) + Len(rest) /\ i <= Len(four) /\ i <= Len(a)
    BY <1>0, <1>1, <1>2, <1>3
  <2> QED BY <1>1, <1>2, <1>3, <1>4, <2>1
<1>6. ASSUME NEW i \in 1 .. Len(b) PROVE bytes[Len(a) + i] = b[i]
  <2> DEFINE k == Len(a) + i
  <2>1. k \in 1 .. Len(a) + Len(b) /\ k \in 1 .. Len(two) + Len(c) /\ k <= Len(two)
        /\ k \in 1 .. Len(three) + Len(d) /\ k <= Len(three)
        /\ k \in 1 .. Len(four) + Len(rest) /\ k <= Len(four) /\ ~(k <= Len(a))
        /\ k - Len(a) = i
    BY <1>0, <1>1, <1>2, <1>3
  <2> HIDE DEF k
  <2>2. bytes[k] = b[i]
    BY <1>1, <1>2, <1>3, <1>4, <2>1
  <2> QED BY <2>2 DEF k
<1>7. ASSUME NEW i \in 1 .. Len(c) PROVE bytes[Len(a) + Len(b) + i] = c[i]
  <2> DEFINE k == Len(a) + Len(b) + i
  <2>1. k \in 1 .. Len(two) + Len(c) /\ ~(k <= Len(two)) /\ k - Len(two) = i
        /\ k \in 1 .. Len(three) + Len(d) /\ k <= Len(three)
        /\ k \in 1 .. Len(four) + Len(rest) /\ k <= Len(four)
    BY <1>0, <1>1, <1>2, <1>3
  <2> HIDE DEF k
  <2>2. bytes[k] = c[i]
    BY <1>2, <1>3, <1>4, <2>1
  <2> QED BY <2>2 DEF k
<1>8. ASSUME NEW i \in 1 .. Len(d) PROVE bytes[Len(a) + Len(b) + Len(c) + i] = d[i]
  <2> DEFINE k == Len(a) + Len(b) + Len(c) + i
  <2>1. k \in 1 .. Len(three) + Len(d) /\ ~(k <= Len(three)) /\ k - Len(three) = i
        /\ k \in 1 .. Len(four) + Len(rest) /\ k <= Len(four)
    BY <1>0, <1>1, <1>2, <1>3
  <2> HIDE DEF k
  <2>2. bytes[k] = d[i]
    BY <1>3, <1>4, <2>1
  <2> QED BY <2>2 DEF k
<1>9. Len(bytes) = Len(a) + Len(b) + Len(c) + Len(d) + Len(rest)
  BY <1>0, <1>1, <1>2, <1>3, <1>4
<1>10. InPlace(a, b, c, d, rest, bytes)
  BY <1>4, <1>5, <1>6, <1>7, <1>8, <1>9 DEF InPlace
<1> QED
  BY <1>10 DEF bytes, four, three, two

\* decodeStatusPayload undoes encodeStatusPayload as long as the lengths fit
\* their 16 bits, whatever follows the last joint (status_payload.cpp 18-93).
THEOREM StatusDecodeEncode ==
  ASSUME NEW status \in StatusPayload, NEW rest \in Seq(Cell),
         Len(status.robotName) < Short, Len(status.controllerStateName) < Short,
         Len(status.joints) < Short
  PROVE  LET bytes == EncodeStatus(status) \o rest
         IN ~Truncated(bytes) /\ DecodeStatus(bytes) = status
<1> DEFINE name == status.robotName
           state == status.controllerStateName
           joints == status.joints
           m == Len(joints)
           a == WithLength(name)
           b == WithLength(state)
           c == << m % Short >>
           d == JointCells(joints)
           bytes == EncodeStatus(status) \o rest
<1>1. name \in Seq(Cell) /\ state \in Seq(Cell) /\ joints \in Seq(JointStatus)
      /\ status = [robotName |-> name, controllerStateName |-> state, joints |-> joints]
  BY DEF StatusPayload
<1>2. /\ a \in Seq(Cell) /\ Len(a) = Len(name) + 1 /\ a[1] = Len(name) % Short
      /\ \A i \in 1 .. Len(name) : a[i + 1] = name[i]
      /\ b \in Seq(Cell) /\ Len(b) = Len(state) + 1 /\ b[1] = Len(state) % Short
      /\ \A i \in 1 .. Len(state) : b[i + 1] = state[i]
  BY <1>1, WithLengthCells
<1>3. Len(name) \in Nat /\ Len(state) \in Nat /\ m \in Nat /\ Len(rest) \in Nat
  BY <1>1
<1>4. Len(name) % Short = Len(name) /\ Len(state) % Short = Len(state) /\ m % Short = m
  <2>1. \A n \in Nat : n < Short => n % Short = n
    BY DEF Short
  <2> HIDE DEF m
  <2> QED BY <1>3, <2>1 DEF m
<1>5. c \in Seq(Cell) /\ Len(c) = 1 /\ c[1] = m
  <2> HIDE DEF m
  <2> QED BY <1>3, <1>4 DEF Cell
<1>6. /\ d \in Seq(Cell) /\ Len(d) = 2 * m
      /\ \A i \in 1 .. m : d[2 * i - 1] = joints[i].position /\ d[2 * i] = joints[i].velocity
  BY <1>1, JointCellsType
<1>7. bytes = (a \o b \o c \o d) \o rest
  BY DEF EncodeStatus
<1> HIDE DEF a, b, c, d, bytes
<1>8. /\ bytes \in Seq(Cell)
      /\ Len(bytes) = Len(a) + Len(b) + Len(c) + Len(d) + Len(rest)
      /\ \A i \in 1 .. Len(a) : bytes[i] = a[i]
      /\ \A i \in 1 .. Len(b) : bytes[Len(a) + i] = b[i]
      /\ \A i \in 1 .. Len(c) : bytes[Len(a) + Len(b) + i] = c[i]
      /\ \A i \in 1 .. Len(d) : bytes[Len(a) + Len(b) + Len(c) + i] = d[i]
  <2> HIDE DEF m, name, state, joints
  <2>1. a \in Seq(Cell) /\ b \in Seq(Cell) /\ c \in Seq(Cell) /\ d \in Seq(Cell)
    BY <1>2, <1>5, <1>6
  <2>2. InPlace(a, b, c, d, rest, (a \o b \o c \o d) \o rest)
    BY <2>1, StatusInPlace
  <2>3. InPlace(a, b, c, d, rest, bytes)
    BY <1>7, <2>2
  <2> QED BY <2>3 DEF InPlace
<1> HIDE DEF m, name, state, joints
<1>9. bytes[1] = Len(name)
  <2>1. 1 \in 1 .. Len(a)
    BY <1>2, <1>3
  <2> QED BY <1>2, <1>4, <1>8, <2>1
<1>10. StateAt(bytes) = Len(name) + 2 /\ StateAt(bytes) = Len(a) + 1
  BY <1>2, <1>3, <1>9 DEF StateAt
<1>11. bytes[StateAt(bytes)] = Len(state)
  <2>1. 1 \in 1 .. Len(b)
    BY <1>2, <1>3
  <2> QED BY <1>2, <1>4, <1>8, <1>10, <2>1
<1>12. /\ CountAt(bytes) = Len(name) + Len(state) + 3
       /\ CountAt(bytes) = Len(a) + Len(b) + 1
  <2> DEFINE p == StateAt(bytes)
             q == bytes[p]
             r == CountAt(bytes)
  <2>1. p = Len(name) + 2 /\ q = Len(state) /\ r = p + q + 1
    BY <1>10, <1>11 DEF CountAt
  <2> HIDE DEF p, q, r
  <2>2. r = Len(name) + Len(state) + 3 /\ r = Len(a) + Len(b) + 1
    BY <1>2, <1>3, <2>1
  <2> QED BY <2>2 DEF r
<1>13. bytes[CountAt(bytes)] = m
  <2>1. 1 \in 1 .. Len(c)
    BY <1>5
  <2> QED BY <1>5, <1>8, <1>12, <2>1
<1>14. Len(bytes) = Len(name) + Len(state) + 3 + 2 * m + Len(rest)
  BY <1>2, <1>3, <1>5, <1>6, <1>8
<1>15. ~Truncated(bytes)
  BY <1>3, <1>10, <1>12, <1>13, <1>14 DEF Truncated
<1>16. SubSeq(bytes, 2, StateAt(bytes) - 1) = name
  <2>1. \A i \in 1 .. Len(name) : bytes[1 + i] = name[i]
    <3> SUFFICES ASSUME NEW i \in 1 .. Len(name) PROVE bytes[1 + i] = name[i]
      OBVIOUS
    <3>1. 1 + i \in 1 .. Len(a) /\ 1 + i = i + 1
      BY <1>2, <1>3
    <3> QED BY <1>2, <1>8, <3>1
  <2>2. 1 + Len(name) <= Len(bytes)
    BY <1>3, <1>14
  <2>3. SubSeq(bytes, 1 + 1, 1 + Len(name)) = name
    BY <1>1, <1>8, <2>1, <2>2, StretchIs
  <2>4. 1 + 1 = 2 /\ StateAt(bytes) - 1 = 1 + Len(name)
    BY <1>3, <1>10
  <2> QED BY <2>3, <2>4
<1>17. SubSeq(bytes, StateAt(bytes) + 1, CountAt(bytes) - 1) = state
  <2> DEFINE offset == Len(name) + 2
  <2>1. \A i \in 1 .. Len(state) : bytes[offset + i] = state[i]
    <3> SUFFICES ASSUME NEW i \in 1 .. Len(state) PROVE bytes[offset + i] = state[i]
      OBVIOUS
    <3>1. i + 1 \in 1 .. Len(b) /\ offset + i = Len(a) + (i + 1)
      BY <1>2, <1>3
    <3> HIDE DEF offset
    <3> QED BY <1>2, <1>8, <3>1
  <2>2. offset \in Nat /\ offset + Len(state) <= Len(bytes)
    BY <1>3, <1>14
  <2>4. StateAt(bytes) + 1 = offset + 1 /\ CountAt(bytes) - 1 = offset + Len(state)
    BY <1>3, <1>10, <1>12
  <2> HIDE DEF offset
  <2>3. SubSeq(bytes, offset + 1, offset + Len(state)) = state
    BY <1>1, <1>8, <2>1, <2>2, StretchIs
  <2> QED BY <2>3, <2>4
<1>18. [i \in 1 .. bytes[CountAt(bytes)] |->
          [ position |-> bytes[CountAt(bytes) + 2 * i - 1],
            velocity |-> bytes[CountAt(bytes) + 2 * i] ]] = joints
  <2> DEFINE offset == CountAt(bytes)
  <2>1. offset \in Nat /\ offset = Len(a) + Len(b) + Len(c)
    BY <1>2, <1>3, <1>5, <1>12
  <2> HIDE DEF offset
  <2>2. ASSUME NEW i \in 1 .. m
        PROVE  [position |-> bytes[offset + 2 * i - 1], velocity |-> bytes[offset + 2 * i]] = joints[i]
    <3>1. 2 * i - 1 \in 1 .. Len(d) /\ 2 * i \in 1 .. Len(d) /\ offset + 2 * i - 1 = offset + (2 * i - 1)
      BY <1>3, <1>6, <2>1
    <3>2. bytes[offset + 2 * i - 1] = d[2 * i - 1] /\ bytes[offset + 2 * i] = d[2 * i]
      BY <1>8, <2>1, <3>1
    <3>3. bytes[offset + 2 * i - 1] = joints[i].position /\ bytes[offset + 2 * i] = joints[i].velocity
      BY <1>6, <3>2
    <3>4. joints[i] \in JointStatus
      BY <1>1 DEF m
    <3> QED BY <3>3, <3>4 DEF JointStatus
  <2>3. joints = [i \in 1 .. m |-> joints[i]]
    BY <1>1 DEF m
  <2>4. [i \in 1 .. m |-> [position |-> bytes[offset + 2 * i - 1], velocity |-> bytes[offset + 2 * i]]]
          = [i \in 1 .. m |-> joints[i]]
    BY <2>2
  <2>5. bytes[offset] = m
    BY <1>13 DEF offset
  <2> QED BY <2>3, <2>4, <2>5 DEF offset
<1>19. DecodeStatus(bytes) = status
  BY <1>1, <1>16, <1>17, <1>18 DEF DecodeStatus
<1> QED
  BY <1>15, <1>19 DEF bytes

\* What robotctl accepts is a command.
LEMMA ParsedCommand ==
  ASSUME NEW args, ParseArgs(args).result = "Ok"
  PROVE  ParseArgs(args).command \in Command
<1>1. CASE args[2] \in DOMAIN KindOf /\ ParseArgs(args) = Parsed(Plain(KindOf[args[2]]))
  <2>1. KindOf[args[2]] \in Kinds
    BY <1>1 DEF KindOf, Kinds
  <2> QED BY <1>1, <2>1 DEF Parsed, Plain, Command
<1>2. CASE ParseArgs(args) = ParseMoveJoint(Drop(args, 2))
  <2> DEFINE words == Drop(args, 2)
  <2>1. /\ words[1] \in DOMAIN UnsignedOf /\ ~(UnsignedOf[words[1]] > 255)
        /\ words[2] \in DOMAIN DoubleOf
        /\ ParseArgs(args).command = [ kind |-> "MoveJoint", joint |-> UnsignedOf[words[1]],
                                       degrees |-> DoubleOf[words[2]] ]
    <3> HIDE DEF words
    <3>1. ParseMoveJoint(words).result = "Ok"
      BY <1>2 DEF words
    <3>2. /\ words[1] \in DOMAIN UnsignedOf /\ ~(UnsignedOf[words[1]] > 255)
          /\ words[2] \in DOMAIN DoubleOf
          /\ ParseMoveJoint(words).command =
               [ kind |-> "MoveJoint", joint |-> UnsignedOf[words[1]],
                 degrees |-> DoubleOf[words[2]] ]
      BY <3>1 DEF ParseMoveJoint, Invalid, Parsed
    <3> QED BY <1>2, <3>2 DEF words
  <2> HIDE DEF words
  <2>2. UnsignedOf[words[1]] \in Nat /\ DoubleOf[words[2]] \in Nat
    BY <2>1, WordsAssumption
  <2>3. UnsignedOf[words[1]] \in 0 .. 255
    BY <2>1, <2>2
  <2>4. "MoveJoint" \in Kinds
    BY DEF Kinds
  <2> QED BY <2>1, <2>2, <2>3, <2>4 DEF Command
<1> QED
  BY <1>1, <1>2 DEF ParseArgs, Invalid

\* A command becomes a frame the codec knows.
LEMMA RequestFrame ==
  ASSUME NEW command \in Command
  PROVE  BuildRequestFrame(command) \in Frame
<1>1. TypeOf[command.kind] \in KnownTypes
  BY SessionAssumption DEF Command, Kinds, TypeOf
<1>2. command.joint \in Nat /\ Radians(command.degrees) \in Nat
  BY DEF Command, Radians
<1>3. EncodeMoveJoint(command.joint, Radians(command.degrees)) \in Seq(Cell) /\ << >> \in Seq(Cell)
  BY <1>2 DEF EncodeMoveJoint, Cell
<1> QED
  BY <1>1, <1>3 DEF BuildRequestFrame, Frame

\* Every client's requests are frames.
LEMMA RequestsAreFrames ==
  ASSUME NEW c
  PROVE  Requests(c) \subseteq Frame
<1>1. StatusRequest \in Frame
  <2>1. Plain("Status") \in Command
    BY DEF Plain, Command, Kinds
  <2> QED BY <2>1, RequestFrame DEF StatusRequest
<1>2. ASSUME NEW args \in Accepted
      PROVE  BuildRequestFrame(ParseArgs(args).command) \in Frame
  <2>1. ParseArgs(args).command \in Command
    BY ParsedCommand DEF Accepted
  <2> QED BY <2>1, RequestFrame
<1> QED
  BY <1>1, <1>2 DEF Requests

-------------------------------------------------------------------------------
(* The serving loop. *)

Link == [ user : Clients \cup {None}, up : Seq(Cell), down : Seq(Cell),
          clientOpen : BOOLEAN, serverOpen : BOOLEAN, lost : BOOLEAN ]

\* What the streams and the buffer hold is cells.
StreamInv ==
  /\ link \in [Links -> Link]
  /\ backlog \in Seq(Links)
  /\ received \in Seq(Cell)
  /\ pc \in {"accept", "receive", "dispatch", "send", "killed"}
  /\ pc \in {"receive", "dispatch", "send"} => serving \in Links
  /\ pc \in {"dispatch", "send"} => frame \in Frame

\* What is dropped from the front of a stream leaves a stream.
LEMMA DropCells ==
  ASSUME NEW s \in Seq(Cell), NEW k \in 0 .. Len(s)
  PROVE  Drop(s, k) \in Seq(Cell)
<1>1. Len(s) \in Nat
  OBVIOUS
<1>2. k + 1 \in 1 .. Len(s) + 1 /\ Len(s) \in (k + 1) - 1 .. Len(s)
  BY <1>1
<1> QED
  BY <1>2, SubSeqCells DEF Drop

\* A piece off the front of a stream is a stream.
LEMMA PieceCells ==
  ASSUME NEW s \in Seq(Cell), NEW k \in Pieces(s)
  PROVE  SubSeq(s, 1, k) \in Seq(Cell) /\ Drop(s, k) \in Seq(Cell)
<1>1. Len(s) \in Nat /\ k \in 1 .. Len(s)
  BY DEF Pieces
<1>2. 1 \in 1 .. Len(s) + 1 /\ k \in 1 - 1 .. Len(s) /\ k \in 0 .. Len(s)
  BY <1>1
<1> QED
  BY <1>2, SubSeqCells, DropCells

\* A frame becomes a stream of cells.
LEMMA EncodeType ==
  ASSUME NEW f \in Frame
  PROVE  Encode(f) \in Seq(Cell) /\ Len(Encode(f)) \in Nat
<1>1. << >> \in Seq(Cell)
  OBVIOUS
<1>2. Encode(f) \in Seq(Cell)
  BY <1>1, EncodeCells
<1> QED
  BY <1>2

\* What decode accepts is a frame, taken off the front of the buffer.
LEMMA DecodeType ==
  ASSUME NEW bytes \in Seq(Cell), Decode(bytes).result = "Frame"
  PROVE  /\ Decode(bytes).frame \in Frame
         /\ Decode(bytes).consumed \in HeaderSize .. Len(bytes)
<1> DEFINE payload == SubSeq(bytes, HeaderSize + 1, HeaderSize + bytes[4])
<1>1. Len(bytes) \in Nat
  OBVIOUS
<1>2. /\ ~(Len(bytes) < HeaderSize) /\ bytes[3] \in KnownTypes
      /\ ~(Len(bytes) < HeaderSize + bytes[4])
      /\ Decode(bytes) = [result |-> "Frame", consumed |-> HeaderSize + bytes[4],
                          frame |-> [type |-> bytes[3], payload |-> payload]]
  BY DEF Decode, Refused
<1>3. bytes[4] \in Nat
  BY <1>1, <1>2 DEF HeaderSize, Cell
<1>4. HeaderSize + 1 \in 1 .. Len(bytes) + 1
      /\ HeaderSize + bytes[4] \in (HeaderSize + 1) - 1 .. Len(bytes)
  BY <1>1, <1>2, <1>3 DEF HeaderSize
<1>5. payload \in Seq(Cell)
  BY <1>4, SubSeqCells
<1> HIDE DEF payload
<1> QED
  BY <1>1, <1>2, <1>3, <1>5 DEF Frame, HeaderSize

\* A change of one connection, by the fields it changes.
LEMMA LinkChanges ==
  ASSUME NEW f \in [Links -> Link], NEW n \in Links, NEW s \in Seq(Cell)
  PROVE  /\ [f EXCEPT ![n].up = s, ![n].clientOpen = FALSE] \in [Links -> Link]
         /\ [f EXCEPT ![n].down = s] \in [Links -> Link]
         /\ [f EXCEPT ![n].lost = TRUE] \in [Links -> Link]
<1>1. f[n] \in Link
  OBVIOUS
<1>2. /\ [f[n] EXCEPT !.up = s, !.clientOpen = FALSE] \in Link
      /\ [f[n] EXCEPT !.down = s] \in Link
      /\ [f[n] EXCEPT !.lost = TRUE] \in Link
  BY <1>1 DEF Link
<1> QED
  BY <1>2

\* A client's send leaves streams of cells.
LEMMA SendType ==
  ASSUME link \in [Links -> Link], NEW bytes \in Seq(Cell), NEW c, Send(c, bytes)
  PROVE  link' \in [Links -> Link]
<1> DEFINE n == client[c].on
<1>1. CASE n \in Links
  <2>1. link[n].up \o bytes \in Seq(Cell)
    BY <1>1, ConcatCells DEF Link
  <2> QED BY <1>1, <2>1 DEF Send, Link
<1>2. CASE n \notin Links
  BY <1>2 DEF Send
<1> QED
  BY <1>1, <1>2

\* What decode finds incomplete is shorter than the longest frame.
LEMMA IncompleteIsShort ==
  ASSUME NEW bytes \in Seq(Cell), IsIncomplete(bytes)
  PROVE  Len(bytes) < HeaderSize + MaxPayload
<1>1. Len(bytes) \in Nat
  OBVIOUS
<1>2. CASE Len(bytes) < HeaderSize
  BY <1>1, <1>2, CodecAssumption DEF HeaderSize
<1>3. CASE ~(Len(bytes) < HeaderSize)
  <2>1. bytes[4] \in Nat
    BY <1>1, <1>3 DEF HeaderSize, Cell
  <2>2. ~(bytes[4] > MaxPayload) /\ Len(bytes) < HeaderSize + bytes[4]
    BY <1>3 DEF IsIncomplete, Decode, Refused
  <2> QED
    BY <1>1, <2>1, <2>2, CodecAssumption DEF HeaderSize
<1> QED
  BY <1>2, <1>3

\* A step of a client leaves streams of cells, and does not touch the server's
\* variables except the backlog.
LEMMA ClientStep ==
  ASSUME StreamInv, NEW c \in Clients,
         \/ Connect(c) \/ Call(c) \/ SendMalformed(c) \/ Receive(c)
         \/ Exit(c) \/ Die(c) \/ DieSending(c)
  PROVE  StreamInv'
<1> USE DEF StreamInv
<1>1. CASE Connect(c)
  <2>1. PICK n \in Links :
          /\ link' = [link EXCEPT ![n] = [NoLink EXCEPT !.user = c,
                                            !.clientOpen = TRUE, !.serverOpen = TRUE]]
          /\ backlog' = Append(backlog, n)
    BY <1>1 DEF Connect
  <2>2. [NoLink EXCEPT !.user = c, !.clientOpen = TRUE, !.serverOpen = TRUE] \in Link
    <3>1. << >> \in Seq(Cell)
      OBVIOUS
    <3>2. NoLink \in Link
      BY <3>1 DEF NoLink, Link
    <3> QED BY <3>2 DEF Link
  <2>3. link' \in [Links -> Link]
    BY <2>1, <2>2
  <2>4. backlog' \in Seq(Links)
    BY <2>1, AppendProperties
  <2> QED BY <1>1, <2>3, <2>4 DEF Connect
<1>2. CASE Call(c)
  <2>1. PICK request \in Requests(c) : Send(c, Encode(request))
    BY <1>2 DEF Call
  <2>2. Encode(request) \in Seq(Cell)
    BY EncodeType, RequestsAreFrames
  <2>3. link' \in [Links -> Link]
    BY <2>1, <2>2, SendType
  <2> QED BY <1>2, <2>3 DEF Call, serverVars
<1>3. CASE SendMalformed(c)
  <2>1. PICK bytes \in Malformed : Send(c, bytes)
    BY <1>3 DEF SendMalformed
  <2>2. link' \in [Links -> Link]
    BY <2>1, SendType, SessionAssumption
  <2> QED BY <1>3, <2>2 DEF SendMalformed, serverVars
<1>4. CASE Receive(c)
  <2> DEFINE n == client[c].on
  <2>1. PICK k \in Pieces(link[n].down) :
          link' = [link EXCEPT ![n].down = Drop(@, k)]
    BY <1>4 DEF Receive
  <2>2. link' \in [Links -> Link]
    <3>1. CASE n \in Links
      <4>1. link[n].down \in Seq(Cell)
        BY <3>1 DEF Link
      <4>2. Drop(link[n].down, k) \in Seq(Cell)
        BY <4>1, PieceCells
      <4> QED BY <2>1, <3>1, <4>2 DEF Link
    <3>2. CASE n \notin Links
      BY <2>1, <3>2
    <3> QED BY <3>1, <3>2
  <2> QED BY <1>4, <2>2 DEF Receive, serverVars
<1>5. ASSUME Close(c) PROVE link' \in [Links -> Link]
  BY <1>5 DEF Close, Link
<1>6. CASE Exit(c) \/ Die(c)
  BY <1>5, <1>6 DEF Exit, Die, serverVars
<1>7. CASE DieSending(c)
  <2> DEFINE n == client[c].on
  <2>1. PICK request \in Requests(c) : \E k \in 1 .. Len(Encode(request)) - 1 :
          link' = [link EXCEPT ![n].up = @ \o SubSeq(Encode(request), 1, k),
                               ![n].clientOpen = FALSE]
    BY <1>7 DEF DieSending
  <2>2. PICK k \in 1 .. Len(Encode(request)) - 1 :
          link' = [link EXCEPT ![n].up = @ \o SubSeq(Encode(request), 1, k),
                               ![n].clientOpen = FALSE]
    BY <2>1
  <2>3. Encode(request) \in Seq(Cell) /\ Len(Encode(request)) \in Nat
    BY EncodeType, RequestsAreFrames
  <2>4. k \in Pieces(Encode(request))
    BY <2>3 DEF Pieces
  <2>5. SubSeq(Encode(request), 1, k) \in Seq(Cell)
    BY <2>3, <2>4, PieceCells
  <2>6. link' \in [Links -> Link]
    <3>1. CASE n \in Links
      <4> DEFINE sent == SubSeq(Encode(request), 1, k)
      <4>1. link[n] \in Link /\ link[n].up \in Seq(Cell)
        BY <3>1 DEF Link
      <4>2. link' = [link EXCEPT ![n].up = @ \o sent, ![n].clientOpen = FALSE]
        BY <2>2
      <4> HIDE DEF sent
      <4>3. link[n].up \o sent \in Seq(Cell)
        BY <2>5, <4>1, ConcatCells DEF sent
      <4>4. [link EXCEPT ![n].up = link[n].up \o sent, ![n].clientOpen = FALSE]
              \in [Links -> Link]
        BY <3>1, <4>3, LinkChanges
      <4> QED BY <4>2, <4>4
    <3>2. CASE n \notin Links
      BY <2>2, <3>2
    <3> QED BY <3>1, <3>2
  <2> QED BY <1>7, <2>6 DEF DieSending, serverVars
<1> QED
  BY <1>1, <1>2, <1>3, <1>4, <1>6, <1>7

\* The streams and the buffer are sequences of cells to begin with.
LEMMA StreamStart == Init => StreamInv
<1>1. << >> \in Seq(Cell) /\ << >> \in Seq(Links)
  OBVIOUS
<1>2. NoLink \in Link
  BY <1>1 DEF NoLink, Link
<1> QED BY <1>1, <1>2 DEF Init, StreamInv

\* They stay so, whoever sends what.
LEMMA StreamStep == StreamInv /\ [Next]_vars => StreamInv'
<1> SUFFICES ASSUME StreamInv, [Next]_vars PROVE StreamInv'
  OBVIOUS
<1>1. ASSUME NEW c \in Clients,
             \/ Connect(c) \/ Call(c) \/ SendMalformed(c) \/ Receive(c)
             \/ Exit(c) \/ Die(c) \/ DieSending(c)
      PROVE  StreamInv'
  BY <1>1, ClientStep
<1>2. CASE Accept
  <2>1. backlog \in Seq(Links) /\ backlog # << >>
    BY <1>2 DEF Accept, StreamInv
  <2>2. Head(backlog) \in Links /\ Tail(backlog) \in Seq(Links)
    BY <2>1, HeadTailProperties
  <2>3. << >> \in Seq(Cell)
    OBVIOUS
  <2> QED BY <1>2, <2>2, <2>3 DEF Accept, StreamInv
<1>3. CASE TakeFrame
  <2>1. received \in Seq(Cell) /\ Decode(received).result = "Frame"
    BY <1>3 DEF TakeFrame, StreamInv
  <2>2. /\ Decode(received).frame \in Frame
        /\ Decode(received).consumed \in HeaderSize .. Len(received)
    BY <2>1, DecodeType
  <2>3. Decode(received).consumed \in 0 .. Len(received)
    BY <2>1, <2>2 DEF HeaderSize
  <2>4. Drop(received, Decode(received).consumed) \in Seq(Cell)
    BY <2>1, <2>3, DropCells
  <2> QED BY <1>3, <2>2, <2>4 DEF TakeFrame, StreamInv
<1>4. CASE ReceiveMore
  <2>1. PICK k \in Pieces(link[serving].up) :
          /\ received' = received \o SubSeq(link[serving].up, 1, k)
          /\ link' = [link EXCEPT ![serving].up = Drop(@, k)]
    BY <1>4 DEF ReceiveMore
  <2>2. serving \in Links /\ link[serving].up \in Seq(Cell)
    BY <1>4 DEF ReceiveMore, StreamInv, Link
  <2>3. /\ SubSeq(link[serving].up, 1, k) \in Seq(Cell)
        /\ Drop(link[serving].up, k) \in Seq(Cell)
    BY <2>2, PieceCells
  <2>4. received' \in Seq(Cell)
    BY <2>1, <2>3, ConcatCells DEF StreamInv
  <2>5. link' \in [Links -> Link]
    BY <2>1, <2>2, <2>3 DEF StreamInv, Link
  <2> QED BY <1>4, <2>4, <2>5 DEF ReceiveMore, StreamInv
<1>5. ASSUME Hangup PROVE StreamInv'
  BY <1>5 DEF Hangup, StreamInv, Link
<1>6. CASE PeerGone \/ Reject \/ SendFails
  BY <1>5, <1>6 DEF PeerGone, Reject, SendFails
<1>7. CASE Dispatch
  <2>1. PICK answer \in Answers(frame) :
          frame' = [type |-> frame.type, payload |-> answer.payload]
    BY <1>7 DEF Dispatch
  <2>2. frame.type \in KnownTypes /\ answer.payload \in Seq(Cell)
    <3>1. frame.type \in KnownTypes
      BY <1>7 DEF Dispatch, StreamInv, Frame
    <3>2. ASSUME NEW found \in Snapshots
          PROVE  << Ok >> \o EncodeStatus(found) \in Seq(Cell)
      <4>1. EncodeStatus(found) \in Seq(Cell) /\ << Ok >> \in Seq(Cell)
        BY EncodeStatusCells, SessionAssumption DEF Ok, Cell
      <4> QED BY <4>1, ConcatCells
    <3>3. ASSUME NEW status \in Statuses
          PROVE  << status >> \in Seq(Cell)
      BY DEF Statuses, Ok, Error, Cell
    <3>4. CASE frame = StatusRequest
      <4>1. PICK found \in Snapshots :
              answer = [payload |-> << Ok >> \o EncodeStatus(found), status |-> found]
        BY <3>4 DEF Answers
      <4> QED BY <3>1, <3>2, <4>1
    <3>5. CASE frame # StatusRequest
      <4>1. PICK status \in Statuses : answer = [payload |-> << status >>, status |-> None]
        BY <3>5 DEF Answers
      <4> QED BY <3>1, <3>3, <4>1
    <3> QED BY <3>4, <3>5
  <2>3. frame' \in Frame
    BY <2>1, <2>2 DEF Frame
  <2> QED BY <1>7, <2>3 DEF Dispatch, StreamInv
<1>8. CASE SendResponse
  <2>1. /\ frame \in Frame /\ serving \in Links
        /\ link[serving].down \in Seq(Cell)
    BY <1>8 DEF SendResponse, StreamInv, Link
  <2>2. Encode(frame) \in Seq(Cell)
    BY <2>1, EncodeType
  <2>3. link[serving].down \o Encode(frame) \in Seq(Cell)
    BY <2>1, <2>2, ConcatCells
  <2>4. CASE link[serving].clientOpen
    <3> DEFINE answer == Encode(frame)
    <3>1. link' = [link EXCEPT ![serving].down = @ \o answer]
      BY <1>8, <2>4 DEF SendResponse
    <3>2. link[serving].down \o answer \in Seq(Cell)
      BY <2>3
    <3> HIDE DEF answer
    <3>3. link' \in [Links -> Link]
      BY <2>1, <3>1, <3>2 DEF StreamInv, Link
    <3> QED BY <1>8, <3>3 DEF SendResponse, StreamInv
  <2>5. CASE ~link[serving].clientOpen
    <3>1. link' = [link EXCEPT ![serving].lost = TRUE]
      BY <1>8, <2>5 DEF SendResponse
    <3>2. link' \in [Links -> Link]
      BY <2>1, <3>1 DEF StreamInv, Link
    <3> QED BY <1>8, <3>2 DEF SendResponse, StreamInv
  <2> QED BY <2>4, <2>5
<1>9. CASE UNCHANGED vars
  BY <1>9 DEF vars, StreamInv
<1> QED
  BY <1>1, <1>2, <1>3, <1>4, <1>6, <1>7, <1>8, <1>9 DEF Next, Serve

\* So the streams and the buffer are sequences of cells.
LEMMA StreamInvariance == Spec => []StreamInv
BY StreamStart, StreamStep, PTL DEF Spec

\* Whatever any number of peers send, the serving loop never waits for more
\* than the longest frame (frame_codec.hpp 38-40, main.cpp 69-84).
THEOREM BufferBoundedCorrect == Spec => []BufferBounded
<1>1. StreamInv => BufferBounded
  BY IncompleteIsShort DEF StreamInv, BufferBounded
<1> QED
  BY <1>1, StreamInvariance, PTL

-------------------------------------------------------------------------------
(* Requests and answers: the invariant behind the three promises below.    *)
(* Seen from a connection, the server has read some of the cells its client*)
(* sent and has, or has not, a request of it in hand.                      *)

Buffer(n) == IF serving = n THEN received ELSE << >>

Pending(n) == Buffer(n) \o link[n].up

Handling(n) == IF serving = n /\ pc \in {"dispatch", "send"} THEN pc ELSE "nothing"

Held(n) == IF Handling(n) = "nothing" THEN None ELSE frame

(* No part of these cells is a frame; they are one whole frame.            *)
NoFrame(bytes) ==
  \A k \in 0 .. Len(bytes) : Decode(SubSeq(bytes, 1, k)).result # "Frame"

OneFrame(bytes) ==
  /\ Decode(bytes).result = "Frame" /\ Decode(bytes).consumed = Len(bytes)
  /\ \A k \in 0 .. Len(bytes) - 1 : Decode(SubSeq(bytes, 1, k)).result # "Frame"

(* At most one request of a connection is under way, on its way or in hand,*)
(* and a connection that has been reset has nothing left to be answered.   *)
OneRequest(there, handling, pending) ==
  there.serverOpen =>
    /\ NoFrame(pending) \/ (OneFrame(pending) /\ handling = "nothing" /\ ~there.lost)
    /\ handling # "nothing" => ~there.lost

(* What dispatch answers to a request, and what its client makes of it.    *)
AnswersTo(request) ==
  { [frame |-> [type |-> request.type, payload |-> answer.payload], status |-> answer.status] :
      answer \in Answers(request) }

Told(answer) ==
  IF answer.frame.payload[1] = Ok
  THEN [result |-> "Ok", frame |-> answer.frame, status |-> answer.status]
  ELSE [result |-> "ServerReportedError", frame |-> None, status |-> None]

(* The states of a connection whose client is there: nobody is waiting;    *)
(* the request is on its way, or in hand; its answer is in hand, or on its *)
(* way; a peer of another make waits for nothing.                          *)
AtRest(c, me, there, handling, pending) ==
  /\ me.phase = "idle" /\ there.serverOpen /\ ~there.lost
  /\ handling = "nothing" /\ pending = << >> /\ me.got = << >> /\ there.down = << >>
  /\ \/ me.asked = None /\ me.outcome = None
     \/ /\ me.asked \in Requests(c) /\ me.times = 1
        /\ me.answer \in AnswersTo(me.asked) /\ me.outcome = Told(me.answer)

Asking(c, me, there, handling, held, pending) ==
  /\ me.phase = "waiting" /\ there.serverOpen /\ ~there.lost
  /\ me.asked \in Requests(c) /\ me.times = 0 /\ me.outcome = None
  /\ me.got = << >> /\ there.down = << >>
  /\ \/ handling = "nothing" /\ pending = Encode(me.asked)
     \/ handling = "dispatch" /\ held = me.asked /\ pending = << >>

Answered(c, me, there, handling, held, pending) ==
  /\ me.phase = "waiting" /\ there.serverOpen /\ ~there.lost
  /\ me.asked \in Requests(c) /\ me.times = 1 /\ me.outcome = None
  /\ me.answer \in AnswersTo(me.asked) /\ me.got \in Seq(Cell) /\ pending = << >>
  /\ \/ handling = "send" /\ held = me.answer.frame /\ me.got = << >> /\ there.down = << >>
     \/ handling = "nothing" /\ me.got \o there.down = Encode(me.answer.frame)

Foreign(me, there, handling, pending) ==
  /\ me.phase = "waiting" /\ me.asked = None /\ me.outcome = None
  /\ handling = "nothing" /\ me.got = << >> /\ there.down = << >> /\ ~there.lost
  /\ there.serverOpen => NoFrame(pending)

Conversation(c, me, there, handling, held, pending) ==
  \/ AtRest(c, me, there, handling, pending)
  \/ Asking(c, me, there, handling, held, pending)
  \/ Answered(c, me, there, handling, held, pending)
  \/ Foreign(me, there, handling, pending)

(* The connection being served and those that wait are open and distinct.  *)
ServerInv ==
  /\ pc # "killed"
  /\ pc = "accept" <=> serving = None
  /\ \A i \in 1 .. Len(backlog) : link[backlog[i]].serverOpen /\ backlog[i] # serving
  /\ \A i, j \in 1 .. Len(backlog) : backlog[i] = backlog[j] => i = j
  /\ serving # None => link[serving].serverOpen

LinkInv(n) ==
  /\ OneRequest(link[n], Handling(n), Pending(n))
  /\ link[n].clientOpen =>
       /\ link[n].user \in Clients
       /\ client[link[n].user].on = n
       /\ Conversation(link[n].user, client[link[n].user], link[n],
                       Handling(n), Held(n), Pending(n))

(* A client as a record, and on a connection of its own.                   *)
ClientInv(c) ==
  /\ client[c] = [ phase |-> client[c].phase, on |-> client[c].on, got |-> client[c].got,
                   outcome |-> client[c].outcome, asked |-> client[c].asked,
                   times |-> client[c].times, answer |-> client[c].answer ]
  /\ IF client[c].phase = "off" THEN client[c] = NoClient
     ELSE /\ client[c].on \in Links
          /\ link[client[c].on].clientOpen /\ link[client[c].on].user = c

\* One request of each connection at a time, and its answer is what its client
\* is told (main.cpp 158-194, client.cpp 63-116).
SessionInv ==
  /\ StreamInv
  /\ ServerInv
  /\ DOMAIN client = Clients /\ client = [c \in Clients |-> client[c]]
  /\ \A n \in Links : LinkInv(n)
  /\ \A c \in Clients : ClientInv(c)

-------------------------------------------------------------------------------
(* What moves along a stream. *)

\* Nothing before or after a stream.
LEMMA NothingAdded ==
  ASSUME NEW s \in Seq(Cell)
  PROVE  << >> \o s = s /\ s \o << >> = s
BY ConcatEmptySeq

\* A piece that is received leaves what is on the way and what has come the same
\* cells as before.
LEMMA PieceMoves ==
  ASSUME NEW s \in Seq(Cell), NEW t \in Seq(Cell), NEW k \in Pieces(t)
  PROVE  (s \o SubSeq(t, 1, k)) \o Drop(t, k) = s \o t
<1> DEFINE piece == SubSeq(t, 1, k)
           rest == Drop(t, k)
           both == s \o piece
<1>1. Len(s) \in Nat /\ Len(t) \in Nat /\ k \in 1 .. Len(t)
  BY DEF Pieces
<1>2. /\ piece \in Seq(Cell) /\ Len(piece) = k - 1 + 1
      /\ \A i \in 1 .. k - 1 + 1 : piece[i] = t[1 + i - 1]
  <2>1. 1 \in 1 .. Len(t) + 1 /\ k \in 1 - 1 .. Len(t)
    BY <1>1
  <2> QED BY <2>1, SubSeqCells
<1>3. /\ rest \in Seq(Cell) /\ Len(rest) = Len(t) - (k + 1) + 1
      /\ \A i \in 1 .. Len(t) - (k + 1) + 1 : rest[i] = t[k + 1 + i - 1]
  <2>1. k + 1 \in 1 .. Len(t) + 1 /\ Len(t) \in (k + 1) - 1 .. Len(t)
    BY <1>1
  <2>2. /\ SubSeq(t, k + 1, Len(t)) \in Seq(Cell)
        /\ Len(SubSeq(t, k + 1, Len(t))) = Len(t) - (k + 1) + 1
        /\ \A i \in 1 .. Len(t) - (k + 1) + 1 :
             SubSeq(t, k + 1, Len(t))[i] = t[k + 1 + i - 1]
    BY <2>1, SubSeqCells
  <2> QED BY <2>2 DEF Drop
<1> HIDE DEF piece, rest
<1>4. /\ both \in Seq(Cell) /\ Len(both) = Len(s) + Len(piece)
      /\ \A i \in 1 .. Len(s) + Len(piece) :
           both[i] = IF i <= Len(s) THEN s[i] ELSE piece[i - Len(s)]
  BY <1>2, ConcatCells
<1> HIDE DEF both
<1>5. /\ both \o rest \in Seq(Cell) /\ Len(both \o rest) = Len(both) + Len(rest)
      /\ \A i \in 1 .. Len(both) + Len(rest) :
           (both \o rest)[i] = IF i <= Len(both) THEN both[i] ELSE rest[i - Len(both)]
  BY <1>3, <1>4, ConcatCells
<1>6. /\ s \o t \in Seq(Cell) /\ Len(s \o t) = Len(s) + Len(t)
      /\ \A i \in 1 .. Len(s) + Len(t) :
           (s \o t)[i] = IF i <= Len(s) THEN s[i] ELSE t[i - Len(s)]
  BY ConcatCells
<1>7. Len(both \o rest) = Len(s \o t)
  BY <1>1, <1>2, <1>3, <1>4, <1>5, <1>6
<1>8. ASSUME NEW i \in 1 .. Len(s \o t)
      PROVE  (both \o rest)[i] = (s \o t)[i]
  <2>1. i \in 1 .. Len(s) + Len(t) /\ i \in 1 .. Len(both) + Len(rest)
    BY <1>1, <1>5, <1>6, <1>7
  <2>2. CASE i <= Len(s)
    <3>1. i <= Len(both) /\ i \in 1 .. Len(s) + Len(piece)
      BY <1>1, <1>2, <1>4, <2>1, <2>2
    <3> QED BY <1>4, <1>5, <1>6, <2>1, <2>2, <3>1
  <2>3. CASE ~(i <= Len(s)) /\ i <= Len(s) + k
    <3>1. i <= Len(both) /\ i \in 1 .. Len(s) + Len(piece)
          /\ i - Len(s) \in 1 .. k - 1 + 1 /\ 1 + (i - Len(s)) - 1 = i - Len(s)
      BY <1>1, <1>2, <1>4, <2>1, <2>3
    <3>2. piece[i - Len(s)] = t[i - Len(s)]
      BY <1>2, <3>1
    <3> QED BY <1>4, <1>5, <1>6, <2>1, <2>3, <3>1, <3>2
  <2>4. CASE ~(i <= Len(s) + k)
    <3>1. ~(i <= Len(both)) /\ ~(i <= Len(s)) /\ i - Len(both) = i - Len(s) - k
          /\ i - Len(both) \in 1 .. Len(t) - (k + 1) + 1
          /\ k + 1 + (i - Len(both)) - 1 = i - Len(s)
      BY <1>1, <1>2, <1>4, <2>1, <2>4
    <3>2. rest[i - Len(both)] = t[i - Len(s)]
      BY <1>3, <3>1
    <3> QED BY <1>5, <1>6, <2>1, <3>1, <3>2
  <2> QED BY <2>2, <2>3, <2>4
<1>9. both \o rest = s \o t
  BY <1>5, <1>6, <1>7, <1>8, SeqEqual
<1> QED
  BY <1>9 DEF both, piece, rest

\* What has been received is the beginning of what was sent.
LEMMA ReceivedIsPrefix ==
  ASSUME NEW s \in Seq(Cell), NEW t \in Seq(Cell)
  PROVE  SubSeq(s \o t, 1, Len(s)) = s
<1>1. /\ s \o t \in Seq(Cell) /\ Len(s \o t) = Len(s) + Len(t)
      /\ \A i \in 1 .. Len(s) + Len(t) :
           (s \o t)[i] = IF i <= Len(s) THEN s[i] ELSE t[i - Len(s)]
  BY ConcatCells
<1>2. Len(s) \in Nat /\ Len(t) \in Nat
  OBVIOUS
<1>3. \A i \in 1 .. Len(s) : (s \o t)[0 + i] = s[i]
  BY <1>1, <1>2
<1>4. 0 \in Nat /\ 0 + Len(s) <= Len(s \o t)
  BY <1>1, <1>2
<1>5. SubSeq(s \o t, 0 + 1, 0 + Len(s)) = s
  BY <1>1, <1>3, <1>4, StretchIs
<1> QED
  BY <1>2, <1>5

\* A stream of which nothing is there, and a stream of which all is.
LEMMA AllReceived ==
  ASSUME NEW s \in Seq(Cell), NEW t \in Seq(Cell)
  PROVE  /\ s \o t = << >> => s = << >> /\ t = << >>
         /\ Len(s) = Len(s \o t) => t = << >> /\ s \o t = s
<1>1. Len(s \o t) = Len(s) + Len(t) /\ Len(s) \in Nat /\ Len(t) \in Nat
  BY ConcatCells
<1>2. Len(s \o t) = 0 => s = << >> /\ t = << >>
  BY <1>1, EmptySeq
<1>3. Len(s) = Len(s \o t) => t = << >>
  BY <1>1, EmptySeq
<1>4. s \o << >> = s
  BY NothingAdded
<1> QED
  BY <1>2, <1>3, <1>4

\* All that is dropped leaves nothing.
LEMMA DropAll ==
  ASSUME NEW s \in Seq(Cell)
  PROVE  Drop(s, Len(s)) = << >>
BY DEF Drop

\* The beginning of a beginning.
LEMMA PrefixOfPrefix ==
  ASSUME NEW s \in Seq(Cell), NEW k \in 0 .. Len(s), NEW j \in 0 .. k
  PROVE  /\ Len(SubSeq(s, 1, k)) = k
         /\ SubSeq(SubSeq(s, 1, k), 1, j) = SubSeq(s, 1, j)
<1> DEFINE p == SubSeq(s, 1, k)
           q == SubSeq(s, 1, j)
<1>1. Len(s) \in Nat /\ k \in Nat /\ j \in Nat /\ j <= k /\ k <= Len(s)
  OBVIOUS
<1>2. /\ p \in Seq(Cell) /\ Len(p) = k - 1 + 1
      /\ \A i \in 1 .. k - 1 + 1 : p[i] = s[1 + i - 1]
  <2>1. 1 \in 1 .. Len(s) + 1 /\ k \in 1 - 1 .. Len(s)
    BY <1>1
  <2> QED BY <2>1, SubSeqCells
<1>3. /\ q \in Seq(Cell) /\ Len(q) = j - 1 + 1
      /\ \A i \in 1 .. j - 1 + 1 : q[i] = s[1 + i - 1]
  <2>1. 1 \in 1 .. Len(s) + 1 /\ j \in 1 - 1 .. Len(s)
    BY <1>1
  <2> QED BY <2>1, SubSeqCells
<1> HIDE DEF p, q
<1>4. Len(p) = k /\ Len(q) = j /\ 0 + Len(q) = j /\ 0 + 1 = 1 /\ 0 + Len(q) <= Len(p)
  BY <1>1, <1>2, <1>3
<1>5. ASSUME NEW i \in 1 .. Len(q) PROVE p[0 + i] = q[i]
  <2>1. i \in 1 .. k - 1 + 1 /\ i \in 1 .. j - 1 + 1 /\ 1 + i - 1 = i /\ 0 + i = i
    BY <1>1, <1>4
  <2> QED BY <1>2, <1>3, <2>1
<1>6. SubSeq(p, 0 + 1, 0 + Len(q)) = q
  BY <1>2, <1>3, <1>4, <1>5, StretchIs
<1> QED
  BY <1>4, <1>6 DEF p, q

-------------------------------------------------------------------------------
(* Requests and answers as frames. *)

ShortFrame == { f \in Frame : Len(f.payload) <= MaxPayload }

\* A command's frame is short enough to be sent.
LEMMA RequestIsShort ==
  ASSUME NEW command \in Command
  PROVE  BuildRequestFrame(command) \in ShortFrame
<1>1. BuildRequestFrame(command) \in Frame
  BY RequestFrame
<1>2. BuildRequestFrame(command).payload
        = IF command.kind = "MoveJoint"
          THEN << command.joint, Radians(command.degrees) >> ELSE << >>
  BY DEF BuildRequestFrame, EncodeMoveJoint
<1>3. Len(BuildRequestFrame(command).payload) \in {0, 2}
  BY <1>2
<1>4. \A n \in {0, 2} : n <= MaxPayload
  BY FitsAssumption, CodecAssumption
<1> QED
  BY <1>1, <1>3, <1>4 DEF ShortFrame

\* Every client's requests are short frames, the request for the status is one,
\* and no request is None.
LEMMA RequestsAreShort ==
  ASSUME NEW c
  PROVE  Requests(c) \subseteq ShortFrame /\ None \notin Requests(c)
<1>1. StatusRequest \in ShortFrame
  <2>1. Plain("Status") \in Command
    BY DEF Plain, Command, Kinds
  <2> QED BY <2>1, RequestIsShort DEF StatusRequest
<1>2. ASSUME NEW args \in Accepted
      PROVE  BuildRequestFrame(ParseArgs(args).command) \in ShortFrame
  <2>1. ParseArgs(args).command \in Command
    BY ParsedCommand DEF Accepted
  <2> QED BY <2>1, RequestIsShort
<1>3. Requests(c) \subseteq ShortFrame
  BY <1>1, <1>2 DEF Requests
<1> QED
  BY <1>3, SessionAssumption DEF ShortFrame

\* An encoded frame is one frame, and a part of it is none.
LEMMA EncodedIsOneFrame ==
  ASSUME NEW f \in ShortFrame
  PROVE  /\ Encode(f) \in Seq(Cell) /\ Encode(f) # << >>
         /\ OneFrame(Encode(f))
         /\ Decode(Encode(f)).frame = f
         /\ \A k \in 0 .. Len(Encode(f)) - 1 :
              IsIncomplete(SubSeq(Encode(f), 1, k)) /\ NoFrame(SubSeq(Encode(f), 1, k))
<1> DEFINE all == Encode(f)
<1>1. f \in Frame /\ Len(f.payload) <= MaxPayload
  BY DEF ShortFrame
<1>2. << >> \in Seq(Cell) /\ Len(<< >>) = 0
  OBVIOUS
<1>3. all \in Seq(Cell) /\ Len(all) \in Nat
  BY <1>1, EncodeType
<1>4. Len(all) > 0
  <2>1. Len(all) = HeaderSize + Len(f.payload)
    BY <1>1, <1>2, EncodeCells
  <2>2. Len(f.payload) \in Nat
    BY <1>1 DEF Frame
  <2> QED BY <2>1, <2>2 DEF HeaderSize
<1>5. all \o << >> = all
  BY <1>3, NothingAdded
<1>6. Decode(all) = [result |-> "Frame", consumed |-> Len(all), frame |-> f]
  BY <1>1, <1>2, <1>5, DecodeEncode
<1>7. ASSUME NEW k \in 0 .. Len(all) - 1
      PROVE  IsIncomplete(SubSeq(all, 1, k))
  <2>1. k \in Nat /\ k < Len(all)
    BY <1>3
  <2> QED BY <1>1, <2>1, PrefixIncomplete
<1>8. ASSUME NEW k \in 0 .. Len(all) - 1
      PROVE  NoFrame(SubSeq(all, 1, k))
  <2> DEFINE part == SubSeq(all, 1, k)
  <2>1. k \in 0 .. Len(all)
    BY <1>3
  <2>2. Len(part) = k
    <3>1. k \in 0 .. k
      BY <2>1
    <3> HIDE DEF all
    <3> QED BY <1>3, <2>1, <3>1, PrefixOfPrefix
  <2>3. ASSUME NEW j \in 0 .. k
        PROVE  Decode(SubSeq(part, 1, j)).result # "Frame"
    <3>1. SubSeq(part, 1, j) = SubSeq(all, 1, j)
      <4> HIDE DEF all
      <4> QED BY <1>3, <2>1, PrefixOfPrefix
    <3>2. j \in 0 .. Len(all) - 1
      BY <1>3
    <3>3. IsIncomplete(SubSeq(all, 1, j))
      BY <1>7, <3>2
    <3> QED BY <3>1, <3>3 DEF IsIncomplete
  <2> HIDE DEF part
  <2>4. NoFrame(part)
    BY <2>2, <2>3 DEF NoFrame
  <2> QED BY <2>4 DEF part
<1>9. OneFrame(all)
  <2> HIDE DEF all
  <2> QED BY <1>6, <1>7 DEF OneFrame, IsIncomplete
<1>10. all # << >>
  BY <1>2, <1>4
<1> QED
  BY <1>3, <1>6, <1>7, <1>8, <1>9, <1>10

\* Nothing is no frame, and incomplete.
LEMMA NothingIsNoFrame == NoFrame(<< >>) /\ IsIncomplete(<< >>)
<1>1. Len(<< >>) = 0
  OBVIOUS
<1>2. Decode(<< >>).result = "Incomplete"
  BY <1>1 DEF Decode, Refused, HeaderSize
<1>3. \A k \in 0 .. 0 : SubSeq(<< >>, 1, k) = << >>
  <2>1. << >> \in Seq(Cell)
    OBVIOUS
  <2>2. 1 \in 1 .. Len(<< >>) + 1 /\ 0 \in 1 - 1 .. Len(<< >>)
    OBVIOUS
  <2>3. SubSeq(<< >>, 1, 0) \in Seq(Cell) /\ Len(SubSeq(<< >>, 1, 0)) = 0 - 1 + 1
    BY <2>1, <2>2, SubSeqCells
  <2>4. SubSeq(<< >>, 1, 0) = << >>
    BY <2>3, EmptySeq
  <2> QED BY <2>4
<1> QED
  BY <1>1, <1>2, <1>3 DEF NoFrame, IsIncomplete

\* What is received of cells that hold no frame is none; of cells that are one
\* frame it is a frame only when all of them are there.
LEMMA ReceivedFrame ==
  ASSUME NEW s \in Seq(Cell), NEW t \in Seq(Cell), Decode(s).result = "Frame"
  PROVE  /\ ~NoFrame(s \o t)
         /\ OneFrame(s \o t) => /\ t = << >> /\ s \o t = s
                                /\ Decode(s).consumed = Len(s)
<1> DEFINE all == s \o t
<1>1. all \in Seq(Cell) /\ Len(all) = Len(s) + Len(t) /\ Len(s) \in Nat /\ Len(t) \in Nat
  BY ConcatCells
<1>2. SubSeq(all, 1, Len(s)) = s
  BY ReceivedIsPrefix
<1>3. ~NoFrame(all)
  <2>1. Len(s) \in 0 .. Len(all)
    BY <1>1
  <2> HIDE DEF all
  <2> QED BY <1>2, <2>1 DEF NoFrame
<1>4. ASSUME OneFrame(all)
      PROVE  t = << >> /\ all = s /\ Decode(s).consumed = Len(s)
  <2>1. ~(Len(s) \in 0 .. Len(all) - 1)
    <3> HIDE DEF all
    <3> QED BY <1>2, <1>4 DEF OneFrame
  <2>2. Len(s) = Len(all)
    BY <1>1, <2>1
  <2>3. t = << >> /\ all = s
    BY <2>2, AllReceived
  <2> HIDE DEF all
  <2> QED BY <1>4, <2>3 DEF OneFrame
<1> QED
  BY <1>3, <1>4

\* What a client makes of the whole answer is what it is told, and before that
\* the answer is incomplete to it (client.cpp 77-116).
LEMMA AnswerIsUnderstood ==
  ASSUME NEW c, NEW request \in Requests(c), NEW answer \in AnswersTo(request)
  PROVE  /\ answer.frame \in ShortFrame
         /\ Understood(request, Encode(answer.frame)) = Told(answer)
<1>1. PICK found \in Answers(request) :
        answer = [frame |-> [type |-> request.type, payload |-> found.payload],
                  status |-> found.status]
  BY DEF AnswersTo
<1>2. request \in ShortFrame /\ request.type \in KnownTypes
  BY RequestsAreShort DEF ShortFrame, Frame
<1> DEFINE f == answer.frame
           decoded == Decode(Encode(f))
<1>3. f.type = request.type /\ f.payload = found.payload /\ answer.status = found.status
      /\ f = [type |-> request.type, payload |-> found.payload]
  BY <1>1
<1>4. ASSUME found.payload \in Seq(Cell), Len(found.payload) <= MaxPayload
      PROVE  f \in ShortFrame /\ decoded.result = "Frame" /\ decoded.frame = f
  <2>1. f \in ShortFrame
    BY <1>2, <1>3, <1>4 DEF ShortFrame, Frame
  <2> HIDE DEF f
  <2> QED BY <2>1, EncodedIsOneFrame DEF OneFrame
<1>5. CASE request = StatusRequest
  <2>1. PICK status \in Snapshots :
          found = [payload |-> << Ok >> \o EncodeStatus(status), status |-> status]
    BY <1>5 DEF Answers
  <2> DEFINE body == EncodeStatus(status)
             whole == << Ok >> \o body
             content == Drop(whole, 1)
  <2>2. status \in StatusPayload /\ body \in Seq(Cell) /\ Len(body) < MaxPayload
    BY EncodeStatusCells, SessionAssumption, FitsAssumption
  <2>3. << Ok >> \in Seq(Cell) /\ Len(<< Ok >>) = 1 /\ << Ok >>[1] = Ok
    BY DEF Ok, Cell
  <2> HIDE DEF body
  <2>4. /\ whole \in Seq(Cell) /\ Len(whole) = 1 + Len(body) /\ Len(body) \in Nat
        /\ \A i \in 1 .. 1 + Len(body) : whole[i] = IF i <= 1 THEN << Ok >>[i] ELSE body[i - 1]
    BY <2>2, <2>3, ConcatCells
  <2>5. whole[1] = Ok /\ whole # << >>
    <3>1. 1 \in 1 .. 1 + Len(body)
      BY <2>4
    <3>2. whole[1] = Ok
      BY <2>3, <2>4, <3>1
    <3>3. Len(whole) # 0
      BY <2>4
    <3> QED BY <3>2, <3>3
  <2>6. content = body
    <3> HIDE DEF whole
    <3>1. \A i \in 1 .. Len(body) : whole[1 + i] = body[i]
      BY <2>4
    <3>2. 1 + Len(body) <= Len(whole) /\ 1 \in Nat
      BY <2>4
    <3>3. SubSeq(whole, 1 + 1, 1 + Len(body)) = body
      BY <2>2, <2>4, <3>1, <3>2, StretchIs
    <3> QED BY <2>4, <3>3 DEF Drop
  <2>7. ~Truncated(body) /\ DecodeStatus(body) = status
    <3>1. << >> \in Seq(Cell)
      OBVIOUS
    <3>2. body \o << >> = body
      BY <2>2, NothingAdded
    <3>3. LET bytes == EncodeStatus(status) \o << >>
          IN ~Truncated(bytes) /\ DecodeStatus(bytes) = status
      BY <2>2, <3>1, FitsAssumption, StatusDecodeEncode
    <3> QED BY <3>2, <3>3 DEF body
  <2>8. found = [payload |-> whole, status |-> status] /\ f.payload = whole
    BY <1>3, <2>1 DEF body
  <2> HIDE DEF whole
  <2>9. Len(whole) <= MaxPayload
    BY <2>2, <2>4, CodecAssumption
  <2>10. f \in ShortFrame /\ decoded.result = "Frame" /\ decoded.frame = f
    BY <1>4, <2>4, <2>8, <2>9
  <2> HIDE DEF decoded, f
  <2>11. Understood(request, Encode(f)) =
           [result |-> "Ok", frame |-> f, status |-> status]
    BY <1>3, <1>5, <2>5, <2>6, <2>7, <2>8, <2>10 DEF Understood, Ok, Error, decoded
  <2>12. Told(answer) = [result |-> "Ok", frame |-> f, status |-> status]
    BY <1>3, <2>5, <2>8 DEF Told, f
  <2> QED BY <2>10, <2>11, <2>12 DEF f
<1>6. CASE request # StatusRequest
  <2>1. PICK status \in Statuses : found = [payload |-> << status >>, status |-> None]
    BY <1>6 DEF Answers
  <2>2. /\ << status >> \in Seq(Cell) /\ Len(<< status >>) = 1 /\ << status >>[1] = status
        /\ << status >> # << >>
    BY DEF Statuses, Ok, Error, Cell
  <2>3. f \in ShortFrame /\ decoded.result = "Frame" /\ decoded.frame = f
    BY <1>4, <2>1, <2>2, FitsAssumption, CodecAssumption
  <2>4. f.payload = << status >> /\ answer.status = None /\ status \in {Ok, Error} /\ Ok # Error
    BY <1>3, <2>1 DEF Statuses, Ok, Error
  <2> HIDE DEF decoded, f
  <2>5. Understood(request, Encode(f)) =
          IF status = Error
          THEN [result |-> "ServerReportedError", frame |-> None, status |-> None]
          ELSE [result |-> "Ok", frame |-> f, status |-> None]
    BY <1>3, <1>6, <2>2, <2>3, <2>4 DEF Understood, decoded
  <2>6. Told(answer) =
          IF status = Ok THEN [result |-> "Ok", frame |-> f, status |-> None]
          ELSE [result |-> "ServerReportedError", frame |-> None, status |-> None]
    BY <2>2, <2>4 DEF Told, f
  <2> QED BY <2>3, <2>4, <2>5, <2>6 DEF f
<1> QED
  BY <1>5, <1>6

-------------------------------------------------------------------------------
(* The invariant is kept. *)

\* A connection that nobody touches keeps its part of the invariant.
LEMMA OtherLinks ==
  ASSUME NEW m \in Links, \A n \in Links : LinkInv(n), LinkInv(m)',
         \A n \in Links \ {m} :
           /\ link'[n] = link[n]
           /\ Handling(n)' = Handling(n) /\ Held(n)' = Held(n) /\ Pending(n)' = Pending(n)
           /\ link[n].clientOpen => client'[link[n].user] = client[link[n].user]
  PROVE  \A n \in Links : LinkInv(n)'
<1> SUFFICES ASSUME NEW n \in Links, n # m PROVE LinkInv(n)'
  OBVIOUS
<1>1. LinkInv(n)
  OBVIOUS
<1> DEFINE c == link[n].user
<1>2. /\ OneRequest(link[n], Handling(n), Pending(n))
      /\ link[n].clientOpen =>
           /\ c \in Clients /\ client[c].on = n
           /\ Conversation(c, client[c], link[n], Handling(n), Held(n), Pending(n))
  BY <1>1 DEF LinkInv
<1>3. /\ OneRequest(link[n], Handling(n)', Pending(n)')
      /\ link[n].clientOpen =>
           /\ c \in Clients /\ client'[c].on = n
           /\ Conversation(c, client'[c], link[n], Handling(n)', Held(n)', Pending(n)')
  BY <1>2
<1> QED
  BY <1>3 DEF LinkInv

\* A step of a client reaches its own connection only.
LEMMA ClientActs ==
  ASSUME SessionInv, NEW c \in Clients, NEW m \in Links,
         UNCHANGED << serving, received, pc, frame >>,
         link' = [link EXCEPT ![m] = link'[m]],
         client' = [client EXCEPT ![c] = client'[c]],
         IF client[c].phase = "off" THEN ~link[m].clientOpen ELSE client[c].on = m,
         LinkInv(m)', ClientInv(c)'
  PROVE  /\ \A n \in Links : LinkInv(n)'
         /\ \A d \in Clients : ClientInv(d)'
         /\ (DOMAIN client = Clients /\ client = [d \in Clients |-> client[d]])'
<1>1. /\ link \in [Links -> Link] /\ DOMAIN client = Clients
      /\ \A n \in Links : LinkInv(n)
      /\ \A d \in Clients : ClientInv(d)
  BY DEF SessionInv, StreamInv
<1>2. \A n \in Links \ {m} : link'[n] = link[n]
  BY <1>1
<1>3. \A d \in Clients \ {c} : client'[d] = client[d]
  BY <1>1
<1>4. ASSUME NEW n \in Links \ {m}
      PROVE  Handling(n)' = Handling(n) /\ Held(n)' = Held(n) /\ Pending(n)' = Pending(n)
  BY <1>2 DEF Handling, Held, Pending, Buffer
<1>5. ASSUME NEW n \in Links \ {m}, link[n].clientOpen
      PROVE  link[n].user \in Clients \ {c}
  <2>1. link[n].user \in Clients /\ client[link[n].user].on = n
    BY <1>1, <1>5 DEF LinkInv
  <2>2. client[c].phase = "off" => client[c].on = None
    BY <1>1 DEF ClientInv, NoClient
  <2> QED BY <2>1, <2>2, SessionAssumption
<1>6. \A n \in Links : LinkInv(n)'
  <2>1. \A n \in Links \ {m} :
           /\ link'[n] = link[n]
           /\ Handling(n)' = Handling(n) /\ Held(n)' = Held(n) /\ Pending(n)' = Pending(n)
           /\ link[n].clientOpen => client'[link[n].user] = client[link[n].user]
    BY <1>2, <1>3, <1>4, <1>5
  <2> QED BY <1>1, <2>1, OtherLinks
<1>7. ASSUME NEW d \in Clients, d # c
      PROVE  ClientInv(d)'
  <2>1. ClientInv(d) /\ ClientInv(c) /\ client'[d] = client[d]
    BY <1>1, <1>3, <1>7
  <2>2. CASE client[d].phase = "off"
    BY <2>1, <2>2 DEF ClientInv
  <2>3. CASE client[d].phase # "off"
    <3>1. /\ client[d].on \in Links /\ link[client[d].on].clientOpen
          /\ link[client[d].on].user = d
      BY <2>1, <2>3 DEF ClientInv
    <3>2. client[d].on # m
      BY <1>7, <2>1, <3>1 DEF ClientInv
    <3>3. link'[client[d].on] = link[client[d].on]
      BY <1>2, <3>1, <3>2
    <3> QED BY <2>1, <2>3, <3>1, <3>3 DEF ClientInv
  <2> QED BY <2>2, <2>3
<1>8. (DOMAIN client = Clients /\ client = [d \in Clients |-> client[d]])'
  BY <1>1
<1> QED
  BY <1>6, <1>7, <1>8

\* A step of the server reaches the connection being served only, and neither
\* closes it for its client nor gives it to another.
LEMMA ServerActs ==
  ASSUME SessionInv, NEW m \in Links, UNCHANGED client,
         link' = [link EXCEPT ![m] = link'[m]],
         link'[m].user = link[m].user, link'[m].clientOpen = link[m].clientOpen,
         serving \in {m, None}, serving' \in {m, None},
         LinkInv(m)'
  PROVE  /\ \A n \in Links : LinkInv(n)'
         /\ \A c \in Clients : ClientInv(c)'
         /\ (DOMAIN client = Clients /\ client = [d \in Clients |-> client[d]])'
<1>1. /\ link \in [Links -> Link] /\ DOMAIN client = Clients
      /\ client = [d \in Clients |-> client[d]]
      /\ \A n \in Links : LinkInv(n)
      /\ \A d \in Clients : ClientInv(d)
  BY DEF SessionInv, StreamInv
<1>2. \A n \in Links \ {m} : link'[n] = link[n]
  BY <1>1
<1>3. \A n \in Links : link'[n].user = link[n].user /\ link'[n].clientOpen = link[n].clientOpen
  BY <1>2
<1>4. ASSUME NEW n \in Links \ {m}
      PROVE  Handling(n)' = Handling(n) /\ Held(n)' = Held(n) /\ Pending(n)' = Pending(n)
  <2>1. serving # n /\ serving' # n
    BY SessionAssumption
  <2> QED BY <1>2, <2>1 DEF Handling, Held, Pending, Buffer
<1>5. \A n \in Links : LinkInv(n)'
  <2>1. \A n \in Links \ {m} :
           /\ link'[n] = link[n]
           /\ Handling(n)' = Handling(n) /\ Held(n)' = Held(n) /\ Pending(n)' = Pending(n)
           /\ link[n].clientOpen => client'[link[n].user] = client[link[n].user]
    BY <1>2, <1>4
  <2> QED BY <1>1, <2>1, OtherLinks
<1>6. ASSUME NEW c \in Clients
      PROVE  ClientInv(c)'
  <2>1. ClientInv(c)
    BY <1>1
  <2> QED BY <1>3, <2>1 DEF ClientInv
<1> QED
  BY <1>1, <1>5, <1>6

\* The server's own part, when a client has done something to one connection.
LEMMA ServerKept ==
  ASSUME SessionInv, NEW m \in Links, UNCHANGED << backlog, serving, pc >>,
         link' = [link EXCEPT ![m] = link'[m]], link'[m].serverOpen = link[m].serverOpen
  PROVE  ServerInv'
<1>1. link \in [Links -> Link] /\ backlog \in Seq(Links) /\ ServerInv
      /\ (pc \in {"receive", "dispatch", "send"} => serving \in Links)
      /\ pc \in {"accept", "receive", "dispatch", "send", "killed"}
  BY DEF SessionInv, StreamInv
<1>2. \A n \in Links : link'[n].serverOpen = link[n].serverOpen
  BY <1>1
<1>3. serving # None => serving \in Links
  BY <1>1 DEF ServerInv
<1>4. \A i \in 1 .. Len(backlog) : backlog[i] \in Links
  BY <1>1
<1> QED
  BY <1>1, <1>2, <1>3, <1>4 DEF ServerInv

\* What a client that is there finds: a connection of its own, in one of the
\* states of a conversation.
LEMMA ClientState ==
  ASSUME SessionInv, NEW c \in Clients, client[c].phase # "off"
  PROVE  LET n == client[c].on
         IN /\ n \in Links /\ link[n] \in Link /\ link[n].clientOpen /\ link[n].user = c
            /\ client[c] = [ phase |-> client[c].phase, on |-> n, got |-> client[c].got,
                             outcome |-> client[c].outcome, asked |-> client[c].asked,
                             times |-> client[c].times, answer |-> client[c].answer ]
            /\ OneRequest(link[n], Handling(n), Pending(n))
            /\ Conversation(c, client[c], link[n], Handling(n), Held(n), Pending(n))
            /\ Buffer(n) \in Seq(Cell) /\ link[n].up \in Seq(Cell) /\ link[n].down \in Seq(Cell)
<1> DEFINE n == client[c].on
<1>1. n \in Links /\ link[n].clientOpen /\ link[n].user = c /\ link[n] \in Link
      /\ client[c] = [ phase |-> client[c].phase, on |-> n, got |-> client[c].got,
                       outcome |-> client[c].outcome, asked |-> client[c].asked,
                       times |-> client[c].times, answer |-> client[c].answer ]
  BY DEF SessionInv, ClientInv, StreamInv
<1>2. LinkInv(n)
  BY <1>1 DEF SessionInv
<1>3. OneRequest(link[n], Handling(n), Pending(n))
      /\ Conversation(c, client[c], link[n], Handling(n), Held(n), Pending(n))
  BY <1>1, <1>2 DEF LinkInv
<1>4. Buffer(n) \in Seq(Cell)
  <2>1. << >> \in Seq(Cell)
    OBVIOUS
  <2> QED BY <2>1 DEF SessionInv, StreamInv, Buffer
<1> QED
  BY <1>1, <1>3, <1>4 DEF Link

\* A client that may call or send something has nothing under way.
LEMMA IdleIsAtRest ==
  ASSUME SessionInv, NEW c \in Clients, client[c].phase = "idle"
  PROVE  LET n == client[c].on
         IN /\ link[n].serverOpen /\ ~link[n].lost
            /\ Handling(n) = "nothing" /\ Held(n) = None
            /\ Buffer(n) = << >> /\ link[n].up = << >>
            /\ client[c].got = << >> /\ link[n].down = << >>
            /\ \/ client[c].asked = None /\ client[c].outcome = None
               \/ /\ client[c].asked \in Requests(c) /\ client[c].times = 1
                  /\ client[c].answer \in AnswersTo(client[c].asked)
                  /\ client[c].outcome = Told(client[c].answer)
<1> DEFINE n == client[c].on
<1>1. /\ Conversation(c, client[c], link[n], Handling(n), Held(n), Pending(n))
      /\ Buffer(n) \in Seq(Cell) /\ link[n].up \in Seq(Cell)
  BY ClientState
<1>2. AtRest(c, client[c], link[n], Handling(n), Pending(n))
  BY <1>1 DEF Conversation, Asking, Answered, Foreign
<1>3. Buffer(n) = << >> /\ link[n].up = << >>
  BY <1>1, <1>2, AllReceived DEF AtRest, Pending
<1> QED
  BY <1>2, <1>3 DEF AtRest, Held

\* What a client sends is pending, after what is already.
LEMMA SentIsPending ==
  ASSUME SessionInv, NEW n \in Links, NEW bytes \in Seq(Cell), UNCHANGED << serving, received, pc, frame >>,
         Buffer(n) = << >>, link[n].up = << >>, link'[n].up = link[n].up \o bytes
  PROVE  Handling(n)' = Handling(n) /\ Held(n)' = Held(n) /\ Pending(n)' = bytes
<1>1. Handling(n)' = Handling(n) /\ Held(n)' = Held(n) /\ Buffer(n)' = Buffer(n)
  BY DEF Handling, Held, Buffer
<1>2. << >> \o (<< >> \o bytes) = bytes
  BY NothingAdded
<1> QED
  BY <1>1, <1>2 DEF Pending

\* Connect keeps the invariant: the connection it takes is nobody's.
LEMMA ConnectKeeps ==
  ASSUME SessionInv, StreamInv', NEW c \in Clients, Connect(c)
  PROVE  SessionInv'
<1>1. PICK m \in Links :
        /\ Free(m)
        /\ link' = [link EXCEPT ![m] = [NoLink EXCEPT !.user = c,
                                          !.clientOpen = TRUE, !.serverOpen = TRUE]]
        /\ client' = [client EXCEPT ![c] = [NoClient EXCEPT !.phase = "idle", !.on = m]]
        /\ backlog' = Append(backlog, m)
  BY DEF Connect
<1>2. /\ link \in [Links -> Link] /\ DOMAIN client = Clients /\ backlog \in Seq(Links)
      /\ ServerInv /\ client[c].phase = "off"
      /\ UNCHANGED << serving, received, pc, frame >>
  BY DEF SessionInv, StreamInv, Connect
<1>3. link'[m] = [ user |-> c, up |-> << >>, down |-> << >>, clientOpen |-> TRUE,
                   serverOpen |-> TRUE, lost |-> FALSE ]
  BY <1>1, <1>2 DEF NoLink
<1>4. client'[c] = [ phase |-> "idle", on |-> m, got |-> << >>, outcome |-> None,
                     asked |-> None, times |-> 0, answer |-> None ]
  BY <1>1, <1>2 DEF NoClient
<1>5. serving # m /\ \A i \in 1 .. Len(backlog) : backlog[i] # m
  BY <1>1, <1>2, SessionAssumption DEF Free, ServerInv
<1>6. Handling(m)' = "nothing" /\ Pending(m)' = << >>
  <2>1. << >> \in Seq(Cell)
    OBVIOUS
  <2>2. << >> \o << >> = << >>
    BY <2>1, NothingAdded
  <2> QED BY <1>2, <1>3, <1>5, <2>2 DEF Handling, Pending, Buffer
<1>7. LinkInv(m)'
  <2>1. OneRequest(link[m], Handling(m), Pending(m))'
    BY <1>6, NothingIsNoFrame DEF OneRequest
  <2>2. AtRest(c, client'[c], link'[m], Handling(m)', Pending(m)')
    BY <1>3, <1>4, <1>6 DEF AtRest
  <2>3. Conversation(c, client'[c], link'[m], Handling(m)', Held(m)', Pending(m)')
    BY <2>2 DEF Conversation
  <2> QED BY <1>3, <1>4, <2>1, <2>3 DEF LinkInv
<1>8. ClientInv(c)'
  BY <1>3, <1>4 DEF ClientInv
<1>9. /\ \A n \in Links : LinkInv(n)'
      /\ \A d \in Clients : ClientInv(d)'
      /\ (DOMAIN client = Clients /\ client = [d \in Clients |-> client[d]])'
  <2>1. link' = [link EXCEPT ![m] = link'[m]] /\ client' = [client EXCEPT ![c] = client'[c]]
    BY <1>1, <1>2
  <2>2. ~link[m].clientOpen
    BY <1>1 DEF Free
  <2> QED BY <1>2, <1>7, <1>8, <2>1, <2>2, ClientActs
<1>10. ServerInv'
  <2>1. /\ Len(backlog') = Len(backlog) + 1 /\ Len(backlog) \in Nat
        /\ \A i \in 1 .. Len(backlog) : backlog'[i] = backlog[i] /\ backlog[i] \in Links
        /\ backlog'[Len(backlog) + 1] = m
    BY <1>1, <1>2, AppendProperties
  <2>2. \A i \in 1 .. Len(backlog') : i \in 1 .. Len(backlog) \/ i = Len(backlog) + 1
    BY <2>1
  <2>3. \A n \in Links : link[n].serverOpen => link'[n].serverOpen
    BY <1>1, <1>2, <1>3
  <2>4. /\ pc # "killed" /\ (pc = "accept" <=> serving = None)
        /\ \A i \in 1 .. Len(backlog) : link[backlog[i]].serverOpen /\ backlog[i] # serving
        /\ \A i, j \in 1 .. Len(backlog) : backlog[i] = backlog[j] => i = j
        /\ serving # None => link[serving].serverOpen
    BY <1>2 DEF ServerInv
  <2>5. serving # None => serving \in Links
    BY <2>4 DEF SessionInv, StreamInv
  <2>6. \A i \in 1 .. Len(backlog') : link'[backlog'[i]].serverOpen /\ backlog'[i] # serving
    BY <1>3, <1>5, <2>1, <2>2, <2>3, <2>4
  <2>7. \A i, j \in 1 .. Len(backlog') : backlog'[i] = backlog'[j] => i = j
    BY <1>5, <2>1, <2>2, <2>4
  <2> QED BY <1>2, <2>3, <2>4, <2>5, <2>6, <2>7 DEF ServerInv
<1> QED
  BY <1>9, <1>10 DEF SessionInv

\* What a client's step has to show: that its own connection is in order.
LEMMA ClientKeeps ==
  ASSUME SessionInv, StreamInv', NEW c \in Clients, client[c].phase # "off",
         NEW n \in Links, n = client[c].on,
         UNCHANGED serverVars,
         link' = [link EXCEPT ![n] = link'[n]],
         client' = [client EXCEPT ![c] = client'[c]],
         link'[n].serverOpen = link[n].serverOpen,
         LinkInv(n)', ClientInv(c)'
  PROVE  SessionInv'
<1>1. UNCHANGED << backlog, serving, received, pc, frame >>
  BY DEF serverVars
<1>2. ServerInv'
  BY <1>1, ServerKept
<1>3. /\ \A k \in Links : LinkInv(k)'
      /\ \A d \in Clients : ClientInv(d)'
      /\ (DOMAIN client = Clients /\ client = [d \in Clients |-> client[d]])'
  BY <1>1, ClientActs
<1> QED
  BY <1>2, <1>3 DEF SessionInv

\* Call keeps the invariant: the request is the only one on its way.
LEMMA CallKeeps ==
  ASSUME SessionInv, StreamInv', NEW c \in Clients, Call(c)
  PROVE  SessionInv'
<1>1. client[c].phase = "idle" /\ client[c].phase # "off" /\ UNCHANGED serverVars
  BY DEF Call, MayCall
<1> PICK n \in Links : n = client[c].on
  BY <1>1, ClientState
<1>2. PICK request \in Requests(c) :
        /\ Send(c, Encode(request))
        /\ client' = [client EXCEPT ![c] = [@ EXCEPT !.phase = "waiting", !.got = << >>,
                        !.outcome = None, !.asked = request, !.times = 0, !.answer = None]]
  BY DEF Call
<1> DEFINE bytes == Encode(request)
<1>3. /\ link[n].serverOpen /\ ~link[n].lost /\ Handling(n) = "nothing"
      /\ Buffer(n) = << >> /\ link[n].up = << >> /\ link[n].down = << >>
  BY <1>1, IdleIsAtRest
<1>4. /\ link \in [Links -> Link] /\ DOMAIN client = Clients
      /\ link[n].clientOpen /\ link[n].user = c /\ client[c].on = n
      /\ client[c] = [ phase |-> client[c].phase, on |-> n, got |-> client[c].got,
                       outcome |-> client[c].outcome, asked |-> client[c].asked,
                       times |-> client[c].times, answer |-> client[c].answer ]
  BY <1>1, ClientState DEF SessionInv, StreamInv
<1>5. request \in ShortFrame
  BY RequestsAreShort
<1>6. bytes \in Seq(Cell) /\ OneFrame(bytes)
  BY <1>5, EncodedIsOneFrame
<1> HIDE DEF bytes
<1>7. link' = [link EXCEPT ![n].up = @ \o bytes]
  BY <1>2, <1>4 DEF Send, bytes
<1>8. link'[n] = [link[n] EXCEPT !.up = link[n].up \o bytes]
  BY <1>4, <1>7
<1>9. /\ link'[n].up = link[n].up \o bytes /\ link'[n].down = << >>
      /\ link'[n].serverOpen /\ ~link'[n].lost
      /\ link'[n].clientOpen /\ link'[n].user = c
  BY <1>3, <1>4, <1>8 DEF Link
<1>10. client'[c] = [ phase |-> "waiting", on |-> n, got |-> << >>, outcome |-> None,
                      asked |-> request, times |-> 0, answer |-> None ]
  BY <1>2, <1>4
<1>11. Handling(n)' = "nothing" /\ Pending(n)' = bytes
  <2>1. UNCHANGED << serving, received, pc, frame >>
    BY <1>1 DEF serverVars
  <2> QED BY <1>3, <1>6, <1>9, <2>1, SentIsPending
<1>12. LinkInv(n)'
  <2>1. OneRequest(link'[n], Handling(n)', Pending(n)')
    BY <1>6, <1>9, <1>11 DEF OneRequest
  <2>2. /\ client'[c].phase = "waiting" /\ client'[c].on = n /\ client'[c].got = << >>
        /\ client'[c].outcome = None /\ client'[c].asked = request /\ client'[c].times = 0
    BY <1>10
  <2>3. Asking(c, client'[c], link'[n], Handling(n)', Held(n)', Pending(n)')
    BY <1>9, <1>11, <2>2 DEF Asking, bytes
  <2>4. Conversation(c, client'[c], link'[n], Handling(n)', Held(n)', Pending(n)')
    BY <2>3 DEF Conversation
  <2> QED BY <1>9, <2>1, <2>2, <2>4 DEF LinkInv
<1>13. ClientInv(c)'
  <2>1. client'[c].phase # "off" /\ client'[c].on = n
    BY <1>10
  <2>2. client'[c] = [ phase |-> client'[c].phase, on |-> client'[c].on,
                       got |-> client'[c].got, outcome |-> client'[c].outcome,
                       asked |-> client'[c].asked, times |-> client'[c].times,
                       answer |-> client'[c].answer ]
    BY <1>10
  <2> QED BY <1>9, <2>1, <2>2 DEF ClientInv
<1>14. link' = [link EXCEPT ![n] = link'[n]] /\ client' = [client EXCEPT ![c] = client'[c]]
  BY <1>2, <1>4, <1>7
<1> QED
  BY <1>1, <1>3, <1>9, <1>12, <1>13, <1>14, ClientKeeps

\* SendMalformed keeps it: what is sent holds no frame.
LEMMA SendMalformedKeeps ==
  ASSUME SessionInv, StreamInv', NEW c \in Clients, SendMalformed(c)
  PROVE  SessionInv'
<1>1. client[c].phase = "idle" /\ client[c].phase # "off" /\ client[c].asked = None
      /\ UNCHANGED serverVars
  BY DEF SendMalformed
<1> PICK n \in Links : n = client[c].on
  BY <1>1, ClientState
<1>2. PICK bytes \in Malformed : Send(c, bytes)
  BY DEF SendMalformed
<1>3. /\ link[n].serverOpen /\ ~link[n].lost /\ Handling(n) = "nothing"
      /\ Buffer(n) = << >> /\ link[n].up = << >> /\ link[n].down = << >>
      /\ client[c].got = << >> /\ client[c].outcome = None
  BY <1>1, IdleIsAtRest, RequestsAreShort
<1>4. /\ link \in [Links -> Link] /\ DOMAIN client = Clients
      /\ link[n].clientOpen /\ link[n].user = c /\ client[c].on = n
      /\ client[c] = [ phase |-> client[c].phase, on |-> n, got |-> client[c].got,
                       outcome |-> client[c].outcome, asked |-> client[c].asked,
                       times |-> client[c].times, answer |-> client[c].answer ]
  BY <1>1, ClientState DEF SessionInv, StreamInv
<1>6. bytes \in Seq(Cell) /\ NoFrame(bytes)
  BY SessionAssumption, MalformedAssumption DEF NoFrame
<1>7. link' = [link EXCEPT ![n].up = @ \o bytes]
  BY <1>2, <1>4 DEF Send
<1>8. link'[n] = [link[n] EXCEPT !.up = link[n].up \o bytes]
  BY <1>4, <1>7
<1>9. /\ link'[n].up = link[n].up \o bytes /\ link'[n].down = << >>
      /\ link'[n].serverOpen /\ ~link'[n].lost
      /\ link'[n].clientOpen /\ link'[n].user = c
  BY <1>3, <1>4, <1>8 DEF Link
<1>10. client' = [client EXCEPT ![c].phase = "waiting"]
  BY DEF SendMalformed
<1>11. client'[c] = [ phase |-> "waiting", on |-> n, got |-> client[c].got,
                      outcome |-> client[c].outcome, asked |-> client[c].asked,
                      times |-> client[c].times, answer |-> client[c].answer ]
  BY <1>4, <1>10
<1>12. Handling(n)' = "nothing" /\ Pending(n)' = bytes
  <2>1. UNCHANGED << serving, received, pc, frame >>
    BY <1>1 DEF serverVars
  <2> QED BY <1>3, <1>6, <1>9, <2>1, SentIsPending
<1>13. LinkInv(n)'
  <2>1. OneRequest(link'[n], Handling(n)', Pending(n)')
    BY <1>6, <1>9, <1>12 DEF OneRequest
  <2>2. Foreign(client'[c], link'[n], Handling(n)', Pending(n)')
    BY <1>1, <1>3, <1>6, <1>9, <1>11, <1>12 DEF Foreign
  <2>3. Conversation(c, client'[c], link'[n], Handling(n)', Held(n)', Pending(n)')
    BY <2>2 DEF Conversation
  <2>4. client'[c].on = n
    BY <1>11
  <2> QED BY <1>9, <2>1, <2>3, <2>4 DEF LinkInv
<1>14. ClientInv(c)'
  <2>1. client'[c].phase # "off" /\ client'[c].on = n
    BY <1>11
  <2>2. client'[c] = [ phase |-> client'[c].phase, on |-> client'[c].on,
                       got |-> client'[c].got, outcome |-> client'[c].outcome,
                       asked |-> client'[c].asked, times |-> client'[c].times,
                       answer |-> client'[c].answer ]
    BY <1>11
  <2> QED BY <1>9, <2>1, <2>2 DEF ClientInv
<1>15. link' = [link EXCEPT ![n] = link'[n]] /\ client' = [client EXCEPT ![c] = client'[c]]
  BY <1>4, <1>7, <1>10
<1> QED
  BY <1>1, <1>3, <1>9, <1>13, <1>14, <1>15, ClientKeeps

\* A client that closes leaves its connection to the server as it is.
LEMMA ClosingKeeps ==
  ASSUME SessionInv, StreamInv', NEW c \in Clients, client[c].phase # "off",
         UNCHANGED serverVars, client' = [client EXCEPT ![c] = NoClient],
         NEW n \in Links, n = client[c].on,
         link' = [link EXCEPT ![n] = link'[n]],
         link'[n].serverOpen = link[n].serverOpen, ~link'[n].clientOpen,
         OneRequest(link'[n], Handling(n)', Pending(n)')
  PROVE  SessionInv'
<1>1. LinkInv(n)'
  BY DEF LinkInv
<1>2. DOMAIN client = Clients
  BY DEF SessionInv
<1>3. client'[c] = NoClient
  BY <1>2
<1>4. ClientInv(c)'
  BY <1>3 DEF ClientInv, NoClient
<1>5. client' = [client EXCEPT ![c] = client'[c]]
  BY <1>3
<1> QED
  BY <1>1, <1>4, <1>5, ClientKeeps

\* Exit and Die.
LEMMA CloseKeeps ==
  ASSUME SessionInv, StreamInv', NEW c \in Clients, client[c].phase # "off",
         Close(c), UNCHANGED serverVars
  PROVE  SessionInv'
<1> PICK n \in Links : n = client[c].on
  BY ClientState
<1>1. /\ link \in [Links -> Link]
      /\ link' = [link EXCEPT ![n].clientOpen = FALSE]
      /\ client' = [client EXCEPT ![c] = NoClient]
  BY DEF SessionInv, StreamInv, Close
<1>2. link'[n] = [link[n] EXCEPT !.clientOpen = FALSE]
  BY <1>1
<1>3. /\ link'[n].serverOpen = link[n].serverOpen /\ link'[n].lost = link[n].lost
      /\ link'[n].up = link[n].up /\ ~link'[n].clientOpen
  BY <1>1, <1>2 DEF Link
<1>4. Handling(n)' = Handling(n) /\ Pending(n)' = Pending(n)
  BY <1>3 DEF serverVars, Handling, Pending, Buffer
<1>5. OneRequest(link[n], Handling(n), Pending(n))
  BY ClientState
<1>6. OneRequest(link'[n], Handling(n)', Pending(n)')
  BY <1>3, <1>4, <1>5 DEF OneRequest
<1>7. link' = [link EXCEPT ![n] = link'[n]]
  BY <1>1
<1> QED
  BY <1>1, <1>3, <1>6, <1>7, ClosingKeeps

\* DieSending leaves a part of a request, which is no frame.
LEMMA DieSendingKeeps ==
  ASSUME SessionInv, StreamInv', NEW c \in Clients, DieSending(c)
  PROVE  SessionInv'
<1>1. client[c].phase = "idle" /\ client[c].phase # "off" /\ UNCHANGED serverVars
      /\ client' = [client EXCEPT ![c] = NoClient]
  BY DEF DieSending, MayCall
<1> PICK n \in Links : n = client[c].on
  BY <1>1, ClientState
<1>2. PICK request \in Requests(c) : \E k \in 1 .. Len(Encode(request)) - 1 :
        link' = [link EXCEPT ![n].up = @ \o SubSeq(Encode(request), 1, k),
                             ![n].clientOpen = FALSE]
  BY DEF DieSending
<1>3. PICK k \in 1 .. Len(Encode(request)) - 1 :
        link' = [link EXCEPT ![n].up = @ \o SubSeq(Encode(request), 1, k),
                             ![n].clientOpen = FALSE]
  BY <1>2
<1> DEFINE all == Encode(request)
           part == SubSeq(all, 1, k)
<1>4. request \in ShortFrame
  BY RequestsAreShort
<1>5. all \in Seq(Cell) /\ Len(all) \in Nat
  BY <1>4, EncodeType DEF ShortFrame
<1>6. part \in Seq(Cell)
  <2>1. k \in Pieces(all)
    BY <1>5 DEF Pieces
  <2> HIDE DEF all
  <2> QED BY <1>5, <2>1, PieceCells
<1>7. NoFrame(part)
  <2>1. k \in 0 .. Len(all) - 1
    BY <1>5
  <2> QED BY <1>4, <2>1, EncodedIsOneFrame
<1>8. link' = [link EXCEPT ![n].up = @ \o part, ![n].clientOpen = FALSE]
  BY <1>3
<1> HIDE DEF part
<1>9. link \in [Links -> Link]
  BY DEF SessionInv, StreamInv
<1>10. link'[n] = [link[n] EXCEPT !.up = link[n].up \o part, !.clientOpen = FALSE]
  BY <1>8, <1>9
<1>11. /\ link'[n].up = link[n].up \o part /\ ~link'[n].clientOpen
       /\ link'[n].serverOpen = link[n].serverOpen
  <2>1. link[n] \in Link
    BY <1>9
  <2> QED BY <1>10, <2>1 DEF Link
<1>12. link[n].serverOpen /\ Handling(n) = "nothing" /\ Buffer(n) = << >> /\ link[n].up = << >>
  BY <1>1, IdleIsAtRest
<1>13. Handling(n)' = "nothing" /\ Pending(n)' = part
  <2>1. UNCHANGED << serving, received, pc, frame >>
    BY <1>1 DEF serverVars
  <2> QED BY <1>6, <1>11, <1>12, <2>1, SentIsPending
<1>14. OneRequest(link'[n], Handling(n)', Pending(n)')
  BY <1>7, <1>13 DEF OneRequest
<1>15. link' = [link EXCEPT ![n] = link'[n]]
  BY <1>8, <1>9
<1> QED
  BY <1>1, <1>11, <1>14, <1>15, ClosingKeeps

\* Receive keeps it: the client has the whole answer or a part of it, and the
\* whole answer is what it is told.
LEMMA ReceiveKeeps ==
  ASSUME SessionInv, StreamInv', NEW c \in Clients, Receive(c)
  PROVE  SessionInv'
<1>1. client[c].phase = "waiting" /\ client[c].phase # "off" /\ UNCHANGED serverVars
  BY DEF Receive
<1> PICK n \in Links : n = client[c].on
  BY <1>1, ClientState
<1>2. PICK k \in Pieces(link[n].down) :
        LET got == client[c].got \o SubSeq(link[n].down, 1, k)
        IN /\ link' = [link EXCEPT ![n].down = Drop(@, k)]
           /\ client' = [client EXCEPT ![c] =
                IF IsIncomplete(got) THEN [@ EXCEPT !.got = got]
                ELSE [@ EXCEPT !.got = << >>, !.phase = "idle",
                        !.outcome = Understood(client[c].asked, got)]]
  BY DEF Receive
<1> DEFINE me == client[c]
           down == link[n].down
           got == me.got \o SubSeq(down, 1, k)
           rest == Drop(down, k)
           all == Encode(me.answer.frame)
<1>3. /\ link \in [Links -> Link] /\ DOMAIN client = Clients
      /\ link[n].clientOpen /\ link[n].user = c /\ me.on = n
      /\ me = [ phase |-> me.phase, on |-> n, got |-> me.got, outcome |-> me.outcome,
                asked |-> me.asked, times |-> me.times, answer |-> me.answer ]
      /\ OneRequest(link[n], Handling(n), Pending(n))
      /\ Conversation(c, me, link[n], Handling(n), Held(n), Pending(n))
      /\ down \in Seq(Cell)
  BY <1>1, ClientState DEF SessionInv, StreamInv
<1>4. down # << >>
  BY DEF Pieces
<1>5. /\ me.phase = "waiting" /\ link[n].serverOpen /\ ~link[n].lost
      /\ me.asked \in Requests(c) /\ me.times = 1 /\ me.outcome = None
      /\ me.answer \in AnswersTo(me.asked) /\ me.got \in Seq(Cell) /\ Pending(n) = << >>
      /\ Handling(n) = "nothing" /\ me.got \o down = all
  BY <1>3, <1>4 DEF Conversation, AtRest, Asking, Answered, Foreign
<1>6. /\ all \in Seq(Cell)
      /\ \A j \in 0 .. Len(all) - 1 : IsIncomplete(SubSeq(all, 1, j))
      /\ OneFrame(all)
      /\ Understood(me.asked, all) = Told(me.answer)
  <2>1. me.answer.frame \in ShortFrame /\ Understood(me.asked, all) = Told(me.answer)
    BY <1>5, AnswerIsUnderstood
  <2> QED BY <2>1, EncodedIsOneFrame
<1>7. got \in Seq(Cell) /\ rest \in Seq(Cell) /\ got \o rest = all
  <2>1. SubSeq(down, 1, k) \in Seq(Cell) /\ rest \in Seq(Cell)
    BY <1>3, PieceCells
  <2>2. got \in Seq(Cell)
    BY <1>5, <2>1, ConcatCells
  <2>3. got \o rest = me.got \o down
    BY <1>3, <1>5, PieceMoves
  <2> QED BY <1>5, <2>1, <2>2, <2>3
<1>8. link' = [link EXCEPT ![n].down = rest]
  BY <1>2
<1>9. client' = [client EXCEPT ![c] =
                   IF IsIncomplete(got) THEN [@ EXCEPT !.got = got]
                   ELSE [@ EXCEPT !.got = << >>, !.phase = "idle",
                           !.outcome = Understood(me.asked, got)]]
  BY <1>2
<1> HIDE DEF got, rest, all
<1>10. ~IsIncomplete(got) => got = all /\ rest = << >>
  <2>1. SubSeq(all, 1, Len(got)) = got
    BY <1>7, ReceivedIsPrefix
  <2>2. Len(all) = Len(got) + Len(rest) /\ Len(got) \in Nat /\ Len(rest) \in Nat
    BY <1>7, ConcatCells
  <2>3. ~IsIncomplete(got) => ~(Len(got) \in 0 .. Len(all) - 1)
    BY <1>6, <2>1
  <2>4. ~IsIncomplete(got) => Len(got) = Len(all)
    BY <2>2, <2>3
  <2> QED BY <1>7, <2>4, AllReceived
<1>11. link'[n] = [link[n] EXCEPT !.down = rest]
  BY <1>3, <1>8
<1>12. /\ link'[n].down = rest /\ link'[n].up = link[n].up
       /\ link'[n].serverOpen /\ ~link'[n].lost /\ link'[n].clientOpen /\ link'[n].user = c
  BY <1>3, <1>5, <1>11 DEF Link
<1>13. Handling(n)' = "nothing" /\ Pending(n)' = << >>
  BY <1>1, <1>5, <1>12 DEF serverVars, Handling, Pending, Buffer
<1>14. OneRequest(link'[n], Handling(n)', Pending(n)')
  BY <1>13, NothingIsNoFrame DEF OneRequest
<1>15. /\ Conversation(c, client'[c], link'[n], Handling(n)', Held(n)', Pending(n)')
       /\ client'[c] = [ phase |-> client'[c].phase, on |-> n, got |-> client'[c].got,
                         outcome |-> client'[c].outcome, asked |-> me.asked,
                         times |-> me.times, answer |-> me.answer ]
       /\ client'[c].phase # "off"
  <2>1. CASE IsIncomplete(got)
    <3>1. client'[c] = [ phase |-> "waiting", on |-> n, got |-> got, outcome |-> None,
                         asked |-> me.asked, times |-> me.times, answer |-> me.answer ]
      BY <1>3, <1>5, <1>9, <2>1
    <3>2. /\ client'[c].phase = "waiting" /\ client'[c].got = got
          /\ client'[c].outcome = None /\ client'[c].asked = me.asked
          /\ client'[c].times = me.times /\ client'[c].answer = me.answer
      BY <3>1
    <3>3. /\ me.asked \in Requests(c) /\ me.times = 1 /\ me.answer \in AnswersTo(me.asked)
      BY <1>5
    <3>4. Answered(c, client'[c], link'[n], Handling(n)', Held(n)', Pending(n)')
      BY <1>7, <1>12, <1>13, <3>2, <3>3 DEF Answered, all
    <3> QED BY <3>1, <3>4 DEF Conversation
  <2>2. CASE ~IsIncomplete(got)
    <3>1. client'[c] = [ phase |-> "idle", on |-> n, got |-> << >>,
                         outcome |-> Understood(me.asked, got),
                         asked |-> me.asked, times |-> me.times, answer |-> me.answer ]
      BY <1>3, <1>5, <1>9, <2>2
    <3>2. got = all /\ rest = << >>
      BY <1>10, <2>2
    <3>3. client'[c].outcome = Told(me.answer)
      BY <1>6, <3>1, <3>2
    <3>4. /\ client'[c].phase = "idle" /\ client'[c].got = << >>
          /\ client'[c].asked = me.asked /\ client'[c].times = me.times
          /\ client'[c].answer = me.answer
      BY <3>1
    <3>5. /\ me.asked \in Requests(c) /\ me.times = 1 /\ me.answer \in AnswersTo(me.asked)
      BY <1>5
    <3>6. /\ link'[n].serverOpen /\ ~link'[n].lost /\ link'[n].down = << >>
      BY <1>12, <3>2
    <3>7. AtRest(c, client'[c], link'[n], Handling(n)', Pending(n)')
      BY <1>13, <3>3, <3>4, <3>5, <3>6 DEF AtRest
    <3> QED BY <3>1, <3>7 DEF Conversation
  <2> QED BY <2>1, <2>2
<1>16. LinkInv(n)'
  BY <1>12, <1>14, <1>15 DEF LinkInv
<1>17. ClientInv(c)'
  BY <1>12, <1>15 DEF ClientInv
<1>18. link' = [link EXCEPT ![n] = link'[n]] /\ client' = [client EXCEPT ![c] = client'[c]]
  BY <1>3, <1>8, <1>9
<1> QED
  BY <1>1, <1>5, <1>12, <1>16, <1>17, <1>18, ClientKeeps

\* A step of a client keeps the invariant.
LEMMA ClientStepKeeps ==
  ASSUME SessionInv, NEW c \in Clients,
         \/ Connect(c) \/ Call(c) \/ SendMalformed(c) \/ Receive(c)
         \/ Exit(c) \/ Die(c) \/ DieSending(c)
  PROVE  SessionInv'
<1>1. StreamInv'
  BY ClientStep DEF SessionInv
<1>2. CASE Exit(c) \/ Die(c)
  <2>1. client[c].phase # "off" /\ Close(c) /\ UNCHANGED serverVars
    BY <1>2 DEF Exit, Die
  <2> QED BY <1>1, <2>1, CloseKeeps
<1> QED
  BY <1>1, <1>2, ConnectKeeps, CallKeeps, SendMalformedKeeps, ReceiveKeeps, DieSendingKeeps

\* What the server finds at the connection it is serving.
LEMMA ServingState ==
  ASSUME SessionInv, pc \in {"receive", "dispatch", "send"}
  PROVE  /\ serving \in Links /\ serving # None /\ link[serving] \in Link
         /\ link[serving].serverOpen
         /\ received \in Seq(Cell) /\ link[serving].up \in Seq(Cell)
         /\ Pending(serving) = received \o link[serving].up
         /\ Handling(serving) = IF pc = "receive" THEN "nothing" ELSE pc
         /\ Held(serving) = IF pc = "receive" THEN None ELSE frame
         /\ OneRequest(link[serving], Handling(serving), Pending(serving))
         /\ link[serving].clientOpen =>
              /\ link[serving].user \in Clients
              /\ client[link[serving].user].on = serving
              /\ Conversation(link[serving].user, client[link[serving].user], link[serving],
                              Handling(serving), Held(serving), Pending(serving))
<1>1. serving \in Links /\ link \in [Links -> Link] /\ received \in Seq(Cell) /\ ServerInv
  BY DEF SessionInv, StreamInv
<1>2. serving # None /\ link[serving].serverOpen
  BY <1>1 DEF ServerInv
<1>3. LinkInv(serving)
  BY <1>1 DEF SessionInv
<1>4. /\ Pending(serving) = received \o link[serving].up
      /\ Handling(serving) = IF pc = "receive" THEN "nothing" ELSE pc
      /\ Held(serving) = IF pc = "receive" THEN None ELSE frame
  BY DEF Pending, Buffer, Handling, Held
<1> QED
  BY <1>1, <1>2, <1>3, <1>4 DEF LinkInv, Link

\* The server's own part while it stays with its connection.
LEMMA ServingKept ==
  ASSUME SessionInv, pc \in {"receive", "dispatch", "send"},
         pc' \in {"receive", "dispatch", "send"}, UNCHANGED << backlog, serving >>,
         NEW m \in Links, m = serving,
         link' = [link EXCEPT ![m] = link'[m]], link'[m].serverOpen = link[m].serverOpen
  PROVE  ServerInv'
<1>1. link \in [Links -> Link] /\ backlog \in Seq(Links) /\ ServerInv
  BY DEF SessionInv, StreamInv
<1>2. \A n \in Links : link'[n].serverOpen = link[n].serverOpen
  BY <1>1
<1>3. \A i \in 1 .. Len(backlog) : backlog[i] \in Links
  BY <1>1
<1> QED
  BY <1>1, <1>2, <1>3, SessionAssumption DEF ServerInv

\* Accept: the connection next in turn is served as it has waited.
LEMMA AcceptKeeps ==
  ASSUME SessionInv, StreamInv', Accept
  PROVE  SessionInv'
<1>1. /\ backlog \in Seq(Links) /\ backlog # << >> /\ link \in [Links -> Link]
      /\ ServerInv /\ pc = "accept" /\ serving = None
  BY DEF SessionInv, StreamInv, Accept, ServerInv
<1>2. Head(backlog) \in Links
  BY <1>1, HeadTailProperties
<1> PICK m \in Links : m = Head(backlog)
  BY <1>2
<1>3. /\ serving' = m /\ backlog' = Tail(backlog) /\ received' = << >> /\ pc' = "receive"
      /\ UNCHANGED << link, client, frame >>
  BY DEF Accept
<1>4. serving # m
  BY <1>1, SessionAssumption
<1>5. Handling(m)' = Handling(m) /\ Held(m)' = Held(m) /\ Pending(m)' = Pending(m)
  BY <1>3, <1>4 DEF Handling, Held, Pending, Buffer
<1>6. LinkInv(m)
  BY DEF SessionInv
<1>7. LinkInv(m)'
  BY <1>3, <1>5, <1>6 DEF LinkInv
<1>8. link' = [link EXCEPT ![m] = link'[m]]
  BY <1>1, <1>3
<1>9. /\ \A n \in Links : LinkInv(n)'
      /\ \A c \in Clients : ClientInv(c)'
      /\ (DOMAIN client = Clients /\ client = [d \in Clients |-> client[d]])'
  BY <1>1, <1>3, <1>7, <1>8, ServerActs
<1>10. ServerInv'
  <2>1. /\ Len(backlog) \in Nat /\ Len(backlog) > 0 /\ m = backlog[1]
        /\ Len(Tail(backlog)) = Len(backlog) - 1
        /\ \A i \in 1 .. Len(Tail(backlog)) : Tail(backlog)[i] = backlog[i + 1]
    BY <1>1, HeadTailProperties, EmptySeq
  <2>2. \A i \in 1 .. Len(Tail(backlog)) : i + 1 \in 1 .. Len(backlog) /\ i + 1 # 1
    BY <2>1
  <2>3. 1 \in 1 .. Len(backlog)
    BY <2>1
  <2>4. /\ \A i \in 1 .. Len(backlog) : link[backlog[i]].serverOpen
        /\ \A i, j \in 1 .. Len(backlog) : backlog[i] = backlog[j] => i = j
    BY <1>1 DEF ServerInv
  <2>5. link[m].serverOpen
    BY <2>1, <2>3, <2>4
  <2>6. \A i \in 1 .. Len(Tail(backlog)) :
          link[Tail(backlog)[i]].serverOpen /\ Tail(backlog)[i] # m
    BY <2>1, <2>2, <2>3, <2>4
  <2>7. \A i, j \in 1 .. Len(Tail(backlog)) : Tail(backlog)[i] = Tail(backlog)[j] => i = j
    <3> SUFFICES ASSUME NEW i \in 1 .. Len(Tail(backlog)), NEW j \in 1 .. Len(Tail(backlog)),
                        Tail(backlog)[i] = Tail(backlog)[j]
                 PROVE  i = j
      OBVIOUS
    <3>1. i + 1 = j + 1
      BY <2>1, <2>2, <2>4
    <3> QED BY <2>1, <3>1
  <2> QED BY <1>3, <2>5, <2>6, <2>7, SessionAssumption DEF ServerInv
<1> QED
  BY <1>9, <1>10 DEF SessionInv

\* TakeFrame: what is taken is the one request there is.
LEMMA TakeFrameKeeps ==
  ASSUME SessionInv, StreamInv', TakeFrame
  PROVE  SessionInv'
<1>1. /\ pc = "receive" /\ Decode(received).result = "Frame"
      /\ frame' = Decode(received).frame /\ pc' = "dispatch"
      /\ received' = Drop(received, Decode(received).consumed)
      /\ UNCHANGED << link, client, backlog, serving >>
  BY DEF TakeFrame
<1> PICK m \in Links : m = serving
  BY <1>1, ServingState
<1> DEFINE c == link[m].user
<1>2. /\ link[m].serverOpen /\ received \in Seq(Cell) /\ link[m].up \in Seq(Cell)
      /\ Pending(m) = received \o link[m].up /\ Handling(m) = "nothing" /\ m # None
      /\ OneRequest(link[m], Handling(m), Pending(m))
      /\ link[m].clientOpen =>
           /\ c \in Clients /\ client[c].on = m
           /\ Conversation(c, client[c], link[m], Handling(m), Held(m), Pending(m))
  BY <1>1, ServingState
<1>3. /\ ~NoFrame(Pending(m)) /\ OneFrame(Pending(m)) /\ ~link[m].lost
      /\ link[m].up = << >> /\ Pending(m) = received
      /\ Decode(received).consumed = Len(received)
  <2>1. ~NoFrame(Pending(m))
    BY <1>1, <1>2, ReceivedFrame
  <2>2. OneFrame(Pending(m)) /\ ~link[m].lost
    BY <1>2, <2>1 DEF OneRequest
  <2> QED BY <1>1, <1>2, <2>1, <2>2, ReceivedFrame
<1>4. received' = << >>
  BY <1>1, <1>2, <1>3, DropAll
<1>5. Handling(m)' = "dispatch" /\ Held(m)' = frame' /\ Pending(m)' = << >>
  <2>1. << >> \in Seq(Cell)
    OBVIOUS
  <2>2. << >> \o << >> = << >>
    BY <2>1, NothingAdded
  <2> QED BY <1>1, <1>3, <1>4, <2>2 DEF Handling, Held, Pending, Buffer
<1>6. OneRequest(link'[m], Handling(m)', Pending(m)')
  BY <1>1, <1>3, <1>5, NothingIsNoFrame DEF OneRequest
<1>7. ASSUME link[m].clientOpen
      PROVE  Conversation(c, client'[c], link'[m], Handling(m)', Held(m)', Pending(m)')
  <2>1. Asking(c, client[c], link[m], Handling(m), Held(m), Pending(m))
        /\ Pending(m) = Encode(client[c].asked)
    <3>1. Pending(m) # << >>
      BY <1>3, NothingIsNoFrame
    <3> QED BY <1>2, <1>3, <1>7, <3>1 DEF Conversation, AtRest, Asking, Answered, Foreign
  <2>2. client[c].asked \in ShortFrame
    BY <2>1, RequestsAreShort DEF Asking
  <2>3. frame' = client[c].asked
    BY <1>1, <1>3, <2>1, <2>2, EncodedIsOneFrame
  <2>4. Asking(c, client'[c], link'[m], Handling(m)', Held(m)', Pending(m)')
    BY <1>1, <1>5, <2>1, <2>3 DEF Asking
  <2> QED BY <2>4 DEF Conversation
<1>8. LinkInv(m)'
  BY <1>1, <1>2, <1>6, <1>7 DEF LinkInv
<1>9. link \in [Links -> Link]
  BY DEF SessionInv, StreamInv
<1>10. link' = [link EXCEPT ![m] = link'[m]]
  BY <1>1, <1>9
<1>11. /\ \A n \in Links : LinkInv(n)'
       /\ \A d \in Clients : ClientInv(d)'
       /\ (DOMAIN client = Clients /\ client = [d \in Clients |-> client[d]])'
  BY <1>1, <1>8, <1>10, ServerActs
<1>12. ServerInv'
  BY <1>1, <1>10, ServingKept
<1> QED
  BY <1>11, <1>12 DEF SessionInv

\* ReceiveMore: what is pending is the same, in fewer pieces.
LEMMA ReceiveMoreKeeps ==
  ASSUME SessionInv, StreamInv', ReceiveMore
  PROVE  SessionInv'
<1>1. pc = "receive" /\ UNCHANGED << client, backlog, serving, pc, frame >>
  BY DEF ReceiveMore
<1> PICK m \in Links : m = serving
  BY <1>1, ServingState
<1>2. PICK k \in Pieces(link[m].up) :
        /\ received' = received \o SubSeq(link[m].up, 1, k)
        /\ link' = [link EXCEPT ![m].up = Drop(@, k)]
  BY DEF ReceiveMore
<1> DEFINE c == link[m].user
<1>3. /\ received \in Seq(Cell) /\ link[m].up \in Seq(Cell) /\ link \in [Links -> Link]
      /\ Pending(m) = received \o link[m].up /\ m # None
      /\ OneRequest(link[m], Handling(m), Pending(m))
      /\ link[m].clientOpen =>
           /\ c \in Clients /\ client[c].on = m
           /\ Conversation(c, client[c], link[m], Handling(m), Held(m), Pending(m))
  BY <1>1, ServingState DEF SessionInv, StreamInv
<1>4. link'[m] = [link[m] EXCEPT !.up = Drop(link[m].up, k)]
  BY <1>2, <1>3
<1>5. /\ link'[m].up = Drop(link[m].up, k) /\ link'[m].down = link[m].down
      /\ link'[m].user = c /\ link'[m].clientOpen = link[m].clientOpen
      /\ link'[m].serverOpen = link[m].serverOpen /\ link'[m].lost = link[m].lost
  BY <1>3, <1>4 DEF Link
<1>6. Handling(m)' = Handling(m) /\ Held(m)' = Held(m) /\ Pending(m)' = Pending(m)
  <2>1. (received \o SubSeq(link[m].up, 1, k)) \o Drop(link[m].up, k) = received \o link[m].up
    BY <1>3, PieceMoves
  <2>2. Pending(m)' = Pending(m)
    BY <1>1, <1>2, <1>3, <1>5, <2>1 DEF Pending, Buffer
  <2> QED BY <1>1, <2>2 DEF Handling, Held
<1>7. OneRequest(link'[m], Handling(m)', Pending(m)')
  BY <1>3, <1>5, <1>6 DEF OneRequest
<1>8. link[m].clientOpen => Conversation(c, client'[c], link'[m], Handling(m)', Held(m)', Pending(m)')
  BY <1>1, <1>3, <1>5, <1>6 DEF Conversation, AtRest, Asking, Answered, Foreign
<1>9. LinkInv(m)'
  BY <1>1, <1>3, <1>5, <1>7, <1>8 DEF LinkInv
<1>10. link' = [link EXCEPT ![m] = link'[m]]
  BY <1>2, <1>3
<1>11. /\ \A n \in Links : LinkInv(n)'
       /\ \A d \in Clients : ClientInv(d)'
       /\ (DOMAIN client = Clients /\ client = [d \in Clients |-> client[d]])'
  BY <1>1, <1>5, <1>9, <1>10, ServerActs
<1>12. ServerInv'
  BY <1>1, <1>5, <1>10, ServingKept
<1> QED
  BY <1>11, <1>12 DEF SessionInv

\* Hangup: a client that is still there is not one of ours.
LEMMA HangupKeeps ==
  ASSUME SessionInv, StreamInv', pc \in {"receive", "send"}, Hangup,
         link[serving].clientOpen =>
           Foreign(client[link[serving].user], link[serving], Handling(serving), Pending(serving))
  PROVE  SessionInv'
<1> PICK m \in Links : m = serving
  BY ServingState
<1> DEFINE c == link[m].user
<1>1. /\ link' = [link EXCEPT ![m].serverOpen = FALSE]
      /\ serving' = None /\ frame' = None /\ pc' = "accept"
      /\ UNCHANGED << client, backlog, received >>
  BY DEF Hangup
<1>2. /\ link \in [Links -> Link] /\ backlog \in Seq(Links) /\ m # None
      /\ link[m].clientOpen => /\ c \in Clients /\ client[c].on = m
  BY ServingState DEF SessionInv, StreamInv
<1>3. link'[m] = [link[m] EXCEPT !.serverOpen = FALSE]
  BY <1>1, <1>2
<1>4. /\ link'[m].down = link[m].down /\ link'[m].user = c
      /\ link'[m].clientOpen = link[m].clientOpen
      /\ ~link'[m].serverOpen /\ link'[m].lost = link[m].lost
  BY <1>2, <1>3 DEF Link
<1>5. Handling(m)' = "nothing"
  BY <1>1, <1>2 DEF Handling
<1>6. OneRequest(link'[m], Handling(m)', Pending(m)')
  BY <1>4 DEF OneRequest
<1>7. ASSUME link[m].clientOpen
      PROVE  Conversation(c, client'[c], link'[m], Handling(m)', Held(m)', Pending(m)')
  <2>1. Foreign(client[c], link[m], Handling(m), Pending(m))
    BY <1>7
  <2>2. Foreign(client'[c], link'[m], Handling(m)', Pending(m)')
    BY <1>1, <1>4, <1>5, <2>1 DEF Foreign
  <2> QED BY <2>2 DEF Conversation
<1>8. LinkInv(m)'
  BY <1>1, <1>2, <1>4, <1>6, <1>7 DEF LinkInv
<1>9. link' = [link EXCEPT ![m] = link'[m]]
  BY <1>1, <1>2
<1>10. /\ \A n \in Links : LinkInv(n)'
       /\ \A d \in Clients : ClientInv(d)'
       /\ (DOMAIN client = Clients /\ client = [d \in Clients |-> client[d]])'
  BY <1>1, <1>4, <1>8, <1>9, ServerActs
<1>11. ServerInv'
  <2>1. /\ \A i \in 1 .. Len(backlog) :
             backlog[i] \in Links /\ link[backlog[i]].serverOpen /\ backlog[i] # m
        /\ \A i, j \in 1 .. Len(backlog) : backlog[i] = backlog[j] => i = j
    BY <1>2 DEF SessionInv, ServerInv
  <2>2. \A n \in Links \ {m} : link'[n] = link[n]
    BY <1>1, <1>2
  <2>3. \A i \in 1 .. Len(backlog) : link'[backlog[i]].serverOpen /\ backlog[i] # None
    BY <2>1, <2>2, SessionAssumption
  <2> QED BY <1>1, <2>1, <2>3 DEF ServerInv
<1> QED
  BY <1>10, <1>11 DEF SessionInv

\* Reject: no request of ours is rejected, nor a part of one.
LEMMA RejectKeeps ==
  ASSUME SessionInv, StreamInv', Reject
  PROVE  SessionInv'
<1>1. pc = "receive" /\ Decode(received).result \notin {"Incomplete", "Frame"} /\ Hangup
  BY DEF Reject
<1> DEFINE c == link[serving].user
<1>2. /\ received \in Seq(Cell) /\ link[serving].up \in Seq(Cell)
      /\ Pending(serving) = received \o link[serving].up
      /\ Handling(serving) = "nothing"
      /\ link[serving].clientOpen =>
           Conversation(c, client[c], link[serving], Handling(serving), Held(serving), Pending(serving))
  BY <1>1, ServingState
<1>3. Pending(serving) # << >>
  BY <1>1, <1>2, AllReceived, NothingIsNoFrame DEF IsIncomplete
<1>4. ASSUME NEW f \in ShortFrame
      PROVE  Pending(serving) # Encode(f)
  <2> SUFFICES ASSUME Pending(serving) = Encode(f) PROVE FALSE
    OBVIOUS
  <2> DEFINE all == Encode(f)
  <2>1. /\ all \in Seq(Cell) /\ OneFrame(all)
        /\ \A k \in 0 .. Len(all) - 1 : IsIncomplete(SubSeq(all, 1, k))
    BY EncodedIsOneFrame
  <2>2. all = received \o link[serving].up
    BY <1>2
  <2> HIDE DEF all
  <2>3. SubSeq(all, 1, Len(received)) = received
    BY <1>2, <2>2, ReceivedIsPrefix
  <2>4. Len(all) = Len(received) + Len(link[serving].up)
        /\ Len(received) \in Nat /\ Len(link[serving].up) \in Nat
    BY <1>2, <2>2, ConcatCells
  <2>5. ~(Len(received) \in 0 .. Len(all) - 1)
    BY <1>1, <2>1, <2>3 DEF IsIncomplete
  <2>6. Len(received) = Len(all)
    BY <2>4, <2>5
  <2>7. received = all
    BY <1>2, <2>2, <2>6, AllReceived
  <2> QED BY <1>1, <2>1, <2>7 DEF OneFrame
<1>5. ASSUME link[serving].clientOpen
      PROVE  Foreign(client[c], link[serving], Handling(serving), Pending(serving))
  <2>1. ~Asking(c, client[c], link[serving], Handling(serving), Held(serving), Pending(serving))
    BY <1>2, <1>3, <1>4, RequestsAreShort DEF Asking
  <2> QED BY <1>2, <1>3, <1>5, <2>1 DEF Conversation, AtRest, Answered
<1> QED
  BY <1>1, <1>5, HangupKeeps

\* PeerGone and SendFails: the client has closed.
LEMMA GoneKeeps ==
  ASSUME SessionInv, StreamInv', PeerGone \/ SendFails
  PROVE  SessionInv'
BY HangupKeeps DEF PeerGone, SendFails

\* What dispatch notes of a client whose request it is.
LEMMA AnswerNoted ==
  ASSUME NEW c \in Clients, DOMAIN client = Clients, client[c].times = 0, NEW answer,
         client[c] = [ phase |-> client[c].phase, on |-> client[c].on, got |-> client[c].got,
                       outcome |-> client[c].outcome, asked |-> client[c].asked,
                       times |-> client[c].times, answer |-> client[c].answer ],
         client' = [client EXCEPT ![c].answer = answer, ![c].times = IF @ < 2 THEN @ + 1 ELSE @]
  PROVE  /\ client' = [client EXCEPT ![c] = client'[c]]
         /\ client'[c] = [ phase |-> client[c].phase, on |-> client[c].on, got |-> client[c].got,
                           outcome |-> client[c].outcome, asked |-> client[c].asked,
                           times |-> 1, answer |-> answer ]
<1>1. client' = [client EXCEPT ![c] = client'[c]]
  OBVIOUS
<1>2. client'[c] = [client[c] EXCEPT !.answer = answer,
                      !.times = IF client[c].times < 2 THEN client[c].times + 1 ELSE client[c].times]
  OBVIOUS
<1>3. client'[c] = [client[c] EXCEPT !.answer = answer, !.times = 1]
  BY <1>2
<1>4. [client[c] EXCEPT !.answer = answer, !.times = 1]
        = [ phase |-> client[c].phase, on |-> client[c].on, got |-> client[c].got,
            outcome |-> client[c].outcome, asked |-> client[c].asked,
            times |-> 1, answer |-> answer ]
  OBVIOUS
<1> QED
  BY <1>1, <1>3, <1>4

\* Dispatch: what is dispatched is what its client asked, for the first time.
LEMMA DispatchKeeps ==
  ASSUME SessionInv, StreamInv', Dispatch
  PROVE  SessionInv'
<1>1. pc = "dispatch" /\ pc' = "send" /\ UNCHANGED << link, backlog, serving, received >>
  BY DEF Dispatch
<1> PICK m \in Links : m = serving
  BY <1>1, ServingState
<1> DEFINE c == link[m].user
<1>2. PICK found \in Answers(frame) :
        LET response == [type |-> frame.type, payload |-> found.payload]
        IN /\ frame' = response
           /\ client' =
                IF link[m].clientOpen
                THEN [client EXCEPT ![c].answer = [frame |-> response, status |-> found.status],
                                    ![c].times = IF @ < 2 THEN @ + 1 ELSE @]
                ELSE client
  BY DEF Dispatch
<1> DEFINE answer == [frame |-> frame', status |-> found.status]
<1>3. answer \in AnswersTo(frame)
  BY <1>2 DEF AnswersTo
<1>4. /\ m # None /\ link[m].serverOpen
      /\ Handling(m) = "dispatch" /\ Held(m) = frame
      /\ OneRequest(link[m], Handling(m), Pending(m))
      /\ link[m].clientOpen =>
           /\ c \in Clients /\ client[c].on = m
           /\ Conversation(c, client[c], link[m], Handling(m), Held(m), Pending(m))
  BY <1>1, ServingState
<1>5. Handling(m)' = "send" /\ Held(m)' = frame' /\ Pending(m)' = Pending(m)
  BY <1>1 DEF Handling, Held, Pending, Buffer
<1>6. OneRequest(link'[m], Handling(m)', Pending(m)')
  BY <1>1, <1>4, <1>5 DEF OneRequest
<1>7. /\ link \in [Links -> Link] /\ DOMAIN client = Clients
      /\ \A n \in Links : LinkInv(n)
      /\ \A d \in Clients : ClientInv(d)
  BY DEF SessionInv, StreamInv
<1>8. ASSUME link[m].clientOpen
      PROVE  /\ client' = [client EXCEPT ![c] = client'[c]]
             /\ client'[c] = [ phase |-> client[c].phase, on |-> m, got |-> client[c].got,
                               outcome |-> client[c].outcome, asked |-> client[c].asked,
                               times |-> 1, answer |-> answer ]
             /\ LinkInv(m)' /\ ClientInv(c)'
  <2> DEFINE me == client[c]
  <2>1. /\ Asking(c, me, link[m], Handling(m), Held(m), Pending(m))
        /\ frame = me.asked /\ Pending(m) = << >>
    BY <1>4, <1>8 DEF Conversation, AtRest, Asking, Answered, Foreign
  <2>2. /\ c \in Clients /\ me.on = m /\ me.times = 0 /\ me.phase = "waiting"
        /\ me = [ phase |-> me.phase, on |-> me.on, got |-> me.got, outcome |-> me.outcome,
                  asked |-> me.asked, times |-> me.times, answer |-> me.answer ]
    BY <1>4, <1>7, <1>8, <2>1 DEF ClientInv, Asking
  <2>3. client' = [client EXCEPT ![c].answer = answer, ![c].times = IF @ < 2 THEN @ + 1 ELSE @]
    BY <1>2, <1>8
  <2>4. client'[c] = [ phase |-> me.phase, on |-> m, got |-> me.got, outcome |-> me.outcome,
                       asked |-> me.asked, times |-> 1, answer |-> answer ]
        /\ client' = [client EXCEPT ![c] = client'[c]]
    <3> HIDE DEF answer, c
    <3>1. /\ c \in Clients /\ DOMAIN client = Clients /\ client[c].times = 0
          /\ client[c] = [ phase |-> client[c].phase, on |-> client[c].on, got |-> client[c].got,
                           outcome |-> client[c].outcome, asked |-> client[c].asked,
                           times |-> client[c].times, answer |-> client[c].answer ]
      BY <1>7, <2>2
    <3>2. /\ client' = [client EXCEPT ![c] = client'[c]]
          /\ client'[c] = [ phase |-> client[c].phase, on |-> client[c].on, got |-> client[c].got,
                            outcome |-> client[c].outcome, asked |-> client[c].asked,
                            times |-> 1, answer |-> answer ]
      BY ONLY <2>3, <3>1, AnswerNoted
    <3> QED BY <2>2, <3>2
  <2>6. << >> \in Seq(Cell)
    OBVIOUS
  <2>7. Answered(c, client'[c], link'[m], Handling(m)', Held(m)', Pending(m)')
    <3>1. client'[c].answer.frame = frame'
      BY <2>4
    <3>2. client'[c].answer \in AnswersTo(client'[c].asked)
      BY <1>3, <2>1, <2>4
    <3> HIDE DEF answer
    <3> QED BY <1>1, <1>5, <2>1, <2>2, <2>4, <2>6, <3>1, <3>2 DEF Answered, Asking
  <2>8. Conversation(c, client'[c], link'[m], Handling(m)', Held(m)', Pending(m)')
    BY <2>7 DEF Conversation
  <2>9. LinkInv(m)'
    BY <1>1, <1>6, <2>2, <2>4, <2>8 DEF LinkInv
  <2>10. ClientInv(c)'
    <3>1. /\ client[c].phase # "off" /\ link[m].clientOpen /\ link[m].user = c
      BY <1>8, <2>2
    <3> HIDE DEF answer
    <3> QED BY <1>1, <2>2, <2>4, <3>1 DEF ClientInv
  <2> QED BY <2>4, <2>9, <2>10
<1>9. LinkInv(m)'
  <2>1. CASE ~link[m].clientOpen
    BY <1>1, <1>6, <2>1 DEF LinkInv
  <2> QED BY <1>8, <2>1
<1>10. ASSUME NEW d \in Clients, ~link[m].clientOpen \/ d # c
       PROVE  client'[d] = client[d]
  BY <1>2, <1>7, <1>8, <1>10
<1>11. \A n \in Links : LinkInv(n)'
  <2>1. ASSUME NEW n \in Links \ {m}
        PROVE  Handling(n)' = Handling(n) /\ Held(n)' = Held(n) /\ Pending(n)' = Pending(n)
    BY <1>1 DEF Handling, Held, Pending, Buffer
  <2>2. ASSUME NEW n \in Links \ {m}, link[n].clientOpen
        PROVE  client'[link[n].user] = client[link[n].user]
    <3>1. link[n].user \in Clients /\ client[link[n].user].on = n
      BY <1>7, <2>2 DEF LinkInv
    <3>2. ~link[m].clientOpen \/ link[n].user # c
      BY <1>4, <3>1
    <3> QED BY <1>10, <3>1, <3>2
  <2>3. \A n \in Links \ {m} :
           /\ link'[n] = link[n]
           /\ Handling(n)' = Handling(n) /\ Held(n)' = Held(n) /\ Pending(n)' = Pending(n)
           /\ link[n].clientOpen => client'[link[n].user] = client[link[n].user]
    BY <1>1, <2>1, <2>2
  <2> QED BY <1>7, <1>9, <2>3, OtherLinks
<1>12. ASSUME NEW d \in Clients
       PROVE  ClientInv(d)'
  <2>1. CASE ~link[m].clientOpen \/ d # c
    BY <1>1, <1>7, <1>10, <2>1 DEF ClientInv
  <2>2. CASE link[m].clientOpen /\ d = c
    BY <1>1, <1>8, <2>2 DEF ClientInv
  <2> QED BY <2>1, <2>2
<1>13. (DOMAIN client = Clients /\ client = [d \in Clients |-> client[d]])'
  <2>1. CASE ~link[m].clientOpen
    BY <1>2, <2>1 DEF SessionInv
  <2>2. CASE link[m].clientOpen
    BY <1>7, <1>8, <2>2
  <2> QED BY <2>1, <2>2
<1>14. ServerInv'
  <2>1. link' = [link EXCEPT ![m] = link'[m]]
    BY <1>1, <1>7
  <2> QED BY <1>1, <2>1, ServingKept
<1> QED
  BY <1>11, <1>12, <1>13, <1>14 DEF SessionInv

\* SendResponse: the answer in hand goes to the client that asked, or nowhere.
LEMMA SendResponseKeeps ==
  ASSUME SessionInv, StreamInv', SendResponse
  PROVE  SessionInv'
<1>1. pc = "send" /\ frame' = None /\ UNCHANGED << client, backlog, serving, received >>
  BY DEF SendResponse
<1> PICK m \in Links : m = serving
  BY <1>1, ServingState
<1> DEFINE c == link[m].user
<1>2. /\ m # None /\ link[m].serverOpen /\ link[m] \in Link
      /\ received \in Seq(Cell) /\ Pending(m) = received \o link[m].up
      /\ Handling(m) = "send" /\ Held(m) = frame
      /\ OneRequest(link[m], Handling(m), Pending(m))
      /\ link[m].clientOpen =>
           /\ c \in Clients /\ client[c].on = m
           /\ Conversation(c, client[c], link[m], Handling(m), Held(m), Pending(m))
  BY <1>1, ServingState
<1>3. ~link[m].lost /\ NoFrame(Pending(m))
  BY <1>2 DEF OneRequest
<1>4. pc' = "receive"
  BY <1>3 DEF SendResponse
<1>5. link \in [Links -> Link]
  BY DEF SessionInv, StreamInv
<1> DEFINE cells == Encode(frame)
<1>6. IF link[m].clientOpen THEN link' = [link EXCEPT ![m].down = @ \o cells]
      ELSE link' = [link EXCEPT ![m].lost = TRUE]
  BY DEF SendResponse
<1> HIDE DEF cells
<1>7. /\ link' = [link EXCEPT ![m] = link'[m]]
      /\ link'[m].user = c /\ link'[m].clientOpen = link[m].clientOpen
      /\ link'[m].serverOpen = link[m].serverOpen /\ link'[m].up = link[m].up
      /\ link[m].clientOpen => /\ ~link'[m].lost
                               /\ link'[m].down = link[m].down \o cells
  <2>1. link[m] \in Link
    BY <1>2
  <2>2. CASE link[m].clientOpen
    <3>1. link'[m] = [link[m] EXCEPT !.down = link[m].down \o cells]
      BY <1>5, <1>6, <2>2
    <3>2. link' = [link EXCEPT ![m] = link'[m]]
      BY <1>5, <1>6, <2>2
    <3> QED BY <1>3, <2>1, <2>2, <3>1, <3>2 DEF Link
  <2>3. CASE ~link[m].clientOpen
    BY <1>3, <1>5, <1>6, <2>1, <2>3 DEF Link
  <2> QED BY <2>2, <2>3
<1>8. Handling(m)' = "nothing" /\ Pending(m)' = Pending(m)
  BY <1>1, <1>4, <1>7 DEF Handling, Pending, Buffer
<1>9. OneRequest(link'[m], Handling(m)', Pending(m)')
  BY <1>3, <1>8 DEF OneRequest
<1>10. ASSUME link[m].clientOpen
       PROVE  Conversation(c, client'[c], link'[m], Handling(m)', Held(m)', Pending(m)')
  <2> DEFINE me == client[c]
  <2>1. /\ Answered(c, me, link[m], Handling(m), Held(m), Pending(m))
        /\ frame = me.answer.frame /\ me.got = << >> /\ link[m].down = << >>
    BY <1>2, <1>10 DEF Conversation, AtRest, Asking, Answered, Foreign
  <2>2. frame \in ShortFrame
    BY <2>1, AnswerIsUnderstood DEF Answered
  <2>3. cells \in Seq(Cell)
    BY <2>2, EncodedIsOneFrame DEF cells
  <2>4. << >> \o (<< >> \o cells) = cells
    BY <2>3, NothingAdded
  <2>5. me.got \o link'[m].down = Encode(me.answer.frame)
    BY <1>7, <1>10, <2>1, <2>4 DEF cells
  <2>6. Answered(c, client'[c], link'[m], Handling(m)', Held(m)', Pending(m)')
    BY <1>1, <1>7, <1>8, <1>10, <2>1, <2>5 DEF Answered
  <2> QED BY <2>6 DEF Conversation
<1>11. LinkInv(m)'
  BY <1>1, <1>2, <1>7, <1>9, <1>10 DEF LinkInv
<1>12. /\ \A n \in Links : LinkInv(n)'
       /\ \A d \in Clients : ClientInv(d)'
       /\ (DOMAIN client = Clients /\ client = [d \in Clients |-> client[d]])'
  BY <1>1, <1>7, <1>11, ServerActs
<1>13. ServerInv'
  BY <1>1, <1>4, <1>7, ServingKept
<1> QED
  BY <1>12, <1>13 DEF SessionInv

\* A step of the server keeps the invariant.
LEMMA ServeKeeps ==
  ASSUME SessionInv, StreamInv', Serve
  PROVE  SessionInv'
BY AcceptKeeps, TakeFrameKeeps, ReceiveMoreKeeps, GoneKeeps, RejectKeeps,
   DispatchKeeps, SendResponseKeeps DEF Serve

\* The invariant holds before anybody connects.
LEMMA SessionInit == Init => SessionInv
<1> SUFFICES ASSUME Init PROVE SessionInv
  OBVIOUS
<1>1. StreamInv
  BY StreamStart
<1>2. << >> \in Seq(Links) /\ Len(<< >>) = 0
  OBVIOUS
<1>3. ServerInv
  BY <1>2 DEF Init, ServerInv
<1>4. \A n \in Links : LinkInv(n)
  BY DEF Init, LinkInv, OneRequest, NoLink
<1>5. \A c \in Clients : ClientInv(c)
  BY DEF Init, ClientInv, NoClient
<1>6. DOMAIN client = Clients /\ client = [c \in Clients |-> client[c]]
  BY DEF Init
<1> QED
  BY <1>1, <1>3, <1>4, <1>5, <1>6 DEF SessionInv

\* However clients come, ask, break off and go, each connection is in one of
\* the states of a conversation (main.cpp 158-194, client.cpp 63-116).
THEOREM SessionInvariance == Spec => []SessionInv
<1>1. SessionInv /\ [Next]_vars => SessionInv'
  <2> SUFFICES ASSUME SessionInv, [Next]_vars PROVE SessionInv'
    OBVIOUS
  <2>1. StreamInv'
    BY StreamStep DEF SessionInv
  <2>2. CASE UNCHANGED vars
    <3>1. UNCHANGED << link, client, backlog, serving, received, pc, frame >>
      BY <2>2 DEF vars
    <3>2. ServerInv'
      BY <3>1 DEF SessionInv, ServerInv
    <3>3. \A n \in Links : LinkInv(n)'
      BY <3>1 DEF SessionInv, LinkInv, Handling, Held, Pending, Buffer
    <3>4. \A c \in Clients : ClientInv(c)'
      BY <3>1 DEF SessionInv, ClientInv
    <3>5. (DOMAIN client = Clients /\ client = [c \in Clients |-> client[c]])'
      BY <3>1 DEF SessionInv
    <3> QED BY <2>1, <3>2, <3>3, <3>4, <3>5 DEF SessionInv
  <2>3. CASE Next
    BY <2>1, <2>3, ClientStepKeeps, ServeKeeps DEF Next
  <2> QED BY <2>2, <2>3
<1> QED
  BY <1>1, SessionInit, PTL DEF Spec

\* Nothing a client does, at whatever moment it ends, takes the emulator down:
\* the answer that resets a connection is the last one sent on it
\* (main.cpp 189-194).
THEOREM EmulatorSurvivesCorrect == Spec => []EmulatorSurvives
<1>1. SessionInv => EmulatorSurvives
  BY DEF SessionInv, ServerInv, EmulatorSurvives
<1> QED
  BY <1>1, SessionInvariance, PTL

\* What a client makes of what it receives is the dispatcher's answer to its
\* own request, however the bytes arrive (client.cpp 77-116).
THEOREM OutcomeIsTheAnswerCorrect == Spec => []OutcomeIsTheAnswer
<1>1. SessionInv => OutcomeIsTheAnswer
  <2> SUFFICES ASSUME SessionInv, NEW c \in Clients, client[c].outcome # None
               PROVE  /\ client[c].times = 1
                      /\ client[c].outcome = Told(client[c].answer)
    BY DEF OutcomeIsTheAnswer, Told
  <2>1. client[c].phase # "off"
    BY DEF SessionInv, ClientInv, NoClient
  <2> DEFINE n == client[c].on
  <2>2. Conversation(c, client[c], link[n], Handling(n), Held(n), Pending(n))
    BY <2>1, ClientState
  <2> QED BY <2>2 DEF Conversation, AtRest, Asking, Answered, Foreign
<1> QED
  BY <1>1, SessionInvariance, PTL

\* What the emulator dispatches for a client that is there is the request that
\* client sent, whole and for the first time (main.cpp 174-185).
THEOREM DispatchedOnceCorrect == Spec => DispatchedOnceAsAsked
<1>1. ASSUME SessionInv
      PROVE  [ pc = "dispatch" /\ pc' = "send" /\ link[serving].clientOpen =>
                 LET user == client[link[serving].user]
                 IN user.asked = frame /\ user.times = 0 ]_vars
  <2>1. ASSUME pc = "dispatch", link[serving].clientOpen
        PROVE  client[link[serving].user].asked = frame /\ client[link[serving].user].times = 0
    <3> DEFINE c == link[serving].user
    <3>1. /\ Handling(serving) = "dispatch" /\ Held(serving) = frame
          /\ Conversation(c, client[c], link[serving], Handling(serving), Held(serving),
                          Pending(serving))
      BY <1>1, <2>1, ServingState
    <3> QED BY <3>1 DEF Conversation, AtRest, Asking, Answered, Foreign
  <2> QED BY <2>1
<1> QED
  BY <1>1, SessionInvariance, PTL DEF DispatchedOnceAsAsked

-------------------------------------------------------------------------------
(* The viewer. *)

\* To the emulator the viewer is one more client: whatever its tabs do, it
\* connects, asks for the status and hangs up as Session's clients may
\* (robot-viewer/main.cpp 66-99).
THEOREM ViewerImplementsSession == ViewerSpec => Spec
<1>1. TheViewer \in Clients
  BY SessionAssumption, ViewerAssumption
<1>2. ViewerInit => Init
  BY DEF ViewerInit
<1>3. [ViewerNext]_viewerVars => [Next]_vars
  <2> SUFFICES ASSUME [ViewerNext]_viewerVars PROVE [Next]_vars
    OBVIOUS
  <2>1. CASE Browse
    BY <2>1 DEF Browse
  <2>2. CASE ViewerLoop
    <3>1. CASE Handshake /\ UNCHANGED << vars, program, unsent >>
      BY <3>1
    <3>2. CASE ConnectToEmulator
      BY <1>1, <3>2 DEF ConnectToEmulator, Next
    <3>3. CASE ConnectFails
      BY <3>3 DEF ConnectFails
    <3>4. CASE Poll
      BY <1>1, <3>4 DEF Poll, Next
    <3>5. CASE ReceiveStatus
      BY <1>1, <3>5 DEF ReceiveStatus, Next
    <3>6. CASE EmulatorLost
      BY <1>1, <3>6 DEF EmulatorLost, Next
    <3>7. CASE Relay
      BY <3>7 DEF Relay
    <3>8. CASE RelayFails \/ Killed
      BY <1>1, <3>8 DEF RelayFails, Killed, Next
    <3> QED BY <2>2, <3>1, <3>2, <3>3, <3>4, <3>5, <3>6, <3>7, <3>8 DEF ViewerLoop
  <2>3. CASE Interrupted
    BY <1>1, <2>3 DEF Interrupted, Next
  <2>4. CASE Others
    <3>1. CASE Beside(Serve)
      BY <3>1 DEF Beside, Next
    <3>2. ASSUME NEW c \in Clients \ Pollers,
                 \/ Beside(Connect(c)) \/ Beside(Call(c)) \/ Beside(SendMalformed(c))
                 \/ Beside(Receive(c)) \/ Beside(Exit(c)) \/ Beside(Die(c))
                 \/ Beside(DieSending(c))
          PROVE  [Next]_vars
      BY <3>2 DEF Beside, Next
    <3> QED BY <2>4, <3>1, <3>2 DEF Others
  <2>5. CASE ReaderLoop
    BY <2>5 DEF ReaderLoop
  <2>6. CASE UNCHANGED viewerVars
    BY <2>6 DEF viewerVars
  <2> QED BY <2>1, <2>2, <2>3, <2>4, <2>5, <2>6 DEF ViewerNext
<1> QED
  BY <1>2, <1>3, PTL DEF ViewerSpec, Spec

-------------------------------------------------------------------------------
(* Many sequences put together. *)

\* Induction over the natural numbers, for a set of them.
LEMMA NaturalsInSet ==
  ASSUME NEW S, 0 \in S, \A n \in Nat : n \in S => n + 1 \in S
  PROVE  Nat \subseteq S
<1> SUFFICES ASSUME Nat \ S # {} PROVE FALSE
  OBVIOUS
<1>1. PICK n \in Nat \ S : \A m \in Nat \ S : ~(<< m, n >> \in OpToRel(<, Nat))
  <2>1. Nat \ S \subseteq Nat
    OBVIOUS
  <2> QED
    BY <2>1, NatLessThanWellFounded, WFMin
<1>2. \A m \in Nat \ S : ~(m < n)
  BY <1>1 DEF OpToRel
<1>3. n # 0 /\ n - 1 \in Nat /\ n - 1 \notin S
  BY <1>2
<1> QED
  BY <1>2, <1>3

(* flat is what FlattenSeq has put together of the first m sequences.      *)
FlatUpTo(s, m, flat) ==
  flat = [i \in 1 .. m |-> IF i = 1 THEN s[i] ELSE flat[i - 1] \o s[i]]

(* Concatenation, by a name the provers leave alone.                       *)
Join(x, y) == x \o y

Flattens(s, m, flat) ==
  \A i \in 1 .. m : flat[i] = IF i = 1 THEN s[i] ELSE Join(flat[i - 1], s[i])

\* Equation by equation, which is what the provers can use.
LEMMA FlatIs ==
  ASSUME NEW s, NEW m \in Nat, NEW flat, FlatUpTo(s, m, flat)
  PROVE  Flattens(s, m, flat)
BY DEF FlatUpTo, Flattens, Join

\* There is one, for any number of sequences.
LEMMA FlatExists ==
  ASSUME NEW s, NEW m \in Nat
  PROVE  \E flat : FlatUpTo(s, m, flat)
<1> DEFINE done == {n \in Nat : \E flat : FlatUpTo(s, n, flat)}
<1>1. 0 \in done
  <2> DEFINE none == [i \in 1 .. 0 |-> << >>]
  <2>1. FlatUpTo(s, 0, none)
    BY DEF FlatUpTo
  <2> QED
    BY <2>1
<1>2. ASSUME NEW n \in Nat, n \in done
      PROVE  n + 1 \in done
  <2> PICK flat : FlatUpTo(s, n, flat)
    BY <1>2
  <2> DEFINE last == IF n = 0 THEN s[1] ELSE flat[n] \o s[n + 1]
             more == [i \in 1 .. n + 1 |-> IF i = n + 1 THEN last ELSE flat[i]]
             next == [i \in 1 .. n + 1 |-> IF i = 1 THEN s[i] ELSE more[i - 1] \o s[i]]
  <2>1. \A i \in 1 .. n : flat[i] = IF i = 1 THEN s[i] ELSE flat[i - 1] \o s[i]
    BY FlatIs DEF Flattens, Join
  <2>2. \A i \in 1 .. n : more[i] = flat[i]
    OBVIOUS
  <2>3. ASSUME NEW i \in 1 .. n + 1
        PROVE  more[i] = next[i]
    <3>1. CASE i \in 1 .. n
      <4>1. i # 1 => i - 1 \in 1 .. n /\ more[i - 1] = flat[i - 1]
        BY <3>1
      <4>2. more[i] = flat[i]
        BY <2>2, <3>1
      <4> HIDE DEF more
      <4> QED
        BY <2>1, <3>1, <4>1, <4>2
    <3>2. CASE i = n + 1
      <4>1. more[i] = last /\ (n # 0 => more[n] = flat[n] /\ i # 1 /\ i - 1 = n)
        BY <3>2
      <4> HIDE DEF more
      <4> QED
        BY <3>2, <4>1
    <3> QED
      BY <3>1, <3>2
  <2>4. more = next
    BY <2>3
  <2>5. FlatUpTo(s, n + 1, more)
    BY <2>4 DEF FlatUpTo
  <2> QED
    BY <2>5
<1> HIDE DEF done
<1>3. Nat \subseteq done
  BY <1>1, <1>2, NaturalsInSet
<1> QED
  BY <1>3 DEF done

\* The recursive function inside FlattenSeq.
LEMMA FlattenIs ==
  ASSUME NEW S, NEW s \in Seq(S), s # << >>
  PROVE  \E flat : FlattenSeq(s) = flat[Len(s)] /\ Flattens(s, Len(s), flat)
<1> DEFINE flat == CHOOSE f : FlatUpTo(s, Len(s), f)
<1>1. Len(s) \in Nat /\ Len(s) # 0
  BY EmptySeq
<1>2. FlatUpTo(s, Len(s), flat)
  BY <1>1, FlatExists
<1>3. flat = CHOOSE f : f = [i \in 1 .. Len(s) |-> IF i = 1 THEN s[i] ELSE f[i - 1] \o s[i]]
  BY Zenon DEF FlatUpTo
<1> HIDE DEF flat
<1>4. FlattenSeq(s) = flat[Len(s)]
  BY <1>1, <1>3 DEF FlattenSeq
<1> QED
  BY <1>1, <1>2, <1>4, FlatIs

\* Concatenation is associative.
LEMMA ConcatThree ==
  ASSUME NEW S, NEW a \in Seq(S), NEW b \in Seq(S), NEW c \in Seq(S)
  PROVE  (a \o b) \o c = a \o (b \o c) /\ b \o c \in Seq(S)
BY ConcatAssociative, ConcatProperties

(* Sequences closed under concatenation, and one of them without its first. *)
Behead(R, n, s, t, flat, rest) ==
  /\ n \in Nat /\ n > 1
  /\ \A x, y, z \in R : Join(Join(x, y), z) = Join(x, Join(y, z)) /\ Join(y, z) \in R
  /\ \A i \in 1 .. n : s[i] \in R
  /\ \A i \in 1 .. n - 1 : t[i] = s[i + 1]
  /\ Flattens(s, n, flat) /\ Flattens(t, n - 1, rest)

\* Two such functions, of a sequence and of its tail.
LEMMA FlatTail ==
  ASSUME NEW R, NEW N, NEW s, NEW t, NEW flat, NEW rest,
         Behead(R, N, s, t, flat, rest)
  PROVE  rest[N - 1] \in R /\ flat[N] = Join(s[1], rest[N - 1])
<1> DEFINE good(i) == rest[i] \in R /\ flat[i + 1] = Join(s[1], rest[i])
           done == {n \in Nat : n + 1 \in 1 .. N - 1 => good(n + 1)}
<1> HIDE DEF good
<1>0. /\ N \in Nat /\ N > 1
      /\ \A x, y, z \in R : Join(Join(x, y), z) = Join(x, Join(y, z)) /\ Join(y, z) \in R
      /\ \A i \in 1 .. N : s[i] \in R
      /\ \A i \in 1 .. N - 1 : t[i] = s[i + 1]
      /\ \A i \in 1 .. N : flat[i] = IF i = 1 THEN s[i] ELSE Join(flat[i - 1], s[i])
      /\ \A i \in 1 .. N - 1 : rest[i] = IF i = 1 THEN t[i] ELSE Join(rest[i - 1], t[i])
  BY DEF Behead, Flattens
<1>1. 0 \in done
  <2>1. rest[1] = t[1] /\ t[1] = s[1 + 1] /\ s[1 + 1] \in R
    BY <1>0
  <2>2. flat[1 + 1] = Join(flat[1], s[1 + 1]) /\ flat[1] = s[1]
    <3>1. 1 + 1 \in 1 .. N /\ 1 + 1 # 1 /\ (1 + 1) - 1 = 1 /\ 1 \in 1 .. N
      BY <1>0
    <3> QED
      BY <3>1, <1>0
  <2>3. good(1)
    BY <2>1, <2>2 DEF good
  <2> QED
    BY <2>3
<1>2. ASSUME NEW n \in Nat, n \in done
      PROVE  n + 1 \in done
  <2> DEFINE i == n + 1
             j == i + 1
             k == j + 1
  <2>1. SUFFICES ASSUME j \in 1 .. N - 1
                 PROVE  good(j)
    BY <1>0
  <2>2. good(i)
    <3>1. i \in 1 .. N - 1 /\ i = n + 1
      BY <1>0, <2>1
    <3> QED
      BY <1>2, <3>1
  <2>3. /\ j \in 1 .. N - 1 /\ j # 1 /\ j - 1 = i /\ k \in 1 .. N /\ k # 1 /\ k - 1 = j
        /\ 1 \in 1 .. N
    BY <1>0, <2>1
  <2> HIDE DEF i, j
  <2>4. rest[j] = Join(rest[i], t[j]) /\ t[j] = s[k] /\ s[k] \in R
    BY <2>3, <1>0
  <2> HIDE DEF k
  <2>5. flat[k] = Join(flat[j], s[k]) /\ s[1] \in R
    BY <2>3, <1>0
  <2>6. rest[i] \in R /\ flat[j] = Join(s[1], rest[i])
    BY <2>2 DEF j, good
  <2>7. Join(Join(s[1], rest[i]), s[k]) = Join(s[1], Join(rest[i], s[k])) /\ Join(rest[i], s[k]) \in R
    BY <2>4, <2>5, <2>6, <1>0
  <2>8. rest[j] = Join(rest[i], s[k]) /\ flat[k] = Join(Join(s[1], rest[i]), s[k])
    BY <2>4, <2>5, <2>6
  <2> HIDE DEF good
  <2>9. rest[j] \in R /\ flat[k] = Join(s[1], rest[j])
    BY <2>7, <2>8
  <2> QED
    BY <2>9 DEF k, good
<1> HIDE DEF done
<1>3. Nat \subseteq done
  BY <1>1, <1>2, NaturalsInSet
<1>4. ASSUME NEW n \in Nat, n = N - 2
      PROVE  good(N - 1)
  <2>1. n \in done /\ n + 1 \in 1 .. N - 1 /\ n + 1 = N - 1
    BY <1>0, <1>3, <1>4
  <2>2. good(n + 1)
    BY <2>1 DEF done
  <2> QED
    BY <2>1, <2>2
<1>5. good(N - 1) /\ (N - 1) + 1 = N
  BY <1>0, <1>4
<1> QED
  BY <1>5 DEF good

\* FlattenSeq, taken apart at its first sequence.
LEMMA FlattenMany ==
  ASSUME NEW R, \A x, y, z \in R : Join(Join(x, y), z) = Join(x, Join(y, z)) /\ Join(y, z) \in R,
         NEW s \in Seq(R), s # << >>, Tail(s) # << >>
  PROVE  FlattenSeq(Tail(s)) \in R /\ FlattenSeq(s) = Join(Head(s), FlattenSeq(Tail(s)))
<1>1. /\ Tail(s) \in Seq(R) /\ Len(Tail(s)) = Len(s) - 1
      /\ \A i \in 1 .. Len(Tail(s)) : Tail(s)[i] = s[i + 1]
  BY HeadTailProperties
<1>2. /\ Len(s) \in Nat /\ Len(Tail(s)) \in Nat /\ Len(Tail(s)) # 0
      /\ \A i \in 1 .. Len(s) : s[i] \in R
      /\ Head(s) = s[1]
  BY <1>1, EmptySeq, ElementOfSeq
<1>3. PICK flat : FlattenSeq(s) = flat[Len(s)] /\ Flattens(s, Len(s), flat)
  BY FlattenIs
<1>4. PICK rest : FlattenSeq(Tail(s)) = rest[Len(Tail(s))] /\ Flattens(Tail(s), Len(Tail(s)), rest)
  BY <1>1, FlattenIs
<1>5. Behead(R, Len(s), s, Tail(s), flat, rest)
  BY <1>1, <1>2, <1>3, <1>4 DEF Behead
<1>6. rest[Len(s) - 1] \in R /\ flat[Len(s)] = Join(s[1], rest[Len(s) - 1])
  BY <1>5, FlatTail
<1>7. rest[Len(Tail(s))] \in R /\ flat[Len(s)] = Join(s[1], rest[Len(Tail(s))])
  BY <1>1, <1>6
<1> QED
  BY <1>2, <1>3, <1>4, <1>7, Zenon

\* The same for sequences of some set, and for the last one too.
LEMMA FlattenHead ==
  ASSUME NEW S, NEW s \in Seq(Seq(S)), s # << >>
  PROVE  /\ FlattenSeq(s) \in Seq(S) /\ FlattenSeq(Tail(s)) \in Seq(S)
         /\ FlattenSeq(s) = Head(s) \o FlattenSeq(Tail(s))
<1>1. Tail(s) \in Seq(Seq(S)) /\ Len(Tail(s)) = Len(s) - 1 /\ Head(s) \in Seq(S)
  BY HeadTailProperties, Zenon
<1>2. CASE Tail(s) = << >>
  <2>1. FlattenSeq(<< >>) = << >> /\ << >> \in Seq(S)
    BY EmptySeq DEF FlattenSeq
  <2>2. Len(s) = 1 /\ Head(s) = s[1]
    <3>1. Len(<< >>) = 0 /\ Len(s) \in Nat
      BY LenProperties
    <3>2. Len(s) = 1
      <4>1. Len(Tail(s)) = 0 /\ Len(Tail(s)) = Len(s) - 1
        BY <1>1, <1>2, <3>1, Zenon
      <4> QED
        BY <3>1, <4>1
    <3> QED
      BY <3>2
  <2>3. PICK flat : FlattenSeq(s) = flat[Len(s)] /\ Flattens(s, Len(s), flat)
    BY FlattenIs, Zenon
  <2>4. FlattenSeq(s) = Head(s)
    BY <2>2, <2>3 DEF Flattens
  <2>5. Head(s) \in Seq(S) /\ Head(s) \o << >> = Head(s)
    BY <1>1, ConcatEmptySeq
  <2> QED
    BY <1>2, <2>1, <2>4, <2>5, Zenon
<1>3. CASE Tail(s) # << >>
  <2>1. \A x, y, z \in Seq(S) : Join(Join(x, y), z) = Join(x, Join(y, z)) /\ Join(y, z) \in Seq(S)
    BY ConcatThree DEF Join
  <2>2. FlattenSeq(Tail(s)) \in Seq(S) /\ FlattenSeq(s) = Head(s) \o FlattenSeq(Tail(s))
    BY <1>3, <2>1, FlattenMany, Zenon DEF Join
  <2>3. Head(s) \o FlattenSeq(Tail(s)) \in Seq(S)
    BY <1>1, <2>2, ConcatProperties, Zenon
  <2> QED
    BY <2>2, <2>3, Zenon
<1> QED
  BY <1>2, <1>3

-------------------------------------------------------------------------------
(* The frames of a tab. *)

\* Two bytes, the length if it is long, the mask, the payload.
LEMMA WireShape ==
  ASSUME NEW m \in Message
  PROVE  LET size == Len(m.payload)
             long == size > 5
         IN /\ Wire(m) \in Seq(Cell)
            /\ Len(Wire(m)) = 2 + (IF long THEN 1 ELSE 0) + (IF m.masked THEN 1 ELSE 0) + size
            /\ Wire(m)[1] = m.opcode
            /\ Wire(m)[2] = (IF m.masked THEN 8 ELSE 0) + (IF long THEN 6 ELSE size)
            /\ long => Wire(m)[3] = size
<1> DEFINE size == Len(m.payload)
           long == size > 5
           second == (IF m.masked THEN 8 ELSE 0) + (IF long THEN 6 ELSE size)
           first == << m.opcode, second >>
           length == IF long THEN << size >> ELSE << >>
           mask == IF m.masked THEN << 0 >> ELSE << >>
<1>1. /\ m.payload \in Seq(Cell) /\ m.opcode \in Cell /\ m.masked \in BOOLEAN
      /\ size \in Nat /\ second \in Cell
  <2>1. m.payload \in Seq(Cell) /\ m.opcode \in Cell /\ m.masked \in BOOLEAN
    BY DEF Message
  <2>2. size \in Nat
    BY <2>1, LenProperties
  <2> HIDE DEF size
  <2>3. second \in Cell
    BY <2>1, <2>2 DEF Cell
  <2> QED
    BY <2>1, <2>2, <2>3
<1> HIDE DEF second
<1>2. first \in Seq(Cell) /\ Len(first) = 2 /\ first[1] = m.opcode /\ first[2] = second
  BY <1>1
<1>3. /\ length \in Seq(Cell) /\ Len(length) = (IF long THEN 1 ELSE 0)
      /\ long => length[1] = size
  BY <1>1 DEF Cell
<1>4. mask \in Seq(Cell) /\ Len(mask) = (IF m.masked THEN 1 ELSE 0)
  BY <1>1 DEF Cell
<1> HIDE DEF first, length, mask, size
<1> DEFINE a == first \o length
           b == a \o mask
           c == b \o m.payload
<1>5. /\ a \in Seq(Cell) /\ Len(a) = Len(first) + Len(length)
      /\ \A i \in 1 .. Len(first) + Len(length) :
           a[i] = IF i <= Len(first) THEN first[i] ELSE length[i - Len(first)]
  BY <1>2, <1>3, ConcatCells
<1> HIDE DEF a
<1>6. /\ b \in Seq(Cell) /\ Len(b) = Len(a) + Len(mask)
      /\ \A i \in 1 .. Len(a) + Len(mask) : b[i] = IF i <= Len(a) THEN a[i] ELSE mask[i - Len(a)]
  BY <1>4, <1>5, ConcatCells
<1> HIDE DEF b
<1>7. /\ c \in Seq(Cell) /\ Len(c) = Len(b) + Len(m.payload)
      /\ \A i \in 1 .. Len(b) + Len(m.payload) :
           c[i] = IF i <= Len(b) THEN b[i] ELSE m.payload[i - Len(b)]
  BY <1>1, <1>6, ConcatCells
<1> HIDE DEF c
<1>8. Wire(m) = c
  BY DEF Wire, c, b, a, first, second, length, mask, size
<1>9. Len(c) = 2 + (IF long THEN 1 ELSE 0) + (IF m.masked THEN 1 ELSE 0) + size
  BY <1>1, <1>2, <1>3, <1>4, <1>5, <1>6, <1>7 DEF size
<1>10. ASSUME NEW i \in 1 .. 3, i <= Len(a)
       PROVE  c[i] = a[i]
  <2>0. /\ Len(a) \in Nat /\ Len(mask) \in Nat /\ Len(b) = Len(a) + Len(mask)
        /\ Len(m.payload) \in Nat
    BY <1>1, <1>4, <1>5, <1>6, LenProperties
  <2>1. i \in 1 .. Len(b) + Len(m.payload) /\ i <= Len(b) /\ i \in 1 .. Len(a) + Len(mask)
    <3>1. i \in Nat /\ i >= 1 /\ i <= Len(a)
      BY <1>10
    <3>2. \A x, y, z, k \in Nat : k >= 1 /\ k <= x =>
            k \in 1 .. (x + y) + z /\ k <= x + y /\ k \in 1 .. x + y
      OBVIOUS
    <3> QED
      BY <2>0, <3>1, <3>2
  <2> QED
    BY <1>6, <1>7, <1>10, <2>1
<1>11. c[1] = m.opcode /\ c[2] = second
  <2>1. Len(a) >= 2
    BY <1>2, <1>3, <1>5
  <2>2. c[1] = a[1] /\ c[2] = a[2]
    BY <1>10, <2>1
  <2>3. a[1] = first[1] /\ a[2] = first[2]
    BY <1>2, <1>3, <1>5
  <2> QED
    BY <1>2, <2>2, <2>3
<1>12. long => c[3] = size
  <2> SUFFICES ASSUME long PROVE c[3] = size
    OBVIOUS
  <2>1. Len(a) = 3 /\ c[3] = a[3]
    BY <1>2, <1>3, <1>5, <1>10
  <2>2. a[3] = length[1]
    <3>1. 3 \in 1 .. Len(first) + Len(length) /\ ~(3 <= Len(first)) /\ 3 - Len(first) = 1
      BY <1>2, <1>3
    <3> QED
      BY <1>5, <3>1
  <2> QED
    BY <1>3, <2>1, <2>2
<1> QED
  BY <1>7, <1>8, <1>9, <1>11, <1>12 DEF second, size

\* Where a beginning ends, the rest begins.
LEMMA RestAfter ==
  ASSUME NEW a \in Seq(Cell), NEW b \in Seq(Cell), NEW c \in Seq(Cell), NEW d \in Seq(Cell),
         a \o b = c \o d, Len(c) <= Len(a)
  PROVE  Drop(a, Len(c)) \in Seq(Cell) /\ Drop(a, Len(c)) \o b = d
<1> DEFINE n == Len(c)
           r == Drop(a, n)
<1>1. n \in Nat /\ Len(a) \in Nat /\ Len(b) \in Nat /\ Len(d) \in Nat /\ n <= Len(a)
  OBVIOUS
<1>2. /\ Len(a \o b) = Len(a) + Len(b)
      /\ \A i \in 1 .. Len(a) + Len(b) :
           (a \o b)[i] = IF i <= Len(a) THEN a[i] ELSE b[i - Len(a)]
  BY ConcatCells
<1>3. /\ Len(c \o d) = n + Len(d)
      /\ \A i \in 1 .. n + Len(d) : (c \o d)[i] = IF i <= n THEN c[i] ELSE d[i - n]
  BY ConcatCells
<1>4. /\ r \in Seq(Cell) /\ Len(r) = Len(a) - n
      /\ \A i \in 1 .. Len(a) - n : r[i] = a[n + i]
  <2>1. n + 1 \in 1 .. Len(a) + 1 /\ Len(a) \in (n + 1) - 1 .. Len(a)
    BY <1>1
  <2>2. /\ r \in Seq(Cell) /\ Len(r) = Len(a) - (n + 1) + 1
        /\ \A i \in 1 .. Len(a) - (n + 1) + 1 : r[i] = a[(n + 1) + i - 1]
    BY <2>1, SubSeqCells DEF Drop
  <2> HIDE DEF r, n
  <2>3. Len(a) - (n + 1) + 1 = Len(a) - n
    BY <1>1
  <2>4. \A i \in 1 .. Len(a) - n : (n + 1) + i - 1 = n + i
    BY <1>1
  <2> QED
    BY <2>2, <2>3, <2>4
<1> HIDE DEF r
<1>5. /\ r \o b \in Seq(Cell) /\ Len(r \o b) = Len(r) + Len(b)
      /\ \A i \in 1 .. Len(r) + Len(b) : (r \o b)[i] = IF i <= Len(r) THEN r[i] ELSE b[i - Len(r)]
  BY <1>4, ConcatCells
<1> HIDE DEF n
<1>6. Len(r \o b) = Len(d)
  BY <1>1, <1>2, <1>3, <1>4, <1>5
<1>7. ASSUME NEW i \in 1 .. Len(d)
      PROVE  (r \o b)[i] = d[i]
  <2> DEFINE j == n + i
  <2>1. /\ j \in 1 .. Len(a) + Len(b) /\ j \in 1 .. n + Len(d) /\ ~(j <= n) /\ j - n = i
        /\ i \in 1 .. Len(r) + Len(b)
    BY <1>1, <1>2, <1>3, <1>4, <1>5, <1>6
  <2>2. j <= Len(a) <=> i <= Len(r)
    BY <1>1, <1>4
  <2>3. j - Len(a) = i - Len(r)
    BY <1>1, <1>4
  <2>4. i <= Len(r) => r[i] = a[j]
    BY <1>1, <1>4
  <2> HIDE DEF j
  <2>5. d[i] = (c \o d)[j]
    BY <1>3, <2>1
  <2>6. (a \o b)[j] = IF i <= Len(r) THEN r[i] ELSE b[i - Len(r)]
    BY <1>2, <2>1, <2>2, <2>3, <2>4
  <2> QED
    BY <1>5, <2>1, <2>5, <2>6
<1>8. r \o b = d
  BY <1>5, <1>6, <1>7, SeqEqual
<1> QED
  BY <1>4, <1>8 DEF r, n

\* What the mask bit leaves of the second byte.
LEMMA LengthBits ==
  ASSUME NEW z \in Nat, z < 8
  PROVE  z % 8 = z /\ (8 + z) % 8 = z
<1>1. z % 8 = z
  OBVIOUS
<1>2. (8 + z) % 8 = z
  OBVIOUS
<1> QED
  BY <1>1, <1>2

(* A frame has been taken from the buffer, and the rest is still there.    *)
FrameTaken(m, b, u, rest) ==
  /\ b[1] = m.opcode
  /\ Drop(b, FrameLength(b)) \in Seq(Cell)
  /\ Drop(b, FrameLength(b)) \o u = rest

\* The frame at the head of a stream: read when it is there to its last byte,
\* and what follows it stays.
LEMMA FrameRead ==
  ASSUME NEW m \in Message, NEW b \in Seq(Cell), NEW u \in Seq(Cell), NEW rest \in Seq(Cell),
         b \o u = Wire(m) \o rest
  PROVE  /\ u = << >> => Whole(b)
         /\ Whole(b) => FrameTaken(m, b, u, rest)
<1> DEFINE w == Wire(m)
           size == Len(m.payload)
           long == size > 5
           fields == 2 + (IF long THEN 1 ELSE 0) + (IF m.masked THEN 1 ELSE 0)
<1>1. size \in Nat /\ m.masked \in BOOLEAN /\ m.opcode \in Cell
  <2>1. m.payload \in Seq(Cell) /\ m.opcode \in Cell /\ m.masked \in BOOLEAN
    BY DEF Message
  <2> QED
    BY <2>1, LenProperties
<1>2. /\ w \in Seq(Cell) /\ Len(w) = fields + size
      /\ w[1] = m.opcode
      /\ w[2] = (IF m.masked THEN 8 ELSE 0) + (IF long THEN 6 ELSE size)
      /\ long => w[3] = size
  <2>1. Len(w) = 2 + (IF long THEN 1 ELSE 0) + (IF m.masked THEN 1 ELSE 0) + size
    BY WireShape
  <2> HIDE DEF w, size
  <2>2. Len(w) = fields + size
    BY <1>1, <2>1
  <2> QED
    BY <2>2, WireShape DEF w, size
<1> HIDE DEF w, size
<1>4. w[2] >= 8 <=> m.masked
  BY <1>1, <1>2
<1>5. /\ w[2] % 8 > 5 <=> long
      /\ ~long => w[2] % 8 = size
  <2> DEFINE z == IF long THEN 6 ELSE size
  <2>1. z \in Nat /\ z < 8 /\ (z > 5 <=> long) /\ (~long => z = size) /\ 0 + z = z
    BY <1>1
  <2>2. w[2] = 8 + z \/ w[2] = z
    BY <1>1, <1>2, <2>1
  <2> HIDE DEF z, long
  <2>3. w[2] % 8 = z
    BY <2>1, <2>2, LengthBits
  <2> QED
    BY <2>1, <2>3
<1> HIDE DEF long
<1>6. fields \in {2, 3, 4} /\ Len(w) \in Nat /\ Len(w) >= 2 /\ (long => Len(w) >= 3)
  <2>1. fields \in {2, 3, 4} /\ (long => fields >= 3)
    BY <1>1
  <2> HIDE DEF fields
  <2> QED
    BY <1>1, <1>2, <2>1
<1>7. ASSUME NEW i \in 1 .. 3, i <= Len(b), i <= Len(w)
      PROVE  b[i] = w[i]
  <2>1. \A j \in 1 .. Len(b) + Len(u) : (b \o u)[j] = IF j <= Len(b) THEN b[j] ELSE u[j - Len(b)]
    BY ConcatCells
  <2>2. \A j \in 1 .. Len(w) + Len(rest) :
          (w \o rest)[j] = IF j <= Len(w) THEN w[j] ELSE rest[j - Len(w)]
    BY <1>2, ConcatCells
  <2>3. b \o u = w \o rest
    BY DEF w
  <2>4. Len(b) \in Nat /\ Len(u) \in Nat /\ Len(rest) \in Nat
    BY LenProperties
  <2>5. i \in 1 .. Len(b) + Len(u) /\ i \in 1 .. Len(w) + Len(rest)
    BY <1>6, <1>7, <2>4
  <2> QED
    BY <1>7, <2>1, <2>2, <2>3, <2>5
<1>8. Len(b) + Len(u) = Len(w) + Len(rest) /\ Len(b) \in Nat /\ Len(rest) \in Nat
  <2>1. Len(b \o u) = Len(b) + Len(u) /\ Len(w \o rest) = Len(w) + Len(rest)
    BY <1>2, ConcatCells
  <2> QED
    BY <2>1, LenProperties DEF w
<1>9. ASSUME Len(b) >= 2
      PROVE  Fields(b) = fields /\ (Extended(b) <=> long)
  <2>1. b[2] = w[2]
    BY <1>6, <1>7, <1>8, <1>9
  <2> HIDE DEF w
  <2> QED
    BY <1>4, <1>5, <2>1 DEF Fields, Extended
<1>10. ASSUME Len(b) >= 2, Len(b) >= fields
       PROVE  FrameLength(b) = Len(w)
  <2>1. Fields(b) = fields /\ (Extended(b) <=> long)
    BY <1>9, <1>10
  <2>2. CASE long
    <3>1. Len(b) >= 3
      BY <1>1, <1>8, <1>10, <2>2
    <3>2. b[3] = w[3]
      BY <1>6, <1>7, <1>8, <2>2, <3>1
    <3> HIDE DEF fields
    <3> QED
      BY <1>2, <2>1, <2>2, <3>2 DEF FrameLength
  <2>3. CASE ~long
    <3>1. b[2] = w[2]
      BY <1>6, <1>7, <1>8, <1>10
    <3> HIDE DEF fields
    <3> QED
      BY <1>2, <1>5, <2>1, <2>3, <3>1 DEF FrameLength
  <2> QED
    BY <2>2, <2>3
<1>11. ASSUME u = << >>
       PROVE  Whole(b)
  <2>1. Len(u) = 0
    BY <1>11, LenProperties
  <2>2. Len(b) >= Len(w) /\ Len(w) >= fields
    BY <1>1, <1>2, <1>6, <1>8, <2>1
  <2>3. Len(b) >= 2 /\ Len(b) >= fields
    BY <1>6, <1>8, <2>2
  <2> QED
    BY <1>9, <1>10, <2>2, <2>3 DEF Whole
<1>12. ASSUME Whole(b)
       PROVE  FrameTaken(m, b, u, rest)
  <2>1. Len(b) >= 2 /\ Len(b) >= Fields(b) /\ Len(b) >= FrameLength(b)
    BY <1>12 DEF Whole
  <2>2. Fields(b) = fields
    BY <1>9, <2>1
  <2>3. FrameLength(b) = Len(w)
    BY <1>10, <2>1, <2>2
  <2>4. b[1] = w[1]
    BY <1>6, <1>7, <1>8, <2>1
  <2>5. b \o u = w \o rest
    BY DEF w
  <2>6. w \in Seq(Cell) /\ Len(w) <= Len(b)
    BY <1>2, <1>6, <1>8, <2>1, <2>3
  <2>7. Drop(b, Len(w)) \in Seq(Cell) /\ Drop(b, Len(w)) \o u = rest
    BY <2>5, <2>6, RestAfter, Zenon
  <2> QED
    BY <1>2, <2>3, <2>4, <2>7 DEF FrameTaken
<1> QED
  BY <1>11, <1>12

\* What is left of a sequence.
LEMMA DropItems ==
  ASSUME NEW S, NEW s \in Seq(S), NEW n \in 0 .. Len(s)
  PROVE  /\ Drop(s, n) \in Seq(S) /\ Len(Drop(s, n)) = Len(s) - n
         /\ \A i \in 1 .. Len(s) - n : Drop(s, n)[i] = s[n + i]
<1>1. Len(s) \in Nat /\ n + 1 \in Int /\ n <= Len(s)
  OBVIOUS
<1>2. \A i \in n + 1 .. Len(s) : s[i] \in S
  BY <1>1
<1>3. /\ SubSeq(s, n + 1, Len(s)) \in Seq(S)
      /\ Len(SubSeq(s, n + 1, Len(s))) = Len(s) - (n + 1) + 1
      /\ \A i \in 1 .. Len(s) - (n + 1) + 1 :
           SubSeq(s, n + 1, Len(s))[i] = s[(n + 1) + i - 1]
  BY <1>1, <1>2, SubSeqProperties
<1>4. Len(s) - (n + 1) + 1 = Len(s) - n
  BY <1>1
<1>5. ASSUME NEW i \in 1 .. Len(s) - n
      PROVE  SubSeq(s, n + 1, Len(s))[i] = s[n + i]
  <2>1. i \in 1 .. Len(s) - (n + 1) + 1 /\ (n + 1) + i - 1 = n + i
    BY <1>1, <1>4
  <2>2. SubSeq(s, n + 1, Len(s))[i] = s[(n + 1) + i - 1]
    BY <1>3, <2>1
  <2> QED
    BY <2>1, <2>2
<1>6. SubSeq(s, n + 1, Len(s)) \in Seq(S) /\ Len(SubSeq(s, n + 1, Len(s))) = Len(s) - n
  BY <1>3, <1>4
<1> QED
  BY <1>5, <1>6 DEF Drop

(* The frames of a tab, each on its own.                                   *)
Wires(messages) == [i \in DOMAIN messages |-> Wire(messages[i])]

\* One sequence of cells per frame.
LEMMA WiresOf ==
  ASSUME NEW s \in Seq(Message)
  PROVE  /\ Wires(s) \in Seq(Seq(Cell)) /\ Len(Wires(s)) = Len(s)
         /\ \A i \in 1 .. Len(s) : Wires(s)[i] = Wire(s[i])
<1>1. DOMAIN s = 1 .. Len(s) /\ Len(s) \in Nat /\ \A i \in 1 .. Len(s) : s[i] \in Message
  BY LenProperties, ElementOfSeq
<1>2. \A i \in 1 .. Len(s) : Wire(s[i]) \in Seq(Cell)
  BY <1>1, WireShape
<1>3. Wires(s) = [i \in 1 .. Len(s) |-> Wire(s[i])]
  BY <1>1 DEF Wires
<1>4. ASSUME NEW R, \A i \in 1 .. Len(s) : Wire(s[i]) \in R
      PROVE  Wires(s) \in Seq(R) /\ Len(Wires(s)) = Len(s)
  BY <1>1, <1>3, <1>4
<1> QED
  BY <1>2, <1>3, <1>4

\* The frames still to be read are the next one and those after it.
LEMMA WireStep ==
  ASSUME NEW s \in Seq(Message), NEW n \in 0 .. Len(s)
  PROVE  /\ n = Len(s) => OnTheWire(Drop(s, n)) = << >>
         /\ n # Len(s) =>
              /\ OnTheWire(Drop(s, n)) \in Seq(Cell) /\ OnTheWire(Drop(s, n + 1)) \in Seq(Cell)
              /\ OnTheWire(Drop(s, n)) = Wire(s[n + 1]) \o OnTheWire(Drop(s, n + 1))
<1> DEFINE a == Drop(s, n)
           b == Drop(s, n + 1)
<1>1. Len(s) \in Nat /\ n \in Nat
  BY LenProperties
<1>2. /\ a \in Seq(Message) /\ Len(a) = Len(s) - n
      /\ \A i \in 1 .. Len(s) - n : a[i] = s[n + i]
  BY DropItems
<1>3. /\ Wires(a) \in Seq(Seq(Cell)) /\ Len(Wires(a)) = Len(s) - n
      /\ \A i \in 1 .. Len(s) - n : Wires(a)[i] = Wire(s[n + i])
  <2> HIDE DEF a
  <2> QED
    BY <1>2, WiresOf
<1>4. OnTheWire(a) = FlattenSeq(Wires(a)) /\ OnTheWire(b) = FlattenSeq(Wires(b))
  BY DEF OnTheWire, Wires
<1>5. CASE n = Len(s)
  <2>1. Len(Wires(a)) = 0
    BY <1>1, <1>3, <1>5
  <2>2. Wires(a) = << >>
    BY <1>3, <2>1, EmptySeq
  <2>3. FlattenSeq(Wires(a)) = << >>
    BY <2>2 DEF FlattenSeq
  <2> QED
    BY <1>4, <1>5, <2>3
<1>6. CASE n # Len(s)
  <2>1. n + 1 \in 0 .. Len(s) /\ 1 \in 1 .. Len(s) - n
    BY <1>1, <1>6
  <2>2. /\ b \in Seq(Message) /\ Len(b) = Len(s) - (n + 1)
        /\ \A i \in 1 .. Len(s) - (n + 1) : b[i] = s[(n + 1) + i]
    BY <2>1, DropItems
  <2> HIDE DEF a, b
  <2>3. /\ Wires(b) \in Seq(Seq(Cell)) /\ Len(Wires(b)) = Len(s) - (n + 1)
        /\ \A i \in 1 .. Len(s) - (n + 1) : Wires(b)[i] = Wire(s[(n + 1) + i])
    BY <2>2, WiresOf
  <2>4. Wires(a) # << >>
    BY <1>1, <1>3, <2>1
  <2>5. /\ Tail(Wires(a)) \in Seq(Seq(Cell)) /\ Len(Tail(Wires(a))) = Len(Wires(a)) - 1
        /\ \A i \in 1 .. Len(Tail(Wires(a))) : Tail(Wires(a))[i] = Wires(a)[i + 1]
    BY <1>3, <2>4, HeadTailProperties
  <2>6. Len(Tail(Wires(a))) = Len(Wires(b))
    BY <1>1, <1>3, <2>3, <2>5
  <2>7. ASSUME NEW i \in 1 .. Len(Wires(b))
        PROVE  Tail(Wires(a))[i] = Wires(b)[i]
    <3>1. i + 1 \in 1 .. Len(s) - n /\ n + (i + 1) = (n + 1) + i
      BY <1>1, <2>3
    <3>2. Tail(Wires(a))[i] = Wires(a)[i + 1]
      BY <2>5, <2>6
    <3>3. Wires(a)[i + 1] = Wire(s[n + (i + 1)])
      BY <1>3, <3>1
    <3>4. Wires(b)[i] = Wire(s[(n + 1) + i])
      BY <2>3
    <3> QED
      BY <3>1, <3>2, <3>3, <3>4
  <2>8. Tail(Wires(a)) = Wires(b)
    BY <2>3, <2>5, <2>6, <2>7, SeqEqual, Zenon
  <2>9. Head(Wires(a)) = Wire(s[n + 1])
    BY <1>3, <2>1, <2>4
  <2>10. /\ FlattenSeq(Wires(a)) \in Seq(Cell) /\ FlattenSeq(Tail(Wires(a))) \in Seq(Cell)
         /\ FlattenSeq(Wires(a)) = Head(Wires(a)) \o FlattenSeq(Tail(Wires(a)))
    BY <1>3, <2>4, FlattenHead, Zenon
  <2> QED
    BY <1>4, <1>6, <2>8, <2>9, <2>10, Zenon DEF a, b
<1> QED
  BY <1>5, <1>6

\* Nothing dropped.
LEMMA WholeWire ==
  ASSUME NEW s \in Seq(Message)
  PROVE  Drop(s, 0) = s
<1>1. 0 \in 0 .. Len(s) /\ Len(s) \in Nat
  BY LenProperties
<1>2. /\ Drop(s, 0) \in Seq(Message) /\ Len(Drop(s, 0)) = Len(s) - 0
      /\ \A i \in 1 .. Len(s) - 0 : Drop(s, 0)[i] = s[0 + i]
  BY <1>1, DropItems
<1>3. Len(Drop(s, 0)) = Len(s) /\ \A i \in 1 .. Len(s) : Drop(s, 0)[i] = s[i]
  BY <1>1, <1>2
<1> QED
  BY <1>2, <1>3, SeqEqual

\* The first end in what has been received.
LEMMA FirstEnd ==
  ASSUME NEW b \in Seq(Cell), NEW j \in 1 .. Len(b), b[j] = EndLine,
         \A i \in 1 .. Len(b) : b[i] = EndLine => j <= i
  PROVE  SelectInSeq(b, LAMBDA cell : cell = EndLine) = j
<1> DEFINE ends == {i \in 1 .. Len(b) : b[i] = EndLine}
<1>1. Len(b) \in Nat
  BY LenProperties
<1>2. SelectInSeq(b, LAMBDA cell : cell = EndLine) = IF ends # {} THEN Min(ends) ELSE 0
  BY DEF SelectInSeq
<1>3. j \in ends /\ \A i \in ends : j <= i
  OBVIOUS
<1>4. \A i \in ends : i \in Nat
  BY <1>1
<1> HIDE DEF ends
<1>5. \A i \in ends : (\A k \in ends : i =< k) => i = j
  BY <1>3, <1>4
<1>6. Min(ends) = j
  BY <1>3, <1>5 DEF Min
<1> QED
  BY <1>2, <1>3, <1>6

-------------------------------------------------------------------------------
(* The viewer and its tabs. *)

(* A tab that has connected and nobody has read from.                      *)
Untouched(one) ==
  /\ one.held /\ one.sent \in Messages
  /\ \E greeting \in Greetings : one.up = greeting \o OnTheWire(one.sent)

TabType ==
  [ open : BOOLEAN, held : BOOLEAN, up : Seq(Cell), sent : Seq(Message), lost : BOOLEAN ]

TabsInv ==
  /\ tab \in [Tabs -> TabType]
  /\ waiting \in Seq(Tabs)
  /\ \A i \in 1 .. Len(waiting) : Untouched(tab[waiting[i]]) /\ waiting[i] # at
  /\ \A i, j \in 1 .. Len(waiting) : waiting[i] = waiting[j] => i = j

(* What is left of a conversation, in the buffer and under way, for a tab  *)
(* that has sent these frames.                                             *)
Reading(one) ==
  /\ one.held /\ one.sent \in Messages
  /\ stage = "handshake" =>
       /\ polled = << >>
       /\ \E greeting \in Greetings : buffer \o one.up = greeting \o OnTheWire(one.sent)
  /\ Len(polled) <= Len(one.sent)
  /\ \A i \in 1 .. Len(polled) : polled[i] = one.sent[i].opcode
  /\ stage = "open" => buffer \o one.up = OnTheWire(Drop(one.sent, Len(polled)))
  /\ stage = "over" => \/ Len(polled) = Len(one.sent)
                       \/ polled # << >> /\ polled[Len(polled)] = CloseOpcode

ServedInv ==
  /\ buffer \in Seq(Cell) /\ polled \in Seq(Cell)
  /\ \/ at = Nobody /\ stage \in {"listen", "ended"}
     \/ at \in Tabs /\ stage \in {"handshake", "open", "over"} /\ Reading(tab[at])

TabInv == TabsInv /\ ServedInv

\* What a tab has sent is a sequence of cells.
LEMMA SentCells ==
  ASSUME NEW messages \in Messages
  PROVE  messages \in Seq(Message) /\ OnTheWire(messages) \in Seq(Cell)
<1>1. messages \in Seq(Message)
  BY BrowserAssumption
<1>2. 0 \in 0 .. Len(messages) /\ Drop(messages, 0) = messages /\ << >> \in Seq(Cell)
  BY <1>1, LenProperties, WholeWire
<1>3. OnTheWire(Drop(messages, 0)) \in Seq(Cell)
  BY <1>1, <1>2, WireStep
<1> QED
  BY <1>1, <1>2, <1>3

\* Only the tab that is served or connects changes; the others keep what they
\* have, but that closing one is noted.
LEMMA WaitingKept ==
  ASSUME TabsInv, tab' \in [Tabs -> TabType], waiting' = waiting,
         \A t \in Tabs : t # at => /\ tab'[t].held = tab[t].held /\ tab'[t].sent = tab[t].sent
                                   /\ tab'[t].up = tab[t].up,
         at' = at \/ at' = Nobody
  PROVE  TabsInv'
<1>1. ASSUME NEW i \in 1 .. Len(waiting)
      PROVE  Untouched(tab[waiting[i]])' /\ waiting[i] # at'
  <2>1. waiting[i] \in Tabs /\ waiting[i] # at /\ Untouched(tab[waiting[i]])
    BY DEF TabsInv
  <2> DEFINE t == waiting[i]
  <2>2. tab'[t].held = tab[t].held /\ tab'[t].sent = tab[t].sent /\ tab'[t].up = tab[t].up
    BY <2>1
  <2>3. waiting'[i] = t
    OBVIOUS
  <2> QED
    BY <2>1, <2>2, <2>3, TabAssumption DEF Untouched
<1> QED
  BY <1>1 DEF TabsInv

\* What the fields of a tab hold.
LEMMA TabFields ==
  ASSUME NEW one \in TabType
  PROVE  one.open \in BOOLEAN /\ one.held \in BOOLEAN /\ one.up \in Seq(Cell)
         /\ one.sent \in Seq(Message) /\ one.lost \in BOOLEAN
BY DEF TabType

\* A connection that is given up leaves nothing to be read
\* (tcp_connection.cpp 21-40).
LEMMA DropTabKeeps ==
  ASSUME TabInv, DropTab
  PROVE  TabInv'
<1>1. tab \in [Tabs -> TabType]
  BY DEF TabInv, TabsInv
<1>2. tab' \in [Tabs -> TabType] /\ \A t \in Tabs : t # at => tab'[t] = tab[t]
  BY <1>1 DEF DropTab, TabType
<1>3. TabsInv'
  BY <1>2, WaitingKept DEF TabInv, DropTab
<1>4. ServedInv'
  BY DEF TabInv, ServedInv, DropTab
<1> QED
  BY <1>3, <1>4 DEF TabInv

\* That a tab has closed, or reset the connection, changes nothing that is sent.
LEMMA NotedKeeps ==
  ASSUME TabInv, tab' \in [Tabs -> TabType], UNCHANGED << waiting, at, stage, buffer, polled >>,
         \A t \in Tabs : /\ tab'[t].held = tab[t].held /\ tab'[t].sent = tab[t].sent
                         /\ tab'[t].up = tab[t].up
  PROVE  TabInv'
<1>1. TabsInv'
  BY WaitingKept DEF TabInv
<1>2. ServedInv'
  <2>1. CASE at = Nobody
    BY <2>1, TabAssumption DEF TabInv, ServedInv
  <2>2. CASE at \in Tabs
    <3>1. Reading(tab[at]) /\ stage \in {"handshake", "open", "over"}
      BY <2>2, TabAssumption DEF TabInv, ServedInv
    <3>2. Reading(tab[at])'
      BY <2>2, <3>1 DEF Reading
    <3> QED
      BY <2>2, <3>1, <3>2 DEF TabInv, ServedInv
  <2> QED
    BY <2>1, <2>2 DEF TabInv, ServedInv
<1> QED
  BY <1>1, <1>2 DEF TabInv

\* Text sent to a tab does not change what it has sent.
LEMMA SendTextKeeps ==
  ASSUME TabInv, SendText
  PROVE  TabInv'
<1>1. tab \in [Tabs -> TabType]
  BY DEF TabInv, TabsInv
<1>2. /\ tab' \in [Tabs -> TabType]
      /\ \A t \in Tabs : /\ tab'[t].held = tab[t].held /\ tab'[t].sent = tab[t].sent
                          /\ tab'[t].up = tab[t].up
  BY <1>1 DEF SendText, TabType
<1> QED
  BY <1>2, NotedKeeps DEF SendText

\* What a closed tab has sent still arrives.
LEMMA CloseTabKeeps ==
  ASSUME TabInv, NEW t \in Tabs, CloseTab(t)
  PROVE  TabInv'
<1>1. tab \in [Tabs -> TabType]
  BY DEF TabInv, TabsInv
<1>2. /\ tab' \in [Tabs -> TabType]
      /\ \A u \in Tabs : /\ tab'[u].held = tab[u].held /\ tab'[u].sent = tab[u].sent
                          /\ tab'[u].up = tab[u].up
  BY <1>1 DEF CloseTab, TabType
<1> QED
  BY <1>2, NotedKeeps DEF CloseTab

\* A tab that connects waits behind the others, each of them once.
LEMMA OpenTabKeeps ==
  ASSUME TabInv, NEW t \in Tabs, NEW greeting \in Greetings, NEW messages \in Messages,
         OpenTab(t, greeting, messages)
  PROVE  TabInv'
<1> DEFINE new == [ open |-> TRUE, held |-> TRUE, sent |-> messages, lost |-> FALSE,
                    up |-> greeting \o OnTheWire(messages) ]
<1>1. tab \in [Tabs -> TabType] /\ waiting \in Seq(Tabs)
  BY DEF TabInv, TabsInv
<1>2. new \in TabType /\ Untouched(new)
  <2>1. greeting \in Seq(Cell)
    BY BrowserAssumption
  <2>2. greeting \o OnTheWire(messages) \in Seq(Cell)
    BY <2>1, SentCells, ConcatCells
  <2> QED
    BY <2>2, SentCells DEF TabType, Untouched
<1> HIDE DEF new
<1>3. /\ tab' = [tab EXCEPT ![t] = new] /\ waiting' = Append(waiting, t) /\ ~tab[t].held
      /\ UNCHANGED << at, stage, buffer, polled >>
  BY DEF OpenTab, new
<1>4. /\ tab' \in [Tabs -> TabType] /\ tab'[t] = new
      /\ \A u \in Tabs : u # t => tab'[u] = tab[u]
  BY <1>1, <1>2, <1>3
<1>5. t # at
  BY <1>3, TabAssumption DEF TabInv, ServedInv, Reading
<1>6. ASSUME NEW i \in 1 .. Len(waiting)
      PROVE  waiting[i] \in Tabs /\ waiting[i] # t
  BY <1>1, <1>3 DEF TabInv, TabsInv, Untouched
<1>7. /\ waiting' \in Seq(Tabs) /\ Len(waiting') = Len(waiting) + 1 /\ Len(waiting) \in Nat
      /\ \A i \in 1 .. Len(waiting) : waiting'[i] = waiting[i]
      /\ waiting'[Len(waiting) + 1] = t
  BY <1>1, <1>3, AppendProperties
<1>8. ASSUME NEW i \in 1 .. Len(waiting')
      PROVE  Untouched(tab[waiting[i]])' /\ waiting'[i] # at
  <2>1. CASE i \in 1 .. Len(waiting)
    <3>1. Untouched(tab[waiting[i]]) /\ waiting[i] # at /\ waiting'[i] = waiting[i]
      BY <1>7, <2>1 DEF TabInv, TabsInv
    <3>2. tab'[waiting[i]] = tab[waiting[i]]
      BY <1>4, <1>6, <2>1
    <3> QED
      BY <3>1, <3>2 DEF Untouched
  <2>2. CASE i = Len(waiting) + 1
    <3>1. waiting'[i] = t
      BY <1>7, <2>2
    <3> QED
      BY <1>2, <1>4, <1>5, <3>1 DEF Untouched
  <2> QED
    BY <1>7, <2>1, <2>2
<1>9. ASSUME NEW i \in 1 .. Len(waiting'), NEW j \in 1 .. Len(waiting'), waiting'[i] = waiting'[j]
      PROVE  i = j
  <2>1. CASE i \in 1 .. Len(waiting) /\ j \in 1 .. Len(waiting)
    BY <1>7, <1>9, <2>1 DEF TabInv, TabsInv
  <2>2. CASE i \notin 1 .. Len(waiting) \/ j \notin 1 .. Len(waiting)
    BY <1>6, <1>7, <1>9, <2>2
  <2> QED
    BY <2>1, <2>2
<1>10. TabsInv'
  BY <1>3, <1>4, <1>7, <1>8, <1>9 DEF TabsInv
<1>11. ServedInv'
  <2>1. CASE at = Nobody
    BY <1>3, <2>1, TabAssumption DEF TabInv, ServedInv
  <2>2. CASE at \in Tabs
    BY <1>3, <1>4, <1>5, <2>2, TabAssumption DEF TabInv, ServedInv, Reading
  <2> QED
    BY <2>1, <2>2 DEF TabInv, ServedInv
<1> QED
  BY <1>10, <1>11 DEF TabInv

\* A tab that is let in begins with all it has sent (tcp_listener.cpp 84-92).
LEMMA AcceptTabKeeps ==
  ASSUME TabInv, AcceptTab
  PROVE  TabInv'
<1>1. /\ tab \in [Tabs -> TabType] /\ waiting \in Seq(Tabs) /\ waiting # << >>
      /\ at' = Head(waiting) /\ waiting' = Tail(waiting) /\ stage' = "handshake"
      /\ buffer' = << >> /\ polled' = << >> /\ tab' = tab
  BY DEF AcceptTab, TabInv, TabsInv
<1>2. /\ waiting' \in Seq(Tabs) /\ Len(waiting') = Len(waiting) - 1 /\ Len(waiting) \in Nat
      /\ \A i \in 1 .. Len(waiting') : waiting'[i] = waiting[i + 1]
      /\ at' = waiting[1] /\ Len(waiting) # 0
  <2>1. Len(waiting) \in Nat /\ Len(waiting) # 0
    BY <1>1, EmptySeq, LenProperties
  <2>2. /\ Tail(waiting) \in Seq(Tabs) /\ Len(Tail(waiting)) = Len(waiting) - 1
        /\ \A i \in 1 .. Len(Tail(waiting)) : Tail(waiting)[i] = waiting[i + 1]
    BY <1>1, HeadTailProperties
  <2>3. Head(waiting) = waiting[1]
    BY <1>1
  <2> QED
    BY <1>1, <2>1, <2>2, <2>3
<1>3. ASSUME NEW i \in 1 .. Len(waiting')
      PROVE  i + 1 \in 1 .. Len(waiting) /\ i + 1 # 1 /\ 1 \in 1 .. Len(waiting)
  BY <1>2
<1>4. ASSUME NEW i \in 1 .. Len(waiting')
      PROVE  Untouched(tab[waiting[i]])' /\ waiting'[i] # at'
  <2>1. waiting'[i] = waiting[i + 1]
    BY <1>2
  <2>2. Untouched(tab[waiting[i + 1]]) /\ waiting[i + 1] # waiting[1]
    BY <1>3 DEF TabInv, TabsInv
  <2> QED
    BY <1>1, <1>2, <2>1, <2>2 DEF Untouched
<1>5. ASSUME NEW i \in 1 .. Len(waiting'), NEW j \in 1 .. Len(waiting'), waiting'[i] = waiting'[j]
      PROVE  i = j
  <2>1. waiting[i + 1] = waiting[j + 1]
    BY <1>2, <1>5
  <2>2. i + 1 = j + 1
    BY <1>3, <2>1 DEF TabInv, TabsInv
  <2> QED
    BY <1>2, <2>2
<1>6. TabsInv'
  BY <1>1, <1>2, <1>4, <1>5 DEF TabsInv
<1>7. at' \in Tabs /\ Untouched(tab[waiting[1]])
  <2>1. 1 \in 1 .. Len(waiting)
    BY <1>2
  <2> QED
    BY <1>1, <1>2, <2>1 DEF TabInv, TabsInv
<1>8. Reading(tab[at])'
  <2> DEFINE one == tab[waiting[1]]
  <2>1. one \in TabType /\ one.held /\ one.sent \in Messages /\ one.up \in Seq(Cell)
    BY <1>1, <1>2, <1>7, TabFields DEF Untouched
  <2>2. PICK greeting \in Greetings : one.up = greeting \o OnTheWire(one.sent)
    BY <1>7 DEF Untouched
  <2>3. tab'[at'] = one
    BY <1>1, <1>2
  <2> HIDE DEF one
  <2>4. << >> \o one.up = one.up
    BY <2>1, ConcatEmptySeq
  <2>5. << >> \o one.up = greeting \o OnTheWire(one.sent)
    BY <2>2, <2>4
  <2>6. Len(one.sent) \in Nat /\ Len(polled') = 0
    BY <1>1, <2>1, SentCells, LenProperties, EmptySeq
  <2> QED
    BY <1>1, <2>1, <2>3, <2>5, <2>6 DEF Reading
<1>9. ServedInv'
  BY <1>1, <1>7, <1>8 DEF ServedInv
<1> QED
  BY <1>6, <1>9 DEF TabInv

\* While a tab is served.
LEMMA ServedTab ==
  ASSUME TabInv, stage \in {"handshake", "open", "over"}
  PROVE  /\ at \in Tabs /\ Reading(tab[at]) /\ tab[at] \in TabType
         /\ tab[at].up \in Seq(Cell) /\ tab[at].sent \in Seq(Message)
         /\ buffer \in Seq(Cell) /\ polled \in Seq(Cell)
<1>1. at \in Tabs /\ Reading(tab[at]) /\ buffer \in Seq(Cell) /\ polled \in Seq(Cell)
  BY DEF TabInv, ServedInv
<1>2. tab[at] \in TabType
  BY <1>1 DEF TabInv, TabsInv
<1> QED
  BY <1>1, <1>2, TabFields

\* Each receive moves a piece from the stream to the buffer
\* (websocket_connection.cpp 28-48, 85-97).
LEMMA ReceivingKeeps ==
  ASSUME TabInv, stage \in {"handshake", "open"}, NEW k \in Pieces(tab[at].up), Receiving(k)
  PROVE  TabInv'
<1>1. /\ at \in Tabs /\ Reading(tab[at]) /\ tab[at] \in TabType
      /\ tab[at].up \in Seq(Cell) /\ tab[at].sent \in Seq(Message)
      /\ buffer \in Seq(Cell) /\ polled \in Seq(Cell)
  BY ServedTab
<1>2. tab \in [Tabs -> TabType]
  BY DEF TabInv, TabsInv
<1> DEFINE u == tab[at].up
           left == Drop(u, k)
           piece == SubSeq(u, 1, k)
<1>3. left \in Seq(Cell) /\ piece \in Seq(Cell)
  <2>1. k \in 0 .. Len(u) /\ 1 \in 1 .. Len(u) + 1 /\ k \in 1 - 1 .. Len(u)
    BY <1>1, LenProperties DEF Pieces
  <2> QED
    BY <1>1, <2>1, DropCells, SubSeqCells
<1>4. (buffer \o piece) \o left = buffer \o u
  BY <1>1, PieceMoves
<1>5. buffer \o piece \in Seq(Cell)
  BY <1>1, <1>3, ConcatCells
<1>6. /\ tab' = [tab EXCEPT ![at].up = left] /\ buffer' = buffer \o piece
      /\ UNCHANGED << waiting, at, stage, polled >>
  BY DEF Receiving
<1> HIDE DEF left, piece
<1>7. /\ tab' \in [Tabs -> TabType] /\ \A t \in Tabs : t # at => tab'[t] = tab[t]
      /\ tab'[at].up = left /\ tab'[at].held = tab[at].held /\ tab'[at].sent = tab[at].sent
  BY <1>1, <1>2, <1>3, <1>6 DEF TabType
<1>8. TabsInv'
  BY <1>6, <1>7, WaitingKept DEF TabInv
<1>9. buffer' \o tab'[at].up = buffer \o tab[at].up
  BY <1>4, <1>6, <1>7, Zenon
<1>10. Reading(tab[at])'
  BY <1>1, <1>6, <1>7, <1>9, Zenon DEF Reading
<1> QED
  BY <1>1, <1>5, <1>6, <1>8, <1>10 DEF TabInv, ServedInv

\* What came with the request and after it is the beginning of the frames
\* (websocket_connection.cpp 136-146).
LEMMA AnswerRequestKeeps ==
  ASSUME TabInv, AnswerRequest
  PROVE  TabInv'
<1>1. /\ at \in Tabs /\ Reading(tab[at]) /\ tab[at] \in TabType
      /\ tab[at].up \in Seq(Cell) /\ tab[at].sent \in Seq(Message)
      /\ buffer \in Seq(Cell) /\ polled \in Seq(Cell)
  BY ServedTab DEF AnswerRequest
<1>2. tab \in [Tabs -> TabType]
  BY DEF TabInv, TabsInv
<1> DEFINE one == tab[at]
           wire == OnTheWire(one.sent)
<1>3. PICK greeting \in Greetings : buffer \o one.up = greeting \o wire
  BY <1>1 DEF Reading, AnswerRequest
<1>4. /\ greeting \in Seq(Cell)
      /\ \A i \in 1 .. Len(greeting) : greeting[i] = EndLine => i = Len(greeting)
  BY BrowserAssumption
<1>5. wire \in Seq(Cell) /\ \A i \in 1 .. Len(wire) : wire[i] # EndLine
  BY <1>1, SentCells, BrowserAssumption DEF Reading
<1> HIDE DEF wire
<1>6. /\ Len(buffer) \in Nat /\ Len(one.up) \in Nat /\ Len(greeting) \in Nat /\ Len(wire) \in Nat
      /\ Len(buffer) + Len(one.up) = Len(greeting) + Len(wire)
  <2>1. Len(buffer \o one.up) = Len(buffer) + Len(one.up)
    BY <1>1, ConcatCells
  <2>2. Len(greeting \o wire) = Len(greeting) + Len(wire)
    BY <1>4, <1>5, ConcatCells
  <2> QED
    BY <1>1, <1>3, <1>4, <1>5, <2>1, <2>2, LenProperties
<1>7. ASSUME NEW i \in 1 .. Len(buffer)
      PROVE  /\ i <= Len(greeting) => buffer[i] = greeting[i]
             /\ i > Len(greeting) => buffer[i] # EndLine
  <2>1. i \in 1 .. Len(buffer) + Len(one.up) /\ i \in 1 .. Len(greeting) + Len(wire)
    BY <1>6
  <2>2. (buffer \o one.up)[i] = buffer[i]
    BY <1>1, <1>6, <2>1, ConcatCells
  <2>3. (greeting \o wire)[i] = IF i <= Len(greeting) THEN greeting[i] ELSE wire[i - Len(greeting)]
    BY <1>4, <1>5, <2>1, ConcatCells
  <2>4. i > Len(greeting) => i - Len(greeting) \in 1 .. Len(wire) /\ ~(i <= Len(greeting))
    BY <1>6, <2>1
  <2> QED
    BY <1>3, <1>5, <2>2, <2>3, <2>4
<1>8. PICK j \in 1 .. Len(buffer) : buffer[j] = EndLine
  BY <1>1 DEF AnswerRequest, Holds
<1>9. /\ j = Len(greeting)
      /\ \A i \in 1 .. Len(buffer) : buffer[i] = EndLine => i = j
  <2>1. ASSUME NEW i \in 1 .. Len(buffer), buffer[i] = EndLine
        PROVE  i = Len(greeting)
    <3>1. i <= Len(greeting) /\ i \in 1 .. Len(greeting)
      BY <1>6, <1>7, <2>1
    <3> QED
      BY <1>4, <1>7, <2>1, <3>1
  <2> QED
    BY <1>8, <2>1
<1>10. AfterRequest = Len(greeting)
  <2>1. \A i \in 1 .. Len(buffer) : buffer[i] = EndLine => j <= i
    BY <1>6, <1>9
  <2> QED
    BY <1>1, <1>8, <1>9, <2>1, FirstEnd DEF AfterRequest
<1>11. Len(greeting) <= Len(buffer)
  BY <1>6, <1>9
<1>12. Drop(buffer, Len(greeting)) \in Seq(Cell) /\ Drop(buffer, Len(greeting)) \o one.up = wire
  <2>1. one.up \in Seq(Cell) /\ buffer \in Seq(Cell) /\ greeting \in Seq(Cell) /\ wire \in Seq(Cell)
    BY <1>1, <1>4, <1>5
  <2> HIDE DEF one
  <2> QED
    BY <1>3, <1>11, <2>1, RestAfter, ZenonT(40)
<1>13. /\ buffer' = Drop(buffer, Len(greeting)) /\ stage' = "open"
       /\ tab' = [tab EXCEPT ![at].lost = ~tab[at].open]
       /\ UNCHANGED << waiting, at, polled >> /\ stage = "handshake"
  BY <1>10 DEF AnswerRequest
<1>14. /\ tab' \in [Tabs -> TabType] /\ \A t \in Tabs : t # at => tab'[t] = tab[t]
       /\ tab'[at].up = one.up /\ tab'[at].held = one.held /\ tab'[at].sent = one.sent
  BY <1>1, <1>2, <1>13 DEF TabType
<1>15. TabsInv'
  BY <1>13, <1>14, WaitingKept DEF TabInv
<1>16. polled = << >> /\ Len(polled) = 0 /\ Len(one.sent) \in Nat
  BY <1>1, <1>13, LenProperties DEF Reading
<1>17. buffer' \o tab'[at].up = OnTheWire(Drop(one.sent, Len(polled)))
  <2>1. Drop(one.sent, 0) = one.sent
    BY <1>1, WholeWire
  <2> QED
    BY <1>12, <1>13, <1>14, <1>16, <2>1, Zenon DEF wire
<1>18. Reading(tab[at])'
  BY <1>1, <1>13, <1>14, <1>16, <1>17 DEF Reading
<1> QED
  BY <1>1, <1>12, <1>13, <1>15, <1>18 DEF TabInv, ServedInv

\* One frame is taken and the next begins where it ended
\* (websocket_connection.cpp 179-232).
LEMMA PollFrameKeeps ==
  ASSUME TabInv, PollFrame
  PROVE  TabInv'
<1>1. /\ at \in Tabs /\ Reading(tab[at]) /\ tab[at] \in TabType
      /\ tab[at].up \in Seq(Cell) /\ tab[at].sent \in Seq(Message)
      /\ buffer \in Seq(Cell) /\ polled \in Seq(Cell)
  BY ServedTab DEF PollFrame
<1> DEFINE one == tab[at]
           n == Len(polled)
<1>2. /\ n \in Nat /\ Len(one.sent) \in Nat /\ n <= Len(one.sent)
      /\ \A i \in 1 .. n : polled[i] = one.sent[i].opcode
      /\ buffer \o one.up = OnTheWire(Drop(one.sent, n))
      /\ one.held /\ one.sent \in Messages
  BY <1>1, LenProperties DEF Reading, PollFrame
<1> HIDE DEF n
<1>3. n # Len(one.sent)
  <2> SUFFICES ASSUME n = Len(one.sent) PROVE FALSE
    OBVIOUS
  <2>1. n \in 0 .. Len(one.sent)
    BY <1>2
  <2>2. buffer \o one.up = << >>
    BY <1>1, <1>2, <2>1, WireStep
  <2>3. buffer = << >>
    BY <1>1, <2>2, AllReceived
  <2>4. Len(buffer) = 0
    BY <2>3
  <2> QED
    BY <2>4 DEF PollFrame, Whole
<1> DEFINE m == one.sent[n + 1]
           rest == OnTheWire(Drop(one.sent, n + 1))
<1>4. /\ n \in 0 .. Len(one.sent) /\ n + 1 \in 1 .. Len(one.sent)
  BY <1>2, <1>3
<1>5. m \in Message
  BY <1>1, <1>4, ElementOfSeq
<1>6. rest \in Seq(Cell) /\ buffer \o one.up = Wire(m) \o rest
  <2>1. /\ OnTheWire(Drop(one.sent, n + 1)) \in Seq(Cell)
        /\ OnTheWire(Drop(one.sent, n)) = Wire(one.sent[n + 1]) \o OnTheWire(Drop(one.sent, n + 1))
    BY <1>1, <1>3, <1>4, WireStep
  <2> QED
    BY <1>2, <2>1, Zenon
<1> HIDE DEF rest
<1>7. /\ buffer[1] = m.opcode
      /\ Drop(buffer, FrameLength(buffer)) \in Seq(Cell)
      /\ Drop(buffer, FrameLength(buffer)) \o one.up = rest
  <2>1. Whole(buffer)
    BY DEF PollFrame
  <2>2. one.up \in Seq(Cell) /\ buffer \in Seq(Cell)
    BY <1>1
  <2> HIDE DEF m, one
  <2> QED
    <3>1. FrameTaken(m, buffer, one.up, rest)
      BY <1>5, <1>6, <2>1, <2>2, FrameRead, Zenon
    <3> QED
      BY <3>1, Zenon DEF FrameTaken
<1>8. /\ polled' = Append(polled, m.opcode) /\ buffer' = Drop(buffer, FrameLength(buffer))
      /\ stage' = (IF m.opcode = CloseOpcode THEN "over" ELSE "open")
      /\ UNCHANGED << tab, waiting, at >>
  BY <1>7 DEF PollFrame
<1>9. m.opcode \in Cell
  BY <1>5 DEF Message
<1>10. /\ polled' \in Seq(Cell) /\ Len(polled') = n + 1
       /\ \A i \in 1 .. n : polled'[i] = polled[i]
       /\ polled'[n + 1] = m.opcode
  <2> HIDE DEF m
  <2> QED
    BY <1>1, <1>8, <1>9, AppendProperties DEF n
<1>11. ASSUME NEW i \in 1 .. Len(polled')
       PROVE  polled'[i] = one.sent[i].opcode
  <2>1. i \in 1 .. n \/ i = n + 1
    BY <1>2, <1>10
  <2> QED
    BY <1>2, <1>10, <2>1
<1>12. buffer' \o one.up = OnTheWire(Drop(one.sent, Len(polled')))
  BY <1>7, <1>8, <1>10, Zenon DEF rest
<1>13. polled' # << >> /\ Len(polled') <= Len(one.sent)
  BY <1>2, <1>4, <1>10
<1>14. stage' = "over" => polled'[Len(polled')] = CloseOpcode
  BY <1>8, <1>10
<1>15. Reading(tab[at])' /\ stage' \in {"open", "over"}
  <2> HIDE DEF m
  <2>1. stage' \in {"open", "over"} /\ tab'[at'] = one
    BY <1>8
  <2> QED
    BY <1>2, <1>11, <1>12, <1>13, <1>14, <2>1 DEF Reading
<1>16. TabsInv'
  BY <1>8 DEF TabInv, TabsInv, Untouched
<1>17. ServedInv'
  BY <1>1, <1>7, <1>8, <1>10, <1>15 DEF ServedInv
<1> QED
  BY <1>16, <1>17 DEF TabInv

\* The stream ends in the middle of no frame: all have been read then.
LEMMA PollFailsKeeps ==
  ASSUME TabInv, PollFails
  PROVE  TabInv'
<1>1. /\ at \in Tabs /\ Reading(tab[at])
      /\ tab[at].up \in Seq(Cell) /\ tab[at].sent \in Seq(Message)
      /\ buffer \in Seq(Cell) /\ polled \in Seq(Cell)
  BY ServedTab DEF PollFails
<1> DEFINE one == tab[at]
           n == Len(polled)
<1>2. /\ n \in Nat /\ Len(one.sent) \in Nat /\ n <= Len(one.sent) /\ n \in 0 .. Len(one.sent)
      /\ buffer \o one.up = OnTheWire(Drop(one.sent, n))
      /\ one.up = << >> /\ ~Whole(buffer)
  BY <1>1, LenProperties DEF Reading, PollFails, Ended
<1> HIDE DEF n
<1>3. n = Len(one.sent)
  <2> SUFFICES ASSUME n # Len(one.sent) PROVE FALSE
    OBVIOUS
  <2>1. n + 1 \in 1 .. Len(one.sent)
    BY <1>2
  <2>2. one.sent[n + 1] \in Message
    BY <1>1, <2>1, ElementOfSeq
  <2>3. /\ OnTheWire(Drop(one.sent, n + 1)) \in Seq(Cell)
        /\ OnTheWire(Drop(one.sent, n)) = Wire(one.sent[n + 1]) \o OnTheWire(Drop(one.sent, n + 1))
    BY <1>1, <1>2, WireStep
  <2>4. Whole(buffer)
    <3> DEFINE m == one.sent[n + 1]
               rest == OnTheWire(Drop(one.sent, n + 1))
    <3>1. /\ one.up \in Seq(Cell) /\ buffer \in Seq(Cell) /\ m \in Message /\ rest \in Seq(Cell)
          /\ one.up = << >> /\ buffer \o one.up = Wire(m) \o rest
      BY <1>1, <1>2, <2>2, <2>3, Zenon
    <3> HIDE DEF m, rest, one
    <3> QED
      BY <3>1, FrameRead, Zenon
  <2> QED
    BY <1>2, <2>4
<1>4. Reading(tab[at])' /\ stage' = "over" /\ UNCHANGED << tab, waiting, at, buffer, polled >>
  BY <1>1, <1>3 DEF Reading, PollFails, n
<1> QED
  BY <1>1, <1>4 DEF TabInv, TabsInv, ServedInv, Untouched

\* A viewer that ends serves nobody.
LEMMA EndsKeeps ==
  ASSUME TabInv, Ends
  PROVE  TabInv'
<1>1. tab \in [Tabs -> TabType]
  BY DEF TabInv, TabsInv
<1>2. tab' \in [Tabs -> TabType]
  BY <1>1 DEF Ends, TabType
<1>3. waiting' \in Seq(Tabs) /\ Len(waiting') = 0
  BY DEF Ends
<1> QED
  BY <1>2, <1>3 DEF Ends, TabInv, TabsInv, ServedInv

\* Before anybody has connected.
LEMMA TabStart == ViewerInit => TabInv
<1> SUFFICES ASSUME ViewerInit PROVE TabInv
  OBVIOUS
<1>1. WsInit
  BY DEF ViewerInit
<1>2. NoTab \in TabType
  BY DEF NoTab, TabType
<1>3. tab \in [Tabs -> TabType] /\ waiting \in Seq(Tabs) /\ Len(waiting) = 0
  BY <1>1, <1>2 DEF WsInit
<1> QED
  BY <1>1, <1>3 DEF WsInit, TabInv, TabsInv, ServedInv

\* The steps of accept.
LEMMA HandshakeKeeps ==
  ASSUME TabInv, Handshake
  PROVE  TabInv'
<1>1. CASE AcceptTab
  BY <1>1, AcceptTabKeeps
<1>2. CASE ReadRequest
  <2>1. stage \in {"handshake", "open"}
    BY <1>2 DEF ReadRequest
  <2>2. PICK k \in Pieces(tab[at].up) : DropTab \/ Receiving(k)
    BY <1>2 DEF ReadRequest
  <2> QED
    BY <2>1, <2>2, DropTabKeeps, ReceivingKeeps
<1>3. CASE RequestFails \/ RefuseRequest
  BY <1>3, DropTabKeeps DEF RequestFails, RefuseRequest
<1>4. CASE AnswerRequest
  BY <1>4, AnswerRequestKeeps
<1> QED
  BY <1>1, <1>2, <1>3, <1>4 DEF Handshake

\* The steps of a server that polls.
LEMMA PollerKeeps ==
  ASSUME TabInv, Poller
  PROVE  TabInv'
<1>1. CASE ReadFrame
  BY <1>1, ReceivingKeeps DEF ReadFrame
<1>2. CASE PollFrame
  BY <1>2, PollFrameKeeps
<1>3. CASE PollFails
  BY <1>3, PollFailsKeeps
<1>4. CASE Leave
  BY <1>4, DropTabKeeps DEF Leave
<1> QED
  BY <1>1, <1>2, <1>3, <1>4 DEF Poller

\* Steps of the emulator and its clients.
LEMMA TabSame ==
  ASSUME TabInv, UNCHANGED wsVars
  PROVE  TabInv'
BY DEF wsVars, TabInv, TabsInv, Untouched, ServedInv, Reading

\* Every step of the viewer, of a reader, and of all others.
LEMMA TabStep == TabInv /\ [ViewerNext]_viewerVars => TabInv'
<1> SUFFICES ASSUME TabInv, [ViewerNext]_viewerVars PROVE TabInv'
  OBVIOUS
<1>1. CASE Browse
  BY <1>1, OpenTabKeeps, CloseTabKeeps DEF Browse
<1>2. CASE ViewerLoop
  <2>1. CASE Handshake
    BY <2>1, HandshakeKeeps
  <2>2. CASE ConnectToEmulator \/ Poll \/ ReceiveStatus
    BY <2>2, TabSame DEF ConnectToEmulator, Poll, ReceiveStatus
  <2>3. CASE ConnectFails \/ EmulatorLost \/ RelayFails
    BY <2>3, DropTabKeeps DEF ConnectFails, EmulatorLost, RelayFails
  <2>4. CASE Relay
    BY <2>4, SendTextKeeps DEF Relay
  <2>5. CASE Killed
    BY <2>5, EndsKeeps DEF Killed
  <2> QED
    BY <1>2, <2>1, <2>2, <2>3, <2>4, <2>5 DEF ViewerLoop
<1>3. CASE Interrupted
  BY <1>3, EndsKeeps DEF Interrupted
<1>4. CASE Others
  BY <1>4, TabSame DEF Others, Beside
<1>5. CASE ReaderLoop
  BY <1>5, HandshakeKeeps, PollerKeeps DEF ReaderLoop
<1>6. CASE UNCHANGED viewerVars
  BY <1>6, TabSame DEF viewerVars
<1> QED
  BY <1>1, <1>2, <1>3, <1>4, <1>5, <1>6 DEF ViewerNext

\* pollForClose reads the frames a tab has sent, whole, in order and nothing
\* else, for all frames in whatever pieces they come, also with the request,
\* and for all tabs (websocket_connection.cpp 85-101, 136-146, 179-232).
THEOREM FramesReadWholeCorrect == ViewerSpec => []FramesReadWhole
<1>1. TabInv => FramesReadWhole
  <2> SUFFICES ASSUME TabInv, at # Nobody
               PROVE  LET opcodes == [i \in DOMAIN tab[at].sent |-> tab[at].sent[i].opcode]
                      IN /\ IsPrefix(polled, opcodes)
                         /\ stage = "over" => polled = opcodes \/ Last(polled) = CloseOpcode
    BY DEF FramesReadWhole
  <2> DEFINE sent == tab[at].sent
             opcodes == [i \in DOMAIN sent |-> sent[i].opcode]
             n == Len(polled)
  <2>1. stage \in {"handshake", "open", "over"}
    BY DEF TabInv, ServedInv
  <2>2. Reading(tab[at]) /\ sent \in Seq(Message) /\ polled \in Seq(Cell)
    BY <2>1, ServedTab
  <2>3. DOMAIN sent = 1 .. Len(sent) /\ Len(sent) \in Nat /\ n \in Nat
    BY <2>2, LenProperties
  <2>4. \A i \in 1 .. Len(sent) : sent[i].opcode \in Cell
    <3>1. \A i \in 1 .. Len(sent) : sent[i] \in Message
      BY <2>2, ElementOfSeq
    <3> QED
      BY <3>1 DEF Message
  <2>5. n <= Len(sent) /\ \A i \in 1 .. n : polled[i] = sent[i].opcode
    BY <2>2 DEF Reading
  <2> HIDE DEF sent
  <2>6. opcodes \in Seq(Cell) /\ Len(opcodes) = Len(sent)
        /\ \A i \in 1 .. Len(sent) : opcodes[i] = sent[i].opcode
    BY <2>3, <2>4
  <2> HIDE DEF opcodes, n
  <2>7. \A i \in 1 .. n : polled[i] = opcodes[i]
    BY <2>3, <2>5, <2>6
  <2>8. SubSeq(polled, 1, n) = SubSeq(opcodes, 1, n)
    <3>1. 1 \in 1 .. n + 1 /\ n \in 1 - 1 .. n /\ 1 \in 1 .. Len(opcodes) + 1 /\ n \in 1 - 1 .. Len(opcodes)
      BY <2>3, <2>5, <2>6
    <3>2. /\ SubSeq(polled, 1, n) \in Seq(Cell) /\ Len(SubSeq(polled, 1, n)) = n - 1 + 1
          /\ \A i \in 1 .. n - 1 + 1 : SubSeq(polled, 1, n)[i] = polled[1 + i - 1]
      BY <2>2, <3>1, SubSeqCells DEF n
    <3>3. /\ SubSeq(opcodes, 1, n) \in Seq(Cell) /\ Len(SubSeq(opcodes, 1, n)) = n - 1 + 1
          /\ \A i \in 1 .. n - 1 + 1 : SubSeq(opcodes, 1, n)[i] = opcodes[1 + i - 1]
      BY <2>6, <3>1, SubSeqCells
    <3>4. ASSUME NEW i \in 1 .. n
          PROVE  SubSeq(polled, 1, n)[i] = SubSeq(opcodes, 1, n)[i]
      <4>1. i \in 1 .. n - 1 + 1 /\ 1 + i - 1 = i
        BY <2>3
      <4> QED
        BY <2>7, <3>2, <3>3, <4>1
    <3>5. n - 1 + 1 = n
      BY <2>3
    <3>6. Len(SubSeq(polled, 1, n)) = n /\ Len(SubSeq(opcodes, 1, n)) = n
      BY <3>2, <3>3, <3>5
    <3> QED
      BY <3>2, <3>3, <3>4, <3>6, SeqEqual, Zenon
  <2>9. IsPrefix(polled, opcodes)
    BY <2>5, <2>6, <2>8 DEF IsPrefix, n
  <2>10. ASSUME stage = "over"
         PROVE  polled = opcodes \/ Last(polled) = CloseOpcode
    <3>1. CASE n = Len(sent)
      <4>1. polled = opcodes
        BY <2>2, <2>6, <2>7, <3>1, SeqEqual DEF n
      <4> QED
        BY <4>1
    <3>2. CASE polled[n] = CloseOpcode
      BY <3>2 DEF Last, n
    <3> QED
      BY <2>2, <2>10, <3>1, <3>2 DEF Reading, n, sent
  <2> QED
    BY <2>9, <2>10 DEF opcodes, sent
<1> QED
  BY <1>1, TabStart, TabStep, PTL DEF ViewerSpec

-------------------------------------------------------------------------------
(* Clients are served in turn.  Whoever waits is on a connection that is   *)
(* in the backlog, or being served, or closed by the server.               *)

(* n is among the first p connections of the backlog.                      *)
Within(n, p) == \E i \in 1 .. Len(backlog) : i <= p /\ backlog[i] = n

OpenIsListed ==
  \A n \in Links : link[n].serverOpen => serving = n \/ Within(n, Len(backlog))

\* What becomes of a connection while the server does not close it.
LEMMA OpenKept ==
  ASSUME NEW f \in [Links -> Link], NEW k, NEW bytes, NEW n \in Links
  PROVE  /\ [f EXCEPT ![k].up = bytes][n].serverOpen = f[n].serverOpen
         /\ [f EXCEPT ![k].down = bytes][n].serverOpen = f[n].serverOpen
         /\ [f EXCEPT ![k].lost = TRUE][n].serverOpen = f[n].serverOpen
         /\ [f EXCEPT ![k].clientOpen = FALSE][n].serverOpen = f[n].serverOpen
         /\ [f EXCEPT ![k].up = bytes, ![k].clientOpen = FALSE][n].serverOpen
              = f[n].serverOpen
<1>1. f[n] \in Link
  OBVIOUS
<1>2. CASE k # n
  BY <1>2
<1>3. CASE k = n
  BY <1>1, <1>3 DEF Link
<1> QED
  BY <1>2, <1>3

\* What a step does to the backlog and to the connection being served.
LEMMA TurnSteps ==
  ASSUME SessionInv, [Next]_vars
  PROVE  \/ Accept
         \/ \E c \in Clients : Connect(c)
         \/ serving \in Links /\ Hangup
         \/ /\ UNCHANGED << backlog, serving >>
            /\ \A n \in Links : link'[n].serverOpen = link[n].serverOpen
<1>1. /\ link \in [Links -> Link]
      /\ pc \in {"receive", "dispatch", "send"} => serving \in Links
  BY DEF SessionInv, StreamInv
<1>2. ASSUME NEW c \in Clients,
             \/ Call(c) \/ SendMalformed(c) \/ Receive(c)
             \/ Exit(c) \/ Die(c) \/ DieSending(c)
      PROVE  /\ UNCHANGED << backlog, serving >>
             /\ \A n \in Links : link'[n].serverOpen = link[n].serverOpen
  <2>1. UNCHANGED << backlog, serving >>
    BY <1>2 DEF Call, SendMalformed, Receive, Exit, Die, DieSending, serverVars
  <2>2. CASE Call(c) \/ SendMalformed(c)
    <3>1. PICK bytes : link' = [link EXCEPT ![client[c].on].up = bytes]
      BY <2>2 DEF Call, SendMalformed, Send
    <3> QED
      BY <1>1, <2>1, <3>1, OpenKept
  <2>3. CASE Receive(c)
    <3>1. PICK bytes : link' = [link EXCEPT ![client[c].on].down = bytes]
      BY <2>3 DEF Receive
    <3> QED
      BY <1>1, <2>1, <3>1, OpenKept
  <2>4. CASE Exit(c) \/ Die(c)
    <3>1. link' = [link EXCEPT ![client[c].on].clientOpen = FALSE]
      BY <2>4 DEF Exit, Die, Close
    <3> QED
      BY <1>1, <2>1, <3>1, OpenKept
  <2>5. CASE DieSending(c)
    <3>1. PICK bytes : link' = [link EXCEPT ![client[c].on].up = bytes,
                                            ![client[c].on].clientOpen = FALSE]
      BY <2>5 DEF DieSending
    <3> QED
      BY <1>1, <2>1, <3>1, OpenKept
  <2> QED
    BY <1>2, <2>2, <2>3, <2>4, <2>5
<1>3. ASSUME TakeFrame \/ ReceiveMore \/ Dispatch \/ SendResponse
      PROVE  /\ UNCHANGED << backlog, serving >>
             /\ \A n \in Links : link'[n].serverOpen = link[n].serverOpen
  <2>1. CASE TakeFrame \/ Dispatch
    BY <2>1 DEF TakeFrame, Dispatch
  <2>2. CASE ReceiveMore
    BY <1>1, <2>2 DEF ReceiveMore, Link
  <2>3. CASE SendResponse
    <3>1. UNCHANGED << backlog, serving >>
      BY <2>3 DEF SendResponse
    <3>2. CASE link[serving].clientOpen
      <4>1. PICK bytes : link' = [link EXCEPT ![serving].down = bytes]
        BY <2>3, <3>2 DEF SendResponse
      <4> QED
        BY <1>1, <3>1, <4>1, OpenKept
    <3>3. CASE ~link[serving].clientOpen
      <4>1. link' = [link EXCEPT ![serving].lost = TRUE]
        BY <2>3, <3>3 DEF SendResponse
      <4> QED
        BY <1>1, <3>1, <4>1, OpenKept
    <3> QED
      BY <3>2, <3>3
  <2> QED
    BY <1>3, <2>1, <2>2, <2>3
<1>4. ASSUME PeerGone \/ Reject \/ SendFails
      PROVE  serving \in Links /\ Hangup
  BY <1>1, <1>4 DEF PeerGone, Reject, SendFails
<1>5. CASE UNCHANGED vars
  BY <1>5 DEF vars
<1> QED
  BY <1>2, <1>3, <1>4, <1>5 DEF Next, Serve

\* Accept takes the first connection, and each of the others comes one place
\* nearer.
LEMMA AcceptMoves ==
  ASSUME SessionInv, Accept, NEW n \in Links, NEW p \in Nat, Within(n, p + 1)
  PROVE  serving' = n \/ Within(n, p)'
<1>1. /\ backlog \in Seq(Links) /\ backlog # << >>
      /\ serving' = Head(backlog) /\ backlog' = Tail(backlog)
  BY DEF SessionInv, StreamInv, Accept
<1>2. /\ Len(backlog) \in Nat /\ Head(backlog) = backlog[1]
      /\ Len(backlog') = Len(backlog) - 1
      /\ \A i \in 1 .. Len(backlog') : backlog'[i] = backlog[i + 1]
  BY <1>1, HeadTailProperties, EmptySeq
<1>3. PICK i \in 1 .. Len(backlog) : i <= p + 1 /\ backlog[i] = n
  BY DEF Within
<1>4. CASE i = 1
  BY <1>1, <1>2, <1>3, <1>4
<1>5. CASE i # 1
  <2>1. i - 1 \in 1 .. Len(backlog') /\ i - 1 <= p /\ (i - 1) + 1 = i
    BY <1>2, <1>3, <1>5
  <2>2. backlog'[i - 1] = n
    BY <1>2, <1>3, <2>1
  <2> QED
    BY <2>1, <2>2 DEF Within
<1> QED
  BY <1>4, <1>5

\* Connect puts its connection at the end.
LEMMA ConnectMoves ==
  ASSUME SessionInv, NEW c \in Clients, Connect(c)
  PROVE  /\ serving' = serving
         /\ \A n \in Links : \A p \in Nat : Within(n, p) => Within(n, p)'
         /\ \A n \in Links : Within(n, Len(backlog)) => Within(n, Len(backlog))'
         /\ \A n \in Links :
              \/ link'[n] = link[n]
              \/ ~link[n].clientOpen /\ ~link[n].serverOpen /\ Within(n, Len(backlog))'
<1>1. PICK m \in Links :
        /\ Free(m) /\ backlog' = Append(backlog, m)
        /\ link' = [link EXCEPT ![m] = [NoLink EXCEPT !.user = c,
                                          !.clientOpen = TRUE, !.serverOpen = TRUE]]
  BY DEF Connect
<1>2. /\ backlog \in Seq(Links) /\ link \in [Links -> Link] /\ serving' = serving
  BY DEF SessionInv, StreamInv, Connect
<1>3. /\ Len(backlog) \in Nat /\ Len(backlog') = Len(backlog) + 1
      /\ \A i \in 1 .. Len(backlog) : backlog'[i] = backlog[i]
      /\ backlog'[Len(backlog) + 1] = m
  BY <1>1, <1>2, AppendProperties
<1>4. \A i \in 1 .. Len(backlog) : i \in 1 .. Len(backlog') /\ i <= Len(backlog')
  BY <1>3
<1>5. \A n \in Links : link'[n] = link[n] \/ n = m
  BY <1>1, <1>2
<1>6. Within(m, Len(backlog))'
  BY <1>3 DEF Within
<1> QED
  BY <1>1, <1>2, <1>3, <1>4, <1>5, <1>6 DEF Within, Free

\* Hangup closes the connection being served, which no other waits behind.
LEMMA HangupMoves ==
  ASSUME SessionInv, serving \in Links, Hangup
  PROVE  /\ serving' = None /\ backlog' = backlog /\ ~link'[serving].serverOpen
         /\ \A n \in Links : n = serving \/ link'[n] = link[n]
BY DEF Hangup, SessionInv, StreamInv, Link

\* A connection the server has not closed is being served or in the backlog.
LEMMA OpenIsListedCorrect == Spec => []OpenIsListed
<1>1. Init => OpenIsListed
  BY DEF Init, NoLink, OpenIsListed
<1>2. SessionInv /\ OpenIsListed /\ [Next]_vars => OpenIsListed'
  <2> SUFFICES ASSUME SessionInv, OpenIsListed, [Next]_vars, NEW n \in Links,
                      link'[n].serverOpen
               PROVE  serving' = n \/ Within(n, Len(backlog))'
    BY DEF OpenIsListed
  <2>1. backlog \in Seq(Links) /\ Len(backlog) \in Nat
    BY DEF SessionInv, StreamInv
  <2>2. link[n].serverOpen => serving = n \/ Within(n, Len(backlog))
    BY DEF OpenIsListed
  <2>3. CASE Accept
    <3>1. link[n].serverOpen /\ serving # n
      BY <2>3, SessionAssumption DEF Accept, SessionInv, ServerInv
    <3>2. Len(backlog') \in Nat /\ Len(backlog) = Len(backlog') + 1
      BY <2>1, <2>3, HeadTailProperties, EmptySeq DEF Accept
    <3> PICK p \in Nat : p = Len(backlog')
      BY <3>2
    <3>3. serving' = n \/ Within(n, p)'
      BY <2>2, <2>3, <3>1, <3>2, AcceptMoves
    <3> QED
      BY <3>3 DEF Within
  <2>4. CASE \E c \in Clients : Connect(c)
    BY <2>2, <2>4, ConnectMoves
  <2>5. CASE serving \in Links /\ Hangup
    BY <2>2, <2>5, HangupMoves DEF Within
  <2>6. CASE /\ UNCHANGED << backlog, serving >>
             /\ \A k \in Links : link'[k].serverOpen = link[k].serverOpen
    BY <2>2, <2>6 DEF Within
  <2> QED
    BY <2>3, <2>4, <2>5, <2>6, TurnSteps
<1> QED
  BY <1>1, <1>2, SessionInvariance, PTL DEF Spec

(* A client that waits, on this connection; until the server has closed it,*)
(* it is among the first p of the backlog, or in its turn.                 *)
Waits(c)        == client[c].phase = "waiting"
At(c, n)        == Waits(c) /\ client[c].on = n
Queued(c, n, p) == At(c, n) /\ Within(n, p)
InTurn(c, n)    == At(c, n) /\ serving = n
Closed(c, n)    == At(c, n) /\ ~link[n].serverOpen

\* A client waits on one connection, of its own.
LEMMA WaitsThere ==
  ASSUME SessionInv, NEW c \in Clients, [Next]_vars, Waits(c)
  PROVE  /\ client[c].on \in Links /\ link[client[c].on].clientOpen
         /\ ~Waits(c)' \/ client'[c].on = client[c].on
<1>1. /\ client[c].on \in Links /\ link[client[c].on].clientOpen
      /\ DOMAIN client = Clients
      /\ client[c] = [ phase |-> client[c].phase, on |-> client[c].on, got |-> client[c].got,
                       outcome |-> client[c].outcome, asked |-> client[c].asked,
                       times |-> client[c].times, answer |-> client[c].answer ]
  BY ClientState DEF Waits, SessionInv
<1>2. ASSUME NEW d \in Clients,
             \/ Connect(d) \/ Call(d) \/ SendMalformed(d)
             \/ Exit(d) \/ Die(d) \/ DieSending(d)
      PROVE  ~Waits(c)' \/ client'[c].on = client[c].on
  <2>1. CASE Connect(d)
    BY <1>1, <2>1 DEF Connect, Waits
  <2>2. CASE Call(d) \/ SendMalformed(d)
    BY <1>1, <2>2 DEF Call, MayCall, SendMalformed, Waits
  <2>3. CASE Exit(d) \/ Die(d) \/ DieSending(d)
    <3>1. client' = [client EXCEPT ![d] = NoClient]
      BY <2>3 DEF Exit, Die, DieSending, Close
    <3> QED
      BY <1>1, <3>1 DEF NoClient, Waits
  <2> QED
    BY <1>2, <2>1, <2>2, <2>3
<1>3. ASSUME NEW d \in Clients, Receive(d)
      PROVE  ~Waits(c)' \/ client'[c].on = client[c].on
  BY <1>1, <1>3 DEF Receive
<1>4. ASSUME Serve
      PROVE  client'[c].on = client[c].on
  <2>1. CASE Dispatch
    BY <1>1, <2>1 DEF Dispatch
  <2>2. CASE Accept \/ TakeFrame \/ ReceiveMore \/ PeerGone \/ Reject \/ SendResponse \/ SendFails
    BY <2>2 DEF Accept, TakeFrame, ReceiveMore, PeerGone, Reject, SendResponse, SendFails, Hangup
  <2> QED
    BY <1>4, <2>1, <2>2 DEF Serve
<1>5. ASSUME UNCHANGED vars
      PROVE  client'[c].on = client[c].on
  BY <1>5 DEF vars
<1> QED
  BY <1>1, <1>2, <1>3, <1>4, <1>5 DEF Next

LEMMA StaysThere ==
  ASSUME SessionInv, NEW c \in Clients, NEW n \in Links, [Next]_vars, At(c, n)
  PROVE  ~Waits(c)' \/ At(c, n)'
BY WaitsThere DEF At

\* The server moves from a waiting client's connection only to close it, and
\* nobody opens it again.
LEMMA TurnEnds ==
  ASSUME SessionInv, NEW c \in Clients, NEW n \in Links, [Next]_vars
  PROVE  /\ InTurn(c, n) => ~Waits(c)' \/ InTurn(c, n)' \/ Closed(c, n)'
         /\ Closed(c, n) => ~Waits(c)' \/ Closed(c, n)'
<1> SUFFICES ASSUME At(c, n), At(c, n)'
             PROVE  /\ serving = n => serving' = n \/ ~link'[n].serverOpen
                    /\ ~link[n].serverOpen => ~link'[n].serverOpen
  BY StaysThere DEF InTurn, Closed
<1>1. link[n].clientOpen
  BY WaitsThere DEF At
<1>2. CASE Accept
  BY <1>2, SessionAssumption DEF Accept, SessionInv, ServerInv
<1>3. CASE \E d \in Clients : Connect(d)
  BY <1>1, <1>3, ConnectMoves
<1>4. CASE serving \in Links /\ Hangup
  BY <1>4, HangupMoves
<1> QED
  BY <1>2, <1>3, <1>4, TurnSteps

\* A connection in the backlog stays where it is until the next is accepted.
LEMMA QueueMoves ==
  ASSUME SessionInv, NEW c \in Clients, NEW n \in Links, NEW p \in Nat, [Next]_vars,
         Queued(c, n, p + 1)
  PROVE  IF Accept THEN ~Waits(c)' \/ InTurn(c, n)' \/ Queued(c, n, p)'
         ELSE ~Waits(c)' \/ Queued(c, n, p + 1)'
<1> SUFFICES ASSUME At(c, n)'
             PROVE  IF Accept THEN serving' = n \/ Within(n, p)' ELSE Within(n, p + 1)'
  BY StaysThere DEF Queued, InTurn
<1>1. Within(n, p + 1) /\ p + 1 \in Nat
  BY DEF Queued
<1>2. CASE Accept
  BY <1>1, <1>2, AcceptMoves
<1>3. CASE ~Accept /\ \E d \in Clients : Connect(d)
  BY <1>1, <1>3, ConnectMoves
<1>4. CASE ~Accept /\ serving \in Links /\ Hangup
  BY <1>1, <1>4, HangupMoves DEF Within
<1> QED
  BY <1>1, <1>2, <1>3, <1>4, TurnSteps DEF Within

\* The connection being served is that until it is closed, and then there is
\* none.
LEMMA ServedUntilClosed ==
  ASSUME SessionInv, NEW m \in Links, serving = m, [Next]_vars
  PROVE  serving' = m \/ serving' = None
<1>1. ~Accept
  BY SessionAssumption DEF Accept, SessionInv, ServerInv
<1> QED
  BY <1>1, TurnSteps, ConnectMoves, HangupMoves

\* A client whose connection the server has closed has nothing to read.
LEMMA ClosedIsEmpty ==
  ASSUME SessionInv, NEW c \in Clients, NEW n \in Links, Closed(c, n)
  PROVE  link[n].down = << >>
<1>1. Conversation(c, client[c], link[n], Handling(n), Held(n), Pending(n))
  BY ClientState DEF Closed, At, Waits
<1> QED
  BY <1>1 DEF Closed, At, Waits, Conversation, AtRest, Asking, Answered, Foreign

\* While nobody is served, the next thing the server does is to accept.
LEMMA NobodyServed ==
  ASSUME SessionInv, serving = None, [Next]_vars
  PROVE  serving' = None \/ Accept
BY TurnSteps, ConnectMoves, SessionAssumption

LEMMA ServesByAccepting ==
  ASSUME SessionInv, serving = None, Serve
  PROVE  Accept
<1>1. pc = "accept"
  BY DEF SessionInv, ServerInv
<1> QED
  BY <1>1 DEF Serve, TakeFrame, ReceiveMore, PeerGone, Reject, Dispatch, SendResponse, SendFails

(* The emulator accepts who waits when it serves nobody, and a client whose*)
(* connection is closed exits: Serve and Exit are enabled then.            *)
CanAccept  == pc = "accept" /\ backlog # << >>
CanExit(c) == Waits(c) /\ ~link[client[c].on].serverOpen /\ link[client[c].on].down = << >>

KeepsAccepting == []([]CanAccept => <><< Serve >>_vars)
KeepsExiting(c) == []([]CanExit(c) => <><< Exit(c) >>_vars)

KeepsServing == KeepsAccepting /\ \A c \in Clients : KeepsExiting(c)

(* The connection is not served for ever; a client that is p places from   *)
(* its turn gets its turn, its answer, or to place q.                      *)
Leaves(n)        == []<>(serving # n)
Shifts(c, n, p, q) == [](Queued(c, n, p) => <>(~Waits(c) \/ InTurn(c, n) \/ Queued(c, n, q)))

\* Nobody is served for ever, as the premise of ServedInTurn has it.
LEMMA NobodyForEver ==
  (\A n \in Links : []<>(serving # n)) => \A n \in Links : Leaves(n)
BY DEF Leaves

\* The connection in service gives way to nobody or to a turn.
LEMMA ServiceEnds ==
  ASSUME NEW c \in Clients, NEW n \in Links, NEW p \in Nat, NEW m \in Links
  PROVE  Spec /\ Leaves(m) =>
           [](Queued(c, n, p + 1) /\ serving = m =>
                <>(~Waits(c) \/ InTurn(c, n) \/ Queued(c, n, p)
                     \/ (Queued(c, n, p + 1) /\ serving = None)))
<1> DEFINE Here   == Queued(c, n, p + 1)
           Passed == ~Waits(c) \/ InTurn(c, n) \/ Queued(c, n, p)
           Busy   == serving = m
           Idle   == serving = None
<1>1. SessionInv /\ Here /\ [Next]_vars => Here' \/ Passed'
  BY QueueMoves
<1>2. SessionInv /\ Busy /\ [Next]_vars => Busy' \/ Idle'
  BY ServedUntilClosed
<1>3. serving # m => ~Busy
  OBVIOUS
<1> HIDE DEF Here, Passed, Busy, Idle
<1>4. Spec /\ Leaves(m) => [](Here /\ Busy => <>(Passed \/ (Here /\ Idle)))
  BY <1>1, <1>2, <1>3, SessionInvariance, PTL DEF Spec, Leaves
<1> QED
  BY <1>4 DEF Here, Passed, Busy, Idle

\* One place nearer.
LEMMA NextPlace ==
  ASSUME NEW c \in Clients, NEW n \in Links, NEW p \in Nat
  PROVE  Spec /\ KeepsServing /\ (\A m \in Links : Leaves(m)) => Shifts(c, n, p + 1, p)
<1> DEFINE Here   == Queued(c, n, p + 1)
           Passed == ~Waits(c) \/ InTurn(c, n) \/ Queued(c, n, p)
           Idle   == Here /\ serving = None
           All    == \A m \in Links : Leaves(m)
           Finishes(m) == Here /\ serving = m => <>(Passed \/ Idle)
<1>1. ASSUME NEW m \in Links
      PROVE  Spec /\ Leaves(m) => []Finishes(m)
  BY ServiceEnds
<1>2. SessionInv => serving = None \/ \E m \in Links : serving = m
  BY DEF SessionInv, StreamInv, ServerInv
<1>3. SessionInv /\ Idle => CanAccept
  BY DEF SessionInv, ServerInv, StreamInv, Queued, Within, CanAccept
<1>4. SessionInv /\ Idle /\ [Next]_vars => Idle' \/ Passed' \/ << Serve >>_vars
  <2> SUFFICES ASSUME SessionInv, Queued(c, n, p + 1), serving = None, [Next]_vars
               PROVE  Idle' \/ Passed' \/ << Serve >>_vars
    OBVIOUS
  <2>1. Accept => << Serve >>_vars
    BY DEF Accept, Serve, vars
  <2>2. ~Accept => serving' = None
    BY NobodyServed
  <2> QED
    BY <2>1, <2>2, QueueMoves
<1>5. SessionInv /\ Idle /\ << Serve >>_vars => Passed'
  <2> SUFFICES ASSUME SessionInv, Queued(c, n, p + 1), serving = None, Serve
               PROVE  Passed'
    OBVIOUS
  <2>1. Accept /\ [Next]_vars
    BY ServesByAccepting DEF Next
  <2> QED
    BY <2>1, QueueMoves
<1> HIDE DEF Here, Passed, Idle
<1>6. Spec /\ All => \A m \in Links : []Finishes(m)
  BY <1>1
<1>7. (\A m \in Links : []Finishes(m)) => [](\A m \in Links : Finishes(m))
  OBVIOUS
<1>8. SessionInv /\ (\A m \in Links : Finishes(m)) => (Here => Idle \/ <>(Passed \/ Idle))
  BY <1>2 DEF Idle
<1> DEFINE Every == \A m \in Links : Finishes(m)
<1>9. Spec /\ All => []Every
  BY <1>6, <1>7
<1>10. SessionInv /\ Every => (Here => Idle \/ <>(Passed \/ Idle))
  BY <1>8
<1>11. KeepsServing => KeepsAccepting
  BY DEF KeepsServing
<1> HIDE DEF Every, All
<1>12. Spec /\ KeepsServing /\ All => [](Here => <>Passed)
  BY <1>3, <1>4, <1>5, <1>9, <1>10, <1>11, SessionInvariance, PTL DEF Spec, KeepsAccepting
<1> QED
  BY <1>12 DEF Shifts, Here, Passed, All

\* Place after place.
LEMMA ShiftsOn ==
  ASSUME NEW c \in Clients, NEW n \in Links, NEW p \in Nat, NEW q \in Nat, NEW r \in Nat
  PROVE  Shifts(c, n, p, q) /\ Shifts(c, n, q, r) => Shifts(c, n, p, r)
BY PTL DEF Shifts

\* No connection is twice in the backlog, so it is no longer than there are
\* connections.
LEMMA BacklogLength ==
  ASSUME SessionInv, IsFiniteSet(Links)
  PROVE  Len(backlog) <= Cardinality(Links)
<1>1. /\ backlog \in Seq(Links) /\ Len(backlog) \in Nat
      /\ \A i, j \in 1 .. Len(backlog) : backlog[i] = backlog[j] => i = j
  BY DEF SessionInv, StreamInv, ServerInv
<1>2. /\ IsFiniteSet(1 .. Len(backlog)) /\ Cardinality(1 .. Len(backlog)) = Len(backlog)
      /\ Cardinality(Links) \in Nat
  <2>1. ASSUME NEW len \in Nat
        PROVE  IsFiniteSet(1 .. len) /\ Cardinality(1 .. len) = len
    <3>1. 1 \in Int /\ len \in Int /\ (1 > len => len = 0) /\ len - 1 + 1 = len
      OBVIOUS
    <3>2. /\ IsFiniteSet(1 .. len)
          /\ Cardinality(1 .. len) = IF 1 > len THEN 0 ELSE len - 1 + 1
      BY <3>1, FS_Interval
    <3> QED
      BY <3>1, <3>2
  <2> QED
    BY <1>1, <2>1, FS_CardinalityType
<1>3. backlog \in [1 .. Len(backlog) -> Links]
  BY <1>1
<1>4. ~(Cardinality(Links) < Cardinality(1 .. Len(backlog)))
  BY <1>1, <1>2, <1>3, FS_PigeonHole
<1> QED
  BY <1>1, <1>2, <1>4

\* Who is in the backlog has its turn or its answer.
LEMMA TurnComes ==
  ASSUME NEW c \in Clients, NEW n \in Links
  PROVE  Spec /\ KeepsServing /\ (\A m \in Links : Leaves(m)) => Shifts(c, n, 65536, 0)
<1> DEFINE Fair == Spec /\ KeepsServing /\ (\A m \in Links : Leaves(m))
           Far(k) == \A p \in Nat : Fair => Shifts(c, n, p + k, p)
<1> HIDE DEF Fair
<1>1. Far(1)
  BY NextPlace DEF Fair
<1>2. ASSUME NEW k \in Nat, Far(k)
      PROVE  Far(2 * k)
  <2> SUFFICES ASSUME NEW p \in Nat
               PROVE  Fair => Shifts(c, n, p + 2 * k, p)
    OBVIOUS
  <2>1. p + k \in Nat /\ p + 2 * k \in Nat /\ (p + k) + k = p + 2 * k
    OBVIOUS
  <2>2. Fair => Shifts(c, n, (p + k) + k, p + k) /\ Shifts(c, n, p + k, p)
    BY <1>2, <2>1
  <2> QED
    BY <2>1, <2>2, ShiftsOn
<1> HIDE DEF Far
<1>3. Far(65536)
  <2>1. Far(2) /\ Far(4) /\ Far(8) /\ Far(16)
    BY <1>1, <1>2
  <2>2. Far(32) /\ Far(64) /\ Far(128) /\ Far(256)
    BY <2>1, <1>2
  <2>3. Far(512) /\ Far(1024) /\ Far(2048) /\ Far(4096)
    BY <2>2, <1>2
  <2>4. Far(8192) /\ Far(16384) /\ Far(32768) /\ Far(65536)
    BY <2>3, <1>2
  <2> QED
    BY <2>4
<1>4. 0 \in Nat /\ 0 + 65536 = 65536
  OBVIOUS
<1> QED
  BY <1>3, <1>4 DEF Far, Fair

\* A client that waits does not wait for ever.
LEMMA WaitEnds ==
  ASSUME IsFiniteSet(Links), Cardinality(Links) <= 65536,
         NEW c \in Clients, NEW n \in Links
  PROVE  Spec /\ KeepsServing /\ (\A m \in Links : Leaves(m)) => [](At(c, n) => <>~Waits(c))
<1> DEFINE Fair == Spec /\ KeepsServing /\ (\A m \in Links : Leaves(m))
           There == At(c, n)
           First == Queued(c, n, 65536)
           Final == Queued(c, n, 0)
           Turn == InTurn(c, n)
           Out == Closed(c, n)
           Waiting == Waits(c)
           Able == CanExit(c)
           Inv == SessionInv /\ OpenIsListed
<1>1. Inv /\ There => First \/ Turn \/ Out
  <2> SUFFICES ASSUME SessionInv, OpenIsListed, At(c, n), link[n].serverOpen, serving # n
               PROVE  Within(n, 65536)
    BY DEF Queued, InTurn, Closed
  <2>1. Within(n, Len(backlog)) /\ Len(backlog) <= Cardinality(Links)
    BY BacklogLength DEF OpenIsListed
  <2>2. Len(backlog) \in Nat /\ Cardinality(Links) \in Nat
    BY FS_CardinalityType DEF SessionInv, StreamInv
  <2> QED
    BY <2>1, <2>2 DEF Within
<1>2. Inv => ~Final
  <2>1. ~Within(n, 0)
    BY DEF Within
  <2> QED
    BY <2>1 DEF Queued
<1>3. Inv /\ Turn /\ [Next]_vars => ~Waiting' \/ Turn' \/ Out'
  BY TurnEnds
<1>4. Inv /\ Out /\ [Next]_vars => ~Waiting' \/ Out'
  BY TurnEnds
<1>5. Turn => ~(serving # n)
  BY DEF InTurn
<1>6. Inv /\ Out => Able
  BY ClosedIsEmpty DEF Closed, At, CanExit
<1>7. Inv /\ Out /\ << Exit(c) >>_vars => ~Waiting'
  BY DEF SessionInv, Exit, Close, NoClient, Waits
<1> HIDE DEF There, First, Final, Turn, Out, Waiting, Able, Inv
<1>8. Fair => [](First => <>(~Waiting \/ Turn \/ Final))
  BY TurnComes DEF Shifts, First, Final, Turn, Waiting
<1>9. Fair => []<>(serving # n)
  <2>1. Fair => Leaves(n)
    OBVIOUS
  <2>2. Leaves(n) => []<>(serving # n)
    BY DEF Leaves
  <2> QED
    BY <2>1, <2>2
<1>10. Fair => []([]Able => <><< Exit(c) >>_vars)
  BY DEF KeepsServing, KeepsExiting, Able
<1>11. Fair => Spec
  OBVIOUS
<1>12. Spec => []Inv
  BY SessionInvariance, OpenIsListedCorrect, PTL DEF Inv
<1> HIDE DEF Fair
<1>13. Fair => [](There => <>~Waiting)
  BY <1>1, <1>2, <1>3, <1>4, <1>5, <1>6, <1>7, <1>8, <1>9, <1>10, <1>11, <1>12, PTL DEF Spec
<1> QED
  BY <1>13 DEF Fair, There, Waiting

\* Every client that waits, behind whichever clients of whatever make, gets its
\* answer or learns that there is none, as long as no connection is served for
\* ever and the emulator and the clients keep running: for any requests,
\* statuses and pieces and up to 2^16 connections.  The proof doubles the places
\* in the backlog sixteen times (main.cpp 158-194).
THEOREM ServedInTurnCorrect ==
  ASSUME IsFiniteSet(Links), Cardinality(Links) <= 65536
  PROVE  Spec /\ KeepsServing => ServedInTurn
<1> DEFINE Fair == Spec /\ KeepsServing /\ (\A m \in Links : Leaves(m))
<1>1. ASSUME NEW c \in Clients
      PROVE  Fair => (client[c].phase = "waiting" ~> client[c].phase # "waiting")
  <2> DEFINE Waiting == Waits(c)
             Finishes(n) == At(c, n) => <>~Waiting
             Every == \A n \in Links : Finishes(n)
  <2>1. SessionInv /\ Waiting => \E n \in Links : At(c, n)
    <3> SUFFICES ASSUME SessionInv, Waits(c) PROVE \E n \in Links : At(c, n)
      OBVIOUS
    <3>1. client[c].on \in Links
      BY DEF SessionInv, ClientInv, Waits
    <3> QED
      BY <3>1 DEF At
  <2>2. ASSUME NEW n \in Links
        PROVE  Fair => []Finishes(n)
    BY WaitEnds
  <2> HIDE DEF Waiting
  <2>3. Fair => \A n \in Links : []Finishes(n)
    BY <2>2
  <2>4. (\A n \in Links : []Finishes(n)) => [](\A n \in Links : Finishes(n))
    OBVIOUS
  <2>5. Fair => []Every
    BY <2>3, <2>4
  <2>6. SessionInv /\ Every => (Waiting => <>~Waiting)
    BY <2>1
  <2>7. Fair => Spec
    OBVIOUS
  <2> HIDE DEF Every, Fair
  <2>8. Fair => (Waiting ~> ~Waiting)
    BY <2>5, <2>6, <2>7, SessionInvariance, PTL
  <2>9. /\ client[c].phase = "waiting" => Waiting
        /\ ~Waiting => client[c].phase # "waiting"
    BY DEF Waiting, Waits
  <2> QED
    BY <2>8, <2>9, PTL
<1> QED
  BY <1>1, NobodyForEver DEF ServedInTurn

-------------------------------------------------------------------------------
(* A tab that closes frees the emulator.  The viewer asks and relays until *)
(* it notices, and it does at the second status it relays.                 *)

\* What a client does is nothing to another client or its connection.
LEMMA OthersPass ==
  ASSUME SessionInv, NEW c \in Clients, NEW d \in Clients, d # c,
         \/ Connect(d) \/ Call(d) \/ SendMalformed(d) \/ Receive(d)
         \/ Exit(d) \/ Die(d) \/ DieSending(d)
  PROVE  /\ client'[c] = client[c] /\ UNCHANGED << serving, received, pc, frame >>
         /\ client[c].phase # "off" => link'[client[c].on] = link[client[c].on]
<1>1. /\ link \in [Links -> Link] /\ DOMAIN client = Clients
      /\ client[c].phase # "off" =>
           /\ client[c].on \in Links /\ link[client[c].on].clientOpen
           /\ link[client[c].on].user = c
  BY DEF SessionInv, StreamInv, ClientInv
<1>2. CASE Connect(d)
  <2>1. PICK m \in Links :
          /\ ~link[m].clientOpen
          /\ link' = [link EXCEPT ![m] = link'[m]]
          /\ client' = [client EXCEPT ![d] = client'[d]]
    BY <1>1, <1>2 DEF Connect, Free
  <2>2. UNCHANGED << serving, received, pc, frame >>
    BY <1>2 DEF Connect
  <2> QED
    BY <1>1, <2>1, <2>2
<1>3. CASE \/ Call(d) \/ SendMalformed(d) \/ Receive(d)
           \/ Exit(d) \/ Die(d) \/ DieSending(d)
  <2>1. client[d].phase # "off" /\ UNCHANGED << serving, received, pc, frame >>
    BY <1>3 DEF Call, MayCall, SendMalformed, Receive, Exit, Die, DieSending, serverVars
  <2>2. client[d].on \in Links /\ link[client[d].on].user = d
    BY <2>1 DEF SessionInv, ClientInv
  <2>3. \A n \in Links : n # client[d].on => link'[n] = link[n]
    <3>1. CASE Call(d) \/ SendMalformed(d)
      BY <1>1, <3>1 DEF Call, SendMalformed, Send
    <3>2. CASE Receive(d)
      BY <1>1, <3>2 DEF Receive
    <3>3. CASE Exit(d) \/ Die(d)
      BY <1>1, <3>3 DEF Exit, Die, Close
    <3>4. CASE DieSending(d)
      BY <1>1, <3>4 DEF DieSending
    <3> QED
      BY <1>3, <3>1, <3>2, <3>3, <3>4
  <2>4. client'[c] = client[c]
    <3>1. CASE Call(d) \/ SendMalformed(d)
      BY <1>1, <3>1 DEF Call, SendMalformed
    <3>2. CASE Receive(d)
      BY <1>1, <3>2 DEF Receive
    <3>3. CASE Exit(d) \/ Die(d) \/ DieSending(d)
      BY <1>1, <3>3 DEF Exit, Die, Close, DieSending
    <3> QED
      BY <1>3, <3>1, <3>2, <3>3
  <2> QED
    BY <1>1, <2>1, <2>2, <2>3, <2>4
<1> QED
  BY <1>2, <1>3

\* The server changes nothing of a client but what is noted of its answer.
LEMMA ServeNotes ==
  ASSUME SessionInv, Serve, NEW c \in Clients
  PROVE  /\ client'[c].phase = client[c].phase /\ client'[c].on = client[c].on
         /\ client'[c].got = client[c].got /\ client'[c].asked = client[c].asked
         /\ client'[c].outcome = client[c].outcome
<1>1. CASE ~Dispatch
  <2>1. UNCHANGED client
    BY <1>1 DEF Serve, Accept, TakeFrame, ReceiveMore, PeerGone, Reject, SendResponse,
                SendFails, Hangup
  <2> QED
    BY <2>1
<1>2. CASE Dispatch
  <2> DEFINE user == link[serving].user
  <2>1. PICK answer :
          client' = IF link[serving].clientOpen
                    THEN [client EXCEPT ![user].answer = answer,
                                        ![user].times = IF @ < 2 THEN @ + 1 ELSE @]
                    ELSE client
    BY <1>2 DEF Dispatch
  <2>2. DOMAIN client = Clients
        /\ client[c] = [ phase |-> client[c].phase, on |-> client[c].on, got |-> client[c].got,
                         outcome |-> client[c].outcome, asked |-> client[c].asked,
                         times |-> client[c].times, answer |-> client[c].answer ]
    BY DEF SessionInv, ClientInv
  <2>3. CASE ~link[serving].clientOpen \/ user # c
    <3>1. client'[c] = client[c]
      BY <2>1, <2>2, <2>3
    <3> QED
      BY <3>1
  <2>4. CASE link[serving].clientOpen /\ user = c
    <3>1. client'[c] = [client[c] EXCEPT !.answer = answer,
                          !.times = IF client[c].times < 2 THEN client[c].times + 1
                                    ELSE client[c].times]
      BY <2>1, <2>2, <2>4
    <3> QED
      BY <2>2, <3>1
  <2> QED
    BY <2>3, <2>4
<1> QED
  BY <1>1, <1>2

(* What the viewer has in hand goes with where it is: a connection to the  *)
(* emulator is there for a tab only, a status to relay only after a call   *)
(* that succeeded, and it waits for the whole of an answer it asked for.   *)
ViewerInv ==
  /\ ~OffLine => program = "viewer" /\ stage = "open"
  /\ unsent => MayCall(TheViewer)
  /\ Waits(TheViewer) => /\ client[TheViewer].asked # None
                         /\ IsIncomplete(client[TheViewer].got)

LEMMA TheViewerIs == TheViewer \in Clients /\ Pollers = {TheViewer}
BY SessionAssumption, ViewerAssumption

LEMMA ViewerInvCorrect == ViewerSpec => []ViewerInv
<1> DEFINE V == TheViewer
           me == client[TheViewer]
<1>1. ViewerInit => ViewerInv
  BY TheViewerIs DEF ViewerInit, Init, NoClient, OffLine, Waits, ViewerInv
<1>2. SessionInv /\ ViewerInv /\ [ViewerNext]_viewerVars => ViewerInv'
  <2> SUFFICES ASSUME SessionInv, ViewerInv, [ViewerNext]_viewerVars
               PROVE  ViewerInv'
    OBVIOUS
  <2>1. /\ V \in Clients /\ V \in Pollers /\ DOMAIN client = Clients
        /\ client[V] = [ phase |-> client[V].phase, on |-> client[V].on,
                         got |-> client[V].got, outcome |-> client[V].outcome,
                         asked |-> client[V].asked, times |-> client[V].times,
                         answer |-> client[V].answer ]
    BY TheViewerIs DEF SessionInv, ClientInv
  <2>2. /\ client[V].phase # "off" => program = "viewer" /\ stage = "open"
        /\ unsent => MayCall(V)
        /\ client[V].phase = "waiting" => client[V].asked # None /\ IsIncomplete(client[V].got)
    BY DEF ViewerInv, OffLine, Waits
  <2> DEFINE Goal == /\ client'[V].phase # "off" => program' = "viewer" /\ stage' = "open"
                     /\ unsent' => MayCall(V)'
                     /\ client'[V].phase = "waiting" =>
                          client'[V].asked # None /\ IsIncomplete(client'[V].got)
  <2>3. Goal => ViewerInv'
    BY DEF ViewerInv, OffLine, Waits
  <2>17. (/\ client'[V].phase = client[V].phase /\ client'[V].asked = client[V].asked
         /\ client'[V].outcome = client[V].outcome)
           => MayCall(V)' = MayCall(V)
    BY DEF MayCall
  <2>4. CASE Browse
    BY <2>2, <2>3, <2>17, <2>4 DEF Browse, OpenTab, CloseTab, vars
  <2>5. CASE Handshake /\ UNCHANGED << vars, program, unsent >>
    BY <2>2, <2>3, <2>17, <2>5 DEF Handshake, AcceptTab, ReadRequest, Receiving, RequestFails,
                            AnswerRequest, RefuseRequest, DropTab, vars
  <2>6. CASE ConnectToEmulator /\ program = "viewer"
    <3>1. client'[V].phase = "idle"
      BY <2>1, <2>6 DEF ConnectToEmulator, Connect, NoClient
    <3>2. ~unsent /\ stage = "open" /\ UNCHANGED << wsVars, program, unsent >>
      BY <2>2, <2>6 DEF ConnectToEmulator, Connect, MayCall
    <3> QED
      BY <2>3, <2>6, <3>1, <3>2 DEF wsVars
  <2>7. CASE ConnectFails
    <3>1. ~unsent /\ UNCHANGED << client, unsent >> /\ client[V].phase = "off"
      BY <2>2, <2>7 DEF ConnectFails, OffLine, MayCall, vars
    <3> QED
      BY <2>3, <3>1
  <2>8. CASE Poll
    <3>1. PICK request \in Requests(V) :
            client' = [client EXCEPT ![V] = [@ EXCEPT !.phase = "waiting", !.got = << >>,
                         !.outcome = None, !.asked = request, !.times = 0, !.answer = None]]
      BY <2>8 DEF Poll, Call
    <3>2. client'[V].phase = "waiting" /\ client'[V].asked = request /\ client'[V].got = << >>
      BY <2>1, <3>1
    <3>3. request # None
      BY RequestsAreShort
    <3>4. client[V].phase = "idle" /\ ~unsent
      BY <2>8 DEF Poll, Call, MayCall
    <3> QED
      BY <2>2, <2>3, <2>8, <3>2, <3>3, <3>4, NothingIsNoFrame DEF Poll, wsVars
  <2>9. CASE ReceiveStatus
    <3>1. client[V].phase = "waiting"
      BY <2>9 DEF ReceiveStatus, Receive
    <3>2. PICK got :
            client' = [client EXCEPT ![V] =
               IF IsIncomplete(got) THEN [@ EXCEPT !.got = got]
               ELSE [@ EXCEPT !.got = << >>, !.phase = "idle",
                       !.outcome = Understood(client[V].asked, got)]]
      BY <2>9 DEF ReceiveStatus, Receive
    <3>3. unsent' => MayCall(V)'
      BY <2>1, <2>9 DEF ReceiveStatus, MayCall
    <3>4. \/ client'[V].phase = "idle"
          \/ /\ client'[V].asked = client[V].asked /\ client'[V].phase = "waiting"
             /\ client'[V].got = got /\ IsIncomplete(got)
      BY <2>1, <3>1, <3>2
    <3> QED
      BY <2>2, <2>3, <2>9, <3>1, <3>3, <3>4 DEF ReceiveStatus, wsVars
  <2>10. CASE EmulatorLost \/ RelayFails
    <3>1. client'[V] = NoClient
      BY <2>1, <2>10 DEF EmulatorLost, RelayFails, Exit, Die, Close
    <3>2. ~unsent'
      BY <2>2, <2>10 DEF EmulatorLost, RelayFails, Exit, MayCall
    <3>3. client'[V].phase = "off"
      BY <3>1 DEF NoClient
    <3> QED
      BY <2>3, <3>2, <3>3
  <2>11. CASE Relay
    BY <2>2, <2>3, <2>17, <2>11 DEF Relay, SendText, vars
  <2>12. CASE Killed \/ Interrupted
    <3>1. ~unsent' /\ client'[V].phase = "off"
      BY <2>1, <2>12 DEF Killed, Interrupted, Ends, Die, DieSending, Close, OffLine, NoClient, vars
    <3> QED
      BY <2>3, <3>1
  <2>13. CASE Beside(Serve)
    BY <2>1, <2>2, <2>3, <2>17, <2>13, ServeNotes DEF Beside, wsVars
  <2>14. CASE \E d \in Clients \ Pollers :
                \/ Beside(Connect(d)) \/ Beside(Call(d)) \/ Beside(SendMalformed(d))
                \/ Beside(Receive(d)) \/ Beside(Exit(d)) \/ Beside(Die(d)) \/ Beside(DieSending(d))
    <3>1. client'[V] = client[V] /\ UNCHANGED << wsVars, program, unsent >>
      BY <2>1, <2>14, OthersPass DEF Beside
    <3> QED
      BY <2>2, <2>3, <2>17, <3>1 DEF wsVars
  <2>15. CASE program = "reader" /\ ReaderLoop
    BY <2>2, <2>3, <2>17, <2>15 DEF ReaderLoop, Handshake, AcceptTab, ReadRequest, Receiving, RequestFails,
                             AnswerRequest, RefuseRequest, DropTab, Poller, PollFrame, ReadFrame,
                             PollFails, Leave, vars
  <2>16. CASE UNCHANGED viewerVars
    BY <2>2, <2>3, <2>17, <2>16 DEF viewerVars, vars, wsVars
  <2> QED
    BY <2>4, <2>5, <2>6, <2>7, <2>8, <2>9, <2>10, <2>11, <2>12, <2>13, <2>14, <2>15, <2>16
       DEF ViewerNext, ViewerLoop, Others
<1> QED
  BY <1>1, <1>2, ViewerImplementsSession, SessionInvariance, PTL DEF ViewerSpec

(* The exchange of a client that waits and is being served: its request is *)
(* on the way, less than u cells of it; the server has it in hand, and     *)
(* then its answer; at most d cells of the answer are on the way.          *)
Sent(c, n, u)   == InTurn(c, n) /\ pc = "receive" /\ client[c].times = 0 /\ Len(link[n].up) < u
InHand(c, n)    == InTurn(c, n) /\ pc = "dispatch"
Answering(c, n) == InTurn(c, n) /\ pc = "send"
Coming(c, n, d) == InTurn(c, n) /\ pc = "receive" /\ client[c].times = 1 /\ Len(link[n].down) <= d

(* maxPayloadSize, and a length no frame reaches then.                    *)
PayloadBounded == MaxPayload <= 1048576
Longest        == 2097152

\* Where the exchange is, of a client that has asked and has not got all.
LEMMA WaitState ==
  ASSUME SessionInv, NEW c \in Clients, NEW n \in Links, InTurn(c, n),
         client[c].asked # None, IsIncomplete(client[c].got)
  PROVE  /\ link[n].clientOpen /\ link[n].user = c /\ n # None
         /\ Len(link[n].up) \in Nat /\ Len(link[n].down) \in Nat
         /\ client[c].asked \in Requests(c)
         /\ \/ /\ pc = "receive" /\ client[c].times = 0
               /\ link[n].down = << >> /\ received \o link[n].up = Encode(client[c].asked)
            \/ pc = "dispatch" /\ client[c].times = 0 /\ frame = client[c].asked
            \/ pc = "send" /\ client[c].times = 1 /\ frame \in ShortFrame /\ link[n].down = << >>
            \/ /\ pc = "receive" /\ client[c].times = 1
               /\ received = << >> /\ link[n].up = << >> /\ link[n].down # << >>
<1> DEFINE me == client[c]
<1>1. /\ me.phase = "waiting" /\ me.on = n /\ serving = n
      /\ link[n].clientOpen /\ link[n].user = c
      /\ Conversation(c, me, link[n], Handling(n), Held(n), Pending(n))
      /\ link[n].up \in Seq(Cell) /\ link[n].down \in Seq(Cell) /\ received \in Seq(Cell)
  BY ClientState DEF InTurn, At, Waits, Buffer
<1>2. /\ n # None /\ Pending(n) = received \o link[n].up
      /\ pc \in {"receive", "dispatch", "send"}
      /\ Handling(n) = IF pc = "receive" THEN "nothing" ELSE pc
      /\ Held(n) = IF pc = "receive" THEN None ELSE frame
  BY <1>1, SessionAssumption
     DEF Pending, Buffer, Handling, Held, SessionInv, ServerInv, StreamInv
<1>3. \/ Asking(c, me, link[n], Handling(n), Held(n), Pending(n))
      \/ Answered(c, me, link[n], Handling(n), Held(n), Pending(n))
  BY <1>1 DEF Conversation, AtRest, Foreign
<1>4. CASE Asking(c, me, link[n], Handling(n), Held(n), Pending(n))
  BY <1>1, <1>2, <1>4 DEF Asking
<1>5. CASE Answered(c, me, link[n], Handling(n), Held(n), Pending(n))
  <2>1. /\ me.asked \in Requests(c) /\ me.times = 1 /\ me.got \in Seq(Cell)
        /\ received = << >> /\ link[n].up = << >> /\ me.answer.frame \in ShortFrame
    <3>1. /\ me.asked \in Requests(c) /\ me.times = 1 /\ me.got \in Seq(Cell)
          /\ me.answer \in AnswersTo(me.asked) /\ Pending(n) = << >>
      BY <1>5 DEF Answered
    <3>2. received \o link[n].up = << >>
      BY <1>2, <3>1
    <3>3. received = << >> /\ link[n].up = << >>
      BY <1>1, <3>2, AllReceived
    <3>4. me.answer.frame \in ShortFrame
      BY <3>1, AnswerIsUnderstood
    <3> QED
      BY <3>1, <3>3, <3>4
  <2>2. CASE pc = "send"
    BY <1>1, <1>2, <1>5, <2>1, <2>2 DEF Answered
  <2>3. CASE pc # "send"
    <3>1. pc = "receive" /\ me.got \o link[n].down = Encode(me.answer.frame)
      BY <1>2, <1>5, <2>3 DEF Answered
    <3>2. link[n].down # << >>
      <4>1. link[n].down = << >> => me.got = Encode(me.answer.frame)
        BY <2>1, <3>1, NothingAdded
      <4>2. ~IsIncomplete(Encode(me.answer.frame))
        BY <2>1, EncodedIsOneFrame DEF OneFrame, IsIncomplete
      <4> QED
        BY <4>1, <4>2
    <3> QED
      BY <1>1, <1>2, <2>1, <3>1, <3>2
  <2> QED
    BY <2>2, <2>3
<1> QED
  BY <1>3, <1>4, <1>5

\* A frame is shorter than the longest, and so is what a client sends.
LEMMA EncodedLength ==
  ASSUME PayloadBounded, NEW f \in ShortFrame
  PROVE  Len(Encode(f)) \in Nat /\ Len(Encode(f)) < Longest
<1>1. f \in Frame /\ Len(f.payload) <= MaxPayload
  BY DEF ShortFrame
<1>2. Len(Encode(f)) = HeaderSize + Len(f.payload) /\ Len(f.payload) \in Nat
  <2>1. << >> \in Seq(Cell)
    OBVIOUS
  <2>2. Len(Encode(f)) = HeaderSize + Len(f.payload)
    BY <1>1, <2>1, EncodeCells
  <2> QED
    BY <1>1, <2>2 DEF Frame
<1> QED
  BY <1>1, <1>2, CodecAssumption, SMT DEF HeaderSize, Longest, PayloadBounded

\* What the server does for a client it serves: one more piece, or the next
\* of its steps; it does not close.
LEMMA ServeTurns ==
  ASSUME SessionInv, PayloadBounded, Serve,
         NEW c \in Clients, NEW n \in Links, InTurn(c, n),
         client[c].asked # None, IsIncomplete(client[c].got)
  PROVE  /\ InTurn(c, n)'
         /\ \A u \in Nat : Sent(c, n, u + 1) => Sent(c, n, u)' \/ InHand(c, n)'
         /\ InHand(c, n) => Answering(c, n)'
         /\ Answering(c, n) => Coming(c, n, Longest)'
         /\ \A d \in Nat : ~Coming(c, n, d)
<1> DEFINE me == client[c]
<1>1. /\ serving = n /\ me.phase = "waiting" /\ me.on = n
      /\ received \in Seq(Cell) /\ link \in [Links -> Link] /\ DOMAIN client = Clients
      /\ link[n].up \in Seq(Cell)
  BY DEF InTurn, At, Waits, SessionInv, StreamInv, Link
<1>2. /\ link[n].clientOpen /\ link[n].user = c /\ n # None
      /\ Len(link[n].up) \in Nat /\ Len(link[n].down) \in Nat
      /\ me.asked \in Requests(c)
      /\ \/ /\ pc = "receive" /\ me.times = 0
            /\ link[n].down = << >> /\ received \o link[n].up = Encode(me.asked)
         \/ pc = "dispatch" /\ me.times = 0 /\ frame = me.asked
         \/ pc = "send" /\ me.times = 1 /\ frame \in ShortFrame /\ link[n].down = << >>
         \/ /\ pc = "receive" /\ me.times = 1
            /\ received = << >> /\ link[n].up = << >> /\ link[n].down # << >>
  BY WaitState
<1>3. client'[c].phase = "waiting" /\ client'[c].on = n
  BY <1>1, ServeNotes
<1>4. serving' = n => InTurn(c, n)'
  BY <1>3 DEF InTurn, At, Waits
<1>5. CASE pc = "receive" /\ me.times = 0
  <2>1. link[n].down = << >> /\ received \o link[n].up = Encode(me.asked)
    BY <1>2, <1>5
  <2>2. me.asked \in ShortFrame
    BY <1>2, RequestsAreShort
  <2>3. Decode(received).result = "Frame" \/ (IsIncomplete(received) /\ link[n].up # << >>)
    <3>1. SubSeq(Encode(me.asked), 1, Len(received)) = received
      BY <1>1, <2>1, ReceivedIsPrefix
    <3>2. Len(Encode(me.asked)) = Len(received) + Len(link[n].up) /\ Len(received) \in Nat
      BY <1>1, <2>1, ConcatCells
    <3>3. CASE link[n].up = << >>
      <4>1. received = Encode(me.asked)
        BY <1>1, <2>1, <3>3, NothingAdded
      <4> QED
        BY <2>2, <4>1, EncodedIsOneFrame DEF OneFrame
    <3>4. CASE link[n].up # << >>
      <4>1. Len(link[n].up) > 0
        BY <1>1, <3>4, EmptySeq
      <4>2. Len(received) \in 0 .. Len(Encode(me.asked)) - 1
        BY <1>2, <3>2, <4>1
      <4> QED
        BY <2>2, <3>1, <3>4, <4>2, EncodedIsOneFrame
    <3> QED
      BY <3>3, <3>4
  <2>4. TakeFrame \/ ReceiveMore
    BY <1>1, <1>2, <1>5, <2>1, <2>3
       DEF Serve, Accept, PeerGone, Reject, Dispatch, SendResponse, SendFails, IsIncomplete
  <2>5. CASE TakeFrame
    BY <1>3, <1>5, <2>5, <1>1 DEF TakeFrame, InTurn, At, Waits, Sent, InHand, Answering, Coming
  <2>6. CASE ReceiveMore
    <3>1. PICK k \in Pieces(link[n].up) : link' = [link EXCEPT ![n].up = Drop(@, k)]
      BY <1>1, <2>6 DEF ReceiveMore
    <3>2. UNCHANGED << client, serving, pc >>
      BY <2>6 DEF ReceiveMore
    <3>3. link'[n].up = Drop(link[n].up, k)
      BY <1>1, <3>1 DEF Link
    <3>4. Len(Drop(link[n].up, k)) \in Nat /\ Len(Drop(link[n].up, k)) < Len(link[n].up)
      <4>1. k \in 1 .. Len(link[n].up)
        BY DEF Pieces
      <4>2. k + 1 \in 1 .. Len(link[n].up) + 1
            /\ Len(link[n].up) \in (k + 1) - 1 .. Len(link[n].up)
        BY <1>2, <4>1
      <4>3. Len(SubSeq(link[n].up, k + 1, Len(link[n].up))) = Len(link[n].up) - (k + 1) + 1
        BY <1>1, <4>2, SubSeqCells
      <4> QED
        BY <1>2, <4>1, <4>3 DEF Drop
    <3>5. \A u \in Nat : Len(link[n].up) < u + 1 => Len(link'[n].up) < u
      BY <1>2, <3>3, <3>4
    <3> QED
      BY <1>1, <1>5, <3>2, <3>5 DEF InTurn, At, Waits, Sent, InHand, Answering, Coming
  <2> QED
    BY <2>4, <2>5, <2>6
<1>6. CASE pc = "dispatch"
  <2>1. pc' = "send" /\ UNCHANGED serving
    BY <1>6 DEF Serve, Accept, TakeFrame, ReceiveMore, PeerGone, Reject, Dispatch,
                SendResponse, SendFails
  <2> QED
    BY <1>1, <1>4, <1>6, <2>1 DEF Sent, InHand, Answering, Coming
<1>7. CASE pc = "send"
  <2>1. frame \in ShortFrame /\ link[n].down = << >> /\ me.times = 1
    BY <1>2, <1>7
  <2>2. SendResponse
    BY <1>1, <1>2, <1>7 DEF Serve, Accept, TakeFrame, ReceiveMore, PeerGone, Reject, Dispatch,
                            SendFails
  <2>3. /\ link' = [link EXCEPT ![n].down = @ \o Encode(frame)]
        /\ pc' = IF link[n].lost THEN "killed" ELSE "receive"
        /\ UNCHANGED << client, serving >>
    BY <1>1, <1>2, <2>2 DEF SendResponse
  <2>4. ~link[n].lost
    BY <1>1, <1>2, ClientState DEF Conversation, AtRest, Asking, Answered, Foreign
  <2>5. link'[n].down = Encode(frame)
    <3>1. Encode(frame) \in Seq(Cell)
      BY <2>1, EncodedIsOneFrame
    <3>2. link'[n].down = << >> \o Encode(frame)
      BY <1>1, <2>1, <2>3 DEF Link
    <3> QED
      BY <3>1, <3>2, NothingAdded
  <2>6. Len(link'[n].down) <= Longest
    BY <2>1, <2>5, EncodedLength, SMT DEF Longest
  <2> QED
    BY <1>1, <1>4, <1>7, <2>1, <2>3, <2>4, <2>6 DEF InHand, Answering, Sent, Coming
<1>8. CASE pc = "receive" /\ me.times = 1
  <2>1. IsIncomplete(received) /\ link[n].up = << >> /\ received = << >>
    BY <1>2, <1>8, NothingIsNoFrame
  <2>2. Pieces(link[n].up) = {}
    BY <2>1 DEF Pieces
  <2>3. ~Serve
    BY <1>1, <1>2, <1>8, <2>1, <2>2
       DEF Serve, Accept, TakeFrame, ReceiveMore, PeerGone, Reject, Dispatch, SendResponse,
           SendFails, IsIncomplete
  <2> QED
    BY <2>3
<1> QED
  BY <1>2, <1>5, <1>6, <1>7, <1>8

\* What a client that is served receives is a piece of its answer, or the rest.
LEMMA ReceiveTurns ==
  ASSUME SessionInv, NEW c \in Clients, NEW n \in Links, InTurn(c, n), Receive(c),
         client[c].asked # None, IsIncomplete(client[c].got)
  PROVE  /\ pc = "receive" /\ client[c].times = 1
         /\ client'[c].on = n /\ UNCHANGED << serving, received, pc, frame >>
         /\ client'[c].phase \in {"waiting", "idle"}
         /\ \A d \in Nat : Coming(c, n, d + 1) => Coming(c, n, d)' \/ client'[c].phase = "idle"
<1> DEFINE me == client[c]
           down == link[n].down
<1>1. /\ serving = n /\ me.phase = "waiting" /\ me.on = n
      /\ link \in [Links -> Link] /\ DOMAIN client = Clients /\ down \in Seq(Cell)
      /\ me = [ phase |-> me.phase, on |-> n, got |-> me.got, outcome |-> me.outcome,
                asked |-> me.asked, times |-> me.times, answer |-> me.answer ]
  BY ClientState DEF InTurn, At, Waits, SessionInv, StreamInv
<1>2. PICK k \in Pieces(down) : link' = [link EXCEPT ![n].down = Drop(@, k)]
  BY <1>1 DEF Receive
<1>3. PICK got :
        client' = [client EXCEPT ![c] =
          IF IsIncomplete(got) THEN [@ EXCEPT !.got = got]
          ELSE [@ EXCEPT !.got = << >>, !.phase = "idle",
                  !.outcome = Understood(client[c].asked, got)]]
  BY DEF Receive
<1>4. k \in 1 .. Len(down) /\ Len(down) \in Nat
  BY <1>1 DEF Pieces
<1>5. pc = "receive" /\ me.times = 1
  <2>1. down # << >>
    BY <1>4
  <2>2. \/ pc = "receive" /\ me.times = 0 /\ down = << >>
        \/ pc = "dispatch"
        \/ pc = "send" /\ down = << >>
        \/ pc = "receive" /\ me.times = 1
    BY WaitState
  <2>3. pc # "dispatch"
    <3>1. Conversation(c, me, link[n], Handling(n), Held(n), Pending(n))
      BY <1>1, ClientState
    <3> QED
      BY <1>1, <2>1, <3>1 DEF Conversation, AtRest, Asking, Answered, Foreign, Handling
  <2> QED
    BY <2>1, <2>2, <2>3
<1>6. UNCHANGED << serving, received, pc, frame >>
  BY DEF Receive, serverVars
<1>7. /\ client'[c].on = n /\ client'[c].phase \in {"waiting", "idle"}
      /\ client'[c].times = me.times
  BY <1>1, <1>3
<1>8. Len(link'[n].down) < Len(down) /\ Len(link'[n].down) \in Nat
  <2>1. link'[n].down = Drop(down, k)
    BY <1>1, <1>2 DEF Link
  <2>2. k + 1 \in 1 .. Len(down) + 1 /\ Len(down) \in (k + 1) - 1 .. Len(down)
    BY <1>4
  <2>3. Len(SubSeq(down, k + 1, Len(down))) = Len(down) - (k + 1) + 1
    BY <1>1, <2>2, SubSeqCells
  <2> HIDE DEF down
  <2> QED
    BY <1>4, <2>1, <2>3 DEF Drop
<1>9. \A d \in Nat : Len(down) <= d + 1 => Len(link'[n].down) <= d
  BY <1>4, <1>8
<1> QED
  BY <1>1, <1>5, <1>6, <1>7, <1>9 DEF Coming, InTurn, At, Waits

(* The viewer's tab has closed, and has reset the connection.              *)
Hung == at # Nobody /\ ~tab[at].open
Lost == Hung /\ tab[at].lost

(* Between calls: the viewer may ask, has failed, or has something to relay. *)
Rests(n)    == client[TheViewer].phase = "idle" /\ client[TheViewer].on = n /\ serving = n
Ready(n)    == Rests(n) /\ ~unsent /\ MayCall(TheViewer)
Failed(n)   == Rests(n) /\ ~unsent /\ ~MayCall(TheViewer)
Relaying(n) == Rests(n) /\ unsent

(* What the others do leaves alone.                                        *)
Aside(n) ==
  /\ client'[TheViewer] = client[TheViewer] /\ link'[n] = link[n]
  /\ UNCHANGED << serving, received, pc, frame, unsent >>

\* What the viewer's thread does while it has its connection to the emulator.
LEMMA ViewerRuns ==
  ASSUME SessionInv, TabInv, ViewerInv, ViewerLoop, ~OffLine
  PROVE  /\ OffLine' \/ Poll \/ ReceiveStatus \/ Relay
         /\ Hung => OffLine' \/ Hung'
         /\ Lost => OffLine' \/ Lost'
<1>1. /\ TheViewer \in Clients /\ DOMAIN client = Clients /\ stage = "open"
      /\ at \in Tabs /\ tab \in [Tabs -> TabType]
  BY TheViewerIs DEF SessionInv, ViewerInv, TabInv, TabsInv, ServedInv
<1>2. ~Handshake /\ ~ConnectToEmulator /\ ~ConnectFails
  BY <1>1 DEF Handshake, AcceptTab, ReadRequest, RequestFails, AnswerRequest, RefuseRequest,
              ConnectToEmulator, ConnectFails, Connect, OffLine
<1>3. ASSUME EmulatorLost \/ RelayFails \/ Killed
      PROVE  OffLine'
  <2>1. client' = [client EXCEPT ![TheViewer] = NoClient]
    BY <1>3 DEF EmulatorLost, RelayFails, Killed, Exit, Die, Close
  <2> QED
    BY <1>1, <2>1 DEF OffLine, NoClient
<1>4. ASSUME Poll \/ ReceiveStatus
      PROVE  UNCHANGED << at, tab >>
  BY <1>4 DEF Poll, ReceiveStatus, wsVars
<1>5. ASSUME Relay
      PROVE  at' = at /\ tab'[at].open = tab[at].open /\ tab'[at].lost = ~tab[at].open
  BY <1>1, <1>5 DEF Relay, SendText, TabType
<1> QED
  BY <1>2, <1>3, <1>4, <1>5 DEF ViewerLoop, Hung, Lost

\* And what anybody does.
LEMMA ViewerMoves ==
  ASSUME SessionInv, TabInv, ViewerInv, [ViewerNext]_viewerVars, ~OffLine,
         NEW n \in Links, client[TheViewer].on = n
  PROVE  /\ OffLine' \/ Aside(n) \/ Beside(Serve) \/ Poll \/ ReceiveStatus \/ Relay
         /\ Hung => OffLine' \/ Hung'
         /\ Lost => OffLine' \/ Lost'
<1>1. /\ TheViewer \in Clients /\ Pollers = {TheViewer} /\ DOMAIN client = Clients
      /\ program = "viewer" /\ stage = "open"
      /\ at \in Tabs /\ tab \in [Tabs -> TabType] /\ tab[at].held
  BY TheViewerIs DEF SessionInv, ViewerInv, TabInv, TabsInv, ServedInv, Reading
<1>2. CASE ViewerLoop
  BY <1>2, ViewerRuns
<1>3. CASE Browse
  <2>1. UNCHANGED << vars, unsent, at >>
    BY <1>3 DEF Browse, OpenTab, CloseTab
  <2>2. Hung => ~tab'[at].open /\ tab'[at].lost = tab[at].lost
    <3> SUFFICES ASSUME Hung
                 PROVE  ~tab'[at].open /\ tab'[at].lost = tab[at].lost
      OBVIOUS
    <3>1. ASSUME NEW s \in Tabs, NEW greeting, NEW messages, OpenTab(s, greeting, messages)
          PROVE  tab'[at] = tab[at]
      BY <1>1, <3>1 DEF OpenTab, Hung
    <3>2. ASSUME NEW s \in Tabs, CloseTab(s)
          PROVE  tab'[at] = tab[at]
      BY <1>1, <3>2 DEF CloseTab, Hung
    <3>3. tab'[at] = tab[at]
      BY <1>3, <3>1, <3>2 DEF Browse
    <3> QED
      BY <3>3 DEF Hung
  <2>3. Aside(n)
    BY <2>1 DEF Aside, vars
  <2> QED
    BY <2>1, <2>2, <2>3 DEF Hung, Lost
<1>4. CASE Interrupted
  <2>1. client'[TheViewer] = NoClient
    BY <1>1, <1>4 DEF Interrupted, Die, DieSending, Close
  <2> QED
    BY <2>1 DEF OffLine, NoClient
<1>5. CASE Beside(Serve)
  BY <1>5 DEF Beside, wsVars, Hung, Lost
<1>6. CASE \E d \in Clients \ Pollers :
             \/ Beside(Connect(d)) \/ Beside(Call(d)) \/ Beside(SendMalformed(d))
             \/ Beside(Receive(d)) \/ Beside(Exit(d)) \/ Beside(Die(d)) \/ Beside(DieSending(d))
  <2>1. /\ client'[TheViewer] = client[TheViewer] /\ link'[n] = link[n]
        /\ UNCHANGED << serving, received, pc, frame >> /\ UNCHANGED << wsVars, unsent >>
    BY <1>1, <1>6, OthersPass DEF Beside, OffLine
  <2> QED
    BY <2>1 DEF Aside, wsVars, Hung, Lost
<1>7. CASE UNCHANGED viewerVars
  BY <1>7 DEF viewerVars, vars, wsVars, Aside, Hung, Lost
<1> QED
  BY <1>1, <1>2, <1>3, <1>4, <1>5, <1>6, <1>7 DEF ViewerNext, Others

(* WF of the two loops, with what enables a step written out: the emulator *)
(* has something to read, to dispatch or to send, and the viewer has       *)
(* something to ask, to relay or to read, or nothing more to do here.      *)
CanServe ==
  /\ program = "viewer"
  /\ \/ pc = "receive" /\ (link[serving].up # << >> \/ Decode(received).result = "Frame")
     \/ pc = "dispatch" /\ Answers(frame) # {}
     \/ pc = "send"
CanRun ==
  /\ program = "viewer"
  /\ \/ client[TheViewer].phase = "idle"
     \/ Waits(TheViewer) /\ link[client[TheViewer].on].down # << >>

RunsOn == program = "viewer" /\ ViewerLoop

KeepsAnswering == []([]CanServe => <><< Beside(Serve) >>_viewerVars)
KeepsRelaying  == []([]CanRun => <><< RunsOn >>_viewerVars)

\* While it waits it does not poll or relay.
LEMMA WaitsMoves ==
  ASSUME SessionInv, TabInv, ViewerInv, NEW n \in Links, InTurn(TheViewer, n)
  PROVE  /\ ~OffLine /\ TheViewer \in Clients /\ program = "viewer"
         /\ client[TheViewer].on = n /\ client[TheViewer].phase = "waiting"
         /\ client[TheViewer].asked # None /\ IsIncomplete(client[TheViewer].got)
         /\ ~Poll /\ ~Relay
<1>1. /\ client[TheViewer].phase = "waiting" /\ client[TheViewer].on = n
      /\ Waits(TheViewer)
  BY DEF InTurn, At, Waits
<1>2. ~unsent /\ ~MayCall(TheViewer) /\ ~OffLine
  BY <1>1 DEF ViewerInv, MayCall, OffLine
<1> QED
  BY <1>1, <1>2, TheViewerIs DEF ViewerInv, Poll, Call, Relay

\* A status that arrives whole is there to be relayed, or the last.
LEMMA StatusArrives ==
  ASSUME SessionInv, TabInv, ViewerInv, NEW n \in Links, InTurn(TheViewer, n), ReceiveStatus
  PROVE  /\ pc = "receive" /\ client[TheViewer].times = 1
         /\ \A d \in Nat : Coming(TheViewer, n, d + 1) =>
              Coming(TheViewer, n, d)' \/ Relaying(n)' \/ Failed(n)'
<1>1. /\ TheViewer \in Clients /\ client[TheViewer].asked # None
      /\ IsIncomplete(client[TheViewer].got) /\ Receive(TheViewer) /\ serving = n
  BY WaitsMoves DEF ReceiveStatus, InTurn
<1>2. /\ pc = "receive" /\ client[TheViewer].times = 1
      /\ client'[TheViewer].on = n /\ serving' = serving
      /\ \A d \in Nat : Coming(TheViewer, n, d + 1) =>
           Coming(TheViewer, n, d)' \/ client'[TheViewer].phase = "idle"
  BY <1>1, ReceiveTurns
<1>3. client'[TheViewer].asked = client[TheViewer].asked
  <2>1. DOMAIN client = Clients
    BY DEF SessionInv, ClientInv
  <2> QED
    BY <1>1, <2>1 DEF Receive
<1>4. client'[TheViewer].phase = "idle" => Relaying(n)' \/ Failed(n)'
  <2> SUFFICES ASSUME client'[TheViewer].phase = "idle"
               PROVE  Relaying(n)' \/ Failed(n)'
    OBVIOUS
  <2>1. Rests(n)'
    BY <1>1, <1>2 DEF Rests
  <2>2. unsent' <=> client'[TheViewer].outcome.result = "Ok"
    BY DEF ReceiveStatus
  <2>3. MayCall(TheViewer)' => client'[TheViewer].outcome.result = "Ok"
    BY <1>1, <1>3 DEF MayCall
  <2> QED
    BY <2>1, <2>2, <2>3 DEF Relaying, Failed
<1> QED
  BY <1>2, <1>4

\* Nothing but its own turns happens to the exchange.
LEMMA ExchangeMoves ==
  ASSUME SessionInv, TabInv, ViewerInv, PayloadBounded, [ViewerNext]_viewerVars,
         NEW n \in Links, InTurn(TheViewer, n)
  PROVE  /\ \A u \in Nat : Sent(TheViewer, n, u + 1) =>
              OffLine' \/ Sent(TheViewer, n, u + 1)' \/ Sent(TheViewer, n, u)'
                \/ InHand(TheViewer, n)'
         /\ InHand(TheViewer, n) =>
              OffLine' \/ InHand(TheViewer, n)' \/ Answering(TheViewer, n)'
         /\ Answering(TheViewer, n) =>
              OffLine' \/ Answering(TheViewer, n)' \/ Coming(TheViewer, n, Longest)'
         /\ \A d \in Nat : Coming(TheViewer, n, d + 1) =>
              OffLine' \/ Coming(TheViewer, n, d + 1)' \/ Coming(TheViewer, n, d)'
                \/ Relaying(n)' \/ Failed(n)'
<1>1. /\ ~OffLine /\ TheViewer \in Clients
      /\ client[TheViewer].on = n /\ client[TheViewer].phase = "waiting"
      /\ client[TheViewer].asked # None /\ IsIncomplete(client[TheViewer].got)
      /\ ~Poll /\ ~Relay
  BY WaitsMoves
<1>2. OffLine' \/ Aside(n) \/ Beside(Serve) \/ ReceiveStatus
  BY <1>1, ViewerMoves
<1>3. CASE Aside(n)
  <2>1. /\ client'[TheViewer] = client[TheViewer] /\ link'[n] = link[n]
        /\ serving' = serving /\ pc' = pc
    BY <1>3 DEF Aside
  <2>2. /\ InHand(TheViewer, n) => InHand(TheViewer, n)'
        /\ Answering(TheViewer, n) => Answering(TheViewer, n)'
    BY <2>1 DEF InHand, Answering, InTurn, At, Waits
  <2>3. ASSUME NEW u \in Nat
        PROVE  /\ Sent(TheViewer, n, u + 1) => Sent(TheViewer, n, u + 1)'
               /\ Coming(TheViewer, n, u + 1) => Coming(TheViewer, n, u + 1)'
    BY <2>1 DEF Sent, Coming, InTurn, At, Waits
  <2> QED
    BY <2>2, <2>3
<1>4. CASE Beside(Serve)
  <2>1. Serve
    BY <1>4 DEF Beside
  <2> QED
    BY <1>1, <2>1, ServeTurns
<1>5. CASE ReceiveStatus
  <2>1. pc = "receive" /\ client[TheViewer].times = 1
    BY <1>5, StatusArrives
  <2>2. ~InHand(TheViewer, n) /\ ~Answering(TheViewer, n)
        /\ \A u \in Nat : ~Sent(TheViewer, n, u + 1)
    BY <2>1 DEF InHand, Answering, Sent
  <2> QED
    BY <1>5, <2>2, StatusArrives
<1> QED
  BY <1>2, <1>3, <1>4, <1>5

\* The rest of what is not too long is not.
LEMMA RestIsShorter ==
  ASSUME NEW s \in Seq(Cell), NEW t \in Seq(Cell), Len(s \o t) < Longest
  PROVE  Len(t) < Longest /\ Len(t) <= Longest
<1>1. Len(s \o t) = Len(s) + Len(t)
  BY ConcatCells
<1>2. Len(s) \in Nat /\ Len(t) \in Nat
  OBVIOUS
<1>3. ASSUME NEW k \in Nat, NEW m \in Nat, k + m < Longest
      PROVE  m < Longest /\ m <= Longest
  BY <1>3, SMT DEF Longest
<1> QED
  BY <1>1, <1>2, <1>3

\* And its turns come if both programs keep running.
LEMMA ExchangeGoesOn ==
  ASSUME SessionInv, TabInv, ViewerInv, PayloadBounded, Snapshots # {},
         NEW n \in Links, InTurn(TheViewer, n)
  PROVE  /\ \/ Sent(TheViewer, n, Longest) \/ InHand(TheViewer, n)
            \/ Answering(TheViewer, n) \/ Coming(TheViewer, n, Longest)
         /\ \A u \in Nat : ~Sent(TheViewer, n, 0)
              /\ (Sent(TheViewer, n, u) => CanServe)
              /\ (Coming(TheViewer, n, u) => CanRun)
         /\ InHand(TheViewer, n) \/ Answering(TheViewer, n) => CanServe
         /\ ~Coming(TheViewer, n, 0)
<1> DEFINE me == client[TheViewer]
<1>1. /\ ~OffLine /\ TheViewer \in Clients /\ program = "viewer"
      /\ me.on = n /\ me.phase = "waiting" /\ serving = n
      /\ me.asked # None /\ IsIncomplete(me.got)
  BY WaitsMoves DEF InTurn
<1>2. /\ Len(link[n].up) \in Nat /\ Len(link[n].down) \in Nat
      /\ me.asked \in Requests(TheViewer)
      /\ \/ /\ pc = "receive" /\ me.times = 0
            /\ link[n].down = << >> /\ received \o link[n].up = Encode(me.asked)
         \/ pc = "dispatch" /\ me.times = 0 /\ frame = me.asked
         \/ pc = "send" /\ me.times = 1 /\ frame \in ShortFrame /\ link[n].down = << >>
         \/ /\ pc = "receive" /\ me.times = 1
            /\ received = << >> /\ link[n].up = << >> /\ link[n].down # << >>
  BY <1>1, WaitState
<1>3. /\ received \in Seq(Cell) /\ link[n].up \in Seq(Cell) /\ link[n].down \in Seq(Cell)
  BY DEF SessionInv, StreamInv, Link
<1>4. me.asked \in ShortFrame /\ me.asked = StatusRequest
  BY <1>1, <1>2, RequestsAreShort, TheViewerIs DEF Requests
<1>5. ASSUME pc = "receive", me.times = 0
      PROVE  /\ Len(link[n].up) < Longest
             /\ link[n].up # << >> \/ Decode(received).result = "Frame"
  <2>1. received \o link[n].up = Encode(me.asked)
    BY <1>2, <1>5
  <2>2. Len(Encode(me.asked)) < Longest
    BY <1>4, EncodedLength
  <2>3. Len(received \o link[n].up) < Longest
    BY <2>1, <2>2
  <2>4. Len(link[n].up) < Longest
    BY <1>3, <2>3, RestIsShorter
  <2>5. link[n].up = << >> => received = Encode(me.asked)
    BY <1>3, <2>1, NothingAdded
  <2>6. Decode(Encode(me.asked)).result = "Frame"
    BY <1>4, EncodedIsOneFrame DEF OneFrame
  <2> QED
    BY <2>4, <2>5, <2>6
<1>6. ASSUME pc = "receive", me.times = 1
      PROVE  link[n].down # << >> /\ Len(link[n].down) <= Longest
  <2>1. link[n].down # << >>
    BY <1>2, <1>6
  <2>2. Conversation(TheViewer, me, link[n], Handling(n), Held(n), Pending(n))
    BY <1>1, ClientState
  <2>3. Answered(TheViewer, me, link[n], Handling(n), Held(n), Pending(n))
    BY <1>1, <1>6, <2>1, <2>2 DEF Conversation, AtRest, Asking, Foreign
  <2>4. Handling(n) = "nothing"
    BY <1>1, <1>6, SessionAssumption DEF Handling
  <2>5. /\ me.got \in Seq(Cell) /\ me.answer.frame \in ShortFrame
        /\ me.got \o link[n].down = Encode(me.answer.frame)
    BY <2>3, <2>4, AnswerIsUnderstood DEF Answered
  <2>6. Len(me.got \o link[n].down) < Longest
    BY <2>5, EncodedLength
  <2>7. Len(link[n].down) <= Longest
    BY <1>3, <2>5, <2>6, RestIsShorter
  <2> QED
    BY <2>1, <2>7
<1>7. pc = "dispatch" => Answers(frame) # {}
  BY <1>2, <1>4 DEF Answers
<1>8. \A u \in Nat : (Sent(TheViewer, n, u) => CanServe)
  BY <1>1, <1>5 DEF Sent, CanServe
<1>9. InHand(TheViewer, n) \/ Answering(TheViewer, n) => CanServe
  BY <1>1, <1>7 DEF InHand, Answering, CanServe
<1>10. \A u \in Nat : (Coming(TheViewer, n, u) => CanRun)
  BY <1>1, <1>6 DEF Coming, CanRun, Waits
<1>11. ~Sent(TheViewer, n, 0)
  BY <1>2 DEF Sent
<1>12. ~Coming(TheViewer, n, 0)
  <2>1. link[n].down # << >> => Len(link[n].down) # 0
    BY <1>3, EmptySeq
  <2> QED
    BY <1>2, <1>6, <2>1 DEF Coming
<1>13. \/ Sent(TheViewer, n, Longest) \/ InHand(TheViewer, n)
       \/ Answering(TheViewer, n) \/ Coming(TheViewer, n, Longest)
  BY <1>2, <1>5, <1>6 DEF Sent, InHand, Answering, Coming
<1> QED
  BY <1>8, <1>9, <1>10, <1>11, <1>12, <1>13

\* Between calls the emulator has nothing to do for the viewer, which asks,
\* relays what it has, or ends.
LEMMA RestMoves ==
  ASSUME SessionInv, TabInv, ViewerInv, [ViewerNext]_viewerVars,
         NEW n \in Links, Rests(n)
  PROVE  /\ ~OffLine /\ CanRun
         /\ OffLine' \/ Aside(n) \/ Poll \/ Relay
<1>1. /\ TheViewer \in Clients /\ client[TheViewer].phase = "idle"
      /\ client[TheViewer].on = n /\ serving = n /\ ~OffLine
  BY TheViewerIs DEF Rests, OffLine
<1>2. /\ Handling(n) = "nothing" /\ Buffer(n) = << >> /\ link[n].up = << >>
      /\ link[n].clientOpen /\ n # None
  BY <1>1, IdleIsAtRest, ClientState, SessionAssumption
<1>3. pc = "receive" /\ received = << >>
  BY <1>1, <1>2, SessionAssumption DEF Handling, Buffer, SessionInv, ServerInv, StreamInv
<1>4. IsIncomplete(received) /\ Pieces(link[n].up) = {}
  BY <1>2, <1>3, NothingIsNoFrame DEF Pieces
<1>5. ~Serve
  BY <1>1, <1>2, <1>3, <1>4
     DEF Serve, Accept, TakeFrame, ReceiveMore, PeerGone, Reject, Dispatch, SendResponse,
         SendFails, IsIncomplete
<1>6. ~Beside(Serve) /\ ~ReceiveStatus
  BY <1>1, <1>5 DEF Beside, ReceiveStatus, Receive
<1> QED
  BY <1>1, <1>6, ViewerMoves DEF CanRun, ViewerInv

\* What a poll and a relay do there.
LEMMA RestSteps ==
  ASSUME SessionInv, TabInv, ViewerInv, NEW n \in Links, Rests(n)
  PROVE  /\ Poll => Ready(n) /\ InTurn(TheViewer, n)'
         /\ Relay => Relaying(n) /\ ~Lost /\ Ready(n)' /\ (Hung => Lost')
<1>1. /\ TheViewer \in Clients /\ DOMAIN client = Clients
      /\ client[TheViewer].phase = "idle" /\ client[TheViewer].on = n /\ serving = n
      /\ ~OffLine /\ stage = "open" /\ at \in Tabs /\ tab \in [Tabs -> TabType]
  BY TheViewerIs DEF Rests, OffLine, SessionInv, ClientInv, ViewerInv, TabInv, TabsInv, ServedInv
<1>2. ASSUME Poll
      PROVE  Ready(n) /\ InTurn(TheViewer, n)'
  BY <1>1, <1>2 DEF Poll, Call, serverVars, Ready, InTurn, At, Waits
<1>3. ASSUME Relay
      PROVE  Relaying(n) /\ ~Lost /\ Ready(n)' /\ (Hung => Lost')
  <2>1. unsent /\ ~unsent' /\ ~tab[at].lost /\ UNCHANGED vars
    BY <1>3 DEF Relay
  <2>2. MayCall(TheViewer)
    BY <2>1 DEF ViewerInv
  <2>3. Relaying(n) /\ ~Lost /\ Ready(n)'
    BY <2>1, <2>2 DEF Relaying, Lost, Ready, Rests, MayCall, vars
  <2>4. at' = at /\ tab'[at].open = tab[at].open /\ tab'[at].lost = ~tab[at].open
    BY <1>1, <1>3 DEF Relay, SendText, TabType
  <2> QED
    BY <2>3, <2>4 DEF Hung, Lost
<1> QED
  BY <1>2, <1>3

\* So each of the three states is left for the next, and by the viewer.
LEMMA RestTurns ==
  ASSUME SessionInv, TabInv, ViewerInv, [ViewerNext]_viewerVars, NEW n \in Links
  PROVE  /\ Ready(n) => OffLine' \/ Ready(n)' \/ InTurn(TheViewer, n)'
         /\ Failed(n) => OffLine' \/ Failed(n)'
         /\ Relaying(n) /\ Hung =>
              OffLine' \/ (Relaying(n)' /\ Hung') \/ (Ready(n)' /\ Lost')
         /\ Relaying(n) /\ Lost => OffLine' \/ (Relaying(n)' /\ Lost')
<1> SUFFICES ASSUME Rests(n)
             PROVE  /\ Ready(n) => OffLine' \/ Ready(n)' \/ InTurn(TheViewer, n)'
                    /\ Failed(n) => OffLine' \/ Failed(n)'
                    /\ Relaying(n) /\ Hung =>
                         OffLine' \/ (Relaying(n)' /\ Hung') \/ (Ready(n)' /\ Lost')
                    /\ Relaying(n) /\ Lost => OffLine' \/ (Relaying(n)' /\ Lost')
  BY DEF Ready, Failed, Relaying
<1>1. OffLine' \/ Aside(n) \/ Poll \/ Relay
  BY RestMoves
<1>2. Aside(n) => /\ Ready(n) => Ready(n)'
                  /\ Failed(n) => Failed(n)'
                  /\ Relaying(n) => Relaying(n)'
  BY DEF Aside, Ready, Failed, Relaying, Rests, MayCall
<1>3. /\ Poll => Ready(n) /\ InTurn(TheViewer, n)'
      /\ Relay => Relaying(n) /\ ~Lost /\ Ready(n)' /\ (Hung => Lost')
  BY RestSteps
<1>4. /\ Ready(n) => ~Relaying(n) /\ ~Failed(n)
      /\ Failed(n) => ~Relaying(n)
  BY DEF Ready, Failed, Relaying
<1>5. Hung \/ Lost => (Hung => OffLine' \/ Hung') /\ (Lost => OffLine' \/ Lost')
  BY RestMoves, ViewerMoves DEF Rests
<1> QED
  BY <1>1, <1>2, <1>3, <1>4, <1>5

LEMMA RestGoesOn ==
  ASSUME SessionInv, TabInv, ViewerInv, NEW n \in Links, RunsOn
  PROVE  /\ Ready(n) => OffLine' \/ InTurn(TheViewer, n)'
         /\ Failed(n) => OffLine'
         /\ Relaying(n) /\ Hung => OffLine' \/ (Ready(n)' /\ Lost')
         /\ Relaying(n) /\ Lost => OffLine'
<1> SUFFICES ASSUME Rests(n)
             PROVE  /\ Ready(n) => OffLine' \/ InTurn(TheViewer, n)'
                    /\ Failed(n) => OffLine'
                    /\ Relaying(n) /\ Hung => OffLine' \/ (Ready(n)' /\ Lost')
                    /\ Relaying(n) /\ Lost => OffLine'
  BY DEF Ready, Failed, Relaying
<1>1. ~OffLine /\ ~ReceiveStatus /\ ViewerLoop
  BY DEF Rests, OffLine, ReceiveStatus, Receive, RunsOn
<1>2. OffLine' \/ Poll \/ Relay
  BY <1>1, ViewerRuns
<1>3. /\ Poll => Ready(n) /\ InTurn(TheViewer, n)'
      /\ Relay => Relaying(n) /\ ~Lost /\ Ready(n)' /\ (Hung => Lost')
  BY RestSteps
<1>4. /\ Ready(n) => ~Relaying(n) /\ ~Failed(n)
      /\ Failed(n) => ~Relaying(n)
  BY DEF Ready, Failed, Relaying
<1> QED
  BY <1>2, <1>3, <1>4

\* And the exchange, by the server and by the viewer.
LEMMA ServerTurns ==
  ASSUME SessionInv, TabInv, ViewerInv, PayloadBounded, NEW n \in Links, Beside(Serve)
  PROVE  /\ \A u \in Nat : Sent(TheViewer, n, u + 1) =>
              Sent(TheViewer, n, u)' \/ InHand(TheViewer, n)'
         /\ InHand(TheViewer, n) => Answering(TheViewer, n)'
         /\ Answering(TheViewer, n) => Coming(TheViewer, n, Longest)'
<1>1. ASSUME InTurn(TheViewer, n)
      PROVE  /\ \A u \in Nat : Sent(TheViewer, n, u + 1) =>
                  Sent(TheViewer, n, u)' \/ InHand(TheViewer, n)'
             /\ InHand(TheViewer, n) => Answering(TheViewer, n)'
             /\ Answering(TheViewer, n) => Coming(TheViewer, n, Longest)'
  <2>1. Serve /\ TheViewer \in Clients
        /\ client[TheViewer].asked # None /\ IsIncomplete(client[TheViewer].got)
    BY <1>1, WaitsMoves DEF Beside
  <2> QED
    BY <1>1, <2>1, ServeTurns
<1>2. /\ \A u \in Nat : Sent(TheViewer, n, u + 1) => InTurn(TheViewer, n)
      /\ InHand(TheViewer, n) \/ Answering(TheViewer, n) => InTurn(TheViewer, n)
  BY DEF Sent, InHand, Answering
<1> QED
  BY <1>1, <1>2

LEMMA ViewerTurns ==
  ASSUME SessionInv, TabInv, ViewerInv, NEW n \in Links, NEW d \in Nat, RunsOn,
         Coming(TheViewer, n, d + 1)
  PROVE  OffLine' \/ Coming(TheViewer, n, d)' \/ Relaying(n)' \/ Failed(n)'
<1>1. InTurn(TheViewer, n) /\ ViewerLoop
  BY DEF Coming, RunsOn
<1>2. ~OffLine /\ ~Poll /\ ~Relay
  BY <1>1, WaitsMoves
<1>3. OffLine' \/ ReceiveStatus
  BY <1>1, <1>2, ViewerRuns
<1> QED
  BY <1>1, <1>3, StatusArrives

(* What the exchange comes to: less than w cells of the request are on the *)
(* way, or the server has it; at most e of the answer, or the viewer has it. *)
Drains(n, u, w) ==
  [](Sent(TheViewer, n, u) =>
       <>(OffLine \/ InHand(TheViewer, n) \/ Sent(TheViewer, n, w)))
Comes(n, d, e) ==
  [](Coming(TheViewer, n, d) =>
       <>(OffLine \/ Relaying(n) \/ Failed(n) \/ Coming(TheViewer, n, e)))

KeepsBoth == ViewerSpec /\ KeepsAnswering /\ KeepsRelaying

LEMMA ViewerInvariants == ViewerSpec => []SessionInv /\ []TabInv /\ []ViewerInv
BY ViewerImplementsSession, SessionInvariance, ViewerInvCorrect, TabStart, TabStep, PTL
   DEF ViewerSpec

\* A cell less, of the request and of the answer.
LEMMA NextPiece ==
  ASSUME PayloadBounded, Snapshots # {}, NEW n \in Links, NEW u \in Nat
  PROVE  /\ KeepsBoth => Drains(n, u + 1, u)
         /\ KeepsBoth => Comes(n, u + 1, u)
<1> DEFINE Up == Sent(TheViewer, n, u + 1)
           UpNext == Sent(TheViewer, n, u)
           Hand == InHand(TheViewer, n)
           Down == Coming(TheViewer, n, u + 1)
           DownNext == Coming(TheViewer, n, u)
           Here == Relaying(n)
           Final == Failed(n)
           Inv == SessionInv /\ TabInv /\ ViewerInv
<1>1. u + 1 \in Nat
  OBVIOUS
<1>2. /\ Up => InTurn(TheViewer, n)
      /\ Down => InTurn(TheViewer, n)
  BY DEF Sent, Coming
<1>3. Inv /\ Up => CanServe
  BY <1>1, <1>2, ExchangeGoesOn
<1>4. Inv /\ Up /\ [ViewerNext]_viewerVars => Up' \/ OffLine' \/ Hand' \/ UpNext'
  BY <1>2, ExchangeMoves
<1>5. Inv /\ Up /\ << Beside(Serve) >>_viewerVars => Hand' \/ UpNext'
  BY ServerTurns
<1>6. Inv /\ Down => CanRun
  BY <1>1, <1>2, ExchangeGoesOn
<1>7. Inv /\ Down /\ [ViewerNext]_viewerVars =>
        Down' \/ OffLine' \/ DownNext' \/ Here' \/ Final'
  BY <1>2, ExchangeMoves
<1>8. Inv /\ Down /\ << RunsOn >>_viewerVars => OffLine' \/ DownNext' \/ Here' \/ Final'
  BY ViewerTurns
<1> HIDE DEF Up, UpNext, Hand, Down, DownNext, Here, Final
<1>9. KeepsBoth => [](Up => <>(OffLine \/ Hand \/ UpNext))
  BY <1>3, <1>4, <1>5, ViewerInvariants, PTL DEF KeepsBoth, KeepsAnswering, ViewerSpec
<1>10. KeepsBoth => [](Down => <>(OffLine \/ Here \/ Final \/ DownNext))
  BY <1>6, <1>7, <1>8, ViewerInvariants, PTL DEF KeepsBoth, KeepsRelaying, ViewerSpec
<1> QED
  BY <1>9, <1>10 DEF Drains, Comes, Up, UpNext, Hand, Down, DownNext, Here, Final

\* Piece after piece.
LEMMA PiecesOn ==
  ASSUME NEW n \in Links, NEW u \in Nat, NEW v \in Nat, NEW w \in Nat
  PROVE  /\ Drains(n, u, v) /\ Drains(n, v, w) => Drains(n, u, w)
         /\ Comes(n, u, v) /\ Comes(n, v, w) => Comes(n, u, w)
<1>1. Drains(n, u, v) /\ Drains(n, v, w) => Drains(n, u, w)
  BY PTL DEF Drains
<1>2. Comes(n, u, v) /\ Comes(n, v, w) => Comes(n, u, w)
  BY PTL DEF Comes
<1> QED
  BY <1>1, <1>2

\* The request and the answer arrive.
LEMMA AllArrives ==
  ASSUME PayloadBounded, Snapshots # {}, NEW n \in Links
  PROVE  /\ KeepsBoth => Drains(n, 2097152, 0)
         /\ KeepsBoth => Comes(n, 2097152, 0)
<1> DEFINE Far(k) == \A u \in Nat : KeepsBoth => Drains(n, u + k, u) /\ Comes(n, u + k, u)
<1>1. Far(1)
  BY NextPiece
<1>2. ASSUME NEW k \in Nat, Far(k)
      PROVE  Far(2 * k)
  <2> SUFFICES ASSUME NEW u \in Nat
               PROVE  KeepsBoth => Drains(n, u + 2 * k, u) /\ Comes(n, u + 2 * k, u)
    OBVIOUS
  <2>1. u + k \in Nat /\ u + 2 * k \in Nat /\ (u + k) + k = u + 2 * k
    OBVIOUS
  <2>2. KeepsBoth => /\ Drains(n, (u + k) + k, u + k) /\ Drains(n, u + k, u)
                     /\ Comes(n, (u + k) + k, u + k) /\ Comes(n, u + k, u)
    BY <1>2, <2>1
  <2> QED
    BY <2>1, <2>2, PiecesOn
<1> HIDE DEF Far
<1>3. Far(2097152)
  <2>1. Far(2) /\ Far(4) /\ Far(8) /\ Far(16)
    BY <1>1, <1>2
  <2>2. Far(32) /\ Far(64) /\ Far(128) /\ Far(256)
    BY <2>1, <1>2
  <2>3. Far(512) /\ Far(1024) /\ Far(2048) /\ Far(4096)
    BY <2>2, <1>2
  <2>4. Far(8192) /\ Far(16384) /\ Far(32768) /\ Far(65536)
    BY <2>3, <1>2
  <2>5. Far(131072) /\ Far(262144) /\ Far(524288)
    BY <2>4, <1>2
  <2>6. Far(1048576) /\ Far(2097152)
    BY <2>5, <1>2
  <2> QED
    BY <2>6
<1>4. 0 \in Nat /\ 0 + 2097152 = 2097152
  OBVIOUS
<1> QED
  BY <1>3, <1>4 DEF Far

BeingServed(n) == client[TheViewer].on = n /\ serving = n

\* Between calls the viewer can go on.
LEMMA IdleCanRun ==
  ASSUME ViewerInv, NEW n \in Links, Rests(n)
  PROVE  CanRun
<1>1. client[TheViewer].phase = "idle" /\ ~OffLine
  BY DEF Rests, OffLine
<1> QED
  BY <1>1 DEF CanRun, ViewerInv

\* Its tab does not open again.
LEMMA TabStaysClosed ==
  ASSUME SessionInv, TabInv, ViewerInv, [ViewerNext]_viewerVars, ~OffLine
  PROVE  /\ Hung => OffLine' \/ Hung'
         /\ Lost => OffLine' \/ Lost'
<1>1. client[TheViewer].on \in Links
  BY ClientState, TheViewerIs DEF OffLine
<1> QED
  BY <1>1, ViewerMoves

\* A viewer whose tab has closed hangs up, wherever it is.
LEMMA HangsUp ==
  ASSUME PayloadBounded, Snapshots # {}, NEW n \in Links
  PROVE  KeepsBoth =>
           [](Hung /\ BeingServed(n) => <>OffLine)
<1> DEFINE Turn == InTurn(TheViewer, n)
           Up == Sent(TheViewer, n, Longest)
           UpLast == Sent(TheViewer, n, 0)
           Hand == InHand(TheViewer, n)
           Answer == Answering(TheViewer, n)
           Down == Coming(TheViewer, n, Longest)
           DownLast == Coming(TheViewer, n, 0)
           Asks == Ready(n)
           Fails == Failed(n)
           Relays == Relaying(n)
           There == BeingServed(n)
           Off == OffLine
           Inv == SessionInv /\ TabInv /\ ViewerInv
           Served == << Beside(Serve) >>_viewerVars
           Ran == << RunsOn >>_viewerVars
           Next1 == [ViewerNext]_viewerVars
<1>1. 0 \in Nat /\ Longest \in Nat
  BY SMT DEF Longest
<1>2. Inv /\ There => Off \/ Turn \/ Asks \/ Fails \/ Relays
  <2>1. SessionInv => client[TheViewer].phase \in {"off", "idle", "waiting"}
    BY TheViewerIs, ClientState DEF Conversation, AtRest, Asking, Answered, Foreign
  <2> QED
    BY <2>1 DEF BeingServed, InTurn, At, Waits, Ready, Failed, Relaying, Rests, OffLine
<1>3. Inv /\ Turn => /\ Up \/ Hand \/ Answer \/ Down
                     /\ ~UpLast /\ ~DownLast
  BY <1>1, ExchangeGoesOn
<1>4. /\ UpLast \/ DownLast => Turn
      /\ Hand \/ Answer => Turn
  BY DEF Sent, Coming, InHand, Answering
<1>5. Inv /\ (Hand \/ Answer) => CanServe
  BY <1>1, <1>4, ExchangeGoesOn
<1>6. Inv /\ Hand /\ Next1 => Off' \/ Hand' \/ Answer'
  BY <1>4, ExchangeMoves
<1>7. Inv /\ Answer /\ Next1 => Off' \/ Answer' \/ Down'
  BY <1>4, ExchangeMoves
<1>8. Inv /\ Served => (Hand => Answer') /\ (Answer => Down')
  BY ServerTurns
<1>9. Inv /\ (Asks \/ Fails \/ Relays) => CanRun
  BY IdleCanRun DEF Ready, Failed, Relaying
<1>10. Inv /\ Next1 => /\ Asks => Off' \/ Asks' \/ Turn'
                       /\ Fails => Off' \/ Fails'
                       /\ Relays /\ Hung => Off' \/ (Relays' /\ Hung') \/ (Asks' /\ Lost')
                       /\ Relays /\ Lost => Off' \/ (Relays' /\ Lost')
  BY RestTurns
<1>11. Inv /\ Ran => /\ Asks => Off' \/ Turn'
                     /\ Fails => Off'
                     /\ Relays /\ Hung => Off' \/ (Asks' /\ Lost')
                     /\ Relays /\ Lost => Off'
  BY RestGoesOn
<1>12. Inv /\ ~Off /\ Next1 => /\ Hung => Off' \/ Hung'
                               /\ Lost => Off' \/ Lost'
  BY TabStaysClosed
<1>13. KeepsBoth => [](Up => <>(Off \/ Hand \/ UpLast))
  BY AllArrives DEF Drains, Longest
<1>14. KeepsBoth => [](Down => <>(Off \/ Relays \/ Fails \/ DownLast))
  BY AllArrives DEF Comes, Longest
<1> HIDE DEF Turn, Up, UpLast, Hand, Answer, Down, DownLast, Asks, Fails, Relays, There, Off
<1>15. KeepsBoth => []Inv /\ [][ViewerNext]_viewerVars
  BY ViewerInvariants, PTL DEF KeepsBoth, ViewerSpec
<1>16. KeepsBoth => [](Turn => <>(Off \/ Relays \/ Fails))
  BY <1>3, <1>4, <1>5, <1>6, <1>7, <1>8, <1>13, <1>14, <1>15, PTL
     DEF KeepsBoth, KeepsAnswering
<1>17. KeepsBoth => [](Fails => <>Off) /\ [](Asks => <>(Off \/ Turn))
  BY <1>9, <1>10, <1>11, <1>15, PTL DEF KeepsBoth, KeepsRelaying
<1>18. KeepsBoth => /\ [](Relays /\ Lost => <>Off)
                    /\ [](Relays /\ Hung => <>(Off \/ (Asks /\ Lost)))
  BY <1>9, <1>10, <1>11, <1>15, PTL DEF KeepsBoth, KeepsRelaying
<1>19. KeepsBoth => /\ []((Asks \/ Turn) /\ Lost => <>Off)
                    /\ [](Hung /\ (Turn \/ Asks \/ Fails \/ Relays) => <>Off)
  BY <1>12, <1>15, <1>16, <1>17, <1>18, PTL
<1>20. KeepsBoth => [](Hung /\ There => <>Off)
  BY <1>2, <1>15, <1>19, PTL
<1> QED
  BY <1>20 DEF There, Off

\* A viewer that is being served when its tab closes hangs up, wherever it is in
\* its exchange and whichever of its sends is the first to fail, if the emulator
\* and the viewer keep running: for any tabs, statuses, pieces and other clients,
\* and payloads as long as maxPayloadSize.  The proof doubles the length of what
\* is on the way twenty-one times (robot-viewer/main.cpp 91-94).
THEOREM ClosedTabFreesEmulatorCorrect ==
  ASSUME PayloadBounded, Snapshots # {}
  PROVE  ViewerSpec /\ KeepsAnswering /\ KeepsRelaying => ClosedTabFreesEmulator
<1> DEFINE Finishes(n) == Hung /\ BeingServed(n) => <>OffLine
           Every == \A n \in Links : Finishes(n)
           Start == Hung /\ serving = client[TheViewer].on
<1>1. ASSUME NEW n \in Links
      PROVE  KeepsBoth => []Finishes(n)
  BY HangsUp
<1>2. SessionInv /\ Start => OffLine \/ \E n \in Links : Hung /\ BeingServed(n)
  <2> SUFFICES ASSUME SessionInv, Start, ~OffLine
               PROVE  client[TheViewer].on \in Links
    BY DEF BeingServed
  <2> QED
    BY ClientState, TheViewerIs DEF OffLine
<1>3. KeepsBoth => \A n \in Links : []Finishes(n)
  BY <1>1
<1>4. (\A n \in Links : []Finishes(n)) => [](\A n \in Links : Finishes(n))
  OBVIOUS
<1>5. KeepsBoth => []Every
  BY <1>3, <1>4
<1>6. SessionInv /\ Every => (Start => OffLine \/ <>OffLine)
  BY <1>2
<1>7. at # Nobody /\ ~tab[at].open /\ serving = client[TheViewer].on <=> Start
  BY DEF Hung
<1> HIDE DEF Every, Start
<1>8. KeepsBoth => (Start ~> OffLine)
  BY <1>5, <1>6, ViewerInvariants, PTL DEF KeepsBoth
<1> QED
  BY <1>7, <1>8, PTL DEF KeepsBoth, ClosedTabFreesEmulator
===============================================================================
