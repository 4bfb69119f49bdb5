--------------------------- MODULE ModbusTcpProofs ---------------------------
(***************************************************************************)
(* Proofs about ModbusTcp, for any number of clients and slots, any frames *)
(* and any way TCP cuts what is sent.                                      *)
(***************************************************************************)
EXTENDS ModbusTcp, Induction, SequenceTheorems, FiniteSetTheorems

(***************************************************************************)
(* The requests in a stream                                                *)
(***************************************************************************)

\* The recursion of RequestsUpTo is well founded: it computes what its
\* defining equation says.
LEMMA RequestsDef ==
    ASSUME NEW s, Len(s) \in Nat
    PROVE  RequestsUpTo(s) =
             [i \in 0..Len(s) |->
                IF i = 0 THEN << >>
                ELSE IF s[i][2] = FrameUnits(s[i][1])
                     THEN Append(RequestsUpTo(s)[i - 1], s[i][1]) ELSE RequestsUpTo(s)[i - 1]]
  <1> DEFINE Eq(R, n) ==
               R = [i \in 0..n |->
                      IF i = 0 THEN << >>
                      ELSE IF s[i][2] = FrameUnits(s[i][1])
                           THEN Append(R[i - 1], s[i][1]) ELSE R[i - 1]]
  <1> DEFINE S == {n \in Nat : \E R : Eq(R, n)}
  <1>1. 0 \in S
    <2>1. Eq([i \in {0} |-> << >>], 0)
      OBVIOUS
    <2> QED BY <2>1
  <1>2. ASSUME NEW n \in Nat, n \in S
        PROVE  n + 1 \in S
    <2>1. PICK R : Eq(R, n)
      BY <1>2
    <2> DEFINE Q == [i \in 0..(n + 1) |->
                       IF i = n + 1
                       THEN IF s[i][2] = FrameUnits(s[i][1])
                            THEN Append(R[n], s[i][1]) ELSE R[n]
                       ELSE R[i]]
    <2>2. Eq(Q, n + 1)
      <3>1. \A i \in 0..n : Q[i] = R[i]
        OBVIOUS
      <3>2. ASSUME NEW i \in 0..(n + 1)
            PROVE  Q[i] = IF i = 0 THEN << >>
                          ELSE IF s[i][2] = FrameUnits(s[i][1])
                               THEN Append(Q[i - 1], s[i][1]) ELSE Q[i - 1]
        <4>1. CASE i = n + 1
          <5>1. n \in 0..n /\ (n + 1) - 1 = n /\ n + 1 # 0
            OBVIOUS
          <5> QED BY <4>1, <5>1, <3>1
        <4>2. CASE i # n + 1
          <5>1. i \in 0..n /\ (i # 0 => i - 1 \in 0..n)
            BY <4>2
          <5> HIDE DEF Q
          <5>2. R[i] = IF i = 0 THEN << >>
                       ELSE IF s[i][2] = FrameUnits(s[i][1])
                            THEN Append(R[i - 1], s[i][1]) ELSE R[i - 1]
            BY <2>1, <5>1
          <5> QED BY <3>1, <5>1, <5>2
        <4> QED BY <4>1, <4>2
      <3>3. Q = [i \in 0..(n + 1) |-> Q[i]]
        OBVIOUS
      <3> HIDE DEF Q
      <3> QED BY <3>2, <3>3
    <2>3. \E T : Eq(T, n + 1)
      <3> HIDE DEF Q, Eq
      <3> QED BY <2>2
    <2>4. n + 1 \in Nat
      OBVIOUS
    <2> HIDE DEF Eq
    <2> QED BY <2>3, <2>4
  <1>3. S = Nat
    <2> HIDE DEF S
    <2>1. S \in SUBSET Nat
      BY DEF S
    <2> QED BY <1>1, <1>2, <2>1, SetInduction
  <1>4. \E R : Eq(R, Len(s))
    BY <1>3
  <1>5. RequestsUpTo(s) = CHOOSE R : Eq(R, Len(s))
    BY DEF RequestsUpTo
  <1>6. Eq(RequestsUpTo(s), Len(s))
    <2> HIDE DEF Eq
    <2> QED BY <1>4, <1>5
  <1> QED BY <1>6

\* The counts of a frame.
LEMMA UnitsType ==
    ASSUME NEW n \in Nat
    PROVE  Units(n) \in Nat
  <1>1. n + UNIT - 1 \in Nat /\ UNIT \in Nat \ {0}
    BY TcpAssumption
  <1>2. ASSUME NEW a \in Nat, NEW b \in Nat \ {0}
        PROVE  a \div b \in Nat
    BY Z3
  <1> QED BY <1>1, <1>2 DEF Units

\* The header is at least one unit: 6 is a multiple of UNIT.
LEMMA HeaderType == HEADER \in Nat \ {0} /\ ADU_MAX \in Nat
  <1>1. HEADER \in Nat /\ ADU_MAX \in Nat
    BY UnitsType, PduAssumption DEF HEADER, ADU_MAX
  <1>2. HEADER # 0
    <2>1. ASSUME NEW u \in 1..6
          PROVE  (6 + u - 1) \div u # 0
      BY Z3
    <2> QED BY <2>1, TcpAssumption DEF HEADER, Units
  <1> QED BY <1>1, <1>2

\* A frame has at least its header.
LEMMA FrameUnitsType ==
    ASSUME NEW adu \in Adus
    PROVE  FrameUnits(adu) \in Nat \ {0} /\ FrameUnits(adu) >= HEADER
  <1>1. adu.q.len \in Nat
    BY TcpAssumption DEF Adus
  <1>2. Units(adu.q.len) \in Nat
    BY <1>1, UnitsType
  <1> QED BY <1>2, HeaderType DEF FrameUnits

\* The stream of a frame is a stream.
LEMMA StreamOfFrame ==
    ASSUME NEW adu \in Adus
    PROVE  /\ Stream(adu) \in StreamType
           /\ Len(Stream(adu)) = FrameUnits(adu)
           /\ \A k \in 1..FrameUnits(adu) : Stream(adu)[k] = <<adu, k>>
  <1>1. FrameUnits(adu) \in Nat
    BY FrameUnitsType
  <1> QED BY <1>1 DEF Stream, StreamType

\* The empty stream holds no request.
LEMMA RequestsEmpty == Requests(<< >>) = << >>
  <1>1. Len(<< >>) = 0
    OBVIOUS
  <1> QED BY <1>1, RequestsDef DEF Requests

\* The requests in a stream are frames.
LEMMA RequestsType ==
    ASSUME NEW s \in StreamType
    PROVE  /\ \A i \in 0..Len(s) : RequestsUpTo(s)[i] \in Seq(Adus)
           /\ Requests(s) \in Seq(Adus)
  <1> DEFINE R == RequestsUpTo(s)
  <1> DEFINE S == {n \in Nat : n <= Len(s) => R[n] \in Seq(Adus)}
  <1>0. Len(s) \in Nat
    BY DEF StreamType
  <1>1. \A i \in 0..Len(s) :
          R[i] = IF i = 0 THEN << >>
                 ELSE IF s[i][2] = FrameUnits(s[i][1]) THEN Append(R[i - 1], s[i][1]) ELSE R[i - 1]
    BY <1>0, RequestsDef
  <1> HIDE DEF R
  <1>2. 0 \in S
    <2>1. R[0] = << >>
      BY <1>0, <1>1
    <2>2. << >> \in Seq(Adus)
      OBVIOUS
    <2> QED BY <2>1, <2>2, Zenon
  <1>3. ASSUME NEW n \in Nat, n \in S PROVE n + 1 \in S
    <2> SUFFICES ASSUME n + 1 <= Len(s) PROVE R[n + 1] \in Seq(Adus)
      OBVIOUS
    <2>1. R[n] \in Seq(Adus) /\ n + 1 \in 0..Len(s) /\ (n + 1) - 1 = n /\ n + 1 # 0
      BY <1>0, <1>3
    <2>2. s[n + 1][1] \in Adus
      BY <1>0, <2>1 DEF StreamType
    <2>3. R[n + 1] = Append(R[n], s[n + 1][1]) \/ R[n + 1] = R[n]
      BY <1>1, <2>1
    <2>4. ASSUME NEW A, NEW q \in Seq(A), NEW a \in A PROVE Append(q, a) \in Seq(A)
      OBVIOUS
    <2>5. Append(R[n], s[n + 1][1]) \in Seq(Adus)
      BY <2>1, <2>2, <2>4, Zenon
    <2> QED BY <2>1, <2>3, <2>5, Zenon
  <1>4. S = Nat
    <2>1. S \in SUBSET Nat
      OBVIOUS
    <2> HIDE DEF S
    <2> QED BY <1>2, <1>3, <2>1, SetInduction
  <1> QED BY <1>0, <1>4 DEF R, Requests

\* One step of the recursion.
LEMMA RequestsNext ==
    ASSUME NEW s \in StreamType, NEW i \in 1..Len(s)
    PROVE  RequestsUpTo(s)[i] =
             IF s[i][2] = FrameUnits(s[i][1])
             THEN Append(RequestsUpTo(s)[i - 1], s[i][1]) ELSE RequestsUpTo(s)[i - 1]
  <1>1. Len(s) \in Nat /\ i \in 0..Len(s) /\ i # 0
    BY DEF StreamType
  <1> QED BY <1>1, RequestsDef

\* What precedes a cut does not depend on what follows it.
LEMMA RequestsPrefix ==
    ASSUME NEW a \in StreamType, NEW b \in StreamType
    PROVE  RequestsUpTo(a \o b)[Len(a)] = Requests(a)
  <1> DEFINE R == RequestsUpTo(a)
  <1> DEFINE Q == RequestsUpTo(a \o b)
  <1> DEFINE S == {n \in Nat : n <= Len(a) => Q[n] = R[n]}
  <1>0. /\ Len(a) \in Nat /\ Len(b) \in Nat /\ a \o b \in StreamType
        /\ Len(a \o b) = Len(a) + Len(b)
        /\ \A i \in 1..Len(a) : (a \o b)[i] = a[i]
    BY DEF StreamType
  <1>1. 0 \in S
    BY <1>0, RequestsDef
  <1>2. ASSUME NEW n \in Nat, n \in S PROVE n + 1 \in S
    <2> SUFFICES ASSUME n + 1 <= Len(a) PROVE Q[n + 1] = R[n + 1]
      OBVIOUS
    <2>1. /\ Q[n] = R[n] /\ n + 1 \in 1..Len(a) /\ n + 1 \in 1..Len(a \o b)
          /\ (n + 1) - 1 = n /\ (a \o b)[n + 1] = a[n + 1]
      BY <1>0, <1>2
    <2>2. R[n + 1] = IF a[n + 1][2] = FrameUnits(a[n + 1][1])
                     THEN Append(R[n], a[n + 1][1]) ELSE R[n]
      BY <2>1, RequestsNext
    <2>3. Q[n + 1] = IF a[n + 1][2] = FrameUnits(a[n + 1][1])
                     THEN Append(Q[n], a[n + 1][1]) ELSE Q[n]
      <3> DEFINE z == a \o b
      <3>1. z \in StreamType /\ n + 1 \in 1..Len(z) /\ z[n + 1] = a[n + 1] /\ (n + 1) - 1 = n
        BY <1>0, <2>1
      <3> HIDE DEF z
      <3>2. RequestsUpTo(z)[n + 1] =
              IF a[n + 1][2] = FrameUnits(a[n + 1][1])
              THEN Append(RequestsUpTo(z)[n], a[n + 1][1]) ELSE RequestsUpTo(z)[n]
        BY <3>1, RequestsNext
      <3> QED BY <3>2, Zenon DEF z
    <2> QED BY <2>1, <2>2, <2>3
  <1>3. S = Nat
    <2>1. S \in SUBSET Nat
      OBVIOUS
    <2> HIDE DEF S
    <2> QED BY <1>1, <1>2, <2>1, SetInduction
  <1> QED BY <1>0, <1>3 DEF Requests

\* The requests in two streams, one after the other.
LEMMA RequestsConcat ==
    ASSUME NEW a \in StreamType, NEW b \in StreamType
    PROVE  Requests(a \o b) = Requests(a) \o Requests(b)
  <1> DEFINE P == Requests(a)
  <1> DEFINE R == RequestsUpTo(b)
  <1> DEFINE Q == RequestsUpTo(a \o b)
  <1> DEFINE S == {n \in Nat : n <= Len(b) => Q[Len(a) + n] = P \o R[n]}
  <1>0. /\ Len(a) \in Nat /\ Len(b) \in Nat /\ a \o b \in StreamType
        /\ Len(a \o b) = Len(a) + Len(b)
        /\ \A i \in 1..Len(b) : (a \o b)[Len(a) + i] = b[i]
    BY DEF StreamType
  <1>1. P \in Seq(Adus) /\ \A i \in 0..Len(b) : R[i] \in Seq(Adus)
    BY RequestsType
  <1>2. 0 \in S
    <2>1. R[0] = << >>
      BY <1>0, RequestsDef
    <2>2. Q[Len(a)] = P /\ Len(a) + 0 = Len(a)
      BY <1>0, RequestsPrefix
    <2>3. P \o << >> = P
      BY <1>1
    <2> QED BY <2>1, <2>2, <2>3
  <1>3. ASSUME NEW n \in Nat, n \in S PROVE n + 1 \in S
    <2> SUFFICES ASSUME n + 1 <= Len(b) PROVE Q[Len(a) + (n + 1)] = P \o R[n + 1]
      OBVIOUS
    <2> DEFINE u == b[n + 1]
    <2>1. /\ Q[Len(a) + n] = P \o R[n] /\ R[n] \in Seq(Adus)
          /\ n + 1 \in 1..Len(b) /\ Len(a) + (n + 1) \in 1..Len(a \o b)
          /\ (n + 1) - 1 = n /\ (Len(a) + (n + 1)) - 1 = Len(a) + n
          /\ (a \o b)[Len(a) + (n + 1)] = u
      BY <1>0, <1>1, <1>3
    <2>2. R[n + 1] = IF u[2] = FrameUnits(u[1]) THEN Append(R[n], u[1]) ELSE R[n]
      BY <2>1, RequestsNext
    <2>3. Q[Len(a) + (n + 1)] =
            IF u[2] = FrameUnits(u[1]) THEN Append(P \o R[n], u[1]) ELSE P \o R[n]
      <3> DEFINE z == a \o b
      <3> DEFINE k == Len(a) + (n + 1)
      <3>1. z \in StreamType /\ k \in 1..Len(z) /\ z[k] = u /\ k - 1 = Len(a) + n
        BY <1>0, <2>1
      <3> HIDE DEF z, k, u
      <3>2. RequestsUpTo(z)[k] =
              IF u[2] = FrameUnits(u[1])
              THEN Append(RequestsUpTo(z)[Len(a) + n], u[1]) ELSE RequestsUpTo(z)[Len(a) + n]
        BY <3>1, RequestsNext
      <3> QED BY <2>1, <3>2 DEF z, k
    <2>4. u[1] \in Adus
      BY <1>0, <2>1 DEF StreamType
    <2>5. ASSUME NEW p \in Seq(Adus), NEW r \in Seq(Adus), NEW e \in Adus
          PROVE  Append(p \o r, e) = p \o Append(r, e)
      <3>1. p \o r \in Seq(Adus) /\ <<e>> \in Seq(Adus)
        OBVIOUS
      <3>2. Append(p \o r, e) = (p \o r) \o <<e>>
        BY <3>1, AppendIsConcat, Zenon
      <3>3. Append(r, e) = r \o <<e>>
        BY AppendIsConcat, Zenon
      <3>4. (p \o r) \o <<e>> = p \o (r \o <<e>>)
        BY <3>1, ConcatAssociative, SMT
      <3> QED BY <3>2, <3>3, <3>4
    <2> HIDE DEF P, R, Q, u
    <2>6. Append(P \o R[n], u[1]) = P \o Append(R[n], u[1])
      BY <1>1, <2>1, <2>4, <2>5, Zenon
    <2> QED BY <2>2, <2>3, <2>6, Zenon
  <1>4. S = Nat
    <2>1. S \in SUBSET Nat
      OBVIOUS
    <2> HIDE DEF S
    <2> QED BY <1>2, <1>3, <2>1, SetInduction
  <1>5. Q[Len(a) + Len(b)] = P \o R[Len(b)]
    <2>1. Len(b) \in Nat /\ Len(b) <= Len(b)
      BY <1>0
    <2>2. Len(b) \in S
      BY <1>4, <2>1, Zenon
    <2> QED BY <2>1, <2>2, Zenon
  <1>6. Len(a \o b) = Len(a) + Len(b)
    BY <1>0
  <1> QED BY <1>5, <1>6, Zenon DEF Requests

\* The stream of a frame holds that one request.
LEMMA RequestsStream ==
    ASSUME NEW adu \in Adus
    PROVE  Requests(Stream(adu)) = <<adu>>
  <1> DEFINE s == Stream(adu)
  <1> DEFINE F == FrameUnits(adu)
  <1> DEFINE R == RequestsUpTo(s)
  <1> DEFINE S == {n \in Nat : n < F => R[n] = << >>}
  <1>0. /\ s \in StreamType /\ Len(s) = F /\ F \in Nat /\ F > 0
        /\ \A k \in 1..F : s[k][1] = adu /\ s[k][2] = k
    BY StreamOfFrame, FrameUnitsType
  <1> HIDE DEF s, F
  <1>1. 0 \in S
    BY <1>0, RequestsDef
  <1>2. ASSUME NEW n \in Nat, n \in S PROVE n + 1 \in S
    <2> SUFFICES ASSUME n + 1 < F PROVE R[n + 1] = << >>
      OBVIOUS
    <2>1. R[n] = << >> /\ n + 1 \in 1..Len(s) /\ (n + 1) - 1 = n /\ n + 1 # F
      BY <1>0, <1>2
    <2>2. s[n + 1][1] = adu /\ s[n + 1][2] = n + 1
      BY <1>0, <2>1
    <2> QED BY <1>0, <2>1, <2>2, RequestsNext DEF F
  <1>3. S = Nat
    <2>1. S \in SUBSET Nat
      OBVIOUS
    <2> HIDE DEF S
    <2> QED BY <1>1, <1>2, <2>1, SetInduction
  <1>4. R[F - 1] = << >> /\ F \in 1..Len(s)
    BY <1>0, <1>3
  <1>5. R[F] = Append(<< >>, adu)
    <2>1. s[F][1] = adu /\ s[F][2] = F
      BY <1>0, <1>4
    <2>2. R[F] = IF s[F][2] = FrameUnits(s[F][1]) THEN Append(R[F - 1], s[F][1]) ELSE R[F - 1]
      BY <1>0, <1>4, RequestsNext
    <2> HIDE DEF R
    <2> QED BY <1>4, <2>1, <2>2 DEF F
  <1>6. Append(<< >>, adu) = <<adu>>
    OBVIOUS
  <1> QED BY <1>0, <1>5, <1>6 DEF Requests, s

(***************************************************************************)
(* Frame boundaries                                                        *)
(***************************************************************************)

\* One stream after another.
LEMMA StreamConcat ==
    ASSUME NEW a \in StreamType, NEW b \in StreamType
    PROVE  /\ a \o b \in StreamType /\ Len(a) \in Nat /\ Len(b) \in Nat
           /\ Len(a \o b) = Len(a) + Len(b)
           /\ \A i \in 1..Len(a) : (a \o b)[i] = a[i]
           /\ \A i \in 1..Len(b) : (a \o b)[Len(a) + i] = b[i]
  BY DEF StreamType

\* The unit at a place of a framed stream.
LEMMA FramedUnit ==
    ASSUME NEW s \in StreamType, Framed(s), NEW p \in 1..Len(s)
    PROVE  /\ s[p][1] \in Adus /\ s[p][2] \in 1..FrameUnits(s[p][1])
           /\ p - s[p][2] \in Nat /\ (p - s[p][2]) + FrameUnits(s[p][1]) <= Len(s)
           /\ \A j \in 1..FrameUnits(s[p][1]) : s[(p - s[p][2]) + j] = <<s[p][1], j>>
  <1>1. s[p][1] \in Adus
    BY DEF StreamType
  <1> QED BY <1>1 DEF Framed

\* One more frame sent.
LEMMA FramedAppend ==
    ASSUME NEW s \in StreamType, Framed(s), NEW adu \in Adus
    PROVE  Framed(s \o Stream(adu))
  <1> DEFINE F == FrameUnits(adu)
  <1> DEFINE n == Len(s)
  <1> DEFINE z == s \o Stream(adu)
  <1>1. /\ n \in Nat /\ F \in Nat /\ z \in StreamType /\ Len(z) = n + F
        /\ \A i \in 1..n : z[i] = s[i]
        /\ \A k \in 1..F : z[n + k] = <<adu, k>>
    <2> DEFINE w == Stream(adu)
    <2>1. /\ w \in StreamType /\ Len(w) = F /\ F \in Nat
          /\ \A k \in 1..F : w[k] = <<adu, k>>
      BY StreamOfFrame, FrameUnitsType
    <2> HIDE DEF w, F
    <2>2. /\ s \o w \in StreamType /\ Len(s) \in Nat /\ Len(s \o w) = Len(s) + Len(w)
          /\ \A i \in 1..Len(s) : (s \o w)[i] = s[i]
          /\ \A i \in 1..Len(w) : (s \o w)[Len(s) + i] = w[i]
      BY <2>1, StreamConcat
    <2> QED BY <2>1, <2>2 DEF w
  <1> HIDE DEF z, F, n
  <1> SUFFICES ASSUME NEW p \in 1..Len(z)
               PROVE  /\ z[p][2] \in 1..FrameUnits(z[p][1])
                      /\ p - z[p][2] \in Nat /\ (p - z[p][2]) + FrameUnits(z[p][1]) <= Len(z)
                      /\ \A j \in 1..FrameUnits(z[p][1]) :
                            z[(p - z[p][2]) + j] = <<z[p][1], j>>
    BY Zenon DEF Framed, z
  <1>2. CASE p <= n
    <2>1. p \in 1..n /\ z[p] = s[p]
      BY <1>1, <1>2
    <2> DEFINE b == p - s[p][2]
    <2> DEFINE G == FrameUnits(s[p][1])
    <2>2. /\ s[p][2] \in 1..G /\ b \in Nat /\ b + G <= n /\ G \in Nat
          /\ \A j \in 1..G : s[b + j] = <<s[p][1], j>>
      BY <2>1, FramedUnit, FrameUnitsType DEF n
    <2> HIDE DEF b, G
    <2>3. ASSUME NEW j \in 1..G
          PROVE  z[b + j] = <<s[p][1], j>>
      <3>1. b + j \in 1..n
        BY <1>1, <2>2
      <3> QED BY <1>1, <2>2, <3>1
    <2>4. b + G <= Len(z)
      BY <1>1, <2>2
    <2> QED BY <2>1, <2>2, <2>3, <2>4 DEF b, G
  <1>3. CASE p > n
    <2>1. p - n \in 1..F /\ n + (p - n) = p
      BY <1>1, <1>3
    <2>2. z[p] = <<adu, p - n>>
      BY <1>1, <2>1
    <2>3. z[p][1] = adu /\ z[p][2] = p - n /\ p - (p - n) = n
      BY <1>1, <2>2
    <2> QED BY <1>1, <2>1, <2>3 DEF F
  <1>4. p <= n \/ p > n
    BY <1>1
  <1> QED BY <1>2, <1>3, <1>4, Zenon

\* A framed stream begins with a whole frame, and is framed after it.
LEMMA FramedFirst ==
    ASSUME NEW s \in StreamType, Framed(s), s # << >>
    PROVE  LET adu == s[1][1]
               n == FrameUnits(adu)
           IN  /\ adu \in Adus /\ n \in 1..Len(s)
               /\ \A j \in 1..n : s[j] = <<adu, j>>
               /\ rest(s, n) \in StreamType /\ Framed(rest(s, n))
               /\ s = Stream(adu) \o rest(s, n)
  <1> DEFINE adu == s[1][1]
  <1> DEFINE n == FrameUnits(adu)
  <1> DEFINE z == rest(s, n)
  <1>1. Len(s) \in Nat /\ 1 \in 1..Len(s)
    BY DEF StreamType
  <1>2. adu \in Adus /\ n \in Nat /\ n > 0
    BY <1>1, FramedUnit, FrameUnitsType
  <1>3. s[1][2] \in 1..n /\ 1 - s[1][2] \in Nat /\ (1 - s[1][2]) + n <= Len(s)
        /\ \A j \in 1..n : s[(1 - s[1][2]) + j] = <<adu, j>>
    BY <1>1, FramedUnit
  <1>4. s[1][2] = 1
    BY <1>2, <1>3
  <1>5. n \in 1..Len(s) /\ \A j \in 1..n : s[j] = <<adu, j>>
    BY <1>1, <1>2, <1>3, <1>4
  <1> HIDE DEF n, adu
  <1>6. /\ z \in StreamType /\ Len(z) = Len(s) - n
        /\ \A i \in 1..Len(z) : z[i] = s[n + i]
    BY <1>1, <1>5 DEF rest, StreamType
  <1>7. Framed(z)
    <2> HIDE DEF z
    <2> SUFFICES ASSUME NEW i \in 1..Len(z)
                 PROVE  /\ z[i][2] \in 1..FrameUnits(z[i][1])
                        /\ i - z[i][2] \in Nat /\ (i - z[i][2]) + FrameUnits(z[i][1]) <= Len(z)
                        /\ \A j \in 1..FrameUnits(z[i][1]) :
                              z[(i - z[i][2]) + j] = <<z[i][1], j>>
      BY DEF Framed
    <2> DEFINE p == n + i
    <2> DEFINE a == s[p][1]
    <2> DEFINE k == s[p][2]
    <2> DEFINE G == FrameUnits(a)
    <2> DEFINE b == p - k
    <2>1. p \in 1..Len(s) /\ z[i] = s[p]
      BY <1>1, <1>5, <1>6
    <2>2. /\ a \in Adus /\ k \in 1..G /\ b \in Nat /\ b + G <= Len(s) /\ G \in Nat
          /\ \A j \in 1..G : s[b + j] = <<a, j>>
      BY <2>1, FramedUnit, FrameUnitsType
    <2>3. b >= n
      <3> SUFFICES ASSUME b < n PROVE FALSE
        BY <1>2, <2>2
      <3>0. /\ b = p - k /\ p = n + i /\ i \in Nat /\ i >= 1 /\ n \in Nat /\ n >= 1
            /\ k \in Nat /\ k <= G /\ b \in Nat /\ G \in Nat
        BY <1>1, <1>2, <1>6, <2>2
      <3> HIDE DEF a, k, G, b, p
      <3>1. n - b \in 1..G /\ b + (n - b) = n /\ n \in 1..n
        BY <3>0
      <3>2. s[n] = <<a, n - b>> /\ s[n] = <<adu, n>>
        BY <1>5, <2>2, <3>1
      <3>3. a = adu /\ n - b = n
        BY <3>2
      <3>4. b = 0 /\ G = n
        BY <1>2, <2>2, <3>3 DEF G, n
      <3> QED BY <3>0, <3>4
    <2>4. i - k = b - n /\ b - n \in Nat /\ (b - n) + G <= Len(z)
      <3>1. /\ b = p - k /\ p = n + i /\ i \in Nat /\ n \in Nat /\ k \in Nat
            /\ b \in Nat /\ G \in Nat /\ b + G <= Len(s) /\ Len(s) \in Nat
            /\ Len(z) = Len(s) - n
        BY <1>1, <1>2, <1>6, <2>2
      <3> HIDE DEF a, k, G, b, p
      <3> QED BY <2>3, <3>1
    <2> HIDE DEF b
    <2>5. ASSUME NEW j \in 1..G
          PROVE  z[(b - n) + j] = <<a, j>>
      <3>1. (b - n) + j \in 1..Len(z) /\ n + ((b - n) + j) = b + j
        BY <1>1, <1>2, <1>6, <2>2, <2>4
      <3> HIDE DEF a, G
      <3> QED BY <1>6, <2>2, <3>1
    <2> QED BY <2>1, <2>2, <2>4, <2>5
  <1>8. s = Stream(adu) \o z
    <2>1. /\ Stream(adu) \in StreamType /\ Len(Stream(adu)) = n
          /\ \A j \in 1..n : Stream(adu)[j] = <<adu, j>>
      BY <1>2, StreamOfFrame DEF n
    <2> DEFINE w == Stream(adu)
    <2> HIDE DEF z, w
    <2>2. /\ w \o z \in StreamType /\ Len(w \o z) = Len(s)
          /\ \A j \in 1..n : (w \o z)[j] = w[j]
          /\ \A j \in 1..Len(z) : (w \o z)[n + j] = z[j]
      <3>1. w \in StreamType /\ Len(w) = n
        BY <2>1 DEF w
      <3>2. /\ w \o z \in StreamType /\ Len(w) \in Nat /\ Len(z) \in Nat
            /\ Len(w \o z) = Len(w) + Len(z)
            /\ \A j \in 1..Len(w) : (w \o z)[j] = w[j]
            /\ \A j \in 1..Len(z) : (w \o z)[Len(w) + j] = z[j]
        BY <1>6, <3>1, StreamConcat
      <3> QED BY <1>1, <1>2, <1>6, <3>1, <3>2
    <2>3. ASSUME NEW j \in 1..Len(s)
          PROVE  (w \o z)[j] = s[j]
      <3>1. CASE j <= n
        BY <1>2, <1>5, <2>1, <2>2, <3>1 DEF w
      <3>2. CASE j > n
        <4>1. j - n \in 1..Len(z) /\ n + (j - n) = j
          BY <1>1, <1>2, <1>6, <3>2
        <4> QED BY <1>6, <2>2, <4>1
      <3>3. j <= n \/ j > n
        BY <1>1, <1>2
      <3> QED BY <3>1, <3>2, <3>3
    <2>4. w \o z \in Seq(Adus \X Nat) /\ s \in Seq(Adus \X Nat) /\ Len(w \o z) = Len(s)
      BY <2>2 DEF StreamType
    <2>5. \A j \in 1..Len(w \o z) : (w \o z)[j] = s[j]
      BY <2>2, <2>3
    <2> DEFINE v == w \o z
    <2> HIDE DEF v
    <2>6. v = s
      <3>1. v \in Seq(Adus \X Nat) /\ Len(v) = Len(s) /\ \A j \in 1..Len(v) : v[j] = s[j]
        BY <2>4, <2>5 DEF v
      <3> QED BY <2>4, <3>1, SeqEqual
    <2> QED BY <2>6 DEF w, v
  <1> QED BY <1>2, <1>5, <1>6, <1>7, <1>8 DEF n, adu

(***************************************************************************)
(* Types                                                                   *)
(***************************************************************************)

\* The empty stream, and a stream without its first units.
LEMMA StreamPieces ==
    /\ << >> \in StreamType
    /\ \A s \in StreamType, n \in Nat : n <= Len(s) =>
          /\ SubSeq(s, 1, n) \in StreamType /\ Len(SubSeq(s, 1, n)) = n
          /\ rest(s, n) \in StreamType /\ Len(rest(s, n)) = Len(s) - n
          /\ SubSeq(s, 1, n) \o rest(s, n) = s
  <1>1. << >> \in StreamType
    BY DEF StreamType
  <1>2. ASSUME NEW s \in StreamType, NEW n \in Nat, n <= Len(s)
        PROVE  /\ SubSeq(s, 1, n) \in StreamType /\ Len(SubSeq(s, 1, n)) = n
               /\ rest(s, n) \in StreamType /\ Len(rest(s, n)) = Len(s) - n
               /\ SubSeq(s, 1, n) \o rest(s, n) = s
    <2> DEFINE U == Adus \X Nat
    <2>1. s \in Seq(U) /\ Len(s) \in Nat /\ \A i \in 1..Len(s) : s[i] \in U
      BY DEF StreamType
    <2> HIDE DEF U
    <2>2. SubSeq(s, 1, n) \in Seq(U) /\ Len(SubSeq(s, 1, n)) = n
      BY <1>2, <2>1
    <2>3. rest(s, n) \in Seq(U) /\ Len(rest(s, n)) = Len(s) - n
      BY <1>2, <2>1 DEF rest
    <2>4. SubSeq(s, 1, n) \o SubSeq(s, n + 1, Len(s)) = SubSeq(s, 1, Len(s))
      <3>1. /\ 1 \in 1..(Len(s) + 1) /\ n \in (1 - 1)..Len(s) /\ Len(s) \in n..Len(s)
        BY <1>2, <2>1
      <3> QED BY <2>1, <3>1, ConcatAdjacentSubSeq
    <2>5. SubSeq(s, 1, Len(s)) = s
      BY <2>1, SubSeqFull
    <2> QED BY <2>2, <2>3, <2>4, <2>5 DEF rest, StreamType, U
  <1> QED BY <1>1, <1>2

\* The frame at the head of a buffer that consume() is about to execute.
LEMMA ExecuteFrame ==
    ASSUME NEW buf \in StreamType, verdict(buf) = "execute"
    PROVE  /\ buf # << >> /\ buf[1][1] \in Adus
           /\ FrameUnits(buf[1][1]) \in Nat /\ FrameUnits(buf[1][1]) <= Len(buf)
  <1>1. Len(buf) \in Nat /\ Len(buf) >= HEADER /\ complete(buf)
    BY HeaderType DEF verdict, StreamType
  <1>2. 1 \in 1..Len(buf)
    BY <1>1, HeaderType
  <1>3. buf[1][1] \in Adus
    BY <1>1, <1>2 DEF StreamType
  <1>4. FrameUnits(buf[1][1]) \in Nat
    BY <1>3, FrameUnitsType
  <1> QED BY <1>1, <1>2, <1>3, <1>4 DEF complete

\* The types when a connection ends.
LEMMA FreeType ==
    ASSUME TcpTypeOK, NEW i \in Slots, NEW c, forget(i), Gone(c), busy' \in 0..CONNS, sent' = sent
    PROVE  TcpTypeOK'
  <1>1. FreeSlot \in [pcb : CLIENTS \union {NoClient}, buf : StreamType]
    BY StreamPieces DEF FreeSlot
  <1>2. conns' \in [Slots -> [pcb : CLIENTS \union {NoClient}, buf : StreamType]]
    BY <1>1 DEF forget, TcpTypeOK
  <1>3. arg' \in [CLIENTS -> 0..CONNS] /\ wire' \in [CLIENTS -> StreamType]
    <2>1. 0 \in 0..CONNS /\ << >> \in StreamType
      BY TcpAssumption, StreamPieces
    <2>2. arg' \in [CLIENTS -> 0..CONNS]
      BY <2>1 DEF Gone, TcpTypeOK
    <2>3. wire' \in [CLIENTS -> StreamType]
      BY <2>1 DEF Gone, TcpTypeOK
    <2> QED BY <2>2, <2>3
  <1> QED BY <1>2, <1>3 DEF TcpTypeOK

\* A slot the code picks is a free one.
LEMMA MinFree == free_slots # {} => Min(free_slots) \in free_slots
  <1>1. free_slots \in SUBSET Nat
    BY DEF free_slots, Slots
  <1>2. free_slots # {} => \E n \in free_slots : \A m \in free_slots : n <= m
    BY <1>1, LeastNat
  <1> QED BY <1>2 DEF Min

\* Every step keeps the types.
LEMMA TcpTypeStep == TcpTypeOK /\ [Next]_vars => TcpTypeOK'
  <1> SUFFICES ASSUME TcpTypeOK, [Next]_vars PROVE TcpTypeOK'
    OBVIOUS
  <1> DEFINE SlotType == [pcb : CLIENTS \union {NoClient}, buf : StreamType]
  <1>0. /\ conns \in [Slots -> SlotType] /\ 0 \in 0..CONNS /\ 0 \in Nat /\ Slots \subseteq 0..CONNS
    BY TcpAssumption DEF TcpTypeOK, Slots
  <1>1. CASE NetTask \/ consume_wait \/ UNCHANGED vars
    BY <1>1, <1>0 DEF NetTask, consume_wait, vars, tcp, TcpTypeOK
  <1>2. CASE consume_impossible
    <2>1. busy \in Slots /\ release(busy) /\ busy' = 0 /\ sent' = sent
      BY <1>2, TcpAssumption DEF consume_impossible, TcpTypeOK, Slots
    <2> QED BY <1>0, <2>1, FreeType DEF release
  <1>3. ASSUME NEW ok \in BOOLEAN, consume_frame(ok)
        PROVE  TcpTypeOK'
    <2> DEFINE buf == conns[busy].buf
    <2> DEFINE n == FrameUnits(buf[1][1])
    <2>1. busy \in Slots /\ verdict(buf) = "execute" /\ sent' = sent
      BY <1>3, TcpAssumption DEF consume_frame, TcpTypeOK, Slots
    <2>2. buf \in StreamType
      BY <2>1, <1>0
    <2>3. n \in Nat /\ n <= Len(buf)
      BY <2>1, <2>2, ExecuteFrame
    <2>4. rest(buf, n) \in StreamType
      BY <2>2, <2>3, StreamPieces
    <2>5. CASE ok
      <3>1. /\ conns' = [conns EXCEPT ![busy].buf = rest(buf, n)]
            /\ busy' = busy /\ arg' = arg /\ wire' = wire
        BY <1>3, <2>5 DEF consume_frame, again
      <3> HIDE DEF buf, n
      <3>2. conns' \in [Slots -> SlotType]
        BY <1>0, <2>1, <2>4, <3>1
      <3> QED BY <2>1, <3>1, <3>2 DEF TcpTypeOK
    <2>6. CASE ~ok
      <3>1. release(busy) /\ busy' = 0
        BY <1>3, <2>6 DEF consume_frame
      <3> QED BY <1>0, <2>1, <3>1, FreeType DEF release
    <2> QED BY <2>5, <2>6
  <1>4. CASE PowerCycle
    <2>1. FreeSlot \in SlotType
      BY StreamPieces DEF FreeSlot
    <2> QED BY <1>0, <1>4, <2>1, StreamPieces DEF PowerCycle, NoConnections, Each, TcpTypeOK
  <1>5. ASSUME NEW c \in CLIENTS, on_accept(c)
        PROVE  TcpTypeOK'
    <2>1. CASE free_slots = {}
      BY <1>5, <2>1 DEF on_accept, TcpTypeOK
    <2>2. CASE free_slots # {}
      <3>1. Min(free_slots) \in free_slots
        BY <2>2, MinFree
      <3> DEFINE i == Min(free_slots)
      <3>2. i \in Slots
        BY <3>1 DEF free_slots
      <3>3. /\ conns' = [conns EXCEPT ![i] = [pcb |-> c, buf |-> << >>]]
            /\ arg' = [arg EXCEPT ![c] = i] /\ wire' = wire /\ busy' = busy /\ sent' = sent
        BY <1>5, <2>2 DEF on_accept
      <3> HIDE DEF i
      <3>4. [pcb |-> c, buf |-> << >>] \in SlotType
        BY StreamPieces
      <3>5. conns' \in [Slots -> SlotType]
        BY <1>0, <3>3, <3>4
      <3>6. arg' \in [CLIENTS -> 0..CONNS]
        BY <1>0, <3>2, <3>3 DEF TcpTypeOK
      <3> QED BY <3>3, <3>5, <3>6 DEF TcpTypeOK
    <2> QED BY <2>1, <2>2
  <1>6. ASSUME NEW c \in CLIENTS, on_recv_closed(c) \/ on_error(c)
        PROVE  TcpTypeOK'
    <2>1. arg[c] \in Slots
      BY <1>6, TcpAssumption DEF on_recv_closed, on_error, TcpTypeOK, Slots
    <2> QED BY <1>0, <1>6, <2>1, FreeType DEF on_recv_closed, on_error, release, TcpTypeOK
  <1>7. ASSUME NEW c \in CLIENTS, NEW n \in 1..Len(wire[c]), on_recv(c, n)
        PROVE  TcpTypeOK'
    <2> DEFINE i == arg[c]
    <2>1. i \in Slots /\ sent' = sent /\ wire[c] \in StreamType /\ conns[i].buf \in StreamType
      <3>1. i \in Slots
        BY <1>7, TcpAssumption DEF on_recv, TcpTypeOK, Slots
      <3> QED BY <1>0, <1>7, <3>1 DEF on_recv, TcpTypeOK
    <2>2. CASE overrun(conns[i].buf, n)
      BY <1>0, <1>7, <2>1, <2>2, FreeType DEF on_recv, release, TcpTypeOK
    <2>3. CASE ~overrun(conns[i].buf, n)
      <3>1. /\ conns' = [conns EXCEPT ![i].buf = @ \o SubSeq(wire[c], 1, n)]
            /\ wire' = [wire EXCEPT ![c] = rest(wire[c], n)]
            /\ busy' = i /\ arg' = arg
        BY <1>7, <2>3 DEF on_recv, rest
      <3> HIDE DEF i
      <3>2. n \in Nat /\ n <= Len(wire[c])
        BY <2>1 DEF StreamType
      <3>3. /\ rest(wire[c], n) \in StreamType
            /\ conns[i].buf \o SubSeq(wire[c], 1, n) \in StreamType
        BY <2>1, <3>2, StreamPieces, StreamConcat
      <3>4. conns' \in [Slots -> SlotType]
        BY <1>0, <2>1, <3>1, <3>3
      <3>5. wire' \in [CLIENTS -> StreamType]
        BY <3>1, <3>3 DEF TcpTypeOK
      <3> QED BY <1>0, <2>1, <3>1, <3>4, <3>5 DEF TcpTypeOK
    <2> QED BY <2>2, <2>3
  <1>8. ASSUME NEW c \in CLIENTS, NEW f \in FRAMES, Send(c, f)
        PROVE  TcpTypeOK'
    <2> DEFINE adu == [tid |-> sent + 1, proto |-> f.proto, q |-> f.q]
    <2>1. adu \in Adus
      BY DEF Adus, TcpTypeOK
    <2>2. /\ wire' = [wire EXCEPT ![c] = @ \o Stream(adu)]
          /\ sent' = sent + 1 /\ conns' = conns /\ arg' = arg /\ busy' = busy
      BY <1>8 DEF Send
    <2> HIDE DEF adu
    <2>3. wire[c] \o Stream(adu) \in StreamType
      BY <2>1, StreamOfFrame, StreamConcat DEF TcpTypeOK
    <2>4. wire' \in [CLIENTS -> StreamType]
      BY <2>2, <2>3 DEF TcpTypeOK
    <2> QED BY <2>2, <2>4 DEF TcpTypeOK
  <1>9. ASSUME NEW c \in CLIENTS, Close(c)
        PROVE  TcpTypeOK'
    BY <1>9 DEF Close, TcpTypeOK
  <1> QED BY <1>1, <1>2, <1>3, <1>4, <1>5, <1>6, <1>7, <1>8, <1>9 DEF Next, consume

\* The types of the slots and the streams hold throughout.
LEMMA TcpTypeCorrect == Spec => []TcpTypeOK
  <1>1. Init => TcpTypeOK
    <2>1. FreeSlot \in [pcb : CLIENTS \union {NoClient}, buf : StreamType]
      BY StreamPieces DEF FreeSlot
    <2>2. 0 \in 0..CONNS
      BY TcpAssumption
    <2> QED BY <2>1, <2>2, StreamPieces DEF Init, NoConnections, Each, TcpTypeOK
  <1> QED BY <1>1, TcpTypeStep, PTL DEF Spec

(***************************************************************************)
(* Slots and connections                                                   *)
(***************************************************************************)

\* The slot of a connected client, and the client of an occupied slot.
LEMMA SlotOfClient ==
    ASSUME TcpTypeOK, SlotsInv
    PROVE  /\ \A c \in CLIENTS : arg[c] # 0 =>
                 arg[c] \in Slots /\ conns[arg[c]].pcb = c
           /\ busy # 0 => /\ busy \in Slots /\ conns[busy].pcb \in CLIENTS
                          /\ arg[conns[busy].pcb] = busy
  <1>1. \A k \in 0..CONNS : k # 0 => k \in Slots
    BY TcpAssumption DEF Slots
  <1> QED BY <1>1 DEF TcpTypeOK, SlotsInv

\* The end of a connection frees exactly its own slot.
LEMMA FreeSlots ==
    ASSUME TcpTypeOK, SlotsInv, NEW c \in CLIENTS, NEW i \in Slots, arg[c] = i,
           forget(i), Gone(c), busy' = 0
    PROVE  SlotsInv'
  <1>1. /\ conns' = [conns EXCEPT ![i] = FreeSlot] /\ arg' = [arg EXCEPT ![c] = 0]
    BY DEF forget, Gone
  <1>2. i # 0 /\ conns[i].pcb = c /\ Len(<< >>) = 0 /\ ADU_MAX \in Nat
    BY HeaderType, TcpAssumption DEF SlotsInv, Slots
  <1>3. ASSUME NEW d \in CLIENTS, arg'[d] # 0
        PROVE  conns'[arg'[d]].pcb = d
    <2>1. d # c /\ arg'[d] = arg[d]
      BY <1>1, <1>3 DEF TcpTypeOK
    <2>2. arg[d] # i /\ conns[arg[d]].pcb = d /\ arg[d] \in Slots
      BY <1>2, <1>3, <2>1, SlotOfClient
    <2> QED BY <1>1, <2>1, <2>2 DEF TcpTypeOK
  <1>4. ASSUME NEW j \in Slots
        PROVE  /\ conns'[j].pcb # NoClient => arg'[conns'[j].pcb] = j
               /\ Len(conns'[j].buf) <= ADU_MAX
    <2>1. CASE j = i
      <3>1. conns'[j] = FreeSlot
        BY <1>1, <2>1 DEF TcpTypeOK
      <3> QED BY <1>2, <3>1 DEF FreeSlot
    <2>2. CASE j # i
      <3>1. conns'[j] = conns[j]
        BY <1>1, <2>2 DEF TcpTypeOK
      <3>2. conns[j].pcb # NoClient => conns[j].pcb # c
        BY <2>2 DEF SlotsInv
      <3> QED BY <1>1, <3>1, <3>2 DEF SlotsInv, TcpTypeOK
    <2> QED BY <2>1, <2>2
  <1> QED BY <1>3, <1>4 DEF SlotsInv

\* A new buffer in slot i, its client unchanged.
LEMMA FillSlot ==
    ASSUME TcpTypeOK, SlotsInv, NEW i \in Slots, NEW b \in StreamType, Len(b) <= ADU_MAX,
           conns' = [conns EXCEPT ![i].buf = b], arg' = arg,
           busy' = i, conns[i].pcb # NoClient
    PROVE  SlotsInv'
  <1>1. \A j \in Slots : /\ conns'[j].pcb = conns[j].pcb
                         /\ conns'[j].buf = IF j = i THEN b ELSE conns[j].buf
    BY DEF TcpTypeOK
  <1>2. \A c \in CLIENTS : arg[c] # 0 => arg[c] \in Slots
    BY SlotOfClient
  <1>3. \A c \in CLIENTS : arg'[c] # 0 => conns'[arg'[c]].pcb = c
    BY <1>1, <1>2 DEF SlotsInv
  <1>4. \A j \in Slots : conns'[j].pcb # NoClient => arg'[conns'[j].pcb] = j
    BY <1>1 DEF SlotsInv
  <1>5. \A j \in Slots : Len(conns'[j].buf) <= ADU_MAX
    BY <1>1 DEF SlotsInv
  <1> QED BY <1>1, <1>3, <1>4, <1>5 DEF SlotsInv

\* An accepted client takes a slot nobody points at.
LEMMA TakeSlot ==
    ASSUME TcpTypeOK, SlotsInv, NEW c \in CLIENTS, NEW i \in free_slots, arg[c] = 0, busy = 0,
           conns' = [conns EXCEPT ![i] = [pcb |-> c, buf |-> << >>]],
           arg' = [arg EXCEPT ![c] = i], busy' = busy
    PROVE  SlotsInv'
  <1>1. i \in Slots /\ conns[i].pcb = NoClient /\ i # 0 /\ Len(<< >>) = 0 /\ ADU_MAX \in Nat
    BY HeaderType, TcpAssumption DEF free_slots, Slots
  <1>2. ASSUME NEW d \in CLIENTS, arg'[d] # 0
        PROVE  conns'[arg'[d]].pcb = d
    <2>1. CASE d = c
      BY <1>1, <2>1 DEF TcpTypeOK
    <2>2. CASE d # c
      <3>1. arg'[d] = arg[d]
        BY <2>2 DEF TcpTypeOK
      <3>2. arg[d] \in Slots /\ conns[arg[d]].pcb = d
        BY <1>2, <3>1, SlotOfClient
      <3>3. arg[d] # i
        BY <1>1, <3>2, TcpAssumption
      <3> QED BY <3>1, <3>2, <3>3 DEF TcpTypeOK
    <2> QED BY <2>1, <2>2
  <1>3. ASSUME NEW j \in Slots
        PROVE  /\ conns'[j].pcb # NoClient => arg'[conns'[j].pcb] = j
               /\ Len(conns'[j].buf) <= ADU_MAX
    <2>1. CASE j = i
      <3>1. conns'[j] = [pcb |-> c, buf |-> << >>]
        BY <1>1, <2>1 DEF TcpTypeOK
      <3> QED BY <1>1, <2>1, <3>1 DEF TcpTypeOK
    <2>2. CASE j # i
      <3>1. conns'[j] = conns[j]
        BY <1>1, <2>2 DEF TcpTypeOK
      <3>2. ASSUME conns[j].pcb # NoClient
            PROVE  arg'[conns[j].pcb] = j
        <4>1. arg[conns[j].pcb] = j /\ j # 0 /\ conns[j].pcb \in CLIENTS
          BY <3>2, TcpAssumption DEF SlotsInv, TcpTypeOK, Slots
        <4> QED BY <4>1 DEF TcpTypeOK
      <3> QED BY <3>1, <3>2 DEF SlotsInv
    <2> QED BY <2>1, <2>2
  <1> QED BY <1>2, <1>3 DEF SlotsInv

\* Every step keeps slots and connections in step.
LEMMA SlotsStep == TcpTypeOK /\ SlotsInv /\ [Next]_vars => SlotsInv'
  <1> SUFFICES ASSUME TcpTypeOK, SlotsInv, [Next]_vars PROVE SlotsInv'
    OBVIOUS
  <1>0. \A i \in Slots : conns[i].buf \in StreamType /\ Len(conns[i].buf) \in Nat
    BY DEF TcpTypeOK, StreamType
  <1>1. CASE NetTask \/ UNCHANGED vars
    BY <1>1 DEF NetTask, vars, tcp, SlotsInv
  <1>2. CASE consume_wait
    BY <1>2 DEF consume_wait, SlotsInv
  <1>3. CASE consume_impossible
    <2>1. busy # 0 /\ release(busy) /\ busy' = 0
      BY <1>3 DEF consume_impossible
    <2> QED BY <2>1, SlotOfClient, FreeSlots DEF release
  <1>4. ASSUME NEW ok \in BOOLEAN, consume_frame(ok)
        PROVE  SlotsInv'
    <2> DEFINE buf == conns[busy].buf
    <2> DEFINE n == FrameUnits(buf[1][1])
    <2>1. /\ busy \in Slots /\ verdict(buf) = "execute" /\ conns[busy].pcb \in CLIENTS
          /\ arg[conns[busy].pcb] = busy
      BY <1>4, SlotOfClient DEF consume_frame
    <2>2. CASE ok
      <3>1. /\ conns' = [conns EXCEPT ![busy].buf = rest(buf, n)]
            /\ busy' = busy /\ arg' = arg
        BY <1>4, <2>2 DEF consume_frame, again
      <3>2. n \in Nat /\ n <= Len(buf) /\ buf \in StreamType
        BY <1>0, <2>1, ExecuteFrame
      <3>3. rest(buf, n) \in StreamType /\ Len(rest(buf, n)) = Len(buf) - n
        BY <3>2, StreamPieces
      <3>4. Len(buf) \in Nat /\ Len(buf) <= ADU_MAX /\ ADU_MAX \in Nat
        BY <1>0, <2>1, HeaderType DEF SlotsInv
      <3> HIDE DEF buf, n
      <3>5. Len(rest(buf, n)) <= ADU_MAX
        BY <3>2, <3>3, <3>4
      <3>6. conns[busy].pcb # NoClient
        BY <2>1, TcpAssumption
      <3> QED BY <2>1, <3>1, <3>3, <3>5, <3>6, FillSlot
    <2>3. CASE ~ok
      <3>1. release(busy) /\ busy' = 0
        BY <1>4, <2>3 DEF consume_frame
      <3> QED BY <2>1, <3>1, FreeSlots DEF release
    <2> QED BY <2>2, <2>3
  <1>5. CASE PowerCycle
    <2>1. Len(<< >>) = 0 /\ ADU_MAX \in Nat
      BY HeaderType
    <2> QED BY <1>5, <2>1 DEF PowerCycle, NoConnections, Each, FreeSlot, SlotsInv
  <1>6. ASSUME NEW c \in CLIENTS, on_accept(c)
        PROVE  SlotsInv'
    <2>1. CASE free_slots = {}
      BY <1>6, <2>1 DEF on_accept, SlotsInv
    <2>2. CASE free_slots # {}
      <3>1. Min(free_slots) \in free_slots
        BY <2>2, MinFree
      <3>2. /\ conns' = [conns EXCEPT ![Min(free_slots)] = [pcb |-> c, buf |-> << >>]]
            /\ arg' = [arg EXCEPT ![c] = Min(free_slots)] /\ busy' = busy
            /\ busy = 0 /\ arg[c] = 0
        BY <1>6, <2>2 DEF on_accept, Callback
      <3> QED BY <3>1, <3>2, TakeSlot
    <2> QED BY <2>1, <2>2
  <1>7. ASSUME NEW c \in CLIENTS, on_recv_closed(c) \/ on_error(c)
        PROVE  SlotsInv'
    <2>1. arg[c] # 0 /\ busy' = 0 /\ forget(arg[c]) /\ (Gone(c) \/ Gone(conns[arg[c]].pcb))
      BY <1>7 DEF on_recv_closed, on_error, release, Callback
    <2>2. arg[c] \in Slots /\ conns[arg[c]].pcb = c
      BY <2>1, SlotOfClient
    <2> QED BY <2>1, <2>2, FreeSlots
  <1>8. ASSUME NEW c \in CLIENTS, NEW n \in 1..Len(wire[c]), on_recv(c, n)
        PROVE  SlotsInv'
    <2> DEFINE i == arg[c]
    <2>1. i \in Slots /\ conns[i].pcb = c /\ busy = 0
      BY <1>8, SlotOfClient DEF on_recv, Callback
    <2>2. CASE overrun(conns[i].buf, n)
      <3>1. forget(i) /\ Gone(c) /\ busy' = 0
        BY <1>8, <2>1, <2>2 DEF on_recv, release
      <3> QED BY <2>1, <3>1, FreeSlots
    <2>3. CASE ~overrun(conns[i].buf, n)
      <3> DEFINE b == conns[i].buf \o SubSeq(wire[c], 1, n)
      <3>1. /\ conns' = [conns EXCEPT ![i].buf = b]
            /\ busy' = i /\ arg' = arg
        BY <1>8, <2>3 DEF on_recv
      <3>2. n \in Nat /\ n <= Len(wire[c]) /\ wire[c] \in StreamType
        BY DEF TcpTypeOK, StreamType
      <3>3. SubSeq(wire[c], 1, n) \in StreamType /\ Len(SubSeq(wire[c], 1, n)) = n
        BY <3>2, StreamPieces
      <3>4. b \in StreamType /\ Len(b) = Len(conns[i].buf) + n
        BY <1>0, <2>1, <3>3, StreamConcat
      <3>5. Len(b) <= ADU_MAX
        BY <1>0, <2>1, <2>3, <3>2, <3>4, HeaderType DEF overrun
      <3>6. conns[i].pcb # NoClient
        BY <2>1, TcpAssumption
      <3> HIDE DEF b, i
      <3> QED BY <2>1, <3>1, <3>4, <3>5, <3>6, FillSlot
    <2> QED BY <2>2, <2>3
  <1>9. ASSUME NEW c \in CLIENTS, Close(c) \/ \E f \in FRAMES : Send(c, f)
        PROVE  SlotsInv'
    BY <1>9 DEF Close, Send, SlotsInv
  <1> QED BY <1>1, <1>2, <1>3, <1>4, <1>5, <1>6, <1>7, <1>8, <1>9 DEF Next, consume

\* With every slot taken, the slots and the connected clients are equally many.
LEMMA SlotsCount ==
    ASSUME TcpTypeOK, SlotsInv, free_slots = {}
    PROVE  Cardinality({c \in CLIENTS : arg[c] # 0}) = CONNS
  <1> DEFINE T == {c \in CLIENTS : arg[c] # 0}
  <1> DEFINE f == [i \in Slots |-> conns[i].pcb]
  <1>1. \A i \in Slots : conns[i].pcb \in CLIENTS /\ arg[conns[i].pcb] = i /\ i # 0
    BY TcpAssumption DEF free_slots, SlotsInv, TcpTypeOK, Slots
  <1>2. f \in [Slots -> T]
    BY <1>1
  <1>3. \A i, j \in Slots : f[i] = f[j] => i = j
    BY <1>1
  <1>4. \A c \in T : \E i \in Slots : f[i] = c
    BY SlotOfClient
  <1>5. f \in Bijection(Slots, T)
    BY <1>2, <1>3, <1>4 DEF Bijection, Injection, Surjection, IsInjective
  <1>6. IsFiniteSet(Slots) /\ Cardinality(Slots) = CONNS
    <2>1. 1 \in Int /\ CONNS \in Int /\ ~(1 > CONNS) /\ (CONNS - 1) + 1 = CONNS
      BY TcpAssumption
    <2>2. /\ IsFiniteSet(1..CONNS)
          /\ Cardinality(1..CONNS) = IF 1 > CONNS THEN 0 ELSE CONNS - 1 + 1
      BY <2>1, FS_Interval
    <2> QED BY <2>1, <2>2 DEF Slots
  <1>7. ExistsBijection(Slots, T)
    BY <1>5 DEF ExistsBijection
  <1> QED BY <1>6, <1>7, FS_Bijection

\* Slots and pcbs point at each other.
LEMMA SlotsCorrect == Spec => []SlotsInv
  <1>1. Init => SlotsInv
    <2>1. Len(<< >>) = 0 /\ ADU_MAX \in Nat
      BY HeaderType
    <2> QED BY <2>1 DEF Init, NoConnections, Each, FreeSlot, SlotsInv
  <1> QED BY <1>1, SlotsStep, TcpTypeCorrect, PTL DEF Spec

\* No slot is leaked or shared, for any number of clients and of slots,
\* whatever the order of accepts, closes, resets and overruns; a client is
\* refused only when the server is full.
THEOREM SlotsMatch == Spec => []SlotsExact
  <1>1. TcpTypeOK /\ SlotsInv => SlotsExact
    BY SlotsCount DEF SlotsInv, SlotsExact
  <1> QED BY <1>1, SlotsCorrect, TcpTypeCorrect, PTL

\* Clients are served only by a network that is up and has its listener.
THEOREM UpListens == Spec => []UpMeansListening
  <1>1. Init => UpMeansListening
    BY DEF Init, NetInit, Booted, Each, UpMeansListening
  <1>2. TcpTypeOK /\ UpMeansListening /\ [Next]_vars => UpMeansListening'
    <2> SUFFICES ASSUME TcpTypeOK, UpMeansListening, [Next]_vars PROVE UpMeansListening'
      OBVIOUS
    <2>1. CASE NetTask
      <3>1. arg' = arg /\ net = "JOINING" /\ ~listener /\ \A c \in CLIENTS : arg[c] = 0
        BY <2>1 DEF NetTask, tcp, net_task, LinkChange, UpMeansListening
      <3>2. net' = "UP" <=> listener'
        BY <2>1, <3>1 DEF NetTask, net_task, LinkChange, modbus_tcp_init
      <3> QED BY <3>1, <3>2 DEF UpMeansListening
    <2>2. CASE PowerCycle
      BY <2>2 DEF PowerCycle, NetReboot, Booted, Each, UpMeansListening
    <2>3. ASSUME UNCHANGED network, \A c \in CLIENTS : arg'[c] # 0 => arg[c] # 0
          PROVE  UpMeansListening'
      BY <2>3 DEF network, UpMeansListening
    <2>4. ASSUME NEW c, Gone(c)
          PROVE  \A d \in CLIENTS : arg'[d] # 0 => arg[d] # 0
      BY <2>4 DEF Gone, TcpTypeOK
    <2>5. CASE consume
      BY <2>3, <2>4, <2>5 DEF consume, consume_wait, consume_impossible, consume_frame, release
    <2>6. ASSUME NEW c \in CLIENTS, on_accept(c)
          PROVE  UpMeansListening'
      <3>1. UNCHANGED network /\ listener
        BY <2>6 DEF on_accept, Callback
      <3> QED BY <3>1 DEF network, UpMeansListening
    <2>7. ASSUME NEW c \in CLIENTS, on_recv_closed(c) \/ on_error(c)
          PROVE  UpMeansListening'
      BY <2>3, <2>4, <2>7 DEF on_recv_closed, on_error, release, Callback
    <2>8. ASSUME NEW c \in CLIENTS, NEW n, on_recv(c, n)
          PROVE  UpMeansListening'
      BY <2>3, <2>4, <2>8 DEF on_recv, release, Callback
    <2>9. ASSUME NEW c \in CLIENTS, Close(c) \/ \E f \in FRAMES : Send(c, f)
          PROVE  UpMeansListening'
      BY <2>3, <2>9 DEF Close, Send
    <2>10. CASE UNCHANGED vars
      BY <2>3, <2>10 DEF vars, tcp
    <2> QED BY <2>1, <2>2, <2>5, <2>6, <2>7, <2>8, <2>9, <2>10 DEF Next
  <1> QED BY <1>1, <1>2, TcpTypeCorrect, PTL DEF Spec

(***************************************************************************)
(* The service                                                             *)
(***************************************************************************)

\* The service reads and writes the device memory as the server does.
LEMMA SameMemory ==
    /\ Service!WORD = WORD /\ Service!Unmapped = Unmapped
    /\ Service!plc_memory_init = plc_memory_init
    /\ \A x : Service!Exists(x) = Exists(x)
    /\ \A m, x : Service!Get(m, x) = Get(m, x)
    /\ \A new, m : Service!Overlay(new, m) = Overlay(new, m)
    /\ \A m, x, v : Service!Put(m, x, v) = Put(m, x, v)
    /\ \A areas, addr : Service!Device(areas, addr) = Device(areas, addr)
  <1>1. Service!WORD = WORD /\ Service!Unmapped = Unmapped
        /\ Service!plc_memory_init = plc_memory_init
    BY DEF Service!WORD, WORD, Service!Unmapped, Unmapped, Service!plc_memory_init, plc_memory_init
  <1>2. Service!Size = Size /\ Service!PLC_SPECIAL_BASE = PLC_SPECIAL_BASE
    BY DEF Service!Size, Size, Service!PLC_SPECIAL_BASE, PLC_SPECIAL_BASE
  <1>3. ASSUME NEW x
        PROVE  Service!Exists(x) = Exists(x)
    BY <1>1, <1>2 DEF Service!Exists, Exists
  <1>4. ASSUME NEW m, NEW x
        PROVE  Service!Get(m, x) = Get(m, x)
    BY DEF Service!Get, Get
  <1>5. ASSUME NEW new, NEW m
        PROVE  Service!Overlay(new, m) = Overlay(new, m)
    BY DEF Service!Overlay, Overlay
  <1>6. ASSUME NEW m, NEW x, NEW v
        PROVE  Service!Put(m, x, v) = Put(m, x, v)
    BY <1>3, <1>5 DEF Service!Put, Put
  <1>7. ASSUME NEW areas, NEW addr
        PROVE  Service!Device(areas, addr) = Device(areas, addr)
    BY <1>1 DEF Service!Device, Device
  <1> QED BY <1>1, <1>3, <1>4, <1>5, <1>6, <1>7

\* The service has the tables of the server.
LEMMA SameAreas ==
    /\ Service!read_coil_areas = read_coil_areas
    /\ Service!write_coil_areas = write_coil_areas
    /\ Service!read_discrete_areas = read_discrete_areas
    /\ Service!read_holding_areas = read_holding_areas
    /\ Service!write_holding_areas = write_holding_areas
    /\ Service!read_input_areas = read_input_areas
  <1>1. Service!Size = Size /\ Service!PLC_SPECIAL_BASE = PLC_SPECIAL_BASE
    BY DEF Service!Size, Size, Service!PLC_SPECIAL_BASE, PLC_SPECIAL_BASE
  <1>2. /\ Service!MB_COIL_M = MB_COIL_M /\ Service!MB_COIL_S = MB_COIL_S
        /\ Service!MB_DISCRETE_T = MB_DISCRETE_T /\ Service!MB_DISCRETE_C = MB_DISCRETE_C
        /\ Service!MB_HOLDING_D_SPECIAL = MB_HOLDING_D_SPECIAL
        /\ Service!MB_INPUT_C = MB_INPUT_C /\ Service!MB_INPUT_ANALOG = MB_INPUT_ANALOG
        /\ Service!D_ANALOG_BASE = D_ANALOG_BASE
    BY DEF Service!MB_COIL_M, MB_COIL_M, Service!MB_COIL_S, MB_COIL_S, Service!MB_DISCRETE_T,
           MB_DISCRETE_T, Service!MB_DISCRETE_C, MB_DISCRETE_C, Service!MB_HOLDING_D_SPECIAL,
           MB_HOLDING_D_SPECIAL, Service!MB_INPUT_C, MB_INPUT_C, Service!MB_INPUT_ANALOG,
           MB_INPUT_ANALOG, Service!D_ANALOG_BASE, D_ANALOG_BASE
  <1>3. /\ Service!read_coil_areas = read_coil_areas
        /\ Service!write_coil_areas = write_coil_areas
    BY <1>1, <1>2 DEF Service!read_coil_areas, read_coil_areas, Service!write_coil_areas,
                      write_coil_areas
  <1>4. Service!read_discrete_areas = read_discrete_areas
    BY <1>1, <1>2 DEF Service!read_discrete_areas, read_discrete_areas
  <1>5. /\ Service!read_holding_areas = read_holding_areas
        /\ Service!write_holding_areas = write_holding_areas
    BY <1>1, <1>2 DEF Service!read_holding_areas, read_holding_areas,
                      Service!write_holding_areas, write_holding_areas
  <1>6. Service!read_input_areas = read_input_areas
    BY <1>1, <1>2 DEF Service!read_input_areas, read_input_areas
  <1> QED BY <1>3, <1>4, <1>5, <1>6

\* The service forms the replies the server forms.
LEMMA SameReplies ==
    /\ Service!ILLEGAL_FUNCTION = ILLEGAL_FUNCTION
    /\ Service!ILLEGAL_ADDRESS = ILLEGAL_ADDRESS /\ Service!ILLEGAL_VALUE = ILLEGAL_VALUE
    /\ Service!MAX_BITS = MAX_BITS /\ Service!MAX_WORDS = MAX_WORDS
    /\ Service!MB_REQ_FIXED = MB_REQ_FIXED /\ Service!COIL_ON = COIL_ON
    /\ Service!No_reply = No_reply
    /\ \A code : Service!exception(code) = exception(code)
    /\ \A q : Service!echo(q) = echo(q)
    /\ \A q, i : Service!run_addr(q, i) = run_addr(q, i)
    /\ \A q : Service!payload_fits(q) = payload_fits(q)
  BY SameMemory DEF Service!ILLEGAL_FUNCTION, ILLEGAL_FUNCTION, Service!ILLEGAL_ADDRESS,
     ILLEGAL_ADDRESS, Service!ILLEGAL_VALUE, ILLEGAL_VALUE, Service!MAX_BITS, MAX_BITS,
     Service!MAX_WORDS, MAX_WORDS, Service!MB_REQ_FIXED, MB_REQ_FIXED, Service!COIL_ON, COIL_ON,
     Service!No_reply, No_reply, Service!exception, exception, Service!echo, echo,
     Service!run_addr, run_addr, Service!payload_fits, payload_fits

\* The service reads and writes a run of addresses as the server does.
LEMMA SameRuns ==
    /\ \A m, q, areas, limit : Service!read_run(m, q, areas, limit) = read_run(m, q, areas, limit)
    /\ \A m, q, areas, bytes : Service!write_run(m, q, areas, bytes) = write_run(m, q, areas, bytes)
    /\ \A m, q, areas, v : Service!write_one(m, q, areas, v) = write_one(m, q, areas, v)
  <1>1. ASSUME NEW m, NEW q, NEW areas, NEW limit
        PROVE  Service!read_run(m, q, areas, limit) = read_run(m, q, areas, limit)
    BY SameMemory, SameReplies DEF Service!read_run, read_run
  <1>2. ASSUME NEW areas, NEW q
        PROVE  Service!written_run(areas, q) = written_run(areas, q)
    BY SameMemory, SameReplies DEF Service!written_run, written_run
  <1>3. ASSUME NEW m, NEW q, NEW areas, NEW bytes
        PROVE  Service!write_run(m, q, areas, bytes) = write_run(m, q, areas, bytes)
    BY <1>2, SameMemory, SameReplies DEF Service!write_run, write_run
  <1>4. ASSUME NEW m, NEW q, NEW areas, NEW v
        PROVE  Service!write_one(m, q, areas, v) = write_one(m, q, areas, v)
    BY SameMemory, SameReplies DEF Service!write_one, write_one
  <1> QED BY <1>1, <1>3, <1>4

\* The service executes and answers requests as the server does.
LEMMA SameExecution ==
    ASSUME NEW m, NEW adu
    PROVE  /\ Service!modbus_tcp_adu_exec(m, adu) = modbus_tcp_adu_exec(m, adu)
           /\ Service!answer(m, adu) = answer(m, adu)
           /\ Service!plc_memory_init = plc_memory_init
  <1>1. ASSUME NEW q
        PROVE  Service!modbus_pdu_exec(m, q) = modbus_pdu_exec(m, q)
    BY SameRuns, SameAreas, SameReplies DEF Service!modbus_pdu_exec, modbus_pdu_exec
  <1>2. Service!modbus_tcp_adu_exec(m, adu) = modbus_tcp_adu_exec(m, adu)
    BY <1>1, SameReplies DEF Service!modbus_tcp_adu_exec, modbus_tcp_adu_exec
  <1>3. Service!answer(m, adu) = answer(m, adu)
    BY <1>2 DEF Service!answer, answer
  <1> QED BY <1>2, <1>3, SameMemory

\* What a step does to the streams, the memory and the answers.
OthersKept(c) == \A d \in CLIENTS \ {c} : InFlight(d)' = InFlight(d)

StreamsKept == (\A d \in CLIENTS : InFlight(d)' = InFlight(d)) /\ UNCHANGED <<mem, replies>>

StreamEnds(c) ==
    /\ InFlight(c)' = << >> /\ OthersKept(c)
    /\ replies' = [replies EXCEPT ![c] = << >>]
    /\ \/ UNCHANGED mem
       \/ InFlight(c) # << >> /\ mem' = modbus_tcp_adu_exec(mem, InFlight(c)[1][1]).mem

StreamGrows(c) ==
    /\ \E adu \in Adus : InFlight(c)' = InFlight(c) \o Stream(adu)
    /\ OthersKept(c) /\ UNCHANGED <<mem, replies>>

FrameServed(c) ==
    LET adu == InFlight(c)[1][1]
    IN  /\ InFlight(c) # << >>
        /\ InFlight(c)' = rest(InFlight(c), FrameUnits(adu)) /\ OthersKept(c)
        /\ mem' = modbus_tcp_adu_exec(mem, adu).mem
        /\ replies' = [replies EXCEPT ![c] = @ \o answer(mem, adu)]

StreamsReset ==
    /\ \A d \in CLIENTS : InFlight(d)' = << >>
    /\ mem' = plc_memory_init /\ replies' = Each(<< >>)

StreamEffect ==
    \/ StreamsKept \/ StreamsReset
    \/ \E c \in CLIENTS : StreamEnds(c) \/ StreamGrows(c) \/ FrameServed(c)

\* A stream a step does not touch.
LEMMA InFlightKept ==
    ASSUME NEW d \in CLIENTS, arg'[d] = arg[d], wire'[d] = wire[d],
           arg[d] # 0 => conns'[arg[d]].buf = conns[arg[d]].buf
    PROVE  InFlight(d)' = InFlight(d)
  BY DEF InFlight

\* The stream of a client in its types.
LEMMA InFlightType ==
    ASSUME TcpTypeOK, SlotsInv, NEW c \in CLIENTS
    PROVE  /\ InFlight(c) \in StreamType /\ wire[c] \in StreamType
           /\ arg[c] # 0 => /\ conns[arg[c]].buf \in StreamType
                            /\ InFlight(c) = conns[arg[c]].buf \o wire[c]
  <1>1. wire[c] \in StreamType
    BY DEF TcpTypeOK
  <1>2. arg[c] # 0 => conns[arg[c]].buf \in StreamType
    BY SlotOfClient DEF TcpTypeOK
  <1> QED BY <1>1, <1>2, StreamPieces, StreamConcat DEF InFlight

\* Two empty streams.
LEMMA EmptyEmpty == << >> \o << >> = << >>
  BY ConcatEmptySeq, EmptySeq

\* The end of a connection, with or without the execution of a last request.
LEMMA EndEffect ==
    ASSUME TcpTypeOK, SlotsInv, NEW c \in CLIENTS, arg[c] # 0, forget(arg[c]), Gone(c),
           \/ UNCHANGED mem
           \/ InFlight(c) # << >> /\ mem' = modbus_tcp_adu_exec(mem, InFlight(c)[1][1]).mem
    PROVE  StreamEnds(c)
  <1>1. InFlight(c)' = << >>
    <2>1. arg'[c] = 0 /\ wire'[c] = << >>
      BY DEF Gone, TcpTypeOK
    <2> QED BY <2>1, EmptyEmpty DEF InFlight
  <1>2. ASSUME NEW d \in CLIENTS \ {c}
        PROVE  InFlight(d)' = InFlight(d)
    <2>1. arg'[d] = arg[d] /\ wire'[d] = wire[d]
      BY DEF Gone, TcpTypeOK
    <2>2. ASSUME arg[d] # 0
          PROVE  conns'[arg[d]].buf = conns[arg[d]].buf
      <3>1. arg[d] \in Slots /\ arg[d] # arg[c]
        BY <2>2, SlotOfClient
      <3> QED BY <3>1 DEF forget, TcpTypeOK
    <2> QED BY <2>1, <2>2, InFlightKept
  <1> QED BY <1>1, <1>2 DEF StreamEnds, OthersKept, Gone

\* Where a stream is cut does not matter.
LEMMA StreamAssociative ==
    ASSUME NEW a \in StreamType, NEW b \in StreamType, NEW z \in StreamType
    PROVE  (a \o b) \o z = a \o (b \o z)
  <1> DEFINE U == Adus \X Nat
  <1>1. a \in Seq(U) /\ b \in Seq(U) /\ z \in Seq(U)
    BY DEF StreamType
  <1> HIDE DEF U
  <1> QED BY <1>1, ConcatAssociative

\* Dropping the first units of a stream drops them from its first part.
LEMMA RestConcat ==
    ASSUME NEW a \in StreamType, NEW b \in StreamType, NEW n \in Nat, n <= Len(a)
    PROVE  rest(a \o b, n) = rest(a, n) \o b
  <1> DEFINE w == SubSeq(a, 1, n)
  <1> DEFINE r == rest(a, n)
  <1>1. w \in StreamType /\ Len(w) = n /\ r \in StreamType /\ w \o r = a
    BY StreamPieces
  <1> HIDE DEF w, r
  <1>2. r \o b \in StreamType /\ Len(r \o b) \in Nat
    <2>1. r \o b \in StreamType
      BY <1>1, StreamConcat
    <2> QED BY <2>1 DEF StreamType
  <1>3. a \o b = w \o (r \o b)
    <2>1. w \in StreamType /\ r \in StreamType /\ w \o r = a
      BY <1>1
    <2>2. (w \o r) \o b = w \o (r \o b)
      <3> DEFINE same(x, y, t) == (x \o y) \o t = x \o (y \o t)
      <3>1. \A x, y, t \in StreamType : same(x, y, t)
        BY StreamAssociative, Zenon
      <3> HIDE DEF same
      <3>2. same(w, r, b)
        BY <2>1, <3>1, Zenon
      <3> QED BY <3>2, Zenon DEF same
    <2> QED BY <2>1, <2>2, Zenon
  <1> DEFINE v == r \o b
  <1> DEFINE z == w \o v
  <1>4. v \in StreamType /\ Len(v) \in Nat
    BY <1>2
  <1> HIDE DEF v
  <1>5. /\ z \in StreamType /\ Len(z) = n + Len(v)
        /\ \A i \in 1..Len(v) : z[n + i] = v[i]
    <2>1. /\ w \o v \in StreamType /\ Len(w \o v) = Len(w) + Len(v)
          /\ \A i \in 1..Len(v) : (w \o v)[Len(w) + i] = v[i]
      BY <1>1, <1>4, StreamConcat
    <2> QED BY <1>1, <2>1
  <1> HIDE DEF z
  <1>6. /\ rest(z, n) \in StreamType /\ Len(rest(z, n)) = Len(v)
        /\ \A i \in 1..Len(v) : rest(z, n)[i] = z[n + i]
    <2>1. Len(z) \in Nat /\ \A i \in 1..Len(z) : z[i] \in Adus \X Nat
      BY <1>4, <1>5 DEF StreamType
    <2>2. rest(z, n) \in StreamType /\ Len(rest(z, n)) = Len(v)
      BY <1>4, <1>5, StreamPieces
    <2>3. ASSUME NEW i \in 1..Len(v)
          PROVE  rest(z, n)[i] = z[n + i]
      BY <1>4, <1>5, <2>1 DEF rest
    <2> QED BY <2>2, <2>3
  <1>7. rest(z, n) = v
    <2>1. rest(z, n) \in Seq(Adus \X Nat) /\ v \in Seq(Adus \X Nat)
      BY <1>4, <1>6 DEF StreamType
    <2>2. Len(rest(z, n)) = Len(v) /\ \A i \in 1..Len(rest(z, n)) : rest(z, n)[i] = v[i]
      BY <1>5, <1>6
    <2> DEFINE q == rest(z, n)
    <2> HIDE DEF q
    <2>3. q \in Seq(Adus \X Nat) /\ Len(q) = Len(v) /\ \A i \in 1..Len(q) : q[i] = v[i]
      BY <2>1, <2>2 DEF q
    <2>4. q = v
      BY <2>1, <2>3, SeqEqual
    <2> QED BY <2>4 DEF q
  <1> QED BY <1>3, <1>7 DEF z, v, r

\* Every step does one of these things to the streams.
LEMMA StreamStep == TcpTypeOK /\ SlotsInv /\ Next => StreamEffect
  <1> SUFFICES ASSUME TcpTypeOK, SlotsInv, Next PROVE StreamEffect
    OBVIOUS
  <1>1. CASE NetTask \/ consume_wait \/ \E c \in CLIENTS : Close(c)
    <2>1. UNCHANGED <<conns, arg, wire, mem, replies>>
      BY <1>1 DEF NetTask, tcp, consume_wait, Close
    <2> QED BY <2>1 DEF StreamEffect, StreamsKept, InFlight
  <1>2. CASE consume_impossible
    <2>1. busy # 0 /\ release(busy) /\ mem' = mem
      BY <1>2 DEF consume_impossible
    <2>2. PICK c \in CLIENTS : c = conns[busy].pcb /\ arg[c] = busy
      BY <2>1, SlotOfClient
    <2>3. StreamEnds(c)
      BY <2>1, <2>2, EndEffect DEF release
    <2> QED BY <2>3 DEF StreamEffect
  <1>3. ASSUME NEW ok \in BOOLEAN, consume_frame(ok)
        PROVE  StreamEffect
    <2>. PICK c \in CLIENTS : busy # 0 /\ busy \in Slots /\ c = conns[busy].pcb /\ arg[c] = busy
      BY <1>3, SlotOfClient DEF consume_frame
    <2> DEFINE buf == conns[busy].buf
    <2> DEFINE adu == buf[1][1]
    <2> DEFINE n == FrameUnits(adu)
    <2>1. verdict(buf) = "execute" /\ mem' = modbus_tcp_adu_exec(mem, adu).mem
      BY <1>3 DEF consume_frame
    <2>2. buf \in StreamType /\ wire[c] \in StreamType /\ InFlight(c) = buf \o wire[c]
      BY <2>1, InFlightType
    <2>3. buf # << >> /\ n \in Nat /\ n <= Len(buf)
      BY <2>1, <2>2, ExecuteFrame
    <2>4. InFlight(c) # << >> /\ InFlight(c)[1] = buf[1]
      <3>1. Len(buf) \in Nat /\ 1 \in 1..Len(buf)
        BY <2>2, <2>3 DEF StreamType
      <3>2. /\ Len(buf \o wire[c]) = Len(buf) + Len(wire[c]) /\ Len(wire[c]) \in Nat
            /\ (buf \o wire[c])[1] = buf[1]
        <4> DEFINE a == buf
                   b == wire[c]
        <4> HIDE DEF a, b
        <4>1. /\ Len(a \o b) = Len(a) + Len(b) /\ Len(b) \in Nat
              /\ \A i \in 1..Len(a) : (a \o b)[i] = a[i]
          BY <2>2, StreamConcat DEF a, b
        <4> QED BY <3>1, <4>1, Zenon DEF a, b
      <3>3. Len(<< >>) = 0
        OBVIOUS
      <3> QED BY <2>2, <3>1, <3>2, <3>3
    <2>5. CASE ok
      <3>1. /\ replies' = [replies EXCEPT ![c] = @ \o answer(mem, adu)]
            /\ conns' = [conns EXCEPT ![busy].buf = rest(buf, n)]
            /\ arg' = arg /\ wire' = wire
        BY <1>3, <2>5 DEF consume_frame
      <3>2. InFlight(c)' = rest(InFlight(c), n)
        <4>1. conns'[busy].buf = rest(buf, n)
          BY <2>1, <3>1 DEF TcpTypeOK
        <4>2. InFlight(c)' = rest(buf, n) \o wire[c]
          <5>1. arg'[c] = busy /\ busy # 0 /\ wire'[c] = wire[c]
            BY <3>1
          <5> QED BY <4>1, <5>1, Zenon DEF InFlight
        <4> HIDE DEF buf, n
        <4>3. rest(buf \o wire[c], n) = rest(buf, n) \o wire[c]
          BY <2>2, <2>3, RestConcat
        <4> QED BY <2>2, <4>2, <4>3
      <3>3. ASSUME NEW d \in CLIENTS \ {c}
            PROVE  InFlight(d)' = InFlight(d)
        <4>1. ASSUME arg[d] # 0
              PROVE  conns'[arg[d]].buf = conns[arg[d]].buf
          <5>1. arg[d] \in Slots /\ arg[d] # busy
            BY <2>1, <4>1, SlotOfClient
          <5> QED BY <3>1, <5>1 DEF TcpTypeOK
        <4> QED BY <3>1, <4>1, InFlightKept
      <3>4. FrameServed(c)
        <4>1. InFlight(c)[1][1] = adu
          BY <2>4
        <4> HIDE DEF adu, n
        <4> QED BY <2>1, <2>4, <3>1, <3>2, <3>3, <4>1 DEF FrameServed, OthersKept, n
      <3> QED BY <2>1, <3>4 DEF StreamEffect
    <2>6. CASE ~ok
      <3>1. forget(busy) /\ Gone(c)
        BY <1>3, <2>6 DEF consume_frame, release
      <3>2. mem' = modbus_tcp_adu_exec(mem, InFlight(c)[1][1]).mem
        BY <2>1, <2>4
      <3> HIDE DEF adu, buf
      <3>3. StreamEnds(c)
        BY <2>1, <2>4, <3>1, <3>2, EndEffect
      <3> QED BY <2>1, <3>3 DEF StreamEffect
    <2> QED BY <2>5, <2>6
  <1>4. CASE PowerCycle
    BY <1>4, EmptyEmpty DEF PowerCycle, Each, InFlight, StreamEffect, StreamsReset
  <1>5. ASSUME NEW c \in CLIENTS, on_accept(c)
        PROVE  StreamEffect
    <2>1. UNCHANGED <<mem, wire, replies>>
      BY <1>5 DEF on_accept
    <2>2. CASE free_slots = {}
      BY <1>5, <2>1, <2>2 DEF on_accept, StreamEffect, StreamsKept, InFlight
    <2>3. CASE free_slots # {}
      <3> DEFINE i == Min(free_slots)
      <3>1. i \in Slots /\ conns[i].pcb = NoClient /\ i # 0
        BY <2>3, MinFree, TcpAssumption DEF free_slots, Slots
      <3>2. /\ conns' = [conns EXCEPT ![i] = [pcb |-> c, buf |-> << >>]]
            /\ arg' = [arg EXCEPT ![c] = i] /\ arg[c] = 0
        BY <1>5, <2>3 DEF on_accept
      <3> HIDE DEF i
      <3>3. InFlight(c)' = InFlight(c)
        <4>1. arg'[c] = i /\ conns'[i].buf = << >>
          BY <3>1, <3>2 DEF TcpTypeOK
        <4> QED BY <2>1, <3>1, <3>2, <4>1 DEF InFlight
      <3>4. ASSUME NEW d \in CLIENTS \ {c}
            PROVE  InFlight(d)' = InFlight(d)
        <4>1. arg'[d] = arg[d]
          BY <3>2 DEF TcpTypeOK
        <4>2. ASSUME arg[d] # 0
              PROVE  conns'[arg[d]].buf = conns[arg[d]].buf
          <5>1. arg[d] \in Slots /\ arg[d] # i
            BY <3>1, <4>2, SlotOfClient, TcpAssumption
          <5> QED BY <3>2, <5>1 DEF TcpTypeOK
        <4> QED BY <2>1, <4>1, <4>2, InFlightKept
      <3> QED BY <2>1, <3>3, <3>4 DEF StreamEffect, StreamsKept
    <2> QED BY <2>2, <2>3
  <1>6. ASSUME NEW c \in CLIENTS, on_recv_closed(c) \/ on_error(c)
        PROVE  StreamEffect
    <2>1. /\ arg[c] # 0 /\ mem' = mem /\ forget(arg[c])
          /\ Gone(c) \/ Gone(conns[arg[c]].pcb)
      BY <1>6 DEF on_recv_closed, on_error, release
    <2>2. conns[arg[c]].pcb = c
      BY <2>1, SlotOfClient
    <2>3. StreamEnds(c)
      BY <2>1, <2>2, EndEffect
    <2> QED BY <2>3 DEF StreamEffect
  <1>7. ASSUME NEW c \in CLIENTS, NEW n \in 1..Len(wire[c]), on_recv(c, n)
        PROVE  StreamEffect
    <2> DEFINE i == arg[c]
    <2>1. i # 0 /\ i \in Slots /\ conns[i].pcb = c /\ mem' = mem
      BY <1>7, SlotOfClient DEF on_recv
    <2>2. CASE overrun(conns[i].buf, n)
      <3>1. forget(i) /\ Gone(c)
        BY <1>7, <2>1, <2>2 DEF on_recv, release
      <3>2. StreamEnds(c)
        BY <2>1, <3>1, EndEffect
      <3> QED BY <3>2 DEF StreamEffect
    <2>3. CASE ~overrun(conns[i].buf, n)
      <3> DEFINE buf == conns[i].buf
      <3> DEFINE head == SubSeq(wire[c], 1, n)
      <3> DEFINE tail == rest(wire[c], n)
      <3>1. /\ conns' = [conns EXCEPT ![i].buf = buf \o head]
            /\ wire' = [wire EXCEPT ![c] = tail]
            /\ arg' = arg /\ replies' = replies
        BY <1>7, <2>3 DEF on_recv, rest
      <3>2. buf \in StreamType /\ wire[c] \in StreamType /\ InFlight(c) = buf \o wire[c]
        BY <2>1, InFlightType
      <3>3. head \in StreamType /\ tail \in StreamType /\ head \o tail = wire[c]
        <4>1. n \in Nat /\ n <= Len(wire[c])
          BY <3>2 DEF StreamType
        <4> QED BY <3>2, <4>1, StreamPieces
      <3>4. InFlight(c)' = InFlight(c)
        <4>1. conns'[i].buf = buf \o head /\ wire'[c] = tail /\ arg'[c] = i
          BY <2>1, <3>1 DEF TcpTypeOK
        <4>2. InFlight(c)' = (buf \o head) \o tail
          BY <2>1, <4>1 DEF InFlight
        <4> HIDE DEF buf, head, tail
        <4>3. (buf \o head) \o tail = buf \o (head \o tail)
          BY <3>2, <3>3, StreamAssociative
        <4> QED BY <3>2, <3>3, <4>2, <4>3
      <3> HIDE DEF buf, head, tail
      <3>5. ASSUME NEW d \in CLIENTS \ {c}
            PROVE  InFlight(d)' = InFlight(d)
        <4>1. wire'[d] = wire[d]
          BY <3>1 DEF TcpTypeOK
        <4>2. ASSUME arg[d] # 0
              PROVE  conns'[arg[d]].buf = conns[arg[d]].buf
          <5>1. arg[d] \in Slots /\ arg[d] # i
            BY <2>1, <4>2, SlotOfClient
          <5> QED BY <3>1, <5>1 DEF TcpTypeOK
        <4> QED BY <3>1, <4>1, <4>2, InFlightKept
      <3> QED BY <2>1, <3>1, <3>4, <3>5 DEF StreamEffect, StreamsKept
    <2> QED BY <2>2, <2>3
  <1>8. ASSUME NEW c \in CLIENTS, NEW f \in FRAMES, Send(c, f)
        PROVE  StreamEffect
    <2> DEFINE adu == [tid |-> sent + 1, proto |-> f.proto, q |-> f.q]
    <2>1. adu \in Adus
      BY DEF Adus, TcpTypeOK
    <2>2. /\ wire' = [wire EXCEPT ![c] = @ \o Stream(adu)]
          /\ conns' = conns /\ arg' = arg /\ mem' = mem /\ replies' = replies /\ arg[c] # 0
      BY <1>8 DEF Send
    <2> HIDE DEF adu
    <2>3. InFlight(c)' = InFlight(c) \o Stream(adu)
      <3> DEFINE buf == conns[arg[c]].buf
      <3>1. buf \in StreamType /\ wire[c] \in StreamType /\ InFlight(c) = buf \o wire[c]
        BY <2>2, InFlightType
      <3>2. InFlight(c)' = buf \o (wire[c] \o Stream(adu))
        BY <2>2 DEF InFlight, TcpTypeOK
      <3> HIDE DEF buf
      <3>3. (buf \o wire[c]) \o Stream(adu) = buf \o (wire[c] \o Stream(adu))
        BY <2>1, <3>1, StreamOfFrame, StreamAssociative
      <3> QED BY <3>1, <3>2, <3>3
    <2>4. OthersKept(c)
      BY <2>2 DEF OthersKept, InFlight, TcpTypeOK
    <2> QED BY <2>1, <2>2, <2>3, <2>4 DEF StreamEffect, StreamGrows
  <1> QED BY <1>1, <1>2, <1>3, <1>4, <1>5, <1>6, <1>7, <1>8 DEF Next, consume

\* Streams stay framed: bytes arrive in any pieces, but the buffer a request is
\* taken from always begins with one.
LEMMA FramedStep ==
    TcpTypeOK /\ SlotsInv /\ StreamsFramed /\ [Next]_vars => StreamsFramed'
  <1> SUFFICES ASSUME TcpTypeOK, SlotsInv, StreamsFramed, [Next]_vars PROVE StreamsFramed'
    OBVIOUS
  <1>1. Framed(<< >>)
    BY DEF Framed
  <1>2. StreamEffect
    BY StreamStep DEF vars, tcp, StreamEffect, StreamsKept, InFlight
  <1>3. SUFFICES ASSUME NEW d \in CLIENTS PROVE Framed(InFlight(d)')
    BY DEF StreamsFramed, Framed, FrameUnits, Units, HEADER
  <1>4. InFlight(d) \in StreamType /\ Framed(InFlight(d))
    BY InFlightType DEF StreamsFramed
  <1>5. CASE InFlight(d)' = InFlight(d) \/ InFlight(d)' = << >>
    BY <1>1, <1>4, <1>5
  <1>6. ASSUME StreamGrows(d)
        PROVE  Framed(InFlight(d)')
    BY <1>4, <1>6, FramedAppend DEF StreamGrows
  <1>7. ASSUME FrameServed(d)
        PROVE  Framed(InFlight(d)')
    BY <1>4, <1>7, FramedFirst DEF FrameServed
  <1>8. CASE StreamsKept \/ StreamsReset
    BY <1>5, <1>8 DEF StreamsKept, StreamsReset
  <1>9. ASSUME NEW c \in CLIENTS, StreamEnds(c) \/ StreamGrows(c) \/ FrameServed(c)
        PROVE  Framed(InFlight(d)')
    BY <1>5, <1>6, <1>7, <1>9 DEF StreamEnds, StreamGrows, FrameServed, OthersKept
  <1> QED BY <1>2, <1>8, <1>9 DEF StreamEffect

\* The first request of a framed stream is the one its first unit names.
LEMMA FirstRequest ==
    ASSUME NEW s \in StreamType, Framed(s), s # << >>
    PROVE  /\ Requests(s) # << >> /\ Head(Requests(s)) = s[1][1]
           /\ Tail(Requests(s)) = Requests(rest(s, FrameUnits(s[1][1])))
  <1> DEFINE adu == s[1][1]
  <1> DEFINE r == rest(s, FrameUnits(adu))
  <1>1. adu \in Adus /\ r \in StreamType /\ s = Stream(adu) \o r
    BY FramedFirst
  <1>2. Stream(adu) \in StreamType
    BY <1>1, StreamOfFrame
  <1> HIDE DEF adu, r
  <1>3. Requests(s) = <<adu>> \o Requests(r) /\ Requests(r) \in Seq(Adus)
    <2>1. Requests(Stream(adu) \o r) = Requests(Stream(adu)) \o Requests(r)
      BY <1>1, <1>2, RequestsConcat
    <2> QED BY <1>1, <2>1, RequestsStream, RequestsType
  <1>4. ASSUME NEW q \in Seq(Adus)
        PROVE  <<adu>> \o q # << >> /\ Head(<<adu>> \o q) = adu /\ Tail(<<adu>> \o q) = q
    <2>1. <<adu>> \in Seq(Adus) /\ Len(<<adu>>) = 1
      BY <1>1
    <2>2. Len(<<adu>> \o q) = 1 + Len(q) /\ Len(q) \in Nat /\ <<adu>> \o q \in Seq(Adus)
      BY <2>1
    <2>3. Tail(<<adu>> \o q) = q
      BY <1>1, <2>2, SMT
    <2> QED BY <1>1, <2>2, <2>3
  <1> QED BY <1>3, <1>4 DEF adu, r

\* Every step is a step of the service or leaves it as it is.
LEMMA ServiceStep ==
    TcpTypeOK /\ SlotsInv /\ StreamsFramed /\ [Next]_vars
        => [Service!ServiceNext]_(Service!service)
  <1> SUFFICES ASSUME TcpTypeOK, SlotsInv, StreamsFramed, [Next]_vars
               PROVE  [Service!ServiceNext]_(Service!service)
    OBVIOUS
  <1> DEFINE pending == [c \in CLIENTS |-> Pending(c)]
  <1>1. \A c \in CLIENTS : pending[c] = Requests(InFlight(c)) /\ pending'[c] = Requests(InFlight(c)')
    BY DEF Pending, Requests, RequestsUpTo, FrameUnits, Units, HEADER
  <1>2. \A c \in CLIENTS : InFlight(c) \in StreamType /\ Framed(InFlight(c))
    BY InFlightType DEF StreamsFramed
  <1>3. CASE UNCHANGED vars \/ StreamsKept
    <2>1. \A c \in CLIENTS : InFlight(c)' = InFlight(c)
      BY <1>3 DEF StreamsKept, vars, tcp, InFlight
    <2>2. UNCHANGED <<mem, replies>>
      BY <1>3 DEF StreamsKept, vars, tcp
    <2>3. pending' = pending
      BY <1>1, <2>1
    <2> QED BY <2>2, <2>3 DEF Service!service
  <1>4. CASE StreamsReset
    <2>1. pending' = [c \in CLIENTS |-> << >>]
      BY <1>1, <1>4, RequestsEmpty DEF StreamsReset
    <2>2. Service!PowerLost
      BY <1>4, <2>1, SameExecution DEF StreamsReset, Each, Service!PowerLost, Service!ServiceInit
    <2> QED BY <2>2 DEF Service!ServiceNext
  <1>5. ASSUME NEW c \in CLIENTS, OthersKept(c)
        PROVE  /\ \A d \in CLIENTS \ {c} : pending'[d] = pending[d]
               /\ pending' = [pending EXCEPT ![c] = pending'[c]]
    <2>1. \A d \in CLIENTS \ {c} : pending'[d] = pending[d]
      BY <1>1, <1>5 DEF OthersKept
    <2> QED BY <2>1
  <1>6. ASSUME NEW c \in CLIENTS, StreamEnds(c)
        PROVE  Service!End(c)
    <2>1. pending'[c] = << >>
      BY <1>1, <1>6, RequestsEmpty DEF StreamEnds
    <2>2. InFlight(c) # << >> => pending[c] # << >> /\ Head(pending[c]) = InFlight(c)[1][1]
      BY <1>1, <1>2, FirstRequest
    <2>3. pending' = [pending EXCEPT ![c] = << >>]
      BY <1>5, <1>6, <2>1 DEF StreamEnds
    <2>4. \/ UNCHANGED mem
          \/ /\ pending[c] # << >>
             /\ mem' = Service!modbus_tcp_adu_exec(mem, Head(pending[c])).mem
      BY <1>6, <2>2, SameExecution DEF StreamEnds
    <2>5. replies' = [replies EXCEPT ![c] = << >>]
      BY <1>6 DEF StreamEnds
    <2> QED BY <2>3, <2>4, <2>5 DEF Service!End
  <1>7. ASSUME NEW c \in CLIENTS, StreamGrows(c)
        PROVE  Service!Submit(c)
    <2>1. PICK adu \in Adus : InFlight(c)' = InFlight(c) \o Stream(adu)
      BY <1>7 DEF StreamGrows
    <2>2. pending'[c] = pending[c] \o <<adu>> /\ pending[c] \in Seq(Adus)
      <3>1. Requests(InFlight(c) \o Stream(adu)) = Requests(InFlight(c)) \o Requests(Stream(adu))
        BY <1>2, StreamOfFrame, RequestsConcat
      <3> QED BY <1>1, <1>2, <2>1, <3>1, RequestsStream, RequestsType
    <2>3. ASSUME NEW q \in Seq(Adus), NEW z, z = q \o <<adu>>
          PROVE  Len(z) = Len(q) + 1 /\ z = Append(q, z[Len(q) + 1])
      BY <2>3
    <2>4. /\ Len(pending'[c]) = Len(pending[c]) + 1
          /\ pending'[c] = Append(pending[c], pending'[c][Len(pending[c]) + 1])
      BY <2>2, <2>3
    <2>5. pending' = [pending EXCEPT ![c] = Append(@, pending'[c][Len(@) + 1])]
      BY <1>5, <1>7, <2>4 DEF StreamGrows
    <2>6. UNCHANGED <<mem, replies>>
      BY <1>7 DEF StreamGrows
    <2> QED BY <2>4, <2>5, <2>6 DEF Service!Submit
  <1>8. ASSUME NEW c \in CLIENTS, FrameServed(c)
        PROVE  Service!Serve(c)
    <2>1. /\ pending[c] # << >> /\ Head(pending[c]) = InFlight(c)[1][1]
          /\ pending'[c] = Tail(pending[c])
      BY <1>1, <1>2, <1>8, FirstRequest DEF FrameServed
    <2>2. pending' = [pending EXCEPT ![c] = Tail(@)]
      BY <1>5, <1>8, <2>1 DEF FrameServed
    <2>3. /\ mem' = Service!modbus_tcp_adu_exec(mem, Head(pending[c])).mem
          /\ replies' = [replies EXCEPT ![c] = @ \o Service!answer(mem, Head(pending[c]))]
      BY <1>8, <2>1, SameExecution DEF FrameServed
    <2> QED BY <2>1, <2>2, <2>3 DEF Service!Serve
  <1> QED BY <1>3, <1>4, <1>6, <1>7, <1>8, StreamStep DEF StreamEffect, Service!ServiceNext

\* modbus_tcp.c serves as ModbusService promises, whatever TCP does to the
\* streams: for any number of clients and slots and any set of frames, the
\* requests of a session are executed in the order sent, at most once, each as
\* a whole, and answered in that order.
THEOREM ServesAsPromised == Spec => ImplementsService
  <1>1. Init => Service!ServiceInit
    <2> SUFFICES ASSUME Init PROVE Service!ServiceInit
      OBVIOUS
    <2>1. \A c \in CLIENTS : Pending(c) = << >>
      BY EmptyEmpty, RequestsEmpty DEF Init, Each, Pending, InFlight
    <2> QED BY <2>1, SameExecution DEF Init, Each, Service!ServiceInit
  <1>2. Init => StreamsFramed
    BY EmptyEmpty DEF Init, Each, StreamsFramed, InFlight, Framed
  <1>3. Spec => []StreamsFramed
    BY <1>2, FramedStep, TcpTypeCorrect, SlotsCorrect, PTL DEF Spec
  <1> QED BY <1>1, <1>3, ServiceStep, TcpTypeCorrect, SlotsCorrect, PTL
        DEF Spec, ImplementsService, Service!ServiceSpec

==============================================================================
