-------------------------- MODULE TcpServiceProofs --------------------------
(***************************************************************************)
(* Theorems about TcpService, and their proofs.  The first half is about   *)
(* the operators on bytes: what the task keeps of the bytes it has read is *)
(* what it would keep had it read them at once, and the answer to a client *)
(* is not changed by what the client sends after it is certain.  The       *)
(* second half is the inductive invariant, IInv: of the bytes a client has *)
(* sent, those not in the chip were read, and the buffer holds what is     *)
(* left of these.                                                          *)
(***************************************************************************)
EXTENDS TcpService, SequenceTheorems, FiniteSetTheorems, WellFoundedInduction,
        TLAPS

(* A set of numbers that is not empty has a least one: of the intervals that *)
(* end in its members one has no other in it.                                *)
LEMMA LeastNumber ==
    ASSUME NEW T \in SUBSET Nat, T # {}
    PROVE  \E i \in T : \A j \in T : i <= j
<1> DEFINE F == {0..i : i \in T}
<1>1. F \subseteq FiniteSubsetsOf(Nat)
  <2> SUFFICES ASSUME NEW i \in T
               PROVE  0..i \in FiniteSubsetsOf(Nat)
    OBVIOUS
  <2>1. IsFiniteSet(0..i)
    BY FS_Interval
  <2> QED  BY <2>1 DEF FiniteSubsetsOf
<1>2. F # {}
  OBVIOUS
<1>3. PICK X \in F : \A Y \in F : <<Y, X>> \notin StrictSubsetOrdering(Nat)
  <2> HIDE DEF F
  <2>1. IsWellFoundedOn(StrictSubsetOrdering(Nat), FiniteSubsetsOf(Nat))
    BY FS_StrictSubsetOrderingWellFounded
  <2> QED  BY <1>1, <1>2, <2>1, WFMin
<1>4. PICK i \in T : X = 0..i
  BY <1>3
<1>5. ASSUME NEW j \in T
      PROVE  i <= j
  <2>1. 0..j \in F /\ i \in Nat /\ j \in Nat
    OBVIOUS
  <2>2. ~(0..j \subseteq 0..i /\ 0..j # 0..i)
    <3> DEFINE Y == 0..j
    <3>1. Y \in SUBSET Nat /\ X \in SUBSET Nat /\ Y \in F
      BY <1>4, <2>1
    <3>2. <<Y, X>> \notin StrictSubsetOrdering(Nat)
      BY <1>3, <3>1
    <3> HIDE DEF Y, F
    <3>3. ~(Y \subseteq X /\ Y # X)
      BY <3>1, <3>2 DEF StrictSubsetOrdering
    <3> QED  BY <1>4, <3>3 DEF Y
  <2>3. SUFFICES ASSUME j < i PROVE FALSE
    BY <2>1
  <2>4. 0..j \subseteq 0..i /\ i \in 0..i /\ i \notin 0..j
    BY <2>1, <2>3
  <2> QED  BY <2>2, <2>4
<1> QED  BY <1>5

-----------------------------------------------------------------------------
(* The first byte of a command, and the first end of a line, are at i. *)
FirstAt(bytes, i) ==
    /\ i \in 1..Len(bytes)
    /\ bytes[i] # "eol"
    /\ \A j \in 1..(i - 1) : bytes[j] = "eol"

EndAt(bytes, i) ==
    /\ i \in 1..Len(bytes)
    /\ bytes[i] = "eol"
    /\ \A j \in 1..(i - 1) : bytes[j] # "eol"

LEMMA FirstExists ==
    ASSUME NEW bytes \in Seq(Byte)
    PROVE  \/ (\A j \in 1..Len(bytes) : bytes[j] = "eol") /\ Starts(bytes) = {}
           \/ \E i \in 1..Len(bytes) : FirstAt(bytes, i)
<1>1. Len(bytes) \in Nat /\ DOMAIN bytes = 1..Len(bytes)
  BY LenProperties
<1>2. Starts(bytes) \in SUBSET Nat
  BY <1>1 DEF Starts
<1>3. CASE Starts(bytes) = {}
  BY <1>1, <1>3 DEF Starts
<1>4. CASE Starts(bytes) # {}
  <2>1. PICK i \in Starts(bytes) : \A j \in Starts(bytes) : i <= j
    BY <1>2, <1>4, LeastNumber
  <2>2. FirstAt(bytes, i)
    BY <1>1, <2>1 DEF FirstAt, Starts
  <2> QED  BY <2>2 DEF FirstAt
<1> QED  BY <1>3, <1>4

LEMMA FromFirstIs ==
    ASSUME NEW bytes \in Seq(Byte), NEW i \in 1..Len(bytes), FirstAt(bytes, i)
    PROVE  FromFirst(bytes) = SubSeq(bytes, i, Len(bytes))
<1>1. Len(bytes) \in Nat /\ DOMAIN bytes = 1..Len(bytes)
  BY LenProperties
<1>2. i \in Starts(bytes) /\ \A j \in Starts(bytes) : j \in Nat /\ i <= j
  BY <1>1 DEF FirstAt, Starts
<1>3. (CHOOSE k \in Starts(bytes) : \A j \in Starts(bytes) : k <= j) = i
  <2> DEFINE c == CHOOSE k \in Starts(bytes) : \A j \in Starts(bytes) : k <= j
  <2>1. c \in Starts(bytes) /\ \A j \in Starts(bytes) : c <= j
    BY <1>2
  <2> HIDE DEF c
  <2>2. c = i
    BY <1>2, <2>1
  <2> QED  BY <2>2 DEF c
<1> QED  BY <1>2, <1>3 DEF FromFirst

LEMMA EndExists ==
    ASSUME NEW bytes \in Seq(Byte)
    PROVE  \/ (\A j \in 1..Len(bytes) : bytes[j] # "eol") /\ Ends(bytes) = {}
           \/ \E i \in 1..Len(bytes) : EndAt(bytes, i) /\ Ends(bytes) # {}
<1>1. Len(bytes) \in Nat /\ DOMAIN bytes = 1..Len(bytes)
  BY LenProperties
<1>2. Ends(bytes) \in SUBSET Nat
  BY <1>1 DEF Ends
<1>3. CASE Ends(bytes) = {}
  BY <1>1, <1>3 DEF Ends
<1>4. CASE Ends(bytes) # {}
  <2>1. PICK i \in Ends(bytes) : \A j \in Ends(bytes) : i <= j
    BY <1>2, <1>4, LeastNumber
  <2>2. EndAt(bytes, i)
    BY <1>1, <2>1 DEF EndAt, Ends
  <2> QED  BY <1>4, <2>2 DEF EndAt
<1> QED  BY <1>3, <1>4

LEMMA FirstLineIs ==
    ASSUME NEW bytes \in Seq(Byte), NEW i \in 1..Len(bytes), EndAt(bytes, i)
    PROVE  /\ FirstLine(bytes) = SubSeq(bytes, 1, i - 1)
           /\ FirstLine(bytes) \in Seq(Byte)
           /\ Len(FirstLine(bytes)) = i - 1
           /\ Ends(bytes) # {}
<1>1. Len(bytes) \in Nat /\ DOMAIN bytes = 1..Len(bytes)
      /\ \A j \in 1..Len(bytes) : bytes[j] \in Byte
  BY LenProperties, ElementOfSeq
<1>2. i \in Ends(bytes) /\ \A j \in Ends(bytes) : j \in Nat /\ i <= j
  BY <1>1 DEF EndAt, Ends
<1>3. (CHOOSE k \in Ends(bytes) : \A j \in Ends(bytes) : k <= j) = i
  <2> DEFINE c == CHOOSE k \in Ends(bytes) : \A j \in Ends(bytes) : k <= j
  <2>1. c \in Ends(bytes) /\ \A j \in Ends(bytes) : c <= j
    BY <1>2
  <2> HIDE DEF c
  <2>2. c = i
    BY <1>2, <2>1
  <2> QED  BY <2>2 DEF c
<1>4. FirstLine(bytes) = SubSeq(bytes, 1, i - 1)
  BY <1>3 DEF FirstLine
<1>5. i - 1 \in Int /\ \A j \in 1..(i - 1) : bytes[j] \in Byte
  BY <1>1
<1>6. /\ SubSeq(bytes, 1, i - 1) \in Seq(Byte)
      /\ Len(SubSeq(bytes, 1, i - 1)) = IF 1 <= i - 1 THEN (i - 1) - 1 + 1 ELSE 0
  BY <1>5, SubSeqProperties
<1> QED  BY <1>2, <1>4, <1>6

(* Part of a sequence of bytes. *)
LEMMA PartOf ==
    ASSUME NEW bytes \in Seq(Byte), NEW i \in 1..(Len(bytes) + 1),
           NEW j \in 0..Len(bytes), i <= j + 1
    PROVE  /\ SubSeq(bytes, i, j) \in Seq(Byte)
           /\ Len(SubSeq(bytes, i, j)) = j - i + 1
           /\ \A k \in 1..(j - i + 1) : SubSeq(bytes, i, j)[k] = bytes[i + k - 1]
<1>1. Len(bytes) \in Nat /\ \A k \in 1..Len(bytes) : bytes[k] \in Byte
  BY LenProperties, ElementOfSeq
<1>2. \A k \in i..j : bytes[k] \in Byte
  BY <1>1
<1>3. /\ SubSeq(bytes, i, j) \in Seq(Byte)
      /\ Len(SubSeq(bytes, i, j)) = IF i <= j THEN j - i + 1 ELSE 0
      /\ \A k \in 1..(j - i + 1) : SubSeq(bytes, i, j)[k] = bytes[i + k - 1]
  BY <1>2, SubSeqProperties
<1> QED  BY <1>3

LEMMA FromFirstType ==
    ASSUME NEW bytes \in Seq(Byte)
    PROVE  FromFirst(bytes) \in Seq(Byte) /\ Len(FromFirst(bytes)) \in 0..Len(bytes)
<1>1. Len(bytes) \in Nat
  BY LenProperties
<1>2. CASE Starts(bytes) = {}
  BY <1>1, <1>2, EmptySeq DEF FromFirst
<1>3. CASE Starts(bytes) # {}
  <2>1. PICK i \in 1..Len(bytes) : FirstAt(bytes, i)
    BY <1>3, FirstExists
  <2>2. FromFirst(bytes) = SubSeq(bytes, i, Len(bytes))
    BY <2>1, FromFirstIs
  <2> QED  BY <1>1, <2>2, PartOf
<1> QED  BY <1>2, <1>3

(* What begins with a byte of a command is kept as it is. *)
LEMMA FromFirstKeeps ==
    ASSUME NEW bytes \in Seq(Byte), bytes # <<>>, bytes[1] # "eol"
    PROVE  FromFirst(bytes) = bytes
<1>1. Len(bytes) \in Nat \ {0} /\ 1 \in 1..Len(bytes)
  BY EmptySeq
<1>2. FirstAt(bytes, 1)
  BY <1>1 DEF FirstAt
<1> QED  BY <1>1, <1>2, FromFirstIs, SubSeqFull

(* The bytes before the first one of a command are forgotten whenever they   *)
(* are read: what is kept of them and of the bytes after them is the same.   *)
LEMMA FromFirstOfMore ==
    ASSUME NEW p \in Seq(Byte), NEW r \in Seq(Byte)
    PROVE  /\ FromFirst(FromFirst(p) \o r) = FromFirst(p \o r)
           /\ FromFirst(p) # <<>> => FromFirst(p \o r) = FromFirst(p) \o r
<1>1. /\ Len(p) \in Nat /\ Len(r) \in Nat
      /\ p \o r \in Seq(Byte) /\ Len(p \o r) = Len(p) + Len(r)
      /\ \A i \in 1..(Len(p) + Len(r)) :
            (p \o r)[i] = IF i <= Len(p) THEN p[i] ELSE r[i - Len(p)]
  BY LenProperties, ConcatProperties
<1>2. CASE \A j \in 1..Len(p) : p[j] = "eol"
  <2>1. FromFirst(p) = <<>> /\ FromFirst(p) \o r = r
    <3>1. Starts(p) = {}
      BY <1>2, LenProperties DEF Starts
    <3> QED  BY <3>1, ConcatEmptySeq DEF FromFirst
  <2>2. CASE Starts(r) = {}
    <3>1. \A j \in 1..Len(r) : r[j] = "eol"
      BY <2>2, LenProperties DEF Starts
    <3>2. Starts(p \o r) = {}
      BY <1>1, <1>2, <3>1, LenProperties DEF Starts
    <3> QED  BY <2>1, <2>2, <3>2 DEF FromFirst
  <2>3. CASE Starts(r) # {}
    <3>1. PICK i \in 1..Len(r) : FirstAt(r, i)
      BY <2>3, FirstExists
    <3>2. Len(p) + i \in 1..Len(p \o r) /\ FirstAt(p \o r, Len(p) + i)
      BY <1>1, <1>2, <3>1 DEF FirstAt
    <3> DEFINE a == SubSeq(r, i, Len(r))
               b == SubSeq(p \o r, Len(p) + i, Len(p \o r))
    <3>3. FromFirst(r) = a /\ FromFirst(p \o r) = b
      BY <1>1, <3>1, <3>2, FromFirstIs
    <3>4. a \in Seq(Byte) /\ Len(a) = Len(r) - i + 1
          /\ \A k \in 1..(Len(r) - i + 1) : a[k] = r[i + k - 1]
      BY <1>1, PartOf
    <3>5. b \in Seq(Byte) /\ Len(b) = Len(r) - i + 1
          /\ \A k \in 1..(Len(r) - i + 1) : b[k] = (p \o r)[Len(p) + i + k - 1]
      <4> DEFINE q == p \o r
                 n == Len(p) + i
      <4>1. q \in Seq(Byte) /\ n \in 1..(Len(q) + 1) /\ Len(q) \in 0..Len(q)
            /\ n <= Len(q) + 1 /\ Len(q) - n + 1 = Len(r) - i + 1
        BY <1>1
      <4> HIDE DEF q
      <4>2. /\ SubSeq(q, n, Len(q)) \in Seq(Byte)
            /\ Len(SubSeq(q, n, Len(q))) = Len(q) - n + 1
            /\ \A k \in 1..(Len(q) - n + 1) : SubSeq(q, n, Len(q))[k] = q[n + k - 1]
        <5> HIDE DEF n
        <5> QED  BY <4>1, PartOf
      <4> QED  BY <4>1, <4>2 DEF q
    <3> HIDE DEF a, b
    <3>6. ASSUME NEW k \in 1..Len(a)
          PROVE  a[k] = b[k]
      <4>1. k \in 1..(Len(r) - i + 1)
        BY <3>4
      <4>2. Len(p) + i + k - 1 \in 1..(Len(p) + Len(r))
            /\ ~(Len(p) + i + k - 1 <= Len(p))
            /\ Len(p) + i + k - 1 - Len(p) = i + k - 1
        BY <1>1, <4>1
      <4>3. (p \o r)[Len(p) + i + k - 1] = r[i + k - 1]
        BY <1>1, <4>2
      <4> QED  BY <3>4, <3>5, <4>1, <4>3
    <3>7. a = b
      BY <3>4, <3>5, <3>6, SeqEqual
    <3> QED  BY <2>1, <3>3, <3>7
  <2> QED  BY <2>2, <2>3
<1>3. CASE \E i \in 1..Len(p) : FirstAt(p, i)
  <2>1. PICK i \in 1..Len(p) : FirstAt(p, i)
    BY <1>3
  <2> DEFINE a == SubSeq(p, i, Len(p))
  <2>2. FromFirst(p) = a
    BY <2>1, FromFirstIs
  <2>3. a \in Seq(Byte) /\ Len(a) = Len(p) - i + 1
        /\ \A k \in 1..(Len(p) - i + 1) : a[k] = p[i + k - 1]
    BY <1>1, PartOf
  <2>4. i \in 1..Len(p \o r) /\ FirstAt(p \o r, i)
    BY <1>1, <2>1 DEF FirstAt
  <2> DEFINE b == SubSeq(p \o r, i, Len(p \o r))
  <2>5. FromFirst(p \o r) = b
    BY <1>1, <2>4, FromFirstIs
  <2>6. b \in Seq(Byte) /\ Len(b) = Len(p) + Len(r) - i + 1
        /\ \A k \in 1..(Len(p) + Len(r) - i + 1) : b[k] = (p \o r)[i + k - 1]
    <3> DEFINE q == p \o r
    <3>1. q \in Seq(Byte) /\ i \in 1..(Len(q) + 1) /\ Len(q) \in 0..Len(q)
          /\ i <= Len(q) + 1 /\ Len(q) = Len(p) + Len(r)
      BY <1>1
    <3> HIDE DEF q
    <3>2. /\ SubSeq(q, i, Len(q)) \in Seq(Byte)
          /\ Len(SubSeq(q, i, Len(q))) = Len(q) - i + 1
          /\ \A k \in 1..(Len(q) - i + 1) : SubSeq(q, i, Len(q))[k] = q[i + k - 1]
      BY <3>1, PartOf
    <3> QED  BY <3>1, <3>2 DEF q
  <2> HIDE DEF a, b
  <2>7. /\ a \o r \in Seq(Byte) /\ Len(a \o r) = Len(a) + Len(r)
        /\ \A k \in 1..(Len(a) + Len(r)) :
              (a \o r)[k] = IF k <= Len(a) THEN a[k] ELSE r[k - Len(a)]
    BY <2>3, ConcatProperties
  <2>8. \A k \in 1..Len(a \o r) : (a \o r)[k] = b[k]
    BY <1>1, <2>3, <2>6, <2>7
  <2>9. a \o r = b
    <3>1. Len(a \o r) = Len(b)
      BY <1>1, <2>3, <2>6, <2>7
    <3> DEFINE q == a \o r
    <3>2. q \in Seq(Byte) /\ Len(q) = Len(b) /\ \A k \in 1..Len(q) : q[k] = b[k]
      BY <2>7, <2>8, <3>1
    <3> HIDE DEF q
    <3>3. q = b
      BY <2>6, <3>2, SeqEqual
    <3> QED  BY <3>3 DEF q
  <2>10. (a \o r)[1] # "eol" /\ a \o r # <<>>
    <3>1. a[1] = p[i] /\ Len(a) >= 1
      BY <1>1, <2>3
    <3>2. (a \o r)[1] = p[i]
      BY <1>1, <2>3, <2>7, <3>1
    <3>3. Len(a \o r) # 0
      BY <1>1, <2>7, <3>1, <2>3
    <3> QED  BY <2>1, <3>2, <3>3, EmptySeq DEF FirstAt
  <2>11. FromFirst(a \o r) = a \o r
    BY <2>7, <2>10, FromFirstKeeps
  <2> QED  BY <2>2, <2>5, <2>9, <2>11
<1> QED  BY <1>2, <1>3, FirstExists

-----------------------------------------------------------------------------
Response == [kind : {"none", "command_too_long", "line"}, line : Seq(Byte)]

(* The three answers, by what is kept of the bytes. *)
LEMMA AnswerIs ==
    ASSUME NEW p \in Seq(Byte), NEW line \in Seq(Byte), line = FromFirst(p)
    PROVE  /\ \A m \in 1..Len(line) : EndAt(line, m) /\ m - 1 < BufferSize =>
                  Answer(p) = ToLine(SubSeq(line, 1, m - 1))
           /\ Len(line) >= BufferSize
                  /\ (\A m \in 1..Len(line) : EndAt(line, m) => m - 1 >= BufferSize)
              => Answer(p) = TooLong
           /\ Answer(p) = NoResponse <=> Ends(line) = {} /\ Len(line) < BufferSize
           /\ Answer(p) \in Response
<1>0. Len(line) \in Nat /\ BufferSize \in Nat \ {0}
  BY LenProperties, BufferAssumption
<1>1. Answer(p) = IF Ends(line) # {} /\ Len(FirstLine(line)) < BufferSize
                      THEN ToLine(FirstLine(line))
                      ELSE IF Len(line) >= BufferSize THEN TooLong ELSE NoResponse
  BY DEF Answer
<1>2. CASE Ends(line) = {}
  <2>1. \A m \in 1..Len(line) : ~EndAt(line, m)
    BY <1>2, LenProperties DEF EndAt, Ends
  <2>2. CASE Len(line) >= BufferSize
    <3>1. Answer(p) = TooLong
      BY <1>0, <1>1, <1>2, <2>2
    <3> QED  BY <1>0, <1>2, <2>1, <2>2, <3>1, EmptySeq DEF TooLong, NoResponse,
                Response
  <2>3. CASE ~(Len(line) >= BufferSize)
    <3>1. Answer(p) = NoResponse
      BY <1>0, <1>1, <1>2, <2>3
    <3> QED  BY <1>0, <1>2, <2>1, <2>3, <3>1, EmptySeq DEF NoResponse, Response
  <2> QED  BY <2>2, <2>3
<1>3. CASE Ends(line) # {}
  <2>1. PICK n \in 1..Len(line) : EndAt(line, n)
    BY <1>3, EndExists
  <2>2. /\ FirstLine(line) = SubSeq(line, 1, n - 1)
        /\ FirstLine(line) \in Seq(Byte) /\ Len(FirstLine(line)) = n - 1
    BY <2>1, FirstLineIs
  <2>3. \A m \in 1..Len(line) : EndAt(line, m) => m = n
    BY <1>0, <2>1 DEF EndAt
  <2>4. CASE n - 1 < BufferSize
    <3>1. Answer(p) = ToLine(FirstLine(line))
      <4>1. Len(FirstLine(line)) < BufferSize
        BY <2>2, <2>4
      <4> QED  BY <1>1, <1>3, <4>1
    <3>2. Answer(p) # NoResponse /\ Answer(p) \in Response
      BY <2>2, <3>1 DEF ToLine, NoResponse, Response
    <3> QED  BY <1>0, <1>3, <2>1, <2>2, <2>3, <2>4, <3>1, <3>2
  <2>5. CASE ~(n - 1 < BufferSize)
    <3>1. Len(line) >= BufferSize
      BY <1>0, <2>1, <2>5
    <3>2. Answer(p) = TooLong
      BY <1>1, <1>3, <2>2, <2>5, <3>1
    <3>3. Answer(p) # NoResponse /\ Answer(p) \in Response
      BY <3>2, EmptySeq DEF TooLong, NoResponse, Response
    <3> QED  BY <1>0, <1>3, <2>1, <2>3, <2>5, <3>1, <3>2, <3>3
  <2> QED  BY <2>4, <2>5
<1> QED  BY <1>2, <1>3

(* An answer that is certain is not changed by what is sent after it. *)
LEMMA AnswerStays ==
    ASSUME NEW p \in Seq(Byte), NEW r \in Seq(Byte), Answer(p) # NoResponse
    PROVE  Answer(p \o r) = Answer(p)
<1> DEFINE line == FromFirst(p)
           more == FromFirst(p \o r)
<1>0. /\ line \in Seq(Byte) /\ Len(line) \in Nat /\ Len(r) \in Nat
      /\ p \o r \in Seq(Byte) /\ more \in Seq(Byte) /\ Len(more) \in Nat
      /\ BufferSize \in Nat \ {0}
  BY FromFirstType, ConcatProperties, LenProperties, BufferAssumption
<1>1. Ends(line) # {} \/ Len(line) >= BufferSize
  BY <1>0, AnswerIs
<1>2. line # <<>>
  <2>1. CASE line = <<>>
    <3>1. Len(line) = 0
      BY <2>1
    <3>2. Ends(line) = {}
      BY <1>0, <3>1, LenProperties DEF Ends
    <3> QED  BY <1>0, <1>1, <3>1, <3>2
  <2> QED  BY <2>1
<1>3. more = line \o r
  BY <1>2, FromFirstOfMore
<1>4. /\ Len(more) = Len(line) + Len(r)
      /\ \A k \in 1..Len(line) : more[k] = line[k]
  <2> HIDE DEF line, more
  <2> QED  BY <1>0, <1>3, ConcatProperties
<1> HIDE DEF line
<1>5. CASE \E n \in 1..Len(line) : EndAt(line, n) /\ n - 1 < BufferSize
  <2>1. PICK n \in 1..Len(line) : EndAt(line, n) /\ n - 1 < BufferSize
    BY <1>5
  <2>2. n \in 1..Len(more) /\ EndAt(more, n)
    BY <1>0, <1>4, <2>1 DEF EndAt
  <2>3. SubSeq(more, 1, n - 1) = SubSeq(line, 1, n - 1)
    <3> DEFINE a == SubSeq(more, 1, n - 1)
               b == SubSeq(line, 1, n - 1)
    <3> HIDE DEF more
    <3>1. /\ a \in Seq(Byte) /\ Len(a) = n - 1
          /\ \A k \in 1..(n - 1) : a[k] = more[k]
      BY <1>0, <2>2, PartOf
    <3>2. /\ b \in Seq(Byte) /\ Len(b) = n - 1
          /\ \A k \in 1..(n - 1) : b[k] = line[k]
      BY <1>0, <2>1, PartOf
    <3> HIDE DEF a, b
    <3>3. ASSUME NEW k \in 1..Len(a)
          PROVE  a[k] = b[k]
      <4>1. k \in 1..(n - 1) /\ k \in 1..Len(line)
        BY <1>0, <2>1, <3>1
      <4> QED  BY <1>4, <3>1, <3>2, <4>1
    <3>4. a = b
      BY <3>1, <3>2, <3>3, SeqEqual
    <3> QED  BY <3>4 DEF a, b
  <2>4. Answer(p) = ToLine(SubSeq(line, 1, n - 1))
    BY <1>0, <2>1, AnswerIs DEF line
  <2>5. Answer(p \o r) = ToLine(SubSeq(more, 1, n - 1))
    BY <1>0, <2>1, <2>2, AnswerIs
  <2> QED  BY <2>3, <2>4, <2>5
<1>6. CASE ~\E n \in 1..Len(line) : EndAt(line, n) /\ n - 1 < BufferSize
  <2>1. \A m \in 1..Len(line) : EndAt(line, m) => m - 1 >= BufferSize
    BY <1>0, <1>6
  <2>2. Len(line) >= BufferSize
    <3>1. CASE Ends(line) # {}
      <4>1. PICK n \in 1..Len(line) : EndAt(line, n)
        BY <1>0, <3>1, EndExists
      <4> QED  BY <1>0, <2>1, <4>1
    <3> QED  BY <1>1, <3>1
  <2>3. \A m \in 1..Len(more) : EndAt(more, m) => m - 1 >= BufferSize
    <3> SUFFICES ASSUME NEW m \in 1..Len(more), EndAt(more, m), m - 1 < BufferSize
                 PROVE  FALSE
      BY <1>0
    <3> HIDE DEF more
    <3>1. m \in 1..Len(line)
      BY <1>0, <2>2
    <3>2. EndAt(line, m)
      BY <1>0, <1>4, <3>1 DEF EndAt
    <3> QED  BY <1>6, <3>1, <3>2
  <2>4. Answer(p) = TooLong
    BY <1>0, <2>1, <2>2, AnswerIs DEF line
  <2>5. Answer(p \o r) = TooLong
    <3>1. Len(more) >= BufferSize
      BY <1>0, <1>4, <2>2
    <3> QED  BY <1>0, <2>3, <3>1, AnswerIs
  <2> QED  BY <2>4, <2>5
<1> QED  BY <1>5, <1>6

LEMMA NothingIsNoAnswer ==
    /\ <<>> \in Seq(Byte) /\ FromFirst(<<>>) = <<>> /\ Answer(<<>>) = NoResponse
    /\ NoResponse \in Response /\ TooLong \in Response /\ TooLong # NoResponse
<1>1. <<>> \in Seq(Byte) /\ Len(<<>>) = 0
  BY EmptySeq
<1>2. FromFirst(<<>>) = <<>>
  <2>1. Starts(<<>>) = {}
    BY <1>1, LenProperties DEF Starts
  <2> QED  BY <2>1 DEF FromFirst
<1>3. Ends(<<>>) = {}
  BY <1>1, LenProperties DEF Ends
<1>4. Answer(<<>>) = NoResponse
  <2>1. PICK e \in Seq(Byte) : e = <<>>
    BY <1>1
  <2>2. e = FromFirst(e) /\ Ends(e) = {} /\ Len(e) < BufferSize
    BY <1>1, <1>2, <1>3, <2>1, BufferAssumption
  <2>3. Answer(e) = NoResponse
    BY <2>2, AnswerIs
  <2> QED  BY <2>1, <2>3
<1>5. NoResponse \in Response /\ TooLong \in Response /\ TooLong # NoResponse
  BY <1>1 DEF NoResponse, TooLong, Response
<1> QED  BY <1>1, <1>2, <1>4, <1>5

(* ProcessInput, given what is kept of the bytes p and as many of the bytes r *)
(* after them as the buffer has room for, answers what Answer says of both,   *)
(* or keeps what is to be kept of both.                                       *)
LEMMA ProcessedIs ==
    ASSUME NEW p \in Seq(Byte), NEW r \in Seq(Byte),
           Len(FromFirst(p)) + Len(r) <= BufferSize
    PROVE  LET input == Processed(FromFirst(p) \o r) IN
           /\ input.response = Answer(p \o r)
           /\ input.buffer \in Seq(Byte)
           /\ Len(input.buffer) <= BufferSize
           /\ input.response = NoResponse => input.buffer = FromFirst(p \o r)
<1> DEFINE bytes == FromFirst(p) \o r
           line == FromFirst(p \o r)
<1>0. /\ bytes \in Seq(Byte) /\ p \o r \in Seq(Byte)
      /\ Len(bytes) \in Nat /\ Len(bytes) <= BufferSize
      /\ BufferSize \in Nat \ {0}
  <2>1. FromFirst(p) \in Seq(Byte)
    BY FromFirstType
  <2> QED  BY <2>1, ConcatProperties, LenProperties, BufferAssumption
<1>1. FromFirst(bytes) = line
  BY FromFirstOfMore
<1>2. line \in Seq(Byte) /\ Len(line) \in Nat /\ Len(line) <= BufferSize
  <2> HIDE DEF bytes, line
  <2> QED  BY <1>0, <1>1, FromFirstType
<1> HIDE DEF bytes, line
<1>3. Processed(bytes) =
          IF Ends(line) # {}
              THEN [response |-> ToLine(FirstLine(line)), buffer |-> bytes]
              ELSE [response |-> IF Len(line) = BufferSize THEN TooLong ELSE NoResponse,
                    buffer |-> line]
  BY <1>1 DEF Processed
<1>4. CASE Ends(line) # {}
  <2>1. PICK n \in 1..Len(line) : EndAt(line, n)
    BY <1>2, <1>4, EndExists
  <2>2. n - 1 < BufferSize
    BY <1>0, <1>2
  <2>3. Answer(p \o r) = ToLine(SubSeq(line, 1, n - 1))
    BY <1>0, <1>2, <2>1, <2>2, AnswerIs DEF line
  <2>4. FirstLine(line) = SubSeq(line, 1, n - 1)
    BY <1>2, <2>1, FirstLineIs
  <2>5. Processed(bytes) = [response |-> Answer(p \o r), buffer |-> bytes]
    <3>1. Processed(bytes) = [response |-> ToLine(FirstLine(line)), buffer |-> bytes]
      BY <1>3, <1>4
    <3> QED  BY <2>3, <2>4, <3>1
  <2>6. Answer(p \o r) # NoResponse
    BY <1>0, <1>2, <1>4, AnswerIs DEF line
  <2> QED  BY <1>0, <2>5, <2>6 DEF bytes, line
<1>5. CASE Ends(line) = {} /\ Len(line) = BufferSize
  <2>1. \A m \in 1..Len(line) : ~EndAt(line, m)
    BY <1>2, <1>5, LenProperties DEF EndAt, Ends
  <2>2. Answer(p \o r) = TooLong
    BY <1>0, <1>2, <1>5, <2>1, AnswerIs DEF line
  <2>3. Processed(bytes) = [response |-> TooLong, buffer |-> line]
    BY <1>3, <1>5
  <2> QED  BY <1>0, <1>2, <2>2, <2>3 DEF bytes, line
<1>6. CASE Ends(line) = {} /\ Len(line) # BufferSize
  <2>1. Answer(p \o r) = NoResponse
    <3>1. Len(line) < BufferSize
      BY <1>0, <1>2, <1>6
    <3> QED  BY <1>0, <1>2, <1>6, <3>1, AnswerIs DEF line
  <2>2. Processed(bytes) = [response |-> NoResponse, buffer |-> line]
    BY <1>3, <1>6
  <2> QED  BY <1>0, <1>2, <2>1, <2>2 DEF bytes, line
<1> QED  BY <1>4, <1>5, <1>6

-----------------------------------------------------------------------------
(* What the status of the socket the task is at may be at each step.  On     *)
(* SOCK_CLOSE_WAIT the task is done with the socket only when it is not any  *)
(* more.                                                                     *)
StepInv ==
    /\ step \in {"receive", "send", "waitSendOk", "closing"} =>
          status[s] \in {"CLOSED"} \union Open
    /\ step = "waitClosed" => status[s] \in {"FIN_WAIT", "LAST_ACK", "CLOSED"}
    /\ step \in {"run", "report"} => ~closeWait
    /\ step = "closing" => closeWait
    /\ closeWait => status[s] \in {"CLOSE_WAIT", "LAST_ACK", "CLOSED"}

(* The buffer that is emptied when a connection is first seen was empty. *)
ConnectedInv ==
    /\ \A n \in Socket :
          /\ status[n] \in {"INIT", "LISTEN"} => buffer[n] = <<>>
          /\ status[n] = "ESTABLISHED" /\ connected[n] => buffer[n] = <<>>
    /\ step = "receive" /\ status[s] = "ESTABLISHED" => ~connected[s]

(* The chip reports the acknowledgement of the answer of this connection. *)
AcknowledgedInv == \A n \in Socket : sendOk[n] => answer[n] = "received"

(* A connection, or a socket that waits for one, that was not answered. *)
Unanswered(n) ==
    /\ status[n] \in {"INIT", "LISTEN"} \union Open
    /\ ~(n = s /\ step \in {"send", "waitSendOk"})

(* Of the bytes the client of n has sent, p was read. *)
HasRead(n, p) ==
    /\ sent[n] = p \o received[n]
    /\ Unanswered(n) => /\ answer[n] = "none"
                        /\ Answer(p) = NoResponse
                        /\ buffer[n] = FromFirst(p)
    /\ n = s /\ step = "closing" /\ status[n] = "CLOSE_WAIT" =>
          received[n] = <<>> \/ Len(p) >= BufferSize

BytesInv == \A n \in Socket : \E p \in Seq(Byte) : HasRead(n, p)

AnswerInv == At("send") => /\ response = Answer(sent[s])
                           /\ response # NoResponse
                           /\ answer[s] = "none"

IInv == /\ TypeOK
        /\ StepInv
        /\ ConnectedInv
        /\ AcknowledgedInv
        /\ BytesInv
        /\ AnswerInv

-----------------------------------------------------------------------------
Statuses == {"CLOSED", "INIT", "LISTEN", "ESTABLISHED", "CLOSE_WAIT", "FIN_WAIT",
             "LAST_ACK"}

LEMMA Typing ==
    ASSUME TypeOK
    PROVE  /\ s \in Socket /\ turn \in 1..Len(Sockets) /\ Len(Sockets) \in Nat \ {0}
           /\ DOMAIN Sockets = 1..Len(Sockets)
           /\ status \in [Socket -> Statuses]
           /\ connected \in [Socket -> BOOLEAN] /\ sendOk \in [Socket -> BOOLEAN]
           /\ received \in [Socket -> Seq(Byte)] /\ buffer \in [Socket -> Seq(Byte)]
           /\ sent \in [Socket -> Seq(Byte)]
           /\ answer \in [Socket -> {"none", "sent", "received"}]
           /\ response \in Response /\ closeWait \in BOOLEAN /\ step \in Steps
           /\ \A n \in Socket : Len(buffer[n]) <= BufferSize
           /\ NoResponse \in Response
<1>1. Len(Sockets) \in Nat \ {0} /\ DOMAIN Sockets = 1..Len(Sockets)
  BY SocketsAssumption, LenProperties, EmptySeq
<1>2. s \in Socket
  BY DEF TypeOK, s, Socket
<1> QED  BY <1>1, <1>2, NothingIsNoAnswer DEF TypeOK, Statuses, Response

(* Where the task goes when it is done with a socket, or with receiving. *)
LEMMA NextSocketSteps ==
    ASSUME TypeOK, NextSocket
    PROVE  /\ turn' \in DOMAIN Sockets /\ step' \in {"run", "report"}
           /\ ~closeWait' /\ closeWait' \in BOOLEAN /\ response' = NoResponse
<1>1. turn \in 1..Len(Sockets) /\ DOMAIN Sockets = 1..Len(Sockets)
      /\ Len(Sockets) \in Nat
  BY Typing
<1>2. turn' \in DOMAIN Sockets
  BY <1>1 DEF NextSocket
<1> QED  BY <1>2 DEF NextSocket

LEMMA AfterReceiveSteps ==
    ASSUME TypeOK, AfterReceive
    PROVE  /\ turn' \in DOMAIN Sockets /\ closeWait' \in BOOLEAN
           /\ response' \in Response
           /\ closeWait => turn' = turn /\ step' = "closing" /\ closeWait'
           /\ ~closeWait => step' \in {"run", "report"} /\ ~closeWait'
<1>1. CASE closeWait
  BY <1>1, Typing DEF AfterReceive, TypeOK
<1>2. CASE ~closeWait
  <2>1. NextSocket
    BY <1>2 DEF AfterReceive
  <2> QED  BY <1>2, <2>1, NextSocketSteps, NothingIsNoAnswer
<1> QED  BY <1>1, <1>2

(* What Receive reads, and what it makes of it. *)
LEMMA ReceiveReads ==
    ASSUME IInv, Receive, NEW p \in Seq(Byte), HasRead(s, p)
    PROVE  \E r, rest \in Seq(Byte) :
              /\ received' = [received EXCEPT ![s] = rest]
              /\ sent[s] = (p \o r) \o rest
              /\ rest = <<>> \/ Len(p \o r) >= BufferSize
              /\ \E kept \in Seq(Byte) : /\ Len(kept) <= BufferSize
                                         /\ buffer' = [buffer EXCEPT ![s] = kept]
                                         /\ Answer(p \o r) = NoResponse =>
                                               kept = FromFirst(p \o r)
              /\ Answer(p \o r) # NoResponse =>
                    /\ response' = Answer(p \o r) /\ step' = "send"
                    /\ UNCHANGED <<turn, closeWait>>
              /\ Answer(p \o r) = NoResponse => AfterReceive
              /\ UNCHANGED <<status, connected, sendOk, sent, answer>>
              /\ answer[s] = "none"
<1>0. /\ TypeOK /\ s \in Socket /\ received[s] \in Seq(Byte)
      /\ received[s] # <<>> /\ Len(received[s]) \in Nat \ {0}
      /\ status[s] \in Open /\ step = "receive" /\ BufferSize \in Nat \ {0}
  <2>1. TypeOK /\ s \in Socket /\ received[s] \in Seq(Byte)
    BY Typing DEF IInv
  <2> QED  BY <2>1, EmptySeq, BufferAssumption DEF Receive, At
<1>1. /\ answer[s] = "none" /\ Answer(p) = NoResponse /\ buffer[s] = FromFirst(p)
      /\ sent[s] = p \o received[s]
  BY <1>0 DEF HasRead, Unanswered
<1>2. Len(buffer[s]) \in Nat /\ Len(buffer[s]) < BufferSize /\ Len(p) \in Nat
      /\ Len(buffer[s]) <= Len(p)
  BY <1>1, FromFirstType, AnswerIs, LenProperties
<1> DEFINE k == IF Len(received[s]) < Available(s)
                    THEN Len(received[s]) ELSE Available(s)
           r == SubSeq(received[s], 1, k)
           rest == SubSeq(received[s], k + 1, Len(received[s]))
           input == Processed(buffer[s] \o r)
<1>3. /\ k \in 1..Len(received[s]) /\ Len(buffer[s]) + k <= BufferSize
      /\ k < Len(received[s]) => Len(buffer[s]) + k = BufferSize
  <2> DEFINE l == Len(received[s])
             f == Len(buffer[s])
  <2>1. l \in Nat \ {0} /\ f \in Nat /\ f < BufferSize /\ BufferSize \in Nat
    BY <1>0, <1>2
  <2>2. k = IF l < BufferSize - f THEN l ELSE BufferSize - f
    BY DEF Available
  <2> HIDE DEF l, f, k
  <2>3. k \in 1..l /\ f + k <= BufferSize /\ (k < l => f + k = BufferSize)
    BY <2>1, <2>2
  <2> QED  BY <2>3 DEF l, f
<1>4. /\ received' = [received EXCEPT ![s] = SubSeq(@, k + 1, Len(@))]
      /\ buffer' = [buffer EXCEPT ![s] = IF k = 0 THEN @ ELSE input.buffer]
      /\ LET result == IF k = 0 THEN TooLong ELSE input.response
         IN IF result = NoResponse
              THEN AfterReceive
              ELSE /\ response' = result
                   /\ step' = "send"
                   /\ UNCHANGED <<turn, closeWait>>
      /\ UNCHANGED <<status, connected, sendOk, sent, answer>>
  BY DEF Receive, clientVars
<1> HIDE DEF k
<1>5. /\ r \in Seq(Byte) /\ Len(r) = k
      /\ rest \in Seq(Byte) /\ Len(rest) = Len(received[s]) - k
      /\ received[s] = r \o rest
  <2> DEFINE b == received[s]
  <2>1. b \in Seq(Byte) /\ k \in 1..Len(b) /\ Len(b) \in Nat
    BY <1>0, <1>3
  <2> HIDE DEF b
  <2>2. /\ SubSeq(b, 1, k) \in Seq(Byte) /\ Len(SubSeq(b, 1, k)) = k
        /\ \A i \in 1..k : SubSeq(b, 1, k)[i] = b[i]
    BY <2>1, PartOf
  <2>3. /\ SubSeq(b, k + 1, Len(b)) \in Seq(Byte)
        /\ Len(SubSeq(b, k + 1, Len(b))) = Len(b) - k
        /\ \A i \in 1..(Len(b) - k) : SubSeq(b, k + 1, Len(b))[i] = b[k + i]
    <3> DEFINE l == k + 1
    <3>1. l \in 1..(Len(b) + 1) /\ Len(b) \in 0..Len(b) /\ l <= Len(b) + 1
          /\ Len(b) - l + 1 = Len(b) - k
      BY <2>1
    <3>2. \A i \in 1..(Len(b) - k) : l + i - 1 = k + i
      BY <2>1
    <3> HIDE DEF l
    <3>3. /\ SubSeq(b, l, Len(b)) \in Seq(Byte)
          /\ Len(SubSeq(b, l, Len(b))) = Len(b) - l + 1
          /\ \A i \in 1..(Len(b) - l + 1) : SubSeq(b, l, Len(b))[i] = b[l + i - 1]
      BY <2>1, <3>1, PartOf
    <3>4. \A i \in 1..(Len(b) - k) : SubSeq(b, l, Len(b))[i] = b[k + i]
      BY <3>1, <3>2, <3>3
    <3> QED  BY <3>1, <3>3, <3>4 DEF l
  <2>4. b = SubSeq(b, 1, k) \o SubSeq(b, k + 1, Len(b))
    <3> DEFINE x == SubSeq(b, 1, k)
               y == SubSeq(b, k + 1, Len(b))
    <3>1. /\ x \in Seq(Byte) /\ y \in Seq(Byte) /\ Len(x) = k /\ Len(y) = Len(b) - k
          /\ \A i \in 1..k : x[i] = b[i]
          /\ \A i \in 1..(Len(b) - k) : y[i] = b[k + i]
      BY <2>2, <2>3
    <3> HIDE DEF x, y
    <3>2. /\ x \o y \in Seq(Byte) /\ Len(x \o y) = Len(b)
          /\ \A i \in 1..Len(b) : (x \o y)[i] = IF i <= k THEN x[i] ELSE y[i - k]
      BY <2>1, <3>1, ConcatProperties
    <3>3. ASSUME NEW i \in 1..Len(b)
          PROVE  b[i] = (x \o y)[i]
      <4>1. CASE i <= k
        BY <2>1, <3>1, <3>2, <4>1
      <4>2. CASE ~(i <= k)
        <5>1. i - k \in 1..(Len(b) - k) /\ k + (i - k) = i
          BY <2>1, <4>2
        <5> QED  BY <3>1, <3>2, <4>2, <5>1
      <4> QED  BY <4>1, <4>2
    <3>4. b = x \o y
      BY <2>1, <3>2, <3>3, SeqEqual
    <3> QED  BY <3>4 DEF x, y
  <2> QED  BY <2>2, <2>3, <2>4 DEF b
<1>6. received' = [received EXCEPT ![s] = rest]
  BY <1>4
<1>7. /\ input.response = Answer(p \o r)
      /\ input.buffer \in Seq(Byte) /\ Len(input.buffer) <= BufferSize
      /\ input.response = NoResponse => input.buffer = FromFirst(p \o r)
  <2> HIDE DEF r
  <2>1. Len(FromFirst(p)) + Len(r) <= BufferSize
    BY <1>1, <1>3, <1>5
  <2> QED  BY <1>1, <1>5, <2>1, ProcessedIs
<1> HIDE DEF input, r, rest
<1>8. k # 0
  BY <1>3
<1>9. sent[s] = (p \o r) \o rest
  <2>1. (p \o r) \o rest = p \o (r \o rest)
    BY <1>5, ConcatAssociative
  <2> QED  BY <1>1, <1>5, <2>1
<1>10. rest = <<>> \/ Len(p \o r) >= BufferSize
  <2>1. Len(p \o r) = Len(p) + k
    BY <1>5, ConcatProperties
  <2>2. CASE k < Len(received[s])
    BY <1>2, <1>3, <2>1, <2>2, <1>0
  <2>3. CASE ~(k < Len(received[s]))
    <3>1. Len(rest) = 0
      BY <1>0, <1>3, <1>5, <2>3
    <3> QED  BY <1>5, <3>1, EmptySeq
  <2> QED  BY <2>2, <2>3
<1>11. buffer' = [buffer EXCEPT ![s] = input.buffer]
  BY <1>4, <1>8
<1>12. /\ Answer(p \o r) # NoResponse =>
              /\ response' = Answer(p \o r) /\ step' = "send"
              /\ UNCHANGED <<turn, closeWait>>
       /\ Answer(p \o r) = NoResponse => AfterReceive
  BY <1>4, <1>7, <1>8
<1>13. \E kept \in Seq(Byte) : /\ Len(kept) <= BufferSize
                               /\ buffer' = [buffer EXCEPT ![s] = kept]
                               /\ Answer(p \o r) = NoResponse =>
                                     kept = FromFirst(p \o r)
  BY <1>7, <1>11
<1> QED  BY <1>1, <1>4, <1>5, <1>6, <1>9, <1>10, <1>12, <1>13

-----------------------------------------------------------------------------
(* Type correctness, in the three parts the actions change separately. *)
ChipTypes ==
    /\ status \in [Socket -> Statuses]
    /\ connected \in [Socket -> BOOLEAN]
    /\ sendOk \in [Socket -> BOOLEAN]

ByteTypes ==
    /\ received \in [Socket -> Seq(Byte)]
    /\ buffer \in [Socket -> Seq(Byte)]
    /\ \A n \in Socket : Len(buffer[n]) <= BufferSize
    /\ sent \in [Socket -> Seq(Byte)]
    /\ answer \in [Socket -> {"none", "sent", "received"}]

TaskTypes ==
    /\ turn \in DOMAIN Sockets
    /\ step \in Steps
    /\ closeWait \in BOOLEAN
    /\ response \in Response

LEMMA Parts == TypeOK <=> ChipTypes /\ ByteTypes /\ TaskTypes
  BY DEF TypeOK, ChipTypes, ByteTypes, TaskTypes, Statuses, Response

LEMMA ChipTypesStep ==
    ASSUME TypeOK, [Next]_vars
    PROVE  ChipTypes'
<1>0. s \in Socket /\ ChipTypes
  BY Typing DEF ChipTypes
<1>1. CASE UNCHANGED <<status, connected, sendOk>>
  BY <1>0, <1>1 DEF ChipTypes
<1>2. CASE Close
  BY <1>0, <1>2 DEF Close, ChipTypes, Statuses
<1>3. CASE Disconnect /\ UNCHANGED connected
                      /\ (sendOk' = [sendOk EXCEPT ![s] = FALSE] \/ UNCHANGED sendOk)
  <2>1. status' \in [Socket -> Statuses]
    BY <1>0, <1>3 DEF Disconnect, ChipTypes, Statuses
  <2> QED  BY <1>0, <1>3, <2>1 DEF ChipTypes
<1>4. CASE RunEstablished
  BY <1>0, <1>4 DEF RunEstablished, ChipTypes
<1>5. CASE RunInit
  BY <1>0, <1>2, <1>5 DEF RunInit, ChipTypes, Statuses
<1>6. CASE RunClosed
  BY <1>0, <1>6 DEF RunClosed, ChipTypes, Statuses
<1>7. CASE RunCloseWait \/ RunOther \/ ReceiveNothing \/ Receive \/ Send
           \/ Disconnected \/ Report \/ UNCHANGED vars
  BY <1>1, <1>7 DEF RunCloseWait, RunOther, ReceiveNothing, Receive, Send,
     Disconnected, Report, chipVars, vars
<1>8. CASE ReceiveFails \/ SendFails \/ SendTimesOut
  BY <1>2, <1>8 DEF ReceiveFails, SendFails, SendTimesOut
<1>9. CASE SendOk
  BY <1>3, <1>9 DEF SendOk
<1>10. CASE CloseWait
  BY <1>1, <1>3, <1>10 DEF CloseWait
<1>11. ASSUME NEW n \in Socket,
              \/ Connect(n) \/ (\E byte \in Byte : ClientSends(n, byte))
              \/ ClientCloses(n) \/ ClientAcknowledges(n)
              \/ ClientResets(n) \/ ConnectionEnds(n)
       PROVE  ChipTypes'
  <2>1. CASE Connect(n)
    BY <1>0, <1>11, <2>1 DEF Connect, ChipTypes, Statuses
  <2>2. CASE \E byte \in Byte : ClientSends(n, byte)
    BY <1>1, <2>2 DEF ClientSends
  <2>3. CASE ClientCloses(n)
    BY <1>0, <1>11, <2>3 DEF ClientCloses, ChipTypes, Statuses
  <2>4. CASE ClientAcknowledges(n)
    BY <1>0, <1>11, <2>4 DEF ClientAcknowledges, ChipTypes
  <2>5. CASE ClientResets(n) \/ ConnectionEnds(n)
    BY <1>0, <1>11, <2>5 DEF ClientResets, ConnectionEnds, ChipTypes, Statuses
  <2> QED  BY <1>11, <2>1, <2>2, <2>3, <2>4, <2>5
<1> QED  BY <1>4, <1>5, <1>6, <1>7, <1>8, <1>9, <1>10, <1>11
         DEF Next, TcpCommandTask, Run, Network

LEMMA ByteTypesStep ==
    ASSUME IInv, [Next]_vars
    PROVE  ByteTypes'
<1>0. TypeOK /\ s \in Socket /\ ByteTypes
  BY Typing DEF ByteTypes, IInv
<1>e. <<>> \in Seq(Byte) /\ Len(<<>>) = 0 /\ BufferSize \in Nat \ {0}
  BY EmptySeq, BufferAssumption
<1>f. ASSUME Forget \/ UNCHANGED buffer
      PROVE  buffer' \in [Socket -> Seq(Byte)]
             /\ \A n \in Socket : Len(buffer'[n]) <= BufferSize
  <2>1. buffer \in [Socket -> Seq(Byte)]
        /\ \A n \in Socket : Len(buffer[n]) <= BufferSize
    BY <1>0 DEF ByteTypes
  <2>2. CASE UNCHANGED buffer
    BY <2>1, <2>2
  <2>3. CASE buffer' = [buffer EXCEPT ![s] = <<>>]
    <3>0. PICK e \in Seq(Byte) : e = <<>>
      BY <1>e
    <3>1. Len(e) <= BufferSize
      BY <1>e, <3>0
    <3>2. buffer' = [buffer EXCEPT ![s] = e]
      BY <2>3, <3>0
    <3>3. buffer' \in [Socket -> Seq(Byte)]
      BY <1>0, <2>1, <3>2
    <3>4. ASSUME NEW n \in Socket
          PROVE  Len(buffer'[n]) <= BufferSize
      BY <1>0, <2>1, <3>1, <3>2
    <3> QED  BY <3>3, <3>4
  <2> QED  BY <1>f, <2>2, <2>3 DEF Forget
<1>1. CASE UNCHANGED <<received, clientVars>> /\ (Forget \/ UNCHANGED buffer)
  <2>1. UNCHANGED <<received, sent, answer>>
    BY <1>1 DEF clientVars
  <2> QED  BY <1>0, <1>1, <1>f, <2>1 DEF ByteTypes
<1>2. CASE RunEstablished \/ RunCloseWait \/ RunInit \/ RunOther \/ Report
           \/ ReceiveNothing \/ ReceiveFails \/ SendFails \/ SendOk
           \/ SendTimesOut \/ Disconnected \/ CloseWait
  BY <1>1, <1>2 DEF RunEstablished, RunCloseWait, RunInit, RunOther, Report,
     ReceiveNothing, ReceiveFails, SendFails, SendOk, SendTimesOut,
     Disconnected, CloseWait, chipVars, clientVars
<1>3. CASE RunClosed
  <2>1. /\ received' = [received EXCEPT ![s] = <<>>]
        /\ sent' = [sent EXCEPT ![s] = <<>>]
        /\ answer' = [answer EXCEPT ![s] = "none"] /\ Forget
    BY <1>3 DEF RunClosed
  <2> QED  BY <1>0, <1>e, <1>f, <2>1 DEF ByteTypes
<1>4. CASE Receive
  <2>1. PICK p \in Seq(Byte) : HasRead(s, p)
    BY <1>0 DEF IInv, BytesInv
  <2>2. PICK r, rest \in Seq(Byte) :
              /\ received' = [received EXCEPT ![s] = rest]
              /\ \E kept \in Seq(Byte) : /\ Len(kept) <= BufferSize
                                         /\ buffer' = [buffer EXCEPT ![s] = kept]
              /\ UNCHANGED <<sent, answer>>
    BY <1>4, <2>1, ReceiveReads
  <2>3. PICK kept \in Seq(Byte) : /\ Len(kept) <= BufferSize
                                  /\ buffer' = [buffer EXCEPT ![s] = kept]
    BY <2>2
  <2> QED  BY <1>0, <2>2, <2>3 DEF ByteTypes
<1>5. CASE Send
  BY <1>0, <1>5 DEF Send, ByteTypes, chipVars
<1>6. CASE UNCHANGED vars
  BY <1>1, <1>6 DEF vars, chipVars
<1>7. ASSUME NEW n \in Socket,
              \/ Connect(n) \/ (\E byte \in Byte : ClientSends(n, byte))
              \/ ClientCloses(n) \/ ClientAcknowledges(n)
              \/ ClientResets(n) \/ ConnectionEnds(n)
       PROVE  ByteTypes'
  <2>1. CASE Connect(n) \/ ClientCloses(n) \/ ClientResets(n) \/ ConnectionEnds(n)
    BY <1>1, <2>1 DEF Connect, ClientCloses, ClientResets, ConnectionEnds
  <2>2. CASE \E byte \in Byte : ClientSends(n, byte)
    <3>1. PICK byte \in Byte : ClientSends(n, byte)
      BY <2>2
    <3>2. /\ received[n] \in Seq(Byte) /\ sent[n] \in Seq(Byte)
          /\ sent' = [sent EXCEPT ![n] = Append(sent[n], byte)]
          /\ received' = [received EXCEPT ![n] = Append(received[n], byte)]
          /\ UNCHANGED <<buffer, answer>>
      BY <1>0, <1>7, <3>1 DEF ClientSends, ByteTypes
    <3>3. Append(sent[n], byte) \in Seq(Byte) /\ Append(received[n], byte) \in Seq(Byte)
      BY <3>2, AppendProperties
    <3>4. sent' \in [Socket -> Seq(Byte)] /\ received' \in [Socket -> Seq(Byte)]
      BY <1>0, <3>2, <3>3 DEF ByteTypes
    <3> QED  BY <1>0, <3>2, <3>4 DEF ByteTypes
  <2>3. CASE ClientAcknowledges(n)
    BY <1>0, <2>3 DEF ClientAcknowledges, ByteTypes
  <2> QED  BY <1>7, <2>1, <2>2, <2>3
<1> QED  BY <1>2, <1>3, <1>4, <1>5, <1>6, <1>7
         DEF Next, TcpCommandTask, Run, Network

LEMMA TaskTypesStep ==
    ASSUME IInv, [Next]_vars
    PROVE  TaskTypes'
<1>0. TypeOK /\ s \in Socket /\ TaskTypes /\ NoResponse \in Response
  BY Typing DEF TaskTypes, IInv, TypeOK
<1>1. CASE NextSocket
  BY <1>0, <1>1, NextSocketSteps DEF TaskTypes, Steps
<1>2. CASE AfterReceive
  BY <1>0, <1>2, AfterReceiveSteps DEF TaskTypes, Steps
<1>3. CASE UNCHANGED taskVars
  BY <1>0, <1>3 DEF TaskTypes, taskVars
<1>4. CASE RunEstablished \/ RunCloseWait \/ Send \/ SendOk
  BY <1>0, <1>4 DEF RunEstablished, RunCloseWait, Send, SendOk, Disconnect,
     TaskTypes, Steps
<1>5. CASE RunInit \/ RunClosed \/ RunOther
  BY <1>1, <1>5 DEF RunInit, RunClosed, RunOther
<1>6. CASE ReceiveNothing \/ ReceiveFails \/ SendFails \/ SendTimesOut
           \/ Disconnected
  BY <1>2, <1>6 DEF ReceiveNothing, ReceiveFails, SendFails, SendTimesOut,
     Disconnected
<1>7. CASE Receive
  <2>1. PICK p \in Seq(Byte) : HasRead(s, p)
    BY <1>0 DEF IInv, BytesInv
  <2>2. PICK r, rest \in Seq(Byte) :
              /\ Answer(p \o r) # NoResponse =>
                    /\ response' = Answer(p \o r) /\ step' = "send"
                    /\ UNCHANGED <<turn, closeWait>>
              /\ Answer(p \o r) = NoResponse => AfterReceive
    BY <1>7, <2>1, ReceiveReads
  <2>3. Answer(p \o r) \in Response
    <3>1. p \o r \in Seq(Byte) /\ FromFirst(p \o r) \in Seq(Byte)
      BY ConcatProperties, FromFirstType
    <3> QED  BY <3>1, AnswerIs
  <2> QED  BY <1>0, <1>2, <2>2, <2>3 DEF TaskTypes, Steps
<1>8. CASE CloseWait
  BY <1>0, <1>1, <1>8 DEF CloseWait, Disconnect, TaskTypes, Steps
<1>9. CASE Report
  <2>1. 1 \in DOMAIN Sockets
    BY <1>0, Typing
  <2> QED  BY <1>0, <1>9, <2>1 DEF Report, TaskTypes, Steps
<1>10. CASE Network \/ UNCHANGED vars
  BY <1>3, <1>10 DEF Network, Connect, ClientSends, ClientCloses,
     ClientAcknowledges, ClientResets, ConnectionEnds, vars
<1> QED  BY <1>4, <1>5, <1>6, <1>7, <1>8, <1>9, <1>10
         DEF Next, TcpCommandTask, Run

-----------------------------------------------------------------------------
(* The steps of the task: they touch one socket, and turn to another one   *)
(* only at its end of Run.                                                 *)
SameFor(n) ==
    /\ status'[n] = status[n] /\ connected'[n] = connected[n]
    /\ sendOk'[n] = sendOk[n] /\ received'[n] = received[n]
    /\ buffer'[n] = buffer[n] /\ sent'[n] = sent[n] /\ answer'[n] = answer[n]

LEMMA TaskTouchesOne ==
    ASSUME TypeOK, TcpCommandTask
    PROVE  /\ \A n \in Socket : n # s => SameFor(n)
           /\ turn' = turn \/ step' \in {"run", "report"}
<1>0. /\ status \in [Socket -> Statuses]
      /\ connected \in [Socket -> BOOLEAN] /\ sendOk \in [Socket -> BOOLEAN]
      /\ received \in [Socket -> Seq(Byte)] /\ buffer \in [Socket -> Seq(Byte)]
      /\ sent \in [Socket -> Seq(Byte)]
      /\ answer \in [Socket -> {"none", "sent", "received"}] /\ s \in Socket
  BY Typing
<1>a. AfterReceive => turn' = turn \/ step' \in {"run", "report"}
  BY AfterReceiveSteps
<1>b. NextSocket => turn' = turn \/ step' \in {"run", "report"}
  BY NextSocketSteps
<1>1. CASE RunEstablished
  BY <1>0, <1>1 DEF RunEstablished, Forget, SameFor, clientVars
<1>2. CASE RunCloseWait \/ ReceiveNothing \/ Report
  BY <1>a, <1>2 DEF RunCloseWait, ReceiveNothing, Report, SameFor, chipVars,
     clientVars
<1>3. CASE RunInit
  BY <1>0, <1>b, <1>3 DEF RunInit, Close, SameFor, clientVars
<1>4. CASE RunClosed
  BY <1>0, <1>b, <1>4 DEF RunClosed, Forget, SameFor
<1>5. CASE RunOther
  BY <1>b, <1>5 DEF RunOther, SameFor, chipVars, clientVars
<1>6. CASE ReceiveFails \/ SendFails \/ SendTimesOut
  BY <1>0, <1>a, <1>6 DEF ReceiveFails, SendFails, SendTimesOut, Close, Forget,
     SameFor, clientVars
<1>7. CASE Receive
  <2>1. turn' = turn \/ step' \in {"run", "report"}
    BY <1>a, <1>7 DEF Receive
  <2> QED  BY <1>0, <1>7, <2>1 DEF Receive, SameFor, clientVars
<1>8. CASE Send
  BY <1>0, <1>8 DEF Send, SameFor, chipVars
<1>9. CASE SendOk
  BY <1>0, <1>9 DEF SendOk, Disconnect, SameFor, clientVars
<1>10. CASE Disconnected
  BY <1>0, <1>a, <1>10 DEF Disconnected, Forget, SameFor, chipVars, clientVars
<1>11. CASE CloseWait
  BY <1>0, <1>b, <1>11 DEF CloseWait, Disconnect, SameFor, clientVars
<1> QED  BY <1>1, <1>2, <1>3, <1>4, <1>5, <1>6, <1>7, <1>8, <1>9, <1>10, <1>11
         DEF TcpCommandTask, Run

(* The steps of a client: they touch its socket, and nothing of the task's. *)
ClientStep(n) ==
    \/ Connect(n) \/ (\E byte \in Byte : ClientSends(n, byte))
    \/ ClientCloses(n) \/ ClientAcknowledges(n)
    \/ ClientResets(n) \/ ConnectionEnds(n)

LEMMA ClientTouchesOne ==
    ASSUME TypeOK, NEW n \in Socket, ClientStep(n)
    PROVE  /\ \A m \in Socket : m # n => SameFor(m)
           /\ UNCHANGED taskVars /\ buffer'[n] = buffer[n] /\ s' = s
<1>0. /\ status \in [Socket -> Statuses]
      /\ connected \in [Socket -> BOOLEAN] /\ sendOk \in [Socket -> BOOLEAN]
      /\ received \in [Socket -> Seq(Byte)] /\ buffer \in [Socket -> Seq(Byte)]
      /\ sent \in [Socket -> Seq(Byte)]
      /\ answer \in [Socket -> {"none", "sent", "received"}]
  BY Typing
<1>1. UNCHANGED taskVars /\ UNCHANGED buffer
  BY DEF ClientStep, Connect, ClientSends, ClientCloses, ClientAcknowledges,
     ClientResets, ConnectionEnds
<1>2. s' = s
  BY <1>1 DEF s, taskVars
<1>3. CASE Connect(n) \/ ClientCloses(n) \/ ClientResets(n) \/ ConnectionEnds(n)
  BY <1>0, <1>1, <1>2, <1>3 DEF Connect, ClientCloses, ClientResets,
     ConnectionEnds, SameFor, clientVars
<1>4. CASE \E byte \in Byte : ClientSends(n, byte)
  BY <1>0, <1>1, <1>2, <1>4 DEF ClientSends, SameFor
<1>5. CASE ClientAcknowledges(n)
  BY <1>0, <1>1, <1>2, <1>5 DEF ClientAcknowledges, SameFor
<1> QED  BY <1>3, <1>4, <1>5 DEF ClientStep

LEMMA NextSteps ==
    [Next]_vars <=> \/ TcpCommandTask
                    \/ \E n \in Socket : ClientStep(n)
                    \/ UNCHANGED vars
  BY DEF Next, Network, ClientStep

-----------------------------------------------------------------------------
(* What a step of the task makes of the socket it is at, status by status. *)
LEMMA StepInvStep ==
    ASSUME IInv, [Next]_vars
    PROVE  StepInv'
<1> USE DEF Open
<1>0. /\ TypeOK /\ StepInv /\ s \in Socket /\ status \in [Socket -> Statuses]
      /\ closeWait \in BOOLEAN
  BY Typing DEF IInv
<1>s. turn' = turn => s' = s
  BY DEF s
<1>u. CASE UNCHANGED <<status, taskVars>>
  BY <1>0, <1>s, <1>u DEF StepInv, taskVars
<1>n. ASSUME NextSocket
      PROVE  StepInv'
  <2>1. step' \in {"run", "report"} /\ ~closeWait'
    BY <1>0, <1>n, NextSocketSteps
  <2> QED  BY <2>1 DEF StepInv
<1>a. ASSUME AfterReceive, closeWait => status'[s] \in {"CLOSE_WAIT", "CLOSED"}
      PROVE  StepInv'
  <2>1. CASE closeWait
    <3>1. turn' = turn /\ step' = "closing" /\ closeWait' /\ s' = s
      BY <1>0, <1>a, <1>s, <2>1, AfterReceiveSteps
    <3>2. status'[s'] \in {"CLOSE_WAIT", "CLOSED"}
      BY <1>a, <2>1, <3>1
    <3> QED  BY <3>1, <3>2 DEF StepInv
  <2>2. CASE ~closeWait
    <3>1. step' \in {"run", "report"} /\ ~closeWait'
      BY <1>0, <1>a, <2>2, AfterReceiveSteps
    <3> QED  BY <3>1 DEF StepInv
  <2> QED  BY <2>1, <2>2
<1>c. Close => status'[s] = "CLOSED"
  BY <1>0 DEF Close
<1>1. CASE RunEstablished
  <2>1. /\ step = "run" /\ step' = "receive" /\ status'[s] = "ESTABLISHED"
        /\ s' = s /\ ~closeWait /\ closeWait' = closeWait
    BY <1>1, <1>s DEF RunEstablished, At, IInv, StepInv
  <2> QED  BY <2>1 DEF StepInv
<1>2. CASE RunCloseWait
  <2>1. /\ step' \in {"receive", "closing"} /\ status'[s] = "CLOSE_WAIT"
        /\ s' = s /\ closeWait'
    BY <1>2, <1>s DEF RunCloseWait, chipVars
  <2> QED  BY <2>1 DEF StepInv
<1>3. CASE RunInit \/ RunClosed \/ RunOther
  BY <1>n, <1>3 DEF RunInit, RunClosed, RunOther
<1>4. CASE ReceiveNothing
  <2>1. closeWait => status'[s] \in {"CLOSE_WAIT", "CLOSED"}
    BY <1>0, <1>4 DEF ReceiveNothing, At, chipVars, StepInv
  <2> QED  BY <1>4, <1>a, <2>1 DEF ReceiveNothing
<1>5. CASE ReceiveFails \/ SendFails \/ SendTimesOut
  <2>1. Close /\ AfterReceive
    BY <1>5 DEF ReceiveFails, SendFails, SendTimesOut
  <2> QED  BY <1>a, <1>c, <2>1
<1>6. CASE Receive
  <2>1. PICK p \in Seq(Byte) : HasRead(s, p)
    BY <1>0 DEF IInv, BytesInv
  <2>2. PICK r, rest \in Seq(Byte) :
              /\ Answer(p \o r) # NoResponse =>
                    /\ response' = Answer(p \o r) /\ step' = "send"
                    /\ UNCHANGED <<turn, closeWait>>
              /\ Answer(p \o r) = NoResponse => AfterReceive
    BY <1>6, <2>1, ReceiveReads
  <2>3. /\ step = "receive" /\ status' = status
        /\ status[s] \in {"ESTABLISHED", "CLOSE_WAIT"}
        /\ closeWait => status'[s] \in {"CLOSE_WAIT", "CLOSED"}
    BY <1>0, <1>6 DEF Receive, At, StepInv
  <2>4. CASE Answer(p \o r) = NoResponse
    BY <1>a, <2>2, <2>3, <2>4
  <2>5. CASE Answer(p \o r) # NoResponse
    <3>1. step' = "send" /\ s' = s /\ closeWait' = closeWait
      BY <1>s, <2>2, <2>5
    <3> QED  BY <2>3, <3>1 DEF StepInv
  <2> QED  BY <2>4, <2>5
<1>7. CASE Send
  <2>1. /\ step = "send" /\ step' = "waitSendOk" /\ s' = s /\ status' = status
        /\ closeWait' = closeWait
    BY <1>7, <1>s DEF Send, At, chipVars
  <2> QED  BY <1>0, <2>1 DEF StepInv
<1>8. CASE SendOk
  <2>1. /\ step = "waitSendOk" /\ step' = "waitClosed" /\ s' = s
        /\ closeWait' = closeWait
        /\ status'[s] = CASE status[s] = "ESTABLISHED" -> "FIN_WAIT"
                          [] status[s] = "CLOSE_WAIT" -> "LAST_ACK"
                          [] OTHER -> status[s]
    BY <1>0, <1>8, <1>s DEF SendOk, Disconnect, At
  <2>2. /\ status[s] \in {"CLOSED", "ESTABLISHED", "CLOSE_WAIT"}
        /\ closeWait => status[s] \in {"CLOSE_WAIT", "CLOSED"}
    BY <1>0, <2>1 DEF StepInv
  <2>3. /\ status'[s] \in {"FIN_WAIT", "LAST_ACK", "CLOSED"}
        /\ closeWait => status'[s] \in {"LAST_ACK", "CLOSED"}
    BY <2>1, <2>2
  <2> QED  BY <2>1, <2>3 DEF StepInv
<1>9. CASE Disconnected
  <2>1. AfterReceive /\ status'[s] = "CLOSED"
    BY <1>9 DEF Disconnected, chipVars
  <2> QED  BY <1>a, <2>1
<1>10. CASE CloseWait
  <2>1. CASE status[s] = "CLOSE_WAIT"
    <3>1. step' = "waitClosed" /\ s' = s /\ ~closeWait' /\ status'[s] = "LAST_ACK"
      BY <1>0, <1>10, <1>s, <2>1 DEF CloseWait, Disconnect
    <3> QED  BY <3>1 DEF StepInv
  <2>2. CASE status[s] # "CLOSE_WAIT"
    BY <1>n, <1>10, <2>2 DEF CloseWait
  <2> QED  BY <2>1, <2>2
<1>11. CASE Report
  <2>1. step' = "run" /\ ~closeWait'
    BY <1>0, <1>11 DEF Report, At, StepInv
  <2> QED  BY <2>1 DEF StepInv
<1>12. ASSUME NEW n \in Socket, ClientStep(n)
       PROVE  StepInv'
  <2>1. UNCHANGED taskVars /\ s' = s /\ (n # s => status'[s] = status[s])
    BY <1>0, <1>12, ClientTouchesOne DEF SameFor
  <2>2. CASE n = s /\ status'[s] # status[s]
    <3>1. \/ status[s] = "LISTEN" /\ status'[s] = "ESTABLISHED"
          \/ status[s] = "ESTABLISHED" /\ status'[s] = "CLOSE_WAIT"
          \/ status'[s] = "CLOSED"
      BY <1>0, <1>12, <2>2 DEF ClientStep, Connect, ClientSends, ClientCloses,
         ClientAcknowledges, ClientResets, ConnectionEnds
    <3> QED  BY <1>0, <2>1, <3>1 DEF StepInv, taskVars
  <2>3. CASE status'[s] = status[s]
    BY <1>0, <2>1, <2>3 DEF StepInv, taskVars
  <2> QED  BY <2>1, <2>2, <2>3
<1>13. CASE UNCHANGED vars
  BY <1>13, <1>u DEF vars, chipVars
<1> QED  BY <1>1, <1>2, <1>3, <1>4, <1>5, <1>6, <1>7, <1>8, <1>9, <1>10, <1>11,
            <1>12, <1>13, NextSteps DEF TcpCommandTask, Run

LEMMA ConnectedStep ==
    ASSUME IInv, [Next]_vars
    PROVE  ConnectedInv'
<1> USE DEF Open
<1>0. /\ TypeOK /\ StepInv /\ ConnectedInv /\ s \in Socket
      /\ status \in [Socket -> Statuses] /\ buffer \in [Socket -> Seq(Byte)]
      /\ connected \in [Socket -> BOOLEAN]
  BY Typing DEF IInv
<1>s. turn' = turn => s' = s
  BY DEF s
(* A step that begins no reading, and what it has to show of its socket. *)
<1>t. ASSUME TcpCommandTask, step' # "receive",
             \/ status'[s] \notin {"INIT", "LISTEN", "ESTABLISHED"}
             \/ buffer'[s] = <<>>
             \/ status'[s] = "ESTABLISHED" /\ ~connected'[s]
             \/ /\ status'[s] = status[s] /\ connected'[s] = connected[s]
                /\ buffer'[s] = buffer[s]
      PROVE  ConnectedInv'
  <2>1. ASSUME NEW n \in Socket
        PROVE  /\ status'[n] \in {"INIT", "LISTEN"} => buffer'[n] = <<>>
               /\ status'[n] = "ESTABLISHED" /\ connected'[n] => buffer'[n] = <<>>
    <3>1. CASE n # s
      <4>1. SameFor(n)
        BY <1>0, <1>t, <3>1, TaskTouchesOne
      <4> QED  BY <1>0, <4>1 DEF SameFor, ConnectedInv
    <3>2. CASE n = s
      BY <1>0, <1>t, <3>2 DEF ConnectedInv
    <3> QED  BY <3>1, <3>2
  <2> QED  BY <1>t, <2>1 DEF ConnectedInv
<1>1. CASE RunEstablished
  <2>1. /\ status' = status /\ status[s] = "ESTABLISHED" /\ step' = "receive"
        /\ s' = s /\ ~connected'[s] /\ TcpCommandTask
    BY <1>0, <1>1, <1>s DEF RunEstablished, TcpCommandTask, Run
  <2>2. ASSUME NEW n \in Socket
        PROVE  /\ status'[n] \in {"INIT", "LISTEN"} => buffer'[n] = <<>>
               /\ status'[n] = "ESTABLISHED" /\ connected'[n] => buffer'[n] = <<>>
    <3>1. CASE n # s
      <4>1. SameFor(n)
        BY <1>0, <2>1, <3>1, TaskTouchesOne
      <4> QED  BY <1>0, <4>1 DEF SameFor, ConnectedInv
    <3> QED  BY <2>1, <3>1
  <2> QED  BY <2>1, <2>2 DEF ConnectedInv
<1>2. CASE RunCloseWait
  <2>1. /\ UNCHANGED <<status, connected, buffer>> /\ s' = s
        /\ status[s] = "CLOSE_WAIT"
    BY <1>2, <1>s DEF RunCloseWait, chipVars
  <2> QED  BY <1>0, <2>1 DEF ConnectedInv
<1>3. CASE RunInit
  <2>1. /\ buffer' = buffer /\ status[s] = "INIT" /\ TcpCommandTask
        /\ step' # "receive"
    BY <1>0, <1>3, NextSocketSteps DEF RunInit, TcpCommandTask, Run
  <2>2. buffer'[s] = <<>>
    BY <1>0, <2>1 DEF ConnectedInv
  <2> QED  BY <1>t, <2>1, <2>2
<1>4. CASE RunClosed
  <2>1. buffer'[s] = <<>> /\ TcpCommandTask /\ step' # "receive"
    BY <1>0, <1>4, NextSocketSteps DEF RunClosed, Forget, TcpCommandTask, Run
  <2> QED  BY <1>t, <2>1
<1>5. CASE RunOther \/ Report
  <2>1. /\ UNCHANGED <<status, connected, buffer>> /\ TcpCommandTask
        /\ step' # "receive"
    BY <1>0, <1>5, NextSocketSteps DEF RunOther, Report, chipVars,
       TcpCommandTask, Run
  <2> QED  BY <1>t, <2>1
<1>6. CASE ReceiveNothing
  <2>1. /\ UNCHANGED <<status, connected, buffer>> /\ TcpCommandTask
        /\ step' # "receive"
    BY <1>0, <1>6, AfterReceiveSteps DEF ReceiveNothing, chipVars, TcpCommandTask
  <2> QED  BY <1>t, <2>1
<1>7. CASE ReceiveFails \/ SendFails \/ SendTimesOut
  <2>1. buffer'[s] = <<>> /\ TcpCommandTask /\ AfterReceive
    BY <1>0, <1>7 DEF ReceiveFails, SendFails, SendTimesOut, Forget, TcpCommandTask
  <2>2. step' # "receive"
    BY <1>0, <2>1, AfterReceiveSteps
  <2> QED  BY <1>t, <2>1, <2>2
<1>8. CASE Receive
  <2>1. /\ UNCHANGED <<status, connected>> /\ TcpCommandTask /\ step = "receive"
        /\ status[s] \in {"ESTABLISHED", "CLOSE_WAIT"}
        /\ AfterReceive \/ step' = "send"
    BY <1>8 DEF Receive, At, TcpCommandTask
  <2>2. step' # "receive"
    BY <1>0, <2>1, AfterReceiveSteps
  <2>3. status[s] = "ESTABLISHED" => ~connected'[s]
    BY <1>0, <2>1 DEF ConnectedInv
  <2>4. \/ status'[s] \notin {"INIT", "LISTEN", "ESTABLISHED"}
        \/ status'[s] = "ESTABLISHED" /\ ~connected'[s]
    BY <2>1, <2>3
  <2> QED  BY <1>t, <2>1, <2>2, <2>4
<1>9. CASE Send
  <2>1. /\ UNCHANGED <<status, connected, buffer>> /\ TcpCommandTask
        /\ step' # "receive"
    BY <1>9 DEF Send, chipVars, TcpCommandTask
  <2> QED  BY <1>t, <2>1
<1>10. CASE SendOk
  <2>1. status'[s] = CASE status[s] = "ESTABLISHED" -> "FIN_WAIT"
                       [] status[s] = "CLOSE_WAIT" -> "LAST_ACK"
                       [] OTHER -> status[s]
    BY <1>0, <1>10 DEF SendOk, Disconnect
  <2>2. /\ status[s] \in {"CLOSED", "ESTABLISHED", "CLOSE_WAIT"}
        /\ TcpCommandTask /\ step' # "receive"
    BY <1>0, <1>10 DEF SendOk, Disconnect, At, StepInv, TcpCommandTask
  <2>3. status'[s] \in {"FIN_WAIT", "LAST_ACK", "CLOSED"}
    BY <2>1, <2>2
  <2> QED  BY <1>t, <2>2, <2>3
<1>11. CASE Disconnected
  <2>1. buffer'[s] = <<>> /\ TcpCommandTask /\ step' # "receive"
    BY <1>0, <1>11, AfterReceiveSteps DEF Disconnected, Forget, TcpCommandTask
  <2> QED  BY <1>t, <2>1
<1>12. CASE CloseWait
  <2>1. CASE status[s] = "CLOSE_WAIT"
    <3>1. status'[s] = "LAST_ACK" /\ step' # "receive" /\ TcpCommandTask
      BY <1>0, <1>12, <2>1 DEF CloseWait, Disconnect, TcpCommandTask
    <3> QED  BY <1>t, <3>1
  <2>2. CASE status[s] # "CLOSE_WAIT"
    <3>1. /\ UNCHANGED <<status, connected, buffer>> /\ TcpCommandTask
          /\ step' # "receive"
      BY <1>0, <1>12, <2>2, NextSocketSteps DEF CloseWait, TcpCommandTask
    <3> QED  BY <1>t, <3>1
  <2> QED  BY <2>1, <2>2
<1>13. ASSUME NEW n \in Socket, ClientStep(n)
       PROVE  ConnectedInv'
  <2>1. /\ UNCHANGED taskVars /\ s' = s /\ buffer'[n] = buffer[n]
        /\ \A m \in Socket : m # n => SameFor(m)
    BY <1>0, <1>13, ClientTouchesOne
  <2>2. \/ /\ status[n] = "LISTEN" /\ status'[n] = "ESTABLISHED"
        \/ /\ status'[n] \in {"CLOSE_WAIT", "CLOSED"}
        \/ /\ status'[n] = status[n] /\ connected'[n] = connected[n]
    BY <1>0, <1>13 DEF ClientStep, Connect, ClientSends, ClientCloses,
       ClientAcknowledges, ClientResets, ConnectionEnds
  <2>3. /\ status'[n] \in {"INIT", "LISTEN"} => buffer'[n] = <<>>
        /\ status'[n] = "ESTABLISHED" /\ connected'[n] => buffer'[n] = <<>>
    BY <1>0, <1>13, <2>1, <2>2 DEF ConnectedInv
  <2>4. ASSUME NEW m \in Socket
        PROVE  /\ status'[m] \in {"INIT", "LISTEN"} => buffer'[m] = <<>>
               /\ status'[m] = "ESTABLISHED" /\ connected'[m] => buffer'[m] = <<>>
    <3>1. CASE m # n
      BY <1>0, <2>1, <3>1 DEF SameFor, ConnectedInv
    <3> QED  BY <2>3, <3>1
  <2>5. step' = "receive" /\ status'[s] = "ESTABLISHED" => ~connected'[s]
    <3>1. CASE n # s
      BY <1>0, <2>1, <3>1 DEF SameFor, ConnectedInv, taskVars
    <3>2. CASE n = s
      BY <1>0, <2>1, <2>2, <3>2 DEF ConnectedInv, taskVars, StepInv
    <3> QED  BY <3>1, <3>2
  <2> QED  BY <2>1, <2>4, <2>5 DEF ConnectedInv
<1>14. CASE UNCHANGED vars
  BY <1>0, <1>14, <1>s DEF vars, chipVars, taskVars, ConnectedInv
<1> QED  BY <1>1, <1>2, <1>3, <1>4, <1>5, <1>6, <1>7, <1>8, <1>9, <1>10, <1>11,
            <1>12, <1>13, <1>14, NextSteps DEF TcpCommandTask, Run

LEMMA AcknowledgedStep ==
    ASSUME IInv, [Next]_vars
    PROVE  AcknowledgedInv'
<1>0. /\ TypeOK /\ AcknowledgedInv /\ s \in Socket
      /\ sendOk \in [Socket -> BOOLEAN]
      /\ answer \in [Socket -> {"none", "sent", "received"}]
  BY Typing DEF IInv
<1>1. CASE TcpCommandTask
  <2>1. ~sendOk'[s] \/ (sendOk'[s] = sendOk[s] /\ answer'[s] = answer[s])
    <3>1. CASE RunEstablished \/ RunCloseWait \/ RunOther \/ ReceiveNothing
               \/ Receive \/ Disconnected \/ CloseWait \/ Report
      BY <3>1 DEF RunEstablished, RunCloseWait, RunOther, ReceiveNothing,
         Receive, Disconnected, CloseWait, Report, chipVars, clientVars
    <3>2. CASE RunInit \/ RunClosed \/ ReceiveFails \/ SendFails \/ SendTimesOut
      BY <1>0, <3>2 DEF RunInit, RunClosed, ReceiveFails, SendFails,
         SendTimesOut, Close, clientVars
    <3>3. CASE SendOk
      BY <1>0, <3>3 DEF SendOk
    <3>4. CASE Send
      <4>1. answer[s] = "none"
        BY <3>4 DEF Send, IInv, AnswerInv
      <4>2. ~sendOk[s]
        BY <1>0, <4>1 DEF AcknowledgedInv
      <4> QED  BY <3>4, <4>2 DEF Send, chipVars
    <3> QED  BY <1>1, <3>1, <3>2, <3>3, <3>4 DEF TcpCommandTask, Run
  <2>2. ASSUME NEW n \in Socket, sendOk'[n]
        PROVE  answer'[n] = "received"
    <3>1. CASE n # s
      BY <1>0, <1>1, <2>2, <3>1, TaskTouchesOne DEF SameFor, AcknowledgedInv
    <3>2. CASE n = s
      BY <1>0, <2>1, <2>2, <3>2 DEF AcknowledgedInv
    <3> QED  BY <3>1, <3>2
  <2> QED  BY <2>2 DEF AcknowledgedInv
<1>2. ASSUME NEW n \in Socket, ClientStep(n)
      PROVE  AcknowledgedInv'
  <2>1. \/ answer'[n] = "received"
        \/ sendOk'[n] = sendOk[n] /\ answer'[n] = answer[n]
    BY <1>0, <1>2 DEF ClientStep, Connect, ClientSends, ClientCloses,
       ClientAcknowledges, ClientResets, ConnectionEnds, clientVars
  <2>2. ASSUME NEW m \in Socket, sendOk'[m]
        PROVE  answer'[m] = "received"
    <3>1. CASE m # n
      BY <1>0, <1>2, <2>2, <3>1, ClientTouchesOne DEF SameFor, AcknowledgedInv
    <3>2. CASE m = n
      BY <1>0, <2>1, <2>2, <3>2 DEF AcknowledgedInv
    <3> QED  BY <3>1, <3>2
  <2> QED  BY <2>2 DEF AcknowledgedInv
<1>3. CASE UNCHANGED vars
  BY <1>0, <1>3 DEF vars, chipVars, clientVars, AcknowledgedInv
<1> QED  BY <1>1, <1>2, <1>3, NextSteps

-----------------------------------------------------------------------------
(* The bytes.  A step that reads none, and begins no wait for an answer. *)
LEMMA ReadsNone ==
    ASSUME NEW n \in Socket, NEW p \in Seq(Byte), HasRead(n, p),
           sent'[n] = sent[n], received'[n] = received[n],
           Unanswered(n)' => /\ Unanswered(n)
                             /\ answer'[n] = answer[n]
                             /\ buffer'[n] = buffer[n],
           n = s' /\ step' = "closing" /\ status'[n] = "CLOSE_WAIT" =>
               \/ received[n] = <<>>
               \/ n = s /\ step = "closing" /\ status[n] = "CLOSE_WAIT"
    PROVE  HasRead(n, p)'
<1>1. sent'[n] = p \o received'[n]
  BY DEF HasRead
<1>2. Unanswered(n)' => /\ answer'[n] = "none" /\ Answer(p) = NoResponse
                        /\ buffer'[n] = FromFirst(p)
  BY DEF HasRead
<1>3. n = s' /\ step' = "closing" /\ status'[n] = "CLOSE_WAIT" =>
          received'[n] = <<>> \/ Len(p) >= BufferSize
  BY DEF HasRead
<1> HIDE DEF Unanswered
<1> QED  BY <1>1, <1>2, <1>3 DEF HasRead

LEMMA TaskKeepsBytes ==
    ASSUME IInv, TcpCommandTask, NEW n \in Socket, NEW p \in Seq(Byte),
           HasRead(n, p)
    PROVE  \E q \in Seq(Byte) : HasRead(n, q)'
<1> USE DEF Open
<1>0. /\ TypeOK /\ StepInv /\ ConnectedInv /\ s \in Socket
      /\ status \in [Socket -> Statuses] /\ connected \in [Socket -> BOOLEAN]
      /\ received \in [Socket -> Seq(Byte)] /\ buffer \in [Socket -> Seq(Byte)]
      /\ sent \in [Socket -> Seq(Byte)]
      /\ answer \in [Socket -> {"none", "sent", "received"}]
      /\ closeWait \in BOOLEAN
  BY Typing DEF IInv
<1>s. turn' = turn => s' = s
  BY DEF s
<1>r. SUFFICES ASSUME n = s
               PROVE  \E q \in Seq(Byte) : HasRead(n, q)'
  <2>1. CASE n # s
    <3>1. SameFor(n) /\ (turn' = turn \/ step' \in {"run", "report"})
      BY <1>0, <2>1, TaskTouchesOne
    <3>2. s' = s \/ step' \in {"run", "report"}
      BY <1>s, <3>1
    <3>3. Unanswered(n)' => Unanswered(n)
      BY <2>1, <3>1 DEF Unanswered, SameFor
    <3>4. HasRead(n, p)'
      BY <2>1, <3>1, <3>2, <3>3, ReadsNone DEF SameFor
    <3> QED  BY <3>4
  <2> QED  BY <2>1
(* The connection is gone, or the task waits for the answer to be received. *)
<1>g. ASSUME sent'[n] = sent[n], received'[n] = received[n],
             status'[n] \notin {"INIT", "LISTEN", "ESTABLISHED", "CLOSE_WAIT"}
      PROVE  \E q \in Seq(Byte) : HasRead(n, q)'
  <2>1. ~Unanswered(n)'
    BY <1>g DEF Unanswered
  <2>2. HasRead(n, p)'
    BY <1>g, <2>1, ReadsNone
  <2> QED  BY <2>2
<1>1. CASE RunEstablished
  <2>1. /\ step = "run" /\ step' = "receive" /\ UNCHANGED <<status, received, sent, answer>>
        /\ status[n] = "ESTABLISHED"
    BY <1>1, <1>r DEF RunEstablished, At, clientVars
  <2>2. Unanswered(n) /\ buffer'[n] = buffer[n]
    <3>1. Unanswered(n)
      BY <2>1 DEF Unanswered
    <3>2. CASE connected[s]
      <4>1. buffer[n] = <<>> /\ buffer'[n] = <<>>
        BY <1>0, <1>1, <1>r, <2>1, <3>2 DEF RunEstablished, Forget, ConnectedInv
      <4> QED  BY <3>1, <4>1
    <3>3. CASE ~connected[s]
      BY <1>1, <3>1, <3>3 DEF RunEstablished
    <3> QED  BY <3>2, <3>3
  <2>3. HasRead(n, p)'
    BY <2>1, <2>2, ReadsNone
  <2> QED  BY <2>3
<1>2. CASE RunCloseWait
  <2>1. /\ step = "run" /\ UNCHANGED <<status, received, sent, answer, buffer>>
        /\ status[n] = "CLOSE_WAIT"
        /\ step' = "closing" => received[n] = <<>>
    BY <1>2, <1>r DEF RunCloseWait, At, chipVars, clientVars
  <2>2. Unanswered(n)
    BY <2>1 DEF Unanswered
  <2>3. HasRead(n, p)'
    BY <2>1, <2>2, ReadsNone
  <2> QED  BY <2>3
<1>3. CASE RunInit
  <2>1. /\ step = "run" /\ UNCHANGED <<received, sent, answer, buffer>>
        /\ status[n] = "INIT" /\ step' # "closing"
    BY <1>0, <1>3, <1>r, NextSocketSteps DEF RunInit, At, clientVars
  <2>2. Unanswered(n)
    BY <2>1 DEF Unanswered
  <2>3. HasRead(n, p)'
    BY <2>1, <2>2, ReadsNone
  <2> QED  BY <2>3
<1>4. CASE RunClosed
  <2>1. /\ received'[n] = <<>> /\ sent'[n] = <<>> /\ answer'[n] = "none"
        /\ buffer'[n] = <<>> /\ step' # "closing"
    BY <1>0, <1>4, <1>r, NextSocketSteps DEF RunClosed, Forget
  <2>2. PICK e \in Seq(Byte) : e = <<>>
    BY NothingIsNoAnswer
  <2>3. sent'[n] = e \o received'[n]
    BY <2>1, <2>2, ConcatEmptySeq
  <2>4. Answer(e) = NoResponse /\ buffer'[n] = FromFirst(e)
    BY <2>1, <2>2, NothingIsNoAnswer
  <2>5. HasRead(n, e)'
    BY <2>1, <2>3, <2>4 DEF HasRead
  <2> QED  BY <2>5
<1>5. CASE RunOther \/ Report
  <2>1. /\ step \in {"run", "report"} /\ step' \in {"run", "report"}
        /\ UNCHANGED <<status, received, sent, answer, buffer>>
    BY <1>0, <1>5, NextSocketSteps DEF RunOther, Report, At, chipVars, clientVars
  <2>2. Unanswered(n)' => Unanswered(n)
    BY <2>1 DEF Unanswered
  <2>3. HasRead(n, p)'
    BY <2>1, <2>2, ReadsNone
  <2> QED  BY <2>3
<1>6. CASE ReceiveNothing
  <2>1. /\ step = "receive" /\ received[n] = <<>>
        /\ UNCHANGED <<status, received, sent, answer, buffer>>
    BY <1>6, <1>r DEF ReceiveNothing, At, chipVars, clientVars
  <2>2. Unanswered(n)' => Unanswered(n)
    BY <2>1 DEF Unanswered
  <2>3. HasRead(n, p)'
    BY <2>1, <2>2, ReadsNone
  <2> QED  BY <2>3
<1>7. CASE ReceiveFails \/ SendFails \/ SendTimesOut
  <2>1. /\ UNCHANGED <<received, sent>> /\ status'[n] = "CLOSED"
    BY <1>0, <1>7, <1>r DEF ReceiveFails, SendFails, SendTimesOut, Close, clientVars
  <2> QED  BY <1>g, <2>1
<1>8. CASE Receive
  <2>1. HasRead(s, p)
    BY <1>r
  <2>2. PICK r, rest \in Seq(Byte) :
              /\ received' = [received EXCEPT ![s] = rest]
              /\ sent[s] = (p \o r) \o rest
              /\ rest = <<>> \/ Len(p \o r) >= BufferSize
              /\ \E kept \in Seq(Byte) : /\ Len(kept) <= BufferSize
                                         /\ buffer' = [buffer EXCEPT ![s] = kept]
                                         /\ Answer(p \o r) = NoResponse =>
                                               kept = FromFirst(p \o r)
              /\ Answer(p \o r) # NoResponse =>
                    /\ response' = Answer(p \o r) /\ step' = "send"
                    /\ UNCHANGED <<turn, closeWait>>
              /\ Answer(p \o r) = NoResponse => AfterReceive
              /\ UNCHANGED <<status, connected, sendOk, sent, answer>>
              /\ answer[s] = "none"
    BY <1>8, <2>1, ReceiveReads
  <2> DEFINE q == p \o r
  <2>3. q \in Seq(Byte)
    BY ConcatProperties
  <2>4. sent'[n] = q \o received'[n] /\ received'[n] = rest /\ answer'[n] = "none"
    BY <1>0, <1>r, <2>2
  <2>5. Answer(q) = NoResponse => buffer'[n] = FromFirst(q)
    BY <1>0, <1>r, <2>2
  <2>6. Answer(q) # NoResponse => ~Unanswered(n)' /\ step' # "closing"
    BY <1>r, <1>s, <2>2 DEF Unanswered
  <2>7. received'[n] = <<>> \/ Len(q) >= BufferSize
    BY <2>2, <2>4
  <2> HIDE DEF q
  <2>8. HasRead(n, q)'
    <3>1. Unanswered(n)' => /\ answer'[n] = "none" /\ Answer(q) = NoResponse
                            /\ buffer'[n] = FromFirst(q)
      BY <2>4, <2>5, <2>6
    <3> QED  BY <2>4, <2>7, <3>1 DEF HasRead
  <2> QED  BY <2>3, <2>8
<1>9. CASE Send
  <2>1. /\ UNCHANGED <<received, sent>> /\ step' = "waitSendOk" /\ s' = s
    BY <1>9, <1>s DEF Send, chipVars
  <2>2. ~Unanswered(n)'
    BY <1>r, <2>1 DEF Unanswered
  <2>3. HasRead(n, p)'
    BY <2>1, <2>2, ReadsNone
  <2> QED  BY <2>3
<1>10. CASE SendOk
  <2>1. status'[s] = CASE status[s] = "ESTABLISHED" -> "FIN_WAIT"
                       [] status[s] = "CLOSE_WAIT" -> "LAST_ACK"
                       [] OTHER -> status[s]
    BY <1>0, <1>10 DEF SendOk, Disconnect
  <2>2. /\ status[s] \in {"CLOSED", "ESTABLISHED", "CLOSE_WAIT"}
        /\ UNCHANGED <<received, sent>>
    BY <1>0, <1>10 DEF SendOk, At, StepInv, clientVars
  <2>3. status'[n] \in {"FIN_WAIT", "LAST_ACK", "CLOSED"}
    BY <1>r, <2>1, <2>2
  <2> QED  BY <1>g, <2>2, <2>3
<1>11. CASE Disconnected
  <2>1. /\ UNCHANGED <<received, sent>> /\ status'[n] = "CLOSED"
    BY <1>11, <1>r DEF Disconnected, chipVars, clientVars
  <2> QED  BY <1>g, <2>1
<1>12. CASE CloseWait
  <2>1. /\ UNCHANGED <<received, sent>> /\ step = "closing"
        /\ status[s] \in {"CLOSED", "CLOSE_WAIT"}
    BY <1>0, <1>12 DEF CloseWait, At, StepInv, clientVars
  <2>2. status'[n] \in {"LAST_ACK", "CLOSED"}
    BY <1>0, <1>12, <1>r, <2>1 DEF CloseWait, Disconnect
  <2> QED  BY <1>g, <2>1, <2>2
<1> QED  BY <1>1, <1>2, <1>3, <1>4, <1>5, <1>6, <1>7, <1>8, <1>9, <1>10, <1>11,
            <1>12 DEF TcpCommandTask, Run

LEMMA ClientKeepsBytes ==
    ASSUME IInv, NEW m \in Socket, ClientStep(m), NEW n \in Socket,
           NEW p \in Seq(Byte), HasRead(n, p)
    PROVE  HasRead(n, p)'
<1> USE DEF Open
<1>0. /\ TypeOK /\ StepInv /\ s \in Socket
      /\ status \in [Socket -> Statuses]
      /\ received \in [Socket -> Seq(Byte)] /\ buffer \in [Socket -> Seq(Byte)]
      /\ sent \in [Socket -> Seq(Byte)]
      /\ answer \in [Socket -> {"none", "sent", "received"}]
  BY Typing DEF IInv
<1>1. /\ s' = s /\ step' = step /\ buffer'[m] = buffer[m]
      /\ n # m => SameFor(n)
  BY <1>0, ClientTouchesOne DEF taskVars
<1>2. CASE n # m
  <2>1. Unanswered(n)' => Unanswered(n)
    BY <1>1, <1>2 DEF Unanswered, SameFor
  <2> QED  BY <1>1, <1>2, <2>1, ReadsNone DEF SameFor
<1>3. CASE n = m /\ Connect(m)
  <2>1. /\ status[n] = "LISTEN" /\ status'[n] = "ESTABLISHED"
        /\ UNCHANGED <<received, sent, answer>>
    BY <1>0, <1>3 DEF Connect, clientVars
  <2>2. Unanswered(n)
    BY <1>0, <2>1 DEF Unanswered, StepInv
  <2> QED  BY <1>1, <1>3, <2>1, <2>2, ReadsNone
<1>4. CASE n = m /\ \E byte \in Byte : ClientSends(m, byte)
  <2>1. PICK byte \in Byte : ClientSends(m, byte)
    BY <1>4
  <2>2. /\ status[n] = "ESTABLISHED" /\ UNCHANGED <<status, answer>>
        /\ sent'[n] = Append(sent[n], byte)
        /\ received'[n] = Append(received[n], byte)
        /\ received[n] \in Seq(Byte) /\ sent[n] \in Seq(Byte)
    BY <1>0, <1>4, <2>1 DEF ClientSends
  <2>3. sent'[n] = p \o received'[n]
    <3>1. sent[n] = p \o received[n]
      BY DEF HasRead
    <3>2. <<byte>> \in Seq(Byte)
      OBVIOUS
    <3>3. /\ Append(sent[n], byte) = sent[n] \o <<byte>>
          /\ Append(received[n], byte) = received[n] \o <<byte>>
      BY <2>2, AppendIsConcat
    <3>4. PICK b, r \in Seq(Byte) : b = <<byte>> /\ r = received[n]
      BY <2>2, <3>2
    <3>5. (p \o r) \o b = p \o (r \o b)
      BY ConcatAssociative
    <3> QED  BY <2>2, <3>1, <3>3, <3>4, <3>5
  <2>4. Unanswered(n)' => Unanswered(n)
    BY <1>1, <2>2 DEF Unanswered
  <2>5. Unanswered(n)' => /\ answer'[n] = "none" /\ Answer(p) = NoResponse
                          /\ buffer'[n] = FromFirst(p)
    BY <1>1, <1>4, <2>2, <2>4 DEF HasRead
  <2> QED  BY <2>2, <2>3, <2>5 DEF HasRead
<1>5. CASE n = m /\ ClientCloses(m)
  <2>1. /\ \/ status[n] = "ESTABLISHED" /\ status'[n] = "CLOSE_WAIT"
           \/ status'[n] = "CLOSED"
        /\ UNCHANGED <<received, sent, answer>>
    BY <1>0, <1>5 DEF ClientCloses, clientVars
  <2>2. Unanswered(n)' => Unanswered(n)
    BY <1>1, <2>1 DEF Unanswered
  <2>3. status[n] = "ESTABLISHED" /\ n = s => step # "closing"
    BY <1>0 DEF StepInv
  <2> QED  BY <1>1, <1>5, <2>1, <2>2, <2>3, ReadsNone
<1>6. CASE n = m /\ ClientAcknowledges(m)
  <2>1. /\ status[n] \in {"ESTABLISHED", "CLOSE_WAIT"} /\ answer[n] = "sent"
        /\ UNCHANGED <<status, received, sent>>
    BY <1>6 DEF ClientAcknowledges
  <2>2. ~Unanswered(n)
    BY <2>1 DEF HasRead
  <2>3. ~Unanswered(n)'
    BY <1>1, <2>1, <2>2 DEF Unanswered
  <2> QED  BY <1>1, <2>1, <2>3, ReadsNone
<1>7. CASE n = m /\ (ClientResets(m) \/ ConnectionEnds(m))
  <2>1. status'[n] = "CLOSED" /\ UNCHANGED <<received, sent>>
    BY <1>0, <1>7 DEF ClientResets, ConnectionEnds, clientVars
  <2>2. ~Unanswered(n)'
    BY <2>1 DEF Unanswered
  <2> QED  BY <2>1, <2>2, ReadsNone
<1> QED  BY <1>2, <1>3, <1>4, <1>5, <1>6, <1>7 DEF ClientStep

LEMMA BytesStep ==
    ASSUME IInv, [Next]_vars
    PROVE  BytesInv'
<1> SUFFICES ASSUME NEW n \in Socket
             PROVE  \E q \in Seq(Byte) : HasRead(n, q)'
  BY DEF BytesInv
<1>0. PICK p \in Seq(Byte) : HasRead(n, p)
  BY DEF IInv, BytesInv
<1>1. CASE TcpCommandTask
  BY <1>0, <1>1, TaskKeepsBytes
<1>2. CASE \E m \in Socket : ClientStep(m)
  BY <1>0, <1>2, ClientKeepsBytes
<1>3. CASE UNCHANGED vars
  <2>1. UNCHANGED <<sent, received, answer, buffer, status, step, turn>> /\ s' = s
    BY <1>3 DEF vars, chipVars, clientVars, taskVars, s
  <2>2. Unanswered(n)' => Unanswered(n)
    BY <2>1 DEF Unanswered
  <2> QED  BY <1>0, <2>1, <2>2, ReadsNone
<1> QED  BY <1>1, <1>2, <1>3, NextSteps

-----------------------------------------------------------------------------
(* The answer.  It is fixed when Receive finds it, whatever follows. *)
LEMMA AnswerStep ==
    ASSUME IInv, [Next]_vars
    PROVE  AnswerInv'
<1> USE DEF Open
<1>0. /\ TypeOK /\ AnswerInv /\ s \in Socket
      /\ sent \in [Socket -> Seq(Byte)]
  BY Typing DEF IInv
<1>s. turn' = turn => s' = s
  BY DEF s
<1>1. CASE Receive
  <2>1. PICK p \in Seq(Byte) : HasRead(s, p)
    BY <1>0 DEF IInv, BytesInv
  <2>2. PICK r, rest \in Seq(Byte) :
              /\ sent[s] = (p \o r) \o rest
              /\ Answer(p \o r) # NoResponse =>
                    /\ response' = Answer(p \o r) /\ step' = "send"
                    /\ UNCHANGED <<turn, closeWait>>
              /\ Answer(p \o r) = NoResponse => AfterReceive
              /\ UNCHANGED <<status, connected, sendOk, sent, answer>>
              /\ answer[s] = "none"
    BY <1>1, <2>1, ReceiveReads
  <2>3. PICK q \in Seq(Byte) : q = p \o r
    BY ConcatProperties
  <2>4. CASE Answer(q) = NoResponse
    <3>1. step' # "send"
      BY <1>0, <2>2, <2>3, <2>4, AfterReceiveSteps
    <3> QED  BY <3>1 DEF AnswerInv, At
  <2>5. CASE Answer(q) # NoResponse
    <3>1. Answer(q \o rest) = Answer(q)
      BY <2>5, AnswerStays
    <3>2. Answer(sent[s]) = Answer(q)
      BY <2>2, <2>3, <3>1
    <3>3. response' = Answer(q) /\ s' = s /\ sent' = sent /\ answer'[s] = "none"
      BY <1>s, <2>2, <2>3, <2>5
    <3>4. Answer(sent'[s']) = Answer(q)
      BY <3>2, <3>3
    <3>5. response' = Answer(sent[s])' /\ response' # NoResponse /\ (answer[s] = "none")'
      BY <2>5, <3>3, <3>4
    <3>6. (response # NoResponse)'
      BY <3>5 DEF NoResponse
    <3> QED  BY <3>5, <3>6 DEF AnswerInv
  <2> QED  BY <2>4, <2>5
<1>2. CASE TcpCommandTask /\ ~Receive
  <2>1. step' # "send"
    <3>1. NextSocket => step' # "send"
      BY <1>0, NextSocketSteps
    <3>2. AfterReceive => step' # "send"
      BY <1>0, AfterReceiveSteps
    <3>3. CASE Run
      BY <3>1, <3>3 DEF Run, RunEstablished, RunCloseWait, RunInit, RunClosed,
         RunOther
    <3>4. CASE ReceiveNothing \/ ReceiveFails \/ SendFails \/ SendTimesOut
               \/ Disconnected
      BY <3>2, <3>4 DEF ReceiveNothing, ReceiveFails, SendFails, SendTimesOut,
         Disconnected
    <3>5. CASE Send \/ SendOk \/ CloseWait \/ Report
      BY <3>1, <3>5 DEF Send, SendOk, CloseWait, Report, Disconnect
    <3> QED  BY <1>2, <3>3, <3>4, <3>5 DEF TcpCommandTask
  <2> QED  BY <2>1 DEF AnswerInv, At
<1>3. ASSUME NEW m \in Socket, ClientStep(m)
      PROVE  AnswerInv'
  <2> SUFFICES ASSUME step' = "send"
               PROVE  /\ response' = Answer(sent'[s']) /\ response' # NoResponse
                      /\ answer'[s'] = "none"
    BY DEF AnswerInv, At, NoResponse
  <2>1. /\ UNCHANGED taskVars /\ s' = s
        /\ \A n \in Socket : n # m => SameFor(n)
    BY <1>0, <1>3, ClientTouchesOne
  <2>2. /\ step = "send" /\ response' = response
        /\ response = Answer(sent[s]) /\ response # NoResponse /\ answer[s] = "none"
    BY <1>0, <2>1 DEF AnswerInv, At, taskVars
  <2>3. CASE sent'[s] = sent[s] /\ answer'[s] = answer[s]
    BY <2>1, <2>2, <2>3
  <2>4. CASE m = s /\ \E byte \in Byte : ClientSends(m, byte)
    <3>1. PICK byte \in Byte : ClientSends(m, byte)
      BY <2>4
    <3>2. /\ sent'[s] = Append(sent[s], byte) /\ answer' = answer
          /\ sent[s] \in Seq(Byte)
      BY <1>0, <2>4, <3>1 DEF ClientSends
    <3>3. <<byte>> \in Seq(Byte)
      OBVIOUS
    <3>4. PICK p, b \in Seq(Byte) : p = sent[s] /\ b = <<byte>>
      BY <3>2, <3>3
    <3>5. Append(p, byte) = p \o b
      BY <3>4, AppendIsConcat
    <3>6. Answer(p \o b) = Answer(p)
      BY <2>2, <3>4, AnswerStays
    <3> QED  BY <2>1, <2>2, <3>2, <3>4, <3>5, <3>6
  <2>5. CASE m = s /\ ~\E byte \in Byte : ClientSends(m, byte)
    <3>1. ~ClientAcknowledges(m)
      BY <2>2, <2>5 DEF ClientAcknowledges
    <3>2. UNCHANGED <<sent, answer>>
      BY <1>3, <2>5, <3>1 DEF ClientStep, Connect, ClientCloses, ClientResets,
         ConnectionEnds, clientVars
    <3> QED  BY <2>3, <3>2
  <2>6. CASE m # s
    BY <1>0, <2>1, <2>3, <2>6 DEF SameFor
  <2> QED  BY <2>4, <2>5, <2>6
<1>4. CASE UNCHANGED vars
  <2>1. UNCHANGED <<step, response, sent, answer, turn>> /\ s' = s
    BY <1>4 DEF vars, taskVars, clientVars, s
  <2>2. (response = Answer(sent[s]))' <=> response = Answer(sent[s])
    BY <2>1
  <2> QED  BY <1>0, <2>1, <2>2 DEF AnswerInv, At, NoResponse
<1> QED  BY <1>1, <1>2, <1>3, <1>4, NextSteps

LEMMA InitIInv == Init => IInv
<1> SUFFICES ASSUME Init
             PROVE  IInv
  OBVIOUS
<1>0. /\ Len(Sockets) \in Nat \ {0} /\ DOMAIN Sockets = 1..Len(Sockets)
  BY SocketsAssumption, LenProperties, EmptySeq
<1>1. 1 \in DOMAIN Sockets /\ turn = 1 /\ s \in Socket
  <2>1. turn = 1
    BY DEF Init
  <2>2. 1 \in DOMAIN Sockets
    BY <1>0
  <2> QED  BY <2>1, <2>2 DEF s, Socket
<1>2. PICK e \in Seq(Byte) : /\ e = <<>> /\ Len(e) = 0 /\ FromFirst(e) = e
                             /\ Answer(e) = NoResponse
  BY NothingIsNoAnswer, EmptySeq
<1>3. /\ received = [n \in Socket |-> e] /\ buffer = [n \in Socket |-> e]
      /\ sent = [n \in Socket |-> e]
  BY <1>2 DEF Init
<1>4. ByteTypes
  <2>1. Len(e) <= BufferSize
    BY <1>2, BufferAssumption
  <2> QED  BY <1>3, <2>1 DEF ByteTypes, Init
<1>5. ChipTypes
  BY DEF ChipTypes, Statuses, Init
<1>6. TaskTypes
  BY <1>1, NothingIsNoAnswer DEF TaskTypes, Steps, Init
<1>7. TypeOK
  BY <1>4, <1>5, <1>6, Parts
<1>8. StepInv /\ ConnectedInv /\ AcknowledgedInv /\ AnswerInv
  BY <1>1 DEF StepInv, ConnectedInv, AcknowledgedInv, AnswerInv, At, Open, Init
<1>9. BytesInv
  <2>1. ASSUME NEW n \in Socket
        PROVE  HasRead(n, e)
    <3>1. e \o e = e
      BY <1>2, ConcatEmptySeq
    <3>2. sent[n] = e \o received[n] /\ buffer[n] = FromFirst(e)
      BY <1>2, <1>3, <3>1
    <3>3. answer[n] = "none" /\ step = "run"
      BY DEF Init
    <3> QED  BY <1>2, <3>2, <3>3 DEF HasRead
  <2> QED  BY <2>1 DEF BytesInv
<1> QED  BY <1>7, <1>8, <1>9 DEF IInv

LEMMA NextIInv == IInv /\ [Next]_vars => IInv'
<1> SUFFICES ASSUME IInv, [Next]_vars
             PROVE  IInv'
  OBVIOUS
<1>0. TypeOK
  BY DEF IInv
<1>1. TypeOK'
  <2>1. ChipTypes' /\ ByteTypes' /\ TaskTypes'
    BY <1>0, ChipTypesStep, ByteTypesStep, TaskTypesStep
  <2> QED  BY <2>1 DEF TypeOK, ChipTypes, ByteTypes, TaskTypes, Statuses, Response
<1> QED  BY <1>1, StepInvStep, ConnectedStep, AcknowledgedStep, BytesStep,
            AnswerStep DEF IInv

(* What the task has read of each connection, and has made of it, is as IInv *)
(* says in every reachable state (tcp_service.c:91-130 and 184-298).         *)
THEOREM TcpInvariant == Spec => []IInv
<1>1. Init => IInv
  BY InitIInv
<1>2. IInv /\ [Next]_vars => IInv'
  BY NextIInv
<1> QED  BY <1>1, <1>2, PTL DEF Spec

(* Every variable keeps its type; the line buffer is never written past its  *)
(* TCP_COMMAND_BUFFER_SIZE bytes, however the client cuts its bytes into     *)
(* segments (Receive, tcp_service.c:184-236).                                *)
THEOREM TcpTypes == Spec => []TypeOK
<1>1. IInv => TypeOK
  BY DEF IInv
<1> QED  BY <1>1, TcpInvariant, PTL

(* Whatever Send is called with is the answer to the first line the client   *)
(* of this connection has sent, and it was not answered before               *)
(* (ProcessInput, tcp_service.c:242-298, README.md:17-19).                   *)
THEOREM FirstLineIsAnswered == Spec => []OneAnswerToTheFirstLine
<1>1. IInv => OneAnswerToTheFirstLine
  BY DEF IInv, AnswerInv, OneAnswerToTheFirstLine
<1> QED  BY <1>1, TcpInvariant, PTL

-----------------------------------------------------------------------------
LEMMA PrefixOf ==
    ASSUME NEW p \in Seq(Byte), NEW r \in Seq(Byte), NEW k \in 0..Len(p)
    PROVE  LET q == SubSeq(p \o r, 1, k) IN
           q \in Seq(Byte) /\ \E rest \in Seq(Byte) : p = q \o rest
<1> DEFINE all == p \o r
<1>0. /\ all \in Seq(Byte) /\ Len(p) \in Nat /\ Len(r) \in Nat
      /\ Len(all) = Len(p) + Len(r) /\ k \in 0..Len(all)
      /\ \A i \in 1..Len(p) : all[i] = p[i]
  <2>1. /\ all \in Seq(Byte) /\ Len(p) \in Nat /\ Len(r) \in Nat
        /\ Len(all) = Len(p) + Len(r)
        /\ \A i \in 1..(Len(p) + Len(r)) : all[i] = IF i <= Len(p) THEN p[i]
                                                       ELSE r[i - Len(p)]
    BY ConcatProperties, LenProperties
  <2> HIDE DEF all
  <2> QED  BY <2>1
<1> DEFINE q == SubSeq(all, 1, k)
           l == k + 1
           rest == SubSeq(p, l, Len(p))
<1> HIDE DEF all
<1>1. q \in Seq(Byte) /\ Len(q) = k /\ \A i \in 1..k : q[i] = p[i]
  <2>1. /\ q \in Seq(Byte) /\ Len(q) = k /\ \A i \in 1..k : q[i] = all[i]
    BY <1>0, PartOf
  <2> HIDE DEF q
  <2> QED  BY <1>0, <2>1
<1>2. l \in 1..(Len(p) + 1) /\ Len(p) \in 0..Len(p) /\ l <= Len(p) + 1 /\ l = k + 1
  BY <1>0
<1> HIDE DEF l
<1>3. /\ rest \in Seq(Byte) /\ Len(rest) = Len(p) - l + 1
      /\ \A i \in 1..(Len(p) - l + 1) : rest[i] = p[l + i - 1]
  BY <1>2, PartOf
<1> HIDE DEF q, rest
<1>4. /\ q \o rest \in Seq(Byte) /\ Len(q \o rest) = Len(p)
      /\ \A i \in 1..Len(p) : (q \o rest)[i] = IF i <= k THEN q[i] ELSE rest[i - k]
  <2>1. Len(q) + Len(rest) = Len(p)
    BY <1>0, <1>1, <1>2, <1>3
  <2> QED  BY <1>1, <1>3, <2>1, ConcatProperties
<1>5. ASSUME NEW i \in 1..Len(p)
      PROVE  p[i] = (q \o rest)[i]
  <2>1. CASE i <= k
    BY <1>0, <1>1, <1>4, <2>1
  <2>2. CASE ~(i <= k)
    <3>1. i - k \in 1..(Len(p) - l + 1) /\ l + (i - k) - 1 = i
      BY <1>0, <1>2, <2>2
    <3> QED  BY <1>3, <1>4, <2>2, <3>1
  <2> QED  BY <2>1, <2>2
<1>6. p = q \o rest
  BY <1>4, <1>5, SeqEqual
<1> QED  BY <1>1, <1>3, <1>6 DEF q, all

(* The first BufferSize bytes a client has sent, as AnsweredBeforeDisconnect *)
(* cuts them.                                                                *)
Looked(n) == IF Len(sent[n]) < BufferSize THEN Len(sent[n]) ELSE BufferSize

LEMMA EndsAnswered ==
    ASSUME IInv, [Next]_vars, NEW n \in Socket, status[n] \in Open,
           status'[n] \in {"FIN_WAIT", "LAST_ACK"},
           Answer(SubSeq(sent[n], 1, Looked(n))) # NoResponse
    PROVE  answer[n] = "received"
<1> USE DEF Open
<1>0. /\ TypeOK /\ StepInv /\ AcknowledgedInv /\ s \in Socket
      /\ status \in [Socket -> Statuses] /\ sent \in [Socket -> Seq(Byte)]
      /\ received \in [Socket -> Seq(Byte)] /\ BufferSize \in Nat \ {0}
      /\ status[n] \in {"ESTABLISHED", "CLOSE_WAIT"}
  BY Typing, BufferAssumption DEF IInv
<1>1. CASE TcpCommandTask
  <2>1. n = s
    <3>1. CASE n # s
      BY <1>0, <1>1, <3>1, TaskTouchesOne DEF SameFor
    <3> QED  BY <3>1
  <2>2. CASE RunEstablished \/ RunCloseWait \/ RunOther \/ ReceiveNothing
             \/ Receive \/ Send \/ Disconnected \/ Report
    BY <1>0, <2>2 DEF RunEstablished, RunCloseWait, RunOther, ReceiveNothing,
       Receive, Send, Disconnected, Report, chipVars
  <2>3. CASE RunInit \/ RunClosed
    BY <1>0, <2>1, <2>3 DEF RunInit, RunClosed
  <2>4. CASE ReceiveFails \/ SendFails \/ SendTimesOut
    <3>1. status'[s] = "CLOSED"
      BY <1>0, <2>4 DEF ReceiveFails, SendFails, SendTimesOut, Close
    <3> QED  BY <2>1, <3>1
  <2>5. CASE SendOk
    BY <1>0, <2>1, <2>5 DEF SendOk, AcknowledgedInv
  <2>6. CASE CloseWait
    <3>1. step = "closing" /\ status[n] = "CLOSE_WAIT"
      BY <1>0, <2>1, <2>6 DEF CloseWait, At
    <3>2. PICK p \in Seq(Byte) : HasRead(n, p)
      BY DEF IInv, BytesInv
    <3>3. Unanswered(n)
      BY <3>1 DEF Unanswered
    <3>4. PICK r \in Seq(Byte) : r = received[n]
      BY <1>0
    <3>5. /\ sent[n] = p \o r /\ Answer(p) = NoResponse
          /\ r = <<>> \/ Len(p) >= BufferSize
      BY <2>1, <3>1, <3>2, <3>3, <3>4 DEF HasRead
    <3>6. PICK k \in Nat : k = Looked(n)
      BY <1>0, LenProperties DEF Looked
    <3>7. k \in 0..Len(p)
      <4>1. /\ Len(p) \in Nat /\ Len(r) \in Nat /\ Len(sent[n]) = Len(p) + Len(r)
            /\ r = <<>> => Len(r) = 0
        BY <3>5, ConcatProperties, LenProperties, EmptySeq
      <4> QED  BY <1>0, <3>5, <3>6, <4>1 DEF Looked
    <3>8. PICK q \in Seq(Byte) : /\ q = SubSeq(p \o r, 1, k)
                                 /\ \E rest \in Seq(Byte) : p = q \o rest
      BY <3>7, PrefixOf
    <3>9. PICK rest \in Seq(Byte) : p = q \o rest
      BY <3>8
    <3>10. Answer(q) # NoResponse
      BY <3>5, <3>6, <3>8
    <3>11. Answer(q \o rest) = Answer(q)
      BY <3>10, AnswerStays
    <3> QED  BY <3>5, <3>9, <3>10, <3>11
  <2> QED  BY <1>1, <2>2, <2>3, <2>4, <2>5, <2>6 DEF TcpCommandTask, Run
<1>2. ASSUME NEW m \in Socket, ClientStep(m)
      PROVE  FALSE
  <2>1. n = m
    BY <1>0, <1>2, ClientTouchesOne DEF SameFor
  <2> QED  BY <1>0, <1>2, <2>1 DEF ClientStep, Connect, ClientSends, ClientCloses,
              ClientAcknowledges, ClientResets, ConnectionEnds
<1>3. CASE UNCHANGED vars
  BY <1>0, <1>3 DEF vars, chipVars
<1> QED  BY <1>1, <1>2, <1>3, NextSteps

(* The device takes its end of a connection away only after the client has   *)
(* acknowledged the answer its bytes asked for: Disconnect follows SENDOK    *)
(* (tcp_service.c:746-763), and on SOCK_CLOSE_WAIT what was received is read *)
(* first (tcp_service.c:105-113).                                            *)
THEOREM DisconnectFollowsTheAnswer == Spec => AnsweredBeforeDisconnect
<1>1. IInv /\ [Next]_vars =>
          [\A n \in Socket :
              /\ status[n] \in Open
              /\ status'[n] \in {"FIN_WAIT", "LAST_ACK"}
              /\ Answer(SubSeq(sent[n], 1,
                     IF Len(sent[n]) < BufferSize THEN Len(sent[n]) ELSE BufferSize))
                 # NoResponse
              => answer[n] = "received"]_status
  BY EndsAnswered DEF Looked
<1> QED  BY <1>1, TcpInvariant, PTL DEF Spec, AnsweredBeforeDisconnect
=============================================================================
