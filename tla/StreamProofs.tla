---------------------------- MODULE StreamProofs ----------------------------
(***************************************************************************)
(* Theorems about Stream, for a buffer and a media of any size, any sizes  *)
(* of reads, writes and skips, and any number of calls and failures, and   *)
(* that it implements ByteFile.                                            *)
(***************************************************************************)
EXTENDS Stream, TLAPS

-----------------------------------------------------------------------------
(* Reading and writing pieces of arrays                                    *)

LEMMA PieceType ==
    ASSUME NEW D, NEW f \in [D -> Nat], NEW at \in Nat, NEW n \in Nat,
           \A i \in Nat : at <= i /\ i < at + n => i \in D
    PROVE  Get(f, at, n) \in Seq(Nat) /\ Len(Get(f, at, n)) = n
<1>1. \A i \in 1..n : at + i - 1 \in D
  OBVIOUS
<1>2. Get(f, at, n) \in [1..n -> Nat]
  BY <1>1 DEF Get
<1> QED BY <1>2

LEMMA PutPiece ==
    ASSUME NEW D \in SUBSET Nat, NEW f \in [D -> Nat], NEW at \in Nat, NEW bytes \in Seq(Nat)
    PROVE  /\ Put(f, at, bytes) \in [D -> Nat]
           /\ \A i \in D : at <= i /\ i < at + Len(bytes)
                             => Put(f, at, bytes)[i] = bytes[i - at + 1]
           /\ \A i \in D : i < at \/ at + Len(bytes) <= i => Put(f, at, bytes)[i] = f[i]
<1>1. \A i \in D : i \in at..(at + Len(bytes) - 1) <=> at <= i /\ i < at + Len(bytes)
  OBVIOUS
<1>2. ASSUME NEW i \in D, i \in at..(at + Len(bytes) - 1)
      PROVE  bytes[i - at + 1] \in Nat
  <2>1. i - at + 1 \in 1..Len(bytes)
    BY <1>2
  <2> QED BY <2>1
<1>3. Put(f, at, bytes) \in [D -> Nat]
  BY <1>2 DEF Put
<1>4. \A i \in D : at <= i /\ i < at + Len(bytes)
                     => Put(f, at, bytes)[i] = bytes[i - at + 1]
  BY <1>1 DEF Put
<1>5. \A i \in D : i < at \/ at + Len(bytes) <= i => Put(f, at, bytes)[i] = f[i]
  BY <1>1 DEF Put
<1> QED BY <1>3, <1>4, <1>5

LEMMA SameArray ==
    ASSUME NEW D, NEW f \in [D -> Nat], NEW g \in [D -> Nat], \A i \in D : f[i] = g[i]
    PROVE  f = g
OBVIOUS

(* Nothing is written.                                                     *)
LEMMA PutNothing ==
    ASSUME NEW D \in SUBSET Nat, NEW f \in [D -> Nat], NEW at \in Nat,
           NEW bytes \in Seq(Nat), Len(bytes) = 0
    PROVE  Put(f, at, bytes) = f
<1> DEFINE g == Put(f, at, bytes)
<1>1. /\ g \in [D -> Nat]
      /\ \A i \in D : i < at \/ at + Len(bytes) <= i => g[i] = f[i]
  BY PutPiece
<1> HIDE DEF g
<1>2. \A i \in D : g[i] = f[i]
  BY <1>1
<1>3. g = f
  BY <1>1, <1>2, SameArray
<1> QED BY <1>3 DEF g

(* What the two lemmas are about: a media of the offsets D and a buffer of *)
(* M bytes.                                                                *)
Arrays(D, M, m, s) ==
    /\ D \in SUBSET Nat /\ M \in Nat
    /\ m \in [D -> Nat] /\ s \in [0..(M - 1) -> Nat]

(* Bytes written behind those in the buffer are written behind them.       *)
LEMMA PutBehind ==
    ASSUME NEW D, NEW M, NEW m, NEW s, Arrays(D, M, m, s), NEW p \in Nat, NEW b \in Nat,
           NEW t \in Seq(Nat),
           b + Len(t) <= M
    PROVE  Put(m, p, Get(Put(s, b, t), 0, b + Len(t)))
             = Put(Put(m, p, Get(s, 0, b)), p + b, t)
<1> DEFINE k == Len(t)
           E == 0..(M - 1)
           s2 == Put(s, b, t)
           all == Get(s2, 0, b + k)
           old == Get(s, 0, b)
           m2 == Put(m, p, old)
           left == Put(m, p, all)
           right == Put(m2, p + b, t)
<1>d. D \in SUBSET Nat /\ M \in Nat
  BY DEF Arrays
<1>m. m \in [D -> Nat]
  BY DEF Arrays
<1>0. /\ k \in Nat /\ b + k \in Nat /\ p + b \in Nat /\ b <= M /\ b + k <= M
      /\ \A i \in Nat : i < M => i \in E
  BY <1>d
<1>s. s \in [E -> Nat]
  BY DEF Arrays
<1>e. E \in SUBSET Nat
  BY <1>d
<1>o. b \in Nat /\ 0 \in Nat /\ \A i \in Nat : 0 <= i /\ i < 0 + b => i \in E
  BY <1>d
<1>a. b + k \in Nat /\ 0 \in Nat /\ \A i \in Nat : 0 <= i /\ i < 0 + (b + k) => i \in E
  BY <1>d
<1> HIDE DEF E
<1>1. /\ s2 \in [E -> Nat]
      /\ \A i \in E : b <= i /\ i < b + k => s2[i] = t[i - b + 1]
      /\ \A i \in E : i < b \/ b + k <= i => s2[i] = s[i]
  BY ONLY <1>e, <1>s, b \in Nat, t \in Seq(Nat), PutPiece DEF s2, k
<1> HIDE DEF s2, k
<1>2. all \in Seq(Nat) /\ Len(all) = b + k /\ \A j \in 1..(b + k) : all[j] = s2[0 + j - 1]
  <2>1. s2 \in [E -> Nat]
    BY <1>1
  <2>2. all \in Seq(Nat) /\ Len(all) = b + k
    BY ONLY <1>a, <2>1, PieceType, SMTT(60) DEF all
  <2>3. \A j \in 1..(b + k) : all[j] = s2[0 + j - 1]
    BY ONLY <2>1 DEF all, Get
  <2> QED BY <2>2, <2>3
<1>3. old \in Seq(Nat) /\ Len(old) = b /\ \A j \in 1..b : old[j] = s[0 + j - 1]
  <2>1. old \in Seq(Nat)
    BY ONLY <1>s, <1>o, PieceType DEF old
  <2>2. Len(old) = b
    BY ONLY <1>s, <1>o, PieceType DEF old
  <2>3. \A j \in 1..b : old[j] = s[0 + j - 1]
    BY ONLY <1>s DEF old, Get
  <2> QED BY <2>1, <2>2, <2>3
<1> HIDE DEF all, old
<1>4. /\ m2 \in [D -> Nat]
      /\ \A i \in D : p <= i /\ i < p + Len(old) => m2[i] = old[i - p + 1]
      /\ \A i \in D : i < p \/ p + Len(old) <= i => m2[i] = m[i]
  <2>1. old \in Seq(Nat)
    BY <1>3
  <2> QED BY ONLY <1>d, <1>m, p \in Nat, <2>1, PutPiece, ZenonT(60) DEF m2
<1> HIDE DEF m2
<1>5. /\ left \in [D -> Nat]
      /\ \A i \in D : p <= i /\ i < p + Len(all) => left[i] = all[i - p + 1]
      /\ \A i \in D : i < p \/ p + Len(all) <= i => left[i] = m[i]
  BY <1>d, <1>m, <1>2, PutPiece, ZenonT(60)
<1>6. /\ right \in [D -> Nat]
      /\ \A i \in D : p + b <= i /\ i < p + b + Len(t) => right[i] = t[i - (p + b) + 1]
      /\ \A i \in D : i < p + b \/ p + b + Len(t) <= i => right[i] = m2[i]
  <2>1. m2 \in [D -> Nat] /\ p + b \in Nat
    BY <1>0, <1>4
  <2> QED BY ONLY <1>d, t \in Seq(Nat), <2>1, PutPiece DEF right
<1> HIDE DEF left, right
<1>7. \A i \in D : left[i] = right[i]
  <2> TAKE i \in D
  <2>0. i \in Nat /\ Len(t) = k
    BY <1>d DEF k
  <2>1. CASE i < p
    <3>1. left[i] = m[i]
      BY <1>0, <1>2, <1>5, <2>0, <2>1
    <3>2. right[i] = m2[i] /\ m2[i] = m[i]
      BY <1>0, <1>3, <1>4, <1>6, <2>0, <2>1
    <3> QED BY <3>1, <3>2
  <2>2. CASE p <= i /\ i < p + b
    <3>1. i - p + 1 \in 1..b /\ i - p + 1 \in 1..(b + k) /\ 0 + (i - p + 1) - 1 = i - p
          /\ i - p \in Nat /\ i - p < b /\ i - p < M
      BY <1>d, <1>0, <2>0, <2>2
    <3>2. all[i - p + 1] = s2[i - p] /\ s2[i - p] = s[i - p] /\ old[i - p + 1] = s[i - p]
      BY <1>0, <1>1, <1>2, <1>3, <3>1
    <3>3. left[i] = all[i - p + 1]
      BY <1>0, <1>2, <1>5, <2>0, <2>2
    <3>4. right[i] = m2[i] /\ m2[i] = old[i - p + 1]
      BY <1>0, <1>3, <1>4, <1>6, <2>0, <2>2
    <3> QED BY <3>2, <3>3, <3>4
  <2>3. CASE p + b <= i /\ i < p + b + k
    <3>1. i - p + 1 \in 1..(b + k) /\ 0 + (i - p + 1) - 1 = i - p
          /\ i - p \in Nat /\ b <= i - p /\ i - p < b + k /\ i - p < M
          /\ (i - p) - b + 1 = i - (p + b) + 1
      BY <1>d, <1>0, <2>0, <2>3
    <3>2. all[i - p + 1] = s2[i - p] /\ s2[i - p] = t[i - (p + b) + 1]
      BY <1>0, <1>1, <1>2, <3>1
    <3>3. left[i] = all[i - p + 1]
      BY <1>0, <1>2, <1>5, <2>0, <2>3
    <3>4. right[i] = t[i - (p + b) + 1]
      BY <1>0, <1>6, <2>0, <2>3
    <3> QED BY <3>2, <3>3, <3>4
  <2>4. CASE i >= p + b + k
    <3>1. left[i] = m[i]
      BY <1>0, <1>2, <1>5, <2>0, <2>4
    <3>2. right[i] = m2[i] /\ m2[i] = m[i]
      BY <1>0, <1>3, <1>4, <1>6, <2>0, <2>4
    <3> QED BY <3>1, <3>2
  <2> QED BY <1>0, <2>0, <2>1, <2>2, <2>3, <2>4
<1>8. left = right
  <2>1. left \in [D -> Nat]
    BY <1>5
  <2>2. right \in [D -> Nat]
    BY <1>6
  <2>3. \A f, g \in [D -> Nat] : (\A i \in D : f[i] = g[i]) => f = g
    BY ONLY SameArray
  <2> QED BY ONLY <1>7, <2>1, <2>2, <2>3, Zenon
<1> QED BY <1>8 DEF left, right, all, s2, k, m2, old

(* Bytes may be written in two pieces.                                     *)
LEMMA PutInPieces ==
    ASSUME NEW D, NEW M, NEW m, NEW s, Arrays(D, M, m, s), NEW p \in Nat, NEW c \in Nat,
           NEW b \in Nat, c + b <= M, NEW k \in Nat, k <= b
    PROVE  Put(Put(m, p, Get(s, c, k)), p + k, Get(s, c + k, b - k)) = Put(m, p, Get(s, c, b))
<1> DEFINE E == 0..(M - 1)
           first == Get(s, c, k)
           rest == Get(s, c + k, b - k)
           all == Get(s, c, b)
           m2 == Put(m, p, first)
           left == Put(m2, p + k, rest)
           right == Put(m, p, all)
<1>d. D \in SUBSET Nat /\ M \in Nat
  BY DEF Arrays
<1>m. m \in [D -> Nat]
  BY DEF Arrays
<1>0. /\ k \in Nat /\ k <= b /\ b - k \in Nat /\ c + k \in Nat /\ p + k \in Nat
  BY <1>d
<1>f. c \in Nat /\ k \in Nat /\ \A i \in Nat : c <= i /\ i < c + k => i \in E
  BY <1>d
<1>r. /\ c + k \in Nat /\ b - k \in Nat
      /\ \A i \in Nat : c + k <= i /\ i < (c + k) + (b - k) => i \in E
  BY <1>d
<1>a. c \in Nat /\ b \in Nat /\ \A i \in Nat : c <= i /\ i < c + b => i \in E
  BY <1>d
<1>s. s \in [E -> Nat]
  BY DEF Arrays
<1> HIDE DEF E
<1>1. first \in Seq(Nat) /\ Len(first) = k /\ \A j \in 1..k : first[j] = s[c + j - 1]
  <2>1. first \in Seq(Nat)
    BY ONLY <1>s, <1>f, PieceType DEF first
  <2>2. Len(first) = k
    BY ONLY <1>s, <1>f, PieceType DEF first
  <2>3. \A j \in 1..k : first[j] = s[c + j - 1]
    BY ONLY <1>s DEF first, Get
  <2> QED BY <2>1, <2>2, <2>3
<1>2. /\ rest \in Seq(Nat) /\ Len(rest) = b - k
      /\ \A j \in 1..(b - k) : rest[j] = s[(c + k) + j - 1]
  <2>0. PICK at \in Nat, n \in Nat : at = c + k /\ n = b - k
    BY <1>r
  <2>e. \A i \in Nat : at <= i /\ i < at + n => i \in E
    BY <1>r, <2>0
  <2>p. rest = Get(s, at, n)
    BY <2>0 DEF rest
  <2>1. rest \in Seq(Nat)
    BY ONLY <1>s, <2>e, <2>p, at \in Nat, n \in Nat, PieceType
  <2>n. Len(rest) = n
    BY ONLY <1>s, <2>e, <2>p, at \in Nat, n \in Nat, PieceType
  <2>2. Len(rest) = b - k
    BY <2>0, <2>n
  <2>3. \A j \in 1..(b - k) : rest[j] = s[(c + k) + j - 1]
    BY ONLY <1>s DEF rest, Get
  <2> QED BY <2>1, <2>2, <2>3
<1>3. all \in Seq(Nat) /\ Len(all) = b /\ \A j \in 1..b : all[j] = s[c + j - 1]
  <2>1. all \in Seq(Nat)
    BY ONLY <1>s, <1>a, PieceType DEF all
  <2>2. Len(all) = b
    BY ONLY <1>s, <1>a, PieceType DEF all
  <2>3. \A j \in 1..b : all[j] = s[c + j - 1]
    BY ONLY <1>s DEF all, Get
  <2> QED BY <2>1, <2>2, <2>3
<1> HIDE DEF first, rest, all
<1>4. /\ m2 \in [D -> Nat]
      /\ \A i \in D : p <= i /\ i < p + Len(first) => m2[i] = first[i - p + 1]
      /\ \A i \in D : i < p \/ p + Len(first) <= i => m2[i] = m[i]
  BY <1>d, <1>m, <1>1, PutPiece, ZenonT(60)
<1> HIDE DEF m2
<1>5. /\ left \in [D -> Nat]
      /\ \A i \in D : p + k <= i /\ i < p + k + Len(rest) => left[i] = rest[i - (p + k) + 1]
      /\ \A i \in D : i < p + k \/ p + k + Len(rest) <= i => left[i] = m2[i]
  <2>1. m2 \in [D -> Nat] /\ p + k \in Nat /\ rest \in Seq(Nat)
    BY <1>0, <1>2, <1>4
  <2> QED BY ONLY <1>d, <2>1, PutPiece, ZenonT(60) DEF left
<1>6. /\ right \in [D -> Nat]
      /\ \A i \in D : p <= i /\ i < p + Len(all) => right[i] = all[i - p + 1]
      /\ \A i \in D : i < p \/ p + Len(all) <= i => right[i] = m[i]
  BY <1>d, <1>m, <1>3, PutPiece, ZenonT(60)
<1> HIDE DEF left, right
<1>7. \A i \in D : left[i] = right[i]
  <2> TAKE i \in D
  <2>0. i \in Nat
    BY <1>d
  <2>1. CASE i < p \/ i >= p + b
    <3>1. left[i] = m2[i] /\ m2[i] = m[i]
      BY <1>0, <1>1, <1>2, <1>4, <1>5, <2>0, <2>1
    <3>2. right[i] = m[i]
      BY <1>0, <1>3, <1>6, <2>0, <2>1
    <3> QED BY <3>1, <3>2
  <2>2. CASE p <= i /\ i < p + k
    <3>1. i - p + 1 \in 1..k /\ i - p + 1 \in 1..b
      BY <1>0, <2>0, <2>2
    <3>2. first[i - p + 1] = all[i - p + 1]
      BY <1>1, <1>3, <3>1
    <3>3. left[i] = m2[i] /\ m2[i] = first[i - p + 1]
      BY <1>0, <1>1, <1>2, <1>4, <1>5, <2>0, <2>2
    <3>4. right[i] = all[i - p + 1]
      BY <1>0, <1>3, <1>6, <2>0, <2>2
    <3> QED BY <3>2, <3>3, <3>4
  <2>3. CASE p + k <= i /\ i < p + b
    <3>1. /\ i - p + 1 \in 1..b /\ i - (p + k) + 1 \in 1..(b - k)
          /\ (c + k) + (i - (p + k) + 1) - 1 = c + (i - p + 1) - 1
      BY <1>0, <2>0, <2>3
    <3>2. rest[i - (p + k) + 1] = s[(c + k) + (i - (p + k) + 1) - 1]
      BY <1>2, <3>1
    <3>3. all[i - p + 1] = s[c + (i - p + 1) - 1]
      BY <1>3, <3>1
    <3>4. left[i] = rest[i - (p + k) + 1]
      BY <1>0, <1>2, <1>5, <2>0, <2>3
    <3>5. right[i] = all[i - p + 1]
      BY <1>0, <1>3, <1>6, <2>0, <2>3
    <3> QED BY <3>1, <3>2, <3>3, <3>4, <3>5
  <2> QED BY <1>0, <2>0, <2>1, <2>2, <2>3
<1>8. left = right
  <2>1. left \in [D -> Nat]
    BY <1>5
  <2>2. right \in [D -> Nat]
    BY <1>6
  <2>3. \A f, g \in [D -> Nat] : (\A i \in D : f[i] = g[i]) => f = g
    BY ONLY SameArray
  <2> QED BY ONLY <1>7, <2>1, <2>2, <2>3, Zenon
<1> QED BY <1>8 DEF left, right, m2, first, rest, all

USE SizesAssumption, BoundsAssumption

-----------------------------------------------------------------------------
(* The inductive invariant                                                 *)

(* What the buffer holds lies just before the media's position.  Only a    *)
(* seek that failed breaks that, for it throws the buffer away; then END   *)
(* keeps every read and skip away from the media.                          *)
InputInv ==
    /\ pc \in {"idle", "read", "skip"}
    /\ PosOf + bytes_in_buffer <= mpos
    /\ ~end => PosOf + bytes_in_buffer = mpos
    /\ pc # "idle" => size > 0 /\ bytes_in_buffer = 0 /\ ~end
    /\ pc = "read" => current = 0 /\ call.op = "read"

(* The bytes of the buffer belong just after the media's position.         *)
OutputPosition ==
    /\ mpos + bytes_in_buffer <= PosOf /\ PosOf <= Length
    /\ ~error => mpos + bytes_in_buffer = PosOf

OutputBuffer ==
    /\ pc = "write" \/ (pc = "idle" /\ ~error) => current = bytes_in_buffer
    /\ pc = "flush" => current + bytes_in_buffer <= BufferSize
    /\ pc \in {"wskip", "wseek"} => bytes_in_buffer = 0 /\ current = 0

(* A call in progress does not pass the end of the media.                  *)
OutputCall ==
    /\ pc \in {"idle", "write", "flush", "wskip", "wseek"}
    /\ pc = "write" => call.op = "write"
    /\ pc = "wseek" => call.op = "seek"
    /\ pc = "flush" => call.op \in {"write", "flush", "skip", "seek"}
    /\ pc \in {"write", "flush"} /\ call.op = "write" => byte_offset + Len(src) <= Length
    /\ pc # "idle" /\ call.op = "seek" => call.arg <= Length
    /\ pc = "flush" /\ call.op = "skip" => byte_offset + call.arg <= Length /\ done = 0
    /\ pc = "wskip" => PosOf + size <= Length

OutputInv == OutputPosition /\ OutputBuffer /\ OutputCall

(* A skip in progress knows how far it has come.                           *)
SkipInv ==
    /\ pc \in {"skip", "wskip"} =>
          /\ call.op = "skip" /\ size > 0 /\ done + size = call.arg
    /\ pc # "idle" /\ call.op = "skip" => byte_offset = call.start
    /\ SkipHonest

ControlInv ==
    /\ FlagsTypeOK /\ BufferTypeOK /\ PositionTypeOK /\ CallTypeOK
    /\ input => InputInv
    /\ ~input => OutputInv
    /\ SkipInv

IInv == ControlInv /\ DataTypeOK

-----------------------------------------------------------------------------
(* Bytes                                                                   *)

LEMMA GetType ==
    ASSUME NEW N \in Nat, NEW f \in [0..(N - 1) -> Nat], NEW at \in Nat, NEW n \in Nat,
           at + n <= N
    PROVE  Get(f, at, n) \in Seq(Nat) /\ Len(Get(f, at, n)) = n
<1>1. \A i \in 1..n : at + i - 1 \in 0..(N - 1)
  OBVIOUS
<1>2. Get(f, at, n) \in [1..n -> Nat]
  BY <1>1 DEF Get
<1> QED BY <1>2

LEMMA PutType ==
    ASSUME NEW N \in Nat, NEW f \in [0..(N - 1) -> Nat], NEW at \in Nat,
           NEW bytes \in Seq(Nat)
    PROVE  Put(f, at, bytes) \in [0..(N - 1) -> Nat]
<1>1. ASSUME NEW i \in 0..(N - 1), i \in at..(at + Len(bytes) - 1)
      PROVE  bytes[i - at + 1] \in Nat
  <2>1. i - at + 1 \in 1..Len(bytes)
    BY <1>1
  <2> QED BY <2>1
<1> QED BY <1>1 DEF Put

LEMMA CutType ==
    ASSUME NEW s \in Seq(Nat), NEW k \in 0..Len(s)
    PROVE  /\ SubSeq(s, 1, k) \in Seq(Nat) /\ Len(SubSeq(s, 1, k)) = k
           /\ SubSeq(s, k + 1, Len(s)) \in Seq(Nat)
           /\ Len(SubSeq(s, k + 1, Len(s))) = Len(s) - k
OBVIOUS

-----------------------------------------------------------------------------
(* Every action preserves the invariant                                    *)

LEMMA ReadDataControl ==
    ASSUME ControlInv, NEW n \in Sizes, ReadData(n)
    PROVE  ControlInv'
<1>0. input /\ input' = input
  BY DEF ControlInv, ReadData, flagVars
<1>1. FlagsTypeOK'
  BY <1>0 DEF ControlInv, ReadData, FlagsTypeOK, Call, Goto, Return,
         ReturnCount, Minimum, flagVars, mediaVars
<1>2. BufferTypeOK'
  BY <1>0 DEF ControlInv, ReadData, FlagsTypeOK, BufferTypeOK,
         PositionTypeOK, CallTypeOK, InputInv, Call, Goto, Return,
         ReturnCount, Minimum, flagVars, mediaVars
<1>3. PositionTypeOK'
  BY <1>0 DEF ControlInv, ReadData, BufferTypeOK, PositionTypeOK,
         CallTypeOK, InputInv, PosOf, Call, Goto, Return, ReturnCount,
         Minimum, flagVars, mediaVars
<1>4. CallTypeOK'
  BY <1>0 DEF ControlInv, ReadData, BufferTypeOK, PositionTypeOK,
         CallTypeOK, InputInv, Ops, Loops, Call, Goto, Return, ReturnCount,
         Minimum, flagVars, mediaVars
<1>5. InputInv'
  BY <1>0 DEF ControlInv, ReadData, FlagsTypeOK, BufferTypeOK,
         PositionTypeOK, CallTypeOK, InputInv, PosOf, SkipInv, Call, Goto,
         Return, ReturnCount, Minimum, flagVars, mediaVars
<1>6. SkipInv'
  BY <1>0 DEF ControlInv, ReadData, FlagsTypeOK, BufferTypeOK,
         PositionTypeOK, CallTypeOK, InputInv, PosOf, SkipInv, SkipHonest,
         Call, Goto, Return, ReturnCount, Minimum, flagVars, mediaVars
<1> QED BY <1>0, <1>1, <1>2, <1>3, <1>4, <1>5, <1>6 DEF ControlInv

LEMMA ReadMediaControl ==
    ASSUME ControlInv, Len(got) \in Nat, ReadMedia
    PROVE  ControlInv'
<1>0. input /\ input' = input
  BY DEF ControlInv, ReadMedia, OutputInv, OutputCall, flagVars
<1>1. FlagsTypeOK'
  BY <1>0 DEF ControlInv, ReadMedia, FlagsTypeOK, Goto, Return, Minimum,
         flagVars
<1>2. BufferTypeOK'
  BY <1>0 DEF ControlInv, ReadMedia, FlagsTypeOK, BufferTypeOK,
         PositionTypeOK, CallTypeOK, InputInv, Goto, Return, Minimum,
         flagVars
<1>3. PositionTypeOK'
  BY <1>0 DEF ControlInv, ReadMedia, BufferTypeOK, PositionTypeOK,
         CallTypeOK, InputInv, PosOf, Goto, Return, Minimum, flagVars
<1>4. CallTypeOK'
  BY <1>0 DEF ControlInv, ReadMedia, BufferTypeOK, PositionTypeOK,
         CallTypeOK, InputInv, Ops, Loops, Goto, Return, Minimum, flagVars
<1>5. InputInv'
  BY <1>0 DEF ControlInv, ReadMedia, FlagsTypeOK, BufferTypeOK,
         PositionTypeOK, CallTypeOK, InputInv, PosOf, SkipInv, Goto, Return,
         Minimum, flagVars
<1>6. SkipInv'
  BY <1>0 DEF ControlInv, ReadMedia, FlagsTypeOK, BufferTypeOK,
         PositionTypeOK, CallTypeOK, InputInv, PosOf, SkipInv, SkipHonest,
         Goto, Return, Minimum, flagVars
<1> QED BY <1>0, <1>1, <1>2, <1>3, <1>4, <1>5, <1>6 DEF ControlInv

LEMMA ReadEndControl ==
    ASSUME ControlInv, Len(got) \in Nat, ReadEnd
    PROVE  ControlInv'
<1>0. input /\ input' = input
  BY DEF ControlInv, ReadEnd, OutputInv, OutputCall
<1>1. FlagsTypeOK'
  BY <1>0 DEF ControlInv, ReadEnd, FlagsTypeOK, Fails, Return, ReturnCount,
         mediaVars
<1>2. BufferTypeOK'
  BY <1>0 DEF ControlInv, ReadEnd, FlagsTypeOK, BufferTypeOK,
         PositionTypeOK, CallTypeOK, InputInv, Fails, Return, ReturnCount,
         mediaVars
<1>3. PositionTypeOK'
  BY <1>0 DEF ControlInv, ReadEnd, BufferTypeOK, PositionTypeOK, CallTypeOK,
         InputInv, PosOf, Fails, Return, ReturnCount, mediaVars
<1>4. CallTypeOK'
  BY <1>0 DEF ControlInv, ReadEnd, BufferTypeOK, PositionTypeOK, CallTypeOK,
         InputInv, Ops, Loops, Fails, Return, ReturnCount, mediaVars
<1>5. InputInv'
  BY <1>0 DEF ControlInv, ReadEnd, FlagsTypeOK, BufferTypeOK,
         PositionTypeOK, CallTypeOK, InputInv, PosOf, SkipInv, Fails,
         Return, ReturnCount, mediaVars
<1>6. SkipInv'
  BY <1>0 DEF ControlInv, ReadEnd, FlagsTypeOK, BufferTypeOK,
         PositionTypeOK, CallTypeOK, InputInv, PosOf, SkipInv, SkipHonest,
         Fails, Return, ReturnCount, mediaVars
<1> QED BY <1>0, <1>1, <1>2, <1>3, <1>4, <1>5, <1>6 DEF ControlInv

LEMMA ReadSkipControl ==
    ASSUME ControlInv, NEW n \in Sizes, ReadSkip(n)
    PROVE  ControlInv'
<1>0. input /\ input' = input
  BY DEF ControlInv, ReadSkip, flagVars
<1>1. FlagsTypeOK'
  BY <1>0 DEF ControlInv, ReadSkip, FlagsTypeOK, Call, Goto, Return,
         ReturnCount, Minimum, flagVars, mediaVars
<1>2. BufferTypeOK'
  BY <1>0 DEF ControlInv, ReadSkip, FlagsTypeOK, BufferTypeOK,
         PositionTypeOK, CallTypeOK, InputInv, Call, Goto, Return,
         ReturnCount, Minimum, flagVars, mediaVars
<1>3. PositionTypeOK'
  BY <1>0 DEF ControlInv, ReadSkip, BufferTypeOK, PositionTypeOK,
         CallTypeOK, InputInv, PosOf, Call, Goto, Return, ReturnCount,
         Minimum, flagVars, mediaVars
<1>4. CallTypeOK'
  BY <1>0, SMTT(60) DEF ControlInv, ReadSkip, BufferTypeOK, PositionTypeOK,
         CallTypeOK, InputInv, Ops, Loops, Call, Goto, Return, ReturnCount,
         Minimum, flagVars, mediaVars
<1>5. InputInv'
  BY <1>0, SMTT(60) DEF ControlInv, ReadSkip, FlagsTypeOK, BufferTypeOK,
         PositionTypeOK, CallTypeOK, InputInv, PosOf, SkipInv, Call, Goto,
         Return, ReturnCount, Minimum, flagVars, mediaVars
<1>6. SkipInv'
  BY <1>0, SMTT(60) DEF ControlInv, ReadSkip, FlagsTypeOK, BufferTypeOK,
         PositionTypeOK, CallTypeOK, InputInv, PosOf, SkipInv, SkipHonest,
         Call, Goto, Return, ReturnCount, Minimum, flagVars, mediaVars
<1> QED BY <1>0, <1>1, <1>2, <1>3, <1>4, <1>5, <1>6 DEF ControlInv

LEMMA SkipMediaControl ==
    ASSUME ControlInv, SkipMedia
    PROVE  ControlInv'
<1>0. input /\ input' = input
  BY DEF ControlInv, SkipMedia, OutputInv, OutputCall
<1>1. FlagsTypeOK'
  BY <1>0 DEF ControlInv, SkipMedia, FlagsTypeOK, Fails, Goto, Return,
         ReturnCount
<1>2. BufferTypeOK'
  BY <1>0 DEF ControlInv, SkipMedia, FlagsTypeOK, BufferTypeOK,
         PositionTypeOK, CallTypeOK, InputInv, Fails, Goto, Return,
         ReturnCount
<1>3. PositionTypeOK'
  BY <1>0 DEF ControlInv, SkipMedia, BufferTypeOK, PositionTypeOK,
         CallTypeOK, InputInv, PosOf, Fails, Goto, Return, ReturnCount
<1>4. CallTypeOK'
  BY <1>0 DEF ControlInv, SkipMedia, BufferTypeOK, PositionTypeOK,
         CallTypeOK, InputInv, Ops, Loops, Fails, Goto, Return, ReturnCount
<1>5. InputInv'
  BY <1>0 DEF ControlInv, SkipMedia, FlagsTypeOK, BufferTypeOK,
         PositionTypeOK, CallTypeOK, InputInv, PosOf, SkipInv, Fails, Goto,
         Return, ReturnCount
<1>6. SkipInv'
  BY <1>0 DEF ControlInv, SkipMedia, FlagsTypeOK, BufferTypeOK,
         PositionTypeOK, CallTypeOK, InputInv, PosOf, SkipInv, SkipHonest,
         Fails, Goto, Return, ReturnCount
<1> QED BY <1>0, <1>1, <1>2, <1>3, <1>4, <1>5, <1>6 DEF ControlInv

LEMMA SkipToEndControl ==
    ASSUME ControlInv, SkipToEnd
    PROVE  ControlInv'
<1>0. input /\ input' = input
  BY DEF ControlInv, SkipToEnd, OutputInv, OutputCall
<1>1. FlagsTypeOK'
  BY <1>0 DEF ControlInv, SkipToEnd, FlagsTypeOK, Fails, Return, ReturnCount
<1>2. BufferTypeOK'
  BY <1>0 DEF ControlInv, SkipToEnd, FlagsTypeOK, BufferTypeOK,
         PositionTypeOK, CallTypeOK, InputInv, Fails, Return, ReturnCount
<1>3. PositionTypeOK'
  BY <1>0 DEF ControlInv, SkipToEnd, BufferTypeOK, PositionTypeOK,
         CallTypeOK, InputInv, PosOf, Fails, Return, ReturnCount
<1>4. CallTypeOK'
  BY <1>0 DEF ControlInv, SkipToEnd, BufferTypeOK, PositionTypeOK,
         CallTypeOK, InputInv, Ops, Loops, Fails, Return, ReturnCount
<1>5. InputInv'
  BY <1>0 DEF ControlInv, SkipToEnd, FlagsTypeOK, BufferTypeOK,
         PositionTypeOK, CallTypeOK, InputInv, PosOf, SkipInv, Fails,
         Return, ReturnCount
<1>6. SkipInv'
  BY <1>0 DEF ControlInv, SkipToEnd, FlagsTypeOK, BufferTypeOK,
         PositionTypeOK, CallTypeOK, InputInv, PosOf, SkipInv, SkipHonest,
         Fails, Return, ReturnCount
<1> QED BY <1>0, <1>1, <1>2, <1>3, <1>4, <1>5, <1>6 DEF ControlInv

LEMMA ReadSeekControl ==
    ASSUME ControlInv, NEW p \in 0..Length, ReadSeek(p)
    PROVE  ControlInv'
<1>0. input /\ input' = input
  BY DEF ControlInv, ReadSeek
<1>1. FlagsTypeOK'
  BY <1>0 DEF ControlInv, ReadSeek, FlagsTypeOK, Call, Fails, Return
<1>2. BufferTypeOK'
  BY <1>0 DEF ControlInv, ReadSeek, FlagsTypeOK, BufferTypeOK,
         PositionTypeOK, CallTypeOK, InputInv, Call, Fails, Return
<1>3. PositionTypeOK'
  BY <1>0 DEF ControlInv, ReadSeek, BufferTypeOK, PositionTypeOK,
         CallTypeOK, InputInv, PosOf, Call, Fails, Return
<1>4. CallTypeOK'
  BY <1>0, SMTT(60) DEF ControlInv, ReadSeek, BufferTypeOK, PositionTypeOK,
         CallTypeOK, InputInv, Ops, Loops, Call, Fails, Return
<1>5. InputInv'
  BY <1>0 DEF ControlInv, ReadSeek, FlagsTypeOK, BufferTypeOK,
         PositionTypeOK, CallTypeOK, InputInv, PosOf, SkipInv, Call, Fails,
         Return
<1>6. SkipInv'
  BY <1>0 DEF ControlInv, ReadSeek, FlagsTypeOK, BufferTypeOK,
         PositionTypeOK, CallTypeOK, InputInv, PosOf, SkipInv, SkipHonest,
         Call, Fails, Return
<1> QED BY <1>0, <1>1, <1>2, <1>3, <1>4, <1>5, <1>6 DEF ControlInv

LEMMA WriteDataControl ==
    ASSUME ControlInv, NEW n \in Sizes, Len(src') = n, WriteData(n)
    PROVE  ControlInv'
<1>0. ~input /\ input' = input
  BY DEF ControlInv, WriteData, flagVars
<1>1. FlagsTypeOK'
  BY <1>0 DEF ControlInv, WriteData, FlagsTypeOK, Call, Goto, Return,
         flagVars, bufferVars, mediaVars
<1>2. BufferTypeOK'
  BY <1>0 DEF ControlInv, WriteData, FlagsTypeOK, BufferTypeOK,
         PositionTypeOK, CallTypeOK, OutputInv, OutputBuffer, Call, Goto,
         Return, flagVars, bufferVars, mediaVars
<1>3. PositionTypeOK'
  BY <1>0 DEF ControlInv, WriteData, BufferTypeOK, PositionTypeOK,
         CallTypeOK, OutputInv, OutputPosition, OutputBuffer, OutputCall,
         PosOf, Call, Goto, Return, flagVars, bufferVars, mediaVars
<1>4. CallTypeOK'
  BY <1>0 DEF ControlInv, WriteData, BufferTypeOK, PositionTypeOK,
         CallTypeOK, Ops, Loops, Call, Goto, Return, flagVars, bufferVars,
         mediaVars
<1>5. OutputPosition'
  BY <1>0 DEF ControlInv, WriteData, FlagsTypeOK, BufferTypeOK,
         PositionTypeOK, CallTypeOK, OutputInv, OutputPosition,
         OutputBuffer, OutputCall, PosOf, SkipInv, Call, Goto, Return,
         flagVars, bufferVars, mediaVars
<1>6. OutputBuffer'
  BY <1>0 DEF ControlInv, WriteData, FlagsTypeOK, BufferTypeOK,
         PositionTypeOK, CallTypeOK, OutputInv, OutputPosition,
         OutputBuffer, OutputCall, Call, Goto, Return, flagVars, bufferVars,
         mediaVars
<1>7. OutputCall'
  BY <1>0 DEF ControlInv, WriteData, FlagsTypeOK, BufferTypeOK,
         PositionTypeOK, CallTypeOK, OutputInv, OutputPosition,
         OutputBuffer, OutputCall, PosOf, SkipInv, Call, Goto, Return,
         flagVars, bufferVars, mediaVars
<1>8. SkipInv'
  BY <1>0 DEF ControlInv, WriteData, FlagsTypeOK, BufferTypeOK,
         PositionTypeOK, CallTypeOK, OutputInv, OutputPosition,
         OutputBuffer, OutputCall, PosOf, SkipInv, SkipHonest, Call, Goto,
         Return, flagVars, bufferVars, mediaVars
<1> QED BY <1>0, <1>1, <1>2, <1>3, <1>4, <1>5, <1>6, <1>7, <1>8 DEF ControlInv, OutputInv

LEMMA WriteChunkControl ==
    ASSUME ControlInv,
           Len(src) \in Nat,
           Len(src') = Len(src) - Minimum(BufferSize - bytes_in_buffer, Len(src)), WriteChunk
    PROVE  ControlInv'
<1>0. ~input /\ input' = input
  BY DEF ControlInv, WriteChunk, InputInv, flagVars
<1>1. FlagsTypeOK'
  BY <1>0 DEF ControlInv, WriteChunk, FlagsTypeOK, Goto, Return, Minimum,
         flagVars, mediaVars
<1>2. BufferTypeOK'
  BY <1>0 DEF ControlInv, WriteChunk, FlagsTypeOK, BufferTypeOK,
         PositionTypeOK, CallTypeOK, OutputInv, OutputBuffer, Goto, Return,
         Minimum, flagVars, mediaVars
<1>3. PositionTypeOK'
  BY <1>0 DEF ControlInv, WriteChunk, BufferTypeOK, PositionTypeOK,
         CallTypeOK, OutputInv, OutputPosition, OutputBuffer, OutputCall,
         PosOf, Goto, Return, Minimum, flagVars, mediaVars
<1>4. CallTypeOK'
  BY <1>0, SMTT(60) DEF ControlInv, WriteChunk, BufferTypeOK, PositionTypeOK,
         CallTypeOK, Ops, Loops, Goto, Return, Minimum, flagVars, mediaVars
<1>5. OutputPosition'
  <2> DEFINE k == Minimum(BufferSize - bytes_in_buffer, Len(src))
  <2>1. bytes_in_buffer' = bytes_in_buffer + k /\ byte_offset' = byte_offset + k
    BY DEF WriteChunk
  <2>2. mpos' = mpos /\ error' = error
    BY DEF WriteChunk, flagVars, mediaVars
  <2>3. k \in 0..Len(src)
    BY DEF ControlInv, BufferTypeOK, Minimum
  <2>4. PosOf = byte_offset /\ PosOf' = byte_offset'
    BY DEF WriteChunk, Return, Goto, PosOf
  <2>5. byte_offset + Len(src) <= Length
    BY <1>0 DEF WriteChunk, ControlInv, OutputInv, OutputCall
  <2>6. OutputPosition
    BY <1>0 DEF ControlInv, OutputInv
  <2> HIDE DEF k
  <2> QED BY <2>1, <2>2, <2>3, <2>4, <2>5, <2>6
          DEF OutputPosition, ControlInv, BufferTypeOK, PositionTypeOK
<1>6. OutputBuffer'
  BY <1>0, SMTT(60) DEF ControlInv, WriteChunk, FlagsTypeOK, BufferTypeOK,
         PositionTypeOK, CallTypeOK, OutputInv, OutputPosition,
         OutputBuffer, OutputCall, Goto, Return, Minimum, flagVars,
         mediaVars
<1>7. OutputCall'
  BY <1>0, SMTT(60) DEF ControlInv, WriteChunk, FlagsTypeOK, BufferTypeOK,
         PositionTypeOK, CallTypeOK, OutputInv, OutputPosition,
         OutputBuffer, OutputCall, PosOf, SkipInv, Goto, Return, Minimum,
         flagVars, mediaVars
<1>8. SkipInv'
  BY <1>0 DEF ControlInv, WriteChunk, FlagsTypeOK, BufferTypeOK,
         PositionTypeOK, CallTypeOK, OutputInv, OutputPosition,
         OutputBuffer, OutputCall, PosOf, SkipInv, SkipHonest, Goto, Return,
         Minimum, flagVars, mediaVars
<1> QED BY <1>0, <1>1, <1>2, <1>3, <1>4, <1>5, <1>6, <1>7, <1>8 DEF ControlInv, OutputInv

LEMMA FlushControl ==
    ASSUME ControlInv, NEW op, NEW n \in Nat, op = "seek" => n <= Length, Flush(op, n)
    PROVE  ControlInv'
<1>0. ~input /\ input' = input
  BY DEF ControlInv, Flush, flagVars
<1>1. FlagsTypeOK'
  BY <1>0 DEF ControlInv, Flush, FlagsTypeOK, Call, Goto, Return, flagVars,
         mediaVars
<1>2. BufferTypeOK'
  BY <1>0 DEF ControlInv, Flush, FlagsTypeOK, BufferTypeOK, PositionTypeOK,
         CallTypeOK, OutputInv, OutputBuffer, Call, Goto, Return, flagVars,
         mediaVars
<1>3. PositionTypeOK'
  BY <1>0 DEF ControlInv, Flush, BufferTypeOK, PositionTypeOK, CallTypeOK,
         OutputInv, OutputPosition, OutputBuffer, OutputCall, PosOf, Call,
         Goto, Return, flagVars, mediaVars
<1>4. CallTypeOK'
  BY <1>0 DEF ControlInv, Flush, BufferTypeOK, PositionTypeOK, CallTypeOK,
         Ops, Loops, Call, Goto, Return, flagVars, mediaVars
<1>5. OutputPosition'
  BY <1>0 DEF ControlInv, Flush, FlagsTypeOK, BufferTypeOK, PositionTypeOK,
         CallTypeOK, OutputInv, OutputPosition, OutputBuffer, OutputCall,
         PosOf, SkipInv, Call, Goto, Return, flagVars, mediaVars
<1>6. OutputBuffer'
  BY <1>0 DEF ControlInv, Flush, FlagsTypeOK, BufferTypeOK, PositionTypeOK,
         CallTypeOK, OutputInv, OutputPosition, OutputBuffer, OutputCall,
         Call, Goto, Return, flagVars, mediaVars
<1>7. OutputCall'
  BY <1>0 DEF ControlInv, Flush, FlagsTypeOK, BufferTypeOK, PositionTypeOK,
         CallTypeOK, OutputInv, OutputPosition, OutputBuffer, OutputCall,
         PosOf, SkipInv, Call, Goto, Return, flagVars, mediaVars
<1>8. SkipInv'
  BY <1>0 DEF ControlInv, Flush, FlagsTypeOK, BufferTypeOK, PositionTypeOK,
         CallTypeOK, OutputInv, OutputPosition, OutputBuffer, OutputCall,
         PosOf, SkipInv, SkipHonest, Call, Goto, Return, flagVars, mediaVars
<1> QED BY <1>0, <1>1, <1>2, <1>3, <1>4, <1>5, <1>6, <1>7, <1>8 DEF ControlInv, OutputInv

LEMMA FlushMediaControl ==
    ASSUME ControlInv, FlushMedia
    PROVE  ControlInv'
<1>0. ~input /\ input' = input
  BY DEF ControlInv, FlushMedia, InputInv, flagVars
<1>1. FlagsTypeOK'
  BY <1>0 DEF ControlInv, FlushMedia, FlagsTypeOK, flagVars, callVars
<1>2. BufferTypeOK'
  BY <1>0 DEF ControlInv, FlushMedia, FlagsTypeOK, BufferTypeOK,
         PositionTypeOK, CallTypeOK, OutputInv, OutputBuffer, flagVars,
         callVars
<1>3. PositionTypeOK'
  BY <1>0 DEF ControlInv, FlushMedia, BufferTypeOK, PositionTypeOK,
         CallTypeOK, OutputInv, OutputPosition, OutputBuffer, OutputCall,
         PosOf, flagVars, callVars
<1>4. CallTypeOK'
  BY <1>0 DEF ControlInv, FlushMedia, BufferTypeOK, PositionTypeOK,
         CallTypeOK, Ops, Loops, flagVars, callVars
<1>5. OutputPosition'
  BY <1>0 DEF ControlInv, FlushMedia, FlagsTypeOK, BufferTypeOK,
         PositionTypeOK, CallTypeOK, OutputInv, OutputPosition,
         OutputBuffer, OutputCall, PosOf, SkipInv, flagVars, callVars
<1>6. OutputBuffer'
  BY <1>0 DEF ControlInv, FlushMedia, FlagsTypeOK, BufferTypeOK,
         PositionTypeOK, CallTypeOK, OutputInv, OutputPosition,
         OutputBuffer, OutputCall, flagVars, callVars
<1>7. OutputCall'
  BY <1>0 DEF ControlInv, FlushMedia, FlagsTypeOK, BufferTypeOK,
         PositionTypeOK, CallTypeOK, OutputInv, OutputPosition,
         OutputBuffer, OutputCall, PosOf, SkipInv, flagVars, callVars
<1>8. SkipInv'
  BY <1>0 DEF ControlInv, FlushMedia, FlagsTypeOK, BufferTypeOK,
         PositionTypeOK, CallTypeOK, OutputInv, OutputPosition,
         OutputBuffer, OutputCall, PosOf, SkipInv, SkipHonest, flagVars,
         callVars
<1> QED BY <1>0, <1>1, <1>2, <1>3, <1>4, <1>5, <1>6, <1>7, <1>8 DEF ControlInv, OutputInv

LEMMA FlushFailsControl ==
    ASSUME ControlInv, FlushFails
    PROVE  ControlInv'
<1>0. ~input /\ input' = input
  BY DEF ControlInv, FlushFails, InputInv
<1>1. FlagsTypeOK'
  BY <1>0 DEF ControlInv, FlushFails, FlagsTypeOK, Fails, Return, mediaVars
<1>2. BufferTypeOK'
  BY <1>0 DEF ControlInv, FlushFails, FlagsTypeOK, BufferTypeOK,
         PositionTypeOK, CallTypeOK, OutputInv, OutputBuffer, Fails, Return,
         mediaVars
<1>3. PositionTypeOK'
  BY <1>0 DEF ControlInv, FlushFails, BufferTypeOK, PositionTypeOK,
         CallTypeOK, OutputInv, OutputPosition, OutputBuffer, OutputCall,
         PosOf, Fails, Return, mediaVars
<1>4. CallTypeOK'
  BY <1>0 DEF ControlInv, FlushFails, BufferTypeOK, PositionTypeOK,
         CallTypeOK, Ops, Loops, Fails, Return, mediaVars
<1>5. OutputPosition'
  BY <1>0 DEF ControlInv, FlushFails, FlagsTypeOK, BufferTypeOK,
         PositionTypeOK, CallTypeOK, OutputInv, OutputPosition,
         OutputBuffer, OutputCall, PosOf, SkipInv, Fails, Return, mediaVars
<1>6. OutputBuffer'
  BY <1>0 DEF ControlInv, FlushFails, FlagsTypeOK, BufferTypeOK,
         PositionTypeOK, CallTypeOK, OutputInv, OutputPosition,
         OutputBuffer, OutputCall, Fails, Return, mediaVars
<1>7. OutputCall'
  BY <1>0 DEF ControlInv, FlushFails, FlagsTypeOK, BufferTypeOK,
         PositionTypeOK, CallTypeOK, OutputInv, OutputPosition,
         OutputBuffer, OutputCall, PosOf, SkipInv, Fails, Return, mediaVars
<1>8. SkipInv'
  BY <1>0 DEF ControlInv, FlushFails, FlagsTypeOK, BufferTypeOK,
         PositionTypeOK, CallTypeOK, OutputInv, OutputPosition,
         OutputBuffer, OutputCall, PosOf, SkipInv, SkipHonest, Fails,
         Return, mediaVars
<1> QED BY <1>0, <1>1, <1>2, <1>3, <1>4, <1>5, <1>6, <1>7, <1>8 DEF ControlInv, OutputInv

LEMMA DiskFullControl ==
    ASSUME ControlInv, DiskFull
    PROVE  ControlInv'
<1>0. ~input /\ input' = input
  BY DEF ControlInv, DiskFull, InputInv, flagVars
<1>1. FlagsTypeOK'
  BY <1>0 DEF ControlInv, DiskFull, FlagsTypeOK, Fails, flagVars,
         bufferVars, callVars
<1>2. BufferTypeOK'
  BY <1>0 DEF ControlInv, DiskFull, FlagsTypeOK, BufferTypeOK,
         PositionTypeOK, CallTypeOK, OutputInv, OutputBuffer, Fails,
         flagVars, bufferVars, callVars
<1>3. PositionTypeOK'
  BY <1>0 DEF ControlInv, DiskFull, BufferTypeOK, PositionTypeOK,
         CallTypeOK, OutputInv, OutputPosition, OutputBuffer, OutputCall,
         PosOf, Fails, flagVars, bufferVars, callVars
<1>4. CallTypeOK'
  BY <1>0 DEF ControlInv, DiskFull, BufferTypeOK, PositionTypeOK,
         CallTypeOK, Ops, Loops, Fails, flagVars, bufferVars, callVars
<1>5. OutputPosition'
  BY <1>0 DEF ControlInv, DiskFull, FlagsTypeOK, BufferTypeOK,
         PositionTypeOK, CallTypeOK, OutputInv, OutputPosition,
         OutputBuffer, OutputCall, PosOf, SkipInv, Fails, flagVars,
         bufferVars, callVars
<1>6. OutputBuffer'
  BY <1>0 DEF ControlInv, DiskFull, FlagsTypeOK, BufferTypeOK,
         PositionTypeOK, CallTypeOK, OutputInv, OutputPosition,
         OutputBuffer, OutputCall, Fails, flagVars, bufferVars, callVars
<1>7. OutputCall'
  BY <1>0 DEF ControlInv, DiskFull, FlagsTypeOK, BufferTypeOK,
         PositionTypeOK, CallTypeOK, OutputInv, OutputPosition,
         OutputBuffer, OutputCall, PosOf, SkipInv, Fails, flagVars,
         bufferVars, callVars
<1>8. SkipInv'
  BY <1>0 DEF ControlInv, DiskFull, FlagsTypeOK, BufferTypeOK,
         PositionTypeOK, CallTypeOK, OutputInv, OutputPosition,
         OutputBuffer, OutputCall, PosOf, SkipInv, SkipHonest, Fails,
         flagVars, bufferVars, callVars
<1> QED BY <1>0, <1>1, <1>2, <1>3, <1>4, <1>5, <1>6, <1>7, <1>8 DEF ControlInv, OutputInv

LEMMA FlushedControl ==
    ASSUME ControlInv, Flushed
    PROVE  ControlInv'
<1>0. ~input /\ input' = input
  BY DEF ControlInv, Flushed, InputInv, flagVars
<1>1. FlagsTypeOK'
  BY <1>0 DEF ControlInv, Flushed, FlagsTypeOK, Goto, Return, flagVars,
         mediaVars
<1>2. BufferTypeOK'
  BY <1>0 DEF ControlInv, Flushed, FlagsTypeOK, BufferTypeOK,
         PositionTypeOK, CallTypeOK, OutputInv, OutputBuffer, Goto, Return,
         flagVars, mediaVars
<1>3. PositionTypeOK'
  BY <1>0 DEF ControlInv, Flushed, BufferTypeOK, PositionTypeOK, CallTypeOK,
         OutputInv, OutputPosition, OutputBuffer, OutputCall, PosOf, Goto,
         Return, flagVars, mediaVars
<1>4. CallTypeOK'
  BY <1>0 DEF ControlInv, Flushed, BufferTypeOK, PositionTypeOK, CallTypeOK,
         Ops, Loops, Goto, Return, flagVars, mediaVars
<1>5. OutputPosition'
  BY <1>0, SMTT(60) DEF ControlInv, Flushed, FlagsTypeOK, BufferTypeOK,
         PositionTypeOK, CallTypeOK, OutputInv, OutputPosition,
         OutputBuffer, OutputCall, PosOf, SkipInv, Goto, Return, flagVars,
         mediaVars
<1>6. OutputBuffer'
  BY <1>0 DEF ControlInv, Flushed, FlagsTypeOK, BufferTypeOK,
         PositionTypeOK, CallTypeOK, OutputInv, OutputPosition,
         OutputBuffer, OutputCall, Goto, Return, flagVars, mediaVars
<1>7. OutputCall'
  BY <1>0, SMTT(60) DEF ControlInv, Flushed, FlagsTypeOK, BufferTypeOK,
         PositionTypeOK, CallTypeOK, OutputInv, OutputPosition,
         OutputBuffer, OutputCall, PosOf, SkipInv, Goto, Return, flagVars,
         mediaVars
<1>8. SkipInv'
  BY <1>0, SMTT(60) DEF ControlInv, Flushed, FlagsTypeOK, BufferTypeOK,
         PositionTypeOK, CallTypeOK, OutputInv, OutputPosition,
         OutputBuffer, OutputCall, PosOf, SkipInv, SkipHonest, Goto, Return,
         flagVars, mediaVars
<1> QED BY <1>0, <1>1, <1>2, <1>3, <1>4, <1>5, <1>6, <1>7, <1>8 DEF ControlInv, OutputInv

LEMMA WriteSkipMediaControl ==
    ASSUME ControlInv, WriteSkipMedia
    PROVE  ControlInv'
<1>0. ~input /\ input' = input
  BY DEF ControlInv, WriteSkipMedia, InputInv
<1>1. FlagsTypeOK'
  BY <1>0 DEF ControlInv, WriteSkipMedia, FlagsTypeOK, Fails, Goto, Return,
         ReturnCount
<1>2. BufferTypeOK'
  BY <1>0 DEF ControlInv, WriteSkipMedia, FlagsTypeOK, BufferTypeOK,
         PositionTypeOK, CallTypeOK, OutputInv, OutputBuffer, Fails, Goto,
         Return, ReturnCount
<1>3. PositionTypeOK'
  BY <1>0 DEF ControlInv, WriteSkipMedia, BufferTypeOK, PositionTypeOK,
         CallTypeOK, OutputInv, OutputPosition, OutputBuffer, OutputCall,
         PosOf, Fails, Goto, Return, ReturnCount
<1>4. CallTypeOK'
  BY <1>0 DEF ControlInv, WriteSkipMedia, BufferTypeOK, PositionTypeOK,
         CallTypeOK, Ops, Loops, Fails, Goto, Return, ReturnCount
<1>5. OutputPosition'
  BY <1>0 DEF ControlInv, WriteSkipMedia, FlagsTypeOK, BufferTypeOK,
         PositionTypeOK, CallTypeOK, OutputInv, OutputPosition,
         OutputBuffer, OutputCall, PosOf, SkipInv, Fails, Goto, Return,
         ReturnCount
<1>6. OutputBuffer'
  BY <1>0 DEF ControlInv, WriteSkipMedia, FlagsTypeOK, BufferTypeOK,
         PositionTypeOK, CallTypeOK, OutputInv, OutputPosition,
         OutputBuffer, OutputCall, Fails, Goto, Return, ReturnCount
<1>7. OutputCall'
  <2>1. CASE pc' = "idle"
    BY <1>0, <2>1 DEF ControlInv, WriteSkipMedia, FlagsTypeOK, BufferTypeOK,
           PositionTypeOK, CallTypeOK, OutputInv, OutputPosition,
           OutputBuffer, OutputCall, PosOf, SkipInv, Fails, Goto, Return,
           ReturnCount
  <2>2. CASE pc' # "idle"
    BY <1>0, <2>2, SMTT(60) DEF ControlInv, WriteSkipMedia, FlagsTypeOK, BufferTypeOK,
           PositionTypeOK, CallTypeOK, OutputInv, OutputPosition,
           OutputBuffer, OutputCall, PosOf, SkipInv, Fails, Goto, Return,
           ReturnCount
  <2> QED BY <2>1, <2>2
<1>8. SkipInv'
  BY <1>0 DEF ControlInv, WriteSkipMedia, FlagsTypeOK, BufferTypeOK,
         PositionTypeOK, CallTypeOK, OutputInv, OutputPosition,
         OutputBuffer, OutputCall, PosOf, SkipInv, SkipHonest, Fails, Goto,
         Return, ReturnCount
<1> QED BY <1>0, <1>1, <1>2, <1>3, <1>4, <1>5, <1>6, <1>7, <1>8 DEF ControlInv, OutputInv

LEMMA WriteSeekControl ==
    ASSUME ControlInv, WriteSeek
    PROVE  ControlInv'
<1>0. ~input /\ input' = input
  BY DEF ControlInv, WriteSeek, InputInv
<1>1. FlagsTypeOK'
  BY <1>0 DEF ControlInv, WriteSeek, FlagsTypeOK, Fails, Return
<1>2. BufferTypeOK'
  BY <1>0 DEF ControlInv, WriteSeek, FlagsTypeOK, BufferTypeOK,
         PositionTypeOK, CallTypeOK, OutputInv, OutputBuffer, Fails, Return
<1>3. PositionTypeOK'
  BY <1>0 DEF ControlInv, WriteSeek, BufferTypeOK, PositionTypeOK,
         CallTypeOK, OutputInv, OutputPosition, OutputBuffer, OutputCall,
         PosOf, Fails, Return
<1>4. CallTypeOK'
  BY <1>0 DEF ControlInv, WriteSeek, BufferTypeOK, PositionTypeOK,
         CallTypeOK, Ops, Loops, Fails, Return
<1>5. OutputPosition'
  BY <1>0 DEF ControlInv, WriteSeek, FlagsTypeOK, BufferTypeOK,
         PositionTypeOK, CallTypeOK, OutputInv, OutputPosition,
         OutputBuffer, OutputCall, PosOf, SkipInv, Fails, Return
<1>6. OutputBuffer'
  BY <1>0 DEF ControlInv, WriteSeek, FlagsTypeOK, BufferTypeOK,
         PositionTypeOK, CallTypeOK, OutputInv, OutputPosition,
         OutputBuffer, OutputCall, Fails, Return
<1>7. OutputCall'
  BY <1>0 DEF ControlInv, WriteSeek, FlagsTypeOK, BufferTypeOK,
         PositionTypeOK, CallTypeOK, OutputInv, OutputPosition,
         OutputBuffer, OutputCall, PosOf, SkipInv, Fails, Return
<1>8. SkipInv'
  BY <1>0 DEF ControlInv, WriteSeek, FlagsTypeOK, BufferTypeOK,
         PositionTypeOK, CallTypeOK, OutputInv, OutputPosition,
         OutputBuffer, OutputCall, PosOf, SkipInv, SkipHonest, Fails, Return
<1> QED BY <1>0, <1>1, <1>2, <1>3, <1>4, <1>5, <1>6, <1>7, <1>8 DEF ControlInv, OutputInv

-----------------------------------------------------------------------------
(* The bytes keep their types                                              *)

LEMMA ReadDataBytes ==
    ASSUME IInv, NEW n \in Sizes, ReadData(n)
    PROVE  DataTypeOK'
<1> DEFINE k == Minimum(n, bytes_in_buffer)
<1>1. k \in Nat /\ current \in Nat /\ current + k <= BufferSize
  BY DEF IInv, ControlInv, BufferTypeOK, ReadData, Minimum
<1>2. stored \in [0..(BufferSize - 1) -> Nat]
  BY DEF IInv, DataTypeOK
<1>3. got' = Get(stored, current, k)
  BY DEF ReadData
<1> HIDE DEF k
<1>4. got' \in Seq(Nat)
  BY <1>1, <1>2, <1>3, GetType
<1>5. UNCHANGED <<stored, media, src>>
  BY DEF ReadData, mediaVars
<1> QED BY <1>4, <1>5 DEF IInv, DataTypeOK

LEMMA ReadMediaBytes ==
    ASSUME IInv, ReadMedia
    PROVE  DataTypeOK'
<1> DEFINE ask == IF size < BufferSize THEN BufferSize ELSE size
           piece(n) == Get(media, mpos, n)
<1>1. PICK k \in 1..Minimum(ask, Length - mpos) :
         /\ stored' = IF size < BufferSize THEN Put(stored, 0, piece(k)) ELSE stored
         /\ got' = got \o piece(Minimum(k, size))
  BY DEF ReadMedia
<1>2. mpos \in Nat /\ size \in Nat /\ Length - mpos \in Nat
  BY DEF IInv, ControlInv, PositionTypeOK, CallTypeOK
<1>3. k \in Nat /\ mpos + k <= Length
  BY <1>1, <1>2 DEF Minimum
<1>4. Minimum(k, size) \in Nat /\ mpos + Minimum(k, size) <= Length
  BY <1>2, <1>3 DEF Minimum
<1>5. /\ media \in [0..(Length - 1) -> Nat] /\ stored \in [0..(BufferSize - 1) -> Nat]
      /\ got \in Seq(Nat) /\ src \in Seq(Nat)
  BY DEF IInv, DataTypeOK, Offset
<1>6. piece(k) \in Seq(Nat) /\ piece(Minimum(k, size)) \in Seq(Nat)
  BY <1>2, <1>3, <1>4, <1>5, GetType
<1> HIDE DEF piece
<1>7. got' \in Seq(Nat)
  BY <1>1, <1>5, <1>6
<1>8. stored' \in [0..(BufferSize - 1) -> Nat]
  BY <1>1, <1>5, <1>6, PutType
<1>9. UNCHANGED <<media, src>>
  BY DEF ReadMedia
<1> QED BY <1>5, <1>7, <1>8, <1>9 DEF DataTypeOK, Offset

LEMMA WriteDataBytes ==
    ASSUME IInv, NEW n \in Sizes, WriteData(n)
    PROVE  DataTypeOK' /\ Len(src') = n
<1>1. call.nr \in Nat /\ n \in Nat
  BY DEF IInv, ControlInv, CallTypeOK
<1>2. Bytes(call.nr + 1, n) \in Seq(Nat) /\ Len(Bytes(call.nr + 1, n)) = n
  <2>1. \A i \in 1..n : (call.nr + 1) * Length + i \in Nat
    BY <1>1
  <2> QED BY <1>1, <2>1 DEF Bytes
<1>3. src' = Bytes(call.nr + 1, n) /\ got' = <<>> /\ UNCHANGED <<stored, media>>
  BY DEF WriteData, bufferVars, mediaVars
<1> QED BY <1>2, <1>3 DEF IInv, DataTypeOK

LEMMA WriteChunkBytes ==
    ASSUME IInv, WriteChunk
    PROVE  /\ DataTypeOK'
           /\ Len(src) \in Nat
           /\ Len(src') = Len(src) - Minimum(BufferSize - bytes_in_buffer, Len(src))
<1> DEFINE k == Minimum(BufferSize - bytes_in_buffer, Len(src))
<1>1. src \in Seq(Nat) /\ stored \in [0..(BufferSize - 1) -> Nat] /\ current \in Nat
  BY DEF IInv, DataTypeOK, ControlInv, BufferTypeOK
<1>2. k \in 0..Len(src)
  BY <1>1 DEF IInv, ControlInv, BufferTypeOK, Minimum
<1>3. /\ stored' = Put(stored, current, SubSeq(src, 1, k))
      /\ src' = SubSeq(src, k + 1, Len(src))
      /\ UNCHANGED <<media, got>>
  BY DEF WriteChunk, mediaVars
<1> HIDE DEF k
<1>4. /\ SubSeq(src, 1, k) \in Seq(Nat)
      /\ src' \in Seq(Nat) /\ Len(src') = Len(src) - k
  BY <1>1, <1>2, <1>3, CutType
<1>5. stored' \in [0..(BufferSize - 1) -> Nat]
  BY <1>1, <1>3, <1>4, PutType
<1>6. DataTypeOK'
  BY <1>3, <1>4, <1>5 DEF IInv, DataTypeOK
<1> QED BY <1>1, <1>4, <1>6 DEF k

LEMMA FlushMediaBytes ==
    ASSUME IInv, FlushMedia
    PROVE  DataTypeOK'
<1>1. PICK k \in 1..bytes_in_buffer : media' = Put(media, mpos, Get(stored, current, k))
  BY DEF FlushMedia
<1>2. /\ media \in [0..(Length - 1) -> Nat] /\ stored \in [0..(BufferSize - 1) -> Nat]
      /\ mpos \in Nat /\ current \in Nat
  BY DEF IInv, DataTypeOK, Offset, ControlInv, BufferTypeOK, PositionTypeOK
<1>3. ~input /\ current + bytes_in_buffer <= BufferSize
  BY DEF FlushMedia, IInv, ControlInv, InputInv, OutputInv, OutputBuffer
<1>4. k \in Nat /\ current + k <= BufferSize
  BY <1>2, <1>3 DEF IInv, ControlInv, BufferTypeOK
<1>5. Get(stored, current, k) \in Seq(Nat)
  BY <1>2, <1>4, GetType
<1>6. media' \in [0..(Length - 1) -> Nat]
  BY <1>1, <1>2, <1>5, PutType
<1>7. UNCHANGED <<stored, got, src>>
  BY DEF FlushMedia, callVars
<1> QED BY <1>6, <1>7 DEF IInv, DataTypeOK, Offset

(* The other calls empty p_buffer at most.                                 *)
LEMMA OtherBytes ==
    ASSUME DataTypeOK, got' \in {got, <<>>}, src' \in {src, <<>>}, UNCHANGED <<stored, media>>
    PROVE  DataTypeOK'
<1>1. <<>> \in Seq(Nat)
  OBVIOUS
<1> QED BY <1>1 DEF DataTypeOK

-----------------------------------------------------------------------------
(* The theorems                                                            *)

LEMMA InvInit == Init => IInv
<1> SUFFICES ASSUME Init PROVE IInv
  OBVIOUS
<1>1. FlagsTypeOK /\ BufferTypeOK /\ PositionTypeOK
  <2>1. FlagsTypeOK
    BY DEF Init, FlagsTypeOK
  <2>2. BufferTypeOK /\ PositionTypeOK
    BY DEF Init, BufferTypeOK, PositionTypeOK
  <2> QED BY <2>1, <2>2
<1>2. CallTypeOK
  BY DEF Init, CallTypeOK, Ops, Loops
<1>3. DataTypeOK
  <2>1. stored \in [0..(BufferSize - 1) -> Nat] /\ got \in Seq(Nat) /\ src \in Seq(Nat)
    BY DEF Init
  <2>2. media \in [Offset -> Nat]
    BY DEF Init, Offset
  <2> QED BY <2>1, <2>2 DEF DataTypeOK
<1>4. input => InputInv
  BY DEF Init, InputInv, PosOf
<1>5. ~input => OutputInv
  BY DEF Init, OutputInv, OutputPosition, OutputBuffer, OutputCall, PosOf
<1>6. SkipInv
  BY DEF Init, SkipInv, SkipHonest
<1> QED BY <1>1, <1>2, <1>3, <1>4, <1>5, <1>6 DEF IInv, ControlInv

LEMMA FlushInv ==
    ASSUME IInv, NEW op, NEW n \in Nat, op = "seek" => n <= Length, Flush(op, n)
    PROVE  IInv'
<1>1. DataTypeOK'
  BY OtherBytes DEF IInv, Flush, mediaVars
<1> QED BY <1>1, FlushControl DEF IInv

LEMMA InvNext == IInv /\ [Next]_vars => IInv'
<1> SUFFICES ASSUME IInv, [Next]_vars PROVE IInv'
  OBVIOUS
<1>0. ControlInv /\ DataTypeOK /\ Len(got) \in Nat
  BY DEF IInv, DataTypeOK
<1>1. CASE \E n \in Sizes : ReadData(n)
  BY <1>0, <1>1, ReadDataControl, ReadDataBytes DEF IInv
<1>2. CASE \E n \in Sizes : ReadSkip(n)
  <2>1. PICK n \in Sizes : ReadSkip(n)
    BY <1>2
  <2>2. DataTypeOK'
    BY <1>0, <2>1, OtherBytes DEF ReadSkip, mediaVars
  <2> QED BY <1>0, <2>1, <2>2, ReadSkipControl DEF IInv
<1>3. CASE \E n \in Sizes : WriteData(n)
  BY <1>0, <1>3, WriteDataControl, WriteDataBytes DEF IInv
<1>4. CASE \/ \E n \in Sizes : Flush("skip", n)
           \/ \E p \in 0..Length : Flush("seek", p)
           \/ Flush("flush", 0)
  <2>1. CASE \E n \in Sizes : Flush("skip", n)
    <3>1. PICK n \in Sizes : Flush("skip", n)
      BY <2>1
    <3>2. n \in Nat
      OBVIOUS
    <3> QED BY <1>0, <3>1, <3>2, FlushInv
  <2>2. CASE \E p \in 0..Length : Flush("seek", p)
    <3>1. PICK p \in 0..Length : Flush("seek", p)
      BY <2>2
    <3>2. p \in Nat /\ p <= Length
      OBVIOUS
    <3> QED BY <1>0, <3>1, <3>2, FlushInv
  <2>3. CASE Flush("flush", 0)
    BY <1>0, <2>3, FlushInv
  <2> QED BY <1>4, <2>1, <2>2, <2>3
<1>5. CASE \E p \in 0..Length : ReadSeek(p)
  <2>1. PICK p \in 0..Length : ReadSeek(p)
    BY <1>5
  <2>2. DataTypeOK'
    BY <1>0, <2>1, OtherBytes DEF ReadSeek
  <2> QED BY <1>0, <2>1, <2>2, ReadSeekControl DEF IInv
<1>6. CASE ReadMedia
  BY <1>0, <1>6, ReadMediaControl, ReadMediaBytes DEF IInv
<1>7. CASE ReadEnd
  <2>1. DataTypeOK'
    BY <1>0, <1>7, OtherBytes DEF ReadEnd, mediaVars
  <2> QED BY <1>0, <1>7, <2>1, ReadEndControl DEF IInv
<1>8. CASE SkipMedia
  <2>1. DataTypeOK'
    BY <1>0, <1>8, OtherBytes DEF SkipMedia
  <2> QED BY <1>0, <1>8, <2>1, SkipMediaControl DEF IInv
<1>9. CASE SkipToEnd
  <2>1. DataTypeOK'
    BY <1>0, <1>9, OtherBytes DEF SkipToEnd
  <2> QED BY <1>0, <1>9, <2>1, SkipToEndControl DEF IInv
<1>10. CASE WriteChunk
  BY <1>0, <1>10, WriteChunkControl, WriteChunkBytes DEF IInv
<1>11. CASE FlushMedia
  BY <1>0, <1>11, FlushMediaControl, FlushMediaBytes DEF IInv
<1>12. CASE FlushFails
  <2>1. DataTypeOK'
    BY <1>0, <1>12, OtherBytes DEF FlushFails, mediaVars
  <2> QED BY <1>0, <1>12, <2>1, FlushFailsControl DEF IInv
<1>13. CASE Flushed
  <2>1. DataTypeOK'
    BY <1>0, <1>13, OtherBytes DEF Flushed, mediaVars
  <2> QED BY <1>0, <1>13, <2>1, FlushedControl DEF IInv
<1>14. CASE WriteSkipMedia
  <2>1. DataTypeOK'
    BY <1>0, <1>14, OtherBytes DEF WriteSkipMedia
  <2> QED BY <1>0, <1>14, <2>1, WriteSkipMediaControl DEF IInv
<1>15. CASE WriteSeek
  <2>1. DataTypeOK'
    BY <1>0, <1>15, OtherBytes DEF WriteSeek
  <2> QED BY <1>0, <1>15, <2>1, WriteSeekControl DEF IInv
<1>16. CASE DiskFull
  <2>1. DataTypeOK'
    BY <1>0, <1>16, OtherBytes DEF DiskFull, bufferVars, callVars
  <2> QED BY <1>0, <1>16, <2>1, DiskFullControl DEF IInv
<1>17. CASE UNCHANGED vars
  <2>1. UNCHANGED <<FlagsTypeOK, BufferTypeOK, PositionTypeOK, CallTypeOK, DataTypeOK>>
    BY <1>17 DEF vars, flagVars, bufferVars, mediaVars, callVars,
                 FlagsTypeOK, BufferTypeOK, PositionTypeOK, CallTypeOK, DataTypeOK
  <2>2. UNCHANGED <<InputInv, OutputInv, SkipInv, input>>
    BY <1>17 DEF vars, flagVars, bufferVars, mediaVars, callVars,
                 InputInv, OutputInv, OutputPosition, OutputBuffer, OutputCall,
                 SkipInv, SkipHonest, PosOf
  <2> QED BY <2>1, <2>2 DEF IInv, ControlInv
<1> QED
  BY <1>1, <1>2, <1>3, <1>4, <1>5, <1>6, <1>7, <1>8, <1>9, <1>10, <1>11, <1>12, <1>13,
     <1>14, <1>15, <1>16, <1>17 DEF Next, UserCall, Progress, FlushNothing, Terminated

LEMMA InvAlways == Spec => []IInv
<1>1. Init => IInv
  BY InvInit
<1>2. IInv /\ [Next]_vars => IInv'
  BY InvNext
<1> QED BY <1>1, <1>2, PTL DEF Spec

(* Type correctness: the pointer and the count of the buffer never leave   *)
(* m_stored_data, and no callback moves the media out of its data.         *)
THEOREM TypeCorrect == Spec => []TypeOK
<1>1. IInv => TypeOK
  BY DEF IInv, ControlInv, TypeOK
<1> QED BY <1>1, InvAlways, PTL

(* The assertion of opj_stream_get_number_byte_left holds in every stream  *)
(* that is read, whatever is read, skipped or sought and whatever fails.   *)
THEOREM OffsetCorrect == Spec => []OffsetWithinData
<1>1. IInv => OffsetWithinData
  BY DEF IInv, ControlInv, InputInv, BufferTypeOK, PositionTypeOK, CallTypeOK,
         PosOf, OffsetWithinData
<1> QED BY <1>1, InvAlways, PTL

(* A skip that returns what was asked for has moved the stream that far,   *)
(* and the stream and its media agree on where they are.                   *)
THEOREM SkipsCorrect == Spec => []SkipHonest
<1>1. IInv => SkipHonest
  BY DEF IInv, ControlInv, SkipInv
<1> QED BY <1>1, InvAlways, PTL

-----------------------------------------------------------------------------
(* What a read has delivered                                               *)

(* A read knows how far it has come, and as long as no callback fails the  *)
(* end is only reached when every byte was read, skipped or is buffered.   *)
ReadInv ==
    /\ call.op = "read" => input /\ byte_offset = call.start + Len(got)
    /\ pc = "read" => Len(got) + size = call.arg
    /\ input /\ end /\ failures = 0 => PosOf + bytes_in_buffer = Length
    /\ ReadsComplete

LEMMA AppendLength ==
    ASSUME NEW s \in Seq(Nat), NEW t \in Seq(Nat)
    PROVE  Len(s \o t) = Len(s) + Len(t)
OBVIOUS

LEMMA ReadDataRead ==
    ASSUME IInv, ReadInv, NEW n \in Sizes, ReadData(n)
    PROVE  ReadInv'
<1> DEFINE k == Minimum(n, bytes_in_buffer)
<1>1. /\ n \in Nat /\ bytes_in_buffer \in Nat /\ current \in Nat /\ byte_offset \in Nat
      /\ k \in Nat /\ current + k <= BufferSize
  BY DEF IInv, ControlInv, BufferTypeOK, PositionTypeOK, ReadData, Minimum
<1>2. Len(got') = k
  <2>1. stored \in [0..(BufferSize - 1) -> Nat] /\ got' = Get(stored, current, k)
    BY DEF IInv, DataTypeOK, ReadData
  <2> HIDE DEF k
  <2> QED BY <1>1, <2>1, GetType
<1>3. /\ input /\ input' /\ pc = "idle" /\ end' = end /\ failures' = failures
      /\ call'.op = "read" /\ call'.arg = n /\ call'.start = byte_offset
      /\ byte_offset' = byte_offset + k /\ bytes_in_buffer' = bytes_in_buffer - k
      /\ pc' \in {"idle", "read"}
  BY DEF ReadData, Call, Return, ReturnCount, Goto, flagVars
<1>4. byte_offset + bytes_in_buffer <= Length
  BY <1>1, <1>3 DEF IInv, ControlInv, InputInv, PositionTypeOK, PosOf
<1>5. end /\ failures = 0 => byte_offset + bytes_in_buffer = Length
  BY <1>3 DEF ReadInv, PosOf
<1>6. input' /\ byte_offset' = call'.start + Len(got')
  BY <1>2, <1>3
<1>7. pc' = "read" => Len(got') + size' = call'.arg
  BY <1>1, <1>2, <1>3 DEF ReadData, Return, ReturnCount
<1>8. end' /\ failures' = 0 => PosOf' + bytes_in_buffer' = Length
  BY <1>1, <1>3, <1>5 DEF PosOf
<1>9. ReadsComplete'
  <2> SUFFICES ASSUME pc' = "idle", failures' = 0
               PROVE  LET m == Minimum(n, Length - byte_offset) IN
                      k = m /\ result' = IF m = 0 /\ n > 0 THEN -1 ELSE m
    BY <1>2, <1>3 DEF ReadsComplete
  <2>1. CASE bytes_in_buffer >= n
    <3>1. result' = n
      BY <1>1, <2>1 DEF ReadData, Return
    <3> QED BY <1>1, <1>4, <2>1, <3>1 DEF Minimum
  <2>2. CASE bytes_in_buffer < n
    <3>1. end /\ result' = IF k = 0 THEN -1 ELSE k
      BY <1>1, <2>2 DEF ReadData, ReturnCount, Return, Goto
    <3> QED BY <1>1, <1>3, <1>5, <2>2, <3>1 DEF Minimum
  <2> QED BY <1>1, <2>1, <2>2
<1> QED BY <1>6, <1>7, <1>8, <1>9 DEF ReadInv

LEMMA ReadMediaRead ==
    ASSUME IInv, ReadInv, ReadMedia
    PROVE  ReadInv'
<1>0. /\ input /\ input' /\ ~end /\ ~end' /\ pc = "read" /\ call' = call
      /\ call.op = "read" /\ failures' = failures
  BY DEF ReadMedia, IInv, ControlInv, InputInv, OutputInv, OutputCall, flagVars
<1>1. /\ size \in Nat /\ size > 0 /\ bytes_in_buffer = 0 /\ byte_offset = mpos
      /\ mpos \in 0..Length /\ call.start \in Nat /\ call.arg \in Nat
  BY <1>0 DEF IInv, ControlInv, InputInv, CallTypeOK, PositionTypeOK, PosOf, BufferTypeOK
<1>g. got \in Seq(Nat)
  BY DEF IInv, DataTypeOK
<1>m. media \in [0..(Length - 1) -> Nat]
  BY DEF IInv, DataTypeOK, Offset
<1>2. PICK k \in Nat :
         /\ mpos + k <= Length
         /\ got' = got \o Get(media, mpos, Minimum(k, size))
         /\ byte_offset' = byte_offset + Minimum(k, size)
         /\ IF k >= size THEN Return(Len(got) + Minimum(k, size))
            ELSE size' = size - k /\ Goto("read") /\ UNCHANGED done
  <2>1. PICK k \in 1..Minimum(IF size < BufferSize THEN BufferSize ELSE size, Length - mpos) :
           /\ got' = got \o Get(media, mpos, Minimum(k, size))
           /\ byte_offset' = byte_offset + Minimum(k, size)
           /\ IF k >= size THEN Return(Len(got) + Minimum(k, size))
              ELSE size' = size - k /\ Goto("read") /\ UNCHANGED done
    BY DEF ReadMedia
  <2>2. k \in Nat /\ mpos + k <= Length
    BY <1>1, <2>1 DEF Minimum
  <2> QED BY <2>1, <2>2
<1> DEFINE used == Minimum(k, size)
           piece == Get(media, mpos, used)
<1>3. /\ used \in Nat /\ used <= k /\ mpos + used <= Length /\ mpos \in Nat
      /\ k >= size => used = size
      /\ k < size => used = k
  BY <1>1, <1>2 DEF Minimum
<1>4. /\ got' = got \o piece /\ byte_offset' = byte_offset + used
      /\ k >= size => pc' = "idle" /\ result' = Len(got) + used
      /\ k < size => pc' = "read" /\ size' = size - k
  BY <1>1, <1>2, <1>3 DEF Return, Goto
<1> HIDE DEF used
<1>5. piece \in Seq(Nat) /\ Len(piece) = used
  <2>1. /\ used \in Nat /\ mpos \in Nat /\ mpos + used <= Length
    BY <1>1, <1>3
  <2> QED BY <1>m, <2>1, GetType
<1> HIDE DEF piece
<1>6. Len(got') = Len(got) + used
  <2>1. got' = got \o piece
    BY <1>4
  <2>2. Len(got \o piece) = Len(got) + Len(piece)
    BY <1>g, <1>5, AppendLength
  <2> QED BY <1>5, <2>1, <2>2
<1>7. /\ byte_offset = call.start + Len(got) /\ Len(got) + size = call.arg
      /\ Len(got) \in Nat
  BY <1>0, <1>g DEF ReadInv
<1>8. byte_offset' = call'.start + Len(got')
  BY <1>0, <1>1, <1>3, <1>4, <1>6, <1>7, SMTT(60)
<1>9. pc' = "read" => Len(got') + size' = call'.arg
  <2>1. CASE k >= size
    BY <1>4, <2>1
  <2>2. CASE k < size
    BY <1>0, <1>1, <1>3, <1>4, <1>6, <1>7, <2>2
  <2> QED BY <1>1, <2>1, <2>2
<1>10. ReadsComplete'
  <2>1. CASE k >= size
    <3>1. Len(got') = call.arg /\ result' = call.arg
      BY <1>1, <1>3, <1>4, <1>6, <1>7, <2>1
    <3>2. call.arg <= Length - call.start
      BY <1>1, <1>3, <1>7, <2>1
    <3>3. Minimum(call.arg, Length - call.start) = call.arg
      BY <1>1, <3>2 DEF Minimum
    <3> QED BY <1>0, <1>1, <1>7, <3>1, <3>3 DEF ReadsComplete
  <2>2. CASE k < size
    BY <1>4, <2>2 DEF ReadsComplete
  <2> QED BY <1>1, <1>3, <2>1, <2>2
<1> QED BY <1>0, <1>8, <1>9, <1>10 DEF ReadInv

LEMMA ReadEndRead ==
    ASSUME IInv, ReadInv, ReadEnd
    PROVE  ReadInv'
<1>0. /\ input /\ input' /\ pc = "read" /\ pc' = "idle" /\ call' = call /\ got' = got
      /\ call.op = "read" /\ byte_offset' = byte_offset /\ bytes_in_buffer' = 0
  BY DEF ReadEnd, IInv, ControlInv, InputInv, OutputInv, OutputCall, Return, ReturnCount
<1>1. /\ size \in Nat \ {0} /\ bytes_in_buffer = 0 /\ byte_offset = mpos
      /\ mpos \in 0..Length /\ Len(got) \in Nat /\ call.start \in Nat /\ call.arg \in Nat
      /\ failures \in Nat
  BY <1>0 DEF IInv, ControlInv, InputInv, CallTypeOK, PositionTypeOK, DataTypeOK,
              PosOf, BufferTypeOK
<1>2. byte_offset = call.start + Len(got) /\ Len(got) + size = call.arg
  BY <1>0 DEF ReadInv
<1>3. failures' = 0 => mpos = Length
  BY <1>1 DEF ReadEnd, Fails
<1>4. result' = IF Len(got) = 0 THEN -1 ELSE Len(got)
  BY DEF ReadEnd, ReturnCount, Return
<1>5. failures' = 0 => Len(got) = Minimum(call.arg, Length - call.start)
  BY <1>1, <1>2, <1>3 DEF Minimum
<1>6. ReadsComplete'
  BY <1>0, <1>1, <1>2, <1>4, <1>5 DEF ReadsComplete
<1>7. failures' = 0 => PosOf' + bytes_in_buffer' = Length
  BY <1>0, <1>1, <1>3 DEF PosOf
<1> QED BY <1>0, <1>2, <1>6, <1>7 DEF ReadInv

(* Skips and seeks: only the end of the data is left to show.              *)
LEMMA OtherRead ==
    ASSUME ReadInv, call'.op # "read", pc' # "read",
           input' /\ end' /\ failures' = 0 => PosOf' + bytes_in_buffer' = Length
    PROVE  ReadInv'
BY DEF ReadInv, ReadsComplete

LEMMA ReadSkipRead ==
    ASSUME IInv, ReadInv, NEW n \in Sizes, ReadSkip(n)
    PROVE  ReadInv'
<1>1. /\ n \in Nat /\ bytes_in_buffer \in Nat /\ byte_offset \in Nat /\ pc = "idle" /\ input
      /\ call'.op = "skip" /\ end' = end /\ failures' = failures /\ pc' \in {"idle", "skip"}
  BY DEF IInv, ControlInv, BufferTypeOK, PositionTypeOK, ReadSkip, Call, Return, ReturnCount,
         Goto, flagVars
<1>2. end => pc' = "idle" /\ byte_offset' + bytes_in_buffer' = byte_offset + bytes_in_buffer
  BY <1>1 DEF ReadSkip, Return, ReturnCount, Goto, Minimum
<1>3. end /\ failures = 0 => byte_offset + bytes_in_buffer = Length
  BY <1>1 DEF ReadInv, PosOf
<1>4. end' /\ failures' = 0 => PosOf' + bytes_in_buffer' = Length
  BY <1>1, <1>2, <1>3 DEF PosOf
<1> QED BY <1>1, <1>4, OtherRead

LEMMA SkipMediaRead ==
    ASSUME IInv, ReadInv, SkipMedia
    PROVE  ReadInv'
<1>1. /\ pc = "skip" /\ ~end /\ call' = call /\ call.op = "skip" /\ failures \in Nat
      /\ pc' \in {"idle", "skip"}
  BY DEF SkipMedia, IInv, ControlInv, InputInv, OutputInv, OutputCall, SkipInv, CallTypeOK,
         Return, ReturnCount, Goto
<1>2. ~(end' /\ failures' = 0)
  BY <1>1 DEF SkipMedia, Fails
<1> QED BY <1>1, <1>2, OtherRead

LEMMA SkipToEndRead ==
    ASSUME IInv, ReadInv, SkipToEnd
    PROVE  ReadInv'
<1>1. /\ pc = "skip" /\ call' = call /\ call.op = "skip" /\ failures \in Nat
      /\ pc' = "idle" /\ bytes_in_buffer' = 0
  BY DEF SkipToEnd, IInv, ControlInv, InputInv, OutputInv, OutputCall, SkipInv, CallTypeOK,
         Return, ReturnCount, Goto
<1>2. failures' = 0 => byte_offset' = Length
  BY <1>1 DEF SkipToEnd, Fails
<1>3. failures' = 0 => PosOf' + bytes_in_buffer' = Length
  BY <1>1, <1>2 DEF PosOf
<1> QED BY <1>1, <1>3, OtherRead

LEMMA ReadSeekRead ==
    ASSUME IInv, ReadInv, NEW p \in 0..Length, ReadSeek(p)
    PROVE  ReadInv'
<1>1. call'.op = "seek" /\ pc' = "idle" /\ failures \in Nat
  BY DEF ReadSeek, Call, Return, IInv, ControlInv, CallTypeOK
<1>2. ~(end' /\ failures' = 0)
  BY <1>1 DEF ReadSeek, Fails
<1> QED BY <1>1, <1>2, OtherRead

LEMMA ReadInvInit == Init => ReadInv
BY DEF Init, ReadInv, ReadsComplete

LEMMA ReadInvNext == IInv /\ ReadInv /\ [Next]_vars => ReadInv'
<1> SUFFICES ASSUME IInv, ReadInv, [Next]_vars PROVE ReadInv'
  OBVIOUS
<1>1. CASE \E n \in Sizes : ReadData(n) \/ ReadSkip(n)
  BY <1>1, ReadDataRead, ReadSkipRead
<1>2. CASE \E p \in 0..Length : ReadSeek(p)
  BY <1>2, ReadSeekRead
<1>3. CASE ReadMedia
  BY <1>3, ReadMediaRead
<1>4. CASE ReadEnd
  BY <1>4, ReadEndRead
<1>5. CASE SkipMedia
  BY <1>5, SkipMediaRead
<1>6. CASE SkipToEnd
  BY <1>6, SkipToEndRead
<1>7. CASE UNCHANGED vars
  BY <1>7 DEF vars, flagVars, bufferVars, mediaVars, callVars, ReadInv, ReadsComplete, PosOf
<1>8. ASSUME ~input, ~input', call'.op # "read", pc' # "read" PROVE ReadInv'
  BY <1>8, OtherRead
<1>9. ~input => pc # "read" /\ call.op # "read"
  BY DEF IInv, ControlInv, OutputInv, OutputCall, ReadInv
<1>10. CASE \/ \E n \in Sizes : WriteData(n) \/ Flush("skip", n)
            \/ \E p \in 0..Length : Flush("seek", p)
            \/ Flush("flush", 0)
  BY <1>8, <1>10 DEF WriteData, Flush, Call, Goto, Return, flagVars
<1>11. input => pc \in {"idle", "read", "skip"}
  BY DEF IInv, ControlInv, InputInv
<1>12. CASE WriteChunk \/ FlushMedia \/ DiskFull
  BY <1>8, <1>9, <1>11, <1>12 DEF WriteChunk, FlushMedia, DiskFull, Goto, Return,
     flagVars, callVars
<1>13. CASE FlushFails \/ Flushed \/ WriteSkipMedia \/ WriteSeek
  BY <1>8, <1>9, <1>11, <1>13 DEF FlushFails, Flushed, WriteSkipMedia, WriteSeek,
     Goto, Return, ReturnCount, flagVars
<1> QED
  BY <1>1, <1>2, <1>3, <1>4, <1>5, <1>6, <1>7, <1>10, <1>12, <1>13
     DEF Next, UserCall, Progress, FlushNothing, Terminated

(* The media may deliver in pieces of any size: while no callback fails, a *)
(* read returns all the bytes asked for, or all that are left of the data. *)
THEOREM ReadsCorrect == Spec => []ReadsComplete
<1>1. Init => ReadInv
  BY ReadInvInit
<1>2. IInv /\ ReadInv /\ [Next]_vars => ReadInv'
  BY ReadInvNext
<1>3. ReadInv => ReadsComplete
  BY DEF ReadInv
<1> QED BY <1>1, <1>2, <1>3, InvAlways, PTL DEF Spec

-----------------------------------------------------------------------------
(* The buffer of an input                                                  *)

(* The buffer holds the bytes of the media from the stream's offset on.    *)
BufferHolds ==
    input => \A i \in 0..(bytes_in_buffer - 1) : stored[current + i] = media[byte_offset + i]

LEMMA NothingBuffered ==
    ASSUME input' => bytes_in_buffer' = 0
    PROVE  BufferHolds'
BY DEF BufferHolds

LEMMA FirstBytesTaken ==
    ASSUME BufferHolds, input, NEW k \in 0..bytes_in_buffer,
           bytes_in_buffer \in Nat, current \in Nat, byte_offset \in Nat,
           bytes_in_buffer' = bytes_in_buffer - k, current' = current + k,
           byte_offset' = byte_offset + k, UNCHANGED <<stored, media>>
    PROVE  BufferHolds'
<1> SUFFICES ASSUME NEW i \in 0..(bytes_in_buffer' - 1)
             PROVE  stored'[current' + i] = media'[byte_offset' + i]
  BY DEF BufferHolds
<1>1. k + i \in 0..(bytes_in_buffer - 1)
  OBVIOUS
<1>2. stored[current + (k + i)] = media[byte_offset + (k + i)]
  BY <1>1 DEF BufferHolds
<1>3. current + (k + i) = current' + i /\ byte_offset + (k + i) = byte_offset' + i
  OBVIOUS
<1> QED BY <1>2, <1>3

LEMMA ReadDataBuffer ==
    ASSUME IInv, BufferHolds, NEW n \in Sizes, ReadData(n)
    PROVE  BufferHolds'
<1> DEFINE k == Minimum(n, bytes_in_buffer)
<1>1. /\ n \in Nat /\ bytes_in_buffer \in Nat /\ current \in Nat /\ byte_offset \in Nat
      /\ k \in 0..bytes_in_buffer /\ input
  BY DEF IInv, ControlInv, BufferTypeOK, PositionTypeOK, ReadData, Minimum
<1>2. /\ bytes_in_buffer' = bytes_in_buffer - k /\ byte_offset' = byte_offset + k
      /\ UNCHANGED <<stored, media>>
  BY DEF ReadData, mediaVars
<1>3. current' = current + k \/ bytes_in_buffer' = 0
  BY <1>1, <1>2 DEF ReadData, Minimum
<1> HIDE DEF k
<1> QED BY <1>1, <1>2, <1>3, FirstBytesTaken, NothingBuffered

LEMMA ReadSkipBuffer ==
    ASSUME IInv, BufferHolds, NEW n \in Sizes, ReadSkip(n)
    PROVE  BufferHolds'
<1> DEFINE k == Minimum(n, bytes_in_buffer)
<1>1. /\ n \in Nat /\ bytes_in_buffer \in Nat /\ current \in Nat /\ byte_offset \in Nat
      /\ k \in 0..bytes_in_buffer /\ input
  BY DEF IInv, ControlInv, BufferTypeOK, PositionTypeOK, ReadSkip, Minimum
<1>2. bytes_in_buffer' = bytes_in_buffer - k /\ UNCHANGED <<stored, media>>
  BY DEF ReadSkip, mediaVars
<1>3. \/ current' = current + k /\ byte_offset' = byte_offset + k
      \/ bytes_in_buffer' = 0
  BY <1>1, <1>2 DEF ReadSkip, Minimum
<1> HIDE DEF k
<1> QED BY <1>1, <1>2, <1>3, FirstBytesTaken, NothingBuffered

LEMMA ReadMediaBuffer ==
    ASSUME IInv, BufferHolds, ReadMedia
    PROVE  BufferHolds'
<1> DEFINE used(k) == Minimum(k, size)
<1>0. /\ input /\ byte_offset = mpos /\ size \in Nat /\ size > 0 /\ mpos \in 0..Length
  BY DEF ReadMedia, IInv, ControlInv, InputInv, CallTypeOK, PositionTypeOK, PosOf,
         OutputInv, OutputCall
<1>1. PICK k \in 1..Minimum(IF size < BufferSize THEN BufferSize ELSE size, Length - mpos) :
         /\ stored' = IF size < BufferSize THEN Put(stored, 0, Get(media, mpos, k)) ELSE stored
         /\ byte_offset' = byte_offset + Minimum(k, size)
         /\ bytes_in_buffer' = k - Minimum(k, size)
         /\ current' = IF size < BufferSize /\ k >= size THEN size ELSE 0
  BY DEF ReadMedia
<1>2. /\ k \in Nat /\ mpos + k <= Length
      /\ size < BufferSize => k <= BufferSize
      /\ size >= BufferSize => k <= size
  BY <1>0, <1>1 DEF Minimum
<1>3. CASE k <= size
  <2>1. bytes_in_buffer' = 0
    BY <1>0, <1>1, <1>2, <1>3 DEF Minimum
  <2> QED BY <2>1, NothingBuffered
<1>4. CASE k > size
  <2> DEFINE piece == Get(media, mpos, k)
  <2>1. /\ size < BufferSize /\ k <= BufferSize /\ bytes_in_buffer' = k - size
        /\ byte_offset' = mpos + size /\ current' = size
        /\ stored' = Put(stored, 0, piece) /\ media' = media
    BY <1>0, <1>1, <1>2, <1>4 DEF Minimum, ReadMedia
  <2>2. stored \in [0..(BufferSize - 1) -> Nat] /\ media \in [0..(Length - 1) -> Nat]
    BY DEF IInv, DataTypeOK, Offset
  <2>3. piece \in Seq(Nat) /\ Len(piece) = k
    <3>1. mpos \in Nat /\ k \in Nat /\ mpos + k <= Length
      BY <1>0, <1>2
    <3>2. media \in [0..(Length - 1) -> Nat]
      BY <2>2
    <3> QED BY <3>1, <3>2, GetType, SMTT(60)
  <2>4. \A j \in 1..k : piece[j] = media[mpos + j - 1]
    BY ONLY DEF Get
  <2> HIDE DEF piece
  <2>5. \A i \in 0..(BufferSize - 1) : i < k => stored'[i] = piece[i + 1]
    <3> SUFFICES ASSUME NEW i \in 0..(BufferSize - 1), i < k PROVE stored'[i] = piece[i + 1]
      OBVIOUS
    <3>1. i \in DOMAIN stored /\ i \in 0..(0 + Len(piece) - 1) /\ i - 0 + 1 = i + 1
      BY <1>2, <2>2, <2>3
    <3> QED BY <2>1, <3>1 DEF Put
  <2>6. ASSUME NEW i \in 0..(bytes_in_buffer' - 1)
        PROVE  stored'[current' + i] = media'[byte_offset' + i]
    <3>1. /\ size + i \in 0..(BufferSize - 1) /\ size + i < k /\ size + i + 1 \in 1..k
          /\ mpos + (size + i + 1) - 1 = mpos + size + i
      BY <1>0, <1>2, <1>4, <2>1
    <3>2. stored'[size + i] = piece[size + i + 1]
      BY <2>5, <3>1
    <3>3. piece[size + i + 1] = media[mpos + size + i]
      BY <2>4, <3>1
    <3> QED BY <2>1, <3>2, <3>3
  <2> QED BY <2>6 DEF BufferHolds
<1> QED BY <1>0, <1>2, <1>3, <1>4

LEMMA BufferInit == Init => BufferHolds
BY DEF Init, BufferHolds

LEMMA BufferNext == IInv /\ BufferHolds /\ [Next]_vars => BufferHolds'
<1> SUFFICES ASSUME IInv, BufferHolds, [Next]_vars PROVE BufferHolds'
  OBVIOUS
<1>1. CASE \E n \in Sizes : ReadData(n) \/ ReadSkip(n)
  BY <1>1, ReadDataBuffer, ReadSkipBuffer
<1>2. CASE ReadMedia
  BY <1>2, ReadMediaBuffer
<1>3. CASE ReadEnd \/ SkipToEnd \/ \E p \in 0..Length : ReadSeek(p)
  BY <1>3, NothingBuffered DEF ReadEnd, SkipToEnd, ReadSeek
<1>4. CASE SkipMedia
  <2>1. bytes_in_buffer' = 0
    BY <1>4 DEF SkipMedia, IInv, ControlInv, InputInv, OutputInv, OutputCall
  <2> QED BY <2>1, NothingBuffered
<1>5. CASE UNCHANGED vars
  BY <1>5 DEF vars, flagVars, bufferVars, mediaVars, BufferHolds
<1>6. ~input' => BufferHolds'
  BY NothingBuffered
<1>7. CASE \/ \E n \in Sizes : WriteData(n) \/ Flush("skip", n)
           \/ \E p \in 0..Length : Flush("seek", p)
           \/ Flush("flush", 0)
  BY <1>6, <1>7 DEF WriteData, Flush, flagVars
<1>8. input => pc \in {"idle", "read", "skip"}
  BY DEF IInv, ControlInv, InputInv
<1>9. CASE WriteChunk \/ FlushMedia \/ DiskFull
  BY <1>6, <1>8, <1>9 DEF WriteChunk, FlushMedia, DiskFull, flagVars
<1>10. CASE FlushFails \/ Flushed \/ WriteSkipMedia \/ WriteSeek
  BY <1>6, <1>8, <1>10 DEF FlushFails, Flushed, WriteSkipMedia, WriteSeek, flagVars
<1> QED
  BY <1>1, <1>2, <1>3, <1>4, <1>5, <1>7, <1>9, <1>10
     DEF Next, UserCall, Progress, FlushNothing, Terminated

-----------------------------------------------------------------------------
(* Every step is a step of ByteFile or changes nothing of it               *)

LEMMA InputMap ==
    ASSUME input, input' = input
    PROVE  FileOf = media /\ FileOf' = media'
BY DEF FileOf

LEMMA ReadDataStep ==
    ASSUME IInv, BufferHolds, ~error, NEW n \in Sizes, ReadData(n)
    PROVE  File!Next
<1> DEFINE k == Minimum(n, bytes_in_buffer)
<1>0. /\ pc = "idle" /\ pc' \in {"idle", "read"} /\ call'.op = "read" /\ call'.nr = call.nr + 1
      /\ input /\ input' = input /\ error' = error /\ src' = src /\ media' = media
      /\ got' = Get(stored, current, k) /\ byte_offset' = byte_offset + k
  BY DEF ReadData, Call, Return, ReturnCount, Goto, flagVars, mediaVars
<1>1. /\ n \in Nat /\ bytes_in_buffer \in Nat /\ current \in Nat /\ byte_offset \in Nat
      /\ mpos \in 0..Length /\ k \in 0..bytes_in_buffer /\ call.nr \in Nat
      /\ byte_offset + bytes_in_buffer <= mpos
  BY <1>0 DEF IInv, ControlInv, BufferTypeOK, PositionTypeOK, CallTypeOK, InputInv, PosOf,
              Minimum
<1>2. FileOf = media /\ FileOf' = media /\ PosOf = byte_offset /\ PosOf' = byte_offset + k
  BY <1>0, InputMap DEF PosOf
<1>3. call' # call
  BY <1>0, <1>1
<1> HIDE DEF k
<1>4. k \in 0..(Length - byte_offset)
  BY <1>1
<1>5. Get(stored, current, k) = Get(media, byte_offset, k)
  <2>1. \A i \in 1..k : stored[current + i - 1] = media[byte_offset + i - 1]
    <3> TAKE i \in 1..k
    <3>1. i - 1 \in 0..(bytes_in_buffer - 1)
      BY <1>1
    <3>2. stored[current + (i - 1)] = media[byte_offset + (i - 1)]
      BY <1>0, <3>1 DEF BufferHolds
    <3>3. current + (i - 1) = current + i - 1 /\ byte_offset + (i - 1) = byte_offset + i - 1
      BY <1>1
    <3> QED BY <3>2, <3>3
  <2> QED BY <2>1 DEF Get
<1>6. got' = <<>> \o Get(media, byte_offset, k)
  <2>1. stored \in [0..(BufferSize - 1) -> Nat]
    BY DEF IInv, DataTypeOK
  <2>2. k \in Nat /\ current + k <= BufferSize
    BY <1>0, <1>1 DEF IInv, ControlInv, BufferTypeOK
  <2>3. Get(stored, current, k) \in Seq(Nat)
    BY <1>1, <2>1, <2>2, GetType
  <2>4. got' \in Seq(Nat) /\ got' = Get(media, byte_offset, k)
    BY <1>0, <1>5, <2>3
  <2> QED BY <2>4
<1>7. File!Get(FileOf, PosOf, k) = Get(media, byte_offset, k)
  BY <1>2 DEF File!Get, Get
<1>8. File!Read
  <2>1. PosOf' = PosOf + k /\ got' = File!GotSoFar \o File!Get(FileOf, PosOf, k)
    BY <1>2, <1>3, <1>6, <1>7 DEF File!GotSoFar
  <2> QED BY <1>0, <1>2, <1>4, <2>1 DEF File!Read
<1> QED BY <1>0, <1>8 DEF File!Next

LEMMA ReadMediaStep ==
    ASSUME IInv, ~error, ReadMedia
    PROVE  File!Next
<1>0. /\ pc = "read" /\ call' = call /\ call.op = "read" /\ input /\ input' = input
      /\ error' = error /\ src' = src /\ media' = media
  BY DEF ReadMedia, IInv, ControlInv, InputInv, OutputInv, OutputCall, flagVars
<1>1. /\ size \in Nat /\ size > 0 /\ byte_offset = mpos /\ mpos \in 0..Length
  BY <1>0 DEF IInv, ControlInv, InputInv, CallTypeOK, PositionTypeOK, PosOf, BufferTypeOK
<1>2. PICK k \in 1..Minimum(IF size < BufferSize THEN BufferSize ELSE size, Length - mpos) :
         /\ got' = got \o Get(media, mpos, Minimum(k, size))
         /\ byte_offset' = byte_offset + Minimum(k, size)
         /\ pc' \in {"idle", "read"}
  BY DEF ReadMedia, Return, Goto
<1> DEFINE used == Minimum(k, size)
<1>3. used \in 0..(Length - mpos)
  BY <1>1, <1>2 DEF Minimum
<1> HIDE DEF used
<1>4. FileOf = media /\ FileOf' = media /\ PosOf = mpos /\ PosOf' = mpos + used
  BY <1>0, <1>1, <1>2, InputMap DEF PosOf, used
<1>5. got' = got \o Get(media, mpos, used)
  BY <1>2 DEF used
<1>6. File!Get(FileOf, PosOf, used) = Get(media, mpos, used)
  BY <1>4 DEF File!Get, Get
<1>7. File!Read
  <2>1. PosOf' = PosOf + used /\ got' = File!GotSoFar \o File!Get(FileOf, PosOf, used)
    BY <1>0, <1>4, <1>5, <1>6 DEF File!GotSoFar
  <2> QED BY <1>0, <1>3, <1>4, <2>1 DEF File!Read
<1> QED BY <1>0, <1>7 DEF File!Next

LEMMA ReadEndStep ==
    ASSUME IInv, ReadEnd
    PROVE  UNCHANGED File!vars
<1>0. input /\ input' = input /\ pc = "read" /\ pc' = "idle"
  BY DEF ReadEnd, IInv, ControlInv, OutputInv, OutputCall, ReturnCount, Return
<1>1. FileOf = media /\ FileOf' = media'
  BY <1>0, InputMap
<1>2. UNCHANGED <<media, byte_offset, call, got, src, error>>
  BY DEF ReadEnd, mediaVars
<1> QED BY <1>0, <1>1, <1>2 DEF File!vars, PosOf

LEMMA ReadSkipStep ==
    ASSUME IInv, ~error, NEW n \in Sizes, ReadSkip(n)
    PROVE  File!Next
<1>0. /\ pc = "idle" /\ call'.op = "skip" /\ call'.start = byte_offset /\ call'.arg = n
      /\ input /\ input' = input /\ error' = error /\ src' = src /\ media' = media
  BY DEF ReadSkip, Call, flagVars, mediaVars
<1>1. n \in Nat /\ bytes_in_buffer \in Nat /\ byte_offset \in Nat
  BY DEF IInv, ControlInv, BufferTypeOK, PositionTypeOK
<1>2. PosOf = byte_offset /\ PosOf' = byte_offset + Minimum(n, bytes_in_buffer)
  BY <1>0, <1>1 DEF ReadSkip, Return, ReturnCount, Goto, PosOf
<1>3. PosOf' \in PosOf..(call'.start + call'.arg)
  BY <1>0, <1>1, <1>2 DEF Minimum
<1>4. FileOf = media /\ FileOf' = media
  BY <1>0, InputMap
<1> QED BY <1>0, <1>3, <1>4 DEF File!Next, File!Skip

LEMMA SkipMediaStep ==
    ASSUME IInv, ~error, SkipMedia \/ SkipToEnd
    PROVE  File!Next
<1>0. /\ pc = "skip" /\ input /\ input' = input /\ error' = error /\ src' = src
      /\ media' = media /\ call' = call
  BY DEF SkipMedia, SkipToEnd, IInv, ControlInv, OutputInv, OutputCall
<1>1. /\ call.op = "skip" /\ size > 0 /\ done + size = call.arg /\ byte_offset = call.start
      /\ PosOf = byte_offset + done /\ PosOf <= Length
      /\ size \in Nat /\ done \in Nat /\ byte_offset \in Nat /\ bytes_in_buffer = 0
  BY <1>0 DEF IInv, ControlInv, SkipInv, InputInv, CallTypeOK, PositionTypeOK, BufferTypeOK,
              PosOf
<1>2. PosOf' \in PosOf..(byte_offset + done + size)
  <2>1. CASE SkipMedia
    BY <1>0, <1>1, <2>1 DEF SkipMedia, PosOf, Return, ReturnCount, Goto
  <2>2. CASE SkipToEnd
    BY <1>0, <1>1, <2>2 DEF SkipToEnd, PosOf, Return, ReturnCount
  <2> QED BY <2>1, <2>2
<1>3. PosOf' \in PosOf..(call'.start + call'.arg)
  BY <1>0, <1>1, <1>2
<1>4. FileOf = media /\ FileOf' = media
  BY <1>0, InputMap
<1> QED BY <1>0, <1>1, <1>3, <1>4 DEF File!Next, File!Skip

LEMMA ReadSeekStep ==
    ASSUME IInv, ~error, NEW p \in 0..Length, ReadSeek(p)
    PROVE  File!Next
<1>0. /\ pc = "idle" /\ pc' = "idle" /\ call'.op = "seek" /\ call'.arg = p /\ input
      /\ input' = input /\ error' = error /\ src' = src /\ media' = media
  BY DEF ReadSeek, Call, Return
<1>1. PosOf' \in {PosOf, call'.arg}
  BY <1>0 DEF ReadSeek, PosOf
<1>2. FileOf = media /\ FileOf' = media
  BY <1>0, InputMap
<1> QED BY <1>0, <1>1, <1>2 DEF File!Next, File!Seek

(* The file of an output: the media and, at its position, the buffer.      *)
LEMMA OutputMap ==
    ASSUME ~input, ~error
    PROVE  /\ pc # "flush" => FileOf = Put(media, mpos, Get(stored, 0, bytes_in_buffer))
           /\ pc = "flush" => FileOf = Put(media, mpos, Get(stored, current, bytes_in_buffer))
BY DEF FileOf

(* With an empty buffer it is the media.                                   *)
LEMMA EmptyBuffer ==
    ASSUME NEW m \in [Offset -> Nat], NEW p \in Nat, NEW s, NEW c
    PROVE  Put(m, p, Get(s, c, 0)) = m
<1>1. Get(s, c, 0) \in Seq(Nat) /\ Len(Get(s, c, 0)) = 0
  BY DEF Get
<1>2. Offset \in SUBSET Nat
  BY DEF Offset
<1> QED BY <1>1, <1>2, PutNothing

LEMMA BeginStep ==
    ASSUME ~input, input' = input, ~error, error' = error, call.nr \in Nat,
           pc = "idle", pc' \in {"write", "flush"}, call'.nr = call.nr + 1, got' = <<>>,
           pc' = "flush" => current' = 0,
           UNCHANGED <<stored, media, mpos, bytes_in_buffer, byte_offset>>
    PROVE  File!Next
<1>1. FileOf = Put(media, mpos, Get(stored, 0, bytes_in_buffer))
  BY OutputMap
<1>2. FileOf' = Put(media, mpos, Get(stored, 0, bytes_in_buffer))
  BY DEF FileOf
<1>3. PosOf' = PosOf
  BY DEF PosOf
<1>4. call' # call
  OBVIOUS
<1> QED BY <1>1, <1>2, <1>3, <1>4 DEF File!Next, File!Begin

LEMMA WriteDataStep ==
    ASSUME IInv, ~error, NEW n \in Sizes, WriteData(n)
    PROVE  File!Next
<1>1. /\ ~input /\ input' = input /\ error' = error /\ pc = "idle" /\ pc' = "write"
      /\ call'.nr = call.nr + 1 /\ got' = <<>>
      /\ UNCHANGED <<stored, media, mpos, bytes_in_buffer, byte_offset>>
  BY DEF WriteData, Call, Goto, flagVars, bufferVars, mediaVars
<1>2. call.nr \in Nat
  BY DEF IInv, ControlInv, CallTypeOK
<1> QED BY <1>1, <1>2, BeginStep

LEMMA FlushStep ==
    ASSUME IInv, ~error, NEW op, NEW n, Flush(op, n)
    PROVE  File!Next
<1>1. /\ ~input /\ input' = input /\ error' = error /\ pc = "idle" /\ pc' = "flush"
      /\ call'.nr = call.nr + 1 /\ got' = <<>> /\ current' = 0
      /\ UNCHANGED <<stored, media, mpos, bytes_in_buffer, byte_offset>>
  BY DEF Flush, Call, Goto, flagVars, mediaVars
<1>2. call.nr \in Nat
  BY DEF IInv, ControlInv, CallTypeOK
<1> QED BY <1>1, <1>2, BeginStep

LEMMA WriteChunkStep ==
    ASSUME IInv, ~error, WriteChunk
    PROVE  File!Next
<1> DEFINE k == Minimum(BufferSize - bytes_in_buffer, Len(src))
           cut == SubSeq(src, 1, k)
<1>0. /\ ~input /\ input' = input /\ ~error' /\ error' = error /\ pc = "write"
      /\ pc' \in {"idle", "flush"} /\ call' = call /\ call.op = "write" /\ got' = got
      /\ pc' = "flush" => current' = 0
      /\ UNCHANGED <<media, mpos>>
  BY DEF WriteChunk, IInv, ControlInv, InputInv, OutputInv, OutputCall, Return, Goto,
         flagVars, mediaVars
<1>1. /\ stored' = Put(stored, current, cut) /\ bytes_in_buffer' = bytes_in_buffer + k
      /\ byte_offset' = byte_offset + k /\ src' = SubSeq(src, k + 1, Len(src))
  BY DEF WriteChunk
<1>2. src \in Seq(Nat) /\ Len(src) \in Nat /\ mpos \in Nat /\ bytes_in_buffer \in Nat
  BY DEF IInv, DataTypeOK, ControlInv, PositionTypeOK, BufferTypeOK
<1>3. k \in 0..Len(src) /\ bytes_in_buffer + k <= BufferSize
  BY <1>2 DEF IInv, ControlInv, BufferTypeOK, Minimum
<1>4. /\ current = bytes_in_buffer /\ byte_offset = mpos + bytes_in_buffer
      /\ PosOf = byte_offset
  BY <1>0 DEF IInv, ControlInv, OutputInv, OutputPosition, OutputBuffer, PosOf
<1>5. media \in [Offset -> Nat] /\ Offset \in SUBSET Nat
  BY DEF IInv, DataTypeOK, Offset
<1>6. stored \in [0..(BufferSize - 1) -> Nat]
  BY DEF IInv, DataTypeOK
<1> HIDE DEF k
<1>7. cut \in Seq(Nat) /\ Len(cut) = k
  BY <1>2, <1>3, CutType
<1>8. FileOf = Put(media, mpos, Get(stored, 0, bytes_in_buffer))
  BY <1>0, OutputMap
<1>9. FileOf' = Put(media, mpos, Get(stored', 0, bytes_in_buffer'))
  BY <1>0 DEF FileOf
<1> HIDE DEF cut
<1>10. FileOf' = Put(FileOf, PosOf, cut)
  <2>1. Put(media, mpos, Get(Put(stored, bytes_in_buffer, cut), 0, bytes_in_buffer + Len(cut)))
          = Put(Put(media, mpos, Get(stored, 0, bytes_in_buffer)), mpos + bytes_in_buffer, cut)
    <3>1. BufferSize \in Nat /\ bytes_in_buffer + Len(cut) <= BufferSize
      BY <1>3, <1>7
    <3>2. mpos \in Nat /\ bytes_in_buffer \in Nat /\ cut \in Seq(Nat)
      BY <1>2, <1>7
    <3>3. Arrays(Offset, BufferSize, media, stored)
      BY <1>5, <1>6, <3>1 DEF Arrays
    <3> QED BY <3>1, <3>2, <3>3, PutBehind
  <2> QED BY <1>1, <1>4, <1>7, <1>8, <1>9, <2>1
<1>11. File!Put(FileOf, PosOf, cut) = Put(FileOf, PosOf, cut)
  BY DEF File!Put, Put
<1>12. PosOf' = PosOf + k
  BY <1>0, <1>1, <1>4 DEF PosOf
<1>13. File!Write
  <2>1. FileOf' = File!Put(FileOf, PosOf, SubSeq(src, 1, k))
    BY <1>10, <1>11 DEF cut
  <2> QED BY <1>0, <1>1, <1>3, <1>12, <2>1 DEF File!Write
<1> QED BY <1>0, <1>13 DEF File!Next

LEMMA FlushMediaStep ==
    ASSUME IInv, ~error, FlushMedia
    PROVE  UNCHANGED File!vars
<1>0. /\ ~input /\ input' = input /\ error' = error /\ pc = "flush" /\ pc' = pc
      /\ UNCHANGED <<stored, byte_offset, call, got, src, done>>
  BY DEF FlushMedia, IInv, ControlInv, InputInv, flagVars, callVars
<1>1. PICK k \in 1..bytes_in_buffer :
         /\ media' = Put(media, mpos, Get(stored, current, k))
         /\ mpos' = mpos + k /\ current' = current + k
         /\ bytes_in_buffer' = bytes_in_buffer - k
  BY DEF FlushMedia
<1>2. /\ mpos \in Nat /\ bytes_in_buffer \in Nat /\ current \in Nat
      /\ current + bytes_in_buffer <= BufferSize /\ k \in 0..bytes_in_buffer
  BY <1>0 DEF IInv, ControlInv, PositionTypeOK, BufferTypeOK, OutputInv, OutputBuffer
<1>3. media \in [Offset -> Nat] /\ Offset \in SUBSET Nat
  BY DEF IInv, DataTypeOK, Offset
<1>4. stored \in [0..(BufferSize - 1) -> Nat]
  BY DEF IInv, DataTypeOK
<1>5. FileOf = Put(media, mpos, Get(stored, current, bytes_in_buffer))
  BY <1>0, OutputMap
<1>6. FileOf' = Put(media', mpos', Get(stored, current', bytes_in_buffer'))
  BY <1>0 DEF FileOf
<1>7. FileOf' = FileOf
  <2>1. BufferSize \in Nat
    OBVIOUS
  <2>2. Put(Put(media, mpos, Get(stored, current, k)), mpos + k,
            Get(stored, current + k, bytes_in_buffer - k))
          = Put(media, mpos, Get(stored, current, bytes_in_buffer))
    <3>1. /\ mpos \in Nat /\ bytes_in_buffer \in Nat /\ current \in Nat
          /\ current + bytes_in_buffer <= BufferSize
      BY <1>2
    <3>2. k \in Nat /\ k <= bytes_in_buffer
      BY <1>2
    <3>3. Arrays(Offset, BufferSize, media, stored)
      BY <1>3, <1>4, <2>1 DEF Arrays
    <3> QED BY ONLY <3>1, <3>2, <3>3, PutInPieces
  <2> QED BY <1>1, <1>5, <1>6, <2>2
<1> QED BY <1>0, <1>7 DEF File!vars, PosOf

LEMMA FlushedStep ==
    ASSUME IInv, ~error, Flushed
    PROVE  UNCHANGED File!vars
<1>0. /\ ~input /\ input' = input /\ error' = error /\ pc = "flush" /\ bytes_in_buffer = 0
      /\ UNCHANGED <<media, mpos, bytes_in_buffer, byte_offset, call, got, src>>
      /\ pc' \in {"write", "idle", "wseek", "wskip"}
      /\ pc' = "wskip" => call.op = "skip" /\ done' = done
  BY DEF Flushed, IInv, ControlInv, InputInv, Return, Goto, flagVars, mediaVars
<1>1. media \in [Offset -> Nat] /\ mpos \in Nat
  BY DEF IInv, DataTypeOK, ControlInv, PositionTypeOK
<1>2. FileOf = media
  BY <1>0, <1>1, EmptyBuffer DEF FileOf
<1>3. FileOf' = media'
  BY <1>0, <1>1, EmptyBuffer DEF FileOf
<1>4. byte_offset \in Nat /\ (call.op = "skip" => done = 0)
  BY <1>0 DEF IInv, ControlInv, PositionTypeOK, OutputInv, OutputCall
<1>5. PosOf' = PosOf
  BY <1>0, <1>4 DEF PosOf
<1> QED BY <1>0, <1>2, <1>3, <1>5 DEF File!vars

LEMMA OutputSkipStep ==
    ASSUME IInv, ~error, ~error', WriteSkipMedia
    PROVE  File!Next
<1>0. /\ pc = "wskip" /\ pc' \in {"idle", "wskip"} /\ ~input /\ input' = input /\ src' = src
      /\ media' = media /\ call' = call /\ bytes_in_buffer' = bytes_in_buffer
  BY DEF WriteSkipMedia, IInv, ControlInv, InputInv, Return, ReturnCount, Goto
<1>1. /\ call.op = "skip" /\ size > 0 /\ done + size = call.arg /\ byte_offset = call.start
      /\ PosOf = byte_offset + done
      /\ size \in Nat /\ done \in Nat /\ byte_offset \in Nat /\ bytes_in_buffer = 0
      /\ mpos \in Nat
  BY <1>0 DEF IInv, ControlInv, SkipInv, OutputInv, OutputBuffer, CallTypeOK,
              PositionTypeOK, PosOf
<1>2. PosOf' \in PosOf..(byte_offset + done + size) /\ mpos' \in Nat
  BY <1>0, <1>1 DEF WriteSkipMedia, PosOf, Return, ReturnCount, Goto
<1>3. PosOf' \in PosOf..(call'.start + call'.arg)
  BY <1>0, <1>1, <1>2
<1>4. media \in [Offset -> Nat]
  BY DEF IInv, DataTypeOK
<1>5. FileOf = media
  BY <1>0, <1>1, <1>4, EmptyBuffer DEF FileOf
<1>6. FileOf' = media'
  BY <1>0, <1>1, <1>2, <1>4, EmptyBuffer DEF FileOf
<1> QED BY <1>0, <1>1, <1>3, <1>5, <1>6 DEF File!Next, File!Skip

LEMMA WriteSeekStep ==
    ASSUME IInv, ~error, ~error', WriteSeek
    PROVE  File!Next
<1>0. /\ pc = "wseek" /\ pc' = "idle" /\ ~input /\ input' = input /\ src' = src
      /\ media' = media /\ call' = call /\ bytes_in_buffer' = bytes_in_buffer
      /\ call.op = "seek" /\ bytes_in_buffer = 0
  BY DEF WriteSeek, IInv, ControlInv, InputInv, OutputInv, OutputBuffer, OutputCall, Return
<1>1. mpos \in Nat /\ call.arg \in Nat
  BY DEF IInv, ControlInv, PositionTypeOK, CallTypeOK
<1>2. PosOf' \in {PosOf, call'.arg} /\ mpos' \in Nat
  BY <1>0, <1>1 DEF WriteSeek, PosOf
<1>3. media \in [Offset -> Nat]
  BY DEF IInv, DataTypeOK
<1>4. FileOf = media
  BY <1>0, <1>1, <1>3, EmptyBuffer DEF FileOf
<1>5. FileOf' = media'
  BY <1>0, <1>2, <1>3, EmptyBuffer DEF FileOf
<1> QED BY <1>0, <1>2, <1>4, <1>5 DEF File!Next, File!Seek

(* A stream that has failed to write stays so.                             *)
LEMMA ErrorStays == [Next]_vars /\ error => error'
<1> SUFFICES ASSUME [Next]_vars, error PROVE error'
  OBVIOUS
<1>1. CASE UserCall
  BY <1>1 DEF UserCall, ReadData, ReadSkip, WriteData, Flush, ReadSeek, flagVars
<1>2. CASE ReadMedia \/ ReadEnd \/ SkipMedia \/ SkipToEnd
  BY <1>2 DEF ReadMedia, ReadEnd, SkipMedia, SkipToEnd, flagVars
<1>3. CASE WriteChunk \/ FlushMedia \/ FlushFails \/ Flushed
  BY <1>3 DEF WriteChunk, FlushMedia, FlushFails, Flushed, flagVars
<1>4. CASE WriteSkipMedia \/ WriteSeek \/ DiskFull
  BY <1>4 DEF WriteSkipMedia, WriteSeek, DiskFull, flagVars
<1>5. CASE UNCHANGED vars
  BY <1>5 DEF vars, flagVars
<1> QED BY <1>1, <1>2, <1>3, <1>4, <1>5 DEF Next, Progress, FlushNothing, Terminated

LEMMA FileStep == IInv /\ BufferHolds /\ [Next]_vars => [File!Next]_File!vars
<1> SUFFICES ASSUME IInv, BufferHolds, [Next]_vars, ~error'
             PROVE  File!Next \/ UNCHANGED File!vars
  BY DEF File!Next
<1>0. ~error
  BY ErrorStays
<1>1. CASE \E n \in Sizes : ReadData(n) \/ ReadSkip(n) \/ WriteData(n)
  BY <1>0, <1>1, ReadDataStep, ReadSkipStep, WriteDataStep
<1>2. CASE \/ \E n \in Sizes : Flush("skip", n)
           \/ \E p \in 0..Length : Flush("seek", p)
           \/ Flush("flush", 0)
  BY <1>0, <1>2, FlushStep
<1>3. CASE \E p \in 0..Length : ReadSeek(p)
  BY <1>0, <1>3, ReadSeekStep
<1>4. CASE ReadMedia \/ ReadEnd
  BY <1>0, <1>4, ReadMediaStep, ReadEndStep
<1>5. CASE SkipMedia \/ SkipToEnd
  BY <1>0, <1>5, SkipMediaStep
<1>6. CASE WriteChunk
  BY <1>0, <1>6, WriteChunkStep
<1>7. CASE FlushMedia
  BY <1>0, <1>7, FlushMediaStep
<1>8. CASE FlushFails
  BY <1>8 DEF FlushFails
<1>9. CASE Flushed
  BY <1>0, <1>9, FlushedStep
<1>10. CASE WriteSkipMedia \/ WriteSeek
  BY <1>0, <1>10, OutputSkipStep, WriteSeekStep
<1>11. CASE DiskFull \/ UNCHANGED vars
  <2>1. UNCHANGED <<flagVars, bufferVars, media, mpos, callVars>>
    BY <1>11 DEF DiskFull, vars, mediaVars
  <2>2. UNCHANGED <<input, error, stored, current, bytes_in_buffer, byte_offset, media,
                    mpos, pc, call, done, got, src>>
    BY <2>1 DEF flagVars, bufferVars, callVars
  <2>3. FileOf' = FileOf /\ PosOf' = PosOf
    BY <2>2 DEF FileOf, PosOf
  <2> QED BY <2>2, <2>3 DEF File!vars
<1> QED
  BY <1>1, <1>2, <1>3, <1>4, <1>5, <1>6, <1>7, <1>8, <1>9, <1>10, <1>11
     DEF Next, UserCall, Progress, FlushNothing, Terminated

LEMMA FileInit == Init => File!Init
BY DEF Init, File!Init, PosOf

(* Buffering is invisible: a stream is a file with a position, whatever    *)
(* the sizes of the buffer, the calls and the pieces, as long as no write  *)
(* has failed.                                                             *)
THEOREM FileImplemented == Spec => ImplementsByteFile
<1>1. Init => IInv /\ BufferHolds
  BY InvInit, BufferInit
<1>2. IInv /\ [Next]_vars => IInv'
  BY InvNext
<1>3. IInv /\ BufferHolds /\ [Next]_vars => BufferHolds'
  BY BufferNext
<1>4. IInv /\ BufferHolds /\ [Next]_vars => [File!Next]_File!vars
  BY FileStep
<1>5. Init => File!Init
  BY FileInit
<1> QED BY <1>1, <1>2, <1>3, <1>4, <1>5, PTL DEF Spec, ImplementsByteFile, File!Spec
=============================================================================
