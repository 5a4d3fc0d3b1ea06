-------------------------- MODULE J2KDecoderProofs --------------------------
(***************************************************************************)
(* Theorems about J2KDecoder, for codestreams of any number of tiles and   *)
(* tile-parts, in any order and cut anywhere, and any number of calls.     *)
(***************************************************************************)
EXTENDS J2KDecoder, TLAPS, WellFoundedInduction, SequenceTheorems, FiniteSetTheorems

-----------------------------------------------------------------------------
(* Sequences of tokens                                                     *)

TokenKinds == {"header", "SOT", "segment", "SOD", "data", "EOC", "piece", "unknown"}

TokenSet == [is : TokenKinds, n : Nat]

\* A stream that a codestream c can leave: behind data there is no SOD marker.
StreamOK(s, c) ==
    /\ s \in Seq(TokenSet)
    /\ \A j \in 1..Len(s) : s[j].is = "segment" => s[j].n \in 1..Len(c.parts)
    /\ \A j \in 1..Len(s) : j < Len(s) /\ s[j].is = "data" => s[j + 1].is # "SOD"

(* A set of natural numbers that is not empty has a least element.         *)
LEMMA Minimum ==
    ASSUME NEW S, S \subseteq Nat, S # {}
    PROVE  \E x \in S : \A y \in S : x <= y
<1>1. IsWellFoundedOn(OpToRel(<, Nat), Nat)
  BY NatLessThanWellFounded
<1>2. PICK x \in S : \A y \in S : ~(<<y, x>> \in OpToRel(<, Nat))
  BY <1>1, WFMin
<1>3. \A y \in S : ~(y < x)
  BY <1>2 DEF OpToRel
<1> QED BY <1>3

(* A part of a stream is a stream.                                         *)
LEMMA StreamPart ==
    ASSUME NEW c, NEW s, StreamOK(s, c), NEW k \in Nat \ {0}, NEW m \in 0..Len(s)
    PROVE  StreamOK(SubSeq(s, k, m), c)
<1> DEFINE r == SubSeq(s, k, m)
<1>1. s \in Seq(TokenSet)
  BY DEF StreamOK
<1>2. k \in Int /\ m \in Int /\ \A i \in k..m : s[i] \in TokenSet
  BY <1>1
<1>3. /\ r \in Seq(TokenSet)
      /\ Len(r) = IF k <= m THEN m - k + 1 ELSE 0
      /\ \A i \in 1..(m - k + 1) : r[i] = s[k + i - 1]
  BY <1>2, SubSeqProperties
<1> HIDE DEF r
<1>4. \A j \in 1..Len(r) : r[j] = s[k + j - 1] /\ k + j - 1 \in 1..Len(s)
  BY <1>1, <1>3
<1>5. \A j \in 1..Len(r) : j < Len(r) => r[j + 1] = s[k + j - 1 + 1] /\ k + j - 1 < Len(s)
  BY <1>1, <1>3
<1>6. \A j \in 1..Len(r) : r[j].is = "segment" => r[j].n \in 1..Len(c.parts)
  BY <1>4 DEF StreamOK
<1>7. \A j \in 1..Len(r) : j < Len(r) /\ r[j].is = "data" => r[j + 1].is # "SOD"
  BY <1>4, <1>5 DEF StreamOK
<1>8. StreamOK(r, c)
  BY <1>3, <1>6, <1>7 DEF StreamOK
<1> QED BY <1>8 DEF r

(* The rest of a stream from some token on is a stream.                    *)
LEMMA StreamFrom ==
    ASSUME NEW c, NEW s, StreamOK(s, c), NEW k \in Nat \ {0}
    PROVE  StreamOK(SubSeq(s, k, Len(s)), c)
<1>1. s \in Seq(TokenSet)
  BY DEF StreamOK
<1>2. Len(s) \in 0..Len(s)
  BY <1>1
<1> QED BY <1>2, StreamPart

(* The rest of a stream behind its first token is a stream.                *)
LEMMA StreamTail ==
    ASSUME NEW c, NEW s, StreamOK(s, c), s # <<>>
    PROVE  StreamOK(Tail(s), c)
<1>1. s \in Seq(TokenSet)
  BY DEF StreamOK
<1>2. Tail(s) = SubSeq(s, 2, Len(s))
  BY <1>1, TailIsSubSeq
<1>3. 2 \in Nat \ {0}
  OBVIOUS
<1> QED BY <1>2, <1>3, StreamFrom

(* A single token is a stream, if it is no segment of an unknown tile-part. *)
LEMMA StreamOfOne ==
    ASSUME NEW c, NEW x \in TokenSet, x.is # "segment"
    PROVE  StreamOK(<<x>>, c)
<1>1. <<x>> \in Seq(TokenSet) /\ Len(<<x>>) = 1 /\ <<x>>[1] = x
  OBVIOUS
<1> QED BY <1>1 DEF StreamOK

(* The empty stream is one.                                                *)
LEMMA StreamEmpty == ASSUME NEW c PROVE StreamOK(<<>>, c)
<1>1. <<>> \in Seq(TokenSet) /\ Len(<<>>) = 0
  OBVIOUS
<1> QED BY <1>1 DEF StreamOK

(* A piece of a token may follow any stream.                               *)
LEMMA StreamTorn ==
    ASSUME NEW c, NEW s, StreamOK(s, c), NEW x \in TokenSet, x.is = "piece"
    PROVE  StreamOK(s \o <<x>>, c)
<1> DEFINE r == s \o <<x>>
<1>1. s \in Seq(TokenSet)
  BY DEF StreamOK
<1>2. r \in Seq(TokenSet) /\ Len(r) = Len(s) + 1
  BY <1>1
<1>3. \A j \in 1..Len(s) : r[j] = s[j]
  BY <1>1
<1>4. r[Len(s) + 1] = x
  BY <1>1
<1> HIDE DEF r
<1>5. Len(s) \in Nat
  BY <1>1
<1>6. ASSUME NEW j \in 1..Len(r)
      PROVE  /\ r[j].is = "segment" => r[j].n \in 1..Len(c.parts)
             /\ j < Len(r) /\ r[j].is = "data" => r[j + 1].is # "SOD"
  <2>1. CASE j = Len(s) + 1
    BY <2>1, <1>4, <1>2, <1>5
  <2>2. CASE j \in 1..Len(s)
    <3>1. r[j] = s[j]
      BY <2>2, <1>3
    <3>2. r[j].is = "segment" => r[j].n \in 1..Len(c.parts)
      BY <2>2, <3>1 DEF StreamOK
    <3>3. CASE j = Len(s)
      BY <3>2, <3>3, <1>4
    <3>4. CASE j < Len(s)
      <4>1. j + 1 \in 1..Len(s)
        BY <3>4, <2>2, <1>5
      <4>2. r[j + 1] = s[j + 1]
        BY <4>1, <1>3
      <4> QED BY <2>2, <3>1, <3>2, <3>4, <4>2 DEF StreamOK
    <3> QED BY <3>3, <3>4, <2>2, <1>5
  <2> QED BY <2>1, <2>2, <1>2, <1>5
<1>7. StreamOK(r, c)
  BY <1>2, <1>6 DEF StreamOK
<1> QED BY <1>7 DEF r

(* The tokens of a tile-part are tokens.                                   *)
LEMMA TokenType ==
    ASSUME NEW is \in TokenKinds, NEW k \in Nat
    PROVE  Token(is, k) \in TokenSet /\ Token(is, k).is = is /\ Token(is, k).n = k
BY DEF Token, TokenSet

(* The codestream itself is such a stream, as far as it is there.          *)
LEMMA CodestreamOK ==
    ASSUME NEW c \in Codestreams
    PROVE  StreamOK(Tokens(c), c)
<1> DEFINE L == Len(c.parts)
           n == 4 * L + IF c.eoc THEN 2 ELSE 1
           s == Tokens(c)
<1>1. L \in Nat /\ n \in {4 * L + 1, 4 * L + 2}
  <2>1. c.parts \in Seq(TileParts)
    BY J2KDecoderAssumption
  <2>2. L \in Nat
    BY <2>1
  <2> HIDE DEF L
  <2> QED BY <2>2
<1> HIDE DEF L
<1>2. /\ Kinds[1] = "SOT" /\ Kinds[2] = "segment" /\ Kinds[3] = "SOD" /\ Kinds[4] = "data"
  BY DEF Kinds
<1>3. /\ DOMAIN s = 1..n
      /\ \A j \in 1..n :
          s[j] = (IF j = 1 THEN Token("header", 0)
                  ELSE IF j = 4 * L + 2 THEN Token("EOC", 0)
                  ELSE Token(Kinds[1 + ((j - 2) % 4)], 1 + ((j - 2) \div 4)))
  BY DEF Tokens, L
<1>4. \A is, k : Token(is, k).is = is /\ Token(is, k).n = k
  BY DEF Token
<1> HIDE DEF n, s
<1>5. ASSUME NEW j \in 1..n, j # 1, j # 4 * L + 2
      PROVE  /\ (j - 2) % 4 \in 0..3 /\ (j - 2) \div 4 \in 0..(L - 1)
             /\ j - 2 = 4 * ((j - 2) \div 4) + ((j - 2) % 4)
  BY <1>1, <1>5
<1>6. ASSUME NEW j \in 1..n
      PROVE  /\ s[j].is \in TokenKinds /\ s[j].n \in Nat /\ s[j] \in TokenSet
             /\ s[j].is = "segment" => s[j].n \in 1..L
             /\ s[j].is = "data" => j # 1 /\ j # 4 * L + 2 /\ (j - 2) % 4 = 3
             /\ s[j].is = "SOD" => j # 1 /\ j # 4 * L + 2 /\ (j - 2) % 4 = 2
  <2>1. CASE j = 1
    <3>1. s[j] = Token("header", 0)
      BY <1>3, <2>1
    <3>2. "header" \in TokenKinds /\ 0 \in Nat
      BY DEF TokenKinds
    <3>3. s[j] \in TokenSet /\ s[j].is = "header" /\ s[j].n = 0
      BY <3>1, <3>2, TokenType
    <3>4. s[j].is \notin {"segment", "data", "SOD"}
      BY <3>3
    <3> QED BY <3>2, <3>3, <3>4
  <2>2. CASE j # 1 /\ j = 4 * L + 2
    <3>1. s[j] = Token("EOC", 0)
      BY <1>3, <2>2
    <3>2. "EOC" \in TokenKinds /\ 0 \in Nat
      BY DEF TokenKinds
    <3>3. s[j] \in TokenSet /\ s[j].is = "EOC" /\ s[j].n = 0
      BY <3>1, <3>2, TokenType
    <3>4. s[j].is \notin {"segment", "data", "SOD"}
      BY <3>3
    <3> QED BY <3>2, <3>3, <3>4
  <2>3. CASE j # 1 /\ j # 4 * L + 2
    <3> DEFINE q == (j - 2) \div 4
               r == (j - 2) % 4
    <3>1. s[j] = Token(Kinds[1 + r], 1 + q)
      BY <1>3, <2>3
    <3>2. r \in 0..3 /\ q \in 0..(L - 1) /\ q \in Nat
      BY <1>5, <2>3, <1>1
    <3>3. s[j].n = 1 + q /\ s[j].n \in Nat /\ s[j].n \in 1..L
      BY <3>1, <3>2, <1>4, <1>1
    <3>4. s[j].is = Kinds[1 + r]
      BY <3>1, <1>4
    <3>5. s[j] = [is |-> s[j].is, n |-> s[j].n]
      BY <3>1, <1>4 DEF Token
    <3>6. /\ r = 0 => s[j].is = "SOT"
          /\ r = 1 => s[j].is = "segment"
          /\ r = 2 => s[j].is = "SOD"
          /\ r = 3 => s[j].is = "data"
      BY <3>4, <1>2
    <3> HIDE DEF r, q
    <3>7. r = 0 \/ r = 1 \/ r = 2 \/ r = 3
      BY <3>2
    <3>8. s[j].is \in TokenKinds
      BY <3>6, <3>7 DEF TokenKinds
    <3>9. s[j].is = "data" => r = 3
      BY <3>6, <3>7
    <3>10. s[j].is = "SOD" => r = 2
      BY <3>6, <3>7
    <3>11. s[j] \in TokenSet
      BY <3>3, <3>5, <3>8 DEF TokenSet
    <3> QED BY <2>3, <3>3, <3>8, <3>9, <3>10, <3>11 DEF r
  <2> QED BY <2>1, <2>2, <2>3
<1>7. s \in Seq(TokenSet) /\ Len(s) = n
  <2>1. s = [j \in 1..n |-> s[j]]
    BY DEF s, n, L, Tokens
  <2>2. s \in [1..n -> TokenSet]
    <3>1. \A j \in 1..n : s[j] \in TokenSet
      BY <1>6
    <3> QED BY <2>1, <3>1
  <2>3. n \in Nat
    BY <1>1
  <2> QED BY <2>2, <2>3
<1>8. \A j \in 1..Len(s) : s[j].is = "segment" => s[j].n \in 1..Len(c.parts)
  BY <1>6, <1>7 DEF L
<1>9. ASSUME NEW j \in 1..n, j < n, s[j].is = "data"
      PROVE  s[j + 1].is # "SOD"
  <2>1. j # 1 /\ j # 4 * L + 2 /\ (j - 2) % 4 = 3
    BY <1>6, <1>9
  <2>2. j + 1 \in 1..n
    BY <1>9, <1>1
  <2>3. (j + 1 - 2) % 4 # 2
    BY <2>1, <1>1
  <2> QED BY <2>2, <2>3, <1>6
<1>10. StreamOK(s, c)
  BY <1>7, <1>8, <1>9 DEF StreamOK
<1> QED BY <1>10 DEF s

(* What there is of a codestream, cut anywhere, is such a stream.          *)
LEMMA AvailableOK ==
    ASSUME NEW c \in Codestreams
    PROVE  StreamOK(Available(c), c)
<1> DEFINE s == Tokens(c)
           whole == SubSeq(s, 1, c.end)
           x == Token("piece", 0)
<1>1. StreamOK(s, c)
  BY CodestreamOK
<1>2. Len(s) = 4 * Len(c.parts) + IF c.eoc THEN 2 ELSE 1
  <2>1. c.parts \in Seq(TileParts)
    BY J2KDecoderAssumption
  <2>2. Len(c.parts) \in Nat
    BY <2>1
  <2>3. \A l \in Nat : 4 * l + (IF c.eoc THEN 2 ELSE 1) \in Nat
    OBVIOUS
  <2>4. 4 * Len(c.parts) + (IF c.eoc THEN 2 ELSE 1) \in Nat
    BY <2>2, <2>3
  <2> QED BY <2>4 DEF Tokens
<1>3. c.end \in 0..Len(s)
  BY <1>2, J2KDecoderAssumption
<1> HIDE DEF s
<1>4. StreamOK(whole, c)
  BY <1>1, <1>3, 1 \in Nat \ {0}, StreamPart
<1>5. x \in TokenSet /\ x.is = "piece"
  BY DEF Token, TokenKinds, TokenSet
<1> HIDE DEF x, whole
<1>6. StreamOK(whole \o <<x>>, c)
  BY <1>4, <1>5, StreamTorn
<1>7. StreamOK(whole \o <<>>, c)
  <2>1. whole \o <<>> = whole
    BY <1>4 DEF StreamOK
  <2> QED BY <2>1, <1>4
<1>8. Available(c) = whole \o (IF c.torn THEN <<x>> ELSE <<>>)
  BY DEF Available, whole, x, s
<1>9. CASE c.torn
  BY <1>6, <1>8, <1>9
<1>10. CASE ~c.torn
  BY <1>7, <1>8, <1>10
<1> QED BY <1>9, <1>10

-----------------------------------------------------------------------------
(* The inductive invariant                                                 *)

\* The values of the variables of a call.
Markers == {"none", "SOT", "SOD", "EOC", "unknown"}

PCs == {"idle", "decode_tiles", "read_tile_header", "loop", "tile_part", "after_loop",
        "decode_tile", "no_more"}

Results == {"none", "ok", "no_more", "nothing", "state", "short", "tile-part", "undecodable",
            "outside"}

Calls == [pc : PCs, is : {"none", "decode", "tile", "get_tile"}, tile : Tile, area : SUBSET Tile,
          whole : BOOLEAN, marker : Markers, nr_tiles : Nat, result : Results]

\* The type invariant of the runs, and the types of the call and the stream.
TypeInv ==
    /\ codestream \in Codestreams
    /\ StreamOK(rest, codestream)
    /\ TypeOK
    /\ call \in Calls
    /\ calls \in Nat
    /\ \A t \in Tile : tcps[t].part >= -1

\* Before the first call that decodes nothing has been collected.
FreshInv ==
    /\ m_decoder.state = {} => calls = 0
    /\ calls = 0 =>
        /\ call.pc = "idle"
        /\ m_decoder.tile_ind_to_dec = -1 /\ ~m_decoder.last_tile_part /\ ~m_decoder.can_decode
        /\ ~m_decoder.correction_checked
        /\ m_private_image => m_decoder.state = {"TPHSOT"}
        /\ \A t \in Tile : tcps[t].part = -1 /\ tcps[t].data = None /\ image[t] = None

\* What the kind of a call says of the tiles that are wanted.
CallInv ==
    /\ call.pc # "idle" => m_private_image
    /\ call.is = "none" <=> calls = 0
    /\ codestream.tiles = 1 => m_decoder.area = Tile
    /\ call.is \in {"decode", "tile"} =>
        call.area = m_decoder.area /\ m_decoder.tile_ind_to_dec = -1
    /\ call.is = "get_tile" =>
        /\ call.area = {call.tile} /\ m_decoder.tile_ind_to_dec = call.tile
        /\ call.pc # "idle" => image[call.tile] = None
    /\ call.pc = "decode_tiles" => call.is = "decode"

Between == {"idle", "decode_tiles", "read_tile_header"}

AtStreamEnd == m_decoder.state \in {{"EOC"}, {"NEOC"}, {"EOC", "DATA"}, {"NEOC", "DATA"}}

\* The state of the decoder at each place of a call.
StateInv == m_private_image =>
    /\ call.pc \in Between => m_decoder.state \in {{"TPHSOT"}, {"EOC"}, {"NEOC"}}
    /\ call.pc = "loop" =>
          m_decoder.state = {"TPHSOT"} \/ (m_decoder.state = {"EOC"} /\ call.marker = "EOC")
    /\ call.pc = "tile_part" => m_decoder.state = {"TPH"}
    /\ call.pc = "after_loop" =>
          \/ m_decoder.state = {"TPHSOT"} /\ m_decoder.can_decode
          \/ m_decoder.state \in {{"EOC"}, {"NEOC"}} /\ ~m_decoder.can_decode
    /\ call.pc = "no_more" => m_decoder.state \in {{"EOC"}, {"NEOC"}}
    /\ call.pc = "decode_tile" =>
          m_decoder.state \in {{"TPHSOT", "DATA"}, {"EOC", "DATA"}, {"NEOC", "DATA"}}

\* A tile that is taken for complete has its last tile-part, and is the one
\* whose SOD marker was read last.
CompleteInv == m_private_image =>
    /\ m_decoder.can_decode =>
          /\ call.pc \in {"tile_part", "after_loop", "decode_tile"}
          /\ call.marker = "SOD"
          /\ m_current_tile_number \in Tile
          /\ tcps[m_current_tile_number].nb = tcps[m_current_tile_number].part + 1
          /\ tcps[m_current_tile_number].part >= 0
          /\ call.pc # "tile_part" => m_decoder.correction_checked
    /\ call.pc = "decode_tile" =>
          m_current_tile_number \in Tile /\ (KeepsData \/ m_decoder.can_decode \/ AtStreamEnd)
    /\ call.pc = "tile_part" => m_decoder.skip_data = Skips(m_current_tile_number)
    /\ call.pc = "tile_part" \/ (call.pc = "loop" /\ call.marker = "SOD") =>
          m_current_tile_number \in Tile /\ tcps[m_current_tile_number].part >= 0

\* Nothing is passed over in a codestream whose last tile-part is open.
Sound == Open(codestream) => m_decoder.area = Tile /\ m_decoder.tile_ind_to_dec = -1

AtMostOneToken == rest = <<>> \/ (Len(rest) = 1 /\ rest[1].is \in {"EOC", "unknown"})

\* Behind the data of an open tile-part at most one token is left.
LastInv == m_private_image =>
    /\ m_decoder.last_tile_part => Open(codestream)
    /\ m_decoder.last_tile_part /\ Sound =>
        /\ call.pc \in Between => AtStreamEnd
        /\ call.pc = "loop" => call.marker \in {"EOC", "unknown"}
        /\ call.pc # "tile_part" => AtMostOneToken
    /\ Sound /\ call.pc = "loop" => call.marker # "SOD"

\* The number of tile-parts of t that have been collected.
Collected(t) ==
    IF call.pc = "tile_part" /\ m_current_tile_number = t THEN tcps[t].part ELSE tcps[t].part + 1

\* No tile-part of t is read any more.
Closed(t) ==
    \/ AtStreamEnd
    \/ m_decoder.correction_checked /\ tcps[t].nb # 0 /\ tcps[t].nb <= tcps[t].part + 1

\* What has been collected of t are its first tile-parts in order, and only
\* the data of an open one, the last, may be cut or have more behind it.
InOrderSoFar(t) == \A i \in 1..Len(tcps[t].data) :
    /\ tcps[t].data[i].n = i - 1
    /\ \/ tcps[t].data[i].is = "whole"
       \/ i = Len(tcps[t].data) /\ m_decoder.last_tile_part /\ call.pc # "tile_part"

\* Of a tile that is wanted the tile-parts up to the one read last have been
\* collected in order, or it has been decoded and is closed.
DataInv == m_private_image /\ Sound => \A t \in Tile : ~Skips(t) =>
    /\ InOrderSoFar(t)
    /\ \/ Len(tcps[t].data) = Collected(t)
       \/ tcps[t].data = None /\ Closed(t) /\ ~(call.pc = "tile_part" /\ m_current_tile_number = t)

\* A program that asks for single tiles holds the data of no other tile.
OthersInv == m_private_image /\ Sound /\ call.is = "get_tile" => \A t \in Tile :
    t # call.tile \/ call.pc = "idle" => tcps[t].data = None

\* The inductive invariant.
IInv ==
    /\ TypeInv /\ FreshInv /\ CallInv /\ StateInv /\ CompleteInv
    /\ LastInv /\ DataInv /\ OthersInv /\ DataInOrder

-----------------------------------------------------------------------------
(* What the types say                                                      *)

States == {"MH", "TPHSOT", "TPH", "NEOC", "EOC", "DATA"}

Tiles == [part : Int, nb : Nat, data : Seq(Pieces)]

(* The types of the fields of m_decoder.                                   *)
LEMMA DecoderFields ==
    ASSUME TypeInv
    PROVE  /\ m_decoder.state \in SUBSET States
           /\ m_decoder.can_decode \in BOOLEAN /\ m_decoder.skip_data \in BOOLEAN
           /\ m_decoder.last_tile_part \in BOOLEAN /\ m_decoder.correction_checked \in BOOLEAN
           /\ m_decoder.tile_ind_to_dec \in Tile \cup {-1}
           /\ m_decoder.area \in SUBSET Tile /\ m_decoder.whole \in BOOLEAN
           /\ m_decoder.correction \in {0, 1} /\ m_decoder.last_sot_read_pos \in Nat
BY DEF TypeInv, TypeOK, States

(* The types of the fields of the call in progress.                        *)
LEMMA CallFields ==
    ASSUME TypeInv
    PROVE  /\ call.pc \in PCs /\ call.is \in {"none", "decode", "tile", "get_tile"}
           /\ call.tile \in Tile /\ call.area \in SUBSET Tile /\ call.whole \in BOOLEAN
           /\ call.marker \in Markers /\ call.nr_tiles \in Nat /\ call.result \in Results
BY DEF TypeInv, Calls

(* The types of what is kept of a tile.                                    *)
LEMMA TileFields ==
    ASSUME TypeInv
    PROVE  /\ tcps \in [Tile -> Tiles]
           /\ \A t \in Tile : /\ tcps[t].part \in Int /\ tcps[t].part >= -1
                              /\ tcps[t].nb \in Nat /\ tcps[t].data \in Seq(Pieces)
<1>1. tcps \in [Tile -> Tiles]
  BY DEF TypeInv, TypeOK, Tiles
<1>2. \A t \in Tile : tcps[t] \in Tiles
  BY <1>1
<1>3. \A t \in Tile : tcps[t].part >= -1
  BY DEF TypeInv
<1> QED BY <1>1, <1>2, <1>3 DEF Tiles

(* What the assumption says of the codestream that is read.                *)
LEMMA CodestreamFields ==
    ASSUME TypeInv
    PROVE  /\ codestream \in Codestreams /\ codestream.tiles \in Nat \ {0}
           /\ codestream.parts \in Seq(TileParts) /\ Len(codestream.parts) \in Nat
           /\ 0 \in Tile /\ Tile \subseteq Nat
           /\ \A n \in 1..Len(codestream.parts) :
                /\ codestream.parts[n].tile \in Nat /\ codestream.parts[n].part \in Nat
                /\ codestream.parts[n].num \in Nat /\ codestream.parts[n].open \in BOOLEAN
<1>1. codestream \in Codestreams
  BY DEF TypeInv
<1>2. codestream.tiles \in Nat \ {0} /\ codestream.parts \in Seq(TileParts)
  BY <1>1, J2KDecoderAssumption
<1>3. 0 \in Tile /\ Tile \subseteq Nat
  BY <1>2 DEF Tile
<1>4. \A n \in 1..Len(codestream.parts) : codestream.parts[n] \in TileParts
  BY <1>2
<1> QED BY <1>1, <1>2, <1>3, <1>4, SMTT(60) DEF TileParts

(* The first token that is left, and the tile-part it tells of.            *)
LEMMA RestFields ==
    ASSUME TypeInv
    PROVE  /\ rest \in Seq(TokenSet) /\ Len(rest) \in Nat
           /\ rest # <<>> => Len(rest) > 0 /\ Head(rest) = rest[1] /\ rest[1] \in TokenSet
           /\ \A j \in 1..Len(rest) : rest[j].is \in TokenKinds /\ rest[j].n \in Nat
           /\ rest # <<>> /\ Head(rest).is = "segment" => Head(rest).n \in 1..Len(codestream.parts)
<1>1. rest \in Seq(TokenSet) /\ StreamOK(rest, codestream)
  BY DEF TypeInv, StreamOK
<1>2. rest # <<>> => Len(rest) > 0 /\ Head(rest) = rest[1] /\ rest[1] \in TokenSet
  BY <1>1
<1>3. \A j \in 1..Len(rest) : rest[j] \in TokenSet
  BY <1>1
<1>4. rest # <<>> /\ Head(rest).is = "segment" => Head(rest).n \in 1..Len(codestream.parts)
  BY <1>1, <1>2 DEF StreamOK
<1> QED BY <1>1, <1>2, <1>3, <1>4 DEF TokenSet

(* No two sets of flags that are one state of the decoder are the same.    *)
LEMMA FlagsDiffer ==
    /\ {"TPHSOT"} # {} /\ {"TPH"} # {} /\ {"EOC"} # {} /\ {"NEOC"} # {}
    /\ {"TPHSOT"} # {"TPH"} /\ {"TPHSOT"} # {"EOC"} /\ {"TPHSOT"} # {"NEOC"}
    /\ {"TPH"} # {"EOC"} /\ {"TPH"} # {"NEOC"} /\ {"EOC"} # {"NEOC"}
    /\ \A s \in {{"TPHSOT"}, {"TPH"}} :
          s \notin {{"EOC"}, {"NEOC"}, {"EOC", "DATA"}, {"NEOC", "DATA"}}
    /\ {"TPHSOT", "DATA"} \notin {{"EOC"}, {"NEOC"}, {"EOC", "DATA"}, {"NEOC", "DATA"}}
    /\ \A f \in {"TPHSOT", "EOC", "NEOC"} :
          /\ {f} \cup {"DATA"} = {f, "DATA"} /\ {f, "DATA"} \ {"DATA"} = {f}
          /\ {f, "DATA"} # {}
OBVIOUS

(* What a tile is after its tile-part number and their count have been set. *)
LEMMA TilePartSet ==
    ASSUME NEW D, NEW f \in [D -> Tiles], NEW t \in D, NEW a \in Int, NEW b \in Nat,
           NEW g, g = [f EXCEPT ![t].part = a, ![t].nb = b]
    PROVE  /\ g \in [D -> Tiles]
           /\ g[t].part = a /\ g[t].nb = b /\ g[t].data = f[t].data
           /\ \A u \in D : u # t => g[u] = f[u]
<1> DEFINE x == [f[t] EXCEPT !.part = a]
           h == [f EXCEPT ![t] = x]
           y == [x EXCEPT !.nb = b]
<1>1. f[t] \in Tiles
  OBVIOUS
<1>2. x \in Tiles /\ x.part = a /\ x.data = f[t].data
  BY <1>1 DEF Tiles
<1>3. y \in Tiles /\ y.part = a /\ y.nb = b /\ y.data = f[t].data
  BY <1>2 DEF Tiles
<1>4. h \in [D -> Tiles] /\ h[t] = x /\ \A u \in D : u # t => h[u] = f[u]
  BY <1>2
<1>5. g = [h EXCEPT ![t] = y]
  <2>1. g = [h EXCEPT ![t].nb = b]
    OBVIOUS
  <2> QED BY <2>1, <1>4
<1> HIDE DEF x, y, h
<1>6. g \in [D -> Tiles] /\ g[t] = y /\ \A u \in D : u # t => g[u] = h[u]
  BY <1>5, <1>4, <1>3
<1> QED BY <1>6, <1>3, <1>4

WithData(f, t, d) == [f EXCEPT ![t].data = d]

(* What a tile is after its data has been set.                             *)
LEMMA TileDataSet ==
    ASSUME NEW D, NEW f \in [D -> Tiles], NEW t \in D, NEW d \in Seq(Pieces),
           NEW g, g = WithData(f, t, d)
    PROVE  /\ g \in [D -> Tiles]
           /\ g[t].part = f[t].part /\ g[t].nb = f[t].nb /\ g[t].data = d
           /\ \A u \in D : u # t => g[u] = f[u]
<1> DEFINE x == [f[t] EXCEPT !.data = d]
<1>1. f[t] \in Tiles
  OBVIOUS
<1>2. x \in Tiles /\ x.part = f[t].part /\ x.nb = f[t].nb /\ x.data = d
  BY <1>1 DEF Tiles
<1>3. g = [f EXCEPT ![t] = x]
  BY DEF WithData
<1> HIDE DEF x
<1> QED BY <1>2, <1>3

DecoderSet(T) ==
    [state : SUBSET States, can_decode : BOOLEAN, skip_data : BOOLEAN, last_tile_part : BOOLEAN,
     tile_ind_to_dec : T \cup {-1}, area : SUBSET T, whole : BOOLEAN,
     correction : {0, 1}, correction_checked : BOOLEAN, last_sot_read_pos : Nat]

(* m_decoder is in the set of records that the types of its fields make.   *)
LEMMA DecoderTyped == ASSUME TypeInv PROVE m_decoder \in DecoderSet(Tile)
BY DEF TypeInv, TypeOK, DecoderSet, States

(* The updates of m_decoder, and what they leave.                          *)
WithState(d, s) == [d EXCEPT !.state = s]

WithTilePart(d, l, c, k, r) ==
    [d EXCEPT !.state = {"TPH"}, !.last_tile_part = l, !.can_decode = c,
              !.skip_data = k, !.last_sot_read_pos = r]

(* What the decoder is in another state.                                   *)
LEMMA StateSet ==
    ASSUME NEW T, NEW d \in DecoderSet(T), NEW s \in SUBSET States
    PROVE  /\ WithState(d, s) \in DecoderSet(T) /\ WithState(d, s).state = s
           /\ WithState(d, s).can_decode = d.can_decode
           /\ WithState(d, s).skip_data = d.skip_data
           /\ WithState(d, s).last_tile_part = d.last_tile_part
           /\ WithState(d, s).tile_ind_to_dec = d.tile_ind_to_dec
           /\ WithState(d, s).area = d.area /\ WithState(d, s).whole = d.whole
           /\ WithState(d, s).correction_checked = d.correction_checked
BY DEF DecoderSet, WithState

(* What the decoder is after a SOT marker segment.                         *)
LEMMA TilePartNoted ==
    ASSUME NEW T, NEW d \in DecoderSet(T), NEW l \in BOOLEAN,
           NEW c \in BOOLEAN, NEW k \in BOOLEAN, NEW r \in Nat
    PROVE  /\ WithTilePart(d, l, c, k, r) \in DecoderSet(T)
           /\ WithTilePart(d, l, c, k, r).state = {"TPH"}
           /\ WithTilePart(d, l, c, k, r).can_decode = c
           /\ WithTilePart(d, l, c, k, r).skip_data = k
           /\ WithTilePart(d, l, c, k, r).last_tile_part = l
           /\ WithTilePart(d, l, c, k, r).tile_ind_to_dec = d.tile_ind_to_dec
           /\ WithTilePart(d, l, c, k, r).area = d.area
           /\ WithTilePart(d, l, c, k, r).whole = d.whole
           /\ WithTilePart(d, l, c, k, r).correction_checked = d.correction_checked
BY DEF DecoderSet, WithTilePart, States

(* The index of a tile after its tile-part has been noted.                 *)
LEMMA IndexSet ==
    ASSUME NEW D, NEW f \in [D -> [nb_tps : Nat, there : BOOLEAN, start : Nat]], NEW t \in D,
           NEW a \in Nat, NEW b \in Nat,
           NEW g, g = [f EXCEPT ![t] = [nb_tps |-> a, there |-> TRUE, start |-> b]]
    PROVE  g \in [D -> [nb_tps : Nat, there : BOOLEAN, start : Nat]]
OBVIOUS

Indices == [nb_tps : Nat, there : BOOLEAN, start : Nat]

(* What each variable has to be after a step.                              *)
LEMMA TypeKept ==
    ASSUME TypeInv, UNCHANGED codestream
    PROVE  /\ StreamOK(rest', codestream) /\ m_private_image' \in BOOLEAN
           /\ m_decoder' \in DecoderSet(Tile) /\ m_current_tile_number' \in 0..codestream.tiles
           /\ tcps' \in [Tile -> Tiles] /\ (\A t \in Tile : tcps'[t].part >= -1)
           /\ tile_index' \in [Tile -> Indices] /\ call' \in Calls /\ calls' \in Nat
           /\ image' \in [Tile -> Seq(Pieces)]
           => TypeInv'
<1>1. Tile' = Tile /\ Calls' = Calls
  BY DEF Tile, Calls
<1> QED BY <1>1 DEF TypeInv, TypeOK, DecoderSet, States, Tiles, Indices

(* The type invariant, one variable at a time.                             *)
LEMMA TypeNow ==
    ASSUME TypeInv
    PROVE  /\ StreamOK(rest, codestream) /\ m_private_image \in BOOLEAN
           /\ m_decoder \in DecoderSet(Tile) /\ m_current_tile_number \in 0..codestream.tiles
           /\ tcps \in [Tile -> Tiles] /\ (\A t \in Tile : tcps[t].part >= -1)
           /\ tile_index \in [Tile -> Indices] /\ call \in Calls /\ calls \in Nat
           /\ image \in [Tile -> Seq(Pieces)]
BY DEF TypeInv, TypeOK, DecoderSet, States, Tiles, Indices

-----------------------------------------------------------------------------
(* A SOT marker segment is read.  The tile-part continues its tile, if that *)
(* is wanted, and nothing has closed the tile.                             *)
LEMMA ReadSOTStep == ASSUME IInv, ReadSOT PROVE IInv'
<1>0. PICK n, p, nb : n = Head(rest).n /\ p = TilePart /\ nb = NumberOfParts(p)
  OBVIOUS
<1>1. /\ TypeInv /\ FreshInv /\ CallInv /\ StateInv /\ CompleteInv /\ LastInv /\ DataInv
      /\ OthersInv /\ DataInOrder
  BY DEF IInv
<1>2. /\ call.pc = "loop" /\ ~m_decoder.can_decode /\ call.marker = "SOT"
      /\ rest # <<>> /\ Head(rest).is = "segment" /\ ~Refuses(p)
      /\ UNCHANGED <<codestream, m_private_image, calls, image>>
  BY <1>0 DEF ReadSOT, InLoop
<1>3. n \in 1..Len(codestream.parts) /\ p = codestream.parts[n]
  BY <1>0, <1>1, <1>2, RestFields DEF TilePart
<1>4. p.tile \in Nat /\ p.part \in Nat /\ p.num \in Nat /\ p.open \in BOOLEAN
  BY <1>3, <1>1, CodestreamFields
<1>5. /\ p.tile \in Tile
      /\ ~Skips(p.tile) => tcps[p.tile].part + 1 = p.part
      /\ tcps[p.tile].nb # 0 => p.part < tcps[p.tile].nb
  BY <1>2, <1>4, <1>1, TileFields, DecoderFields DEF Refuses, Skips
<1>6. nb \in Nat
  BY <1>0, <1>1, <1>4, <1>5, DecoderFields, TileFields DEF NumberOfParts
<1>7. /\ m_current_tile_number' = p.tile
      /\ tcps' = [tcps EXCEPT ![p.tile].part = p.part, ![p.tile].nb = nb]
      /\ m_decoder' = [m_decoder EXCEPT
                  !.state = {"TPH"},
                  !.last_tile_part = @ \/ p.open,
                  !.can_decode = @ \/ (nb # 0 /\ nb = p.part + 1),
                  !.skip_data = Skips(p.tile),
                  !.last_sot_read_pos = IF n > @ THEN n ELSE @]
      /\ rest' = IF Skips(p.tile) THEN Tail(rest) ELSE SubSeq(rest, 3, Len(rest))
      /\ call' = [call EXCEPT !.marker = "SOD", !.pc = "tile_part"]
      /\ tile_index' = [tile_index EXCEPT ![p.tile] =
                  [nb_tps |-> IF p.num = 0 THEN @.nb_tps ELSE p.num + m_decoder.correction,
                   there |-> TRUE,
                   start |-> IF p.part = 0 THEN n ELSE @.start]]
  BY <1>0 DEF ReadSOT
<1>8. /\ m_decoder' \in DecoderSet(Tile)
      /\ m_decoder'.state = {"TPH"}
      /\ m_decoder'.last_tile_part = (m_decoder.last_tile_part \/ p.open)
      /\ m_decoder'.can_decode = (nb # 0 /\ nb = p.part + 1)
      /\ m_decoder'.skip_data = Skips(p.tile)
      /\ m_decoder'.correction_checked = m_decoder.correction_checked
      /\ m_decoder'.tile_ind_to_dec = m_decoder.tile_ind_to_dec
      /\ m_decoder'.area = m_decoder.area
  <2> DEFINE l == m_decoder.last_tile_part \/ p.open
             c == nb # 0 /\ nb = p.part + 1
             k == Skips(p.tile)
             r == IF n > m_decoder.last_sot_read_pos THEN n ELSE m_decoder.last_sot_read_pos
  <2>1. m_decoder.can_decode = FALSE
    BY <1>2, <1>1, DecoderFields
  <2>2. (m_decoder.can_decode \/ c) = c
    BY <2>1
  <2>3. m_decoder' = WithTilePart(m_decoder, l, c, k, r)
    BY <1>7, <2>2 DEF WithTilePart
  <2>4. r \in Nat
    BY <1>1, <1>3, DecoderFields
  <2>5. l \in BOOLEAN /\ c \in BOOLEAN /\ k \in BOOLEAN
    BY <1>1, <1>4, DecoderFields, Zenon DEF Skips
  <2>6. m_decoder \in DecoderSet(Tile)
    BY <1>1, DecoderTyped
  <2> HIDE DEF l, c, k, r
  <2>7. /\ m_decoder' \in DecoderSet(Tile) /\ m_decoder'.state = {"TPH"}
        /\ m_decoder'.can_decode = c /\ m_decoder'.skip_data = k
        /\ m_decoder'.last_tile_part = l
        /\ m_decoder'.correction_checked = m_decoder.correction_checked
        /\ m_decoder'.tile_ind_to_dec = m_decoder.tile_ind_to_dec
        /\ m_decoder'.area = m_decoder.area
    BY <2>3, <2>4, <2>5, <2>6, TilePartNoted, SMTT(60)
  <2> QED BY <2>7 DEF l, c, k
<1>9. /\ call' \in Calls /\ call'.pc = "tile_part" /\ call'.marker = "SOD" /\ call'.is = call.is
      /\ call'.tile = call.tile /\ call'.area = call.area
  BY <1>7, <1>1 DEF TypeInv, Calls, PCs, Markers
<1>10. /\ tcps' \in [Tile -> Tiles]
       /\ tcps'[p.tile].part = p.part /\ tcps'[p.tile].nb = nb
       /\ tcps'[p.tile].data = tcps[p.tile].data
       /\ \A u \in Tile : u # p.tile => tcps'[u] = tcps[u]
  <2>1. tcps \in [Tile -> Tiles]
    BY <1>1, TileFields
  <2>2. p.part \in Int
    BY <1>4
  <2>3. tcps' = [tcps EXCEPT ![p.tile].part = p.part, ![p.tile].nb = nb]
    BY <1>7
  <2> QED BY <2>1, <2>2, <2>3, <1>5, <1>6, TilePartSet, SMTT(60)
<1>11. TypeInv'
  <2>1. Tile' = Tile /\ codestream' = codestream /\ UNCHANGED <<calls, image, m_private_image>>
    BY <1>2 DEF Tile
  <2>2. StreamOK(rest', codestream)
    BY <1>1, <1>2, <1>7, StreamTail, StreamFrom DEF TypeInv
  <2>4. tile_index' \in [Tile -> Indices]
    <3>1. tile_index \in [Tile -> Indices]
      BY <1>1, TypeNow
    <3>2. tile_index[p.tile].nb_tps \in Nat /\ tile_index[p.tile].start \in Nat
      BY <3>1, <1>5 DEF Indices
    <3>3. PICK a \in Nat, b \in Nat :
              tile_index' = [tile_index EXCEPT ![p.tile] =
                                 [nb_tps |-> a, there |-> TRUE, start |-> b]]
      <4>1. p.num + m_decoder.correction \in Nat /\ n \in Nat
        BY <1>1, <1>3, <1>4, DecoderFields
      <4>2. PICK a, b : /\ a = IF p.num = 0 THEN tile_index[p.tile].nb_tps
                                ELSE p.num + m_decoder.correction
                        /\ b = IF p.part = 0 THEN n ELSE tile_index[p.tile].start
        OBVIOUS
      <4>3. a \in Nat /\ b \in Nat
        BY <4>1, <4>2, <3>2
      <4>4. tile_index' = [tile_index EXCEPT ![p.tile] =
                                 [nb_tps |-> a, there |-> TRUE, start |-> b]]
        BY <4>2, <1>7, <3>1, <1>5
      <4> QED BY <4>3, <4>4
    <3> QED BY <3>1, <3>3, <1>5, IndexSet DEF Indices
  <2>5. m_current_tile_number' \in 0..codestream.tiles
    BY <1>7, <1>5, <1>1, CodestreamFields DEF Tile
  <2>6. \A t \in Tile : tcps'[t].part >= -1
    BY <1>10, <1>4, <1>1, TileFields
  <2> QED BY <1>1, <1>8, <1>9, <1>10, <2>1, <2>2, <2>4, <2>5, <2>6, TypeNow, TypeKept
<1>12. FreshInv' /\ CallInv'
  BY <1>1, <1>2, <1>8, <1>9, FlagsDiffer DEF FreshInv, CallInv, Tile
<1>13. StateInv'
  BY <1>8, <1>9 DEF StateInv, Between
<1>14. CompleteInv'
  <2>1. m_current_tile_number' = p.tile /\ p.tile \in Tile /\ Tile' = Tile
    BY <1>2, <1>5, <1>7 DEF Tile
  <2>2. Skips(m_current_tile_number)' = Skips(p.tile)
    BY <2>1, <1>8 DEF Skips
  <2>3. (tcps[m_current_tile_number].part)' = p.part /\ (tcps[m_current_tile_number].nb)' = nb
    BY <2>1, <1>10
  <2>4. m_decoder'.can_decode => nb = p.part + 1
    BY <1>8
  <2> QED BY <2>1, <2>2, <2>3, <2>4, <1>4, <1>8, <1>9 DEF CompleteInv
<1>15. Sound' = Sound /\ (Sound => ~m_decoder.last_tile_part)
  BY <1>1, <1>2, <1>8, CallInv DEF Sound, Open, LastInv, CallInv, Tile
<1>16. LastInv'
  <2>1. m_decoder'.last_tile_part => Open(codestream)
    BY <1>1, <1>2, <1>3, <1>4, <1>8 DEF LastInv, Open, CallInv
  <2> QED BY <2>1, <1>2, <1>9 DEF LastInv, Between, Open
<1>17. DataInv'
  <2> SUFFICES ASSUME m_private_image', Sound', NEW t \in Tile, ~Skips(t)'
               PROVE  /\ InOrderSoFar(t)'
                      /\ \/ Len(tcps[t].data)' = Collected(t)'
                         \/ /\ (tcps[t].data = None)' /\ Closed(t)'
                            /\ ~(call.pc = "tile_part" /\ m_current_tile_number = t)'
    BY <1>2 DEF DataInv, Tile
  <2>1. ~Skips(t) /\ m_private_image /\ Sound /\ ~m_decoder.last_tile_part
    BY <1>2, <1>8, <1>15 DEF Skips
  <2>2. /\ InOrderSoFar(t)
        /\ \/ Len(tcps[t].data) = Collected(t)
           \/ tcps[t].data = None /\ Closed(t)
    BY <2>1, <1>1 DEF DataInv
  <2>3. tcps'[t].data = tcps[t].data
    BY <1>10
  <2>4. InOrderSoFar(t)'
    BY <2>1, <2>2, <2>3 DEF InOrderSoFar
  <2>5. ~AtStreamEnd
    BY <1>1, <1>2, FlagsDiffer DEF AtStreamEnd, StateInv, CallInv
  <2>6. Collected(t) = tcps[t].part + 1
    BY <1>2 DEF Collected
  <2>7. CASE t = p.tile
    <3>1. ~Closed(t)
      BY <2>5, <2>7, <2>1, <1>4, <1>5, <1>1, TileFields DEF Closed
    <3>2. Collected(t)' = p.part
      BY <1>7, <1>9, <1>10, <2>7 DEF Collected
    <3> QED BY <3>1, <3>2, <2>2, <2>3, <2>4, <2>6, <2>1, <2>7, <1>5
  <2>8. CASE t # p.tile
    <3>1. tcps'[t] = tcps[t]
      BY <2>8, <1>10
    <3>2. Collected(t)' = Collected(t)
      BY <3>1, <2>6, <2>8, <1>7 DEF Collected
    <3>3. Closed(t) => Closed(t)'
      BY <3>1, <2>5, <1>8 DEF Closed
    <3> QED BY <3>1, <3>2, <3>3, <2>2, <2>4, <2>8, <1>7
  <2> QED BY <2>7, <2>8
<1>18. OthersInv'
  BY <1>1, <1>2, <1>9, <1>10, <1>15 DEF OthersInv, Tile
<1>19. DataInOrder'
  BY <1>1, <1>2, <1>9, <1>11 DEF DataInOrder, PassesRightly, TypeInv, Tile, Open
<1> QED BY <1>11, <1>12, <1>13, <1>14, <1>16, <1>17, <1>18, <1>19 DEF IInv

-----------------------------------------------------------------------------
(* What steps leave as it is                                               *)

(* The data of the tiles is left, and so is what it depends on.            *)
SameDecoder ==
    /\ m_decoder'.area = m_decoder.area /\ m_decoder'.tile_ind_to_dec = m_decoder.tile_ind_to_dec
    /\ m_decoder'.last_tile_part = m_decoder.last_tile_part
    /\ m_decoder'.correction_checked = m_decoder.correction_checked

(* What the decoder was set to look for is the same.                       *)
LEMMA SoundSame ==
    ASSUME SameDecoder, UNCHANGED codestream
    PROVE  Sound' = Sound /\ Tile' = Tile /\ \A t : Skips(t)' = Skips(t)
BY DEF SameDecoder, Sound, Open, Tile, Skips

(* What has been collected stays collected in order, if neither it nor the *)
(* flags that close a tile change.                                         *)
LEMMA DataSame ==
    ASSUME DataInv, SameDecoder, UNCHANGED <<codestream, tcps>>,
           m_private_image' => m_private_image,
           call.pc # "tile_part", call'.pc # "tile_part", AtStreamEnd => AtStreamEnd'
    PROVE  DataInv'
<1> SUFFICES ASSUME m_private_image', Sound', NEW t \in Tile, ~Skips(t)'
             PROVE  /\ InOrderSoFar(t)'
                    /\ \/ Len(tcps[t].data)' = Collected(t)'
                       \/ /\ (tcps[t].data = None)' /\ Closed(t)'
                          /\ ~(call.pc = "tile_part" /\ m_current_tile_number = t)'
  BY SoundSame DEF DataInv
<1>1. /\ InOrderSoFar(t)
      /\ \/ Len(tcps[t].data) = Collected(t)
         \/ tcps[t].data = None /\ Closed(t)
  BY SoundSame DEF DataInv
<1>2. InOrderSoFar(t)'
  BY <1>1 DEF InOrderSoFar, SameDecoder
<1>3. Collected(t)' = Collected(t)
  BY DEF Collected
<1>4. Closed(t) => Closed(t)'
  BY DEF Closed, SameDecoder
<1> QED BY <1>1, <1>2, <1>3, <1>4

(* The image stays in order, if it is not touched.                         *)
LEMMA ImageSame ==
    ASSUME DataInOrder, TypeInv', UNCHANGED <<codestream, image>>,
           call'.is = call.is, call'.area = call.area
    PROVE  DataInOrder'
BY DEF DataInOrder, PassesRightly, TypeInv, Tile, Open

(* The call fails.                                                         *)
LEMMA FailStep ==
    ASSUME IInv, call.pc # "idle", NEW why \in Results, Fail(why)
    PROVE  IInv'
<1>1. /\ TypeInv /\ FreshInv /\ CallInv /\ StateInv /\ CompleteInv /\ LastInv /\ DataInv
      /\ OthersInv /\ DataInOrder
  BY DEF IInv
<1>2. /\ call' = [call EXCEPT !.pc = "idle", !.result = why] /\ m_private_image' = FALSE
      /\ UNCHANGED <<codestream, rest, m_decoder, m_current_tile_number, tcps, tile_index,
                     calls, image>>
  BY DEF Fail, Return
<1>3. /\ call' \in Calls /\ call'.pc = "idle" /\ call'.is = call.is /\ call'.area = call.area
      /\ call'.tile = call.tile
  BY <1>1, <1>2 DEF TypeInv, Calls, PCs
<1>4. TypeInv'
  BY <1>1, <1>2, <1>3, ZenonT(60) DEF TypeInv, TypeOK, Tile, Calls
<1>5. FreshInv'
  BY <1>1, <1>2 DEF FreshInv
<1>6. CallInv'
  BY <1>1, <1>2, <1>3 DEF CallInv, Tile
<1>7. StateInv' /\ CompleteInv' /\ LastInv' /\ DataInv' /\ OthersInv'
  BY <1>2 DEF StateInv, CompleteInv, LastInv, DataInv, OthersInv
<1>8. DataInOrder'
  BY <1>1, <1>2, <1>3, <1>4, ImageSame
<1> QED BY <1>4, <1>5, <1>6, <1>7, <1>8 DEF IInv

-----------------------------------------------------------------------------
(* The calls of the program                                                *)

(* The main header is read, or is not there.                               *)
LEMMA ReadHeaderStep == ASSUME IInv, ReadHeader PROVE IInv'
<1>1. /\ TypeInv /\ FreshInv /\ CallInv /\ StateInv /\ CompleteInv /\ LastInv /\ DataInv
      /\ OthersInv /\ DataInOrder
  BY DEF IInv
<1>2. /\ call.pc = "idle" /\ m_decoder.state = {}
      /\ UNCHANGED <<codestream, m_current_tile_number, tcps, tile_index, call, calls, image>>
  BY DEF ReadHeader
<1>3. /\ calls = 0 /\ m_decoder.tile_ind_to_dec = -1 /\ ~m_decoder.last_tile_part
      /\ ~m_decoder.can_decode /\ ~m_decoder.correction_checked
      /\ \A t \in Tile : tcps[t].part = -1 /\ tcps[t].data = None /\ image[t] = None
  BY <1>1, <1>2 DEF FreshInv
<1>4. \/ m_decoder' = WithState(m_decoder, {"TPHSOT"})
      \/ m_decoder' = WithState(m_decoder, {"MH"})
  BY DEF ReadHeader, WithState
<1>5. m_decoder \in DecoderSet(Tile) /\ {"TPHSOT"} \in SUBSET States /\ {"MH"} \in SUBSET States
  BY <1>1, DecoderTyped DEF States
<1>6. m_decoder'.state \in {{"TPHSOT"}, {"MH"}} /\ SameDecoder /\ m_decoder' \in DecoderSet(Tile)
      /\ m_decoder'.can_decode = m_decoder.can_decode
  BY <1>4, <1>5, StateSet DEF SameDecoder
<1>7. /\ StreamOK(rest', codestream) /\ m_private_image' \in BOOLEAN
      /\ m_private_image' => m_decoder'.state = {"TPHSOT"}
  <2>1. CASE Len(rest) >= 2 /\ rest[1].is = "header" /\ rest[2].is = "SOT"
    <3>1. m_decoder' = WithState(m_decoder, {"TPHSOT"}) /\ rest' = SubSeq(rest, 3, Len(rest))
      BY <2>1 DEF ReadHeader, WithState
    <3>2. StreamOK(rest, codestream) /\ 3 \in Nat \ {0}
      BY <1>1 DEF TypeInv
    <3>3. StreamOK(rest', codestream)
      BY <3>1, <3>2, StreamFrom
    <3>4. m_private_image' = TRUE
      BY <2>1 DEF ReadHeader
    <3> QED BY <3>1, <3>3, <3>4, <1>5, StateSet
  <2>2. CASE ~(Len(rest) >= 2 /\ rest[1].is = "header" /\ rest[2].is = "SOT")
    <3>1. rest' = rest /\ m_private_image' = m_private_image /\ ~m_private_image
      BY <2>2 DEF ReadHeader
    <3>2. m_private_image' = FALSE
      BY <3>1, <1>1, TypeNow
    <3> QED BY <3>1, <3>2, <1>1, TypeNow
  <2> QED BY <2>1, <2>2
<1>8. TypeInv'
  BY <1>1, <1>2, <1>6, <1>7, TypeNow, TypeKept
<1>9. FreshInv'
  BY <1>1, <1>2, <1>3, <1>6, <1>7 DEF FreshInv, SameDecoder, Tile
<1>10. CallInv'
  BY <1>1, <1>2, <1>6 DEF CallInv, SameDecoder, Tile
<1>11. StateInv' /\ CompleteInv' /\ LastInv'
  BY <1>2, <1>3, <1>6, <1>7 DEF StateInv, CompleteInv, LastInv, SameDecoder, Between
<1>12. DataInv'
  <2>1. ASSUME NEW t \in Tile PROVE InOrderSoFar(t)' /\ Len(tcps[t].data)' = Collected(t)'
    BY <1>2, <1>3 DEF InOrderSoFar, Collected, None
  <2> QED BY <2>1, <1>2 DEF DataInv, Tile
<1>13. OthersInv'
  BY <1>2, <1>3 DEF OthersInv, Tile
<1>14. DataInOrder'
  BY <1>1, <1>2, <1>8, ImageSame
<1> QED BY <1>8, <1>9, <1>10, <1>11, <1>12, <1>13, <1>14 DEF IInv

(* Another area, while there is nothing that depends on it.                *)
LEMMA SetDecodeAreaStep ==
    ASSUME IInv, NEW area \in Areas, NEW whole \in BOOLEAN, SetDecodeArea(area, whole)
    PROVE  IInv'
<1>1. /\ TypeInv /\ FreshInv /\ CallInv /\ StateInv /\ CompleteInv /\ LastInv /\ DataInv
      /\ OthersInv /\ DataInOrder
  BY DEF IInv
<1>2. /\ call.pc = "idle" /\ m_private_image
      /\ calls > 0 => codestream.tiles = 1 /\ call.is = "decode"
      /\ UNCHANGED <<codestream, rest, m_private_image, m_current_tile_number, tcps, tile_index,
                     call, calls, image>>
  BY DEF SetDecodeArea
<1>3. m_decoder' = [m_decoder EXCEPT !.area = area, !.whole = whole]
  BY DEF SetDecodeArea
<1>4. area \subseteq Tile /\ area # {}
  BY <1>1, CodestreamFields DEF Areas, Tile
<1>5. codestream.tiles = 1 => area = Tile
  <2>1. codestream.tiles = 1 => Tile = {0}
    BY DEF Tile
  <2>2. \A a : a \subseteq {0} /\ a # {} => a = {0}
    OBVIOUS
  <2> QED BY <1>4, <2>1, <2>2
<1>6. m_decoder \in DecoderSet(Tile)
  BY <1>1, DecoderTyped
<1>7. /\ m_decoder' \in DecoderSet(Tile) /\ m_decoder'.area = area
      /\ m_decoder'.state = m_decoder.state /\ m_decoder'.can_decode = m_decoder.can_decode
      /\ m_decoder'.tile_ind_to_dec = m_decoder.tile_ind_to_dec
      /\ m_decoder'.last_tile_part = m_decoder.last_tile_part
      /\ m_decoder'.correction_checked = m_decoder.correction_checked
      /\ m_decoder'.skip_data = m_decoder.skip_data
  BY <1>3, <1>4, <1>6 DEF DecoderSet
<1>8. TypeInv'
  BY <1>1, <1>2, <1>7, TypeNow, TypeKept
<1>9. calls = 0 \/ (calls > 0 /\ codestream.tiles = 1 /\ SameDecoder)
  <2>1. calls \in Nat
    BY <1>1, TypeNow
  <2> QED BY <2>1, <1>1, <1>2, <1>5, <1>7 DEF CallInv, SameDecoder
<1>10. FreshInv'
  BY <1>1, <1>2, <1>7 DEF FreshInv, Tile
<1>11. CallInv'
  BY <1>1, <1>2, <1>5, <1>7, <1>9 DEF CallInv, Tile, SameDecoder
<1>12. StateInv' /\ CompleteInv'
  <2>1. ~m_decoder.can_decode
    BY <1>1, <1>2 DEF CompleteInv
  <2> QED BY <2>1, <1>1, <1>2, <1>7 DEF StateInv, CompleteInv, Between
<1>13. CASE calls = 0
  <2>1. /\ ~m_decoder.last_tile_part
        /\ \A t \in Tile : tcps[t].part = -1 /\ tcps[t].data = None
        /\ call.is = "none"
    BY <1>13, <1>1 DEF FreshInv, CallInv
  <2>2. LastInv' /\ OthersInv'
    BY <2>1, <1>2, <1>7 DEF LastInv, OthersInv, Between
  <2>3. ASSUME NEW t \in Tile PROVE InOrderSoFar(t)' /\ Len(tcps[t].data)' = Collected(t)'
    BY <2>1, <1>2 DEF InOrderSoFar, Collected, None
  <2>4. DataInv'
    BY <2>3, <1>2 DEF DataInv, Tile
  <2>5. DataInOrder'
    BY <1>1, <1>2, <1>8, ImageSame
  <2> QED BY <1>8, <1>10, <1>11, <1>12, <2>2, <2>4, <2>5 DEF IInv
<1>14. CASE calls > 0 /\ SameDecoder
  <2>1. Sound' = Sound
    BY <1>14, <1>2, SoundSame
  <2>2. LastInv' /\ OthersInv'
    BY <2>1, <1>1, <1>2, <1>7 DEF LastInv, OthersInv, Between, Tile, Open, AtStreamEnd,
                                  AtMostOneToken
  <2>3. DataInv'
    BY <1>14, <1>1, <1>2, <1>7, DataSame DEF AtStreamEnd
  <2>4. DataInOrder'
    BY <1>1, <1>2, <1>8, ImageSame
  <2> QED BY <1>8, <1>10, <1>11, <1>12, <2>2, <2>3, <2>4 DEF IInv
<1> QED BY <1>9, <1>13, <1>14

(* A call begins that reads on from where the stream is.                   *)
LEMMA StartReads ==
    ASSUME IInv, call.pc = "idle", m_private_image,
           NEW is \in {"decode", "tile"}, NEW pc \in {"decode_tiles", "read_tile_header"},
           pc = "decode_tiles" => is = "decode",
           calls > 0 => call.is = is,
           StartCall(is, 0, m_decoder.area, pc),
           UNCHANGED <<codestream, rest, m_private_image, m_decoder, m_current_tile_number, tcps,
                       tile_index>>
    PROVE  IInv'
<1>1. /\ TypeInv /\ FreshInv /\ CallInv /\ StateInv /\ CompleteInv /\ LastInv /\ DataInv
      /\ OthersInv /\ DataInOrder
  BY DEF IInv
<1>2. /\ calls' = calls + 1
      /\ call' = [Local(pc) EXCEPT !.is = is, !.tile = 0, !.area = m_decoder.area,
                                   !.whole = m_decoder.whole]
      /\ image' = IF is = "tile" THEN image ELSE [t \in Tile |-> None]
  BY DEF StartCall
<1>3. 0 \in Tile /\ calls \in Nat /\ m_decoder.area \in SUBSET Tile /\ m_decoder.whole \in BOOLEAN
  BY <1>1, CodestreamFields, TypeNow, DecoderFields
<1>4. /\ call' \in Calls /\ call'.pc = pc /\ call'.is = is /\ call'.area = m_decoder.area
  BY <1>2, <1>3 DEF Local, Calls, PCs, Markers, Results
<1>5. image' \in [Tile -> Seq(Pieces)] /\ image \in [Tile -> Seq(Pieces)]
  BY <1>1, <1>2, TypeNow DEF None
<1>6. TypeInv'
  BY <1>1, <1>3, <1>2, <1>4, <1>5, TypeNow, TypeKept
<1>7. m_decoder.tile_ind_to_dec = -1 /\ m_decoder.state # {}
  <2>1. CASE calls = 0
    BY <2>1, <1>1, FlagsDiffer DEF FreshInv
  <2>2. CASE calls > 0
    BY <2>2, <1>1, FlagsDiffer DEF CallInv, FreshInv
  <2> QED BY <2>1, <2>2, <1>3
<1>8. FreshInv'
  BY <1>2, <1>3, <1>7 DEF FreshInv
<1>9. CallInv'
  BY <1>1, <1>2, <1>3, <1>4, <1>7 DEF CallInv, Tile
<1>10. StateInv' /\ CompleteInv'
  <2>1. ~m_decoder.can_decode
    BY <1>1 DEF CompleteInv
  <2> QED BY <2>1, <1>1, <1>4 DEF StateInv, CompleteInv, Between
<1>11. SameDecoder
  BY DEF SameDecoder
<1>12. LastInv'
  BY <1>1, <1>4, <1>11, SoundSame DEF LastInv, Between, Open, AtStreamEnd, AtMostOneToken
<1>13. DataInv'
  BY <1>1, <1>4, <1>11, DataSame DEF AtStreamEnd
<1>14. OthersInv'
  BY <1>4 DEF OthersInv
<1>15. DataInOrder'
  <2>1. CASE is = "tile" /\ calls > 0
    <3>1. call'.is = call.is /\ call'.area = call.area /\ image' = image
      BY <2>1, <1>1, <1>2, <1>4 DEF CallInv
    <3> QED BY <3>1, <1>1, <1>6, ImageSame
  <2>2. CASE ~(is = "tile" /\ calls > 0)
    <3>1. \A t \in Tile : image'[t] = None
      BY <2>2, <1>1, <1>2, <1>3 DEF FreshInv
    <3> QED BY <3>1, <1>6 DEF DataInOrder, TypeInv, InOrder, None, Tile
  <2> QED BY <2>1, <2>2
<1> QED BY <1>6, <1>8, <1>9, <1>10, <1>12, <1>13, <1>14, <1>15 DEF IInv

(* opj_decode begins.                                                      *)
LEMMA DecodeStep == ASSUME IInv, Decode PROVE IInv'
<1>1. /\ call.pc = "idle" /\ m_private_image /\ (calls > 0 => call.is = "decode")
      /\ StartCall("decode", 0, m_decoder.area, "decode_tiles")
      /\ UNCHANGED <<codestream, rest, m_private_image, m_decoder, m_current_tile_number, tcps,
                     tile_index>>
  BY DEF Decode
<1> QED BY <1>1, StartReads

(* opj_read_tile_header begins.                                            *)
LEMMA ReadTileHeaderStep == ASSUME IInv, ReadTileHeader PROVE IInv'
<1>1. /\ call.pc = "idle" /\ m_private_image /\ (calls > 0 => call.is = "tile")
      /\ StartCall("tile", 0, m_decoder.area, "read_tile_header")
      /\ UNCHANGED <<codestream, rest, m_private_image, m_decoder, m_current_tile_number, tcps,
                     tile_index>>
  BY DEF ReadTileHeader
<1> QED BY <1>1, StartReads

(* The stream behind the SOT marker of a tile-part is a stream.            *)
LEMMA AvailableFrom ==
    ASSUME TypeInv, NEW n \in Nat
    PROVE  StreamOK(AfterSOT(n), codestream)
<1> DEFINE s == Available(codestream)
<1>1. StreamOK(s, codestream)
  BY AvailableOK DEF TypeInv
<1> HIDE DEF s
<1>2. CASE n = 0
  BY <1>1, <1>2 DEF AfterSOT, s
<1>3. CASE n # 0
  <2>1. 4 * n - 1 \in Nat \ {0}
    BY <1>3
  <2>2. StreamOK(SubSeq(s, 4 * n - 1, Len(s)), codestream)
    BY <1>1, <2>1, StreamFrom
  <2> QED BY <2>2, <1>3 DEF AfterSOT, s
<1> QED BY <1>2, <1>3

(* A single tile is looked for from its first tile-part on; no data of any *)
(* tile is there.                                                          *)
LEMMA GetTileStep == ASSUME IInv, NEW t \in Tile, GetTile(t) PROVE IInv'
<1>1. /\ TypeInv /\ FreshInv /\ CallInv /\ StateInv /\ CompleteInv /\ LastInv /\ DataInv
      /\ OthersInv /\ DataInOrder
  BY DEF IInv
<1>2. /\ call.pc = "idle" /\ m_private_image /\ (calls > 0 => call.is = "get_tile")
      /\ StartCall("get_tile", t, {t}, "read_tile_header")
      /\ tcps' = [u \in Tile |-> [tcps[u] EXCEPT !.part = -1]]
      /\ UNCHANGED <<codestream, m_private_image, m_current_tile_number, tile_index>>
  BY DEF GetTile
<1>3. t \in Tile /\ calls \in Nat /\ m_decoder.whole \in BOOLEAN /\ Tile \subseteq Nat
      /\ m_decoder.last_sot_read_pos \in Nat
  BY <1>1, CodestreamFields, TypeNow, DecoderFields
<1>4. /\ calls' = calls + 1 /\ image' = [u \in Tile |-> None]
      /\ call' = [Local("read_tile_header") EXCEPT !.is = "get_tile", !.tile = t, !.area = {t},
                                   !.whole = m_decoder.whole]
  BY <1>2 DEF StartCall
<1>5. /\ call' \in Calls /\ call'.pc = "read_tile_header" /\ call'.is = "get_tile"
      /\ call'.area = {t} /\ call'.tile = t
  <2>1. 0 \in Tile
    BY <1>1, CodestreamFields
  <2> QED BY <2>1, <1>4, <1>3 DEF Local, Calls, PCs, Markers, Results
<1>6. PICK s : /\ m_decoder' = [m_decoder EXCEPT !.tile_ind_to_dec = t, !.state = s]
               /\ s \in {m_decoder.state, {"TPHSOT"}}
  <2>1. m_decoder \in DecoderSet(Tile)
    BY <1>1, DecoderTyped
  <2>2. [m_decoder EXCEPT !.tile_ind_to_dec = t]
           = [m_decoder EXCEPT !.tile_ind_to_dec = t, !.state = m_decoder.state]
    BY <2>1 DEF DecoderSet
  <2>3. CASE tile_index[0].there
    <3>1. m_decoder' = [m_decoder EXCEPT !.tile_ind_to_dec = t,
                                !.state = IF @ = {"EOC"} THEN {"TPHSOT"} ELSE @]
      BY <2>3 DEF GetTile
    <3> QED BY <3>1
  <2>4. CASE ~tile_index[0].there
    BY <2>4, <2>2 DEF GetTile
  <2> QED BY <2>3, <2>4
<1>7. m_decoder \in DecoderSet(Tile)
  BY <1>1, DecoderTyped
<1>8. s \in SUBSET States /\ t \in Tile \cup {-1}
  BY <1>6, <1>3, <1>1, DecoderFields DEF States
<1>9. /\ m_decoder' \in DecoderSet(Tile) /\ m_decoder'.state = s
      /\ m_decoder'.area = m_decoder.area /\ m_decoder'.tile_ind_to_dec = t
      /\ m_decoder'.can_decode = m_decoder.can_decode
      /\ m_decoder'.last_tile_part = m_decoder.last_tile_part
      /\ m_decoder'.correction_checked = m_decoder.correction_checked
  BY <1>6, <1>7, <1>8 DEF DecoderSet
<1>10. StreamOK(rest', codestream)
  <2>1. CASE tile_index[0].there
    <3> DEFINE n == IF tile_index[t].nb_tps = 0 THEN m_decoder.last_sot_read_pos
                    ELSE tile_index[t].start
    <3>1. rest' = AfterSOT(n)
      BY <2>1 DEF GetTile
    <3>2. n \in Nat
      <4>1. tile_index \in [Tile -> Indices]
        BY <1>1, TypeNow
      <4>2. tile_index[t].start \in Nat
        BY <4>1 DEF Indices
      <4> QED BY <4>2, <1>3
    <3> HIDE DEF n
    <3> QED BY <3>1, <3>2, <1>1, AvailableFrom
  <2>2. CASE ~tile_index[0].there
    <3>1. rest' = rest
      BY <2>2 DEF GetTile
    <3> QED BY <3>1, <1>1, TypeNow
  <2> QED BY <2>1, <2>2
<1>11. /\ tcps' \in [Tile -> Tiles]
       /\ \A u \in Tile : tcps'[u].part = -1 /\ tcps'[u].data = tcps[u].data
  <2>1. ASSUME NEW u \in Tile
        PROVE  [tcps[u] EXCEPT !.part = -1] \in Tiles /\ tcps'[u].part = -1
               /\ tcps'[u].data = tcps[u].data
    <3>1. tcps[u] \in Tiles
      BY <1>1, TypeNow
    <3>2. tcps'[u] = [tcps[u] EXCEPT !.part = -1]
      BY <1>2
    <3> QED BY <3>1, <3>2 DEF Tiles
  <2> QED BY <2>1, <1>2
<1>12. TypeInv'
  <2>1. image' \in [Tile -> Seq(Pieces)]
    BY <1>4 DEF None
  <2>2. \A u \in Tile : tcps'[u].part >= -1
    BY <1>11
  <2> QED BY <1>1, <1>2, <1>3, <1>4, <1>5, <1>9, <1>10, <1>11, <2>1, <2>2, TypeNow, TypeKept
<1>13. s # {} /\ s \in {{"TPHSOT"}, {"EOC"}, {"NEOC"}} /\ ~m_decoder.can_decode
  BY <1>1, <1>2, <1>6, FlagsDiffer DEF StateInv, CompleteInv, Between
<1>14. FreshInv'
  BY <1>3, <1>4, <1>9, <1>13 DEF FreshInv
<1>15. CallInv'
  BY <1>1, <1>2, <1>3, <1>4, <1>5, <1>9 DEF CallInv, Tile
<1>16. StateInv' /\ CompleteInv'
  BY <1>5, <1>9, <1>13 DEF StateInv, CompleteInv, Between
<1>17. Sound' => ~Open(codestream) /\ ~m_decoder'.last_tile_part /\ Sound
  BY <1>1, <1>2, <1>3, <1>9 DEF Sound, Open, LastInv
<1>18. LastInv'
  BY <1>1, <1>2, <1>5, <1>9, <1>17 DEF LastInv, Open
<1>19. Sound' => \A u \in Tile : tcps'[u].data = None
  <2>1. CASE calls = 0
    BY <2>1, <1>1, <1>11 DEF FreshInv
  <2>2. CASE calls > 0
    BY <2>2, <1>1, <1>2, <1>11, <1>17 DEF OthersInv
  <2> QED BY <2>1, <2>2, <1>3
<1>20. DataInv'
  <2>1. ASSUME NEW u \in Tile, Sound' PROVE InOrderSoFar(u)' /\ Len(tcps[u].data)' = Collected(u)'
    BY <2>1, <1>5, <1>11, <1>19 DEF InOrderSoFar, Collected, None
  <2> QED BY <2>1, <1>2 DEF DataInv, Tile
<1>21. OthersInv'
  BY <1>19, <1>2 DEF OthersInv, Tile
<1>22. DataInOrder'
  BY <1>4, <1>12, <1>2 DEF DataInOrder, TypeInv, InOrder, None, Tile
<1> QED BY <1>12, <1>14, <1>15, <1>16, <1>18, <1>20, <1>21, <1>22 DEF IInv

-----------------------------------------------------------------------------
(* The steps of a call                                                     *)

(* A call in progress has been counted.                                    *)
LEMMA FreshKept ==
    ASSUME TypeInv, FreshInv, call.pc # "idle", UNCHANGED calls, m_decoder'.state # {}
    PROVE  FreshInv'
<1>1. calls # 0
  BY DEF FreshInv
<1> QED BY <1>1 DEF FreshInv

(* A single tile that has been read is decoded again, or reading begins.   *)
LEMMA DecodeTilesStep == ASSUME IInv, DecodeTiles PROVE IInv'
<1>1. /\ TypeInv /\ FreshInv /\ CallInv /\ StateInv /\ CompleteInv /\ LastInv /\ DataInv
      /\ OthersInv /\ DataInOrder
  BY DEF IInv
<1>2. /\ call.pc = "decode_tiles" /\ call.is = "decode" /\ m_private_image
      /\ UNCHANGED <<codestream, rest, m_private_image, tcps, tile_index, calls, image>>
  BY <1>1 DEF DecodeTiles, CallInv
<1>3. \/ /\ AlreadyIngested /\ m_current_tile_number' = 0
         /\ m_decoder' = WithState(m_decoder, m_decoder.state \cup {"DATA"})
         /\ call' = [call EXCEPT !.pc = "decode_tile"]
      \/ /\ call' = [call EXCEPT !.pc = "read_tile_header"]
         /\ UNCHANGED <<m_current_tile_number, m_decoder>>
  BY DEF DecodeTiles, Go, WithState
<1>4. /\ call' \in Calls /\ call'.pc \in {"decode_tile", "read_tile_header"}
      /\ call'.is = call.is /\ call'.tile = call.tile /\ call'.area = call.area
      /\ call'.marker = call.marker
  BY <1>1, <1>3 DEF TypeInv, Calls, PCs
<1>5. m_decoder \in DecoderSet(Tile) /\ m_decoder.state \cup {"DATA"} \in SUBSET States
      /\ 0 \in Tile /\ 0 \in 0..codestream.tiles
  BY <1>1, DecoderTyped, DecoderFields, CodestreamFields DEF States
<1>6. /\ m_decoder' \in DecoderSet(Tile) /\ SameDecoder
      /\ m_decoder'.state \in {m_decoder.state, m_decoder.state \cup {"DATA"}}
      /\ m_decoder'.can_decode = m_decoder.can_decode
  BY <1>3, <1>5, StateSet DEF SameDecoder
<1>7. m_current_tile_number' \in 0..codestream.tiles
  BY <1>1, <1>3, <1>5, TypeNow
<1>8. TypeInv'
  BY <1>1, <1>2, <1>4, <1>6, <1>7, TypeNow, TypeKept
<1>9. m_decoder.state \in {{"TPHSOT"}, {"EOC"}, {"NEOC"}} /\ ~m_decoder.can_decode
  BY <1>1, <1>2 DEF StateInv, CompleteInv, Between
<1>10. FreshInv'
  BY <1>1, <1>2, <1>6, <1>9, FlagsDiffer, FreshKept
<1>11. CallInv'
  BY <1>1, <1>2, <1>4, <1>6 DEF CallInv, SameDecoder, Tile
<1>12. AtStreamEnd => AtStreamEnd'
  BY <1>6, <1>9, FlagsDiffer DEF AtStreamEnd
<1>13. StateInv' /\ CompleteInv'
  <2>1. CASE /\ AlreadyIngested /\ m_current_tile_number' = 0
             /\ m_decoder' = WithState(m_decoder, m_decoder.state \cup {"DATA"})
             /\ call' = [call EXCEPT !.pc = "decode_tile"]
    <3>1. call'.pc = "decode_tile"
      BY <2>1, <1>1 DEF TypeInv, Calls
    <3>2. m_decoder'.state = m_decoder.state \cup {"DATA"}
      BY <2>1, <1>5, StateSet
    <3>3. m_decoder'.state \in {{"TPHSOT", "DATA"}, {"EOC", "DATA"}, {"NEOC", "DATA"}}
      BY <3>2, <1>9, FlagsDiffer
    <3>4. KeepsData'
      BY <2>1, <1>2, <1>4 DEF KeepsData, AlreadyIngested
    <3>5. m_current_tile_number' \in Tile'
      BY <2>1, <1>5, <1>2 DEF Tile
    <3> QED BY <3>1, <3>3, <3>4, <3>5, <1>6, <1>9 DEF StateInv, CompleteInv, Between
  <2>2. CASE /\ call' = [call EXCEPT !.pc = "read_tile_header"]
             /\ UNCHANGED <<m_current_tile_number, m_decoder>>
    <3>1. call'.pc = "read_tile_header"
      BY <2>2, <1>1 DEF TypeInv, Calls
    <3> QED BY <3>1, <2>2, <1>9 DEF StateInv, CompleteInv, Between
  <2> QED BY <1>3, <2>1, <2>2
<1>14. LastInv'
  BY <1>1, <1>2, <1>4, <1>6, <1>12, SoundSame
  DEF LastInv, Between, Open, AtMostOneToken, SameDecoder
<1>15. DataInv'
  BY <1>1, <1>2, <1>4, <1>6, <1>12, DataSame
<1>16. OthersInv'
  BY <1>2, <1>4 DEF OthersInv
<1>17. DataInOrder'
  BY <1>1, <1>2, <1>4, <1>8, ImageSame
<1> QED BY <1>8, <1>10, <1>11, <1>13, <1>14, <1>15, <1>16, <1>17 DEF IInv

(* The loop over the tile-parts is entered, or the call fails.             *)
LEMMA BeginTileHeaderStep == ASSUME IInv, BeginTileHeader PROVE IInv'
<1>1. /\ TypeInv /\ FreshInv /\ CallInv /\ StateInv /\ CompleteInv /\ LastInv /\ DataInv
      /\ OthersInv /\ DataInOrder
  BY DEF IInv
<1>2. call.pc = "read_tile_header" /\ m_private_image
  BY <1>1 DEF BeginTileHeader, CallInv
<1>3. CASE ~(m_decoder.state = {"EOC"} \/ m_decoder.state = {"TPHSOT"})
  <2>1. Fail("state")
    BY <1>3 DEF BeginTileHeader
  <2> QED BY <2>1, <1>2, FailStep DEF Results
<1>4. CASE m_decoder.state = {"EOC"} \/ m_decoder.state = {"TPHSOT"}
  <2>1. /\ call' = [call EXCEPT !.pc = "loop",
                                !.marker = IF m_decoder.state = {"EOC"} THEN "EOC" ELSE "SOT"]
        /\ UNCHANGED <<codestream, rest, m_private_image, m_decoder, m_current_tile_number,
                       tcps, tile_index, calls, image>>
    BY <1>4 DEF BeginTileHeader
  <2>2. /\ call' \in Calls /\ call'.pc = "loop"
        /\ call'.is = call.is /\ call'.tile = call.tile /\ call'.area = call.area
        /\ call'.marker \in {"EOC", "SOT"}
        /\ m_decoder.state = {"EOC"} => call'.marker = "EOC"
    BY <1>1, <2>1 DEF TypeInv, Calls, PCs, Markers
  <2>3. TypeInv'
    BY <1>1, <2>1, <2>2, TypeNow, TypeKept
  <2>4. FreshInv'
    BY <1>1, <1>2, <1>4, <2>1, FlagsDiffer, FreshKept
  <2>5. CallInv'
    BY <1>1, <1>2, <2>1, <2>2 DEF CallInv, Tile
  <2>6. StateInv' /\ CompleteInv'
    <3>1. ~m_decoder.can_decode
      BY <1>1, <1>2 DEF CompleteInv
    <3> QED BY <3>1, <1>1, <1>4, <2>1, <2>2 DEF StateInv, CompleteInv, Between
  <2>7. SameDecoder
    BY <2>1 DEF SameDecoder
  <2>8. LastInv'
    <3>1. m_decoder.last_tile_part /\ Sound => AtStreamEnd /\ AtMostOneToken
      BY <1>1, <1>2 DEF LastInv, Between
    <3>2. m_decoder.last_tile_part /\ Sound => call'.marker = "EOC"
      BY <3>1, <2>2, <1>4, FlagsDiffer DEF AtStreamEnd
    <3> QED BY <3>1, <3>2, <1>1, <1>2, <2>1, <2>2, <2>7, SoundSame
            DEF LastInv, Between, Open, AtMostOneToken
  <2>9. DataInv'
    BY <1>1, <1>2, <2>1, <2>2, <2>7, DataSame DEF AtStreamEnd
  <2>10. OthersInv'
    BY <1>1, <1>2, <2>1, <2>2, <2>7, SoundSame DEF OthersInv
  <2>11. DataInOrder'
    BY <1>1, <2>1, <2>2, <2>3, ImageSame
  <2> QED BY <2>3, <2>4, <2>5, <2>6, <2>8, <2>9, <2>10, <2>11 DEF IInv
<1> QED BY <1>3, <1>4

(* The stream ends where a marker was expected.                            *)
LEMMA NoMoreTilePartsStep == ASSUME IInv, NoMoreTileParts PROVE IInv'
<1>1. /\ TypeInv /\ FreshInv /\ CallInv /\ StateInv /\ CompleteInv /\ LastInv /\ DataInv
      /\ OthersInv /\ DataInOrder
  BY DEF IInv
<1>2. /\ call.pc = "loop" /\ ~m_decoder.can_decode /\ rest = <<>> /\ m_private_image
      /\ m_decoder' = WithState(m_decoder, {"NEOC"})
      /\ call' = [call EXCEPT !.pc = "after_loop"]
      /\ UNCHANGED <<codestream, rest, m_private_image, m_current_tile_number, tcps, tile_index,
                     calls, image>>
  BY <1>1 DEF NoMoreTileParts, InLoop, Go, WithState, CallInv
<1>3. /\ call' \in Calls /\ call'.pc = "after_loop"
      /\ call'.is = call.is /\ call'.tile = call.tile /\ call'.area = call.area
  BY <1>1, <1>2 DEF TypeInv, Calls, PCs
<1>4. m_decoder \in DecoderSet(Tile) /\ {"NEOC"} \in SUBSET States
  BY <1>1, DecoderTyped DEF States
<1>5. /\ m_decoder' \in DecoderSet(Tile) /\ SameDecoder /\ m_decoder'.state = {"NEOC"}
      /\ m_decoder'.can_decode = m_decoder.can_decode
  BY <1>2, <1>4, StateSet DEF SameDecoder
<1>6. TypeInv'
  BY <1>1, <1>2, <1>3, <1>5, TypeNow, TypeKept
<1>7. FreshInv'
  BY <1>1, <1>2, <1>5, FlagsDiffer, FreshKept
<1>8. CallInv'
  BY <1>1, <1>2, <1>3, <1>5 DEF CallInv, Tile, SameDecoder
<1>9. StateInv' /\ CompleteInv'
  BY <1>2, <1>3, <1>5 DEF StateInv, CompleteInv, Between
<1>10. AtStreamEnd'
  BY <1>5 DEF AtStreamEnd
<1>11. LastInv'
  BY <1>1, <1>2, <1>3, <1>5 DEF LastInv, Between, Open, AtMostOneToken, SameDecoder
<1>12. DataInv'
  BY <1>1, <1>2, <1>3, <1>5, <1>10, DataSame
<1>13. OthersInv'
  BY <1>1, <1>2, <1>3, <1>5, SoundSame DEF OthersInv
<1>14. DataInOrder'
  BY <1>1, <1>2, <1>3, <1>6, ImageSame
<1> QED BY <1>6, <1>7, <1>8, <1>9, <1>11, <1>12, <1>13, <1>14 DEF IInv

(* A tile-part is refused.                                                 *)
LEMMA RefuseTilePartStep == ASSUME IInv, RefuseTilePart PROVE IInv'
<1>1. call.pc # "idle" /\ \E why \in Results : Fail(why)
  BY DEF RefuseTilePart, InLoop, Results
<1> QED BY <1>1, FailStep

(* A tile cannot be decoded.                                               *)
LEMMA DecodeTileFailsStep == ASSUME IInv, DecodeTileFails PROVE IInv'
<1>1. call.pc # "idle" /\ \E why \in Results : Fail(why)
  BY DEF DecodeTileFails, Results
<1> QED BY <1>1, FailStep

(* No tile is left to decode, and the call returns.                        *)
LEMMA NoMoreTilesStep == ASSUME IInv, NoMoreTiles PROVE IInv'
<1>1. /\ TypeInv /\ FreshInv /\ CallInv /\ StateInv /\ CompleteInv /\ LastInv /\ DataInv
      /\ OthersInv /\ DataInOrder
  BY DEF IInv
<1>2. call.pc = "no_more" /\ m_private_image
  BY <1>1 DEF NoMoreTiles, CallInv
<1>3. CASE WholeSingleTile
  <2>1. Fail("state")
    BY <1>3 DEF NoMoreTiles
  <2> QED BY <2>1, <1>2, FailStep DEF Results
<1>4. CASE ~WholeSingleTile
  <2>1. PICK r \in Results :
            /\ call' = [call EXCEPT !.pc = "idle", !.result = r]
            /\ \/ m_private_image' = m_private_image /\ (call.is = "tile" \/ AllDecoded(image))
               \/ m_private_image' = FALSE
    <3>1. CASE call.is = "tile"
      BY <3>1, <1>4 DEF NoMoreTiles, Return, Results
    <3>2. CASE call.is # "tile" /\ AllDecoded(image)
      BY <3>2, <1>4 DEF NoMoreTiles, Finish, Return, Results
    <3>3. CASE call.is # "tile" /\ ~AllDecoded(image)
      BY <3>3, <1>4 DEF NoMoreTiles, Finish, Return, Results
    <3> QED BY <3>1, <3>2, <3>3
  <2>2. UNCHANGED <<codestream, rest, m_decoder, m_current_tile_number, tcps, tile_index,
                           calls, image>>
    BY <1>4 DEF NoMoreTiles
  <2>3. /\ call' \in Calls /\ call'.pc = "idle"
        /\ call'.is = call.is /\ call'.tile = call.tile /\ call'.area = call.area
    BY <1>1, <2>1 DEF TypeInv, Calls, PCs
  <2>4. m_private_image' \in BOOLEAN
    BY <2>1, <1>2
  <2>5. TypeInv'
    BY <1>1, <2>2, <2>3, <2>4, TypeNow, TypeKept
  <2>6. ~m_decoder.can_decode /\ m_decoder.state \in {{"EOC"}, {"NEOC"}}
    BY <1>1, <1>2 DEF CompleteInv, StateInv
  <2>7. FreshInv'
    BY <1>1, <1>2, <2>2, <2>6, FlagsDiffer, FreshKept
  <2>8. CallInv'
    BY <1>1, <2>2, <2>3 DEF CallInv, Tile
  <2>9. StateInv' /\ CompleteInv'
    BY <2>2, <2>3, <2>6 DEF StateInv, CompleteInv, Between
  <2>10. SameDecoder
    BY <2>2 DEF SameDecoder
  <2>11. LastInv'
    BY <1>1, <1>2, <2>2, <2>3, <2>6, <2>10, SoundSame
    DEF LastInv, Between, Open, AtMostOneToken, AtStreamEnd
  <2>12. DataInv'
    BY <1>1, <1>2, <2>2, <2>3, <2>10, DataSame DEF AtStreamEnd
  <2>13. call.is = "get_tile" => ~AllDecoded(image)
    BY <1>1, <1>2 DEF CallInv, AllDecoded
  <2>14. OthersInv'
    BY <1>1, <1>2, <2>1, <2>3, <2>13 DEF OthersInv
  <2>15. DataInOrder'
    BY <1>1, <2>2, <2>3, <2>5, ImageSame
  <2> QED BY <2>5, <2>7, <2>8, <2>9, <2>11, <2>12, <2>14, <2>15 DEF IInv
<1> QED BY <1>3, <1>4

(* The tile that is complete is decoded, or the next that holds data.      *)
LEMMA AfterLoopStep == ASSUME IInv, AfterLoop PROVE IInv'
<1>1. /\ TypeInv /\ FreshInv /\ CallInv /\ StateInv /\ CompleteInv /\ LastInv /\ DataInv
      /\ OthersInv /\ DataInOrder
  BY DEF IInv
<1> DEFINE ended == call.marker = "EOC" /\ m_decoder.state # {"EOC"}
<1>2. PICK start, state :
          /\ start = (IF ended THEN 0 ELSE m_current_tile_number)
          /\ state = (IF ended THEN {"EOC"} ELSE m_decoder.state)
  OBVIOUS
<1>3. \/ call.pc = "after_loop"
      \/ call.pc = "loop" /\ (m_decoder.can_decode \/ call.marker = "EOC")
  BY DEF AfterLoop
<1>4. /\ call.pc \in {"after_loop", "loop"} /\ m_private_image
      /\ UNCHANGED <<codestream, rest, m_private_image, tcps, tile_index, calls, image>>
  BY <1>1, <1>3 DEF AfterLoop, CallInv
<1>5. /\ m_decoder.can_decode => m_decoder.state = {"TPHSOT"} /\ ~ended /\ call.pc = "after_loop"
      /\ ~m_decoder.can_decode => state \in {{"EOC"}, {"NEOC"}}
  BY <1>1, <1>2, <1>3, <1>4 DEF StateInv, CompleteInv
<1>6. m_decoder \in DecoderSet(Tile) /\ Tile \subseteq Nat /\ 0 \in Tile
      /\ m_current_tile_number \in Nat /\ codestream.tiles \in Nat
  BY <1>1, DecoderTyped, CodestreamFields, TypeNow
<1>7. \/ /\ ~m_decoder.can_decode
         /\ m_current_tile_number' = codestream.tiles
         /\ m_decoder' = WithState(m_decoder, state)
         /\ call' = [call EXCEPT !.pc = "no_more"]
      \/ /\ m_current_tile_number' \in Tile
         /\ m_decoder.can_decode => m_current_tile_number' = m_current_tile_number
         /\ m_decoder' = WithState(m_decoder, state \cup {"DATA"})
         /\ call' = [call EXCEPT !.pc = "decode_tile"]
  <2>1. CASE ~m_decoder.can_decode /\ Pending(start) = {}
    BY <2>1, <1>2 DEF AfterLoop, Go, WithState
  <2>2. CASE m_decoder.can_decode
    <3>1. /\ m_current_tile_number' = start
          /\ m_decoder' = WithState(m_decoder, state \cup {"DATA"})
          /\ call' = [call EXCEPT !.pc = "decode_tile"]
      BY <2>2, <1>2 DEF AfterLoop, Go, WithState
    <3>2. start = m_current_tile_number /\ m_current_tile_number \in Tile
      BY <2>2, <1>1, <1>2, <1>4, <1>5 DEF CompleteInv
    <3> QED BY <3>1, <3>2
  <2>3. CASE ~m_decoder.can_decode /\ Pending(start) # {}
    <3>1. /\ m_current_tile_number'
                 = CHOOSE u \in Pending(start) : \A v \in Pending(start) : u <= v
          /\ m_decoder' = WithState(m_decoder, state \cup {"DATA"})
          /\ call' = [call EXCEPT !.pc = "decode_tile"]
      BY <2>3, <1>2 DEF AfterLoop, Go, WithState
    <3>2. Pending(start) \subseteq Tile
      BY DEF Pending
    <3>3. \E u \in Pending(start) : \A v \in Pending(start) : u <= v
      BY <3>2, <2>3, <1>6, Minimum
    <3>4. m_current_tile_number' \in Pending(start)
      BY <3>1, <3>3
    <3> QED BY <3>1, <3>2, <3>4, <2>3
  <2> QED BY <2>1, <2>2, <2>3
<1>8. /\ call' \in Calls
      /\ call'.is = call.is /\ call'.tile = call.tile /\ call'.area = call.area
      /\ call'.marker = call.marker /\ call'.pc \in {"no_more", "decode_tile"}
  BY <1>1, <1>7 DEF TypeInv, Calls, PCs
<1>9. state \in SUBSET States /\ state \cup {"DATA"} \in SUBSET States
  BY <1>1, <1>2, DecoderFields DEF States
<1>10. /\ m_decoder' \in DecoderSet(Tile) /\ SameDecoder
       /\ m_decoder'.state \in {state, state \cup {"DATA"}}
       /\ m_decoder'.can_decode = m_decoder.can_decode
  BY <1>7, <1>6, <1>9, StateSet DEF SameDecoder
<1>11. m_current_tile_number' \in 0..codestream.tiles
  BY <1>7, <1>6 DEF Tile
<1>12. TypeInv'
  BY <1>1, <1>4, <1>8, <1>10, <1>11, TypeNow, TypeKept
<1>13. state \in {{"TPHSOT"}, {"EOC"}, {"NEOC"}} /\ m_decoder'.state # {}
  <2>1. state \in {{"TPHSOT"}, {"EOC"}, {"NEOC"}}
    BY <1>2, <1>5
  <2> QED BY <2>1, <1>10, FlagsDiffer
<1>14. FreshInv'
  BY <1>1, <1>4, <1>13, FreshKept
<1>15. CallInv'
  BY <1>1, <1>4, <1>8, <1>10 DEF CallInv, SameDecoder, Tile
<1>16. ~m_decoder.can_decode => AtStreamEnd'
  BY <1>5, <1>10, FlagsDiffer DEF AtStreamEnd
<1>17. StateInv' /\ CompleteInv'
  <2>1. CASE /\ ~m_decoder.can_decode
             /\ m_decoder' = WithState(m_decoder, state)
             /\ call' = [call EXCEPT !.pc = "no_more"]
    <3>1. call'.pc = "no_more" /\ m_decoder'.state = state
      BY <2>1, <1>1, <1>6, <1>9, StateSet DEF TypeInv, Calls
    <3> QED BY <3>1, <2>1, <1>5, <1>10 DEF StateInv, CompleteInv, Between
  <2>2. CASE /\ m_current_tile_number' \in Tile
             /\ m_decoder.can_decode => m_current_tile_number' = m_current_tile_number
             /\ m_decoder' = WithState(m_decoder, state \cup {"DATA"})
             /\ call' = [call EXCEPT !.pc = "decode_tile"]
    <3>1. call'.pc = "decode_tile" /\ m_decoder'.state = state \cup {"DATA"}
      BY <2>2, <1>1, <1>6, <1>9, StateSet DEF TypeInv, Calls
    <3>2. m_decoder'.state \in {{"TPHSOT", "DATA"}, {"EOC", "DATA"}, {"NEOC", "DATA"}}
      BY <3>1, <1>13, FlagsDiffer
    <3>3. StateInv'
      BY <3>1, <3>2 DEF StateInv, Between
    <3>4. m_current_tile_number' \in Tile'
      BY <2>2, <1>4 DEF Tile
    <3>5. CASE m_decoder.can_decode
      <4>1. tcps'[m_current_tile_number'] = tcps[m_current_tile_number]
        BY <3>5, <2>2, <1>4
      <4>2. /\ tcps[m_current_tile_number].nb = tcps[m_current_tile_number].part + 1
            /\ tcps[m_current_tile_number].part >= 0
            /\ call.marker = "SOD" /\ m_decoder.correction_checked
        BY <3>5, <1>1, <1>4, <1>5 DEF CompleteInv
      <4>3. CompleteInv'
        BY <3>1, <3>4, <3>5, <4>1, <4>2, <1>8, <1>10 DEF CompleteInv, SameDecoder
      <4> QED BY <3>3, <4>3
    <3>6. CASE ~m_decoder.can_decode
      <4>1. CompleteInv'
        BY <3>1, <3>4, <3>6, <1>10, <1>16 DEF CompleteInv
      <4> QED BY <3>3, <4>1
    <3> QED BY <3>5, <3>6
  <2> QED BY <1>7, <2>1, <2>2
<1>18. AtStreamEnd => AtStreamEnd'
  BY <1>5, <1>16, FlagsDiffer DEF AtStreamEnd
<1>19. LastInv'
  BY <1>1, <1>4, <1>8, <1>10, SoundSame DEF LastInv, Between, Open, AtMostOneToken, SameDecoder
<1>20. DataInv'
  BY <1>1, <1>4, <1>8, <1>10, <1>18, DataSame
<1>21. OthersInv'
  BY <1>1, <1>4, <1>8, <1>10, SoundSame DEF OthersInv
<1>22. DataInOrder'
  BY <1>1, <1>4, <1>8, <1>12, ImageSame
<1> QED BY <1>12, <1>14, <1>15, <1>17, <1>19, <1>20, <1>21, <1>22 DEF IInv

WithDecoded(d, s) == [d EXCEPT !.can_decode = FALSE, !.state = s]

(* What the decoder is after a tile has been decoded.                      *)
LEMMA DecodedNoted ==
    ASSUME NEW T, NEW d \in DecoderSet(T), NEW s \in SUBSET States
    PROVE  /\ WithDecoded(d, s) \in DecoderSet(T) /\ WithDecoded(d, s).state = s
           /\ WithDecoded(d, s).can_decode = FALSE
           /\ WithDecoded(d, s).last_tile_part = d.last_tile_part
           /\ WithDecoded(d, s).tile_ind_to_dec = d.tile_ind_to_dec
           /\ WithDecoded(d, s).area = d.area
           /\ WithDecoded(d, s).correction_checked = d.correction_checked
BY DEF DecoderSet, WithDecoded

(* What a tile in the image is decoded from has been collected in order.   *)
LEMMA DecodedInOrder ==
    ASSUME TypeInv, FreshInv, CallInv, DataInv, call.pc = "decode_tile", PassesRightly,
           NEW t \in Tile, t \in call.area
    PROVE  InOrder(tcps[t].data)
<1>1. m_private_image /\ call.is \in {"none", "decode", "tile", "get_tile"} /\ Tile \subseteq Nat
  BY CallFields, CodestreamFields DEF CallInv
<1>2. CASE call.is = "get_tile"
  <2>1. Sound
    BY <1>2 DEF PassesRightly, Sound
  <2>2. t = call.tile /\ m_decoder.tile_ind_to_dec = t /\ t # -1
    BY <1>1, <1>2 DEF CallInv
  <2>3. ~Skips(t)
    BY <2>2 DEF Skips
  <2> QED BY <1>1, <2>1, <2>3 DEF DataInv, InOrderSoFar, InOrder
<1>3. CASE call.is \in {"decode", "tile"}
  <2>1. call.area = m_decoder.area /\ m_decoder.tile_ind_to_dec = -1
    BY <1>3 DEF CallInv
  <2>2. Sound
    BY <2>1 DEF PassesRightly, Sound
  <2>3. ~Skips(t)
    BY <2>1 DEF Skips
  <2> QED BY <1>1, <2>2, <2>3 DEF DataInv, InOrderSoFar, InOrder
<1>4. call.is # "none"
  BY DEF CallInv, FreshInv
<1> QED BY <1>1, <1>2, <1>3, <1>4

(* A tile is decoded into the image and its data is let go of, or kept if it *)
(* is the only one.                                                        *)
LEMMA DecodeTileStep == ASSUME IInv, DecodeTile PROVE IInv'
<1>1. /\ TypeInv /\ FreshInv /\ CallInv /\ StateInv /\ CompleteInv /\ LastInv /\ DataInv
      /\ OthersInv /\ DataInOrder
  BY DEF IInv
<1>2. PICK t, state, img, marker :
        /\ t = m_current_tile_number
        /\ state = m_decoder.state \ {"DATA"}
        /\ img = IF t \in call.area THEN [image EXCEPT ![t] = tcps[t].data] ELSE image
        /\ marker = IF AtEnd THEN "nothing" ELSE Head(rest).is
  OBVIOUS
<1>3. PICK reads \in BOOLEAN : reads <=> ~(AtEnd /\ state = {"NEOC"}) /\ state # {"EOC"}
  OBVIOUS
<1>4. PICK nextState, left :
        /\ nextState = IF reads /\ marker = "EOC" THEN {"EOC"}
                       ELSE IF reads /\ marker = "unknown" THEN {"NEOC"} ELSE state
        /\ left = IF reads THEN Tail(rest) ELSE rest
  OBVIOUS
<1>5. PICK done \in BOOLEAN :
        done <=> \/ WholeSingleTile
                 \/ call.is = "tile"
                 \/ call.is = "get_tile" /\ t = call.tile
                 \/ call.is = "decode" /\ (\/ left = <<>> /\ nextState = {"NEOC"}
                                           \/ call.nr_tiles + 1 = codestream.tiles)
  OBVIOUS
<1>6. call.pc = "decode_tile" /\ m_private_image /\ t \in Tile
  BY <1>1, <1>2 DEF DecodeTile, CallInv, CompleteInv
<1>7. CASE reads /\ ~IsMarker(marker)
  <2>1. Fail("short")
    BY <1>7, <1>2, <1>3, <1>4, <1>5 DEF DecodeTile
  <2> QED BY <2>1, <1>6, FailStep DEF Results
<1>8. CASE ~(reads /\ ~IsMarker(marker))
  <2>1. /\ m_decoder' = WithDecoded(m_decoder, nextState)
        /\ m_current_tile_number' \in {0, t}
        /\ tcps' = IF KeepsData THEN tcps ELSE [tcps EXCEPT ![t].data = None]
        /\ image' = img
        /\ rest' = IF call.is = "get_tile" /\ t = call.tile THEN AfterSOT(1) ELSE left
        /\ UNCHANGED <<codestream, tile_index, calls>>
    BY <1>8, <1>2, <1>3, <1>4 DEF DecodeTile, WithDecoded
  <2>2. \/ /\ ~done
           /\ call' = [call EXCEPT !.pc = "read_tile_header", !.nr_tiles = @ + 1]
           /\ UNCHANGED m_private_image
        \/ /\ done
           /\ \E r \in Results : call' = [call EXCEPT !.pc = "idle", !.result = r]
           /\ m_private_image' \in {m_private_image, FALSE}
    <3>1. CASE ~done
      BY <3>1, <1>8, <1>2, <1>3, <1>4, <1>5 DEF DecodeTile
    <3>2. CASE done /\ (WholeSingleTile \/ call.is = "tile")
      BY <3>2, <1>8, <1>2, <1>3, <1>4, <1>5 DEF DecodeTile, Return, Results
    <3>3. CASE done /\ ~(WholeSingleTile \/ call.is = "tile")
      <4>1. Finish(img)
        BY <3>3, <1>8, <1>2, <1>3, <1>4, <1>5 DEF DecodeTile
      <4>2. \/ Return("ok") /\ m_private_image' = m_private_image
            \/ Return("nothing") /\ m_private_image' = FALSE
        BY <4>1 DEF Finish
      <4> QED BY <4>2, <3>3 DEF Return, Results
    <3> QED BY <3>1, <3>2, <3>3
  <2>3. /\ call' \in Calls /\ call'.is = call.is /\ call'.tile = call.tile /\ call'.area = call.area
        /\ call'.pc \in {"idle", "read_tile_header"}
        /\ call'.pc = "idle" <=> done
        /\ m_private_image' \in BOOLEAN
        /\ call'.pc # "idle" => m_private_image'
    <3>1. CASE ~done
      <4>1. /\ call' = [call EXCEPT !.pc = "read_tile_header", !.nr_tiles = @ + 1]
            /\ m_private_image' = m_private_image
        BY <2>2, <3>1
      <4>2. call.nr_tiles + 1 \in Nat
        BY <1>1, CallFields
      <4> QED BY <4>1, <4>2, <3>1, <1>1, <1>6 DEF TypeInv, Calls, PCs
    <3>2. CASE done
      <4>1. PICK r \in Results : call' = [call EXCEPT !.pc = "idle", !.result = r]
        BY <2>2, <3>2
      <4>2. m_private_image' \in {m_private_image, FALSE}
        BY <2>2, <3>2
      <4> QED BY <4>1, <4>2, <3>2, <1>1, <1>6 DEF TypeInv, Calls, PCs
    <3> QED BY <3>1, <3>2
  <2>4. state \in {{"TPHSOT"}, {"EOC"}, {"NEOC"}} /\ (AtStreamEnd => state \in {{"EOC"}, {"NEOC"}})
    <3>1. m_decoder.state \in {{"TPHSOT", "DATA"}, {"EOC", "DATA"}, {"NEOC", "DATA"}}
      BY <1>1, <1>6 DEF StateInv
    <3> QED BY <3>1, <1>2, FlagsDiffer DEF AtStreamEnd
  <2>5. /\ nextState \in {{"TPHSOT"}, {"EOC"}, {"NEOC"}} /\ nextState \in SUBSET States
        /\ AtStreamEnd => nextState \in {{"EOC"}, {"NEOC"}}
    <3>1. /\ nextState \in {{"TPHSOT"}, {"EOC"}, {"NEOC"}}
          /\ AtStreamEnd => nextState \in {{"EOC"}, {"NEOC"}}
      BY <2>4, <1>4
    <3> QED BY <3>1 DEF States
  <2>6. /\ m_decoder' \in DecoderSet(Tile) /\ SameDecoder /\ m_decoder'.state = nextState
        /\ m_decoder'.can_decode = FALSE
    <3>1. m_decoder \in DecoderSet(Tile) /\ nextState \in SUBSET States
      BY <2>5, <1>1, DecoderTyped
    <3>2. m_decoder' = WithDecoded(m_decoder, nextState)
      BY <2>1
    <3> QED BY <3>1, <3>2, DecodedNoted DEF SameDecoder
  <2>7. AtStreamEnd => AtStreamEnd'
    BY <2>5, <2>6 DEF AtStreamEnd
  <2>8. /\ tcps' \in [Tile -> Tiles]
        /\ \A u \in Tile : tcps'[u].part = tcps[u].part /\ tcps'[u].nb = tcps[u].nb
        /\ \A u \in Tile : u # t => tcps'[u].data = tcps[u].data
        /\ ~KeepsData => tcps'[t].data = None
        /\ KeepsData => tcps' = tcps
    <3>1. tcps \in [Tile -> Tiles] /\ None \in Seq(Pieces)
      BY <1>1, TypeNow DEF None
    <3>2. CASE KeepsData
      BY <3>1, <3>2, <2>1
    <3>3. CASE ~KeepsData
      <4>1. tcps' = WithData(tcps, t, None)
        BY <3>3, <2>1 DEF WithData
      <4>2. /\ tcps' \in [Tile -> Tiles]
            /\ tcps'[t].part = tcps[t].part /\ tcps'[t].nb = tcps[t].nb /\ tcps'[t].data = None
            /\ \A u \in Tile : u # t => tcps'[u] = tcps[u]
        BY <4>1, <3>1, <1>6, TileDataSet
      <4> QED BY <4>2, <3>3
    <3> QED BY <3>2, <3>3
  <2>9. StreamOK(left, codestream)
    <3>1. StreamOK(rest, codestream)
      BY <1>1, TypeNow
    <3>2. reads => rest # <<>>
      BY <1>8, <1>2 DEF IsMarker, AtEnd
    <3> QED BY <3>1, <3>2, <1>4, StreamTail
  <2>10. StreamOK(rest', codestream)
    BY <2>1, <2>9, <1>1, 1 \in Nat, AvailableFrom
  <2>11. img \in [Tile -> Seq(Pieces)] /\ \A u \in Tile : u # t => img[u] = image[u]
    BY <1>1, <1>2, <1>6, TypeNow, TileFields
  <2>12. TypeInv'
    <3>1. m_current_tile_number' \in 0..codestream.tiles
      BY <2>1, <1>6, <1>1, CodestreamFields DEF Tile
    <3>2. \A u \in Tile : tcps'[u].part >= -1
      BY <2>8, <1>1, TypeNow
    <3> QED BY <1>1, <2>1, <2>3, <2>6, <2>8, <2>10, <2>11, <3>1, <3>2, TypeNow, TypeKept
  <2>13. FreshInv'
    BY <1>1, <1>6, <2>1, <2>5, <2>6, FlagsDiffer, FreshKept
  <2>14. call.is = "get_tile" /\ ~done => img[call.tile] = image[call.tile]
    BY <1>1, <1>2, <1>5 DEF CallInv
  <2>15. CallInv'
    BY <1>1, <1>6, <2>1, <2>3, <2>6, <2>14 DEF CallInv, SameDecoder, Tile
  <2>16. StateInv' /\ CompleteInv'
    BY <2>3, <2>5, <2>6 DEF StateInv, CompleteInv, Between
  <2>17. LastInv'
    <3> SUFFICES ASSUME m_private_image', m_decoder'.last_tile_part, Sound'
                 PROVE  AtStreamEnd' /\ AtMostOneToken'
      BY <2>1, <2>3, <2>6, <1>1, <1>6 DEF LastInv, Between, SameDecoder, Open
    <3>1. Sound /\ m_decoder.last_tile_part /\ Open(codestream)
      BY <2>1, <2>6, <1>1, <1>6, SoundSame DEF SameDecoder, LastInv
    <3>2. AtMostOneToken
      BY <3>1, <1>1, <1>6 DEF LastInv
    <3>3. call.is # "get_tile"
      BY <3>1, <1>1, CallFields, CodestreamFields DEF CallInv, Sound
    <3>4. rest' = left
      BY <3>3, <2>1
    <3>5. CASE rest = <<>>
      <4>1. ~reads
        BY <3>5, <1>8, <1>2 DEF AtEnd, IsMarker
      <4>2. nextState \in {{"EOC"}, {"NEOC"}} /\ left = <<>>
        BY <3>5, <4>1, <1>3, <1>4
      <4> QED BY <4>2, <3>4, <2>6 DEF AtStreamEnd, AtMostOneToken
    <3>6. CASE Len(rest) = 1 /\ rest[1].is \in {"EOC", "unknown"}
      <4>1. rest # <<>> /\ Head(rest) = rest[1] /\ rest \in Seq(TokenSet)
        <5>1. rest # <<>>
          BY <3>6
        <5> QED BY <5>1, <1>1, RestFields
      <4>2. marker \in {"EOC", "unknown"}
        BY <4>1, <3>6, <1>2 DEF AtEnd
      <4>3. CASE reads
        <5>1. left = <<>>
          BY <4>1, <4>3, <3>6, <1>4
        <5>2. nextState \in {{"EOC"}, {"NEOC"}}
          BY <4>2, <4>3, <1>4
        <5> QED BY <5>1, <5>2, <3>4, <2>6 DEF AtStreamEnd, AtMostOneToken
      <4>4. CASE ~reads
        <5>1. state = {"EOC"}
          BY <4>1, <4>4, <1>3 DEF AtEnd
        <5>2. nextState = {"EOC"} /\ left = rest
          BY <5>1, <4>4, <1>4
        <5> QED BY <5>2, <3>4, <3>6, <2>6 DEF AtStreamEnd, AtMostOneToken
      <4> QED BY <4>3, <4>4
    <3> QED BY <3>2, <3>5, <3>6 DEF AtMostOneToken
  <2>18. DataInv'
    <3>1. CASE KeepsData
      BY <3>1, <1>1, <1>6, <2>1, <2>3, <2>6, <2>7, <2>8, DataSame
    <3>2. CASE ~KeepsData
      <4> SUFFICES ASSUME m_private_image', Sound', NEW u \in Tile, ~Skips(u)'
                   PROVE  /\ InOrderSoFar(u)'
                          /\ \/ Len(tcps[u].data)' = Collected(u)'
                             \/ /\ (tcps[u].data = None)' /\ Closed(u)'
                                /\ ~(call.pc = "tile_part" /\ m_current_tile_number = u)'
        BY <2>1, <2>6, SoundSame DEF DataInv
      <4>1. Sound /\ ~Skips(u)
        BY <2>1, <2>6, SoundSame
      <4>2. /\ InOrderSoFar(u)
            /\ \/ Len(tcps[u].data) = Collected(u)
               \/ tcps[u].data = None /\ Closed(u)
        BY <4>1, <1>1, <1>6 DEF DataInv
      <4>3. tcps'[u].part = tcps[u].part /\ tcps'[u].nb = tcps[u].nb
        BY <2>8
      <4>4. Closed(u) => Closed(u)'
        BY <4>3, <2>6, <2>7 DEF Closed, SameDecoder
      <4>5. call.pc # "tile_part" /\ call'.pc # "tile_part"
        BY <1>6, <2>3
      <4>6. CASE u # t
        <5>1. tcps'[u].data = tcps[u].data
          BY <4>6, <2>8
        <5>2. InOrderSoFar(u)'
          BY <5>1, <4>2, <4>5, <2>6 DEF InOrderSoFar, SameDecoder
        <5>3. Collected(u)' = Collected(u)
          BY <4>3, <4>5 DEF Collected
        <5> QED BY <5>1, <5>2, <5>3, <4>2, <4>4, <4>5
      <4>7. CASE u = t
        <5>1. tcps'[u].data = None
          BY <4>7, <3>2, <2>8
        <5>2. InOrderSoFar(u)'
          BY <5>1 DEF InOrderSoFar, None
        <5>3. Closed(u)
          BY <4>7, <3>2, <1>1, <1>2, <1>6, TileFields DEF CompleteInv, Closed
        <5> QED BY <5>1, <5>2, <5>3, <4>4, <4>5
      <4> QED BY <4>6, <4>7
    <3> QED BY <3>1, <3>2
  <2>19. OthersInv'
    <3> SUFFICES ASSUME m_private_image', Sound', call'.is = "get_tile", NEW u \in Tile,
                        u # call'.tile \/ call'.pc = "idle"
                 PROVE  tcps'[u].data = None
      BY <2>1 DEF OthersInv, Tile
    <3>1. Sound /\ call.is = "get_tile" /\ ~KeepsData
      BY <2>1, <2>3, <2>6, SoundSame DEF KeepsData
    <3>2. u # call.tile => tcps[u].data = None
      BY <3>1, <1>1, <1>6 DEF OthersInv
    <3>3. u = call.tile => u = t
      BY <3>1, <2>3, <1>5 DEF WholeSingleTile
    <3> QED BY <3>1, <3>2, <3>3, <2>8
  <2>20. DataInOrder'
    <3>1. PassesRightly' => PassesRightly
      BY <2>1, <2>3 DEF PassesRightly, Tile, Open
    <3>2. PassesRightly => \A u \in Tile : InOrder(img[u])
      <4>1. PassesRightly => \A u \in Tile : InOrder(image[u])
        BY <1>1 DEF DataInOrder
      <4>2. PassesRightly /\ t \in call.area => InOrder(tcps[t].data)
        BY <1>1, <1>6, DecodedInOrder
      <4>3. t \in call.area => img[t] = tcps[t].data
        BY <1>1, <1>2, <1>6, TypeNow
      <4>4. t \notin call.area => img = image
        BY <1>2
      <4> QED BY <4>1, <4>2, <4>3, <4>4, <2>11
    <3> QED BY <3>1, <3>2, <2>1, <2>12 DEF DataInOrder, TypeInv, Tile
  <2> QED BY <2>12, <2>13, <2>15, <2>16, <2>17, <2>18, <2>19, <2>20 DEF IInv
<1> QED BY <1>7, <1>8

(* The data of a tile-part has been read, or passed over: x is what has    *)
(* been collected of a tile, d is m_decoder.                               *)
DataSoFar(x, d) ==
    /\ \A i \in 1..Len(x.data) :
          x.data[i].n = i - 1
          /\ (x.data[i].is = "whole" \/ (i = Len(x.data) /\ d.last_tile_part))
    /\ \/ Len(x.data) = x.part + 1
       \/ x.data = None /\ d.correction_checked /\ x.nb # 0 /\ x.nb <= x.part + 1

(* A tile that is not being read holds its tile-parts so far.              *)
LEMMA CollectedBefore ==
    ASSUME IInv, m_private_image, Sound, m_decoder.state = {"TPH"}, call.pc = "tile_part",
           NEW t \in Tile, t # m_current_tile_number, ~Skips(t)
    PROVE  DataSoFar(tcps[t], m_decoder)
<1>1. /\ InOrderSoFar(t)
      /\ \/ Len(tcps[t].data) = Collected(t)
         \/ tcps[t].data = None /\ Closed(t)
  BY DEF IInv, DataInv
<1>2. ~AtStreamEnd
  BY FlagsDiffer DEF AtStreamEnd
<1>3. Collected(t) = tcps[t].part + 1
  BY DEF Collected
<1> QED BY <1>1, <1>2, <1>3 DEF InOrderSoFar, Closed, DataSoFar

(* The invariant about the data, from what holds of each tile.             *)
LEMMA DataInvFrom ==
    ASSUME UNCHANGED codestream, call'.pc # "tile_part",
           Sound' = Sound, Tile' = Tile, \A t : Skips(t)' = Skips(t),
           Sound => \A t \in Tile : ~Skips(t) => DataSoFar(tcps'[t], m_decoder')
    PROVE  DataInv'
<1> SUFFICES ASSUME m_private_image', Sound', NEW t \in Tile, ~Skips(t)'
             PROVE  /\ InOrderSoFar(t)'
                    /\ \/ Len(tcps[t].data)' = Collected(t)'
                       \/ /\ (tcps[t].data = None)' /\ Closed(t)'
                          /\ ~(call.pc = "tile_part" /\ m_current_tile_number = t)'
  BY DEF DataInv
<1>1. DataSoFar(tcps'[t], m_decoder')
  OBVIOUS
<1>2. InOrderSoFar(t)'
  BY <1>1 DEF DataSoFar, InOrderSoFar
<1>3. Collected(t)' = tcps'[t].part + 1
  BY DEF Collected
<1> QED BY <1>1, <1>2, <1>3 DEF DataSoFar, Closed

(* The next marker is read.  stream is what is left of the codestream,     *)
(* decoder and data what has been noted so far.                            *)
LEMMA GoOnStep ==
    ASSUME IInv, call.pc \in {"tile_part", "loop"}, m_private_image, m_current_tile_number \in Tile,
           NEW stream, StreamOK(stream, codestream),
           NEW decoder \in DecoderSet(Tile), NEW data \in [Tile -> Tiles],
           decoder.state = {"TPHSOT"}, ~decoder.can_decode, decoder.area = m_decoder.area,
           decoder.tile_ind_to_dec = m_decoder.tile_ind_to_dec,
           decoder.last_tile_part = m_decoder.last_tile_part,
           \A t \in Tile : data[t].part >= -1,
           data[m_current_tile_number].part >= 0,
           Sound /\ stream # <<>> => Head(stream).is # "SOD",
           Sound /\ m_decoder.last_tile_part =>
               Len(stream) = 1 /\ Head(stream).is \in {"EOC", "unknown"},
           Sound => \A t \in Tile : ~Skips(t) => DataSoFar(data[t], decoder),
           Sound /\ call.is = "get_tile" => \A t \in Tile : t # call.tile => data[t].data = None,
           GoOnReading(stream, decoder, m_current_tile_number, data)
    PROVE  IInv'
<1>1. /\ TypeInv /\ FreshInv /\ CallInv /\ StateInv /\ CompleteInv /\ LastInv /\ DataInv
      /\ OthersInv /\ DataInOrder
  BY DEF IInv
<1>2. \/ /\ stream # <<>> /\ IsMarker(Head(stream).is)
         /\ rest' = Tail(stream)
         /\ m_decoder' = decoder
         /\ call' = [call EXCEPT !.pc = "loop", !.marker = Head(stream).is]
         /\ tcps' = data
         /\ UNCHANGED <<codestream, m_private_image, m_current_tile_number, tile_index, calls,
                        image>>
      \/ /\ Spot6 # {} /\ rest' = <<>>
         /\ m_decoder' = WithState(decoder, {"EOC"})
         /\ tcps' = data
         /\ m_current_tile_number' = CHOOSE t \in Spot6 : \A u \in Spot6 : t <= u
         /\ call' = [call EXCEPT !.pc = "after_loop", !.marker = "EOC"]
         /\ UNCHANGED <<codestream, m_private_image, tile_index, calls, image>>
      \/ Fail("short")
  BY DEF GoOnReading, EndsLikeSpot6, WithState
<1>3. CASE Fail("short")
  BY <1>3, FailStep DEF Results
<1>4. CASE /\ stream # <<>> /\ IsMarker(Head(stream).is)
           /\ rest' = Tail(stream)
           /\ m_decoder' = decoder
           /\ call' = [call EXCEPT !.pc = "loop", !.marker = Head(stream).is]
           /\ tcps' = data
           /\ UNCHANGED <<codestream, m_private_image, m_current_tile_number, tile_index, calls,
                        image>>
  <2> DEFINE marker == Head(stream).is
  <2>1. marker \in Markers
    BY <1>4 DEF IsMarker, Markers
  <2>2. /\ call' \in Calls /\ call'.pc = "loop" /\ call'.marker = marker
        /\ call'.is = call.is /\ call'.tile = call.tile /\ call'.area = call.area
    BY <1>1, <1>4, <2>1 DEF TypeInv, Calls, PCs
  <2>3. /\ m_decoder'.area = m_decoder.area
        /\ m_decoder'.tile_ind_to_dec = m_decoder.tile_ind_to_dec
        /\ m_decoder'.last_tile_part = m_decoder.last_tile_part
        /\ m_decoder'.state = {"TPHSOT"} /\ ~m_decoder'.can_decode
        /\ m_decoder' \in DecoderSet(Tile)
    BY <1>4
  <2>4. TypeInv'
    <3>1. StreamOK(rest', codestream)
      BY <1>4, StreamTail
    <3> QED BY <3>1, <1>1, <1>4, <2>2, <2>3, TypeNow, TypeKept
  <2>5. FreshInv'
    BY <1>1, <1>4, <2>3, FlagsDiffer, FreshKept
  <2>6. CallInv'
    BY <1>1, <1>4, <2>2, <2>3 DEF CallInv, Tile
  <2>7. StateInv' /\ CompleteInv'
    BY <1>4, <2>2, <2>3 DEF StateInv, CompleteInv, Between, Tile
  <2>8. Sound' = Sound /\ Tile' = Tile /\ \A t : Skips(t)' = Skips(t)
    BY <1>4, <2>3 DEF Sound, Open, Tile, Skips
  <2>9. LastInv'
    <3>1. Sound /\ m_decoder.last_tile_part => marker \in {"EOC", "unknown"} /\ rest' = <<>>
      <4>1. stream \in Seq(TokenSet)
        BY DEF StreamOK
      <4> QED BY <4>1, <1>4
    <3>2. m_decoder.last_tile_part => Open(codestream)
      BY <1>1 DEF LastInv
    <3> HIDE DEF marker
    <3> QED BY <3>1, <3>2, <1>4, <2>2, <2>3, <2>8 DEF LastInv, Between, Open, AtMostOneToken, marker
  <2>10. DataInv'
    BY <1>4, <2>2, <2>3, <2>8, DataInvFrom
  <2>11. OthersInv'
    BY <1>4, <2>2, <2>8 DEF OthersInv
  <2>12. DataInOrder'
    BY <1>1, <1>4, <2>2, <2>4, ImageSame
  <2> QED BY <2>4, <2>5, <2>6, <2>7, <2>9, <2>10, <2>11, <2>12 DEF IInv
<1>5. CASE /\ Spot6 # {} /\ rest' = <<>>
           /\ m_decoder' = WithState(decoder, {"EOC"})
           /\ tcps' = data
           /\ m_current_tile_number' = CHOOSE t \in Spot6 : \A u \in Spot6 : t <= u
           /\ call' = [call EXCEPT !.pc = "after_loop", !.marker = "EOC"]
           /\ UNCHANGED <<codestream, m_private_image, tile_index, calls, image>>
  <2>1. m_current_tile_number' \in Tile
    <3>1. Spot6 \subseteq Tile /\ Spot6 \subseteq Nat
      BY <1>1, CodestreamFields DEF Spot6
    <3>2. \E t \in Spot6 : \A u \in Spot6 : t <= u
      BY <3>1, <1>5, Minimum
    <3> QED BY <3>1, <3>2, <1>5
  <2>2. /\ call' \in Calls /\ call'.pc = "after_loop"
        /\ call'.is = call.is /\ call'.tile = call.tile /\ call'.area = call.area
    BY <1>1, <1>5 DEF TypeInv, Calls, PCs, Markers
  <2>3. /\ m_decoder'.area = m_decoder.area
        /\ m_decoder'.tile_ind_to_dec = m_decoder.tile_ind_to_dec
        /\ m_decoder'.last_tile_part = m_decoder.last_tile_part
        /\ m_decoder'.state = {"EOC"} /\ ~m_decoder'.can_decode
        /\ m_decoder' \in DecoderSet(Tile)
        /\ m_decoder'.correction_checked = decoder.correction_checked
    <3>1. {"EOC"} \in SUBSET States
      BY DEF States
    <3> QED BY <3>1, <1>5, StateSet
  <2>4. TypeInv'
    <3>1. m_current_tile_number' \in 0..codestream.tiles
      BY <2>1, <1>1, CodestreamFields DEF Tile
    <3>2. StreamOK(rest', codestream)
      BY <1>5, StreamEmpty
    <3> QED BY <3>1, <3>2, <1>1, <1>5, <2>2, <2>3, TypeNow, TypeKept
  <2>5. FreshInv'
    BY <1>1, <1>5, <2>3, FlagsDiffer, FreshKept
  <2>6. CallInv'
    BY <1>1, <1>5, <2>2, <2>3 DEF CallInv, Tile
  <2>7. StateInv' /\ CompleteInv'
    BY <1>5, <2>2, <2>3 DEF StateInv, CompleteInv, Between, Tile
  <2>8. Sound' = Sound /\ Tile' = Tile /\ \A t : Skips(t)' = Skips(t)
    BY <1>5, <2>3 DEF Sound, Open, Tile, Skips
  <2>9. LastInv'
    <3>1. m_decoder.last_tile_part => Open(codestream)
      BY <1>1 DEF LastInv
    <3> QED BY <3>1, <1>5, <2>2, <2>3 DEF LastInv, Between, Open, AtMostOneToken
  <2>10. DataInv'
    <3>1. ASSUME NEW t \in Tile, DataSoFar(data[t], decoder) PROVE DataSoFar(data[t], m_decoder')
      BY <2>3, <3>1 DEF DataSoFar
    <3> QED BY <3>1, <1>5, <2>2, <2>8, DataInvFrom
  <2>11. OthersInv'
    BY <1>5, <2>2, <2>8 DEF OthersInv
  <2>12. DataInOrder'
    BY <1>1, <1>5, <2>2, <2>4, ImageSame
  <2> QED BY <2>4, <2>5, <2>6, <2>7, <2>9, <2>10, <2>11, <2>12 DEF IInv
<1> QED BY <1>2, <1>3, <1>4, <1>5

WithSkipped(d) == [d EXCEPT !.skip_data = FALSE, !.can_decode = FALSE, !.state = {"TPHSOT"}]

(* What the decoder is after a tile-part has been passed over.             *)
LEMMA SkipNoted ==
    ASSUME NEW T, NEW d \in DecoderSet(T)
    PROVE  /\ WithSkipped(d) \in DecoderSet(T) /\ WithSkipped(d).state = {"TPHSOT"}
           /\ WithSkipped(d).can_decode = FALSE
           /\ WithSkipped(d).last_tile_part = d.last_tile_part
           /\ WithSkipped(d).tile_ind_to_dec = d.tile_ind_to_dec
           /\ WithSkipped(d).area = d.area
           /\ WithSkipped(d).correction_checked = d.correction_checked
BY DEF DecoderSet, WithSkipped, States

(* A tile-part that is not wanted is passed over.                          *)
LEMMA SkipTilePartStep == ASSUME IInv, SkipTilePart PROVE IInv'
<1>1. /\ TypeInv /\ FreshInv /\ CallInv /\ StateInv /\ CompleteInv /\ LastInv /\ DataInv
      /\ OthersInv /\ DataInOrder
  BY DEF IInv
<1>2. /\ call.pc = "tile_part" /\ m_decoder.skip_data /\ m_private_image
      /\ m_decoder.state = {"TPH"} /\ m_current_tile_number \in Tile
      /\ tcps[m_current_tile_number].part >= 0 /\ Skips(m_current_tile_number)
  BY <1>1 DEF SkipTilePart, CallInv, StateInv, CompleteInv
<1>3. CASE ~CanSkip
  <2>1. Fail("short")
    BY <1>3 DEF SkipTilePart
  <2> QED BY <2>1, <1>2, FailStep DEF Results
<1>4. CASE CanSkip
  <2>1. GoOnReading(SkippedTo, WithSkipped(m_decoder), m_current_tile_number, tcps)
    BY <1>4 DEF SkipTilePart, WithSkipped
  <2>2. Sound => ~m_decoder.last_tile_part
    BY <1>1, <1>2, CodestreamFields DEF Sound, LastInv, Skips
  <2>3. StreamOK(rest, codestream) /\ StreamOK(SkippedTo, codestream)
    <3>1. StreamOK(rest, codestream) /\ 3 \in Nat \ {0}
      BY <1>1, TypeNow
    <3> QED BY <3>1, StreamFrom DEF SkippedTo
  <2>4. Sound /\ SkippedTo # <<>> => Head(SkippedTo).is # "SOD"
    <3> SUFFICES ASSUME Sound, SkippedTo # <<>> PROVE Head(SkippedTo).is # "SOD"
      OBVIOUS
    <3>1. SkippedTo = SubSeq(rest, 3, Len(rest)) /\ Len(rest) >= 2 /\ rest[2].is = "data"
      BY <2>2, <1>4 DEF SkippedTo, CanSkip
    <3>2. rest \in Seq(TokenSet)
      BY <2>3 DEF StreamOK
    <3>3. Len(rest) >= 3
      BY <3>1, <3>2
    <3>4. Head(SkippedTo) = rest[3]
      BY <3>1, <3>2, <3>3, HeadTailOfSubSeq
    <3>5. 2 \in 1..Len(rest) /\ 2 < Len(rest)
      BY <3>2, <3>3
    <3>6. rest[2 + 1].is # "SOD"
      BY <3>1, <3>5, <2>3 DEF StreamOK
    <3> QED BY <3>4, <3>6
  <2>5. m_decoder \in DecoderSet(Tile)
    BY <1>1, DecoderTyped
  <2>6. /\ WithSkipped(m_decoder) \in DecoderSet(Tile)
        /\ WithSkipped(m_decoder).state = {"TPHSOT"} /\ ~WithSkipped(m_decoder).can_decode
        /\ WithSkipped(m_decoder).last_tile_part = m_decoder.last_tile_part
        /\ WithSkipped(m_decoder).tile_ind_to_dec = m_decoder.tile_ind_to_dec
        /\ WithSkipped(m_decoder).area = m_decoder.area
        /\ WithSkipped(m_decoder).correction_checked = m_decoder.correction_checked
    BY <2>5, SkipNoted
  <2>7. Sound => \A t \in Tile : ~Skips(t) => DataSoFar(tcps[t], WithSkipped(m_decoder))
    <3> SUFFICES ASSUME Sound, NEW t \in Tile, ~Skips(t)
                 PROVE  DataSoFar(tcps[t], WithSkipped(m_decoder))
      OBVIOUS
    <3>1. DataSoFar(tcps[t], m_decoder)
      BY <1>2, CollectedBefore
    <3> QED BY <3>1, <2>6 DEF DataSoFar
  <2>8. Sound /\ call.is = "get_tile" => \A t \in Tile : t # call.tile => tcps[t].data = None
    BY <1>1, <1>2 DEF OthersInv
  <2>9. tcps \in [Tile -> Tiles] /\ \A t \in Tile : tcps[t].part >= -1
    BY <1>1, TypeNow
  <2> HIDE DEF SkippedTo
  <2> QED BY <1>2, <2>1, <2>2, <2>3, <2>4, <2>6, <2>7, <2>8, <2>9, GoOnStep
<1> QED BY <1>3, <1>4

(* The decoder once the data of a tile-part has been read.                *)
AfterReading(d, checked, c, n) ==
    [d EXCEPT !.state = {"TPHSOT"}, !.correction_checked = checked, !.can_decode = c,
              !.correction = n]

(* The stream behind the data of a tile-part.                              *)
LEMMA BehindData ==
    ASSUME TypeInv, rest # <<>>, m_decoder.last_tile_part \/ Head(rest).is = "data"
    PROVE  /\ StreamOK(AfterData, codestream)
           /\ AfterData # <<>> => Head(AfterData).is # "SOD"
           /\ m_decoder.last_tile_part =>
               Len(AfterData) = 1 /\ Head(AfterData).is \in {"EOC", "unknown"}
<1>1. StreamOK(rest, codestream) /\ rest \in Seq(TokenSet) /\ Len(rest) > 0
  BY TypeNow, RestFields
<1>2. CASE ~m_decoder.last_tile_part
  <2>1. AfterData = Tail(rest)
    BY <1>2 DEF AfterData
  <2>2. StreamOK(Tail(rest), codestream)
    BY <1>1, StreamTail
  <2>3. ASSUME Tail(rest) # <<>> PROVE Head(Tail(rest)).is # "SOD"
    <3>1. Len(rest) >= 2
      BY <2>3, <1>1
    <3>2. Head(Tail(rest)) = rest[1 + 1] /\ Head(rest) = rest[1]
      BY <3>1, <1>1
    <3>3. 1 \in 1..Len(rest) /\ 1 < Len(rest)
      BY <3>1, <1>1
    <3> QED BY <3>2, <3>3, <1>1, <1>2 DEF StreamOK
  <2> QED BY <1>2, <2>1, <2>2, <2>3
<1>3. CASE m_decoder.last_tile_part
  <2>1. PICK x : /\ x \in TokenSet /\ x.is \in {"EOC", "unknown"}
                 /\ AfterData = <<x>>
    <3>1. CASE rest[Len(rest)].is = "EOC"
      <4>1. rest[Len(rest)] \in TokenSet
        BY <1>1
      <4> QED BY <4>1, <3>1, <1>3 DEF AfterData
    <3>2. CASE rest[Len(rest)].is # "EOC"
      <4>1. "unknown" \in TokenKinds /\ 0 \in Nat
        BY DEF TokenKinds
      <4>2. NoMarker \in TokenSet /\ NoMarker.is = "unknown"
        BY <4>1, TokenType DEF NoMarker
      <4> QED BY <4>2, <3>2, <1>3 DEF AfterData
    <3> QED BY <3>1, <3>2
  <2>2. StreamOK(<<x>>, codestream)
    BY <2>1, StreamOfOne
  <2>3. Len(<<x>>) = 1 /\ Head(<<x>>) = x
    OBVIOUS
  <2> QED BY <2>1, <2>2, <2>3
<1> QED BY <1>2, <1>3

(* Raising the numbers of tile-parts changes neither data nor parts.       *)
LEMMA CorrectedTiles ==
    ASSUME NEW f \in [Tile -> Tiles]
    PROVE  /\ Corrected(f) \in [Tile -> Tiles]
           /\ \A u \in Tile : Corrected(f)[u].part = f[u].part /\ Corrected(f)[u].data = f[u].data
<1>1. ASSUME NEW u \in Tile
      PROVE  /\ Corrected(f)[u] \in Tiles
             /\ Corrected(f)[u].part = f[u].part /\ Corrected(f)[u].data = f[u].data
  <2>1. f[u] \in Tiles
    OBVIOUS
  <2>2. PICK b : b = IF f[u].nb # 0 THEN f[u].nb + 1 ELSE 0
    OBVIOUS
  <2>3. b \in Nat
    BY <2>1, <2>2 DEF Tiles
  <2>4. Corrected(f)[u] = [f[u] EXCEPT !.nb = b]
    BY <2>2 DEF Corrected
  <2> QED BY <2>1, <2>3, <2>4 DEF Tiles
<1> QED BY <1>1 DEF Corrected

(* The data of a tile-part that is wanted is appended to that of its tile: *)
(* it is the next.                                                         *)
LEMMA AppendedNext ==
    ASSUME IInv, m_private_image, Sound, m_decoder.state = {"TPH"}, call.pc = "tile_part",
           NEW t \in Tile, t = m_current_tile_number, ~Skips(t), tcps[t].part >= 0,
           NEW x \in Tiles, x.part = tcps[t].part,
           x.data = Append(tcps[t].data, Piece(tcps[t].part, DataReadIs))
    PROVE  DataSoFar(x, m_decoder) /\ Len(x.data) = x.part + 1
<1> DEFINE d == tcps[t].data
           n == tcps[t].part
           p == Piece(n, DataReadIs)
<1>1. d \in Seq(Pieces) /\ n \in Nat
  BY TileFields DEF IInv
<1>2. /\ InOrderSoFar(t)
      /\ Len(d) = Collected(t)
  BY DEF IInv, DataInv
<1>3. Len(d) = n
  BY <1>2 DEF Collected
<1>4. p.n = n /\ (p.is = "whole" \/ m_decoder.last_tile_part)
  BY DEF Piece, DataReadIs
<1>5. \A i \in 1..Len(d) : d[i].n = i - 1 /\ d[i].is = "whole"
  BY <1>2 DEF InOrderSoFar
<1>6. x.data = Append(d, p) /\ Len(x.data) = Len(d) + 1
  BY <1>1
<1>7. \A i \in 1..Len(d) : x.data[i] = d[i]
  BY <1>1, <1>6
<1>8. x.data[Len(d) + 1] = p
  BY <1>1, <1>6
<1> HIDE DEF d, n, p
<1>9. ASSUME NEW i \in 1..Len(x.data)
      PROVE  x.data[i].n = i - 1
             /\ (x.data[i].is = "whole" \/ (i = Len(x.data) /\ m_decoder.last_tile_part))
  <2>1. CASE i = n + 1
    BY <2>1, <1>1, <1>3, <1>4, <1>6, <1>8
  <2>2. CASE i # n + 1
    <3>1. i \in 1..Len(d)
      BY <2>2, <1>1, <1>3, <1>6
    <3> QED BY <3>1, <1>5, <1>7
  <2> QED BY <2>1, <2>2
<1>10. Len(x.data) = x.part + 1
  BY <1>3, <1>6 DEF n
<1> QED BY <1>9, <1>10 DEF DataSoFar

(* The data of a tile-part is read.                                        *)
LEMMA ReadSODStep == ASSUME IInv, ReadSOD PROVE IInv'
<1>1. /\ TypeInv /\ FreshInv /\ CallInv /\ StateInv /\ CompleteInv /\ LastInv /\ DataInv
      /\ OthersInv /\ DataInOrder
  BY DEF IInv
<1>2. PICK t, stream, data :
        /\ t = m_current_tile_number /\ stream = AfterData
        /\ data = WithData(tcps, t, Append(tcps[t].data, Piece(tcps[t].part, DataReadIs)))
  OBVIOUS
<1>3. PICK checks \in BOOLEAN :
        checks <=> m_decoder.can_decode /\ ~m_decoder.correction_checked
  OBVIOUS
<1>4. PICK corrected \in BOOLEAN : corrected <=> checks /\ NeedsCorrection(t, stream)
  OBVIOUS
<1>5. PICK decoder :
        decoder = [m_decoder EXCEPT
               !.state = {"TPHSOT"},
               !.correction_checked = @ \/ m_decoder.can_decode,
               !.can_decode = @ /\ ~corrected,
               !.correction = IF corrected THEN 1 ELSE @]
  OBVIOUS
<1>6. \/ Fail("short")
      \/ /\ rest # <<>> /\ (m_decoder.last_tile_part \/ Head(rest).is = "data")
         /\ decoder.can_decode
         /\ rest' = stream /\ m_decoder' = decoder /\ tcps' = data
         /\ call' = [call EXCEPT !.pc = "after_loop"]
         /\ UNCHANGED <<codestream, m_private_image, m_current_tile_number, tile_index, calls,
                        image>>
      \/ /\ rest # <<>> /\ (m_decoder.last_tile_part \/ Head(rest).is = "data")
         /\ ~decoder.can_decode
         /\ GoOnReading(stream, decoder, t, IF corrected THEN Corrected(data) ELSE data)
  <2>1. CASE \/ rest = <<>>
             \/ ~m_decoder.last_tile_part /\ Head(rest).is # "data"
             \/ checks /\ SearchFails(t, stream)
    <3>1. Fail("short")
      BY <2>1, <1>2, <1>3 DEF ReadSOD
    <3> QED BY <3>1
  <2>2. CASE ~(\/ rest = <<>>
               \/ ~m_decoder.last_tile_part /\ Head(rest).is # "data"
               \/ checks /\ SearchFails(t, stream))
    <3>1. CASE decoder.can_decode
      BY <3>1, <2>2, <1>2, <1>3, <1>4, <1>5 DEF ReadSOD, WithData, Go
    <3>2. CASE ~decoder.can_decode
      <4>1. CASE corrected
        <5>1. GoOnReading(stream, decoder, t, Corrected(data))
          BY <4>1, <3>2, <2>2, <1>2, <1>3, <1>4, <1>5 DEF ReadSOD, WithData
        <5> QED BY <5>1, <4>1, <3>2, <2>2, <1>2
      <4>2. CASE ~corrected
        <5>1. GoOnReading(stream, decoder, t, data)
          BY <4>2, <3>2, <2>2, <1>2, <1>3, <1>4, <1>5 DEF ReadSOD, WithData
        <5> QED BY <5>1, <4>2, <3>2, <2>2, <1>2
      <4> QED BY <4>1, <4>2
    <3> QED BY <3>1, <3>2
  <2> QED BY <2>1, <2>2
<1>7. /\ call.pc \in {"tile_part", "loop"} /\ m_private_image /\ t \in Tile /\ tcps[t].part >= 0
      /\ call.pc = "loop" => ~m_decoder.can_decode /\ call.marker = "SOD"
      /\ call.pc = "tile_part" => ~m_decoder.skip_data /\ m_decoder.state = {"TPH"}
  BY <1>1, <1>2 DEF ReadSOD, InLoop, CallInv, StateInv, CompleteInv
<1>8. CASE Fail("short")
  BY <1>7, <1>8, FailStep DEF Results
<1> SUFFICES ASSUME rest # <<>>, m_decoder.last_tile_part \/ Head(rest).is = "data",
                    ~Fail("short")
             PROVE  IInv'
  BY <1>6, <1>8
<1>9. /\ StreamOK(stream, codestream)
      /\ stream # <<>> => Head(stream).is # "SOD"
      /\ m_decoder.last_tile_part => Len(stream) = 1 /\ Head(stream).is \in {"EOC", "unknown"}
  BY <1>1, <1>2, BehindData
<1>10. /\ decoder \in DecoderSet(Tile) /\ decoder.state = {"TPHSOT"}
       /\ decoder.can_decode = (m_decoder.can_decode /\ ~corrected)
       /\ decoder.last_tile_part = m_decoder.last_tile_part
       /\ decoder.tile_ind_to_dec = m_decoder.tile_ind_to_dec
       /\ decoder.area = m_decoder.area
       /\ decoder.correction_checked = (m_decoder.correction_checked \/ m_decoder.can_decode)
  <2>1. PICK noted, complete, raised :
          /\ noted = (m_decoder.correction_checked \/ m_decoder.can_decode)
          /\ complete = (m_decoder.can_decode /\ ~corrected)
          /\ raised = IF corrected THEN 1 ELSE m_decoder.correction
    OBVIOUS
  <2>2. decoder = AfterReading(m_decoder, noted, complete, raised)
    BY <2>1, <1>5 DEF AfterReading
  <2>3. m_decoder \in DecoderSet(Tile)
    BY <1>1, DecoderTyped
  <2>4. noted \in BOOLEAN /\ complete \in BOOLEAN
    BY <1>1, <2>1, DecoderFields
  <2>5. raised \in {0, 1}
    BY <2>1, <2>3 DEF DecoderSet
  <2>6. /\ decoder \in DecoderSet(Tile) /\ decoder.state = {"TPHSOT"}
        /\ decoder.can_decode = complete
        /\ decoder.last_tile_part = m_decoder.last_tile_part
        /\ decoder.tile_ind_to_dec = m_decoder.tile_ind_to_dec
        /\ decoder.area = m_decoder.area
        /\ decoder.correction_checked = noted
    <3>1. PICK d, T : d = m_decoder /\ T = Tile /\ d \in DecoderSet(T)
      BY <2>3
    <3>2. /\ AfterReading(d, noted, complete, raised) \in DecoderSet(T)
          /\ AfterReading(d, noted, complete, raised).state = {"TPHSOT"}
          /\ AfterReading(d, noted, complete, raised).can_decode = complete
          /\ AfterReading(d, noted, complete, raised).last_tile_part = d.last_tile_part
          /\ AfterReading(d, noted, complete, raised).tile_ind_to_dec = d.tile_ind_to_dec
          /\ AfterReading(d, noted, complete, raised).area = d.area
          /\ AfterReading(d, noted, complete, raised).correction_checked = noted
      BY <3>1, <2>4, <2>5 DEF AfterReading, DecoderSet, States
    <3>3. /\ decoder = AfterReading(d, noted, complete, raised)
          /\ d = m_decoder /\ T = Tile
      BY <2>2, <3>1
    <3> QED BY ONLY <3>2, <3>3
  <2> QED BY <2>6, <2>1
<1>11. /\ data \in [Tile -> Tiles]
       /\ data[t].part = tcps[t].part /\ data[t].nb = tcps[t].nb
       /\ data[t].data = Append(tcps[t].data, Piece(tcps[t].part, DataReadIs))
       /\ \A u \in Tile : u # t => data[u] = tcps[u]
  <2>1. Piece(tcps[t].part, DataReadIs) \in Pieces
    BY <1>1, <1>7, TileFields DEF Piece, Pieces, DataReadIs
  <2>2. tcps[t].data \in Seq(Pieces) /\ tcps \in [Tile -> Tiles]
    BY <1>1, <1>7, TileFields
  <2>3. Append(tcps[t].data, Piece(tcps[t].part, DataReadIs)) \in Seq(Pieces)
    BY <2>1, <2>2
  <2>4. PICK d : d = Append(tcps[t].data, Piece(tcps[t].part, DataReadIs))
    OBVIOUS
  <2>5. data = WithData(tcps, t, d) /\ d \in Seq(Pieces)
    BY <2>3, <2>4, <1>2
  <2>6. t \in Tile
    BY <1>7
  <2>7. /\ data \in [Tile -> Tiles]
        /\ data[t].part = tcps[t].part /\ data[t].nb = tcps[t].nb /\ data[t].data = d
        /\ \A u \in Tile : u # t => data[u] = tcps[u]
    BY <2>2, <2>5, <2>6, TileDataSet
  <2> QED BY <2>7, <2>4
<1>12. \A u \in Tile : data[u].part >= -1
  BY <1>11, <1>1, TileFields
<1>13. Sound => call.pc = "tile_part" /\ m_decoder.state = {"TPH"} /\ ~Skips(t)
  BY <1>1, <1>2, <1>7 DEF LastInv, CompleteInv
<1>14. Sound => \A u \in Tile : ~Skips(u) => DataSoFar(data[u], m_decoder)
  <2> SUFFICES ASSUME Sound, NEW u \in Tile, ~Skips(u)
               PROVE  DataSoFar(data[u], m_decoder)
    OBVIOUS
  <2>1. CASE u = t
    <3>1. data[t] \in Tiles
      BY <1>7, <1>11
    <3> QED BY <2>1, <3>1, <1>2, <1>7, <1>11, <1>13, AppendedNext
  <2>2. CASE u # t
    BY <2>2, <1>2, <1>7, <1>11, <1>13, CollectedBefore
  <2> QED BY <2>1, <2>2
<1>15. Sound /\ call.is = "get_tile" => \A u \in Tile : u # call.tile => data[u].data = None
  <2> SUFFICES ASSUME Sound, call.is = "get_tile", NEW u \in Tile, u # call.tile
               PROVE  data[u].data = None
    OBVIOUS
  <2>1. t = call.tile
    BY <1>1, <1>13, CodestreamFields, CallFields DEF CallInv, Skips
  <2>2. tcps[u].data = None
    BY <1>1, <1>7 DEF OthersInv
  <2> QED BY <2>1, <2>2, <1>11
<1>16. CASE decoder.can_decode
  <2>1. /\ rest' = stream /\ m_decoder' = decoder /\ tcps' = data
        /\ call' = [call EXCEPT !.pc = "after_loop"]
        /\ UNCHANGED <<codestream, m_private_image, m_current_tile_number, tile_index, calls,
                        image>>
    BY <1>6, <1>16
  <2>2. /\ call' \in Calls /\ call'.pc = "after_loop" /\ call'.marker = call.marker
        /\ call'.is = call.is /\ call'.tile = call.tile /\ call'.area = call.area
    BY <1>1, <2>1 DEF TypeInv, Calls, PCs
  <2>3. /\ m_decoder.can_decode /\ ~corrected
        /\ m_decoder'.correction_checked /\ m_decoder'.can_decode
        /\ m_decoder'.state = {"TPHSOT"}
        /\ m_decoder'.area = m_decoder.area
        /\ m_decoder'.tile_ind_to_dec = m_decoder.tile_ind_to_dec
        /\ m_decoder'.last_tile_part = m_decoder.last_tile_part
    BY <2>1, <1>10, <1>16
  <2>4. TypeInv'
    BY <1>1, <1>9, <1>10, <1>11, <1>12, <2>1, <2>2, TypeNow, TypeKept
  <2>5. FreshInv'
    BY <1>1, <1>7, <2>1, <2>3, FlagsDiffer, FreshKept
  <2>6. CallInv'
    BY <1>1, <1>7, <2>1, <2>2, <2>3 DEF CallInv, Tile
  <2>7. StateInv'
    BY <2>2, <2>3 DEF StateInv, Between
  <2>8. CompleteInv'
    <3>1. call.marker = "SOD" /\ tcps[t].nb = tcps[t].part + 1
      BY <1>1, <1>2, <1>7, <2>3 DEF CompleteInv
    <3>2. m_current_tile_number' = t /\ Tile' = Tile
      BY <1>2, <2>1 DEF Tile
    <3>3. tcps'[t].nb = tcps'[t].part + 1 /\ tcps'[t].part >= 0
      BY <3>1, <1>7, <1>11, <2>1
    <3> QED BY <3>1, <3>2, <3>3, <1>7, <2>2, <2>3 DEF CompleteInv
  <2>9. Sound' = Sound /\ Tile' = Tile /\ \A u : Skips(u)' = Skips(u)
    BY <2>1, <2>3 DEF Sound, Open, Tile, Skips
  <2>10. LastInv'
    <3>1. m_decoder.last_tile_part => Open(codestream)
      BY <1>1, <1>7 DEF LastInv
    <3>2. m_decoder.last_tile_part => AtMostOneToken'
      <4>1. stream \in Seq(TokenSet)
        BY <1>9 DEF StreamOK
      <4>2. m_decoder.last_tile_part => Len(rest') = 1 /\ rest'[1].is \in {"EOC", "unknown"}
        BY <4>1, <1>9, <2>1
      <4> QED BY <4>2 DEF AtMostOneToken
    <3> QED BY <3>1, <3>2, <2>1, <2>2, <2>3 DEF LastInv, Between, Open
  <2>11. DataInv'
    <3>1. ASSUME NEW u \in Tile, DataSoFar(data[u], m_decoder)
          PROVE  DataSoFar(tcps'[u], m_decoder')
      BY <3>1, <2>1, <2>3 DEF DataSoFar
    <3> QED BY <3>1, <1>14, <2>1, <2>2, <2>9, DataInvFrom
  <2>12. OthersInv'
    BY <1>15, <2>1, <2>2, <2>9 DEF OthersInv
  <2>13. DataInOrder'
    BY <1>1, <2>1, <2>2, <2>4, ImageSame
  <2> QED BY <2>4, <2>5, <2>6, <2>7, <2>8, <2>10, <2>11, <2>12, <2>13 DEF IInv
<1>17. CASE ~decoder.can_decode
  <2>1. PICK read : /\ read = IF corrected THEN Corrected(data) ELSE data
                    /\ GoOnReading(stream, decoder, t, read)
    BY <1>6, <1>17
  <2>2. /\ read \in [Tile -> Tiles]
        /\ \A u \in Tile : read[u].part = data[u].part /\ read[u].data = data[u].data
    BY <2>1, <1>11, CorrectedTiles
  <2>3. (\A u \in Tile : read[u].part >= -1) /\ read[t].part >= 0
    BY <2>2, <1>7, <1>11, <1>12
  <2>4. Sound => \A u \in Tile : ~Skips(u) => DataSoFar(read[u], decoder)
    <3> SUFFICES ASSUME Sound, NEW u \in Tile, ~Skips(u)
                 PROVE  DataSoFar(read[u], decoder)
      OBVIOUS
    <3>1. DataSoFar(data[u], m_decoder)
      BY <1>14
    <3>2. CASE corrected
      <4>1. ~m_decoder.correction_checked
        BY <3>2, <1>3, <1>4
      <4> QED BY <4>1, <3>1, <2>2, <1>10 DEF DataSoFar
    <3>3. CASE ~corrected
      <4>1. read = data
        BY <3>3, <2>1
      <4> QED BY <4>1, <3>1, <1>10 DEF DataSoFar
    <3> QED BY <3>2, <3>3
  <2>5. Sound /\ call.is = "get_tile" => \A u \in Tile : u # call.tile => read[u].data = None
    BY <1>15, <2>2
  <2> QED BY <1>2, <1>7, <1>9, <1>10, <1>17, <2>1, <2>2, <2>3, <2>4, <2>5, GoOnStep, SMTT(60)
<1> QED BY <1>16, <1>17

-----------------------------------------------------------------------------
(* The theorems                                                            *)

(* The invariant holds of a new decoder.                                   *)
LEMMA InitInv == ASSUME Init PROVE IInv
<1>1. codestream \in Codestreams /\ codestream.tiles \in Nat \ {0}
  BY J2KDecoderAssumption DEF Init
<1>2. 0 \in Tile /\ 0 \in 0..codestream.tiles
  BY <1>1 DEF Tile
<1>3. StreamOK(rest, codestream)
  BY <1>1, AvailableOK DEF Init
<1>4. call = Local("idle") /\ call \in Calls /\ call.pc = "idle" /\ call.is = "none"
  BY <1>2 DEF Init, Local, Calls, PCs, Markers, Results
<1>5. /\ m_decoder.state = {} /\ m_decoder.can_decode = FALSE
      /\ m_decoder.last_tile_part = FALSE /\ m_decoder.tile_ind_to_dec = -1
      /\ m_decoder.area = Tile /\ m_decoder.correction_checked = FALSE
      /\ m_private_image = FALSE /\ calls = 0
  BY DEF Init
<1>6. TypeInv
  <2>1. m_decoder \in DecoderSet(Tile)
    BY DEF Init, DecoderSet
  <2>2. tcps \in [Tile -> Tiles] /\ \A t \in Tile : tcps[t].part >= -1
    BY DEF Init, Tiles, None
  <2>3. image \in [Tile -> Seq(Pieces)]
    BY DEF Init, None
  <2>4. tile_index \in [Tile -> Indices]
    BY DEF Init, Indices
  <2>5. m_current_tile_number \in 0..codestream.tiles
    BY <1>2 DEF Init
  <2> QED BY <1>1, <1>3, <1>4, <1>5, <2>1, <2>2, <2>3, <2>4, <2>5
          DEF TypeInv, TypeOK, DecoderSet, States, Tiles, Indices
<1>7. \A t \in Tile : tcps[t].part = -1 /\ tcps[t].data = None /\ image[t] = None
  BY DEF Init
<1>8. FreshInv /\ CallInv /\ StateInv /\ CompleteInv /\ LastInv /\ DataInv /\ OthersInv
  BY <1>4, <1>5, <1>7
  DEF FreshInv, CallInv, StateInv, CompleteInv, LastInv, DataInv, OthersInv
<1>9. DataInOrder
  BY <1>6, <1>7 DEF DataInOrder, TypeInv, InOrder, None
<1> QED BY <1>6, <1>8, <1>9 DEF IInv

(* The invariant does not depend on anything but the variables.            *)
LEMMA StutterStep == ASSUME IInv, UNCHANGED vars PROVE IInv'
<1>1. /\ TypeInv /\ FreshInv /\ CallInv /\ StateInv /\ CompleteInv /\ LastInv /\ DataInv
      /\ OthersInv /\ DataInOrder
  BY DEF IInv
<1>2. /\ UNCHANGED <<codestream, rest, m_private_image, m_decoder, m_current_tile_number>>
      /\ UNCHANGED <<tcps, tile_index, call, calls, image>>
  BY DEF vars
<1>3. Tile' = Tile /\ Sound' = Sound /\ \A u : Skips(u)' = Skips(u)
  BY <1>2 DEF Tile, Sound, Open, Skips
<1>4. TypeInv'
  BY <1>1, <1>2, TypeNow, TypeKept
<1>5. FreshInv'
  BY <1>1, <1>2, <1>3 DEF FreshInv
<1>6. CallInv'
  BY <1>1, <1>2, <1>3 DEF CallInv
<1>7. StateInv'
  BY <1>1, <1>2 DEF StateInv
<1>8. CompleteInv'
  BY <1>1, <1>2, <1>3 DEF CompleteInv, KeepsData, AtStreamEnd
<1>9. LastInv'
  BY <1>1, <1>2, <1>3 DEF LastInv, Open, AtStreamEnd, AtMostOneToken
<1>10. DataInv'
  BY <1>1, <1>2, <1>3 DEF DataInv, InOrderSoFar, Collected, Closed, AtStreamEnd
<1>11. OthersInv'
  BY <1>1, <1>2, <1>3 DEF OthersInv
<1>12. DataInOrder'
  BY <1>1, <1>2, <1>3, <1>4 DEF DataInOrder, PassesRightly, Open, TypeInv
<1> QED BY <1>4, <1>5, <1>6, <1>7, <1>8, <1>9, <1>10, <1>11, <1>12 DEF IInv

(* Every step keeps the invariant.                                         *)
LEMMA NextStep == ASSUME IInv, Next PROVE IInv'
<1>1. CASE Progress
  BY <1>1, DecodeTilesStep, BeginTileHeaderStep, NoMoreTilePartsStep, RefuseTilePartStep,
     ReadSOTStep, SkipTilePartStep, ReadSODStep, AfterLoopStep, DecodeTileFailsStep,
     DecodeTileStep, NoMoreTilesStep DEF Progress
<1>2. CASE Program
  <2>1. CASE ReadHeader \/ Decode \/ ReadTileHeader
    BY <2>1, ReadHeaderStep, DecodeStep, ReadTileHeaderStep
  <2>2. CASE \E t \in Tile : GetTile(t)
    BY <2>2, GetTileStep
  <2>3. CASE \E area \in Areas, whole \in BOOLEAN : SetDecodeArea(area, whole)
    BY <2>3, SetDecodeAreaStep
  <2> QED BY <1>2, <2>1, <2>2, <2>3 DEF Program
<1> QED BY <1>1, <1>2 DEF Next

(* IInv holds of every state that can be reached: the order in which the   *)
(* tile-parts come, where the codestream ends, and the calls the program   *)
(* makes are any.                                                          *)
THEOREM Invariance == Spec => []IInv
<1>1. Init => IInv
  BY InitInv
<1>2. IInv /\ [Next]_vars => IInv'
  BY NextStep, StutterStep
<1> QED BY <1>1, <1>2, PTL DEF Spec

(* Whatever is missing from a codestream and wherever a tile-part has come *)
(* twice, what a tile is decoded from is its tile-parts in order, from the *)
(* first on, each once, and all but the last of them whole.                *)
THEOREM DataCorrect == Spec => []DataInOrder
<1>1. IInv => DataInOrder
  BY DEF IInv
<1> QED BY <1>1, Invariance, PTL
-----------------------------------------------------------------------------
(* The walk over a codestream that is whole                                *)
(*                                                                         *)
(* At each step some first n tile-parts have been read; what has been      *)
(* collected, what has been decoded, the state, the marker read last and   *)
(* what is left of the stream all follow from n.                           *)

\* The numbers of tile-parts: of the codestream, of a tile, of a tile among
\* the first n.
LastPart == Len(codestream.parts)
Count(t) == Cardinality(PartsOf(codestream, t))
ReadOf(t, n) == Cardinality({m \in PartsOf(codestream, t) : m <= n})

\* What is left of the codestream from its token j on.
From(j) == SubSeq(Available(codestream), j, Len(Available(codestream)))

\* The calls WholeCodestreamsDecode speaks of.
Low == CountsOneTooFew(codestream)
Promised ==
    /\ Conforms(codestream) \/ (Low /\ call.area = Tile)
    /\ PassesRightly
    /\ call.is = "get_tile" => Counted(codestream)

\* Nothing has been noted before the first call that decodes.
StartInv == calls = 0 =>
    /\ rest = From(IF m_private_image THEN 3 ELSE 1)
    /\ m_decoder.correction = 0 /\ m_decoder.last_sot_read_pos = 0
    /\ \A t \in Tile : tcps[t].nb = 0 /\ tile_index[t].nb_tps = 0 /\ ~tile_index[t].there

\* The stream, the marker read last and the state, once n tile-parts are read.
PlaceInv(n) ==
    /\ call.pc \in Between =>
          /\ rest = From(4 * n + 3)
          /\ m_decoder.state = IF n < LastPart THEN {"TPHSOT"} ELSE {"EOC"}
          /\ call.is = "decode" /\ codestream.tiles = 1 /\ call.pc # "read_tile_header" =>
                n \in {0, LastPart}
    /\ call.pc = "loop" =>
          /\ rest = From(4 * n + 3)
          /\ call.marker = IF n < LastPart THEN "SOT" ELSE "EOC"
          /\ n < LastPart => m_decoder.state = {"TPHSOT"}
    /\ call.pc = "tile_part" =>
          /\ n > 0 /\ codestream.parts[n].tile = m_current_tile_number
          /\ rest = From(IF m_decoder.skip_data THEN 4 * n ELSE 4 * n + 1)
    /\ call.pc = "after_loop" => m_decoder.can_decode
    /\ call.pc = "no_more" => n = LastPart /\ m_decoder.state = {"EOC"}
                             /\ m_current_tile_number = codestream.tiles
    /\ call.pc \in {"after_loop", "decode_tile"} =>
          /\ m_current_tile_number \in call.area /\ tcps[m_current_tile_number].data # None
          /\ m_decoder.can_decode =>
                rest = From(4 * n + 2) /\ m_decoder.state \in {{"TPHSOT"}, {"TPHSOT", "DATA"}}
          /\ ~m_decoder.can_decode =>
                n = LastPart /\ rest = <<>> /\ m_decoder.state = {"EOC", "DATA"}

\* The number of tile-parts of t, as the decoder counts them.
Number(t) == IF Low /\ m_decoder.correction = 0 THEN Count(t) - 1 ELSE Count(t)

NumbersInv ==
    /\ m_decoder.correction = IF Low /\ m_decoder.correction_checked THEN 1 ELSE 0
    /\ \A t \in Tile : tcps[t].nb \in {0, Number(t)}

\* A false number is repaired before a tile-part is refused for it.
RepairInv(n) ==
    /\ Low /\ m_decoder.correction = 0 => \A t \in Tile :
          /\ ReadOf(t, n) <= Number(t)
          /\ ReadOf(t, n) = Number(t) => m_decoder.can_decode /\ m_current_tile_number = t
    /\ m_decoder.last_tile_part => n = LastPart

\* A tile that is wanted has been collected up to tile-part n, or is decoded.
TileInv(t, n) ==
    /\ t \in call.area \/ call.is # "get_tile" => tcps[t].part = ReadOf(t, n) - 1
    /\ t \notin call.area => tcps[t].data = None /\ (call.is = "decode" => image[t] = None)
    /\ t \in call.area =>
         /\ \A i \in 1..Len(tcps[t].data) : tcps[t].data[i].is = "whole"
         /\ \/ /\ Len(tcps[t].data) = Collected(t)
               /\ image[t] = None \/ (call.pc = "idle" /\ call.is = "decode")
            \/ /\ tcps[t].data = None /\ Complete(t) /\ ReadOf(t, n) = Count(t)
               /\ call.is = "tile" \/ (call.is = "decode" /\ codestream.tiles > 1)
               /\ ~(call.pc = "tile_part" /\ m_current_tile_number = t)

\* At the end of the codestream the tiles are decoded in ascending order.
EndInv ==
    m_decoder.state \in {{"EOC"}, {"EOC", "DATA"}} =>
        \A t \in Tile : t < m_current_tile_number => tcps[t].data = None

Decoded == {t \in Tile : image[t] # None}

\* The index knows the tiles of the first n tile-parts.
IndexInv(n) ==
    /\ n \in 0..LastPart
    /\ \A t \in Tile :
        /\ tile_index[t].there <=> ReadOf(t, n) > 0
        /\ tile_index[t].there <=> tile_index[t].nb_tps # 0
        /\ tile_index[t].there =>
              /\ tile_index[t].start \in PartsOf(codestream, t)
              /\ ReadOf(t, tile_index[t].start - 1) = 0

WalkInv(n) ==
    /\ PlaceInv(n) /\ NumbersInv /\ RepairInv(n) /\ EndInv
    /\ \A t \in Tile : TileInv(t, n)
    /\ call.is = "decode" /\ call.pc # "idle" => call.nr_tiles = Cardinality(Decoded)
    /\ call.is = "get_tile" =>
          IndexInv(m_decoder.last_sot_read_pos) /\ n <= m_decoder.last_sot_read_pos

\* Between two calls that ask for single tiles.
BetweenInv ==
    /\ NumbersInv /\ IndexInv(m_decoder.last_sot_read_pos)
    /\ m_decoder.last_sot_read_pos > 0 /\ rest = From(3)
    /\ \/ m_decoder.state = {"TPHSOT"}
       \/ m_decoder.state = {"EOC"} /\ m_decoder.last_sot_read_pos = LastPart

\* Whether the program may go on with the decoder.
GoesOn ==
    \/ call.pc # "idle"
    \/ call.is = "tile" /\ call.result = "ok"
    \/ call.is = "decode" /\ codestream.tiles = 1

WholeInv == m_private_image /\ calls > 0 /\ Promised =>
    /\ GoesOn => \E n \in 0..LastPart : WalkInv(n)
    /\ call.pc = "idle" /\ call.is = "get_tile" => BetweenInv

WInv == m_decoder.area # {} /\ StartInv /\ WholeInv /\ WholeCodestreamsDecode

-----------------------------------------------------------------------------
(* Whole codestreams                                                       *)

(* What each token of a codestream that is whole is.                       *)
LEMMA TokensAre ==
    ASSUME TypeInv, Whole(codestream)
    PROVE  LET s == Tokens(codestream)
           IN  /\ s \in Seq(TokenSet) /\ Len(s) = 4 * LastPart + 2 /\ LastPart \in Nat
               /\ Available(codestream) = s
               /\ s[1].is = "header" /\ s[4 * LastPart + 2].is = "EOC"
               /\ \A n \in 0..(LastPart - 1) :
                     /\ s[4 * n + 2].is = "SOT" /\ s[4 * n + 3] = Token("segment", n + 1)
                     /\ s[4 * n + 4].is = "SOD" /\ s[4 * n + 5].is = "data"
<1> DEFINE c == codestream
           s == Tokens(c)
           L == LastPart
<1>1. c \in Codestreams /\ c.eoc /\ c.end = 4 * L + 2 /\ ~c.torn /\ L \in Nat
  BY CodestreamFields DEF Whole, LastPart
<1>2. s = [j \in 1..(4 * L + 2) |->
              IF j = 1 THEN Token("header", 0)
              ELSE IF j = 4 * L + 2 THEN Token("EOC", 0)
              ELSE Token(Kinds[1 + ((j - 2) % 4)], 1 + ((j - 2) \div 4))]
  BY <1>1 DEF Tokens, LastPart
<1>3. s \in Seq(TokenSet)
  BY <1>1, CodestreamOK DEF StreamOK
<1>4. Len(s) = 4 * L + 2
  <2>1. DOMAIN s = 1..(4 * L + 2)
    BY <1>2
  <2> HIDE DEF s
  <2>2. 1..Len(s) = 1..(4 * L + 2)
    BY <1>3, <2>1
  <2> QED BY <2>2, <1>1, <1>3
<1>5. Available(c) = s
  <2>1. Available(c) = SubSeq(s, 1, 4 * L + 2) \o <<>>
    BY <1>1 DEF Available
  <2> HIDE DEF s
  <2>2. SubSeq(s, 1, Len(s)) = s
    BY <1>3, SubSeqFull
  <2>3. s \o <<>> = s
    BY <1>3, ConcatEmptySeq
  <2> QED BY <1>4, <2>1, <2>2, <2>3
<1>6. s[1].is = "header" /\ s[4 * L + 2].is = "EOC"
  <2>1. 1 \in 1..(4 * L + 2) /\ 4 * L + 2 \in 1..(4 * L + 2) /\ 4 * L + 2 # 1
    BY <1>1
  <2>2. s[1] = Token("header", 0) /\ s[4 * L + 2] = Token("EOC", 0)
    BY <1>2, <2>1
  <2> QED BY <2>2 DEF Token
<1>7. /\ Kinds[1] = "SOT" /\ Kinds[2] = "segment" /\ Kinds[3] = "SOD" /\ Kinds[4] = "data"
  BY DEF Kinds
<1>8. ASSUME NEW n \in 0..(L - 1), NEW i \in 0..3
      PROVE  s[4 * n + 2 + i] = Token(Kinds[1 + i], n + 1)
  <2>1. /\ 4 * n + 2 + i \in 1..(4 * L + 2) /\ 4 * n + 2 + i # 1 /\ 4 * n + 2 + i # 4 * L + 2
        /\ 4 * n + 2 + i - 2 = 4 * n + i /\ n \in Nat /\ i \in {0, 1, 2, 3}
    BY <1>1
  <2>2. (4 * n + i) % 4 = i /\ (4 * n + i) \div 4 = n
    BY <2>1
  <2>3. s[4 * n + 2 + i] = Token(Kinds[1 + i], 1 + n)
    BY <1>2, <2>1, <2>2
  <2> QED BY <2>1, <2>3
<1>9. ASSUME NEW n \in 0..(L - 1)
      PROVE  /\ s[4 * n + 2].is = "SOT" /\ s[4 * n + 3] = Token("segment", n + 1)
             /\ s[4 * n + 4].is = "SOD" /\ s[4 * n + 5].is = "data"
  <2>1. n \in Nat /\ 0 \in 0..3 /\ 1 \in 0..3 /\ 2 \in 0..3 /\ 3 \in 0..3
    BY <1>1
  <2>2. /\ 4 * n + 2 + 0 = 4 * n + 2 /\ 4 * n + 2 + 1 = 4 * n + 3
        /\ 4 * n + 2 + 2 = 4 * n + 4 /\ 4 * n + 2 + 3 = 4 * n + 5
        /\ 1 + 0 = 1 /\ 1 + 1 = 2 /\ 1 + 2 = 3 /\ 1 + 3 = 4
    BY <2>1
  <2> HIDE DEF s
  <2>3. /\ s[4 * n + 2] = Token(Kinds[1], n + 1) /\ s[4 * n + 3] = Token(Kinds[2], n + 1)
        /\ s[4 * n + 4] = Token(Kinds[3], n + 1) /\ s[4 * n + 5] = Token(Kinds[4], n + 1)
    BY <1>8, <2>1, <2>2
  <2> QED BY <2>3, <1>7 DEF Token
<1> HIDE DEF s
<1>10. QED BY <1>1, <1>3, <1>4, <1>5, <1>6, <1>9 DEF s

(* The rest of such a codestream from its token j on.                      *)
LEMMA FromAre ==
    ASSUME TypeInv, Whole(codestream), NEW j \in 1..(4 * LastPart + 3)
    PROVE  LET s == Tokens(codestream)
               r == From(j)
           IN  /\ r \in Seq(TokenSet) /\ Len(r) = 4 * LastPart + 3 - j
               /\ \A i \in 1..Len(r) : r[i] = s[j + i - 1]
<1> DEFINE s == Tokens(codestream)
<1>1. s \in Seq(TokenSet) /\ Len(s) = 4 * LastPart + 2 /\ Available(codestream) = s
      /\ LastPart \in Nat
  BY TokensAre
<1> HIDE DEF s
<1>2. From(j) = SubSeq(s, j, Len(s))
  BY <1>1 DEF From
<1>3. j \in Int /\ Len(s) \in Int /\ \A i \in j..Len(s) : s[i] \in TokenSet
  BY <1>1
<1>4. /\ From(j) \in Seq(TokenSet)
      /\ Len(From(j)) = IF j <= Len(s) THEN Len(s) - j + 1 ELSE 0
      /\ \A i \in 1..(Len(s) - j + 1) : From(j)[i] = s[j + i - 1]
  BY <1>2, <1>3, SubSeqProperties
<1>5. Len(From(j)) = Len(s) - j + 1
  BY <1>1, <1>4
<1> QED BY <1>1, <1>4, <1>5 DEF s

(* Going on by a token, or by two.                                         *)
LEMMA FromOn ==
    ASSUME TypeInv, Whole(codestream), NEW j \in 1..(4 * LastPart + 2)
    PROVE  /\ From(j) # <<>> /\ Head(From(j)) = Tokens(codestream)[j]
           /\ From(j)[1] = Tokens(codestream)[j]
           /\ Tail(From(j)) = From(j + 1)
           /\ j + 1 <= 4 * LastPart + 2 => /\ SubSeq(From(j), 3, Len(From(j))) = From(j + 2)
                                           /\ Len(From(j)) >= 2
                                           /\ From(j)[2] = Tokens(codestream)[j + 1]
<1> DEFINE s == Tokens(codestream)
           r == From(j)
<1>1. LastPart \in Nat /\ j \in Nat /\ j \in 1..(4 * LastPart + 3)
  BY TokensAre
<1>2. r \in Seq(TokenSet) /\ Len(r) = 4 * LastPart + 3 - j /\ \A i \in 1..Len(r) : r[i] = s[j + i - 1]
  <2>1. j \in 1..(4 * LastPart + 3)
    BY <1>1
  <2> QED BY <2>1, FromAre
<1>3. j + 1 \in 1..(4 * LastPart + 3)
  BY <1>1
<1>4. From(j + 1) \in Seq(TokenSet) /\ Len(From(j + 1)) = 4 * LastPart + 3 - (j + 1)
      /\ \A i \in 1..Len(From(j + 1)) : From(j + 1)[i] = s[j + 1 + i - 1]
  BY <1>3, FromAre
<1> HIDE DEF s, r
<1>5. r # <<>> /\ Head(r) = r[1] /\ r[1] = s[j]
  BY <1>1, <1>2
<1>6. Tail(r) = From(j + 1)
  <2>1. Tail(r) \in Seq(TokenSet) /\ Len(Tail(r)) = Len(r) - 1
        /\ \A i \in 1..Len(Tail(r)) : Tail(r)[i] = r[i + 1]
    BY <1>2, <1>5, HeadTailProperties
  <2>2. Len(Tail(r)) = Len(From(j + 1))
    BY <1>1, <1>2, <1>4, <2>1
  <2>3. ASSUME NEW i \in 1..Len(Tail(r)) PROVE Tail(r)[i] = From(j + 1)[i]
    <3>1. i \in Nat /\ i \in 1..Len(From(j + 1)) /\ i + 1 \in 1..Len(r)
      BY <1>1, <1>2, <2>1, <2>2
    <3>2. Tail(r)[i] = s[j + (i + 1) - 1] /\ From(j + 1)[i] = s[j + 1 + i - 1]
      BY <1>2, <1>4, <2>1, <3>1
    <3> QED BY <1>1, <3>1, <3>2
  <2> QED BY <1>4, <2>1, <2>2, <2>3, SeqEqual
<1>7. ASSUME j + 1 <= 4 * LastPart + 2
      PROVE  SubSeq(r, 3, Len(r)) = From(j + 2) /\ Len(r) >= 2 /\ r[2] = s[j + 1]
  <2>1. Len(r) >= 2 /\ 2 \in 1..Len(r)
    BY <1>1, <1>2, <1>7
  <2>0. PICK k \in 1..(4 * LastPart + 3) : k = j + 2
    BY <1>1, <1>7
  <2>2. From(j + 2) \in Seq(TokenSet) /\ Len(From(j + 2)) = 4 * LastPart + 3 - (j + 2)
        /\ \A i \in 1..Len(From(j + 2)) : From(j + 2)[i] = s[j + 2 + i - 1]
    <3>1. From(k) \in Seq(TokenSet) /\ Len(From(k)) = 4 * LastPart + 3 - k
          /\ \A i \in 1..Len(From(k)) : From(k)[i] = s[k + i - 1]
      BY <2>0, FromAre DEF s
    <3> QED BY <2>0, <3>1
  <2>3. 3 \in Int /\ Len(r) \in Int /\ \A i \in 3..Len(r) : r[i] \in TokenSet
    BY <1>2
  <2> DEFINE q == SubSeq(r, 3, Len(r))
  <2>4. /\ q \in Seq(TokenSet) /\ Len(q) = IF 3 <= Len(r) THEN Len(r) - 3 + 1 ELSE 0
        /\ \A i \in 1..(Len(r) - 3 + 1) : q[i] = r[3 + i - 1]
    BY <2>3, SubSeqProperties
  <2> HIDE DEF q
  <2>5. Len(q) = Len(From(j + 2)) /\ Len(q) = Len(r) - 3 + 1
    BY <1>1, <1>2, <2>1, <2>2, <2>4
  <2>6. ASSUME NEW i \in 1..Len(q) PROVE q[i] = From(j + 2)[i]
    <3>1. i \in Nat /\ i \in 1..Len(From(j + 2)) /\ 3 + i - 1 \in 1..Len(r)
      BY <1>1, <1>2, <2>1, <2>5
    <3>2. q[i] = s[j + (3 + i - 1) - 1] /\ From(j + 2)[i] = s[j + 2 + i - 1]
      BY <1>2, <2>2, <2>4, <2>5, <3>1
    <3> QED BY <1>1, <3>1, <3>2
  <2>7. q = From(j + 2)
    BY <2>2, <2>4, <2>5, <2>6, SeqEqual
  <2>8. r[2] = s[j + 1]
    BY <1>1, <1>2, <2>1
  <2> QED BY <2>1, <2>7, <2>8 DEF q
<1> QED BY <1>5, <1>6, <1>7 DEF r, s

-----------------------------------------------------------------------------
(* Counts of tile-parts                                                    *)

UpTo(P, n) == {m \in P : m <= n}

(* How many of the numbers in P are at most n.                             *)
LEMMA UpToCounts ==
    ASSUME NEW L \in Nat, NEW P \in SUBSET (1..L), NEW n \in Nat
    PROVE  /\ IsFiniteSet(P) /\ Cardinality(P) \in Nat
           /\ Cardinality(UpTo(P, n)) \in Nat /\ Cardinality(UpTo(P, n)) <= Cardinality(P)
           /\ Cardinality(UpTo(P, 0)) = 0 /\ Cardinality(UpTo(P, L)) = Cardinality(P)
           /\ Cardinality(UpTo(P, n + 1)) =
                 Cardinality(UpTo(P, n)) + IF n + 1 \in P THEN 1 ELSE 0
           /\ Cardinality(UpTo(P, n)) = 0 => \A m \in P : m > n
           /\ Cardinality(UpTo(P, n)) = Cardinality(P) => \A m \in P : m <= n
           /\ \A k \in Nat : k <= n => Cardinality(UpTo(P, k)) <= Cardinality(UpTo(P, n))
<1>0. \A m \in P : m \in Nat /\ 1 <= m /\ m <= L
  OBVIOUS
<1>1. IsFiniteSet(P) /\ Cardinality(P) \in Nat
  <2>1. IsFiniteSet(1..L)
    BY FS_Interval
  <2> QED BY <2>1, FS_Subset, FS_CardinalityType
<1>2. \A k \in Nat : UpTo(P, k) \in SUBSET P
  BY DEF UpTo
<1>3. \A k \in Nat : IsFiniteSet(UpTo(P, k)) /\ Cardinality(UpTo(P, k)) \in Nat
                     /\ Cardinality(UpTo(P, k)) <= Cardinality(P)
                     /\ (Cardinality(UpTo(P, k)) = Cardinality(P) => UpTo(P, k) = P)
  BY <1>1, <1>2, FS_Subset, FS_CardinalityType
<1>4. UpTo(P, 0) = {} /\ UpTo(P, L) = P
  <2>1. \A m \in P : ~(m <= 0)
    BY <1>0
  <2> QED BY <1>0, <2>1, ZenonT(60) DEF UpTo
<1>5. Cardinality(UpTo(P, n + 1)) = Cardinality(UpTo(P, n)) + IF n + 1 \in P THEN 1 ELSE 0
  <2>1. n + 1 \in P => UpTo(P, n + 1) = UpTo(P, n) \cup {n + 1}
    <3>1. \A m \in P : m <= n + 1 <=> m <= n \/ m = n + 1
      BY <1>0
    <3>2. n + 1 <= n + 1
      OBVIOUS
    <3> QED BY <3>1, <3>2, ZenonT(60) DEF UpTo
  <2>2. n + 1 \notin P => UpTo(P, n + 1) = UpTo(P, n)
    <3>1. n + 1 \notin P => \A m \in P : m <= n + 1 <=> m <= n
      BY <1>0
    <3> QED BY <3>1, ZenonT(60) DEF UpTo
  <2>3. n + 1 \notin UpTo(P, n)
    BY DEF UpTo
  <2>4. n + 1 \in P => Cardinality(UpTo(P, n + 1)) = Cardinality(UpTo(P, n)) + 1
    BY <1>3, <2>1, <2>3, FS_AddElement
  <2> QED BY <1>3, <2>2, <2>4
<1>6. Cardinality(UpTo(P, n)) = 0 => \A m \in P : m > n
  <2>1. Cardinality(UpTo(P, n)) = 0 => UpTo(P, n) = {}
    BY <1>3, FS_EmptySet
  <2> QED BY <2>1 DEF UpTo
<1>7. Cardinality(UpTo(P, n)) = Cardinality(P) => \A m \in P : m <= n
  <2>1. Cardinality(UpTo(P, n)) = Cardinality(P) => UpTo(P, n) = P
    BY <1>3
  <2> QED BY <2>1 DEF UpTo
<1>8. ASSUME NEW k \in Nat, k <= n
      PROVE  Cardinality(UpTo(P, k)) <= Cardinality(UpTo(P, n))
  <2>1. UpTo(P, k) \in SUBSET UpTo(P, n)
    <3>1. \A m \in P : m <= k => m <= n
      BY <1>0, <1>8
    <3> QED BY <3>1, ZenonT(60) DEF UpTo
  <2> QED BY <1>3, <2>1, FS_Subset
<1> QED BY <1>1, <1>3, <1>4, <1>5, <1>6, <1>7, <1>8, FS_EmptySet

(* The same of the tile-parts of a tile.                                   *)
LEMMA Counting ==
    ASSUME TypeInv, NEW t, NEW n \in 0..LastPart
    PROVE  /\ LastPart \in Nat /\ n \in Nat /\ Count(t) \in Nat
           /\ ReadOf(t, n) \in Nat /\ ReadOf(t, n) <= Count(t)
           /\ ReadOf(t, 0) = 0 /\ ReadOf(t, LastPart) = Count(t)
           /\ n < LastPart => ReadOf(t, n + 1) =
                 ReadOf(t, n) + IF codestream.parts[n + 1].tile = t THEN 1 ELSE 0
           /\ n < LastPart => Cardinality({m \in PartsOf(codestream, t) : m < n + 1}) = ReadOf(t, n)
           /\ \A m \in PartsOf(codestream, t) :
                 /\ m \in 1..LastPart /\ codestream.parts[m].tile = t
                 /\ ReadOf(t, n) = 0 => m > n
                 /\ ReadOf(t, n) = Count(t) => m <= n
           /\ \A k \in 0..n : ReadOf(t, k) \in Nat /\ ReadOf(t, k) <= ReadOf(t, n)
<1>1. LastPart \in Nat /\ n \in Nat
  BY CodestreamFields DEF LastPart
<1> DEFINE P == PartsOf(codestream, t)
<1>2. P \in SUBSET (1..LastPart) /\ \A m \in P : codestream.parts[m].tile = t
  BY DEF PartsOf, LastPart
<1>3. n < LastPart => (n + 1 \in P <=> codestream.parts[n + 1].tile = t)
  BY <1>1 DEF PartsOf, LastPart
<1>4. \A k \in Nat : ReadOf(t, k) = Cardinality(UpTo(P, k))
  BY DEF ReadOf, UpTo
<1>5. Count(t) = Cardinality(P)
  BY DEF Count
<1>6. n < LastPart => {m \in P : m < n + 1} = UpTo(P, n)
  BY <1>1, <1>2 DEF UpTo
<1>7. \A k \in 0..n : k \in Nat /\ k <= n
  BY <1>1
<1> HIDE DEF P
<1>8. /\ IsFiniteSet(P) /\ Cardinality(P) \in Nat
      /\ Cardinality(UpTo(P, n)) \in Nat /\ Cardinality(UpTo(P, n)) <= Cardinality(P)
      /\ Cardinality(UpTo(P, 0)) = 0 /\ Cardinality(UpTo(P, LastPart)) = Cardinality(P)
      /\ Cardinality(UpTo(P, n + 1)) = Cardinality(UpTo(P, n)) + IF n + 1 \in P THEN 1 ELSE 0
      /\ Cardinality(UpTo(P, n)) = 0 => \A m \in P : m > n
      /\ Cardinality(UpTo(P, n)) = Cardinality(P) => \A m \in P : m <= n
      /\ \A k \in Nat : k <= n => Cardinality(UpTo(P, k)) <= Cardinality(UpTo(P, n))
  BY <1>1, <1>2, UpToCounts
<1>9. \A k \in Nat : Cardinality(UpTo(P, k)) \in Nat
  BY <1>1, <1>2, UpToCounts
<1>10. /\ Count(t) \in Nat /\ ReadOf(t, n) \in Nat /\ ReadOf(t, n) <= Count(t)
       /\ ReadOf(t, 0) = 0 /\ ReadOf(t, LastPart) = Count(t)
  BY <1>1, <1>4, <1>5, <1>8
<1>11. n < LastPart =>
          /\ ReadOf(t, n + 1) = ReadOf(t, n) + IF codestream.parts[n + 1].tile = t THEN 1 ELSE 0
          /\ Cardinality({m \in P : m < n + 1}) = ReadOf(t, n)
  <2>1. ReadOf(t, n + 1) = ReadOf(t, n) + IF n + 1 \in P THEN 1 ELSE 0
    BY <1>1, <1>4, <1>8
  <2> QED BY <2>1, <1>1, <1>3, <1>4, <1>6
<1>12. \A m \in P : /\ m \in 1..LastPart /\ codestream.parts[m].tile = t
                    /\ ReadOf(t, n) = 0 => m > n
                    /\ ReadOf(t, n) = Count(t) => m <= n
  BY <1>1, <1>2, <1>4, <1>5, <1>8
<1>13. \A k \in 0..n : ReadOf(t, k) \in Nat /\ ReadOf(t, k) <= ReadOf(t, n)
  BY <1>1, <1>4, <1>7, <1>8, <1>9
<1> QED BY <1>1, <1>10, <1>11, <1>12, <1>13 DEF P

(* What the counts say of a tile-part.                                     *)
LEMMA CountingParts ==
    ASSUME TypeInv, NEW t, NEW n \in 0..LastPart, NEW m \in PartsOf(codestream, t)
    PROVE  /\ m \in 1..LastPart /\ m \in Nat /\ codestream.parts[m].tile = t
           /\ ReadOf(t, n) = 0 => m > n
           /\ ReadOf(t, n) = Count(t) => m <= n
<1>1. LastPart \in Nat
  BY Counting
<1>2. m \in 1..LastPart
  BY DEF PartsOf, LastPart
<1> DEFINE P == PartsOf(codestream, t)
<1>3. ReadOf(t, n) = Cardinality(UpTo(P, n)) /\ Count(t) = Cardinality(P)
  BY DEF ReadOf, Count, UpTo
<1>4. n \in Nat /\ P \in SUBSET (1..LastPart)
  BY <1>1 DEF PartsOf, LastPart
<1>5. codestream.parts[m].tile = t
  BY DEF PartsOf
<1>6. /\ ReadOf(t, n) = 0 => m > n
      /\ ReadOf(t, n) = Count(t) => m <= n
  <2> HIDE DEF P
  <2>1. /\ Cardinality(UpTo(P, n)) = 0 => \A i \in P : i > n
        /\ Cardinality(UpTo(P, n)) = Cardinality(P) => \A i \in P : i <= n
    BY <1>1, <1>4, UpToCounts
  <2>2. m \in P
    BY DEF P
  <2> QED BY <1>3, <2>1, <2>2
<1> QED BY <1>1, <1>2, <1>5, <1>6

(* The numbers in the tile-parts of a codestream that is whole.            *)
LEMMA Numbers ==
    ASSUME TypeInv, Conforms(codestream) \/ Low
    PROVE  /\ Whole(codestream) /\ LastPart \in Nat \ {0} /\ ~(Conforms(codestream) /\ Low)
           /\ \A t \in Tile : Count(t) \in Nat \ {0} /\ (Low => Count(t) >= 2)
           /\ \A n \in 0..(LastPart - 1) :
                LET p == codestream.parts[n + 1]
                IN  /\ p.tile \in Tile /\ p.part = ReadOf(p.tile, n)
                    /\ ReadOf(p.tile, n) < Count(p.tile)
                    /\ p.num \in Nat /\ p.open \in BOOLEAN
                    /\ Conforms(codestream) => p.num \in {0, Count(p.tile)}
                    /\ Low => p.num = Count(p.tile) - 1
                    /\ p.open => n + 1 = LastPart
<1>1. /\ Whole(codestream) /\ LastPart \in Nat /\ 0 \in Tile /\ Tile = 0..(codestream.tiles - 1)
      /\ codestream.tiles \in Nat
  BY CodestreamFields DEF Conforms, Low, CountsOneTooFew, LastPart, Tile
<1>2. ASSUME NEW t \in Tile
      PROVE  /\ Count(t) \in Nat \ {0} /\ (Low => Count(t) >= 2)
             /\ \A m \in PartsOf(codestream, t) :
                  /\ codestream.parts[m].part = Cardinality({k \in PartsOf(codestream, t) : k < m})
                  /\ Conforms(codestream) => codestream.parts[m].num \in {0, Count(t)}
                  /\ Low => codestream.parts[m].num = Count(t) - 1
  <2>1. 0 \in 0..LastPart
    BY <1>1
  <2>2. Count(t) \in Nat
    BY <2>1, Counting
  <2>3. IsFiniteSet(PartsOf(codestream, t))
    <3>1. PartsOf(codestream, t) \in SUBSET (1..LastPart)
      BY DEF PartsOf, LastPart
    <3>2. IsFiniteSet(1..LastPart)
      BY <1>1, FS_Interval
    <3> QED BY <3>1, <3>2, FS_Subset
  <2>4. Conforms(codestream) => Count(t) # 0
    BY <1>1, <2>3, FS_EmptySet DEF Conforms, Count
  <2>5. Low => Count(t) >= 2
    BY <1>1 DEF Low, CountsOneTooFew, Count
  <2>6. \A m \in PartsOf(codestream, t) :
          /\ codestream.parts[m].part = Cardinality({k \in PartsOf(codestream, t) : k < m})
          /\ Conforms(codestream) => codestream.parts[m].num \in {0, Count(t)}
          /\ Low => codestream.parts[m].num = Count(t) - 1
    BY <1>1 DEF Conforms, Low, CountsOneTooFew, Count
  <2> QED BY <2>2, <2>4, <2>5, <2>6
<1>3. LastPart # 0 /\ ~(Conforms(codestream) /\ Low)
  <2>1. PICK m \in PartsOf(codestream, 0) : TRUE
    <3>1. SUFFICES ASSUME PartsOf(codestream, 0) = {} PROVE FALSE
      OBVIOUS
    <3>2. Count(0) = 0
      BY <3>1, FS_EmptySet DEF Count
    <3> QED BY <3>2, <1>1, <1>2
  <2>2. m \in 1..LastPart
    BY <2>1 DEF PartsOf, LastPart
  <2>3. ASSUME Conforms(codestream), Low PROVE FALSE
    <3>1. codestream.parts[m].num \in {0, Count(0)} /\ codestream.parts[m].num = Count(0) - 1
          /\ Count(0) \in Nat /\ Count(0) >= 2
      BY <1>1, <1>2, <2>1, <2>3
    <3> QED BY <3>1
  <2> QED BY <1>1, <2>2, <2>3
<1>4. ASSUME NEW n \in 0..(LastPart - 1), NEW p, p = codestream.parts[n + 1]
      PROVE  /\ p.tile \in Tile /\ p.part = ReadOf(p.tile, n)
             /\ ReadOf(p.tile, n) < Count(p.tile)
             /\ p.num \in Nat /\ p.open \in BOOLEAN
             /\ Conforms(codestream) => p.num \in {0, Count(p.tile)}
             /\ Low => p.num = Count(p.tile) - 1
             /\ p.open => n + 1 = LastPart
  <2>1. n \in 0..LastPart /\ n < LastPart /\ n + 1 \in 1..LastPart
    BY <1>1
  <2>2. /\ p.tile \in Nat /\ p.num \in Nat /\ p.open \in BOOLEAN /\ p.tile < codestream.tiles
        /\ p.open => n + 1 = LastPart
    BY <1>1, <1>4, <2>1, CodestreamFields, J2KDecoderAssumption DEF Whole, LastPart
  <2>3. p.tile \in Tile
    BY <1>1, <2>2
  <2>4. n + 1 \in PartsOf(codestream, p.tile)
    BY <1>4, <2>1 DEF PartsOf, LastPart
  <2>5. /\ Cardinality({k \in PartsOf(codestream, p.tile) : k < n + 1}) = ReadOf(p.tile, n)
        /\ ReadOf(p.tile, n) \in Nat /\ Count(p.tile) \in Nat /\ ReadOf(p.tile, n) <= Count(p.tile)
        /\ ReadOf(p.tile, n) = Count(p.tile) => n + 1 <= n
    BY <2>1, <2>4, Counting
  <2>6. ReadOf(p.tile, n) < Count(p.tile)
    BY <2>1, <2>5
  <2> QED BY <1>2, <1>4, <2>2, <2>3, <2>4, <2>5, <2>6
<1> QED BY <1>1, <1>2, <1>3, <1>4

(* What the token of a SOT marker segment is.                              *)
LEMMA TokenIs == \A n : Token("segment", n).is = "segment" /\ Token("segment", n).n = n
BY DEF Token

(* Where the SOT markers and their segments are in such a codestream.      *)
LEMMA TokenOf ==
    ASSUME TypeInv, Whole(codestream), NEW i \in 1..(4 * LastPart + 2)
    PROVE  /\ Tokens(codestream)[i].is = "SOT" => \E k \in 0..(LastPart - 1) : i = 4 * k + 2
           /\ Tokens(codestream)[i].is = "segment" => \E k \in 0..(LastPart - 1) : i = 4 * k + 3
<1> DEFINE s == Tokens(codestream)
           L == LastPart
<1>1. /\ L \in Nat /\ s[1].is = "header" /\ s[4 * L + 2].is = "EOC"
      /\ \A n \in 0..(L - 1) :
            /\ s[4 * n + 2].is = "SOT" /\ s[4 * n + 3] = Token("segment", n + 1)
            /\ s[4 * n + 4].is = "SOD" /\ s[4 * n + 5].is = "data"
  BY TokensAre
<1> HIDE DEF s, L
<1>2. i \in Int /\ 1 <= i /\ i <= 4 * L + 2
  BY <1>1 DEF L
<1>3. CASE i = 1
  BY <1>1, <1>3 DEF s
<1>4. CASE i = 4 * L + 2
  BY <1>1, <1>4 DEF s
<1>5. CASE i # 1 /\ i # 4 * L + 2
  <2>1. PICK k \in 0..(L - 1) : i = 4 * k + 2 \/ i = 4 * k + 3 \/ i = 4 * k + 4 \/ i = 4 * k + 5
    <3>1. PICK k \in Int : k = (i - 2) \div 4
      BY <1>2
    <3>2. 4 * k <= i - 2 /\ i - 2 <= 4 * k + 3
      BY <1>2, <3>1
    <3>3. k \in 0..(L - 1)
      BY <1>1, <1>2, <1>5, <3>2
    <3>4. i = 4 * k + 2 \/ i = 4 * k + 3 \/ i = 4 * k + 4 \/ i = 4 * k + 5
      BY <1>2, <3>2
    <3> QED BY <3>3, <3>4
  <2>2. s[4 * k + 2].is = "SOT" /\ s[4 * k + 3].is = "segment"
        /\ s[4 * k + 4].is = "SOD" /\ s[4 * k + 5].is = "data"
    BY <1>1, <2>1, TokenIs
  <2>3. s[i].is = "SOT" => i = 4 * k + 2
    BY <2>1, <2>2
  <2>4. s[i].is = "segment" => i = 4 * k + 3
    BY <2>1, <2>2
  <2> QED BY <2>1, <2>3, <2>4 DEF s, L
<1> QED BY <1>3, <1>4, <1>5

(* The stream behind the SOT marker of tile-part n + 1.                    *)
LEMMA BehindSOT ==
    ASSUME TypeInv, Whole(codestream), NEW n \in 0..(LastPart - 1)
    PROVE  LET r == From(4 * n + 3)
           IN  /\ r # <<>> /\ Head(r).is = "segment" /\ Head(r).n = n + 1
               /\ Len(r) >= 2 /\ r[2].is = "SOD"
               /\ Tail(r) = From(4 * (n + 1)) /\ SubSeq(r, 3, Len(r)) = From(4 * (n + 1) + 1)
<1> DEFINE s == Tokens(codestream)
<1>1. LastPart \in Nat /\ s[4 * n + 3] = Token("segment", n + 1) /\ s[4 * n + 4].is = "SOD"
  BY TokensAre
<1> HIDE DEF s
<1>2. PICK j \in 1..(4 * LastPart + 2) : j = 4 * n + 3 /\ j + 1 <= 4 * LastPart + 2
  BY <1>1
<1>3. /\ From(j) # <<>> /\ Head(From(j)) = s[j]
      /\ Tail(From(j)) = From(j + 1)
      /\ SubSeq(From(j), 3, Len(From(j))) = From(j + 2)
      /\ Len(From(j)) >= 2
      /\ From(j)[2] = s[j + 1]
  BY <1>2, FromOn DEF s
<1>4. j + 1 = 4 * (n + 1) /\ j + 2 = 4 * (n + 1) + 1 /\ j + 1 = 4 * n + 4
  BY <1>1, <1>2
<1>5. Token("segment", n + 1).is = "segment" /\ Token("segment", n + 1).n = n + 1
  BY TokenIs
<1> QED BY <1>1, <1>2, <1>3, <1>4, <1>5

(* The stream around the data of tile-part n.                              *)
LEMMA BehindSOD ==
    ASSUME TypeInv, Whole(codestream), NEW n \in 1..LastPart
    PROVE  LET r == From(4 * n)
               d == From(4 * n + 1)
               e == From(4 * n + 2)
           IN  /\ Len(r) >= 2 /\ r[2].is = "data" /\ SubSeq(r, 3, Len(r)) = e
               /\ d # <<>> /\ Head(d).is = "data" /\ Tail(d) = e
               /\ n = LastPart => Len(d) = 2 /\ d[2].is = "EOC" /\ <<d[2]>> = e
               /\ e # <<>> /\ Head(e).is = IF n < LastPart THEN "SOT" ELSE "EOC"
               /\ Tail(e) = From(4 * n + 3)
<1> DEFINE s == Tokens(codestream)
<1>0. PICK k \in 0..(LastPart - 1) : n = k + 1
  <2>1. LastPart \in Nat
    BY TokensAre
  <2>2. n - 1 \in 0..(LastPart - 1) /\ n = (n - 1) + 1
    BY <2>1
  <2> QED BY <2>2
<1>1. /\ LastPart \in Nat /\ s[4 * k + 5].is = "data" /\ s[4 * LastPart + 2].is = "EOC"
      /\ n < LastPart => s[4 * n + 2].is = "SOT"
  <2>1. LastPart \in Nat /\ (n < LastPart => n \in 0..(LastPart - 1))
    BY TokensAre
  <2> QED BY <2>1, TokensAre
<1> HIDE DEF s
<1>2. PICK j \in 1..(4 * LastPart + 2) : j = 4 * n /\ j + 1 <= 4 * LastPart + 2
  BY <1>1
<1>3. PICK i \in 1..(4 * LastPart + 2) : i = 4 * n + 1 /\ i + 1 <= 4 * LastPart + 2
  BY <1>1
<1>4. PICK h \in 1..(4 * LastPart + 2) : h = 4 * n + 2
  BY <1>1
<1>5. /\ j + 2 = h /\ i + 1 = h /\ j + 1 = i /\ h + 1 = 4 * n + 3 /\ i = 4 * k + 5
      /\ n = LastPart => h = 4 * LastPart + 2
      /\ n < LastPart \/ n = LastPart
  BY <1>0, <1>1, <1>2, <1>3, <1>4
<1>6. Len(From(j)) >= 2 /\ From(j)[2] = s[j + 1] /\ SubSeq(From(j), 3, Len(From(j))) = From(j + 2)
  BY <1>2, FromOn DEF s
<1>7. From(i) # <<>> /\ Head(From(i)) = s[i] /\ Tail(From(i)) = From(i + 1) /\ From(i)[2] = s[i + 1]
  BY <1>3, FromOn DEF s
<1>8. From(h) # <<>> /\ Head(From(h)) = s[h] /\ From(h)[1] = s[h] /\ Tail(From(h)) = From(h + 1)
  BY <1>4, FromOn DEF s
<1>9. s[h].is = IF n < LastPart THEN "SOT" ELSE "EOC"
  BY <1>1, <1>4, <1>5
<1>10. n = LastPart => Len(From(i)) = 2 /\ <<From(i)[2]>> = From(h)
  <2>1. i \in 1..(4 * LastPart + 3) /\ h \in 1..(4 * LastPart + 3)
    BY <1>1, <1>3, <1>4
  <2>2. Len(From(i)) = 4 * LastPart + 3 - i /\ Len(From(h)) = 4 * LastPart + 3 - h
        /\ From(h) \in Seq(TokenSet)
    BY <2>1, FromAre
  <2>3. n = LastPart => Len(From(i)) = 2 /\ Len(From(h)) = 1
    BY <1>1, <1>3, <1>4, <2>2
  <2>4. Len(From(h)) = 1 => From(h) = <<From(h)[1]>>
    <3> DEFINE r == From(h)
    <3> HIDE DEF r
    <3>1. r \in Seq(TokenSet)
      BY <2>2 DEF r
    <3>2. Len(r) = 1 => r = <<r[1]>>
      BY <3>1
    <3> QED BY <3>2 DEF r
  <2> QED BY <2>3, <2>4, <1>5, <1>7, <1>8
<1>11. n = LastPart => From(i)[2].is = "EOC"
  BY <1>5, <1>7, <1>9, <1>1
<1> QED BY <1>1, <1>2, <1>3, <1>4, <1>5, <1>6, <1>7, <1>8, <1>9, <1>10, <1>11

(* The stream behind EOC, before the main header and behind a SOT marker.  *)
LEMMA StreamAt ==
    ASSUME TypeInv
    PROVE  /\ From(1) = Available(codestream)
           /\ \A n \in Nat : n > 0 => AfterSOT(n) = From(4 * (n - 1) + 3)
           /\ Whole(codestream) => From(4 * LastPart + 3) = <<>>
<1>1. From(1) = Available(codestream)
  <2>1. Available(codestream) \in Seq(TokenSet)
    BY CodestreamFields, AvailableOK DEF StreamOK
  <2> QED BY <2>1, SubSeqFull DEF From
<1>2. ASSUME NEW n \in Nat, n > 0 PROVE AfterSOT(n) = From(4 * (n - 1) + 3)
  <2>1. 4 * (n - 1) + 3 = 4 * n - 1 /\ n # 0
    BY <1>2
  <2>2. AfterSOT(n) = From(4 * n - 1)
    BY <2>1 DEF AfterSOT, From
  <2> QED BY <2>1, <2>2
<1>3. ASSUME Whole(codestream) PROVE From(4 * LastPart + 3) = <<>>
  <2>1. PICK j \in 1..(4 * LastPart + 3) : j = 4 * LastPart + 3 /\ 4 * LastPart + 3 - j = 0
    <3>1. LastPart \in Nat
      BY <1>3, TokensAre
    <3> QED BY <3>1
  <2>2. From(j) \in Seq(TokenSet) /\ Len(From(j)) = 4 * LastPart + 3 - j
    BY <1>3, <2>1, FromAre
  <2>3. Len(From(j)) = 0
    BY <2>1, <2>2
  <2>4. From(j) = <<>>
    BY <2>2, <2>3
  <2> QED BY <2>1, <2>4
<1> QED BY <1>1, <1>2, <1>3

\* What stream, which is left behind tile-part n, tells of the tile-parts of t.
Tells(stream, t, n) ==
    /\ stream \in Seq(TokenSet) /\ Len(stream) \in Nat
    /\ \A j \in 1..Len(stream) :
         /\ stream[j].is = "SOT" => j # Len(stream) /\ stream[j + 1].is = "segment"
         /\ stream[j].is = "segment" /\ codestream.parts[stream[j].n].tile = t =>
               stream[j].n \in PartsOf(codestream, t) /\ stream[j].n > n
    /\ \A m \in PartsOf(codestream, t) : m > n =>
         \E j \in 1..Len(stream) : stream[j].is = "segment" /\ stream[j].n = m

(* It tells where they are.                                                *)
LEMMA SegmentsBehind ==
    ASSUME TypeInv, Whole(codestream), NEW n \in 1..LastPart, NEW t, NEW stream,
           stream = From(4 * n + 2)
    PROVE  Tells(stream, t, n)
<1> DEFINE s == Tokens(codestream)
<1>1. /\ LastPart \in Nat
      /\ \A k \in 0..(LastPart - 1) : s[4 * k + 3].is = "segment" /\ s[4 * k + 3].n = k + 1
  BY TokensAre, TokenIs
<1>2. \A i \in 1..(4 * LastPart + 2) :
          /\ s[i].is = "SOT" => \E k \in 0..(LastPart - 1) : i = 4 * k + 2
          /\ s[i].is = "segment" => \E k \in 0..(LastPart - 1) : i = 4 * k + 3
  BY TokenOf
<1> HIDE DEF s
<1>3. PICK h \in 1..(4 * LastPart + 3) : h = 4 * n + 2
  BY <1>1
<1>4. /\ stream \in Seq(TokenSet) /\ Len(stream) = 4 * LastPart + 3 - h
      /\ \A i \in 1..Len(stream) : stream[i] = s[h + i - 1]
  BY <1>3, FromAre DEF s
<1>5. Len(stream) = 4 * LastPart + 1 - 4 * n /\ Len(stream) \in Nat /\ n \in Nat
  BY <1>1, <1>3, <1>4
<1>6. ASSUME NEW j \in 1..Len(stream)
      PROVE  /\ stream[j].is = "SOT" => j # Len(stream) /\ stream[j + 1].is = "segment"
             /\ stream[j].is = "segment" /\ codestream.parts[stream[j].n].tile = t =>
                   stream[j].n \in PartsOf(codestream, t) /\ stream[j].n > n
  <2>1. PICK i \in 1..(4 * LastPart + 2) : i = 4 * n + 1 + j /\ stream[j] = s[i]
    <3>1. h + j - 1 = 4 * n + 1 + j /\ h + j - 1 \in 1..(4 * LastPart + 2)
      BY <1>1, <1>3, <1>5
    <3> QED BY <1>4, <3>1
  <2>2. ASSUME stream[j].is = "SOT"
        PROVE  j # Len(stream) /\ stream[j + 1].is = "segment"
    <3>1. PICK k \in 0..(LastPart - 1) : i = 4 * k + 2
      BY <1>2, <2>1, <2>2
    <3>2. j # Len(stream) /\ j + 1 \in 1..Len(stream) /\ h + (j + 1) - 1 = 4 * k + 3
      BY <1>1, <1>3, <1>5, <2>1, <3>1
    <3>3. stream[j + 1] = s[4 * k + 3]
      BY <1>4, <3>2
    <3> QED BY <1>1, <3>2, <3>3
  <2>3. ASSUME stream[j].is = "segment", codestream.parts[stream[j].n].tile = t
        PROVE  stream[j].n \in PartsOf(codestream, t) /\ stream[j].n > n
    <3>1. PICK k \in 0..(LastPart - 1) : i = 4 * k + 3
      BY <1>2, <2>1, <2>3
    <3>2. k + 1 \in 1..LastPart /\ k + 1 > n
      BY <1>1, <1>5, <2>1, <3>1
    <3>3. stream[j].n = k + 1
      BY <1>1, <2>1, <3>1
    <3> QED BY <2>3, <3>2, <3>3 DEF PartsOf, LastPart
  <2> QED BY <2>2, <2>3
<1>7. ASSUME NEW m \in PartsOf(codestream, t), m > n
      PROVE  \E j \in 1..Len(stream) : stream[j].is = "segment" /\ stream[j].n = m
  <2>1. m \in 1..LastPart
    BY DEF PartsOf, LastPart
  <2>2. PICK k \in 0..(LastPart - 1) : m = k + 1
    <3>1. m - 1 \in 0..(LastPart - 1) /\ m = (m - 1) + 1
      BY <1>1, <2>1
    <3> QED BY <3>1
  <2>3. PICK j \in 1..Len(stream) : h + j - 1 = 4 * k + 3
    <3>1. 4 * k + 3 - h + 1 \in 1..Len(stream) /\ h + (4 * k + 3 - h + 1) - 1 = 4 * k + 3
      BY <1>1, <1>3, <1>5, <1>7, <2>1, <2>2
    <3> QED BY <3>1
  <2>4. stream[j] = s[4 * k + 3]
    BY <1>4, <2>3
  <2> QED BY <1>1, <2>2, <2>3, <2>4
<1> QED BY <1>4, <1>5, <1>6, <1>7 DEF Tells

-----------------------------------------------------------------------------
(* A call of a whole codestream                                            *)

(* What depends on nothing but the codestream.                             *)
LEMMA Fixed ==
    ASSUME UNCHANGED codestream
    PROVE  /\ Tile' = Tile /\ Whole(codestream)' = Whole(codestream)
           /\ Conforms(codestream)' = Conforms(codestream) /\ Low' = Low
           /\ Open(codestream)' = Open(codestream) /\ Counted(codestream)' = Counted(codestream)
           /\ LastPart' = LastPart /\ (\A t : PartsOf(codestream, t)' = PartsOf(codestream, t))
           /\ (\A t : Count(t)' = Count(t)) /\ (\A t, n : ReadOf(t, n)' = ReadOf(t, n))
           /\ \A j : From(j)' = From(j)
<1>1. Tile' = Tile
  BY DEF Tile
<1>2. /\ Whole(codestream)' = Whole(codestream) /\ Conforms(codestream)' = Conforms(codestream)
      /\ Low' = Low /\ Open(codestream)' = Open(codestream)
      /\ Counted(codestream)' = Counted(codestream)
  BY DEF Low
<1>3. LastPart' = LastPart /\ \A t : PartsOf(codestream, t)' = PartsOf(codestream, t)
  BY DEF LastPart, PartsOf
<1>4. (\A t : Count(t)' = Count(t)) /\ (\A t, n : ReadOf(t, n)' = ReadOf(t, n))
  BY DEF Count, ReadOf, PartsOf
<1>5. \A j : From(j)' = From(j)
  BY DEF From
<1> QED BY <1>1, <1>2, <1>3, <1>4, <1>5

(* Which tiles such a call wants, and which it passes over.                *)
LEMMA Wanted ==
    ASSUME IInv, WInv, m_private_image, calls > 0, Promised
    PROVE  /\ TypeInv /\ Whole(codestream) /\ (Conforms(codestream) \/ Low)
           /\ call.is \in {"decode", "tile", "get_tile"}
           /\ call.area # {} /\ call.area \subseteq Tile /\ Sound
           /\ \A t \in Tile : Skips(t) <=> t \notin call.area
           /\ Low => call.area = Tile
           /\ Open(codestream) => call.area = Tile /\ call.is # "get_tile"
           /\ codestream.tiles = 1 => call.area = Tile
           /\ m_decoder.last_tile_part => Open(codestream)
           /\ call.is = "get_tile" => call.area = {call.tile} /\ call.tile \in Tile
<1>1. /\ TypeInv /\ CallInv /\ LastInv /\ m_decoder.area # {}
  BY DEF IInv, WInv
<1>2. call.is \in {"decode", "tile", "get_tile"} /\ call.area \subseteq Tile /\ call.tile \in Tile
  BY <1>1, CallFields DEF CallInv
<1>3. /\ Whole(codestream) /\ (Conforms(codestream) \/ Low) /\ ~(Conforms(codestream) /\ Low)
  BY <1>1, Numbers DEF Promised
<1>4. CASE call.is = "get_tile"
  <2>1. /\ call.area = {call.tile} /\ m_decoder.tile_ind_to_dec = call.tile
        /\ ~Open(codestream) /\ call.tile # -1
    BY <1>1, <1>2, <1>4, CodestreamFields DEF CallInv, Promised, PassesRightly
  <2>2. codestream.tiles = 1 => call.area = Tile
    BY <1>2, <2>1, CodestreamFields DEF Tile
  <2> QED BY <1>1, <1>2, <1>3, <1>4, <2>1, <2>2
          DEF Promised, LastInv, Skips, Sound
<1>5. CASE call.is # "get_tile"
  <2>1. call.area = m_decoder.area /\ m_decoder.tile_ind_to_dec = -1
    BY <1>1, <1>2, <1>5 DEF CallInv
  <2>2. \A t \in Tile : Skips(t) <=> t \notin call.area
    BY <2>1 DEF Skips
  <2>3. Open(codestream) => call.area = Tile
    BY DEF Promised, PassesRightly
  <2>4. codestream.tiles = 1 => call.area = Tile
    BY <1>1, <2>1 DEF CallInv
  <2>5. Sound
    BY <2>1, <2>3 DEF Sound
  <2> QED BY <1>1, <1>2, <1>3, <1>5, <2>1, <2>2, <2>3, <2>4, <2>5 DEF Promised, LastInv
<1> QED BY <1>4, <1>5

(* In the middle of a call, if the codestream is whole, the walk is on.    *)
LEMMA InWalk ==
    ASSUME IInv, WInv, call.pc # "idle"
    PROVE  /\ m_private_image /\ calls > 0 /\ calls \in Nat
           /\ Promised => \E n \in 0..LastPart : WalkInv(n)
<1>1. TypeInv /\ CallInv /\ FreshInv /\ WholeInv
  BY DEF IInv, WInv
<1>2. m_private_image /\ calls > 0 /\ calls \in Nat
  BY <1>1, TypeNow DEF CallInv, FreshInv
<1> QED BY <1>1, <1>2 DEF WholeInv, GoesOn

\* The call is the same, and so is what it was asked for.
SameCall ==
    /\ UNCHANGED <<codestream, calls>>
    /\ call'.is = call.is /\ call'.area = call.area /\ m_decoder'.area = m_decoder.area

\* What opj_j2k_read_sod and what follows it make of the decoder and its data.
Checks == m_decoder.can_decode /\ ~m_decoder.correction_checked
Corrects == Checks /\ NeedsCorrection(m_current_tile_number, AfterData)
DecoderRead ==
    AfterReading(m_decoder, m_decoder.correction_checked \/ m_decoder.can_decode,
                 m_decoder.can_decode /\ ~Corrects, IF Corrects THEN 1 ELSE m_decoder.correction)
DataRead ==
    WithData(tcps, m_current_tile_number,
             Append(tcps[m_current_tile_number].data,
                    Piece(tcps[m_current_tile_number].part, DataReadIs)))

(* What the decoder is after that.                                         *)
LEMMA DecoderReadIs ==
    ASSUME TypeInv
    PROVE  /\ DecoderRead \in DecoderSet(Tile) /\ DecoderRead.state = {"TPHSOT"}
           /\ DecoderRead.can_decode = (m_decoder.can_decode /\ ~Corrects)
           /\ DecoderRead.skip_data = m_decoder.skip_data
           /\ DecoderRead.last_tile_part = m_decoder.last_tile_part
           /\ DecoderRead.area = m_decoder.area
           /\ DecoderRead.correction_checked = (m_decoder.correction_checked \/ m_decoder.can_decode)
           /\ DecoderRead.correction = IF Corrects THEN 1 ELSE m_decoder.correction
           /\ DecoderRead.last_sot_read_pos = m_decoder.last_sot_read_pos
<1>1. PICK noted, complete, raised :
        /\ noted = (m_decoder.correction_checked \/ m_decoder.can_decode)
        /\ complete = (m_decoder.can_decode /\ ~Corrects)
        /\ raised = IF Corrects THEN 1 ELSE m_decoder.correction
  OBVIOUS
<1>2. m_decoder \in DecoderSet(Tile)
  BY DecoderTyped
<1>3. noted \in BOOLEAN /\ complete \in BOOLEAN
  BY <1>1, DecoderFields
<1>4. raised \in {0, 1}
  BY <1>1, <1>2 DEF DecoderSet
<1>5. DecoderRead = AfterReading(m_decoder, noted, complete, raised)
  BY <1>1 DEF DecoderRead
<1>6. PICK d, T : d = m_decoder /\ T = Tile /\ d \in DecoderSet(T)
  BY <1>2
<1>7. LET r == AfterReading(d, noted, complete, raised)
      IN  /\ r \in DecoderSet(T) /\ r.state = {"TPHSOT"} /\ r.can_decode = complete
          /\ r.skip_data = d.skip_data /\ r.last_tile_part = d.last_tile_part /\ r.area = d.area
          /\ r.correction_checked = noted /\ r.correction = raised
          /\ r.last_sot_read_pos = d.last_sot_read_pos
  BY <1>3, <1>4, <1>6 DEF AfterReading, DecoderSet, States
<1> QED BY <1>1, <1>5, <1>6, <1>7

(* The ways that step goes.                                                *)
LEMMA ReadSODDoes ==
    ASSUME TypeInv, ReadSOD
    PROVE  \/ /\ Fail("short")
              /\ \/ rest = <<>>
                 \/ ~m_decoder.last_tile_part /\ Head(rest).is # "data"
                 \/ Checks /\ SearchFails(m_current_tile_number, AfterData)
           \/ /\ DecoderRead.can_decode
              /\ rest' = AfterData /\ m_decoder' = DecoderRead /\ tcps' = DataRead
              /\ call' = [call EXCEPT !.pc = "after_loop"]
              /\ UNCHANGED <<codestream, m_private_image, m_current_tile_number, tile_index, calls,
                             image>>
           \/ /\ ~DecoderRead.can_decode
              /\ GoOnReading(AfterData, DecoderRead, m_current_tile_number,
                             IF Corrects THEN Corrected(DataRead) ELSE DataRead)
<1>1. PICK t, stream, data, checks, corrected, decoder :
        /\ t = m_current_tile_number /\ stream = AfterData /\ data = DataRead
        /\ checks = Checks /\ corrected = Corrects /\ decoder = DecoderRead
  OBVIOUS
<1>2. /\ data = [tcps EXCEPT ![t].data = Append(@, Piece(tcps[t].part, DataReadIs))]
      /\ checks = (m_decoder.can_decode /\ ~m_decoder.correction_checked)
      /\ corrected = (checks /\ NeedsCorrection(t, stream))
      /\ decoder = [m_decoder EXCEPT
               !.state = {"TPHSOT"},
               !.correction_checked = @ \/ m_decoder.can_decode,
               !.can_decode = @ /\ ~corrected,
               !.correction = IF corrected THEN 1 ELSE @]
  BY <1>1 DEF DataRead, WithData, Checks, Corrects, DecoderRead, AfterReading
<1>3. IF rest = <<>> \/ (~m_decoder.last_tile_part /\ Head(rest).is # "data")
                     \/ (checks /\ SearchFails(t, stream))
      THEN Fail("short")
      ELSE IF decoder.can_decode
      THEN /\ rest' = stream
           /\ m_decoder' = decoder
           /\ tcps' = data
           /\ Go("after_loop")
           /\ UNCHANGED <<codestream, m_private_image, m_current_tile_number, tile_index, calls, image>>
      ELSE GoOnReading(stream, decoder, t, IF corrected THEN Corrected(data) ELSE data)
  BY <1>1, <1>2, ZenonT(60) DEF ReadSOD
<1> QED BY <1>1, <1>3 DEF Go

(* A call that is under way stays the one it is.                           *)
LEMMA ProgressSame == ASSUME TypeInv, Progress PROVE SameCall /\ call.pc # "idle"
<1>1. m_decoder \in DecoderSet(Tile) /\ call \in Calls
  BY DecoderTyped DEF TypeInv
<1>2. /\ \A r : Return(r) => call'.is = call.is /\ call'.area = call.area
      /\ \A pc : Go(pc) => call'.is = call.is /\ call'.area = call.area
  BY <1>1 DEF Return, Go, Calls
<1>3. \A r : Fail(r) => SameCall
  BY <1>2 DEF Fail, SameCall
<1>4. ASSUME NEW stream, NEW current, NEW data, NEW decoder,
             GoOnReading(stream, decoder, current, data),
             decoder \in DecoderSet(Tile), decoder.area = m_decoder.area
      PROVE  SameCall
  <2>1. CASE stream # <<>> /\ IsMarker(Head(stream).is)
    BY <1>1, <1>4, <2>1 DEF GoOnReading, SameCall, Calls
  <2>2. CASE ~(stream # <<>> /\ IsMarker(Head(stream).is)) /\ EndsLikeSpot6(current)
    BY <1>1, <1>4, <2>2 DEF GoOnReading, SameCall, Calls, DecoderSet
  <2>3. CASE ~(stream # <<>> /\ IsMarker(Head(stream).is)) /\ ~EndsLikeSpot6(current)
    BY <1>3, <1>4, <2>3 DEF GoOnReading
  <2> QED BY <2>1, <2>2, <2>3
<1>5. CASE DecodeTiles
  BY <1>1, <1>2, <1>5 DEF DecodeTiles, SameCall, DecoderSet
<1>6. CASE BeginTileHeader
  BY <1>1, <1>3, <1>6 DEF BeginTileHeader, SameCall, Calls
<1>7. CASE NoMoreTileParts
  BY <1>1, <1>2, <1>7 DEF NoMoreTileParts, InLoop, SameCall, DecoderSet
<1>8. CASE RefuseTilePart
  BY <1>3, <1>8 DEF RefuseTilePart, InLoop
<1>9. CASE ReadSOT
  <2>1. call' = [call EXCEPT !.marker = "SOD", !.pc = "tile_part"] /\ UNCHANGED <<codestream, calls>>
    BY <1>9 DEF ReadSOT
  <2>2. m_decoder'.area = m_decoder.area
    BY <1>1, <1>9 DEF ReadSOT, DecoderSet
  <2> QED BY <1>1, <1>9, <2>1, <2>2 DEF ReadSOT, InLoop, SameCall, Calls
<1>10. CASE SkipTilePart
  <2>1. \/ \E stream, current, data : GoOnReading(stream, WithSkipped(m_decoder), current, data)
        \/ Fail("short")
    BY <1>10, ZenonT(60) DEF SkipTilePart, WithSkipped
  <2>2. WithSkipped(m_decoder) \in DecoderSet(Tile) /\ WithSkipped(m_decoder).area = m_decoder.area
    BY <1>1 DEF WithSkipped, DecoderSet, States
  <2> QED BY <1>3, <1>4, <1>10, <2>1, <2>2 DEF SkipTilePart
<1>11. CASE ReadSOD
  <2>1. DecoderRead \in DecoderSet(Tile) /\ DecoderRead.area = m_decoder.area
    BY DecoderReadIs
  <2>2. \/ Fail("short")
        \/ /\ m_decoder' = DecoderRead /\ call' = [call EXCEPT !.pc = "after_loop"]
           /\ UNCHANGED <<codestream, calls>>
        \/ GoOnReading(AfterData, DecoderRead, m_current_tile_number,
                       IF Corrects THEN Corrected(DataRead) ELSE DataRead)
    BY <1>11, ReadSODDoes
  <2>3. SameCall
    BY <1>1, <1>3, <1>4, <2>1, <2>2 DEF SameCall, Calls
  <2> QED BY <1>11, <2>3 DEF ReadSOD, InLoop
<1>12. CASE AfterLoop
  <2>1. m_decoder'.area = m_decoder.area
    BY <1>1, <1>12 DEF AfterLoop, DecoderSet
  <2>2. call'.is = call.is /\ call'.area = call.area
    BY <1>2, <1>12 DEF AfterLoop
  <2> QED BY <1>12, <2>1, <2>2 DEF AfterLoop, SameCall
<1>13. CASE DecodeTileFails
  BY <1>3, <1>13 DEF DecodeTileFails
<1>14. CASE DecodeTile
  <2>1. Fail("short") \/ (m_decoder'.area = m_decoder.area /\ UNCHANGED <<codestream, calls>>)
    BY <1>1, <1>14 DEF DecodeTile, DecoderSet
  <2>2. Fail("short") \/ (call'.is = call.is /\ call'.area = call.area)
    BY <1>1, <1>2, <1>14 DEF DecodeTile, Finish, Calls
  <2> QED BY <1>3, <1>14, <2>1, <2>2 DEF DecodeTile, SameCall
<1>15. CASE NoMoreTiles
  BY <1>2, <1>3, <1>15 DEF NoMoreTiles, Finish, SameCall
<1> QED BY <1>5, <1>6, <1>7, <1>8, <1>9, <1>10, <1>11, <1>12, <1>13, <1>14, <1>15 DEF Progress

(* The walk goes on within a call.                                         *)
LEMMA WalkOn ==
    ASSUME IInv, WInv, Progress,
           Promised => call'.pc # "idle" /\ \E n \in 0..LastPart : WalkInv(n)'
    PROVE  WInv'
<1>0. SameCall /\ call.pc # "idle"
  BY ProgressSame DEF IInv
<1>1. calls > 0 /\ calls \in Nat /\ m_private_image /\ m_decoder.area # {}
  BY <1>0, InWalk DEF WInv
<1>2. Promised' = Promised /\ LastPart' = LastPart
  BY <1>0, Fixed DEF SameCall, Promised, PassesRightly
<1>3. StartInv'
  BY <1>0, <1>1 DEF StartInv, SameCall
<1>4. WholeInv'
  BY <1>2 DEF WholeInv
<1>5. WholeCodestreamsDecode'
  BY <1>2 DEF WholeCodestreamsDecode, Promised, Low
<1> QED BY <1>0, <1>1, <1>3, <1>4, <1>5 DEF WInv, SameCall

(* opj_j2k_read_tile_header begins.                                        *)
LEMMA BeginTileHeaderWalks == ASSUME IInv, WInv, BeginTileHeader PROVE WInv'
<1>1. call.pc = "read_tile_header" /\ TypeInv
  BY DEF BeginTileHeader, IInv
<1>2. ASSUME Promised
      PROVE  call'.pc = "loop" /\ \E n \in 0..LastPart : WalkInv(n)'
  <2>1. PICK n \in 0..LastPart : WalkInv(n)
    BY <1>1, <1>2, InWalk
  <2>2. /\ rest = From(4 * n + 3)
        /\ m_decoder.state = IF n < LastPart THEN {"TPHSOT"} ELSE {"EOC"}
    BY <1>1, <2>1 DEF WalkInv, PlaceInv, Between
  <2>3. /\ call' = [call EXCEPT !.pc = "loop",
                                !.marker = IF m_decoder.state = {"EOC"} THEN "EOC" ELSE "SOT"]
        /\ UNCHANGED <<codestream, rest, m_private_image, m_decoder, m_current_tile_number,
                       tcps, tile_index, calls, image>>
    BY <2>2 DEF BeginTileHeader
  <2>4. /\ call'.pc = "loop" /\ call'.marker = IF n < LastPart THEN "SOT" ELSE "EOC"
        /\ call'.is = call.is /\ call'.area = call.area /\ call'.nr_tiles = call.nr_tiles
    BY <1>1, <2>2, <2>3, FlagsDiffer DEF TypeInv, Calls
  <2>5. PlaceInv(n)'
    BY <2>2, <2>3, <2>4, Fixed DEF PlaceInv, Between
  <2>6. /\ (NumbersInv /\ RepairInv(n) /\ EndInv)'
        /\ \A t \in Tile : TileInv(t, n)'
    BY <1>1, <2>1, <2>3, <2>4, Fixed
       DEF WalkInv, NumbersInv, Number, RepairInv, EndInv, TileInv, Collected, Complete
  <2>7. /\ call'.is = "decode" => call'.nr_tiles = Cardinality(Decoded)'
        /\ call'.is = "get_tile" =>
             IndexInv(m_decoder.last_sot_read_pos)' /\ n <= m_decoder'.last_sot_read_pos
    BY <1>1, <2>1, <2>3, <2>4, Fixed DEF WalkInv, Decoded, IndexInv
  <2>8. WalkInv(n)'
    BY <2>3, <2>5, <2>6, <2>7, Fixed DEF WalkInv
  <2> QED BY <2>4, <2>8
<1> QED BY <1>1, <1>2, WalkOn DEF Progress

(* The numbers the decoder goes by.                                        *)
LEMMA NumberIs ==
    ASSUME IInv, WInv, m_private_image, calls > 0, Promised, NumbersInv, NEW t \in Tile
    PROVE  /\ Number(t) \in Nat \ {0} /\ Count(t) \in Nat \ {0} /\ Number(t) <= Count(t)
           /\ m_decoder.correction \in {0, 1}
           /\ ~(Low /\ m_decoder.correction = 0) => Number(t) = Count(t)
           /\ Low /\ m_decoder.correction = 0 => Number(t) = Count(t) - 1 /\ Count(t) >= 2
           /\ m_decoder.correction = 1 => Low
<1>1. TypeInv /\ (Conforms(codestream) \/ Low)
  BY Wanted
<1>2. Count(t) \in Nat \ {0} /\ (Low => Count(t) >= 2) /\ m_decoder.correction \in {0, 1}
  BY <1>1, Numbers, DecoderFields
<1>3. m_decoder.correction = 1 => Low
  BY DEF NumbersInv
<1> QED BY <1>2, <1>3 DEF Number

(* A SOT marker is followed by a tile-part that is not refused.            *)
LEMMA NextPart ==
    ASSUME IInv, WInv, Promised, InLoop, NEW n \in 0..LastPart, WalkInv(n), call.marker # "SOD"
    PROVE  LET p == codestream.parts[n + 1]
           IN  /\ n < LastPart /\ call.marker = "SOT" /\ n + 1 \in 1..LastPart
               /\ rest = From(4 * n + 3) /\ rest # <<>>
               /\ Head(rest).is = "segment" /\ Head(rest).n = n + 1 /\ TilePart = p
               /\ SODFollows /\ ~Refuses(p)
               /\ ReadOf(p.tile, n) < Number(p.tile)
               /\ p.num # 0 => p.num + m_decoder.correction = Number(p.tile)
               /\ NumberOfParts(p) \in {0, Number(p.tile)}
               /\ p.part = 0 /\ call.is = "get_tile" => p.num # 0
               /\ ~m_decoder.last_tile_part
<1>1. /\ call.pc = "loop" /\ call.marker # "EOC" /\ ~m_decoder.can_decode
      /\ m_private_image /\ calls > 0
  BY InWalk DEF InLoop
<1>2. /\ TypeInv /\ Whole(codestream) /\ (Conforms(codestream) \/ Low)
      /\ \A t \in Tile : Skips(t) <=> t \notin call.area
      /\ call.is = "get_tile" => call.area = {call.tile}
  BY <1>1, Wanted
<1>3. LastPart \in Nat /\ n \in Nat
  BY <1>2, Numbers
<1>4. n < LastPart /\ call.marker = "SOT" /\ rest = From(4 * n + 3)
  BY <1>1, <1>3 DEF WalkInv, PlaceInv
<1>5. n \in 0..(LastPart - 1) /\ n + 1 \in 1..LastPart
  BY <1>3, <1>4
<1>6. /\ rest # <<>> /\ Head(rest).is = "segment" /\ Head(rest).n = n + 1 /\ SODFollows
  BY <1>2, <1>4, <1>5, BehindSOT DEF SODFollows
<1>7. PICK p, t : p = codestream.parts[n + 1] /\ t = p.tile
  OBVIOUS
<1>8. /\ t \in Tile /\ p.part = ReadOf(t, n) /\ ReadOf(t, n) < Count(t) /\ p.num \in Nat
      /\ Conforms(codestream) => p.num \in {0, Count(t)}
      /\ Low => p.num = Count(t) - 1
      /\ ~(Conforms(codestream) /\ Low)
  BY <1>2, <1>5, <1>7, Numbers
<1>9. /\ Number(t) \in Nat \ {0} /\ Count(t) \in Nat \ {0}
      /\ m_decoder.correction \in {0, 1}
      /\ ~(Low /\ m_decoder.correction = 0) => Number(t) = Count(t)
      /\ Low /\ m_decoder.correction = 0 => Number(t) = Count(t) - 1 /\ Count(t) >= 2
      /\ m_decoder.correction = 1 => Low
  BY <1>1, <1>8, NumberIs DEF WalkInv
<1>10. ReadOf(t, n) \in Nat /\ n \in 0..LastPart
  BY <1>2, <1>3, <1>4, Counting
<1>11. ReadOf(t, n) < Number(t)
  <2>1. Low /\ m_decoder.correction = 0 => ReadOf(t, n) <= Number(t) /\ ReadOf(t, n) # Number(t)
    BY <1>1, <1>8 DEF WalkInv, RepairInv
  <2> QED BY <1>8, <1>9, <1>10, <2>1
<1>12. p.num # 0 => p.num + m_decoder.correction = Number(t)
  BY <1>2, <1>8, <1>9
<1>13. tcps[t].nb \in {0, Number(t)}
  BY <1>8 DEF WalkInv, NumbersInv
<1>14. NumberOfParts(p) \in {0, Number(t)}
  BY <1>7, <1>12, <1>13 DEF NumberOfParts
<1>15. m_decoder.tile_ind_to_dec \in {-1, t} => tcps[t].part = ReadOf(t, n) - 1
  <2>1. t \in call.area \/ call.is # "get_tile" => tcps[t].part = ReadOf(t, n) - 1
    BY <1>8 DEF WalkInv, TileInv
  <2>2. CASE m_decoder.tile_ind_to_dec = -1
    <3>1. call.is # "get_tile"
      BY <1>2, <2>2, CallFields, CodestreamFields DEF IInv, CallInv
    <3> QED BY <2>1, <3>1
  <2>3. CASE m_decoder.tile_ind_to_dec = t
    <3>1. ~Skips(t)
      BY <1>2, <1>8, <2>3, CodestreamFields DEF Skips
    <3> QED BY <1>2, <1>8, <2>1, <3>1
  <2> QED BY <2>2, <2>3
<1>16. ~Refuses(p)
  <2>1. m_decoder.tile_ind_to_dec \in {-1, t} => tcps[t].part + 1 = p.part
    BY <1>8, <1>10, <1>15
  <2>2. tcps[t].nb # 0 => ~(p.part >= tcps[t].nb)
    BY <1>8, <1>9, <1>10, <1>11, <1>13
  <2>3. p.num # 0 => ~(p.part >= p.num + m_decoder.correction)
    BY <1>8, <1>9, <1>10, <1>11, <1>12
  <2> QED BY <1>7, <1>8, <2>1, <2>2, <2>3 DEF Refuses
<1>17. p.part = 0 /\ call.is = "get_tile" => p.num # 0
  BY <1>5, <1>7 DEF Promised, Counted, LastPart
<1>18. TilePart = p
  BY <1>6, <1>7 DEF TilePart
<1>19. ~m_decoder.last_tile_part
  BY <1>3, <1>4 DEF WalkInv, RepairInv
<1> QED BY <1>4, <1>5, <1>6, <1>7, <1>11, <1>12, <1>14, <1>16, <1>17, <1>18, <1>19

(* No tile-part is refused, and the stream does not end before EOC.        *)
LEMMA NothingRefused ==
    ASSUME IInv, WInv, NoMoreTileParts \/ RefuseTilePart
    PROVE  WInv'
<1>1. InLoop /\ call.marker # "SOD" /\ call.pc # "idle"
  BY DEF NoMoreTileParts, RefuseTilePart, InLoop
<1>2. ASSUME Promised PROVE FALSE
  <2>1. PICK n \in 0..LastPart : WalkInv(n)
    BY <1>1, <1>2, InWalk
  <2>2. /\ rest # <<>> /\ Head(rest).is = "segment" /\ SODFollows /\ ~Refuses(TilePart)
    BY <1>1, <1>2, <2>1, NextPart
  <2> QED BY <2>2 DEF NoMoreTileParts, RefuseTilePart
<1> QED BY <1>2, WalkOn DEF Progress



\* What the step changes: it reads tile-part n, which is p, of tile t, and nb is
\* the number of tile-parts of that tile from then on.
TilePartRead(p, t, nb, n) ==
    /\ m_current_tile_number' = t
    /\ tcps'[t].part = p.part /\ tcps'[t].nb = nb /\ tcps'[t].data = tcps[t].data
    /\ \A u \in Tile : u # t => tcps'[u] = tcps[u] /\ tile_index'[u] = tile_index[u]
    /\ tile_index'[t].nb_tps = (IF p.num = 0 THEN tile_index[t].nb_tps
                                ELSE p.num + m_decoder.correction)
    /\ tile_index'[t].there
    /\ tile_index'[t].start = (IF p.part = 0 THEN n ELSE tile_index[t].start)
    /\ m_decoder'.state = {"TPH"}
    /\ m_decoder'.last_tile_part = (m_decoder.last_tile_part \/ p.open)
    /\ m_decoder'.can_decode = (nb # 0 /\ nb = p.part + 1)
    /\ m_decoder'.skip_data = Skips(t)
    /\ m_decoder'.correction = m_decoder.correction
    /\ m_decoder'.correction_checked = m_decoder.correction_checked
    /\ m_decoder'.last_sot_read_pos =
          (IF n > m_decoder.last_sot_read_pos THEN n ELSE m_decoder.last_sot_read_pos)
    /\ rest' = (IF Skips(t) THEN Tail(rest) ELSE SubSeq(rest, 3, Len(rest)))
    /\ call'.pc = "tile_part" /\ call'.is = call.is /\ call'.area = call.area
    /\ call'.nr_tiles = call.nr_tiles
    /\ UNCHANGED <<codestream, m_private_image, calls, image>>

(* That is what it changes, once it is known which tile-part it reads.     *)
LEMMA ReadSOTDoes ==
    ASSUME TypeInv, ReadSOT, NEW n \in 1..LastPart, Head(rest).n = n, ~m_decoder.can_decode,
           NEW p, p = codestream.parts[n], TilePart = p, NEW t \in Tile, t = p.tile,
           p.num \in Nat, p.part \in Nat, NEW nb, nb = NumberOfParts(p)
    PROVE  TilePartRead(p, t, nb, n)
<1>1. /\ m_current_tile_number' = t
      /\ tcps' = [tcps EXCEPT ![t].part = p.part, ![t].nb = nb]
      /\ m_decoder' = [m_decoder EXCEPT
                  !.state = {"TPH"},
                  !.last_tile_part = @ \/ p.open,
                  !.can_decode = @ \/ (nb # 0 /\ nb = p.part + 1),
                  !.skip_data = Skips(t),
                  !.last_sot_read_pos = IF n > @ THEN n ELSE @]
      /\ rest' = IF Skips(t) THEN Tail(rest) ELSE SubSeq(rest, 3, Len(rest))
      /\ call' = [call EXCEPT !.marker = "SOD", !.pc = "tile_part"]
      /\ tile_index' = [tile_index EXCEPT ![t] =
                  [nb_tps |-> IF p.num = 0 THEN @.nb_tps ELSE p.num + m_decoder.correction,
                   there |-> TRUE,
                   start |-> IF p.part = 0 THEN n ELSE @.start]]
      /\ UNCHANGED <<codestream, m_private_image, calls, image>>
  BY DEF ReadSOT
<1>2. /\ m_decoder \in DecoderSet(Tile) /\ tcps \in [Tile -> Tiles]
      /\ tile_index \in [Tile -> Indices] /\ call \in Calls /\ m_decoder.can_decode = FALSE
  BY TypeNow, DecoderFields
<1>3. nb \in Nat
  BY <1>2, DecoderFields, TileFields DEF NumberOfParts
<1>4. /\ m_decoder'.state = {"TPH"}
      /\ m_decoder'.last_tile_part = (m_decoder.last_tile_part \/ p.open)
      /\ m_decoder'.can_decode = (nb # 0 /\ nb = p.part + 1)
      /\ m_decoder'.skip_data = Skips(t)
      /\ m_decoder'.correction = m_decoder.correction
      /\ m_decoder'.correction_checked = m_decoder.correction_checked
      /\ m_decoder'.last_sot_read_pos =
            (IF n > m_decoder.last_sot_read_pos THEN n ELSE m_decoder.last_sot_read_pos)
  <2>1. PICK l, c, k, r : /\ l = (m_decoder.last_tile_part \/ p.open)
                          /\ c = (nb # 0 /\ nb = p.part + 1)
                          /\ k = Skips(t)
                          /\ r = IF n > m_decoder.last_sot_read_pos THEN n
                                 ELSE m_decoder.last_sot_read_pos
    OBVIOUS
  <2>2. m_decoder' = [m_decoder EXCEPT !.state = {"TPH"}, !.last_tile_part = l, !.can_decode = c,
                                       !.skip_data = k, !.last_sot_read_pos = r]
    <3>1. (m_decoder.can_decode \/ (nb # 0 /\ nb = p.part + 1)) = c
      BY <1>2, <2>1
    <3> QED BY <1>1, <2>1, <3>1
  <2>3. /\ m_decoder'.state = {"TPH"} /\ m_decoder'.last_tile_part = l /\ m_decoder'.can_decode = c
        /\ m_decoder'.skip_data = k /\ m_decoder'.correction = m_decoder.correction
        /\ m_decoder'.correction_checked = m_decoder.correction_checked
        /\ m_decoder'.last_sot_read_pos = r
    BY <1>2, <2>2 DEF DecoderSet
  <2> QED BY <1>2, <2>1, <2>3
<1>5. tcps'[t].part = p.part /\ tcps'[t].nb = nb /\ tcps'[t].data = tcps[t].data
      /\ \A u \in Tile : u # t => tcps'[u] = tcps[u]
  <2>1. p.part \in Int /\ tcps' = [tcps EXCEPT ![t].part = p.part, ![t].nb = nb]
    BY <1>1
  <2> QED BY <1>2, <1>3, <2>1, TilePartSet, SMTT(60)
<1>6. /\ tile_index'[t].nb_tps = (IF p.num = 0 THEN tile_index[t].nb_tps
                                  ELSE p.num + m_decoder.correction)
      /\ tile_index'[t].there
      /\ tile_index'[t].start = (IF p.part = 0 THEN n ELSE tile_index[t].start)
      /\ \A u \in Tile : u # t => tile_index'[u] = tile_index[u]
  BY <1>1, <1>2
<1>7. call'.pc = "tile_part" /\ call'.is = call.is /\ call'.area = call.area
      /\ call'.nr_tiles = call.nr_tiles
  BY <1>1, <1>2 DEF Calls
<1> QED BY <1>1, <1>4, <1>5, <1>6, <1>7 DEF TilePartRead

(* A tile-part is read, and continues its tile.                            *)
LEMMA ReadSOTWalks == ASSUME IInv, WInv, ReadSOT PROVE WInv'
<1>1. TypeInv /\ InLoop /\ call.pc = "loop" /\ call.marker # "SOD" /\ ~m_decoder.can_decode
  BY DEF ReadSOT, InLoop, IInv
<1> SUFFICES ASSUME Promised
             PROVE  call'.pc # "idle" /\ \E m \in 0..LastPart : WalkInv(m)'
  BY WalkOn DEF Progress
<1>2. PICK n \in 0..LastPart : WalkInv(n)
  BY <1>1, InWalk
<1>3. m_private_image /\ calls > 0
  BY <1>1, InWalk
<1>4. PICK p, t : p = codestream.parts[n + 1] /\ t = p.tile
  OBVIOUS
<1>5. /\ n < LastPart /\ n + 1 \in 1..LastPart /\ rest = From(4 * n + 3)
      /\ Head(rest).n = n + 1 /\ TilePart = p
      /\ ReadOf(t, n) < Number(t)
      /\ p.num # 0 => p.num + m_decoder.correction = Number(t)
      /\ NumberOfParts(p) \in {0, Number(t)}
      /\ p.part = 0 /\ call.is = "get_tile" => p.num # 0
      /\ ~m_decoder.last_tile_part
  BY <1>1, <1>2, <1>4, NextPart
<1>6. /\ Whole(codestream) /\ (Conforms(codestream) \/ Low)
      /\ \A u \in Tile : Skips(u) <=> u \notin call.area
      /\ call.is \in {"decode", "tile", "get_tile"}
  BY <1>3, Wanted
<1>7. LastPart \in Nat /\ n \in Nat /\ n \in 0..(LastPart - 1)
  BY <1>1, <1>5, <1>6, Numbers
<1>8. /\ t \in Tile /\ p.part = ReadOf(t, n) /\ ReadOf(t, n) < Count(t) /\ p.num \in Nat
      /\ p.open => n + 1 = LastPart
      /\ Low => p.num # 0
  <2>1. /\ t \in Tile /\ p.part = ReadOf(t, n) /\ ReadOf(t, n) < Count(t) /\ p.num \in Nat
        /\ p.open => n + 1 = LastPart
        /\ Low => p.num = Count(t) - 1
    BY <1>1, <1>4, <1>6, <1>7, Numbers
  <2>2. Low => Count(t) >= 2 /\ Count(t) \in Nat
    BY <1>1, <1>6, <2>1, Numbers
  <2> QED BY <2>1, <2>2
<1>9. \A u \in Tile : /\ ReadOf(u, n) \in Nat
                      /\ ReadOf(u, n + 1) = ReadOf(u, n) + IF t = u THEN 1 ELSE 0
  BY <1>1, <1>4, <1>5, <1>7, Counting, ZenonT(60)
<1>10. /\ Number(t) \in Nat \ {0} /\ m_decoder.correction \in {0, 1}
  BY <1>2, <1>3, <1>8, NumberIs DEF WalkInv
<1>11. PICK m \in 0..LastPart : m = n + 1 /\ m > 0
  BY <1>5, <1>7
<1>12. PICK nb : nb = NumberOfParts(p) /\ TilePartRead(p, t, nb, m)
  <2>1. m \in 1..LastPart /\ p.part \in Nat /\ Head(rest).n = m /\ p = codestream.parts[m]
    BY <1>4, <1>5, <1>8, <1>9, <1>11
  <2> QED BY <1>1, <1>4, <1>5, <1>8, <2>1, ReadSOTDoes
<1>13. /\ Tile' = Tile /\ LastPart' = LastPart /\ Low' = Low
       /\ (\A u : PartsOf(codestream, u)' = PartsOf(codestream, u))
       /\ (\A u : Count(u)' = Count(u)) /\ (\A u, i : ReadOf(u, i)' = ReadOf(u, i))
       /\ \A j : From(j)' = From(j)
  BY <1>12, Fixed DEF TilePartRead
<1>14. PlaceInv(m)'
  <2>1. Tail(rest) = From(4 * m) /\ SubSeq(rest, 3, Len(rest)) = From(4 * m + 1)
    BY <1>1, <1>5, <1>6, <1>7, <1>11, BehindSOT
  <2>2. rest' = From(IF Skips(t) THEN 4 * m ELSE 4 * m + 1)
    BY <1>12, <2>1 DEF TilePartRead
  <2>3. codestream'.parts[m].tile = t
    BY <1>4, <1>12, <1>11 DEF TilePartRead
  <2> QED BY <1>12, <1>13, <1>11, <2>2, <2>3 DEF PlaceInv, Between, TilePartRead
<1>15. NumbersInv' /\ \A u : Number(u)' = Number(u)
  <2>1. \A u : Number(u)' = Number(u)
    BY <1>12, <1>13 DEF Number, TilePartRead
  <2>2. \A u \in Tile : tcps'[u].nb \in {0, Number(u)}
    BY <1>2, <1>5, <1>12 DEF WalkInv, NumbersInv, TilePartRead
  <2>3. m_decoder.correction = IF Low /\ m_decoder.correction_checked THEN 1 ELSE 0
    BY <1>2 DEF WalkInv, NumbersInv
  <2> QED BY <1>12, <1>13, <2>1, <2>2, <2>3 DEF NumbersInv, TilePartRead
<1>16. RepairInv(m)'
  <2>1. m_decoder'.last_tile_part => m = LastPart
    BY <1>5, <1>8, <1>12, <1>11 DEF TilePartRead
  <2>2. ASSUME Low, m_decoder.correction = 0, NEW u \in Tile
        PROVE  /\ ReadOf(u, m) <= Number(u)
               /\ ReadOf(u, m) = Number(u) => m_decoder'.can_decode /\ t = u
    <3>1. CASE u = t
      <4>1. NumberOfParts(p) = Number(t)
        BY <1>5, <1>8, <2>2 DEF NumberOfParts
      <4>2. ReadOf(t, m) = p.part + 1 /\ p.part \in Nat
        BY <1>8, <1>9, <1>11
      <4>3. p.part + 1 <= Number(t) /\ Number(t) # 0
        BY <1>5, <1>8, <1>10, <4>2
      <4>4. p.part + 1 = Number(t) => m_decoder'.can_decode
        BY <1>12, <4>1, <4>3 DEF TilePartRead
      <4> QED BY <3>1, <4>2, <4>3, <4>4
    <3>2. CASE u # t
      <4>1. ReadOf(u, n) <= Number(u) /\ ReadOf(u, n) # Number(u)
        BY <1>1, <1>2, <2>2 DEF WalkInv, RepairInv
      <4>2. ReadOf(u, m) = ReadOf(u, n)
        BY <1>9, <1>11, <3>2
      <4> QED BY <4>1, <4>2
    <3> QED BY <3>1, <3>2
  <2> QED BY <1>12, <1>13, <1>15, <2>1, <2>2 DEF RepairInv, TilePartRead
<1>17. EndInv'
  BY <1>12, FlagsDiffer DEF EndInv, TilePartRead
<1>18. ASSUME NEW u \in Tile PROVE TileInv(u, m)'
  <2>1. TileInv(u, n)
    BY <1>2 DEF WalkInv
  <2>2. tcps'[u].data = tcps[u].data /\ image' = image /\ Complete(u)' = Complete(u)
    BY <1>12 DEF Complete, TilePartRead
  <2>3. tcps[u].part \in Int /\ tcps[u].data \in Seq(Pieces)
    BY <1>1, TileFields
  <2>4. Collected(u) = tcps[u].part + 1
    BY <1>1 DEF Collected
  <2>5. CASE u = t
    <3>1. tcps'[u].part = ReadOf(u, m) - 1 /\ Collected(u)' = ReadOf(u, n)
      BY <1>8, <1>9, <1>12, <1>11, <2>5 DEF Collected, TilePartRead
    <3>2. u \in call.area => /\ Len(tcps[u].data) = ReadOf(u, n) /\ image[u] = None
                             /\ \A i \in 1..Len(tcps[u].data) : tcps[u].data[i].is = "whole"
      <4>1. SUFFICES ASSUME u \in call.area
                     PROVE  /\ Len(tcps[u].data) = ReadOf(u, n) /\ image[u] = None
                            /\ \A i \in 1..Len(tcps[u].data) : tcps[u].data[i].is = "whole"
        OBVIOUS
      <4>2. ReadOf(u, n) # Count(u)
        BY <1>8, <1>9, <2>5
      <4>3. /\ tcps[u].part = ReadOf(u, n) - 1
            /\ \A i \in 1..Len(tcps[u].data) : tcps[u].data[i].is = "whole"
            /\ Len(tcps[u].data) = Collected(u)
            /\ image[u] = None \/ call.pc = "idle"
        BY <2>1, <4>1, <4>2 DEF TileInv
      <4> QED BY <1>1, <1>9, <2>4, <4>3
    <3> QED BY <1>12, <1>13, <2>1, <2>2, <3>1, <3>2 DEF TileInv, TilePartRead
  <2>6. CASE u # t
    <3>1. tcps'[u] = tcps[u] /\ ReadOf(u, m) = ReadOf(u, n)
      BY <1>9, <1>12, <1>11, <2>6 DEF TilePartRead
    <3>2. Collected(u)' = Collected(u)
      BY <1>12, <2>4, <2>6, <3>1 DEF Collected, TilePartRead
    <3> QED BY <1>1, <1>12, <1>13, <2>1, <2>2, <2>6, <3>1, <3>2 DEF TileInv, TilePartRead
  <2> QED BY <2>5, <2>6
<1>19. ASSUME call.is = "get_tile"
       PROVE  IndexInv(m_decoder.last_sot_read_pos)' /\ m <= m_decoder'.last_sot_read_pos
  <2>1. PICK k, l : k = m_decoder.last_sot_read_pos /\ l = IF m > k THEN m ELSE k
    OBVIOUS
  <2>2. IndexInv(k) /\ n <= k /\ k \in 0..LastPart
    BY <1>2, <1>19, <2>1 DEF WalkInv, IndexInv
  <2>3. l \in 0..LastPart /\ m <= l /\ (l = k \/ (l = m /\ k = n)) /\ m_decoder'.last_sot_read_pos = l
        /\ n \in 0..k /\ m \in 0..l
    BY <1>7, <1>12, <1>11, <2>1, <2>2 DEF TilePartRead
  <2>4. ASSUME NEW u \in Tile
        PROVE  /\ tile_index'[u].there <=> ReadOf(u, l) > 0
               /\ tile_index'[u].there <=> tile_index'[u].nb_tps # 0
               /\ tile_index'[u].there => /\ tile_index'[u].start \in PartsOf(codestream, u)
                                          /\ ReadOf(u, tile_index'[u].start - 1) = 0
    <3>1. /\ tile_index[u].there <=> ReadOf(u, k) > 0
          /\ tile_index[u].there <=> tile_index[u].nb_tps # 0
          /\ tile_index[u].there => /\ tile_index[u].start \in PartsOf(codestream, u)
                                    /\ ReadOf(u, tile_index[u].start - 1) = 0
      BY <2>2 DEF IndexInv
    <3>2. CASE u # t
      <4>1. ReadOf(u, l) = ReadOf(u, k)
        BY <1>9, <1>11, <2>3, <3>2
      <4> QED BY <1>12, <3>1, <3>2, <4>1 DEF TilePartRead
    <3>3. CASE u = t
      <4>1. ReadOf(u, m) <= ReadOf(u, l) /\ ReadOf(u, n) <= ReadOf(u, k)
            /\ ReadOf(u, l) \in Nat /\ ReadOf(u, k) \in Nat
        BY <1>1, <2>2, <2>3, Counting
      <4>2. ReadOf(u, m) = ReadOf(u, n) + 1 /\ ReadOf(u, n) \in Nat
        BY <1>9, <1>11, <3>3
      <4>3. ReadOf(u, l) > 0
        BY <4>1, <4>2
      <4>4. p.part # 0 => tile_index[u].there
        BY <1>8, <3>1, <3>3, <4>1, <4>2
      <4>5. tile_index'[u].nb_tps # 0
        BY <1>5, <1>10, <1>12, <1>19, <3>1, <3>3, <4>4 DEF TilePartRead
      <4>6. /\ tile_index'[u].start \in PartsOf(codestream, u)
            /\ ReadOf(u, tile_index'[u].start - 1) = 0
        <5>1. n + 1 \in PartsOf(codestream, u) /\ n + 1 - 1 = n
          BY <1>4, <1>5, <1>7, <3>3 DEF PartsOf, LastPart
        <5> QED BY <1>8, <1>11, <1>12, <3>1, <3>3, <4>4, <5>1 DEF TilePartRead
      <4> QED BY <1>12, <3>3, <4>3, <4>5, <4>6 DEF TilePartRead
    <3> QED BY <3>2, <3>3
  <2>5. IndexInv(l)'
    BY <1>13, <2>3, <2>4 DEF IndexInv
  <2>6. l' = l
    OBVIOUS
  <2> QED BY <2>3, <2>5 DEF IndexInv
<1>20. call'.is = "decode" => call'.nr_tiles = Cardinality(Decoded)'
  BY <1>1, <1>2, <1>12, <1>13 DEF WalkInv, Decoded, TilePartRead
<1>21. WalkInv(m)'
  BY <1>12, <1>13, <1>14, <1>15, <1>16, <1>17, <1>18, <1>19, <1>20 DEF WalkInv, TilePartRead
<1> QED BY <1>12, <1>21 DEF TilePartRead

(* Behind a tile-part the next marker is read, and the loop goes on.       *)
LEMMA NextMarker ==
    ASSUME TypeInv, Whole(codestream), NEW n \in 1..LastPart, NEW stream, stream = From(4 * n + 2),
           NEW decoder, NEW current, NEW data, GoOnReading(stream, decoder, current, data)
    PROVE  /\ rest' = From(4 * n + 3) /\ m_decoder' = decoder /\ tcps' = data
           /\ call'.pc = "loop" /\ call'.marker = IF n < LastPart THEN "SOT" ELSE "EOC"
           /\ call'.is = call.is /\ call'.area = call.area /\ call'.nr_tiles = call.nr_tiles
           /\ UNCHANGED <<codestream, m_private_image, m_current_tile_number, tile_index, calls,
                          image>>
<1>1. /\ stream # <<>> /\ Head(stream).is = IF n < LastPart THEN "SOT" ELSE "EOC"
      /\ Tail(stream) = From(4 * n + 3)
  BY BehindSOD
<1>2. IsMarker(Head(stream).is)
  BY <1>1 DEF IsMarker
<1>3. /\ rest' = Tail(stream)
      /\ m_decoder' = decoder
      /\ tcps' = data
      /\ call' = [call EXCEPT !.pc = "loop", !.marker = Head(stream).is]
      /\ UNCHANGED <<codestream, m_private_image, m_current_tile_number, tile_index, calls, image>>
  BY <1>1, <1>2 DEF GoOnReading
<1>4. call \in Calls
  BY TypeNow
<1>5. call'.pc = "loop" /\ call'.marker = Head(stream).is
      /\ call'.is = call.is /\ call'.area = call.area /\ call'.nr_tiles = call.nr_tiles
  BY <1>3, <1>4 DEF Calls
<1> QED BY <1>1, <1>3, <1>5

(* A tile-part that is not wanted is passed over.                          *)
LEMMA SkipTilePartWalks == ASSUME IInv, WInv, SkipTilePart PROVE WInv'
<1>1. TypeInv /\ call.pc = "tile_part" /\ m_decoder.skip_data
  BY DEF SkipTilePart, IInv
<1> SUFFICES ASSUME Promised
             PROVE  call'.pc # "idle" /\ \E m \in 0..LastPart : WalkInv(m)'
  BY WalkOn DEF Progress
<1>2. m_private_image /\ calls > 0
  BY <1>1, InWalk
<1>3. PICK n \in 0..LastPart : WalkInv(n)
  BY <1>1, InWalk
<1>4. /\ Whole(codestream) /\ \A u \in Tile : Skips(u) <=> u \notin call.area
      /\ Low => call.area = Tile
      /\ Open(codestream) => call.area = Tile
      /\ m_decoder.last_tile_part => Open(codestream)
      /\ Conforms(codestream) \/ Low
  BY <1>2, Wanted
<1>5. /\ n > 0 /\ codestream.parts[n].tile = m_current_tile_number /\ rest = From(4 * n)
  BY <1>1, <1>3 DEF WalkInv, PlaceInv
<1>6. n \in 1..LastPart /\ LastPart \in Nat
  BY <1>1, <1>4, <1>5, Numbers
<1>7. m_current_tile_number \in Tile /\ m_current_tile_number \notin call.area
      /\ ~m_decoder.last_tile_part /\ ~Low
  BY <1>1, <1>2, <1>4 DEF IInv, CompleteInv
<1>8. CanSkip /\ SkippedTo = From(4 * n + 2)
  BY <1>1, <1>4, <1>5, <1>6, <1>7, BehindSOD DEF CanSkip, SkippedTo
<1>9. GoOnReading(SkippedTo, WithSkipped(m_decoder), m_current_tile_number, tcps)
  BY <1>8 DEF SkipTilePart, WithSkipped
<1>10. /\ rest' = From(4 * n + 3) /\ m_decoder' = WithSkipped(m_decoder) /\ tcps' = tcps
       /\ call'.pc = "loop" /\ call'.marker = IF n < LastPart THEN "SOT" ELSE "EOC"
       /\ call'.is = call.is /\ call'.area = call.area /\ call'.nr_tiles = call.nr_tiles
       /\ UNCHANGED <<codestream, m_private_image, m_current_tile_number, tile_index, calls, image>>
  BY <1>1, <1>4, <1>6, <1>8, <1>9, NextMarker
<1>11. /\ m_decoder'.state = {"TPHSOT"} /\ m_decoder'.correction = m_decoder.correction
       /\ m_decoder'.correction_checked = m_decoder.correction_checked
       /\ m_decoder'.last_tile_part = m_decoder.last_tile_part
       /\ m_decoder'.last_sot_read_pos = m_decoder.last_sot_read_pos
  <2>1. m_decoder \in DecoderSet(Tile)
    BY <1>1, TypeNow
  <2> QED BY <1>10, <2>1 DEF WithSkipped, DecoderSet
<1>12. /\ Tile' = Tile /\ LastPart' = LastPart /\ Low' = Low
       /\ (\A u : PartsOf(codestream, u)' = PartsOf(codestream, u))
       /\ (\A u : Count(u)' = Count(u)) /\ (\A u, i : ReadOf(u, i)' = ReadOf(u, i))
       /\ \A j : From(j)' = From(j)
  BY <1>10, Fixed
<1>13. PlaceInv(n)'
  BY <1>10, <1>11, <1>12 DEF PlaceInv, Between
<1>14. NumbersInv' /\ RepairInv(n)' /\ EndInv'
  BY <1>3, <1>7, <1>10, <1>11, <1>12, FlagsDiffer
     DEF WalkInv, NumbersInv, Number, RepairInv, EndInv
<1>15. ASSUME NEW u \in Tile PROVE TileInv(u, n)'
  <2>1. TileInv(u, n) /\ Complete(u)' = Complete(u)
    BY <1>3, <1>10 DEF WalkInv, Complete
  <2>2. u \in call.area => Collected(u)' = Collected(u)
    BY <1>1, <1>7, <1>10 DEF Collected
  <2> QED BY <1>1, <1>7, <1>10, <1>12, <2>1, <2>2 DEF TileInv
<1>16. /\ call'.is = "decode" => call'.nr_tiles = Cardinality(Decoded)'
       /\ call'.is = "get_tile" =>
            IndexInv(m_decoder.last_sot_read_pos)' /\ n <= m_decoder'.last_sot_read_pos
  BY <1>1, <1>3, <1>10, <1>11, <1>12 DEF WalkInv, Decoded, IndexInv
<1>17. WalkInv(n)'
  BY <1>10, <1>12, <1>13, <1>14, <1>15, <1>16 DEF WalkInv
<1> QED BY <1>10, <1>17

(* A tile that is complete by its number comes again only if the numbers   *)
(* are too low, and then its next tile-part gives that away.               *)
LEMMA CorrectionNeeded ==
    ASSUME IInv, WInv, m_private_image, calls > 0, Promised,
           NEW n \in 1..LastPart, WalkInv(n), Checks,
           NEW t \in Tile, t = m_current_tile_number, call.pc = "tile_part",
           t \in call.area, NEW stream, stream = From(4 * n + 2)
    PROVE  ~SearchFails(t, stream) /\ (NeedsCorrection(t, stream) <=> Low)
           /\ (Low => m_decoder.correction = 0)
<1>1. /\ TypeInv /\ Whole(codestream) /\ (Conforms(codestream) \/ Low)
  BY Wanted
<1>2. Tells(stream, t, n)
  BY <1>1, SegmentsBehind
<1>3. ~SearchFails(t, stream)
  BY <1>2 DEF Tells, SearchFails
<1>4. PICK again : again = {j \in 1..Len(stream) : /\ stream[j].is = "segment"
                                                   /\ codestream.parts[stream[j].n].tile = t}
  OBVIOUS
<1>5. PICK k, p : /\ k = (CHOOSE j \in again : \A i \in again : j <= i)
                  /\ p = codestream.parts[stream[k].n]
  OBVIOUS
<1>6. NeedsCorrection(t, stream) <=> again # {} /\ p.part = p.num
  BY <1>4, <1>5 DEF NeedsCorrection
<1>7. m_decoder.correction_checked = FALSE /\ NumbersInv
      /\ m_decoder.correction = 0 /\ LastPart \in Nat /\ n \in 0..LastPart /\ n \in Nat
  BY <1>1, DecoderFields, Numbers DEF Checks, WalkInv, NumbersInv
<1>8. /\ ReadOf(t, n) \in Nat /\ ReadOf(t, n) <= Count(t) /\ Count(t) \in Nat
      /\ \A m \in PartsOf(codestream, t) : m \in 1..LastPart /\ codestream.parts[m].tile = t
                                           /\ (ReadOf(t, n) = Count(t) => m <= n)
  <2>1. ReadOf(t, n) \in Nat /\ ReadOf(t, n) <= Count(t) /\ Count(t) \in Nat
    BY <1>1, <1>7, Counting
  <2>2. ASSUME NEW m \in PartsOf(codestream, t)
        PROVE  m \in 1..LastPart /\ codestream.parts[m].tile = t
               /\ (ReadOf(t, n) = Count(t) => m <= n)
    BY <1>1, <1>7, CountingParts
  <2> QED BY <2>1, <2>2
<1>9. ReadOf(t, n) = Number(t)
  <2>1. tcps[t].nb = tcps[t].part + 1 /\ tcps[t].part >= 0
    BY DEF IInv, CompleteInv, Checks
  <2>2. tcps[t].part = ReadOf(t, n) - 1 /\ tcps[t].nb \in {0, Number(t)}
    BY <1>7 DEF WalkInv, TileInv, NumbersInv
  <2> QED BY <1>8, <2>1, <2>2
<1>10. CASE ~Low
  <2>1. \A m \in PartsOf(codestream, t) : m <= n /\ m \in Nat
    BY <1>8, <1>9, <1>10 DEF Number
  <2>2. again = {}
    BY <1>2, <1>4, <1>7, <2>1 DEF Tells
  <2> QED BY <1>3, <1>6, <1>10, <2>2
<1>11. CASE Low
  <2>1. Count(t) >= 2 /\ ReadOf(t, n) = Count(t) - 1
    BY <1>1, <1>7, <1>8, <1>9, <1>11, Numbers DEF Number
  <2>2. PICK m \in PartsOf(codestream, t) : m > n
    <3>1. SUFFICES ASSUME \A m \in PartsOf(codestream, t) : ~(m > n) PROVE FALSE
      OBVIOUS
    <3>2. PartsOf(codestream, t) = {m \in PartsOf(codestream, t) : m <= n}
      BY <1>7, <1>8, <3>1
    <3>3. ReadOf(t, n) = Count(t)
      BY <3>2, Zenon DEF ReadOf, Count
    <3> QED BY <1>8, <2>1, <3>3
  <2>3. again # {} /\ again \subseteq Nat
    BY <1>2, <1>4, <1>8, <2>2 DEF Tells
  <2>4. k \in again
    BY <1>5, <2>3, Minimum
  <2>5. PICK m1 \in PartsOf(codestream, t) : m1 = stream[k].n /\ m1 > n
    BY <1>2, <1>4, <2>4 DEF Tells
  <2>6. m1 \in 1..LastPart
    BY <1>8, <2>5
  <2>7. PICK i \in 0..(LastPart - 1) : m1 = i + 1 /\ n \in 0..i
    <3>1. m1 - 1 \in 0..(LastPart - 1) /\ m1 = (m1 - 1) + 1 /\ n \in 0..(m1 - 1)
      BY <1>7, <2>5, <2>6
    <3> QED BY <3>1
  <2>8. /\ p.tile = t /\ p.part = ReadOf(t, i) /\ ReadOf(t, i) < Count(t) /\ p.num = Count(t) - 1
    BY <1>1, <1>5, <1>8, <1>11, <2>5, <2>7, Numbers
  <2>9. i \in 0..LastPart
    BY <1>7, <2>7
  <2>10. ReadOf(t, n) <= ReadOf(t, i) /\ ReadOf(t, i) \in Nat
    BY <1>1, <2>7, <2>9, Counting
  <2>11. p.part = p.num
    BY <1>8, <2>1, <2>8, <2>10
  <2> QED BY <1>3, <1>6, <1>7, <1>11, <2>3, <2>11
<1> QED BY <1>10, <1>11

\* The tiles after opj_j2k_read_sod and the correction that may follow it.
TilesRead == IF Corrects THEN Corrected(DataRead) ELSE DataRead

(* What the tiles are, if the data is read whole.                          *)
LEMMA TilesReadAre ==
    ASSUME TypeInv, NEW t \in Tile, t = m_current_tile_number, tcps[t].part >= 0,
           DataReadIs = "whole"
    PROVE  /\ \A u \in Tile :
                /\ TilesRead[u].part = tcps[u].part
                /\ TilesRead[u].nb = IF Corrects /\ tcps[u].nb # 0 THEN tcps[u].nb + 1 ELSE tcps[u].nb
                /\ u # t => TilesRead[u].data = tcps[u].data
           /\ Len(TilesRead[t].data) = Len(tcps[t].data) + 1 /\ TilesRead[t].data # None
           /\ (\A i \in 1..Len(tcps[t].data) : tcps[t].data[i].is = "whole") =>
                 \A i \in 1..Len(TilesRead[t].data) : TilesRead[t].data[i].is = "whole"
<1>1. tcps \in [Tile -> Tiles] /\ tcps[t].data \in Seq(Pieces) /\ tcps[t].part \in Nat
  BY TileFields
<1>2. PICK x, d : x = Piece(tcps[t].part, "whole") /\ d = Append(tcps[t].data, x)
  OBVIOUS
<1>3. x \in Pieces /\ x.is = "whole"
  BY <1>1, <1>2 DEF Piece, Pieces
<1>4. /\ d \in Seq(Pieces) /\ Len(d) = Len(tcps[t].data) + 1 /\ d # None
      /\ \A i \in 1..Len(tcps[t].data) : d[i] = tcps[t].data[i]
      /\ d[Len(tcps[t].data) + 1] = x
  BY <1>1, <1>2, <1>3 DEF None
<1>5. DataRead = WithData(tcps, t, d)
  BY <1>2 DEF DataRead
<1>6. /\ DataRead \in [Tile -> Tiles]
      /\ DataRead[t].part = tcps[t].part /\ DataRead[t].nb = tcps[t].nb /\ DataRead[t].data = d
      /\ \A u \in Tile : u # t => DataRead[u] = tcps[u]
  BY <1>1, <1>4, <1>5, TileDataSet
<1>7. \A u \in Tile :
         /\ Corrected(DataRead)[u].part = DataRead[u].part
         /\ Corrected(DataRead)[u].data = DataRead[u].data
         /\ Corrected(DataRead)[u].nb = IF DataRead[u].nb # 0 THEN DataRead[u].nb + 1 ELSE 0
  <2>1. ASSUME NEW u \in Tile
        PROVE  Corrected(DataRead)[u].nb = IF DataRead[u].nb # 0 THEN DataRead[u].nb + 1 ELSE 0
    <3>1. DataRead[u] \in Tiles
      BY <1>6
    <3>2. Corrected(DataRead)[u] =
            [DataRead[u] EXCEPT !.nb = IF DataRead[u].nb # 0 THEN DataRead[u].nb + 1 ELSE 0]
      BY DEF Corrected
    <3> QED BY <3>1, <3>2 DEF Tiles
  <2> QED BY <1>6, <2>1, CorrectedTiles
<1>8. ASSUME NEW u \in Tile
      PROVE  /\ TilesRead[u].part = tcps[u].part
             /\ TilesRead[u].nb = IF Corrects /\ tcps[u].nb # 0 THEN tcps[u].nb + 1 ELSE tcps[u].nb
             /\ TilesRead[u].data = IF u = t THEN d ELSE tcps[u].data
  <2>1. DataRead[u].part = tcps[u].part /\ DataRead[u].nb = tcps[u].nb
        /\ DataRead[u].data = IF u = t THEN d ELSE tcps[u].data
    BY <1>6
  <2> QED BY <1>7, <2>1 DEF TilesRead
<1>9. (\A i \in 1..Len(tcps[t].data) : tcps[t].data[i].is = "whole") =>
                 \A i \in 1..Len(d) : d[i].is = "whole"
  <2>1. \A i \in 1..Len(d) : i \in 1..Len(tcps[t].data) \/ i = Len(tcps[t].data) + 1
    BY <1>1, <1>4
  <2> QED BY <1>3, <1>4, <2>1
<1> QED BY <1>4, <1>8, <1>9

(* The data of a tile-part that is wanted is read, all of it.              *)
LEMMA ReadSODWalks == ASSUME IInv, WInv, ReadSOD PROVE WInv'
<1>1. TypeInv /\ call.pc # "idle"
  BY DEF ReadSOD, InLoop, IInv
<1> SUFFICES ASSUME Promised
             PROVE  call'.pc # "idle" /\ \E m \in 0..LastPart : WalkInv(m)'
  BY WalkOn DEF Progress
<1>2. m_private_image /\ calls > 0
  BY <1>1, InWalk
<1>3. PICK n \in 0..LastPart : WalkInv(n)
  BY <1>1, InWalk
<1>4. call.pc = "tile_part" /\ ~m_decoder.skip_data
  BY <1>3 DEF ReadSOD, InLoop, WalkInv, PlaceInv
<1>5. /\ Whole(codestream) /\ \A u \in Tile : Skips(u) <=> u \notin call.area
      /\ Conforms(codestream) \/ Low
  BY <1>2, Wanted
<1>6. /\ n > 0 /\ rest = From(4 * n + 1)
  BY <1>3, <1>4 DEF WalkInv, PlaceInv
<1>7. n \in 1..LastPart /\ LastPart \in Nat
  BY <1>1, <1>5, <1>6, Numbers
<1>8. PICK t \in Tile : t = m_current_tile_number
  BY <1>2, <1>4 DEF IInv, CompleteInv
<1>9. t \in call.area /\ tcps[t].part >= 0 /\ tcps[t].part \in Nat
  <2>1. tcps[t].part >= 0 /\ ~Skips(t)
    BY <1>2, <1>4, <1>8 DEF IInv, CompleteInv
  <2> QED BY <1>1, <1>5, <2>1, TileFields
<1>10. /\ AfterData = From(4 * n + 2) /\ DataReadIs = "whole"
       /\ rest # <<>> /\ Head(rest).is = "data"
  <2>1. /\ rest # <<>> /\ Head(rest).is = "data" /\ Tail(rest) = From(4 * n + 2)
        /\ n = LastPart => Len(rest) = 2 /\ rest[2].is = "EOC" /\ <<rest[2]>> = From(4 * n + 2)
    BY <1>1, <1>5, <1>6, <1>7, BehindSOD
  <2>2. m_decoder.last_tile_part => n = LastPart
    BY <1>3 DEF WalkInv, RepairInv
  <2> QED BY <2>1, <2>2 DEF AfterData, DataReadIs
<1>11. /\ ~(Checks /\ SearchFails(t, AfterData)) /\ (Corrects <=> Checks /\ Low)
       /\ Checks /\ Low => m_decoder.correction = 0
  BY <1>2, <1>3, <1>4, <1>7, <1>8, <1>9, <1>10, CorrectionNeeded DEF Corrects
<1>12. \/ /\ DecoderRead.can_decode /\ ~Corrects
          /\ rest' = From(4 * n + 2) /\ m_decoder' = DecoderRead /\ tcps' = TilesRead
          /\ call' = [call EXCEPT !.pc = "after_loop"]
          /\ UNCHANGED <<codestream, m_private_image, m_current_tile_number, tile_index, calls, image>>
       \/ /\ ~DecoderRead.can_decode
          /\ GoOnReading(AfterData, DecoderRead, m_current_tile_number, TilesRead)
  BY <1>1, <1>8, <1>10, <1>11, ReadSODDoes, DecoderReadIs DEF TilesRead
<1>13. /\ m_decoder' = DecoderRead /\ tcps' = TilesRead
       /\ \/ /\ DecoderRead.can_decode /\ call'.pc = "after_loop" /\ rest' = From(4 * n + 2)
          \/ /\ ~DecoderRead.can_decode /\ call'.pc = "loop" /\ rest' = From(4 * n + 3)
             /\ call'.marker = IF n < LastPart THEN "SOT" ELSE "EOC"
       /\ call'.is = call.is /\ call'.area = call.area /\ call'.nr_tiles = call.nr_tiles
       /\ UNCHANGED <<codestream, m_private_image, m_current_tile_number, tile_index, calls, image>>
  <2>1. CASE DecoderRead.can_decode
    BY <1>1, <1>12, <2>1 DEF TypeInv, Calls
  <2>2. CASE ~DecoderRead.can_decode
    BY <1>1, <1>5, <1>7, <1>10, <1>12, <2>2, NextMarker
  <2> QED BY <2>1, <2>2
<1>14. /\ m_decoder'.state = {"TPHSOT"}
       /\ m_decoder'.can_decode <=> m_decoder.can_decode /\ ~Corrects
       /\ m_decoder'.last_tile_part = m_decoder.last_tile_part
       /\ m_decoder'.correction_checked <=> m_decoder.correction_checked \/ m_decoder.can_decode
       /\ m_decoder'.correction = IF Corrects THEN 1 ELSE m_decoder.correction
       /\ m_decoder'.last_sot_read_pos = m_decoder.last_sot_read_pos
  BY <1>1, <1>13, DecoderReadIs
<1>15. /\ \A u \in Tile :
            /\ tcps'[u].part = tcps[u].part
            /\ tcps'[u].nb = IF Corrects /\ tcps[u].nb # 0 THEN tcps[u].nb + 1 ELSE tcps[u].nb
            /\ u # t => tcps'[u].data = tcps[u].data
       /\ Len(tcps'[t].data) = Len(tcps[t].data) + 1 /\ tcps'[t].data # None
       /\ (\A i \in 1..Len(tcps[t].data) : tcps[t].data[i].is = "whole") =>
                 \A i \in 1..Len(tcps'[t].data) : tcps'[t].data[i].is = "whole"
  BY <1>1, <1>8, <1>9, <1>10, <1>13, TilesReadAre
<1>16. /\ Tile' = Tile /\ LastPart' = LastPart /\ Low' = Low
       /\ (\A u : PartsOf(codestream, u)' = PartsOf(codestream, u))
       /\ (\A u : Count(u)' = Count(u)) /\ (\A u, i : ReadOf(u, i)' = ReadOf(u, i))
       /\ \A j : From(j)' = From(j)
  BY <1>13, Fixed
<1>17. PlaceInv(n)'
  BY <1>8, <1>9, <1>13, <1>14, <1>15, <1>16 DEF PlaceInv, Between
<1>18. NumbersInv'
  <2>1. /\ m_decoder.correction = IF Low /\ m_decoder.correction_checked THEN 1 ELSE 0
        /\ \A u \in Tile : tcps[u].nb \in {0, Number(u)}
    BY <1>3 DEF WalkInv, NumbersInv
  <2>2. m_decoder'.correction = IF Low /\ m_decoder'.correction_checked THEN 1 ELSE 0
    BY <1>11, <1>14, <2>1 DEF Checks
  <2>3. ASSUME NEW u \in Tile PROVE tcps'[u].nb \in {0, Number(u)'}
    <3>1. CASE Corrects
      <4>1. Number(u) = Count(u) - 1 /\ Number(u)' = Count(u) /\ Count(u) \in Nat
            /\ Number(u) \in Nat \ {0}
        BY <1>2, <1>3, <1>11, <1>14, <1>16, <3>1, NumberIs DEF WalkInv, Number
      <4> QED BY <1>15, <2>1, <3>1, <4>1
    <3>2. CASE ~Corrects
      <4>1. Number(u)' = Number(u)
        BY <1>14, <1>16, <3>2 DEF Number
      <4> QED BY <1>15, <2>1, <3>2, <4>1
    <3> QED BY <3>1, <3>2
  <2> QED BY <1>16, <2>2, <2>3 DEF NumbersInv
<1>19. RepairInv(n)'
  <2>1. ASSUME Low, m_decoder'.correction = 0, NEW u \in Tile
        PROVE  /\ ReadOf(u, n) <= Number(u)' /\ ReadOf(u, n) # Number(u)'
    <3>1. ~Corrects /\ m_decoder.correction = 0 /\ ~m_decoder.can_decode
      <4>1. ~Corrects /\ m_decoder.correction = 0
        BY <1>14, <2>1
      <4>2. ~m_decoder.correction_checked
        BY <1>3, <2>1, <4>1 DEF WalkInv, NumbersInv
      <4> QED BY <1>11, <2>1, <4>1, <4>2 DEF Checks
    <3>2. Number(u)' = Number(u)
      BY <1>14, <1>16, <3>1 DEF Number
    <3> QED BY <1>3, <2>1, <3>1, <3>2 DEF WalkInv, RepairInv
  <2>2. m_decoder'.last_tile_part => n = LastPart
    BY <1>3, <1>14 DEF WalkInv, RepairInv
  <2> QED BY <1>16, <2>1, <2>2 DEF RepairInv
<1>20. EndInv'
  BY <1>14, FlagsDiffer DEF EndInv
<1>21. ASSUME NEW u \in Tile PROVE TileInv(u, n)'
  <2>1. TileInv(u, n) /\ Complete(u)' = Complete(u)
    BY <1>3, <1>13 DEF WalkInv, Complete
  <2>2. tcps[u].part \in Int /\ tcps[u].data \in Seq(Pieces)
    BY <1>1, TileFields
  <2>3. Collected(u)' = tcps[u].part + 1
    BY <1>13, <1>15 DEF Collected
  <2>4. CASE u = t
    <3>1. /\ Len(tcps[u].data) = Collected(u) /\ image[u] = None
          /\ \A i \in 1..Len(tcps[u].data) : tcps[u].data[i].is = "whole"
          /\ tcps[u].part = ReadOf(u, n) - 1
      BY <1>4, <1>8, <1>9, <2>1, <2>4 DEF TileInv
    <3>2. Collected(u) = tcps[u].part
      BY <1>4, <1>8, <2>4 DEF Collected
    <3>3. Len(tcps'[u].data) = Collected(u)'
      BY <1>15, <2>3, <2>4, <3>1, <3>2
    <3> QED BY <1>9, <1>13, <1>15, <1>16, <2>4, <3>1, <3>3 DEF TileInv
  <2>5. CASE u # t
    <3>1. Collected(u) = tcps[u].part + 1
      BY <1>8, <2>5 DEF Collected
    <3>2. tcps'[u].data = tcps[u].data /\ tcps'[u].part = tcps[u].part
      BY <1>15, <2>5
    <3> QED BY <1>4, <1>13, <1>16, <2>1, <2>3, <3>1, <3>2 DEF TileInv
  <2> QED BY <2>4, <2>5
<1>22. /\ call'.is = "decode" => call'.nr_tiles = Cardinality(Decoded)'
       /\ call'.is = "get_tile" =>
            IndexInv(m_decoder.last_sot_read_pos)' /\ n <= m_decoder'.last_sot_read_pos
  BY <1>1, <1>3, <1>13, <1>14, <1>16 DEF WalkInv, Decoded, IndexInv
<1>23. WalkInv(n)'
  BY <1>13, <1>16, <1>17, <1>18, <1>19, <1>20, <1>21, <1>22 DEF WalkInv
<1> QED BY <1>13, <1>23

(* What is left unchanged in m_decoder when its state is set.              *)
LEMMA StateLeaves ==
    ASSUME TypeInv, NEW s
    PROVE  /\ WithState(m_decoder, s).state = s
           /\ WithState(m_decoder, s).can_decode = m_decoder.can_decode
           /\ WithState(m_decoder, s).last_tile_part = m_decoder.last_tile_part
           /\ WithState(m_decoder, s).correction = m_decoder.correction
           /\ WithState(m_decoder, s).correction_checked = m_decoder.correction_checked
           /\ WithState(m_decoder, s).last_sot_read_pos = m_decoder.last_sot_read_pos
           /\ WithState(m_decoder, s).area = m_decoder.area
<1>1. m_decoder \in DecoderSet(Tile)
  BY DecoderTyped
<1> QED BY <1>1 DEF DecoderSet, WithState

(* What a step that only moves on in the call leaves of the walk.          *)
LEMMA WalkMoves ==
    ASSUME TypeInv, NEW n \in 0..LastPart, WalkInv(n),
           UNCHANGED <<codestream, tcps, tile_index, image>>,
           call.pc \notin {"idle", "tile_part"}, call'.pc \notin {"idle", "tile_part"},
           call'.is = call.is, call'.area = call.area, call'.nr_tiles = call.nr_tiles,
           m_decoder'.can_decode = m_decoder.can_decode,
           m_decoder'.last_tile_part = m_decoder.last_tile_part,
           m_decoder'.correction = m_decoder.correction,
           m_decoder'.correction_checked = m_decoder.correction_checked,
           m_decoder'.last_sot_read_pos = m_decoder.last_sot_read_pos,
           m_decoder.can_decode => m_current_tile_number' = m_current_tile_number,
           PlaceInv(n)', EndInv'
    PROVE  WalkInv(n)'
<1>1. /\ Tile' = Tile /\ LastPart' = LastPart /\ Low' = Low
      /\ (\A u : PartsOf(codestream, u)' = PartsOf(codestream, u))
      /\ (\A u : Count(u)' = Count(u)) /\ (\A u, i : ReadOf(u, i)' = ReadOf(u, i))
  BY Fixed
<1>2. NumbersInv' /\ RepairInv(n)'
  BY <1>1 DEF WalkInv, NumbersInv, Number, RepairInv
<1>3. ASSUME NEW u \in Tile PROVE TileInv(u, n)'
  <2>1. TileInv(u, n) /\ Complete(u)' = Complete(u) /\ Collected(u)' = Collected(u)
    BY DEF WalkInv, Complete, Collected
  <2> QED BY <1>1, <2>1 DEF TileInv
<1>4. /\ call'.is = "decode" => call'.nr_tiles = Cardinality(Decoded)'
      /\ call'.is = "get_tile" =>
           IndexInv(m_decoder.last_sot_read_pos)' /\ n <= m_decoder'.last_sot_read_pos
  BY <1>1 DEF WalkInv, Decoded, IndexInv
<1> QED BY <1>1, <1>2, <1>3, <1>4 DEF WalkInv

(* Which tile comes next: the one that is complete, or the first that      *)
(* holds data when the codestream has ended.                               *)
LEMMA AfterLoopWalks == ASSUME IInv, WInv, AfterLoop PROVE WInv'
<1>1. TypeInv /\ call.pc # "idle" /\ call.pc \in {"after_loop", "loop"}
  BY DEF AfterLoop, IInv
<1> SUFFICES ASSUME Promised
             PROVE  call'.pc # "idle" /\ \E m \in 0..LastPart : WalkInv(m)'
  BY WalkOn DEF Progress
<1>2. m_private_image /\ calls > 0
  BY <1>1, InWalk
<1>3. PICK n \in 0..LastPart : WalkInv(n)
  BY <1>1, InWalk
<1>4. /\ Whole(codestream) /\ LastPart \in Nat /\ Tile \subseteq Nat /\ 0 \in Tile
      /\ Tile = 0..(codestream.tiles - 1) /\ codestream.tiles \in Nat
      /\ m_current_tile_number \in Nat
  <2>1. m_current_tile_number \in 0..codestream.tiles
    BY <1>1 DEF TypeInv, TypeOK
  <2>2. Whole(codestream) /\ (Conforms(codestream) \/ Low)
    BY <1>2, Wanted
  <2>3. LastPart \in Nat
    BY <1>1, <2>2, Numbers
  <2>4. codestream.tiles \in Nat /\ Tile \subseteq Nat /\ 0 \in Tile
    BY <1>1, CodestreamFields
  <2> QED BY <2>1, <2>2, <2>3, <2>4 DEF Tile
<1>5. UNCHANGED <<codestream, rest, m_private_image, tcps, tile_index, calls, image>>
  BY DEF AfterLoop
<1>6. \A pc : Go(pc) => /\ call'.pc = pc /\ call'.is = call.is /\ call'.area = call.area
                        /\ call'.nr_tiles = call.nr_tiles
  BY <1>1 DEF TypeInv, Calls, Go
<1> DEFINE Same ==
        /\ m_decoder'.can_decode = m_decoder.can_decode
        /\ m_decoder'.last_tile_part = m_decoder.last_tile_part
        /\ m_decoder'.correction = m_decoder.correction
        /\ m_decoder'.correction_checked = m_decoder.correction_checked
        /\ m_decoder'.last_sot_read_pos = m_decoder.last_sot_read_pos
<1>7. \A s : m_decoder' = WithState(m_decoder, s) => Same /\ m_decoder'.state = s
  BY <1>1, StateLeaves
<1> HIDE DEF Same
<1>8. /\ LastPart' = LastPart /\ Tile' = Tile /\ \A j : From(j)' = From(j)
  BY <1>5, Fixed
<1>9. CASE call.pc = "after_loop"
  <2>1. /\ m_decoder.can_decode /\ call.marker = "SOD" /\ m_decoder.state = {"TPHSOT"}
        /\ m_current_tile_number \in call.area /\ tcps[m_current_tile_number].data # None
        /\ rest = From(4 * n + 2)
    BY <1>2, <1>3, <1>9 DEF IInv, CompleteInv, StateInv, WalkInv, PlaceInv
  <2>2. /\ m_current_tile_number' = m_current_tile_number
        /\ m_decoder' = WithState(m_decoder, m_decoder.state \cup {"DATA"})
        /\ Go("decode_tile")
    BY <2>1 DEF AfterLoop, WithState
  <2>3. /\ Same /\ m_decoder'.state = {"TPHSOT", "DATA"}
        /\ call'.pc = "decode_tile" /\ call'.is = call.is /\ call'.area = call.area
        /\ call'.nr_tiles = call.nr_tiles
    BY <1>6, <1>7, <2>1, <2>2, FlagsDiffer
  <2>4. PlaceInv(n)'
    BY <1>5, <1>8, <2>1, <2>2, <2>3 DEF PlaceInv, Between, Same
  <2>5. EndInv'
    BY <2>3, FlagsDiffer DEF EndInv
  <2>6. WalkInv(n)'
    BY <1>1, <1>3, <1>5, <1>9, <2>2, <2>3, <2>4, <2>5, WalkMoves DEF Same
  <2> QED BY <2>3, <2>6
<1>10. CASE call.pc = "loop"
  <2>1. ~m_decoder.can_decode /\ call.marker = "EOC"
    BY <1>2, <1>10 DEF AfterLoop, IInv, CompleteInv
  <2>2. n = LastPart /\ rest = <<>>
    <3>1. n = LastPart /\ rest = From(4 * n + 3)
      BY <1>3, <1>4, <1>10, <2>1 DEF WalkInv, PlaceInv
    <3> QED BY <1>1, <1>4, <3>1, StreamAt
  <2>3. m_decoder.state \in {{"TPHSOT"}, {"EOC"}}
    BY <1>2, <1>10 DEF IInv, StateInv
  <2>4. PICK start \in Nat : start = IF m_decoder.state # {"EOC"} THEN 0 ELSE m_current_tile_number
    BY <1>4
  <2>5. \A u \in Tile : u < start => tcps[u].data = None
    <3>1. CASE m_decoder.state = {"EOC"}
      BY <1>3, <2>4, <3>1 DEF WalkInv, EndInv
    <3>2. CASE m_decoder.state # {"EOC"}
      BY <1>4, <2>4, <3>2
    <3> QED BY <3>1, <3>2
  <2>6. PICK ended : ended = (call.marker = "EOC" /\ m_decoder.state # {"EOC"})
    OBVIOUS
  <2>7. /\ (IF ended THEN 0 ELSE m_current_tile_number) = start
        /\ (IF ended THEN {"EOC"} ELSE m_decoder.state) = {"EOC"}
    BY <2>1, <2>4, <2>6
  <2>8. CASE Pending(start) = {}
    <3>1. /\ m_current_tile_number' = codestream.tiles
          /\ m_decoder' = WithState(m_decoder, {"EOC"}) /\ Go("no_more")
      BY <2>1, <2>6, <2>7, <2>8 DEF AfterLoop, WithState
    <3>2. /\ Same /\ m_decoder'.state = {"EOC"}
          /\ call'.pc = "no_more" /\ call'.is = call.is /\ call'.area = call.area
          /\ call'.nr_tiles = call.nr_tiles
      BY <1>6, <1>7, <3>1
    <3>3. PlaceInv(n)'
      BY <1>5, <1>8, <2>2, <3>1, <3>2 DEF PlaceInv, Between
    <3>4. \A u \in Tile : tcps[u].data = None
      BY <1>4, <2>5, <2>8 DEF Pending
    <3>5. EndInv'
      BY <1>5, <1>8, <3>4 DEF EndInv
    <3>6. WalkInv(n)'
      BY <1>1, <1>3, <1>5, <1>10, <2>1, <3>1, <3>2, <3>3, <3>5, WalkMoves DEF Same
    <3> QED BY <3>2, <3>6
  <2>9. CASE Pending(start) # {}
    <3>1. PICK t : /\ t = CHOOSE u \in Pending(start) : \A v \in Pending(start) : u <= v
                   /\ m_current_tile_number' = t
                   /\ m_decoder' = WithState(m_decoder, {"EOC"} \cup {"DATA"}) /\ Go("decode_tile")
      BY <2>1, <2>6, <2>7, <2>9 DEF AfterLoop, WithState
    <3>2. t \in Pending(start) /\ \A v \in Pending(start) : t <= v
      <4>1. Pending(start) \subseteq Nat
        BY <1>4 DEF Pending
      <4>2. \E u \in Pending(start) : \A v \in Pending(start) : u <= v
        BY <2>9, <4>1, Minimum
      <4> QED BY <3>1, <4>2
    <3>3. t \in Tile /\ tcps[t].data # None /\ t \in call.area
      <4>1. t \in Tile /\ tcps[t].data # None
        BY <3>2 DEF Pending
      <4> QED BY <1>3, <4>1 DEF WalkInv, TileInv
    <3>4. /\ Same /\ m_decoder'.state = {"EOC", "DATA"}
          /\ call'.pc = "decode_tile" /\ call'.is = call.is /\ call'.area = call.area
          /\ call'.nr_tiles = call.nr_tiles
      BY <1>6, <1>7, <3>1, FlagsDiffer
    <3>5. PlaceInv(n)'
      BY <1>5, <1>8, <2>1, <2>2, <3>1, <3>3, <3>4 DEF PlaceInv, Between, Same
    <3>6. \A u \in Tile : u < t => tcps[u].data = None
      BY <1>4, <2>5, <3>2, <3>3 DEF Pending
    <3>7. EndInv'
      BY <1>5, <1>8, <3>1, <3>6 DEF EndInv
    <3>8. WalkInv(n)'
      BY <1>1, <1>3, <1>5, <1>10, <2>1, <3>1, <3>4, <3>5, <3>7, WalkMoves DEF Same
    <3> QED BY <3>4, <3>8
  <2> QED BY <2>8, <2>9
<1> QED BY <1>1, <1>9, <1>10

(* The decoding of the tiles begins, of a single tile read already with    *)
(* the tile at once.                                                       *)
LEMMA DecodeTilesWalks == ASSUME IInv, WInv, DecodeTiles PROVE WInv'
<1>1. TypeInv /\ call.pc = "decode_tiles" /\ call.is = "decode"
  BY DEF DecodeTiles, IInv, CallInv
<1> SUFFICES ASSUME Promised
             PROVE  call'.pc # "idle" /\ \E m \in 0..LastPart : WalkInv(m)'
  BY <1>1, WalkOn DEF Progress
<1>2. m_private_image /\ calls > 0
  BY <1>1, InWalk
<1>3. PICK n \in 0..LastPart : WalkInv(n)
  BY <1>1, InWalk
<1>4. /\ Whole(codestream) /\ (codestream.tiles = 1 => call.area = Tile) /\ 0 \in Tile
      /\ ~m_decoder.can_decode
  BY <1>1, <1>2, Wanted, CodestreamFields DEF IInv, CompleteInv
<1>5. UNCHANGED <<codestream, rest, m_private_image, tcps, tile_index, calls, image>>
  BY DEF DecodeTiles
<1>6. \A pc : Go(pc) => /\ call'.pc = pc /\ call'.is = call.is /\ call'.area = call.area
                        /\ call'.nr_tiles = call.nr_tiles
  BY <1>1 DEF TypeInv, Calls, Go
<1>7. /\ LastPart' = LastPart /\ Tile' = Tile /\ \A j : From(j)' = From(j)
  BY <1>5, Fixed
<1>8. /\ rest = From(4 * n + 3)
      /\ m_decoder.state = IF n < LastPart THEN {"TPHSOT"} ELSE {"EOC"}
      /\ codestream.tiles = 1 => n \in {0, LastPart}
  BY <1>1, <1>3 DEF WalkInv, PlaceInv, Between
<1>9. CASE AlreadyIngested /\ ~m_decoder.whole
  <2>1. codestream.tiles = 1 /\ tcps[0].data # None
    BY <1>9 DEF AlreadyIngested
  <2>2. n # 0
    <3>1. SUFFICES ASSUME n = 0 PROVE FALSE
      OBVIOUS
    <3>2. tcps[0].part = -1
      <4>1. ReadOf(0, 0) = 0
        BY <1>1, <3>1, Counting
      <4>2. tcps[0].part = ReadOf(0, n) - 1
        BY <1>1, <1>3, <1>4 DEF WalkInv, TileInv
      <4> QED BY <3>1, <4>1, <4>2
    <3>3. Len(tcps[0].data) = 0
      <4>1. TileInv(0, n) /\ 0 \in call.area
        BY <1>3, <1>4, <2>1 DEF WalkInv
      <4>2. Collected(0) = 0
        BY <1>1, <3>2 DEF Collected
      <4> QED BY <2>1, <4>1, <4>2 DEF TileInv
    <3>4. tcps[0].data \in Seq(Pieces)
      BY <1>1, <1>4, TileFields
    <3> QED BY <2>1, <3>3, <3>4 DEF None
  <2>3. n = LastPart /\ rest = <<>> /\ m_decoder.state = {"EOC"}
    <3>1. n = LastPart /\ LastPart \in Nat
      BY <1>1, <1>4, <1>8, <2>1, <2>2, TokensAre
    <3> QED BY <1>1, <1>4, <1>8, <3>1, StreamAt
  <2>4. /\ m_current_tile_number' = 0
        /\ m_decoder' = WithState(m_decoder, m_decoder.state \cup {"DATA"})
        /\ call'.pc = "decode_tile" /\ call'.is = call.is /\ call'.area = call.area
        /\ call'.nr_tiles = call.nr_tiles
    BY <1>6, <1>9 DEF DecodeTiles, WithState
  <2>5. /\ m_decoder'.state = {"EOC", "DATA"}
        /\ m_decoder'.can_decode = m_decoder.can_decode
        /\ m_decoder'.last_tile_part = m_decoder.last_tile_part
        /\ m_decoder'.correction = m_decoder.correction
        /\ m_decoder'.correction_checked = m_decoder.correction_checked
        /\ m_decoder'.last_sot_read_pos = m_decoder.last_sot_read_pos
    BY <1>1, <2>3, <2>4, StateLeaves, FlagsDiffer
  <2>6. PlaceInv(n)'
    BY <1>4, <1>5, <1>7, <2>1, <2>3, <2>4, <2>5 DEF PlaceInv, Between
  <2>7. EndInv'
    BY <1>1, <1>7, <2>4, CodestreamFields DEF EndInv
  <2>8. WalkInv(n)'
    BY <1>1, <1>3, <1>4, <1>5, <2>4, <2>5, <2>6, <2>7, WalkMoves
  <2> QED BY <2>4, <2>8
<1>10. CASE ~(AlreadyIngested /\ ~m_decoder.whole)
  <2>1. /\ call'.pc = "read_tile_header" /\ call'.is = call.is /\ call'.area = call.area
        /\ call'.nr_tiles = call.nr_tiles
        /\ UNCHANGED <<m_current_tile_number, m_decoder>>
    BY <1>6, <1>10 DEF DecodeTiles
  <2>2. PlaceInv(n)'
    BY <1>5, <1>7, <1>8, <2>1 DEF PlaceInv, Between
  <2>3. EndInv'
    BY <1>3, <1>5, <1>7, <2>1 DEF WalkInv, EndInv
  <2>4. WalkInv(n)'
    BY <1>1, <1>3, <1>5, <2>1, <2>2, <2>3, WalkMoves
  <2> QED BY <2>1, <2>4
<1> QED BY <1>9, <1>10

(* A tile that is wanted is in the area, so what fails is its packets.     *)
LEMMA DecodeTileFailsWalks == ASSUME IInv, WInv, DecodeTileFails PROVE WInv'
<1>1. TypeInv /\ call.pc = "decode_tile"
  BY DEF DecodeTileFails, IInv
<1>2. CASE ~Promised
  BY <1>2, WalkOn DEF Progress
<1>3. CASE Promised
  <2>1. calls > 0 /\ calls \in Nat
    BY <1>1, InWalk
  <2>2. m_current_tile_number \in call.area
    BY <1>1, <1>3, InWalk DEF WalkInv, PlaceInv
  <2>3. Touches(m_current_tile_number)
    BY <2>2 DEF Touches
  <2>4. call'.result = "undecodable" /\ m_private_image' = FALSE
        /\ UNCHANGED <<codestream, m_decoder, calls>>
    BY <1>1, <2>3 DEF DecodeTileFails, Fail, Return, TypeInv, Calls
  <2>5. StartInv' /\ WholeInv'
    BY <2>1, <2>4 DEF StartInv, WholeInv
  <2>6. WholeCodestreamsDecode'
    BY <2>4 DEF WholeCodestreamsDecode
  <2> QED BY <2>4, <2>5, <2>6 DEF WInv
<1> QED BY <1>2, <1>3

(* No more tiles: all that were asked for have been decoded.               *)
LEMMA NoMoreTilesWalks == ASSUME IInv, WInv, NoMoreTiles PROVE WInv'
<1>1. TypeInv /\ call.pc = "no_more"
  BY DEF NoMoreTiles, IInv
<1>2. CASE ~Promised
  BY <1>2, WalkOn DEF Progress
<1>3. CASE Promised
  <2>1. calls > 0 /\ calls \in Nat /\ m_private_image
    BY <1>1, InWalk
  <2>2. PICK n \in 0..LastPart : WalkInv(n)
    BY <1>1, <1>3, InWalk
  <2>3. /\ Conforms(codestream) \/ Low
        /\ call.is \in {"decode", "tile", "get_tile"}
        /\ call.area # {} /\ call.area \subseteq Tile
    BY <1>3, <2>1, Wanted
  <2>4. /\ n = LastPart /\ m_decoder.state = {"EOC"} /\ m_current_tile_number = codestream.tiles
    BY <1>1, <2>2 DEF WalkInv, PlaceInv
  <2>5. \A t \in Tile : tcps[t].data = None
    <3>1. \A t \in Tile : t < codestream.tiles
      BY <1>1, CodestreamFields DEF Tile
    <3> QED BY <2>2, <2>4, <3>1 DEF WalkInv, EndInv
  <2>6. ASSUME NEW t \in call.area
        PROVE  /\ Complete(t) /\ image[t] # None
               /\ call.is = "tile" \/ (call.is = "decode" /\ codestream.tiles > 1)
    <3>1. t \in Tile /\ TileInv(t, n)
      BY <2>2, <2>3 DEF WalkInv
    <3>2. Count(t) \in Nat \ {0}
      BY <1>1, <2>3, <3>1, Numbers
    <3>3. Len(tcps[t].data) # Collected(t)
      <4>1. tcps[t].part = ReadOf(t, n) - 1
        BY <3>1 DEF TileInv
      <4>2. ReadOf(t, n) = Count(t)
        BY <1>1, <2>2, <2>4, Counting
      <4>3. Collected(t) = Count(t)
        BY <1>1, <3>2, <4>1, <4>2 DEF Collected
      <4> QED BY <2>5, <3>1, <3>2, <4>3 DEF None
    <3>4. Complete(t) /\ (call.is = "tile" \/ (call.is = "decode" /\ codestream.tiles > 1))
      BY <3>1, <3>3 DEF TileInv
    <3>5. image[t] # None
      BY <3>2, <3>4 DEF Complete, Count, None
    <3> QED BY <3>4, <3>5
  <2>7. PICK u \in call.area : TRUE
    BY <2>3
  <2>8. call.is = "tile" \/ (call.is = "decode" /\ codestream.tiles > 1)
    BY <2>6, <2>7
  <2>9. ~WholeSingleTile
    BY <2>8 DEF WholeSingleTile
  <2>10. AllDecoded(image)
    BY <2>6, <2>7 DEF AllDecoded
  <2>11. UNCHANGED <<codestream, rest, m_decoder, m_current_tile_number, tcps, tile_index, calls, image>>
    BY <2>9 DEF NoMoreTiles
  <2>12. /\ call'.pc = "idle" /\ call'.is = call.is /\ call'.area = call.area
         /\ call'.result = IF call.is = "tile" THEN "no_more" ELSE "ok"
    BY <1>1, <2>8, <2>9, <2>10 DEF NoMoreTiles, Finish, Return, TypeInv, Calls
  <2>13. \A t : Complete(t)' = Complete(t)
    BY <2>11 DEF Complete, PartsOf
  <2>14. WholeCodestreamsDecode'
    BY <2>6, <2>12, <2>13 DEF WholeCodestreamsDecode
  <2>15. StartInv' /\ WholeInv'
    BY <2>1, <2>8, <2>11, <2>12 DEF StartInv, WholeInv, GoesOn
  <2> QED BY <2>11, <2>14, <2>15 DEF WInv
<1> QED BY <1>2, <1>3

(* What the decoder is when a tile has been decoded.                       *)
LEMMA DecodedLeaves ==
    ASSUME TypeInv, NEW s
    PROVE  LET d == WithDecoded(m_decoder, s)
           IN  /\ d.state = s /\ ~d.can_decode
               /\ d.last_tile_part = m_decoder.last_tile_part
               /\ d.correction = m_decoder.correction
               /\ d.correction_checked = m_decoder.correction_checked
               /\ d.last_sot_read_pos = m_decoder.last_sot_read_pos
               /\ d.area = m_decoder.area
<1>1. m_decoder \in DecoderSet(Tile)
  BY DecoderTyped
<1> QED BY <1>1 DEF DecoderSet, WithDecoded

(* A tile is decoded when all of its tile-parts have been collected.       *)
LEMMA DecodedWhole ==
    ASSUME IInv, WInv, Promised, call.pc = "decode_tile", NEW n \in 0..LastPart, WalkInv(n),
           NEW t, t = m_current_tile_number
    PROVE  /\ t \in Tile /\ t \in call.area /\ tcps[t].data # None
           /\ image[t] = None /\ tcps[t].part = ReadOf(t, n) - 1
           /\ ReadOf(t, n) = Count(t) /\ Len(tcps[t].data) = Count(t)
           /\ \A i \in 1..Len(tcps[t].data) : tcps[t].data[i].is = "whole"
           /\ Low => m_decoder.correction = 1
           /\ n \in 1..LastPart
<1>1. TypeInv /\ m_private_image /\ calls > 0
  BY InWalk DEF IInv
<1>2. /\ Whole(codestream) /\ (Conforms(codestream) \/ Low) /\ call.area \subseteq Tile
  BY <1>1, Wanted
<1>3. t \in call.area /\ t \in Tile /\ tcps[t].data # None
  BY <1>2 DEF WalkInv, PlaceInv
<1>4. /\ TileInv(t, n) /\ NumbersInv /\ RepairInv(n)
  BY <1>3 DEF WalkInv
<1>5. /\ Len(tcps[t].data) = Collected(t) /\ image[t] = None /\ tcps[t].part = ReadOf(t, n) - 1
      /\ \A i \in 1..Len(tcps[t].data) : tcps[t].data[i].is = "whole"
  BY <1>3, <1>4 DEF TileInv
<1>6. /\ Number(t) \in Nat \ {0} /\ Count(t) \in Nat \ {0} /\ m_decoder.correction \in {0, 1}
      /\ ~(Low /\ m_decoder.correction = 0) => Number(t) = Count(t)
      /\ Low /\ m_decoder.correction = 0 => Number(t) = Count(t) - 1 /\ Count(t) >= 2
  BY <1>1, <1>3, <1>4, NumberIs
<1>7. ReadOf(t, n) \in Nat /\ ReadOf(t, LastPart) = Count(t) /\ ReadOf(t, 0) = 0 /\ LastPart \in Nat
  BY <1>1, Counting
<1>8. /\ Low => m_decoder.correction = 1
      /\ ReadOf(t, n) = Count(t)
  <2>1. CASE m_decoder.can_decode
    <3>1. /\ m_decoder.correction_checked
          /\ tcps[t].nb = tcps[t].part + 1 /\ tcps[t].part >= 0
      BY <1>1, <2>1 DEF IInv, CompleteInv
    <3>2. Low => m_decoder.correction = 1
      BY <1>4, <3>1 DEF NumbersInv
    <3>3. tcps[t].nb \in {0, Number(t)}
      BY <1>3, <1>4 DEF NumbersInv
    <3> QED BY <1>5, <1>6, <1>7, <3>1, <3>2, <3>3
  <2>2. CASE ~m_decoder.can_decode
    <3>1. n = LastPart
      BY <2>2 DEF WalkInv, PlaceInv
    <3>2. Low /\ m_decoder.correction = 0 => ReadOf(t, n) <= Number(t)
      BY <1>3, <1>4 DEF RepairInv
    <3> QED BY <1>6, <1>7, <3>1, <3>2
  <2> QED BY <2>1, <2>2
<1>9. Len(tcps[t].data) = Count(t)
  BY <1>5, <1>6, <1>7, <1>8 DEF Collected
<1>10. n \in 1..LastPart
  BY <1>6, <1>7, <1>8
<1> QED BY <1>3, <1>5, <1>8, <1>9, <1>10

\* The call ends with this tile.
EndsCall ==
    call.is # "decode" \/ WholeSingleTile \/ call.nr_tiles + 1 = codestream.tiles

(* The step that decodes a tile of such a codestream.                      *)
LEMMA DecodeTileDoes ==
    ASSUME IInv, WInv, Promised, DecodeTile, NEW n \in 0..LastPart, WalkInv(n),
           NEW t, t = m_current_tile_number
    PROVE  /\ rest' = IF call.is = "get_tile" THEN AfterSOT(1) ELSE From(4 * n + 3)
           /\ m_decoder' = WithDecoded(m_decoder, IF n < LastPart THEN {"TPHSOT"} ELSE {"EOC"})
           /\ m_current_tile_number' = IF m_decoder.can_decode /\ n = LastPart THEN 0 ELSE t
           /\ tcps' = IF KeepsData THEN tcps ELSE WithData(tcps, t, None)
           /\ image' = [image EXCEPT ![t] = tcps[t].data]
           /\ UNCHANGED <<codestream, m_private_image, tile_index, calls>>
           /\ call'.is = call.is /\ call'.area = call.area
           /\ EndsCall => call'.pc = "idle" /\ call'.result = "ok"
           /\ ~EndsCall => call'.pc = "read_tile_header" /\ call'.nr_tiles = call.nr_tiles + 1
<1>1. TypeInv /\ m_private_image /\ calls > 0 /\ call.pc = "decode_tile"
  BY InWalk DEF DecodeTile, IInv
<1>2. /\ Whole(codestream) /\ call.is \in {"decode", "tile", "get_tile"}
      /\ call.is = "get_tile" => call.area = {call.tile}
  BY <1>1, Wanted
<1>3. t \in Tile /\ t \in call.area /\ tcps[t].data # None /\ n \in 1..LastPart
  BY <1>1, DecodedWhole
<1>4. /\ call.is = "get_tile" => t = call.tile
      /\ call.is # "get_tile" => ~(call.is = "get_tile" /\ t = call.tile)
  BY <1>2, <1>3
<1>5. LastPart \in Nat /\ n \in Nat
  BY <1>1, Counting
<1>6. PICK state, img, marker :
        /\ state = m_decoder.state \ {"DATA"}
        /\ img = (IF t \in call.area THEN [image EXCEPT ![t] = tcps[t].data] ELSE image)
        /\ marker = (IF AtEnd THEN "nothing" ELSE Head(rest).is)
  OBVIOUS
<1> DEFINE reads == ~(AtEnd /\ state = {"NEOC"}) /\ state # {"EOC"}
           nextState == IF reads /\ marker = "EOC" THEN {"EOC"}
                        ELSE IF reads /\ marker = "unknown" THEN {"NEOC"} ELSE state
           left == IF reads THEN Tail(rest) ELSE rest
           done == \/ WholeSingleTile
                   \/ call.is = "tile"
                   \/ call.is = "get_tile" /\ t = call.tile
                   \/ call.is = "decode" /\ (\/ left = <<>> /\ nextState = {"NEOC"}
                                             \/ call.nr_tiles + 1 = codestream.tiles)
<1>7. IF reads /\ ~IsMarker(marker)
      THEN Fail("short")
      ELSE /\ m_decoder' = WithDecoded(m_decoder, nextState)
           /\ m_current_tile_number' = (IF reads /\ marker = "EOC" THEN 0 ELSE t)
           /\ tcps' = (IF KeepsData THEN tcps ELSE WithData(tcps, t, None))
           /\ image' = img
           /\ rest' = (IF call.is = "get_tile" /\ t = call.tile THEN AfterSOT(1) ELSE left)
           /\ IF ~done
              THEN /\ call' = [call EXCEPT !.pc = "read_tile_header", !.nr_tiles = @ + 1]
                   /\ UNCHANGED m_private_image
              ELSE IF WholeSingleTile \/ call.is = "tile"
              THEN Return("ok") /\ UNCHANGED m_private_image
              ELSE Finish(img)
           /\ UNCHANGED <<codestream, tile_index, calls>>
  BY <1>6, ZenonT(60) DEF DecodeTile, WithDecoded, WithData
<1>8. /\ nextState = (IF n < LastPart THEN {"TPHSOT"} ELSE {"EOC"}) /\ left = From(4 * n + 3)
      /\ ~(reads /\ ~IsMarker(marker))
      /\ reads /\ marker = "EOC" <=> m_decoder.can_decode /\ n = LastPart
  <2>1. CASE m_decoder.can_decode
    <3>1. rest = From(4 * n + 2)
      BY <1>1, <2>1 DEF WalkInv, PlaceInv
    <3>2. /\ rest # <<>> /\ Head(rest).is = (IF n < LastPart THEN "SOT" ELSE "EOC")
          /\ Tail(rest) = From(4 * n + 3)
      BY <1>1, <1>2, <1>3, <3>1, BehindSOD
    <3>3. m_decoder.state \in {{"TPHSOT"}, {"TPHSOT", "DATA"}}
      BY <1>1, <2>1 DEF WalkInv, PlaceInv
    <3>4. state = {"TPHSOT"}
      BY <1>6, <3>3
    <3>5. reads /\ marker = (IF n < LastPart THEN "SOT" ELSE "EOC") /\ left = From(4 * n + 3)
      BY <1>6, <3>2, <3>4, FlagsDiffer DEF AtEnd
    <3>6. n < LastPart \/ n = LastPart
      BY <1>3, <1>5
    <3>7. IsMarker(marker) /\ (marker = "EOC" <=> n = LastPart) /\ marker # "unknown"
      BY <1>5, <3>5, <3>6 DEF IsMarker
    <3> QED BY <1>5, <2>1, <3>4, <3>5, <3>6, <3>7
  <2>2. CASE ~m_decoder.can_decode
    <3>1. n = LastPart /\ rest = <<>> /\ m_decoder.state = {"EOC", "DATA"}
      BY <1>1, <2>2 DEF WalkInv, PlaceInv
    <3>2. state = {"EOC"}
      BY <1>6, <3>1
    <3>3. ~reads /\ nextState = {"EOC"} /\ left = <<>>
      BY <1>6, <3>1, <3>2
    <3>4. From(4 * n + 3) = <<>>
      BY <1>1, <1>2, <3>1, StreamAt
    <3>5. ~(n < LastPart)
      BY <1>5, <3>1
    <3> HIDE DEF reads, nextState, left
    <3> QED BY <2>2, <3>1, <3>3, <3>4, <3>5
  <2> QED BY <2>1, <2>2
<1>9. img = [image EXCEPT ![t] = tcps[t].data]
  BY <1>3, <1>6
<1>10. AllDecoded(img)
  <2>1. image \in [Tile -> Seq(Pieces)]
    BY <1>1, TypeNow
  <2>2. img[t] # None
    BY <1>3, <1>9, <2>1
  <2> QED BY <1>3, <2>2 DEF AllDecoded
<1>11. done <=> EndsCall
  <2>1. nextState # {"NEOC"}
    BY <1>8, FlagsDiffer
  <2>2. WholeSingleTile => call.is = "decode"
    BY DEF WholeSingleTile
  <2> QED BY <1>2, <1>4, <1>6, <2>1, <2>2 DEF EndsCall
<1>12. call \in Calls
  BY <1>1, TypeNow
<1>13. /\ EndsCall => Return("ok") /\ UNCHANGED m_private_image
       /\ ~EndsCall => /\ call' = [call EXCEPT !.pc = "read_tile_header", !.nr_tiles = @ + 1]
                       /\ UNCHANGED m_private_image
  BY <1>7, <1>8, <1>10, <1>11 DEF Finish
<1>14. /\ call'.is = call.is /\ call'.area = call.area
       /\ EndsCall => call'.pc = "idle" /\ call'.result = "ok"
       /\ ~EndsCall => call'.pc = "read_tile_header" /\ call'.nr_tiles = call.nr_tiles + 1
  BY <1>12, <1>13 DEF Return, Calls
<1> QED BY <1>4, <1>7, <1>8, <1>9, <1>13, <1>14

(* A tile of a codestream that is whole is decoded.                        *)
LEMMA DecodeTileWalks == ASSUME IInv, WInv, DecodeTile PROVE WInv'
<1>0. TypeInv /\ call.pc = "decode_tile"
  BY DEF DecodeTile, IInv
<1>a. CASE ~Promised
  BY <1>a, WalkOn DEF Progress
<1>b. CASE Promised
<2>1. m_private_image /\ calls > 0 /\ calls \in Nat
  BY <1>0, InWalk
<2>2. PICK n \in 0..LastPart : WalkInv(n)
  BY <1>0, <1>b, InWalk
<2>3. PICK t : t = m_current_tile_number
  OBVIOUS
<2>4. /\ t \in Tile /\ t \in call.area /\ tcps[t].data # None
      /\ image[t] = None /\ tcps[t].part = ReadOf(t, n) - 1
      /\ ReadOf(t, n) = Count(t) /\ Len(tcps[t].data) = Count(t)
      /\ \A i \in 1..Len(tcps[t].data) : tcps[t].data[i].is = "whole"
      /\ Low => m_decoder.correction = 1
      /\ n \in 1..LastPart
  BY <1>0, <1>b, <2>2, <2>3, DecodedWhole
<2>5. /\ rest' = IF call.is = "get_tile" THEN AfterSOT(1) ELSE From(4 * n + 3)
      /\ m_decoder' = WithDecoded(m_decoder, IF n < LastPart THEN {"TPHSOT"} ELSE {"EOC"})
      /\ m_current_tile_number' = IF m_decoder.can_decode /\ n = LastPart THEN 0 ELSE t
      /\ tcps' = IF KeepsData THEN tcps ELSE WithData(tcps, t, None)
      /\ image' = [image EXCEPT ![t] = tcps[t].data]
      /\ UNCHANGED <<codestream, m_private_image, tile_index, calls>>
      /\ call'.is = call.is /\ call'.area = call.area
      /\ EndsCall => call'.pc = "idle" /\ call'.result = "ok"
      /\ ~EndsCall => call'.pc = "read_tile_header" /\ call'.nr_tiles = call.nr_tiles + 1
  BY <1>b, <2>2, <2>3, DecodeTileDoes
<2>6. /\ m_decoder'.state = IF n < LastPart THEN {"TPHSOT"} ELSE {"EOC"}
      /\ ~m_decoder'.can_decode
      /\ m_decoder'.last_tile_part = m_decoder.last_tile_part
      /\ m_decoder'.correction = m_decoder.correction
      /\ m_decoder'.correction_checked = m_decoder.correction_checked
      /\ m_decoder'.last_sot_read_pos = m_decoder.last_sot_read_pos
      /\ m_decoder'.area = m_decoder.area
  BY <1>0, <2>5, DecodedLeaves
<2>7. /\ Tile' = Tile /\ LastPart' = LastPart /\ Low' = Low
      /\ (\A u : PartsOf(codestream, u)' = PartsOf(codestream, u))
      /\ (\A u : Count(u)' = Count(u)) /\ (\A u, i : ReadOf(u, i)' = ReadOf(u, i))
      /\ \A j : From(j)' = From(j)
  BY <2>5, Fixed
<2>8. /\ Whole(codestream) /\ (Conforms(codestream) \/ Low)
      /\ call.is \in {"decode", "tile", "get_tile"} /\ call.area \subseteq Tile
      /\ codestream.tiles = 1 => call.area = Tile
      /\ call.is = "get_tile" => call.area = {call.tile}
  BY <1>b, <2>1, Wanted
<2>9. LastPart \in Nat /\ n \in Nat /\ n > 0 /\ n <= LastPart /\ Tile = 0..(codestream.tiles - 1)
      /\ codestream.tiles \in Nat \ {0}
  BY <1>0, <2>4, <2>8, Numbers, CodestreamFields DEF Tile
<2>10. KeepsData <=> call.is = "decode" /\ codestream.tiles = 1
  BY DEF KeepsData
<2>11. /\ \A u \in Tile : tcps'[u].part = tcps[u].part /\ tcps'[u].nb = tcps[u].nb
       /\ \A u \in Tile : u # t => tcps'[u].data = tcps[u].data
       /\ tcps'[t].data = IF KeepsData THEN tcps[t].data ELSE None
  <3>1. tcps \in [Tile -> Tiles] /\ None \in Seq(Pieces)
    BY <1>0, TileFields DEF None
  <3>2. CASE KeepsData
    BY <2>5, <3>2
  <3>3. CASE ~KeepsData
    <4>1. /\ WithData(tcps, t, None)[t].part = tcps[t].part
          /\ WithData(tcps, t, None)[t].nb = tcps[t].nb
          /\ WithData(tcps, t, None)[t].data = None
          /\ \A u \in Tile : u # t => WithData(tcps, t, None)[u] = tcps[u]
      BY <2>4, <3>1, TileDataSet
    <4> QED BY <2>5, <3>3, <4>1
  <3> QED BY <3>2, <3>3
<2>12. /\ image'[t] = tcps[t].data /\ \A u \in Tile : u # t => image'[u] = image[u]
  <3>1. image \in [Tile -> Seq(Pieces)]
    BY <1>0, TypeNow
  <3> QED BY <2>4, <2>5, <3>1
<2>13. Complete(t)' /\ \A u \in Tile : u # t => Complete(u)' = Complete(u)
  BY <2>4, <2>7, <2>12 DEF Complete, Count
<2>14. Cardinality(Decoded)' = Cardinality(Decoded) + 1 /\ Decoded' \subseteq Tile
       /\ IsFiniteSet(Decoded) /\ IsFiniteSet(Decoded')
  <3>1. Decoded' = Decoded \cup {t}
    BY <2>4, <2>7, <2>12 DEF Decoded
  <3>2. IsFiniteSet(Tile) /\ Decoded \subseteq Tile
    BY <2>9, FS_Interval DEF Decoded
  <3>3. IsFiniteSet(Decoded) /\ t \notin Decoded
    BY <2>4, <3>2, FS_Subset DEF Decoded
  <3>4. Cardinality(Decoded \cup {t}) = Cardinality(Decoded) + 1 /\ IsFiniteSet(Decoded \cup {t})
    BY <3>3, FS_AddElement
  <3> QED BY <2>4, <3>1, <3>2, <3>3, <3>4
<2>15. call.is = "decode" => call.nr_tiles = Cardinality(Decoded)
  BY <1>0, <2>2 DEF WalkInv
<2>16. ASSUME call.is = "decode", codestream.tiles = 1
       PROVE  EndsCall /\ t = 0 /\ call.area = {0} /\ n = LastPart
  <3>1. Tile = {0} /\ t = 0
    BY <2>4, <2>9, <2>16
  <3>2. Decoded = {}
    BY <2>4, <3>1 DEF Decoded
  <3>3. call.nr_tiles = 0
    BY <2>15, <2>16, <3>2, FS_EmptySet
  <3>4. n = LastPart
    <4>1. LastPart \in PartsOf(codestream, 0)
      <5>1. LastPart \in 1..LastPart
        BY <2>9
      <5>2. codestream.parts[LastPart].tile < 1 /\ codestream.parts[LastPart].tile \in Nat
        BY <1>0, <2>8, <2>16, <5>1, CodestreamFields DEF Whole, LastPart
      <5> QED BY <5>1, <5>2 DEF PartsOf, LastPart
    <4>2. LastPart <= n
      BY <1>0, <2>4, <3>1, <4>1, CountingParts
    <4> QED BY <2>9, <4>2
  <3> QED BY <2>8, <2>16, <3>1, <3>3, <3>4 DEF EndsCall
<2>17. \A u \in Tile : TileInv(u, n)
  BY <2>2 DEF WalkInv
<2>18. ASSUME call.is # "get_tile" PROVE WalkInv(n)'
  <3>1. PlaceInv(n)'
    <4>1. call'.pc \in {"idle", "read_tile_header"}
      BY <2>5
    <4>2. rest' = From(4 * n + 3)
      BY <2>5, <2>18
    <4> QED BY <2>5, <2>6, <2>7, <2>16, <4>1, <4>2 DEF PlaceInv, Between
  <3>2. NumbersInv'
    BY <2>2, <2>6, <2>7, <2>11 DEF WalkInv, NumbersInv, Number
  <3>3. RepairInv(n)'
    BY <2>2, <2>4, <2>6, <2>7 DEF WalkInv, RepairInv
  <3>4. EndInv'
    <4>1. CASE m_decoder.can_decode /\ n = LastPart
      BY <2>5, <2>7, <2>9, <4>1 DEF EndInv
    <4>2. CASE ~m_decoder.can_decode
      <5>1. m_decoder.state = {"EOC", "DATA"}
        BY <1>0, <2>2, <4>2 DEF WalkInv, PlaceInv
      <5>2. \A u \in Tile : u < t => tcps[u].data = None
        BY <2>2, <2>3, <5>1 DEF WalkInv, EndInv
      <5>3. \A u \in Tile : u < t => u # t
        BY <2>4, <2>9
      <5> QED BY <2>5, <2>7, <2>11, <4>2, <5>2, <5>3 DEF EndInv
    <4>3. CASE n # LastPart
      <5>1. n < LastPart
        BY <2>9, <4>3
      <5>2. m_decoder'.state = {"TPHSOT"}
        BY <2>6, <5>1
      <5> QED BY <5>2, FlagsDiffer DEF EndInv
    <4> QED BY <4>1, <4>2, <4>3
  <3>5. ASSUME NEW u \in Tile PROVE TileInv(u, n)'
    <4>1. TileInv(u, n) /\ Collected(u)' = tcps[u].part + 1 /\ Collected(u) = tcps[u].part + 1
      BY <1>0, <2>5, <2>11, <2>17 DEF Collected
    <4>2. CASE u # t
      BY <1>0, <2>5, <2>7, <2>11, <2>12, <2>13, <4>1, <4>2 DEF TileInv
    <4>3. CASE u = t /\ KeepsData
      <5>1. /\ call'.pc = "idle" /\ call'.is = "decode"
        BY <2>5, <2>10, <2>16, <4>3
      <5>2. tcps'[u].part = ReadOf(u, n)' - 1 /\ tcps'[u].data = tcps[u].data
        BY <2>4, <2>7, <2>11, <4>3
      <5>3. Len(tcps'[u].data) = Collected(u)'
        BY <2>4, <4>1, <4>3, <5>2, TileFields, <1>0, <2>9, Counting
      <5>4. \A i \in 1..Len(tcps'[u].data) : tcps'[u].data[i].is = "whole"
        BY <2>4, <4>3, <5>2
      <5> QED BY <2>4, <2>5, <4>3, <5>1, <5>2, <5>3, <5>4 DEF TileInv
    <4>4. CASE u = t /\ ~KeepsData
      <5>1. tcps'[u].part = ReadOf(u, n)' - 1 /\ tcps'[u].data = None
        BY <2>4, <2>7, <2>11, <4>4
      <5>2. Complete(u)' /\ ReadOf(u, n)' = Count(u)'
        BY <2>4, <2>7, <2>13, <4>4
      <5>3. call'.is = "tile" \/ (call'.is = "decode" /\ codestream'.tiles > 1)
        BY <2>5, <2>8, <2>9, <2>10, <2>18, <4>4
      <5>4. call'.pc # "tile_part" /\ u \in call'.area
        BY <2>4, <2>5, <4>4
      <5>5. \A i \in 1..Len(tcps'[u].data) : tcps'[u].data[i].is = "whole"
        BY <5>1 DEF None
      <5> QED BY <5>1, <5>2, <5>3, <5>4, <5>5 DEF TileInv
    <4> QED BY <4>2, <4>3, <4>4
  <3>6. call'.is = "decode" /\ call'.pc # "idle" => call'.nr_tiles = Cardinality(Decoded)'
    BY <2>5, <2>14, <2>15
  <3> QED BY <2>5, <2>7, <2>18, <3>1, <3>2, <3>3, <3>4, <3>5, <3>6 DEF WalkInv
<2>19. ASSUME call.is = "get_tile" PROVE BetweenInv'
  <3>1. NumbersInv'
    BY <2>2, <2>6, <2>7, <2>11 DEF WalkInv, NumbersInv, Number
  <3>2. IndexInv(m_decoder.last_sot_read_pos) /\ n <= m_decoder.last_sot_read_pos
    BY <2>2, <2>19 DEF WalkInv
  <3>3. IndexInv(m_decoder.last_sot_read_pos)'
    BY <2>5, <2>6, <2>7, <3>2 DEF IndexInv
  <3>4. rest' = From(3)'
    <4>1. AfterSOT(1) = From(4 * (1 - 1) + 3)
      BY <1>0, StreamAt
    <4> QED BY <2>5, <2>7, <2>19, <4>1
  <3>5. m_decoder'.last_sot_read_pos > 0
    BY <1>0, <2>6, <2>9, <3>2, DecoderFields
  <3>6. m_decoder'.state = {"EOC"} => m_decoder'.last_sot_read_pos = LastPart
    <4>1. m_decoder.last_sot_read_pos \in 0..LastPart
      BY <3>2 DEF IndexInv
    <4>2. m_decoder'.state = {"EOC"} => ~(n < LastPart)
      BY <2>6, FlagsDiffer
    <4>3. ~(n < LastPart) => m_decoder.last_sot_read_pos = LastPart
      BY <2>9, <3>2, <4>1
    <4> QED BY <2>6, <2>9, <4>2, <4>3
  <3>7. m_decoder'.state \in {{"TPHSOT"}, {"EOC"}}
    BY <2>6
  <3> QED BY <2>7, <3>1, <3>3, <3>4, <3>5, <3>6, <3>7 DEF BetweenInv
<2>20. ASSUME EndsCall, call.is # "tile", NEW u \in call.area PROVE Complete(u)'
  <3>1. CASE u = t
    BY <2>13, <3>1
  <3>2. CASE u # t
    <4>1. call.is = "decode" /\ codestream.tiles # 1
      BY <2>4, <2>8, <2>16, <2>20, <3>2
    <4>2. Cardinality(Decoded)' = Cardinality(Tile)
      <5>1. call.nr_tiles + 1 = codestream.tiles
        BY <2>20, <4>1 DEF EndsCall, WholeSingleTile
      <5>2. Cardinality(Tile) = codestream.tiles
        <6>1. codestream.tiles - 1 \in Int /\ ~(0 > codestream.tiles - 1)
              /\ (codestream.tiles - 1) - 0 + 1 = codestream.tiles
          BY <2>9
        <6>2. Cardinality(0..(codestream.tiles - 1)) = (codestream.tiles - 1) - 0 + 1
          BY <6>1, FS_Interval, SMTT(60)
        <6> QED BY <2>9, <6>1, <6>2
      <5> QED BY <2>14, <2>15, <4>1, <5>1, <5>2
    <4>3. Decoded' = Tile
      <5>1. IsFiniteSet(Tile)
        <6>1. codestream.tiles - 1 \in Int
          BY <2>9
        <6>2. IsFiniteSet(0..(codestream.tiles - 1))
          BY <6>1, FS_Interval
        <6> QED BY <2>9, <6>2
      <5> QED BY <2>14, <4>2, <5>1, FS_Subset
    <4>4. u \in Tile /\ image[u] # None
      BY <2>7, <2>8, <2>12, <2>20, <3>2, <4>3 DEF Decoded
    <4>5. Complete(u)
      BY <1>0, <2>17, <2>20, <4>4 DEF TileInv
    <4> QED BY <2>13, <3>2, <4>4, <4>5
  <3> QED BY <3>1, <3>2
<2>21. StartInv'
  BY <2>1, <2>5 DEF StartInv
<2>22. WholeInv'
  <3>1. call'.is # "get_tile" => \E m \in (0..LastPart)' : WalkInv(m)'
    BY <2>5, <2>7, <2>18
  <3>2. call'.is = "get_tile" => BetweenInv' /\ ~GoesOn'
    <4>1. call.is = "get_tile" => EndsCall
      BY DEF EndsCall
    <4>2. call'.is = "get_tile" => call'.pc = "idle"
      BY <2>5, <4>1
    <4> QED BY <2>5, <2>19, <4>2 DEF GoesOn
  <3> QED BY <3>1, <3>2 DEF WholeInv
<2>23. WholeCodestreamsDecode'
  <3>1. call'.pc = "idle" => EndsCall /\ call'.result = "ok"
    BY <2>5
  <3> QED BY <2>5, <2>20, <3>1 DEF WholeCodestreamsDecode
<2> QED BY <2>6, <2>21, <2>22, <2>23 DEF WInv
<1> QED BY <1>a, <1>b

-----------------------------------------------------------------------------
(* Calls of the program                                                    *)

(* opj_read_header of a codestream that is whole.                          *)
LEMMA ReadHeaderWalks == ASSUME IInv, WInv, ReadHeader PROVE WInv'
<1>1. /\ TypeInv /\ call.pc = "idle" /\ ~m_private_image /\ calls = 0 /\ StartInv
      /\ m_decoder.area # {} /\ WholeCodestreamsDecode
  BY DEF ReadHeader, IInv, FreshInv, WInv
<1>2. rest = From(1) /\ rest = Available(codestream)
  BY <1>1, StreamAt DEF StartInv
<1>3. UNCHANGED <<codestream, m_current_tile_number, tcps, tile_index, call, calls, image>>
  BY DEF ReadHeader
<1>4. /\ m_private_image' => rest' = SubSeq(rest, 3, Len(rest))
      /\ ~m_private_image' => rest' = rest
  BY <1>1 DEF ReadHeader
<1>5. PICK s : m_decoder' = WithState(m_decoder, s)
  BY DEF ReadHeader, WithState
<1>6. /\ m_decoder'.area = m_decoder.area /\ m_decoder'.correction = m_decoder.correction
      /\ m_decoder'.last_sot_read_pos = m_decoder.last_sot_read_pos
  BY <1>1, <1>5, StateLeaves
<1>7. /\ Tile' = Tile /\ \A j : From(j)' = From(j)
  BY <1>3, Fixed
<1>8. m_private_image' \in BOOLEAN /\ (m_private_image' => rest' = From(3))
  <2>1. SubSeq(rest, 3, Len(rest)) = From(3)
    BY <1>2 DEF From
  <2>2. m_private_image \in BOOLEAN
    BY <1>1, TypeNow
  <2>3. m_private_image' = TRUE \/ m_private_image' = m_private_image
    BY DEF ReadHeader
  <2> QED BY <1>4, <2>1, <2>2, <2>3
<1>9. rest' = From(IF m_private_image' THEN 3 ELSE 1)
  BY <1>2, <1>4, <1>8
<1>10. StartInv'
  BY <1>1, <1>3, <1>6, <1>7, <1>9 DEF StartInv
<1>11. WholeInv' /\ WholeCodestreamsDecode'
  BY <1>1, <1>3 DEF WholeInv, WholeCodestreamsDecode
<1> QED BY <1>1, <1>6, <1>10, <1>11 DEF WInv

(* opj_set_decode_area: between two calls, of a single tile.               *)
LEMMA SetDecodeAreaWalks ==
    ASSUME IInv, WInv, NEW area \in Areas, NEW whole \in BOOLEAN, SetDecodeArea(area, whole)
    PROVE  WInv'
<1>1. TypeInv /\ call.pc = "idle" /\ area # {}
  BY DEF SetDecodeArea, IInv, Areas
<1>2. /\ m_decoder' = [m_decoder EXCEPT !.area = area, !.whole = whole]
      /\ UNCHANGED <<codestream, rest, m_private_image, m_current_tile_number, tcps, tile_index,
                     call, calls, image>>
  BY DEF SetDecodeArea
<1>3. /\ m_decoder'.area = area /\ m_decoder'.state = m_decoder.state
      /\ m_decoder'.can_decode = m_decoder.can_decode
      /\ m_decoder'.last_tile_part = m_decoder.last_tile_part
      /\ m_decoder'.correction = m_decoder.correction
      /\ m_decoder'.correction_checked = m_decoder.correction_checked
      /\ m_decoder'.last_sot_read_pos = m_decoder.last_sot_read_pos
  <2>1. m_decoder \in DecoderSet(Tile)
    BY <1>1, TypeNow
  <2> QED BY <1>2, <2>1 DEF DecoderSet
<1>4. /\ Tile' = Tile /\ LastPart' = LastPart /\ Low' = Low
      /\ (\A u : PartsOf(codestream, u)' = PartsOf(codestream, u))
      /\ (\A u : Count(u)' = Count(u)) /\ (\A u, i : ReadOf(u, i)' = ReadOf(u, i))
      /\ \A j : From(j)' = From(j)
  BY <1>2, Fixed
<1>5. StartInv'
  BY <1>2, <1>3, <1>4 DEF WInv, StartInv
<1>6. Promised' = Promised /\ GoesOn' = GoesOn
  BY <1>2, Fixed DEF Promised, PassesRightly, GoesOn
<1>7. WholeInv'
  <2>1. SUFFICES ASSUME m_private_image', calls' > 0, Promised'
                 PROVE  /\ GoesOn' => \E n \in 0..LastPart' : WalkInv(n)'
                        /\ call'.pc = "idle" /\ call'.is = "get_tile" => BetweenInv'
    BY DEF WholeInv
  <2>2. calls > 0 => call.is = "decode"
    BY DEF SetDecodeArea
  <2>3. call.is = "decode" /\ call.pc = "idle"
    BY <1>1, <1>2, <2>1, <2>2
  <2>4. ASSUME GoesOn PROVE \E n \in 0..LastPart : WalkInv(n)'
    <3>1. PICK n \in 0..LastPart : WalkInv(n)
      BY <1>2, <1>6, <2>1, <2>4 DEF WInv, WholeInv
    <3>2. PlaceInv(n)' /\ NumbersInv' /\ RepairInv(n)' /\ EndInv'
      BY <1>2, <1>3, <1>4, <2>3, <3>1
         DEF WalkInv, PlaceInv, NumbersInv, Number, RepairInv, EndInv
    <3>3. ASSUME NEW u \in Tile PROVE TileInv(u, n)'
      <4>1. TileInv(u, n) /\ Complete(u)' = Complete(u) /\ Collected(u)' = Collected(u)
        BY <1>2, <3>1 DEF WalkInv, Complete, Collected
      <4> QED BY <1>2, <1>4, <4>1 DEF TileInv
    <3>4. WalkInv(n)'
      BY <1>2, <1>4, <2>3, <3>2, <3>3 DEF WalkInv
    <3> QED BY <3>4
  <2> QED BY <1>2, <1>4, <1>6, <2>3, <2>4
<1>8. WholeCodestreamsDecode'
  <2>1. \A t : Complete(t)' = Complete(t)
    BY <1>2 DEF Complete, PartsOf
  <2> QED BY <1>2, <2>1, Fixed DEF WInv, WholeCodestreamsDecode, PassesRightly, Low
<1> QED BY <1>1, <1>3, <1>5, <1>7, <1>8 DEF WInv

(* The first call that decodes finds a decoder that has read nothing.      *)
LEMMA FirstCall ==
    ASSUME IInv, WInv, calls = 0, m_private_image, Conforms(codestream) \/ Low
    PROVE  /\ LastPart \in Nat \ {0} /\ 0 \in 0..LastPart /\ 0 < LastPart
           /\ rest = From(3) /\ m_decoder.state = {"TPHSOT"}
           /\ m_decoder.correction = 0 /\ ~m_decoder.correction_checked
           /\ ~m_decoder.last_tile_part /\ ~m_decoder.can_decode
           /\ m_decoder.last_sot_read_pos = 0
           /\ \A t \in Tile :
                /\ tcps[t].part = -1 /\ tcps[t].nb = 0 /\ tcps[t].data = None /\ image[t] = None
                /\ tile_index[t].nb_tps = 0 /\ ~tile_index[t].there
                /\ ReadOf(t, 0) = 0 /\ Number(t) \in Nat \ {0} /\ Count(t) \in Nat \ {0}
<1>1. TypeInv /\ FreshInv /\ StartInv
  BY DEF IInv, WInv
<1>2. LastPart \in Nat \ {0} /\ 0 \in 0..LastPart /\ 0 < LastPart
  <2>1. LastPart \in Nat \ {0}
    BY <1>1, Numbers
  <2> QED BY <2>1
<1>3. ASSUME NEW t \in Tile
      PROVE  ReadOf(t, 0) = 0 /\ Number(t) \in Nat \ {0} /\ Count(t) \in Nat \ {0}
  <2>1. ReadOf(t, 0) = 0
    BY <1>1, <1>2, Counting
  <2>2. Count(t) \in Nat \ {0} /\ (Low => Count(t) >= 2)
    BY <1>1, Numbers
  <2> QED BY <2>1, <2>2 DEF Number
<1> QED BY <1>1, <1>2, <1>3 DEF FreshInv, StartInv

(* A call finds the walk where the one before it has left it.              *)
LEMMA CallBegins ==
    ASSUME IInv, WInv, call.pc = "idle", m_private_image, UNCHANGED <<codestream, m_decoder>>,
           calls' > 0, call'.pc # "idle",
           Promised' => \E n \in 0..LastPart : WalkInv(n)'
    PROVE  WInv'
<1>1. m_decoder'.area # {} /\ StartInv' /\ WholeCodestreamsDecode'
  BY DEF WInv, StartInv, WholeCodestreamsDecode
<1>2. WholeInv'
  BY Fixed DEF WholeInv
<1> QED BY <1>1, <1>2 DEF WInv

(* opj_decode and opj_read_tile_header.                                    *)
LEMMA StartCallWalks ==
    ASSUME IInv, WInv, call.pc = "idle", m_private_image,
           NEW is \in {"decode", "tile"}, NEW pc \in {"decode_tiles", "read_tile_header"},
           is = "decode" <=> pc = "decode_tiles",
           StartCall(is, 0, m_decoder.area, pc),
           calls > 0 /\ is = "decode" => codestream.tiles = 1 /\ call.is = "decode",
           calls > 0 /\ is = "tile" => call.is = "tile" /\ call.result = "ok",
           UNCHANGED <<codestream, rest, m_private_image, m_decoder, m_current_tile_number, tcps,
                       tile_index>>
    PROVE  WInv'
<1>1. /\ TypeInv /\ calls \in Nat /\ m_decoder.area \subseteq Tile
      /\ m_decoder.state \in {{"TPHSOT"}, {"EOC"}, {"NEOC"}}
      /\ ~m_decoder.can_decode
  <2>1. TypeInv /\ StateInv /\ CompleteInv
    BY DEF IInv
  <2> QED BY <2>1, TypeNow, DecoderFields DEF StateInv, CompleteInv, Between
<1>2. /\ calls' = calls + 1 /\ calls' > 0
      /\ call'.pc = pc /\ call'.is = is /\ call'.area = m_decoder.area /\ call'.nr_tiles = 0
      /\ image' = IF is = "tile" THEN image ELSE [t \in Tile |-> None]
  BY <1>1 DEF StartCall, Local
<1>3. SUFFICES ASSUME Promised' PROVE \E n \in 0..LastPart : WalkInv(n)'
  BY <1>2, CallBegins
<1>4. /\ Tile' = Tile /\ LastPart' = LastPart /\ Low' = Low
      /\ (\A u : PartsOf(codestream, u)' = PartsOf(codestream, u))
      /\ (\A u : Count(u)' = Count(u)) /\ (\A u, i : ReadOf(u, i)' = ReadOf(u, i))
      /\ (\A j : From(j)' = From(j))
      /\ Open(codestream)' = Open(codestream) /\ Conforms(codestream)' = Conforms(codestream)
  BY Fixed
<1>5. /\ Conforms(codestream) \/ (Low /\ m_decoder.area = Tile)
      /\ Open(codestream) => m_decoder.area = Tile
  BY <1>2, <1>3, <1>4 DEF Promised, PassesRightly
<1>6. ASSUME NEW n, NumbersInv, RepairInv(n), EndInv
      PROVE  NumbersInv' /\ RepairInv(n)' /\ EndInv'
  BY <1>4, <1>6 DEF NumbersInv, Number, RepairInv, EndInv
<1>7. is = "decode" => Cardinality(Decoded)' = 0
  <2>1. is = "decode" => Decoded' = {}
    BY <1>2, <1>4 DEF Decoded
  <2> QED BY <2>1, FS_EmptySet
<1>8. CASE calls = 0
  <2>1. /\ 0 \in 0..LastPart /\ 0 < LastPart
        /\ rest = From(3) /\ m_decoder.state = {"TPHSOT"}
        /\ m_decoder.correction = 0 /\ ~m_decoder.correction_checked
        /\ ~m_decoder.last_tile_part
        /\ \A t \in Tile :
             /\ tcps[t].part = -1 /\ tcps[t].nb = 0 /\ tcps[t].data = None /\ image[t] = None
             /\ ReadOf(t, 0) = 0 /\ Number(t) \in Nat \ {0}
    BY <1>5, <1>8, FirstCall
  <2>2. PlaceInv(0)'
    BY <1>2, <1>4, <2>1 DEF PlaceInv, Between
  <2>3. NumbersInv /\ RepairInv(0) /\ EndInv
    BY <2>1, FlagsDiffer DEF NumbersInv, RepairInv, EndInv
  <2>4. ASSUME NEW t \in Tile PROVE TileInv(t, 0)'
    <3>1. image'[t] = None /\ Collected(t)' = 0
      BY <1>2, <2>1 DEF Collected
    <3> QED BY <1>2, <1>4, <2>1, <3>1 DEF TileInv, None
  <2>5. WalkInv(0)'
    BY <1>2, <1>4, <1>6, <1>7, <2>2, <2>3, <2>4 DEF WalkInv
  <2> QED BY <2>1, <2>5
<1>9. CASE calls > 0
  <2>1. /\ call.is = is /\ call.area = m_decoder.area
    BY <1>9 DEF IInv, CallInv
  <2>2. Promised /\ GoesOn
    BY <1>5, <1>9, <2>1 DEF Promised, PassesRightly, GoesOn
  <2>3. PICK n \in 0..LastPart : WalkInv(n)
    BY <1>9, <2>2 DEF WInv, WholeInv
  <2>4. PlaceInv(n)'
    BY <1>2, <1>4, <2>1, <2>3 DEF WalkInv, PlaceInv, Between
  <2>5. ASSUME NEW t \in Tile PROVE TileInv(t, n)'
    <3>1. /\ TileInv(t, n) /\ Collected(t)' = Collected(t)
          /\ is = "tile" => Complete(t)' = Complete(t) /\ image'[t] = image[t]
          /\ is = "decode" => image'[t] = None
      BY <1>2, <1>4, <2>3 DEF WalkInv, Collected, Complete
    <3> QED BY <1>2, <1>4, <1>9, <2>1, <3>1 DEF TileInv
  <2>6. WalkInv(n)'
    BY <1>2, <1>4, <1>6, <1>7, <2>3, <2>4, <2>5 DEF WalkInv
  <2> QED BY <2>6
<1> QED BY <1>1, <1>8, <1>9

(* opj_decode.                                                             *)
LEMMA DecodeWalks == ASSUME IInv, WInv, Decode PROVE WInv'
BY StartCallWalks DEF Decode

(* opj_read_tile_header.                                                   *)
LEMMA ReadTileHeaderWalks == ASSUME IInv, WInv, ReadTileHeader PROVE WInv'
BY StartCallWalks DEF ReadTileHeader

(* opj_get_decoded_tile goes back to where no tile-part of that tile has   *)
(* been read yet.                                                          *)
LEMMA GetTileGoesBack ==
    ASSUME IInv, WInv, NEW t \in Tile, GetTile(t), Promised'
    PROVE  /\ IndexInv(m_decoder.last_sot_read_pos)
           /\ NumbersInv /\ (\A u \in Tile : tcps[u].data = None)
           /\ \E n \in 0..LastPart :
                /\ n < LastPart /\ n <= m_decoder.last_sot_read_pos /\ ReadOf(t, n) = 0
                /\ rest' = From(4 * n + 3) /\ m_decoder'.state = {"TPHSOT"}
<1>1. /\ TypeInv /\ m_private_image /\ call.pc = "idle" /\ calls \in Nat
      /\ calls > 0 => call.is = "get_tile"
      /\ UNCHANGED codestream
  BY TypeNow DEF GetTile, IInv
<1>2. call'.is = "get_tile" /\ call'.area = {t}
  BY DEF GetTile, StartCall, Local
<1>3. /\ Conforms(codestream) \/ (Low /\ Tile = {t})
      /\ ~Open(codestream) /\ Counted(codestream)
  BY <1>1, <1>2, Fixed DEF Promised, PassesRightly
<1>4. LastPart \in Nat \ {0} /\ 0 \in Tile
  BY <1>1, <1>3, Numbers, CodestreamFields
<1>5. m_decoder'.state = IF tile_index[0].there /\ m_decoder.state = {"EOC"}
                         THEN {"TPHSOT"} ELSE m_decoder.state
  <2>1. m_decoder \in DecoderSet(Tile)
    BY <1>1, TypeNow
  <2> QED BY <2>1 DEF GetTile, DecoderSet
<1>6. /\ tile_index[0].there => rest' = AfterSOT(IF tile_index[t].nb_tps = 0
                                                 THEN m_decoder.last_sot_read_pos
                                                 ELSE tile_index[t].start)
      /\ ~tile_index[0].there => rest' = rest
  BY DEF GetTile
<1> DEFINE pos == m_decoder.last_sot_read_pos
<1>7. CASE calls = 0
  <2>1. /\ 0 \in 0..LastPart /\ 0 < LastPart /\ rest = From(3) /\ m_decoder.state = {"TPHSOT"}
        /\ m_decoder.correction = 0 /\ ~m_decoder.correction_checked /\ pos = 0
        /\ \A u \in Tile :
             /\ tcps[u].nb = 0 /\ tcps[u].data = None
             /\ tile_index[u].nb_tps = 0 /\ ~tile_index[u].there /\ ReadOf(u, 0) = 0
    BY <1>1, <1>3, <1>7, FirstCall
  <2>2. NumbersInv /\ IndexInv(pos)
    BY <2>1 DEF NumbersInv, IndexInv
  <2>3. rest' = From(3) /\ m_decoder'.state = {"TPHSOT"}
    BY <1>4, <1>5, <1>6, <2>1
  <2> QED BY <2>1, <2>2, <2>3
<1>8. CASE calls > 0
  <2>1. call.is = "get_tile" /\ call.area = {call.tile} /\ call.tile \in Tile
    BY <1>1, <1>8, CallFields DEF IInv, CallInv
  <2>2. Promised
    BY <1>3, <2>1 DEF Promised, PassesRightly
  <2>3. /\ NumbersInv /\ IndexInv(pos) /\ pos > 0 /\ rest = From(3)
        /\ m_decoder.state = {"TPHSOT"} \/ (m_decoder.state = {"EOC"} /\ pos = LastPart)
    BY <1>1, <1>8, <2>1, <2>2 DEF WInv, WholeInv, BetweenInv
  <2>4. \A u \in Tile : tcps[u].data = None
    BY <1>1, <1>3, <2>1 DEF IInv, OthersInv, Sound
  <2>5. /\ pos \in 0..LastPart /\ pos \in Nat
        /\ tile_index[0].there <=> ReadOf(0, pos) > 0
        /\ tile_index[t].there <=> ReadOf(t, pos) > 0
        /\ tile_index[t].there <=> tile_index[t].nb_tps # 0
        /\ tile_index[t].there =>
              /\ tile_index[t].start \in PartsOf(codestream, t)
              /\ ReadOf(t, tile_index[t].start - 1) = 0
    BY <1>4, <2>3 DEF IndexInv
  <2>6. m_decoder'.state = {"TPHSOT"}
    <3>1. ReadOf(0, LastPart) = Count(0) /\ Count(0) \in Nat \ {0}
      BY <1>1, <1>3, <1>4, <2>5, Counting, Numbers
    <3>2. pos = LastPart => tile_index[0].there
      BY <2>5, <3>1
    <3> QED BY <1>5, <2>3, <3>2, FlagsDiffer
  <2>7. CASE ~tile_index[0].there
    <3>1. 0 \in 0..LastPart /\ 0 < LastPart /\ ReadOf(t, 0) = 0 /\ rest' = From(3)
      <4>1. 0 \in 0..LastPart /\ 0 < LastPart
        BY <1>4
      <4>2. ReadOf(t, 0) = 0
        BY <1>1, <4>1, Counting
      <4> QED BY <1>6, <2>3, <2>7, <4>1, <4>2
    <3>2. 4 * 0 + 3 = 3 /\ 0 <= pos
      BY <2>5
    <3> QED BY <2>3, <2>4, <2>6, <3>1, <3>2
  <2>8. CASE tile_index[0].there /\ tile_index[t].nb_tps = 0
    <3>1. PICK n \in 0..LastPart : n = pos - 1 /\ n < LastPart /\ n <= pos
      BY <1>4, <2>3, <2>5
    <3>2. ReadOf(t, pos) \in Nat /\ ReadOf(t, n) \in Nat /\ ReadOf(t, n) <= ReadOf(t, pos)
      <4>1. n \in 0..pos
        BY <2>5, <3>1
      <4> QED BY <1>1, <2>5, <4>1, Counting
    <3>3. ReadOf(t, n) = 0
      BY <2>5, <2>8, <3>2
    <3>4. rest' = From(4 * n + 3)
      <4>1. AfterSOT(pos) = From(4 * (pos - 1) + 3)
        BY <1>1, <2>3, <2>5, StreamAt
      <4> QED BY <1>6, <2>8, <3>1, <4>1
    <3> QED BY <2>3, <2>4, <2>6, <3>1, <3>3, <3>4
  <2>9. CASE tile_index[0].there /\ tile_index[t].nb_tps # 0
    <3>1. PICK m : m = tile_index[t].start
      OBVIOUS
    <3>2. m \in 1..LastPart /\ m \in Nat /\ ReadOf(t, m - 1) = 0
      <4>1. m \in PartsOf(codestream, t) /\ ReadOf(t, m - 1) = 0
        BY <2>5, <2>9, <3>1
      <4>2. m \in 1..LastPart /\ m \in Nat
        BY <1>1, <2>5, <4>1, CountingParts
      <4> QED BY <4>1, <4>2
    <3>3. PICK n \in 0..LastPart : n = m - 1 /\ n < LastPart
      BY <1>4, <3>2
    <3>4. n <= pos
      <4>1. SUFFICES ASSUME pos < n PROVE FALSE
        BY <2>5, <3>3
      <4>2. pos \in 0..n
        BY <2>5, <4>1
      <4>3. ReadOf(t, pos) \in Nat /\ ReadOf(t, pos) <= ReadOf(t, n)
        BY <1>1, <4>2, Counting
      <4> QED BY <2>5, <2>9, <3>2, <3>3, <4>3
    <3>5. rest' = From(4 * n + 3)
      <4>1. m > 0
        BY <3>2
      <4>2. AfterSOT(m) = From(4 * (m - 1) + 3)
        BY <1>1, <3>2, <4>1, StreamAt
      <4> QED BY <1>6, <2>9, <3>1, <3>3, <4>2
    <3> QED BY <2>3, <2>4, <2>6, <3>2, <3>3, <3>4, <3>5
  <2> QED BY <2>7, <2>8, <2>9
<1> QED BY <1>1, <1>7, <1>8

(* opj_get_decoded_tile.                                                   *)
LEMMA GetTileWalks == ASSUME IInv, WInv, NEW t \in Tile, GetTile(t) PROVE WInv'
<1>1. /\ TypeInv /\ m_private_image /\ call.pc = "idle" /\ calls \in Nat
      /\ UNCHANGED <<codestream, m_private_image, m_current_tile_number, tile_index>>
  BY TypeNow DEF GetTile, IInv
<1>2. /\ calls' = calls + 1 /\ calls' > 0
      /\ call'.pc = "read_tile_header" /\ call'.is = "get_tile" /\ call'.area = {t}
      /\ image' = [u \in Tile |-> None]
  BY <1>1 DEF GetTile, StartCall, Local
<1>3. /\ m_decoder'.area = m_decoder.area
      /\ m_decoder'.last_tile_part = m_decoder.last_tile_part
      /\ m_decoder'.correction = m_decoder.correction
      /\ m_decoder'.correction_checked = m_decoder.correction_checked
      /\ m_decoder'.last_sot_read_pos = m_decoder.last_sot_read_pos
  <2>1. m_decoder \in DecoderSet(Tile)
    BY <1>1, TypeNow
  <2> QED BY <2>1 DEF GetTile, DecoderSet
<1>4. /\ Tile' = Tile /\ LastPart' = LastPart /\ Low' = Low
      /\ (\A u : PartsOf(codestream, u)' = PartsOf(codestream, u))
      /\ (\A u : Count(u)' = Count(u)) /\ (\A u, i : ReadOf(u, i)' = ReadOf(u, i))
      /\ (\A j : From(j)' = From(j))
      /\ Open(codestream)' = Open(codestream) /\ Conforms(codestream)' = Conforms(codestream)
  BY <1>1, Fixed
<1>5. \A u \in Tile :
        tcps'[u].part = -1 /\ tcps'[u].nb = tcps[u].nb /\ tcps'[u].data = tcps[u].data
  <2>1. \A u \in Tile : tcps[u] \in Tiles
    BY <1>1, TileFields
  <2>2. \A u \in Tile : tcps'[u] = [tcps[u] EXCEPT !.part = -1]
    BY DEF GetTile
  <2> QED BY <2>1, <2>2 DEF Tiles
<1>6. m_decoder'.area # {} /\ StartInv' /\ WholeCodestreamsDecode'
  BY <1>1, <1>2, <1>3 DEF WInv, StartInv, WholeCodestreamsDecode
<1>7. ASSUME Promised' PROVE \E n \in 0..LastPart : WalkInv(n)'
  <2>1. /\ IndexInv(m_decoder.last_sot_read_pos) /\ NumbersInv
        /\ \A u \in Tile : tcps[u].data = None
    BY <1>7, GetTileGoesBack
  <2>2. PICK n \in 0..LastPart :
          /\ n < LastPart /\ n <= m_decoder.last_sot_read_pos /\ ReadOf(t, n) = 0
          /\ rest' = From(4 * n + 3) /\ m_decoder'.state = {"TPHSOT"}
    BY <1>7, GetTileGoesBack
  <2>3. /\ Conforms(codestream) \/ (Low /\ Tile = {t})
        /\ ~Open(codestream)
    BY <1>2, <1>4, <1>7 DEF Promised, PassesRightly
  <2>4. ~m_decoder.last_tile_part
    BY <1>1, <2>3 DEF IInv, LastInv
  <2>5. PlaceInv(n)'
    BY <1>2, <1>4, <2>2 DEF PlaceInv, Between
  <2>6. NumbersInv'
    BY <1>3, <1>4, <1>5, <2>1 DEF NumbersInv, Number
  <2>7. RepairInv(n)'
    <3>1. ASSUME Low, NEW u \in Tile PROVE ReadOf(u, n) <= Number(u)' /\ ReadOf(u, n) # Number(u)'
      <4>1. u = t
        BY <1>1, <2>3, <3>1, Numbers
      <4>2. Count(u) \in Nat /\ Count(u) >= 2
        BY <1>1, <3>1, Numbers
      <4>3. Number(u)' \in Nat \ {0}
        BY <1>4, <4>2 DEF Number
      <4> QED BY <2>2, <4>1, <4>3
    <3> QED BY <1>3, <1>4, <2>4, <3>1 DEF RepairInv
  <2>8. EndInv'
    BY <2>2, FlagsDiffer DEF EndInv
  <2>9. ASSUME NEW u \in Tile PROVE TileInv(u, n)'
    <3>1. /\ tcps'[u].data = None /\ tcps'[u].part = -1 /\ image'[u] = None /\ Collected(u)' = 0
      BY <1>2, <1>5, <2>1 DEF Collected
    <3> QED BY <1>2, <1>4, <2>2, <3>1 DEF TileInv, None
  <2>10. IndexInv(m_decoder.last_sot_read_pos)'
    BY <1>1, <1>3, <1>4, <2>1 DEF IndexInv
  <2>11. WalkInv(n)'
    BY <1>2, <1>3, <1>4, <2>2, <2>5, <2>6, <2>7, <2>8, <2>9, <2>10 DEF WalkInv
  <2> QED BY <2>11
<1>8. WholeInv'
  BY <1>2, <1>4, <1>7 DEF WholeInv
<1> QED BY <1>6, <1>8 DEF WInv

-----------------------------------------------------------------------------
(* The theorem about whole codestreams                                     *)

(* Nothing has been read at first.                                         *)
LEMMA InitWalks == ASSUME Init PROVE WInv
<1>1. TypeInv
  BY InitInv DEF IInv
<1>2. 0 \in Tile
  BY <1>1, CodestreamFields
<1>3. /\ calls = 0 /\ ~m_private_image /\ rest = From(1) /\ m_decoder.area = Tile
      /\ m_decoder.correction = 0 /\ m_decoder.last_sot_read_pos = 0
      /\ \A t \in Tile : tcps[t].nb = 0 /\ tile_index[t].nb_tps = 0 /\ ~tile_index[t].there
  BY <1>1, StreamAt DEF Init
<1> QED BY <1>2, <1>3 DEF WInv, StartInv, WholeInv, WholeCodestreamsDecode

(* A stutter leaves everything as it is.                                   *)
LEMMA StutterWalks == ASSUME IInv, WInv, UNCHANGED vars PROVE WInv'
<1>1. UNCHANGED <<codestream, rest, m_private_image, m_decoder, m_current_tile_number, tcps, tile_index,
                  call, calls, image>>
  BY DEF vars
<1>2. /\ Tile' = Tile /\ LastPart' = LastPart /\ Low' = Low
      /\ (\A u : PartsOf(codestream, u)' = PartsOf(codestream, u))
      /\ (\A u : Count(u)' = Count(u)) /\ (\A u, i : ReadOf(u, i)' = ReadOf(u, i))
      /\ (\A j : From(j)' = From(j))
  BY <1>1, Fixed
<1>3. m_decoder'.area # {} /\ StartInv'
  BY <1>1, <1>2 DEF WInv, StartInv
<1>4. WholeCodestreamsDecode'
  <2>1. \A t : Complete(t)' = Complete(t)
    BY <1>1 DEF Complete, PartsOf
  <2> QED BY <1>1, <2>1, Fixed DEF WInv, WholeCodestreamsDecode, PassesRightly, Low
<1>5. Promised' = Promised /\ GoesOn' = GoesOn
  BY <1>1, Fixed DEF Promised, PassesRightly, GoesOn
<1>6. ASSUME NEW n, WalkInv(n) PROVE WalkInv(n)'
  <2>1. PlaceInv(n)' /\ NumbersInv' /\ RepairInv(n)' /\ EndInv'
    BY <1>1, <1>2, <1>6 DEF WalkInv, PlaceInv, NumbersInv, Number, RepairInv, EndInv
  <2>2. ASSUME NEW u \in Tile PROVE TileInv(u, n)'
    <3>1. TileInv(u, n) /\ Complete(u)' = Complete(u) /\ Collected(u)' = Collected(u)
      BY <1>1, <1>6 DEF WalkInv, Complete, Collected
    <3> QED BY <1>1, <1>2, <3>1 DEF TileInv
  <2>3. /\ call'.is = "decode" /\ call'.pc # "idle" => call'.nr_tiles = Cardinality(Decoded)'
        /\ call'.is = "get_tile" =>
             IndexInv(m_decoder.last_sot_read_pos)' /\ n <= m_decoder'.last_sot_read_pos
    BY <1>1, <1>2, <1>6 DEF WalkInv, Decoded, IndexInv
  <2> QED BY <1>2, <2>1, <2>2, <2>3 DEF WalkInv
<1>7. BetweenInv => BetweenInv'
  BY <1>1, <1>2 DEF BetweenInv, NumbersInv, Number, IndexInv
<1>8. WholeInv'
  BY <1>1, <1>2, <1>5, <1>6, <1>7 DEF WInv, WholeInv
<1> QED BY <1>3, <1>4, <1>8 DEF WInv

(* Every step keeps the walk.                                              *)
LEMMA NextWalks == ASSUME IInv, WInv, Next PROVE WInv'
<1>1. CASE Progress
  BY <1>1, DecodeTilesWalks, BeginTileHeaderWalks, NothingRefused, ReadSOTWalks,
     SkipTilePartWalks, ReadSODWalks, AfterLoopWalks, DecodeTileFailsWalks, DecodeTileWalks,
     NoMoreTilesWalks DEF Progress
<1>2. CASE Program
  BY <1>2, ReadHeaderWalks, DecodeWalks, ReadTileHeaderWalks, GetTileWalks, SetDecodeAreaWalks
     DEF Program
<1> QED BY <1>1, <1>2 DEF Next

(* The walk over a whole codestream is an invariant of the decoder.        *)
THEOREM WholeInvariance == Spec => [](IInv /\ WInv)
<1>1. Init => IInv /\ WInv
  BY InitInv, InitWalks
<1>2. IInv /\ WInv /\ [Next]_vars => (IInv /\ WInv)'
  BY NextStep, NextWalks, StutterStep, StutterWalks
<1> QED BY <1>1, <1>2, PTL DEF Spec

(* Of a codestream that is whole every call delivers each tile it was      *)
(* asked for from all of its tile-parts, and fails for nothing but its     *)
(* packets: opj_j2k_decode_tiles, opj_j2k_get_tile and                     *)
(* opj_j2k_read_tile_header.                                               *)
THEOREM WholeDecoded == Spec => []WholeCodestreamsDecode
<1>1. WInv => WholeCodestreamsDecode
  BY DEF WInv
<1> QED BY <1>1, WholeInvariance, PTL
=============================================================================
