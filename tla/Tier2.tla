------------------------------- MODULE Tier2 -------------------------------
(***************************************************************************)
(* Tier-2 coding of one precinct (openjpeg t2.c, bio.c, tgt.c, with the    *)
(* layer allocation of tcd.c and the pass structure of t1.c).  The encoder *)
(* cuts the coding passes of the code blocks into quality layers, trying   *)
(* packets against a length first; it then writes one packet per layer: a  *)
(* bit-stuffed header and the bytes of the passes.  The decoder reads or   *)
(* skips the packets.  Nothing in the stream says where a codeword segment *)
(* ends but the state both sides carry from packet to packet: tag trees,   *)
(* pass counts, length bits and segments must stay in step.                *)
(***************************************************************************)
EXTENDS TagTree

CONSTANTS
    NLayers,     \* tcp->numlayers
    BandBps,     \* band->numbps
    Tiles,       \* what may be encoded and how: see TilesAssumption
    Room,        \* bytes of the tile buffer (len)
    MaxTrials    \* bound on the trials of one layer (128 in the code)

VARIABLES
    tile,        \* the tile that is encoded
    phase,       \* "allocate", "write", "read", "done" or "failed"
    layers,      \* the layers made: passes of each block up to their end
    trial,       \* the search of the current layer: tries, good and last cut
    fitted,      \* the layers made from a trial that fitted
    enc,         \* the encoder's trees, counts and packet number
    stream,      \* the bytes written
    ends,        \* the length of stream after each packet
    dec,         \* the decoder's trees and code blocks
    pos,         \* bytes of stream the decoder has consumed
    nread,       \* packets read or skipped
    wanted       \* num_layers_to_decode

vars == <<tile, phase, layers, trial, fitted, enc, stream, ends, dec, pos, nread, wanted>>

(* A tile: the code block style, the markers asked for, what tier 1 made   *)
(* of the blocks (bit planes, the bytes up to the end of each pass, and    *)
(* the passes the thresholds may end a layer after) and the bytes allowed  *)
(* up to each layer, 0 for no limit (rates[layno]).                        *)
Blocks == 0..(Wide * High - 1)
TilesAssumption == \A t \in Tiles :
    /\ t.style \in {"plain", "lazy", "termall"} /\ t.csty \subseteq {"SOP", "EPH"}
    /\ DOMAIN t.rates = 1..NLayers
    /\ \A b \in Blocks : LET k == t.blocks[b] IN
          /\ Len(k.rates) = (IF k.numbps = 0 THEN 0 ELSE 3 * k.numbps - 2)
          /\ k.numbps \in 0..BandBps
          /\ \A p \in 2..Len(k.rates) : k.rates[p - 1] <= k.rates[p]
          /\ k.cuts \subseteq 0..Len(k.rates)
ASSUME TilesAssumption

NoCut == [b \in {} |-> 0]

Count(n) == [i \in 1..n |-> i]
BlockSeq == [i \in 1..(Wide * High) |-> i - 1]
SumTo(n, f(_)) == Along(LAMBDA a, x : a + f(x), 0, Count(n))
floorlog2(n) == IF n <= 1 THEN 0 ELSE CHOOSE l \in 1..31 : 2 ^ l <= n /\ n < 2 ^ (l + 1)

-----------------------------------------------------------------------------
(* Tier 1: the passes of a block, their terminations and their bytes.      *)

totalpasses(b) == Len(tile.blocks[b].rates)

(* Pass p (from 1) is the cleanup pass of the top bit plane, then three a  *)
(* plane; whether the encoder terminates the codeword after it.            *)
opj_t1_enc_is_term_pass(b, p) ==
    LET numbps == tile.blocks[b].numbps
        passtype == (p + 1) % 3
        bpno == numbps - 1 - ((p + 1) \div 3)
    IN \/ passtype = 2 /\ bpno = 0
       \/ tile.style = "termall"
       \/ /\ tile.style = "lazy"
          /\ \/ bpno = numbps - 4 /\ passtype = 2
             \/ bpno < numbps - 4 /\ passtype > 0

rate(b, p) == IF p = 0 THEN 0 ELSE tile.blocks[b].rates[p]

(* Byte k of block b; a header byte is below 256, a body byte is not.      *)
DataByte(b, k) == 256 * (b + 1) + k
DataOf(b, from, to) ==
    [i \in 1..(rate(b, to) - rate(b, from)) |-> DataByte(b, rate(b, from) + i)]

-----------------------------------------------------------------------------
(* bio.c: bits in and out of bytes, seven bits in a byte after 0xff.       *)

bits(v, n) == [i \in 1..n |-> (v \div 2 ^ (n - i)) % 2]

(* The first n bits of a header as a byte, zeros for those that lack.      *)
ByteOf(header, n) ==
    Along(LAMBDA v, i : 2 * v + (IF i <= Len(header) THEN header[i] ELSE 0), 0, Count(n))

(* Mutant: eight bits in every byte.                                       *)
RECURSIVE Unstuffed(_, _)
Unstuffed(header, n) ==
    IF Len(header) <= n THEN <<ByteOf(header, n)>>
    ELSE <<ByteOf(header, n)>> \o Unstuffed(SubSeq(header, n + 1, Len(header)), 8)

(* opj_bio_putbit, opj_bio_byteout and opj_bio_flush: the bytes of a       *)
(* header, n bits going into the next one; a last byte of 0xff is followed *)
(* by another.  Bytes past the end of the buffer are dropped and make      *)
(* opj_bio_flush fail, so that a header is written if and only if it fits. *)
RECURSIVE opj_bio_putbits(_, _)
opj_bio_putbits(header, n) ==
    LET byte == ByteOf(header, n)
        next == IF byte = 255 THEN 7 ELSE 8
    IN IF Len(header) <= n /\ byte # 255 THEN <<byte>>
       ELSE <<byte>> \o opj_bio_putbits(SubSeq(header, n + 1, Len(header)), next)

opj_bio_bytein(bio) ==
    LET shifted == (bio.buf * 256) % 65536
        more == bio.bp < Len(stream)
    IN [bio EXCEPT !.ct = IF shifted = 65280 THEN 7 ELSE 8,
                   !.buf = IF more THEN shifted + stream[bio.bp + 1] ELSE shifted,
                   !.bp = IF more THEN @ + 1 ELSE @,
                   !.ok = more]

NextBit(ready) ==
    [ready EXCEPT !.ct = @ - 1, !.bit = (ready.buf \div 2 ^ (ready.ct - 1)) % 2]
opj_bio_getbit(bio) == NextBit(IF bio.ct = 0 THEN opj_bio_bytein(bio) ELSE bio)

opj_bio_init_dec(at) == [buf |-> 0, ct |-> 0, bp |-> at, bit |-> 0, ok |-> TRUE]

opj_bio_inalign(bio) ==
    [(IF bio.buf % 256 = 255 THEN opj_bio_bytein(bio) ELSE [bio EXCEPT !.ok = TRUE])
        EXCEPT !.ct = 0]

(* opj_bio_read: the value of n bits.                                      *)
WithBit(bio, v) == [bio |-> bio, v |-> 2 * v + bio.bit]
opj_bio_read(bio, n) ==
    Along(LAMBDA s, i : WithBit(opj_bio_getbit(s.bio), s.v), [bio |-> bio, v |-> 0], Count(n))

(* One node of opj_tgt_decode: s holds the bio, the tree and the low.      *)
Told(s, node, bio) == IF bio.bit = 1 THEN [s EXCEPT !.bio = bio, !.tree[node].value = s.low]
                      ELSE [s EXCEPT !.bio = bio, !.low = @ + 1]
RECURSIVE SeekValue(_, _, _)
SeekValue(s, node, threshold) ==
    IF s.low < threshold /\ s.low < s.tree[node].value
    THEN SeekValue(Told(s, node, opj_bio_getbit(s.bio)), node, threshold)
    ELSE [s EXCEPT !.tree[node].low = s.low]

opj_tgt_decode(bio, tree, leafno, threshold) ==
    Along(LAMBDA s, node :
              SeekValue([s EXCEPT !.low = Greatest(@, s.tree[node].low)], node, threshold),
          [bio |-> bio, tree |-> tree, low |-> 0], PathTo(leafno))

Found(s, leafno, threshold) == s.tree[<<0, leafno % Wide, leafno \div Wide>>].value < threshold

-----------------------------------------------------------------------------
(* Numbers in a packet header.                                             *)

opj_t2_putnumpasses(n) ==
    CASE n = 1 -> bits(0, 1)
      [] n = 2 -> bits(2, 2)
      [] n \in 3..5 -> bits(12 + (n - 3), 4)
      [] n \in 6..36 -> bits(480 + (n - 6), 9)
      [] n \in 37..164 -> bits(65408 + (n - 37), 16)
      [] OTHER -> <<>>

(* Code words of 1, 1, 2, 5 and 7 bits, each but the last leading to the   *)
(* next when it is all ones.                                               *)
CodeWords == << <<1, 1>>, <<1, 2>>, <<2, 3>>, <<5, 6>>, <<7, 37>> >>
RECURSIVE opj_t2_getnumpasses(_, _)
NumPasses(word, i) ==
    IF i < 5 /\ word.v = 2 ^ CodeWords[i][1] - 1 THEN opj_t2_getnumpasses(word.bio, i + 1)
    ELSE [word EXCEPT !.v = @ + CodeWords[i][2]]
opj_t2_getnumpasses(bio, i) == NumPasses(opj_bio_read(bio, CodeWords[i][1]), i)

opj_t2_putcommacode(n) == [i \in 1..n |-> 1] \o <<0>>

RECURSIVE opj_t2_getcommacode(_, _)
CommaCode(bio, n) == IF bio.bit = 1 THEN opj_t2_getcommacode(bio, n + 1)
                     ELSE [bio |-> bio, v |-> n]
opj_t2_getcommacode(bio, n) == CommaCode(opj_bio_getbit(bio), n)

-----------------------------------------------------------------------------
(* The encoder.  cut[b]: passes of block b in the layers up to this one.   *)

(* Mutant: the terminations inside a layer are not looked at.              *)
LayerEndOnly(b, from, upto) == {p \in (from + 1)..upto : p = upto}

(* The codeword segments a layer holds of a block, each by its last pass:  *)
(* a termination, or the end of the layer.                                 *)
SegmentEnds(b, from, upto) ==
    {p \in (from + 1)..upto : p = upto \/ opj_t1_enc_is_term_pass(b, p)}

(* The length of the segment that ends at pass p, and the bits its passes  *)
(* add to the length bits of the block.                                    *)
Segment(b, from, segments, p) ==
    LET start == Max({from} \cup {q \in segments : q < p}) IN
    [len |-> rate(b, p) - rate(b, start), log |-> floorlog2(p - start)]

(* A block of opj_t2_encode_packet's header; s holds the encoder and the   *)
(* bits of the header, n is the number of passes of the layer.             *)
WriteTree(s, tree, t) == [s EXCEPT !.enc[tree] = t.tree, !.bits = @ \o t.bits]

WriteInclusion(s, b, n, layno) ==
    IF s.enc.cblk[b].numpasses = 0
    THEN WriteTree(s, "incl", opj_tgt_encode(s.enc.incl, b, layno + 1))
    ELSE [s EXCEPT !.bits = Append(@, IF n # 0 THEN 1 ELSE 0)]

WriteBitPlanes(s, b) ==
    IF s.enc.cblk[b].numpasses > 0 THEN s
    ELSE WriteTree([s EXCEPT !.enc.cblk[b].numlenbits = 3], "imsb",
                   opj_tgt_encode(s.enc.imsb, b, 999))

WriteLengths(s, b, segments, numlenbits) ==
    [s EXCEPT
       !.enc.cblk[b].numlenbits = numlenbits,
       !.bits = Along(LAMBDA a, p :
                          LET l == Segment(b, s.enc.cblk[b].numpasses, segments, p) IN
                          a \o bits(l.len, numlenbits + l.log),
                      @ \o opj_t2_putcommacode(numlenbits - s.enc.cblk[b].numlenbits),
                      SelectSeq(Count(totalpasses(b)), LAMBDA p : p \in segments))]

(* The length bits every segment of the layer can be written with.         *)
LengthBits(s, b, segments) ==
    Max({s.enc.cblk[b].numlenbits} \cup
        {LET l == Segment(b, s.enc.cblk[b].numpasses, segments, p)
         IN floorlog2(l.len) + 1 - l.log : p \in segments})

WriteSegments(s, b, segments) == WriteLengths(s, b, segments, LengthBits(s, b, segments))

WriteIncluded(s, b, n) ==
    WriteSegments([s EXCEPT !.bits = @ \o opj_t2_putnumpasses(n)], b,
                  SegmentEnds(b, s.enc.cblk[b].numpasses, s.enc.cblk[b].numpasses + n))

EncodeBlock(s, b, n, layno) ==
    IF n = 0 THEN WriteInclusion(s, b, n, layno)
    ELSE WriteIncluded(WriteBitPlanes(WriteInclusion(s, b, n, layno), b), b, n)

(* Mutant: the tag trees keep what a trial has put in them.                *)
CountsOnlyReset(e) == [e EXCEPT !.cblk = [b \in Blocks |-> [@[b] EXCEPT !.numpasses = 0]]]

(* Layer 0 starts the precinct afresh.                                     *)
ResetEncoder(e) ==
    [e EXCEPT !.incl = opj_tgt_reset,
              !.imsb = Along(LAMBDA t, b :
                           opj_tgt_setvalue(t, b, BandBps - tile.blocks[b].numbps),
                           opj_tgt_reset, BlockSeq),
              !.cblk = [b \in Blocks |-> [@[b] EXCEPT !.numpasses = 0]]]

InclusionSet(e, layno, before, cut) ==
    [e EXCEPT !.incl = Along(
        LAMBDA t, b : IF e.cblk[b].numpasses = 0 /\ cut[b] > before[b]
                      THEN opj_tgt_setvalue(t, b, layno) ELSE t,
        @, BlockSeq)]

(* The bodies, block after block until one does not fit.                   *)
WriteBodies(s, before, cut) ==
    Along(LAMBDA a, b :
                 LET data == DataOf(b, before[b], cut[b]) IN
                 IF ~a.ok \/ cut[b] = before[b] THEN a
                 ELSE IF Len(a.out) + Len(data) > a.length THEN [a EXCEPT !.ok = FALSE]
                 ELSE [a EXCEPT !.out = @ \o data,
                                !.enc.cblk[b].numpasses = @ + (cut[b] - before[b])],
             s, BlockSeq)

Marker(id) == IF id \in tile.csty THEN IF id = "SOP" THEN 6 ELSE 2 ELSE 0
SOP(packno) == IF "SOP" \in tile.csty
               THEN <<255, 145, 0, 4, (packno \div 256) % 256, packno % 256>> ELSE <<>>
EPH == IF "EPH" \in tile.csty THEN <<255, 146>> ELSE <<>>

(* The packet of layer layno, in at most length bytes; before and cut are  *)
(* the passes of the blocks in the layers before it and with it.           *)
PacketHeader(e, layno, before, cut) ==
    Along(LAMBDA s, b : EncodeBlock(s, b, cut[b] - before[b], layno),
          [enc |-> InclusionSet(IF layno = 0 THEN ResetEncoder(e) ELSE e, layno, before, cut),
           bits |-> <<1>>],
          BlockSeq)

AfterHeader(e, header, before, cut, length) ==
    IF Len(header) + Marker("EPH") > length THEN [ok |-> FALSE, enc |-> e, out |-> <<>>]
    ELSE WriteBodies([ok |-> TRUE, enc |-> e, out |-> header \o EPH, length |-> length],
                     before, cut)

Packed(s, before, cut, length) ==
    AfterHeader(s.enc, SOP(s.enc.packno) \o opj_bio_putbits(s.bits, 8), before, cut, length)

opj_t2_encode_packet(e, layno, before, cut, length) ==
    IF length < Marker("SOP") THEN [ok |-> FALSE, enc |-> e, out |-> <<>>]
    ELSE Packed(PacketHeader(e, layno, before, cut), before, cut, length)

-----------------------------------------------------------------------------
(* The decoder.                                                            *)

MaxPasses(segs, index, first) ==
    CASE tile.style = "termall" -> 1
      [] tile.style = "lazy" /\ first -> 10
      [] tile.style = "lazy" /\ ~first -> IF segs[index].maxpasses \in {1, 10} THEN 2 ELSE 1
      [] OTHER -> 109

(* Segment index (from 0) is made anew, the array growing when it must.    *)
opj_t2_init_seg(segs, index, first) ==
    LET seg == [maxpasses |-> MaxPasses(segs, index, first), numpasses |-> 0,
                numnewpasses |-> 0, newlen |-> 0, len |-> 0, real_num_passes |-> 0]
    IN [i \in 1..Greatest(Len(segs), index + 1) |-> IF i = index + 1 THEN seg ELSE segs[i]]

(* The lengths of the segments n new passes lie in, from segment segno on. *)
RECURSIVE ReadLengths(_, _, _, _)
WithLength(s, b, segno, passes, n, length) ==
    LET read == [s EXCEPT !.bio = length.bio,
                          !.cblk[b].segs[segno + 1].numnewpasses = passes,
                          !.cblk[b].segs[segno + 1].newlen = length.v]
    IN IF n = passes THEN read
       ELSE ReadLengths([read EXCEPT !.cblk[b].segs = opj_t2_init_seg(@, segno + 1, FALSE)],
                        b, segno + 1, n - passes)
LengthOf(s, b, segno, passes, n) ==
    LET bit_number == s.cblk[b].numlenbits + floorlog2(passes) IN
    IF bit_number > 32 THEN [s EXCEPT !.ok = FALSE]
    ELSE WithLength(s, b, segno, passes, n, opj_bio_read(s.bio, bit_number))
ReadLengths(s, b, segno, n) ==
    LET seg == s.cblk[b].segs[segno + 1] IN
    LengthOf(s, b, segno, Least(seg.maxpasses - seg.numpasses, n), n)

(* The segment the new passes of a block go to, made when the last is full.*)
OpenSegment(segs, numsegs) ==
    CASE numsegs = 0 -> [segs |-> opj_t2_init_seg(segs, 0, TRUE), segno |-> 0]
      [] numsegs > 0 /\ segs[numsegs].numpasses = segs[numsegs].maxpasses ->
            [segs |-> opj_t2_init_seg(segs, numsegs, FALSE), segno |-> numsegs]
      [] OTHER -> [segs |-> segs, segno |-> numsegs - 1]

ReadSegments(s, b, open) ==
    ReadLengths([s EXCEPT !.cblk[b].segs = open.segs], b, open.segno, s.cblk[b].numnewpasses)

(* The zero bit planes: thresholds tried one after the other.              *)
RECURSIVE ReadBitPlanes(_, _, _)
BitPlanes(s, b, i, t) ==
    LET read == [s EXCEPT !.bio = t.bio, !.imsb = t.tree] IN
    IF Found(t, b, i)
    THEN [read EXCEPT !.cblk[b].numbps = BandBps + 1 - i, !.cblk[b].numlenbits = 3]
    ELSE ReadBitPlanes(read, b, i + 1)
ReadBitPlanes(s, b, i) == BitPlanes(s, b, i, opj_tgt_decode(s.bio, s.imsb, b, i))

ReadCount(s, b, count) == [s EXCEPT !.bio = count.bio, !.cblk[b].numnewpasses = count.v]
ReadIncrement(s, b, code) == [s EXCEPT !.bio = code.bio, !.cblk[b].numlenbits = @ + code.v]

ReadPasses(s, b) ==
    ReadSegments(s, b, OpenSegment(s.cblk[b].segs, s.cblk[b].numsegs))
ReadCounts(s, b) == ReadCount(s, b, opj_t2_getnumpasses(s.bio, 1))
ReadIncrements(s, b) == ReadIncrement(s, b, opj_t2_getcommacode(s.bio, 0))
ReadPlanes(s, b) == IF s.cblk[b].numsegs = 0 THEN ReadBitPlanes(s, b, 0) ELSE s

(* A block of opj_t2_read_packet_header, found to be included or not.      *)
ReadIncluded(s, b, included) ==
    IF included THEN ReadPasses(ReadIncrements(ReadCounts(ReadPlanes(s, b), b), b), b)
    ELSE [s EXCEPT !.cblk[b].numnewpasses = 0]

InTree(s, b, layno, t) ==
    ReadIncluded([s EXCEPT !.bio = t.bio, !.incl = t.tree], b, Found(t, b, layno + 1))
InFlag(s, b, bio) == ReadIncluded([s EXCEPT !.bio = bio], b, bio.bit = 1)

ReadBlock(s, b, layno) ==
    CASE ~s.ok -> s
      [] s.ok /\ s.cblk[b].numsegs = 0 ->
            InTree(s, b, layno, opj_tgt_decode(s.bio, s.incl, b, layno + 1))
      [] OTHER -> InFlag(s, b, opj_bio_getbit(s.bio))

NoSegments(cblk) == [b \in Blocks |-> [cblk[b] EXCEPT !.numsegs = 0, !.real_num_segs = 0]]

(* Markers are skipped when they are there.                                *)
PastMarker(id, at) ==
    LET size == Marker(id)
        code == IF id = "SOP" THEN 145 ELSE 146
    IN IF size > 0 /\ at + size <= Len(stream) /\ stream[at + 1] = 255 /\ stream[at + 2] = code
       THEN at + size ELSE at

StartHeader(layno, at) ==
    [ok |-> TRUE, at |-> at, bio |-> opj_bio_getbit(opj_bio_init_dec(PastMarker("SOP", at))),
     incl |-> IF layno = 0 THEN opj_tgt_reset ELSE dec.incl,
     imsb |-> IF layno = 0 THEN opj_tgt_reset ELSE dec.imsb,
     cblk |-> IF layno = 0 THEN NoSegments(dec.cblk) ELSE dec.cblk]

(* The header ends with the byte the last bit was in.                      *)
EndHeader(s, present, bio) ==
    [s EXCEPT !.ok = ~present \/ (@ /\ bio.ok), !.at = PastMarker("EPH", bio.bp)]

(* The segments of a block that the packet has data for, one after the     *)
(* other; keep says whether the data are read or skipped.                  *)
RECURSIVE TakeSegments(_, _, _)
SegmentTaken(s, b, keep, i, seg) ==
    [s EXCEPT
       !.at = @ + seg.newlen,
       !.cblk[b].segs[i].numpasses = @ + seg.numnewpasses,
       !.cblk[b].numnewpasses = @ - seg.numnewpasses,
       !.cblk[b].numsegs = IF s.cblk[b].numnewpasses > seg.numnewpasses THEN @ + 1 ELSE @,
       !.cblk[b].data =
          IF keep THEN @ \o SubSeq(stream, s.at + 1, s.at + seg.newlen) ELSE @,
       !.cblk[b].segs[i].len = IF keep THEN @ + seg.newlen ELSE @,
       !.cblk[b].segs[i].real_num_passes =
          IF keep THEN seg.numpasses + seg.numnewpasses ELSE @]
TakeSegments(s, b, keep) ==
    LET blk == s.cblk[b]
        seg == blk.segs[blk.numsegs]
    IN CASE blk.numnewpasses = 0 ->
               IF keep THEN [s EXCEPT !.cblk[b].real_num_segs = blk.numsegs] ELSE s
         [] blk.numnewpasses > 0 /\ s.at + seg.newlen > Len(stream) -> [s EXCEPT !.ok = FALSE]
         [] OTHER -> TakeSegments(SegmentTaken(s, b, keep, blk.numsegs, seg), b, keep)

TakeBlock(s, b, keep) ==
    LET blk == s.cblk[b] IN
    IF ~s.ok \/ blk.numnewpasses = 0 THEN s
    ELSE TakeSegments([s EXCEPT !.cblk[b].numsegs =
                          IF \/ @ = 0
                             \/ blk.segs[@].numpasses = blk.segs[@].maxpasses
                          THEN @ + 1 ELSE @], b, keep)

(* opj_t2_read_packet_data (keep) and opj_t2_skip_packet_data.             *)
TakeData(s, keep) ==
    IF ~s.ok THEN s ELSE Along(LAMBDA a, b : TakeBlock(a, b, keep), s, BlockSeq)

ReadBlocks(s, layno) == Along(LAMBDA a, b : ReadBlock(a, b, layno), s, BlockSeq)
HeaderOf(s, present) == EndHeader(s, present, opj_bio_inalign(s.bio))

(* opj_t2_decode_packet (keep) and opj_t2_skip_packet: the packet may say  *)
(* with its first bit that it is empty.                                    *)
PacketFrom(s, layno, keep) ==
    IF s.bio.bit = 0 THEN HeaderOf(s, FALSE)
    ELSE TakeData(HeaderOf(ReadBlocks(s, layno), TRUE), keep)

-----------------------------------------------------------------------------
(* The run: layers are made, packets written, packets read or skipped.     *)

NewBlock == [numsegs |-> 0, real_num_segs |-> 0, numnewpasses |-> 0, numlenbits |-> 0,
             numbps |-> 0, segs |-> <<>>, data |-> <<>>]

Init ==
    /\ tile \in Tiles
    /\ phase = "allocate" /\ layers = <<>>
    /\ trial = [tries |-> 0, good |-> NoCut, last |-> NoCut] /\ fitted = {}
    /\ enc = [incl |-> opj_tgt_reset, imsb |-> opj_tgt_reset, packno |-> 0,
              cblk |-> [b \in Blocks |-> [numpasses |-> 0, numlenbits |-> 0]]]
    /\ stream = <<>> /\ ends = <<>>
    /\ dec = [incl |-> opj_tgt_reset, imsb |-> opj_tgt_reset,
              cblk |-> [b \in Blocks |-> NewBlock]]
    /\ pos = 0 /\ nread = 0 /\ wanted = 0

(* The passes of the blocks before layer layno (from 0) of some layers.    *)
Before(made, layno) == IF layno = 0 THEN [b \in Blocks |-> 0] ELSE made[layno]

(* Every cut opj_tcd_makelayer can make for a threshold lies between the   *)
(* passes already in layers and all of them.                               *)
opj_tcd_makelayer ==
    {cut \in [Blocks -> UNION {tile.blocks[b].cuts : b \in Blocks}] :
        \A b \in Blocks : /\ cut[b] \in tile.blocks[b].cuts
                          /\ Before(layers, Len(layers))[b] <= cut[b]}

MaxLen == Least(tile.rates[Len(layers) + 1], Room)

AndPacket(s, p) == [ok |-> p.ok, enc |-> p.enc, written |-> s.written + Len(p.out)]

(* Mutant: every packet of a trial may be as long as the whole layer.      *)
EncodeLayersApart(made) ==
    Along(LAMBDA s, l :
              IF ~s.ok THEN s
              ELSE AndPacket(s, opj_t2_encode_packet(s.enc, l - 1, Before(made, l - 1), made[l],
                                                     MaxLen)),
          [ok |-> TRUE, enc |-> enc, written |-> 0], Count(Len(made)))

(* opj_t2_encode_packets of the layers made so far and this one.           *)
EncodeLayers(made) ==
    Along(LAMBDA s, l :
                 IF ~s.ok THEN s
                 ELSE AndPacket(s, opj_t2_encode_packet(s.enc, l - 1, Before(made, l - 1), made[l],
                                                        MaxLen - s.written)),
             [ok |-> TRUE, enc |-> enc, written |-> 0], Count(Len(made)))

(* One turn of the search for the threshold of a layer with a rate.        *)
Tried(cut, s) ==
    /\ enc' = s.enc
    /\ trial' = [tries |-> trial.tries + 1, last |-> cut, good |-> IF s.ok THEN cut ELSE trial.good]
Trial ==
    /\ phase = "allocate" /\ tile.rates[Len(layers) + 1] > 0
    /\ trial.tries < MaxTrials
    /\ \E cut \in opj_tcd_makelayer : Tried(cut, EncodeLayers(Append(layers, cut)))
    /\ UNCHANGED <<tile, phase, layers, fitted, stream, ends, dec, pos, nread, wanted>>

(* The layer is made: of all passes when it has no rate, else with the     *)
(* last threshold that fitted, or the last one tried when none did.        *)
MakeLayer ==
    /\ phase = "allocate"
    /\ tile.rates[Len(layers) + 1] > 0 => trial.tries > 0
    /\ layers' = Append(layers,
          CASE tile.rates[Len(layers) + 1] = 0 -> [b \in Blocks |-> totalpasses(b)]
            [] tile.rates[Len(layers) + 1] > 0 /\ trial.good # NoCut -> trial.good
            [] OTHER -> trial.last)
    /\ fitted' = IF tile.rates[Len(layers) + 1] > 0 /\ trial.good # NoCut
                  THEN fitted \cup {Len(layers) + 1} ELSE fitted
    /\ trial' = [tries |-> 0, good |-> NoCut, last |-> NoCut]
    /\ phase' = IF Len(layers) + 1 = NLayers THEN "write" ELSE "allocate"
    /\ UNCHANGED <<tile, enc, stream, ends, dec, pos, nread, wanted>>

(* The final pass writes the packet of the next layer.                     *)
Written(p) ==
    /\ enc' = [p.enc EXCEPT !.packno = IF p.ok THEN @ + 1 ELSE @]
    /\ stream' = IF p.ok THEN stream \o p.out ELSE stream
    /\ ends' = IF p.ok THEN Append(ends, Len(stream')) ELSE ends
    /\ phase' = CASE ~p.ok -> "failed"
                 [] p.ok /\ Len(ends) + 1 = NLayers -> "read"
                 [] OTHER -> "write"
WritePacket ==
    /\ phase = "write"
    /\ Written(opj_t2_encode_packet(enc, Len(ends), Before(layers, Len(ends)),
                                    layers[Len(ends) + 1], Room - Len(stream)))
    /\ wanted' \in IF phase' = "read" THEN 0..NLayers ELSE {wanted}
    /\ UNCHANGED <<tile, layers, trial, fitted, dec, pos, nread>>

(* The packet of the next layer is decoded when the layer is wanted, else  *)
(* skipped.  With wanted = 0 the whole resolution is.                      *)
Taken(s) ==
    /\ dec' = [incl |-> s.incl, imsb |-> s.imsb, cblk |-> s.cblk]
    /\ pos' = IF s.ok THEN s.at ELSE pos
    /\ nread' = IF s.ok THEN nread + 1 ELSE nread
    /\ phase' = CASE ~s.ok -> "failed"
                 [] s.ok /\ nread + 1 = NLayers -> "done"
                 [] OTHER -> "read"
TakePacket(keep) ==
    /\ phase = "read"
    /\ keep <=> nread < wanted
    /\ Taken(PacketFrom(StartHeader(nread, pos), nread, keep))
    /\ UNCHANGED <<tile, layers, trial, fitted, enc, stream, ends, wanted>>

DecodePacket == TakePacket(TRUE)
SkipPacket == TakePacket(FALSE)

Finished == phase \in {"done", "failed"} /\ UNCHANGED vars

Next == Trial \/ MakeLayer \/ WritePacket \/ DecodePacket \/ SkipPacket \/ Finished

Spec == Init /\ [][Next]_vars

-----------------------------------------------------------------------------
(* Properties.                                                             *)

(* The passes of block b that the decoder has kept.                        *)
Kept(b) == IF nread = 0 \/ wanted = 0 THEN 0 ELSE layers[Least(nread, wanted)][b]

(* Passes before a segment of a decoded block.                             *)
PassesUpTo(blk, i) == SumTo(i, LAMBDA j : blk.segs[j].numpasses)

(* A segment holds the bytes of its passes, and ends where the encoder     *)
(* terminated its codeword unless it is the last that has been read.       *)
SegmentsAgree(b) ==
    LET blk == dec.cblk[b] IN
    \A i \in 1..blk.real_num_segs :
        LET from == PassesUpTo(blk, i - 1)
            upto == from + blk.segs[i].real_num_passes
        IN /\ blk.segs[i].len = rate(b, upto) - rate(b, from)
           /\ i < blk.real_num_segs => opj_t1_enc_is_term_pass(b, upto)
           /\ \A p \in (from + 1)..(upto - 1) : ~opj_t1_enc_is_term_pass(b, p)

(* No packet header can be taken for a marker: 0xff is followed by another *)
(* header byte, of at most 0x8f but in the markers asked for.              *)
HeadersHoldNoMarker ==
    \A i \in 1..Len(stream) :
        stream[i] = 255 =>
            /\ i < Len(stream)
            /\ \/ stream[i + 1] <= 143
               \/ stream[i + 1] = 145 /\ "SOP" \in tile.csty
               \/ stream[i + 1] = 146 /\ "EPH" \in tile.csty
(* The decoder reads back what the encoder wrote: no packet is refused,    *)
(* every packet is consumed to its last byte, read or skipped, and a block *)
(* has exactly the bit planes, the passes and the bytes of the layers that *)
(* were read, cut into the encoder's codeword segments.  Nothing in the    *)
(* headers looks like a marker.                                            *)
PacketsReadBack ==
    /\ HeadersHoldNoMarker
    /\ phase = "failed" => nread = 0 /\ Len(ends) < NLayers
    /\ pos = IF nread = 0 THEN 0 ELSE ends[nread]
    /\ \A b \in Blocks :
          LET blk == dec.cblk[b] IN
          /\ SumTo(blk.real_num_segs, LAMBDA i : blk.segs[i].real_num_passes) = Kept(b)
          /\ blk.data = DataOf(b, 0, Kept(b))
          /\ Kept(b) > 0 => blk.numbps = tile.blocks[b].numbps
          /\ SegmentsAgree(b)

(* A layer made from a trial that fitted its length keeps to it when the   *)
(* packets are written at last, whatever was tried in between: the trials  *)
(* leave nothing behind that would make a packet longer.                   *)
RatesKept ==
    \A l \in fitted :
        /\ l <= Len(ends) => ends[l] <= tile.rates[l]
        /\ phase = "failed" => l <= Len(ends)

=============================================================================
