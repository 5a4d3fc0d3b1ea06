----------------------------- MODULE J2KDecoder -----------------------------
(***************************************************************************)
(* Decoding of a JPEG 2000 codestream: how the decoder walks over the      *)
(* tile-parts, what it collects for each tile, when it takes a tile for    *)
(* complete, and what it does at the end of a codestream, missing or not.  *)
(* openjpeg/src/lib/openjp2/j2k.c                                          *)
(*                                                                         *)
(* A codestream is a sequence of tokens: the main header, per tile-part    *)
(* the SOT marker, its segment, the SOD marker and the data, and then EOC. *)
(* It may be cut anywhere.  The other segments of a tile-part header only  *)
(* add parameters and are left out, and so are failing allocations.        *)
(* The decoder is in strict mode, its default, which coders/jp2.cpp keeps. *)
(*                                                                         *)
(* One step is one round of a loop of opj_j2k_read_tile_header, what       *)
(* follows that loop, or the decoding of a tile.                           *)
(***************************************************************************)
EXTENDS Integers, Sequences, FiniteSets

CONSTANTS Codestreams,   \* the codestreams a decoder may be given
          MaxCalls       \* bound: calls that decode, per decoder

\* A tile-part: its tile, TPsot, TNsot (0: not given), and whether Psot is 0.
TileParts == [tile : Nat, part : Nat, num : Nat, open : BOOLEAN]

ASSUME J2KDecoderAssumption ==
    /\ MaxCalls \in Nat
    /\ \A c \in Codestreams :
        /\ c.tiles \in Nat \ {0} /\ c.parts \in Seq(TileParts)
        /\ c.eoc \in BOOLEAN /\ c.torn \in BOOLEAN
        /\ c.end \in 0..(4 * Len(c.parts) + IF c.eoc THEN 2 ELSE 1)
        /\ \A n \in 1..Len(c.parts) : c.parts[n].open => n = Len(c.parts)

VARIABLES
    codestream,    \* what the stream holds
    rest,          \* the tokens after the position of the stream
    m_private_image,  \* whether there is one: the header has been read and no call has failed
    m_decoder,     \* p_j2k->m_specific_param.m_decoder
    m_current_tile_number,
    tcps,          \* per tile: m_current_tile_part_number, m_nb_tile_parts, m_data
    tile_index,    \* per tile: nb_tps, whether tp_index is there, and the tile-part at tp_index[0].start_pos
    call,          \* the call in progress and its local variables
    calls,         \* calls that decode so far
    image          \* what the call delivers: per tile, the data it was decoded from

vars == <<codestream, rest, m_private_image, m_decoder, m_current_tile_number, tcps, tile_index,
          call, calls, image>>

(***************************************************************************)
(* Codestreams                                                             *)
(***************************************************************************)
Token(is, n) == [is |-> is, n |-> n]
Kinds == <<"SOT", "segment", "SOD", "data">>

Tokens(c) ==
    [j \in 1..(4 * Len(c.parts) + IF c.eoc THEN 2 ELSE 1) |->
        IF j = 1 THEN Token("header", 0)
        ELSE IF j = 4 * Len(c.parts) + 2 THEN Token("EOC", 0)
        ELSE Token(Kinds[1 + ((j - 2) % 4)], 1 + ((j - 2) \div 4))]

\* The tokens there are: end whole ones, and perhaps a piece of the next.
Available(c) ==
    SubSeq(Tokens(c), 1, c.end)
    \o (IF c.torn THEN <<Token("piece", 0)>> ELSE <<>>)

\* Two bytes that are no marker, at the end of the stream.
NoMarker == Token("unknown", 0)

\* The stream after the SOT marker of tile-part n (start_pos + 2); of none, it
\* is the start of the main header.
AfterSOT(n) ==
    LET s == Available(codestream)
    IN  IF n = 0 THEN s ELSE SubSeq(s, 4 * n - 1, Len(s))

Next2Bytes == IF rest = <<>> THEN "nothing" ELSE Head(rest).is
IsMarker(is) == is \in {"SOT", "SOD", "EOC", "unknown"}

Tile == 0..(codestream.tiles - 1)
None == <<>>   \* m_data is null

\* Data appended to m_data: all of a tile-part's, a part of it, or more than it.
Piece(n, is) == [n |-> n, is |-> is]

Local(pc) == [pc |-> pc, is |-> "none", tile |-> 0, area |-> {}, whole |-> FALSE,
              marker |-> "none", nr_tiles |-> 0, result |-> "none"]

Init ==
    /\ codestream \in Codestreams
    /\ rest = Available(codestream)
    /\ m_private_image = FALSE
    /\ m_decoder = [state |-> {}, can_decode |-> FALSE, skip_data |-> FALSE,
                    last_tile_part |-> FALSE, tile_ind_to_dec |-> -1, area |-> Tile, whole |-> TRUE,
                    correction |-> 0, correction_checked |-> FALSE, last_sot_read_pos |-> 0]
    /\ m_current_tile_number = 0
    /\ tcps = [t \in Tile |-> [part |-> -1, nb |-> 0, data |-> None]]
    /\ tile_index = [t \in Tile |-> [nb_tps |-> 0, there |-> FALSE, start |-> 0]]
    /\ call = Local("idle")
    /\ calls = 0
    /\ image = [t \in Tile |-> None]

Go(pc) == call' = [call EXCEPT !.pc = pc]
Return(result) == call' = [call EXCEPT !.pc = "idle", !.result = result]

\* A call that decodes returns OPJ_FALSE.  m_private_image is destroyed, and
\* with it the use of this decoder ends.
Fail(why) ==
    /\ Return(why)
    /\ m_private_image' = FALSE
    /\ UNCHANGED <<codestream, rest, m_decoder, m_current_tile_number, tcps, tile_index, calls, image>>

(***************************************************************************)
(* Calls of the program                                                    *)
(***************************************************************************)

\* opj_read_header; the main header ends with the first SOT marker.
ReadHeader ==
    /\ call.pc = "idle" /\ ~m_private_image /\ m_decoder.state = {}
    /\ IF Len(rest) >= 2 /\ rest[1].is = "header" /\ rest[2].is = "SOT"
       THEN /\ m_private_image' = TRUE
            /\ m_decoder' = [m_decoder EXCEPT !.state = {"TPHSOT"}]
            /\ rest' = SubSeq(rest, 3, Len(rest))
       ELSE /\ m_decoder' = [m_decoder EXCEPT !.state = {"MH"}]
            /\ UNCHANGED <<rest, m_private_image>>
    /\ UNCHANGED <<codestream, m_current_tile_number, tcps, tile_index, call, calls, image>>

Areas == {first..last : first \in Tile, last \in Tile} \ {{}}

AlreadyIngested == codestream.tiles = 1 /\ tcps[0].data # None

\* opj_set_decode_area: tiles first to last, and for a single tile the whole
\* of it or a part.
SetDecodeArea(area, whole) ==
    /\ call.pc = "idle" /\ m_private_image /\ calls < MaxCalls
    /\ calls > 0 => codestream.tiles = 1 /\ call.is = "decode"
    /\ whole \/ codestream.tiles = 1
    /\ AlreadyIngested \/ m_decoder.state = {"TPHSOT"}
    /\ m_decoder' = [m_decoder EXCEPT !.area = area, !.whole = whole]
    /\ UNCHANGED <<codestream, rest, m_private_image, m_current_tile_number, tcps, tile_index,
                   call, calls, image>>

StartCall(is, tile, area, pc) ==
    /\ calls' = calls + 1
    /\ call' = [Local(pc) EXCEPT !.is = is, !.tile = tile, !.area = area, !.whole = m_decoder.whole]
    /\ image' = IF is = "tile" THEN image ELSE [t \in Tile |-> None]

\* opj_decode: a decoder is used for it once, of a single tile repeatedly.
Decode ==
    /\ call.pc = "idle" /\ m_private_image /\ calls < MaxCalls
    /\ calls > 0 => codestream.tiles = 1 /\ call.is = "decode"
    /\ StartCall("decode", 0, m_decoder.area, "decode_tiles")
    /\ UNCHANGED <<codestream, rest, m_private_image, m_decoder, m_current_tile_number, tcps, tile_index>>

\* Single tile already read: it is decoded again, for another area.
DecodeTiles ==
    /\ call.pc = "decode_tiles"
    /\ IF AlreadyIngested /\ ~m_decoder.whole
       THEN /\ m_current_tile_number' = 0
            /\ m_decoder' = [m_decoder EXCEPT !.state = @ \cup {"DATA"}]
            /\ Go("decode_tile")
       ELSE /\ Go("read_tile_header")
            /\ UNCHANGED <<m_current_tile_number, m_decoder>>
    /\ UNCHANGED <<codestream, rest, m_private_image, tcps, tile_index, calls, image>>

\* opj_get_decoded_tile: back to the first tile-part of the tile, if the index
\* knows it, else to the last SOT marker read so far.
GetTile(t) ==
    /\ call.pc = "idle" /\ m_private_image /\ calls < MaxCalls
    /\ calls > 0 => call.is = "get_tile"
    /\ StartCall("get_tile", t, {t}, "read_tile_header")
    /\ IF tile_index[0].there
       THEN /\ rest' = AfterSOT(IF tile_index[t].nb_tps = 0 THEN m_decoder.last_sot_read_pos
                                ELSE tile_index[t].start)
            /\ m_decoder' = [m_decoder EXCEPT !.tile_ind_to_dec = t,
                                !.state = IF @ = {"EOC"} THEN {"TPHSOT"} ELSE @]
       ELSE /\ m_decoder' = [m_decoder EXCEPT !.tile_ind_to_dec = t]
            /\ UNCHANGED rest
    /\ tcps' = [u \in Tile |-> [tcps[u] EXCEPT !.part = -1]]
    /\ UNCHANGED <<codestream, m_private_image, m_current_tile_number, tile_index>>

\* opj_read_tile_header of a program that reads tile after tile.
ReadTileHeader ==
    /\ call.pc = "idle" /\ m_private_image /\ calls < MaxCalls
    /\ calls > 0 => call.is = "tile" /\ call.result = "ok"
    /\ StartCall("tile", 0, m_decoder.area, "read_tile_header")
    /\ UNCHANGED <<codestream, rest, m_private_image, m_decoder, m_current_tile_number, tcps, tile_index>>

(***************************************************************************)
(* opj_j2k_read_tile_header                                                *)
(***************************************************************************)

BeginTileHeader ==
    /\ call.pc = "read_tile_header"
    /\ IF m_decoder.state = {"EOC"} \/ m_decoder.state = {"TPHSOT"}
       THEN /\ call' = [call EXCEPT !.pc = "loop",
                                    !.marker = IF m_decoder.state = {"EOC"} THEN "EOC" ELSE "SOT"]
            /\ UNCHANGED <<codestream, rest, m_private_image, m_decoder, m_current_tile_number,
                           tcps, tile_index, calls, image>>
       ELSE Fail("state")

InLoop == call.pc = "loop" /\ ~m_decoder.can_decode /\ call.marker # "EOC"

\* Mutant: the loop is not left.
NoMoreTilePartsLoops ==
    /\ InLoop /\ call.marker # "SOD" /\ rest = <<>>
    /\ UNCHANGED vars

\* The stream ends where a marker segment or nothing was expected.
NoMoreTileParts ==
    /\ InLoop /\ call.marker # "SOD" /\ rest = <<>>
    /\ m_decoder' = [m_decoder EXCEPT !.state = {"NEOC"}]
    /\ Go("after_loop")
    /\ UNCHANGED <<codestream, rest, m_private_image, m_current_tile_number, tcps, tile_index,
                   calls, image>>

\* Mutant: the order of tile-parts is not looked at.
RefusesNoDisorder(p) ==
    \/ p.tile \notin Tile
    \/ tcps[p.tile].nb # 0 /\ p.part >= tcps[p.tile].nb
    \/ p.num # 0 /\ p.part >= p.num + m_decoder.correction

\* opj_j2k_read_sot refuses this tile-part.
Refuses(p) ==
    \/ p.tile \notin Tile
    \/ /\ m_decoder.tile_ind_to_dec \in {-1, p.tile}
       /\ tcps[p.tile].part + 1 # p.part
    \/ tcps[p.tile].nb # 0 /\ p.part >= tcps[p.tile].nb
    \/ p.num # 0 /\ p.part >= p.num + m_decoder.correction

NumberOfParts(p) == IF p.num = 0 THEN tcps[p.tile].nb ELSE p.num + m_decoder.correction

Skips(t) ==
    IF m_decoder.tile_ind_to_dec = -1 THEN t \notin m_decoder.area ELSE t # m_decoder.tile_ind_to_dec

TilePart == codestream.parts[Head(rest).n]
SODFollows == Len(rest) >= 2 /\ rest[2].is = "SOD"

RefuseTilePart ==
    /\ InLoop /\ call.marker = "SOT" /\ rest # <<>>
    /\ \/ Head(rest).is # "segment" /\ Fail("short")
       \/ Head(rest).is = "segment" /\ Refuses(TilePart) /\ Fail("tile-part")
       \/ /\ Head(rest).is = "segment" /\ ~Refuses(TilePart) /\ ~Skips(TilePart.tile) /\ ~SODFollows
          /\ Fail("short")

\* A SOT marker segment, and the SOD marker that follows if the tile-part is
\* not to be skipped.
ReadSOT ==
    /\ InLoop /\ call.marker = "SOT" /\ rest # <<>> /\ Head(rest).is = "segment"
    /\ ~Refuses(TilePart)
    /\ Skips(TilePart.tile) \/ SODFollows
    /\ LET n == Head(rest).n
           p == TilePart
           nb == NumberOfParts(p)
       IN  /\ m_current_tile_number' = p.tile
           /\ tcps' = [tcps EXCEPT ![p.tile].part = p.part, ![p.tile].nb = nb]
           /\ tile_index' = [tile_index EXCEPT ![p.tile] =
                  [nb_tps |-> IF p.num = 0 THEN @.nb_tps ELSE p.num + m_decoder.correction,
                   there |-> TRUE,
                   start |-> IF p.part = 0 THEN n ELSE @.start]]
           /\ m_decoder' = [m_decoder EXCEPT
                  !.state = {"TPH"},
                  !.last_tile_part = @ \/ p.open,
                  !.can_decode = @ \/ (nb # 0 /\ nb = p.part + 1),
                  !.skip_data = Skips(p.tile),
                  !.last_sot_read_pos = IF n > @ THEN n ELSE @]
           /\ rest' = IF Skips(p.tile) THEN Tail(rest) ELSE SubSeq(rest, 3, Len(rest))
           /\ call' = [call EXCEPT !.marker = "SOD", !.pc = "tile_part"]
           /\ UNCHANGED <<codestream, m_private_image, calls, image>>

\* The rest of a tile-part that is not wanted: m_sot_length bytes, none once a
\* tile-part with Psot = 0 has been seen.
SkippedTo == IF m_decoder.last_tile_part THEN rest ELSE SubSeq(rest, 3, Len(rest))
CanSkip == m_decoder.last_tile_part \/ (Len(rest) >= 2 /\ rest[2].is = "data")

\* Once a tile-part with Psot = 0 has been seen the data goes on until two
\* bytes before the end of the stream.
DataReadIs ==
    IF ~m_decoder.last_tile_part THEN "whole"
    ELSE IF Len(rest) = 2 /\ rest[2].is = "EOC" THEN "whole"
    ELSE IF Len(rest) <= 2 THEN "cut" ELSE "more"

AfterData ==
    IF ~m_decoder.last_tile_part THEN Tail(rest)
    ELSE IF rest[Len(rest)].is = "EOC" THEN <<rest[Len(rest)]>> ELSE <<NoMarker>>

\* The same tile comes again, with TPsot = TNsot: the numbers of tile-parts in
\* this codestream are one too low.
NeedsCorrection(t, stream) ==
    LET again == {j \in 1..Len(stream) : /\ stream[j].is = "segment"
                                         /\ codestream.parts[stream[j].n].tile = t}
        p == codestream.parts[stream[CHOOSE j \in again : \A k \in again : j <= k].n]
    IN  again # {} /\ p.part = p.num

\* That search comes to a SOT marker without its whole segment.
SearchFails(t, stream) ==
    /\ \A j \in 1..Len(stream) : stream[j].is = "segment" => codestream.parts[stream[j].n].tile # t
    /\ \E j \in 1..Len(stream) :
        stream[j].is = "SOT" /\ (j = Len(stream) \/ stream[j + 1].is # "segment")

\* At the end of a stream without EOC whose last tile-part is of the last tile:
\* the first tile that has TPsot = 0 and TNsot = 0.
Spot6 == {t \in Tile : tcps[t].part = 0 /\ tcps[t].nb = 0}
EndsLikeSpot6(t) == t + 1 = codestream.tiles /\ Spot6 # {}

\* The next marker is read from stream, and the loop goes on.
GoOnReading(stream, decoder, current, data) ==
    IF stream # <<>> /\ IsMarker(Head(stream).is)
    THEN /\ rest' = Tail(stream)
         /\ m_decoder' = decoder
         /\ tcps' = data
         /\ call' = [call EXCEPT !.pc = "loop", !.marker = Head(stream).is]
         /\ UNCHANGED <<codestream, m_private_image, m_current_tile_number, tile_index, calls, image>>
    ELSE IF EndsLikeSpot6(current)
    THEN /\ rest' = <<>>
         /\ m_decoder' = [decoder EXCEPT !.state = {"EOC"}]
         /\ tcps' = data
         /\ m_current_tile_number' = CHOOSE t \in Spot6 : \A u \in Spot6 : t <= u
         /\ call' = [call EXCEPT !.pc = "after_loop", !.marker = "EOC"]
         /\ UNCHANGED <<codestream, m_private_image, tile_index, calls, image>>
    ELSE Fail("short")

SkipTilePart ==
    /\ call.pc = "tile_part" /\ m_decoder.skip_data
    /\ IF CanSkip
       THEN GoOnReading(SkippedTo,
                        [m_decoder EXCEPT !.skip_data = FALSE, !.can_decode = FALSE, !.state = {"TPHSOT"}],
                        m_current_tile_number, tcps)
       ELSE Fail("short")

\* m_nb_tile_parts of every tile that has one, raised by one.
Corrected(data) == [u \in Tile |-> [data[u] EXCEPT !.nb = IF @ # 0 THEN @ + 1 ELSE 0]]

\* opj_j2k_read_sod and what follows it: also reached from the loop, with the
\* SOD marker that a skip of no bytes has left in the stream.
ReadSOD ==
    /\ \/ call.pc = "tile_part" /\ ~m_decoder.skip_data
       \/ InLoop /\ call.marker = "SOD"
    /\ LET t == m_current_tile_number
           stream == AfterData
           data == [tcps EXCEPT ![t].data = Append(@, Piece(tcps[t].part, DataReadIs))]
           checks == m_decoder.can_decode /\ ~m_decoder.correction_checked
           corrected == checks /\ NeedsCorrection(t, stream)
           decoder == [m_decoder EXCEPT
               !.state = {"TPHSOT"},
               !.correction_checked = @ \/ m_decoder.can_decode,
               !.can_decode = @ /\ ~corrected,
               !.correction = IF corrected THEN 1 ELSE @]
       IN  IF rest = <<>> \/ (~m_decoder.last_tile_part /\ Head(rest).is # "data")
                          \/ (checks /\ SearchFails(t, stream))
           THEN Fail("short")
           ELSE IF decoder.can_decode
           THEN /\ rest' = stream
                /\ m_decoder' = decoder
                /\ tcps' = data
                /\ Go("after_loop")
                /\ UNCHANGED <<codestream, m_private_image, m_current_tile_number, tile_index, calls, image>>
           ELSE GoOnReading(stream, decoder, t,
                            IF corrected THEN Corrected(data) ELSE data)

\* The tiles from t on whose data has been read and not been decoded.
Pending(t) == {u \in Tile : u >= t /\ tcps[u].data # None}

\* Which tile it is: the one that is complete, else the next with data.
AfterLoop ==
    /\ \/ call.pc = "after_loop"
       \/ call.pc = "loop" /\ (m_decoder.can_decode \/ call.marker = "EOC")
    /\ LET ended == call.marker = "EOC" /\ m_decoder.state # {"EOC"}
           start == IF ended THEN 0 ELSE m_current_tile_number
           state == IF ended THEN {"EOC"} ELSE m_decoder.state
       IN  IF ~m_decoder.can_decode /\ Pending(start) = {}
           THEN /\ m_current_tile_number' = codestream.tiles
                /\ m_decoder' = [m_decoder EXCEPT !.state = state]
                /\ Go("no_more")
           ELSE LET t == IF m_decoder.can_decode THEN start
                         ELSE CHOOSE u \in Pending(start) : \A v \in Pending(start) : u <= v
                IN  /\ m_current_tile_number' = t
                    /\ m_decoder' = [m_decoder EXCEPT !.state = state \cup {"DATA"}]
                    /\ Go("decode_tile")
    /\ UNCHANGED <<codestream, rest, m_private_image, tcps, tile_index, calls, image>>


(***************************************************************************)
(* opj_j2k_decode_tile and the loops that call it                          *)
(***************************************************************************)

\* The whole of a single tile takes a way of its own: no loop, and the data
\* of the tile is kept.
WholeSingleTile == call.is = "decode" /\ codestream.tiles = 1 /\ call.whole

\* The area and tile t have a point in common, if only of their borders.
Touches(t) == \E u \in call.area : t \in {u - 1, u, u + 1}

\* All components have been allocated: some tile has been put into the image.
AllDecoded(img) == \E t \in call.area : img[t] # None

Finish(img) ==
    IF AllDecoded(img)
    THEN Return("ok") /\ UNCHANGED m_private_image
    ELSE Return("nothing") /\ m_private_image' = FALSE

\* A tile whose packets cannot be decoded, or that is outside of the area.
DecodeTileFails ==
    /\ call.pc = "decode_tile"
    /\ Fail(IF Touches(m_current_tile_number) THEN "undecodable" ELSE "outside")

\* Mutant: the data of every tile decoded by opj_decode is kept.
KeepsAllData == call.is = "decode"

KeepsData ==
    /\ call.is = "decode"
    /\ codestream.tiles = 1

AtEnd == rest = <<>>

\* Decoded, and copied into the image as far as the two overlap; then the next
\* marker is read, and the loop around it ends or goes on.
DecodeTile ==
    /\ call.pc = "decode_tile" /\ Touches(m_current_tile_number)
    /\ LET t == m_current_tile_number
           state == m_decoder.state \ {"DATA"}
           img == IF t \in call.area THEN [image EXCEPT ![t] = tcps[t].data] ELSE image
           reads == ~(AtEnd /\ state = {"NEOC"}) /\ state # {"EOC"}
           marker == IF AtEnd THEN "nothing" ELSE Head(rest).is
           nextState == IF reads /\ marker = "EOC" THEN {"EOC"}
                        ELSE IF reads /\ marker = "unknown" THEN {"NEOC"} ELSE state
           left == IF reads THEN Tail(rest) ELSE rest
           done == \/ WholeSingleTile
                   \/ call.is = "tile"
                   \/ call.is = "get_tile" /\ t = call.tile
                   \/ call.is = "decode" /\ (\/ left = <<>> /\ nextState = {"NEOC"}
                                             \/ call.nr_tiles + 1 = codestream.tiles)
       IN  IF reads /\ ~IsMarker(marker)
           THEN Fail("short")
           ELSE /\ m_decoder' = [m_decoder EXCEPT !.can_decode = FALSE, !.state = nextState]
                /\ m_current_tile_number' = IF reads /\ marker = "EOC" THEN 0 ELSE t
                /\ tcps' = IF KeepsData THEN tcps ELSE [tcps EXCEPT ![t].data = None]
                /\ image' = img
                /\ rest' = IF call.is = "get_tile" /\ t = call.tile THEN AfterSOT(1) ELSE left
                /\ IF ~done
                   THEN /\ call' = [call EXCEPT !.pc = "read_tile_header", !.nr_tiles = @ + 1]
                        /\ UNCHANGED m_private_image
                   ELSE IF WholeSingleTile \/ call.is = "tile"
                   THEN Return("ok") /\ UNCHANGED m_private_image
                   ELSE Finish(img)
                /\ UNCHANGED <<codestream, tile_index, calls>>

\* There are no more tiles (p_go_on = OPJ_FALSE).
NoMoreTiles ==
    /\ call.pc = "no_more"
    /\ IF WholeSingleTile
       THEN Fail("state")
       ELSE /\ IF call.is = "tile" THEN Return("no_more") /\ UNCHANGED m_private_image ELSE Finish(image)
            /\ UNCHANGED <<codestream, rest, m_decoder, m_current_tile_number, tcps, tile_index,
                           calls, image>>

(***************************************************************************)
(* Specification                                                           *)
(***************************************************************************)

Progress ==
    \/ DecodeTiles \/ BeginTileHeader
    \/ NoMoreTileParts \/ RefuseTilePart \/ ReadSOT \/ SkipTilePart \/ ReadSOD \/ AfterLoop
    \/ DecodeTileFails \/ DecodeTile \/ NoMoreTiles

Program ==
    \/ ReadHeader \/ Decode \/ ReadTileHeader
    \/ \E t \in Tile : GetTile(t)
    \/ \E area \in Areas, whole \in BOOLEAN : SetDecodeArea(area, whole)

Next == Progress \/ Program

Spec == Init /\ [][Next]_vars

\* A call runs on until it returns.
FairSpec == Spec /\ WF_vars(Progress)

(***************************************************************************)
(* Properties                                                              *)
(***************************************************************************)
Pieces == [n : Nat, is : {"whole", "cut", "more"}]

TypeOK ==
    /\ m_private_image \in BOOLEAN
    /\ m_decoder \in [state : SUBSET {"MH", "TPHSOT", "TPH", "NEOC", "EOC", "DATA"},
                      can_decode : BOOLEAN, skip_data : BOOLEAN, last_tile_part : BOOLEAN,
                      tile_ind_to_dec : Tile \cup {-1}, area : SUBSET Tile, whole : BOOLEAN,
                      correction : {0, 1}, correction_checked : BOOLEAN, last_sot_read_pos : Nat]
    /\ m_current_tile_number \in 0..codestream.tiles
    /\ tcps \in [Tile -> [part : Int, nb : Nat, data : Seq(Pieces)]]
    /\ tile_index \in [Tile -> [nb_tps : Nat, there : BOOLEAN, start : Nat]]
    /\ image \in [Tile -> Seq(Pieces)]

\* The data of tile t in order: d[i] is that of its tile-part i - 1, all of it
\* but perhaps of the last.
InOrder(d) ==
    \A i \in 1..Len(d) : d[i].n = i - 1 /\ (d[i].is = "whole" \/ i = Len(d))

\* A codestream that is whole, with nothing behind EOC and no tile-part of a
\* tile there is none of, and that counts its tile-parts rightly.
PartsOf(c, t) == {n \in 1..Len(c.parts) : c.parts[n].tile = t}
Whole(c) ==
    /\ c.eoc /\ c.end = 4 * Len(c.parts) + 2 /\ ~c.torn
    /\ \A n \in 1..Len(c.parts) : c.parts[n].tile < c.tiles
Conforms(c) ==
    /\ Whole(c)
    /\ \A t \in 0..(c.tiles - 1) :
        /\ PartsOf(c, t) # {}
        /\ \A n \in PartsOf(c, t) :
            /\ c.parts[n].part = Cardinality({m \in PartsOf(c, t) : m < n})
            /\ c.parts[n].num \in {0, Cardinality(PartsOf(c, t))}

\* A codestream that is whole, but counts one tile-part too few of each tile
\* (the one kind of false count the decoder repairs).
CountsOneTooFew(c) ==
    /\ Whole(c)
    /\ \A t \in 0..(c.tiles - 1) :
        /\ Cardinality(PartsOf(c, t)) >= 2
        /\ \A n \in PartsOf(c, t) :
            /\ c.parts[n].part = Cardinality({m \in PartsOf(c, t) : m < n})
            /\ c.parts[n].num = Cardinality(PartsOf(c, t)) - 1
Open(c) == \E n \in 1..Len(c.parts) : c.parts[n].open

\* Every first tile-part of a tile tells how many there are.
Counted(c) == \A n \in 1..Len(c.parts) : c.parts[n].part = 0 => c.parts[n].num # 0

\* The calls in which a tile outside of the area, or another than the tile that
\* is asked for, is passed over by its Psot.
PassesRightly == Open(codestream) => call.is # "get_tile" /\ call.area = Tile

\* Whatever is missing from the codestream, what a tile is decoded from is its
\* tile-parts in order, from the first on, each once.
DataInOrder ==
    /\ TypeOK
    /\ PassesRightly => \A t \in Tile : InOrder(image[t])

\* Of a codestream that is whole, every call that decodes succeeds, and delivers
\* each tile it was asked for from all of its tile-parts.
Complete(t) ==
    /\ Len(image[t]) = Cardinality(PartsOf(codestream, t))
    /\ \A i \in 1..Len(image[t]) : image[t][i].is = "whole"

WholeCodestreamsDecode ==
    /\ Conforms(codestream) \/ (CountsOneTooFew(codestream) /\ call.area = Tile)
    /\ call.pc = "idle" /\ calls > 0 /\ PassesRightly
    /\ call.is = "get_tile" => Counted(codestream)
    => /\ call.result \in {"ok", "no_more", "undecodable"}
       /\ call.result = "ok" /\ call.is # "tile" => \A t \in call.area : Complete(t)
       /\ call.result = "no_more" => \A t \in call.area : Complete(t)

\* The loops of the decoder end.
CallsEnd == call.pc # "idle" ~> call.pc = "idle"

\* openjpeg.h: if strict decoding is enabled, partial bit streams will fail to
\* decode.
PartialRefused ==
    call.is = "decode" /\ call.result = "ok" =>
        codestream.eoc /\ codestream.end = 4 * Len(codestream.parts) + 2

\* tcd.c: a tile outside of the area is not even tried.
OnlyWantedTiles ==
    call.pc = "decode_tile" => m_current_tile_number \in call.area
=============================================================================
