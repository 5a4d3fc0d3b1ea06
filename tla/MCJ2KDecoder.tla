---------------------------- MODULE MCJ2KDecoder ----------------------------
EXTENDS J2KDecoder

CONSTANTS MaxParts, MaxTiles,
          Opens   \* whether Psot may be 0 in the last tile-part

\* The order of tiles in a codestream: every tile occurs.
Orders(tiles) ==
    {o \in UNION {[1..k -> 0..(tiles - 1)] : k \in tiles..MaxParts} :
        \A t \in 0..(tiles - 1) : \E j \in DOMAIN o : o[j] = t}

\* How a tile-part tells the number of tile-parts of its tile: never, always,
\* in the last alone, or always one too low.
Styles == {"never", "always", "last", "low"}

PartAt(o, j, style, open) ==
    LET count == Cardinality({i \in DOMAIN o : o[i] = o[j]})
        part == Cardinality({i \in DOMAIN o : o[i] = o[j] /\ i < j})
    IN  [tile |-> o[j], part |-> part, open |-> open /\ j = Len(o),
         num |-> CASE style[o[j]] = "never" -> 0
                   [] style[o[j]] = "always" -> count
                   [] style[o[j]] = "last" -> IF part + 1 = count THEN count ELSE 0
                   [] style[o[j]] = "low" -> IF count = 1 THEN 1 ELSE count - 1]

\* With three tiles or an open end, all of them the same way.
Alike(style) == \A t \in DOMAIN style : style[t] = style[0]
StylesOf(tiles, open) ==
    {style \in [0..(tiles - 1) -> Styles] : (tiles < 3 /\ ~open) \/ Alike(style)}

WholeEnd(k) == [eoc |-> TRUE, end |-> 4 * k + 2, torn |-> FALSE]

\* Cut behind any token; a piece left of the last data or of EOC.  The longest
\* codestreams, and those of three tiles or of tiles that count differently, are
\* cut behind the last SOT marker only.
Ends(k, style) ==
    IF k = MaxParts \/ Cardinality(DOMAIN style) > 2 \/ ~Alike(style)
    THEN {WholeEnd(k), [eoc |-> FALSE, end |-> 4 * k - 2, torn |-> FALSE]}
    ELSE {WholeEnd(k)}
        \cup [eoc : {FALSE}, end : 0..(4 * k + 1), torn : {FALSE}]
        \cup [eoc : {FALSE}, end : {4 * k}, torn : {TRUE}]
        \cup [eoc : {TRUE}, end : {4 * k + 1}, torn : {TRUE}]

Parts(o, style, open) == [j \in DOMAIN o |-> PartAt(o, j, style, open)]

Codestream(tiles, parts, e) ==
    [tiles |-> tiles, parts |-> parts, eoc |-> e.eoc, end |-> e.end, torn |-> e.torn]

CutAnywhere(parts, style) == {Codestream(Cardinality(DOMAIN style), parts, e) : e \in Ends(Len(parts), style)}

CodestreamsOf(tiles) ==
    UNION {UNION {UNION {CutAnywhere(Parts(o, style, open), style) :
                            style \in StylesOf(tiles, open)} : open \in Opens} : o \in Orders(tiles)}

\* Whole codestreams in which a tile-part is missing, or comes twice.
Without(parts, j) == [i \in 1..(Len(parts) - 1) |-> IF i < j THEN parts[i] ELSE parts[i + 1]]
Twice(parts, j) == [i \in 1..(Len(parts) + 1) |-> IF i <= j THEN parts[i] ELSE parts[i - 1]]

Damaged(tiles) ==
    UNION {UNION {{Codestream(tiles, Without(Parts(o, style, FALSE), j), WholeEnd(Len(o) - 1)),
                   Codestream(tiles, Twice(Parts(o, style, FALSE), j), WholeEnd(Len(o) + 1))} :
                        j \in DOMAIN o, style \in StylesOf(tiles, FALSE)} : o \in {x \in Orders(tiles) : Len(x) = 3}}

MCCodestreams == UNION {CodestreamsOf(tiles) \cup Damaged(tiles) : tiles \in 1..MaxTiles}
=============================================================================
