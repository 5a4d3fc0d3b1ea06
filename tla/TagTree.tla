------------------------------- MODULE TagTree -------------------------------
(***************************************************************************)
(* The tag trees of tier-2 coding (openjpeg tgt.c): a quad tree over the   *)
(* code blocks of a precinct in which a node holds the least value of the  *)
(* leaves below it, coded from the root down and only as far as a          *)
(* threshold.  The encoder and the decoder each keep a tree; "low" is what *)
(* both know already of a node, "known" that its value has been sent.      *)
(***************************************************************************)
EXTENDS Integers, Sequences, FiniteSetsExt

CONSTANTS Wide, High      \* the code blocks of the precinct: cw, ch

(* op applied along seq from the left.  (FoldLeft of SequencesExt looks for *)
(* the greatest index at every step: too slow for headers of many bits.)   *)
Along(op(_, _), base, seq) ==
    LET upto[i \in 0..Len(seq)] == IF i = 0 THEN base ELSE op(upto[i - 1], seq[i])
    IN upto[Len(seq)]

Least(a, b) == IF a < b THEN a ELSE b
Greatest(a, b) == IF a > b THEN a ELSE b

(* A node is its level and its place in the grid of that level; the loops  *)
(* of opj_tgt_create lay these grids out one after the other and point     *)
(* every node to the one that covers it in the grid of half the size.      *)
GridSize[level \in Nat] ==
    IF level = 0 THEN <<Wide, High>>
    ELSE <<(GridSize[level - 1][1] + 1) \div 2, (GridSize[level - 1][2] + 1) \div 2>>

Levels == CHOOSE n \in 1..31 :
    /\ GridSize[n - 1] = <<1, 1>>
    /\ \A m \in 1..(n - 1) : GridSize[m - 1] # <<1, 1>>

Nodes == {<<level, x, y>> \in (0..(Levels - 1)) \X (0..(Wide - 1)) \X (0..(High - 1)) :
             x < GridSize[level][1] /\ y < GridSize[level][2]}

(* Code block number leafno, and the nodes from the root down to it.       *)
PathTo(leafno) ==
    [i \in 1..Levels |-> LET level == Levels - i IN
        <<level, (leafno % Wide) \div (2 ^ level), (leafno \div Wide) \div (2 ^ level)>>]

opj_tgt_reset == [node \in Nodes |-> [value |-> 999, low |-> 0, known |-> FALSE]]

(* The value of a leaf goes up the path as long as it is smaller than what *)
(* the nodes hold.                                                         *)
opj_tgt_setvalue(tree, leafno, value) ==
    LET path == PathTo(leafno)
        kept == {i \in 1..Levels : tree[path[i]].value <= value}
        stop == IF kept = {} THEN 0 ELSE Max(kept)
    IN [node \in Nodes |->
            IF \E i \in (stop + 1)..Levels : path[i] = node
            THEN [tree[node] EXCEPT !.value = value] ELSE tree[node]]

(* One node of opj_tgt_encode: s holds the tree, the bits written and the  *)
(* low inherited from the parent.                                          *)
EncodeNode(threshold, s, node) ==
    LET n == s.tree[node]
        low == Greatest(s.low, n.low)
        top == Greatest(low, Least(threshold, n.value))
        tell == top < threshold /\ ~n.known
    IN [tree |-> [s.tree EXCEPT ![node] =
                     [n EXCEPT !.low = top, !.known = n.known \/ tell]],
        bits |-> s.bits \o [i \in 1..(top - low) |-> 0] \o (IF tell THEN <<1>> ELSE <<>>),
        low |-> top]

opj_tgt_encode(tree, leafno, threshold) ==
    Along(LAMBDA s, node : EncodeNode(threshold, s, node),
          [tree |-> tree, bits |-> <<>>, low |-> 0], PathTo(leafno))
=============================================================================
