------------------------------ MODULE MCTier2 ------------------------------
(***************************************************************************)
(* Tiles of three by two code blocks (a tag tree of three levels) in five  *)
(* codings, with three layers.                                             *)
(***************************************************************************)
EXTENDS Tier2

Block(n, rates, cuts) == [numbps |-> n, rates |-> rates, cuts |-> cuts]
Empty == Block(0, <<>>, {0})
(* The passes of two bit planes; lengths that need more length bits.       *)
Small(cuts) == Block(2, <<9, 9, 11, 28>>, cuts)
(* Six bit planes: segments of 10, 2, 1, 2 and 1 passes when lazy.         *)
Lazy(cuts) == Block(6, <<1, 1, 1, 2, 2, 4, 4, 4, 5, 6, 9, 9, 10, 18, 19, 21>>, cuts)
(* Thirteen bit planes: 37 passes, whose code word begins with nine ones.  *)
Deep(cuts) == Block(13, [p \in 1..37 |-> p \div 2 + 1], cuts)

Tile(style, csty, blocks, rates) ==
    [style |-> style, csty |-> csty, rates |-> rates,
     blocks |-> [i \in Blocks |-> blocks[i + 1]]]

MCTiles == {
    Tile("plain", {"SOP", "EPH"},
         <<Small({0, 4}), Empty, Deep({0, 37}), Empty, Deep({36}), Small({2})>>,
         <<70, 90, 110>>),
    Tile("lazy", {},
         <<Lazy({0, 9, 11, 14}), Small({0, 2}), Lazy({0, 10, 16}), Empty, Empty, Empty>>,
         <<22, 0, 0>>),
    Tile("lazy", {"EPH"},
         <<Lazy({0, 11}), Empty, Lazy({10, 12}), Empty, Small({0, 3}), Empty>>,
         <<30, 50, 70>>),
    Tile("termall", {"SOP"},
         <<Empty, Lazy({0, 3, 16}), Small({1, 4}), Empty, Empty, Deep({0, 12})>>,
         <<40, 95, 0>>),
    (* All its passes do not fit in the buffer.                            *)
    Tile("plain", {"EPH"},
         <<Small({1}), Small({0, 2}), Small({0}), Small({0}), Small({0}), Small({0})>>,
         <<26, 0, 0>>)}
=============================================================================
