--------------------------- MODULE MCSearchRefill ---------------------------
(* Small instance of SearchRefill: lists of up to four items, one more    *)
(* that may appear in the shorter ones, every combination of readable     *)
(* items, pages of one and two.                                            *)
EXTENDS SearchRefill

CONSTANTS i1, i2, i3, i4

ShortLists == {<<>>, <<i1>>, <<i1, i2>>, <<i1, i2, i3>>, <<i1, i2, i3, i4>>}
=============================================================================
