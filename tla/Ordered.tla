-------------------------------- MODULE Ordered --------------------------------
(***************************************************************************)
(* sorted() of a set of numbers: of the pages of a chunk, of the pages     *)
(* that chunks begin on, of the chunks of a page.                          *)
(***************************************************************************)
EXTENDS Integers, FiniteSets

(* The numbers of a set in their order.                                    *)
Ascending(S) ==
    CHOOSE s \in [1..Cardinality(S) -> S] : \A i, j \in DOMAIN s : i < j => s[i] < s[j]
=============================================================================
