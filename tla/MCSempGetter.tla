----------------------------- MODULE MCSempGetter -----------------------------
(***************************************************************************)
(* TLC instance of SempGetter: a broker that lists every item once, in up  *)
(* to three pages of up to two items, some of them empty, and may repeat   *)
(* the last item of a page at the start of the next.                       *)
(***************************************************************************)
EXTENDS SempGetter, SequencesExt

ThreeItems == {"a", "b", "odd"}
OddItem == {"odd"}

Pages == SeqOf(ThreeItems, 2)

ThreePages == {list \in {<<p>> : p \in Pages} \cup (Pages \X Pages) \cup (Pages \X Pages \X Pages) :
                 ListedOnce(list)}
=============================================================================
