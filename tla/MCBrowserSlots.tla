--------------------------- MODULE MCBrowserSlots ---------------------------
(* The instance of BrowserSlots for TLC: two ids that hash to one slot.    *)
EXTENDS BrowserSlots

CONSTANTS c1, c2

SameSlot == [c \in Cards |-> 0]
=============================================================================
