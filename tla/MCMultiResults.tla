--------------------------- MODULE MCMultiResults ---------------------------
(***************************************************************************)
(* Settings and data for model checking MultiResults.                      *)
(***************************************************************************)
EXTENDS MultiResults

Off == [actions |-> 0, read_interrupt |-> 0, clear_interrupt |-> 0, raw_size |-> 0,
        ch_of_RBank |-> 0, reg_address |-> <<>>, frame_setting |-> 0]

(* Off, settings that differ in one field or two, and all fields at once.   *)
(* The raw sizes differ in one of their bytes each; with registers a field  *)
(* moves to where another one was.                                          *)
NoClearSettings ==
  {Off,
   [Off EXCEPT !.actions = 1, !.raw_size = 258],
   [Off EXCEPT !.actions = 1, !.raw_size = 2],
   [Off EXCEPT !.actions = 6, !.ch_of_RBank = 5],
   [Off EXCEPT !.actions = 6, !.ch_of_RBank = 2],
   [Off EXCEPT !.actions = 4, !.reg_address = <<1280>>],
   [Off EXCEPT !.actions = 4, !.reg_address = <<1280>>, !.read_interrupt = 1],
   [Off EXCEPT !.actions = 4, !.reg_address = <<1280, 1284>>],
   [Off EXCEPT !.actions = 12, !.reg_address = <<1280>>, !.frame_setting = 1284],
   [actions |-> 15, read_interrupt |-> 1, clear_interrupt |-> 0, raw_size |-> 16388,
    ch_of_RBank |-> 1, reg_address |-> <<1280>>, frame_setting |-> 4]}

AnySettings ==
  {[s EXCEPT !.clear_interrupt = c] : s \in NoClearSettings, c \in {0, 1}}

(* No data, a byte, and more than one byte of the length can count. *)
SomeData == {<<>>, <<7>>, [i \in 1..260 |-> 3]}

WholeOrCut == {0, 1, 2, 3, 5}
=============================================================================
