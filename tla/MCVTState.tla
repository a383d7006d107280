----------------------------- MODULE MCVTState -----------------------------
(* Values for model checking VTState. *)
EXTENDS VTState

MCSizes == {<<1, 2>>, <<2, 3>>, <<3, 3>>}

(* What a host that knows the size may set, with the region cleared or     *)
(* given without a lower margin, and margins below a smaller screen.       *)
MCMargins == {<<1, None>>, <<1, 2>>, <<2, 3>>, <<2, None>>, <<1, 3>>}
(* What follows once a setting out of bounds has occurred is not explored. *)
NoCause == causes = {}

MCWidths == {-1, 0, 1, 2}
=============================================================================
