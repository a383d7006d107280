---------------------------- MODULE MCSelection ----------------------------
(* Values for model checking Selection: lines of four cells, the erased    *)
(* one and one with a word between spaces.                                 *)
EXTENDS Selection

MCBlank == <<"0", "0", "0", "0">>
MCLines == {MCBlank, <<"a", " ", "b", " ">>}
MCNoLine == <<>>

(* A press whose rows have moved is not followed any further: what is      *)
(* copied then is whatever is there.  Nor is a copy: what can happen after *)
(* it can happen without it.                                               *)
Followed == copied = {} /\ \A p \in press : ~p.moved
=============================================================================
