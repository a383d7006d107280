------------------------------ MODULE LineLog ------------------------------
(***************************************************************************)
(* What a scrollback promises: the most recent Size lines, in the order    *)
(* they left the screen.                                                   *)
(***************************************************************************)
EXTENDS Naturals, Sequences

CONSTANTS Size, Entries

VARIABLE log

Init == log = <<>>

Record(entry) ==
  log' = Append(IF Len(log) < Size THEN log ELSE Tail(log), entry)

Next == \E entry \in Entries : Record(entry)

Spec == Init /\ [][Next]_log
=============================================================================
