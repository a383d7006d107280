----------------------------- MODULE MCVParser -----------------------------
(* Values for model checking VParser: what a host sends. *)
EXTENDS VParser

(* Escape and CSI sequences: an introducer, an interruption and a fragment *)
(* on each side of it.                                                     *)
MCSequences == [bytes |-> {"ESC", "[", "inter", "param", "final", "NUL", "CAN", "C0"},
                length |-> 7]

(* OSC and DCS strings and their terminators. *)
MCStrings == [bytes |-> {"ESC", "]", "P", "ST", "BEL", "final", "DEL", "CAN"},
              length |-> 6]

(* Text, with what ends a run of it and what does not. *)
MCText == [bytes |-> {"ESC", "ST", "final", "NUL", "DEL", "high"}, length |-> 6]

MCHosts == {MCSequences, MCStrings, MCText}

(* The shortest streams of the deviations. *)
MCCancels == {[bytes |-> {"ESC", "[", "param", "final", "CAN"}, length |-> 6]}
MCTerminators == {[bytes |-> {"ESC", "]", "ST", "final"}, length |-> 5]}
=============================================================================
