------------------------------ MODULE MCGcode ------------------------------
(***************************************************************************)
(* A host that sends the words whose commands share state: coordinate       *)
(* systems, offsets, tool length, units, distance mode, motions, probing,   *)
(* a predefined position, spindle, a pin wait and the end of a program.     *)
(***************************************************************************)
EXTENDS Gcode

Word(x, tenths) == [letter |-> x, value |-> tenths]

G == {100, 200, 280, 281, 382, 431, 540, 550, 910, 920}

ParserWords ==
  {Word("G", n) : n \in G} \cup {Word("M", n) : n \in {20, 30, 2260}}
    \cup {Word("Z", 10), Word("F", 10), Word("S", 10), Word("L", 200),
             Word("N", 10 * (MAX_LINE_NUMBER + 1))}

\* A power-up that finds every record at another place and one of them torn.
Data == {[i \in Index |-> [a \in Axes |-> i + 1]]}
Sound == {Index \ {1}}
=============================================================================
