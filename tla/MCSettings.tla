----------------------------- MODULE MCSettings -----------------------------
(***************************************************************************)
(* Two-bit bytes and the layout of settings.h scaled down: records of odd   *)
(* (settings) and even (coordinates, lines) length as in the code, and the  *)
(* build info beginning within the first startup line and ending within the *)
(* second.  There are no startup lines 4 and 14: what is stored under these  *)
(* numbers goes over the end of the chip to the first coordinates, and to    *)
(* the flags, as $N254= and $N13= do on the real one.                        *)
(***************************************************************************)
EXTENDS Settings

One == {0}
Version == {1}

Defaults == [pulse_microseconds |-> One, flags |-> Zero, homing_pulloff |-> One]

Setting(parameter, value) ==
  [op |-> "setting", parameter |-> parameter, value |-> value]

FlagSettings ==
  {Setting(p, v) : p \in {"homing", "soft_limits"}, v \in {Zero, One}}

NumberCommands ==
  FlagSettings
    \cup {Setting("pulse", v) : v \in {Zero, Erased}} \cup {Setting("pulloff", Zero)}
    \cup {[op |-> "coord_data", n |-> i, value |-> <<One, Erased>>] : i \in CoordIndices}
    \cup {[op |-> "coord_select", n |-> i] : i \in CoordIndices}
    \cup {[op |-> "restore", which |-> w] : w \in {"$", "#", "*"}}
    \cup {[op |-> "startup_line", n |-> 1, text |-> <<One, Zero>>],
          [op |-> "build_info", text |-> <<Version, Zero>>]}
    \cup [op : {"startup_line"}, n : {4, 14}, text : {<<Version, Zero>>}]
    \cup [op : {"view_startup", "view_build", "unlock", "reset"}]

TextCommands ==
  [op : {"startup_line"}, n : LineIndices, text : {<<One, Zero>>, <<Erased, One>>}]
    \cup [op : {"build_info"}, text : {<<Version, Zero>>}]
    \cup [op : {"view_startup", "view_build"}]
=============================================================================
