----------------------------- MODULE Overrides ------------------------------
(***************************************************************************)
(* Feed, rapid and spindle speed overrides as protocol_exec_rt_system       *)
(* computes them, in unsigned integers of OverrideBits bits.  `flags' are    *)
(* the commands that arrived since the last time: one that was repeated     *)
(* counts once.                                                             *)
(***************************************************************************)
EXTENDS Integers

CONSTANTS
  OverrideBits,
  DEFAULT_FEED_OVERRIDE, MAX_FEED_RATE_OVERRIDE, MIN_FEED_RATE_OVERRIDE,
  COARSE_INCREMENT, FINE_INCREMENT,
  DEFAULT_RAPID_OVERRIDE, RAPID_OVERRIDE_MEDIUM, RAPID_OVERRIDE_LOW

ASSUME OverrideAssumption ==
  /\ OverrideBits \in Nat
  /\ MIN_FEED_RATE_OVERRIDE \in 0 .. DEFAULT_FEED_OVERRIDE
  /\ DEFAULT_FEED_OVERRIDE \in 0 .. MAX_FEED_RATE_OVERRIDE
  /\ MAX_FEED_RATE_OVERRIDE + COARSE_INCREMENT + FINE_INCREMENT < 2^OverrideBits

SpeedCommands == {"reset", "coarse_plus", "coarse_minus", "fine_plus", "fine_minus"}
RapidCommands == {"rapid_reset", "rapid_medium", "rapid_low"}

Clamped(n) ==
  IF n > MAX_FEED_RATE_OVERRIDE THEN MAX_FEED_RATE_OVERRIDE
  ELSE IF n < MIN_FEED_RATE_OVERRIDE THEN MIN_FEED_RATE_OVERRIDE ELSE n

If(flag, flags, n) == IF flag \in flags THEN n ELSE 0

\* The increments are summed in an unsigned byte and only then clamped.  The
\* spindle speed override follows the same code with the same bounds.
NewSpeed(flags, old) ==
  LET base == IF "reset" \in flags THEN DEFAULT_FEED_OVERRIDE ELSE old
  IN  Clamped((base + If("coarse_plus", flags, COARSE_INCREMENT)
                    - If("coarse_minus", flags, COARSE_INCREMENT)
                    + If("fine_plus", flags, FINE_INCREMENT)
                    - If("fine_minus", flags, FINE_INCREMENT)) % 2^OverrideBits)

\* The lowest rapid override asked for wins.
NewRapid(flags, old) ==
  CASE "rapid_low" \in flags -> RAPID_OVERRIDE_LOW
    [] "rapid_low" \notin flags /\ "rapid_medium" \in flags -> RAPID_OVERRIDE_MEDIUM
    [] flags \cap RapidCommands = {"rapid_reset"} -> DEFAULT_RAPID_OVERRIDE
    [] flags \cap RapidCommands = {} -> old
=============================================================================
