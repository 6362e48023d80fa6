------------------------------- MODULE MCLink -------------------------------
(***************************************************************************)
(* Lines for a receive buffer of five characters and a line buffer of three, *)
(* each with what is to become of it; percentages of the override scaled    *)
(* down by ten, in bytes of five bits.                                      *)
(***************************************************************************)
EXTENDS Link

Line(chars, text, overflow) == [chars |-> chars, text |-> text, overflow |-> overflow]

StreamedLines ==
  {Line(<<"nl">>, <<>>, FALSE),
   Line(<<"g", "g", "x", "nl">>, <<"G", "G">>, TRUE),
   Line(<<"g", ";", ")", "x", "nl">>, <<"G">>, FALSE)}

FeedCommands == {"coarse_minus", "fine_minus", "rapid_low", "rapid_reset"}

\* An overrun of the transmit ring is followed only when it comes after
\* everything the host has to send: of the properties that hold until the
\* overrun none needs the rest.
Followed ==
  overrun =>
    lines = MaxLines /\ resets = MaxResets /\ requests = MaxRealtime /\ sending = <<>>
=============================================================================
