------------------------------ MODULE MCBeeper ------------------------------
(* Patterns with the shapes of beep1 and of beep2 and beep3: one tone or two,  *)
(* then silence; 3 ticks stand for 100 ms.                                  *)
EXTENDS Beeper

Tone(f) == [opcode |-> f, duration |-> 3, repeat |-> FALSE]
Off == [opcode |-> 0, duration |-> 0, repeat |-> FALSE]
MCPatterns == {<<Tone(1), Off>>, <<Tone(2), [Tone(1) EXCEPT !.repeat = TRUE], Off>>}
=============================================================================
