--------------------------- MODULE MCControlLink ---------------------------
(* ControlLink with the command lines that differ to the code: no word, an *)
(* unknown or empty one, the two commands, and reboot without a number,    *)
(* with a good one, with one too big, with one that 8 bits make good.      *)
EXTENDS ControlLink

Typed(args, word, number) == [args |-> args, word |-> word, number |-> number]

MCLines ==
  {Typed(0, "unknown", 0), Typed(1, "unknown", 0), Typed(1, "empty", 0),
   Typed(1, "status", 0), Typed(1, "reboot", 0), Typed(2, "reboot", 3),
   Typed(2, "reboot", 9), Typed(2, "reboot", 257)}

MCErrorCodes == {{"OK"}, {"OK", "TEST_PING"}, {"TEST_LINK", "HW_ACCESS"}}

=============================================================================
