--------------------------- MODULE ParsingCommand ---------------------------
(***************************************************************************)
(* What the control program makes of its arguments, and of the answer it   *)
(* prints (parsing_command.c).  Flag words are sets of flags.              *)
(***************************************************************************)
EXTENDS Integers

\* cmdTable.  Its fourth row is not initialised, so the empty argument is the
\* command cmd_error; the first row, " ", is cmd_idle like every other word.
CmdTable == [status |-> "status", reboot |-> "reboot", empty |-> "error"]

getCmdType(word) == IF word \in DOMAIN CmdTable THEN CmdTable[word] ELSE "idle"

\* The number is cut to a uint8_t before it is compared; a word is 0.
getPortNum_NoUpperLimit(number) == number % 256
getPortNum_Clamped(number) == IF number % 256 > 8 THEN 8 ELSE number % 256
getPortNum(number) ==
  LET intValue == number % 256 IN IF intValue \in 1 .. 8 THEN intValue ELSE 0

\* The flags of a port that printBufferJson has a text for.
WithText ==
  {"MANUAL_REBOOT", "REBOOTING", "POE_DOWN", "UNAVAILABLE_RESOURCE", "NULL_OBJ",
   "CREATE_THREAD", "JOIN_THREAD", "PoE_DISABLE", "TEST_TYPE", "IP_NOT_VALID",
   "TIME_NOT_VALID", "SPEED_VALUE", "PORT_DISABLE", "TEST_DISABLE", "TEST_LINK",
   "TEST_PING", "TEST_SPEED", "TIME_ALARM", "PORT_SHUTDOWN"}

WithoutText == {"OK", "SOCKET", "INVALID_PORT", "HW_ACCESS", "CFG_LOAD"}

\* The texts of a port: "OK" stands alone or not at all.
StatusTexts(errorCode) ==
  IF errorCode = {"OK"} THEN {"OK"} ELSE errorCode \cap WithText

=============================================================================
