---------------------------- MODULE MCSerialPort ----------------------------
(* Instances of SerialPort for TLC.                                        *)
EXTENDS SerialPort

CONSTANTS ttyA, fileB, me, other, nobody, elsewhere, noFile, noDevice

(* What its last user left of a line: odd parity, or a stuck parity bit    *)
(* and an input rate of its own.                                           *)
MCOddTermios ==
  [csize |-> 8, parenb |-> FALSE, parodd |-> TRUE, cstopb |-> FALSE,
   crtscts |-> FALSE, speed |-> 9600, vmin |-> 1, vtime |-> 0,
   ixon |-> FALSE, echo |-> FALSE, raw |-> FALSE, clocal |-> FALSE,
   cmspar |-> FALSE, cibaud |-> SameAsOutput]

MCOneTermios == {MCOddTermios}

MCInitialTermios ==
  {MCOddTermios,
   [MCOddTermios EXCEPT !.parodd = FALSE, !.cmspar = TRUE, !.cibaud = 1200]}

MCFd2 == 0 .. 1
MCFd3 == 0 .. 2

(* Garbage: no descriptor at all, one in the table, one beyond it.         *)
MCUninitFd == {-1, 0, 1, 7}
MCUninitFdFew == {-1, 1}

(* Below, at and above each boundary of SetTimeout and of VTIME.           *)
MCTimeouts == {-2, 50, 160, 25500, 25600}
=============================================================================
