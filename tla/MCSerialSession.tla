-------------------------- MODULE MCSerialSession --------------------------
(* An instance of SerialSession for TLC.                                   *)
EXTENDS SerialSession

CONSTANTS ttyUSB0, me, libc, nobody, elsewhere, noFile, noDevice

(* How the last user of the line left it: reads that wait for a byte or    *)
(* not, and opens that wait for carrier or not.                            *)
MCInitialTermios ==
  {[csize |-> 7, parenb |-> TRUE, parodd |-> FALSE, cstopb |-> FALSE,
    crtscts |-> FALSE, speed |-> 9600, vmin |-> min, vtime |-> 0,
    ixon |-> FALSE, echo |-> TRUE, raw |-> FALSE,
    clocal |-> local, cmspar |-> FALSE, cibaud |-> SameAsOutput] :
     min \in {0, 1}, local \in BOOLEAN}

(* The standard streams and one more.                                      *)
MCFd == 0 .. 3

MCUninitFd == {-1, 0, 3, 7}
=============================================================================
