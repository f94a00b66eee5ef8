------------------------------ MODULE Termios ------------------------------
(***************************************************************************)
(* The settings a SerialPort object remembers, the termios2 structure of   *)
(* the line, and how ConfigureTermios() translates the one into the other. *)
(* Line and ReadWait read a termios2 back the way termios(3) defines it, so *)
(* that properties can compare what was asked for with what the line does. *)
(***************************************************************************)
EXTENDS Integers

(* The standard rates of enum BaudRate, in bits per second.                *)
Speed ==
  [B_0 |-> 0, B_50 |-> 50, B_75 |-> 75, B_110 |-> 110, B_134 |-> 134,
   B_150 |-> 150, B_200 |-> 200, B_300 |-> 300, B_600 |-> 600,
   B_1200 |-> 1200, B_1800 |-> 1800, B_2400 |-> 2400, B_4800 |-> 4800,
   B_9600 |-> 9600, B_19200 |-> 19200, B_38400 |-> 38400,
   B_57600 |-> 57600, B_115200 |-> 115200, B_230400 |-> 230400,
   B_460800 |-> 460800]

(* B_CUSTOM is an enumerator too: the header calls it a placeholder.       *)
BaudRate == DOMAIN Speed \cup {"B_CUSTOM"}

CharBits == [FIVE |-> 5, SIX |-> 6, SEVEN |-> 7, EIGHT |-> 8]
NumDataBits == DOMAIN CharBits
Parity == {"NONE", "EVEN", "ODD"}
NumStopBits == {"ONE", "TWO"}
FlowControl == {"OFF", "ON"}

MaxTimeout == 25500    \* SetTimeout refuses more
Forever == -1          \* the timeout that means "wait for at least one byte"
Unset == -1            \* a speed_t that was never assigned

SetTimeoutAcceptsUnbounded(timeout_ms) == timeout_ms >= -1

(* SetTimeout throws outside of this range.                                *)
SetTimeoutAccepts(timeout_ms) == timeout_ms >= -1 /\ timeout_ms <= MaxTimeout

Settings ==
  [baudRateType_ : {"STANDARD", "CUSTOM"},
   baudRateStandard_ : BaudRate,
   baudRateCustom_ : Nat \cup {Unset},
   numDataBits_ : NumDataBits,
   parity_ : Parity,
   numStopBits_ : NumStopBits,
   hardwareFlowControl_ : FlowControl,
   softwareFlowControl_ : FlowControl,
   echo_ : BOOLEAN,
   timeout_ms_ : -1 .. MaxTimeout]

(* The default constructor and the default member initialisers.            *)
DefaultSettings ==
  [baudRateType_ |-> "STANDARD", baudRateStandard_ |-> "B_57600",
   baudRateCustom_ |-> Unset, numDataBits_ |-> "EIGHT", parity_ |-> "NONE",
   numStopBits_ |-> "ONE", hardwareFlowControl_ |-> "OFF",
   softwareFlowControl_ |-> "OFF", echo_ |-> FALSE, timeout_ms_ |-> -1]

(* struct termios2, as far as the program writes it.  raw stands for every *)
(* flag that is forced to one value: CREAD and BOTHER on; OPOST, ICANON,   *)
(* ISIG, ECHOE, ECHONL, INLCR and the like off; clocal is the one of them  *)
(* that matters before, to open().  The last two are flags that it never   *)
(* writes and that change what the others mean: CMSPAR, and CIBAUD, the    *)
(* input rate, where B0 is "the rate of the output".                       *)
SameAsOutput == 0

TermiosType ==
  [csize : 5 .. 8, parenb : BOOLEAN, parodd : BOOLEAN, cstopb : BOOLEAN,
   crtscts : BOOLEAN, speed : Nat, vmin : 0 .. 255, vtime : 0 .. 255,
   ixon : BOOLEAN, echo : BOOLEAN, raw : BOOLEAN, clocal : BOOLEAN,
   cmspar : BOOLEAN, cibaud : Nat]

-----------------------------------------------------------------------------
(* ConfigureTermios, one operator per part of the structure.  t is what    *)
(* GetTermios2 read from the line: of what it had in it, CMSPAR and CIBAUD *)
(* survive, and PARODD may, since Parity::NONE only clears PARENB.         *)

ParoddFlag(s, t) == IF s.parity_ = "NONE" THEN t.parodd ELSE s.parity_ = "ODD"

(* cc_t is an unsigned char: the cast keeps the low eight bits.            *)
VTime(s) ==
  IF s.timeout_ms_ > 0 THEN (s.timeout_ms_ \div 100) % 256 ELSE 0

(* As if VMIN were left at 0, or asked for more than one byte.             *)
VMinNone(s) == 0
VMinTwo(s) == IF s.timeout_ms_ = Forever THEN 2 ELSE 0

VMin(s) == IF s.timeout_ms_ = Forever THEN 1 ELSE 0

SpeedOf(s) ==
  IF s.baudRateType_ = "STANDARD" THEN Speed[s.baudRateStandard_]
                                  ELSE s.baudRateCustom_

(* The switch over baudRateStandard_ throws for any other enumerator.      *)
BaudSupported(s) ==
  s.baudRateType_ = "STANDARD" => s.baudRateStandard_ \in DOMAIN Speed

(* The structure that SetTermios2 hands back to the line.                  *)
Configured(s, t) ==
  [csize |-> CharBits[s.numDataBits_],
   parenb |-> s.parity_ # "NONE",
   parodd |-> ParoddFlag(s, t),
   cstopb |-> s.numStopBits_ = "TWO",
   crtscts |-> s.hardwareFlowControl_ = "ON",
   speed |-> SpeedOf(s),
   vmin |-> VMin(s),
   vtime |-> VTime(s),
   ixon |-> s.softwareFlowControl_ = "ON",
   echo |-> s.echo_,
   raw |-> TRUE,
   clocal |-> TRUE,
   cmspar |-> t.cmspar,
   cibaud |-> t.cibaud]

-----------------------------------------------------------------------------
(* What the line does under t (termios(3), non-canonical mode).            *)

(* How long read() waits for a first byte, in milliseconds.                *)
ReadWait(t) == IF t.vmin > 0 THEN Forever ELSE 100 * t.vtime

(* With CMSPAR the parity bit is stuck at one value.                       *)
Stick == [NONE |-> "NONE", EVEN |-> "SPACE", ODD |-> "MARK"]

LineParity(t) ==
  LET asFlagged == IF ~ t.parenb THEN "NONE" ELSE IF t.parodd THEN "ODD" ELSE "EVEN"
  IN  IF t.cmspar THEN Stick[asFlagged] ELSE asFlagged

InputSpeed(t) == IF t.cibaud = SameAsOutput THEN t.speed ELSE t.cibaud

(* The timeout is kept to within 100 ms, the unit of VTIME, and never      *)
(* exceeded; -1 waits forever.                                             *)
WaitsAsAsked(s, t) ==
  IF s.timeout_ms_ = Forever
    THEN ReadWait(t) = Forever
    ELSE /\ 0 <= ReadWait(t) /\ ReadWait(t) <= s.timeout_ms_
         /\ s.timeout_ms_ < ReadWait(t) + 100

(* The line t behaves as the settings s ask for, but for the two things it *)
(* may have inherited: a parity bit that is stuck, at SPACE where even     *)
(* parity was asked for and at MARK for odd, and an input rate of its own. *)
BehavesAs(s, t) ==
  /\ t.raw
  /\ t.clocal
  /\ t.csize = CharBits[s.numDataBits_]
  /\ LineParity(t) = IF t.cmspar THEN Stick[s.parity_] ELSE s.parity_
  /\ t.cstopb <=> s.numStopBits_ = "TWO"
  /\ t.crtscts <=> s.hardwareFlowControl_ = "ON"
  /\ t.ixon <=> s.softwareFlowControl_ = "ON"
  /\ t.echo <=> s.echo_
  /\ t.speed = SpeedOf(s)
  /\ t.cibaud = SameAsOutput => InputSpeed(t) = SpeedOf(s)
  /\ WaitsAsAsked(s, t)

=============================================================================
