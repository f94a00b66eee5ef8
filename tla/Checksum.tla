------------------------------ MODULE Checksum ------------------------------
(***************************************************************************)
(* The Internet checksum of the packets that Networking.cpp builds.        *)
(* Utilities::Checksum is a loop over the 16-bit words of a buffer; it is  *)
(* modelled word by word, first as the sender calls it (initIPv4Header,    *)
(* initTCPHeader and SendICMP_PING clear the checksum field, call it, and  *)
(* store what it returns), then as a receiver checks the message, one word *)
(* of which may have changed on the way.                                   *)
(*                                                                         *)
(* Words are the values that the little-endian loads of the loop see.  The *)
(* setters for the field store the sum unswapped, as it was loaded.        *)
(***************************************************************************)
EXTENDS Integers

CONSTANTS
  Words,    \* values that the words of a message may have
  Layouts   \* the messages: their length in bytes, the word of the field

MaxWord == 65535

Word == 0 .. MaxWord

(* bytes is a uint16_t, and the checksum field is a whole word.            *)
ASSUME ChecksumAssumption ==
  /\ Words \subseteq Word
  /\ Layouts \subseteq [length : Word, field : Word]
  /\ \A m \in Layouts : 1 <= m.field /\ 2 * m.field <= m.length

VARIABLES
  layout,   \* the message: where it ends and where its checksum is
  memory,   \* memory[i]: the i-th word of the buffer
  use,      \* who called Checksum: "fill", the sender, or "verify"
  pc,       \* what Checksum, or its caller, does next
  ptr,      \* the index of the next word
  bytes,    \* the bytes still to be added
  sum,      \* sum
  answer,   \* what Checksum returned
  damage,   \* history: the word that changed on the way
  sums      \* history: sums[u][i], the sum before word i in call u

vars == <<layout, memory, use, pc, ptr, bytes, sum, answer, damage, sums>>

Uses == {"fill", "verify"}

(* Words of a buffer of n bytes, the last one maybe in part.               *)
Size(n) == (n + 1) \div 2

Indices == 1 .. Size(layout.length)

(* The low byte of the word, which is the one at the lower address.        *)
LowByte(w) == w % 256

(* What of word i belongs to the message.                                  *)
Visible(i, w) == IF 2 * i <= layout.length THEN w ELSE LowByte(w)

NoDamage == [at |-> 0, from |-> 0, to |-> 0]

TypeOK ==
  /\ layout \in Layouts
  /\ memory \in [Indices -> Word]
  /\ use \in Uses
  /\ pc \in {"clear", "loop", "fold", "foldCarry", "complement", "store",
             "inTransit", "checked"}
  /\ ptr \in 1 .. Size(layout.length) + 1
  /\ bytes \in Word
  /\ sum \in Nat
  /\ answer \in Word
  /\ damage \in [at : Nat, from : Word, to : Word]
  /\ sums \in [Uses -> [1 .. Size(layout.length) + 1 -> Nat]]

-----------------------------------------------------------------------------
(* Utilities::Checksum                                                     *)

Call(who) ==
  /\ use' = who
  /\ ptr' = 1
  /\ bytes' = layout.length
  /\ sum' = 0
  /\ pc' = "loop"

Add(w, n) ==
  /\ sum' = sum + w
  /\ ptr' = ptr + 1
  /\ bytes' = bytes - n
  /\ sums' = [sums EXCEPT ![use][ptr + 1] = sum + w]
  /\ UNCHANGED <<layout, memory, use, pc, answer, damage>>

(* As if the loop ran while (bytes > 0).                                   *)
AnyLeft == bytes > 0

(* while (bytes > 1)                                                       *)
WordLeft == bytes > 1

AddWord == pc = "loop" /\ WordLeft /\ Add(memory[ptr], 2)

(* As if the last, odd byte were left out, or went into the high byte.     *)
OddByteDropped(w) == 0
OddByteHigh(w) == 256 * LowByte(w)

OddByte(w) == LowByte(w)

AddOddByte == pc = "loop" /\ bytes = 1 /\ Add(OddByte(memory[ptr]), 1)

(* The step from sum to s, with next to come.                              *)
Becomes(s, next) ==
  /\ sum' = s
  /\ pc' = next
  /\ UNCHANGED <<layout, memory, use, ptr, bytes, answer, damage, sums>>

(* sum = (sum >> 16) + (sum & 0xffff)                                      *)
Fold ==
  /\ pc = "loop" /\ bytes = 0
  /\ Becomes((sum \div 65536) + (sum % 65536), "foldCarry")

(* As if the carry out of the first fold were forgotten.                   *)
CarryForgotten(s) == s

(* sum += (sum >> 16)                                                      *)
CarryAdded(s) == s + (s \div 65536)

FoldCarry == pc = "foldCarry" /\ Becomes(CarryAdded(sum), "complement")

(* uint16_t answer = ~sum                                                  *)
Complement ==
  /\ pc = "complement"
  /\ answer' = (-1 - sum) % 65536
  /\ pc' = IF use = "fill" THEN "store" ELSE "checked"
  /\ UNCHANGED <<layout, memory, use, ptr, bytes, sum, damage, sums>>

-----------------------------------------------------------------------------
(* The callers                                                             *)

(* memset or SetChecksum(0), then the call.                                *)
CallToFill ==
  /\ pc = "clear"
  /\ memory' = [memory EXCEPT ![layout.field] = 0]
  /\ Call("fill")
  /\ UNCHANGED <<layout, answer, damage, sums>>

(* As if SetChecksum swapped the bytes, the way GetChecksum does.          *)
StoredSwapped(a) == 256 * (a % 256) + (a \div 256)

Stored(a) == a

StoreAnswer ==
  /\ pc = "store"
  /\ memory' = [memory EXCEPT ![layout.field] = Stored(answer)]
  /\ pc' = "inTransit"
  /\ UNCHANGED <<layout, use, ptr, bytes, sum, answer, damage, sums>>

(* External: the network changes a word.                                   *)
Damaged ==
  /\ pc = "inTransit" /\ damage = NoDamage
  /\ \E i \in Indices, w \in Words :
       /\ Visible(i, w) # Visible(i, memory[i])
       /\ memory' = [memory EXCEPT ![i] = w]
       /\ damage' = [at |-> i, from |-> Visible(i, memory[i]),
                     to |-> Visible(i, w)]
  /\ UNCHANGED <<layout, use, pc, ptr, bytes, sum, answer, sums>>

(* External: the receiver runs the same sum over what arrived, and accepts *)
(* the message if the answer is 0.                                         *)
CallToVerify ==
  /\ pc = "inTransit"
  /\ Call("verify")
  /\ UNCHANGED <<layout, memory, answer, damage, sums>>

Init ==
  /\ layout \in Layouts
  /\ memory \in [Indices -> Words]
  /\ use = "fill"
  /\ pc = "clear"
  /\ ptr = 1 /\ bytes = 0 /\ sum = 0 /\ answer = 0
  /\ damage = NoDamage
  /\ sums = [u \in Uses |-> [i \in 1 .. Size(layout.length) + 1 |-> 0]]

Next == \/ CallToFill \/ AddWord \/ AddOddByte \/ Fold \/ FoldCarry
        \/ Complement \/ StoreAnswer \/ Damaged \/ CallToVerify

Spec == Init /\ [][Next]_vars

-----------------------------------------------------------------------------
(* RFC 1071, as a formula: the sum in ones' complement of words whose      *)
(* ordinary sum is n.                                                      *)
OnesComplementSum(n) == IF n = 0 THEN 0 ELSE 1 + ((n - 1) % 65535)

Total == sums[use][Size(layout.length) + 1]

(* Two folds are enough for every message whose length fits bytes: what    *)
(* Checksum returns is the complement of the ones' complement sum.         *)
AnswerIsComplement ==
  pc \in {"store", "checked"} => answer = 65535 - OnesComplementSum(Total)

Accepted == answer = 0

(* A message that arrives as it was sent is accepted, whatever is in it,   *)
(* wherever its checksum is and whether its length is even or odd.         *)
AcceptsIntact == pc = "checked" /\ damage = NoDamage => Accepted

(* A message one word of which changed is not accepted, unless the change  *)
(* was between 0 and 0xffff, the two zeros of ones' complement.            *)
DetectsDamage ==
  pc = "checked" /\ damage # NoDamage /\ {damage.from, damage.to} # {0, 65535}
    => ~ Accepted

(* The bytes of the buffer that Checksum is called on.                     *)
MessageBytes ==
  [i \in 1 .. layout.length |->
     IF i % 2 = 1 THEN LowByte(memory[(i + 1) \div 2]) ELSE memory[i \div 2] \div 256]

Headers == INSTANCE PacketHeaders

(* The headers of Packets have the loop as one formula over the bytes, and *)
(* the loop keeps to it, step by step, for the caller that fills the field *)
(* in and for the one that verifies, half a word at the end included.      *)
AnswerIsChecksumOf ==
  pc \in {"store", "checked"} => answer = Headers!ChecksumOf(MessageBytes)

=============================================================================
