----------------------------- MODULE MCChecksum -----------------------------
(* An instance of Checksum for TLC.                                        *)
EXTENDS Checksum

(* The two zeros, the largest low byte, and words whose sums carry.        *)
MCWords == {0, 255, 256, 65279, 65535}

(* An ICMP header with its checksum in the second word, then messages that *)
(* end in half a word; the first of them is nothing but a field and a byte. *)
MCLayouts == {[length |-> 8, field |-> 2], [length |-> 3, field |-> 1],
              [length |-> 7, field |-> 3]}
=============================================================================
