---------------------------- MODULE Descriptors ----------------------------
(***************************************************************************)
(* The descriptor table of the process, as the system calls open(2),       *)
(* socket(2) and close(2) present it to the code.  It is the one resource  *)
(* that every object of the program shares: SerialPort keeps a descriptor  *)
(* in fileDesc_, SocketScoped keeps one in handle, and a number that one   *)
(* of them gives back is the number the next open() or socket() returns.   *)
(*                                                                         *)
(* External: the kernel is not under src/; this is what the code relies on.*)
(***************************************************************************)
EXTENDS Integers

CONSTANTS
  Fd,         \* the descriptor numbers the table can hold
  Holder,     \* the parts of the program that open descriptors
  Nobody,     \* the owner of a descriptor number that is not in use
  Device,     \* paths that open() may be given
  Elsewhere,  \* any other file: a socket, a pipe, a terminal that hung up
  NoFile      \* what an unused descriptor number refers to

ASSUME DescriptorsAssumption ==
  /\ Fd \subseteq Nat
  /\ Nobody \notin Holder
  /\ NoFile \notin Device \cup {Elsewhere}
  /\ Elsewhere \notin Device

VARIABLES
  owner,  \* owner[fd]: who opened descriptor fd, Nobody when fd is unused
  file    \* file[fd]: what fd refers to

File == Device \cup {Elsewhere}

DescriptorsTypeOK ==
  /\ owner \in [Fd -> Holder \cup {Nobody}]
  /\ file \in [Fd -> File \cup {NoFile}]
  /\ \A fd \in Fd : owner[fd] = Nobody <=> file[fd] = NoFile

Unused == {fd \in Fd : owner[fd] = Nobody}

IsOpen(fd) == fd \in Fd \ Unused

(* What a descriptor number refers to; -1 and other numbers outside the    *)
(* table refer to nothing.                                                 *)
FileOf(fd) == IF fd \in Fd THEN file[fd] ELSE NoFile

(* POSIX: open() and socket() return the lowest-numbered unused descriptor. *)
LowestUnused(fd) == fd \in Unused /\ \A other \in Unused : fd <= other

(* A successful open() or socket() of f by who, returning fd. *)
KernelOpen(who, f, fd) ==
  /\ LowestUnused(fd)
  /\ owner' = [owner EXCEPT ![fd] = who]
  /\ file' = [file EXCEPT ![fd] = f]

(* close() of an open descriptor.  Linux releases the number even when     *)
(* close() goes on to report an error.                                     *)
KernelClose(fd) ==
  /\ IsOpen(fd)
  /\ owner' = [owner EXCEPT ![fd] = Nobody]
  /\ file' = [file EXCEPT ![fd] = NoFile]

(* What was open on device d is no longer that device: a hang-up.          *)
KernelHangup(d) ==
  /\ file' = [fd \in Fd |-> IF file[fd] = d THEN Elsewhere ELSE file[fd]]
  /\ UNCHANGED owner

(* The process ends: the kernel closes whatever is still open.             *)
KernelExit ==
  /\ owner' = [fd \in Fd |-> Nobody]
  /\ file' = [fd \in Fd |-> NoFile]

(* The parts of the program other than me open and close descriptors of    *)
(* their own.                                                              *)
OthersOpen(me) ==
  \E who \in Holder \ {me}, fd \in Fd : KernelOpen(who, Elsewhere, fd)

OthersClose(me) ==
  \E fd \in Fd : owner[fd] # me /\ KernelClose(fd)

(* The table the program starts with: any standard streams may be open.    *)
DescriptorsInit(me) ==
  /\ owner \in [Fd -> (Holder \ {me}) \cup {Nobody}]
  /\ file = [fd \in Fd |-> IF owner[fd] = Nobody THEN NoFile ELSE Elsewhere]

=============================================================================
