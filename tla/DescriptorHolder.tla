-------------------------- MODULE DescriptorHolder --------------------------
(***************************************************************************)
(* What an object that wraps one descriptor promises the program it is     *)
(* part of (SerialPort with fileDesc_, SocketScoped with handle): it holds *)
(* at most one descriptor, that one is its own, it gives it back once, and *)
(* it releases nothing else.                                               *)
(***************************************************************************)
EXTENDS Descriptors

CONSTANT Me        \* the object, as an owner of descriptors

VARIABLE held      \* the descriptors the object holds

holderVars == <<owner, file, held>>

HolderTypeOK == DescriptorsTypeOK /\ held \in SUBSET Fd

Acquire ==
  /\ held = {}
  /\ \E fd \in Fd, f \in File : KernelOpen(Me, f, fd) /\ held' = {fd}

Release ==
  /\ \E fd \in held : KernelClose(fd)
  /\ held' = {}

(* The rest of the program opens and closes descriptors of its own.        *)
Others ==
  /\ OthersOpen(Me) \/ OthersClose(Me)
  /\ UNCHANGED held

Disconnect ==
  /\ \E d \in Device : KernelHangup(d)
  /\ UNCHANGED held

Exit == KernelExit /\ held' = {}

HolderInit == DescriptorsInit(Me) /\ held = {}

HolderNext == Acquire \/ Release \/ Others \/ Disconnect \/ Exit

HolderSpec == HolderInit /\ [][HolderNext]_holderVars

-----------------------------------------------------------------------------

(* The object holds exactly what it owns, one descriptor at most.          *)
HoldsWhatItOwns ==
  /\ held = {fd \in Fd : owner[fd] = Me}
  /\ \A fd, other \in held : fd = other

(* Until the process ends, a descriptor of another part of the program is  *)
(* released by that part only: the object's own steps leave it open.       *)
ReleasesOnlyItsOwn ==
  [][Acquire \/ Release
     => \A fd \in Fd : owner[fd] # Me => owner'[fd] \in {owner[fd], Me}]_holderVars

=============================================================================
