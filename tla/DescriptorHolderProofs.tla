----------------------- MODULE DescriptorHolderProofs -----------------------
(***************************************************************************)
(* What follows from DescriptorHolder alone, and so holds of every object  *)
(* that implements it.                                                     *)
(***************************************************************************)
EXTENDS DescriptorHolder, TLAPS

USE DescriptorsAssumption

HolderInv == HolderTypeOK /\ HoldsWhatItOwns

LEMMA HolderInitInv == Me \in Holder /\ HolderInit => HolderInv
  BY DEF HolderInit, DescriptorsInit, HolderInv, HolderTypeOK,
         DescriptorsTypeOK, File, HoldsWhatItOwns

LEMMA OpenInv ==
  ASSUME DescriptorsTypeOK, NEW who \in Holder, NEW f \in File, NEW fd \in Fd,
         KernelOpen(who, f, fd)
  PROVE  /\ DescriptorsTypeOK'
         /\ owner[fd] = Nobody /\ owner'[fd] = who
         /\ \A other \in Fd \ {fd} : owner'[other] = owner[other]
BY DEF DescriptorsTypeOK, KernelOpen, LowestUnused, Unused, File

LEMMA CloseInv ==
  ASSUME DescriptorsTypeOK, NEW fd \in Fd, KernelClose(fd)
  PROVE  /\ DescriptorsTypeOK'
         /\ owner'[fd] = Nobody
         /\ \A other \in Fd \ {fd} : owner'[other] = owner[other]
BY DEF DescriptorsTypeOK, KernelClose, IsOpen, Unused, File

LEMMA HolderStepInv ==
  ASSUME Me \in Holder
  PROVE  HolderInv /\ [HolderNext]_holderVars => HolderInv'
<1> SUFFICES ASSUME HolderInv, [HolderNext]_holderVars
             PROVE  HolderInv'
  OBVIOUS
<1>0. DescriptorsTypeOK /\ held \in SUBSET Fd
      /\ held = {fd \in Fd : owner[fd] = Me}
      /\ \A fd, other \in held : fd = other
  BY DEF HolderInv, HolderTypeOK, HoldsWhatItOwns
<1>1. CASE Acquire
  <2>1. PICK fd \in Fd, f \in File : KernelOpen(Me, f, fd) /\ held' = {fd}
    BY <1>1 DEF Acquire
  <2>2. DescriptorsTypeOK' /\ owner'[fd] = Me
        /\ \A other \in Fd \ {fd} : owner'[other] # Me
    BY <1>0, <1>1, <2>1, OpenInv DEF Acquire
  <2> QED
    BY <2>1, <2>2 DEF HolderInv, HolderTypeOK, HoldsWhatItOwns
<1>2. CASE Release
  <2>1. PICK fd \in held : KernelClose(fd)
    BY <1>2 DEF Release
  <2>2. DescriptorsTypeOK' /\ \A other \in Fd : owner'[other] # Me
    BY <1>0, <2>1, CloseInv
  <2> QED
    BY <1>2, <2>2 DEF Release, HolderInv, HolderTypeOK, HoldsWhatItOwns
<1>3. CASE Others
  <2>1. DescriptorsTypeOK' /\ \A fd \in Fd : owner'[fd] = Me <=> owner[fd] = Me
    <3>1. CASE OthersOpen(Me)
      <4>1. PICK who \in Holder \ {Me}, n \in Fd : KernelOpen(who, Elsewhere, n)
        BY <3>1 DEF OthersOpen
      <4>2. /\ DescriptorsTypeOK' /\ owner[n] = Nobody /\ owner'[n] = who
            /\ \A other \in Fd \ {n} : owner'[other] = owner[other]
        BY <1>0, <4>1, OpenInv DEF File
      <4> QED
        BY <4>1, <4>2
    <3>2. CASE OthersClose(Me)
      <4>1. PICK n \in Fd : owner[n] # Me /\ KernelClose(n)
        BY <3>2 DEF OthersClose
      <4>2. /\ DescriptorsTypeOK' /\ owner'[n] = Nobody
            /\ \A other \in Fd \ {n} : owner'[other] = owner[other]
        BY <1>0, <4>1, CloseInv
      <4>3. Nobody # Me
        OBVIOUS
      <4> QED
        BY <4>1, <4>2, <4>3
    <3> QED
      BY <1>3, <3>1, <3>2 DEF Others
  <2> QED
    BY <1>0, <1>3, <2>1 DEF Others, HolderInv, HolderTypeOK, HoldsWhatItOwns
<1>4. CASE Disconnect
  <2>1. PICK d \in Device : KernelHangup(d)
    BY <1>4 DEF Disconnect
  <2>2. DescriptorsTypeOK'
    BY <1>0, <2>1 DEF KernelHangup, DescriptorsTypeOK, File
  <2> QED
    BY <1>0, <1>4, <2>1, <2>2
       DEF Disconnect, KernelHangup, HolderInv, HolderTypeOK, HoldsWhatItOwns
<1>5. CASE Exit
  BY <1>5
     DEF Exit, KernelExit, HolderInv, HolderTypeOK, HoldsWhatItOwns,
         DescriptorsTypeOK
<1>6. CASE UNCHANGED holderVars
  BY <1>6
     DEF holderVars, HolderInv, HolderTypeOK, HoldsWhatItOwns, DescriptorsTypeOK
<1> QED
  BY <1>1, <1>2, <1>3, <1>4, <1>5, <1>6 DEF HolderNext

(* An object that implements DescriptorHolder owns exactly the descriptor  *)
(* it believes to hold: none is leaked, none is used after it was closed.  *)
THEOREM HolderOwns ==
  ASSUME Me \in Holder
  PROVE  HolderSpec => []HoldsWhatItOwns
<1>1. HolderInit => HolderInv
  BY HolderInitInv
<1>2. HolderInv /\ [HolderNext]_holderVars => HolderInv'
  BY HolderStepInv
<1>3. HolderInv => HoldsWhatItOwns
  BY DEF HolderInv
<1> QED
  BY <1>1, <1>2, <1>3, PTL DEF HolderSpec

(* Its own steps release no descriptor of another part of the program.     *)
THEOREM HolderReleasesItsOwn ==
  ASSUME Me \in Holder
  PROVE  HolderSpec => ReleasesOnlyItsOwn
<1>1. HolderInv /\ [HolderNext]_holderVars =>
        [Acquire \/ Release
         => \A fd \in Fd : owner[fd] # Me => owner'[fd] \in {owner[fd], Me}]_holderVars
  <2> SUFFICES ASSUME HolderInv, Acquire \/ Release, NEW fd \in Fd, owner[fd] # Me
               PROVE  owner'[fd] \in {owner[fd], Me}
    OBVIOUS
  <2>1. DescriptorsTypeOK /\ held = {n \in Fd : owner[n] = Me}
    BY DEF HolderInv, HolderTypeOK, HoldsWhatItOwns
  <2>2. CASE Acquire
    BY <2>1, <2>2, OpenInv DEF Acquire
  <2>3. CASE Release
    BY <2>1, <2>3, CloseInv DEF Release
  <2> QED
    BY <2>2, <2>3
<1>2. HolderSpec => []HolderInv
  BY HolderInitInv, HolderStepInv, PTL DEF HolderSpec
<1> QED
  BY <1>1, <1>2, PTL DEF HolderSpec, ReleasesOnlyItsOwn

=============================================================================
