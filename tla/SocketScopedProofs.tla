------------------------- MODULE SocketScopedProofs -------------------------
(***************************************************************************)
(* Proofs about SocketScoped, for any number of objects and descriptors.   *)
(***************************************************************************)
EXTENDS SocketScoped, TLAPS

Inv == TypeOK /\ HandlesOwned /\ NothingLeaks /\ StrangersClosedOnlyByCopies

LEMMA Constants ==
  /\ Nobody \notin Holder /\ Nobody \notin Objects /\ Objects \subseteq Holder
  /\ NoFile \notin File /\ Elsewhere \in File
  /\ \A fd \in Fd : fd # INVALID_HANDLE /\ fd \in Int
BY DescriptorsAssumption, SocketScopedAssumption, SMT DEF File, INVALID_HANDLE

LEMMA InitHolds == Init => Inv
<1> SUFFICES ASSUME Init PROVE Inv
  OBVIOUS
<1>1. TypeOK
  BY Constants DEF Init, TypeOK, DescriptorsTypeOK, NothingClosed
<1>2. HandlesOwned /\ NothingLeaks /\ StrangersClosedOnlyByCopies
  BY Constants DEF Init, HandlesOwned, NothingLeaks, NothingClosed,
                   StrangersClosedOnlyByCopies
<1> QED
  BY <1>1, <1>2 DEF Inv

(* What closeSocket(s) makes of a table: at most s is released.            *)
LEMMA CloseSocketType ==
  ASSUME NEW o \in Objects, NEW s \in Fd \cup {INVALID_HANDLE},
         NEW own \in [Fd -> Holder \cup {Nobody}],
         NEW what \in [Fd -> File \cup {NoFile}],
         \A fd \in Fd : own[fd] = Nobody <=> what[fd] = NoFile,
         CloseSocket(o, s, own, what)
  PROVE  /\ DescriptorsTypeOK'
         /\ \A fd \in Fd : owner'[fd] = IF fd = s THEN Nobody ELSE own[fd]
         /\ closed' \in [by : Holder \cup {Nobody}, of : Holder \cup {Nobody}]
         /\ closed'.by = closed'.of \/ (s \in Fd /\ own[s] # o)
<1>1. CASE s # INVALID_HANDLE /\ own[s] # Nobody
  BY <1>1, Constants DEF CloseSocket, DescriptorsTypeOK
<1>2. CASE ~ (s # INVALID_HANDLE /\ own[s] # Nobody)
  BY <1>2, Constants DEF CloseSocket, DescriptorsTypeOK, NothingClosed
<1> QED
  BY <1>1, <1>2

(* own and what are the table, after o maybe opened h.                     *)
Opened(o, h, own, what) ==
  /\ own \in [Fd -> Holder \cup {Nobody}]
  /\ what \in [Fd -> File \cup {NoFile}]
  /\ \A fd \in Fd : own[fd] = Nobody <=> what[fd] = NoFile
  /\ \A fd \in Fd : own[fd] # owner[fd]
                    => owner[fd] = Nobody /\ fd = h /\ own[fd] = o

(* After an object o closed s and took the handle h, the table being own   *)
(* before: the common part of both assignments and the destructor.         *)
LEMMA ClosingHolds ==
  ASSUME Inv, NEW o \in alive, NEW s \in Fd \cup {INVALID_HANDLE},
         NEW h \in Fd \cup {INVALID_HANDLE},
         NEW own, NEW what, Opened(o, h, own, what),
         CloseSocket(o, s, own, what),
         handle' = [handle EXCEPT ![o] = h],
         alive' = alive \/ (alive' = alive \ {o} /\ h = INVALID_HANDLE),
         copied' \in BOOLEAN, copied => copied',
         s = IF handle[o] # h THEN handle[o] ELSE INVALID_HANDLE,
         ~ copied' => h = INVALID_HANDLE \/ own[h] = o
  PROVE  Inv'
<1> USE DEF Inv, Opened
<1>1. o \in Objects /\ alive \subseteq Objects
  BY DEF TypeOK
<1>2. /\ DescriptorsTypeOK'
      /\ \A fd \in Fd : owner'[fd] = IF fd = s THEN Nobody ELSE own[fd]
      /\ closed' \in [by : Holder \cup {Nobody}, of : Holder \cup {Nobody}]
      /\ closed'.by = closed'.of \/ (s \in Fd /\ own[s] # o)
  BY <1>1, CloseSocketType
<1>3. /\ handle'[o] = h
      /\ \A p \in Objects : p # o => handle'[p] = handle[p]
      /\ handle' \in [Objects -> Fd \cup {INVALID_HANDLE}]
  BY <1>1 DEF TypeOK
<1>4. TypeOK'
  BY <1>2, <1>3 DEF TypeOK
<1>5. s # h \/ s = INVALID_HANDLE
  OBVIOUS
<1>6. HandlesOwned'
  <2> SUFFICES ASSUME ~ copied', NEW p \in alive', handle'[p] # INVALID_HANDLE
               PROVE  owner'[handle'[p]] = p
    BY DEF HandlesOwned
  <2>1. ~ copied
    OBVIOUS
  <2>2. p \in alive /\ p \in Objects
    BY <1>1
  <2>3. CASE p = o
    BY <2>3, <1>2, <1>3, <1>5
  <2>4. CASE p # o
    <3>1. handle'[p] = handle[p] /\ handle[p] \in Fd /\ owner[handle[p]] = p
      BY <2>1, <2>2, <2>4, <1>3 DEF HandlesOwned, TypeOK
    <3>2. own[handle[p]] = p
      BY <3>1, <2>2, Constants
    <3>3. handle[p] # s
      BY <3>1, <2>1, <2>4, Constants DEF HandlesOwned
    <3> QED
      BY <3>1, <3>2, <3>3, <1>2
  <2> QED
    BY <2>3, <2>4
<1>7. NothingLeaks'
  <2> SUFFICES ASSUME NEW fd \in Fd, NEW p \in Objects, owner'[fd] = p
               PROVE  p \in alive' /\ handle'[p] = fd
    BY DEF NothingLeaks
  <2>1. fd # s /\ own[fd] = p
    BY <1>2, Constants
  <2>2. CASE own[fd] # owner[fd]
    BY <2>1, <2>2, <1>3, Constants
  <2>3. CASE own[fd] = owner[fd]
    <3>1. p \in alive /\ handle[p] = fd
      BY <2>1, <2>3 DEF NothingLeaks
    <3>2. p = o => h = fd
      BY <3>1, <2>1
    <3> QED
      BY <3>1, <3>2, <1>3, Constants
  <2> QED
    BY <2>2, <2>3
<1>8. StrangersClosedOnlyByCopies'
  <2>1. CASE closed'.by = closed'.of
    BY <2>1 DEF StrangersClosedOnlyByCopies
  <2>2. CASE s \in Fd /\ own[s] # o
    <3>1. handle[o] = s /\ s # h /\ owner[s] = own[s]
      BY <2>2, <1>5, Constants
    <3>2. copied
      BY <2>2, <3>1, Constants DEF HandlesOwned
    <3> QED
      BY <3>2 DEF StrangersClosedOnlyByCopies
  <2> QED
    BY <1>2, <2>1, <2>2
<1> QED
  BY <1>4, <1>6, <1>7, <1>8

LEMMA InvPreserved == Inv /\ [Next]_vars => Inv'
<1> SUFFICES ASSUME Inv, [Next]_vars PROVE Inv'
  OBVIOUS
<1> USE DEF Inv
<1>0. /\ owner \in [Fd -> Holder \cup {Nobody}]
      /\ file \in [Fd -> File \cup {NoFile}]
      /\ \A fd \in Fd : owner[fd] = Nobody <=> file[fd] = NoFile
      /\ handle \in [Objects -> Fd \cup {INVALID_HANDLE}]
      /\ alive \subseteq Objects /\ copied \in BOOLEAN
  BY DEF TypeOK, DescriptorsTypeOK
<1>1. CASE Others
  <2>1. UNCHANGED <<alive, handle, copied>> /\ closed' = NothingClosed
    BY <1>1 DEF Others
  <2>2. PICK fd \in Fd, who \in (Holder \ Objects) \cup {Nobody}, f \in File \cup {NoFile} :
          /\ owner[fd] \notin Objects
          /\ owner' = [owner EXCEPT ![fd] = who]
          /\ file' = [file EXCEPT ![fd] = f]
          /\ who = Nobody <=> f = NoFile
    BY <1>1, Constants DEF Others, KernelOpen, KernelClose, LowestUnused, Unused
  <2>3. TypeOK'
    BY <1>0, <2>1, <2>2, Constants DEF TypeOK, DescriptorsTypeOK, NothingClosed
  <2>4. \A g \in Fd, o \in Objects : owner'[g] = o <=> owner[g] = o
    BY <1>0, <2>2, Constants
  <2>5. HandlesOwned' /\ NothingLeaks'
    BY <1>0, <2>1, <2>4 DEF HandlesOwned, NothingLeaks
  <2>6. StrangersClosedOnlyByCopies'
    BY <2>1 DEF StrangersClosedOnlyByCopies, NothingClosed
  <2> QED
    BY <2>3, <2>5, <2>6
<1>2. ASSUME NEW o \in Objects, Construct(o)
      PROVE  Inv'
  <2>1. PICK s \in Fd \cup {INVALID_HANDLE} :
          Socket(o, s) /\ handle' = [handle EXCEPT ![o] = s]
    BY <1>2 DEF Construct
  <2>2. /\ o \notin alive /\ alive' = alive \cup {o}
        /\ closed' = NothingClosed /\ UNCHANGED copied
    BY <1>2 DEF Construct
  <2>3. \A fd \in Fd : owner[fd] # o
    BY <1>2, <2>2 DEF NothingLeaks
  <2>4. /\ DescriptorsTypeOK'
        /\ \A g \in Fd : owner'[g] = IF g = s THEN o ELSE owner[g]
        /\ s \in Fd => owner[s] = Nobody
    BY <1>0, <1>2, <2>1, Constants
       DEF Socket, KernelOpen, LowestUnused, Unused, DescriptorsTypeOK
  <2>5. /\ handle'[o] = s
        /\ \A p \in Objects : p # o => handle'[p] = handle[p]
        /\ handle' \in [Objects -> Fd \cup {INVALID_HANDLE}]
    BY <1>0, <1>2, <2>1
  <2>6. TypeOK'
    BY <1>0, <1>2, <2>2, <2>4, <2>5 DEF TypeOK, NothingClosed
  <2>7. HandlesOwned'
    BY <1>0, <1>2, <2>2, <2>4, <2>5, Constants DEF HandlesOwned
  <2>8. NothingLeaks'
    BY <1>0, <1>2, <2>2, <2>4, <2>5, Constants DEF NothingLeaks
  <2>9. StrangersClosedOnlyByCopies'
    BY <2>2 DEF StrangersClosedOnlyByCopies, NothingClosed
  <2> QED
    BY <2>6, <2>7, <2>8, <2>9
<1>3. ASSUME NEW o \in Objects, NEW p \in Objects, CopyConstruct(o, p)
      PROVE  Inv'
  <2>1. /\ o \notin alive /\ p \in alive /\ alive' = alive \cup {o} /\ copied' = TRUE
        /\ handle' = [handle EXCEPT ![o] = handle[p]]
        /\ closed' = NothingClosed /\ UNCHANGED <<owner, file>>
    BY <1>3 DEF CopyConstruct
  <2>2. TypeOK'
    BY <1>0, <1>3, <2>1 DEF TypeOK, DescriptorsTypeOK, NothingClosed
  <2>3. NothingLeaks'
    BY <1>0, <1>3, <2>1 DEF NothingLeaks
  <2> QED
    BY <2>1, <2>2, <2>3 DEF HandlesOwned, StrangersClosedOnlyByCopies
<1>4. ASSUME NEW o \in Objects, AssignSocket(o)
      PROVE  Inv'
  <2>1. PICK s \in Fd \cup {INVALID_HANDLE} :
          /\ s # INVALID_HANDLE => LowestUnused(s)
          /\ CloseSocket(o, Replaced(o, s),
               IF s = INVALID_HANDLE THEN owner ELSE [owner EXCEPT ![s] = o],
               IF s = INVALID_HANDLE THEN file ELSE [file EXCEPT ![s] = Elsewhere])
          /\ handle' = [handle EXCEPT ![o] = s]
    BY <1>4 DEF AssignSocket, StoredHandle
  <2> DEFINE own == IF s = INVALID_HANDLE THEN owner ELSE [owner EXCEPT ![s] = o]
             what == IF s = INVALID_HANDLE THEN file ELSE [file EXCEPT ![s] = Elsewhere]
  <2>2. o \in alive /\ UNCHANGED <<alive, copied>>
    BY <1>4 DEF AssignSocket
  <2>3. s \in Fd => owner[s] = Nobody
    BY <2>1, Constants DEF LowestUnused, Unused
  <2>4. /\ own \in [Fd -> Holder \cup {Nobody}]
        /\ what \in [Fd -> File \cup {NoFile}]
        /\ \A fd \in Fd : own[fd] = Nobody <=> what[fd] = NoFile
        /\ \A fd \in Fd : own[fd] # owner[fd] => owner[fd] = Nobody /\ fd = s /\ own[fd] = o
        /\ s = INVALID_HANDLE \/ own[s] = o
    BY <1>0, <1>4, <2>3, Constants
  <2>5. Replaced(o, s) = IF handle[o] # s THEN handle[o] ELSE INVALID_HANDLE
    BY DEF Replaced
  <2>6. Replaced(o, s) \in Fd \cup {INVALID_HANDLE}
    BY <1>0, <1>4, <2>5
  <2>7. CloseSocket(o, Replaced(o, s), own, what)
    BY <2>1
  <2>8. /\ copied' \in BOOLEAN /\ (copied => copied')
        /\ handle' = [handle EXCEPT ![o] = s] /\ alive' = alive
    BY <1>0, <2>1, <2>2
  <2>9. Opened(o, s, own, what)
    BY <2>4 DEF Opened
  <2> HIDE DEF own, what
  <2> QED
    BY <2>2, <2>4, <2>5, <2>6, <2>7, <2>8, <2>9, ClosingHolds
<1>5. ASSUME NEW o \in Objects, NEW p \in Objects, AssignCopy(o, p)
      PROVE  Inv'
  <2>1. /\ o \in alive /\ p \in alive
        /\ CloseSocket(o, Replaced(o, handle[p]), owner, file)
        /\ handle' = [handle EXCEPT ![o] = handle[p]]
        /\ copied' = (copied \/ o # p) /\ UNCHANGED alive
    BY <1>5 DEF AssignCopy
  <2>2. Replaced(o, handle[p]) = IF handle[o] # handle[p] THEN handle[o] ELSE INVALID_HANDLE
    BY DEF Replaced
  <2>3. /\ Replaced(o, handle[p]) \in Fd \cup {INVALID_HANDLE}
        /\ handle[p] \in Fd \cup {INVALID_HANDLE}
    BY <1>0, <1>5, <2>2
  <2>4. copied' \in BOOLEAN /\ (copied => copied')
    BY <1>0, <2>1
  <2>5. ~ copied' => handle[p] = INVALID_HANDLE \/ owner[handle[p]] = o
    BY <2>1 DEF HandlesOwned
  <2>6. Opened(o, handle[p], owner, file)
    BY <1>0 DEF Opened
  <2> QED
    BY <2>1, <2>2, <2>3, <2>4, <2>5, <2>6, ClosingHolds
<1>6. ASSUME NEW o \in Objects, Destroy(o)
      PROVE  Inv'
  <2>1. /\ o \in alive /\ CloseSocket(o, handle[o], owner, file)
        /\ alive' = alive \ {o} /\ UNCHANGED copied
        /\ handle' = [handle EXCEPT ![o] = INVALID_HANDLE]
    BY <1>6 DEF Destroy
  <2>2. handle[o] \in Fd \cup {INVALID_HANDLE}
    BY <1>0, <1>6
  <2>3. Opened(o, INVALID_HANDLE, owner, file)
    BY <1>0 DEF Opened
  <2> QED
    BY <1>0, <2>1, <2>2, <2>3, ClosingHolds
<1>7. CASE UNCHANGED vars
  BY <1>7 DEF vars, TypeOK, DescriptorsTypeOK, HandlesOwned, NothingLeaks,
              StrangersClosedOnlyByCopies
<1> QED
  BY <1>1, <1>2, <1>3, <1>4, <1>5, <1>6, <1>7 DEF Next, ObjectStep

LEMMA InvHolds == Spec => []Inv
BY InitHolds, InvPreserved, PTL DEF Spec

(* A program that copies no SocketScoped closes only what it opened.       *)
THEOREM UncopiedHandlesOwned == Spec => []HandlesOwned
BY InvHolds, PTL DEF Inv

(* Whatever is assigned and copied, no descriptor outlives its object.     *)
THEOREM SocketsNeverLeak == Spec => []NothingLeaks
BY InvHolds, PTL DEF Inv

(* Closing a stranger's descriptor takes a copy.                           *)
THEOREM StrangersNeedCopies == Spec => []StrangersClosedOnlyByCopies
BY InvHolds, PTL DEF Inv

=============================================================================
