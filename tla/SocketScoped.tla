---------------------------- MODULE SocketScoped ----------------------------
(***************************************************************************)
(* Utilities::SocketScoped: the objects of the class that a program has at *)
(* one time, and the descriptor table they share.  The class declares its  *)
(* assignments and its destructor; its copy constructor is the implicit    *)
(* one, which copies the number.                                           *)
(***************************************************************************)
EXTENDS Descriptors

CONSTANT Objects   \* the variables of type SocketScoped, as owners

ASSUME SocketScopedAssumption == Objects \subseteq Holder

VARIABLES
  alive,   \* the objects that are constructed and not yet destroyed
  handle,  \* handle[o]
  copied,  \* history: an object was made from, or set to, another one
  closed   \* history: the object of the last step, the number it closed,
           \* and who had opened that

vars == <<owner, file, alive, handle, copied, closed>>

INVALID_HANDLE == -1

TypeOK ==
  /\ DescriptorsTypeOK
  /\ alive \subseteq Objects
  /\ handle \in [Objects -> Fd \cup {INVALID_HANDLE}]
  /\ copied \in BOOLEAN
  /\ closed \in [by : Holder \cup {Nobody}, of : Holder \cup {Nobody}]

NothingClosed == [by |-> Nobody, of |-> Nobody]

-----------------------------------------------------------------------------

(* socket() returns f, a new descriptor for o, or -1.                      *)
Socket(o, f) ==
  \/ f \in Fd /\ KernelOpen(o, Elsewhere, f)
  \/ f = INVALID_HANDLE /\ UNCHANGED <<owner, file>>

(* The table after closeSocket(s), called by o when the table was own and  *)
(* what.  A number that is not open makes close() fail with EBADF, which   *)
(* closeSocket only reports.                                               *)
CloseSocket(o, s, own, what) ==
  LET open == s # INVALID_HANDLE /\ own[s] # Nobody
  IN  /\ owner' = IF open THEN [own EXCEPT ![s] = Nobody] ELSE own
      /\ file' = IF open THEN [what EXCEPT ![s] = NoFile] ELSE what
      /\ closed' = IF open THEN [by |-> o, of |-> own[s]] ELSE NothingClosed

(* SocketScoped o = ::socket(...)                                          *)
Construct(o) ==
  /\ o \notin alive
  /\ \E s \in Fd \cup {INVALID_HANDLE} :
       Socket(o, s) /\ handle' = [handle EXCEPT ![o] = s]
  /\ alive' = alive \cup {o}
  /\ closed' = NothingClosed
  /\ UNCHANGED copied

(* SocketScoped o = p                                                      *)
CopyConstruct(o, p) ==
  /\ o \notin alive /\ p \in alive
  /\ handle' = [handle EXCEPT ![o] = handle[p]]
  /\ alive' = alive \cup {o}
  /\ copied' = TRUE
  /\ closed' = NothingClosed
  /\ UNCHANGED <<owner, file>>

(* As if operator= forgot the descriptor it replaces, or closed the new one. *)
ReplacedForgotten(o, s) == INVALID_HANDLE
ReplacedByNew(o, s) == s

(* The number that operator= closes before it stores s.                    *)
Replaced(o, s) == IF handle[o] # s THEN handle[o] ELSE INVALID_HANDLE

(* As if operator= kept the old number when socket() failed.                *)
StoredUnlessInvalid(o, s) == IF s = INVALID_HANDLE THEN handle[o] ELSE s

(* The number that operator= stores.                                       *)
StoredHandle(o, s) == s

(* o = ::socket(...): the new descriptor is open before the old one is     *)
(* closed, so that the two differ.                                         *)
AssignSocket(o) ==
  /\ o \in alive
  /\ \E s \in Fd \cup {INVALID_HANDLE} :
       /\ s # INVALID_HANDLE => LowestUnused(s)
       /\ CloseSocket(o, Replaced(o, s),
            IF s = INVALID_HANDLE THEN owner ELSE [owner EXCEPT ![s] = o],
            IF s = INVALID_HANDLE THEN file ELSE [file EXCEPT ![s] = Elsewhere])
       /\ handle' = [handle EXCEPT ![o] = StoredHandle(o, s)]
  /\ UNCHANGED <<alive, copied>>

(* o = p, where p may be o itself.                                         *)
AssignCopy(o, p) ==
  /\ o \in alive /\ p \in alive
  /\ CloseSocket(o, Replaced(o, handle[p]), owner, file)
  /\ handle' = [handle EXCEPT ![o] = handle[p]]
  /\ copied' = (copied \/ o # p)
  /\ UNCHANGED alive

Destroy(o) ==
  /\ o \in alive
  /\ CloseSocket(o, handle[o], owner, file)
  /\ alive' = alive \ {o}
  /\ handle' = [handle EXCEPT ![o] = INVALID_HANDLE]
  /\ UNCHANGED copied

(* The rest of the program opens and closes descriptors of its own.        *)
Others ==
  /\ \E fd \in Fd :
       \/ \E who \in Holder \ Objects : KernelOpen(who, Elsewhere, fd)
       \/ owner[fd] \in Holder \ Objects /\ KernelClose(fd)
  /\ closed' = NothingClosed
  /\ UNCHANGED <<alive, handle, copied>>

Init ==
  /\ owner \in [Fd -> (Holder \ Objects) \cup {Nobody}]
  /\ file = [fd \in Fd |-> IF owner[fd] = Nobody THEN NoFile ELSE Elsewhere]
  /\ alive = {}
  /\ handle = [o \in Objects |-> INVALID_HANDLE]
  /\ copied = FALSE
  /\ closed = NothingClosed

ObjectStep(o) ==
  \/ Construct(o) \/ AssignSocket(o) \/ Destroy(o)
  \/ \E p \in Objects : CopyConstruct(o, p) \/ AssignCopy(o, p)

Next == Others \/ \E o \in Objects : ObjectStep(o)

Spec == Init /\ [][Next]_vars

-----------------------------------------------------------------------------

(* As long as no object was copied, each of them holds one descriptor, its *)
(* own, and no two of them the same.                                       *)
HandlesOwned ==
  ~ copied => \A o \in alive :
                handle[o] # INVALID_HANDLE => owner[handle[o]] = o

(* A descriptor that an object opened and that is still open is the handle *)
(* of that object, which lives and will close it: copies may close it too  *)
(* early, but nothing leaks it.                                            *)
NothingLeaks ==
  \A fd \in Fd, o \in Objects :
    owner[fd] = o => o \in alive /\ handle[o] = fd

(* A descriptor that an object did not open is closed by that object only  *)
(* in a program that copied one: all else in the class is safe, failed     *)
(* socket() calls, re-assignment and self-assignment included.             *)
StrangersClosedOnlyByCopies == closed.by # closed.of => copied

=============================================================================
