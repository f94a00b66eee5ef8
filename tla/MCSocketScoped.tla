--------------------------- MODULE MCSocketScoped ---------------------------
(* An instance of SocketScoped for TLC: the objects play the same part.    *)
EXTENDS SocketScoped, TLC

CONSTANTS a, b, c, libc, nobody, elsewhere, noFile

MCFd == 0 .. 3

Symmetry == Permutations({a, b, c})
=============================================================================
