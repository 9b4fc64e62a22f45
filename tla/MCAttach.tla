------------------------------ MODULE MCAttach ------------------------------
(* A process of three threads that may create two more.                    *)
EXTENDS Attach

CONSTANTS a, b, c, d

MCInitial == {Main, a, b}
=============================================================================
