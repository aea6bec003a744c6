------------------------------ MODULE MCRegistry ------------------------------
(* Values for Registry's constants that a .cfg cannot write. *)
EXTENDS Registry

\* An idle timeout the clock does not reach, so that it is the server's answer that
\* makes it expire; or no timeout at all: the cleanup goroutine is not started then.
LongOrOff == {<<2, 1>>, <<0, 0>>}

Short == {<<1, 1>>}

\* The server has disabled its timeout, or has one the clock reaches.
Answers == {-1, 1}
=============================================================================
