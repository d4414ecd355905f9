------------------------------- MODULE MCPage --------------------------------
(* Small instances of Page for TLC. *)
EXTENDS PageProps, TLC

CONSTANTS f, g, t1, t2, e1, e2

\* All names of up to two characters, and names as long as the input allows.
Long(c, n) == [i \in 1..n |-> c]
MCTyped ==
  BoundedSeq(Characters, 2) \cup {
    <<"A", " ", "a">>, <<"a", " ", " ", "a">>, <<" ", "I.", " ">>, Long("a", 39), Long("A", 40), Long("a", 39) \o <<" ">>, Long(" ", 40),
    Long("a", 38) \o <<" ", "a">>, Long("a", 38) \o <<"I.", "a">>,
    Long("a", 37) \o <<"I.", "a", "a">>, Long("I.", 40)}
MCSlugs == {<<>>, <<"a", "-", "a">>}
=============================================================================
