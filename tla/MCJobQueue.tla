----------------------------- MODULE MCJobQueue -----------------------------
(***************************************************************************)
(* Model checking of JobQueue.                                             *)
(***************************************************************************)
EXTENDS JobQueue

\* A careful CIMOM (calls return before it cleans up, the library is unmapped,
\* so that its statics start afresh); the same with thread creation that may
\* fail; one whose calls overlap its cleanup, and which keeps the library.
AllCimoms ==
    {[overlap |-> FALSE, unmaps |-> TRUE, createMayFail |-> FALSE],
     [overlap |-> FALSE, unmaps |-> TRUE, createMayFail |-> TRUE],
     [overlap |-> TRUE, unmaps |-> FALSE, createMayFail |-> TRUE]}

OneCimom == {c \in AllCimoms : ~c.createMayFail}
=============================================================================
