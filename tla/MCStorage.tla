------------------------------ MODULE MCStorage ------------------------------
(***************************************************************************)
(* Finite instances of what is kept on disk for a project                  *)
(* (ProjectStorage).                                                       *)
(***************************************************************************)
EXTENDS ProjectStorage

CONSTANTS
    c1, c2,           \* coordinators
    e1,               \* a Review
    k1, k2,           \* calls
    p1,               \* projects
    f1, f2,           \* sources
    t1, t2, t3,       \* threads
    u, v,             \* terms
    g1, g2,           \* paragraphs
    r0, r1            \* wordings

TwoClients == {c1, c2}
ThreeThreads == {t1, t2, t3}
OneReview == {e1}
TwoCalls == {k1, k2}

\* Two threads share a coordinator, the third has its own.
SharedCoordinator == (t1 :> c1) @@ (t2 :> c1) @@ (t3 :> c2)

\* The threads of one coordinator are interchangeable: no action or property names one.
ThreadSymmetry == Permutations({t1, t2})

ChapterPerPassage == g1 :> 1 @@ g2 :> 2

\* Terms that are added in either order, removed, reordered and changed.
Term(source, content) == [source |-> source, content |-> content]
GlossariesOfTwo ==
    {<<>>, <<Term(u, 1)>>, <<Term(u, 2)>>, <<Term(u, 1), Term(v, 1)>>, <<Term(v, 1), Term(u, 1)>>,
     <<Term(v, 1), Term(u, 2)>>}

=============================================================================
