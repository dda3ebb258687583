----------------------------- MODULE MCPdfArtifact ----------------------------
(* Small instances of PdfArtifact: two renders against two edits.  The jobs    *)
(* are interchangeable and so are the edits.                                   *)
EXTENDS PdfArtifact, TLC

CONSTANTS p1, p2, none, firstLogo, noLogo, edit1, edit2

\* No property says anything once a row was overlapped: what follows is explored
\* only as far as no object is lost and no download runs, for the cleanup that
\* only an overlap makes necessary.
Explored == overlapped => ~lost /\ download.pc = "idle"

Symmetry == Permutations(PdfJobs) \cup Permutations(Edits)
===============================================================================
