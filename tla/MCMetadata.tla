----------------------------- MODULE MCMetadata -----------------------------
(* Instances of Metadata: directories a, a/b and a/b/c with a file in each, *)
(* and for the LIKE run directories m_n, mxn and mxn/c.                     *)
EXTENDS Metadata, TLC

CONSTANTS a, b, c, inA, inB, inC, x, y, x1, x2, y1

\* Only what the chosen directories and files need.
Within(above) == above \cap (Dirs \X (Dirs \cup Paths))
Between(like) == like \cap (Dirs \X Dirs)

TreeAbove == Within({<<a, b>>, <<a, c>>, <<b, c>>, <<a, inA>>, <<a, inB>>, <<b, inB>>,
                     <<a, inC>>, <<b, inC>>, <<c, inC>>})
TreeLike == Between({<<a, b>>, <<a, c>>, <<b, c>>})
SnapContent == [s \in Snaps |-> IF s = y1 THEN y ELSE x]

\* a is /m_n, b is /mxn, c is /mxn/c: the pattern '/m_n/%' matches c.
WildAbove == Within({<<b, c>>, <<a, inA>>, <<b, inB>>, <<b, inC>>, <<c, inC>>})
WildLike == Between({<<a, c>>, <<b, c>>})
=============================================================================
