----------------------------- MODULE MCBackup --------------------------------
(* Instances of Backup: directories a and a/b, or two apart from each other. *)
EXTENDS Backup, TLC

CONSTANTS a, b, c, inA, inB, inC, x, y, x1, x2, y1

\* Only what the chosen directories and files need.
Within(above) == above \cap (Dirs \X (Dirs \cup Paths))
Between(like) == like \cap (Dirs \X Dirs)

TreeAbove == Within({<<a, b>>, <<a, c>>, <<b, c>>, <<a, inA>>, <<a, inB>>, <<b, inB>>,
                     <<a, inC>>, <<b, inC>>, <<c, inC>>})
TreeLike == Between({<<a, b>>, <<a, c>>, <<b, c>>})
SnapContent == [s \in Snaps |-> IF s = y1 THEN y ELSE x]

\* Two directories side by side.
FlatAbove == Within({<<a, inA>>, <<b, inB>>})
FlatLike == {}
=============================================================================
