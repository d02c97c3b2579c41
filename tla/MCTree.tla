------------------------------- MODULE MCTree -------------------------------
(* Instances of Tree: the files a/f and a/b/g, directories a and a/b.        *)
EXTENDS Tree

\* a.1 is a restored copy of a in state 1.
F == <<"a", "f">>
G == <<"a", "b", "g">>
F1 == <<"a", "f.1">>
F2 == <<"a", "f.2">>
G1 == <<"a", "b", "g.1">>
G2 == <<"a", "b", "g.2">>

TwoDirs == {<<"a">>, <<"a", "b">>}
WalkAll == <<G, G1, G2, F, F1, F2>>
CopiesAll == {F1, F2, G1, G2}
CopyOfAll == [x \in {F, G} \X {1, 2} |->
                CASE x = <<F, 1>> -> F1 [] x = <<F, 2>> -> F2
                  [] x = <<G, 1>> -> G1 [] x = <<G, 2>> -> G2]

\* Patterns *.btrestored; g; b/g.
CopyPattern == [slash |-> FALSE, of |-> {"f.1", "f.2", "g.1", "g.2"}]
NameG == [slash |-> FALSE, of |-> {"g"}]
PathBG == [slash |-> TRUE, of |-> {<<"b", "g">>}]
BasePatterns == {CopyPattern}
IgnoreFiles == {{}, {NameG}, {PathBG}}
=============================================================================
