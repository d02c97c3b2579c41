---------------------------- MODULE VersionStore ----------------------------
(***************************************************************************)
(* What bt promises its user: a file handed over for backup becomes the    *)
(* next version in that file's history, once, in the order files were      *)
(* handed over, unless it is the same as the version before; a history     *)
(* only ever grows.                                                        *)
(***************************************************************************)
EXTENDS Naturals, Sequences, SequencesExt

CONSTANTS Paths, Snaps

VARIABLES
    pending,  \* files handed over and not yet in a history
    versions  \* the history of every path

vars == <<pending, versions>>

Init ==
    /\ pending = << >>
    /\ versions = [p \in Paths |-> << >>]

Submit(p, s) ==
    /\ pending' = Append(pending, [path |-> p, snap |-> s])
    /\ UNCHANGED versions

\* The oldest submission becomes a version of its file.
Apply ==
    /\ pending # << >>
    /\ LET h == versions[Head(pending).path]
           s == Head(pending).snap
       IN  versions' = [versions EXCEPT ![Head(pending).path] =
                          IF h # << >> /\ Last(h) = s THEN h ELSE Append(h, s)]
    /\ pending' = Tail(pending)

Next ==
    \/ \E p \in Paths, s \in Snaps : Submit(p, s)
    \/ Apply

Spec == Init /\ [][Next]_vars
=============================================================================
