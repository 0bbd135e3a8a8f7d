---------------------------- MODULE MCBuildCache ----------------------------
(***************************************************************************)
(* Two images that differ in every part, each with a tag of its own.       *)
(***************************************************************************)
EXTENDS BuildCache

MCImage(b) == [n \in Parts |-> b]
MCDeployments == {[image |-> MCImage("old"), tag |-> "t1"], [image |-> MCImage("new"), tag |-> "t2"]}
=============================================================================
