---- MODULE MCComposeFile ----
(* ComposeFile on small instances: a content of two blocks, one of one block,
   and one that is not YAML. *)
EXTENDS ComposeFile, TLC

CONSTANTS long, short, bad

MCContents == {long, short, bad}
MCYaml == {long, short}
MCSize == (long :> 2) @@ (short :> 1) @@ (bad :> 1)

(* Inodes are interchangeable, and what a free one held does not matter:
   OpenTmp truncates it. *)
InodeSymmetry == Permutations(Inodes)
LiveData == [i \in Inodes |-> IF i \in Free THEN Empty ELSE data[i]]
LiveState == <<composePath, tmpPath, LiveData, reqVars, readVars, gitVars, solo>>
====
