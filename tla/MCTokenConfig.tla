---------------------------- MODULE MCTokenConfig ----------------------------
(* TokenConfig with two tokens of each kind and overlapping runs of the CLI. *)
EXTENDS TokenConfig, TLC

TokenSymmetry == Permutations(NodeTokens) \union Permutations(CmdTokens)
                     \union Permutations(Cli)
===============================================================================
