----------------------------- MODULE MCCampaign ------------------------------
(* Campaign for TLC: two genomes, in a family of their own each.            *)
EXTENDS Campaign

CONSTANTS g1, g2

MCDirs == (0..(MaxGenerations - 1)) \X (0..(PerGeneration + Replays - 1))
=============================================================================
