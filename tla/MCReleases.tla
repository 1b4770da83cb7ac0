----------------------------- MODULE MCReleases -----------------------------
(* Two releases on the forge, one row more than the tags and the bin need.   *)
EXTENDS Releases, TLC

ReleasesSymmetry == Permutations(Tag) \union Permutations(Words) \union Permutations(Release)
=============================================================================
