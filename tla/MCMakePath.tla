----------------------------- MODULE MCMakePath -----------------------------
(* Bounds for MakePath: three permission bits, one of them for others. *)
EXTENDS MakePath, TLC

MCBits   == {"uw", "ux", "ow"}
MCUmasks == {{"ow"}, {}}
MCModes  == {{"ux", "ow"}}
MCSymmetry == Permutations(Makers)
=============================================================================
