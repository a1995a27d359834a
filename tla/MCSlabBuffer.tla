---------------------------- MODULE MCSlabBuffer ----------------------------
(* Instances of SlabBuffer for TLC.                                        *)
EXTENDS SlabBuffer

NoSize == Unset
NoTags == {}
=============================================================================
