-------------------------- MODULE MCStatusMessages --------------------------
(* More messages than the strip has room for, and two texts, so that two   *)
(* notices can say the same and two can differ: an instance can be created *)
(* again after it has been deleted.                                        *)
EXTENDS StatusMessages

=============================================================================
