---------------------------- MODULE MCTagDecode ----------------------------
(* Any of a few octets, or the octets of a unit test.                      *)
EXTENDS TagDecodeTests

MCNext == Next \/ TestNext
MCSpec == Init /\ [][MCNext]_vars
=============================================================================
