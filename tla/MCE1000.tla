------------------------------- MODULE MCE1000 --------------------------------
(* Rings of four descriptors go round twice with nine frames each way.      *)
EXTENDS E1000
==============================================================================
