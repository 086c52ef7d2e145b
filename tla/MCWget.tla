------------------------------- MODULE MCWget ---------------------------------
(* A page whose text has an empty line, a binary with zero bytes, and an    *)
(* answer without a body.                                                   *)
EXTENDS Wget

MCHeader == <<"c", "nl", "c", "nl", "nl">>
MCAnswers == {[header |-> MCHeader, body |-> <<"c", "nl", "nl", "c">>],
              [header |-> MCHeader, body |-> <<"c", "nul", "nl", "nl", "c">>],
              [header |-> MCHeader, body |-> <<>>]}
==============================================================================
