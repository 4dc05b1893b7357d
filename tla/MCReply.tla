------------------------------ MODULE MCReply ------------------------------
(***************************************************************************)
(* Instances of Reply for TLC: replies that meet the cap, an EOG, the end  *)
(* of a grammar and a stop sequence, with text held back, a call closed,   *)
(* one left open, and some that never became calls: followed by another    *)
(* with their text held back or a stop sequence in it, closed, or left     *)
(* open at the end.                                                        *)
(***************************************************************************)
EXTENDS Reply

MCStreams == {
    <<"word", "word", "word", "word", "word">>,
    <<"word", "part", "word", "eog">>,
    <<"word", "part", "stop", "word", "word">>,
    <<"open", "word", "word", "word", "word">>,
    <<"part", "open", "word", "shut", "eog">>,
    <<"open", "part", "open", "word", "shut">>,
    <<"open", "stop", "open", "word", "word">>,
    <<"open", "part", "shut", "part", "eog">>,
    <<"open", "part", "eog">>,
    <<"open", "stop", "eog">>,
    <<"word", "last">>,
    <<"eog">> }
=============================================================================
