---------------------------- MODULE MCStreamPlayer ----------------------------
EXTENDS StreamPlayer

(* No filter, each filter alone, a delay before and behind another, and a  *)
(* filter that changes nothing behind an encoder.                          *)
TestChains == {<<>>, <<"null">>, <<"bsf">>, <<"split">>, <<"enc">>,
               <<"bsf", "enc">>, <<"enc", "bsf">>, <<"enc", "null">>}
=============================================================================
