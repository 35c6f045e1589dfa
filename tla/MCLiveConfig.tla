---------------------------- MODULE MCLiveConfig ---------------------------
(* Values of the constants of LiveConfig for TLC.                          *)
EXTENDS LiveConfig

CONSTANTS noise, offset, doppler, other, v1, v2

MCParam == {noise, offset, doppler, other}
MCSettable == {noise, offset, doppler}
MCChecked == {noise}
MCValue == {Zero, v1, v2, Bad}
MCAtFirst == [k \in MCSettable |-> IF k = doppler THEN Zero ELSE v1]

(* Values that change, one that is false, ones that raise before and after *)
(* others, and names without a setter.                                     *)
MCContents ==
  { <<>>,
    << <<noise, v2>>, <<offset, v1>> >>,
    << <<offset, v2>>, <<other, v1>>, <<noise, Zero>> >>,
    << <<doppler, v1>>, <<offset, Bad>>, <<noise, v2>> >>,
    << <<noise, Bad>>, <<offset, v2>> >> }

=============================================================================
