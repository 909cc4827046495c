--------------------------- MODULE MCAudioLibraries ---------------------------
(* A small instance of AudioLibraries.  The streams can be routed as the   *)
(* profiles of src/config/audio_policy.conf say, by one device of a kind.  *)
EXTENDS AudioLibraries, TLC

Profiles == [s \in Outs |-> IF s = MULTI_CH THEN {{"AUX_DIGITAL"}}
                            ELSE {{"SPEAKER"}, {"WIRED_HEADSET"}, {"AUX_DIGITAL"}}]

MCEqPresets == (0 :> <<3, 0>>) @@ (1 :> <<5, -2>>)
MCBandLevels == {-149, 50}
MCAmpTable == <<2, 4, 5, 6, 8>>
===============================================================================
