---------------------------- MODULE AudioLibraries ----------------------------
(***************************************************************************)
(* The primary audio HAL's routing and the effect libraries of the device: *)
(* the offload bundle, the offload visualizer, the volume listener and the *)
(* voice processing library.  They share no state and no lock, so their    *)
(* interleaving shows nothing: a behaviour is one library's.               *)
(***************************************************************************)
EXTENDS AudioRouting, OffloadEffects, OffloadVisualizer, VolumeListener, VoiceProcessing

VARIABLE library   \* the library this behaviour is about

vars == <<library, routeVars, fxVars, visVars, volVars, voiceVars>>
Libraries == {"routing", "bundle", "visualizer", "volume_listener", "voice_processing"}

Init ==
  /\ library \in Libraries
  /\ RouteInit /\ FxInit /\ VisInit /\ VolInit /\ VoiceInit
  /\ library # "bundle" => mix = CHOOSE m \in FxMixes : TRUE

Next ==
  /\ UNCHANGED library
  /\ \/ library = "routing" /\ RouteNext
        /\ UNCHANGED <<fxVars, visVars, volVars, voiceVars>>
     \/ library = "bundle" /\ FxNext
        /\ UNCHANGED <<routeVars, visVars, volVars, voiceVars>>
     \/ library = "visualizer" /\ VisNext
        /\ UNCHANGED <<routeVars, fxVars, volVars, voiceVars>>
     \/ library = "volume_listener" /\ VolNext
        /\ UNCHANGED <<routeVars, fxVars, visVars, voiceVars>>
     \/ library = "voice_processing" /\ VoiceNext
        /\ UNCHANGED <<routeVars, fxVars, visVars, volVars>>

Spec == Init /\ [][Next]_vars
===============================================================================
