----------------------------- MODULE MCFrontend -----------------------------
(***************************************************************************)
(* Parameters, scenes and the type invariant for checking the parts of the *)
(* desktop frontend. These parts share no variable, so every behaviour of  *)
(* one is seen without the others moving: a behaviour here plays one scene,*)
(* in which one part acts and the others keep their first state. The radio *)
(* has two: stations of a genre are played while the other tabs stay shut, *)
(* or every tab is used and stations are stored while nothing plays.       *)
(* So has the search: requests overlap and fail, or results are played and *)
(* queued while the requests come one after another and none fails.        *)
(***************************************************************************)
EXTENDS Autoplay, AutoplayFeedback, Listening, SearchOverlay, PlaylistPanel, RadioPanel,
        AudioDevice, GoampMenu, FeatureFlags, ScrobbleSettings, ScrobbleQueue, TLC

MCArtistOf == [x \in Track |-> IF x = CHOOSE y \in Track : TRUE THEN "b" ELSE "a"]
MCSymmetry == Permutations(Station)

VARIABLE scene   \* the part that acts

Scenes == {"autoplay", "feedback", "listening", "search", "results", "playlists", "radio",
           "stations", "device", "menu", "flags", "settings", "queue"}

FrontendTypeOK ==
  /\ scene \in Scenes
  /\ scene = "autoplay" => AutoplayTypeOK
  /\ scene = "feedback" => FeedbackTypeOK
  /\ scene = "listening" => ListeningTypeOK
  /\ scene \in {"search", "results"} => SearchTypeOK
  /\ scene = "playlists" => PanelTypeOK
  /\ scene \in {"radio", "stations"} => RadioTypeOK
  /\ scene = "device" => DeviceTypeOK
  /\ scene = "menu" => MenuTypeOK
  /\ scene = "flags" => FlagsTypeOK
  /\ scene = "settings" => SettingsTypeOK
  /\ scene = "queue" => ScrobbleQueueTypeOK

\* The choices of the parts that do not act are made once.
FrontendInit ==
  /\ scene \in Scenes
  /\ AutoplayInit /\ FeedbackInit /\ SearchInit /\ RadioInit /\ ScrobbleQueueInit
  /\ ListeningInit /\ (scene # "listening" => services = {})
  /\ PanelInit /\ (scene # "playlists" => exists = {})
  /\ DeviceInit /\ (scene # "device" => deviceId = DefaultDevice /\ present = {DefaultDevice})
  /\ MenuInit /\ (scene # "menu" => ~seedStored /\ onTop = "" /\ ~onTopMigrated)
  /\ FlagsInit /\ (scene # "flags" => flagStored = [f \in Flag |-> TRUE])
  /\ SettingsInit /\ (scene # "settings" => ~keysSaved /\ credentials = {})

FrontendNext ==
  \/ /\ scene = "autoplay" /\ AutoplayNext
     /\ UNCHANGED <<scene, feedbackVars, listeningVars, searchVars, panelVars, radioVars,
                    deviceVars, menuVars, flagVars, settingsVars, queueVars>>
  \/ /\ scene = "feedback" /\ FeedbackNext
     /\ UNCHANGED <<scene, autoplayVars, listeningVars, searchVars, panelVars, radioVars,
                    deviceVars, menuVars, flagVars, settingsVars, queueVars>>
  \/ /\ scene = "listening" /\ ListeningNext
     /\ UNCHANGED <<scene, autoplayVars, feedbackVars, searchVars, panelVars, radioVars,
                    deviceVars, menuVars, flagVars, settingsVars, queueVars>>
  \/ /\ \/ scene = "search" /\ SearchNext /\ UNCHANGED playVars
        \/ scene = "results" /\ SearchNext /\ Len(asked') <= 1 /\ ~disturbed'
     /\ UNCHANGED <<scene, autoplayVars, feedbackVars, listeningVars, panelVars,
                    radioVars, deviceVars, menuVars, flagVars, settingsVars, queueVars>>
  \/ /\ scene = "playlists" /\ PanelNext
     /\ UNCHANGED <<scene, autoplayVars, feedbackVars, listeningVars, searchVars,
                    radioVars, deviceVars, menuVars, flagVars, settingsVars, queueVars>>
  \/ /\ \/ /\ scene = "radio" /\ RadioNext
           /\ UNCHANGED <<favorites, custom>> /\ currentView' \in {"browse", "playing"}
        \/ /\ scene = "stations" /\ RadioNext
           /\ UNCHANGED <<airVars, backendVars>> /\ ~Pending(AirCalls)'
     /\ UNCHANGED <<scene, autoplayVars, feedbackVars, listeningVars, searchVars,
                    panelVars, deviceVars, menuVars, flagVars, settingsVars, queueVars>>
  \/ /\ scene = "device" /\ DeviceNext
     /\ UNCHANGED <<scene, autoplayVars, feedbackVars, listeningVars, searchVars,
                    panelVars, radioVars, menuVars, flagVars, settingsVars, queueVars>>
  \/ /\ scene = "menu" /\ MenuNext
     /\ UNCHANGED <<scene, autoplayVars, feedbackVars, listeningVars, searchVars,
                    panelVars, radioVars, deviceVars, flagVars, settingsVars, queueVars>>
  \/ /\ scene = "flags" /\ FlagsNext
     /\ UNCHANGED <<scene, autoplayVars, feedbackVars, listeningVars, searchVars,
                    panelVars, radioVars, deviceVars, menuVars, settingsVars, queueVars>>
  \/ /\ scene = "settings" /\ SettingsNext
     /\ UNCHANGED <<scene, autoplayVars, feedbackVars, listeningVars, searchVars,
                    panelVars, radioVars, deviceVars, menuVars, flagVars, queueVars>>
  \/ /\ scene = "queue" /\ ScrobbleQueueNext
     /\ UNCHANGED <<scene, autoplayVars, feedbackVars, listeningVars, searchVars,
                    panelVars, radioVars, deviceVars, menuVars, flagVars, settingsVars>>

FrontendSpec == FrontendInit /\ [][FrontendNext]_<<scene, autoplayVars, feedbackVars, listeningVars, searchVars, panelVars,
                                              radioVars, deviceVars, menuVars, flagVars, settingsVars,
                                              queueVars>>
=============================================================================
