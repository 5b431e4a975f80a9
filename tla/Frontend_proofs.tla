--------------------------- MODULE Frontend_proofs --------------------------
(***************************************************************************)
(* The parts of the frontend together: a behaviour of MCFrontend, in which *)
(* one part acts and the others keep their first state, is a behaviour of  *)
(* each part, so that what is proved of the parts holds of it. Each part   *)
(* needs that its initial predicate is among those of FrontendInit, and    *)
(* that a step of a scene is one of its steps or leaves it alone.          *)
(***************************************************************************)
EXTENDS MCFrontend, Features_proofs, Panels_proofs, RadioPanel_proofs

allVars == <<scene, autoplayVars, feedbackVars, listeningVars, searchVars, panelVars,
             radioVars, deviceVars, menuVars, flagVars, settingsVars, queueVars>>

(* Each part begins as it does alone.                                      *)
LEMMA PartsStart ==
  FrontendInit =>
    /\ scene \in Scenes /\ AutoplayInit /\ FeedbackInit /\ ListeningInit /\ SearchInit
    /\ PanelInit /\ RadioInit /\ DeviceInit /\ MenuInit /\ FlagsInit /\ SettingsInit
    /\ ScrobbleQueueInit
BY DEF FrontendInit

(* A step of a scene is a step of its part, or leaves the part as it is.   *)
LEMMA PartsStep ==
  ASSUME [FrontendNext]_allVars
  PROVE  /\ [AutoplayNext]_autoplayVars /\ [FeedbackNext]_feedbackVars
         /\ [ListeningNext]_listeningVars /\ [SearchNext]_searchVars /\ [PanelNext]_panelVars
         /\ [RadioNext]_radioVars /\ [DeviceNext]_deviceVars /\ [MenuNext]_menuVars
         /\ [FlagsNext]_flagVars /\ [SettingsNext]_settingsVars /\ [ScrobbleQueueNext]_queueVars
         /\ scene' = scene
BY DEF FrontendNext, allVars

(* So the whole behaves as each part specifies.                            *)
LEMMA PartsBehave ==
  FrontendSpec =>
    /\ [](scene \in Scenes)
    /\ AutoplaySpec /\ FeedbackSpec /\ ListeningSpec /\ SearchSpec /\ PanelSpec /\ RadioSpec
    /\ DeviceSpec /\ MenuSpec /\ FlagsSpec /\ SettingsSpec /\ ScrobbleQueueSpec
<1>1. scene \in Scenes /\ [FrontendNext]_allVars => (scene \in Scenes)'
  BY PartsStep DEF Scenes
<1> QED
  BY <1>1, PartsStart, PartsStep, PTL
     DEF FrontendSpec, allVars, AutoplaySpec, FeedbackSpec, ListeningSpec, SearchSpec, PanelSpec,
         RadioSpec, DeviceSpec, MenuSpec, FlagsSpec, SettingsSpec, ScrobbleQueueSpec

\* For any number of tracks, songs, services, stations, devices, playlists, flags and
\* requests, every state of the frontend has the types of the part that acts.
THEOREM FrontendTypeCorrect == FrontendSpec => []FrontendTypeOK
<1>1. /\ scene \in Scenes /\ AutoplayTypeOK /\ FeedbackTypeOK /\ ListeningTypeOK /\ SearchTypeOK
      /\ PanelTypeOK /\ RadioTypeOK /\ DeviceTypeOK /\ MenuTypeOK /\ FlagsTypeOK /\ SettingsTypeOK
      /\ ScrobbleQueueTypeOK
      => FrontendTypeOK
  BY DEF FrontendTypeOK
<1>2. /\ AutoplaySpec => []AutoplayTypeOK
      /\ FeedbackSpec => []FeedbackTypeOK
      /\ ListeningSpec => []ListeningTypeOK
  BY AutoplayTypeCorrect, FeedbackTypeCorrect, ListeningTypeCorrect
<1>3. /\ SettingsSpec => []SettingsTypeOK
      /\ ScrobbleQueueSpec => []ScrobbleQueueTypeOK
      /\ SearchSpec => []SearchTypeOK
      /\ RadioSpec => []RadioTypeOK
  BY SettingsTypeCorrect, ScrobbleQueueTypeCorrect, SearchTypeCorrect, RadioTypeCorrect
<1>4. /\ PanelSpec => [](PanelTypeOK /\ PanelShowsBackend)
      /\ DeviceSpec => [](DeviceTypeOK /\ SoundGoesWhereChosen)
      /\ MenuSpec => [](MenuTypeOK /\ ChoicesHold)
      /\ FlagsSpec => [](FlagsTypeOK /\ BoxesShowFlags)
  BY PlaylistsShown, SoundFollowsChoice, MenuChoicesHold, FlagsShown
<1> QED
  BY <1>1, <1>2, <1>3, <1>4, PartsBehave, PTL

\* What the parts promise holds of the frontend as a whole, in every scene: the queue of
\* autoplay, the verdicts, the scrobbles and their queue, the lists of the overlay, the
\* playlists, the radio, the devices, the menu, the flags and the switches.
THEOREM FrontendKeepsPromises ==
  FrontendSpec =>
    [](/\ QueueAccount /\ QueuedOnce /\ OneLateBatch /\ ManualWins /\ NudgeAsksUnrated
       /\ ScrobbledOnce /\ QueueDelivers /\ SwitchesMatchAccounts
       /\ ListAnswersQuery /\ PanelShowsBackend
       /\ OneStation /\ OnAirIsTrue /\ TabShowsItsList /\ OnePoller
       /\ SoundGoesWhereChosen /\ ChoicesHold /\ BoxesShowFlags)
<1>1. /\ AutoplaySpec => []QueueAccount
      /\ AutoplaySpec => []QueuedOnce
      /\ AutoplaySpec => []OneLateBatch
      /\ FeedbackSpec => []ManualWins
      /\ FeedbackSpec => []NudgeAsksUnrated
  BY QueueIsAccountedFor, NoTrackTwice, OnlyOneLateBatch, LastVerdictStands, PromptIsWarranted
<1>2. /\ ListeningSpec => []ScrobbledOnce
      /\ ScrobbleQueueSpec => []QueueDelivers
      /\ SettingsSpec => []SwitchesMatchAccounts
      /\ SearchSpec => []ListAnswersQuery
  BY NeverScrobbledTwice, QueueLosesNothing, SwitchesAreTrue, ListBelongsToQuery
<1>3. /\ RadioSpec => []OneStation
      /\ RadioSpec => []OnAirIsTrue
      /\ RadioSpec => []TabShowsItsList
      /\ RadioSpec => []OnePoller
  BY OneStationIsRead, PanelAndBackendAgree, TabIsTrue, PollsDoNotPileUp
<1>4. /\ PanelSpec => [](PanelTypeOK /\ PanelShowsBackend)
      /\ DeviceSpec => [](DeviceTypeOK /\ SoundGoesWhereChosen)
      /\ MenuSpec => [](MenuTypeOK /\ ChoicesHold)
      /\ FlagsSpec => [](FlagsTypeOK /\ BoxesShowFlags)
  BY PlaylistsShown, SoundFollowsChoice, MenuChoicesHold, FlagsShown
<1> QED
  BY <1>1, <1>2, <1>3, <1>4, PartsBehave, PTL
=============================================================================
