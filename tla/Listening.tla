----------------------------- MODULE Listening ------------------------------
(***************************************************************************)
(* What the desktop player reports of the tracks it plays: the renderer    *)
(* turns Webamp's changes of track and status into events on the bus       *)
(* (src/src/renderers/webamp/WebampRenderer.ts, src/src/core/GoampCore.ts),*)
(* the scrobbling feature sends a track to the user's services once it has *)
(* been played long enough (ScrobbleFeature.ts), and the history feature   *)
(* records every listen (HistoryFeature.ts).                               *)
(*                                                                         *)
(* A change of track runs the handlers of TRACK_END and TRACK_START one    *)
(* after the other; what they await is answered later, in any order. Plays *)
(* are numbered, so a track played twice is two plays.                     *)
(***************************************************************************)
EXTENDS Integers, FiniteSets

CONSTANTS Service,      \* scrobbling services: Last.fm and ListenBrainz
          Threshold,    \* min(duration / 2, 240 s), the same for every track
          MaxPlays,     \* bound on the number of tracks started
          MaxTime       \* bound on the clock

ASSUME ListeningAssumption ==
  IsFiniteSet(Service) /\ {Threshold, MaxPlays, MaxTime} \subseteq Nat \ {0}

VARIABLES
  clock,
  play,           \* number of the play under way (activeTrack), or of the last one
  active,         \* is activeTrack set?
  status,         \* Webamp's status, which the core's state repeats
  services,       \* services switched on in the settings
  trackStart,     \* ScrobbleFeature.trackStart
  scrobbled, isPlaying,
  asking,         \* calls of onTrackStart that await the services' status
  timers,         \* intervals that run
  timer,          \* the one ScrobbleFeature.timer refers to (0: null)
  sent,           \* scrobbles sent, for each play and service
  trackStartedAt, \* HistoryFeature.trackStartedAt
  resolving,      \* TRACK_END handlers that await resolveTrackId
  rows,           \* rows of listen_history
  began           \* history: when each play began

listeningVars == <<clock, play, active, status, services, trackStart, scrobbled, isPlaying,
                   asking, timers, timer, sent, trackStartedAt, resolving, rows, began>>
scrobbleVars == <<services, trackStart, scrobbled, asking, timers, timer, sent>>
listenVars == <<trackStartedAt, resolving, rows>>

Play == 1..MaxPlays
Call == [of : Play, to : SUBSET Service]

ListeningTypeOK ==
  /\ {clock, trackStart, trackStartedAt} \subseteq 0..MaxTime
  /\ play \in 0..MaxPlays /\ timer \in 0..MaxPlays
  /\ status \in {"PLAYING", "PAUSED", "STOPPED"}
  /\ {active, scrobbled, isPlaying} \subseteq BOOLEAN
  /\ services \subseteq Service
  /\ asking \subseteq Call /\ timers \subseteq Call
  /\ sent \in [Play \X Service -> Nat]
  /\ resolving \subseteq [of : Play, listened : 0..MaxTime]
  /\ rows \subseteq [of : Play, startedAt : 0..MaxTime, listened : 0..MaxTime]
  /\ began \in [Play -> 0..MaxTime]

ListeningInit ==
  /\ clock = 0 /\ play = 0 /\ active = FALSE /\ status = "STOPPED"
  /\ services \in SUBSET Service
  /\ trackStart = 0 /\ scrobbled = FALSE /\ isPlaying = FALSE
  /\ asking = {} /\ timers = {} /\ timer = 0
  /\ sent = [c \in Play \X Service |-> 0]
  /\ trackStartedAt = 0 /\ resolving = {} /\ rows = {}
  /\ began = [p \in Play |-> 0]

\* clearTimer stops the interval that timer refers to.
Running(r) == {c \in r : c.of # timer}

\* onTrackStart up to its await. It asks the services that are switched on.
ScrobbleStarts(p) ==
  /\ timers' = Running(timers) /\ timer' = 0
  /\ scrobbled' = FALSE
  /\ trackStart' = clock
  /\ asking' = IF services = {} THEN asking ELSE asking \cup {[of |-> p, to |-> services]}
  /\ UNCHANGED <<services, sent>>

\* TRACK_END: the listen is recorded after its track has been resolved.
ListenEnds(listened) ==
  resolving' = IF active THEN resolving \cup {[of |-> play, listened |-> listened]} ELSE resolving

\* The renderer's onTrackChange: TRACK_END, with what Webamp says was listened (the
\* time that passed, less the pauses), then TRACK_START if there is a track.
TrackChange(starts) ==
  /\ \E listened \in 0..(IF active THEN clock - began[play] ELSE 0) : ListenEnds(listened)
  /\ active' = starts
  /\ IF starts
     THEN /\ play < MaxPlays   \* bound
          /\ play' = play + 1
          /\ began' = [began EXCEPT ![play + 1] = clock]
          /\ ScrobbleStarts(play + 1)
          /\ trackStartedAt' = clock
     ELSE UNCHANGED <<play, began, trackStartedAt, scrobbleVars>>
  /\ UNCHANGED <<clock, status, isPlaying, rows>>

\* onStatusChange, the core's notify, PLAYBACK_CHANGE.
StatusChange(s) ==
  /\ s # status
  /\ status' = s
  /\ isPlaying' = (s = "PLAYING")
  /\ UNCHANGED <<clock, play, active, began, scrobbleVars, listenVars>>

\* The services' status arrived: onTrackStart goes on, with a new interval if
\* one of them is connected, whatever track plays by now.
StatusAnswered(c) ==
  /\ asking' = asking \ {c}
  /\ \E has \in SUBSET c.to :
       IF has = {} THEN UNCHANGED <<timers, timer>>
       ELSE timers' = timers \cup {[of |-> c.of, to |-> has]} /\ timer' = c.of
  /\ UNCHANGED <<clock, play, active, status, isPlaying, services, trackStart, scrobbled, sent,
                 began, listenVars>>

\* faulty variant: only the interval that was stopped cannot scrobble again.
MayScrobbleAgain == isPlaying /\ clock - trackStart >= Threshold

MayScrobble == ~scrobbled /\ isPlaying /\ clock - trackStart >= Threshold

\* An interval fires: the track that plays is scrobbled when it has been current
\* for long enough, to the services that this interval knows.
TimerFires(c) ==
  /\ MayScrobble
  /\ scrobbled' = TRUE
  /\ timers' = Running(timers) /\ timer' = 0
  /\ sent' = [q \in Play \X Service |->
                IF q[1] = play /\ q[2] \in c.to THEN sent[q] + 1 ELSE sent[q]]
  /\ UNCHANGED <<clock, play, active, status, isPlaying, services, trackStart, asking, began,
                 listenVars>>

\* The settings panel switches a service on or off.
SwitchService(s) ==
  /\ services' = IF s \in services THEN services \ {s} ELSE services \cup {s}
  /\ UNCHANGED <<clock, play, active, status, isPlaying, trackStart, scrobbled, asking, timers,
                 timer, sent, began, listenVars>>

\* resolveTrackId answered: recordListen, with the start that is remembered now.
ListenResolved(e) ==
  /\ resolving' = resolving \ {e}
  /\ \/ rows' = rows \cup {[of |-> e.of, startedAt |-> trackStartedAt, listened |-> e.listened]}
     \/ UNCHANGED rows   \* one of the two calls failed
  /\ UNCHANGED <<clock, play, active, status, isPlaying, began, scrobbleVars, trackStartedAt>>

ListeningTick ==
  /\ clock < MaxTime   \* bound
  /\ clock' = clock + 1
  /\ UNCHANGED <<play, active, status, isPlaying, began, scrobbleVars, listenVars>>

ListeningNext ==
  \/ \E starts \in BOOLEAN : TrackChange(starts)
  \/ \E s \in {"PLAYING", "PAUSED", "STOPPED"} : StatusChange(s)
  \/ \E c \in asking : StatusAnswered(c)
  \/ \E c \in timers : TimerFires(c)
  \/ \E s \in Service : SwitchService(s)
  \/ \E e \in resolving : ListenResolved(e)
  \/ ListeningTick

ListeningSpec == ListeningInit /\ [][ListeningNext]_listeningVars

-----------------------------------------------------------------------------
\* ScrobbleFeature.ts:90: although starts that overlap leave intervals behind
\* that nothing clears, each play is scrobbled at most once to each service.
ScrobbledOnce == \A q \in Play \X Service : sent[q] <= 1

\* sybil.rs:58-73 counts listens that overlap as a sign of a forged profile: one
\* player plays one track at a time, so the rows it recorded must not overlap.
ListensDisjoint ==
  \A a, b \in rows : a.of < b.of => a.startedAt + a.listened <= b.startedAt
=============================================================================
