-------------------------- MODULE AutoplayFeedback --------------------------
(***************************************************************************)
(* What the user thinks of autoplay's tracks (src/src/features/autoplay:   *)
(* autoplay-feedback.ts, autoplay-nudge.ts, autoplay-onboarding.ts and the *)
(* handlers of AutoplayFeature.ts that use them): verdicts given with the  *)
(* keys L, D and N or inferred when a track ends, kept in memory and in    *)
(* localStorage; the prompt to rate the track that plays; the card that    *)
(* explains the keys.                                                      *)
(*                                                                         *)
(* The renderer reports a change of track by TRACK_END of the old one and  *)
(* TRACK_START of the new one in the same handler. A write to localStorage *)
(* that adds a track to an entry may fail, which save ignores.             *)
(***************************************************************************)
EXTENDS Integers, FiniteSets

CONSTANTS Song,         \* tracks, named by artist and title
          NudgeEvery    \* NUDGE_EVERY

Verdict == {"liked", "blocked", "normal"}
NoSong == "none"

ASSUME FeedbackAssumption == NoSong \notin Song /\ NudgeEvery \in Nat \ {0}

VARIABLES
  marks,          \* liked, blocked, normalMarked: the sets in memory
  saved,          \* their entries in localStorage
  heard,          \* currentTrack of AutoplayFeature: [song, auto]
  playing,        \* activeTrack of the renderer is set
  nudgeCounter, nudgeShown,
  autoplayOn,     \* the switch, which is persisted
  onboarded,      \* the flag in localStorage
  card,           \* the onboarding card is shown
  verdict         \* history: the verdict each song should have

feedbackVars == <<marks, saved, heard, playing, nudgeCounter, nudgeShown, autoplayOn,
                  onboarded, card, verdict>>

Heard == [song : Song, auto : BOOLEAN]
NoneHeard == [song |-> NoSong, auto |-> FALSE]

FeedbackTypeOK ==
  /\ marks \in [Verdict -> SUBSET Song] /\ saved \in [Verdict -> SUBSET Song]
  /\ heard \in Heard \cup {NoneHeard}
  /\ nudgeCounter \in Nat
  /\ {playing, nudgeShown, autoplayOn, onboarded, card} \subseteq BOOLEAN
  /\ verdict \in [Song -> Verdict \cup {"none", "mixed"}]

FeedbackInit ==
  /\ marks = [v \in Verdict |-> {}] /\ saved = [v \in Verdict |-> {}]
  /\ heard = NoneHeard /\ playing = FALSE
  /\ nudgeCounter = 0 /\ nudgeShown = FALSE
  /\ autoplayOn = FALSE /\ onboarded = FALSE /\ card = FALSE
  /\ verdict = [s \in Song |-> "none"]

VerdictsOn(m, s) == {v \in Verdict : s \in m[v]}
Rated(m, s) == VerdictsOn(m, s) # {}

\* faulty variant: the verdict that was given before stays.
MarkAlso(m, v, s) == [m EXCEPT ![v] = @ \cup {s}]

\* blockTrack, likeTrack and markNormal: the sets after the verdict, in memory.
Mark(m, v, s) ==
  IF s \in m[v] THEN m
  ELSE [w \in Verdict |-> IF w = v THEN m[w] \cup {s} ELSE m[w] \ {s}]

\* save: every set that changed is written; what adds a song may not fit.
Save(m) ==
  \E full \in SUBSET {v \in Verdict : ~(m[v] \subseteq saved[v])} :
    saved' = [v \in Verdict |-> IF m[v] = marks[v] \/ v \in full THEN saved[v] ELSE m[v]]

\* showRateNudge and hideRateNudge.
NudgeShown(show, hide) == IF show THEN TRUE ELSE nudgeShown /\ ~hide

\* onKey: L, D or N; the card and the prompt go.
Key(v) ==
  /\ heard.song # NoSong
  /\ LET m == Mark(marks, v, heard.song) IN marks' = m /\ Save(m)
  /\ onboarded' = TRUE /\ card' = FALSE
  /\ nudgeShown' = NudgeShown(FALSE, TRUE)
  /\ verdict' = IF verdict[heard.song] = "mixed" THEN verdict
                ELSE [verdict EXCEPT ![heard.song] = v]
  /\ UNCHANGED <<heard, playing, nudgeCounter, autoplayOn>>

\* TRACK_END: what the listen tells about an autoplay track nobody has rated.
Inferred(m, listen) ==
  IF ~heard.auto \/ Rated(m, heard.song) THEN m
  ELSE CASE listen = "skipped" -> Mark(m, "blocked", heard.song)
         [] listen = "through" -> Mark(m, "liked", heard.song)
         [] OTHER -> m

\* faulty variant: the prompt stays when the next track has a verdict already.
NudgeStays(m, next) ==
  LET ask == next.auto /\ nudgeCounter + 1 >= NudgeEvery /\ ~Rated(m, next.song)
  IN  /\ nudgeCounter' = IF ask \/ ~next.auto THEN 0
                         ELSE IF nudgeCounter < NudgeEvery THEN nudgeCounter + 1 ELSE NudgeEvery
      /\ nudgeShown' = (nudgeShown \/ ask)

\* TRACK_START: the rating prompt. The count matters up to NUDGE_EVERY, where it
\* stops here.
Nudge(m, next) ==
  IF next.auto
  THEN LET n == nudgeCounter + 1
           ask == n >= NudgeEvery /\ ~Rated(m, next.song)
       IN  /\ nudgeCounter' = IF ask THEN 0 ELSE IF n < NudgeEvery THEN n ELSE NudgeEvery
           /\ nudgeShown' = NudgeShown(ask, Rated(m, next.song))
  ELSE /\ nudgeCounter' = 0
       /\ UNCHANGED nudgeShown

\* The player goes on to another track, or to none.
TrackChanges(listen, next) ==
  LET m == IF playing THEN Inferred(marks, listen) ELSE marks
      auto == IF listen = "skipped" THEN "blocked" ELSE "liked"
  IN  /\ marks' = m /\ Save(m)
      /\ playing' = (next # NoneHeard)
      /\ verdict' = IF /\ playing /\ heard.auto /\ listen # "partly"
                       /\ verdict[heard.song] = "none"
                    THEN [verdict EXCEPT ![heard.song] = auto] ELSE verdict
      /\ IF next = NoneHeard THEN UNCHANGED <<heard, nudgeCounter, nudgeShown>>
                             ELSE heard' = next /\ Nudge(m, next)
      /\ UNCHANGED <<autoplayOn, onboarded, card>>

\* setEnabled: showOnboardingOnce.
SwitchAutoplay ==
  /\ autoplayOn' = ~autoplayOn
  /\ card' = (card \/ (autoplayOn' /\ ~onboarded))
  /\ UNCHANGED <<marks, saved, heard, playing, nudgeCounter, nudgeShown, onboarded, verdict>>

\* dismissOnboarding by its button.
DismissCard ==
  /\ card
  /\ card' = FALSE /\ onboarded' = TRUE
  /\ UNCHANGED <<marks, saved, heard, playing, nudgeCounter, nudgeShown, autoplayOn, verdict>>

\* The program starts again: load, and init's showOnboardingOnce.
RestartFeedback ==
  /\ marks' = saved
  /\ heard' = NoneHeard /\ playing' = FALSE
  /\ nudgeCounter' = 0 /\ nudgeShown' = FALSE
  /\ card' = (autoplayOn /\ ~onboarded)
  /\ verdict' = [s \in Song |-> LET V == VerdictsOn(saved, s)
                                IN  CASE V = {} -> "none"
                                      [] Cardinality(V) = 1 -> CHOOSE v \in V : TRUE
                                      [] OTHER -> "mixed"]
  /\ UNCHANGED <<saved, autoplayOn, onboarded>>

FeedbackNext ==
  \/ \E v \in Verdict : Key(v)
  \/ \E listen \in {"skipped", "through", "partly"}, next \in Heard \cup {NoneHeard} :
       TrackChanges(listen, next)
  \/ SwitchAutoplay \/ DismissCard \/ RestartFeedback

FeedbackSpec == FeedbackInit /\ [][FeedbackNext]_feedbackVars

-----------------------------------------------------------------------------
\* AutoplayFeature.ts:198, "Manual L/D/N always wins": each song carries exactly
\* the verdict given last, by a key or, while it had none, by the way it was
\* listened to - with saves that fail and after restarts, unless what was loaded
\* already contradicts itself.
ManualWins ==
  \A s \in Song : verdict[s] # "mixed" =>
    VerdictsOn(marks, s) = IF verdict[s] = "none" THEN {} ELSE {verdict[s]}

\* autoplay-nudge.ts:1: while an autoplay track plays, the prompt asks about a
\* track that has no verdict yet, whichever of keys, inference and track changes
\* came between.
NudgeAsksUnrated ==
  nudgeShown /\ playing /\ heard.auto => ~Rated(marks, heard.song)
=============================================================================
