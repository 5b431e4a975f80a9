--------------------------- MODULE ScrobbleSettings -------------------------
(***************************************************************************)
(* The connections to the scrobbling services, as the settings panel makes *)
(* and undoes them (src/src/scrobble/ScrobbleSettings.ts). Each service is *)
(* kept twice: its credentials in the backend, and the switch that         *)
(* ScrobbleFeature.ts looks at in localStorage; the panel shows a badge.   *)
(***************************************************************************)
EXTENDS Integers, SequencesExt

CONSTANT MaxRequests   \* bound on the requests under way

ASSUME SettingsAssumption == MaxRequests \in Nat \ {0}

Lastfm == "lastfm"
ListenBrainz == "listenbrainz"
Accounts == {Lastfm, ListenBrainz}

VARIABLES
  settingsVisible,
  keysSaved,     \* the API key and secret of Last.fm are stored
  credentials,   \* the accounts the backend has a session or a token for
  switchedOn,    \* goamp_lastfm_enabled, goamp_lb_enabled
  badges,        \* the accounts shown as connected
  requests,      \* requests under way
  settingsCrossed \* history: requests overlapped, a badge could not be read, or a
                  \* handler stopped between the backend's answer and its switch

settingsVars == <<settingsVisible, keysSaved, credentials, switchedOn, badges, requests,
                  settingsCrossed>>
Steps == {"connect", "connected", "logout", "loggedOut", "flush", "status", "answer"}

SettingsTypeOK ==
  /\ {settingsVisible, keysSaved, settingsCrossed} \subseteq BOOLEAN
  /\ credentials \subseteq Accounts /\ switchedOn \subseteq Accounts /\ badges \subseteq Accounts
  /\ requests \in Seq([step : Steps, of : Accounts, yes : BOOLEAN])

SettingsInit ==
  /\ settingsVisible = FALSE /\ keysSaved \in BOOLEAN
  /\ credentials \in SUBSET (IF keysSaved THEN Accounts ELSE {ListenBrainz})
  /\ switchedOn = credentials /\ badges = {} /\ requests = <<>> /\ settingsCrossed = FALSE

RequestFor(step, s) == [step |-> step, of |-> s, yes |-> FALSE]
NextStep(i, step) == requests' = [requests EXCEPT ![i].step = step]

\* A request begins.
Asks(step, s) ==
  /\ Len(requests) < MaxRequests   \* bound
  /\ requests' = Append(requests, RequestFor(step, s))
  /\ settingsCrossed' = (settingsCrossed \/ requests # <<>>)

\* refreshAllStatus: the accounts one after the other.
ToggleSettings ==
  /\ settingsVisible' = ~settingsVisible
  /\ IF settingsVisible THEN UNCHANGED <<requests, settingsCrossed>> ELSE Asks("status", Lastfm)
  /\ UNCHANGED <<keysSaved, credentials, switchedOn, badges>>

ClickSettings ==
  /\ settingsVisible
  /\ Asks("connect", Lastfm) \/ Asks("connect", ListenBrainz) \/ Asks("logout", ListenBrainz)
     \/ Asks("flush", Lastfm)
  /\ UNCHANGED <<settingsVisible, keysSaved, credentials, switchedOn, badges>>

SaveKeys ==
  /\ settingsVisible /\ keysSaved' = TRUE
  /\ UNCHANGED <<settingsVisible, credentials, switchedOn, badges, requests, settingsCrossed>>

\* The backend connects (Last.fm needs its keys), logs out, or has flushed its queue.
BackendDoes(i) ==
  LET r == requests[i]
  IN  /\ \/ /\ r.step = "connect" /\ (r.of = Lastfm => keysSaved)
            /\ credentials' = credentials \cup {r.of} /\ NextStep(i, "connected")
         \/ /\ r.step = "logout"
            /\ credentials' = credentials \ {r.of} /\ NextStep(i, "loggedOut")
         \/ /\ r.step = "flush" /\ UNCHANGED credentials /\ NextStep(i, "status")
         \/ /\ r.step = "status" /\ UNCHANGED credentials
            /\ requests' = [requests EXCEPT ![i].step = "answer", ![i].yes = r.of \in credentials]
      /\ UNCHANGED <<settingsVisible, keysSaved, switchedOn, badges, settingsCrossed>>

\* faulty variant: logging out leaves the switch on.
StaysOn(r) == IF r.step = "connected" THEN switchedOn \cup {r.of} ELSE switchedOn

SwitchAfter(r) == IF r.step = "connected" THEN switchedOn \cup {r.of} ELSE switchedOn \ {r.of}

\* The handler goes on: the switch follows the account, and the badges are read again.
Connected(i) ==
  LET r == requests[i]
  IN  /\ r.step \in {"connected", "loggedOut"}
      /\ switchedOn' = SwitchAfter(r)
      /\ requests' = [requests EXCEPT ![i] = RequestFor("status", Lastfm)]
      /\ UNCHANGED <<settingsVisible, keysSaved, credentials, badges, settingsCrossed>>

BadgeShown(i) ==
  LET r == requests[i]
  IN  /\ r.step = "answer"
      /\ badges' = IF r.yes THEN badges \cup {r.of} ELSE badges \ {r.of}
      /\ requests' = IF r.of = Lastfm THEN [requests EXCEPT ![i] = RequestFor("status", ListenBrainz)]
                     ELSE RemoveAt(requests, i)
      /\ UNCHANGED <<settingsVisible, keysSaved, credentials, switchedOn, settingsCrossed>>

\* A request fails, or the switch of an account that was connected cannot be
\* stored: what would follow is left out, except that the other account's badge
\* is still asked for.
RequestFails(i) ==
  LET r == requests[i]
  IN  /\ r.step \in {"connect", "connected", "logout", "flush", "status"}
      /\ requests' = IF r.step = "status" /\ r.of = Lastfm
                     THEN [requests EXCEPT ![i] = RequestFor("status", ListenBrainz)]
                     ELSE RemoveAt(requests, i)
      /\ settingsCrossed' = (settingsCrossed \/ r.step \in {"connected", "status"})
      /\ UNCHANGED <<settingsVisible, keysSaved, credentials, switchedOn, badges>>

\* The program starts again: the panel and the handlers under way are gone.
RestartSettings ==
  /\ settingsVisible' = FALSE /\ badges' = {} /\ requests' = <<>>
  /\ settingsCrossed' = \/ settingsCrossed
                        \/ \E i \in DOMAIN requests : requests[i].step \in {"connected", "loggedOut"}
  /\ UNCHANGED <<keysSaved, credentials, switchedOn>>

SettingsNext ==
  \/ ToggleSettings \/ ClickSettings \/ SaveKeys \/ RestartSettings
  \/ \E i \in DOMAIN requests : BackendDoes(i) \/ Connected(i) \/ BadgeShown(i) \/ RequestFails(i)

SettingsSpec == SettingsInit /\ [][SettingsNext]_settingsVars

-----------------------------------------------------------------------------
\* ScrobbleSettings.ts: Last.fm is switched on only with a session stored, whatever
\* overlaps, fails or is cut off by a restart. At rest the switches and the badges
\* say which accounts are connected, unless requests overlapped, a badge could not
\* be read, or a handler ended between the backend's answer and its switch.
SwitchesMatchAccounts ==
  /\ Lastfm \in switchedOn => Lastfm \in credentials
  /\ requests = <<>> /\ ~settingsCrossed =>
       switchedOn = credentials /\ (settingsVisible => badges = credentials)
=============================================================================
