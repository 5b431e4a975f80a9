----------------------------- MODULE RadioPanel -----------------------------
(***************************************************************************)
(* Internet radio: the panel (src/src/radio/RadioPanel.ts), and the part   *)
(* of the backend it talks to (src/src-tauri/src/radio.rs): one flag that  *)
(* every stream's reader looks at, one station, one cache of the audio.    *)
(*                                                                         *)
(* A task is an asynchronous call under way, with what it is about (`of`,  *)
(* a set of stations) - a render that waits for its list, a click on play  *)
(* or stop, a poll of what plays, an event from the backend. Tasks answer  *)
(* in any order. A station stands for its title as well.                   *)
(***************************************************************************)
EXTENDS Integers, SequencesExt

CONSTANTS Station,
          MaxCalls,  \* bound on the tasks under way
          MaxStored  \* bound on the stations stored as favourites or custom ones

ASSUME RadioAssumption == MaxCalls \in Nat \ {0} /\ MaxStored \in Nat

VARIABLES
  visible, currentView,
  content,      \* #radio-content: which view's, listing which stations
  radioPlaying, nowPlaying, \* isPlaying; the station of nowPlaying, as a set of at most one
  nowPlayingInterval,    \* the stored handle; 0 is null
  intervals,    \* the intervals that run
  onAir, station, streams, cached, \* RadioStreamState: its flag `active`, the station, the
                \* readers (`looked`: since a play that still waits lowered it), the stations in the cache
  favorites, custom, \* backend: the two lists it stores
  calls,        \* the tasks under way
  crossed       \* history: "air": calls about what plays overlapped or failed;
                \* "view": renders did; "play": two plays ran in the
                \* backend, or a reader slept while one lowered the flag

radioVars == <<visible, currentView, content, radioPlaying, nowPlaying, nowPlayingInterval,
               intervals, onAir, station, streams, cached, favorites, custom, calls, crossed>>
viewVars == <<visible, currentView, content>>
airVars == <<radioPlaying, nowPlaying, nowPlayingInterval, intervals>>
backendVars == <<onAir, station, streams, cached>>

Views == {"browse", "search", "favorites", "custom", "playing"}
AirCalls == {"play", "starting", "playing?", "stopping", "stop", "poll", "event"}
ViewCalls == {"tags", "byTag", "search", "favorites", "custom", "segments"}
Empty == [view |-> "empty", list |-> {}]   \* being loaded, or an error
Handles == 1..3
AtMostOne == {S \in SUBSET Station : Cardinality(S) <= 1}

RadioTypeOK ==
  /\ {visible, radioPlaying, onAir} \subseteq BOOLEAN /\ currentView \in Views
  /\ content \in [view : Views \cup {"empty", "byTag"}, list : SUBSET Station]
  /\ nowPlaying \in AtMostOne /\ station \in AtMostOne
  /\ nowPlayingInterval \in Handles \cup {0} /\ intervals \subseteq Handles
  /\ streams \subseteq [of : Station, looked : BOOLEAN] /\ cached \subseteq Station
  /\ favorites \subseteq Station /\ custom \subseteq Station
  /\ calls \in Seq([kind : AirCalls \cup ViewCalls, of : SUBSET Station])
  /\ crossed \in [{"air", "view", "play"} -> BOOLEAN]

RadioInit ==
  /\ visible = FALSE /\ currentView = "browse" /\ content = Empty
  /\ radioPlaying = FALSE /\ nowPlaying = {} /\ nowPlayingInterval = 0 /\ intervals = {}
  /\ onAir = FALSE /\ station = {} /\ streams = {} /\ cached = {}
  /\ favorites = {} /\ custom = {} /\ calls = <<>>
  /\ crossed = [w \in {"air", "view", "play"} |-> FALSE]

Pending(kinds) == \E i \in DOMAIN calls : calls[i].kind \in kinds
RadioCall(kind, S) == [kind |-> kind, of |-> S]

\* What a new render, or a new call about what plays, makes of the histories.
RenderCrosses(others, fresh) ==
  [crossed EXCEPT !["view"] = \/ @ /\ ~fresh
                              \/ \E i \in DOMAIN others : others[i].kind \in ViewCalls]
AirCrosses(fresh) ==
  [crossed EXCEPT !["air"] = Pending(AirCalls) \/ (@ /\ ~fresh)]

\* Results of a search are written into an element of the content: they are seen
\* no more once the content is replaced.
StillSeen(others) ==
  LET left == SetToSeq({j \in DOMAIN others : others[j].kind # "search"})
  IN  [n \in DOMAIN left |-> others[left[n]]]

\* The view asked for replaces the content: at once, or by a notice until the list
\* is there; what plays replaces it only when its segments are there.
Render(view, kind, of, others) ==
  LET kept == IF kind = "segments" THEN others ELSE StillSeen(others)
  IN  /\ currentView' = view
      /\ content' = CASE kind = "" -> [view |-> view, list |-> {}]
                      [] kind = "segments" -> content
                      [] OTHER -> Empty
      /\ calls' = IF kind = "" THEN kept ELSE Append(kept, RadioCall(kind, of))
      /\ crossed' = RenderCrosses(kept, TRUE)

\* renderPlaying: at once if nothing plays, otherwise when the segments are there,
\* with the station that plays now.
RenderPlaying(plays, playing, others) ==
  IF plays THEN Render("playing", "segments", playing, others)
           ELSE Render("playing", "", {}, others)

RenderOf(view) ==
  CASE view = "browse" -> Render(view, "tags", {}, calls)
    [] view = "search" -> Render(view, "", {}, calls)
    [] view = "playing" -> RenderPlaying(radioPlaying, nowPlaying, calls)
    [] OTHER -> Render(view, view, {}, calls)

\* A closed panel keeps its content, and is still given what it asked for.
ToggleRadioPanel ==
  /\ Len(calls) < MaxCalls /\ visible' = ~visible
  /\ IF visible THEN UNCHANGED <<currentView, content, calls, crossed>>
     ELSE RenderOf(IF radioPlaying THEN "playing" ELSE "browse")
  /\ UNCHANGED <<airVars, backendVars, favorites, custom>>

ClickTab(view) ==
  /\ visible /\ Len(calls) < MaxCalls
  /\ RenderOf(view)
  /\ UNCHANGED <<visible, airVars, backendVars, favorites, custom>>

\* A genre of the browse view is clicked; or the search button.
ClickTag ==
  /\ visible /\ content.view = "browse" /\ Len(calls) < MaxCalls
  /\ content' = Empty
  /\ calls' = Append(calls, RadioCall("byTag", {})) /\ crossed' = RenderCrosses(calls, FALSE)
  /\ UNCHANGED <<visible, currentView, airVars, backendVars, favorites, custom>>

SearchStations ==
  /\ visible /\ content.view = "search" /\ Len(calls) < MaxCalls
  /\ content' = [content EXCEPT !.list = {}]
  /\ calls' = Append(calls, RadioCall("search", {})) /\ crossed' = RenderCrosses(calls, FALSE)
  /\ UNCHANGED <<visible, currentView, airVars, backendVars, favorites, custom>>

\* A render's answer arrives, or its error: whatever view is open by now.
RenderAnswered(i) ==
  LET list == CASE calls[i].kind = "favorites" -> favorites
                [] calls[i].kind = "custom" -> custom
                [] calls[i].kind = "tags" -> {}
                [] calls[i].kind = "segments" -> calls[i].of
                [] OTHER -> Station
      view == CASE calls[i].kind = "tags" -> "browse"
                [] calls[i].kind = "segments" -> "playing"
                [] OTHER -> calls[i].kind
  IN  /\ calls[i].kind \in ViewCalls
      /\ \/ content' = [view |-> view, list |-> list] /\ UNCHANGED crossed
         \/ /\ calls[i].kind # "segments"
            /\ content' = Empty
            /\ crossed' = [crossed EXCEPT !["view"] = TRUE]
      /\ calls' = IF calls[i].kind = "search" THEN RemoveAt(calls, i)
                  ELSE StillSeen(RemoveAt(calls, i))
      /\ UNCHANGED <<visible, currentView, airVars, backendVars, favorites, custom>>

\* The buttons of a row: a star stores the station; the cross of a favourite or
\* of a custom station removes it and renders its view again. The backend's part
\* and the handler's are one step: the list is read by the render's own call.
HasRoom == Cardinality(favorites) + Cardinality(custom) < MaxStored

AddFavorite(s) ==
  /\ visible /\ HasRoom   \* bound
  /\ s \in content.list /\ content.view \notin {"favorites", "playing"}
  /\ favorites' = favorites \cup {s}
  /\ crossed' = [crossed EXCEPT !["view"] = @ \/ Pending({"favorites"})]
  /\ UNCHANGED <<viewVars, airVars, backendVars, custom, calls>>

\* faulty variant: the view is not rendered again.
RemoveUnseen(s) ==
  /\ visible /\ s \in content.list /\ content.view = "favorites"
  /\ favorites' = favorites \ {s}
  /\ UNCHANGED <<viewVars, airVars, backendVars, custom, calls, crossed>>

RemoveFavorite(s) ==
  /\ visible /\ s \in content.list /\ content.view = "favorites" /\ Len(calls) < MaxCalls
  /\ favorites' = favorites \ {s}
  /\ Render("favorites", "favorites", {}, calls)
  /\ UNCHANGED <<visible, airVars, backendVars, custom>>

EditCustom(s) ==
  /\ visible /\ (s \in custom \/ HasRoom) /\ content.view = "custom" /\ Len(calls) < MaxCalls
  /\ custom' = IF s \in custom THEN custom \ {s} ELSE custom \cup {s}
  /\ Render("custom", "custom", {}, calls)
  /\ UNCHANGED <<visible, airVars, backendVars, favorites>>

-----------------------------------------------------------------------------
\* faulty variant: the old readers are not told to end.
ReadersGoOn == UNCHANGED <<onAir, streams>>

StopReaders ==
  /\ onAir' = FALSE
  /\ streams' = {[r EXCEPT !.looked = FALSE] : r \in streams}

\* radio_play lowers the flag at once ...
ClickPlay(s) ==
  /\ visible /\ s \in content.list /\ content.view # "playing" /\ Len(calls) < MaxCalls
  /\ StopReaders
  /\ calls' = Append(calls, RadioCall("play", {s}))
  /\ crossed' = [AirCrosses(TRUE) EXCEPT !["play"] = @ \/ Pending({"play", "starting"})]
  /\ UNCHANGED <<viewVars, airVars, station, cached, favorites, custom>>

\* ... 200 ms later it clears the cache and names the station. An old reader whose
\* stream delivered nothing meanwhile has not looked at the flag and may go on ...
StationNamed(i) ==
  /\ calls[i].kind = "play"
  /\ station' = calls[i].of /\ cached' = {}
  /\ calls' = [calls EXCEPT ![i].kind = "starting"]
  /\ crossed' = [crossed EXCEPT !["play"] = @ \/ \E r \in streams : ~r.looked]
  /\ UNCHANGED <<viewVars, airVars, onAir, streams, favorites, custom>>

\* ... and when its proxy runs it raises the flag again and starts the new reader;
\* a stop that came meanwhile has taken back the name of the station alone.
StreamStarts(i) ==
  /\ calls[i].kind = "starting"
  /\ onAir' = TRUE
  /\ streams' = {[r EXCEPT !.looked = FALSE] : r \in streams}
                  \cup {[of |-> s, looked |-> FALSE] : s \in calls[i].of}
  /\ calls' = [calls EXCEPT ![i].kind = "playing?"]
  /\ UNCHANGED <<viewVars, airVars, station, cached, favorites, custom, crossed>>

PlayFails(i) ==
  /\ calls[i].kind = "starting"
  /\ calls' = RemoveAt(calls, i)
  /\ crossed' = [crossed EXCEPT !["air"] = TRUE]
  /\ UNCHANGED <<viewVars, airVars, backendVars, favorites, custom>>

\* faulty variant: the old interval goes on.
Uncleared == intervals

\* clearInterval.
Cleared == intervals \ {nowPlayingInterval}

\* doPlay after its await: the player takes the stream, a new interval polls. Its
\* handle is none that runs; the one just cleared may be used again.
PlayingNow(i) ==
  LET h == CHOOSE x \in Handles : x \notin Cleared
  IN  /\ calls[i].kind = "playing?"
      /\ radioPlaying' = TRUE /\ nowPlaying' = calls[i].of
      /\ nowPlayingInterval' = h
      /\ intervals' = Cleared \cup {h}
      /\ RenderPlaying(TRUE, calls[i].of, RemoveAt(calls, i))
      /\ UNCHANGED <<visible, backendVars, favorites, custom>>

\* faulty variant: the station is forgotten but the flag stays up.
ForgetStation == station' = {} /\ UNCHANGED onAir

StopRadio == onAir' = FALSE /\ station' = {}

\* The stop button, up to the call of the backend; the backend; the rest of it.
ClickStop ==
  /\ visible /\ content.view = "playing" /\ content.list # {} /\ Len(calls) < MaxCalls
  /\ radioPlaying' = FALSE /\ nowPlaying' = {}
  /\ nowPlayingInterval' = 0 /\ intervals' = Cleared
  /\ calls' = Append(calls, RadioCall("stopping", {}))
  /\ crossed' = AirCrosses(FALSE)
  /\ UNCHANGED <<viewVars, backendVars, favorites, custom>>

RadioStops(i) ==
  /\ calls[i].kind = "stopping"
  /\ StopRadio
  /\ calls' = [calls EXCEPT ![i].kind = "stop"]
  /\ UNCHANGED <<viewVars, airVars, streams, cached, favorites, custom, crossed>>

Stopped(i) ==
  /\ calls[i].kind = "stop"
  /\ RenderPlaying(radioPlaying, nowPlaying, RemoveAt(calls, i))
  /\ UNCHANGED <<visible, airVars, backendVars, favorites, custom>>

\* updateNowPlaying: the station named in the content, if it is that view.
Retitled(S) == IF content.view = "playing" /\ content.list # {} /\ S # {}
               THEN [content EXCEPT !.list = S] ELSE content

\* The interval fires: nothing plays and it stops itself, or it asks the backend.
Poll(h) ==
  /\ h \in intervals
  /\ IF radioPlaying
     THEN /\ Len(calls) < MaxCalls
          /\ calls' = Append(calls, RadioCall("poll", IF onAir THEN station ELSE {}))
          /\ crossed' = AirCrosses(FALSE) /\ UNCHANGED intervals
     ELSE intervals' = Cleared /\ UNCHANGED <<calls, crossed>>
  /\ UNCHANGED <<viewVars, radioPlaying, nowPlaying, nowPlayingInterval, backendVars, favorites,
                 custom>>

\* The answer of a poll, or the event the backend sent for a new title.
NowPlayingArrives(i) ==
  /\ calls[i].kind \in {"poll", "event"}
  /\ nowPlaying' = IF calls[i].of = {} THEN nowPlaying ELSE calls[i].of
  /\ content' = Retitled(calls[i].of)
  /\ calls' = RemoveAt(calls, i)
  /\ UNCHANGED <<visible, currentView, radioPlaying, nowPlayingInterval, intervals, backendVars,
                 favorites, custom, crossed>>

-----------------------------------------------------------------------------
\* A reader takes what its stream delivers into the cache, perhaps announces a
\* title, and ends when it then sees the flag lowered; or the stream breaks off.
StreamReads(r, titled) ==
  /\ titled => Len(calls) < MaxCalls
  /\ cached' = cached \cup {r.of}
  /\ streams' = (streams \ {r}) \cup (IF onAir THEN {[r EXCEPT !.looked = Pending({"play"})]} ELSE {})
  /\ calls' = IF titled THEN Append(calls, RadioCall("event", {r.of})) ELSE calls
  /\ crossed' = IF titled THEN AirCrosses(FALSE) ELSE crossed
  /\ UNCHANGED <<viewVars, airVars, onAir, station, favorites, custom>>

StreamBreaks(r) ==
  /\ streams' = streams \ {r}
  /\ UNCHANGED <<viewVars, airVars, onAir, station, cached, favorites, custom, calls, crossed>>

RadioNext ==
  \/ ToggleRadioPanel \/ ClickTag \/ SearchStations \/ ClickStop
  \/ \E view \in Views : ClickTab(view)
  \/ \E s \in Station : AddFavorite(s) \/ RemoveFavorite(s) \/ EditCustom(s) \/ ClickPlay(s)
  \/ \E i \in DOMAIN calls : \/ RenderAnswered(i) \/ StationNamed(i) \/ StreamStarts(i)
                             \/ PlayFails(i) \/ PlayingNow(i) \/ RadioStops(i) \/ Stopped(i)
                             \/ NowPlayingArrives(i)
  \/ \E h \in intervals : Poll(h)
  \/ \E r \in streams : StreamBreaks(r) \/ \E titled \in BOOLEAN : StreamReads(r, titled)

RadioSpec == RadioInit /\ [][RadioNext]_radioVars

-----------------------------------------------------------------------------
\* radio.rs stops the old reader with a flag that radio_play raises again 200 ms or
\* more later. Unless two plays ran at once or the old stream delivered nothing in
\* those 200 ms, only one station's stream is read into the cache while the flag is
\* up - the cache that "save last 30 s" cuts from - and it is the station named, if
\* one is: whatever stops, polls and titles come in between.
OneStation ==
  onAir /\ ~crossed["play"] =>
    \E s \in Station : /\ \A r \in streams : r.of = s
                       /\ cached \subseteq {s} /\ station \subseteq {s}

\* RadioPanel.ts: unless calls about it overlapped or failed, the panel and the
\* backend agree at rest on whether a station plays and, unless an old reader may
\* still announce its titles, on which.
OnAirIsTrue ==
  ~crossed["air"] /\ ~Pending(AirCalls) =>
    /\ radioPlaying = onAir
    /\ radioPlaying /\ ~crossed["play"] => nowPlaying = station

\* RadioPanel.ts: unless renders overlapped or failed, what is in the panel at
\* rest belongs to the tab that is lit and lists what the backend stores.
TabShowsItsList ==
  visible /\ ~crossed["view"] /\ ~Pending(ViewCalls) =>
    /\ content.view = IF content.view = "byTag" THEN "byTag" ELSE currentView
    /\ content.view = "byTag" => currentView = "browse"
    /\ content.view = "favorites" => content.list = favorites
    /\ content.view = "custom" => content.list = custom

\* RadioPanel.ts: whatever play and stop overlap with, every interval that polls
\* is the one the panel can still clear, so polls do not pile up.
OnePoller == intervals \subseteq {nowPlayingInterval}
=============================================================================
