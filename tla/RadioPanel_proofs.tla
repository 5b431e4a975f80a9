------------------------- MODULE RadioPanel_proofs --------------------------
(***************************************************************************)
(* Proofs about the radio, for any stations and any number of calls: polls *)
(* do not pile up; and, as long as calls of a kind do not overlap or fail, *)
(* one station is read, panel and backend agree on what plays, and the     *)
(* panel shows the tab that is lit.                                        *)
(***************************************************************************)
EXTENDS RadioPanel, TaskLists

\* Every step clears the interval it forgets: what runs is the stored one.
LEMMA PollerStays ==
  ASSUME OnePoller, UNCHANGED airVars \/ UNCHANGED <<intervals, nowPlayingInterval>>
  PROVE  OnePoller'
BY DEF OnePoller, airVars

\* No interval runs at the start.
LEMMA PollerInit == RadioInit => OnePoller
BY DEF RadioInit, OnePoller

\* Every handler keeps it.
LEMMA PollerStep == OnePoller /\ [RadioNext]_radioVars => OnePoller'
<1> SUFFICES ASSUME OnePoller, [RadioNext]_radioVars
             PROVE  OnePoller'
  OBVIOUS
<1>1. Cleared = {}
  BY DEF OnePoller, Cleared
<1>2. CASE UNCHANGED airVars \/ UNCHANGED <<intervals, nowPlayingInterval>>
  BY <1>2, PollerStays
<1>3. CASE ToggleRadioPanel \/ ClickTag \/ SearchStations
  BY <1>2, <1>3 DEF ToggleRadioPanel, ClickTag, SearchStations
<1>4. CASE ClickStop
  BY <1>1, <1>4 DEF ClickStop, OnePoller
<1>5. ASSUME NEW view \in Views, ClickTab(view)
      PROVE  OnePoller'
  BY <1>2, <1>5 DEF ClickTab
<1>6. ASSUME NEW s \in Station, AddFavorite(s) \/ RemoveFavorite(s) \/ EditCustom(s) \/ ClickPlay(s)
      PROVE  OnePoller'
  BY <1>2, <1>6 DEF AddFavorite, RemoveFavorite, EditCustom, ClickPlay
<1>7. ASSUME NEW i \in DOMAIN calls,
             \/ RenderAnswered(i) \/ StationNamed(i) \/ StreamStarts(i) \/ PlayFails(i)
             \/ RadioStops(i) \/ Stopped(i)
      PROVE  OnePoller'
  BY <1>2, <1>7 DEF RenderAnswered, StationNamed, StreamStarts, PlayFails, RadioStops, Stopped
<1>8. ASSUME NEW i \in DOMAIN calls, PlayingNow(i)
      PROVE  OnePoller'
  BY <1>1, <1>8 DEF PlayingNow, OnePoller
<1>9. ASSUME NEW i \in DOMAIN calls, NowPlayingArrives(i)
      PROVE  OnePoller'
  BY <1>2, <1>9 DEF NowPlayingArrives
<1>10. ASSUME NEW h \in intervals, Poll(h)
       PROVE  OnePoller'
  BY <1>1, <1>10 DEF Poll, OnePoller
<1>11. ASSUME NEW r \in streams, NEW titled \in BOOLEAN, StreamBreaks(r) \/ StreamReads(r, titled)
       PROVE  OnePoller'
  BY <1>2, <1>11 DEF StreamBreaks, StreamReads
<1>12. CASE UNCHANGED radioVars
  BY <1>2, <1>12 DEF radioVars
<1> QED
  BY <1>3, <1>4, <1>5, <1>6, <1>7, <1>8, <1>9, <1>10, <1>11, <1>12 DEF RadioNext

\* RadioPanel.ts: whatever play, stop and polls overlap with, the only interval
\* that can run is the one the panel can still clear.
THEOREM PollsDoNotPileUp == RadioSpec => []OnePoller
BY PollerInit, PollerStep, PTL DEF RadioSpec
-----------------------------------------------------------------------------
\* What the calls are about: a play, its answer and a title about one station.
Singles == {{s} : s \in Station}
RadioCalls == [kind : {"play", "starting", "playing?", "event"}, of : Singles]
              \cup [kind : {"stopping", "stop", "poll"} \cup ViewCalls, of : AtMostOne]

PlayOnes == {c \in RadioCalls : c.kind \in {"play", "starting"}}
AirOnes == {c \in RadioCalls : c.kind \in AirCalls}
ViewOnes == {c \in RadioCalls : c.kind \in ViewCalls}

Contents == [view : Views \cup {"empty", "byTag"}, list : SUBSET Station]
Crossings == [{"air", "view", "play"} -> BOOLEAN]

ViewTyped == visible \in BOOLEAN /\ currentView \in Views /\ content \in Contents
             /\ favorites \subseteq Station /\ custom \subseteq Station
AirTyped == radioPlaying \in BOOLEAN /\ nowPlaying \in AtMostOne
            /\ nowPlayingInterval \in Handles \cup {0} /\ intervals \subseteq Handles
BackendTyped == onAir \in BOOLEAN /\ station \in AtMostOne
                /\ streams \subseteq [of : Station, looked : BOOLEAN] /\ cached \subseteq Station

RadioTypes == ViewTyped /\ AirTyped /\ BackendTyped /\ OnePoller
              /\ calls \in Seq(RadioCalls) /\ crossed \in Crossings

\* Only one station is read, and named if one is; or a play is under way, and every
\* reader that is left has yet to see that the flag is down - and none is left once
\* the play has named its station.
OneSource ==
  onAir => \E s \in Station : /\ \A r \in streams : r.of = s
                              /\ cached \subseteq {s} /\ station \subseteq {s}

PlayPromise(c) ==
  /\ ~onAir /\ \A r \in streams : ~r.looked
  /\ c.kind = "starting" => streams = {} /\ cached = {} /\ station \subseteq c.of

PlayInOrder ==
  ~crossed["play"] =>
    \/ NoneOf(calls, PlayOnes) /\ OneSource
    \/ \E c : Sole(calls, PlayOnes, c) /\ PlayPromise(c)

\* Panel and backend agree; or one call is under way, and this is what it will find.
AirAgrees ==
  /\ radioPlaying = onAir
  /\ radioPlaying /\ ~crossed["play"] => nowPlaying = station
  /\ onAir => station \in Singles

AirPromise(c) ==
  /\ c.kind = "starting" => station = c.of
  /\ c.kind = "playing?" => onAir /\ station = c.of
  /\ c.kind = "stopping" => ~radioPlaying
  /\ c.kind = "stop" => ~radioPlaying /\ ~onAir
  /\ c.kind = "poll" => AirAgrees /\ (onAir => c.of = station)
  /\ c.kind = "event" => AirAgrees /\ (onAir /\ ~crossed["play"] => c.of = station)

AirInOrder ==
  ~crossed["air"] =>
    \/ NoneOf(calls, AirOnes) /\ AirAgrees
    \/ \E c : Sole(calls, AirOnes, c) /\ AirPromise(c)

\* The content is the tab's; or one render waits for its list, and the tab is this
\* one's.
TabTrue ==
  /\ content.view = IF content.view = "byTag" THEN "byTag" ELSE currentView
  /\ content.view = "byTag" => currentView = "browse"
  /\ content.view = "favorites" => content.list = favorites
  /\ content.view = "custom" => content.list = custom

TabOf(kind) ==
  CASE kind \in {"tags", "byTag"} -> "browse" [] kind = "segments" -> "playing" [] OTHER -> kind

ViewPromise(c) == currentView = TabOf(c.kind)

ViewInOrder ==
  visible /\ ~crossed["view"] =>
    \/ NoneOf(calls, ViewOnes) /\ TabTrue
    \/ \E c : Sole(calls, ViewOnes, c) /\ ViewPromise(c)

RadioInOrder == RadioTypes /\ PlayInOrder /\ AirInOrder /\ ViewInOrder

-----------------------------------------------------------------------------
\* The calls are calls of the type that RadioTypeOK names.
LEMMA RadioCallsTyped ==
  /\ Seq(RadioCalls) \subseteq Seq([kind : AirCalls \cup ViewCalls, of : SUBSET Station])
  /\ {} \in AtMostOne /\ Singles \subseteq AtMostOne /\ AtMostOne \subseteq SUBSET Station
<1>1. {} \in AtMostOne
  BY FS_EmptySet DEF AtMostOne
<1>2. Singles \subseteq AtMostOne
  <2>1. \A s \in Station : {s} \subseteq Station /\ Cardinality({s}) = 1
    BY FS_Singleton
  <2> QED
    BY <2>1 DEF Singles, AtMostOne
<1>3. AtMostOne \subseteq SUBSET Station
  BY DEF AtMostOne
<1>4. RadioCalls \subseteq [kind : AirCalls \cup ViewCalls, of : SUBSET Station]
  BY <1>2, <1>3 DEF RadioCalls, AirCalls
<1> DEFINE T == [kind : AirCalls \cup ViewCalls, of : SUBSET Station]
<1> HIDE DEF T, RadioCalls
<1>5. ASSUME NEW s \in Seq(RadioCalls) PROVE s \in Seq(T)
  <2>1. Len(s) \in Nat /\ s = [i \in 1..Len(s) |-> s[i]] /\ \A i \in 1..Len(s) : s[i] \in T
    BY <1>4 DEF T
  <2> QED
    BY <2>1
<1> QED
  BY <1>1, <1>2, <1>3, <1>5 DEF T

\* The kinds of calls, and what they are about.
LEMMA RadioKinds ==
  ASSUME NEW c \in RadioCalls
  PROVE  /\ c.kind \in AirCalls \cup ViewCalls /\ c.of \in AtMostOne
         /\ c.kind \in {"play", "starting", "playing?", "event"} => c.of \in Singles
         /\ c \in PlayOnes <=> c.kind \in {"play", "starting"}
         /\ c \in AirOnes <=> c.kind \in AirCalls
         /\ c \in ViewOnes <=> c.kind \in ViewCalls
         /\ c \in AirOnes <=> c \notin ViewOnes
         /\ c \in PlayOnes => c \in AirOnes
<1>1. c.kind \in AirCalls \cup ViewCalls
  BY DEF RadioCalls, AirCalls
<1>2. c.of \in AtMostOne /\ (c.kind \in {"play", "starting", "playing?", "event"} => c.of \in Singles)
  BY RadioCallsTyped DEF RadioCalls, ViewCalls
<1>3. AirCalls \cap ViewCalls = {} /\ {"play", "starting"} \subseteq AirCalls
  BY DEF AirCalls, ViewCalls
<1> QED
  BY <1>1, <1>2, <1>3 DEF PlayOnes, AirOnes, ViewOnes

\* Some calls: those that the handlers begin.
LEMMA NewCalls ==
  /\ \A kind \in ViewCalls : \A S \in AtMostOne : RadioCall(kind, S) \in RadioCalls
  /\ \A kind \in {"stopping", "stop", "poll"} : \A S \in AtMostOne : RadioCall(kind, S) \in RadioCalls
  /\ \A kind \in {"play", "starting", "playing?", "event"} :
       \A S \in Singles : RadioCall(kind, S) \in RadioCalls
  /\ \A kind, S : RadioCall(kind, S).kind = kind /\ RadioCall(kind, S).of = S
BY DEF RadioCall, RadioCalls

\* A kind of calls is pending exactly if there is one in the list.
LEMMA PendingOnes ==
  ASSUME RadioTypes
  PROVE  /\ Pending(AirCalls) <=> ~NoneOf(calls, AirOnes)
         /\ Pending(ViewCalls) <=> ~NoneOf(calls, ViewOnes)
         /\ Pending({"play", "starting"}) <=> ~NoneOf(calls, PlayOnes)
<1>1. \A i \in DOMAIN calls : calls[i] \in RadioCalls
  BY DEF RadioTypes
<1>2. ASSUME NEW i \in DOMAIN calls
      PROVE  /\ calls[i].kind \in AirCalls <=> calls[i] \in AirOnes
             /\ calls[i].kind \in ViewCalls <=> calls[i] \in ViewOnes
             /\ calls[i].kind \in {"play", "starting"} <=> calls[i] \in PlayOnes
  BY <1>1, RadioKinds
<1> QED
  BY <1>2 DEF Pending, NoneOf

-----------------------------------------------------------------------------
\* Steps that leave the calls of a kind, and what is said about them, as they were.
LEMMA PlaySame ==
  ASSUME PlayInOrder, NEW t, calls' = t, AsBefore(calls, t, PlayOnes),
         ~crossed'["play"] => ~crossed["play"], UNCHANGED <<onAir, station, streams, cached>>
  PROVE  PlayInOrder'
<1>1. PICK s : s = calls
  OBVIOUS
<1>2. ASSUME ~crossed'["play"], NoneOf(s, PlayOnes), OneSource
      PROVE  NoneOf(t, PlayOnes) /\ OneSource'
  BY <1>1, <1>2 DEF AsBefore, OneSource
<1>3. ASSUME ~crossed'["play"], NEW c, Sole(s, PlayOnes, c), PlayPromise(c)
      PROVE  Sole(t, PlayOnes, c) /\ PlayPromise(c)'
  BY <1>1, <1>3 DEF AsBefore, PlayPromise
<1> QED
  BY <1>1, <1>2, <1>3 DEF PlayInOrder

\* The same for what plays.
LEMMA AirSame ==
  ASSUME AirInOrder, NEW t, calls' = t, AsBefore(calls, t, AirOnes),
         ~crossed'["air"] => ~crossed["air"], ~crossed'["play"] => ~crossed["play"],
         UNCHANGED <<radioPlaying, nowPlaying, onAir, station>>
  PROVE  AirInOrder'
<1>1. PICK s : s = calls
  OBVIOUS
<1>2. ASSUME ~crossed'["air"], NoneOf(s, AirOnes), AirAgrees
      PROVE  NoneOf(t, AirOnes) /\ AirAgrees'
  BY <1>1, <1>2 DEF AsBefore, AirAgrees
<1>3. ASSUME ~crossed'["air"], NEW c, Sole(s, AirOnes, c), AirPromise(c)
      PROVE  Sole(t, AirOnes, c) /\ AirPromise(c)'
  BY <1>1, <1>3 DEF AsBefore, AirPromise, AirAgrees
<1> QED
  BY <1>1, <1>2, <1>3 DEF AirInOrder

\* The same for the view.
LEMMA ViewSame ==
  ASSUME ViewInOrder, NEW t, calls' = t, AsBefore(calls, t, ViewOnes),
         ~crossed'["view"] => ~crossed["view"],
         UNCHANGED <<visible, currentView, favorites, custom>>,
         content'.view = content.view,
         content.view \in {"favorites", "custom"} => content' = content
  PROVE  ViewInOrder'
<1>1. PICK s : s = calls
  OBVIOUS
<1>2. ASSUME ~crossed'["view"], NoneOf(s, ViewOnes), TabTrue
      PROVE  NoneOf(t, ViewOnes) /\ TabTrue'
  BY <1>1, <1>2 DEF AsBefore, TabTrue
<1>3. ASSUME ~crossed'["view"], NEW c, Sole(s, ViewOnes, c), ViewPromise(c)
      PROVE  Sole(t, ViewOnes, c) /\ ViewPromise(c)'
  BY <1>1, <1>3 DEF AsBefore, ViewPromise
<1> QED
  BY <1>1, <1>2, <1>3 DEF ViewInOrder

-----------------------------------------------------------------------------
\* What a new render makes of the calls that are under way, o, and of the view.
Rendered(o) ==
  /\ \E t \in Seq(RadioCalls) : /\ calls' = t
                                /\ AsBefore(o, t, PlayOnes) /\ AsBefore(o, t, AirOnes)
  /\ currentView' \in Views /\ content' \in Contents /\ crossed' \in Crossings
  /\ crossed'["air"] = crossed["air"] /\ crossed'["play"] = crossed["play"]
  /\ ViewInOrder'

\* The histories after a render that does (or does not) set things right.
LEMMA RenderCrossesOnly ==
  ASSUME crossed \in Crossings, NEW o, NEW fresh \in BOOLEAN, crossed' = RenderCrosses(o, fresh)
  PROVE  /\ crossed' \in Crossings
         /\ crossed'["air"] = crossed["air"] /\ crossed'["play"] = crossed["play"]
         /\ ~crossed'["view"] =>
              /\ fresh \/ ~crossed["view"]
              /\ \A i \in DOMAIN o : o[i].kind \notin ViewCalls
<1>1. PICK b \in BOOLEAN : b = (\/ crossed["view"] /\ ~fresh
                                \/ \E i \in DOMAIN o : o[i].kind \in ViewCalls)
  BY Zenon
<1>2. crossed' = [crossed EXCEPT !["view"] = b]
  BY <1>1 DEF RenderCrosses
<1>3. /\ crossed' \in Crossings /\ crossed'["view"] = b
      /\ crossed'["air"] = crossed["air"] /\ crossed'["play"] = crossed["play"]
  BY <1>2 DEF Crossings
<1> QED
  BY <1>1, <1>3

\* The searches that are seen no more are no calls about what plays.
LEMMA SeenKeeps ==
  ASSUME NEW o \in Seq(RadioCalls), NEW k, k = StillSeen(o)
  PROVE  /\ k \in Seq(RadioCalls) /\ AsBefore(o, k, PlayOnes) /\ AsBefore(o, k, AirOnes)
         /\ NoneOf(o, ViewOnes) => NoneOf(k, ViewOnes)
<1> DEFINE K == {j \in DOMAIN o : o[j].kind # "search"}
<1>1. K \in SUBSET (DOMAIN o)
  OBVIOUS
<1>2. k = [n \in DOMAIN SetToSeq(K) |-> o[SetToSeq(K)[n]]]
  BY DEF StillSeen
<1>3. \A j \in DOMAIN o \ K : o[j].kind = "search"
  OBVIOUS
<1> HIDE DEF K
<1>4. /\ k \in Seq(RadioCalls) /\ \A j \in DOMAIN k : \E n \in K : k[j] = o[n]
      /\ \A Q : (\A j \in DOMAIN o \ K : o[j] \notin Q) => AsBefore(o, k, Q)
  BY <1>1, <1>2, SoleKept, SMTT(20)
<1>5. \A j \in DOMAIN o \ K : o[j] \notin PlayOnes /\ o[j] \notin AirOnes
  BY <1>3 DEF PlayOnes, AirOnes, AirCalls
<1>6. AsBefore(o, k, PlayOnes) /\ AsBefore(o, k, AirOnes)
  BY <1>4, <1>5
<1>7. NoneOf(o, ViewOnes) => NoneOf(k, ViewOnes)
  BY <1>1, <1>4 DEF NoneOf
<1> QED
  BY <1>4, <1>6, <1>7

\* A render takes the place of whatever the content was.
LEMMA RenderKeeps ==
  ASSUME RadioTypes, NEW o \in Seq(RadioCalls), NEW view \in Views, NEW kind, NEW of \in AtMostOne,
         Render(view, kind, of, o),
         \/ kind = "" /\ view \in {"search", "playing"}
         \/ kind \in ViewCalls /\ TabOf(kind) = view
  PROVE  Rendered(o)
<1>1. PICK k : k = IF kind = "segments" THEN o ELSE StillSeen(o)
  OBVIOUS
<1>2. /\ currentView' = view
      /\ kind = "" => content' = [view |-> view, list |-> {}] /\ calls' = k
      /\ kind = "segments" => content' = content
      /\ kind \notin {"", "segments"} => content' = Empty
      /\ kind # "" => calls' = Append(k, RadioCall(kind, of))
      /\ crossed' = RenderCrosses(k, TRUE)
  BY <1>1 DEF Render
<1>3. /\ k \in Seq(RadioCalls) /\ AsBefore(o, k, PlayOnes) /\ AsBefore(o, k, AirOnes)
  <2>1. CASE kind = "segments"
    <3>1. k = o
      BY <1>1, <2>1
    <3> QED
      BY <3>1, StillAsBefore
  <2>2. CASE kind # "segments"
    <3>1. k = StillSeen(o)
      BY <1>1, <2>2
    <3> QED
      BY <3>1, SeenKeeps
  <2> QED
    BY <2>1, <2>2
<1>4. crossed \in Crossings
  BY DEF RadioTypes
<1>5. /\ crossed' \in Crossings
      /\ crossed'["air"] = crossed["air"] /\ crossed'["play"] = crossed["play"]
      /\ ~crossed'["view"] => \A i \in DOMAIN k : k[i].kind \notin ViewCalls
  BY <1>2, <1>4, RenderCrossesOnly
<1>6. ~crossed'["view"] => NoneOf(k, ViewOnes)
  <2>1. ASSUME ~crossed'["view"], NEW i \in DOMAIN k PROVE k[i] \notin ViewOnes
    <3>1. k[i].kind \notin ViewCalls
      BY <1>5, <2>1
    <3> QED
      BY <3>1 DEF ViewOnes
  <2> QED
    BY <2>1 DEF NoneOf
<1>7. currentView' \in Views /\ content' \in Contents
  <2>1. content \in Contents
    BY DEF RadioTypes, ViewTyped
  <2>2. CASE content' = content
    BY <1>2, <2>1, <2>2
  <2>3. CASE content' = [view |-> view, list |-> {}]
    BY <1>2, <2>3 DEF Contents
  <2>4. CASE content' = Empty
    BY <1>2, <2>4 DEF Contents, Empty
  <2> QED
    BY <1>2, <2>2, <2>3, <2>4
<1>8. CASE kind = "" /\ view \in {"search", "playing"}
  <2>1. kind = "" /\ calls' = k /\ content' = [view |-> view, list |-> {}] /\ currentView' = view
    BY <1>2, <1>8
  <2>2. calls' = k /\ content'.view = view /\ currentView' = view
    BY <2>1
  <2>3. TabTrue'
    BY <1>8, <2>2 DEF TabTrue
  <2>4. ViewInOrder'
    BY <1>6, <2>2, <2>3 DEF ViewInOrder
  <2> QED
    BY <1>3, <1>5, <1>7, <2>2, <2>4 DEF Rendered
<1>9. CASE kind \in ViewCalls /\ TabOf(kind) = view
  <2>1. kind # ""
    BY <1>9 DEF ViewCalls
  <2>2. PICK c \in RadioCalls : c = RadioCall(kind, of)
    BY <1>9, NewCalls
  <2>3. c.kind = kind /\ c \in ViewOnes /\ c \notin AirOnes /\ c \notin PlayOnes
    BY <1>9, <2>2, NewCalls, RadioKinds
  <2>4. PICK t : t = Append(k, c)
    OBVIOUS
  <2>5. /\ t \in Seq(RadioCalls) /\ AsBefore(k, t, PlayOnes) /\ AsBefore(k, t, AirOnes)
        /\ NoneOf(k, ViewOnes) => Sole(t, ViewOnes, c)
    BY <1>3, <2>3, <2>4, SoleMore
  <2>6. calls' = t
    BY <1>2, <2>1, <2>2, <2>4
  <2>7. ViewPromise(c)'
    BY <1>2, <1>9, <2>3 DEF ViewPromise
  <2>8. ViewInOrder'
    BY <1>6, <2>5, <2>6, <2>7 DEF ViewInOrder
  <2>9. AsBefore(o, t, PlayOnes) /\ AsBefore(o, t, AirOnes)
    BY <1>3, <2>5, StillAsBefore
  <2> QED
    BY <1>5, <1>7, <2>5, <2>6, <2>8, <2>9 DEF Rendered
<1> QED
  BY <1>8, <1>9

\* "Playing", rendered with what plays.
LEMMA RenderPlayingKeeps ==
  ASSUME RadioTypes, NEW o \in Seq(RadioCalls), NEW plays \in BOOLEAN, NEW playing \in AtMostOne,
         RenderPlaying(plays, playing, o)
  PROVE  Rendered(o)
<1>1. "playing" \in Views /\ "segments" \in ViewCalls /\ TabOf("segments") = "playing"
      /\ {} \in AtMostOne
  BY RadioCallsTyped DEF Views, ViewCalls, TabOf
<1>2. CASE plays
  <2>1. Render("playing", "segments", playing, o)
    BY <1>2 DEF RenderPlaying
  <2> QED
    BY <1>1, <2>1, RenderKeeps
<1>3. CASE ~plays
  <2>1. Render("playing", "", {}, o)
    BY <1>3 DEF RenderPlaying
  <2> QED
    BY <1>1, <2>1, RenderKeeps
<1> QED
  BY <1>2, <1>3

\* The render that a tab, or opening the panel, asks for.
LEMMA RenderOfKeeps ==
  ASSUME RadioTypes, NEW view \in Views, RenderOf(view)
  PROVE  Rendered(calls)
<1>1. calls \in Seq(RadioCalls) /\ {} \in AtMostOne /\ radioPlaying \in BOOLEAN /\ nowPlaying \in AtMostOne
  BY RadioCallsTyped DEF RadioTypes, AirTyped
<1>2. TabOf("tags") = "browse" /\ TabOf("favorites") = "favorites" /\ TabOf("custom") = "custom"
  BY DEF TabOf
<1>3. {"tags", "favorites", "custom"} \subseteq ViewCalls
  BY DEF ViewCalls
<1>4. CASE view = "browse"
  <2>1. Render(view, "tags", {}, calls)
    BY <1>4 DEF RenderOf
  <2> QED
    BY <1>1, <1>2, <1>3, <1>4, <2>1, RenderKeeps
<1>5. CASE view = "search"
  <2>1. Render(view, "", {}, calls)
    BY <1>5 DEF RenderOf
  <2> QED
    BY <1>1, <1>5, <2>1, RenderKeeps
<1>6. CASE view = "playing"
  <2>1. RenderPlaying(radioPlaying, nowPlaying, calls)
    BY <1>6 DEF RenderOf
  <2> QED
    BY <1>1, <2>1, RenderPlayingKeeps
<1>7. CASE view \in {"favorites", "custom"}
  <2>1. Render(view, view, {}, calls)
    BY <1>7 DEF RenderOf
  <2> QED
    BY <1>1, <1>2, <1>3, <1>7, <2>1, RenderKeeps
<1> QED
  BY <1>4, <1>5, <1>6, <1>7 DEF Views

-----------------------------------------------------------------------------
\* What a new call about what plays makes of the histories.
LEMMA AirCrossesOnly ==
  ASSUME RadioTypes, NEW fresh \in BOOLEAN, NEW x, x = AirCrosses(fresh)
  PROVE  /\ x \in Crossings
         /\ x["view"] = crossed["view"] /\ x["play"] = crossed["play"]
         /\ ~x["air"] => (fresh \/ ~crossed["air"]) /\ NoneOf(calls, AirOnes)
<1>1. PICK b \in BOOLEAN : b = (Pending(AirCalls) \/ (crossed["air"] /\ ~fresh))
  BY Zenon
<1>2. x = [crossed EXCEPT !["air"] = b]
  BY <1>1 DEF AirCrosses
<1>3. crossed \in Crossings
  BY DEF RadioTypes
<1>4. /\ x \in Crossings /\ x["air"] = b
      /\ x["view"] = crossed["view"] /\ x["play"] = crossed["play"]
  BY <1>2, <1>3 DEF Crossings
<1> QED
  BY <1>1, <1>4, PendingOnes

\* A step that is not about what plays: only the view's part is to be shown.
LEMMA AirUndisturbed ==
  ASSUME RadioInOrder, NEW t \in Seq(RadioCalls), calls' = t,
         AsBefore(calls, t, PlayOnes), AsBefore(calls, t, AirOnes),
         crossed' \in Crossings,
         crossed'["air"] = crossed["air"], crossed'["play"] = crossed["play"],
         UNCHANGED <<airVars, backendVars>>, OnePoller', ViewTyped', ViewInOrder'
  PROVE  RadioInOrder'
<1>1. /\ UNCHANGED <<radioPlaying, nowPlaying, nowPlayingInterval, intervals>>
      /\ UNCHANGED <<onAir, station, streams, cached>>
  BY DEF airVars, backendVars
<1>2. PlayInOrder'
  BY <1>1, PlaySame DEF RadioInOrder
<1>3. AirInOrder'
  BY <1>1, AirSame DEF RadioInOrder
<1>4. AirTyped' /\ BackendTyped'
  BY <1>1 DEF RadioInOrder, RadioTypes, AirTyped, BackendTyped
<1> QED
  BY <1>2, <1>3, <1>4 DEF RadioInOrder, RadioTypes

\* A step that leaves the view alone.
LEMMA ViewUndisturbed ==
  ASSUME RadioInOrder, NEW t, calls' = t, AsBefore(calls, t, ViewOnes),
         crossed'["view"] = crossed["view"], UNCHANGED <<viewVars, favorites, custom>>
  PROVE  ViewTyped' /\ ViewInOrder'
<1>1. UNCHANGED <<visible, currentView, content, favorites, custom>>
  BY DEF viewVars
<1>2. ViewTyped'
  BY <1>1 DEF RadioInOrder, RadioTypes, ViewTyped
<1>3. ViewInOrder'
  BY <1>1, ViewSame DEF RadioInOrder
<1> QED
  BY <1>2, <1>3

\* A render, and nothing else that matters here.
LEMMA RenderedInOrder ==
  ASSUME RadioInOrder, Rendered(calls), UNCHANGED <<airVars, backendVars>>, OnePoller',
         visible' \in BOOLEAN, favorites' \subseteq Station, custom' \subseteq Station
  PROVE  RadioInOrder'
<1>1. PICK t \in Seq(RadioCalls) : /\ calls' = t
                                   /\ AsBefore(calls, t, PlayOnes) /\ AsBefore(calls, t, AirOnes)
  BY DEF Rendered
<1>2. ViewTyped'
  BY DEF Rendered, ViewTyped
<1> QED
  BY <1>1, <1>2, AirUndisturbed DEF Rendered

-----------------------------------------------------------------------------
\* Opening renders a view; closing leaves everything as it was.
LEMMA ToggleInOrder ==
  ASSUME RadioInOrder, OnePoller', ToggleRadioPanel
  PROVE  RadioInOrder'
<1>1. /\ visible' = ~visible /\ visible \in BOOLEAN
      /\ UNCHANGED <<airVars, backendVars>> /\ UNCHANGED <<favorites, custom>>
      /\ favorites \subseteq Station /\ custom \subseteq Station /\ RadioTypes
  BY DEF ToggleRadioPanel, RadioInOrder, RadioTypes, ViewTyped
<1>2. CASE visible
  <2>1. UNCHANGED <<currentView, content, calls, crossed>>
    BY <1>2 DEF ToggleRadioPanel
  <2>2. ViewTyped'
    BY <1>1, <2>1 DEF ViewTyped, RadioTypes
  <2>3. ViewInOrder'
    BY <1>1, <1>2 DEF ViewInOrder
  <2>4. PICK t \in Seq(RadioCalls) : t = calls
    BY <1>1 DEF RadioTypes
  <2>5. AsBefore(calls, t, PlayOnes) /\ AsBefore(calls, t, AirOnes)
    BY <2>4, StillAsBefore
  <2>6. crossed' \in Crossings
    BY <1>1, <2>1 DEF RadioTypes
  <2> QED
    BY <1>1, <2>1, <2>2, <2>3, <2>4, <2>5, <2>6, AirUndisturbed
<1>3. CASE ~visible
  <2>1. PICK view \in Views : RenderOf(view)
    BY <1>3 DEF ToggleRadioPanel, Views
  <2>2. Rendered(calls)
    BY <1>1, <2>1, RenderOfKeeps
  <2> QED
    BY <1>1, <2>2, RenderedInOrder
<1> QED
  BY <1>1, <1>2, <1>3

\* A click on a tab renders its view.
LEMMA TabInOrder ==
  ASSUME RadioInOrder, OnePoller', NEW view \in Views, ClickTab(view)
  PROVE  RadioInOrder'
<1>1. /\ visible' \in BOOLEAN /\ UNCHANGED <<airVars, backendVars>>
      /\ favorites' \subseteq Station /\ custom' \subseteq Station /\ RadioTypes
  BY DEF ClickTab, RadioInOrder, RadioTypes, ViewTyped
<1>2. Rendered(calls)
  BY <1>1, RenderOfKeeps DEF ClickTab
<1> QED
  BY <1>1, <1>2, RenderedInOrder

\* A row's cross, or the form for a custom station: the view is rendered again.
LEMMA EditInOrder ==
  ASSUME RadioInOrder, OnePoller', NEW s \in Station, RemoveFavorite(s) \/ EditCustom(s)
  PROVE  RadioInOrder'
<1>1. /\ visible' \in BOOLEAN /\ UNCHANGED <<airVars, backendVars>>
      /\ favorites' \subseteq Station /\ custom' \subseteq Station /\ RadioTypes
  BY DEF RemoveFavorite, EditCustom, RadioInOrder, RadioTypes, ViewTyped
<1>2. calls \in Seq(RadioCalls) /\ {} \in AtMostOne
  BY <1>1, RadioCallsTyped DEF RadioTypes
<1>3. PICK view \in {"favorites", "custom"} : Render(view, view, {}, calls)
  BY DEF RemoveFavorite, EditCustom
<1>4. view \in Views /\ view \in ViewCalls /\ TabOf(view) = view
  BY DEF Views, ViewCalls, TabOf
<1>5. Rendered(calls)
  BY <1>1, <1>2, <1>3, <1>4, RenderKeeps
<1> QED
  BY <1>1, <1>5, RenderedInOrder

\* A genre, or the search button: the tab stays, and this call fills it.
LEMMA AskInOrder ==
  ASSUME RadioInOrder, OnePoller', ClickTag \/ SearchStations
  PROVE  RadioInOrder'
<1>1. /\ UNCHANGED <<visible, currentView, favorites, custom>> /\ visible
      /\ UNCHANGED <<airVars, backendVars>> /\ crossed' = RenderCrosses(calls, FALSE)
      /\ RadioTypes /\ calls \in Seq(RadioCalls) /\ crossed \in Crossings /\ content \in Contents
  BY DEF ClickTag, SearchStations, RadioInOrder, RadioTypes, ViewTyped
<1>2. PICK kind \in {"byTag", "search"} :
        /\ calls' = Append(calls, RadioCall(kind, {}))
        /\ kind = "byTag" => content.view = "browse" /\ content' = Empty
        /\ kind = "search" => content.view = "search" /\ content' = [content EXCEPT !.list = {}]
  BY DEF ClickTag, SearchStations
<1>3. PICK c \in RadioCalls : c = RadioCall(kind, {})
  BY NewCalls, RadioCallsTyped DEF ViewCalls
<1>4. c.kind = kind /\ c \in ViewOnes /\ c \notin AirOnes /\ c \notin PlayOnes
  <2>1. c.kind = kind /\ kind \in ViewCalls
    BY <1>3, NewCalls DEF ViewCalls
  <2> QED
    BY <2>1, RadioKinds
<1>5. PICK t : t = Append(calls, c)
  OBVIOUS
<1>6. /\ t \in Seq(RadioCalls) /\ AsBefore(calls, t, PlayOnes) /\ AsBefore(calls, t, AirOnes)
      /\ NoneOf(calls, ViewOnes) => Sole(t, ViewOnes, c)
  BY <1>1, <1>4, <1>5, SoleMore
<1>7. /\ crossed' \in Crossings
      /\ crossed'["air"] = crossed["air"] /\ crossed'["play"] = crossed["play"]
      /\ ~crossed'["view"] => /\ ~crossed["view"]
                              /\ \A i \in DOMAIN calls : calls[i].kind \notin ViewCalls
  BY <1>1, RenderCrossesOnly
<1>8. content' \in Contents
  BY <1>1, <1>2 DEF Contents, Empty
<1>9. ASSUME ~crossed'["view"] PROVE Sole(t, ViewOnes, c) /\ ViewPromise(c)'
  <2>1. NoneOf(calls, ViewOnes)
    BY <1>1, <1>7, <1>9, PendingOnes DEF Pending
  <2>2. TabTrue
    BY <1>1, <1>7, <1>9, <2>1 DEF RadioInOrder, ViewInOrder, Sole, NoneOf
  <2>3. currentView' = TabOf(c.kind)
    BY <1>1, <1>2, <1>4, <2>2 DEF TabTrue, TabOf
  <2> QED
    BY <1>6, <2>1, <2>3 DEF ViewPromise
<1>10. calls' = t
  BY <1>2, <1>3, <1>5
<1>11. ViewInOrder'
  BY <1>9, <1>10 DEF ViewInOrder
<1>12. ViewTyped'
  BY <1>1, <1>8 DEF RadioInOrder, RadioTypes, ViewTyped
<1> QED
  BY <1>1, <1>6, <1>7, <1>10, <1>11, <1>12, AirUndisturbed

\* The one render that was waited for is answered, or fails.
LEMMA AnswerInOrder ==
  ASSUME RadioInOrder, OnePoller', NEW i \in DOMAIN calls, RenderAnswered(i)
  PROVE  RadioInOrder'
<1>1. /\ UNCHANGED <<visible, currentView, favorites, custom>>
      /\ UNCHANGED <<airVars, backendVars>> /\ calls[i].kind \in ViewCalls
      /\ favorites \subseteq Station /\ custom \subseteq Station
      /\ calls \in Seq(RadioCalls) /\ crossed \in Crossings
  BY DEF RenderAnswered, RadioInOrder, RadioTypes, ViewTyped
<1>2. PICK c \in RadioCalls : c = calls[i]
  BY <1>1
<1>3. /\ c.kind \in ViewCalls /\ c.of \in AtMostOne /\ c \in ViewOnes
      /\ c \notin AirOnes /\ c \notin PlayOnes
  BY <1>1, <1>2, RadioKinds
<1>4. PICK o : o = RemoveAt(calls, i)
  OBVIOUS
<1>5. /\ o \in Seq(RadioCalls) /\ AsBefore(calls, o, PlayOnes) /\ AsBefore(calls, o, AirOnes)
      /\ \A d : Sole(calls, ViewOnes, d) => d = c /\ NoneOf(o, ViewOnes)
      /\ ~NoneOf(calls, ViewOnes)
  BY <1>1, <1>2, <1>3, <1>4, SoleLess DEF NoneOf
<1>6. PICK k : k = StillSeen(o)
  OBVIOUS
<1>7. /\ k \in Seq(RadioCalls) /\ AsBefore(o, k, PlayOnes) /\ AsBefore(o, k, AirOnes)
      /\ NoneOf(o, ViewOnes) => NoneOf(k, ViewOnes)
  BY <1>5, <1>6, SeenKeeps
<1>8. PICK t \in {o, k} : calls' = t
  BY <1>4, <1>6 DEF RenderAnswered
<1>9. /\ t \in Seq(RadioCalls) /\ AsBefore(calls, t, PlayOnes) /\ AsBefore(calls, t, AirOnes)
      /\ \A d : Sole(calls, ViewOnes, d) => d = c /\ NoneOf(t, ViewOnes)
      /\ ~NoneOf(calls, ViewOnes)
  <2>1. AsBefore(calls, k, PlayOnes) /\ AsBefore(calls, k, AirOnes)
    BY <1>5, <1>7, StillAsBefore
  <2> QED
    BY <1>5, <1>7, <1>8, <2>1
<1> DEFINE list == CASE c.kind = "favorites" -> favorites
                     [] c.kind = "custom" -> custom
                     [] c.kind = "tags" -> {}
                     [] c.kind = "segments" -> c.of
                     [] OTHER -> Station
           view == CASE c.kind = "tags" -> "browse"
                     [] c.kind = "segments" -> "playing"
                     [] OTHER -> c.kind
<1>10. \/ content' = [view |-> view, list |-> list] /\ UNCHANGED crossed
       \/ content' = Empty /\ crossed' = [crossed EXCEPT !["view"] = TRUE]
  BY <1>2 DEF RenderAnswered
<1>11. view \in Views \cup {"byTag"} /\ list \in SUBSET Station
  BY <1>1, <1>3, RadioCallsTyped DEF ViewCalls, Views
<1>12. content' \in Contents
  BY <1>10, <1>11 DEF Contents, Empty
<1>13. /\ crossed' \in Crossings
       /\ crossed'["air"] = crossed["air"] /\ crossed'["play"] = crossed["play"]
       /\ ~crossed'["view"] => crossed' = crossed
  BY <1>1, <1>10 DEF Crossings
<1>14. ASSUME visible, ~crossed'["view"] PROVE NoneOf(t, ViewOnes) /\ TabTrue'
  <2>1. ~crossed["view"]
    BY <1>13, <1>14
  <2>2. NoneOf(t, ViewOnes) /\ currentView = TabOf(c.kind)
    BY <1>9, <1>14, <2>1 DEF RadioInOrder, ViewInOrder, ViewPromise
  <2>3. content' = [view |-> view, list |-> list]
    BY <1>1, <1>10, <1>13, <1>14 DEF Crossings
  <2>4. content'.view = view /\ content'.list = list /\ currentView' = TabOf(c.kind)
        /\ UNCHANGED <<favorites, custom>>
    BY <1>1, <2>2, <2>3
  <2>5. TabTrue'
    BY <1>3, <2>4 DEF TabTrue, TabOf, ViewCalls
  <2> QED
    BY <2>2, <2>5
<1>15. calls' = t
  BY <1>8
<1>16. ViewInOrder'
  BY <1>1, <1>14, <1>15 DEF ViewInOrder
<1>17. ViewTyped'
  BY <1>1, <1>12 DEF RadioInOrder, RadioTypes, ViewTyped
<1> QED
  BY <1>1, <1>9, <1>13, <1>15, <1>16, <1>17, AirUndisturbed

\* A star: the favourites change where the panel does not show them.
LEMMA StarInOrder ==
  ASSUME RadioInOrder, OnePoller', NEW s \in Station, AddFavorite(s)
  PROVE  RadioInOrder'
<1>1. /\ UNCHANGED <<visible, currentView, content, custom, calls>> /\ content.view # "favorites"
      /\ UNCHANGED <<airVars, backendVars>> /\ favorites' = favorites \cup {s}
      /\ crossed' = [crossed EXCEPT !["view"] = @ \/ Pending({"favorites"})]
      /\ calls \in Seq(RadioCalls) /\ crossed \in Crossings /\ ViewTyped /\ ViewInOrder
  BY DEF AddFavorite, RadioInOrder, RadioTypes, viewVars
<1>2. PICK b \in BOOLEAN : b = (crossed["view"] \/ Pending({"favorites"}))
  BY Zenon
<1>3. crossed' = [crossed EXCEPT !["view"] = b]
  BY <1>1, <1>2
<1>4. /\ crossed' \in Crossings /\ crossed'["view"] = b
      /\ crossed'["air"] = crossed["air"] /\ crossed'["play"] = crossed["play"]
  BY <1>1, <1>3 DEF Crossings
<1>5. ~crossed'["view"] => ~crossed["view"]
  BY <1>2, <1>4
<1>6. ViewTyped'
  BY <1>1 DEF ViewTyped
<1>7. PICK t \in Seq(RadioCalls) : t = calls
  BY <1>1
<1>8. /\ AsBefore(calls, t, PlayOnes) /\ AsBefore(calls, t, AirOnes)
      /\ calls' = t
  BY <1>1, <1>7, StillAsBefore
<1>9. TabTrue => TabTrue'
  BY <1>1 DEF TabTrue
<1>10. \A c : ViewPromise(c) => ViewPromise(c)'
  BY <1>1 DEF ViewPromise
<1>11. ViewInOrder'
  BY <1>1, <1>5, <1>9, <1>10 DEF ViewInOrder
<1> QED
  BY <1>1, <1>4, <1>6, <1>8, <1>11, AirUndisturbed

-----------------------------------------------------------------------------
\* A play lowers the flag: until it raises it again, it is the only call there is.
LEMMA PlayInOrderStarts ==
  ASSUME RadioInOrder, OnePoller', NEW s \in Station, ClickPlay(s)
  PROVE  RadioInOrder'
<1>1. /\ RadioTypes /\ AirTyped /\ BackendTyped /\ calls \in Seq(RadioCalls)
      /\ UNCHANGED <<viewVars, favorites, custom>> /\ UNCHANGED airVars
      /\ UNCHANGED <<station, cached>>
      /\ onAir' = FALSE /\ streams' = {[r EXCEPT !.looked = FALSE] : r \in streams}
  BY DEF ClickPlay, StopReaders, RadioInOrder, RadioTypes
<1>2. PICK c \in RadioCalls : c = RadioCall("play", {s})
  BY NewCalls DEF Singles
<1>3. c.kind = "play" /\ c \in AirOnes /\ c \in PlayOnes /\ c \notin ViewOnes
  <2>1. c.kind = "play"
    BY <1>2, NewCalls
  <2> QED
    BY <2>1, RadioKinds DEF AirCalls
<1>4. PICK t : t = Append(calls, c)
  OBVIOUS
<1>5. /\ t \in Seq(RadioCalls) /\ AsBefore(calls, t, ViewOnes)
      /\ NoneOf(calls, PlayOnes) => Sole(t, PlayOnes, c)
      /\ NoneOf(calls, AirOnes) => Sole(t, AirOnes, c)
  BY <1>1, <1>3, <1>4, SoleMore
<1>6. calls' = t
  BY <1>2, <1>4 DEF ClickPlay
<1>7. PICK x : x = AirCrosses(TRUE)
  OBVIOUS
<1>8. x \in Crossings /\ x["view"] = crossed["view"] /\ x["play"] = crossed["play"]
      /\ (~x["air"] => NoneOf(calls, AirOnes))
  BY <1>1, <1>7, AirCrossesOnly
<1>9. PICK b \in BOOLEAN : b = (x["play"] \/ Pending({"play", "starting"}))
  BY Zenon
<1>10. crossed' = [x EXCEPT !["play"] = b]
  BY <1>7, <1>9 DEF ClickPlay
<1>11. crossed' \in Crossings /\ crossed'["view"] = crossed["view"]
       /\ crossed'["air"] = x["air"] /\ crossed'["play"] = b
  BY <1>8, <1>10 DEF Crossings
<1>12. ~crossed'["play"] => NoneOf(calls, PlayOnes)
  BY <1>1, <1>9, <1>11, PendingOnes
<1>13. /\ streams' \subseteq [of : Station, looked : BOOLEAN]
       /\ \A r \in streams' : ~r.looked
  BY <1>1 DEF BackendTyped
<1>14. PlayInOrder'
  <2>1. PlayPromise(c)'
    BY <1>1, <1>3, <1>13 DEF PlayPromise
  <2> QED
    BY <1>5, <1>6, <1>12, <2>1 DEF PlayInOrder
<1>15. AirPromise(c)'
  BY <1>3 DEF AirPromise
<1>16. AirInOrder'
  BY <1>5, <1>6, <1>8, <1>11, <1>15 DEF AirInOrder
<1>17. AirTyped' /\ BackendTyped'
  BY <1>1, <1>13 DEF AirTyped, BackendTyped, airVars
<1>18. ViewTyped' /\ ViewInOrder'
  BY <1>1, <1>5, <1>6, <1>11, ViewUndisturbed
<1> QED
  BY <1>5, <1>6, <1>11, <1>14, <1>16, <1>17, <1>18 DEF RadioInOrder, RadioTypes

\* What it means for the other calls that c goes on as x.
WentOn(c, x, t) ==
  /\ AsBefore(calls, t, ViewOnes)
  /\ ~NoneOf(calls, AirOnes) /\ \A d : Sole(calls, AirOnes, d) => d = c /\ Sole(t, AirOnes, x)
  /\ c \in PlayOnes => ~NoneOf(calls, PlayOnes)
  /\ c \in PlayOnes /\ x \in PlayOnes =>
       \A d : Sole(calls, PlayOnes, d) => d = c /\ Sole(t, PlayOnes, x)
  /\ c \in PlayOnes /\ x \notin PlayOnes =>
       \A d : Sole(calls, PlayOnes, d) => d = c /\ NoneOf(t, PlayOnes)
  /\ c \notin PlayOnes /\ x \notin PlayOnes => AsBefore(calls, t, PlayOnes)

\* A call of the radio goes on as another one, in its place.
LEMMA AirCallGoesOn ==
  ASSUME RadioTypes, NEW i \in DOMAIN calls, NEW c, c = calls[i], c \in AirOnes,
         NEW x \in AirOnes, NEW t, t = [calls EXCEPT ![i] = x]
  PROVE  t \in Seq(RadioCalls) /\ WentOn(c, x, t)
<1>1. calls \in Seq(RadioCalls) /\ c \in RadioCalls /\ x \in RadioCalls
  BY DEF RadioTypes, AirOnes
<1>2. c \notin ViewOnes /\ x \notin ViewOnes
  BY <1>1, RadioKinds
<1>3. t \in Seq(RadioCalls) /\ ChangedAt(calls, t, i) /\ t[i] = x
  BY <1>1, OneChanged DEF ChangedAt
<1>4. ~NoneOf(calls, AirOnes) /\ (c \in PlayOnes => ~NoneOf(calls, PlayOnes))
  BY DEF NoneOf
<1>5. AsBefore(calls, t, ViewOnes)
  BY <1>2, <1>3, SoleChanged
<1>6. PICK s : s = calls
  OBVIOUS
<1>7. i \in DOMAIN s /\ ChangedAt(s, t, i) /\ s[i] = c /\ t[i] = x
  BY <1>3, <1>6
<1>8. \A d : Sole(s, AirOnes, d) => d = c /\ Sole(t, AirOnes, x)
  BY ONLY <1>7, c \in AirOnes, x \in AirOnes, SoleChanged
<1>9. /\ c \in PlayOnes /\ x \in PlayOnes =>
            \A d : Sole(s, PlayOnes, d) => d = c /\ Sole(t, PlayOnes, x)
      /\ c \in PlayOnes /\ x \notin PlayOnes =>
            \A d : Sole(s, PlayOnes, d) => d = c /\ NoneOf(t, PlayOnes)
      /\ c \notin PlayOnes /\ x \notin PlayOnes => AsBefore(s, t, PlayOnes)
  BY ONLY <1>7, SoleChanged
<1> QED
  BY <1>3, <1>4, <1>5, <1>8, <1>9, <1>6 DEF WentOn

\* ... no reader is left when the station is named, unless that was noted.
LEMMA NamedInOrder ==
  ASSUME RadioInOrder, OnePoller', NEW i \in DOMAIN calls, StationNamed(i)
  PROVE  RadioInOrder'
<1>1. /\ RadioTypes /\ AirTyped /\ BackendTyped /\ crossed \in Crossings
      /\ UNCHANGED <<viewVars, favorites, custom>> /\ UNCHANGED airVars /\ UNCHANGED <<onAir, streams>>
      /\ calls[i].kind = "play" /\ station' = calls[i].of /\ cached' = {}
  BY DEF StationNamed, RadioInOrder, RadioTypes
<1>2. PICK c \in RadioCalls : c = calls[i]
  BY DEF RadioInOrder, RadioTypes
<1>3. c.kind = "play" /\ c.of \in Singles /\ c \in AirOnes /\ c \in PlayOnes
  BY <1>1, <1>2, RadioKinds DEF AirCalls
<1>4. PICK x : x = RadioCall("starting", c.of)
  OBVIOUS
<1>5. x \in AirOnes /\ x \in RadioCalls /\ x.kind = "starting" /\ x.of = c.of
  BY <1>3, <1>4, NewCalls DEF AirOnes, AirCalls
<1>6. PICK t : t = [calls EXCEPT ![i] = x]
  OBVIOUS
<1>7. calls' = t
  <2>1. x = [c EXCEPT !.kind = "starting"]
    BY <1>4 DEF RadioCall, RadioCalls
  <2> QED
    BY <1>2, <1>6, <2>1 DEF StationNamed
<1>8. t \in Seq(RadioCalls) /\ WentOn(c, x, t)
  BY <1>1, <1>2, <1>3, <1>6, <1>5, AirCallGoesOn
<1>9. /\ calls' = t /\ x.kind = "starting" /\ x.of = c.of /\ x \in PlayOnes
      /\ AsBefore(calls, t, ViewOnes)
      /\ ~NoneOf(calls, AirOnes) /\ \A d : Sole(calls, AirOnes, d) => d = c /\ Sole(t, AirOnes, x)
      /\ ~NoneOf(calls, PlayOnes)
      /\ \A d : Sole(calls, PlayOnes, d) => d = c /\ Sole(t, PlayOnes, x)
  BY <1>3, <1>8, <1>5, <1>7, RadioKinds DEF WentOn
<1>10. PICK b \in BOOLEAN : b = (crossed["play"] \/ \E r \in streams : ~r.looked)
  BY Zenon
<1>11. crossed' = [crossed EXCEPT !["play"] = b]
  BY <1>10 DEF StationNamed
<1>12. crossed' \in Crossings /\ crossed'["view"] = crossed["view"]
      /\ crossed'["air"] = crossed["air"] /\ crossed'["play"] = b
  BY <1>1, <1>11 DEF Crossings
<1>13. ASSUME ~crossed'["play"] PROVE Sole(t, PlayOnes, x) /\ PlayPromise(x)'
  <2>1. ~crossed["play"] /\ \A r \in streams : r.looked
    BY <1>10, <1>12, <1>13
  <2>2. PICK d : Sole(calls, PlayOnes, d) /\ PlayPromise(d)
    BY <1>9, <2>1 DEF RadioInOrder, PlayInOrder
  <2>3. ~onAir /\ streams = {}
    BY <2>1, <2>2 DEF PlayPromise
  <2>4. PlayPromise(x)'
    BY <1>1, <1>2, <1>9, <2>3 DEF PlayPromise
  <2> QED
    BY <1>9, <2>2, <2>4
<1>14. PlayInOrder'
  BY <1>9, <1>13 DEF PlayInOrder
<1>15. AirPromise(x)'
  BY <1>1, <1>2, <1>9 DEF AirPromise
<1>16. AirInOrder'
  BY <1>9, <1>12, <1>15 DEF AirInOrder, RadioInOrder
<1>17. c.of \in AtMostOne
  BY <1>3, RadioCallsTyped
<1>18. AirTyped' /\ BackendTyped'
  BY <1>1, <1>2, <1>17 DEF AirTyped, BackendTyped, airVars
<1>19. ViewTyped' /\ ViewInOrder'
  BY <1>1, <1>9, <1>12, ViewUndisturbed
<1> QED
  BY <1>8, <1>9, <1>12, <1>14, <1>16, <1>18, <1>19 DEF RadioInOrder, RadioTypes

\* ... and the new reader is the only one when the flag is raised.
LEMMA StreamInOrderStarts ==
  ASSUME RadioInOrder, OnePoller', NEW i \in DOMAIN calls, StreamStarts(i)
  PROVE  RadioInOrder'
<1>1. /\ RadioTypes /\ AirTyped /\ BackendTyped /\ crossed \in Crossings
      /\ UNCHANGED <<viewVars, favorites, custom>> /\ UNCHANGED airVars
      /\ UNCHANGED <<station, cached, crossed>>
      /\ calls[i].kind = "starting" /\ onAir' = TRUE
      /\ streams' = {[r EXCEPT !.looked = FALSE] : r \in streams}
                       \cup {[of |-> s, looked |-> FALSE] : s \in calls[i].of}
  BY DEF StreamStarts, RadioInOrder, RadioTypes
<1>2. PICK c \in RadioCalls : c = calls[i]
  BY DEF RadioInOrder, RadioTypes
<1>3. c.kind = "starting" /\ c.of \in Singles /\ c \in AirOnes /\ c \in PlayOnes
  BY <1>1, <1>2, RadioKinds DEF AirCalls
<1>4. PICK x : x = RadioCall("playing?", c.of)
  OBVIOUS
<1>5. x \in AirOnes /\ x \in RadioCalls /\ x.kind = "playing?" /\ x.of = c.of
  BY <1>3, <1>4, NewCalls DEF AirOnes, AirCalls
<1>6. PICK t : t = [calls EXCEPT ![i] = x]
  OBVIOUS
<1>7. calls' = t
  <2>1. x = [c EXCEPT !.kind = "playing?"]
    BY <1>4 DEF RadioCall, RadioCalls
  <2> QED
    BY <1>2, <1>6, <2>1 DEF StreamStarts
<1>8. t \in Seq(RadioCalls) /\ WentOn(c, x, t)
  BY <1>1, <1>2, <1>3, <1>6, <1>5, AirCallGoesOn
<1>9. /\ calls' = t /\ x.kind = "playing?" /\ x.of = c.of
      /\ AsBefore(calls, t, ViewOnes)
      /\ ~NoneOf(calls, AirOnes) /\ \A d : Sole(calls, AirOnes, d) => d = c /\ Sole(t, AirOnes, x)
      /\ ~NoneOf(calls, PlayOnes)
      /\ \A d : Sole(calls, PlayOnes, d) => d = c /\ NoneOf(t, PlayOnes)
  BY <1>3, <1>8, <1>5, <1>7, RadioKinds DEF WentOn
<1>10. PICK s \in Station : c.of = {s}
  BY <1>3 DEF Singles
<1>11. ASSUME ~crossed'["play"] PROVE NoneOf(t, PlayOnes) /\ OneSource'
  <2>1. PICK d : Sole(calls, PlayOnes, d) /\ PlayPromise(d)
    BY <1>1, <1>9, <1>11 DEF RadioInOrder, PlayInOrder
  <2>2. NoneOf(t, PlayOnes) /\ d = c
    BY <1>9, <2>1
  <2>3. streams = {} /\ cached = {} /\ station \subseteq {s}
    BY <1>3, <1>10, <2>1, <2>2 DEF PlayPromise
  <2>4. \A r \in streams' : r.of = s
    BY <1>1, <1>2, <1>10, <2>3
  <2> QED
    BY <1>1, <2>2, <2>3, <2>4 DEF OneSource
<1>12. PlayInOrder'
  BY <1>9, <1>11 DEF PlayInOrder
<1>13. ASSUME ~crossed'["air"] PROVE Sole(t, AirOnes, x) /\ AirPromise(x)'
  <2>1. PICK d : Sole(calls, AirOnes, d) /\ AirPromise(d)
    BY <1>1, <1>9, <1>13 DEF RadioInOrder, AirInOrder
  <2>2. Sole(t, AirOnes, x) /\ station = c.of
    BY <1>3, <1>9, <2>1 DEF AirPromise
  <2> QED
    BY <1>1, <1>9, <2>2 DEF AirPromise
<1>14. AirInOrder'
  BY <1>9, <1>13 DEF AirInOrder
<1>15. streams' \subseteq [of : Station, looked : BOOLEAN]
  <2>1. {[r EXCEPT !.looked = FALSE] : r \in streams} \subseteq [of : Station, looked : BOOLEAN]
    BY <1>1 DEF BackendTyped
  <2>2. streams' = {[r EXCEPT !.looked = FALSE] : r \in streams} \cup {[of |-> s, looked |-> FALSE]}
    BY <1>1, <1>2, <1>10
  <2>3. [of |-> s, looked |-> FALSE] \in [of : Station, looked : BOOLEAN]
    OBVIOUS
  <2> QED
    BY <2>1, <2>2, <2>3, Zenon
<1>16. AirTyped' /\ BackendTyped'
  BY <1>1, <1>15 DEF AirTyped, BackendTyped, airVars
<1>17. ViewTyped' /\ ViewInOrder'
  BY <1>1, <1>9, ViewUndisturbed
<1> QED
  BY <1>8, <1>1, <1>9, <1>12, <1>14, <1>16, <1>17 DEF RadioInOrder, RadioTypes

\* radio_play fails: the flag stays down, and nothing is said about what plays.
LEMMA PlayFailsInOrder ==
  ASSUME RadioInOrder, OnePoller', NEW i \in DOMAIN calls, PlayFails(i)
  PROVE  RadioInOrder'
<1>1. /\ RadioTypes /\ AirTyped /\ BackendTyped /\ calls \in Seq(RadioCalls) /\ crossed \in Crossings
      /\ UNCHANGED <<viewVars, favorites, custom>> /\ UNCHANGED airVars
      /\ calls[i].kind = "starting" /\ UNCHANGED <<onAir, station, streams, cached>>
      /\ calls' = RemoveAt(calls, i) /\ crossed' = [crossed EXCEPT !["air"] = TRUE]
  BY DEF PlayFails, RadioInOrder, RadioTypes, backendVars
<1>2. PICK c \in RadioCalls : c = calls[i]
  BY <1>1
<1>3. c \in PlayOnes /\ c \notin ViewOnes
  BY <1>1, <1>2, RadioKinds DEF AirCalls
<1>4. PICK t : t = RemoveAt(calls, i)
  OBVIOUS
<1>5. /\ t \in Seq(RadioCalls) /\ AsBefore(calls, t, ViewOnes)
      /\ \A d : Sole(calls, PlayOnes, d) => NoneOf(t, PlayOnes)
      /\ ~NoneOf(calls, PlayOnes)
  BY <1>1, <1>2, <1>3, <1>4, SoleLess DEF NoneOf
<1>6. calls' = t
  BY <1>1, <1>4
<1>7. crossed' \in Crossings /\ crossed'["air"] /\ UNCHANGED crossed["view"] /\ UNCHANGED crossed["play"]
  BY <1>1 DEF Crossings
<1>8. ASSUME ~crossed'["play"] PROVE NoneOf(t, PlayOnes) /\ OneSource'
  <2>1. PICK d : Sole(calls, PlayOnes, d) /\ PlayPromise(d)
    BY <1>5, <1>7, <1>8 DEF RadioInOrder, PlayInOrder
  <2> QED
    BY <1>1, <1>5, <2>1 DEF OneSource, PlayPromise
<1>9. PlayInOrder'
  BY <1>6, <1>8 DEF PlayInOrder
<1>10. AirInOrder'
  BY <1>7 DEF AirInOrder
<1>11. AirTyped' /\ BackendTyped'
  BY <1>1 DEF AirTyped, BackendTyped, airVars
<1>12. ViewTyped' /\ ViewInOrder'
  BY <1>1, <1>5, <1>6, <1>7, ViewUndisturbed
<1> QED
  BY <1>5, <1>6, <1>7, <1>9, <1>10, <1>11, <1>12 DEF RadioInOrder, RadioTypes

\* The answer to a play: what the panel takes for playing is what the backend plays.
LEMMA PlayingInOrder ==
  ASSUME RadioInOrder, OnePoller', NEW i \in DOMAIN calls, PlayingNow(i)
  PROVE  RadioInOrder'
<1>1. /\ RadioTypes /\ AirTyped /\ BackendTyped /\ calls \in Seq(RadioCalls)
      /\ UNCHANGED <<visible, favorites, custom>> /\ UNCHANGED <<onAir, station, streams, cached>>
      /\ calls[i].kind = "playing?" /\ radioPlaying' = TRUE /\ nowPlaying' = calls[i].of
      /\ RenderPlaying(TRUE, calls[i].of, RemoveAt(calls, i))
  BY DEF PlayingNow, RadioInOrder, RadioTypes, backendVars
<1>2. PICK c \in RadioCalls : c = calls[i]
  BY <1>1
<1>3. c.of \in AtMostOne /\ c \in AirOnes /\ c \notin PlayOnes /\ c.kind = "playing?"
  BY <1>1, <1>2, RadioKinds DEF AirCalls
<1>4. PICK o : o = RemoveAt(calls, i)
  OBVIOUS
<1>5. /\ o \in Seq(RadioCalls) /\ AsBefore(calls, o, PlayOnes)
      /\ \A d : Sole(calls, AirOnes, d) => d = c /\ NoneOf(o, AirOnes)
  BY <1>1, <1>2, <1>3, <1>4, SoleLess
<1>6. ~NoneOf(calls, AirOnes)
  BY <1>2, <1>3 DEF NoneOf
<1>7. Rendered(o)
  BY <1>1, <1>2, <1>3, <1>4, <1>5, RenderPlayingKeeps
<1>8. PICK t \in Seq(RadioCalls) : calls' = t /\ AsBefore(o, t, PlayOnes) /\ AsBefore(o, t, AirOnes)
  BY <1>7 DEF Rendered
<1>9. AsBefore(calls, t, PlayOnes)
  BY <1>5, <1>8, StillAsBefore
<1>10. /\ crossed' \in Crossings
       /\ crossed'["air"] = crossed["air"] /\ crossed'["play"] = crossed["play"]
  BY <1>7 DEF Rendered
<1>11. PlayInOrder'
  BY <1>1, <1>8, <1>9, <1>10, PlaySame DEF RadioInOrder
<1>12. ASSUME ~crossed'["air"] PROVE NoneOf(t, AirOnes) /\ AirAgrees'
  <2>1. NoneOf(o, AirOnes) /\ AirPromise(c)
    BY <1>5, <1>6, <1>10, <1>12 DEF RadioInOrder, AirInOrder
  <2>2. onAir /\ station = c.of
    BY <1>3, <2>1 DEF AirPromise
  <2>3. AirAgrees'
    <3>1. onAir = TRUE /\ c.of \in Singles
      BY <1>1, <1>2, <2>2, RadioKinds DEF BackendTyped
    <3>2. radioPlaying' = onAir' /\ nowPlaying' = station' /\ station' \in Singles
      BY <1>1, <1>2, <2>2, <3>1
    <3> QED
      BY <3>2 DEF AirAgrees
  <2> QED
    BY <1>8, <2>1, <2>3 DEF AsBefore
<1>13. AirInOrder'
  BY <1>8, <1>12 DEF AirInOrder
<1>14. nowPlayingInterval' \in Handles /\ intervals' \subseteq Handles
  <2>1. Cleared = {}
    BY <1>1 DEF RadioTypes, OnePoller, Cleared
  <2>2. nowPlayingInterval' = (CHOOSE x \in Handles : x \notin Cleared)
        /\ intervals' = Cleared \cup {nowPlayingInterval'}
    BY DEF PlayingNow
  <2>3. nowPlayingInterval' \in Handles
    BY <2>1, <2>2 DEF Handles
  <2> QED
    BY <2>1, <2>2, <2>3
<1>15. AirTyped' /\ BackendTyped'
  BY <1>1, <1>2, <1>3, <1>14 DEF AirTyped, BackendTyped
<1>16. ViewTyped' /\ ViewInOrder'
  BY <1>1, <1>7 DEF Rendered, RadioTypes, ViewTyped
<1> QED
  BY <1>8, <1>10, <1>11, <1>13, <1>15, <1>16 DEF RadioInOrder, RadioTypes

\* The stop button: the panel says so at once; the backend is yet to be stopped.
LEMMA StopInOrder ==
  ASSUME RadioInOrder, OnePoller', ClickStop
  PROVE  RadioInOrder'
<1>1. /\ RadioTypes /\ AirTyped /\ BackendTyped /\ calls \in Seq(RadioCalls)
      /\ UNCHANGED <<viewVars, favorites, custom>> /\ UNCHANGED <<onAir, station, streams, cached>>
      /\ radioPlaying' = FALSE /\ nowPlaying' = {}
      /\ nowPlayingInterval' = 0 /\ intervals' = Cleared /\ crossed' = AirCrosses(FALSE)
  BY DEF ClickStop, RadioInOrder, RadioTypes, backendVars
<1>2. {} \in AtMostOne
  BY RadioCallsTyped
<1>3. PICK c \in RadioCalls : c = RadioCall("stopping", {})
  BY <1>2, NewCalls
<1>4. c.kind = "stopping" /\ c \in AirOnes /\ c \notin PlayOnes /\ c \notin ViewOnes
  <2>1. c.kind = "stopping"
    BY <1>3, NewCalls
  <2> QED
    BY <2>1, RadioKinds DEF AirCalls
<1>5. PICK t : t = Append(calls, c)
  OBVIOUS
<1>6. /\ t \in Seq(RadioCalls) /\ AsBefore(calls, t, ViewOnes) /\ AsBefore(calls, t, PlayOnes)
      /\ NoneOf(calls, AirOnes) => Sole(t, AirOnes, c)
  BY <1>1, <1>4, <1>5, SoleMore
<1>7. calls' = t
  BY <1>3, <1>5 DEF ClickStop
<1>8. PICK x : x = AirCrosses(FALSE)
  OBVIOUS
<1>9. x \in Crossings /\ x["view"] = crossed["view"] /\ x["play"] = crossed["play"]
      /\ (~x["air"] => NoneOf(calls, AirOnes))
  BY <1>1, <1>8, AirCrossesOnly
<1>10. crossed' = x
  BY <1>1, <1>8
<1>11. PlayInOrder'
  BY <1>1, <1>6, <1>7, <1>9, <1>10, PlaySame DEF RadioInOrder
<1>12. AirPromise(c)'
  BY <1>1, <1>4 DEF AirPromise
<1>13. AirInOrder'
  BY <1>6, <1>7, <1>9, <1>10, <1>12 DEF AirInOrder
<1>14. AirTyped' /\ BackendTyped'
  BY <1>1, <1>2 DEF AirTyped, BackendTyped, Cleared
<1>15. ViewTyped' /\ ViewInOrder'
  BY <1>1, <1>6, <1>7, <1>9, <1>10, ViewUndisturbed
<1> QED
  BY <1>6, <1>7, <1>9, <1>10, <1>11, <1>13, <1>14, <1>15 DEF RadioInOrder, RadioTypes

\* radio_stop: nothing is read any longer, even if a play is under way.
LEMMA BackendStopsInOrder ==
  ASSUME RadioInOrder, OnePoller', NEW i \in DOMAIN calls, RadioStops(i)
  PROVE  RadioInOrder'
<1>1. /\ RadioTypes /\ AirTyped /\ BackendTyped /\ crossed \in Crossings
      /\ UNCHANGED <<viewVars, favorites, custom>> /\ UNCHANGED <<streams, cached, crossed>>
      /\ UNCHANGED <<radioPlaying, nowPlaying, nowPlayingInterval, intervals>>
      /\ calls[i].kind = "stopping" /\ onAir' = FALSE /\ station' = {}
  BY DEF RadioStops, StopRadio, RadioInOrder, RadioTypes, airVars
<1>2. PICK c \in RadioCalls : c = calls[i]
  BY DEF RadioInOrder, RadioTypes
<1>3. c.kind = "stopping" /\ c.of \in AtMostOne /\ c \in AirOnes /\ c \notin PlayOnes
  BY <1>1, <1>2, RadioKinds DEF AirCalls
<1>4. PICK x : x = RadioCall("stop", c.of)
  OBVIOUS
<1>5. x \in AirOnes /\ x \in RadioCalls /\ x.kind = "stop" /\ x.of = c.of
  BY <1>3, <1>4, NewCalls DEF AirOnes, AirCalls
<1>6. PICK t : t = [calls EXCEPT ![i] = x]
  OBVIOUS
<1>7. calls' = t
  <2>1. x = [c EXCEPT !.kind = "stop"]
    BY <1>4 DEF RadioCall, RadioCalls
  <2> QED
    BY <1>2, <1>6, <2>1 DEF RadioStops
<1>8. t \in Seq(RadioCalls) /\ WentOn(c, x, t)
  BY <1>1, <1>2, <1>3, <1>6, <1>5, AirCallGoesOn
<1>9. /\ calls' = t /\ x.kind = "stop" /\ AsBefore(calls, t, ViewOnes)
      /\ ~NoneOf(calls, AirOnes) /\ \A d : Sole(calls, AirOnes, d) => d = c /\ Sole(t, AirOnes, x)
  BY <1>8, <1>5, <1>7 DEF WentOn
<1>10. AsBefore(calls, t, PlayOnes)
  BY <1>3, <1>8, <1>5, <1>7, RadioKinds DEF WentOn
<1>11. OneSource'
  BY <1>1 DEF OneSource
<1>12. ASSUME NEW d, PlayPromise(d) PROVE PlayPromise(d)'
  BY <1>1, <1>12 DEF PlayPromise
<1>13. NoneOf(calls, PlayOnes) => NoneOf(t, PlayOnes)
  BY <1>10 DEF AsBefore
<1>14. \A d : Sole(calls, PlayOnes, d) => Sole(t, PlayOnes, d)
  BY <1>10 DEF AsBefore
<1>15. PlayInOrder'
  BY <1>1, <1>9, <1>11, <1>12, <1>13, <1>14 DEF PlayInOrder, RadioInOrder
<1>16. ASSUME ~crossed'["air"] PROVE Sole(t, AirOnes, x) /\ AirPromise(x)'
  <2>1. PICK d : Sole(calls, AirOnes, d) /\ AirPromise(d)
    BY <1>1, <1>9, <1>16 DEF RadioInOrder, AirInOrder
  <2>2. Sole(t, AirOnes, x) /\ ~radioPlaying
    BY <1>3, <1>9, <2>1 DEF AirPromise
  <2> QED
    BY <1>1, <1>9, <2>2 DEF AirPromise
<1>17. AirInOrder'
  BY <1>9, <1>16 DEF AirInOrder
<1>18. AirTyped' /\ BackendTyped'
  BY <1>1, RadioCallsTyped DEF AirTyped, BackendTyped
<1>19. ViewTyped' /\ ViewInOrder'
  BY <1>1, <1>9, ViewUndisturbed
<1> QED
  BY <1>8, <1>1, <1>9, <1>15, <1>17, <1>18, <1>19 DEF RadioInOrder, RadioTypes

\* The answer to a stop: nothing plays, and the view is rendered.
LEMMA StoppedInOrder ==
  ASSUME RadioInOrder, OnePoller', NEW i \in DOMAIN calls, Stopped(i)
  PROVE  RadioInOrder'
<1>1. /\ RadioTypes /\ AirTyped /\ BackendTyped /\ calls \in Seq(RadioCalls)
      /\ UNCHANGED <<visible, favorites, custom>> /\ UNCHANGED <<onAir, station, streams, cached>>
      /\ UNCHANGED <<radioPlaying, nowPlaying, nowPlayingInterval, intervals>>
      /\ calls[i].kind = "stop" /\ RenderPlaying(radioPlaying, nowPlaying, RemoveAt(calls, i))
  BY DEF Stopped, RadioInOrder, RadioTypes, airVars, backendVars
<1>2. PICK c \in RadioCalls : c = calls[i]
  BY <1>1
<1>3. c \in AirOnes /\ c \notin PlayOnes /\ c.kind = "stop"
  BY <1>1, <1>2, RadioKinds DEF AirCalls
<1>4. PICK o : o = RemoveAt(calls, i)
  OBVIOUS
<1>5. /\ o \in Seq(RadioCalls) /\ AsBefore(calls, o, PlayOnes)
      /\ \A d : Sole(calls, AirOnes, d) => d = c /\ NoneOf(o, AirOnes)
  BY <1>1, <1>2, <1>3, <1>4, SoleLess
<1>6. ~NoneOf(calls, AirOnes)
  BY <1>2, <1>3 DEF NoneOf
<1>7. Rendered(o)
  <2>1. radioPlaying \in BOOLEAN /\ nowPlaying \in AtMostOne
    BY <1>1 DEF AirTyped
  <2>2. RenderPlaying(radioPlaying, nowPlaying, o)
    BY <1>1, <1>4
  <2>3. PICK plays \in BOOLEAN, playing \in AtMostOne : plays = radioPlaying /\ playing = nowPlaying
    BY <2>1, Zenon
  <2>4. RenderPlaying(plays, playing, o)
    BY <2>2, <2>3
  <2> QED
    BY <1>1, <1>5, <2>4, RenderPlayingKeeps
<1>8. PICK t \in Seq(RadioCalls) : calls' = t /\ AsBefore(o, t, PlayOnes) /\ AsBefore(o, t, AirOnes)
  BY <1>7 DEF Rendered
<1>9. AsBefore(calls, t, PlayOnes)
  BY <1>5, <1>8, StillAsBefore
<1>10. /\ crossed' \in Crossings
       /\ crossed'["air"] = crossed["air"] /\ crossed'["play"] = crossed["play"]
  BY <1>7 DEF Rendered
<1>11. PlayInOrder'
  BY <1>1, <1>8, <1>9, <1>10, PlaySame DEF RadioInOrder
<1>12. ASSUME ~crossed'["air"] PROVE NoneOf(t, AirOnes) /\ AirAgrees'
  <2>1. NoneOf(o, AirOnes) /\ AirPromise(c)
    BY <1>5, <1>6, <1>10, <1>12 DEF RadioInOrder, AirInOrder
  <2>2. ~radioPlaying /\ ~onAir
    BY <1>3, <2>1 DEF AirPromise
  <2>3. radioPlaying = FALSE /\ onAir = FALSE
    BY <1>1, <2>2 DEF AirTyped, BackendTyped
  <2>4. AirAgrees'
    BY <1>1, <2>3 DEF AirAgrees
  <2> QED
    BY <1>8, <2>1, <2>4 DEF AsBefore
<1>13. AirInOrder'
  BY <1>8, <1>12 DEF AirInOrder
<1>14. AirTyped' /\ BackendTyped'
  BY <1>1 DEF AirTyped, BackendTyped
<1>15. ViewTyped' /\ ViewInOrder'
  BY <1>1, <1>7 DEF Rendered, RadioTypes, ViewTyped
<1> QED
  BY <1>8, <1>10, <1>11, <1>13, <1>14, <1>15 DEF RadioInOrder, RadioTypes

\* The interval asks the backend what plays, or stops itself.
LEMMA PollInOrder ==
  ASSUME RadioInOrder, OnePoller', NEW h \in intervals, Poll(h)
  PROVE  RadioInOrder'
<1>1. /\ RadioTypes /\ AirTyped /\ BackendTyped /\ calls \in Seq(RadioCalls) /\ crossed \in Crossings
      /\ UNCHANGED <<viewVars, favorites, custom>> /\ UNCHANGED <<onAir, station, streams, cached>>
      /\ UNCHANGED <<radioPlaying, nowPlaying, nowPlayingInterval>>
      /\ intervals' = intervals \/ intervals' = Cleared
  BY DEF Poll, RadioInOrder, RadioTypes, backendVars
<1>2. AirTyped' /\ BackendTyped'
  BY <1>1 DEF AirTyped, BackendTyped, Cleared
<1>3. PICK s \in Seq(RadioCalls) : s = calls
  BY <1>1
<1>4. CASE ~radioPlaying
  <2>1. calls' = s /\ UNCHANGED crossed
    BY <1>3, <1>4 DEF Poll
  <2>2. AsBefore(calls, s, PlayOnes) /\ AsBefore(calls, s, AirOnes) /\ AsBefore(calls, s, ViewOnes)
    BY <1>3, StillAsBefore
  <2>3. PlayInOrder'
    BY <1>1, <2>1, <2>2, PlaySame DEF RadioInOrder
  <2>4. AirInOrder'
    BY <1>1, <2>1, <2>2, AirSame DEF RadioInOrder
  <2>5. ViewTyped' /\ ViewInOrder'
    BY <1>1, <2>1, <2>2, ViewUndisturbed
  <2> QED
    BY <1>1, <1>2, <2>1, <2>3, <2>4, <2>5 DEF RadioInOrder, RadioTypes
<1>5. CASE radioPlaying
  <2>1. PICK S \in AtMostOne : S = IF onAir THEN station ELSE {}
    BY <1>1, RadioCallsTyped DEF BackendTyped
  <2>2. PICK c \in RadioCalls : c = RadioCall("poll", S)
    BY NewCalls
  <2>3. c.kind = "poll" /\ c.of = S /\ c \in AirOnes /\ c \notin PlayOnes /\ c \notin ViewOnes
    <3>1. c.kind = "poll" /\ c.of = S
      BY <2>2, NewCalls
    <3> QED
      BY <3>1, RadioKinds DEF AirCalls
  <2>4. PICK t : t = Append(calls, c)
    OBVIOUS
  <2>5. /\ t \in Seq(RadioCalls) /\ AsBefore(calls, t, ViewOnes) /\ AsBefore(calls, t, PlayOnes)
        /\ NoneOf(calls, AirOnes) => Sole(t, AirOnes, c)
    BY <1>1, <2>3, <2>4, SoleMore
  <2>6. calls' = t /\ crossed' = AirCrosses(FALSE)
    BY <1>5, <2>1, <2>2, <2>4 DEF Poll
  <2>7. PICK x : x = AirCrosses(FALSE)
    OBVIOUS
  <2>8. x \in Crossings /\ x["view"] = crossed["view"] /\ x["play"] = crossed["play"]
        /\ (~x["air"] => ~crossed["air"] /\ NoneOf(calls, AirOnes))
    BY <1>1, <2>7, AirCrossesOnly
  <2>9. crossed' = x
    BY <2>6, <2>7
  <2>10. PlayInOrder'
    BY <1>1, <2>5, <2>6, <2>8, <2>9, PlaySame DEF RadioInOrder
  <2>11. ASSUME ~crossed'["air"] PROVE Sole(t, AirOnes, c) /\ AirPromise(c)'
    <3>1. ~crossed["air"] /\ NoneOf(calls, AirOnes)
      BY <2>8, <2>9, <2>11
    <3>2. AirAgrees
      BY <3>1 DEF RadioInOrder, AirInOrder, Sole, NoneOf
    <3>3. AirAgrees'
      BY <1>1, <2>8, <2>9, <3>2 DEF AirAgrees
    <3>4. AirPromise(c)'
      BY <1>1, <2>1, <2>3, <3>3 DEF AirPromise
    <3> QED
      BY <2>5, <3>1, <3>4
  <2>12. AirInOrder'
    BY <2>6, <2>11 DEF AirInOrder
  <2>13. ViewTyped' /\ ViewInOrder'
    BY <1>1, <2>5, <2>6, <2>8, <2>9, ViewUndisturbed
  <2> QED
    BY <1>2, <2>5, <2>6, <2>8, <2>9, <2>10, <2>12, <2>13 DEF RadioInOrder, RadioTypes
<1> QED
  BY <1>4, <1>5

\* A title arrives: if nothing overlapped, it is the title of what plays.
LEMMA TitleInOrder ==
  ASSUME RadioInOrder, OnePoller', NEW i \in DOMAIN calls, NowPlayingArrives(i)
  PROVE  RadioInOrder'
<1>1. /\ RadioTypes /\ AirTyped /\ BackendTyped /\ ViewTyped /\ calls \in Seq(RadioCalls)
      /\ UNCHANGED <<visible, currentView, favorites, custom, crossed>>
      /\ UNCHANGED <<onAir, station, streams, cached>>
      /\ UNCHANGED <<radioPlaying, nowPlayingInterval, intervals>>
      /\ calls[i].kind \in {"poll", "event"} /\ calls' = RemoveAt(calls, i)
      /\ nowPlaying' = (IF calls[i].of = {} THEN nowPlaying ELSE calls[i].of)
      /\ content' = Retitled(calls[i].of)
  BY DEF NowPlayingArrives, RadioInOrder, RadioTypes, backendVars
<1>2. PICK c \in RadioCalls : c = calls[i]
  BY <1>1
<1>3. /\ c.of \in AtMostOne /\ c.kind \in {"poll", "event"}
      /\ c \in AirOnes /\ c \notin PlayOnes /\ c \notin ViewOnes
  BY <1>1, <1>2, RadioKinds DEF AirCalls
<1>4. PICK t : t = RemoveAt(calls, i)
  OBVIOUS
<1>5. /\ t \in Seq(RadioCalls) /\ AsBefore(calls, t, PlayOnes) /\ AsBefore(calls, t, ViewOnes)
      /\ \A d : Sole(calls, AirOnes, d) => d = c /\ NoneOf(t, AirOnes)
  BY <1>1, <1>2, <1>3, <1>4, SoleLess
<1>6. ~NoneOf(calls, AirOnes)
  BY <1>2, <1>3 DEF NoneOf
<1>7. calls' = t
  BY <1>1, <1>4
<1>8. PlayInOrder'
  BY <1>1, <1>5, <1>7, PlaySame DEF RadioInOrder
<1>9. ASSUME ~crossed'["air"] PROVE NoneOf(t, AirOnes) /\ AirAgrees'
  <2>1. NoneOf(t, AirOnes) /\ AirPromise(c)
    BY <1>1, <1>5, <1>6, <1>9 DEF RadioInOrder, AirInOrder
  <2>2. AirAgrees /\ (onAir /\ ~crossed["play"] => c.of = station)
    BY <1>3, <2>1 DEF AirPromise
  <2>3. AirAgrees'
    BY <1>1, <1>2, <2>2 DEF AirAgrees
  <2> QED
    BY <2>1, <2>3
<1>10. AirInOrder'
  BY <1>7, <1>9 DEF AirInOrder
<1>11. AirTyped' /\ BackendTyped'
  BY <1>1, <1>2, <1>3 DEF AirTyped, BackendTyped
<1>12. c.of \in SUBSET Station
  BY <1>3, RadioCallsTyped
<1>13. /\ content' \in Contents /\ content'.view = content.view
       /\ content.view \in {"favorites", "custom"} => content' = content
  <2>1. content \in Contents
    BY <1>1 DEF ViewTyped
  <2> QED
    BY <1>1, <1>2, <1>12, <2>1 DEF Retitled, Contents
<1>14. ViewTyped'
  BY <1>1, <1>13 DEF ViewTyped
<1>15. ViewInOrder'
  BY <1>1, <1>5, <1>7, <1>13, ViewSame DEF RadioInOrder
<1> QED
  BY <1>1, <1>5, <1>7, <1>8, <1>10, <1>11, <1>14, <1>15 DEF RadioInOrder, RadioTypes

-----------------------------------------------------------------------------
\* A reader that sees the flag up reads the station that plays.
LEMMA ReadInOrder ==
  ASSUME RadioInOrder, OnePoller', NEW r \in streams, NEW titled \in BOOLEAN, StreamReads(r, titled)
  PROVE  RadioInOrder'
<1>1. /\ RadioTypes /\ AirTyped /\ BackendTyped /\ calls \in Seq(RadioCalls) /\ crossed \in Crossings
      /\ UNCHANGED <<viewVars, favorites, custom>> /\ UNCHANGED <<onAir, station>>
      /\ UNCHANGED <<radioPlaying, nowPlaying, nowPlayingInterval, intervals>>
      /\ cached' = cached \cup {r.of}
      /\ streams' = (streams \ {r})
                      \cup (IF onAir THEN {[r EXCEPT !.looked = Pending({"play"})]} ELSE {})
  BY DEF StreamReads, RadioInOrder, RadioTypes, airVars
<1>2. r \in [of : Station, looked : BOOLEAN] /\ streams \subseteq [of : Station, looked : BOOLEAN]
      /\ cached \subseteq Station
  BY <1>1 DEF BackendTyped
<1>3. PICK b \in BOOLEAN : b = Pending({"play"})
  BY Zenon DEF Pending
<1>4. PICK q : q = [r EXCEPT !.looked = b]
  OBVIOUS
<1>5. q \in [of : Station, looked : BOOLEAN] /\ q.of = r.of
  BY <1>2, <1>4
<1>6. streams' = (streams \ {r}) \cup (IF onAir THEN {q} ELSE {})
  BY <1>1, <1>3, <1>4
<1>7. streams' \subseteq [of : Station, looked : BOOLEAN] /\ cached' \subseteq Station
  BY <1>1, <1>2, <1>5, <1>6
<1>8. AirTyped' /\ BackendTyped'
  BY <1>1, <1>7 DEF AirTyped, BackendTyped
<1>9. OneSource => OneSource'
  BY <1>1, <1>5, <1>6 DEF OneSource
<1>10. ~onAir => streams' \subseteq streams
  BY <1>6
<1>11. ASSUME NEW d, PlayPromise(d) PROVE PlayPromise(d)'
  BY <1>1, <1>10, <1>11 DEF PlayPromise
<1>12. ASSUME NEW t, calls' = t, AsBefore(calls, t, PlayOnes), crossed'["play"] = crossed["play"]
       PROVE  PlayInOrder'
  <2>1. NoneOf(calls, PlayOnes) => NoneOf(t, PlayOnes)
    BY <1>12 DEF AsBefore
  <2>2. \A d : Sole(calls, PlayOnes, d) => Sole(t, PlayOnes, d)
    BY <1>12 DEF AsBefore
  <2> QED
    BY <1>9, <1>12, <1>11, <2>1, <2>2 DEF PlayInOrder, RadioInOrder
<1>13. CASE ~titled
  <2>1. PICK t \in Seq(RadioCalls) : t = calls
    BY <1>1
  <2>2. calls' = t /\ UNCHANGED crossed
    BY <1>13, <2>1 DEF StreamReads
  <2>3. AsBefore(calls, t, PlayOnes) /\ AsBefore(calls, t, AirOnes) /\ AsBefore(calls, t, ViewOnes)
    BY <2>1, StillAsBefore
  <2>4. PlayInOrder'
    BY <1>12, <2>2, <2>3
  <2>5. AirInOrder'
    BY <1>1, <2>2, <2>3, AirSame DEF RadioInOrder
  <2>6. ViewTyped' /\ ViewInOrder'
    BY <1>1, <2>2, <2>3, ViewUndisturbed
  <2> QED
    BY <1>1, <1>8, <2>2, <2>4, <2>5, <2>6 DEF RadioInOrder, RadioTypes
<1>14. CASE titled
  <2>1. PICK c \in RadioCalls : c = RadioCall("event", {r.of})
    BY <1>2, NewCalls DEF Singles
  <2>2. c.kind = "event" /\ c.of = {r.of} /\ c \in AirOnes /\ c \notin PlayOnes /\ c \notin ViewOnes
    <3>1. c.kind = "event" /\ c.of = {r.of}
      BY <2>1, NewCalls
    <3> QED
      BY <3>1, RadioKinds DEF AirCalls
  <2>3. PICK t : t = Append(calls, c)
    OBVIOUS
  <2>4. /\ t \in Seq(RadioCalls) /\ AsBefore(calls, t, ViewOnes) /\ AsBefore(calls, t, PlayOnes)
        /\ NoneOf(calls, AirOnes) => Sole(t, AirOnes, c)
    BY <1>1, <2>2, <2>3, SoleMore
  <2>5. calls' = t /\ crossed' = AirCrosses(FALSE)
    BY <1>14, <2>1, <2>3 DEF StreamReads
  <2>6. PICK x : x = AirCrosses(FALSE)
    OBVIOUS
  <2>7. x \in Crossings /\ x["view"] = crossed["view"] /\ x["play"] = crossed["play"]
        /\ (~x["air"] => ~crossed["air"] /\ NoneOf(calls, AirOnes))
    BY <1>1, <2>6, AirCrossesOnly
  <2>8. crossed' = x
    BY <2>5, <2>6
  <2>9. PlayInOrder'
    BY <1>12, <2>4, <2>5, <2>7, <2>8
  <2>10. ASSUME ~crossed'["air"] PROVE Sole(t, AirOnes, c) /\ AirPromise(c)'
    <3>1. ~crossed["air"] /\ NoneOf(calls, AirOnes)
      BY <2>7, <2>8, <2>10
    <3>2. AirAgrees
      BY <3>1 DEF RadioInOrder, AirInOrder, Sole, NoneOf
    <3>3. AirAgrees'
      BY <1>1, <2>7, <2>8, <3>2 DEF AirAgrees
    <3>4. ASSUME onAir, ~crossed["play"] PROVE {r.of} = station
      <4>1. OneSource
        BY <3>4 DEF RadioInOrder, PlayInOrder, PlayPromise
      <4>2. station \in Singles
        BY <3>2, <3>4 DEF AirAgrees
      <4> QED
        BY <3>4, <4>1, <4>2 DEF OneSource, Singles
    <3>5. AirPromise(c)'
      BY <1>1, <2>2, <2>7, <2>8, <3>3, <3>4 DEF AirPromise
    <3> QED
      BY <2>4, <3>1, <3>5
  <2>11. AirInOrder'
    BY <2>5, <2>10 DEF AirInOrder
  <2>12. ViewTyped' /\ ViewInOrder'
    BY <1>1, <2>4, <2>5, <2>7, <2>8, ViewUndisturbed
  <2> QED
    BY <1>8, <2>4, <2>5, <2>7, <2>8, <2>9, <2>11, <2>12 DEF RadioInOrder, RadioTypes
<1> QED
  BY <1>13, <1>14

\* A stream breaks off: a reader less.
LEMMA BreakInOrder ==
  ASSUME RadioInOrder, OnePoller', NEW r \in streams, StreamBreaks(r)
  PROVE  RadioInOrder'
<1>1. /\ streams' = streams \ {r} /\ UNCHANGED <<onAir, station, cached, calls, crossed>>
      /\ UNCHANGED <<visible, currentView, content, favorites, custom>>
      /\ UNCHANGED <<radioPlaying, nowPlaying, nowPlayingInterval, intervals>>
  BY DEF StreamBreaks, viewVars, airVars
<1>2. PlayInOrder'
  BY <1>1 DEF RadioInOrder, PlayInOrder, OneSource, PlayPromise
<1>3. AirInOrder'
  BY <1>1 DEF RadioInOrder, AirInOrder, AirAgrees, AirPromise
<1>4. ViewInOrder'
  BY <1>1 DEF RadioInOrder, ViewInOrder, TabTrue, ViewPromise
<1>5. ViewTyped' /\ AirTyped' /\ BackendTyped'
  BY <1>1 DEF RadioInOrder, RadioTypes, ViewTyped, AirTyped, BackendTyped
<1> QED
  BY <1>1, <1>2, <1>3, <1>4, <1>5 DEF RadioInOrder, RadioTypes

-----------------------------------------------------------------------------
\* At the start nothing plays and nothing is shown.
LEMMA RadioStart == RadioInit => RadioInOrder
<1> SUFFICES ASSUME RadioInit PROVE RadioInOrder
  OBVIOUS
<1>1. NoneOf(calls, PlayOnes) /\ NoneOf(calls, AirOnes) /\ NoneOf(calls, ViewOnes)
      /\ calls \in Seq(RadioCalls)
  BY NothingListed DEF RadioInit
<1>2. PlayInOrder
  BY <1>1 DEF RadioInit, PlayInOrder, OneSource
<1>3. AirInOrder
  BY <1>1 DEF RadioInit, AirInOrder, AirAgrees
<1>4. ViewInOrder
  BY DEF RadioInit, ViewInOrder
<1>5. {} \in AtMostOne
  BY RadioCallsTyped
<1>6. ViewTyped /\ AirTyped /\ BackendTyped
  BY <1>5 DEF RadioInit, ViewTyped, AirTyped, BackendTyped, Views, Contents, Empty
<1>7. OnePoller
  BY PollerInit
<1>8. crossed \in Crossings
  BY DEF RadioInit, Crossings
<1> QED
  BY <1>1, <1>2, <1>3, <1>4, <1>6, <1>7, <1>8 DEF RadioInOrder, RadioTypes

\* Every step keeps the radio in order.
LEMMA RadioStep == RadioInOrder /\ [RadioNext]_radioVars => RadioInOrder'
<1> SUFFICES ASSUME RadioInOrder, [RadioNext]_radioVars
             PROVE  RadioInOrder'
  OBVIOUS
<1>1. OnePoller'
  BY PollerStep DEF RadioInOrder, RadioTypes
<1>2. CASE ToggleRadioPanel
  BY <1>1, <1>2, ToggleInOrder
<1>3. CASE ClickTag \/ SearchStations
  BY <1>1, <1>3, AskInOrder
<1>4. CASE ClickStop
  BY <1>1, <1>4, StopInOrder
<1>5. ASSUME NEW view \in Views, ClickTab(view) PROVE RadioInOrder'
  BY <1>1, <1>5, TabInOrder
<1>6. ASSUME NEW s \in Station, AddFavorite(s) PROVE RadioInOrder'
  BY <1>1, <1>6, StarInOrder
<1>7. ASSUME NEW s \in Station, RemoveFavorite(s) \/ EditCustom(s) PROVE RadioInOrder'
  BY <1>1, <1>7, EditInOrder
<1>8. ASSUME NEW s \in Station, ClickPlay(s) PROVE RadioInOrder'
  BY <1>1, <1>8, PlayInOrderStarts
<1>9. ASSUME NEW i \in DOMAIN calls, RenderAnswered(i) PROVE RadioInOrder'
  BY <1>1, <1>9, AnswerInOrder
<1>10. ASSUME NEW i \in DOMAIN calls, StationNamed(i) \/ StreamStarts(i) PROVE RadioInOrder'
  BY <1>1, <1>10, NamedInOrder, StreamInOrderStarts
<1>11. ASSUME NEW i \in DOMAIN calls, PlayFails(i) PROVE RadioInOrder'
  BY <1>1, <1>11, PlayFailsInOrder
<1>12. ASSUME NEW i \in DOMAIN calls, PlayingNow(i) PROVE RadioInOrder'
  BY <1>1, <1>12, PlayingInOrder
<1>13. ASSUME NEW i \in DOMAIN calls, RadioStops(i) \/ Stopped(i) PROVE RadioInOrder'
  BY <1>1, <1>13, BackendStopsInOrder, StoppedInOrder
<1>14. ASSUME NEW i \in DOMAIN calls, NowPlayingArrives(i) PROVE RadioInOrder'
  BY <1>1, <1>14, TitleInOrder
<1>15. ASSUME NEW h \in intervals, Poll(h) PROVE RadioInOrder'
  BY <1>1, <1>15, PollInOrder
<1>16. ASSUME NEW r \in streams, StreamBreaks(r) PROVE RadioInOrder'
  BY <1>1, <1>16, BreakInOrder
<1>17. ASSUME NEW r \in streams, NEW titled \in BOOLEAN, StreamReads(r, titled) PROVE RadioInOrder'
  BY <1>1, <1>17, ReadInOrder
<1>18. CASE UNCHANGED radioVars
  <2>1. /\ UNCHANGED <<visible, currentView, content, favorites, custom, calls, crossed>>
        /\ UNCHANGED <<radioPlaying, nowPlaying, nowPlayingInterval, intervals>>
        /\ UNCHANGED <<onAir, station, streams, cached>>
    BY <1>18 DEF radioVars
  <2>2. PlayInOrder'
    BY <2>1 DEF RadioInOrder, PlayInOrder, OneSource, PlayPromise
  <2>3. AirInOrder'
    BY <2>1 DEF RadioInOrder, AirInOrder, AirAgrees, AirPromise
  <2>4. ViewInOrder'
    BY <2>1 DEF RadioInOrder, ViewInOrder, TabTrue, ViewPromise
  <2>5. ViewTyped' /\ AirTyped' /\ BackendTyped'
    BY <2>1 DEF RadioInOrder, RadioTypes, ViewTyped, AirTyped, BackendTyped
  <2> QED
    BY <1>1, <2>1, <2>2, <2>3, <2>4, <2>5 DEF RadioInOrder, RadioTypes
<1> QED
  BY <1>2, <1>3, <1>4, <1>5, <1>6, <1>7, <1>8, <1>9, <1>10, <1>11, <1>12, <1>13, <1>14, <1>15,
     <1>16, <1>17, <1>18 DEF RadioNext

\* Radio calls stay in order: what panel, backend and readers do while at most one
\* call is under way leaves each in the state that the others rely on.
THEOREM RadioInvariance == RadioSpec => []RadioInOrder
BY RadioStart, RadioStep, PTL DEF RadioSpec

\* What the runs' type invariant of the radio says.
THEOREM RadioTypeCorrect == RadioSpec => []RadioTypeOK
<1>1. RadioInOrder => RadioTypeOK
  BY RadioCallsTyped DEF RadioInOrder, RadioTypes, ViewTyped, AirTyped, BackendTyped, RadioTypeOK,
                         Contents, Crossings
<1> QED
  BY <1>1, RadioInvariance, PTL

\* radio.rs, commands/radio.rs: with any stations, panels and titles in between, one
\* station is read into the cache, unless plays overlapped or a reader overslept.
THEOREM OneStationIsRead == RadioSpec => []OneStation
<1>1. RadioInOrder => OneStation
  BY DEF RadioInOrder, PlayInOrder, OneSource, PlayPromise, OneStation
<1> QED
  BY <1>1, RadioInvariance, PTL

\* RadioPanel.ts: at rest the panel and the backend agree on whether a station plays,
\* and on which, unless the calls about it overlapped or failed.
THEOREM PanelAndBackendAgree == RadioSpec => []OnAirIsTrue
<1>1. RadioInOrder => OnAirIsTrue
  <2> SUFFICES ASSUME RadioInOrder, ~crossed["air"], ~Pending(AirCalls)
               PROVE  AirAgrees
    BY DEF OnAirIsTrue, AirAgrees
  <2>1. NoneOf(calls, AirOnes)
    BY PendingOnes DEF RadioInOrder
  <2> QED
    BY <2>1 DEF RadioInOrder, AirInOrder, Sole, NoneOf
<1> QED
  BY <1>1, RadioInvariance, PTL

\* RadioPanel.ts: at rest the panel shows the tab that is lit, with the list that the
\* backend stores, unless renders overlapped or failed.
THEOREM TabIsTrue == RadioSpec => []TabShowsItsList
<1>1. RadioInOrder => TabShowsItsList
  <2> SUFFICES ASSUME RadioInOrder, visible, ~crossed["view"], ~Pending(ViewCalls)
               PROVE  TabTrue
    BY DEF TabShowsItsList, TabTrue
  <2>1. NoneOf(calls, ViewOnes)
    BY PendingOnes DEF RadioInOrder
  <2> QED
    BY <2>1 DEF RadioInOrder, ViewInOrder, Sole, NoneOf
<1> QED
  BY <1>1, RadioInvariance, PTL
=============================================================================
